------------------------- MODULE MCPackageTransaction -------------------------
(* Two versions of the package: the second changes one file, keeps one and    *)
(* drops one; a third file system path belongs to nobody.                      *)
EXTENDS PackageTransaction, TLC

MCFiles    == {"helper", "policy", "gui"}
MCVersions == {1, 2}
MCPayload  == 1 :> ("helper" :> "h1" @@ "policy" :> "p1" @@ "gui" :> "g1")
           @@ 2 :> ("helper" :> "h2" @@ "policy" :> "p1")
=============================================================================
