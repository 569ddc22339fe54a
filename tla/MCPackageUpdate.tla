----------------------------- MODULE MCPackageUpdate -----------------------------
(* The second version changes the helper and one file of the update, and adds   *)
(* another.                                                                      *)
EXTENDS PackageUpdate, TLC

MCFiles    == {"helper", "gui", "tray"}
MCVersions == {1, 2}
MCPayload  == 1 :> ("helper" :> "h1" @@ "gui" :> "g1")
           @@ 2 :> ("helper" :> "h2" @@ "gui" :> "g2" @@ "tray" :> "t2")
MCUiFiles  == {"gui", "tray"}
=============================================================================
