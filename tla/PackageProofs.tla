----------------------------- MODULE PackageProofs -----------------------------
(***************************************************************************)
(* Proofs about PackageTransaction and PackageUpdate for every set of      *)
(* files, every set of versions and whatever each of them installs.        *)
(***************************************************************************)
EXTENDS PackageUpdate, TLAPS

\* TypeOK, whatever the receipts may be: a partial update makes new ones.
TypesOver(R) ==
  /\ disk \in [Files -> Disk] /\ receipt \in R
  /\ session \in BOOLEAN /\ credentials \in BOOLEAN /\ purge \in BOOLEAN /\ interrupted \in BOOLEAN
  /\ runtime \in {"none", "clean", "dirty", "journal"} /\ stray \in BOOLEAN /\ strayed \in BOOLEAN
  /\ at \in {"idle", "stop", "lock"} \cup Locked
  /\ target \in Receipts \cup {NoReceipt}
  /\ todo \subseteq Files /\ changed \subseteq Files /\ raced \subseteq Files
  /\ prior \in [disk : [Files -> Disk], receipt : R]
  /\ edits \in 0..MaxEdits

\* Receipts name files of the application only.
Naming(R) == Receipts \cup {NoReceipt} \subseteq R /\ \A r \in R : DOMAIN r \subseteq Files

Sane(d, f) == d[f] \in {"absent", "edited"}

\* Every file holds what the receipt says, or nothing, or somebody's edit.
Holds(d, r) == \A f \in Files : Sane(d, f) \/ (Owns(r, f) /\ d[f] = r[f])

\* install() only ever writes files of the version it installs.
Writing ==
  at \in {"copy", "refresh", "rollback"} =>
    target \in Receipts /\ todo \subseteq DOMAIN target /\ changed \subseteq DOMAIN target

\* What a file holds between install()'s check and its end: what it held when it
\* was checked, or what is installed now, or what somebody made of it since.
Installing ==
  /\ Holds(prior.disk, prior.receipt) /\ DOMAIN prior.receipt \subseteq DOMAIN target
  /\ \A f \in DOMAIN target : f \in todo \cup changed \/ prior.disk[f] = target[f] \/ at = "rollback"
  /\ \A f \in Files : Sane(disk, f) \/ disk[f] = (IF f \in changed THEN target ELSE prior.disk)[f]

Stable == {"idle", "stop", "lock", "remove", "runtime", "rmdir", "purge"}

Progress ==
  /\ at \in Stable => Holds(disk, receipt)
  /\ at = "remove" => \A f \in DOMAIN receipt : f \in todo \/ Sane(disk, f)
  /\ at \in {"copy", "refresh", "rollback"} => Installing
  /\ at = "copy" => receipt = prior.receipt
  /\ at = "refresh" => receipt = target /\ todo = {}
  /\ at = "rollback" => receipt \in {target, prior.receipt}

\* Who may turn the hotspot on beside package.py was about when it looked for one.
Exclusive == at \in Excluding /\ (session \/ stray) => strayed

Inv ==
  /\ TypeOK
  /\ Exclusive
  /\ Writing
  /\ ~interrupted => Progress
-----------------------------------------------------------------------------
\* What the assumption on the payloads says of a receipt.
LEMMA ReceiptFacts ==
  ASSUME NEW r \in Receipts
  PROVE  /\ r # NoReceipt /\ DOMAIN r \subseteq Files
         /\ \A f \in DOMAIN r : r[f] \in Contents /\ r[f] \notin {"absent", "edited"}
<1>1. PICK v \in Versions : r = Payload[v]
  BY DEF Receipts
<1>2. DOMAIN r # {} /\ DOMAIN r \subseteq Files
  BY <1>1, PayloadAssumption
<1>3. DOMAIN NoReceipt = {}
  BY DEF NoReceipt
<1>4. r # NoReceipt
  BY <1>2, <1>3
<1>5. \A f \in DOMAIN r : r[f] \in Contents
  BY <1>1 DEF Contents
<1> QED BY <1>2, <1>4, <1>5, PayloadAssumption

\* Nothing is installed, nothing runs, and nothing is recorded.
LEMMA InvInit == Init => Inv
<1> SUFFICES ASSUME Init PROVE Inv
  OBVIOUS
<1>1. TypeOK
  <2>1. disk \in [Files -> Disk]
    BY DEF Init, Disk
  <2>2. prior \in [disk : [Files -> Disk], receipt : Receipts \cup {NoReceipt}]
    BY <2>1 DEF Init
  <2>3. edits \in 0..MaxEdits
    BY PayloadAssumption DEF Init
  <2> HIDE DEF Disk
  <2> QED BY <2>1, <2>2, <2>3 DEF Init, TypeOK, Locked
<1>2. Exclusive /\ Writing
  BY DEF Init, Exclusive, Writing
<1>3. Progress
  BY DEF Init, Progress, Holds, Sane, Owns
<1> QED BY <1>1, <1>2, <1>3 DEF Inv

\* Types, and what install() may write, step by step.
LEMMA TypesStep ==
  ASSUME NEW R, Naming(R), TypesOver(R), Writing, [Next]_vars
  PROVE  TypesOver(R)' /\ Writing'
<1> USE DEF Naming, TypesOver, Writing, Locked, Goto, Here, Steady, Looked
<1>1. ASSUME NEW v \in Versions, InstallCheck(v) PROVE TypesOver(R)' /\ Writing'
  <2>1. Payload[v] \in Receipts /\ DOMAIN Payload[v] \subseteq Files
    BY PayloadAssumption DEF Receipts
  <2>2. todo' \subseteq DOMAIN Payload[v] /\ changed' = {} /\ target' = Payload[v]
    BY <1>1 DEF InstallCheck
  <2>3. TypesOver(R)'
    BY <1>1, <2>1, <2>2 DEF InstallCheck
  <2> QED BY <2>1, <2>2, <2>3
<1>2. ASSUME NEW f \in Files, Copy(f) PROVE TypesOver(R)' /\ Writing'
  <2>1. target[f] \in Disk
    BY <1>2, ReceiptFacts DEF Copy, Disk
  <2> QED BY <1>2, <2>1 DEF Copy
<1>3. ASSUME NEW f \in Files, Rollback(f) PROVE TypesOver(R)' /\ Writing'
  <2>1. prior.disk[f] \in Disk
    OBVIOUS
  <2> QED BY <1>3, <2>1 DEF Rollback
<1>4. CASE CopyManifest
  BY <1>4 DEF CopyManifest
<1>5. CASE RefreshTools \/ InstallFails \/ RollbackEnds
  BY <1>5 DEF RefreshTools, InstallFails, RollbackEnds
<1>6. CASE RollbackManifest
  BY <1>6 DEF RollbackManifest
<1>7. ASSUME NEW v \in Versions, UninstallBegin(v) PROVE TypesOver(R)' /\ Writing'
  BY <1>7 DEF UninstallBegin
<1>8. ASSUME NEW v \in Versions, UninstallCheck(v) PROVE TypesOver(R)' /\ Writing'
  <2> QED BY <1>8 DEF UninstallCheck
<1>9. ASSUME NEW f \in Files, Remove(f) PROVE TypesOver(R)' /\ Writing'
  BY <1>9 DEF Remove, Disk
<1>10. CASE Stop \/ RemoveManifest \/ RetirePrivate \/ RetireRuntime \/ Purge
  BY <1>10 DEF Stop, RemoveManifest, RetirePrivate, RetireRuntime, Purge
<1>11. CASE Ends \/ Killed
  BY <1>11 DEF Ends, Killed, Halfway
<1>12. CASE UseHotspot \/ StrayLeaves
  <2>1. runtime' \in {"none", "clean", "dirty", "journal"}
    BY <1>12 DEF UseHotspot, StrayLeaves
  <2>2. session' \in BOOLEAN /\ credentials' \in BOOLEAN /\ stray' \in BOOLEAN /\ strayed' \in BOOLEAN
    BY <1>12 DEF UseHotspot, StrayLeaves
  <2>3. UNCHANGED <<disk, receipt, package, interrupted, raced, edits>>
    BY <1>12 DEF UseHotspot, StrayLeaves
  <2> QED BY <2>1, <2>2, <2>3 DEF package
<1>13. ASSUME NEW f \in Files, EditFile(f) PROVE TypesOver(R)' /\ Writing'
  <2>1. disk' \in [Files -> Disk]
    BY <1>13 DEF EditFile, Disk
  <2> QED BY <1>13, <2>1, PayloadAssumption DEF EditFile, package
<1>14. CASE UNCHANGED vars
  BY <1>14 DEF vars, package
<1> QED
  BY <1>1, <1>2, <1>3, <1>4, <1>5, <1>6, <1>7, <1>8, <1>9, <1>10, <1>11, <1>12, <1>13, <1>14
     DEF Next, Install, Uninstall

LEMMA Receipted == Naming(Receipts \cup {NoReceipt}) /\ (TypeOK <=> TypesOver(Receipts \cup {NoReceipt}))
<1>1. DOMAIN NoReceipt = {}
  BY DEF NoReceipt
<1> QED BY <1>1, ReceiptFacts DEF Naming, TypeOK, TypesOver

LEMMA TypeStep == TypeOK /\ Writing /\ [Next]_vars => TypeOK' /\ Writing'
<1> SUFFICES ASSUME TypeOK, Writing, [Next]_vars PROVE TypeOK' /\ Writing'
  OBVIOUS
<1> DEFINE R == Receipts \cup {NoReceipt}
<1>1. Naming(R) /\ TypesOver(R)
  BY Receipted
<1>2. TypesOver(R)' => TypeOK'
  BY DEF TypesOver, TypeOK
<1> HIDE DEF R
<1>3. TypesOver(R)' /\ Writing'
  BY <1>1, TypesStep
<1> QED BY <1>2, <1>3

\* A session begins outside the lock, or by a helper with the lock of a removed
\* directory; and the lock is followed by a look at whether there is a session.
LEMMA ExclusiveStep == Exclusive /\ [Next]_vars => Exclusive'
<1> USE DEF Exclusive, Excluding, Locked, Goto, Here, Inactive, Looked
<1> SUFFICES ASSUME Exclusive, [Next]_vars PROVE Exclusive'
  OBVIOUS
<1>1. CASE Install
  BY <1>1 DEF Install, InstallCheck, Copy, Rollback, CopyManifest, RefreshTools, InstallFails,
              RollbackManifest, RollbackEnds
<1>2. CASE Uninstall
  <2>1. CASE \E v \in Versions : UninstallCheck(v)
    BY <2>1 DEF UninstallCheck
  <2>2. CASE (\E v \in Versions : UninstallBegin(v)) \/ Stop \/ RetirePrivate \/ RetireRuntime \/ Purge
    BY <2>2 DEF UninstallBegin, Stop, RetirePrivate, RetireRuntime, Purge
  <2>3. CASE (\E f \in Files : Remove(f)) \/ RemoveManifest
    BY <2>3 DEF Remove, RemoveManifest
  <2> QED BY <1>2, <2>1, <2>2, <2>3 DEF Uninstall
<1>3. CASE Ends \/ Killed
  BY <1>3 DEF Ends, Killed
<1>4. CASE UseHotspot \/ StrayLeaves
  BY <1>4 DEF UseHotspot, StrayLeaves, package
<1>5. ASSUME NEW f \in Files, EditFile(f) PROVE Exclusive'
  BY <1>5 DEF EditFile, package
<1>6. CASE UNCHANGED vars
  BY <1>6 DEF vars, package
<1> QED BY <1>1, <1>2, <1>3, <1>4, <1>5, <1>6 DEF Next

\* The files, step by step, unless this step or one before it was cut off.
LEMMA ProgressStep ==
  ASSUME NEW R, Naming(R), TypesOver(R), Writing, Progress, ~interrupted, ~interrupted', [Next]_vars
  PROVE  Progress'
<1> USE DEF Progress, Stable, Goto, Here, Steady
<1>1. ASSUME NEW v \in Versions, InstallCheck(v) PROVE Progress'
  <2> DEFINE r == Payload[v]
  <2>1. r \in Receipts
    BY DEF Receipts
  <2>2. Holds(disk, receipt)
    BY <1>1 DEF InstallCheck
  <2>3. CASE todo' = {} /\ receipt = r
    BY <1>1, <2>2, <2>3 DEF InstallCheck, Holds, Sane, Owns
  <2>4. CASE at' = "copy"
    <3>1. Installing'
      BY <1>1, <2>2, <2>4 DEF InstallCheck, Installing, Known, Holds, Sane, Owns
    <3> QED BY <1>1, <2>4, <3>1 DEF InstallCheck
  <2> QED BY <1>1, <2>3, <2>4 DEF InstallCheck
<1>2. ASSUME NEW f \in Files, Copy(f) PROVE Progress'
  <2>1. Installing'
    BY <1>2 DEF Copy, Installing, TypesOver, Writing, Sane
  <2> QED BY <1>2, <2>1 DEF Copy
<1>3. CASE CopyManifest
  <2>1. Installing'
    BY <1>3 DEF CopyManifest, Installing, Sane
  <2> QED BY <1>3, <2>1 DEF CopyManifest
<1>4. CASE RefreshTools
  <2>1. \A f \in Files : Sane(disk, f) \/ (Owns(receipt, f) /\ disk[f] = receipt[f])
    BY <1>4 DEF RefreshTools, Installing, Holds, Writing, Sane, Owns
  <2> QED BY <1>4, <2>1 DEF RefreshTools, Holds, Sane, Owns
<1>5. CASE InstallFails
  BY <1>5 DEF InstallFails, Installing, Sane
<1>6. CASE RollbackManifest
  BY <1>6 DEF RollbackManifest, Installing, Sane
<1>7. ASSUME NEW f \in Files, Rollback(f) PROVE Progress'
  <2>1. Installing'
    BY <1>7 DEF Rollback, Installing, TypesOver, Sane
  <2> QED BY <1>7, <2>1 DEF Rollback
<1>8. CASE RollbackEnds
  BY <1>8 DEF RollbackEnds, Installing, Holds, Sane, Owns
<1>9. CASE (\E v \in Versions : UninstallBegin(v)) \/ Stop
  BY <1>9 DEF UninstallBegin, Stop, Holds, Sane, Owns
<1>10. ASSUME NEW v \in Versions, UninstallCheck(v) PROVE Progress'
  BY <1>10 DEF UninstallCheck, Holds, Sane, Owns
<1>11. ASSUME NEW f \in Files, Remove(f) PROVE Progress'
  BY <1>11 DEF Remove, Holds, TypesOver, Sane, Owns
<1>12. CASE RemoveManifest
  <2>1. \A f \in Files : Sane(disk, f)
    BY <1>12 DEF RemoveManifest, Holds, Sane, Owns
  <2> QED BY <1>12, <2>1 DEF RemoveManifest, Holds, Sane
<1>13. CASE RetirePrivate \/ RetireRuntime \/ Purge
  BY <1>13 DEF RetirePrivate, RetireRuntime, Purge, Holds, Sane, Owns
<1>14. CASE Ends
  BY <1>14 DEF Ends, Halfway, Holds, Sane, Owns, TypesOver, Locked
<1>15. CASE Killed
  BY <1>15 DEF Killed
<1>16. CASE UseHotspot \/ StrayLeaves
  BY <1>16 DEF UseHotspot, StrayLeaves, package, Holds, Installing, Sane, Owns
<1>17. ASSUME NEW f \in Files, EditFile(f) PROVE Progress'
  <2>1. \A g \in Files : Sane(disk', g) \/ disk'[g] = disk[g]
    BY <1>17 DEF EditFile, TypesOver, Sane
  <2>2. UNCHANGED <<receipt, at, purge, target, todo, changed, prior, interrupted>>
    BY <1>17 DEF EditFile, package
  <2>3. \A g \in Files : Sane(disk, g) => Sane(disk', g)
    BY <1>17 DEF EditFile, TypesOver, Sane
  <2>4. Holds(disk, receipt) => Holds(disk, receipt)'
    BY <2>1, <2>2, <2>3 DEF Holds, Sane, Owns
  <2>5. Installing => Installing'
    BY <2>1, <2>2, <2>3 DEF Installing, Holds, Sane, Owns
  <2>6. at = "remove" => \A g \in DOMAIN receipt : g \in Files
    BY DEF TypesOver, Naming
  <2> QED BY <2>2, <2>3, <2>4, <2>5, <2>6 DEF Sane
<1>18. CASE UNCHANGED vars
  BY <1>18 DEF vars, package, Holds, Installing, Sane, Owns
<1> QED
  BY <1>1, <1>2, <1>3, <1>4, <1>5, <1>6, <1>7, <1>8, <1>9, <1>10, <1>11, <1>12, <1>13, <1>14,
     <1>15, <1>16, <1>17, <1>18
     DEF Next, Install, Uninstall

\* Nothing makes a cut-off undone.
LEMMA InterruptedStep == interrupted /\ [Next]_vars => interrupted'
<1> SUFFICES ASSUME interrupted, [Next]_vars PROVE interrupted'
  OBVIOUS
<1> QED
  BY DEF Next, vars, package, Install, Uninstall, InstallCheck, Copy, Rollback, CopyManifest,
         RefreshTools, InstallFails, RollbackManifest, RollbackEnds, UninstallBegin,
         UninstallCheck, Remove, Stop, RemoveManifest, RetirePrivate, RetireRuntime, Purge,
         Ends, Killed, UseHotspot, StrayLeaves, EditFile

\* Inv is inductive.
LEMMA InvStep == Inv /\ [Next]_vars => Inv'
<1> SUFFICES ASSUME Inv, [Next]_vars PROVE Inv'
  OBVIOUS
<1>1. ~interrupted' => Progress'
  BY Receipted, ProgressStep, InterruptedStep DEF Inv
<1> QED BY <1>1, TypeStep, ExclusiveStep DEF Inv

\* In every reachable state of every installation the types hold, no hotspot starts
\* beside an action that did not see who may start it, install() writes only what it has checked or written itself,
\* and, unless one was cut off, every action is where its files say it is.
THEOREM Invariance == Spec => []Inv
<1>1. Inv /\ [Next]_vars => Inv'
  BY InvStep
<1> QED BY <1>1, InvInit, PTL DEF Spec

\* TypeOK holds for whatever the versions install.
THEOREM PackageTypes == Spec => []TypeOK
<1>1. Inv => TypeOK
  BY DEF Inv
<1> QED BY <1>1, Invariance, PTL

\* From the check of an action to the end of its work on the files, no hotspot runs
\* beside it (package.py:95-102, 304-309), unless at the check a helper was about whose
\* lock is that of a directory that an earlier removal took away (package.py:220-223).
THEOREM FilesAtRest == Spec => []NotWhileActive
<1>1. Inv => NotWhileActive
  BY DEF Inv, Exclusive, NotWhileActive
<1> QED BY <1>1, Invariance, PTL

\* Between actions the receipt accounts for every file of the application, unless
\* one was cut off (package.py:131-178).
THEOREM EverythingAccounted == Spec => []Accounted
<1>1. Inv => Accounted
  BY DEF Inv, Progress, Stable, Holds, Sane, Accounted
<1> QED BY <1>1, Invariance, PTL
-----------------------------------------------------------------------------
\* What is written over or deleted, also by an action that is cut off later: a file
\* that was not raced holds what it held when it was checked, unless install() has
\* written it, and what it held then the receipt vouches for.
Vouched ==
  /\ at \in {"copy", "refresh", "rollback"} =>
       /\ \A f \in Files \ raced : f \in changed \/ disk[f] = prior.disk[f]
       /\ \A f \in DOMAIN target :
            prior.disk[f] = "absent" \/ (Owns(prior.receipt, f) /\ prior.disk[f] = prior.receipt[f])
  /\ at = "remove" =>
       /\ todo \subseteq DOMAIN prior.receipt
       /\ \A f \in todo \ raced : disk[f] = prior.receipt[f]

LEMMA VouchedStep == Inv /\ Vouched /\ [Next]_vars => Vouched'
<1> SUFFICES ASSUME Inv, Vouched, [Next]_vars PROVE Vouched'
  OBVIOUS
<1>0. TypeOK /\ Writing
  BY DEF Inv
<1>1. ASSUME NEW v \in Versions, InstallCheck(v) PROVE Vouched'
  <2>1. /\ target' = Payload[v] /\ prior' = [disk |-> disk, receipt |-> receipt]
        /\ Unmodified /\ Unclaimed(v) /\ disk' = disk /\ at' \in {"idle", "copy"}
    BY <1>1 DEF InstallCheck, Goto
  <2>2. DOMAIN target' \subseteq Files
    BY <2>1, PayloadAssumption
  <2>3. \A f \in DOMAIN target' : disk[f] = "absent" \/ (Owns(receipt, f) /\ disk[f] = receipt[f])
    BY <2>1, <2>2 DEF Unmodified, Unclaimed
  <2> QED BY <2>1, <2>3 DEF Vouched, Owns
<1>2. ASSUME NEW f \in Files, Copy(f) PROVE Vouched'
  BY <1>2, <1>0 DEF Vouched, Copy, Steady, TypeOK, Owns
<1>3. ASSUME NEW f \in Files, Rollback(f) PROVE Vouched'
  BY <1>3, <1>0 DEF Vouched, Rollback, Steady, TypeOK, Owns
<1>4. CASE CopyManifest \/ RefreshTools \/ InstallFails \/ RollbackManifest \/ RollbackEnds
  BY <1>4 DEF Vouched, CopyManifest, RefreshTools, InstallFails, RollbackManifest, RollbackEnds,
              Goto, Steady, Owns
<1>5. ASSUME NEW v \in Versions, UninstallCheck(v) PROVE Vouched'
  <2>1. /\ at' = "remove" /\ todo' = DOMAIN receipt /\ prior'.receipt = receipt /\ disk' = disk
        /\ Unmodified /\ DOMAIN receipt \subseteq DOMAIN Payload[v]
    BY <1>5 DEF UninstallCheck, Goto, Known
  <2>2. \A f \in DOMAIN receipt : disk[f] = receipt[f]
    BY <2>1, PayloadAssumption DEF Unmodified, Owns
  <2> QED BY <2>1, <2>2 DEF Vouched
<1>6. ASSUME NEW f \in Files, Remove(f) PROVE Vouched'
  BY <1>6, <1>0 DEF Vouched, Remove, Steady, TypeOK
<1>7. ASSUME NEW v \in Versions, UninstallBegin(v) PROVE Vouched'
  BY <1>7 DEF Vouched, UninstallBegin, Goto
<1>8. CASE Stop \/ RemoveManifest \/ RetirePrivate \/ RetireRuntime \/ Purge \/ Ends \/ Killed
  BY <1>8 DEF Vouched, Stop, RemoveManifest, RetirePrivate, RetireRuntime, Purge, Ends, Killed, Goto
<1>9. CASE UseHotspot \/ StrayLeaves
  BY <1>9 DEF Vouched, UseHotspot, StrayLeaves, package, Owns
<1>10. ASSUME NEW f \in Files, EditFile(f) PROVE Vouched'
  <2>1. PICK c \in {"edited", "absent"} : disk' = [disk EXCEPT ![f] = c]
    BY <1>10 DEF EditFile
  <2>2. /\ raced' = IF at \in Locked THEN raced \cup {f} ELSE raced
        /\ UNCHANGED <<at, target, todo, changed, prior>>
    BY <1>10 DEF EditFile, package
  <2> QED BY <2>1, <2>2, <1>0 DEF Vouched, Locked, TypeOK, Owns
<1>11. CASE UNCHANGED vars
  BY <1>11 DEF Vouched, vars, package, Owns
<1> QED
  BY <1>1, <1>2, <1>3, <1>4, <1>5, <1>6, <1>7, <1>8, <1>9, <1>10, <1>11 DEF Next, Install, Uninstall

LEMMA AlwaysVouched == Spec => []Vouched
<1>1. Init => Vouched
  BY DEF Init, Vouched
<1> QED BY <1>1, VouchedStep, Invariance, PTL DEF Spec

\* Also after a cut-off, nothing is overwritten or deleted that the receipt does not
\* vouch for, whatever the versions install and whoever edits (package.py:128-137).
THEOREM OwnFilesOnly == Spec => OnlyOwnFiles
<1> DEFINE Own == \A f \in Files \ raced :
                    disk'[f] # disk[f] /\ disk[f] # "absent" /\ edits' = edits =>
                      \/ Owns(prior.receipt, f) /\ disk[f] = prior.receipt[f]
                      \/ f \in changed
<1>1. Inv /\ Vouched /\ [Next]_vars => Own
  <2> SUFFICES ASSUME Inv, Vouched, [Next]_vars, NEW g \in Files \ raced,
                      disk'[g] # disk[g], disk[g] # "absent", edits' = edits
               PROVE  \/ Owns(prior.receipt, g) /\ disk[g] = prior.receipt[g]
                      \/ g \in changed
    OBVIOUS
  <2>0. TypeOK /\ Writing
    BY DEF Inv
  <2>1. ASSUME NEW f \in Files, Copy(f)
               PROVE (Owns(prior.receipt, g) /\ disk[g] = prior.receipt[g]) \/ g \in changed
    <3>1. g = f /\ f \in DOMAIN target /\ at = "copy"
      BY <2>0, <2>1 DEF Copy, Writing, TypeOK
    <3> QED BY <3>1 DEF Vouched
  <2>2. ASSUME NEW f \in Files, Rollback(f) PROVE g \in changed
    BY <2>0, <2>2 DEF Rollback, TypeOK
  <2>3. ASSUME NEW f \in Files, Remove(f) PROVE Owns(prior.receipt, g) /\ disk[g] = prior.receipt[g]
    <3>1. g = f /\ f \in todo /\ at = "remove"
      BY <2>0, <2>3 DEF Remove, TypeOK
    <3> QED BY <3>1 DEF Vouched, Owns
  <2>4. ASSUME NEW f \in Files, EditFile(f) PROVE FALSE
    BY <2>0, <2>4 DEF EditFile, TypeOK
  <2>5. \/ (\E f \in Files : Copy(f) \/ Rollback(f) \/ Remove(f) \/ EditFile(f))
    BY DEF Next, Install, Uninstall, InstallCheck, CopyManifest, RefreshTools, InstallFails,
           RollbackManifest, RollbackEnds, UninstallBegin, UninstallCheck, Stop, RemoveManifest,
           RetirePrivate, RetireRuntime, Purge, Ends, Killed, UseHotspot, StrayLeaves, vars
  <2> QED BY <2>1, <2>2, <2>3, <2>4, <2>5
<1>2. Inv /\ Vouched /\ [Next]_vars => [Own]_vars
  BY <1>1
<1> QED BY <1>2, Invariance, AlwaysVouched, PTL DEF Spec, OnlyOwnFiles

\* An install that fails and says so leaves the files and the receipt that were there
\* before, whatever it had written (package.py:169-177).
THEOREM InstallRollsBack == Spec => RollsBack
<1> DEFINE Back == at = "rollback" /\ at' = "idle" /\ ~interrupted' =>
                     receipt' = prior.receipt /\ \A f \in Files \ raced : disk'[f] = prior.disk[f]
<1>1. Inv /\ Vouched /\ [Next]_vars => Back
  <2> SUFFICES ASSUME Inv, Vouched, [Next]_vars, at = "rollback", at' = "idle", ~interrupted'
               PROVE  receipt' = prior.receipt /\ \A f \in Files \ raced : disk'[f] = prior.disk[f]
    OBVIOUS
  <2>1. ~Ends /\ ~Killed
    BY DEF Ends, Killed, Halfway
  <2>2. RollbackEnds
    BY <2>1 DEF Next, Install, Uninstall, InstallCheck, Copy, CopyManifest, RefreshTools, InstallFails,
                RollbackManifest, Rollback, UninstallBegin, UninstallCheck, Remove, Stop, RemoveManifest,
                RetirePrivate, RetireRuntime, Purge, UseHotspot, StrayLeaves, EditFile, vars,
                package, Goto
  <2> QED BY <2>2 DEF RollbackEnds, Vouched
<1>2. Inv /\ Vouched /\ [Next]_vars => [Back]_vars
  BY <1>1
<1> QED BY <1>2, Invariance, AlwaysVouched, PTL DEF Spec, RollsBack
-----------------------------------------------------------------------------
(* Partial updates. *)

\* The receipts that updates make of others.
Ledgers == Receipts \cup {NoReceipt} \cup UNION {[D -> Contents] : D \in SUBSET Files}

UpdateTypes ==
  /\ TypesOver(Ledgers) /\ Writing
  /\ up \in {"idle", "copy", "rollback"}
  /\ record \in Ledgers
  /\ pending \cup written \subseteq DOMAIN record \cup {Manifest}
  /\ before \in [disk : [Files -> Disk], receipt : Ledgers]

\* Where an updater is, if package.py has kept away from it.
Overtaken == up # "idle" /\ at \in Locked
Updating ==
  /\ Holds(before.disk, before.receipt)
  /\ \A f \in DOMAIN before.receipt : f \in DOMAIN record /\ (f \notin UiFiles => record[f] = before.receipt[f])
  /\ receipt = IF Manifest \in written THEN record ELSE before.receipt
  /\ \A f \in Files : \/ disk[f] = (IF f \in written THEN record ELSE before.disk)[f]
                      \/ Sane(disk, f) /\ f \in touched
  /\ up = "copy" => Manifest \in pending \cup written \/ record = before.receipt

UpdateInv ==
  /\ UpdateTypes
  /\ ~crossed => ~Overtaken
  /\ ~crossed /\ ~interrupted => IF up = "idle" THEN Progress ELSE Updating

LEMMA LedgerFacts == Naming(Ledgers) /\ \A r \in Ledgers : \A f \in DOMAIN r : r[f] \in Contents
<1>1. DOMAIN NoReceipt = {}
  BY DEF NoReceipt
<1>2. ASSUME NEW r \in Ledgers PROVE DOMAIN r \subseteq Files /\ \A f \in DOMAIN r : r[f] \in Contents
  BY <1>1, ReceiptFacts DEF Ledgers
<1>3. Receipts \cup {NoReceipt} \subseteq Ledgers
  BY DEF Ledgers
<1> QED BY <1>2, <1>3 DEF Naming

\* A merged receipt is one, and keeps what it does not replace.
LEMMA MergedFacts ==
  ASSUME NEW v \in Versions, receipt \in Ledgers
  PROVE  /\ Merged(v) \in Ledgers
         /\ DOMAIN Merged(v) = DOMAIN receipt \cup Mapping(v)
         /\ Mapping(v) \subseteq UiFiles
         /\ \A f \in DOMAIN Merged(v) : Merged(v)[f] = IF f \in Mapping(v) THEN Payload[v][f] ELSE receipt[f]
<1>1. Payload[v] \in Receipts /\ Mapping(v) \subseteq DOMAIN Payload[v] /\ Mapping(v) \subseteq UiFiles
  BY DEF Receipts, Mapping
<1>2. DOMAIN Payload[v] \subseteq Files /\ \A f \in DOMAIN Payload[v] : Payload[v][f] \in Contents
  BY <1>1, ReceiptFacts
<1>3. DOMAIN receipt \subseteq Files /\ \A f \in DOMAIN receipt : receipt[f] \in Contents
  BY LedgerFacts DEF Naming
<1>4. Merged(v) \in [DOMAIN receipt \cup Mapping(v) -> Contents]
  BY <1>1, <1>2, <1>3 DEF Merged
<1>5. DOMAIN receipt \cup Mapping(v) \in SUBSET Files
  BY <1>1, <1>2, <1>3
<1> QED BY <1>1, <1>4, <1>5 DEF Ledgers, Merged

LEMMA UpdateBegins == UpdateInit => UpdateInv
<1> SUFFICES ASSUME UpdateInit PROVE UpdateInv
  OBVIOUS
<1>1. Inv /\ Progress
  BY InvInit DEF UpdateInit, Init, Inv
<1>2. TypesOver(Ledgers)
  BY <1>1, LedgerFacts DEF Inv, TypeOK, TypesOver, Naming
<1>3. UpdateTypes
  BY <1>1, <1>2, LedgerFacts DEF Inv, UpdateInit, UpdateTypes, TypesOver, Naming
<1> QED BY <1>1, <1>3 DEF UpdateInit, UpdateInv, Overtaken

\* Whatever package.py or the administrator does.
LEMMA OthersStep == UpdateInv /\ Others => UpdateInv'
<1> SUFFICES ASSUME UpdateInv, Others PROVE UpdateInv'
  OBVIOUS
<1>1. Next /\ UNCHANGED <<up, record, pending, written, before>>
      /\ crossed' = (crossed \/ (up # "idle" /\ at' \in Locked))
  BY DEF Others, Next
<1>2. UpdateTypes'
  BY <1>1, LedgerFacts, TypesStep DEF UpdateInv, UpdateTypes
<1>3. ~crossed' => ~crossed /\ ~Overtaken'
  BY <1>1 DEF Overtaken
<1>4. ASSUME ~crossed', ~interrupted', up = "idle" PROVE Progress'
  BY <1>1, <1>3, <1>4, LedgerFacts, ProgressStep, InterruptedStep DEF UpdateInv, UpdateTypes
<1>5. ASSUME ~crossed', ~interrupted', up # "idle" PROVE Updating'
  <2>1. at \notin Locked /\ at' \notin Locked /\ Updating /\ TypesOver(Ledgers)
    BY <1>1, <1>3, <1>5, InterruptedStep DEF UpdateInv, Overtaken, UpdateTypes
  <2>2. CASE \E f \in Files : EditFile(f)
    <3>1. PICK f \in Files, c \in {"edited", "absent"} : disk' = [disk EXCEPT ![f] = c] /\ disk[f] # c
      BY <2>2 DEF EditFile
    <3>2. edits' # edits /\ receipt' = receipt
      BY <2>1, <2>2 DEF EditFile, TypesOver
    <3>3. touched' = touched \cup {g \in Files : disk'[g] # disk[g]}
      BY <1>5, <3>2 DEF Others
    <3>4. \A g \in Files : disk'[g] = disk[g] \/ (Sane(disk', g) /\ g \in touched')
      <4>1. disk'[f] = c /\ c # disk[f] /\ f \in touched'
        BY <2>1, <3>1, <3>3 DEF TypesOver
      <4>2. \A g \in Files \ {f} : disk'[g] = disk[g]
        BY <2>1, <3>1 DEF TypesOver
      <4> QED BY <4>1, <4>2 DEF Sane
    <3> QED BY <1>1, <2>1, <3>2, <3>3, <3>4 DEF Updating, Holds, Sane, Owns
  <2>3. CASE Install \/ Uninstall \/ Ends \/ Killed
    <3>1. UNCHANGED <<disk, receipt, edits>>
      BY <2>1, <2>3 DEF Install, InstallCheck, Copy, Rollback, CopyManifest, RefreshTools, InstallFails,
             RollbackManifest, RollbackEnds, Uninstall, UninstallBegin, UninstallCheck, Remove, Stop,
             RemoveManifest, RetirePrivate, RetireRuntime, Purge, Ends, Killed, Here, Locked
    <3>2. touched' = touched
      BY <3>1 DEF Others
    <3> QED BY <1>1, <2>1, <3>1, <3>2 DEF Updating, Holds, Sane, Owns
  <2> QED BY <2>2, <2>3 DEF Others
<1> QED BY <1>1, <1>2, <1>3, <1>4, <1>5 DEF UpdateInv

\* Types, step by step of the updater.
LEMMA UpdaterTypes == UpdateTypes /\ Updater => UpdateTypes'
<1> SUFFICES ASSUME UpdateTypes, Updater PROVE UpdateTypes'
  OBVIOUS
<1> USE DEF UpdateTypes, UpdateStep, Elsewhere, Kept
<1>0. /\ NoReceipt \in Ledgers
      /\ \A r \in Ledgers : DOMAIN r \subseteq Files /\ \A f \in DOMAIN r : r[f] \in Disk
  BY LedgerFacts DEF Naming, Disk
<1>1. ASSUME UNCHANGED <<session, runtime, credentials, package, raced, edits, stray, strayed>>, interrupted' \in BOOLEAN,
             disk' \in [Files -> Disk], receipt' \in Ledgers
      PROVE  TypesOver(Ledgers)' /\ Writing'
  BY <1>1 DEF TypesOver, Writing, package
<1>2. ASSUME NEW v \in Versions, UpdateCheck(v) PROVE UpdateTypes'
  <2>1. record' \in Ledgers /\ pending' \subseteq DOMAIN record' \cup {Manifest} /\ written' = {}
    BY <1>2, MergedFacts DEF UpdateCheck, TypesOver, Outdated
  <2>2. before' \in [disk : [Files -> Disk], receipt : Ledgers]
    BY <1>2 DEF UpdateCheck, TypesOver
  <2> QED BY <1>1, <1>2, <2>1, <2>2 DEF UpdateCheck, TypesOver
<1>3. ASSUME NEW f, UpdateCopy(f) PROVE UpdateTypes'
  <2>1. disk' \in [Files -> Disk] /\ receipt' \in Ledgers
    BY <1>0, <1>3 DEF UpdateCopy, TypesOver
  <2> QED BY <1>1, <1>3, <2>1 DEF UpdateCopy, TypesOver
<1>4. ASSUME NEW f, UpdateUndo(f) PROVE UpdateTypes'
  <2>1. disk' \in [Files -> Disk] /\ receipt' \in Ledgers
    BY <1>0, <1>4 DEF UpdateUndo, TypesOver
  <2> QED BY <1>1, <1>4, <2>1 DEF UpdateUndo, TypesOver
<1>5. CASE UpdateFails
  BY <1>1, <1>5 DEF UpdateFails, TypesOver
<1>6. ASSUME UpdateEnd, interrupted' \in BOOLEAN PROVE UpdateTypes'
  BY <1>0, <1>1, <1>6 DEF UpdateEnd, TypesOver
<1>7. CASE UpdateVerify \/ UpdateUndone \/ UpdateCut
  BY <1>6, <1>7 DEF UpdateVerify, UpdateUndone, UpdateCut, TypesOver
<1> QED BY <1>2, <1>3, <1>4, <1>5, <1>7 DEF Updater

\* However an update ends, unless it is cut off half-way, the files are as the receipt says.
LEMMA UpdateEnds ==
  ASSUME UpdateTypes, Updating, \/ up = "copy" /\ pending = {} /\ Intact(record)
                                \/ written = {}
  PROVE  /\ Holds(disk, receipt)
         /\ \A f \in DOMAIN before.receipt \ UiFiles : Owns(receipt, f) /\ receipt[f] = before.receipt[f]
         /\ \/ receipt = record /\ \A f \in DOMAIN record \ touched : disk[f] = record[f]
            \/ receipt = before.receipt /\ \A f \in Files \ touched : disk[f] = before.disk[f]
<1>0. DOMAIN record \subseteq Files /\ DOMAIN before.receipt \subseteq Files
  BY LedgerFacts DEF UpdateTypes, Naming
<1>1. \A f \in DOMAIN before.receipt \ UiFiles : Owns(receipt, f) /\ receipt[f] = before.receipt[f]
  BY DEF Updating, Owns
<1>2. CASE up = "copy" /\ pending = {} /\ Intact(record)
  <2>1. receipt = record /\ \A f \in DOMAIN record : disk[f] = record[f]
    BY <1>2 DEF Updating, Intact
  <2>2. \A f \in Files \ DOMAIN record : Sane(disk, f)
    <3>1. \A f \in Files \ DOMAIN record : f \notin written /\ f \notin DOMAIN before.receipt
      BY UiAssumption DEF Updating, UpdateTypes
    <3> QED BY <3>1 DEF Updating, Holds, Sane, Owns
  <2> QED BY <1>1, <2>1, <2>2 DEF Holds, Owns
<1>3. CASE written = {}
  <2>1. receipt = before.receipt /\ \A f \in Files : disk[f] = before.disk[f] \/ (Sane(disk, f) /\ f \in touched)
    BY <1>3 DEF Updating
  <2> QED BY <1>1, <2>1 DEF Updating, Holds, Sane
<1> QED BY <1>2, <1>3

LEMMA UpdateEnded ==
  ASSUME UpdateTypes, UpdateVerify \/ UpdateUndone \/ UpdateCut, ~interrupted'
  PROVE  /\ ~interrupted /\ UpdateEnd /\ up # "idle"
         /\ (up = "copy" /\ pending = {} /\ Intact(record)) \/ written = {}
<1>0. interrupted \in BOOLEAN
  BY DEF UpdateTypes, TypesOver
<1>1. CASE UpdateVerify
  BY <1>0, <1>1 DEF UpdateVerify
<1>2. CASE UpdateUndone
  BY <1>0, <1>2 DEF UpdateUndone
<1>3. CASE UpdateCut
  BY <1>0, <1>3 DEF UpdateCut
<1> QED BY <1>1, <1>2, <1>3

LEMMA UpdaterStep == UpdateInv /\ Updater => UpdateInv'
<1> SUFFICES ASSUME UpdateInv, Updater PROVE UpdateInv'
  OBVIOUS
<1>1. UpdateTypes /\ UpdateTypes' /\ TypesOver(Ledgers)
  BY UpdaterTypes DEF UpdateInv, UpdateTypes
<1>2. ASSUME ~crossed' PROVE ~crossed /\ ~Overtaken' /\ at \notin Locked
  <2>1. PICK p : UpdateStep(p) /\ (up # "idle" \/ p # "idle")
    BY DEF Updater, UpdateCheck, UpdateCopy, UpdateUndo, UpdateVerify, UpdateFails, UpdateUndone, UpdateCut, UpdateEnd
  <2>2. at' = at
    BY DEF Updater, UpdateCheck, UpdateCopy, UpdateUndo, UpdateVerify, UpdateFails, UpdateUndone, UpdateCut, UpdateEnd,
           Elsewhere, package
  <2> QED BY <1>2, <2>1, <2>2 DEF UpdateStep, Overtaken, UpdateInv
<1>3. ASSUME NEW v \in Versions, UpdateCheck(v), ~crossed', ~interrupted' PROVE up' # "idle" /\ Updating'
  <2>1. /\ up = "idle" /\ up' = "copy" /\ Intact(receipt) /\ UNCHANGED <<disk, receipt>>
        /\ record' = Merged(v) /\ before' = [disk |-> disk, receipt |-> receipt]
        /\ pending' = Outdated(v) /\ written' = {} /\ interrupted' = interrupted
    BY <1>3 DEF UpdateCheck, UpdateStep
  <2>2. Holds(disk, receipt)
    BY <1>1, <1>2, <1>3, <2>1 DEF UpdateInv, Progress, Stable, TypesOver
  <2>3. /\ DOMAIN Merged(v) = DOMAIN receipt \cup Mapping(v) /\ Mapping(v) \subseteq UiFiles
        /\ \A f \in DOMAIN Merged(v) : Merged(v)[f] = IF f \in Mapping(v) THEN Payload[v][f] ELSE receipt[f]
    BY <1>1, MergedFacts DEF TypesOver
  <2>4. Manifest \in pending' \/ record' = before'.receipt
    BY <2>1 DEF Outdated
  <2> QED BY <2>1, <2>2, <2>3, <2>4 DEF Updating, Holds, Sane, Owns
<1>4. ASSUME NEW f, UpdateCopy(f), ~crossed', ~interrupted' PROVE up' # "idle" /\ Updating'
  <2>1. Updating /\ up = "copy" /\ up' = "copy"
    BY <1>2, <1>4 DEF UpdateCopy, UpdateStep, UpdateInv
  <2>2. /\ UNCHANGED <<record, before, touched>> /\ f \in pending
        /\ pending' = pending \ {f} /\ written' = written \cup {f}
    BY <1>4 DEF UpdateCopy, Kept
  <2>3. receipt' = IF Manifest \in written' THEN record ELSE before.receipt
    BY <1>4, <2>1, <2>2 DEF UpdateCopy, Updating
  <2>4. \A g \in Files : disk'[g] = IF g = f THEN record[g] ELSE disk[g]
    BY <1>1, <1>4, UiAssumption DEF UpdateCopy, TypesOver
  <2>5. \A g \in Files : \/ disk'[g] = (IF g \in written' THEN record ELSE before.disk)[g]
                         \/ Sane(disk', g) /\ g \in touched
    BY <2>1, <2>2, <2>4 DEF Updating, Sane
  <2> QED BY <2>1, <2>2, <2>3, <2>5 DEF Updating, Holds, Sane, Owns
<1>5. ASSUME NEW f, UpdateUndo(f), ~crossed', ~interrupted' PROVE up' # "idle" /\ Updating'
  <2>1. Updating /\ up = "rollback" /\ up' = "rollback"
    BY <1>2, <1>5 DEF UpdateUndo, UpdateStep, UpdateInv
  <2>2. UNCHANGED <<record, before, touched>> /\ f \in written /\ written' = written \ {f}
    BY <1>5 DEF UpdateUndo, Kept
  <2>3. receipt' = IF Manifest \in written' THEN record ELSE before.receipt
    BY <1>5, <2>1, <2>2 DEF UpdateUndo, Updating
  <2>4. \A g \in Files : disk'[g] = IF g = f THEN before.disk[g] ELSE disk[g]
    BY <1>1, <1>5, UiAssumption DEF UpdateUndo, TypesOver
  <2>5. \A g \in Files : \/ disk'[g] = (IF g \in written' THEN record ELSE before.disk)[g]
                         \/ Sane(disk', g) /\ g \in touched
    BY <2>1, <2>2, <2>4 DEF Updating, Sane
  <2> QED BY <2>1, <2>2, <2>3, <2>5 DEF Updating, Holds, Sane, Owns
<1>6. ASSUME UpdateFails, ~crossed', ~interrupted' PROVE up' # "idle" /\ Updating'
  BY <1>2, <1>6 DEF UpdateFails, UpdateStep, UpdateInv, Kept, Updating, Holds, Sane, Owns
<1>7. ASSUME UpdateVerify \/ UpdateUndone \/ UpdateCut, ~crossed', ~interrupted' PROVE up' = "idle" /\ Progress'
  <2>1. /\ ~interrupted /\ UpdateEnd /\ up # "idle"
        /\ (up = "copy" /\ pending = {} /\ Intact(record)) \/ written = {}
    BY <1>1, <1>7, UpdateEnded DEF UpdateTypes
  <2>2. Updating
    BY <1>2, <1>7, <2>1 DEF UpdateInv
  <2>3. Holds(disk, receipt)
    BY <1>1, <2>1, <2>2, UpdateEnds
  <2>4. up' = "idle" /\ UNCHANGED <<disk, receipt, at>>
    BY <2>1 DEF UpdateEnd, UpdateStep, Elsewhere, package
  <2> QED BY <1>2, <1>7, <2>3, <2>4 DEF Progress, Holds, Sane, Owns, Locked
<1>8. ~crossed' /\ ~interrupted' => IF up' = "idle" THEN Progress' ELSE Updating'
  BY <1>3, <1>4, <1>5, <1>6, <1>7 DEF Updater
<1> QED BY <1>1, <1>2, <1>8 DEF UpdateInv

LEMMA UpdateStutters == UpdateInv /\ UNCHANGED allvars => UpdateInv'
<1> SUFFICES ASSUME UpdateInv, UNCHANGED allvars PROVE UpdateInv'
  OBVIOUS
<1>1. UNCHANGED vars /\ UNCHANGED <<up, record, pending, written, before, touched, crossed>>
  BY DEF allvars, update
<1>2. UpdateTypes'
  BY <1>1, LedgerFacts, TypesStep DEF UpdateInv, UpdateTypes
<1>3. ~crossed' /\ ~interrupted' /\ up = "idle" => Progress'
  BY <1>1, LedgerFacts, ProgressStep, InterruptedStep DEF UpdateInv, UpdateTypes
<1> QED BY <1>1, <1>2, <1>3 DEF UpdateInv, Overtaken, Updating, Holds, Sane, Owns, vars, package

LEMMA UpdateInvariant == UpdateSpec => []UpdateInv
<1>1. UpdateInv /\ [UpdateNext]_allvars => UpdateInv'
  BY OthersStep, UpdaterStep, UpdateStutters DEF UpdateNext
<1> QED BY <1>1, UpdateBegins, PTL DEF UpdateSpec

\* Partial updates, from whatever version and of whatever files, leave the receipt with
\* every file of the application, unless they overlap with package.py or one was cut off
\* (install-ui.py:58-86, package.py:128-137, 221-228).
THEOREM UpdatesAccounted == UpdateSpec => []UpdateAccounted
<1>1. UpdateInv => UpdateAccounted
  BY DEF UpdateInv, Progress, Stable, Holds, Sane, UpdateAccounted, Accounted
<1> QED BY <1>1, UpdateInvariant, PTL

\* A partial update that is not cut off installs the whole of its mapping or leaves the
\* files as they were, and keeps the rest of the receipt (install-ui.py:4-5, 58-86).
THEOREM UpdatesWhole == UpdateSpec => UpdateWhole
<1> DEFINE Whole ==
      up # "idle" /\ up' = "idle" /\ ~interrupted' /\ ~crossed' =>
        /\ \A f \in DOMAIN before.receipt \ UiFiles :
             Owns(receipt', f) /\ receipt'[f] = before.receipt[f]
        /\ \/ receipt' = record /\ \A f \in DOMAIN record \ touched : disk'[f] = record[f]
           \/ receipt' = before.receipt /\ \A f \in Files \ touched : disk'[f] = before.disk[f]
<1>1. UpdateInv /\ [UpdateNext]_allvars => Whole
  <2> SUFFICES ASSUME UpdateInv, [UpdateNext]_allvars, up # "idle", up' = "idle", ~interrupted', ~crossed'
               PROVE  Whole
    OBVIOUS
  <2>1. UpdateVerify \/ UpdateUndone \/ UpdateCut
    BY DEF UpdateNext, Updater, Others, UpdateCheck, UpdateCopy, UpdateUndo, UpdateFails, UpdateStep, allvars, update
  <2>2. /\ ~interrupted /\ UpdateEnd
        /\ (up = "copy" /\ pending = {} /\ Intact(record)) \/ written = {}
    BY <2>1, UpdateEnded DEF UpdateInv
  <2>3. ~crossed
    BY <2>2 DEF UpdateEnd, UpdateStep
  <2>4. UpdateTypes /\ Updating /\ UNCHANGED <<disk, receipt>>
    BY <2>2, <2>3 DEF UpdateInv, UpdateEnd
  <2> QED BY <2>2, <2>4, UpdateEnds DEF Owns
<1>2. UpdateInv /\ [UpdateNext]_allvars => [Whole]_allvars
  BY <1>1
<1> QED BY <1>2, UpdateInvariant, PTL DEF UpdateSpec, UpdateWhole
=============================================================================
