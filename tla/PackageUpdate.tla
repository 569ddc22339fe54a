----------------------------- MODULE PackageUpdate -----------------------------
(***************************************************************************)
(* scripts/install-ui.py and install-password-reveal.py: a partial update  *)
(* replaces some of the installed files and their entries in the receipt.  *)
(* It does not take the operation lock, does not ask whether a hotspot is  *)
(* running, and may overlap with package.py, which does both.              *)
(***************************************************************************)
EXTENDS PackageTransaction

CONSTANT UiFiles     \* the files the update is about

Manifest == "manifest"      \* among the files it writes: install-manifest.json, the receipt

ASSUME UiAssumption == UiFiles \subseteq Files /\ Manifest \notin Files

VARIABLES
  up,        \* where the running updater is, "idle" when there is none
  record,    \* the receipt it writes
  pending,   \* files still to be written
  written,   \* files written, for the roll-back
  before,    \* disk and receipt as they were when they were checked
  touched,   \* history: files edited by hand since
  crossed    \* history: package.py changed files while an update ran

update  == <<up, record, pending, written, before, touched, crossed>>
allvars == <<vars, update>>
-----------------------------------------------------------------------------
(* install(), run from a tree of version v *)

Mapping(v) == UiFiles \cap DOMAIN Payload[v]

MergedUiOnly(v) == [f \in Mapping(v) |-> Payload[v][f]]         \* mutant
\* The receipt keeps its other entries.
Merged(v) == [f \in DOMAIN receipt \cup Mapping(v) |->
                IF f \in Mapping(v) THEN Payload[v][f] ELSE receipt[f]]

\* inventory: every file of a receipt is there and holds what the receipt says.
Intact(r) == \A f \in DOMAIN r : disk[f] = r[f]

Outdated(v) == {f \in Mapping(v) : disk[f] # Payload[v][f]}
               \cup (IF receipt # Merged(v) THEN {Manifest} ELSE {})

\* Where the updater goes next, and whether package.py is at work meanwhile.
UpdateStep(p) == up' = p /\ crossed' = (crossed \/ (p # "idle" /\ at \in Locked))
Elsewhere == UNCHANGED <<session, runtime, credentials, package, raced, edits, stray, strayed>>
Kept      == UNCHANGED <<record, before, touched>>

\* The check refuses unless the installed files are as the receipt has them and no
\* file of the mapping is somebody else's.
UpdateCheck(v) ==
  /\ up = "idle" /\ receipt # NoReceipt
  /\ Known(v) /\ Intact(receipt)
  /\ \A f \in Mapping(v) : disk[f] = "absent" \/ Owns(receipt, f)
  /\ record' = Merged(v) /\ before' = [disk |-> disk, receipt |-> receipt]
  /\ pending' = Outdated(v) /\ written' = {} /\ touched' = {}
  /\ UpdateStep("copy")
  /\ UNCHANGED <<disk, receipt, interrupted>> /\ Elsewhere

\* The receipt is the last file.
UpdateCopy(f) ==
  /\ up = "copy" /\ f \in pending /\ (f = Manifest => pending = {Manifest})
  /\ IF f = Manifest THEN receipt' = record /\ UNCHANGED disk
                     ELSE disk' = [disk EXCEPT ![f] = record[f]] /\ UNCHANGED receipt
  /\ pending' = pending \ {f} /\ written' = written \cup {f}
  /\ UpdateStep("copy")
  /\ UNCHANGED interrupted /\ Kept /\ Elsewhere

\* The updater is gone.
UpdateEnd ==
  /\ UpdateStep("idle")
  /\ record' = NoReceipt /\ pending' = {} /\ written' = {} /\ touched' = {}
  /\ UNCHANGED <<disk, receipt, before>> /\ Elsewhere

\* Nothing else has changed since the check, and the mapping is in place.
UpdateVerify ==
  /\ up = "copy" /\ pending = {} /\ Intact(record)
  /\ UpdateEnd /\ UNCHANGED interrupted

UpdateFails ==
  /\ up = "copy" /\ UpdateStep("rollback")
  /\ UNCHANGED <<disk, receipt, pending, written, interrupted>> /\ Kept /\ Elsewhere

\* reversed(changed): the receipt first.  A new file is unlinked, which is an error
\* if somebody has removed it meanwhile.
UpdateUndoFiles(f) ==                                           \* mutant: not the receipt
  /\ up = "rollback" /\ f \in written
  /\ IF f = Manifest THEN UNCHANGED <<disk, receipt>>
                     ELSE disk' = [disk EXCEPT ![f] = before.disk[f]] /\ UNCHANGED receipt
  /\ written' = written \ {f}
  /\ UpdateStep("rollback")
  /\ UNCHANGED <<pending, interrupted>> /\ Kept /\ Elsewhere
UpdateUndo(f) ==
  /\ up = "rollback" /\ f \in written
  /\ IF f = Manifest THEN receipt' = before.receipt /\ UNCHANGED disk
     ELSE /\ Manifest \notin written /\ {disk[f], before.disk[f]} # {"absent"}
          /\ disk' = [disk EXCEPT ![f] = before.disk[f]] /\ UNCHANGED receipt
  /\ written' = written \ {f}
  /\ UpdateStep("rollback")
  /\ UNCHANGED <<pending, interrupted>> /\ Kept /\ Elsewhere

UpdateUndone ==
  /\ up = "rollback" /\ written = {}
  /\ UpdateEnd /\ UNCHANGED interrupted

\* A kill, or an error of the roll-back itself.
UpdateCut ==
  /\ up # "idle" /\ UpdateEnd
  /\ interrupted' = (interrupted \/ written # {})

Updater ==
  \/ \E v \in Versions : UpdateCheck(v)
  \/ \E f \in UiFiles \cup {Manifest} : UpdateCopy(f) \/ UpdateUndo(f)
  \/ UpdateVerify \/ UpdateFails \/ UpdateUndone \/ UpdateCut
-----------------------------------------------------------------------------
\* package.py and the administrator, as they are without an updater.  The hotspot
\* stays off, and nobody waits for its lock: an update neither asks for it nor
\* touches its state.
Others ==
  /\ Install \/ Uninstall \/ Ends \/ Killed \/ \E f \in Files : EditFile(f)
  /\ stray' = FALSE
  /\ touched' = IF edits' # edits /\ up # "idle"
                THEN touched \cup {f \in Files : disk'[f] # disk[f]} ELSE touched
  /\ crossed' = (crossed \/ (up # "idle" /\ at' \in Locked))
  /\ UNCHANGED <<up, record, pending, written, before>>

UpdateInit ==
  /\ Init
  /\ up = "idle" /\ record = NoReceipt /\ pending = {} /\ written = {}
  /\ before = [disk |-> disk, receipt |-> receipt] /\ touched = {} /\ crossed = FALSE

UpdateNext == Updater \/ Others

UpdateSpec == UpdateInit /\ [][UpdateNext]_allvars
-----------------------------------------------------------------------------
\* As long as no update overlaps with package.py and none is cut off half-way, the
\* receipt accounts for every file of the application whenever nobody is at work,
\* whatever versions the updates came from: package.py can still update and remove
\* all of it (install-ui.py:58-86, package.py:128-137, 221-228).
UpdateAccounted == up = "idle" /\ ~crossed => Accounted

\* An update that is not cut off either installs the whole of its mapping, or leaves
\* the files as they were; either way the other files and their entries in the
\* receipt stay ("Existing backend receipt entries/bytes/modes/mtimes remain
\* identical", install-ui.py:4-5).
UpdateWhole ==
  [][up # "idle" /\ up' = "idle" /\ ~interrupted' /\ ~crossed' =>
       /\ \A f \in DOMAIN before.receipt \ UiFiles :
            Owns(receipt', f) /\ receipt'[f] = before.receipt[f]
       /\ \/ receipt' = record /\ \A f \in DOMAIN record \ touched : disk'[f] = record[f]
          \/ receipt' = before.receipt /\ \A f \in Files \ touched : disk'[f] = before.disk[f]]_allvars
=============================================================================
