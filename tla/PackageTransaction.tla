-------------------------- MODULE PackageTransaction --------------------------
(***************************************************************************)
(* scripts/package.py: installing, updating and removing the application.  *)
(* The receipt (install-manifest.json) says which files are the            *)
(* application's and what they hold; whatever it does not vouch for is     *)
(* somebody else's.  Either action holds the hotspot's operation lock, and *)
(* may fail or be killed between any two files.  The lock is that of a     *)
(* directory which uninstall() removes: from then on it excludes nobody    *)
(* who makes a new one, and helpers that have opened the old one may enter *)
(* beside whoever holds the new one.  One package.py runs at a time; a     *)
(* second one that waits on a removed directory is not modelled.           *)
(***************************************************************************)
EXTENDS Naturals

CONSTANTS
  Files,     \* the paths a version may install, the host binding among them
  Versions,  \* versions of the package, each with its own package.py
  Payload,   \* what each version installs: a function from its files to contents
  MaxEdits   \* bound: files the administrator changes by hand

Contents == UNION {{Payload[v][f] : f \in DOMAIN Payload[v]} : v \in Versions}
Disk     == Contents \cup {"absent", "edited"}
Receipts == {Payload[v] : v \in Versions}
NoReceipt == <<>>                                \* nothing is installed

ASSUME PayloadAssumption ==
  /\ \A v \in Versions : DOMAIN Payload[v] \subseteq Files /\ DOMAIN Payload[v] # {}
  /\ {"absent", "edited"} \cap Contents = {} /\ NoReceipt \notin Receipts
  /\ MaxEdits \in Nat

VARIABLES
  disk,         \* what every path holds
  receipt,      \* the installed version's files and their digests
  session,      \* a hotspot session, or its supervisor, exists
  runtime,      \* /run/aag-hotspot: "none" without private/, "clean" (at most an off
                \* status), "dirty" (leftover files) or "journal" (session.json)
  credentials,  \* the stored password exists
  at,           \* where the running package.py is, "idle" when there is none
  purge,        \* --purge-credentials
  target,       \* the receipt install() writes
  todo,         \* files still to be written, or to be removed
  changed,      \* files written, for the roll-back
  prior,        \* disk and receipt as they were when they were checked
  interrupted,  \* history: an action stopped half-way and could not roll back
  raced,        \* history: files edited by hand since they were checked
  edits,
  stray,        \* helpers are about that have opened a private/ since removed
  strayed       \* history: there were some when package.py looked for a session

package == <<at, purge, target, todo, changed, prior>>
vars    == <<disk, receipt, session, runtime, credentials, package, interrupted, raced, edits,
          stray, strayed>>

Locked == {"copy", "refresh", "rollback", "remove", "runtime", "rmdir", "purge"}

\* Where the lock package.py holds is that of the directory in place.
Excluding == Locked \ {"rmdir", "purge"}

TypeOK ==
  /\ disk \in [Files -> Disk] /\ receipt \in Receipts \cup {NoReceipt}
  /\ session \in BOOLEAN /\ credentials \in BOOLEAN /\ purge \in BOOLEAN /\ interrupted \in BOOLEAN
  /\ runtime \in {"none", "clean", "dirty", "journal"} /\ stray \in BOOLEAN /\ strayed \in BOOLEAN
  /\ at \in {"idle", "stop", "lock"} \cup Locked
  /\ target \in Receipts \cup {NoReceipt}
  /\ todo \subseteq Files /\ changed \subseteq Files /\ raced \subseteq Files
  /\ prior \in [disk : [Files -> Disk], receipt : Receipts \cup {NoReceipt}]
  /\ edits \in 0..MaxEdits
-----------------------------------------------------------------------------
(* What install() and uninstall() check. *)

Owns(r, f) == f \in DOMAIN r

\* installed_receipt: a receipt names no path that this package.py does not know.
KnownTrusting(v) == TRUE                                       \* mutant
Known(v) == DOMAIN receipt \subseteq DOMAIN Payload[v]

UnmodifiedUnchecked == TRUE                                    \* mutant
Unmodified == \A f \in Files : Owns(receipt, f) => disk[f] = receipt[f]

Unclaimed(v) == \A f \in DOMAIN Payload[v] : disk[f] = "absent" \/ Owns(receipt, f)

InactiveTrusting == TRUE                                       \* mutant: `off' has just been run
Inactive == ~session

Goto(p) == at' = p
Here    == UNCHANGED <<session, runtime, credentials, edits, stray, strayed>>
Steady  == UNCHANGED <<purge, target, prior, raced>>

\* Store().locked(create=True) has made the directory, and what is inside is known.
Looked ==
  /\ runtime' = IF runtime = "none" THEN "clean" ELSE runtime
  /\ strayed' = stray
-----------------------------------------------------------------------------
(* install() *)

InstallCheck(v) ==
  /\ at = "idle"
  /\ Inactive /\ Known(v) /\ Unmodified /\ Unclaimed(v)
  /\ target' = Payload[v] /\ prior' = [disk |-> disk, receipt |-> receipt]
  /\ todo' = {f \in DOMAIN Payload[v] : disk[f] # Payload[v][f]} /\ changed' = {} /\ raced' = {}
  /\ Goto(IF todo' = {} /\ receipt = Payload[v] THEN "idle" ELSE "copy")
  /\ Looked
  /\ UNCHANGED <<disk, receipt, session, credentials, purge, interrupted, edits, stray>>

Copy(f) ==
  /\ at = "copy" /\ f \in todo
  /\ disk' = [disk EXCEPT ![f] = target[f]]
  /\ todo' = todo \ {f} /\ changed' = changed \cup {f}
  /\ UNCHANGED <<receipt, at, interrupted>> /\ Steady /\ Here

\* The receipt is the last file.
CopyManifestMerged ==                                          \* mutant: old entries stay
  /\ at = "copy" /\ todo = {} /\ Goto("refresh")
  /\ receipt' = [f \in DOMAIN target \cup DOMAIN receipt |->
                   IF f \in DOMAIN receipt THEN receipt[f] ELSE target[f]]
  /\ UNCHANGED <<disk, todo, changed, interrupted>> /\ Steady /\ Here
CopyManifest ==
  /\ at = "copy" /\ todo = {}
  /\ receipt' = target /\ Goto("refresh")
  /\ UNCHANGED <<disk, todo, changed, interrupted>> /\ Steady /\ Here

RefreshTools ==
  /\ at = "refresh" /\ Goto("idle")
  /\ UNCHANGED <<disk, receipt, todo, changed, interrupted>> /\ Steady /\ Here

InstallFails ==
  /\ at \in {"copy", "refresh"} /\ Goto("rollback")
  /\ UNCHANGED <<disk, receipt, todo, changed, interrupted>> /\ Steady /\ Here

\* reversed(changed): the receipt first.
RollbackManifest ==
  /\ at = "rollback" /\ receipt # prior.receipt /\ receipt' = prior.receipt
  /\ UNCHANGED <<disk, at, todo, changed, interrupted>> /\ Steady /\ Here

RollbackNewOnly(f) ==                                          \* mutant
  /\ at = "rollback" /\ receipt = prior.receipt /\ f \in changed
  /\ disk' = IF prior.disk[f] = "absent" THEN [disk EXCEPT ![f] = "absent"] ELSE disk
  /\ changed' = changed \ {f}
  /\ UNCHANGED <<receipt, at, todo, interrupted>> /\ Steady /\ Here
\* A new file is unlinked, which is an error if somebody has removed it meanwhile.
Rollback(f) ==
  /\ at = "rollback" /\ receipt = prior.receipt /\ f \in changed
  /\ {disk[f], prior.disk[f]} # {"absent"}
  /\ disk' = [disk EXCEPT ![f] = prior.disk[f]] /\ changed' = changed \ {f}
  /\ UNCHANGED <<receipt, at, todo, interrupted>> /\ Steady /\ Here

RollbackEnds ==
  /\ at = "rollback" /\ receipt = prior.receipt /\ changed = {} /\ Goto("idle")
  /\ UNCHANGED <<disk, receipt, todo, changed, interrupted>> /\ Steady /\ Here

Install ==
  \/ \E v \in Versions : InstallCheck(v)
  \/ \E f \in Files : Copy(f) \/ Rollback(f)
  \/ CopyManifest \/ RefreshTools \/ InstallFails \/ RollbackManifest \/ RollbackEnds
-----------------------------------------------------------------------------
(* stop_for_uninstall(), and uninstall() under the lock *)

UninstallBegin(v) ==
  /\ at = "idle" /\ receipt # NoReceipt /\ Known(v) /\ Unmodified
  /\ Goto("stop") /\ purge' \in BOOLEAN
  /\ UNCHANGED <<disk, receipt, target, todo, changed, prior, interrupted, raced>> /\ Here

\* `off' is run by the installed helper; nothing holds the lock once it returns.
\* Leftover files stay, and it makes no directory where there is none.
Stop ==
  /\ at = "stop" /\ Goto("lock")
  /\ session' = FALSE
  /\ runtime' \in IF runtime = "journal" THEN {"clean", "dirty"} ELSE {runtime}
  /\ UNCHANGED <<disk, receipt, credentials, todo, changed, interrupted, edits, stray, strayed>> /\ Steady

UninstallCheck(v) ==
  /\ at = "lock" /\ receipt # NoReceipt
  /\ Inactive /\ Known(v) /\ Unmodified /\ runtime \notin {"dirty", "journal"}
  /\ todo' = DOMAIN receipt /\ prior' = [disk |-> disk, receipt |-> receipt]
  /\ changed' = {} /\ raced' = {}
  /\ Goto("remove") /\ Looked
  /\ UNCHANGED <<disk, receipt, session, credentials, purge, target, interrupted, edits, stray>>

Remove(f) ==
  /\ at = "remove" /\ f \in todo /\ disk[f] # "absent"
  /\ disk' = [disk EXCEPT ![f] = "absent"] /\ todo' = todo \ {f}
  /\ UNCHANGED <<receipt, at, changed, interrupted>> /\ Steady /\ Here

RemoveManifest ==
  /\ at = "remove" /\ todo = {}
  /\ receipt' = NoReceipt /\ Goto("runtime")
  /\ UNCHANGED <<disk, todo, changed, interrupted>> /\ Steady /\ Here

\* private/, the directory that is locked, goes first; helpers may be waiting for it.
\* It is an error (see Ends) if it is not empty, or else if its parent is not.
RetirePrivate ==
  /\ at = "runtime" /\ runtime # "journal"
  /\ runtime' = IF runtime = "dirty" THEN "dirty" ELSE "none"
  /\ stray' \in {stray, TRUE} /\ Goto("rmdir")
  /\ UNCHANGED <<disk, receipt, session, credentials, todo, changed, interrupted, edits, strayed>> /\ Steady

RetireRuntime ==
  /\ at = "rmdir" /\ runtime = "none" /\ Goto("purge")
  /\ UNCHANGED <<disk, receipt, todo, changed, interrupted>> /\ Steady /\ Here

Purge ==
  /\ at = "purge" /\ credentials' = (credentials /\ ~purge) /\ Goto("idle")
  /\ UNCHANGED <<disk, receipt, session, runtime, todo, changed, interrupted, edits, stray, strayed>> /\ Steady

Uninstall ==
  \/ \E v \in Versions : UninstallBegin(v) \/ UninstallCheck(v)
  \/ \E f \in Files : Remove(f)
  \/ Stop \/ RemoveManifest \/ RetirePrivate \/ RetireRuntime \/ Purge
-----------------------------------------------------------------------------
(* A refusal or an error that is not rolled back, and a kill, end the action. *)

Halfway ==
  \/ at \in {"copy", "refresh", "rollback"}
  \/ at = "remove" /\ todo # DOMAIN receipt

Ends ==
  /\ at \notin {"idle", "copy", "refresh"} /\ Goto("idle")
  /\ interrupted' = (interrupted \/ Halfway)
  /\ UNCHANGED <<disk, receipt, todo, changed>> /\ Steady /\ Here

Killed ==
  /\ at \in {"copy", "refresh"} /\ Goto("idle")
  /\ interrupted' = TRUE
  /\ UNCHANGED <<disk, receipt, todo, changed>> /\ Steady /\ Here

\* The hotspot and its password are used whenever nobody holds the lock of the
\* directory in place, or by a helper that holds the lock of a removed one.  A
\* killed helper may leave more in the runtime directory than a session explains.
UseHotspot ==
  /\ at \notin Excluding \/ stray
  /\ session' \in BOOLEAN /\ credentials' \in {credentials, TRUE}
  /\ runtime' \in {"clean", "dirty"} \cup (IF session' THEN {"journal"} ELSE {})
  /\ UNCHANGED <<disk, receipt, package, interrupted, raced, edits, stray, strayed>>

\* Waiting for the lock ends, and so does every operation.
StrayLeaves ==
  /\ stray /\ stray' = FALSE
  /\ UNCHANGED <<disk, receipt, session, runtime, credentials, package, interrupted, raced, edits, strayed>>

EditFile(f) ==
  /\ edits < MaxEdits /\ edits' = edits + 1
  /\ disk' \in {[disk EXCEPT ![f] = c] : c \in {"edited", "absent"} \ {disk[f]}}
  /\ raced' = IF at \in Locked THEN raced \cup {f} ELSE raced
  /\ UNCHANGED <<receipt, session, runtime, credentials, package, interrupted, stray, strayed>>
-----------------------------------------------------------------------------
Init ==
  /\ disk = [f \in Files |-> "absent"] /\ receipt = NoReceipt
  /\ session = FALSE /\ runtime = "none" /\ credentials = FALSE
  /\ at = "idle" /\ purge = FALSE /\ target = NoReceipt /\ todo = {} /\ changed = {}
  /\ prior = [disk |-> disk, receipt |-> receipt]
  /\ interrupted = FALSE /\ raced = {} /\ edits = 0
  /\ stray = FALSE /\ strayed = FALSE

Next ==
  \/ Install \/ Uninstall \/ Ends \/ Killed
  \/ UseHotspot \/ StrayLeaves \/ \E f \in Files : EditFile(f)

Spec == Init /\ [][Next]_vars
-----------------------------------------------------------------------------
\* Unless an action was cut off where it could not roll back, the receipt accounts
\* for every file of the application between actions: none is left behind that no
\* receipt names, and none of another version than the receipt says
\* (package.py:154-178, and the refusals at 90, 131-137).
Accounted ==
  at = "idle" /\ ~interrupted =>
    \A f \in Files : disk[f] \in {"absent", "edited"} \/ (Owns(receipt, f) /\ disk[f] = receipt[f])

\* Also after a cut-off, an action overwrites or deletes a file only if the receipt
\* it started from vouches for its content, or if it wrote the file itself; an
\* edit made after the check is the one thing it does not see (package.py:128-137).
OnlyOwnFiles ==
  [][\A f \in Files \ raced :
       disk'[f] # disk[f] /\ disk[f] # "absent" /\ edits' = edits =>
         \/ Owns(prior.receipt, f) /\ disk[f] = prior.receipt[f]
         \/ f \in changed]_vars

\* Files are only touched while no hotspot is running, also when one was turned on
\* between the `off' of the uninstaller and its lock (package.py:95-102, 304-309),
\* and in the install that follows a removal.  The exception the code leaves: at that
\* look for a session, a helper was about whose lock is that of a removed directory.
NotWhileActive == session /\ at \in Excluding => strayed

\* An install that fails and reports it leaves the files and the receipt that were
\* there before (package.py:169-177).
RollsBack ==
  [][at = "rollback" /\ at' = "idle" /\ ~interrupted' =>
       receipt' = prior.receipt /\ \A f \in Files \ raced : disk'[f] = prior.disk[f]]_vars
=============================================================================
