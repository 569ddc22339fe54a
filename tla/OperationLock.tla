--------------------------- MODULE OperationLock ----------------------------
(***************************************************************************)
(* Store.locked of state.py: how processes find or create the runtime      *)
(* directories and take the kernel flock on the inode of PRIVATE, and the  *)
(* package uninstaller, which takes the same lock and then removes the     *)
(* directory.  Every file system call is one step.                         *)
(***************************************************************************)
EXTENDS Naturals

CONSTANTS
  Clients,       \* helper requests but off: create=True, LOCK_WAIT
  Offs,          \* helper `off': create=False, RECOVERY_LOCK_WAIT
  Watchers,      \* the supervisor: create=False, timeout=0
  Uninstallers,  \* package.py uninstall: create=True, LOCK_WAIT, removes the directory
  LockWait,      \* polls within LOCK_WAIT
  RecoveryWait,  \* polls within RECOVERY_LOCK_WAIT
  MaxInode       \* bound: inodes PRIVATE is ever given

Procs == Clients \cup Offs \cup Watchers \cup Uninstallers

ASSUME BoundAssumption == /\ LockWait \in Nat /\ RecoveryWait \in Nat /\ MaxInode \in Nat
                          /\ "nobody" \notin Procs
ASSUME KindAssumption  == /\ Uninstallers \cap (Clients \cup Offs \cup Watchers) = {}
                          /\ Clients \cap (Offs \cup Watchers) = {}
                          /\ Offs \cap Watchers = {}

VARIABLES
  runtime,  \* /run/aag-hotspot: "absent", "fresh" (made under umask 077), "trusted"
  private,  \* the inode of /run/aag-hotspot/private, 0 when there is none
  born,     \* inodes given out so far
  flock,    \* for every inode the process whose open file holds its lock
  fd,       \* for every process the inode it has open, or 0
  left,     \* for every process the polls it has left
  pc,       \* for every process its place in locked()
  died,     \* history: somebody died between mkdir and chmod of the runtime directory
  removed   \* history: an uninstaller has removed PRIVATE

dirs == <<runtime, private, born, removed>>
vars == <<runtime, private, born, flock, fd, left, pc, died, removed>>

Creates(p)  == p \in Clients \cup Uninstallers
Umask077(p) == p \notin Uninstallers          \* helper.py:46, 106; package.py:264 sets 022
Patience(p) == IF p \in Watchers THEN 0 ELSE IF p \in Offs THEN RecoveryWait ELSE LockWait

Places == {"idle", "runtime", "mkdir_runtime", "chmod_runtime", "trust_runtime",
           "private", "mkdir_private", "open", "poll", "inside",
           "rmdir_runtime", "leaving"}
Holding == {"inside", "rmdir_runtime", "leaving"}

TypeOK ==
  /\ runtime \in {"absent", "fresh", "trusted"}
  /\ born \in 0..MaxInode /\ private \in 0..born
  /\ flock \in [1..MaxInode -> Procs \cup {"nobody"}]
  /\ fd \in [Procs -> 0..born]
  /\ left \in [Procs -> Nat]
  /\ pc \in [Procs -> Places]
  /\ died \in BOOLEAN /\ removed \in BOOLEAN
-----------------------------------------------------------------------------
At(p, place)   == pc[p] = place
Goto(p, place) == pc' = [pc EXCEPT ![p] = place]

\* An exception or the end of the with block: the fd is closed, and with it the
\* kernel's lock if this process held it.
Unlocked(p) == [i \in 1..MaxInode |-> IF flock[i] = p THEN "nobody" ELSE flock[i]]
Close(p) ==
  /\ Goto(p, "idle")
  /\ fd' = [fd EXCEPT ![p] = 0]
  /\ left' = [left EXCEPT ![p] = 0]
  /\ flock' = Unlocked(p)

NoLock == UNCHANGED <<flock, fd, left, died>>

Begin(p) ==
  /\ At(p, "idle") /\ Goto(p, "runtime")
  /\ UNCHANGED dirs /\ NoLock

\* Without the directory and without create, there is nothing to lock: yield False.
SeeRuntime(p) ==
  /\ At(p, "runtime")
  /\ Goto(p, IF runtime # "absent" THEN "trust_runtime"
             ELSE IF Creates(p) THEN "mkdir_runtime" ELSE "idle")
  /\ UNCHANGED dirs /\ NoLock

\* Mutant: the mode given to mkdir is relied on.
MkdirRuntimeOnly(p) ==
  /\ At(p, "mkdir_runtime")
  /\ IF runtime = "absent"
       THEN Goto(p, "trust_runtime") /\ runtime' = IF Umask077(p) THEN "fresh" ELSE "trusted"
       ELSE Goto(p, "idle") /\ UNCHANGED runtime
  /\ UNCHANGED <<private, born, removed>> /\ NoLock

\* mkdir of what somebody else just made is an error.
MkdirRuntime(p) ==
  /\ At(p, "mkdir_runtime")
  /\ IF runtime = "absent"
       THEN Goto(p, "chmod_runtime") /\ runtime' = IF Umask077(p) THEN "fresh" ELSE "trusted"
       ELSE Goto(p, "idle") /\ UNCHANGED runtime
  /\ UNCHANGED <<private, born, removed>> /\ NoLock

ChmodRuntime(p) ==
  /\ At(p, "chmod_runtime")
  /\ IF runtime # "absent"
       THEN Goto(p, "trust_runtime") /\ runtime' = "trusted"
       ELSE Goto(p, "idle") /\ UNCHANGED runtime
  /\ UNCHANGED <<private, born, removed>> /\ NoLock

\* trusted_dir: exactly mode 0755, or SafetyError.
TrustRuntime(p) ==
  /\ At(p, "trust_runtime")
  /\ Goto(p, IF runtime = "trusted" THEN "private" ELSE "idle")
  /\ UNCHANGED dirs /\ NoLock

SeePrivate(p) ==
  /\ At(p, "private")
  /\ Goto(p, IF private # 0 THEN "open" ELSE IF Creates(p) THEN "mkdir_private" ELSE "idle")
  /\ UNCHANGED dirs /\ NoLock

MkdirPrivate(p) ==
  /\ At(p, "mkdir_private")
  /\ \/ (private # 0 \/ runtime = "absent") /\ Goto(p, "idle") /\ UNCHANGED dirs
     \/ /\ private = 0 /\ runtime # "absent" /\ born < MaxInode
        /\ born' = born + 1 /\ private' = born'
        /\ Goto(p, "open") /\ UNCHANGED <<runtime, removed>>
  /\ NoLock

\* trusted_dir and os.open, which follow the path once more.
OpenPrivate(p) ==
  /\ At(p, "open")
  /\ IF private = 0
       THEN Goto(p, "idle") /\ UNCHANGED <<fd, left>>
       ELSE /\ fd' = [fd EXCEPT ![p] = private]
            /\ left' = [left EXCEPT ![p] = Patience(p)]
            /\ Goto(p, "poll")
  /\ UNCHANGED <<dirs, flock, died>>

Acquire(p) ==
  /\ At(p, "poll") /\ flock[fd[p]] = "nobody"
  /\ flock' = [flock EXCEPT ![fd[p]] = p]
  /\ Goto(p, "inside")
  /\ UNCHANGED <<dirs, fd, left, died>>

\* Mutant: the deadline is set anew at every poll.
PollAgainForever(p) ==
  /\ At(p, "poll") /\ flock[fd[p]] # "nobody" /\ left[p] > 0
  /\ UNCHANGED vars

\* Mutant: one poll too many.
PollAgainOnce(p) ==
  /\ At(p, "poll") /\ flock[fd[p]] # "nobody"
  /\ left' = [left EXCEPT ![p] = @ - 1]
  /\ UNCHANGED <<dirs, flock, fd, pc, died>>

PollAgain(p) ==
  /\ At(p, "poll") /\ flock[fd[p]] # "nobody" /\ left[p] > 0
  /\ left' = [left EXCEPT ![p] = @ - 1]
  /\ UNCHANGED <<dirs, flock, fd, pc, died>>

Busy(p) ==
  /\ At(p, "poll") /\ flock[fd[p]] # "nobody" /\ left[p] = 0
  /\ Close(p)
  /\ UNCHANGED <<dirs, died>>

\* Mutant: who is done takes the directory away with the lock.
LeaveRemoving(p) ==
  /\ At(p, "inside") \/ At(p, "leaving")
  /\ Close(p)
  /\ private' = 0
  /\ UNCHANGED <<runtime, born, removed, died>>

\* The operation, HotspotSession's business, is over.
Leave(p) ==
  /\ At(p, "inside") \/ At(p, "leaving")
  /\ Close(p)
  /\ UNCHANGED <<dirs, died>>

\* uninstall, once everything it validates allows it (private is empty).
RemovePrivate(p) ==
  /\ p \in Uninstallers /\ At(p, "inside")
  /\ private' = 0 /\ removed' = TRUE
  /\ Goto(p, "rmdir_runtime")
  /\ UNCHANGED <<runtime, born>> /\ NoLock

\* rmdir fails when somebody made a new private directory meanwhile.
RemoveRuntime(p) ==
  /\ At(p, "rmdir_runtime")
  /\ runtime' = IF private = 0 THEN "absent" ELSE runtime
  /\ Goto(p, "leaving")
  /\ UNCHANGED <<private, born, removed>> /\ NoLock

\* Signal or SIGKILL: the kernel closes the file.
Die(p) ==
  /\ ~At(p, "idle")
  /\ Close(p)
  /\ died' = (died \/ (At(p, "chmod_runtime") /\ runtime = "fresh"))
  /\ UNCHANGED dirs
-----------------------------------------------------------------------------
Init ==
  /\ runtime = "absent" /\ private = 0 /\ born = 0
  /\ flock = [i \in 1..MaxInode |-> "nobody"]
  /\ fd = [p \in Procs |-> 0] /\ left = [p \in Procs |-> 0]
  /\ pc = [p \in Procs |-> "idle"]
  /\ died = FALSE /\ removed = FALSE

Step(p) ==
  \/ SeeRuntime(p) \/ MkdirRuntime(p) \/ ChmodRuntime(p) \/ TrustRuntime(p)
  \/ SeePrivate(p) \/ MkdirPrivate(p) \/ OpenPrivate(p)
  \/ Acquire(p) \/ PollAgain(p) \/ Busy(p)
  \/ Leave(p) \/ RemovePrivate(p) \/ RemoveRuntime(p)

Next == \E p \in Procs : Begin(p) \/ Step(p) \/ Die(p)

\* A running process goes on; nobody has to make a request, and nobody has to die.
Fairness == \A p \in Procs : WF_vars(Step(p))

Spec     == Init /\ [][Next]_vars
FairSpec == Spec /\ Fairness
-----------------------------------------------------------------------------
\* Two operations never run at the same time, whichever of them created the
\* directories and whoever dies (state.py:115-118).  An uninstaller breaks it.
MutualExclusion ==
  \A p, q \in Procs : pc[p] \in Holding /\ pc[q] \in Holding => p = q

\* Nothing but an uninstaller's removal of the directory ever lets two operations
\* run at the same time: no race of creators, no death, no give-up (state.py:156).
OnlyRemovalSplits == ~removed => MutualExclusion

\* The runtime directory has the mode everybody insists on, unless its creator
\* is just about to set it or died before it could.
RuntimeTrusted ==
  runtime = "fresh" => died \/ \E p \in Procs : pc[p] = "chmod_runtime"

\* Who polls for the lock gets it or gives up with BUSY.
WaitEnds == \A p \in Procs : pc[p] = "poll" ~> pc[p] # "poll"
=============================================================================
