------------------------ MODULE OperationLockProofs -------------------------
(***************************************************************************)
(* The operation lock excludes, for any number of processes and any waits, *)
(* until an uninstaller removes the directory it is taken on.              *)
(***************************************************************************)
EXTENDS OperationLock, TLAPS

\* Before a removal, the same inode for everybody: what is open is what the path
\* names, and only the holder of its lock is past the polling.
LockInv ==
  /\ TypeOK
  /\ ~removed => \A p \in Procs :
       /\ fd[p] \in {0, private}
       /\ pc[p] \in Holding \cup {"poll"} => fd[p] = private /\ private # 0
       /\ pc[p] \in Holding => flock[private] = p

LEMMA TypeInit == Init => TypeOK
<1> SUFFICES ASSUME Init PROVE TypeOK
  OBVIOUS
<1>1. born \in 0..MaxInode /\ private \in 0..born /\ 0 \in 0..born
  BY BoundAssumption DEF Init
<1>2. fd \in [Procs -> 0..born]
  BY <1>1 DEF Init
<1> QED BY <1>1, <1>2 DEF Init, TypeOK, Places

\* Types do not depend on who removes what.
LEMMA TypeStep == TypeOK /\ [Next]_vars => TypeOK'
<1> SUFFICES ASSUME TypeOK, [Next]_vars PROVE TypeOK'
  OBVIOUS
<1> USE BoundAssumption DEF TypeOK, Places, dirs, At, Goto, NoLock
<1>1. ASSUME NEW p \in Procs, Begin(p) \/ SeeRuntime(p) \/ TrustRuntime(p) \/ SeePrivate(p)
      PROVE  TypeOK'
  BY <1>1 DEF Begin, SeeRuntime, TrustRuntime, SeePrivate
<1>2. ASSUME NEW p \in Procs, MkdirRuntime(p) \/ ChmodRuntime(p) PROVE TypeOK'
  BY <1>2 DEF MkdirRuntime, ChmodRuntime
<1>3. ASSUME NEW p \in Procs, MkdirPrivate(p) PROVE TypeOK'
  <2>1. /\ born' \in 0..MaxInode /\ private' \in 0..born'
        /\ 0..born \subseteq 0..born'
    BY <1>3 DEF MkdirPrivate
  <2>2. pc' \in [Procs -> Places]
    BY <1>3 DEF MkdirPrivate
  <2>3. fd' \in [Procs -> 0..born'] /\ UNCHANGED <<runtime, flock, left, died, removed>>
    BY <1>3, <2>1 DEF MkdirPrivate
  <2> QED BY <2>1, <2>2, <2>3
<1>4. ASSUME NEW p \in Procs, OpenPrivate(p) PROVE TypeOK'
  <2>1. Patience(p) \in Nat
    BY DEF Patience
  <2>2. CASE private = 0
    BY <1>4, <2>2 DEF OpenPrivate
  <2>3. CASE private # 0
    <3>1. fd' \in [Procs -> 0..born]
      BY <1>4, <2>3 DEF OpenPrivate
    <3>2. left' \in [Procs -> Nat]
      BY <1>4, <2>1, <2>3 DEF OpenPrivate
    <3>3. pc' \in [Procs -> Places]
      BY SMTT(40), <1>4, <2>3 DEF OpenPrivate
    <3> QED BY <1>4, <3>1, <3>2, <3>3 DEF OpenPrivate
  <2> QED BY <2>2, <2>3
<1>5. ASSUME NEW p \in Procs, Acquire(p) PROVE TypeOK'
  BY <1>5 DEF Acquire
<1>6. ASSUME NEW p \in Procs, PollAgain(p) PROVE TypeOK'
  BY <1>6 DEF PollAgain
<1>7. ASSUME NEW p \in Procs, Busy(p) \/ Leave(p) PROVE TypeOK'
  <2>1. Close(p) /\ UNCHANGED <<runtime, private, born, died, removed>>
    BY <1>7 DEF Busy, Leave
  <2>2. flock' \in [1..MaxInode -> Procs \cup {"nobody"}]
    BY <2>1 DEF Close, Unlocked
  <2>3. 0 \in 0..born /\ 0 \in Nat
    OBVIOUS
  <2>4. fd' \in [Procs -> 0..born] /\ left' \in [Procs -> Nat] /\ pc' \in [Procs -> Places]
    BY <2>1, <2>3 DEF Close
  <2> QED BY <2>1, <2>2, <2>4
<1>8. ASSUME NEW p \in Procs, RemovePrivate(p) \/ RemoveRuntime(p) PROVE TypeOK'
  <2>1. private' \in 0..born' /\ born' = born
    BY <1>8 DEF RemovePrivate, RemoveRuntime
  <2>2. runtime' \in {"absent", "fresh", "trusted"} /\ removed' \in BOOLEAN
    BY <1>8 DEF RemovePrivate, RemoveRuntime
  <2>3. pc' \in [Procs -> Places] /\ UNCHANGED <<flock, fd, left, died>>
    BY <1>8 DEF RemovePrivate, RemoveRuntime
  <2> QED BY <2>1, <2>2, <2>3
<1>9. ASSUME NEW p \in Procs, Die(p) PROVE TypeOK'
  BY <1>9 DEF Die, Close, Unlocked
<1>10. CASE UNCHANGED vars
  BY <1>10 DEF vars
<1> QED
  BY <1>1, <1>2, <1>3, <1>4, <1>5, <1>6, <1>7, <1>8, <1>9, <1>10 DEF Next, Step

\* The types of the lock's state.
THEOREM LockTypes == Spec => []TypeOK
  BY TypeInit, TypeStep, PTL DEF Spec

LEMMA LockInit == Init => LockInv
  BY TypeInit DEF Init, LockInv, Holding

LEMMA LockStep == LockInv /\ [Next]_vars => LockInv'
<1> SUFFICES ASSUME LockInv, [Next]_vars PROVE LockInv'
  OBVIOUS
<1>0. TypeOK'
  BY TypeStep DEF LockInv
<1> USE <1>0, BoundAssumption DEF LockInv, TypeOK, Holding, dirs, At, Goto, NoLock
<1>1. ASSUME NEW p \in Procs,
             Begin(p) \/ SeeRuntime(p) \/ TrustRuntime(p) \/ SeePrivate(p)
               \/ MkdirRuntime(p) \/ ChmodRuntime(p)
      PROVE  LockInv'
  BY SMTT(40), <1>1 DEF Begin, SeeRuntime, TrustRuntime, SeePrivate, MkdirRuntime, ChmodRuntime
<1>2. ASSUME NEW p \in Procs, MkdirPrivate(p) PROVE LockInv'
  BY <1>2 DEF MkdirPrivate
<1>3. ASSUME NEW p \in Procs, OpenPrivate(p) PROVE LockInv'
  BY <1>3 DEF OpenPrivate
<1>4. ASSUME NEW p \in Procs, Acquire(p) PROVE LockInv'
  <2>1. ~removed => fd[p] = private /\ private \in 1..MaxInode
    BY <1>4 DEF Acquire
  <2>2. ~removed => \A q \in Procs : pc[q] \notin Holding
    BY <1>4, <2>1 DEF Acquire
  <2> QED BY <1>4, <2>1, <2>2 DEF Acquire
<1>5. ASSUME NEW p \in Procs, PollAgain(p) PROVE LockInv'
  BY <1>5 DEF PollAgain
<1>6. ASSUME NEW p \in Procs, Busy(p) \/ Leave(p) \/ Die(p) PROVE LockInv'
  <2>1. Close(p) /\ UNCHANGED dirs
    BY <1>6 DEF Busy, Leave, Die
  <2>2. \A q \in Procs \ {p} : fd'[q] = fd[q] /\ pc'[q] = pc[q]
    BY <2>1 DEF Close
  <2>3. fd'[p] = 0 /\ pc'[p] = "idle"
    BY <2>1 DEF Close
  <2>4. ~removed => \A q \in Procs \ {p} : pc[q] \in Holding => flock'[private] = q
    BY <2>1 DEF Close, Unlocked
  <2> QED BY <2>1, <2>2, <2>3, <2>4
<1>7. ASSUME NEW p \in Procs, RemovePrivate(p) PROVE LockInv'
  BY <1>7 DEF RemovePrivate
<1>8. ASSUME NEW p \in Procs, RemoveRuntime(p) PROVE LockInv'
  BY <1>8 DEF RemoveRuntime
<1>9. CASE UNCHANGED vars
  BY <1>9 DEF vars
<1> QED
  BY <1>1, <1>2, <1>3, <1>4, <1>5, <1>6, <1>7, <1>8, <1>9 DEF Next, Step

\* Two operations never run at once before an uninstaller has removed the locked
\* directory, however many processes create it, wait, give up or die.
THEOREM LockSplitsByRemoval == Spec => []OnlyRemovalSplits
<1>1. LockInv => OnlyRemovalSplits
  BY DEF LockInv, OnlyRemovalSplits, MutualExclusion
<1> QED BY <1>1, LockInit, LockStep, PTL DEF Spec

\* Where nobody uninstalls, two operations never run at once at all.
THEOREM LockExcludes == Uninstallers = {} /\ Spec => []MutualExclusion
<1>1. Init => ~removed
  BY DEF Init
<1>2. OnlyRemovalSplits /\ ~removed => MutualExclusion
  BY DEF OnlyRemovalSplits
<1>3. CASE Uninstallers = {}
  <2>1. ~removed /\ [Next]_vars => ~removed'
    BY <1>3 DEF Next, Step, Begin, SeeRuntime, MkdirRuntime, ChmodRuntime, TrustRuntime,
                SeePrivate, MkdirPrivate, OpenPrivate, Acquire, PollAgain, Busy, Leave,
                RemovePrivate, RemoveRuntime, Die, dirs, vars
  <2> QED BY <1>1, <1>2, <2>1, LockSplitsByRemoval, PTL DEF Spec
<1> QED BY <1>3

\* The runtime directory has an untrusted mode only between its mkdir and chmod,
\* or when its creator died there; uninstalling does not change that.
THEOREM RuntimeIsTrusted == Spec => []RuntimeTrusted
<1>1. Init => RuntimeTrusted
  BY DEF Init, RuntimeTrusted
<1>2. TypeOK /\ RuntimeTrusted /\ [Next]_vars => RuntimeTrusted'
  <2> SUFFICES ASSUME TypeOK, RuntimeTrusted, [Next]_vars, runtime' = "fresh", ~died'
               PROVE  \E p \in Procs : pc'[p] = "chmod_runtime"
    BY DEF RuntimeTrusted
  <2> USE DEF TypeOK, dirs, At, Goto, NoLock
  <2>1. CASE UNCHANGED vars
    BY <2>1 DEF vars, RuntimeTrusted
  <2>2. ASSUME NEW p \in Procs, MkdirRuntime(p) PROVE \E q \in Procs : pc'[q] = "chmod_runtime"
    <3>1. CASE runtime = "absent"
      BY <2>2, <3>1 DEF MkdirRuntime
    <3>2. CASE runtime # "absent"
      <4>1. PICK q \in Procs : pc[q] = "chmod_runtime"
        BY <2>2, <3>2 DEF MkdirRuntime, RuntimeTrusted
      <4>2. q # p
        BY <2>2, <4>1 DEF MkdirRuntime
      <4> QED BY <2>2, <3>2, <4>1, <4>2 DEF MkdirRuntime
    <3> QED BY <3>1, <3>2
  <2>3. ASSUME NEW p \in Procs, ChmodRuntime(p) PROVE FALSE
    BY <2>3 DEF ChmodRuntime
  <2>4. ASSUME NEW p \in Procs, Die(p) PROVE \E q \in Procs : pc'[q] = "chmod_runtime"
    <3>1. PICK q \in Procs : pc[q] = "chmod_runtime"
      BY <2>4 DEF Die, RuntimeTrusted
    <3>2. q # p
      BY <2>4, <3>1 DEF Die
    <3> QED BY <2>4, <3>1, <3>2 DEF Die, Close
  <2>5. ASSUME NEW p \in Procs,
               Begin(p) \/ SeeRuntime(p) \/ TrustRuntime(p) \/ SeePrivate(p) \/ MkdirPrivate(p)
                 \/ OpenPrivate(p) \/ Acquire(p) \/ PollAgain(p) \/ Busy(p) \/ Leave(p)
                 \/ RemovePrivate(p) \/ RemoveRuntime(p)
        PROVE  \E q \in Procs : pc'[q] = "chmod_runtime"
    <3>1. runtime = "fresh" /\ ~died /\ pc[p] # "chmod_runtime"
      BY <2>5 DEF Begin, SeeRuntime, TrustRuntime, SeePrivate, MkdirPrivate, OpenPrivate,
                  Acquire, PollAgain, Busy, Leave, RemovePrivate, RemoveRuntime
    <3>2. PICK q \in Procs : pc[q] = "chmod_runtime"
      BY <3>1 DEF RuntimeTrusted
    <3>3. \A r \in Procs \ {p} : pc'[r] = pc[r]
      BY <2>5 DEF Begin, SeeRuntime, TrustRuntime, SeePrivate, MkdirPrivate, OpenPrivate,
                  Acquire, PollAgain, Busy, Leave, RemovePrivate, RemoveRuntime, Close
    <3> QED BY <3>1, <3>2, <3>3
  <2> QED BY <2>1, <2>2, <2>3, <2>4, <2>5 DEF Next, Step
<1> QED BY <1>1, <1>2, LockTypes, PTL DEF Spec
=============================================================================
