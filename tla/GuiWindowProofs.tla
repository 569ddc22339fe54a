--------------------------- MODULE GuiWindowProofs ---------------------------
(***************************************************************************)
(* A password that was asked for is only shown to a window that still is   *)
(* what it was when it was asked for.  Calls and results form one queue:   *)
(* the worker takes them in order, and so does the main loop (gui.py:456). *)
(* While the pending reveal is fresh no request stands behind it, since a  *)
(* request makes it stale; so when it comes out, nothing is left of any.   *)
(***************************************************************************)
EXTENDS GuiWindow, TLAPS

Count == Len(idle) + Len(pool)
Queue == [i \in 1 .. Count |-> IF i <= Len(idle) THEN idle[i].kind ELSE pool[i - Len(idle)].kind]

QueueOK ==
  /\ pool \in Seq(Job) /\ idle \in Seq(Result)
  /\ Count <= MaxJobs + 1 /\ (~refreshing => Count <= MaxJobs)
FlagsOK ==
  /\ busy \in BOOLEAN /\ refreshing \in BOOLEAN /\ revealPending \in BOOLEAN
  /\ fresh \in BOOLEAN /\ revealable \in BOOLEAN /\ secret \in BOOLEAN
ShownOK ==
  /\ hotspot \in Report /\ current \in Report /\ changes \in 0..MaxChanges
  /\ view \in {"visible", "hidden", "closed"}
  /\ dialog \in {"closed"} \cup After
TypeInv == QueueOK /\ FlagsOK /\ ShownOK

One(n, q)   == \A i, j \in 1 .. n : q[i] = "reveal" /\ q[j] = "reveal" => i = j
Last(n, q)  == \A i, j \in 1 .. n : q[i] = "reveal" /\ q[j] \in Requests => j < i
No(n, q, S) == \A i \in 1 .. n : q[i] \notin S

OneReveal == One(Count, Queue) /\ (~revealPending => No(Count, Queue, {"reveal"}))
FreshLast == fresh => view = "visible" /\ Last(Count, Queue)
Hidden    == secret => view = "visible" /\ No(Count, Queue, Requests \cup {"reveal"})
WindowInv == OneReveal /\ FreshLast /\ Hidden
-----------------------------------------------------------------------------
(* The queue. *)

(* Its lengths are numbers.                                                     *)
LEMMA QueueType == QueueOK => Len(idle) \in Nat /\ Len(pool) \in Nat /\ Count \in Nat
  BY DEF QueueOK, Count

(* The worker hands the first call's result on: the order stays.                *)
LEMMA QueueWork ==
  ASSUME QueueOK, Work
  PROVE  Count' = Count /\ Queue' = Queue
<1>1. PICK new \in Outcomes(Head(pool).kind), ok \in BOOLEAN :
        /\ pool # <<>> /\ pool' = Tail(pool)
        /\ idle' = Append(idle, [kind |-> Head(pool).kind, after |-> Head(pool).after, ok |-> ok, value |-> new])
  BY DEF Work
<1> DEFINE r == [kind |-> Head(pool).kind, after |-> Head(pool).after, ok |-> ok, value |-> new]
<1>2. r.kind = pool[1].kind
  BY <1>1 DEF QueueOK
<1>3. idle' = Append(idle, r)
  BY <1>1
<1> HIDE DEF r
<1>4. /\ Len(pool) \in Nat \ {0} /\ Len(pool') = Len(pool) - 1
      /\ \A i \in 1 .. Len(pool') : pool'[i] = pool[i + 1]
  BY <1>1 DEF QueueOK
<1>5. /\ Len(idle) \in Nat /\ Len(idle') = Len(idle) + 1 /\ idle'[Len(idle) + 1] = r
      /\ \A i \in 1 .. Len(idle) : idle'[i] = idle[i]
  BY <1>3 DEF QueueOK
<1>6. Count' = Count
  BY <1>4, <1>5 DEF Count
<1>7. \A i \in 1 .. Count : Queue'[i] = Queue[i]
  <2> SUFFICES ASSUME NEW i \in 1 .. Count PROVE Queue'[i] = Queue[i]
    OBVIOUS
  <2>1. CASE i <= Len(idle)
    BY <2>1, <1>5, <1>6 DEF Queue
  <2>2. CASE i = Len(idle) + 1
    BY <2>2, <1>2, <1>4, <1>5, <1>6 DEF Queue
  <2>3. CASE i > Len(idle) + 1
    <3>1. i - Len(idle') \in 1 .. Len(pool') /\ (i - Len(idle')) + 1 = i - Len(idle)
      BY <2>3, <1>4, <1>5 DEF Count
    <3>2. pool'[i - Len(idle')] = pool[i - Len(idle)]
      BY <3>1, <1>4
    <3>3. ~(i <= Len(idle)) /\ ~(i <= Len(idle'))
      BY <2>3, <1>5
    <3> QED BY <3>2, <3>3, <1>6 DEF Queue
  <2> QED BY <2>1, <2>2, <2>3, <1>5
<1> QED BY <1>6, <1>7 DEF Queue

(* A call is submitted: it is the last.                                         *)
LEMMA QueueSubmit ==
  ASSUME QueueOK, NEW job, pool' = Append(pool, job), idle' = idle
  PROVE  /\ Count' = Count + 1 /\ Queue'[Count + 1] = job.kind
         /\ \A i \in 1 .. Count : Queue'[i] = Queue[i]
<1>1. /\ Len(pool) \in Nat /\ Len(pool') = Len(pool) + 1 /\ pool'[Len(pool) + 1] = job
      /\ \A i \in 1 .. Len(pool) : pool'[i] = pool[i]
      /\ Len(idle) \in Nat
  BY DEF QueueOK
<1>2. Count' = Count + 1
  BY <1>1 DEF Count
<1>3. Queue'[Count + 1] = job.kind
  BY <1>1, <1>2 DEF Queue, Count
<1>4. ASSUME NEW i \in 1 .. Count PROVE Queue'[i] = Queue[i]
  <2>1. i \in 1 .. Count'
    BY <1>1, <1>2 DEF Count
  <2>2. ~(i <= Len(idle)) => i - Len(idle) \in 1 .. Len(pool)
    BY <1>1 DEF Count
  <2> QED BY <2>1, <2>2, <1>1 DEF Queue
<1> QED BY <1>2, <1>3, <1>4

(* A result is taken: it was the first.                                         *)
LEMMA QueueTake ==
  ASSUME QueueOK, idle # <<>>, idle' = Tail(idle), pool' = pool
  PROVE  /\ Count \in Nat \ {0} /\ Count' = Count - 1 /\ Queue[1] = Head(idle).kind
         /\ \A i \in 1 .. Count' : i + 1 \in 1 .. Count /\ Queue'[i] = Queue[i + 1]
<1>1. /\ Len(idle) \in Nat \ {0} /\ Len(idle') = Len(idle) - 1 /\ Head(idle) = idle[1]
      /\ \A i \in 1 .. Len(idle') : idle'[i] = idle[i + 1]
      /\ Len(pool) \in Nat
  BY DEF QueueOK
<1>2. Count \in Nat \ {0} /\ Count' = Count - 1 /\ Queue[1] = Head(idle).kind
  BY <1>1 DEF Count, Queue
<1>3. ASSUME NEW i \in 1 .. Count' PROVE i + 1 \in 1 .. Count /\ Queue'[i] = Queue[i + 1]
  <2>1. i + 1 \in 1 .. Count
    BY <1>2
  <2>2. CASE i <= Len(idle')
    BY <2>1, <2>2, <1>1, <1>2 DEF Queue
  <2>3. CASE ~(i <= Len(idle'))
    <3>1. i - Len(idle') = (i + 1) - Len(idle) /\ ~(i + 1 <= Len(idle))
      BY <2>3, <1>1, <1>2
    <3> QED BY <2>1, <2>3, <3>1 DEF Queue
  <2> QED BY <2>1, <2>2, <2>3
<1> QED BY <1>2, <1>3

(* A result is taken and a call submitted for it.                               *)
LEMMA QueueFollow ==
  ASSUME QueueOK, idle # <<>>, idle' = Tail(idle), NEW job, pool' = Append(pool, job)
  PROVE  /\ Count \in Nat \ {0} /\ Count' = Count /\ Queue[1] = Head(idle).kind
         /\ Queue'[Count] = job.kind
         /\ \A i \in 1 .. Count' : i # Count => i + 1 \in 1 .. Count /\ Queue'[i] = Queue[i + 1]
<1>1. /\ Len(idle) \in Nat \ {0} /\ Len(idle') = Len(idle) - 1 /\ Head(idle) = idle[1]
      /\ \A i \in 1 .. Len(idle') : idle'[i] = idle[i + 1]
      /\ Len(pool) \in Nat /\ Len(pool') = Len(pool) + 1 /\ pool'[Len(pool) + 1] = job
      /\ \A i \in 1 .. Len(pool) : pool'[i] = pool[i]
  BY DEF QueueOK
<1>2. Count \in Nat \ {0} /\ Count' = Count /\ Queue[1] = Head(idle).kind
  BY <1>1 DEF Count, Queue
<1>3. Queue'[Count] = job.kind
  BY <1>1, <1>2 DEF Queue, Count
<1>4. ASSUME NEW i \in 1 .. Count', i # Count PROVE i + 1 \in 1 .. Count /\ Queue'[i] = Queue[i + 1]
  <2>1. i + 1 \in 1 .. Count
    BY <1>2, <1>4
  <2>2. CASE i <= Len(idle')
    BY <2>1, <2>2, <1>1, <1>2 DEF Queue
  <2>3. CASE ~(i <= Len(idle'))
    <3>1. /\ i - Len(idle') = (i + 1) - Len(idle) /\ ~(i + 1 <= Len(idle))
          /\ i - Len(idle') \in 1 .. Len(pool)
      BY <2>1, <2>3, <1>1, <1>2 DEF Count
    <3> QED BY <2>1, <2>3, <3>1, <1>1 DEF Queue
  <2> QED BY <2>1, <2>2, <2>3
<1> QED BY <1>2, <1>3, <1>4
-----------------------------------------------------------------------------
(* Types. *)

(* TypeInv is TypeOK with the bound that refresh() keeps: one status at a time. *)
LEMMA Typed == TypeInv => TypeOK
  BY DEF TypeInv, QueueOK, FlagsOK, ShownOK, TypeOK, Count

(* The queue when a result is taken, a call is submitted, or both.              *)
LEMMA QueueTakes ==
  ASSUME QueueOK, idle # <<>>, idle' = Tail(idle), pool' = pool
  PROVE  QueueOK'
<1>1. idle' \in Seq(Result) /\ pool' \in Seq(Job)
  BY DEF QueueOK
<1>2. Count \in Nat /\ Count' = Count - 1
  BY QueueTake
<1> QED BY <1>1, <1>2, BoundAssumption DEF QueueOK

LEMMA QueueSubmits ==
  ASSUME QueueOK, NEW job \in Job, pool' = Append(pool, job), idle' = idle,
         Count < MaxJobs \/ (~refreshing /\ refreshing')
  PROVE  QueueOK'
<1>1. idle' \in Seq(Result) /\ pool' \in Seq(Job)
  BY DEF QueueOK
<1>2. Count \in Nat /\ Count' = Count + 1
  BY QueueSubmit, QueueType
<1> QED BY <1>1, <1>2, BoundAssumption DEF QueueOK

LEMMA QueueFollows ==
  ASSUME QueueOK, idle # <<>>, idle' = Tail(idle), NEW job \in Job, pool' = Append(pool, job),
         refreshing => refreshing'
  PROVE  QueueOK'
<1>1. idle' \in Seq(Result) /\ pool' \in Seq(Job)
  BY DEF QueueOK
<1>2. Count \in Nat /\ Count' = Count
  BY QueueFollow
<1> QED BY <1>1, <1>2, BoundAssumption DEF QueueOK

LEMMA QueueStays == QueueOK /\ UNCHANGED <<pool, idle, refreshing>> => QueueOK'
  BY DEF QueueOK, Count

(* The calls there are.                                                         *)
LEMMA Jobs ==
  ASSUME NEW kind \in Kinds, NEW after \in After
  PROVE  [kind |-> kind, after |-> after] \in Job
  BY DEF Job

LEMMA Words ==
  /\ "status" \in Kinds /\ "doctor" \in Kinds /\ "reveal" \in Kinds /\ "none" \in After
  /\ Mode \subseteq Requests /\ "configure" \in Requests /\ Requests \subseteq Kinds
  /\ "status" \notin Requests /\ "doctor" \notin Requests /\ "reveal" \notin Requests
  /\ After \ {"none"} \subseteq Requests
  BY DEF Kinds, After, Mode, Requests

(* What a result carries.                                                       *)
LEMMA ArrivedType ==
  ASSUME QueueOK, idle # <<>>
  PROVE  /\ Arrived = idle[1] /\ Arrived.kind \in Kinds /\ Arrived.after \in After
         /\ Arrived.ok \in BOOLEAN /\ Arrived.value \in Report
<1>1. Arrived \in Result /\ Arrived = idle[1]
  BY DEF QueueOK, Arrived
<1> QED BY <1>1 DEF Result

(* What a call makes of the hotspot is a report.                                *)
LEMMA OutcomeType == ASSUME hotspot \in Report, NEW kind, NEW new \in Outcomes(kind) PROVE new \in Report
<1>1. CASE kind = "start"
  BY <1>1 DEF Outcomes, Report
<1>2. CASE kind = "off"
  BY <1>2 DEF Outcomes, Report
<1>3. CASE kind = "configure"
  <2>1. new \in {[hotspot EXCEPT !.configured = hotspot.configured \/ ~hotspot.on], hotspot}
    BY <1>3 DEF Outcomes
  <2>2. (hotspot.configured \/ ~hotspot.on) \in BOOLEAN
    OBVIOUS
  <2>3. \A b \in BOOLEAN : [hotspot EXCEPT !.configured = b] \in Report
    BY DEF Report
  <2> QED BY <2>1, <2>2, <2>3
<1>4. CASE kind \notin {"start", "off", "configure"}
  BY <1>4 DEF Outcomes
<1> QED BY <1>1, <1>2, <1>3, <1>4

LEMMA RowsType == ASSUME NEW report \in Report PROVE WithoutRows(report) \in Report
  BY DEF WithoutRows, Report

(* A flag that is computed is a flag.                                           *)
LEMMA TrayType == UpdateTray => revealable' \in BOOLEAN
<1>1. (~busy' /\ ~revealPending' /\ current'.configured) \in BOOLEAN
  OBVIOUS
<1> QED BY <1>1 DEF UpdateTray

LEMMA TypeStep == TypeInv /\ [Next]_vars => TypeInv'
<1> SUFFICES ASSUME TypeInv, [Next]_vars PROVE TypeInv'
  OBVIOUS
<1>0. QueueOK /\ FlagsOK /\ ShownOK
  BY DEF TypeInv
<1>1. CASE Work
  <2>1. PICK new \in Outcomes(Head(pool).kind), ok \in BOOLEAN :
          /\ pool # <<>> /\ hotspot' = new /\ pool' = Tail(pool)
          /\ idle' = Append(idle, [kind |-> Head(pool).kind, after |-> Head(pool).after, ok |-> ok, value |-> new])
    BY <1>1 DEF Work
  <2>2. UNCHANGED <<changes, current, busy, refreshing, revealPending, fresh, revealable, view, secret, dialog>>
    BY <1>1 DEF Work, flags
  <2>3. new \in Report
    BY <1>0, OutcomeType DEF ShownOK
  <2>4. Head(pool) \in Job /\ pool' \in Seq(Job)
    BY <2>1, <1>0 DEF QueueOK
  <2>5. [kind |-> Head(pool).kind, after |-> Head(pool).after, ok |-> ok, value |-> new] \in Result
    BY <2>3, <2>4 DEF Job, Result
  <2>6. idle' \in Seq(Result)
    BY <2>1, <2>5, <1>0 DEF QueueOK
  <2>7. Count' = Count
    BY <1>0, <1>1, QueueWork
  <2>8. QueueOK'
    BY <2>2, <2>4, <2>6, <2>7, <1>0 DEF QueueOK
  <2>9. FlagsOK'
    BY <2>2, <1>0 DEF FlagsOK
  <2> QED BY <2>1, <2>2, <2>3, <2>8, <2>9, <1>0 DEF TypeInv, ShownOK
<1>2. CASE DeliverClosed
  <2>1. /\ idle # <<>> /\ idle' = Tail(idle) /\ pool' = pool
        /\ revealPending' = (revealPending /\ Arrived.kind # "reveal")
        /\ UNCHANGED <<hotspot, changes, current, busy, refreshing, fresh, revealable, view, secret, dialog>>
    BY <1>2 DEF DeliverClosed
  <2>2. (revealPending /\ Arrived.kind # "reveal") \in BOOLEAN
    OBVIOUS
  <2>3. QueueOK'
    BY <2>1, <1>0, QueueTakes
  <2>4. FlagsOK'
    BY <2>1, <2>2, <1>0 DEF FlagsOK
  <2> QED BY <2>1, <2>3, <2>4, <1>0 DEF TypeInv, ShownOK
<1>3. CASE DeliverStatus
  <2>1. /\ idle # <<>> /\ idle' = Tail(idle) /\ pool' = pool /\ refreshing' = FALSE
        /\ UNCHANGED <<hotspot, changes, busy, revealPending, fresh, view, secret, dialog>>
        /\ revealable' = revealable \/ UpdateTray
        /\ \/ current' = current \/ current' = Arrived.value
           \/ current' = [on |-> FALSE, configured |-> FALSE, clients |-> FALSE]
    BY <1>3 DEF DeliverStatus, Arrives
  <2>2. current' \in Report
    <3>1. [on |-> FALSE, configured |-> FALSE, clients |-> FALSE] \in Report
      BY DEF Report
    <3> QED BY <3>1, <2>1, <1>0, ArrivedType DEF ShownOK
  <2>3. QueueOK'
    BY <2>1, <1>0, QueueTakes
  <2>4. FlagsOK'
    BY <2>1, <1>0, TrayType DEF FlagsOK
  <2> QED BY <2>1, <2>2, <2>3, <2>4, <1>0 DEF TypeInv, ShownOK
<1>4. CASE DeliverDoctor
  <2>1. /\ idle # <<>> /\ idle' = Tail(idle) /\ pool' = pool
        /\ UNCHANGED <<hotspot, changes, current, busy, refreshing, revealPending, fresh, revealable, view, secret, dialog>>
    BY <1>4 DEF DeliverDoctor, Arrives, flags
  <2>2. QueueOK'
    BY <2>1, <1>0, QueueTakes
  <2> QED BY <2>1, <2>2, <1>0 DEF TypeInv, FlagsOK, ShownOK
<1>5. CASE DeliverReveal
  <2>1. /\ idle # <<>> /\ idle' = Tail(idle) /\ pool' = pool /\ revealPending' = FALSE
        /\ UNCHANGED <<hotspot, changes, busy, current, refreshing, fresh, view, dialog>>
        /\ revealable' = revealable \/ UpdateTray
        /\ secret' = secret \/ secret' = Arrived.ok
    BY <1>5 DEF DeliverReveal, Arrives
  <2>2. QueueOK'
    BY <2>1, <1>0, QueueTakes
  <2>3. FlagsOK'
    BY <2>1, <1>0, TrayType, ArrivedType DEF FlagsOK
  <2> QED BY <2>1, <2>2, <2>3, <1>0 DEF TypeInv, ShownOK
<1>6. CASE DeliverRequest
  <2>1. /\ idle # <<>> /\ idle' = Tail(idle)
        /\ UNCHANGED <<hotspot, changes, revealPending, view>>
    BY <1>6 DEF DeliverRequest, Arrives
  <2>2. CASE ~Arrived.ok
    <3>1. /\ busy' = FALSE /\ UpdateTray
          /\ UNCHANGED <<current, pool, refreshing, fresh, secret, dialog>>
      BY <2>2, <1>6 DEF DeliverRequest
    <3>2. QueueOK'
      BY <3>1, <2>1, <1>0, QueueTakes
    <3>3. FlagsOK'
      BY <3>1, <2>1, <1>0, TrayType DEF FlagsOK
    <3> QED BY <3>1, <3>2, <3>3, <2>1, <1>0 DEF TypeInv, ShownOK
  <2>3. CASE Arrived.ok /\ Arrived.after = "none"
    <3>1. /\ busy' = FALSE /\ current' = Arrived.value /\ UpdateTray /\ refreshing' = TRUE
          /\ IF refreshing THEN pool' = pool ELSE Submit("status")
          /\ UNCHANGED <<fresh, secret, dialog>>
      BY <2>3, <1>6 DEF DeliverRequest
    <3>2. QueueOK'
      <4>1. CASE refreshing
        BY <4>1, <3>1, <2>1, <1>0, QueueTakes
      <4>2. CASE ~refreshing
        BY <4>2, <3>1, <2>1, <1>0, QueueFollows, Jobs, Words DEF Submit
      <4> QED BY <4>1, <4>2
    <3>3. FlagsOK'
      BY <3>1, <2>1, <1>0, TrayType DEF FlagsOK
    <3>4. current' \in Report
      BY <3>1, <2>1, <1>0, ArrivedType
    <3> QED BY <3>1, <3>2, <3>3, <3>4, <2>1, <1>0 DEF TypeInv, ShownOK
  <2>4. CASE Arrived.ok /\ Arrived.after # "none"
    <3>1. /\ Begin(Arrived.after, "none") /\ current' = WithoutRows(Arrived.value)
          /\ UNCHANGED <<refreshing, dialog>>
      BY <2>4, <1>6 DEF DeliverRequest
    <3>2. Arrived.after \in Kinds /\ Arrived.value \in Report
      BY <2>1, <2>4, <1>0, ArrivedType, Words
    <3>3. QueueOK'
      BY <3>1, <3>2, <2>1, <1>0, QueueFollows, Jobs, Words DEF Begin
    <3>4. FlagsOK'
      BY <3>1, <2>1, <1>0 DEF FlagsOK, Begin, ClearSecret
    <3>5. current' \in Report
      BY <3>1, <3>2, RowsType
    <3> QED BY <3>1, <3>3, <3>4, <3>5, <2>1, <1>0 DEF TypeInv, ShownOK
  <2> QED BY <2>2, <2>3, <2>4
<1>7. CASE Refresh
  <2>1. /\ ~refreshing /\ refreshing' = TRUE /\ Submit("status")
        /\ UNCHANGED <<hotspot, changes, current, idle, busy, revealPending, fresh, revealable, view, secret, dialog>>
    BY <1>7 DEF Refresh
  <2>2. QueueOK'
    BY <2>1, <1>0, QueueSubmits, Jobs, Words DEF Submit
  <2> QED BY <2>1, <2>2, <1>0 DEF TypeInv, FlagsOK, ShownOK
<1>8. ASSUME NEW kind \in Mode, ActivateMode(kind), Room, view' \in {view, "visible"},
             UNCHANGED <<hotspot, changes, idle, refreshing, revealPending>>
      PROVE  TypeInv'
  <2>1. Count < MaxJobs
    BY <1>0, <1>8, QueueType, BoundAssumption DEF Room, Count
  <2>2. CASE kind = "start" /\ ~current.configured
    <3>1. /\ dialog' \in {dialog, "start"}
          /\ UNCHANGED <<current, pool, busy, secret, fresh, revealable>>
      BY <1>8, <2>2 DEF ActivateMode
    <3>2. QueueOK'
      BY <3>1, <1>8, <1>0, QueueStays
    <3> QED BY <3>1, <3>2, <1>8, <1>0 DEF TypeInv, FlagsOK, ShownOK, After
  <2>3. CASE ~(kind = "start" /\ ~current.configured)
    <3>1. Begin(kind, "none") /\ current' = WithoutRows(current) /\ dialog' = dialog
      BY <1>8, <2>3 DEF ActivateMode
    <3>2. QueueOK'
      BY <3>1, <2>1, <1>8, <1>0, QueueSubmits, Jobs, Words DEF Begin
    <3>3. FlagsOK'
      BY <3>1, <1>8, <1>0 DEF FlagsOK, Begin, ClearSecret
    <3>4. current' \in Report
      BY <3>1, <1>0, RowsType DEF ShownOK
    <3> QED BY <3>1, <3>2, <3>3, <3>4, <1>8, <1>0 DEF TypeInv, ShownOK
  <2> QED BY <2>2, <2>3
<1>9. CASE TrayOpen
  BY <1>9, <1>0, QueueStays DEF TrayOpen, TypeInv, FlagsOK, ShownOK, flags
<1>10. CASE PressPassword
  BY <1>10, <1>0, QueueStays, Words DEF PressPassword, TypeInv, FlagsOK, ShownOK, flags
<1>11. CASE SubmitPassword
  <2>1. /\ Room /\ dialog # "closed" /\ Begin("configure", dialog) /\ dialog' = "closed"
        /\ UNCHANGED <<hotspot, changes, current, idle, refreshing, revealPending, view>>
    BY <1>11 DEF SubmitPassword
  <2>2. Count < MaxJobs
    BY <1>0, <2>1, QueueType, BoundAssumption DEF Room, Count
  <2>3. dialog \in After
    BY <2>1, <1>0 DEF ShownOK
  <2>4. QueueOK'
    BY <2>1, <2>2, <2>3, <1>0, QueueSubmits, Jobs, Words DEF Begin
  <2>5. FlagsOK'
    BY <2>1, <1>0 DEF FlagsOK, Begin, ClearSecret
  <2> QED BY <2>1, <2>4, <2>5, <1>0 DEF TypeInv, ShownOK
<1>12. CASE DismissDialog
  BY <1>12, <1>0, QueueStays DEF DismissDialog, TypeInv, FlagsOK, ShownOK, flags
<1>13. CASE PressReveal
  <2>1. /\ Room /\ Submit("reveal") /\ revealPending' = TRUE /\ fresh' = TRUE /\ revealable' = FALSE
        /\ UNCHANGED <<hotspot, changes, current, idle, busy, refreshing, view, secret, dialog>>
    BY <1>13 DEF PressReveal
  <2>2. Count < MaxJobs
    BY <1>0, <2>1, QueueType, BoundAssumption DEF Room, Count
  <2>3. QueueOK'
    BY <2>1, <2>2, <1>0, QueueSubmits, Jobs, Words DEF Submit
  <2> QED BY <2>1, <2>3, <1>0 DEF TypeInv, FlagsOK, ShownOK
<1>14. CASE PressDiagnose
  <2>1. /\ Room /\ Submit("doctor")
        /\ UNCHANGED <<hotspot, changes, current, idle, busy, refreshing, revealPending, fresh, revealable, view, secret, dialog>>
    BY <1>14 DEF PressDiagnose, flags
  <2>2. Count < MaxJobs
    BY <1>0, <2>1, QueueType, BoundAssumption DEF Room, Count
  <2>3. QueueOK'
    BY <2>1, <2>2, <1>0, QueueSubmits, Jobs, Words DEF Submit
  <2> QED BY <2>1, <2>3, <1>0 DEF TypeInv, FlagsOK, ShownOK
<1>15. CASE ChangeLanguage
  <2>1. /\ ClearSecret /\ dialog' = "closed" /\ UpdateTray
        /\ UNCHANGED <<hotspot, changes, current, pool, idle, busy, refreshing, revealPending, view>>
    BY <1>15 DEF ChangeLanguage
  <2>2. FlagsOK'
    BY <2>1, <1>0, TrayType DEF FlagsOK, ClearSecret
  <2> QED BY <2>1, <2>2, <1>0, QueueStays DEF TypeInv, ShownOK
<1>16. CASE SecretEnds
  BY <1>16, <1>0, QueueStays DEF SecretEnds, TypeInv, FlagsOK, ShownOK, flags
<1>17. ASSUME NEW to \in {"hidden", "closed"}, Leave(to) PROVE TypeInv'
  BY <1>17, <1>0, QueueStays DEF Leave, ClearSecret, TypeInv, FlagsOK, ShownOK
<1>18. CASE Outside
  <2>1. hotspot' \in Report /\ changes' \in 0 .. MaxChanges
    BY <1>18, <1>0, BoundAssumption DEF Outside, ShownOK
  <2> QED BY <1>18, <2>1, <1>0, QueueStays DEF Outside, TypeInv, FlagsOK, ShownOK, flags
<1>19. CASE UNCHANGED vars
  BY <1>19, <1>0, QueueStays DEF vars, flags, TypeInv, FlagsOK, ShownOK
<1>20. ASSUME NEW kind \in Mode, PressMode(kind) PROVE TypeInv'
  BY <1>20, <1>8 DEF PressMode
<1>21. CASE TrayOff
  BY <1>21, <1>8 DEF TrayOff, Mode
<1> QED
  BY <1>1, <1>2, <1>3, <1>4, <1>5, <1>6, <1>7, <1>9, <1>10, <1>11, <1>12, <1>13, <1>14,
     <1>15, <1>16, <1>17, <1>18, <1>19, <1>20, <1>21 DEF Next, Deliver

LEMMA TypeInit == Init => TypeInv
<1> SUFFICES ASSUME Init PROVE TypeInv
  OBVIOUS
<1>1. QueueOK
  <2>1. pool = <<[kind |-> "status", after |-> "none"]>> /\ idle = <<>> /\ refreshing
    BY DEF Init
  <2>2. pool \in Seq(Job) /\ idle \in Seq(Result) /\ Len(pool) = 1 /\ Len(idle) = 0
    BY <2>1, Jobs, Words
  <2> QED BY <2>1, <2>2, BoundAssumption DEF QueueOK, Count
<1>2. FlagsOK
  BY DEF Init, FlagsOK
<1>3. ShownOK
  BY BoundAssumption DEF Init, ShownOK, Report
<1> QED BY <1>1, <1>2, <1>3 DEF TypeInv

(* Type correctness of the window, for every bound: in particular that beside   *)
(* the calls a user started no more than one refresh is under way.              *)
THEOREM WindowTypes == Spec => []TypeOK
<1>1. Spec => []TypeInv
  BY TypeInit, TypeStep, PTL DEF Spec
<1> QED BY <1>1, Typed, PTL
-----------------------------------------------------------------------------
(* The pending reveal. *)

(* The order of a queue that loses its first, gains a last, or both.            *)
LEMMA Shifted ==
  ASSUME NEW n \in Nat \ {0}, NEW q, NEW r, \A i \in 1 .. (n - 1) : r[i] = q[i + 1]
  PROVE  /\ One(n, q) => One(n - 1, r)
         /\ Last(n, q) => Last(n - 1, r)
         /\ \A S : No(n, q, S) => No(n - 1, r, S)
         /\ One(n, q) /\ q[1] = "reveal" => No(n - 1, r, {"reveal"})
         /\ Last(n, q) /\ q[1] = "reveal" => No(n - 1, r, Requests)
<1>1. \A i \in 1 .. (n - 1) : i + 1 \in 1 .. n /\ i + 1 # 1
  OBVIOUS
<1>2. 1 \in 1 .. n
  OBVIOUS
<1>3. One(n, q) => One(n - 1, r)
  BY <1>1 DEF One
<1>4. Last(n, q) => Last(n - 1, r)
  BY <1>1 DEF Last
<1>5. \A S : No(n, q, S) => No(n - 1, r, S)
  BY <1>1 DEF No
<1>6. One(n, q) /\ q[1] = "reveal" => No(n - 1, r, {"reveal"})
  BY <1>1, <1>2 DEF One, No
<1>7. Last(n, q) /\ q[1] = "reveal" => No(n - 1, r, Requests)
  BY <1>1, <1>2 DEF Last, No
<1> QED BY <1>3, <1>4, <1>5, <1>6, <1>7

LEMMA Grown ==
  ASSUME NEW n \in Nat, NEW q, NEW r, \A i \in 1 .. n : r[i] = q[i]
  PROVE  /\ One(n, q) /\ r[n + 1] # "reveal" => One(n + 1, r)
         /\ Last(n, q) /\ r[n + 1] \notin Requests \cup {"reveal"} => Last(n + 1, r)
         /\ \A S : No(n, q, S) /\ r[n + 1] \notin S => No(n + 1, r, S)
         /\ No(n, q, {"reveal"}) /\ r[n + 1] = "reveal" => One(n + 1, r) /\ Last(n + 1, r)
<1>1. \A i \in 1 .. (n + 1) : i \in 1 .. n \/ i = n + 1
  OBVIOUS
<1>2. One(n, q) /\ r[n + 1] # "reveal" => One(n + 1, r)
  BY <1>1 DEF One
<1>3. Last(n, q) /\ r[n + 1] \notin Requests \cup {"reveal"} => Last(n + 1, r)
  BY <1>1 DEF Last
<1>4. \A S : No(n, q, S) /\ r[n + 1] \notin S => No(n + 1, r, S)
  BY <1>1 DEF No
<1>5. No(n, q, {"reveal"}) /\ r[n + 1] = "reveal" => One(n + 1, r)
  BY <1>1 DEF One, No
<1>6. No(n, q, {"reveal"}) /\ r[n + 1] = "reveal" => Last(n + 1, r)
  BY <1>1, Words DEF Last, No
<1> QED BY <1>2, <1>3, <1>4, <1>5, <1>6

LEMMA Followed ==
  ASSUME NEW n \in Nat \ {0}, NEW q, NEW r, \A i \in 1 .. n : i # n => r[i] = q[i + 1]
  PROVE  /\ One(n, q) /\ r[n] # "reveal" => One(n, r)
         /\ Last(n, q) /\ r[n] \notin Requests \cup {"reveal"} => Last(n, r)
         /\ \A S : No(n, q, S) /\ r[n] \notin S => No(n, r, S)
<1>1. \A i \in 1 .. (n - 1) : i \in 1 .. n /\ i # n
  OBVIOUS
<1>2. \A i \in 1 .. (n - 1) : r[i] = q[i + 1]
  BY <1>1
<1>3. n - 1 \in Nat /\ (n - 1) + 1 = n
  OBVIOUS
<1>4. /\ One(n, q) => One(n - 1, r)
      /\ Last(n, q) => Last(n - 1, r)
      /\ \A S : No(n, q, S) => No(n - 1, r, S)
  BY <1>2, Shifted
<1>5. /\ One(n - 1, r) /\ r[n] # "reveal" => One(n, r)
      /\ Last(n - 1, r) /\ r[n] \notin Requests \cup {"reveal"} => Last(n, r)
      /\ \A S : No(n - 1, r, S) /\ r[n] \notin S => No(n, r, S)
  BY <1>3, Grown
<1> QED BY <1>4, <1>5

(* A request stales the pending reveal and clears the secret.                   *)
LEMMA Begun ==
  ASSUME QueueOK, OneReveal, NEW kind \in Requests, NEW after, Begin(kind, after), revealPending' = revealPending,
         idle' = idle \/ (idle # <<>> /\ idle' = Tail(idle))
  PROVE  WindowInv'
<1> DEFINE job == [kind |-> kind, after |-> after]
<1>1. pool' = Append(pool, job) /\ job.kind = kind /\ fresh' = FALSE /\ secret' = FALSE
  BY DEF Begin, ClearSecret
<1> HIDE DEF job
<1>2. kind # "reveal" /\ kind \notin {"reveal"}
  BY Words
<1>3. OneReveal'
  <2>1. CASE idle' = idle
    <3>1. /\ Count \in Nat /\ Count' = Count + 1 /\ Queue'[Count + 1] = kind
          /\ \A i \in 1 .. Count : Queue'[i] = Queue[i]
      BY <1>1, <2>1, QueueSubmit, QueueType
    <3>2. /\ One(Count, Queue) => One(Count + 1, Queue')
          /\ No(Count, Queue, {"reveal"}) => No(Count + 1, Queue', {"reveal"})
      BY <3>1, <1>2, Grown
    <3>3. One(Count', Queue') /\ (~revealPending => No(Count', Queue', {"reveal"}))
      BY <3>1, <3>2 DEF OneReveal
    <3> QED BY <3>3 DEF OneReveal
  <2>2. CASE idle # <<>> /\ idle' = Tail(idle)
    <3>1. /\ Count \in Nat \ {0} /\ Count' = Count /\ Queue'[Count] = kind
          /\ \A i \in 1 .. Count : i # Count => Queue'[i] = Queue[i + 1]
      BY <1>1, <2>2, QueueFollow
    <3>2. /\ One(Count, Queue) => One(Count, Queue')
          /\ No(Count, Queue, {"reveal"}) => No(Count, Queue', {"reveal"})
      BY <3>1, <1>2, Followed
    <3>3. One(Count', Queue') /\ (~revealPending => No(Count', Queue', {"reveal"}))
      BY <3>1, <3>2 DEF OneReveal
    <3> QED BY <3>3 DEF OneReveal
  <2> QED BY <2>1, <2>2
<1> QED BY <1>1, <1>3 DEF WindowInv, FreshLast, Hidden

(* A call that neither reveals nor requests changes nothing of it.              *)
LEMMA Asked ==
  ASSUME QueueOK, WindowInv, NEW job, pool' = Append(pool, job), job.kind \notin Requests \cup {"reveal"},
         idle' = idle \/ (idle # <<>> /\ idle' = Tail(idle)),
         UNCHANGED <<revealPending, fresh, secret, view>>
  PROVE  WindowInv'
<1>0. OneReveal /\ FreshLast /\ Hidden
  BY DEF WindowInv
<1>1. job.kind # "reveal" /\ job.kind \notin {"reveal"}
  OBVIOUS
<1>2. /\ One(Count, Queue) => One(Count', Queue')
      /\ Last(Count, Queue) => Last(Count', Queue')
      /\ No(Count, Queue, {"reveal"}) => No(Count', Queue', {"reveal"})
      /\ No(Count, Queue, Requests \cup {"reveal"}) => No(Count', Queue', Requests \cup {"reveal"})
  <2>1. CASE idle' = idle
    <3>1. /\ Count \in Nat /\ Count' = Count + 1 /\ Queue'[Count + 1] = job.kind
          /\ \A i \in 1 .. Count : Queue'[i] = Queue[i]
      BY <2>1, QueueSubmit, QueueType
    <3>2. /\ One(Count, Queue) => One(Count + 1, Queue')
          /\ Last(Count, Queue) => Last(Count + 1, Queue')
          /\ \A S : No(Count, Queue, S) /\ job.kind \notin S => No(Count + 1, Queue', S)
      BY <3>1, <1>1, Grown
    <3> QED BY <3>1, <3>2, <1>1
  <2>2. CASE idle # <<>> /\ idle' = Tail(idle)
    <3>1. /\ Count \in Nat \ {0} /\ Count' = Count /\ Queue'[Count] = job.kind
          /\ \A i \in 1 .. Count : i # Count => Queue'[i] = Queue[i + 1]
      BY <2>2, QueueFollow
    <3>2. /\ One(Count, Queue) => One(Count, Queue')
          /\ Last(Count, Queue) => Last(Count, Queue')
          /\ \A S : No(Count, Queue, S) /\ job.kind \notin S => No(Count, Queue', S)
      BY <3>1, <1>1, Followed
    <3> QED BY <3>1, <3>2, <1>1
  <2> QED BY <2>1, <2>2
<1>3. OneReveal'
  BY <1>0, <1>2 DEF OneReveal
<1>4. FreshLast'
  BY <1>0, <1>2 DEF FreshLast
<1>5. Hidden'
  BY <1>0, <1>2 DEF Hidden
<1> QED BY <1>3, <1>4, <1>5 DEF WindowInv

(* A result that is no reveal's is taken: nothing of it changes either.         *)
LEMMA Took ==
  ASSUME QueueOK, WindowInv, idle # <<>>, idle' = Tail(idle), pool' = pool, Arrived.kind # "reveal",
         UNCHANGED <<revealPending, fresh, secret, view>>
  PROVE  WindowInv'
<1>0. OneReveal /\ FreshLast /\ Hidden
  BY DEF WindowInv
<1>1. /\ Count \in Nat \ {0} /\ Count' = Count - 1
      /\ \A i \in 1 .. (Count - 1) : Queue'[i] = Queue[i + 1]
  BY QueueTake
<1>2. /\ One(Count, Queue) => One(Count', Queue')
      /\ Last(Count, Queue) => Last(Count', Queue')
      /\ \A S : No(Count, Queue, S) => No(Count', Queue', S)
  BY <1>1, Shifted
<1>3. OneReveal'
  BY <1>0, <1>2 DEF OneReveal
<1>4. FreshLast'
  BY <1>0, <1>2 DEF FreshLast
<1>5. Hidden'
  BY <1>0, <1>2 DEF Hidden
<1> QED BY <1>3, <1>4, <1>5 DEF WindowInv

(* A reveal's result is taken: none is left, and if it was fresh no request is. *)
LEMMA TookReveal ==
  ASSUME QueueOK, WindowInv, idle # <<>>, idle' = Tail(idle), pool' = pool, Arrived.kind = "reveal",
         revealPending' = FALSE, UNCHANGED <<fresh, view>>,
         fresh \/ secret' = secret
  PROVE  WindowInv'
<1>0. OneReveal /\ FreshLast /\ Hidden
  BY DEF WindowInv
<1>1. /\ Count \in Nat \ {0} /\ Count' = Count - 1 /\ Queue[1] = "reveal" /\ 1 \in 1 .. Count
      /\ \A i \in 1 .. (Count - 1) : Queue'[i] = Queue[i + 1]
  BY QueueTake DEF Arrived
<1>2. /\ One(Count, Queue) => One(Count', Queue')
      /\ Last(Count, Queue) => Last(Count', Queue')
      /\ One(Count, Queue) => No(Count', Queue', {"reveal"})
      /\ Last(Count, Queue) => No(Count', Queue', Requests)
  BY <1>1, Shifted
<1>3. OneReveal'
  BY <1>0, <1>2 DEF OneReveal
<1>4. FreshLast'
  BY <1>0, <1>2 DEF FreshLast
<1>5. ~secret
  BY <1>0, <1>1 DEF Hidden, No
<1>6. fresh => No(Count', Queue', Requests \cup {"reveal"})
  BY <1>0, <1>2 DEF OneReveal, FreshLast, No
<1>7. Hidden'
  BY <1>0, <1>5, <1>6 DEF Hidden, FreshLast
<1> QED BY <1>3, <1>4, <1>7 DEF WindowInv

(* Without a change of the queue only the view, the reveal and the secret count. *)
LEMMA Rested ==
  ASSUME WindowInv, UNCHANGED <<pool, idle, revealPending>>,
         fresh' => fresh /\ view' = "visible", secret' => secret /\ view' = "visible"
  PROVE  WindowInv'
<1>0. OneReveal /\ FreshLast /\ Hidden
  BY DEF WindowInv
<1>1. Count' = Count /\ Queue' = Queue
  BY DEF Count, Queue
<1>2. OneReveal'
  BY <1>0, <1>1 DEF OneReveal
<1>3. FreshLast'
  BY <1>0, <1>1 DEF FreshLast
<1>4. Hidden'
  BY <1>0, <1>1 DEF Hidden
<1> QED BY <1>2, <1>3, <1>4 DEF WindowInv

LEMMA WindowStep == TypeInv /\ WindowInv /\ [Next]_vars => WindowInv'
<1> SUFFICES ASSUME TypeInv, WindowInv, [Next]_vars PROVE WindowInv'
  OBVIOUS
<1>0. /\ QueueOK /\ OneReveal
      /\ fresh => view = "visible"
      /\ secret => view = "visible"
  BY DEF TypeInv, WindowInv, FreshLast, Hidden
<1>1. CASE Work
  <2>1. UNCHANGED <<revealPending, fresh, view, secret>>
    BY <1>1 DEF Work, flags
  <2>2. Count' = Count /\ Queue' = Queue
    BY <1>0, <1>1, QueueWork
  <2>3. OneReveal' /\ FreshLast' /\ Hidden'
    BY <2>1, <2>2 DEF WindowInv, OneReveal, FreshLast, Hidden
  <2> QED BY <2>3 DEF WindowInv
<1>2. CASE DeliverClosed
  <2>1. /\ view = "closed" /\ idle # <<>> /\ idle' = Tail(idle) /\ pool' = pool
        /\ revealPending' = (revealPending /\ Arrived.kind # "reveal")
        /\ UNCHANGED <<fresh, view, secret>>
    BY <1>2 DEF DeliverClosed
  <2>2. CASE Arrived.kind = "reveal"
    BY <2>1, <2>2, <1>0, TookReveal
  <2>3. CASE Arrived.kind # "reveal"
    <3>1. revealPending' = revealPending
      BY <2>1, <2>3 DEF TypeInv, FlagsOK
    <3> QED BY <3>1, <2>1, <2>3, <1>0, Took
  <2> QED BY <2>2, <2>3
<1>3. CASE DeliverStatus \/ DeliverDoctor
  <2>1. /\ idle # <<>> /\ idle' = Tail(idle) /\ pool' = pool /\ Arrived.kind # "reveal"
        /\ UNCHANGED <<revealPending, fresh, view, secret>>
    BY <1>3 DEF DeliverStatus, DeliverDoctor, Arrives, Arrived, flags
  <2> QED BY <2>1, <1>0, Took
<1>4. CASE DeliverReveal
  <2>1. /\ idle # <<>> /\ idle' = Tail(idle) /\ pool' = pool /\ Arrived.kind = "reveal"
        /\ revealPending' = FALSE /\ UNCHANGED <<fresh, view>>
        /\ fresh \/ secret' = secret
    BY <1>4 DEF DeliverReveal, Arrives, Arrived
  <2> QED BY <2>1, <1>0, TookReveal
<1>5. CASE DeliverRequest
  <2>1. /\ idle # <<>> /\ idle' = Tail(idle) /\ Arrived.kind \in Requests
        /\ UNCHANGED <<revealPending, view>>
    BY <1>5 DEF DeliverRequest, Arrives, Arrived, Requests
  <2>2. Arrived.kind # "reveal"
    BY <2>1, Words
  <2>3. CASE pool' = pool /\ UNCHANGED <<fresh, secret>>
    BY <2>1, <2>2, <2>3, <1>0, Took
  <2>4. CASE Submit("status") /\ UNCHANGED <<fresh, secret>>
    <3> DEFINE job == [kind |-> "status", after |-> "none"]
    <3>1. pool' = Append(pool, job) /\ job.kind \notin Requests \cup {"reveal"}
      BY <2>4, Words DEF Submit
    <3> HIDE DEF job
    <3> QED BY <3>1, <2>1, <2>4, <1>0, Asked
  <2>5. CASE Arrived.ok /\ Arrived.after # "none"
    <3>1. Begin(Arrived.after, "none")
      BY <2>5, <1>5 DEF DeliverRequest
    <3>2. Arrived.after \in Requests
      BY <2>1, <2>5, <1>0, ArrivedType, Words
    <3> QED BY <3>1, <3>2, <2>1, <1>0, Begun
  <2> QED BY <2>3, <2>4, <2>5, <1>5 DEF DeliverRequest
<1>6. CASE Refresh \/ PressDiagnose
  <2> DEFINE status == [kind |-> "status", after |-> "none"]
             doctor == [kind |-> "doctor", after |-> "none"]
  <2>1. pool' \in {Append(pool, status), Append(pool, doctor)}
    BY <1>6 DEF Refresh, PressDiagnose, Submit
  <2>2. idle' = idle /\ UNCHANGED <<revealPending, fresh, secret, view>>
    BY <1>6 DEF Refresh, PressDiagnose, flags
  <2>3. /\ status.kind \notin Requests \cup {"reveal"}
        /\ doctor.kind \notin Requests \cup {"reveal"}
    BY Words
  <2> HIDE DEF status, doctor
  <2> QED BY <2>1, <2>2, <2>3, <1>0, Asked
<1>7. ASSUME NEW kind \in Mode, ActivateMode(kind), kind = "off" \/ (Uncovered /\ view' = view),
             UNCHANGED <<idle, revealPending>>
      PROVE  WindowInv'
  <2>1. CASE kind = "start" /\ ~current.configured
    <3>1. UNCHANGED <<pool, secret, fresh, view>>
      BY <1>7, <2>1 DEF ActivateMode
    <3> QED BY <3>1, <1>0, <1>7, Rested
  <2>2. CASE ~(kind = "start" /\ ~current.configured)
    <3>1. Begin(kind, "none") /\ kind \in Requests
      BY <1>7, <2>2, Words DEF ActivateMode
    <3> QED BY <3>1, <1>0, <1>7, Begun
  <2> QED BY <2>1, <2>2
<1>8. CASE SubmitPassword
  <2>1. Begin("configure", dialog) /\ UNCHANGED <<idle, revealPending>>
    BY <1>8 DEF SubmitPassword
  <2> QED BY <2>1, <1>0, Begun, Words
<1>9. CASE PressReveal
  <2> DEFINE job == [kind |-> "reveal", after |-> "none"]
  <2>1. /\ view = "visible" /\ ~secret /\ ~revealPending /\ revealPending' = TRUE
        /\ pool' = Append(pool, job) /\ UNCHANGED <<idle, view, secret>>
    BY <1>9 DEF PressReveal, Uncovered, Submit
  <2>2. job.kind = "reveal"
    OBVIOUS
  <2> HIDE DEF job
  <2>3. /\ Count \in Nat /\ Count' = Count + 1 /\ Queue'[Count + 1] = "reveal"
        /\ \A i \in 1 .. Count : Queue'[i] = Queue[i]
    BY <2>1, <2>2, <1>0, QueueSubmit, QueueType
  <2>4. No(Count, Queue, {"reveal"})
    BY <2>1, <1>0 DEF OneReveal
  <2>5. One(Count', Queue') /\ Last(Count', Queue')
    BY <2>3, <2>4, Grown
  <2>6. OneReveal' /\ FreshLast' /\ Hidden'
    BY <2>1, <2>5 DEF OneReveal, FreshLast, Hidden
  <2> QED BY <2>6 DEF WindowInv
<1>10. CASE TrayOpen
  <2>1. UNCHANGED <<pool, idle, revealPending, fresh, secret>> /\ view' = "visible"
    BY <1>10 DEF TrayOpen, flags
  <2> QED BY <2>1, <1>0, Rested
<1>11. CASE PressPassword \/ DismissDialog \/ Outside \/ UNCHANGED vars
  <2>1. UNCHANGED <<pool, idle, revealPending, fresh, secret, view>>
    BY <1>11 DEF PressPassword, DismissDialog, Outside, vars, flags
  <2> QED BY <2>1, <1>0, Rested
<1>12. CASE ChangeLanguage \/ SecretEnds \/ (\E to \in {"hidden", "closed"} : Leave(to))
  <2>1. /\ UNCHANGED <<pool, idle, revealPending>> /\ secret' = FALSE
        /\ fresh' = FALSE \/ UNCHANGED <<fresh, view>>
    BY <1>12 DEF ChangeLanguage, SecretEnds, Leave, ClearSecret, flags
  <2> QED BY <2>1, <1>0, Rested
<1>13. ASSUME NEW kind \in Mode, PressMode(kind) PROVE WindowInv'
  BY <1>13, <1>7 DEF PressMode
<1>14. CASE TrayOff
  BY <1>14, <1>7 DEF TrayOff, Mode
<1> QED
  BY <1>1, <1>2, <1>3, <1>4, <1>5, <1>6, <1>8, <1>9, <1>10, <1>11, <1>12, <1>13, <1>14
     DEF Next, Deliver

LEMMA WindowInit == Init => WindowInv
<1> SUFFICES ASSUME Init PROVE WindowInv
  OBVIOUS
<1>1. fresh = FALSE /\ secret = FALSE /\ pool = <<[kind |-> "status", after |-> "none"]>> /\ idle = <<>>
  BY DEF Init
<1>2. Len(idle) = 0 /\ Len(pool) = 1 /\ pool[1].kind = "status"
  BY <1>1
<1>3. Count = 1 /\ Queue[1] = "status"
  BY <1>2 DEF Count, Queue
<1>4. OneReveal
  BY <1>3 DEF OneReveal, One, No
<1> QED BY <1>1, <1>4 DEF WindowInv, FreshLast, Hidden

(* A password is only ever on the screen in a visible window and never while a  *)
(* request is on its way, however many calls are under way (gui.py:456-496).    *)
THEOREM SecretIsContained == Spec => []SecretContained
<1>1. Spec => []TypeInv
  BY TypeInit, TypeStep, PTL DEF Spec
<1>2. Spec => []WindowInv
  BY <1>1, WindowInit, WindowStep, PTL DEF Spec
<1>3. TypeInv /\ WindowInv => SecretContained
  <2> SUFFICES ASSUME TypeInv, WindowInv, secret
               PROVE  view = "visible" /\ ~Underway(Requests) /\ ~Returning(Requests)
    BY DEF SecretContained
  <2>1. view = "visible" /\ \A i \in 1 .. Count : Queue[i] \notin Requests
    BY DEF WindowInv, Hidden, No
  <2>2. Len(idle) \in Nat /\ Len(pool) \in Nat
    BY QueueType DEF TypeInv
  <2>3. ASSUME NEW i \in 1 .. Len(idle) PROVE idle[i].kind \notin Requests
    <3>1. i \in 1 .. Count /\ Queue[i] = idle[i].kind
      BY <2>2 DEF Count, Queue
    <3> QED BY <2>1, <3>1
  <2>4. ASSUME NEW i \in 1 .. Len(pool) PROVE pool[i].kind \notin Requests
    <3>1. Len(idle) + i \in 1 .. Count /\ ~(Len(idle) + i <= Len(idle)) /\ (Len(idle) + i) - Len(idle) = i
      BY <2>2 DEF Count
    <3>2. Queue[Len(idle) + i] = pool[i].kind
      BY <3>1 DEF Queue
    <3> QED BY <2>1, <3>1, <3>2
  <2> QED BY <2>1, <2>3, <2>4 DEF Underway, Returning
<1> QED BY <1>1, <1>2, <1>3, PTL
-----------------------------------------------------------------------------
(* Rows.  What request() cleared nothing brings back before it ends: of a queue  *)
(* that ends with a mode's request, as long as the window is busy.               *)
Moving(n, q) == \E i \in 1 .. n : q[i] \in Mode /\ \A j \in (i + 1) .. n : q[j] \notin Requests
RowsInv == busy /\ Moving(Count, Queue) => ~current.clients

LEMMA MovingShifted ==
  ASSUME NEW n \in Nat \ {0}, NEW q, NEW r, \A i \in 1 .. (n - 1) : r[i] = q[i + 1], Moving(n - 1, r)
  PROVE  Moving(n, q)
<1>1. PICK i \in 1 .. (n - 1) : r[i] \in Mode /\ \A j \in (i + 1) .. (n - 1) : r[j] \notin Requests
  BY DEF Moving
<1>2. i + 1 \in 1 .. n /\ q[i + 1] \in Mode
  BY <1>1
<1>3. ASSUME NEW j \in (i + 2) .. n PROVE q[j] \notin Requests
  <2>1. j - 1 \in (i + 1) .. (n - 1) /\ (j - 1) + 1 = j
    BY <1>1
  <2>2. j - 1 \in 1 .. (n - 1)
    BY <1>1, <2>1
  <2>3. r[j - 1] = q[j]
    BY <2>1, <2>2
  <2> QED BY <1>1, <2>1, <2>3
<1>4. (i + 1) + 1 = i + 2
  OBVIOUS
<1> QED BY <1>2, <1>3, <1>4 DEF Moving

(* A result is taken while what is shown stays.                                  *)
LEMMA RowsTook ==
  ASSUME QueueOK, RowsInv, idle # <<>>, idle' = Tail(idle), pool' = pool, busy' => busy /\ current' = current
  PROVE  RowsInv'
<1>1. /\ Count \in Nat \ {0} /\ Count' = Count - 1
      /\ \A i \in 1 .. (Count - 1) : Queue'[i] = Queue[i + 1]
  BY QueueTake
<1>2. Moving(Count', Queue') => Moving(Count, Queue)
  BY <1>1, MovingShifted
<1> QED BY <1>2 DEF RowsInv

LEMMA RowsStep == TypeInv /\ RowsInv /\ [Next]_vars => RowsInv'
<1> SUFFICES ASSUME TypeInv, RowsInv, [Next]_vars PROVE RowsInv'
  OBVIOUS
<1>0. QueueOK /\ busy \in BOOLEAN /\ current \in Report
  BY DEF TypeInv, FlagsOK, ShownOK
<1>1. ASSUME NEW report \in Report, current' = WithoutRows(report) PROVE RowsInv'
  BY <1>1 DEF RowsInv, WithoutRows, Report
<1>2. ASSUME busy' = FALSE PROVE RowsInv'
  BY <1>2 DEF RowsInv
<1>3. ASSUME UNCHANGED <<pool, idle, busy, current>> PROVE RowsInv'
  BY <1>3 DEF RowsInv, Count, Queue
<1>4. CASE Work
  <2>1. Count' = Count /\ Queue' = Queue /\ UNCHANGED <<busy, current>>
    BY <1>0, <1>4, QueueWork DEF Work, flags
  <2> QED BY <2>1 DEF RowsInv
<1>5. CASE DeliverClosed \/ DeliverStatus \/ DeliverDoctor \/ DeliverReveal
  <2>1. idle # <<>> /\ idle' = Tail(idle) /\ pool' = pool /\ busy' = busy /\ (busy => current' = current)
    BY <1>5 DEF DeliverClosed, DeliverStatus, DeliverDoctor, DeliverReveal, Arrives, flags
  <2> QED BY <1>0, <2>1, RowsTook
<1>6. CASE DeliverRequest
  <2>1. idle # <<>>
    BY <1>6 DEF DeliverRequest, Arrives
  <2>2. busy' = FALSE \/ current' = WithoutRows(Arrived.value)
    BY <1>6 DEF DeliverRequest
  <2> QED BY <1>0, <1>1, <1>2, <2>1, <2>2, ArrivedType
<1>7. CASE Refresh \/ PressDiagnose \/ PressReveal
  BY <1>0, <1>2, <1>7 DEF Refresh, PressDiagnose, PressReveal, flags
<1>8. ASSUME NEW kind \in Mode, ActivateMode(kind), idle' = idle PROVE RowsInv'
  BY <1>0, <1>1, <1>3, <1>8 DEF ActivateMode
<1>9. CASE SubmitPassword
  <2> DEFINE job == [kind |-> "configure", after |-> dialog]
  <2>1. pool' = Append(pool, job) /\ idle' = idle /\ job.kind = "configure"
    BY <1>9 DEF SubmitPassword, Begin
  <2> HIDE DEF job
  <2>2. Count \in Nat /\ Count' = Count + 1 /\ Queue'[Count + 1] = "configure"
    BY <1>0, <2>1, QueueSubmit, QueueType
  <2>3. "configure" \notin Mode /\ "configure" \in Requests
    BY DEF Mode, Requests
  <2>4. ~Moving(Count', Queue')
    BY <2>2, <2>3 DEF Moving
  <2> QED BY <2>4 DEF RowsInv
<1>10. CASE \/ TrayOpen \/ PressPassword \/ DismissDialog \/ ChangeLanguage \/ SecretEnds \/ Outside
            \/ (\E to \in {"hidden", "closed"} : Leave(to)) \/ UNCHANGED vars
  BY <1>3, <1>10 DEF TrayOpen, PressPassword, DismissDialog, ChangeLanguage, SecretEnds, Outside, Leave, vars, flags
<1>11. CASE TrayOff \/ \E kind \in Mode : PressMode(kind)
  BY <1>8, <1>11 DEF TrayOff, PressMode, Mode
<1> QED BY <1>4, <1>5, <1>6, <1>7, <1>9, <1>10, <1>11 DEF Next, Deliver

(* While the last request under way is for a mode, no client of the mode before  *)
(* is shown, however many calls are under way (gui.py:415, 437).                 *)
THEOREM RowsAreNotStale == Spec => []NoStaleRows
<1>1. Init => RowsInv
  BY DEF Init, RowsInv
<1>2. TypeInv /\ RowsInv => NoStaleRows
  <2> SUFFICES ASSUME TypeInv, RowsInv PROVE NoStaleRows
    OBVIOUS
  <2> DEFINE calls == idle \o pool
  <2>1. pool \in Seq(Job) /\ idle \in Seq(Result)
    BY DEF TypeInv, QueueOK
  <2>2. Len(calls) = Count /\ \A i \in 1 .. Count : calls[i].kind = Queue[i]
    BY <2>1 DEF Count, Queue
  <2>3. Count \in Nat
    BY QueueType DEF TypeInv
  <2> HIDE DEF calls
  <2>4. ASSUME NEW i \in 1 .. Len(calls), busy, calls[i].kind \in Mode,
               \A j \in (i + 1) .. Len(calls) : calls[j].kind \notin Requests
        PROVE  ~current.clients
    BY <2>2, <2>3, <2>4 DEF RowsInv, Moving
  <2> QED BY <2>4 DEF NoStaleRows, calls
<1> QED BY <1>1, <1>2, TypeInit, TypeStep, RowsStep, PTL DEF Spec
=============================================================================
