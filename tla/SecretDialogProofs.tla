-------------------------- MODULE SecretDialogProofs --------------------------
(***************************************************************************)
(* What the dialog hands out is always covered by a timer of its own whose *)
(* remaining time and the time that has passed add up to the limit.        *)
(***************************************************************************)
EXTENDS SecretDialog, TLAPS

Limit(kind) == IF kind = "expire" THEN ExpireTicks ELSE HideTicks
Passed(kind) == IF kind = "hide" THEN shownFor ELSE IF kind = "copy" THEN copiedFor ELSE openFor
Needed(kind) ==
  \/ kind = "hide" /\ visible
  \/ kind = "copy" /\ content = "ours"
  \/ kind = "expire" /\ Alive

\* No timer is left without a name, and each has exactly the rest of its time.
TimersCount ==
  \A s \in sources : s.named /\ Needed(s.kind) /\ s.left + Passed(s.kind) = Limit(s.kind)

\* Whatever is shown, copied or open has its timer.
Covered == \A k \in Kinds : Needed(k) => \E s \in sources : s.kind = k

\* The dialog's own view of the clipboard is right, and it is gone with the dialog.
DialogHolds ==
  /\ visible \/ provider => Alive
  /\ provider <=> content = "ours"

SecretInv == TypeOK /\ TimersCount /\ Covered /\ DialogHolds

\* The inductive invariant gives the property (secret_dialog.py:61-67, 82-107).
LEMMA InvGivesExpiry ==
  SecretInv => SecretExpires
<1> SUFFICES ASSUME SecretInv PROVE SecretExpires
    OBVIOUS
<1> USE TicksAssumption
<1>1. \A s \in sources : s.kind \in Kinds /\ s.left \in Nat
  BY DEF SecretInv, TypeOK, Source, Kinds
<1>2. visible => Alive /\ shownFor <= HideTicks
  <2>1. SUFFICES ASSUME visible PROVE shownFor <= HideTicks
    BY DEF SecretInv, DialogHolds
  <2>2. PICK s \in sources : s.kind = "hide"
    BY <2>1 DEF SecretInv, Covered, Needed, Kinds
  <2>3. s.left + shownFor = HideTicks
    BY <2>2 DEF SecretInv, TimersCount, Passed, Limit
  <2> QED BY <1>1, <2>3 DEF SecretInv, TypeOK
<1>3. content = "ours" => Alive /\ provider /\ copiedFor <= HideTicks
  <2>1. SUFFICES ASSUME content = "ours" PROVE copiedFor <= HideTicks
    BY DEF SecretInv, DialogHolds
  <2>2. PICK s \in sources : s.kind = "copy"
    BY <2>1 DEF SecretInv, Covered, Needed, Kinds
  <2>3. s.left + copiedFor = HideTicks
    BY <2>2 DEF SecretInv, TimersCount, Passed, Limit
  <2> QED BY <1>1, <2>3 DEF SecretInv, TypeOK
<1>4. ~Alive => sources = {}
  BY <1>1 DEF SecretInv, TimersCount, Needed, DialogHolds
<1> QED BY <1>2, <1>3, <1>4 DEF SecretExpires

\* What cancelling and arming do to timers that all have a name.
LEMMA CancelNamed ==
  ASSUME NEW live, \A s \in live : s.named, NEW kinds
  PROVE  Cancel(live, kinds) = {s \in live : s.kind \notin kinds}
BY DEF Cancel

LEMMA ArmFirst ==
  ASSUME NEW live \in SUBSET Source, NEW kind \in Kinds, NEW ticks,
         \A s \in live : s.kind # kind
  PROVE  Arm(live, kind, ticks) = live \cup {[kind |-> kind, left |-> ticks, named |-> TRUE]}
<1>1. \A s \in live : [s EXCEPT !.named = @ /\ s.kind # kind] = s
  <2> TAKE s \in live
  <2>1. s \in Source /\ s.kind # kind
    OBVIOUS
  <2>2. s.named \in BOOLEAN /\ s = [s EXCEPT !.named = s.named]
    BY <2>1 DEF Source
  <2>3. (s.named /\ s.kind # kind) = s.named
    BY <2>1, <2>2
  <2> QED BY <2>2, <2>3
<1> QED BY <1>1 DEF Arm

\* Named timers of known kinds, and who needs them: what each step starts from.
LEMMA Timers ==
  ASSUME SecretInv
  PROVE  /\ sources \in SUBSET Source
         /\ \A s \in sources : s.named /\ s.kind \in Kinds /\ s.left \in 0..ExpireTicks
         /\ \A s \in sources : s.kind = "hide" => visible
         /\ \A s \in sources : s.kind = "copy" => content = "ours"
         /\ \A s \in sources : s.kind = "expire" => Alive
BY DEF SecretInv, TypeOK, TimersCount, Needed, Source, Kinds

\* A timer just armed and a clock just reset have their types.
LEMMA FreshTyped ==
  /\ 0 \in 0..ExpireTicks
  /\ \A k \in Kinds : [kind |-> k, left |-> Limit(k), named |-> TRUE] \in Source
<1>1. \A k \in Kinds : Limit(k) \in 0..ExpireTicks
  BY TicksAssumption DEF Limit
<1> QED BY <1>1, TicksAssumption DEF Source

LEMMA InitHolds == Init => SecretInv
<1> SUFFICES ASSUME Init PROVE SecretInv
    OBVIOUS
<1>1. TypeOK
  BY FreshTyped DEF Init, TypeOK
<1>2. TimersCount /\ Covered /\ DialogHolds
  BY DEF Init, TimersCount, Covered, DialogHolds, Needed, Alive, Kinds
<1> QED BY <1>1, <1>2 DEF SecretInv

\* clear() leaves nothing: no timer, nothing shown, nothing of ours in the clipboard
\* (secret_dialog.py:97-107).
LEMMA ClearKeeps ==
  ASSUME SecretInv, NEW live \in SUBSET sources, Clear(live)
  PROVE  SecretInv'
<1>1. sources' = {}
  BY Timers, CancelNamed DEF Clear
<1>2. TypeOK'
  BY <1>1 DEF Clear, SecretInv, TypeOK, TakenBack, clocks
<1>3. ~visible' /\ ~provider' /\ content' # "ours" /\ dialog' = "none"
  BY DEF Clear, TakenBack, SecretInv, DialogHolds
<1> QED BY <1>1, <1>2, <1>3 DEF SecretInv, TimersCount, Covered, DialogHolds, Needed, Alive, Kinds

\* hide_password(), for the user or for its timer (secret_dialog.py:55-59).
LEMMA HideKeeps ==
  ASSUME SecretInv, NEW live \in SUBSET sources, \A s \in sources \ live : s.kind = "hide",
         HidePassword(live)
  PROVE  SecretInv'
<1>1. sources' = {s \in sources : s.kind # "hide"}
  BY Timers, CancelNamed DEF HidePassword
<1>2. visible' = FALSE /\ UNCHANGED <<dialog, provider, content, openFor, shownFor, copiedFor>>
  BY DEF HidePassword, clocks
<1>3. TypeOK'
  BY <1>1, <1>2 DEF SecretInv, TypeOK
<1>4. TimersCount'
  BY <1>1, <1>2, Timers DEF SecretInv, TimersCount, Needed, Passed, Limit, Alive
<1>5. Covered' /\ DialogHolds'
  BY <1>1, <1>2 DEF SecretInv, Covered, DialogHolds, Needed, Alive, Kinds
<1> QED BY <1>3, <1>4, <1>5 DEF SecretInv

\* The copy is gone and its timer with it: clear_clipboard(), a refused copy, and
\* clipboard_changed() (secret_dialog.py:69-80, 88).
LEMMA ReturnKeeps ==
  ASSUME SecretInv, sources' = {s \in sources : s.kind # "copy"},
         provider' = FALSE, content' \in {"empty", "other"},
         UNCHANGED <<dialog, visible, openFor, shownFor, copiedFor>>
  PROVE  SecretInv'
<1>1. TypeOK'
  BY DEF SecretInv, TypeOK
<1>2. TimersCount'
  BY Timers DEF SecretInv, TimersCount, Needed, Passed, Limit, Alive
<1>3. Covered' /\ DialogHolds'
  BY DEF SecretInv, Covered, DialogHolds, Needed, Alive, Kinds
<1> QED BY <1>1, <1>2, <1>3 DEF SecretInv

\* The copy goes only if it was ours: what clear_clipboard() leaves is not ours.
LEMMA TakenBackIsNotOurs ==
  ASSUME SecretInv
  PROVE  TakenBack \in {"empty", "other"}
BY DEF SecretInv, TypeOK, DialogHolds, TakenBack

\* A timer that is armed for something shown, copied or opened now.
LEMMA ArmKeeps ==
  ASSUME SecretInv, NEW live \in SUBSET sources, NEW k \in Kinds,
         live = {s \in sources : s.kind # k},
         sources' = live \cup {[kind |-> k, left |-> Limit(k), named |-> TRUE]},
         Passed(k)' = 0, Needed(k)',
         \A j \in Kinds \ {k} : Passed(j)' = Passed(j) /\ (Needed(j)' <=> Needed(j)),
         TypeOK', DialogHolds'
  PROVE  SecretInv'
<1> DEFINE new == [kind |-> k, left |-> Limit(k), named |-> TRUE]
<1>1. Limit(k)' = Limit(k) /\ Limit(k) \in Nat
  BY TicksAssumption DEF Limit
<1>2. TimersCount'
  <2> SUFFICES ASSUME NEW s \in sources'
               PROVE  s.named /\ Needed(s.kind)' /\ s.left + Passed(s.kind)' = Limit(s.kind)'
    BY DEF TimersCount
  <2>1. CASE s = new
    BY <2>1, <1>1
  <2>2. CASE s \in live
    BY <2>2, Timers DEF SecretInv, TimersCount, Limit
  <2> QED BY <2>1, <2>2
<1>3. Covered'
  <2> SUFFICES ASSUME NEW j \in Kinds, Needed(j)' PROVE \E s \in sources' : s.kind = j
    BY DEF Covered
  <2>1. CASE j = k
    <3>1. new \in sources' /\ new.kind = k
      OBVIOUS
    <3> QED BY <2>1, <3>1
  <2>2. CASE j # k
    <3>1. PICK s \in sources : s.kind = j
      BY <2>2 DEF SecretInv, Covered
    <3> QED BY <2>2, <3>1
  <2> QED BY <2>1, <2>2
<1> QED BY <1>2, <1>3 DEF SecretInv

-----------------------------------------------------------------------------
(* The steps, one lemma each where a step arms a timer. *)

LEMMA OpenKeeps == SecretInv /\ Open => SecretInv'
<1> SUFFICES ASSUME SecretInv, Open PROVE SecretInv'
    OBVIOUS
<1>1. sources = {}
  BY Timers, InvGivesExpiry DEF Open, SecretExpires
<1>2. sources' = sources \cup {[kind |-> "expire", left |-> Limit("expire"), named |-> TRUE]}
  BY <1>1, ArmFirst DEF Open, Limit, Kinds
<1>3. TypeOK'
  BY <1>1, <1>2, FreshTyped DEF Open, SecretInv, TypeOK, Kinds
<1>4. DialogHolds'
  BY DEF Open, SecretInv, DialogHolds, Alive
<1>5. Passed("expire")' = 0 /\ Needed("expire")'
  BY DEF Open, Passed, Needed, Alive
<1>6. \A j \in Kinds \ {"expire"} : Passed(j)' = Passed(j) /\ (Needed(j)' <=> Needed(j))
  BY DEF Open, Passed, Needed, Kinds
<1> QED BY <1>1, <1>2, <1>3, <1>4, <1>5, <1>6, ArmKeeps DEF Kinds

LEMMA ShowKeeps == SecretInv /\ Alive /\ visible = FALSE /\ ShowPassword => SecretInv'
<1> SUFFICES ASSUME SecretInv, Alive, visible = FALSE, ShowPassword PROVE SecretInv'
    OBVIOUS
<1>1. \A s \in sources : s.kind # "hide"
  BY Timers
<1>2. sources' = sources \cup {[kind |-> "hide", left |-> Limit("hide"), named |-> TRUE]}
  BY <1>1, Timers, ArmFirst DEF ShowPassword, Limit, Kinds
<1>3. TypeOK'
  BY <1>2, FreshTyped DEF ShowPassword, SecretInv, TypeOK, Kinds
<1>4. DialogHolds'
  BY DEF ShowPassword, SecretInv, DialogHolds, Alive
<1>5. Passed("hide")' = 0 /\ Needed("hide")'
  BY DEF ShowPassword, Passed, Needed
<1>6. \A j \in Kinds \ {"hide"} : Passed(j)' = Passed(j) /\ (Needed(j)' <=> Needed(j))
  BY DEF ShowPassword, Passed, Needed, Kinds, Alive
<1>7. sources = {s \in sources : s.kind # "hide"}
  BY <1>1
<1> QED BY <1>2, <1>3, <1>4, <1>5, <1>6, <1>7, ArmKeeps DEF Kinds

LEMMA CopyKeeps == SecretInv /\ CopyPassword => SecretInv'
<1> SUFFICES ASSUME SecretInv, CopyPassword PROVE SecretInv'
    OBVIOUS
<1> DEFINE live == {s \in sources : s.kind # "copy"}
<1>1. Cancel(sources, {"copy"}) = live
  BY Timers, CancelNamed
<1>2. UNCHANGED <<dialog, visible, openFor, shownFor>> /\ Alive
  BY DEF CopyPassword
<1>3. CASE /\ provider' = TRUE /\ content' = "ours" /\ copiedFor' = 0
           /\ sources' = Arm(Cancel(sources, {"copy"}), "copy", HideTicks)
  <2>1. sources' = live \cup {[kind |-> "copy", left |-> Limit("copy"), named |-> TRUE]}
    BY <1>1, <1>3, Timers, ArmFirst DEF Limit, Kinds
  <2>2. TypeOK'
    BY <1>2, <1>3, <2>1, FreshTyped DEF SecretInv, TypeOK, Kinds
  <2>3. DialogHolds'
    BY <1>2, <1>3 DEF SecretInv, DialogHolds, Alive
  <2>4. Passed("copy")' = 0 /\ Needed("copy")'
    BY <1>3 DEF Passed, Needed
  <2>5. \A j \in Kinds \ {"copy"} : Passed(j)' = Passed(j) /\ (Needed(j)' <=> Needed(j))
    BY <1>2 DEF Passed, Needed, Kinds, Alive
  <2> QED BY <2>1, <2>2, <2>3, <2>4, <2>5, ArmKeeps DEF Kinds
<1>4. CASE /\ provider' = FALSE /\ content' = TakenBack /\ UNCHANGED copiedFor
           /\ sources' = Cancel(sources, {"copy"})
  BY <1>1, <1>2, <1>4, TakenBackIsNotOurs, ReturnKeeps
<1> QED BY <1>3, <1>4 DEF CopyPassword

LEMMA FireKeeps == ASSUME SecretInv, NEW s \in sources, Fire(s) PROVE SecretInv'
<1> DEFINE rest == sources \ {s}
<1>1. CASE s.kind = "hide" /\ HidePassword(rest)
  BY <1>1, HideKeeps
<1>2. CASE s.kind = "copy" /\ TakeBack(rest)
  <2>1. sources' = {t \in sources : t.kind # "copy"}
    BY <1>2, Timers, CancelNamed DEF TakeBack
  <2> QED BY <1>2, <2>1, TakenBackIsNotOurs, ReturnKeeps DEF TakeBack, clocks
<1>3. CASE s.kind = "expire" /\ Clear(rest)
  BY <1>3, ClearKeeps
<1> QED BY <1>1, <1>2, <1>3 DEF Fire

LEMMA OtherKeeps == ASSUME SecretInv, NEW c \in {"empty", "other"}, OtherContent(c) PROVE SecretInv'
<1>1. CASE provider
  <2>1. Alive
    BY <1>1 DEF SecretInv, DialogHolds
  <2>2. sources' = {s \in sources : s.kind # "copy"}
    BY <1>1, <2>1, Timers, CancelNamed DEF OtherContent
  <2> QED BY <1>1, <2>1, <2>2, ReturnKeeps DEF OtherContent, clocks
<1>2. CASE provider = FALSE
  <2>1. content # "ours" /\ sources' = sources /\ provider' = FALSE
    BY <1>2 DEF SecretInv, DialogHolds, OtherContent
  <2>2. sources' = {s \in sources : s.kind # "copy"}
    BY <2>1, Timers
  <2> QED BY <2>1, <2>2, ReturnKeeps DEF OtherContent, clocks
<1> QED BY <1>1, <1>2 DEF SecretInv, TypeOK

\* The clock: a timer that runs has time left, and loses what its reason gains.
LEMMA TickKeeps == SecretInv /\ Tick => SecretInv'
<1> SUFFICES ASSUME SecretInv, Tick PROVE SecretInv'
    OBVIOUS
<1>1. UNCHANGED <<dialog, visible, provider, content>>
  BY DEF Tick
<1>2. \A k \in Kinds : Needed(k)' <=> Needed(k)
  BY <1>1 DEF Needed, Kinds, Alive
<1>3. \A k \in Kinds : Passed(k)' = IF Needed(k) THEN Passed(k) + 1 ELSE 0
  BY DEF Tick, Passed, Needed, Kinds
<1>4. \A k \in Kinds : Passed(k) \in Nat /\ Limit(k) \in Nat /\ Limit(k) <= ExpireTicks
  BY TicksAssumption DEF SecretInv, TypeOK, Passed, Limit, Kinds
<1>5. \A k \in Kinds : Needed(k) => Passed(k) + 1 <= Limit(k)
  <2> SUFFICES ASSUME NEW k \in Kinds, Needed(k) PROVE Passed(k) + 1 <= Limit(k)
    OBVIOUS
  <2>1. PICK s \in sources : s.kind = k
    BY DEF SecretInv, Covered
  <2>2. s.left + Passed(k) = Limit(k) /\ s.left > 0 /\ s.left \in Nat
    BY <2>1, Timers DEF SecretInv, TimersCount, Tick
  <2> QED BY <2>2, <1>4
<1>6. \A s \in sources : /\ s.kind \in Kinds /\ s.named /\ s.left \in 1..ExpireTicks
                         /\ [s EXCEPT !.left = @ - 1] \in Source
                         /\ [s EXCEPT !.left = @ - 1].kind = s.kind
                         /\ [s EXCEPT !.left = @ - 1].named = s.named
                         /\ [s EXCEPT !.left = @ - 1].left = s.left - 1
  BY Timers, TicksAssumption DEF Tick, Source
<1>7. TypeOK'
  <2>1. \A k \in Kinds : Passed(k)' \in 0..ExpireTicks
    BY <1>3, <1>4, <1>5, TicksAssumption
  <2>2. openFor' \in 0..ExpireTicks /\ shownFor' \in 0..ExpireTicks /\ copiedFor' \in 0..ExpireTicks
    BY <2>1 DEF Passed, Kinds
  <2>3. sources' \subseteq Source
    BY <1>6 DEF Tick
  <2> QED BY <1>1, <2>2, <2>3 DEF SecretInv, TypeOK
<1>8. TimersCount'
  <2> SUFFICES ASSUME NEW t \in sources'
               PROVE  t.named /\ Needed(t.kind)' /\ t.left + Passed(t.kind)' = Limit(t.kind)'
    BY DEF TimersCount
  <2>1. PICK s \in sources : t = [s EXCEPT !.left = @ - 1]
    BY DEF Tick
  <2>2. t.kind = s.kind /\ t.named /\ t.left = s.left - 1 /\ s.kind \in Kinds /\ s.left \in Nat
    BY <2>1, <1>6
  <2>3. Needed(s.kind) /\ s.left + Passed(s.kind) = Limit(s.kind)
    BY DEF SecretInv, TimersCount
  <2>4. Limit(t.kind)' = Limit(s.kind)
    BY <2>2 DEF Limit
  <2>5. Needed(s.kind)' /\ Passed(s.kind)' = Passed(s.kind) + 1
    BY <2>2, <2>3, <1>2, <1>3
  <2>6. Needed(t.kind)' /\ Passed(t.kind)' = Passed(s.kind) + 1
    BY <2>2, <2>5
  <2>7. Passed(s.kind) \in Nat
    BY <2>2, <1>4
  <2> QED BY <2>2, <2>3, <2>4, <2>6, <2>7
<1>9. Covered'
  <2> SUFFICES ASSUME NEW k \in Kinds, Needed(k)' PROVE \E t \in sources' : t.kind = k
    BY DEF Covered
  <2>1. PICK s \in sources : s.kind = k
    BY <1>2 DEF SecretInv, Covered
  <2>2. [s EXCEPT !.left = @ - 1] \in sources'
    BY DEF Tick
  <2> QED BY <2>1, <2>2, <1>6
<1>10. DialogHolds'
  BY <1>1 DEF SecretInv, DialogHolds, Alive
<1> QED BY <1>7, <1>8, <1>9, <1>10 DEF SecretInv

LEMMA StepKeeps == SecretInv /\ [Next]_vars => SecretInv'
<1> SUFFICES ASSUME SecretInv, [Next]_vars PROVE SecretInv'
    OBVIOUS
<1>1. CASE Open
  BY <1>1, OpenKeeps
<1>2. CASE Toggle
  BY <1>2, HideKeeps, ShowKeeps DEF Toggle, SecretInv, TypeOK
<1>3. CASE CopyPassword
  BY <1>3, CopyKeeps
<1>4. CASE Close
  <2>1. UNCHANGED <<visible, provider, content, sources, openFor, shownFor, copiedFor>>
    BY <1>4 DEF Close, clocks
  <2>2. Alive /\ Alive' /\ dialog' = "closing"
    BY <1>4 DEF Close, Alive
  <2>3. TypeOK' /\ DialogHolds'
    BY <2>1, <2>2 DEF SecretInv, TypeOK, DialogHolds
  <2>4. TimersCount' /\ Covered'
    BY <2>1, <2>2 DEF SecretInv, TimersCount, Covered, Needed, Passed, Limit
  <2> QED BY <2>3, <2>4 DEF SecretInv
<1>5. CASE ClearSecret \/ Closed
  BY <1>5, ClearKeeps DEF ClearSecret, Closed
<1>6. CASE Timer
  BY <1>6, FireKeeps DEF Timer
<1>7. CASE Tick
  BY <1>7, TickKeeps
<1>8. CASE \E c \in {"empty", "other"} : OtherContent(c)
  BY <1>8, OtherKeeps
<1>9. CASE UNCHANGED vars
  BY <1>9 DEF vars, SecretInv, TypeOK, TimersCount, Covered, DialogHolds, Needed, Passed, Limit, Alive
<1> QED BY <1>1, <1>2, <1>3, <1>4, <1>5, <1>6, <1>7, <1>8, <1>9 DEF Next, User
-----------------------------------------------------------------------------
\* Every variable keeps its type, for every pair of time limits.
THEOREM SecretTypes == Spec => []TypeOK
<1>1. Spec => []SecretInv
  BY InitHolds, StepKeeps, PTL DEF Spec
<1>2. SecretInv => TypeOK
  BY DEF SecretInv
<1> QED BY <1>1, <1>2, PTL

\* The password is visible, and in the clipboard, for at most HIDE_SECONDS, and never
\* after the dialog, whatever the user, the timers and other programs do
\* (secret_dialog.py:61-67, 82-107).
THEOREM SecretIsShortLived == Spec => []SecretExpires
BY InitHolds, StepKeeps, InvGivesExpiry, PTL DEF Spec

\* No timer takes back a copy before its time, and nothing but the user's copy
\* replaces what another program put there (secret_dialog.py:69-80).
THEOREM ClipboardIsRespected == Spec => ClipboardRespected
<1> DEFINE Respects ==
      /\ content = "other" /\ content' # "other" => CopyPassword \/ OtherContent("empty")
      /\ content = "ours" /\ content' = "empty" /\ Timer =>
           copiedFor = HideTicks \/ openFor = ExpireTicks
<1>1. SecretInv /\ [Next]_vars => [Respects]_vars
  <2> SUFFICES ASSUME SecretInv, Next PROVE Respects
      BY DEF vars
  <2>1. ASSUME content = "other", content' # "other" PROVE CopyPassword \/ OtherContent("empty")
    BY <2>1 DEF Next, User, Open, Toggle, HidePassword, ShowPassword, Close, Closed, ClearSecret,
                Clear, TakeBack, TakenBack, Timer, Fire, Tick, OtherContent
  <2>2. ASSUME content = "ours", content' = "empty", Timer
        PROVE  copiedFor = HideTicks \/ openFor = ExpireTicks
    <3>1. PICK s \in sources : Fire(s)
      BY <2>2 DEF Timer
    <3>2. s.kind # "hide"
      BY <2>2, <3>1 DEF Fire, HidePassword, TakeBack, Clear
    <3>3. s.kind \in {"copy", "expire"} /\ s.left = 0
      BY <3>1, <3>2, Timers DEF Fire, Kinds
    <3>4. 0 + Passed(s.kind) = Limit(s.kind)
      BY <3>3 DEF SecretInv, TimersCount
    <3> QED BY <3>3, <3>4, TicksAssumption DEF Passed, Limit, SecretInv, TypeOK
  <2> QED BY <2>1, <2>2
<1> QED BY <1>1, InitHolds, StepKeeps, PTL DEF Spec, ClipboardRespected
=============================================================================
