------------------------------ MODULE GuiWindow ------------------------------
(***************************************************************************)
(* The desktop window of gui.py: callbacks of the GTK main loop, the pool  *)
(* with its single worker that runs the transport's calls, and the results *)
(* that the worker hands back through GLib.idle_add.  A user, the tray, the *)
(* refresh timer and somebody else's hotspot commands act in between.      *)
(***************************************************************************)
EXTENDS Naturals, Sequences

CONSTANTS
  MaxJobs,    \* bound: calls under way when the user starts another one
  MaxChanges  \* bound: changes of the hotspot from outside the window

ASSUME BoundAssumption == MaxJobs \in Nat /\ MaxChanges \in Nat

VARIABLES
  hotspot,     \* what the transport reports: it is on, a password is stored, clients
  changes,     \* changes from outside so far
  current,     \* what render() was last given
  pool,        \* calls submitted to the pool, the first one being run
  idle,        \* results queued with GLib.idle_add
  busy, refreshing, revealPending,
  fresh,       \* the pending reveal's generation still is reveal_generation
  revealable,  \* the reveal-password action is enabled
  view,        \* "visible", "hidden" or "closed"
  secret,      \* a SecretDialog that is not cleared exists
  dialog       \* the password dialog: "closed", or what follows once it is saved

flags == <<busy, refreshing, revealPending, fresh, revealable>>
vars  == <<hotspot, changes, current, pool, idle, flags, view, secret, dialog>>

Report == [on: BOOLEAN, configured: BOOLEAN, clients: BOOLEAN]
Mode   == {"start", "off"}                       \* internet and local are both `start'
Kinds  == Mode \cup {"configure", "status", "doctor", "reveal"}
After  == {"none", "start"}
Job    == [kind: Kinds, after: After]
Result == [kind: Kinds, after: After, ok: BOOLEAN, value: Report]

TypeOK ==
  /\ hotspot \in Report /\ current \in Report /\ changes \in 0..MaxChanges
  /\ pool \in Seq(Job) /\ idle \in Seq(Result) /\ Len(pool) + Len(idle) <= MaxJobs + 1
  /\ \A flag \in {busy, refreshing, revealPending, fresh, revealable, secret} : flag \in BOOLEAN
  /\ view \in {"visible", "hidden", "closed"}
  /\ dialog \in {"closed"} \cup After
-----------------------------------------------------------------------------
(* The worker.  Requests act on the hotspot, the others only read. *)

Outcomes(kind) ==
  CASE kind = "start"     -> {[hotspot EXCEPT !.on = on, !.clients = FALSE] : on \in BOOLEAN}
    [] kind = "off"       -> {[hotspot EXCEPT !.on = FALSE, !.clients = FALSE], hotspot}
    [] kind = "configure" -> {[hotspot EXCEPT !.configured = @ \/ ~hotspot.on], hotspot}
    [] OTHER              -> {hotspot}

Works(kind, new) ==
  CASE kind = "start"     -> hotspot.configured /\ new.on
    [] kind = "off"       -> ~new.on
    [] kind = "configure" -> ~hotspot.on /\ new.configured
    [] kind = "reveal"    -> hotspot.configured
    [] OTHER              -> TRUE

\* Every call ends: with its result, refused, or with an exception or a timeout.
Work ==
  /\ pool # <<>>
  /\ LET job == Head(pool) IN
     \E new \in Outcomes(job.kind), ok \in BOOLEAN :
       /\ ok => Works(job.kind, new)
       /\ hotspot' = new
       /\ idle' = Append(idle, [kind |-> job.kind, after |-> job.after, ok |-> ok, value |-> new])
  /\ pool' = Tail(pool)
  /\ UNCHANGED <<changes, current, flags, view, secret, dialog>>
-----------------------------------------------------------------------------
(* Pieces of the callbacks. *)

Room         == Len(pool) + Len(idle) < MaxJobs
Submit(kind) == pool' = Append(pool, [kind |-> kind, after |-> "none"])

\* update_tray: what the reveal action's sensitivity becomes.
UpdateTray == revealable' = (~busy' /\ ~revealPending' /\ current'.configured)

ClearSecret == secret' = FALSE /\ fresh' = FALSE

\* Mutant: request() leaves an open secret, or one still to be delivered, as it is.
BeginKeeping(kind, after) ==
  /\ pool' = Append(pool, [kind |-> kind, after |-> after])
  /\ busy' = TRUE /\ revealable' = FALSE
  /\ UNCHANGED <<secret, fresh>>

\* request()
Begin(kind, after) ==
  /\ pool' = Append(pool, [kind |-> kind, after |-> after])
  /\ busy' = TRUE /\ revealable' = FALSE
  /\ ClearSecret

WithoutRows(report) == [report EXCEPT !.clients = FALSE]

\* activate_mode: without a password it is asked for first, while the hotspot is off.
ActivateMode(kind) ==
  /\ ~busy
  /\ IF kind = "start" /\ ~current.configured
       THEN /\ dialog' = IF current.on THEN dialog ELSE "start"
            /\ UNCHANGED <<current, pool, busy, secret, fresh, revealable>>
       ELSE /\ Begin(kind, "none") /\ current' = WithoutRows(current)
            /\ UNCHANGED dialog
-----------------------------------------------------------------------------
(* The main loop delivers a result. *)

Arrives(kind) == idle # <<>> /\ Head(idle).kind = kind /\ idle' = Tail(idle)
Arrived       == Head(idle)

\* Into a closed window nothing is delivered; a secret is wiped either way.
DeliverClosed ==
  /\ view = "closed" /\ idle # <<>>
  /\ idle' = Tail(idle)
  /\ revealPending' = (revealPending /\ Arrived.kind # "reveal")
  /\ UNCHANGED <<hotspot, changes, current, pool, busy, refreshing, fresh, revealable, view, secret, dialog>>

\* Mutants: the status is rendered while a request is under way, or without update_tray.
DeliverStatusAnyway ==
  /\ Arrives("status") /\ view # "closed"
  /\ refreshing' = FALSE
  /\ current' = IF Arrived.ok THEN Arrived.value ELSE [on |-> FALSE, configured |-> FALSE, clients |-> FALSE]
  /\ UNCHANGED busy /\ UNCHANGED revealPending /\ UpdateTray
  /\ UNCHANGED <<hotspot, changes, pool, fresh, view, secret, dialog>>
DeliverStatusQuietly ==
  /\ Arrives("status") /\ view # "closed"
  /\ refreshing' = FALSE
  /\ current' = IF busy THEN current ELSE Arrived.value
  /\ UNCHANGED <<hotspot, changes, pool, busy, revealPending, fresh, revealable, view, secret, dialog>>

\* A status call that raised is rendered as the error it is turned into.
DeliverStatus ==
  /\ Arrives("status") /\ view # "closed"
  /\ refreshing' = FALSE
  /\ UNCHANGED <<busy, revealPending>>
  /\ IF busy
       THEN UNCHANGED <<current, revealable>>
       ELSE /\ current' = IF Arrived.ok THEN Arrived.value
                                        ELSE [on |-> FALSE, configured |-> FALSE, clients |-> FALSE]
            /\ UpdateTray
  /\ UNCHANGED <<hotspot, changes, pool, fresh, view, secret, dialog>>

DeliverDoctor ==
  /\ Arrives("doctor") /\ view # "closed"
  /\ UNCHANGED <<hotspot, changes, current, pool, flags, view, secret, dialog>>

\* Mutant: a reply is shown in whatever the window has become.
DeliverRevealLate ==
  /\ Arrives("reveal") /\ view # "closed"
  /\ revealPending' = FALSE
  /\ UNCHANGED <<busy, current>> /\ UpdateTray
  /\ secret' = Arrived.ok
  /\ UNCHANGED <<hotspot, changes, pool, refreshing, fresh, view, dialog>>

DeliverReveal ==
  /\ Arrives("reveal") /\ view # "closed"
  /\ revealPending' = FALSE
  /\ UNCHANGED <<busy, current>>
  /\ IF fresh THEN UpdateTray /\ secret' = Arrived.ok ELSE UNCHANGED <<revealable, secret>>
  /\ UNCHANGED <<hotspot, changes, pool, refreshing, fresh, view, dialog>>

\* Mutant: a request that fails leaves the window busy.
DeliverRequestBusy ==
  /\ \E kind \in Mode \cup {"configure"} : Arrives(kind)
  /\ view # "closed" /\ ~Arrived.ok
  /\ UNCHANGED <<hotspot, changes, current, pool, busy, refreshing, revealPending, fresh, view, secret, dialog>>
  /\ UpdateTray

\* done(): with a result, the action that was waiting for the password or a refresh.
DeliverRequest ==
  /\ \E kind \in Mode \cup {"configure"} : Arrives(kind)
  /\ view # "closed"
  /\ UNCHANGED <<hotspot, changes, revealPending, view>>
  /\ CASE ~Arrived.ok ->
            /\ busy' = FALSE /\ UNCHANGED current /\ UpdateTray
            /\ UNCHANGED <<pool, refreshing, fresh, secret, dialog>>
       [] Arrived.ok /\ Arrived.after = "none" ->
            /\ busy' = FALSE /\ current' = Arrived.value /\ UpdateTray
            /\ refreshing' = TRUE
            /\ IF refreshing THEN UNCHANGED pool ELSE Submit("status")
            /\ UNCHANGED <<fresh, secret, dialog>>
       [] OTHER -> (* configured: the mode request follows at once *)
            /\ Begin(Arrived.after, "none")
            /\ current' = WithoutRows(Arrived.value)
            /\ UNCHANGED <<refreshing, dialog>>

Deliver ==
  DeliverClosed \/ DeliverStatus \/ DeliverDoctor \/ DeliverReveal \/ DeliverRequest
-----------------------------------------------------------------------------
(* The timer, the user, the tray, and the world outside. *)

\* Mutant: refresh() does not look whether one is under way.
RefreshAlways ==
  /\ view # "closed" /\ ~busy
  /\ refreshing' = TRUE /\ Submit("status")
  /\ UNCHANGED <<hotspot, changes, current, idle, busy, revealPending, fresh, revealable, view, secret, dialog>>

Refresh ==
  /\ view # "closed" /\ ~busy /\ ~refreshing
  /\ refreshing' = TRUE /\ Submit("status")
  /\ UNCHANGED <<hotspot, changes, current, idle, busy, revealPending, fresh, revealable, view, secret, dialog>>

\* A dialog covers the window; only the tray stays within reach.
Uncovered == view = "visible" /\ dialog = "closed" /\ ~secret

PressMode(kind) ==
  /\ Uncovered /\ Room /\ ActivateMode(kind)
  /\ UNCHANGED <<hotspot, changes, idle, refreshing, revealPending, view>>

TrayOff ==
  /\ view # "closed" /\ current.on /\ Room /\ ActivateMode("off")
  /\ view' = "visible"
  /\ UNCHANGED <<hotspot, changes, idle, refreshing, revealPending>>

TrayOpen ==
  /\ view = "hidden" /\ view' = "visible"
  /\ UNCHANGED <<hotspot, changes, current, pool, idle, flags, secret, dialog>>

PressPassword ==
  /\ Uncovered /\ ~busy /\ ~current.on
  /\ dialog' = "none"
  /\ UNCHANGED <<hotspot, changes, current, pool, idle, flags, view, secret>>

\* The dialog may have been opened before the window got busy.
SubmitPassword ==
  /\ view = "visible" /\ dialog # "closed" /\ ~secret /\ Room
  /\ Begin("configure", dialog)
  /\ dialog' = "closed"
  /\ UNCHANGED <<hotspot, changes, current, idle, refreshing, revealPending, view>>

DismissDialog ==
  /\ view = "visible" /\ dialog # "closed" /\ ~secret
  /\ dialog' = "closed"
  /\ UNCHANGED <<hotspot, changes, current, pool, idle, flags, view, secret>>

PressReveal ==
  /\ Uncovered /\ Room /\ revealable /\ ~busy /\ ~revealPending
  /\ revealPending' = TRUE /\ fresh' = TRUE /\ revealable' = FALSE
  /\ Submit("reveal")
  /\ UNCHANGED <<hotspot, changes, current, idle, busy, refreshing, view, secret, dialog>>

PressDiagnose ==
  /\ Uncovered /\ Room /\ ~busy
  /\ Submit("doctor")
  /\ UNCHANGED <<hotspot, changes, current, idle, flags, view, secret, dialog>>

\* The view is built anew and current is rendered again.
ChangeLanguage ==
  /\ view = "visible"
  /\ ClearSecret /\ dialog' = "closed"
  /\ UNCHANGED <<hotspot, changes, current, pool, idle, busy, refreshing, revealPending, view>>
  /\ UpdateTray

\* The dialog's minute is over, or it is closed.
SecretEnds ==
  /\ secret /\ secret' = FALSE
  /\ UNCHANGED <<hotspot, changes, current, pool, idle, flags, view, dialog>>

\* on_close hides the window if there is a tray; without one, or with Quit in the
\* tray's menu, dispose_view ends it.
Leave(to) ==
  /\ view = "visible" \/ (view = "hidden" /\ to = "closed")
  /\ view' = to /\ ClearSecret
  /\ UNCHANGED <<hotspot, changes, current, pool, idle, busy, refreshing, revealPending, revealable, dialog>>

Outside ==
  /\ changes < MaxChanges /\ changes' = changes + 1
  /\ hotspot' \in {report \in Report : report.clients => report.on} \ {hotspot}
  /\ UNCHANGED <<current, pool, idle, flags, view, secret, dialog>>
-----------------------------------------------------------------------------
Init ==
  /\ hotspot \in {report \in Report : report.clients => report.on} /\ changes = 0
  /\ current = [on |-> FALSE, configured |-> FALSE, clients |-> FALSE]
  /\ pool = <<[kind |-> "status", after |-> "none"]>> /\ idle = <<>>
  /\ busy = FALSE /\ refreshing = TRUE /\ revealPending = FALSE
  /\ fresh = FALSE /\ revealable = TRUE
  /\ view = "visible" /\ secret = FALSE /\ dialog = "closed"

Next ==
  \/ Work \/ Deliver \/ Refresh
  \/ (\E kind \in Mode : PressMode(kind)) \/ TrayOff \/ TrayOpen
  \/ PressPassword \/ SubmitPassword \/ DismissDialog
  \/ PressReveal \/ PressDiagnose \/ ChangeLanguage \/ SecretEnds
  \/ (\E to \in {"hidden", "closed"} : Leave(to)) \/ Outside

\* Every call has a time limit, the main loop runs, and its timer fires.
Fairness == WF_vars(Work) /\ WF_vars(Deliver) /\ WF_vars(Refresh)

Spec     == Init /\ [][Next]_vars
FairSpec == Spec /\ Fairness
-----------------------------------------------------------------------------
Requests == Mode \cup {"configure"}
Underway(kinds) == \E i \in 1..Len(pool) : pool[i].kind \in kinds
Returning(kinds) == \E i \in 1..Len(idle) : idle[i].kind \in kinds

\* A password is only ever on the screen in a visible window, and never while a
\* request, which may change it, is on its way: whatever was begun or closed
\* while the authorization was pending (gui.py:456-496).
SecretContained == secret => view = "visible" /\ ~Underway(Requests) /\ ~Returning(Requests)

\* During a mode transition the window shows no client of the mode before, also
\* not from a status that was read before the request and comes in after it
\* (gui.py:415,437).  It is said of the last request under way: submit() does not
\* look at busy (gui.py:535) and keeps the rows, and the first of two requests to
\* end clears it for both.
NoStaleRows ==
  LET calls == idle \o pool
  IN  \A i \in 1..Len(calls) :
        /\ busy /\ calls[i].kind \in Mode
        /\ \A j \in (i + 1)..Len(calls) : calls[j].kind \notin Requests
        => ~current.clients

\* No call leaves the window busy, or the reveal or the refresh pending, for ever.
Settles ==
  /\ busy ~> ~busy \/ view = "closed"
  /\ refreshing ~> ~refreshing \/ view = "closed"
  /\ revealPending ~> ~revealPending

\* The reveal action does not stay disabled when nothing is going on, even if the
\* reply that should have enabled it came too late to be shown.
Reenabled ==
  ~busy /\ ~revealPending /\ current.configured /\ view # "closed"
    ~> revealable \/ busy \/ revealPending \/ ~current.configured \/ view = "closed"
=============================================================================
