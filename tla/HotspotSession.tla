--------------------------- MODULE HotspotSession ---------------------------
(***************************************************************************)
(* The lifecycle of one hotspot session: controller.py (start, switch,     *)
(* stop, tick) over the journal of state.py, the network commands of       *)
(* backend.py and the ordered teardown of ownership.py.                    *)
(*                                                                         *)
(* Two kinds of process run it, one at a time because each holds           *)
(* Store.locked: a foreground helper serving one request, and the          *)
(* supervisor (helper.watch) doing one tick.  `run' is the process that    *)
(* holds the lock, with its place in the code; every external command,     *)
(* journal write and status write is one step.  A step may fail before or  *)
(* after its effect, and a process may be killed between any two steps.    *)
(***************************************************************************)
EXTENDS FiniteSets

CONSTANTS
  Uplinks,      \* interfaces the kernel may select for the public route
  WifiUplinks,  \* those that are the Wi-Fi station itself
  AllowWifi,    \* Backend.allow_wifi_validation, FALSE in production
  Disturb       \* what happens around the session, see "Environment"

Disturbances == {"radio", "autoconnect", "autolink", "userlink", "uplink",
                 "ap", "rules", "flush", "profile"}
Reserved == {"none", "absent", "blocked", "local", "altered"}

ASSUME UplinkAssumption  == Uplinks \cap Reserved = {} /\ WifiUplinks \subseteq Uplinks
ASSUME AllowAssumption   == AllowWifi \in BOOLEAN
ASSUME DisturbAssumption == Disturb \subseteq Disturbances

VARIABLES
  table,    \* inet aag_hotspot: "absent" or what its rules let through
  present,  \* the other artifacts of the session that exist on the host
  edited,   \* the session's NM profile no longer matches the manifest
  radio,    \* NetworkManager's Wi-Fi radio switch
  auto,     \* the station device's autoconnect
  link,     \* a Wi-Fi link of the user is up or connecting
  uplink,   \* the interface detect_uplink() would report, or "none"
  byUser,   \* of radio and auto, what others changed since the baseline
  journal,  \* /run/aag-hotspot/private/session.json
  status,   \* /run/aag-hotspot/status.json
  watch,    \* the supervisor process, as systemd sees it
  run,      \* the process inside Store.locked, and where it is
  calm      \* nothing fails and nobody interferes any more

host == <<table, present, edited>>
wifi == <<radio, auto, link, uplink>>
vars == <<table, present, edited, radio, auto, link, uplink, byUser,
          journal, status, watch, run, calm>>
-----------------------------------------------------------------------------
(* Types. *)

Artifacts == {"interface", "profile", "ap", "sharing", "lease"}
Serve     == {"local"} \cup Uplinks      \* mode, and uplink_snapshot.interface
Rules     == {"absent", "blocked", "local", "altered"} \cup Uplinks
Phases    == {"starting", "switching", "active", "stopping"}

Session == [phase: Phases, serve: Serve,
            sta: BOOLEAN,                             \* radio_plan.sta_interface
            radio: BOOLEAN, auto: BOOLEAN,            \* baseline
            radioTouched: BOOLEAN, autoTouched: BOOLEAN,
            handle: BOOLEAN,                          \* nft_handle recorded
            digest: Rules \cup {"none"}]              \* guard_digest
NoSession == [phase |-> "none"]

Modes     == {"off", "local", "internet"}
ModeOf(s) == IF s.serve = "local" THEN "local" ELSE "internet"
\* Mutant: the uplink's name is published where the mode belongs.
StatusOfUplink(s) == IF s = NoSession THEN [phase |-> "off", mode |-> "off"]
                                      ELSE [phase |-> s.phase, mode |-> s.serve]

StatusOf(s) == IF s = NoSession THEN [phase |-> "off", mode |-> "off"]
                                ELSE [phase |-> s.phase, mode |-> ModeOf(s)]

Requests == {"local", "internet", "off", "configure"}

StartPlaces == {"publish_starting", "arm_watch", "guard_blocked", "save_receipt",
  "hold_autoconnect", "autoconnect_no", "wifi_idle", "journal_radio", "radio_off",
  "verify_plan", "create_interface", "add_profile", "recheck", "radio_on",
  "wait_ready", "recheck_ready", "activate", "guard_mode", "healthy",
  "save_active", "publish_active"}
SwitchPlaces == {"sw_publish", "sw_guard"}
StopPlaces == {"st_load", "st_inspect", "st_save", "st_publish", "st_table",
  "st_guard", "rb_down", "rb_profile", "rb_interface", "rb_sharing", "rb_table",
  "rb_confirm", "st_lease", "st_radio", "st_radio_set", "st_radio_check", "st_auto",
  "st_auto_check", "st_clear", "st_publish_off"}
TickPlaces == {"tick_healthy", "tick_publish"}
OtherPlaces == {"idle", "load", "preflight", "new_state", "save_starting",
  "sw_inspect", "sw_save", "cf_load", "tick_load", "tick_publish_error",
  "publish_recovery"}
Places == StartPlaces \cup SwitchPlaces \cup StopPlaces \cup TickPlaces \cup OtherPlaces

Run == [by: {"none", "client", "watcher"}, at: Places,
        why: {"none", "off", "failed", "tick", "unhealthy"},   \* who called stop()
        want: {"none"} \cup Requests \cup Serve,
        data: Session \cup {NoSession}]                        \* `data' in memory
Idle == [by |-> "none", at |-> "idle", why |-> "none", want |-> "none",
         data |-> NoSession]

TypeOK ==
  /\ table \in Rules
  /\ present \subseteq Artifacts
  /\ edited \in BOOLEAN /\ calm \in BOOLEAN
  /\ radio \in BOOLEAN /\ auto \in BOOLEAN /\ link \in BOOLEAN
  /\ uplink \in Uplinks \cup {"none"}
  /\ byUser \subseteq {"radio", "auto"}
  /\ journal \in Session \cup {NoSession}
  /\ status \in [phase: Phases \cup {"off"}, mode: Modes]
  /\ watch \in {"off", "up", "exiting", "failed"}
  /\ run \in Run
-----------------------------------------------------------------------------
(* How a step ends. *)

Call(why) == [run EXCEPT !.at = "st_load", !.why = why]

\* Mutant: the handler retries the stop() that failed.
RaisedRetrying ==
  CASE run.at \in StartPlaces \cup SwitchPlaces -> Call("failed")
    [] run.at \in TickPlaces -> Call("unhealthy")
    [] run.at \in StopPlaces /\ run.why = "failed" -> Call("failed")
    [] OTHER -> Idle

\* Where an exception leads: start and switch fall into `except BaseException',
\* tick into `except Exception'; one out of stop() leaves through its caller.
Raised ==
  CASE run.at \in StartPlaces \cup SwitchPlaces -> Call("failed")
    [] run.at \in TickPlaces -> Call("unhealthy")
    [] run.at \in StopPlaces /\ run.why = "failed" -> [run EXCEPT !.at = "publish_recovery"]
    [] OTHER -> Idle

At(p)        == run.at = p
Goto(p)      == run' = [run EXCEPT !.at = p]
Hold(d, p)   == run' = [run EXCEPT !.at = p, !.data = d]
Proceed(p)   == Goto(p) \/ (~calm /\ run' = Raised)   \* it may fail after its effect
Check(ok, p) == run' = IF ok THEN [run EXCEPT !.at = p] ELSE Raised

OnlyRun   == UNCHANGED <<host, wifi, byUser, journal, status, watch, calm>>
OnHost    == UNCHANGED <<wifi, byUser, journal, status, watch, calm>>
OnWifi    == UNCHANGED <<table, edited, byUser, journal, status, watch, calm>>
OnJournal == UNCHANGED <<host, wifi, byUser, status, watch, calm>>
OnStatus  == UNCHANGED <<host, wifi, byUser, journal, watch, calm>>

\* Store.save: data is journalled, then the run goes on at p with it.
Save(data, p) ==
  /\ journal' = data
  /\ Hold(data, p) \/ (~calm /\ run' = Raised)
  /\ OnJournal

\* Store.publish(status(...)): atomic replacement of the public status.
Publish(session, p) ==
  /\ status' = StatusOf(session)
  /\ Proceed(p)
  /\ OnStatus

\* Store.publish as the last act of an operation: the lock is released.
PublishAndLeave(session) ==
  /\ status' = StatusOf(session)
  /\ run' = Idle \/ (~calm /\ run' = Raised)
  /\ UNCHANGED <<host, wifi, byUser, journal, calm>>

\* A command whose result is inspected afterwards may also report success
\* and change nothing.
Attempt(new, old) == IF calm THEN new ELSE new \cup {old}

\* Rollback.inspect: everything found is provably this session's.
Inspected == ~edited
Required(serve) == serve = "local" \/ uplink = serve            \* require_uplink
Supported == uplink # "none" /\ (uplink \in WifiUplinks => AllowWifi)
PlanHolds(data) == link = data.sta                              \* verify_plan
Guarded == table # "absent" /\ run.data.handle                  \* guard(create=False)
Healthy(data) ==
  /\ Inspected
  /\ {"ap", "interface", "sharing"} \subseteq present
  /\ table = data.digest
  /\ PlanHolds(data)
  /\ Required(data.serve)
-----------------------------------------------------------------------------
(* Taking the lock: a helper's request, or the supervisor's tick. *)

Request(want) ==
  /\ run = Idle /\ ~calm
  /\ run' = [Idle EXCEPT !.by = "client", !.want = want,
               !.why = IF want = "off" THEN "off" ELSE "none",
               !.at = CASE want = "off" -> "st_load"
                        [] want = "configure" -> "cf_load"
                        [] OTHER -> "load"]
  /\ OnlyRun

Tick ==
  /\ run = Idle /\ watch = "up"
  /\ run' = [Idle EXCEPT !.by = "watcher", !.at = "tick_load"]
  /\ OnlyRun

\* configure: refused while a session is journalled, else only `off' is published.
Configure ==
  /\ At("cf_load")
  /\ \/ journal # NoSession /\ run' = Idle /\ OnlyRun
     \/ journal = NoSession /\ PublishAndLeave(NoSession) /\ UNCHANGED watch
-----------------------------------------------------------------------------
(* Controller.start *)

Load ==
  /\ At("load")
  /\ \/ journal = NoSession /\ Goto("preflight")
     \/ journal.phase = "active" /\ Hold(journal, "sw_inspect")
     \/ journal.phase \notin {"none", "active"} /\ run' = Idle    \* off comes first
  /\ OnlyRun

\* Nothing is changed yet.  The uplink is chosen, and the radio plan with it.
Preflight ==
  /\ At("preflight")
  /\ LET serve == IF run.want = "local" THEN "local" ELSE uplink IN
     run' = IF /\ run.want = "internet" => Supported
               /\ link = (serve \in WifiUplinks)               \* radio_plan
               /\ table = "absent" /\ "interface" \notin present
            THEN [run EXCEPT !.at = "new_state", !.want = serve]
            ELSE Idle
  /\ OnlyRun

\* new_state and planned_absent: the baseline, in memory only.
NewState ==
  /\ At("new_state")
  /\ Hold([phase |-> "starting", serve |-> run.want,
           sta |-> run.want \in WifiUplinks, radio |-> radio, auto |-> auto,
           radioTouched |-> FALSE, autoTouched |-> FALSE,
           handle |-> FALSE, digest |-> "none"], "save_starting")
  /\ byUser' = {}
  /\ UNCHANGED <<host, wifi, journal, status, watch, calm>>

SaveStarting    == At("save_starting") /\ Save(run.data, "publish_starting")
PublishStarting == At("publish_starting") /\ Publish(run.data, "arm_watch")

\* Mutant: systemctl start, which a supervisor on its way out satisfies.
ArmWatchStart ==
  /\ At("arm_watch")
  /\ watch' = IF watch = "exiting" THEN watch ELSE "up"
  /\ Proceed("guard_blocked")
  /\ UNCHANGED <<host, wifi, byUser, journal, status, calm>>

\* systemctl restart: an old supervisor is gone before the new one starts.
ArmWatch ==
  /\ At("arm_watch")
  /\ \/ watch' = "up" /\ Proceed("guard_blocked")
     \/ ~calm /\ watch' = "off" /\ run' = Raised
  /\ UNCHANGED <<host, wifi, byUser, journal, status, calm>>

\* Mutant: the table is created with the rules of the mode.
GuardBlockedOpen ==
  /\ At("guard_blocked") /\ table = "absent"
  /\ table' = run.data.serve
  /\ \/ Hold([run.data EXCEPT !.handle = TRUE, !.digest = run.data.serve], "save_receipt")
     \/ ~calm /\ run' = Raised
  /\ UNCHANGED <<present, edited>> /\ OnHost

\* An occupied table name is refused, never adopted.
GuardBlocked ==
  /\ At("guard_blocked") /\ table = "absent"
  /\ table' = "blocked"
  /\ \/ Hold([run.data EXCEPT !.handle = TRUE, !.digest = "blocked"], "save_receipt")
     \/ ~calm /\ run' = Raised
  /\ UNCHANGED <<present, edited>> /\ OnHost

SaveReceipt ==
  /\ At("save_receipt")
  /\ Save(run.data, IF run.data.sta THEN "verify_plan" ELSE "hold_autoconnect")

\* Mutant: the mark stays in memory until the next save.
HoldAutoconnectUnsaved ==
  /\ At("hold_autoconnect")
  /\ IF auto THEN Hold([run.data EXCEPT !.autoTouched = TRUE], "autoconnect_no") ELSE Goto("wifi_idle")
  /\ OnlyRun

\* The station must not reconnect by itself while the radio is cycled.  owner_for
\* refuses to journal a change of a setting that was off in the baseline.
HoldAutoconnect ==
  /\ At("hold_autoconnect")
  /\ \/ auto /\ run.data.auto /\ Save([run.data EXCEPT !.autoTouched = TRUE], "autoconnect_no")
     \/ auto /\ ~run.data.auto /\ run' = Raised /\ OnlyRun
     \/ ~auto /\ Goto("wifi_idle") /\ OnlyRun

AutoconnectNo ==
  /\ At("autoconnect_no")
  /\ auto' = FALSE
  /\ Proceed("wifi_idle")
  /\ UNCHANGED <<present, radio, link, uplink>> /\ OnWifi

\* Mutant: the radio is taken without a second look at the station.
WifiIdleUnchecked == At("wifi_idle") /\ Goto("journal_radio") /\ OnlyRun

WifiIdle     == At("wifi_idle") /\ Check(~link, "journal_radio") /\ OnlyRun
JournalRadio == At("journal_radio") /\ Save([run.data EXCEPT !.radioTouched = TRUE], "radio_off")

\* Switching the radio off takes down whatever link or AP uses it.
SetRadio(on) ==
  /\ radio' = on
  /\ link' = (link /\ on)
  /\ uplink' = IF ~on /\ uplink \in WifiUplinks THEN "none" ELSE uplink
  /\ present' = IF on THEN present ELSE present \ {"ap"}
  /\ UNCHANGED auto

RadioOff ==
  /\ At("radio_off")
  /\ SetRadio(FALSE)
  /\ Proceed("create_interface")
  /\ OnWifi

VerifyPlan == At("verify_plan") /\ Check(PlanHolds(run.data), "create_interface") /\ OnlyRun

\* The ifindex receipt that is journalled right after it is not told apart.
CreateInterface ==
  /\ At("create_interface")
  /\ present' = present \cup {"interface"}
  /\ Proceed("add_profile")
  /\ UNCHANGED <<table, edited>> /\ OnHost

AddProfile ==
  /\ At("add_profile")
  /\ present' = present \cup {"profile"}
  /\ Proceed("recheck")
  /\ UNCHANGED <<table, edited>> /\ OnHost

Recheck ==
  /\ At("recheck")
  /\ Check(Inspected /\ Required(run.data.serve),
           IF run.data.sta THEN "wait_ready" ELSE "radio_on")
  /\ OnlyRun

RadioOn ==
  /\ At("radio_on")
  /\ SetRadio(TRUE)
  /\ Proceed("wait_ready")
  /\ OnWifi

WaitReady == At("wait_ready") /\ Check(radio, "recheck_ready") /\ OnlyRun

RecheckReady ==
  /\ At("recheck_ready")
  /\ Check(Inspected /\ Required(run.data.serve) /\ PlanHolds(run.data), "activate")
  /\ OnlyRun

\* NetworkManager brings up the AP together with its sharing rules and dnsmasq.
Activate ==
  /\ At("activate")
  /\ \/ ~({"interface", "profile"} \subseteq present /\ radio) /\ run' = Raised /\ UNCHANGED present
     \/ /\ {"interface", "profile"} \subseteq present /\ radio
        /\ present' = present \cup {"ap", "sharing", "lease"}
        /\ Proceed("guard_mode")
  /\ UNCHANGED <<table, edited>> /\ OnHost

\* The first opening of the guard: blocked -> the mode's rules.
GuardMode ==
  /\ At("guard_mode")
  /\ \/ ~Guarded /\ run' = Raised /\ UNCHANGED table
     \/ /\ Guarded /\ table' = run.data.serve
        /\ \/ Hold([run.data EXCEPT !.digest = run.data.serve], "healthy")
           \/ ~calm /\ run' = Raised
  /\ UNCHANGED <<present, edited>> /\ OnHost

\* The last three steps, which switch() repeats word for word.
CheckHealthy  == At("healthy") /\ Check(Healthy(run.data), "save_active") /\ OnlyRun
SaveActive    == At("save_active") /\ Save([run.data EXCEPT !.phase = "active"], "publish_active")
PublishActive == At("publish_active") /\ PublishAndLeave(run.data) /\ UNCHANGED watch
-----------------------------------------------------------------------------
(* Controller.switch *)

\* A refusal here leaves the active session as it is.
SwitchInspect ==
  /\ At("sw_inspect")
  /\ LET serve == IF run.want = "local" THEN "local" ELSE uplink IN
     run' = IF /\ Inspected
               /\ run.want = "internet" => Supported
               /\ serve \in WifiUplinks => run.data.sta
            THEN [run EXCEPT !.at = "sw_save", !.want = serve]
            ELSE Idle
  /\ OnlyRun

\* Mutant: the mode is switched while the journal still says active.
SwitchSaveUnsaved ==
  At("sw_save") /\ Hold([run.data EXCEPT !.phase = "switching"], "sw_publish") /\ OnlyRun

SwitchSave    == At("sw_save") /\ Save([run.data EXCEPT !.phase = "switching"], "sw_publish")
SwitchPublish == At("sw_publish") /\ Publish(run.data, "sw_guard")

SwitchGuard ==
  /\ At("sw_guard")
  /\ \/ ~Guarded /\ run' = Raised /\ UNCHANGED table
     \/ /\ Guarded /\ table' = run.want
        /\ \/ Hold([run.data EXCEPT !.digest = run.want, !.serve = run.want], "healthy")
           \/ ~calm /\ run' = Raised
  /\ UNCHANGED <<present, edited>> /\ OnHost
-----------------------------------------------------------------------------
(* Controller.stop, with Rollback.execute(apply=True) inside it *)

StopLoad ==
  /\ At("st_load")
  /\ Hold(journal, IF journal = NoSession THEN "st_publish_off" ELSE "st_inspect")
  /\ OnlyRun

\* Mutants: stop leaves the old phase in the journal, or in the public status.
StopSaveUnsaved ==
  At("st_save") /\ Hold([run.data EXCEPT !.phase = "stopping"], "st_publish") /\ OnlyRun
StopPublishSkipped == At("st_publish") /\ Goto("st_table") /\ OnlyRun

StopInspect == At("st_inspect") /\ Check(Inspected, "st_save") /\ OnlyRun
StopSave    == At("st_save") /\ Save([run.data EXCEPT !.phase = "stopping"], "st_publish")
StopPublish == At("st_publish") /\ Publish(run.data, "st_table")

\* Mutant: a table whose handle is not journalled is an error.
StopTableUnadopted ==
  /\ At("st_table")
  /\ run' = IF table = "absent" THEN [run EXCEPT !.at = "rb_down"]
            ELSE IF run.data.handle THEN [run EXCEPT !.at = "st_guard"] ELSE Raised
  /\ OnlyRun

\* A table created before its handle was journalled is adopted by its marker.
StopTable ==
  /\ At("st_table")
  /\ \/ table = "absent" /\ Goto("rb_down") /\ OnlyRun
     \/ table # "absent" /\ run.data.handle /\ Goto("st_guard") /\ OnlyRun
     \/ table # "absent" /\ ~run.data.handle /\ Save([run.data EXCEPT !.handle = TRUE], "st_guard")

\* Mutant: the teardown begins under the rules of the mode.
StopGuardSkipped == At("st_guard") /\ Goto("rb_down") /\ OnlyRun

StopGuard ==
  /\ At("st_guard")
  /\ \/ ~Guarded /\ run' = Raised /\ UNCHANGED table
     \/ Guarded /\ table' = "blocked" /\ Proceed("rb_down")
  /\ UNCHANGED <<present, edited>> /\ OnHost

\* Each teardown step inspects, confirms what the one before it did, and acts.
Down ==
  /\ At("rb_down")
  /\ \/ ~Inspected /\ run' = Raised /\ UNCHANGED present
     \/ Inspected /\ "ap" \notin present /\ Goto("rb_profile") /\ UNCHANGED present
     \/ /\ Inspected /\ "ap" \in present
        /\ present' \in Attempt({present \ {"ap"}, present \ {"ap", "sharing"}}, present)
        /\ Proceed("rb_profile")
  /\ UNCHANGED <<table, edited>> /\ OnHost

DeleteProfile ==
  /\ At("rb_profile")
  /\ \/ ~(Inspected /\ "ap" \notin present) /\ run' = Raised /\ UNCHANGED present
     \/ /\ Inspected /\ "ap" \notin present
        /\ present' \in Attempt({present \ {"profile"}}, present)
        /\ Proceed("rb_interface")
  /\ UNCHANGED <<table, edited>> /\ OnHost

DeleteInterface ==
  /\ At("rb_interface")
  /\ \/ ~(Inspected /\ "profile" \notin present) /\ run' = Raised /\ UNCHANGED present
     \/ /\ Inspected /\ "profile" \notin present
        /\ present' \in Attempt({present \ {"interface", "ap"}}, present)
        /\ Proceed("rb_sharing")
  /\ UNCHANGED <<table, edited>> /\ OnHost

\* Mutant: the teardown's own report is believed.
ConfirmAbsentTrusting == At("rb_sharing") /\ Goto("rb_table") /\ OnlyRun

\* The AP must be gone and NetworkManager's own sharing rules with it.
ConfirmAbsent ==
  /\ At("rb_sharing")
  /\ Check(Inspected /\ {"interface", "profile", "ap", "sharing"} \cap present = {}, "rb_table")
  /\ OnlyRun

DeleteTable ==
  /\ At("rb_table")
  /\ table' \in Attempt({"absent"}, table)
  /\ Proceed("rb_confirm")
  /\ UNCHANGED <<present, edited>> /\ OnHost

\* Mutant: nft's report that the table is deleted is believed.
ConfirmTableTrusting == At("rb_confirm") /\ Goto("st_lease") /\ OnlyRun

ConfirmTable == At("rb_confirm") /\ Check(table = "absent", "st_lease") /\ OnlyRun

RemoveLease ==
  /\ At("st_lease")
  /\ present' = present \ {"lease"}
  /\ Proceed("st_radio")
  /\ UNCHANGED <<table, edited>> /\ OnHost

\* A link that came up meanwhile defers the switching off of the radio.
RestoreRadio ==
  /\ At("st_radio")
  /\ LET due == run.data.radioTouched /\ radio # run.data.radio IN
     \/ ~due /\ Goto("st_auto")
     \/ due /\ Check(run.data.radio \/ ~link, "st_radio_set")
  /\ OnlyRun

SwitchRadioBack ==
  /\ At("st_radio_set")
  /\ SetRadio(run.data.radio) \/ (~calm /\ UNCHANGED <<wifi, present>>)
  /\ Proceed("st_radio_check")
  /\ OnWifi

ConfirmRadio == At("st_radio_check") /\ Check(radio = run.data.radio, "st_auto") /\ OnlyRun

RestoreAutoconnect ==
  /\ At("st_auto")
  /\ LET due == run.data.autoTouched /\ auto # run.data.auto IN
     \/ ~due /\ Goto("st_clear") /\ OnlyRun
     \/ /\ due
        /\ auto' \in Attempt({TRUE}, auto)
        /\ Proceed("st_auto_check")
        /\ UNCHANGED <<present, radio, link, uplink>> /\ OnWifi

ConfirmAutoconnect == At("st_auto_check") /\ Check(auto, "st_clear") /\ OnlyRun

Clear ==
  /\ At("st_clear")
  /\ journal' = NoSession
  /\ Proceed("st_publish_off")
  /\ OnJournal

\* stop() returns to its caller: helper, the handler that called it, or tick,
\* whose FALSE ends the supervisor.
StopReturn ==
  /\ At("st_publish_off")
  /\ CASE run.why = "unhealthy" -> Publish(NoSession, "tick_publish_error")
       [] run.why = "tick" -> /\ PublishAndLeave(NoSession)
                              /\ watch' \in Attempt({"exiting"}, "up")
       [] OTHER -> PublishAndLeave(NoSession) /\ UNCHANGED watch

PublishRecovery ==
  /\ At("publish_recovery")
  /\ PublishAndLeave(journal) /\ UNCHANGED watch
-----------------------------------------------------------------------------
(* Controller.tick and helper.watch *)

TickLoad ==
  /\ At("tick_load")
  /\ \/ journal = NoSession /\ run' = Idle /\ watch' = "exiting"
     \/ journal.phase = "active" /\ Hold(journal, "tick_healthy") /\ UNCHANGED watch
     \/ journal.phase \notin {"none", "active"} /\ run' = Call("tick") /\ UNCHANGED watch
  /\ UNCHANGED <<host, wifi, byUser, journal, status, calm>>

TickHealthy == At("tick_healthy") /\ Check(Healthy(run.data), "tick_publish") /\ OnlyRun
TickPublish == At("tick_publish") /\ PublishAndLeave(run.data) /\ UNCHANGED watch

TickPublishError ==
  /\ At("tick_publish_error")
  /\ PublishAndLeave(NoSession)
  /\ watch' \in Attempt({"exiting"}, "up")

\* The process is gone some time after it released the lock.
WatchExit ==
  /\ watch = "exiting"
  /\ watch' = "off"
  /\ UNCHANGED <<host, wifi, byUser, journal, status, run, calm>>

\* Restart=on-failure, RestartSec=2s
WatchRestart ==
  /\ watch = "failed"
  /\ watch' = "up"
  /\ UNCHANGED <<host, wifi, byUser, journal, status, run, calm>>
-----------------------------------------------------------------------------
(* Failures.  A command times out, a signal or the 120 s alarm interrupts,  *)
(* a write fails: the step raises before its effect.  Or the process dies.  *)

Fail ==
  /\ run # Idle /\ ~calm
  /\ run' = Raised
  /\ OnlyRun

Kill ==
  /\ run # Idle /\ ~calm
  /\ run' = Idle
  /\ watch' = IF run.by = "watcher" THEN "failed" ELSE watch
  /\ UNCHANGED <<host, wifi, byUser, journal, status, calm>>

KillWatch ==
  /\ watch = "up" /\ run.by # "watcher" /\ ~calm
  /\ watch' = "failed"
  /\ UNCHANGED <<host, wifi, byUser, journal, status, run, calm>>

CalmDown ==
  /\ ~calm /\ calm' = TRUE
  /\ UNCHANGED <<host, wifi, byUser, journal, status, watch, run>>
-----------------------------------------------------------------------------
(* Environment: NetworkManager, the user and other administrators.          *)

Disturbs(d) == ~calm /\ d \in Disturb
Outside == UNCHANGED <<journal, status, watch, run, calm>>

UserRadio ==
  /\ Disturbs("radio")
  /\ SetRadio(~radio)
  /\ byUser' = byUser \cup {"radio"}
  /\ UNCHANGED <<table, edited>> /\ Outside

UserAutoconnect ==
  /\ Disturbs("autoconnect")
  /\ auto' = ~auto
  /\ byUser' = byUser \cup {"auto"}
  /\ UNCHANGED <<host, radio, link, uplink>> /\ Outside

LinkUp ==
  /\ radio /\ ~link
  /\ Disturbs("userlink") \/ (Disturbs("autolink") /\ auto)
  /\ link' = TRUE
  /\ UNCHANGED <<host, radio, auto, uplink, byUser>> /\ Outside

LinkDown ==
  /\ link
  /\ Disturbs("userlink") \/ Disturbs("autolink")
  /\ link' = FALSE
  /\ uplink' = IF uplink \in WifiUplinks THEN "none" ELSE uplink
  /\ UNCHANGED <<host, radio, auto, byUser>> /\ Outside

UplinkChange ==
  /\ Disturbs("uplink")
  /\ uplink' \in (Uplinks \cup {"none"}) \ {uplink}
  /\ uplink' \in WifiUplinks => link
  /\ UNCHANGED <<host, radio, auto, link, byUser>> /\ Outside

ApDrop ==
  /\ Disturbs("ap") /\ "ap" \in present
  /\ present' = present \ {"ap"}
  /\ UNCHANGED <<table, edited, wifi, byUser>> /\ Outside

ApActivate ==
  /\ Disturbs("ap") /\ {"interface", "profile"} \subseteq present /\ radio
  /\ present' = present \cup {"ap", "sharing", "lease"}
  /\ UNCHANGED <<table, edited, wifi, byUser>> /\ Outside

\* Rules of our chains changed by somebody else; table and handle stay.
AlterRules ==
  /\ Disturbs("rules") /\ table # "absent"
  /\ table' = "altered"
  /\ UNCHANGED <<present, edited, wifi, byUser>> /\ Outside

\* nft flush ruleset takes our table with everything else.
FlushTable ==
  /\ Disturbs("flush") /\ table # "absent"
  /\ table' = "absent"
  /\ UNCHANGED <<present, edited, wifi, byUser>> /\ Outside

EditProfile ==
  /\ Disturbs("profile") /\ "profile" \in present
  /\ \/ edited' = ~edited /\ UNCHANGED present
     \/ edited' = FALSE /\ present' = present \ {"profile", "ap"}
  /\ UNCHANGED <<table, wifi, byUser>> /\ Outside

\* NetworkManager drops the sharing rules of an AP that is down.
SharingCleanup ==
  /\ "sharing" \in present /\ "ap" \notin present
  /\ present' = present \ {"sharing"}
  /\ UNCHANGED <<table, edited, wifi, byUser>> /\ Outside
-----------------------------------------------------------------------------
Init ==
  /\ table = "absent" /\ present = {} /\ edited = FALSE
  /\ radio \in BOOLEAN /\ auto \in BOOLEAN /\ link = FALSE
  /\ uplink \in (Uplinks \ WifiUplinks) \cup {"none"}
  /\ byUser = {}
  /\ journal = NoSession
  /\ status = StatusOf(NoSession)
  /\ watch = "off"
  /\ run = Idle
  /\ calm = FALSE

Start ==
  \/ Load \/ Preflight \/ NewState \/ SaveStarting \/ PublishStarting \/ ArmWatch
  \/ GuardBlocked \/ SaveReceipt \/ HoldAutoconnect \/ AutoconnectNo \/ WifiIdle
  \/ JournalRadio \/ RadioOff \/ VerifyPlan \/ CreateInterface \/ AddProfile
  \/ Recheck \/ RadioOn \/ WaitReady \/ RecheckReady \/ Activate \/ GuardMode
  \/ CheckHealthy \/ SaveActive \/ PublishActive
Switch == SwitchInspect \/ SwitchSave \/ SwitchPublish \/ SwitchGuard
Stop ==
  \/ StopLoad \/ StopInspect \/ StopSave \/ StopPublish \/ StopTable \/ StopGuard
  \/ Down \/ DeleteProfile \/ DeleteInterface \/ ConfirmAbsent \/ DeleteTable
  \/ ConfirmTable \/ RemoveLease \/ RestoreRadio \/ SwitchRadioBack \/ ConfirmRadio
  \/ RestoreAutoconnect \/ ConfirmAutoconnect \/ Clear \/ StopReturn \/ PublishRecovery
TickSteps == TickLoad \/ TickHealthy \/ TickPublish \/ TickPublishError

Progress == Start \/ Switch \/ Stop \/ TickSteps \/ Configure
Failure == Fail \/ Kill \/ KillWatch \/ CalmDown
Environment ==
  \/ UserRadio \/ UserAutoconnect \/ LinkUp \/ LinkDown \/ UplinkChange
  \/ ApDrop \/ ApActivate \/ AlterRules \/ FlushTable \/ EditProfile \/ SharingCleanup

Next ==
  \/ Progress \/ Tick \/ (\E want \in Requests : Request(want))
  \/ WatchExit \/ WatchRestart \/ Failure \/ Environment

\* A process that holds the lock goes on, the supervisor wakes up every two
\* seconds, systemd restarts it, and NetworkManager cleans up.  Requests,
\* failures and disturbances are never due.
Fairness ==
  /\ WF_vars(Progress) /\ WF_vars(Tick)
  /\ WF_vars(WatchExit) /\ WF_vars(WatchRestart) /\ WF_vars(SharingCleanup)

Spec     == Init /\ [][Next]_vars
FairSpec == Spec /\ Fairness
-----------------------------------------------------------------------------
(* Safety. *)

\* Without a journal nothing of ours is on the host: no failure, kill or
\* restart between any two steps of start, switch and stop leaves an orphan
\* that no later stop() would know of (controller.py:175 comes last).
NoOrphan == journal = NoSession => table = "absent" /\ present = {}

\* The guard is the first artifact created and the last one deleted: whatever
\* can carry client traffic exists only while the table does, if nobody else
\* deletes it.
GuardFirstLast ==
  "flush" \notin Disturb /\ present \cap {"interface", "profile", "ap", "sharing"} # {} => table # "absent"

\* What is let through is what the journal says, whenever the journal calls the
\* session active (also right after a killed switch) or is still starting it;
\* and the digest the supervisor compares with is that of those rules.
RulesJournaled ==
  /\ journal.phase = "active" => table \in {journal.serve, "altered", "absent"} /\ journal.digest = journal.serve
  /\ journal.phase = "starting" => table \in {"absent", "blocked", journal.serve, "altered"}

\* Whoever dies, somebody is left to clean up: with any artifact on the host or
\* a radio setting changed, a supervisor runs or is about to be restarted.
Supervised ==
  \/ table # "absent" \/ present # {}
  \/ (journal # NoSession /\ (journal.radioTouched \/ journal.autoTouched))
  => watch \in {"up", "failed"}

\* The public status never reports `off' while artifacts exist, nor a session
\* in being that no journal records, nor active in another mode than journalled.
StatusHonest ==
  /\ status.phase = "off" => table = "absent" /\ present = {}
  /\ status.phase \in {"starting", "switching", "active"} => journal # NoSession
  /\ status.phase = "active" /\ journal.phase = "active" => status.mode = ModeOf(journal)

\* The AP, its profile and its interface are never taken away while the guard
\* lets traffic through, in whatever phase the stop began or was retried.
BlockedRemoval ==
  run' # run /\ ~(present \cap {"ap", "profile", "interface"} \subseteq present') => table \notin Serve
TeardownBlocked == [][BlockedRemoval]_vars

\* A session that is forgotten has put back radio and autoconnect, unless
\* somebody else changed them in between.
BaselineKept ==
  journal # NoSession /\ journal' = NoSession
    => /\ radio = journal.radio \/ "radio" \in byUser
       /\ auto = journal.auto \/ "auto" \in byUser
BaselineRestored == [][BaselineKept]_vars

\* Our own steps never cut a Wi-Fi link that came up by autoconnect, neither
\* when start cycles the radio nor when stop switches it off again.
LinkPreserved == [][link /\ ~link' => run' = run]_vars

(* Liveness. *)

\* Neither process keeps the lock forever.
OperationEnds == run # Idle ~> run = Idle

\* What waits for a person: an edited profile, or a link on a radio that was off.
NeedsReview ==
  edited \/ (journal # NoSession /\ journal.radioTouched /\ ~journal.radio /\ radio /\ link)

\* Once failures and disturbances cease, every supervised session ends up
\* cleaned away or active and healthy, if no person has to decide first.
Recovers ==
  calm /\ journal # NoSession /\ watch \in {"up", "failed"}
    ~> \/ journal = NoSession \/ NeedsReview
       \/ journal.phase = "active" /\ Healthy(journal)
=============================================================================
