----------------------- MODULE HotspotRefinesProofs -------------------------
(***************************************************************************)
(* HotspotSession implements SessionAbstract, for every set of uplinks and *)
(* every disturbance but the removal of the guard's table by others.  Most *)
(* steps change nothing that SessionAbstract shows; a step that does falls *)
(* under one of a few kinds, each with a lemma of its own.  And what the   *)
(* session rests on: it uses the table as GuardPolicy does, and the radio  *)
(* plan it journals finds a place for every interface.                     *)
(***************************************************************************)
EXTENDS HotspotSessionProofs, HotspotSessionRefines, Integers, FiniteSetTheorems

\* What more is needed on the way: the teardown goes on under a closed guard, and a
\* mode is only served once its rules are there.
ShutInv ==
  /\ run.at \in {"rb_sharing", "rb_table"} => table \notin Serve
  /\ "flush" \notin Disturb /\ run.at \in {"healthy", "save_active"} => table # "absent"

LEMMA Words ==
  /\ \A s \in Serve : s \notin {"absent", "blocked", "altered", "none", "busy", "clean", "closed", "exposed"}
  /\ Abstract!Init <=> Served = "none" /\ Host = "clean" /\ Due = {}
  BY UplinkAssumption, WordsAssumption DEF Serve, Reserved, Abstract!Init

LEMMA Quiet ==
  ASSUME UNCHANGED <<table, present, radio, auto, byUser, journal>>
  PROVE  UNCHANGED Abstract!vars
  BY DEF Abstract!vars, Served, Host, Due, RadioDue, AutoDue, Exposed, Clean

LEMMA HostOfTable ==
  /\ table \in Serve \cup {"altered"} => Host = table
  /\ table = "blocked" => Host = "closed"
  /\ table = "absent" /\ present = {} => Host = "clean"
  /\ table = "absent" /\ present = {"lease"} => Host = "closed"
  BY Words DEF Host, Clean, Exposed, Carriers

LEMMA ShutStep == Typed /\ OrphanInv /\ TeardownInv /\ ShutInv /\ [Next]_vars => ShutInv'
<1> SUFFICES ASSUME Typed, OrphanInv, TeardownInv, ShutInv, [Next]_vars PROVE ShutInv'
  OBVIOUS
<1> USE DEF At, host, wifi, RunTyped, Typed, TeardownInv, Teardown, ShutInv,
            StartPlaces, SwitchPlaces, StopPlaces, TickPlaces
<1>1. CASE Load
  <2>1. CASE journal.phase = "active" /\ Hold(journal, "sw_inspect")
    <3>1. journal # NoSession
      BY <2>1 DEF NoSession
    <3>2. run'.at = "sw_inspect" /\ run'.data = journal
      BY <2>1, HoldShape DEF JournalTyped, Places, OtherPlaces
    <3> QED BY <1>1, <2>1, <3>1, <3>2 DEF Load, OnlyRun
  <2>2. CASE run' = Idle
    <3>1. run'.at = "idle"
      BY <2>2 DEF Idle
    <3> QED BY <1>1, <3>1 DEF Load, OnlyRun
  <2>3. CASE Goto("preflight")
    <3>1. run'.at = "preflight"
      BY <2>3 DEF Goto, Run
    <3> QED BY <1>1, <3>1 DEF Load, OnlyRun
  <2> QED BY <1>1, <2>1, <2>2, <2>3 DEF Load
<1>2. CASE Preflight
  BY <1>2, RaisedShape, ServeOpen
  DEF Idle, OnlyRun, Preflight, Run, Supported
<1>3. CASE NewState
  BY <1>3, RaisedShape, ServeOpen
  DEF Hold, Idle, NewState, Run
<1>4. CASE SaveStarting
  BY <1>4, RaisedShape, ServeOpen
  DEF Hold, Idle, OnJournal, Run, Save, SaveStarting
<1>5. CASE PublishStarting \/ ArmWatch \/ GuardBlocked \/ SaveReceipt
  BY <1>5, RaisedShape, ServeOpen
  DEF ArmWatch, Goto, GuardBlocked, Hold, Idle, OnHost, OnJournal, OnStatus,
      Proceed, Publish, PublishStarting, Run, Save, SaveReceipt
<1>6. CASE HoldAutoconnect \/ AutoconnectNo \/ WifiIdle \/ JournalRadio
  BY <1>6, RaisedShape, ServeOpen
  DEF AutoconnectNo, Check, Goto, Hold, HoldAutoconnect, Idle, JournalRadio,
      OnJournal, OnWifi, OnlyRun, Proceed, Run, Save, WifiIdle
<1>7. CASE RadioOff \/ VerifyPlan \/ CreateInterface \/ AddProfile
  BY <1>7, RaisedShape, ServeOpen
  DEF AddProfile, Check, CreateInterface, Goto, Idle, OnHost, OnWifi, OnlyRun,
      PlanHolds, Proceed, RadioOff, Run, SetRadio, VerifyPlan
<1>8. CASE Recheck \/ RadioOn \/ WaitReady \/ RecheckReady
  BY <1>8, RaisedShape, ServeOpen
  DEF Check, Goto, Idle, Inspected, OnWifi, OnlyRun, PlanHolds, Proceed,
      RadioOn, Recheck, RecheckReady, Required, Run, SetRadio, WaitReady
<1>9. CASE Activate
  BY <1>9, RaisedShape, ServeOpen
  DEF Activate, Goto, Idle, OnHost, Proceed, Run
<1>10. CASE GuardMode
  <2> DEFINE d == [run.data EXCEPT !.digest = run.data.serve]
  <2>1. d \in Session /\ run.data.serve \in Serve
    BY <1>10 DEF GuardMode, Session, Rules, Serve, Decided, HasData, Journalled
  <2>2. \/ run' = Raised /\ table' \in {table, run.data.serve}
        \/ Hold(d, "healthy") /\ table' = run.data.serve
    BY <1>10 DEF GuardMode
  <2> HIDE DEF d
  <2>3. \/ run'.at \in {"idle", "st_load", "publish_recovery"} /\ table' \in {table, run.data.serve}
        \/ run'.at = "healthy" /\ run'.data = d /\ table' = run.data.serve
    BY <2>1, <2>2, HoldShape, RaisedShape DEF Places
  <2> QED BY <1>10, <2>1, <2>3, ServeOpen DEF GuardMode, OnHost
<1>11. CASE CheckHealthy \/ SaveActive
  BY <1>11, RaisedShape, ServeOpen
  DEF Check, CheckHealthy, Healthy, Hold, Idle, Inspected, OnJournal, OnlyRun,
      PlanHolds, Required, Run, Save, SaveActive
<1>12. CASE PublishActive
  BY <1>12, RaisedShape, ServeOpen
  DEF Idle, PublishActive, PublishAndLeave, Run
<1>13. CASE SwitchInspect
  BY <1>13, RaisedShape, ServeOpen
  DEF Idle, Inspected, OnlyRun, Run, Supported, SwitchInspect
<1>14. CASE SwitchSave
  BY <1>14, RaisedShape, ServeOpen
  DEF Hold, Idle, OnJournal, Run, Save, SwitchSave
<1>15. CASE SwitchPublish
  BY <1>15, RaisedShape, ServeOpen
  DEF Goto, Idle, OnStatus, Proceed, Publish, Run, SwitchPublish
<1>16. CASE SwitchGuard
  <2> DEFINE d == [run.data EXCEPT !.digest = run.want, !.serve = run.want]
  <2>1. d \in Session /\ run.want \in Serve
    BY <1>16 DEF SwitchGuard, Session, Rules, Serve, Decided, HasData, Journalled
  <2>2. \/ run' = Raised /\ table' \in {table, run.want}
        \/ Hold(d, "healthy") /\ table' = run.want
    BY <1>16 DEF SwitchGuard
  <2> HIDE DEF d
  <2>3. \/ run'.at \in {"idle", "st_load", "publish_recovery"} /\ table' \in {table, run.want}
        \/ run'.at = "healthy" /\ run'.data = d /\ table' = run.want
    BY <2>1, <2>2, HoldShape, RaisedShape DEF Places
  <2> QED BY <1>16, <2>1, <2>3, ServeOpen DEF SwitchGuard, OnHost
<1>17. CASE StopLoad \/ StopInspect \/ StopSave \/ StopPublish
  BY <1>17, RaisedShape, ServeOpen
  DEF Check, Goto, Hold, Idle, Inspected, NoSession, OnJournal, OnStatus,
      OnlyRun, Proceed, Publish, Run, Save, StopInspect, StopLoad,
      StopPublish, StopSave
<1>18. CASE StopTable \/ StopGuard \/ Down \/ DeleteProfile
  BY <1>18, RaisedShape, ServeOpen
  DEF Attempt, DeleteProfile, Down, Goto, Guarded, Hold, Idle, Inspected,
      OnHost, OnJournal, OnlyRun, Proceed, Run, Save, StopGuard, StopTable
<1>19. CASE DeleteInterface \/ ConfirmAbsent \/ DeleteTable \/ ConfirmTable
  BY <1>19, RaisedShape, ServeOpen
  DEF Attempt, Check, ConfirmAbsent, ConfirmTable, DeleteInterface,
      DeleteTable, Goto, Idle, Inspected, OnHost, OnlyRun, Proceed, Run
<1>20. CASE RemoveLease \/ RestoreRadio \/ SwitchRadioBack \/ ConfirmRadio
  BY <1>20, RaisedShape, ServeOpen
  DEF Check, ConfirmRadio, Goto, Idle, OnHost, OnWifi, OnlyRun, Proceed,
      RemoveLease, RestoreRadio, Run, SetRadio, SwitchRadioBack
<1>21. CASE RestoreAutoconnect \/ ConfirmAutoconnect
  BY <1>21, RaisedShape, ServeOpen
  DEF Attempt, Check, ConfirmAutoconnect, Goto, Idle, OnWifi, OnlyRun,
      Proceed, RestoreAutoconnect, Run
<1>22. CASE Clear \/ StopReturn
  BY <1>22, RaisedShape, ServeOpen
  DEF Attempt, Clear, Goto, Idle, OnJournal, OnStatus, Proceed, Publish,
      PublishAndLeave, Run, StopReturn
<1>23. CASE PublishRecovery
  BY <1>23, RaisedShape, ServeOpen
  DEF Idle, PublishAndLeave, PublishRecovery, Run
<1>24. CASE TickLoad
  <2>1. CASE journal.phase = "active" /\ Hold(journal, "tick_healthy")
    <3>1. journal # NoSession
      BY <2>1 DEF NoSession
    <3>2. run'.at = "tick_healthy" /\ run'.data = journal
      BY <2>1, HoldShape DEF JournalTyped, Places, OtherPlaces
    <3> QED BY <1>24, <2>1, <3>1, <3>2 DEF TickLoad
  <2>2. CASE run' = Idle \/ run' = Call("tick")
    <3>1. Idle.at = "idle" /\ Call("tick").at = "st_load"
      BY DEF Idle, Call, Run
    <3> QED BY <1>24, <2>2, <3>1 DEF TickLoad
  <2> QED BY <1>24, <2>1, <2>2 DEF TickLoad
<1>25. CASE TickHealthy \/ TickPublish \/ TickPublishError
  BY <1>25, RaisedShape, ServeOpen
  DEF Attempt, Check, Healthy, Idle, Inspected, OnlyRun, PlanHolds,
      PublishAndLeave, Required, Run, TickHealthy, TickPublish,
      TickPublishError
<1>26. CASE Configure
  BY <1>26, RaisedShape, ServeOpen
  DEF Configure, Idle, OnlyRun, PublishAndLeave, Run
<1>27. CASE Tick
  BY <1>27, RaisedShape, ServeOpen
  DEF Idle, OnlyRun, Run, Tick
<1>28. CASE (\E want \in Requests : Request(want)) \/ WatchExit
  BY ZenonT(60), <1>28, RaisedShape, ServeOpen
  DEF Idle, OnlyRun, Request, Run, WatchExit
<1>29. CASE WatchRestart
  BY <1>29, RaisedShape, ServeOpen
  DEF Idle, Run, WatchRestart
<1>30. CASE Fail \/ Kill \/ KillWatch \/ CalmDown
  BY <1>30, RaisedShape, ServeOpen
  DEF CalmDown, Fail, Idle, Kill, KillWatch, OnlyRun, Run
<1>31. CASE UserRadio \/ UserAutoconnect \/ LinkUp \/ LinkDown
  BY <1>31, RaisedShape, ServeOpen
  DEF Disturbs, Idle, LinkDown, LinkUp, Outside, Run, SetRadio,
      UserAutoconnect, UserRadio
<1>32. CASE UplinkChange \/ ApDrop \/ ApActivate \/ AlterRules
  BY <1>32, RaisedShape, ServeOpen
  DEF AlterRules, ApActivate, ApDrop, Disturbs, Idle, Outside, Run,
      UplinkChange
<1>33. CASE FlushTable \/ EditProfile \/ SharingCleanup
  BY <1>33, RaisedShape, ServeOpen
  DEF Disturbs, EditProfile, FlushTable, Idle, Outside, Run, SharingCleanup
<1>34. CASE UNCHANGED vars
  BY <1>34 DEF vars
<1> QED
  BY <1>1, <1>2, <1>3, <1>4, <1>5, <1>6, <1>7, <1>8, <1>9, <1>10, <1>11,
     <1>12, <1>13, <1>14, <1>15, <1>16, <1>17, <1>18, <1>19, <1>20, <1>21,
     <1>22, <1>23, <1>24, <1>25, <1>26, <1>27, <1>28, <1>29, <1>30, <1>31,
     <1>32, <1>33, <1>34
  DEF Next, Progress, Start, Switch, Stop, TickSteps, Failure, Environment

LEMMA ShutInvariant == Spec => []ShutInv
<1>1. Init => ShutInv
  BY DEF Init, ShutInv, Idle
<1> QED BY <1>1, ShutStep, TypedInvariant, OrphanInvariant, TeardownInvariant, PTL DEF Spec

-----------------------------------------------------------------------------
(* The kinds of steps. *)

\* While an operation is recorded, what SessionAbstract calls busy.
Working == (StartPlaces \ {"publish_active"}) \cup SwitchPlaces \cup Stopping \cup {"st_publish"}

LEMMA Busy ==
  ASSUME Typed, OrphanInv, PhaseInv, run.at \in Working
  PROVE  Served = "busy" /\ journal \in Session
<1>1. journal # NoSession
  BY DEF Working, OrphanInv, Journalled, StartPlaces, SwitchPlaces, StopPlaces, Stopping
<1>2. journal.phase \in {"starting", "switching", "stopping"}
  BY DEF Working, PhaseInv, Starting, StartPlaces, SwitchPlaces, StopPlaces, Stopping
<1> QED BY <1>1, <1>2 DEF Served, Typed, JournalTyped

\* Carriers come and go only while the table is there, and do not show beside it.
LEMMA HostKept ==
  ASSUME "flush" \notin Disturb, HostTyped, HostTyped', GuardFirstLast, GuardFirstLast', table' = table,
         table = "absent" => ("lease" \in present' <=> "lease" \in present)
  PROVE  Host' = Host
<1>1. CASE table = "absent"
  <2>1. present \subseteq {"lease"} /\ present' \subseteq {"lease"}
    BY <1>1 DEF HostTyped, GuardFirstLast, Artifacts
  <2>2. present' = present
    <3>1. CASE "lease" \in present
      <4>1. present = {"lease"} /\ present' = {"lease"}
        BY <1>1, <2>1, <3>1
      <4> QED BY <4>1
    <3>2. CASE "lease" \notin present
      <4>1. present = {} /\ present' = {}
        BY <1>1, <2>1, <3>2
      <4> QED BY <4>1
    <3> QED BY <3>1, <3>2
  <2> QED BY <2>2 DEF Host, Clean, Exposed
<1>2. CASE table # "absent"
  BY <1>2 DEF Host, Clean, Exposed
<1> QED BY <1>1, <1>2

LEMMA PresentKind ==
  ASSUME "flush" \notin Disturb, HostTyped, HostTyped', GuardFirstLast, GuardFirstLast',
         UNCHANGED <<table, radio, auto, byUser, journal>>,
         table = "absent" => ("lease" \in present' <=> "lease" \in present)
  PROVE  UNCHANGED Abstract!vars
<1>1. Host' = Host
  BY HostKept
<1> QED BY <1>1 DEF Abstract!vars, Served, Due, RadioDue, AutoDue

\* The journal is rewritten within an operation, or to begin one on an active session.
LEMMA SaveKind ==
  ASSUME UNCHANGED <<table, present, radio, auto, byUser>>, journal \in Session, journal' \in Session,
         journal'.radio = journal.radio, journal'.auto = journal.auto,
         journal'.phase # "active"
  PROVE  [Abstract!Next]_(Abstract!vars)
<1>1. Host' = Host /\ Due' = Due
  BY NotSession DEF Host, Due, RadioDue, AutoDue, Clean, Exposed
<1>2. Served' = "busy"
  BY NotSession DEF Served
<1>3. CASE journal.phase = "active"
  <2>1. Served \in Serve
    BY <1>3, NotSession DEF Served, Session
  <2> QED BY <1>1, <1>2, <2>1 DEF Abstract!Next, Abstract!Busy
<1>4. CASE journal.phase # "active"
  BY <1>1, <1>2, <1>4, NotSession DEF Served, Abstract!vars
<1> QED BY <1>3, <1>4

\* A setting of the user is changed or put back within an operation,
LEMMA RadioKind ==
  ASSUME Host' = Host, UNCHANGED <<auto, journal, byUser>>, Served = "busy"
  PROVE  [Abstract!Next]_(Abstract!vars)
<1>1. Due' = Due \cup {"radio"} \/ Due' = Due \ {"radio"}
  BY DEF Due, AutoDue
<1>2. Served' = Served
  BY DEF Served
<1> QED BY <1>1, <1>2 DEF Abstract!Next, Abstract!Take, Abstract!Give

LEMMA AutoKind ==
  ASSUME UNCHANGED <<table, present, radio, journal, byUser>>, Served = "busy"
  PROVE  [Abstract!Next]_(Abstract!vars)
<1>1. Due' = Due \cup {"auto"} \/ Due' = Due \ {"auto"}
  BY DEF Due, RadioDue
<1>2. Served' = Served /\ Host' = Host
  BY DEF Served, Host, Clean, Exposed
<1> QED BY <1>1, <1>2 DEF Abstract!Next, Abstract!Take, Abstract!Give

\* or by the user, at any time.
LEMMA OverruleRadioKind ==
  ASSUME Host' = Host, UNCHANGED <<auto, journal>>, byUser' = byUser \cup {"radio"}
  PROVE  [Abstract!Next]_(Abstract!vars)
<1>1. Due' = Due \ {"radio"} /\ Served' = Served
  BY DEF Due, RadioDue, AutoDue, Served
<1> QED BY <1>1 DEF Abstract!Next, Abstract!Overrule

LEMMA OverruleAutoKind ==
  ASSUME UNCHANGED <<table, present, radio, journal>>, byUser' = byUser \cup {"auto"}
  PROVE  [Abstract!Next]_(Abstract!vars)
<1>1. Due' = Due \ {"auto"} /\ Served' = Served /\ Host' = Host
  BY DEF Due, RadioDue, AutoDue, Served, Host, Clean, Exposed
<1> QED BY <1>1 DEF Abstract!Next, Abstract!Overrule

\* The table is loaded: closed, opened for a mode, or altered by others.
LEMMA TableKind ==
  ASSUME HostTyped, UNCHANGED <<present, radio, auto, byUser, journal>>,
         \/ Served = "busy" /\ table' = "blocked"
         \/ Served = "busy" /\ table # "absent" /\ table' \in Serve
         \/ "rules" \in Disturb /\ table # "absent" /\ table' = "altered"
  PROVE  [Abstract!Next]_(Abstract!vars)
<1>1. Served' = Served /\ Due' = Due
  BY DEF Served, Due, RadioDue, AutoDue
<1>2. table # "absent" => Host # "clean"
  BY Words DEF Host, Clean
<1>3. Host' = IF table' \in Serve \cup {"altered"} THEN table'
              ELSE IF Clean' THEN "clean" ELSE IF Exposed' THEN "exposed" ELSE "closed"
  BY DEF Host
<1>4. CASE Served = "busy" /\ table' = "blocked"
  <2>1. Host' = "closed"
    BY <1>3, <1>4, Words DEF Clean, Exposed
  <2> QED BY <1>1, <1>4, <2>1 DEF Abstract!Next, Abstract!Close
<1>5. CASE Served = "busy" /\ table # "absent" /\ table' \in Serve
  <2>1. Host' = table'
    BY <1>3, <1>5
  <2>2. Abstract!Open(table')
    BY <1>1, <1>2, <1>5, <2>1 DEF Abstract!Open
  <2> QED BY <1>5, <2>2 DEF Abstract!Next
<1>6. CASE "rules" \in Disturb /\ table # "absent" /\ table' = "altered"
  <2>1. Host' = "altered"
    BY <1>3, <1>6
  <2> QED BY <1>1, <1>2, <1>6, <2>1 DEF Abstract!Next, Abstract!Alter
<1> QED BY <1>4, <1>5, <1>6


LEMMA StepMaps ==
  ASSUME "flush" \notin Disturb, SafetyInv, ShutInv, ArmedInv', Typed', [Next]_vars
  PROVE  [Abstract!Next]_(Abstract!vars)
<1> USE DEF At, host, wifi, Typed, RunTyped, SafetyInv, NoOrphan, OrphanInv, PhaseInv, Starting, Serving,
            Stopping, StartPlaces, SwitchPlaces, StopPlaces, TickPlaces, Journalled, HasData,
            Forgotten, Emptied, BaselineInv, ArmedInv, Building
<1>1. CASE Load \/ Preflight
  BY <1>1, Quiet
  DEF Goto, Hold, Load, NoSession, OnlyRun, Preflight, Supported
<1>2. CASE NewState
  <2>1. journal = NoSession /\ journal' = NoSession /\ UNCHANGED <<table, present>>
    BY <1>2 DEF NewState
  <2>2. UNCHANGED <<Served, Host>>
    BY <2>1 DEF Served, Host, Clean, Exposed
  <2>3. Due = {} /\ Due' = {}
    BY <2>1 DEF Due, RadioDue, AutoDue
  <2> QED BY <2>2, <2>3 DEF Abstract!vars
<1>3. CASE SaveStarting
  <2>1. journal' = run.data /\ OnJournal
    BY <1>3 DEF SaveStarting, Save
  <2>2. run.data \in Session /\ run.data.phase = "starting" /\ journal = NoSession
    BY <1>3 DEF SaveStarting
  <2>3. Served = "none" /\ Served' = "busy"
    BY <2>1, <2>2, NotSession DEF Served
  <2>4. UNCHANGED <<table, present, radio, auto, byUser>>
    BY <2>1 DEF OnJournal
  <2>5. Host' = Host
    BY <2>4 DEF Host, Clean, Exposed
  <2>6. Settled(run.data) /\ Untouched(run.data)
    BY <1>3 DEF SaveStarting
  <2>7. Due = {}
    BY <2>2 DEF Due, RadioDue, AutoDue
  <2>8. Due' = {}
    BY <2>1, <2>4, <2>6 DEF Due, RadioDue, AutoDue, Settled, Untouched
  <2> QED BY <2>3, <2>5, <2>7, <2>8 DEF Abstract!Next, Abstract!Begin
<1>4. CASE PublishStarting \/ ArmWatch
  BY <1>4, Quiet
  DEF ArmWatch, Goto, OnStatus, Proceed, Publish, PublishStarting
<1>5. CASE GuardBlocked
  <2>1. UNCHANGED <<present, radio, auto, byUser, journal>>
    BY <1>5 DEF GuardBlocked, OnHost
  <2>2. Served = "busy"
    BY <1>5, Busy DEF GuardBlocked, Working
  <2>3. table' = table \/ table' = "blocked"
    BY <1>5 DEF GuardBlocked, Guarded
  <2>4. CASE table' = table
    BY <2>1, <2>4, Quiet
  <2>5. CASE table' = "blocked"
    BY <2>1, <2>2, <2>5, TableKind DEF Typed
  <2> QED BY <2>3, <2>4, <2>5
<1>6. CASE SaveReceipt
  <2>1. journal \in Session /\ run.data \in Session
    BY <1>6 DEF SaveReceipt, JournalTyped
  <2>2. run.data.radio = journal.radio /\ run.data.auto = journal.auto /\ run.data.phase # "active"
    BY <1>6 DEF SaveReceipt
  <2>3. journal' = run.data /\ OnJournal
    BY <1>6 DEF SaveReceipt, Save
  <2> QED BY <2>1, <2>2, <2>3, SaveKind DEF OnJournal
<1>7. CASE HoldAutoconnect
  <2> DEFINE d == [run.data EXCEPT !.autoTouched = TRUE]
  <2>1. d \in Session /\ d.radio = journal.radio /\ d.auto = journal.auto /\ d.phase # "active"
    BY <1>7 DEF HoldAutoconnect, Session
  <2> HIDE DEF d
  <2>2. CASE \E p \in Places : Save(d, p)
    <3>1. journal' = d /\ OnJournal
      BY <2>2 DEF Save
    <3>2. journal \in Session
      BY <1>7 DEF HoldAutoconnect, JournalTyped
    <3> QED BY <2>1, <3>1, <3>2, SaveKind DEF OnJournal
  <2>3. CASE OnlyRun
    BY <2>3, Quiet DEF OnlyRun
  <2> QED BY <1>7, <2>2, <2>3 DEF HoldAutoconnect, d, Places
<1>8. CASE AutoconnectNo
  BY <1>8, Busy, AutoKind DEF AutoconnectNo, OnWifi, Working
<1>9. CASE WifiIdle
  BY <1>9, Quiet
  DEF Check, OnlyRun, WifiIdle
<1>10. CASE JournalRadio
  <2> DEFINE d == [run.data EXCEPT !.radioTouched = TRUE]
  <2>1. d \in Session /\ d.radio = journal.radio /\ d.auto = journal.auto /\ d.phase # "active"
    BY <1>10 DEF JournalRadio, Session, Phases
  <2>2. Save(d, "radio_off")
    BY <1>10 DEF JournalRadio
  <2> HIDE DEF d
  <2>3. /\ journal' = d /\ OnJournal
        /\ \/ run'.at = "radio_off" /\ run'.data = d
           \/ run'.at \in {"idle", "st_load", "publish_recovery"}
    BY <2>1, <2>2, SaveShape DEF Places, OtherPlaces
  <2>4. journal \in Session
    BY <1>10 DEF JournalRadio, JournalTyped
  <2> QED BY <1>10, <2>1, <2>3, <2>4, SaveKind DEF JournalRadio, OnJournal
<1>11. CASE RadioOff
  <2>1. UNCHANGED <<table, auto, byUser, journal>>
    BY <1>11 DEF RadioOff, OnWifi, SetRadio
  <2>2. "lease" \in present' <=> "lease" \in present
    BY <1>11 DEF RadioOff, SetRadio
  <2>3. Host' = Host
    BY <2>1, <2>2, HostKept DEF Typed, ArmedInv
  <2> QED BY <1>11, <2>1, <2>3, Busy, RadioKind DEF RadioOff, Working
<1>12. CASE VerifyPlan
  BY <1>12, Quiet
  DEF Check, OnlyRun, PlanHolds, VerifyPlan
<1>13. CASE CreateInterface
  <2>1. UNCHANGED <<table, radio, auto, byUser, journal>>
    BY <1>13 DEF CreateInterface, OnHost, Outside, OnWifi
  <2>2. table = "absent" => ("lease" \in present' <=> "lease" \in present)
    BY <1>13 DEF CreateInterface, ArmedInv, Building
  <2> QED BY <2>1, <2>2, PresentKind DEF Typed, ArmedInv
<1>14. CASE AddProfile
  <2>1. UNCHANGED <<table, radio, auto, byUser, journal>>
    BY <1>14 DEF AddProfile, OnHost, Outside, OnWifi
  <2>2. table = "absent" => ("lease" \in present' <=> "lease" \in present)
    BY <1>14 DEF AddProfile, ArmedInv, Building
  <2> QED BY <2>1, <2>2, PresentKind DEF Typed, ArmedInv
<1>15. CASE Recheck
  BY <1>15, Quiet
  DEF Check, Inspected, OnlyRun, Recheck, Required
<1>16. CASE RadioOn
  <2>1. UNCHANGED <<table, auto, byUser, journal>>
    BY <1>16 DEF RadioOn, OnWifi, SetRadio
  <2>2. "lease" \in present' <=> "lease" \in present
    BY <1>16 DEF RadioOn, SetRadio
  <2>3. Host' = Host
    BY <2>1, <2>2, HostKept DEF Typed, ArmedInv
  <2> QED BY <1>16, <2>1, <2>3, Busy, RadioKind DEF RadioOn, Working
<1>17. CASE WaitReady \/ RecheckReady
  BY <1>17, Quiet
  DEF Check, Inspected, OnlyRun, PlanHolds, RecheckReady, Required, WaitReady
<1>18. CASE Activate
  <2>1. UNCHANGED <<table, radio, auto, byUser, journal>>
    BY <1>18 DEF Activate, OnHost, Outside, OnWifi
  <2>2. table = "absent" => ("lease" \in present' <=> "lease" \in present)
    BY <1>18 DEF Activate, ArmedInv, GuardFirstLast
  <2> QED BY <2>1, <2>2, PresentKind DEF Typed, ArmedInv
<1>19. CASE GuardMode
  <2>1. UNCHANGED <<present, radio, auto, byUser, journal>>
    BY <1>19 DEF GuardMode, OnHost
  <2>2. Served = "busy"
    BY <1>19, Busy DEF GuardMode, Working
  <2>3. table' = table \/ (table # "absent" /\ table' \in Serve)
    BY <1>19 DEF GuardMode, Guarded, Session
  <2>4. CASE table' = table
    BY <2>1, <2>4, Quiet
  <2>5. CASE (table # "absent" /\ table' \in Serve)
    BY <2>1, <2>2, <2>5, TableKind DEF Typed
  <2> QED BY <2>3, <2>4, <2>5
<1>20. CASE CheckHealthy
  BY <1>20, Quiet
  DEF Check, CheckHealthy, Healthy, Inspected, OnlyRun, PlanHolds, Required
<1>21. CASE SaveActive
  <2> DEFINE d == [run.data EXCEPT !.phase = "active"]
  <2>1. /\ d \in Session /\ d.phase = "active"
        /\ d.serve = run.data.serve /\ d.radio = journal.radio /\ d.auto = journal.auto
    BY <1>21 DEF SaveActive, Session, Phases, BaselineInv
  <2>2. journal' = d /\ OnJournal
    BY <1>21 DEF SaveActive, Save
  <2> HIDE DEF d
  <2>3. Served = "busy" /\ journal \in Session
    BY <1>21, Busy DEF SaveActive, Working
  <2>4. Served' = d.serve /\ d.serve \in Serve
    BY <2>1, <2>2, NotSession DEF Served, Session
  <2>5. table \in {d.serve, "altered"}
    BY <1>21, <2>1 DEF SaveActive, RulesInv, ShutInv
  <2>6. Host = table /\ Host' = table
    BY <2>2, <2>4, <2>5 DEF Host, OnJournal
  <2>7. Due' = Due
    BY <2>1, <2>2, <2>3, NotSession DEF Due, RadioDue, AutoDue, OnJournal
  <2> QED BY <2>3, <2>4, <2>5, <2>6, <2>7 DEF Abstract!Next, Abstract!Activate
<1>22. CASE PublishActive
  BY <1>22, Quiet
  DEF PublishActive, PublishAndLeave
<1>23. CASE SwitchInspect
  BY <1>23, Quiet
  DEF Inspected, OnlyRun, Supported, SwitchInspect
<1>24. CASE SwitchSave
  <2> DEFINE d == [run.data EXCEPT !.phase = "switching"]
  <2>1. d \in Session /\ d.radio = journal.radio /\ d.auto = journal.auto /\ d.phase # "active"
    BY <1>24 DEF SwitchSave, Session, Phases
  <2>2. Save(d, "sw_publish")
    BY <1>24 DEF SwitchSave
  <2> HIDE DEF d
  <2>3. /\ journal' = d /\ OnJournal
        /\ \/ run'.at = "sw_publish" /\ run'.data = d
           \/ run'.at \in {"idle", "st_load", "publish_recovery"}
    BY <2>1, <2>2, SaveShape DEF Places, OtherPlaces
  <2>4. journal \in Session
    BY <1>24 DEF SwitchSave, JournalTyped
  <2> QED BY <1>24, <2>1, <2>3, <2>4, SaveKind DEF SwitchSave, OnJournal
<1>25. CASE SwitchPublish
  BY <1>25, Quiet
  DEF Goto, OnStatus, Proceed, Publish, SwitchPublish
<1>26. CASE SwitchGuard
  <2>1. UNCHANGED <<present, radio, auto, byUser, journal>>
    BY <1>26 DEF SwitchGuard, OnHost
  <2>2. Served = "busy"
    BY <1>26, Busy DEF SwitchGuard, Working
  <2>3. table' = table \/ (table # "absent" /\ table' \in Serve)
    BY <1>26 DEF SwitchGuard, Guarded, Decided
  <2>4. CASE table' = table
    BY <2>1, <2>4, Quiet
  <2>5. CASE (table # "absent" /\ table' \in Serve)
    BY <2>1, <2>2, <2>5, TableKind DEF Typed
  <2> QED BY <2>3, <2>4, <2>5
<1>27. CASE StopLoad \/ StopInspect
  BY <1>27, Quiet
  DEF Check, Hold, Inspected, NoSession, OnlyRun, StopInspect, StopLoad
<1>28. CASE StopSave
  <2> DEFINE d == [run.data EXCEPT !.phase = "stopping"]
  <2>1. d \in Session /\ d.radio = journal.radio /\ d.auto = journal.auto /\ d.phase # "active"
    BY <1>28 DEF StopSave, Session, Phases
  <2>2. Save(d, "st_publish")
    BY <1>28 DEF StopSave
  <2> HIDE DEF d
  <2>3. /\ journal' = d /\ OnJournal
        /\ \/ run'.at = "st_publish" /\ run'.data = d
           \/ run'.at \in {"idle", "st_load", "publish_recovery"}
    BY <2>1, <2>2, SaveShape DEF Places, OtherPlaces
  <2>4. journal \in Session
    BY <1>28 DEF StopSave, JournalTyped
  <2> QED BY <1>28, <2>1, <2>3, <2>4, SaveKind DEF StopSave, OnJournal
<1>29. CASE StopPublish
  BY <1>29, Quiet
  DEF Goto, OnStatus, Proceed, Publish, StopPublish
<1>30. CASE StopTable
  <2> DEFINE d == [run.data EXCEPT !.handle = TRUE]
  <2>1. d \in Session /\ d.radio = journal.radio /\ d.auto = journal.auto /\ d.phase # "active"
    BY <1>30 DEF StopTable, Session
  <2> HIDE DEF d
  <2>2. CASE \E p \in Places : Save(d, p)
    <3>1. journal' = d /\ OnJournal
      BY <2>2 DEF Save
    <3>2. journal \in Session
      BY <1>30 DEF StopTable, JournalTyped
    <3> QED BY <2>1, <3>1, <3>2, SaveKind DEF OnJournal
  <2>3. CASE OnlyRun
    BY <2>3, Quiet DEF OnlyRun
  <2> QED BY <1>30, <2>2, <2>3 DEF StopTable, d, Places
<1>31. CASE StopGuard
  <2>1. UNCHANGED <<present, radio, auto, byUser, journal>>
    BY <1>31 DEF StopGuard, OnHost
  <2>2. Served = "busy"
    BY <1>31, Busy DEF StopGuard, Working
  <2>3. table' = table \/ table' = "blocked"
    BY <1>31 DEF StopGuard, Guarded
  <2>4. CASE table' = table
    BY <2>1, <2>4, Quiet
  <2>5. CASE table' = "blocked"
    BY <2>1, <2>2, <2>5, TableKind DEF Typed
  <2> QED BY <2>3, <2>4, <2>5
<1>32. CASE Down
  <2>1. UNCHANGED <<table, radio, auto, byUser, journal>>
    BY <1>32 DEF Down, OnHost, Outside, OnWifi
  <2>2. table = "absent" => ("lease" \in present' <=> "lease" \in present)
    BY <1>32 DEF Down, Attempt
  <2> QED BY <2>1, <2>2, PresentKind DEF Typed, ArmedInv
<1>33. CASE DeleteProfile
  <2>1. UNCHANGED <<table, radio, auto, byUser, journal>>
    BY <1>33 DEF DeleteProfile, OnHost, Outside, OnWifi
  <2>2. table = "absent" => ("lease" \in present' <=> "lease" \in present)
    BY <1>33 DEF DeleteProfile, Attempt
  <2> QED BY <2>1, <2>2, PresentKind DEF Typed, ArmedInv
<1>34. CASE DeleteInterface
  <2>1. UNCHANGED <<table, radio, auto, byUser, journal>>
    BY <1>34 DEF DeleteInterface, OnHost, Outside, OnWifi
  <2>2. table = "absent" => ("lease" \in present' <=> "lease" \in present)
    BY <1>34 DEF DeleteInterface, Attempt
  <2> QED BY <2>1, <2>2, PresentKind DEF Typed, ArmedInv
<1>35. CASE ConfirmAbsent
  BY <1>35, Quiet
  DEF Check, ConfirmAbsent, Inspected, OnlyRun
<1>36. CASE DeleteTable
  <2>1. UNCHANGED <<present, radio, auto, byUser, journal>>
    BY <1>36 DEF DeleteTable, OnHost
  <2>2. Served = "busy" /\ Served' = "busy" /\ Due' = Due
    BY <1>36, <2>1, Busy DEF DeleteTable, Working, Served, Due, RadioDue, AutoDue
  <2>3. table' = table \/ (table' = "absent" /\ present \subseteq {"lease"} /\ table \notin Serve)
    BY <1>36 DEF DeleteTable, Attempt, ShutInv
  <2>4. CASE table' = table
    BY <2>1, <2>4, Quiet
  <2>5. CASE table' = "absent" /\ present \subseteq {"lease"} /\ table \notin Serve
    <3>1. Host' = IF present = {} THEN "clean" ELSE "closed"
      BY <2>1, <2>5, Words DEF Host, Clean, Exposed, Carriers
    <3>2. Host \notin Serve
      BY <2>5, Words DEF Host
    <3> QED BY <2>2, <3>1, <3>2 DEF Abstract!Next, Abstract!Close, Abstract!Clean
  <2> QED BY <2>3, <2>4, <2>5
<1>37. CASE ConfirmTable
  BY <1>37, Quiet
  DEF Check, ConfirmTable, OnlyRun
<1>38. CASE RemoveLease
  <2>1. UNCHANGED <<table, radio, auto, byUser, journal>> /\ table = "absent" /\ present \subseteq {"lease"}
    BY <1>38 DEF RemoveLease, OnHost
  <2>2. present' = {}
    BY <1>38, <2>1 DEF RemoveLease
  <2>3. Served = "busy" /\ Served' = "busy" /\ Due' = Due
    BY <1>38, <2>1, Busy DEF RemoveLease, Working, Served, Due, RadioDue, AutoDue
  <2>4. Host \notin Serve /\ Host' = "clean"
    BY <2>1, <2>2, Words DEF Host, Clean, Exposed
  <2> QED BY <2>3, <2>4 DEF Abstract!Next, Abstract!Clean
<1>39. CASE RestoreRadio
  BY <1>39, Quiet
  DEF Check, Goto, OnlyRun, RestoreRadio
<1>40. CASE SwitchRadioBack
  <2>1. UNCHANGED <<table, auto, byUser, journal>>
    BY <1>40 DEF SwitchRadioBack, OnWifi, SetRadio
  <2>2. "lease" \in present' <=> "lease" \in present
    BY <1>40 DEF SwitchRadioBack, SetRadio
  <2>3. Host' = Host
    BY <2>1, <2>2, HostKept DEF Typed, ArmedInv
  <2> QED BY <1>40, <2>1, <2>3, Busy, RadioKind DEF SwitchRadioBack, Working
<1>41. CASE ConfirmRadio
  BY <1>41, Quiet
  DEF Check, ConfirmRadio, OnlyRun
<1>42. CASE RestoreAutoconnect
  <2>1. Served = "busy"
    BY <1>42, Busy DEF RestoreAutoconnect, Working
  <2>2. CASE OnlyRun
    BY <2>2, Quiet DEF OnlyRun
  <2>3. CASE UNCHANGED <<present, radio, link, uplink>> /\ OnWifi
    BY <2>1, <2>3, AutoKind DEF OnWifi
  <2> QED BY <1>42, <2>2, <2>3 DEF RestoreAutoconnect
<1>43. CASE ConfirmAutoconnect
  BY <1>43, Quiet
  DEF Check, ConfirmAutoconnect, OnlyRun
<1>44. CASE Clear
  <2>1. journal # NoSession /\ journal' = NoSession /\ table = "absent" /\ present = {}
    BY <1>44 DEF Clear
  <2>2. UNCHANGED <<table, present, radio, auto, byUser>>
    BY <1>44 DEF Clear, OnJournal
  <2>3. Host = "clean" /\ Host' = "clean"
    BY <2>1, <2>2, HostOfTable DEF Host, Clean, Exposed
  <2>4. Due = {} /\ Due' = {}
    BY <1>44, <2>1 DEF Clear, Due, RadioDue, AutoDue, BaselineInv, RadioDone
  <2>5. Served = "busy" /\ Served' = "none"
    BY <1>44, <2>1, Busy DEF Clear, Working, Served
  <2> QED BY <2>3, <2>4, <2>5 DEF Abstract!Next, Abstract!End
<1>45. CASE StopReturn \/ PublishRecovery
  BY <1>45, Quiet
  DEF Attempt, Goto, OnStatus, Proceed, Publish, PublishAndLeave,
      PublishRecovery, StopReturn
<1>46. CASE TickLoad \/ TickHealthy \/ TickPublish \/ TickPublishError \/
           Configure \/ Tick \/ (\E want \in Requests : Request(want)) \/
           WatchExit
  BY <1>46, Quiet
  DEF Attempt, Call, Check, Configure, Healthy, Hold, Inspected, NoSession,
      OnlyRun, PlanHolds, PublishAndLeave, Request, Required, Tick,
      TickHealthy, TickLoad, TickPublish, TickPublishError, WatchExit
<1>47. CASE WatchRestart
  BY <1>47, Quiet
  DEF WatchRestart
<1>48. CASE Fail \/ Kill \/ KillWatch \/ CalmDown
  BY <1>48, Quiet
  DEF CalmDown, Fail, Kill, KillWatch, OnlyRun
<1>49. CASE UserRadio
  <2>1. UNCHANGED <<table, auto, journal>> /\ byUser' = byUser \cup {"radio"}
    BY <1>49 DEF UserRadio, SetRadio, Outside
  <2>2. "lease" \in present' <=> "lease" \in present
    BY <1>49 DEF UserRadio, SetRadio
  <2>3. Host' = Host
    BY <2>1, <2>2, HostKept DEF Typed, ArmedInv
  <2> QED BY <2>1, <2>3, OverruleRadioKind
<1>50. CASE UserAutoconnect
  BY <1>50, OverruleAutoKind DEF UserAutoconnect, Outside
<1>51. CASE LinkUp \/ LinkDown \/ UplinkChange
  BY <1>51, Quiet
  DEF Disturbs, LinkDown, LinkUp, Outside, UplinkChange
<1>52. CASE ApDrop
  <2>1. UNCHANGED <<table, radio, auto, byUser, journal>>
    BY <1>52 DEF ApDrop, OnHost, Outside, OnWifi
  <2>2. table = "absent" => ("lease" \in present' <=> "lease" \in present)
    BY <1>52 DEF ApDrop, Outside
  <2> QED BY <2>1, <2>2, PresentKind DEF Typed, ArmedInv
<1>53. CASE ApActivate
  <2>1. UNCHANGED <<table, radio, auto, byUser, journal>>
    BY <1>53 DEF ApActivate, OnHost, Outside, OnWifi
  <2>2. table = "absent" => ("lease" \in present' <=> "lease" \in present)
    BY <1>53 DEF ApActivate, ArmedInv, GuardFirstLast
  <2> QED BY <2>1, <2>2, PresentKind DEF Typed, ArmedInv
<1>54. CASE AlterRules
  <2>1. UNCHANGED <<present, radio, auto, byUser, journal>>
    BY <1>54 DEF AlterRules, Outside
  <2> QED BY <1>54, <2>1, TableKind DEF AlterRules, Disturbs, Typed
<1>55. CASE FlushTable
  BY <1>55 DEF FlushTable, Disturbs
<1>56. CASE EditProfile
  <2>1. UNCHANGED <<table, radio, auto, byUser, journal>>
    BY <1>56 DEF EditProfile, OnHost, Outside, OnWifi
  <2>2. table = "absent" => ("lease" \in present' <=> "lease" \in present)
    BY <1>56 DEF EditProfile, Outside
  <2> QED BY <2>1, <2>2, PresentKind DEF Typed, ArmedInv
<1>57. CASE SharingCleanup
  <2>1. UNCHANGED <<table, radio, auto, byUser, journal>>
    BY <1>57 DEF SharingCleanup, OnHost, Outside, OnWifi
  <2>2. table = "absent" => ("lease" \in present' <=> "lease" \in present)
    BY <1>57 DEF SharingCleanup, Outside
  <2> QED BY <2>1, <2>2, PresentKind DEF Typed, ArmedInv
<1>58. CASE UNCHANGED vars
  BY <1>58, Quiet DEF vars
<1> QED
  BY <1>1, <1>2, <1>3, <1>4, <1>5, <1>6, <1>7, <1>8, <1>9, <1>10, <1>11,
     <1>12, <1>13, <1>14, <1>15, <1>16, <1>17, <1>18, <1>19, <1>20, <1>21,
     <1>22, <1>23, <1>24, <1>25, <1>26, <1>27, <1>28, <1>29, <1>30, <1>31,
     <1>32, <1>33, <1>34, <1>35, <1>36, <1>37, <1>38, <1>39, <1>40, <1>41,
     <1>42, <1>43, <1>44, <1>45, <1>46, <1>47, <1>48, <1>49, <1>50, <1>51,
     <1>52, <1>53, <1>54, <1>55, <1>56, <1>57, <1>58
  DEF Next, Progress, Start, Switch, Stop, TickSteps, Failure, Environment

LEMMA InitMaps == Init => Abstract!Init
<1> SUFFICES ASSUME Init PROVE Abstract!Init
  OBVIOUS
<1>1. Served = "none" /\ Due = {}
  BY DEF Init, Served, Due, RadioDue, AutoDue
<1>2. Host = "clean"
  BY HostOfTable DEF Init
<1> QED BY <1>1, <1>2, Words

\* Whatever fails, is killed or is done by the user and by others short of taking the
\* table away: a session keeps the promises of SessionAbstract, for every set of
\* uplinks (controller.py:53-177).
THEOREM SessionImplements ==
  ASSUME "flush" \notin Disturb
  PROVE  Spec => Implements
<1>1. SafetyInv /\ ShutInv /\ [Next]_vars => [Abstract!Next]_(Abstract!vars)
  <2> SUFFICES ASSUME SafetyInv, ShutInv, [Next]_vars PROVE [Abstract!Next]_(Abstract!vars)
    OBVIOUS
  <2>1. Typed' /\ ArmedInv'
    BY TypedStep, ArmedStep DEF SafetyInv
  <2> QED BY <2>1, StepMaps
<1> QED BY <1>1, InitMaps, SessionIsSafe, ShutInvariant, PTL DEF Spec, Implements, Abstract!Spec

-----------------------------------------------------------------------------
(* The table of GuardPolicy. *)

Moves ==
  \/ table' = table
  \/ table = "absent" /\ table' = "blocked"
  \/ table # "absent" /\ table' \in {"absent", "blocked"} \cup Serve

LEMMA TableMoves ==
  ASSUME "rules" \notin Disturb, Typed, [Next]_vars
  PROVE  Moves
<1> USE DEF At, host, wifi, Typed, RunTyped, Moves, Session, Decided
<1>1. CASE Load \/ Preflight \/ NewState \/ SaveStarting
  BY <1>1
  DEF Goto, Hold, Load, NewState, NoSession, OnJournal, OnlyRun, Preflight,
      Save, SaveStarting, Supported
<1>2. CASE PublishStarting \/ ArmWatch \/ GuardBlocked \/ SaveReceipt
  BY <1>2
  DEF ArmWatch, Goto, GuardBlocked, Hold, OnHost, OnJournal, OnStatus,
      Proceed, Publish, PublishStarting, Save, SaveReceipt
<1>3. CASE HoldAutoconnect \/ AutoconnectNo \/ WifiIdle \/ JournalRadio
  BY <1>3
  DEF AutoconnectNo, Check, Goto, Hold, HoldAutoconnect, JournalRadio,
      OnJournal, OnWifi, OnlyRun, Proceed, Save, WifiIdle
<1>4. CASE RadioOff \/ VerifyPlan \/ CreateInterface \/ AddProfile
  BY <1>4
  DEF AddProfile, Check, CreateInterface, Goto, OnHost, OnWifi, OnlyRun,
      PlanHolds, Proceed, RadioOff, SetRadio, VerifyPlan
<1>5. CASE Recheck \/ RadioOn \/ WaitReady \/ RecheckReady
  BY <1>5
  DEF Check, Goto, Inspected, OnWifi, OnlyRun, PlanHolds, Proceed, RadioOn,
      Recheck, RecheckReady, Required, SetRadio, WaitReady
<1>6. CASE Activate
  BY <1>6
  DEF Activate, Goto, OnHost, Proceed
<1>7. CASE GuardMode
  <2>1. run.data \in Session
    BY <1>7 DEF GuardMode, HasData, Journalled, StartPlaces
  <2> QED BY <1>7, <2>1 DEF GuardMode, Guarded
<1>8. CASE CheckHealthy \/ SaveActive
  BY <1>8
  DEF Check, CheckHealthy, Healthy, Hold, Inspected, OnJournal, OnlyRun,
      PlanHolds, Required, Save, SaveActive
<1>9. CASE PublishActive
  BY <1>9
  DEF PublishActive, PublishAndLeave
<1>10. CASE SwitchInspect \/ SwitchSave \/ SwitchPublish \/ SwitchGuard
  BY <1>10
  DEF Goto, Guarded, Hold, Inspected, OnHost, OnJournal, OnStatus, OnlyRun,
      Proceed, Publish, Save, Supported, SwitchGuard, SwitchInspect,
      SwitchPublish, SwitchSave
<1>11. CASE StopLoad \/ StopInspect \/ StopSave \/ StopPublish
  BY <1>11
  DEF Check, Goto, Hold, Inspected, NoSession, OnJournal, OnStatus, OnlyRun,
      Proceed, Publish, Save, StopInspect, StopLoad, StopPublish, StopSave
<1>12. CASE StopTable \/ StopGuard \/ Down \/ DeleteProfile
  BY <1>12
  DEF Attempt, DeleteProfile, Down, Goto, Guarded, Hold, Inspected, OnHost,
      OnJournal, OnlyRun, Proceed, Save, StopGuard, StopTable
<1>13. CASE DeleteInterface \/ ConfirmAbsent \/ DeleteTable \/ ConfirmTable
  BY <1>13
  DEF Attempt, Check, ConfirmAbsent, ConfirmTable, DeleteInterface,
      DeleteTable, Goto, Inspected, OnHost, OnlyRun, Proceed
<1>14. CASE RemoveLease \/ RestoreRadio \/ SwitchRadioBack \/ ConfirmRadio
  BY <1>14
  DEF Check, ConfirmRadio, Goto, OnHost, OnWifi, OnlyRun, Proceed,
      RemoveLease, RestoreRadio, SetRadio, SwitchRadioBack
<1>15. CASE RestoreAutoconnect \/ ConfirmAutoconnect \/ Clear \/ StopReturn
  BY <1>15
  DEF Attempt, Check, Clear, ConfirmAutoconnect, Goto, OnJournal, OnStatus,
      OnWifi, OnlyRun, Proceed, Publish, PublishAndLeave, RestoreAutoconnect,
      StopReturn
<1>16. CASE PublishRecovery
  BY <1>16
  DEF PublishAndLeave, PublishRecovery
<1>17. CASE TickLoad \/ TickHealthy \/ TickPublish \/ TickPublishError
  BY <1>17
  DEF Attempt, Call, Check, Healthy, Hold, Inspected, NoSession, OnlyRun,
      PlanHolds, PublishAndLeave, Required, TickHealthy, TickLoad,
      TickPublish, TickPublishError
<1>18. CASE Configure \/ Tick \/ (\E want \in Requests : Request(want)) \/
           WatchExit
  BY <1>18
  DEF Configure, OnlyRun, PublishAndLeave, Request, Tick, WatchExit
<1>19. CASE WatchRestart
  BY <1>19
  DEF WatchRestart
<1>20. CASE Fail \/ Kill \/ KillWatch \/ CalmDown
  BY <1>20
  DEF CalmDown, Fail, Kill, KillWatch, OnlyRun
<1>21. CASE UserRadio \/ UserAutoconnect \/ LinkUp \/ LinkDown
  BY <1>21
  DEF Disturbs, LinkDown, LinkUp, Outside, SetRadio, UserAutoconnect,
      UserRadio
<1>22. CASE UplinkChange \/ ApDrop \/ ApActivate \/ AlterRules
  BY <1>22
  DEF AlterRules, ApActivate, ApDrop, Disturbs, Outside, UplinkChange
<1>23. CASE FlushTable \/ EditProfile \/ SharingCleanup
  BY <1>23
  DEF Disturbs, EditProfile, FlushTable, Outside, SharingCleanup
<1>24. CASE UNCHANGED vars
  BY <1>24 DEF vars
<1> QED
  BY <1>1, <1>2, <1>3, <1>4, <1>5, <1>6, <1>7, <1>8, <1>9, <1>10, <1>11,
     <1>12, <1>13, <1>14, <1>15, <1>16, <1>17, <1>18, <1>19, <1>20, <1>21,
     <1>22, <1>23, <1>24
  DEF Next, Progress, Start, Switch, Stop, TickSteps, Failure, Environment

\* Whatever sequence of operations, failures and kills: the session drives the table
\* only as GuardPolicy does, when nobody else alters its rules (backend.py:94-103).
THEOREM GuardIsUsed ==
  ASSUME "rules" \notin Disturb
  PROVE  Spec => GuardUse
<1>1. Init => Guard!Init
  BY DEF Init, Guard!Init
<1>2. Typed /\ [Next]_vars => [Guard!Next]_(Guard!vars)
  <2> SUFFICES ASSUME Typed, [Next]_vars PROVE [Guard!Next]_(Guard!vars)
    OBVIOUS
  <2>1. CASE table' = table
    BY <2>1 DEF Guard!vars
  <2>2. CASE table = "absent" /\ table' = "blocked"
    BY <2>2 DEF Guard!Next, Guard!Create
  <2>3. CASE table # "absent" /\ table' = "absent"
    BY <2>3 DEF Guard!Next, Guard!Delete
  <2>4. CASE table # "absent" /\ table' \in {"blocked"} \cup Serve
    <3>1. table' \in Guard!Modes
      BY <2>4 DEF Serve, Guard!Modes
    <3> QED BY <2>4, <3>1 DEF Guard!Next, Guard!Load
  <2> QED BY <2>1, <2>2, <2>3, <2>4, TableMoves DEF Moves
<1> QED BY <1>1, <1>2, TypedInvariant, PTL DEF Spec, GuardUse, Guard!Spec
-----------------------------------------------------------------------------
(* The radio plan of the station next to the access point. *)

Radio == INSTANCE RadioPlan

\* What has to run at the same time, by kind and number, and how it may be spread over
\* the groups of a combination: each in a group that names its kind, none too full.
Running(p2p) == {x \in Radio!Kinds \X Nat : x[2] \in 1..Radio!Needed(p2p)[x[1]]}
Placed(block, p2p) ==
  /\ Cardinality(Running(p2p)) <= block.total
  /\ \E place \in [Running(p2p) -> DOMAIN block.groups] :
       /\ \A x \in Running(p2p) : x[1] \in block.groups[place[x]].kinds
       /\ \A i \in DOMAIN block.groups :
            Cardinality({x \in Running(p2p) : place[x] = i}) <= block.groups[i].limit
Apart(block) ==
  \A i, j \in DOMAIN block.groups : i # j => block.groups[i].kinds \cap block.groups[j].kinds = {}

\* Together counts what runs of the kinds it is given.
LEMMA TogetherCounts ==
  ASSUME NEW p2p \in Nat, NEW kinds
  PROVE  LET some == {x \in Running(p2p) : x[1] \in kinds}
         IN  IsFiniteSet(some) /\ Cardinality(some) = Radio!Together(p2p, kinds)
<1> DEFINE Of(kind)  == {x \in Running(p2p) : x[1] = kind}
           In(kind)  == IF kind \in kinds THEN Of(kind) ELSE {}
           M         == In("managed")
           A         == In("AP")
           P         == In("P2P-device")
           some      == {x \in Running(p2p) : x[1] \in kinds}
<1>1. some = (M \cup A) \cup P
  BY DEF Running, Radio!Kinds
<1>2. M \cap A = {} /\ (M \cup A) \cap P = {}
  OBVIOUS
<1>3. /\ Of("managed") = {<<"managed", 1>>} /\ Of("AP") = {<<"AP", 1>>}
      /\ Of("P2P-device") = {"P2P-device"} \X (1..p2p)
  <2>1. 1..1 = {1} /\ 1..p2p \subseteq Nat
    OBVIOUS
  <2>2. /\ Radio!Needed(p2p)["managed"] = 1 /\ Radio!Needed(p2p)["AP"] = 1
        /\ Radio!Needed(p2p)["P2P-device"] = p2p
    BY DEF Radio!Needed, Radio!Kinds
  <2>3. \A kind \in Radio!Kinds : Of(kind) = {kind} \X (1..Radio!Needed(p2p)[kind])
    <3>1. \A kind \in Radio!Kinds : 1..Radio!Needed(p2p)[kind] \subseteq Nat
      BY DEF Radio!Needed
    <3> QED BY <3>1 DEF Running
  <2> QED BY <2>1, <2>2, <2>3 DEF Radio!Kinds
<1> HIDE DEF Of
<1>4. /\ IsFiniteSet(Of("managed")) /\ Cardinality(Of("managed")) = 1
      /\ IsFiniteSet(Of("AP")) /\ Cardinality(Of("AP")) = 1
  BY <1>3, FS_Singleton
<1>5. IsFiniteSet(Of("P2P-device")) /\ Cardinality(Of("P2P-device")) = p2p
  <2>1. IsFiniteSet(1..p2p) /\ Cardinality(1..p2p) = p2p
    <3>1. Cardinality(1..p2p) = IF 1 > p2p THEN 0 ELSE p2p - 1 + 1
      BY FS_Interval
    <3> QED BY <3>1, FS_Interval
  <2>2. IsFiniteSet({"P2P-device"}) /\ Cardinality({"P2P-device"}) = 1
    BY FS_Singleton
  <2>3. /\ IsFiniteSet({"P2P-device"} \X (1..p2p))
        /\ Cardinality({"P2P-device"} \X (1..p2p)) = 1 * p2p
    BY <2>1, <2>2, FS_Product
  <2>4. 1 * p2p = p2p
    OBVIOUS
  <2> QED BY <2>3, <2>4, <1>3
<1>6. /\ IsFiniteSet(M) /\ Cardinality(M) = IF "managed" \in kinds THEN 1 ELSE 0
      /\ IsFiniteSet(A) /\ Cardinality(A) = IF "AP" \in kinds THEN 1 ELSE 0
      /\ IsFiniteSet(P) /\ Cardinality(P) = IF "P2P-device" \in kinds THEN p2p ELSE 0
  BY <1>4, <1>5, FS_EmptySet
<1> HIDE DEF M, A, P, some
<1>7. /\ IsFiniteSet(M \cup A)
      /\ Cardinality(M \cup A) = (IF "managed" \in kinds THEN 1 ELSE 0) + (IF "AP" \in kinds THEN 1 ELSE 0)
  <2>1. IsFiniteSet(M \cup A) /\ Cardinality(M \cup A) = Cardinality(M) + Cardinality(A) - Cardinality(M \cap A)
    BY <1>6, FS_Union
  <2> QED BY <2>1, <1>2, <1>6, FS_EmptySet
<1>8. IsFiniteSet(some) /\ Cardinality(some) = Cardinality(M \cup A) + Cardinality(P)
  <2>1. IsFiniteSet((M \cup A) \cup P)
        /\ Cardinality((M \cup A) \cup P) = Cardinality(M \cup A) + Cardinality(P) - Cardinality((M \cup A) \cap P)
    BY <1>6, <1>7, FS_Union
  <2> QED BY <2>1, <1>1, <1>2, <1>6, <1>7, FS_EmptySet
<1>9. IsFiniteSet(some) /\ Cardinality(some) = Radio!Together(p2p, kinds)
  BY <1>6, <1>7, <1>8 DEF Radio!Together
<1> QED BY <1>9 DEF some

\* A combination the plan accepts (wifi.py:29-46) has a place for every interface, for
\* every number of groups and of P2P devices; and where no kind stands in two groups,
\* one that has a place for every interface is accepted.
THEOREM HeldIsPlaced ==
  ASSUME NEW p2p \in Nat, NEW block, block.total \in Nat, block.channels \in BOOLEAN,
         \A i \in DOMAIN block.groups : block.groups[i].limit \in Nat
  PROVE  /\ Radio!Holds(block, p2p) => Placed(block, p2p)
         /\ block.channels /\ Apart(block) /\ Placed(block, p2p) => Radio!Holds(block, p2p)
<1> DEFINE groups == block.groups
           needed == Running(p2p)
           With(kinds) == {x \in needed : x[1] \in kinds}
<1>1. /\ IsFiniteSet(needed) /\ Cardinality(needed) = Radio!Together(p2p, Radio!Kinds)
      /\ \A kinds : IsFiniteSet(With(kinds)) /\ Cardinality(With(kinds)) = Radio!Together(p2p, kinds)
  <2>1. \A kinds : IsFiniteSet(With(kinds)) /\ Cardinality(With(kinds)) = Radio!Together(p2p, kinds)
    BY TogetherCounts
  <2>2. With(Radio!Kinds) = needed
    BY DEF Running
  <2> QED BY <2>1, <2>2
<1>2. \A x \in needed : x[1] \in Radio!NeededKinds(p2p)
  BY DEF Running, Radio!NeededKinds, Radio!Needed
<1>3. \A kind \in Radio!NeededKinds(p2p) : <<kind, 1>> \in needed
  BY DEF Running, Radio!NeededKinds, Radio!Needed
<1> HIDE DEF needed
<1>4. \A kinds : Radio!Together(p2p, kinds) \in Nat
  BY DEF Radio!Together
<1>5. ASSUME Radio!Holds(block, p2p) PROVE Placed(block, p2p)
  <2>1. \A kind \in Radio!NeededKinds(p2p) : \E i \in DOMAIN groups : kind \in groups[i].kinds
    BY <1>5 DEF Radio!Holds
  <2> DEFINE place == [x \in needed |-> CHOOSE i \in DOMAIN groups : x[1] \in groups[i].kinds]
  <2>2. \A x \in needed : place[x] \in DOMAIN groups /\ x[1] \in groups[place[x]].kinds
    BY <2>1, <1>2
  <2>3. place \in [needed -> DOMAIN groups]
    BY <2>2
  <2> HIDE DEF place
  <2>4. ASSUME NEW i \in DOMAIN groups
        PROVE  Cardinality({x \in needed : place[x] = i}) <= groups[i].limit
    <3> DEFINE here == {x \in needed : place[x] = i}
    <3>1. here \in SUBSET With(groups[i].kinds)
      BY <2>2
    <3>2. Cardinality(here) <= Cardinality(With(groups[i].kinds)) /\ IsFiniteSet(here)
      BY <3>1, <1>1, FS_Subset
    <3>3. Cardinality(here) \in Nat
      BY <3>2, FS_CardinalityType
    <3>4. Radio!Together(p2p, groups[i].kinds) <= groups[i].limit
      BY <1>5 DEF Radio!Holds
    <3> QED BY <3>2, <3>3, <3>4, <1>1, <1>4
  <2>5. Cardinality(needed) <= block.total
    BY <1>1, <1>4, <1>5 DEF Radio!Holds
  <2> QED BY <2>2, <2>3, <2>4, <2>5 DEF Placed, needed
<1>6. ASSUME block.channels, Apart(block), Placed(block, p2p) PROVE Radio!Holds(block, p2p)
  <2>1. PICK place \in [needed -> DOMAIN groups] :
          /\ \A x \in needed : x[1] \in groups[place[x]].kinds
          /\ \A i \in DOMAIN groups : Cardinality({x \in needed : place[x] = i}) <= groups[i].limit
    BY <1>6 DEF Placed, needed
  <2>2. Radio!NeededKinds(p2p) \subseteq UNION {groups[i].kinds : i \in DOMAIN groups}
    <3> SUFFICES ASSUME NEW kind \in Radio!NeededKinds(p2p)
                 PROVE  \E i \in DOMAIN groups : kind \in groups[i].kinds
      OBVIOUS
    <3>1. <<kind, 1>> \in needed /\ <<kind, 1>>[1] = kind
      BY <1>3
    <3> QED BY <3>1, <2>1
  <2>3. ASSUME NEW i \in DOMAIN groups
        PROVE  Radio!Together(p2p, groups[i].kinds) <= groups[i].limit
    <3> DEFINE here == {x \in needed : place[x] = i}
    <3>1. With(groups[i].kinds) \in SUBSET here
      <4> SUFFICES ASSUME NEW x \in needed, x[1] \in groups[i].kinds PROVE place[x] = i
        OBVIOUS
      <4>1. place[x] \in DOMAIN groups /\ x[1] \in groups[place[x]].kinds
        BY <2>1
      <4> QED BY <4>1, <1>6 DEF Apart
    <3>2. here \in SUBSET needed
      OBVIOUS
    <3>3. IsFiniteSet(here)
      BY <3>2, <1>1, FS_Subset
    <3>4. Cardinality(With(groups[i].kinds)) <= Cardinality(here) /\ Cardinality(here) \in Nat
      BY <3>1, <3>3, FS_Subset, FS_CardinalityType
    <3>5. Cardinality(here) <= groups[i].limit
      BY <2>1
    <3> QED BY <3>4, <3>5, <1>1, <1>4
  <2>4. block.total >= Radio!Together(p2p, Radio!Kinds)
    BY <1>1, <1>4, <1>6 DEF Placed, needed
  <2> QED BY <2>2, <2>3, <2>4, <1>6 DEF Radio!Holds
<1> QED BY <1>5, <1>6
=============================================================================
