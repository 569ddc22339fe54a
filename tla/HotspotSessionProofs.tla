----------------------- MODULE HotspotSessionProofs -------------------------
(***************************************************************************)
(* The safety of HotspotSession for every set of uplinks and of            *)
(* disturbances: types first, then the parts of SafetyInv one by one, each *)
(* preserved given the ones before it.  A preservation lemma has one step  *)
(* for each action, or for neighbouring actions that are alike.            *)
(***************************************************************************)
EXTENDS HotspotSessionInv, TLAPS

\* An exception leaves the lock free or enters one of the two handlers.
LEMMA RaisedShape ==
  ASSUME run \in Run
  PROVE  /\ Raised \in Run
         /\ Raised.at \in {"idle", "st_load", "publish_recovery"}
<1>1. Raised \in {Call("failed"), Call("unhealthy"), [run EXCEPT !.at = "publish_recovery"], Idle}
  <2>1. CASE run.at \in StartPlaces \cup SwitchPlaces
    BY <2>1 DEF Raised
  <2>2. CASE run.at \notin StartPlaces \cup SwitchPlaces /\ run.at \in TickPlaces
    BY <2>2 DEF Raised, StartPlaces, SwitchPlaces, TickPlaces, StopPlaces
  <2>3. CASE run.at \notin StartPlaces \cup SwitchPlaces \cup TickPlaces
    BY <2>3 DEF Raised
  <2> QED BY <2>1, <2>2, <2>3
<1>2. {"idle", "st_load", "publish_recovery"} \subseteq Places
  BY DEF Places, StopPlaces, OtherPlaces
<1>3. Idle \in Run /\ Idle.at = "idle"
  BY <1>2 DEF Idle, Run
<1>4. \A why \in {"failed", "unhealthy"} : Call(why) \in Run /\ Call(why).at = "st_load"
  BY <1>2 DEF Call, Run
<1>5. [run EXCEPT !.at = "publish_recovery"] \in Run /\ [run EXCEPT !.at = "publish_recovery"].at = "publish_recovery"
  BY <1>2 DEF Run
<1> QED BY <1>1, <1>3, <1>4, <1>5
\* What Hold and Save leave behind, whatever data and place they are given.
LEMMA HoldShape ==
  ASSUME run \in Run, NEW d \in Session \cup {NoSession}, NEW p \in Places, Hold(d, p)
  PROVE  run' \in Run /\ run'.at = p /\ run'.data = d /\ run'.want = run.want
  BY DEF Hold, Run

LEMMA SaveShape ==
  ASSUME run \in Run, NEW d \in Session, NEW p \in Places, Save(d, p)
  PROVE  /\ run' \in Run /\ journal' = d /\ OnJournal
         /\ \/ run'.at = p /\ run'.data = d /\ run'.want = run.want
            \/ run'.at \in {"idle", "st_load", "publish_recovery"}
  BY HoldShape, RaisedShape DEF Save


\* One lemma for each group of variables.
LEMMA HostStep == Typed /\ [Next]_vars => HostTyped'
<1> SUFFICES ASSUME Typed, [Next]_vars PROVE HostTyped'
  OBVIOUS
<1> USE DEF At, host, wifi, HostTyped, Typed
<1>1. CASE Load \/ Preflight \/ NewState \/ SaveStarting \/ PublishStarting \/
           ArmWatch \/ GuardBlocked \/ SaveReceipt
  BY <1>1
  DEF ArmWatch, Artifacts, Goto, GuardBlocked, Hold, Load, NewState, OnHost,
      OnJournal, OnStatus, OnlyRun, Preflight, Proceed, Publish,
      PublishStarting, Rules, Save, SaveReceipt, SaveStarting, Serve,
      Supported
<1>2. CASE HoldAutoconnect \/ AutoconnectNo \/ WifiIdle \/ JournalRadio \/
           RadioOff \/ VerifyPlan \/ CreateInterface \/ AddProfile
  BY ZenonT(60), <1>2
  DEF AddProfile, Artifacts, AutoconnectNo, Check, CreateInterface, Goto,
      Hold, HoldAutoconnect, JournalRadio, OnHost, OnJournal, OnWifi, OnlyRun,
      PlanHolds, Proceed, RadioOff, Rules, Save, Serve, SetRadio, VerifyPlan,
      WifiIdle
<1>3. CASE Recheck \/ RadioOn \/ WaitReady \/ RecheckReady
  BY <1>3
  DEF Artifacts, Check, Goto, Inspected, OnWifi, OnlyRun, PlanHolds, Proceed,
      RadioOn, Recheck, RecheckReady, Required, Rules, Serve, SetRadio,
      WaitReady
<1>4. CASE Activate \/ GuardMode \/ CheckHealthy \/ SaveActive
  BY <1>4
  DEF Activate, Artifacts, Check, CheckHealthy, Decided, Goto, GuardMode,
      Guarded, HasData, Healthy, Hold, Inspected, Journalled, OnHost,
      OnJournal, OnlyRun, PlanHolds, Proceed, Required, Rules, RunTyped, Save,
      SaveActive, Serve, Session, StartPlaces, SwitchPlaces
<1>5. CASE PublishActive
  BY <1>5
  DEF PublishActive, PublishAndLeave
<1>6. CASE SwitchInspect \/ SwitchSave \/ SwitchPublish \/ SwitchGuard
  BY <1>6
  DEF Artifacts, Decided, Goto, Guarded, HasData, Hold, Inspected, Journalled,
      OnHost, OnJournal, OnStatus, OnlyRun, Proceed, Publish, Rules, RunTyped,
      Save, Serve, Session, StartPlaces, Supported, SwitchGuard,
      SwitchInspect, SwitchPlaces, SwitchPublish, SwitchSave
<1>7. CASE StopLoad \/ StopInspect \/ StopSave \/ StopPublish \/ StopTable \/
           StopGuard \/ Down \/ DeleteProfile
  BY <1>7
  DEF Artifacts, Attempt, Check, DeleteProfile, Down, Goto, Guarded, Hold,
      Inspected, OnHost, OnJournal, OnStatus, OnlyRun, Proceed, Publish,
      Rules, Save, Serve, StopGuard, StopInspect, StopLoad, StopPublish,
      StopSave, StopTable
<1>8. CASE DeleteInterface \/ ConfirmAbsent \/ DeleteTable \/ ConfirmTable
  BY <1>8
  DEF Artifacts, Attempt, Check, ConfirmAbsent, ConfirmTable, DeleteInterface,
      DeleteTable, Goto, Inspected, OnHost, OnlyRun, Proceed, Rules, Serve
<1>9. CASE RemoveLease \/ RestoreRadio \/ SwitchRadioBack
  BY <1>9
  DEF Artifacts, Check, Goto, HasData, Journalled, OnHost, OnWifi, OnlyRun,
      Proceed, RemoveLease, RestoreRadio, Rules, RunTyped, Serve, Session,
      SetRadio, StopPlaces, SwitchRadioBack
<1>10. CASE ConfirmRadio \/ RestoreAutoconnect
  BY <1>10
  DEF Attempt, Check, ConfirmRadio, Goto, OnWifi, OnlyRun, Proceed,
      RestoreAutoconnect
<1>11. CASE ConfirmAutoconnect \/ Clear \/ StopReturn \/ PublishRecovery
  BY <1>11
  DEF Attempt, Check, Clear, ConfirmAutoconnect, Goto, OnJournal, OnStatus,
      OnlyRun, Proceed, Publish, PublishAndLeave, PublishRecovery, StopReturn
<1>12. CASE TickLoad \/ TickHealthy \/ TickPublish \/ TickPublishError \/
           Configure \/ Tick \/ (\E want \in Requests : Request(want)) \/
           WatchExit
  BY ZenonT(60), <1>12
  DEF Attempt, Call, Check, Configure, Healthy, Hold, Inspected, OnlyRun,
      PlanHolds, PublishAndLeave, Request, Required, Tick, TickHealthy,
      TickLoad, TickPublish, TickPublishError, WatchExit
<1>13. CASE WatchRestart
  BY <1>13
  DEF WatchRestart
<1>14. CASE Fail \/ Kill \/ KillWatch \/ CalmDown
  BY <1>14
  DEF CalmDown, Fail, Kill, KillWatch, OnlyRun
<1>15. CASE UserRadio \/ UserAutoconnect \/ LinkUp \/ LinkDown \/
           UplinkChange \/ ApDrop \/ ApActivate \/ AlterRules
  BY <1>15
  DEF AlterRules, ApActivate, ApDrop, Artifacts, Disturbs, LinkDown, LinkUp,
      Outside, Rules, Serve, SetRadio, UplinkChange, UserAutoconnect,
      UserRadio
<1>16. CASE FlushTable \/ EditProfile \/ SharingCleanup
  BY <1>16
  DEF Artifacts, Disturbs, EditProfile, FlushTable, Outside, Rules, Serve,
      SharingCleanup
<1>17. CASE UNCHANGED vars
  BY <1>17 DEF vars
<1> QED
  BY <1>1, <1>2, <1>3, <1>4, <1>5, <1>6, <1>7, <1>8, <1>9, <1>10, <1>11,
     <1>12, <1>13, <1>14, <1>15, <1>16, <1>17
  DEF Next, Progress, Start, Switch, Stop, TickSteps, Failure, Environment

LEMMA JournalStep == Typed /\ [Next]_vars => JournalTyped'
<1> SUFFICES ASSUME Typed, [Next]_vars PROVE JournalTyped'
  OBVIOUS
<1> USE DEF At, host, wifi, JournalTyped, Typed
<1>1. CASE Load \/ Preflight \/ NewState \/ SaveStarting \/ PublishStarting \/
           ArmWatch \/ GuardBlocked \/ SaveReceipt \/ HoldAutoconnect \/
           AutoconnectNo \/ WifiIdle \/ JournalRadio
  BY ZenonT(60), <1>1
  DEF ArmWatch, AutoconnectNo, Check, Goto, GuardBlocked, HasData, Hold,
      HoldAutoconnect, JournalRadio, Journalled, Load, NewState, OnHost,
      OnJournal, OnStatus, OnWifi, OnlyRun, Phases, Preflight, Proceed,
      Publish, PublishStarting, RunTyped, Save, SaveReceipt, SaveStarting,
      Session, StartPlaces, StopPlaces, Supported, SwitchPlaces, TickPlaces,
      WifiIdle
<1>2. CASE RadioOff \/ VerifyPlan \/ CreateInterface \/ AddProfile \/
           Recheck \/ RadioOn \/ WaitReady \/ RecheckReady \/ Activate \/
           GuardMode \/ CheckHealthy \/ SaveActive
  BY <1>2
  DEF Activate, AddProfile, Check, CheckHealthy, CreateInterface, Goto,
      GuardMode, Guarded, HasData, Healthy, Hold, Inspected, Journalled,
      OnHost, OnJournal, OnWifi, OnlyRun, Phases, PlanHolds, Proceed,
      RadioOff, RadioOn, Recheck, RecheckReady, Required, RunTyped, Save,
      SaveActive, Session, SetRadio, StartPlaces, StopPlaces, SwitchPlaces,
      TickPlaces, VerifyPlan, WaitReady
<1>3. CASE PublishActive
  BY <1>3
  DEF PublishActive, PublishAndLeave
<1>4. CASE SwitchInspect \/ SwitchSave \/ SwitchPublish \/ SwitchGuard
  BY <1>4
  DEF Goto, Guarded, HasData, Hold, Inspected, Journalled, OnHost, OnJournal,
      OnStatus, OnlyRun, Phases, Proceed, Publish, RunTyped, Save, Session,
      StartPlaces, StopPlaces, Supported, SwitchGuard, SwitchInspect,
      SwitchPlaces, SwitchPublish, SwitchSave, TickPlaces
<1>5. CASE StopLoad \/ StopInspect \/ StopSave \/ StopPublish \/ StopTable \/
           StopGuard \/ Down \/ DeleteProfile \/ DeleteInterface \/
           ConfirmAbsent \/ DeleteTable \/ ConfirmTable
  BY ZenonT(60), <1>5
  DEF Attempt, Check, ConfirmAbsent, ConfirmTable, DeleteInterface,
      DeleteProfile, DeleteTable, Down, Goto, Guarded, HasData, Hold,
      Inspected, Journalled, OnHost, OnJournal, OnStatus, OnlyRun, Phases,
      Proceed, Publish, RunTyped, Save, Session, StartPlaces, StopGuard,
      StopInspect, StopLoad, StopPlaces, StopPublish, StopSave, StopTable,
      SwitchPlaces, TickPlaces
<1>6. CASE RemoveLease \/ RestoreRadio \/ SwitchRadioBack \/ ConfirmRadio \/
           RestoreAutoconnect \/ ConfirmAutoconnect \/ Clear \/ StopReturn \/
           PublishRecovery
  BY <1>6
  DEF Attempt, Check, Clear, ConfirmAutoconnect, ConfirmRadio, Goto, OnHost,
      OnJournal, OnStatus, OnWifi, OnlyRun, Proceed, Publish, PublishAndLeave,
      PublishRecovery, RemoveLease, RestoreAutoconnect, RestoreRadio,
      SetRadio, StopReturn, SwitchRadioBack
<1>7. CASE TickLoad \/ TickHealthy \/ TickPublish \/ TickPublishError \/
           Configure \/ Tick \/ (\E want \in Requests : Request(want)) \/
           WatchExit \/ WatchRestart
  BY <1>7
  DEF Attempt, Call, Check, Configure, Healthy, Hold, Inspected, OnlyRun,
      PlanHolds, PublishAndLeave, Request, Required, Tick, TickHealthy,
      TickLoad, TickPublish, TickPublishError, WatchExit, WatchRestart
<1>8. CASE Fail \/ Kill \/ KillWatch \/ CalmDown
  BY <1>8
  DEF CalmDown, Fail, Kill, KillWatch, OnlyRun
<1>9. CASE UserRadio \/ UserAutoconnect \/ LinkUp \/ LinkDown \/
           UplinkChange \/ ApDrop \/ ApActivate \/ AlterRules \/ FlushTable \/
           EditProfile \/ SharingCleanup
  BY <1>9
  DEF AlterRules, ApActivate, ApDrop, Disturbs, EditProfile, FlushTable,
      LinkDown, LinkUp, Outside, SetRadio, SharingCleanup, UplinkChange,
      UserAutoconnect, UserRadio
<1>10. CASE UNCHANGED vars
  BY <1>10 DEF vars
<1> QED
  BY <1>1, <1>2, <1>3, <1>4, <1>5, <1>6, <1>7, <1>8, <1>9, <1>10
  DEF Next, Progress, Start, Switch, Stop, TickSteps, Failure, Environment

LEMMA StatusStep == Typed /\ [Next]_vars => StatusTyped'
<1> SUFFICES ASSUME Typed, [Next]_vars PROVE StatusTyped'
  OBVIOUS
<1> USE DEF At, host, wifi, StatusTyped, Typed
<1>1. CASE Load \/ Preflight \/ NewState \/ SaveStarting \/ PublishStarting \/
           ArmWatch \/ GuardBlocked \/ SaveReceipt \/ HoldAutoconnect \/
           AutoconnectNo \/ WifiIdle \/ JournalRadio
  BY <1>1
  DEF ArmWatch, AutoconnectNo, Check, Goto, GuardBlocked, HasData, Hold,
      HoldAutoconnect, JournalRadio, JournalTyped, Journalled, Load, ModeOf,
      Modes, NewState, NoSession, OnHost, OnJournal, OnStatus, OnWifi,
      OnlyRun, Phases, Preflight, Proceed, Publish, PublishStarting, RunTyped,
      Save, SaveReceipt, SaveStarting, Session, StartPlaces, StatusOf,
      StopPlaces, Supported, SwitchPlaces, TickPlaces, WifiIdle
<1>2. CASE RadioOff \/ VerifyPlan \/ CreateInterface \/ AddProfile \/
           Recheck \/ RadioOn \/ WaitReady \/ RecheckReady \/ Activate \/
           GuardMode \/ CheckHealthy \/ SaveActive
  BY <1>2
  DEF Activate, AddProfile, Check, CheckHealthy, CreateInterface, Goto,
      GuardMode, Guarded, Healthy, Hold, Inspected, OnHost, OnJournal, OnWifi,
      OnlyRun, PlanHolds, Proceed, RadioOff, RadioOn, Recheck, RecheckReady,
      Required, Save, SaveActive, SetRadio, VerifyPlan, WaitReady
<1>3. CASE PublishActive
  BY <1>3
  DEF HasData, JournalTyped, Journalled, ModeOf, Modes, NoSession, Phases,
      PublishActive, PublishAndLeave, RunTyped, Session, StartPlaces,
      StatusOf, StopPlaces, SwitchPlaces, TickPlaces
<1>4. CASE SwitchInspect \/ SwitchSave \/ SwitchPublish \/ SwitchGuard
  BY <1>4
  DEF Goto, Guarded, HasData, Hold, Inspected, JournalTyped, Journalled,
      ModeOf, Modes, NoSession, OnHost, OnJournal, OnStatus, OnlyRun, Phases,
      Proceed, Publish, RunTyped, Save, Session, StartPlaces, StatusOf,
      StopPlaces, Supported, SwitchGuard, SwitchInspect, SwitchPlaces,
      SwitchPublish, SwitchSave, TickPlaces
<1>5. CASE StopLoad \/ StopInspect \/ StopSave \/ StopPublish \/ StopTable \/
           StopGuard \/ Down \/ DeleteProfile \/ DeleteInterface \/
           ConfirmAbsent \/ DeleteTable \/ ConfirmTable
  BY <1>5
  DEF Attempt, Check, ConfirmAbsent, ConfirmTable, DeleteInterface,
      DeleteProfile, DeleteTable, Down, Goto, Guarded, HasData, Hold,
      Inspected, JournalTyped, Journalled, ModeOf, Modes, NoSession, OnHost,
      OnJournal, OnStatus, OnlyRun, Phases, Proceed, Publish, RunTyped, Save,
      Session, StartPlaces, StatusOf, StopGuard, StopInspect, StopLoad,
      StopPlaces, StopPublish, StopSave, StopTable, SwitchPlaces, TickPlaces
<1>6. CASE RemoveLease \/ RestoreRadio \/ SwitchRadioBack \/ ConfirmRadio \/
           RestoreAutoconnect
  BY <1>6
  DEF Attempt, Check, ConfirmRadio, Goto, OnHost, OnWifi, OnlyRun, Proceed,
      RemoveLease, RestoreAutoconnect, RestoreRadio, SetRadio, SwitchRadioBack
<1>7. CASE ConfirmAutoconnect \/ Clear \/ StopReturn \/ PublishRecovery
  BY <1>7
  DEF Attempt, Check, Clear, ConfirmAutoconnect, Goto, HasData, JournalTyped,
      Journalled, ModeOf, Modes, NoSession, OnJournal, OnStatus, OnlyRun,
      Phases, Proceed, Publish, PublishAndLeave, PublishRecovery, RunTyped,
      Session, StartPlaces, StatusOf, StopPlaces, StopReturn, SwitchPlaces,
      TickPlaces
<1>8. CASE TickLoad \/ TickHealthy \/ TickPublish \/ TickPublishError \/
           Configure
  BY <1>8
  DEF Attempt, Call, Check, Configure, HasData, Healthy, Hold, Inspected,
      JournalTyped, Journalled, ModeOf, Modes, NoSession, OnlyRun, Phases,
      PlanHolds, PublishAndLeave, Required, RunTyped, Session, StartPlaces,
      StatusOf, StopPlaces, SwitchPlaces, TickHealthy, TickLoad, TickPlaces,
      TickPublish, TickPublishError
<1>9. CASE Tick \/ (\E want \in Requests : Request(want)) \/ WatchExit \/
           WatchRestart
  BY <1>9
  DEF OnlyRun, Request, Tick, WatchExit, WatchRestart
<1>10. CASE Fail \/ Kill \/ KillWatch \/ CalmDown
  BY <1>10
  DEF CalmDown, Fail, Kill, KillWatch, OnlyRun
<1>11. CASE UserRadio \/ UserAutoconnect \/ LinkUp \/ LinkDown \/
           UplinkChange \/ ApDrop \/ ApActivate \/ AlterRules \/ FlushTable \/
           EditProfile \/ SharingCleanup
  BY <1>11
  DEF AlterRules, ApActivate, ApDrop, Disturbs, EditProfile, FlushTable,
      LinkDown, LinkUp, Outside, SetRadio, SharingCleanup, UplinkChange,
      UserAutoconnect, UserRadio
<1>12. CASE UNCHANGED vars
  BY <1>12 DEF vars
<1> QED
  BY <1>1, <1>2, <1>3, <1>4, <1>5, <1>6, <1>7, <1>8, <1>9, <1>10, <1>11, <1>12
  DEF Next, Progress, Start, Switch, Stop, TickSteps, Failure, Environment

LEMMA RunStep == Typed /\ [Next]_vars => RunTyped'
<1> SUFFICES ASSUME Typed, [Next]_vars PROVE RunTyped'
  OBVIOUS
<1> USE DEF At, host, wifi, RunTyped, Typed, Places, StartPlaces, SwitchPlaces, StopPlaces,
            TickPlaces, OtherPlaces, Journalled, HasData, Undecided, Decided
<1>1. CASE Load
  <2>1. journal = NoSession \/ journal \in Session
    BY DEF JournalTyped
  <2>2. journal.phase = "active" => journal # NoSession
    BY DEF NoSession
  <2> QED
    BY <1>1, <2>1, <2>2, HoldShape, RaisedShape DEF Goto, Load, OnlyRun, Run, Idle
<1>2. CASE Preflight
  <2> DEFINE serve == IF run.want = "local" THEN "local" ELSE uplink
  <2>1. run' = Idle \/ (run' = [run EXCEPT !.at = "new_state", !.want = serve] /\ serve \in Serve)
    BY <1>2 DEF Preflight, Supported, Serve, HostTyped
  <2>2. Idle \in Run /\ Idle.at = "idle"
    BY DEF Idle, Run
  <2>3. CASE run' = [run EXCEPT !.at = "new_state", !.want = serve] /\ serve \in Serve
    <3>1. run' \in Run /\ run'.at = "new_state" /\ run'.want \in Serve /\ run'.data = run.data
      BY <2>3 DEF Run
    <3> QED BY <1>2, <3>1 DEF Preflight
  <2> QED BY <2>1, <2>2, <2>3
<1>3. CASE NewState
  <2>1. [phase |-> "starting", serve |-> run.want,
         sta |-> run.want \in WifiUplinks, radio |-> radio, auto |-> auto,
         radioTouched |-> FALSE, autoTouched |-> FALSE,
         handle |-> FALSE, digest |-> "none"] \in Session
    BY <1>3 DEF NewState, Session, Phases, Rules, Serve, HostTyped
  <2> QED
    BY <1>3, <2>1, HoldShape, RaisedShape DEF NewState
<1>4. CASE SaveStarting
  <2>1. run.data \in Session
    BY <1>4 DEF SaveStarting, Session, Phases
  <2> QED
    BY <1>4, <2>1, SaveShape, RaisedShape DEF SaveStarting
<1>5. CASE PublishStarting \/ ArmWatch
  BY <1>5, RaisedShape
  DEF ArmWatch, Goto, Idle, OnStatus, Proceed, Publish, PublishStarting, Run
<1>6. CASE GuardBlocked
  <2>1. [run.data EXCEPT !.handle = TRUE, !.digest = "blocked"] \in Session
    BY <1>6 DEF GuardBlocked, Session, Phases, Rules, Serve, HostTyped
  <2> QED
    BY <1>6, <2>1, HoldShape, RaisedShape DEF GuardBlocked, OnHost
<1>7. CASE SaveReceipt
  <2>1. run.data \in Session
    BY <1>7 DEF SaveReceipt, Session, Phases
  <2> QED
    BY <1>7, <2>1, SaveShape, RaisedShape DEF SaveReceipt
<1>8. CASE HoldAutoconnect
  <2>1. [run.data EXCEPT !.autoTouched = TRUE] \in Session
    BY <1>8 DEF HoldAutoconnect, Session, Phases
  <2> QED
    BY <1>8, <2>1, SaveShape, RaisedShape DEF Goto, HoldAutoconnect, OnlyRun, Run
<1>9. CASE AutoconnectNo \/ WifiIdle
  BY <1>9, RaisedShape
  DEF AutoconnectNo, Check, Goto, Idle, OnWifi, OnlyRun, Proceed, Run,
      WifiIdle
<1>10. CASE JournalRadio
  <2>1. [run.data EXCEPT !.radioTouched = TRUE] \in Session
    BY <1>10 DEF JournalRadio, Session, Phases
  <2> QED
    BY <1>10, <2>1, SaveShape, RaisedShape DEF JournalRadio
<1>11. CASE RadioOff \/ VerifyPlan \/ CreateInterface \/ AddProfile
  BY <1>11, RaisedShape
  DEF AddProfile, Check, CreateInterface, Goto, Idle, OnHost, OnWifi, OnlyRun,
      PlanHolds, Proceed, RadioOff, Run, SetRadio, VerifyPlan
<1>12. CASE Recheck \/ RadioOn \/ WaitReady \/ RecheckReady
  BY <1>12, RaisedShape
  DEF Check, Goto, Idle, Inspected, OnWifi, OnlyRun, PlanHolds, Proceed,
      RadioOn, Recheck, RecheckReady, Required, Run, SetRadio, WaitReady
<1>13. CASE Activate
  BY <1>13, RaisedShape
  DEF Activate, Goto, Idle, OnHost, Proceed, Run
<1>14. CASE GuardMode
  <2>1. [run.data EXCEPT !.digest = run.data.serve] \in Session
    BY <1>14 DEF GuardMode, Session, Phases, Rules, Serve, HostTyped
  <2> QED
    BY <1>14, <2>1, HoldShape, RaisedShape DEF GuardMode, Guarded, OnHost
<1>15. CASE CheckHealthy
  BY <1>15, RaisedShape
  DEF Check, CheckHealthy, Healthy, Idle, Inspected, OnlyRun, PlanHolds,
      Required, Run
<1>16. CASE SaveActive
  <2>1. [run.data EXCEPT !.phase = "active"] \in Session
    BY <1>16 DEF SaveActive, Session, Phases
  <2> QED
    BY <1>16, <2>1, SaveShape, RaisedShape DEF SaveActive
<1>17. CASE PublishActive
  BY <1>17, RaisedShape
  DEF Idle, PublishActive, PublishAndLeave, Run
<1>18. CASE SwitchInspect
  <2> DEFINE serve == IF run.want = "local" THEN "local" ELSE uplink
  <2>1. run' = Idle \/ (run' = [run EXCEPT !.at = "sw_save", !.want = serve] /\ serve \in Serve)
    BY <1>18 DEF SwitchInspect, Supported, Serve, HostTyped
  <2>2. Idle \in Run /\ Idle.at = "idle"
    BY DEF Idle, Run
  <2>3. CASE run' = [run EXCEPT !.at = "sw_save", !.want = serve] /\ serve \in Serve
    <3>1. run' \in Run /\ run'.at = "sw_save" /\ run'.want \in Serve /\ run'.data = run.data
      BY <2>3 DEF Run
    <3> QED BY <1>18, <3>1 DEF SwitchInspect
  <2> QED BY <2>1, <2>2, <2>3
<1>19. CASE SwitchSave
  <2>1. [run.data EXCEPT !.phase = "switching"] \in Session
    BY <1>19 DEF SwitchSave, Session, Phases
  <2> QED
    BY <1>19, <2>1, SaveShape, RaisedShape DEF SwitchSave
<1>20. CASE SwitchPublish
  BY <1>20, RaisedShape
  DEF Goto, Idle, OnStatus, Proceed, Publish, Run, SwitchPublish
<1>21. CASE SwitchGuard
  <2>1. [run.data EXCEPT !.digest = run.want, !.serve = run.want] \in Session
    BY <1>21 DEF SwitchGuard, Session, Phases, Rules, Serve, HostTyped
  <2> QED
    BY <1>21, <2>1, HoldShape, RaisedShape DEF Guarded, OnHost, SwitchGuard
<1>22. CASE StopLoad
  <2>1. journal = NoSession \/ journal \in Session
    BY DEF JournalTyped
  <2>2. journal.phase = "active" => journal # NoSession
    BY DEF NoSession
  <2> QED
    BY <1>22, <2>1, <2>2, HoldShape, RaisedShape DEF OnlyRun, StopLoad, Run, Idle
<1>23. CASE StopInspect
  BY <1>23, RaisedShape
  DEF Check, Idle, Inspected, OnlyRun, Run, StopInspect
<1>24. CASE StopSave
  <2>1. [run.data EXCEPT !.phase = "stopping"] \in Session
    BY <1>24 DEF StopSave, Session, Phases
  <2> QED
    BY <1>24, <2>1, SaveShape, RaisedShape DEF StopSave
<1>25. CASE StopPublish
  BY <1>25, RaisedShape
  DEF Goto, Idle, OnStatus, Proceed, Publish, Run, StopPublish
<1>26. CASE StopTable
  <2>1. [run.data EXCEPT !.handle = TRUE] \in Session
    BY <1>26 DEF StopTable, Session, Phases
  <2> QED
    BY <1>26, <2>1, SaveShape, RaisedShape DEF Goto, OnlyRun, StopTable, Run
<1>27. CASE StopGuard \/ Down \/ DeleteProfile
  BY <1>27, RaisedShape
  DEF Attempt, DeleteProfile, Down, Goto, Guarded, Idle, Inspected, OnHost,
      Proceed, Run, StopGuard
<1>28. CASE DeleteInterface \/ ConfirmAbsent \/ DeleteTable \/ ConfirmTable
  BY <1>28, RaisedShape
  DEF Attempt, Check, ConfirmAbsent, ConfirmTable, DeleteInterface,
      DeleteTable, Goto, Idle, Inspected, OnHost, OnlyRun, Proceed, Run
<1>29. CASE RemoveLease
  BY <1>29, RaisedShape
  DEF Goto, Idle, OnHost, Proceed, RemoveLease, Run
<1>30. CASE RestoreRadio \/ SwitchRadioBack
  BY <1>30, RaisedShape
  DEF Check, Goto, OnlyRun, Proceed, RestoreRadio, Run, SwitchRadioBack
<1>31. CASE ConfirmRadio
  BY <1>31, RaisedShape
  DEF Check, ConfirmRadio, Idle, OnlyRun, Run
<1>32. CASE RestoreAutoconnect
  BY <1>32, RaisedShape DEF RestoreAutoconnect, Goto, Proceed, Run
<1>33. CASE ConfirmAutoconnect \/ Clear \/ StopReturn \/ PublishRecovery
  BY <1>33, RaisedShape
  DEF Attempt, Check, Clear, ConfirmAutoconnect, Goto, Idle, OnJournal,
      OnStatus, OnlyRun, Proceed, Publish, PublishAndLeave, PublishRecovery,
      Run, StopReturn
<1>34. CASE TickLoad
  <2>1. journal = NoSession \/ journal \in Session
    BY DEF JournalTyped
  <2>2. CASE run' = Idle
    <3>1. run' \in Run /\ run'.at = "idle"
      BY <2>2 DEF Idle, Run
    <3> QED BY <3>1
  <2>3. CASE journal.phase = "active" /\ Hold(journal, "tick_healthy")
    <3>1. journal \in Session
      BY <2>1, <2>3 DEF NoSession
    <3> QED BY <2>3, <3>1, HoldShape
  <2>4. CASE run' = Call("tick")
    <3>1. run' \in Run /\ run'.at = "st_load"
      BY ZenonT(60), <2>4 DEF Call, Run
    <3> QED BY <3>1
  <2> QED BY <1>34, <2>2, <2>3, <2>4 DEF TickLoad
<1>35. CASE TickHealthy \/ TickPublish \/ TickPublishError
  BY <1>35, RaisedShape
  DEF Attempt, Check, Healthy, Idle, Inspected, OnlyRun, PlanHolds,
      PublishAndLeave, Required, Run, TickHealthy, TickPublish,
      TickPublishError
<1>36. CASE Configure
  BY <1>36, RaisedShape
  DEF Configure, Idle, OnlyRun, PublishAndLeave, Run
<1>37. CASE Tick
  <2>1. run' \in Run /\ run'.at = "tick_load"
    BY ZenonT(60), <1>37 DEF Tick, Idle, Run
  <2> QED BY <2>1
<1>38. CASE \E want \in Requests : Request(want)
  <2> PICK want \in Requests : Request(want)
    BY <1>38
  <2>1. CASE want = "off"
    <3>1. run' \in Run /\ run'.at = "st_load"
      BY <2>1 DEF Request, Idle, Run
    <3> QED BY <3>1
  <2>2. CASE want = "configure"
    <3>1. run' \in Run /\ run'.at = "cf_load"
      BY <2>2 DEF Request, Idle, Run
    <3> QED BY <3>1
  <2>3. CASE want \in {"local", "internet"}
    <3>1. run' \in Run /\ run'.at = "load" /\ run'.want \in {"local", "internet"}
      BY ZenonT(60), <2>3 DEF Request, Idle, Run, Requests
    <3> QED BY <3>1
  <2> QED BY <2>1, <2>2, <2>3 DEF Requests
<1>39. CASE WatchExit
  BY <1>39, RaisedShape
  DEF Idle, Run, WatchExit
<1>40. CASE WatchRestart
  BY <1>40, RaisedShape
  DEF Idle, Run, WatchRestart
<1>41. CASE Fail \/ Kill \/ KillWatch \/ CalmDown
  BY <1>41, RaisedShape
  DEF CalmDown, Fail, Idle, Kill, KillWatch, OnlyRun, Run
<1>42. CASE UserRadio \/ UserAutoconnect \/ LinkUp \/ LinkDown
  BY <1>42, RaisedShape
  DEF Disturbs, Idle, LinkDown, LinkUp, Outside, Run, SetRadio,
      UserAutoconnect, UserRadio
<1>43. CASE UplinkChange \/ ApDrop \/ ApActivate \/ AlterRules
  BY <1>43, RaisedShape
  DEF AlterRules, ApActivate, ApDrop, Disturbs, Idle, Outside, Run,
      UplinkChange
<1>44. CASE FlushTable \/ EditProfile \/ SharingCleanup
  BY <1>44, RaisedShape
  DEF Disturbs, EditProfile, FlushTable, Idle, Outside, Run, SharingCleanup
<1>45. CASE UNCHANGED vars
  BY <1>45 DEF vars
<1> QED
  BY <1>1, <1>2, <1>3, <1>4, <1>5, <1>6, <1>7, <1>8, <1>9, <1>10, <1>11,
     <1>12, <1>13, <1>14, <1>15, <1>16, <1>17, <1>18, <1>19, <1>20, <1>21,
     <1>22, <1>23, <1>24, <1>25, <1>26, <1>27, <1>28, <1>29, <1>30, <1>31,
     <1>32, <1>33, <1>34, <1>35, <1>36, <1>37, <1>38, <1>39, <1>40, <1>41,
     <1>42, <1>43, <1>44, <1>45
  DEF Next, Progress, Start, Switch, Stop, TickSteps, Failure, Environment

\* The next state has the right types.
LEMMA TypedStep == Typed /\ [Next]_vars => Typed'
  BY HostStep, JournalStep, StatusStep, RunStep DEF Typed

LEMMA TypedInit == Init => Typed
<1> SUFFICES ASSUME Init PROVE Typed
  OBVIOUS
<1>1. HostTyped
  BY UplinkAssumption DEF Init, HostTyped, Rules
<1>2. JournalTyped /\ StatusTyped
  BY DEF Init, JournalTyped, StatusTyped, StatusOf, Modes
<1>3. RunTyped
  <2>1. run \in Run /\ run.at = "idle"
    BY DEF Init, Idle, Run, Places, OtherPlaces
  <2> QED
    BY <2>1 DEF RunTyped, HasData, Journalled, StartPlaces, SwitchPlaces, StopPlaces,
                TickPlaces, Undecided, Decided
<1> QED BY <1>1, <1>2, <1>3 DEF Typed

LEMMA TypedInvariant == Spec => []Typed
  BY TypedInit, TypedStep, PTL DEF Spec

\* Every variable keeps its type: among others, what a run carries in memory is
\* a session wherever controller.py dereferences it.
THEOREM TypeCorrect == Spec => []TypeOK
<1>1. Typed => TypeOK
  BY DEF Typed, HostTyped, JournalTyped, StatusTyped, RunTyped, TypeOK
<1> QED BY <1>1, TypedInvariant, PTL

LEMMA NotSession == \A s \in Session : s # NoSession
  BY DEF Session, NoSession, Phases

\* What a mode lets through is none of the closed states of the guard.
LEMMA ServeOpen == \A s \in Serve : s \notin {"absent", "blocked", "altered", "none"}
  BY UplinkAssumption DEF Serve, Reserved

LEMMA OrphanStep == Typed /\ OrphanInv /\ [Next]_vars => OrphanInv'
<1> SUFFICES ASSUME Typed, OrphanInv, [Next]_vars PROVE OrphanInv'
  OBVIOUS
<1> USE DEF At, host, wifi, RunTyped, Typed, NoOrphan, OrphanInv, StartPlaces, SwitchPlaces,
            StopPlaces, TickPlaces, Journalled, HasData, Forgotten, Emptied
<1>1. CASE Load
  <2>1. journal.phase = "active" => journal # NoSession
    BY DEF NoSession
  <2>2. CASE journal.phase = "active" /\ Hold(journal, "sw_inspect")
    <3>1. run'.at = "sw_inspect"
      BY <2>2, HoldShape DEF JournalTyped, Places, OtherPlaces
    <3> QED BY <1>1, <2>1, <2>2, <3>1 DEF Load, OnlyRun
  <2>3. CASE ~(journal.phase = "active" /\ Hold(journal, "sw_inspect"))
    <3>1. run'.at = "idle" \/ run'.at = "st_load" \/ (journal = NoSession /\ run'.at = "preflight")
      BY <1>1, <2>3 DEF Load, Goto, Call, Idle, Run
    <3> QED BY <1>1, <2>3, <3>1 DEF Load, OnlyRun
  <2> QED BY <2>2, <2>3
<1>2. CASE Preflight
  BY <1>2, RaisedShape, NotSession
  DEF Idle, OnlyRun, Preflight, Run, Supported
<1>3. CASE NewState
  BY <1>3, RaisedShape, NotSession
  DEF Hold, Idle, NewState, Run
<1>4. CASE SaveStarting
  BY ZenonT(60), <1>4, RaisedShape, NotSession
  DEF Hold, Idle, OnJournal, Phases, Run, Save, SaveStarting, Session
<1>5. CASE PublishStarting \/ ArmWatch
  BY <1>5, RaisedShape, NotSession
  DEF ArmWatch, Goto, Idle, OnStatus, Proceed, Publish, PublishStarting, Run
<1>6. CASE GuardBlocked
  BY <1>6, RaisedShape, NotSession
  DEF GuardBlocked, Hold, Idle, OnHost, Run
<1>7. CASE SaveReceipt
  BY ZenonT(60), <1>7, RaisedShape, NotSession
  DEF Hold, Idle, OnJournal, Phases, Run, Save, SaveReceipt, Session
<1>8. CASE HoldAutoconnect
  <2>1. [run.data EXCEPT !.autoTouched = TRUE] \in Session
    BY <1>8 DEF HoldAutoconnect, Session
  <2> QED
    BY <1>8, <2>1, SaveShape, RaisedShape, NotSession
    DEF Goto, HoldAutoconnect, OnJournal, OnlyRun, Places, OtherPlaces, Run
<1>9. CASE AutoconnectNo
  BY <1>9, RaisedShape, NotSession
  DEF AutoconnectNo, Goto, Idle, OnWifi, Proceed, Run
<1>10. CASE WifiIdle
  BY <1>10, RaisedShape, NotSession
  DEF Check, Idle, OnlyRun, Run, WifiIdle
<1>11. CASE JournalRadio
  <2>1. [run.data EXCEPT !.radioTouched = TRUE] \in Session
    BY <1>11 DEF JournalRadio, Session
  <2> QED
    BY <1>11, <2>1, SaveShape, RaisedShape, NotSession
    DEF JournalRadio, OnJournal, Places, OtherPlaces, Run
<1>12. CASE RadioOff \/ VerifyPlan
  BY <1>12, RaisedShape, NotSession
  DEF Check, Goto, Idle, OnWifi, OnlyRun, PlanHolds, Proceed, RadioOff, Run,
      SetRadio, VerifyPlan
<1>13. CASE CreateInterface \/ AddProfile
  BY <1>13, RaisedShape, NotSession
  DEF AddProfile, CreateInterface, Goto, Idle, OnHost, Proceed, Run
<1>14. CASE Recheck \/ RadioOn
  BY <1>14, RaisedShape, NotSession
  DEF Check, Goto, Idle, Inspected, OnWifi, OnlyRun, Proceed, RadioOn,
      Recheck, Required, Run, SetRadio
<1>15. CASE WaitReady \/ RecheckReady
  BY <1>15, RaisedShape, NotSession
  DEF Check, Idle, Inspected, OnlyRun, PlanHolds, RecheckReady, Required, Run,
      WaitReady
<1>16. CASE Activate \/ GuardMode
  BY ZenonT(60), <1>16, RaisedShape, NotSession
  DEF Activate, Goto, GuardMode, Guarded, Hold, Idle, OnHost, Proceed, Run
<1>17. CASE CheckHealthy
  BY <1>17, RaisedShape, NotSession
  DEF Check, CheckHealthy, Healthy, Idle, Inspected, OnlyRun, PlanHolds,
      Required, Run
<1>18. CASE SaveActive
  BY ZenonT(60), <1>18, RaisedShape, NotSession
  DEF Hold, Idle, OnJournal, Phases, Run, Save, SaveActive, Session
<1>19. CASE PublishActive
  BY <1>19, RaisedShape, NotSession
  DEF Idle, PublishActive, PublishAndLeave, Run
<1>20. CASE SwitchInspect
  BY <1>20, RaisedShape, NotSession
  DEF Idle, Inspected, OnlyRun, Run, Supported, SwitchInspect
<1>21. CASE SwitchSave
  BY ZenonT(60), <1>21, RaisedShape, NotSession
  DEF Hold, Idle, OnJournal, Phases, Run, Save, Session, SwitchSave
<1>22. CASE SwitchPublish \/ SwitchGuard
  BY ZenonT(60), <1>22, RaisedShape, NotSession
  DEF Goto, Guarded, Hold, Idle, OnHost, OnStatus, Proceed, Publish, Run,
      SwitchGuard, SwitchPublish
<1>23. CASE StopLoad
  BY <1>23, RaisedShape, NotSession
  DEF Hold, Idle, NoSession, OnlyRun, Run, StopLoad
<1>24. CASE StopInspect
  BY <1>24, RaisedShape, NotSession
  DEF Check, Idle, Inspected, OnlyRun, Run, StopInspect
<1>25. CASE StopSave
  BY ZenonT(60), <1>25, RaisedShape, NotSession
  DEF Hold, Idle, OnJournal, Phases, Run, Save, Session, StopSave
<1>26. CASE StopPublish
  BY <1>26, RaisedShape, NotSession
  DEF Goto, Idle, OnStatus, Proceed, Publish, Run, StopPublish
<1>27. CASE StopTable
  <2>1. [run.data EXCEPT !.handle = TRUE] \in Session
    BY <1>27 DEF StopTable, Session
  <2> QED
    BY <1>27, <2>1, SaveShape, RaisedShape, NotSession
    DEF Goto, OnJournal, OnlyRun, StopTable, Places, OtherPlaces, Run
<1>28. CASE StopGuard
  BY <1>28, RaisedShape, NotSession
  DEF Goto, Guarded, Idle, OnHost, Proceed, Run, StopGuard
<1>29. CASE Down \/ DeleteProfile
  BY <1>29, RaisedShape, NotSession
  DEF Attempt, DeleteProfile, Down, Goto, Idle, Inspected, OnHost, Proceed,
      Run
<1>30. CASE DeleteInterface
  BY <1>30, RaisedShape, NotSession
  DEF Attempt, DeleteInterface, Goto, Idle, Inspected, OnHost, Proceed, Run
<1>31. CASE ConfirmAbsent
  <2>1. CASE run'.at = "rb_table"
    <3>1. present \subseteq {"lease"}
      BY <1>31, <2>1, RaisedShape DEF ConfirmAbsent, Check, Artifacts, HostTyped, Run
    <3> QED BY <1>31, <2>1, <3>1 DEF ConfirmAbsent, OnlyRun
  <2>2. CASE run'.at # "rb_table"
    BY <1>31, <2>2, RaisedShape DEF ConfirmAbsent, Check, OnlyRun, Run
  <2> QED BY <2>1, <2>2
<1>32. CASE DeleteTable \/ ConfirmTable
  BY <1>32, RaisedShape, NotSession
  DEF Attempt, Check, ConfirmTable, DeleteTable, Goto, Idle, OnHost, OnlyRun,
      Proceed, Run
<1>33. CASE RemoveLease \/ RestoreRadio \/ SwitchRadioBack
  BY <1>33, RaisedShape, NotSession
  DEF Check, Goto, Idle, OnHost, OnWifi, OnlyRun, Proceed, RemoveLease,
      RestoreRadio, Run, SetRadio, SwitchRadioBack
<1>34. CASE ConfirmRadio \/ RestoreAutoconnect
  BY <1>34, RaisedShape, NotSession
  DEF Attempt, Check, ConfirmRadio, Goto, Idle, OnWifi, OnlyRun, Proceed,
      RestoreAutoconnect, Run
<1>35. CASE ConfirmAutoconnect \/ Clear
  BY <1>35, RaisedShape, NotSession
  DEF Check, Clear, ConfirmAutoconnect, Goto, Idle, OnJournal, OnlyRun,
      Proceed, Run
<1>36. CASE StopReturn \/ PublishRecovery
  BY <1>36, RaisedShape, NotSession
  DEF Attempt, Goto, Idle, OnStatus, Proceed, Publish, PublishAndLeave,
      PublishRecovery, Run, StopReturn
<1>37. CASE TickLoad
  <2>1. journal.phase = "active" => journal # NoSession
    BY DEF NoSession
  <2>2. CASE journal.phase = "active" /\ Hold(journal, "tick_healthy")
    <3>1. run'.at = "tick_healthy"
      BY <2>2, HoldShape DEF JournalTyped, Places, OtherPlaces
    <3> QED BY <1>37, <2>1, <2>2, <3>1 DEF TickLoad
  <2>3. CASE run' = Idle
    <3>1. run'.at = "idle"
      BY <2>3 DEF Idle
    <3> QED BY <1>37, <3>1 DEF TickLoad
  <2>4. CASE run' = Call("tick")
    <3>1. run'.at = "st_load"
      BY <2>4 DEF Call, Run
    <3> QED BY <1>37, <3>1 DEF TickLoad
  <2> QED BY <1>37, <2>2, <2>3, <2>4 DEF TickLoad
<1>38. CASE TickHealthy
  BY <1>38, RaisedShape, NotSession
  DEF Check, Healthy, Idle, Inspected, OnlyRun, PlanHolds, Required, Run,
      TickHealthy
<1>39. CASE TickPublish \/ TickPublishError
  BY <1>39, RaisedShape, NotSession
  DEF Attempt, Idle, PublishAndLeave, Run, TickPublish, TickPublishError
<1>40. CASE Configure
  BY <1>40, RaisedShape, NotSession
  DEF Configure, Idle, OnlyRun, PublishAndLeave, Run
<1>41. CASE Tick
  BY <1>41, RaisedShape, NotSession
  DEF Idle, OnlyRun, Run, Tick
<1>42. CASE (\E want \in Requests : Request(want))
  BY <1>42, RaisedShape, NotSession
  DEF Idle, OnlyRun, Request, Run
<1>43. CASE WatchExit
  BY <1>43, RaisedShape, NotSession
  DEF Idle, Run, WatchExit
<1>44. CASE WatchRestart
  BY <1>44, RaisedShape, NotSession
  DEF Idle, Run, WatchRestart
<1>45. CASE Fail \/ Kill
  BY <1>45, RaisedShape, NotSession
  DEF Fail, Idle, Kill, OnlyRun, Run
<1>46. CASE KillWatch \/ CalmDown
  BY <1>46, RaisedShape, NotSession
  DEF CalmDown, Idle, KillWatch, Run
<1>47. CASE UserRadio \/ UserAutoconnect
  BY <1>47, RaisedShape, NotSession
  DEF Disturbs, Idle, Outside, Run, SetRadio, UserAutoconnect, UserRadio
<1>48. CASE LinkUp \/ LinkDown
  BY <1>48, RaisedShape, NotSession
  DEF Disturbs, Idle, LinkDown, LinkUp, Outside, Run
<1>49. CASE UplinkChange \/ ApDrop
  BY <1>49, RaisedShape, NotSession
  DEF ApDrop, Disturbs, Idle, Outside, Run, UplinkChange
<1>50. CASE ApActivate \/ AlterRules
  BY <1>50, RaisedShape, NotSession
  DEF AlterRules, ApActivate, Disturbs, Idle, Outside, Run
<1>51. CASE FlushTable \/ EditProfile
  BY <1>51, RaisedShape, NotSession
  DEF Disturbs, EditProfile, FlushTable, Idle, Outside, Run
<1>52. CASE SharingCleanup
  BY <1>52, RaisedShape, NotSession
  DEF Idle, Outside, Run, SharingCleanup
<1>53. CASE UNCHANGED vars
  BY <1>53 DEF vars
<1> QED
  BY <1>1, <1>2, <1>3, <1>4, <1>5, <1>6, <1>7, <1>8, <1>9, <1>10, <1>11,
     <1>12, <1>13, <1>14, <1>15, <1>16, <1>17, <1>18, <1>19, <1>20, <1>21,
     <1>22, <1>23, <1>24, <1>25, <1>26, <1>27, <1>28, <1>29, <1>30, <1>31,
     <1>32, <1>33, <1>34, <1>35, <1>36, <1>37, <1>38, <1>39, <1>40, <1>41,
     <1>42, <1>43, <1>44, <1>45, <1>46, <1>47, <1>48, <1>49, <1>50, <1>51,
     <1>52, <1>53
  DEF Next, Progress, Start, Switch, Stop, TickSteps, Failure, Environment

LEMMA OrphanInit == Init => OrphanInv
  BY DEF Init, OrphanInv, NoOrphan, Idle, Journalled, StartPlaces, SwitchPlaces, StopPlaces,
         TickPlaces, Forgotten, Emptied

LEMMA OrphanInvariant == Spec => []OrphanInv
  BY OrphanInit, OrphanStep, TypedInvariant, PTL DEF Spec

\* Whatever fails, dies or interferes between two steps, a host without a journal
\* carries nothing of ours: the stop that comes later knows of every artifact.
THEOREM NoOrphans == Spec => []NoOrphan
<1>1. OrphanInv => NoOrphan
  BY Zenon DEF OrphanInv
<1> QED BY <1>1, OrphanInvariant, PTL

LEMMA ArmedStep == Typed /\ OrphanInv /\ ArmedInv /\ [Next]_vars => ArmedInv'
<1> SUFFICES ASSUME Typed, OrphanInv, ArmedInv, [Next]_vars PROVE ArmedInv'
  OBVIOUS
<1> USE DEF At, host, wifi, RunTyped, Typed, NoOrphan, OrphanInv, ArmedInv, GuardFirstLast, Supervised,
            SameMarks, Untouched, Clean, Building, StartPlaces, SwitchPlaces, StopPlaces, TickPlaces,
            Journalled, HasData, Forgotten, Emptied
<1>1. CASE Load
  <2>1. CASE Hold(journal, "sw_inspect")
    <3>1. run'.at = "sw_inspect" /\ run'.data = journal
      BY <2>1, HoldShape DEF JournalTyped, Places, OtherPlaces
    <3> QED BY <1>1, <3>1 DEF Load, OnlyRun
  <2>2. CASE run' = Idle
    <3>1. run'.at = "idle"
      BY <2>2 DEF Idle
    <3> QED BY <1>1, <3>1 DEF Load, OnlyRun
  <2>3. CASE Goto("preflight")
    <3>1. run'.at = "preflight"
      BY <2>3 DEF Goto, Run
    <3> QED BY <1>1, <3>1 DEF Load, OnlyRun
  <2> QED BY <1>1, <2>1, <2>2, <2>3 DEF Load
<1>2. CASE Preflight
  BY <1>2, RaisedShape, NotSession
  DEF Idle, OnlyRun, Preflight, Run, Supported
<1>3. CASE NewState
  BY <1>3, RaisedShape, NotSession
  DEF Hold, Idle, NewState, Run
<1>4. CASE SaveStarting
  <2>1. run.data \in Session
    BY <1>4 DEF SaveStarting, Session
  <2> QED
    BY <1>4, <2>1, SaveShape, RaisedShape, NotSession
    DEF OnJournal, SaveStarting, Places, OtherPlaces, Run
<1>5. CASE PublishStarting \/ ArmWatch
  BY <1>5, RaisedShape, NotSession
  DEF ArmWatch, Goto, Idle, OnStatus, Proceed, Publish, PublishStarting, Run
<1>6. CASE GuardBlocked
  <2> DEFINE d == [run.data EXCEPT !.handle = TRUE, !.digest = "blocked"]
  <2>1. /\ d \in Session
        /\ d.radioTouched = run.data.radioTouched
        /\ d.autoTouched = run.data.autoTouched
    BY <1>6 DEF GuardBlocked, Session, Rules, Serve
  <2>2. Hold(d, "save_receipt") \/ run' = Raised
    BY <1>6 DEF GuardBlocked
  <2> HIDE DEF d
  <2>3. \/ run'.at = "save_receipt" /\ run'.data = d
        \/ run'.at \in {"idle", "st_load", "publish_recovery"}
    BY <2>1, <2>2, HoldShape, RaisedShape DEF Places
  <2> QED
    BY <1>6, <2>1, <2>3 DEF GuardBlocked, OnHost
<1>7. CASE SaveReceipt
  BY ZenonT(60), <1>7, RaisedShape, NotSession
  DEF Hold, Idle, OnJournal, Phases, Run, Save, SaveReceipt, Session
<1>8. CASE HoldAutoconnect
  <2>1. [run.data EXCEPT !.autoTouched = TRUE] \in Session
    BY <1>8 DEF HoldAutoconnect, Session
  <2> QED
    BY <1>8, <2>1, SaveShape, RaisedShape, NotSession
    DEF Goto, HoldAutoconnect, OnJournal, OnlyRun, Places, OtherPlaces, Run
<1>9. CASE AutoconnectNo
  BY <1>9, RaisedShape, NotSession
  DEF AutoconnectNo, Goto, Idle, OnWifi, Proceed, Run
<1>10. CASE WifiIdle
  BY <1>10, RaisedShape, NotSession
  DEF Check, Idle, OnlyRun, Run, WifiIdle
<1>11. CASE JournalRadio
  BY ZenonT(60), <1>11, RaisedShape, NotSession
  DEF Hold, Idle, JournalRadio, OnJournal, Phases, Run, Save, Session
<1>12. CASE RadioOff \/ VerifyPlan
  BY <1>12, RaisedShape, NotSession
  DEF Check, Goto, Idle, OnWifi, OnlyRun, PlanHolds, Proceed, RadioOff, Run,
      SetRadio, VerifyPlan
<1>13. CASE CreateInterface \/ AddProfile
  BY <1>13, RaisedShape, NotSession
  DEF AddProfile, CreateInterface, Goto, Idle, OnHost, Proceed, Run
<1>14. CASE Recheck \/ RadioOn
  BY <1>14, RaisedShape, NotSession
  DEF Check, Goto, Idle, Inspected, OnWifi, OnlyRun, Proceed, RadioOn,
      Recheck, Required, Run, SetRadio
<1>15. CASE WaitReady \/ RecheckReady
  BY <1>15, RaisedShape, NotSession
  DEF Check, Idle, Inspected, OnlyRun, PlanHolds, RecheckReady, Required, Run,
      WaitReady
<1>16. CASE Activate
  BY <1>16, RaisedShape, NotSession
  DEF Activate, Goto, Idle, OnHost, Proceed, Run
<1>17. CASE GuardMode
  <2> DEFINE d == [run.data EXCEPT !.digest = run.data.serve]
  <2>1. /\ d \in Session
        /\ d.radioTouched = run.data.radioTouched
        /\ d.autoTouched = run.data.autoTouched
    BY <1>17 DEF GuardMode, Session, Rules, Serve
  <2>2. Hold(d, "healthy") \/ run' = Raised
    BY <1>17 DEF GuardMode
  <2> HIDE DEF d
  <2>3. \/ run'.at = "healthy" /\ run'.data = d
        \/ run'.at \in {"idle", "st_load", "publish_recovery"}
    BY <2>1, <2>2, HoldShape, RaisedShape DEF Places
  <2>4. run.data.serve # "absent"
    BY <1>17, ServeOpen DEF GuardMode, Session
  <2> QED
    BY <1>17, <2>1, <2>3, <2>4 DEF GuardMode, Guarded, OnHost
<1>18. CASE CheckHealthy
  BY <1>18, RaisedShape, NotSession
  DEF Check, CheckHealthy, Healthy, Idle, Inspected, OnlyRun, PlanHolds,
      Required, Run
<1>19. CASE SaveActive
  BY ZenonT(60), <1>19, RaisedShape, NotSession
  DEF Hold, Idle, OnJournal, Phases, Run, Save, SaveActive, Session
<1>20. CASE PublishActive
  BY <1>20, RaisedShape, NotSession
  DEF Idle, PublishActive, PublishAndLeave, Run
<1>21. CASE SwitchInspect
  BY <1>21, RaisedShape, NotSession
  DEF Idle, Inspected, OnlyRun, Run, Supported, SwitchInspect
<1>22. CASE SwitchSave
  BY ZenonT(60), <1>22, RaisedShape, NotSession
  DEF Hold, Idle, OnJournal, Phases, Run, Save, Session, SwitchSave
<1>23. CASE SwitchPublish
  BY <1>23, RaisedShape, NotSession
  DEF Goto, Idle, OnStatus, Proceed, Publish, Run, SwitchPublish
<1>24. CASE SwitchGuard
  <2> DEFINE d == [run.data EXCEPT !.digest = run.want, !.serve = run.want]
  <2>1. /\ d \in Session
        /\ d.radioTouched = run.data.radioTouched
        /\ d.autoTouched = run.data.autoTouched
    BY <1>24 DEF SwitchGuard, Session, Rules, Serve, Decided
  <2>2. Hold(d, "healthy") \/ run' = Raised
    BY <1>24 DEF SwitchGuard
  <2> HIDE DEF d
  <2>3. \/ run'.at = "healthy" /\ run'.data = d
        \/ run'.at \in {"idle", "st_load", "publish_recovery"}
    BY <2>1, <2>2, HoldShape, RaisedShape DEF Places
  <2>4. run.want # "absent"
    BY <1>24, ServeOpen DEF SwitchGuard, Decided
  <2> QED
    BY <1>24, <2>1, <2>3, <2>4 DEF Guarded, OnHost, SwitchGuard
<1>25. CASE StopLoad
  BY <1>25, RaisedShape, NotSession
  DEF Hold, Idle, NoSession, OnlyRun, Run, StopLoad
<1>26. CASE StopInspect
  BY <1>26, RaisedShape, NotSession
  DEF Check, Idle, Inspected, OnlyRun, Run, StopInspect
<1>27. CASE StopSave
  BY ZenonT(60), <1>27, RaisedShape, NotSession
  DEF Hold, Idle, OnJournal, Phases, Run, Save, Session, StopSave
<1>28. CASE StopPublish
  BY <1>28, RaisedShape, NotSession
  DEF Goto, Idle, OnStatus, Proceed, Publish, Run, StopPublish
<1>29. CASE StopTable
  <2>1. [run.data EXCEPT !.handle = TRUE] \in Session
    BY <1>29 DEF StopTable, Session
  <2>2. /\ [run.data EXCEPT !.handle = TRUE].radioTouched = run.data.radioTouched
        /\ [run.data EXCEPT !.handle = TRUE].autoTouched = run.data.autoTouched
    BY <1>29 DEF StopTable, Session
  <2> QED
    BY <1>29, <2>1, <2>2, SaveShape, RaisedShape, NotSession
    DEF Goto, OnJournal, OnlyRun, StopTable, Places, OtherPlaces, Run
<1>30. CASE StopGuard
  BY <1>30, RaisedShape, NotSession
  DEF Goto, Guarded, Idle, OnHost, Proceed, Run, StopGuard
<1>31. CASE Down \/ DeleteProfile
  BY <1>31, RaisedShape, NotSession
  DEF Attempt, DeleteProfile, Down, Goto, Idle, Inspected, OnHost, Proceed,
      Run
<1>32. CASE DeleteInterface \/ ConfirmAbsent
  BY <1>32, RaisedShape, NotSession
  DEF Attempt, Check, ConfirmAbsent, DeleteInterface, Goto, Idle, Inspected,
      OnHost, OnlyRun, Proceed, Run
<1>33. CASE DeleteTable \/ ConfirmTable
  BY <1>33, RaisedShape, NotSession
  DEF Attempt, Check, ConfirmTable, DeleteTable, Goto, Idle, OnHost, OnlyRun,
      Proceed, Run
<1>34. CASE RemoveLease \/ RestoreRadio \/ SwitchRadioBack
  BY <1>34, RaisedShape, NotSession
  DEF Check, Goto, Idle, OnHost, OnWifi, OnlyRun, Proceed, RemoveLease,
      RestoreRadio, Run, SetRadio, SwitchRadioBack
<1>35. CASE ConfirmRadio \/ RestoreAutoconnect
  BY ZenonT(60), <1>35, RaisedShape, NotSession
  DEF Attempt, Check, ConfirmRadio, Goto, Idle, OnWifi, OnlyRun, Proceed,
      RestoreAutoconnect, Run
<1>36. CASE ConfirmAutoconnect \/ Clear
  BY <1>36, RaisedShape, NotSession
  DEF Check, Clear, ConfirmAutoconnect, Goto, Idle, OnJournal, OnlyRun,
      Proceed, Run
<1>37. CASE StopReturn \/ PublishRecovery
  BY <1>37, RaisedShape, NotSession
  DEF Attempt, Goto, Idle, OnStatus, Proceed, Publish, PublishAndLeave,
      PublishRecovery, Run, StopReturn
<1>38. CASE TickLoad
  <2>1. CASE Hold(journal, "tick_healthy")
    <3>1. run'.at = "tick_healthy" /\ run'.data = journal
      BY <2>1, HoldShape DEF JournalTyped, Places, OtherPlaces
    <3> QED BY <1>38, <3>1 DEF TickLoad, OnlyRun
  <2>2. CASE run' = Idle
    <3>1. run'.at = "idle"
      BY <2>2 DEF Idle
    <3> QED BY <1>38, <3>1 DEF TickLoad, OnlyRun
  <2>3. CASE run' = Call("tick")
    <3>1. run'.at = "st_load"
      BY <2>3 DEF Call, Run
    <3> QED BY <1>38, <3>1 DEF TickLoad
  <2> QED BY <1>38, <2>1, <2>2, <2>3 DEF TickLoad
<1>39. CASE TickHealthy
  BY <1>39, RaisedShape, NotSession
  DEF Check, Healthy, Idle, Inspected, OnlyRun, PlanHolds, Required, Run,
      TickHealthy
<1>40. CASE TickPublish \/ TickPublishError
  BY <1>40, RaisedShape, NotSession
  DEF Attempt, Idle, PublishAndLeave, Run, TickPublish, TickPublishError
<1>41. CASE Configure
  BY <1>41, RaisedShape, NotSession
  DEF Configure, Idle, OnlyRun, PublishAndLeave, Run
<1>42. CASE Tick
  BY <1>42, RaisedShape, NotSession
  DEF Idle, OnlyRun, Run, Tick
<1>43. CASE (\E want \in Requests : Request(want))
  BY <1>43, RaisedShape, NotSession
  DEF Idle, OnlyRun, Request, Run
<1>44. CASE WatchExit
  BY <1>44, RaisedShape, NotSession
  DEF Idle, Run, WatchExit
<1>45. CASE WatchRestart
  BY <1>45, RaisedShape, NotSession
  DEF Idle, Run, WatchRestart
<1>46. CASE Fail \/ Kill
  BY <1>46, RaisedShape, NotSession
  DEF Fail, Idle, Kill, OnlyRun, Run
<1>47. CASE KillWatch \/ CalmDown
  BY <1>47, RaisedShape, NotSession
  DEF CalmDown, Idle, KillWatch, Run
<1>48. CASE UserRadio \/ UserAutoconnect
  BY <1>48, RaisedShape, NotSession
  DEF Disturbs, Idle, Outside, Run, SetRadio, UserAutoconnect, UserRadio
<1>49. CASE LinkUp \/ LinkDown
  BY <1>49, RaisedShape, NotSession
  DEF Disturbs, Idle, LinkDown, LinkUp, Outside, Run
<1>50. CASE UplinkChange \/ ApDrop
  BY <1>50, RaisedShape, NotSession
  DEF ApDrop, Disturbs, Idle, Outside, Run, UplinkChange
<1>51. CASE ApActivate \/ AlterRules
  BY <1>51, RaisedShape, NotSession
  DEF AlterRules, ApActivate, Disturbs, Idle, Outside, Run
<1>52. CASE FlushTable \/ EditProfile
  BY <1>52, RaisedShape, NotSession
  DEF Disturbs, EditProfile, FlushTable, Idle, Outside, Run
<1>53. CASE SharingCleanup
  BY <1>53, RaisedShape, NotSession
  DEF Idle, Outside, Run, SharingCleanup
<1>54. CASE UNCHANGED vars
  BY <1>54 DEF vars
<1> QED
  BY Zenon, <1>1, <1>2, <1>3, <1>4, <1>5, <1>6, <1>7, <1>8, <1>9, <1>10, <1>11,
     <1>12, <1>13, <1>14, <1>15, <1>16, <1>17, <1>18, <1>19, <1>20, <1>21,
     <1>22, <1>23, <1>24, <1>25, <1>26, <1>27, <1>28, <1>29, <1>30, <1>31,
     <1>32, <1>33, <1>34, <1>35, <1>36, <1>37, <1>38, <1>39, <1>40, <1>41,
     <1>42, <1>43, <1>44, <1>45, <1>46, <1>47, <1>48, <1>49, <1>50, <1>51,
     <1>52, <1>53, <1>54
  DEF Next, Progress, Start, Switch, Stop, TickSteps, Failure, Environment

LEMMA ArmedInit == Init => ArmedInv
  BY DEF Init, ArmedInv, GuardFirstLast, Supervised, Idle, Journalled, StartPlaces, SwitchPlaces,
         StopPlaces, TickPlaces, Building, NoSession

LEMMA ArmedInvariant == Spec => []ArmedInv
  BY ArmedInit, ArmedStep, TypedInvariant, OrphanInvariant, PTL DEF Spec

\* Nothing that can carry client traffic exists without the guard's table,
\* unless an outsider flushes it: start creates the table first, stop deletes
\* it last, and no failure in between leaves them the other way round.
THEOREM GuardBrackets == Spec => []GuardFirstLast
<1>1. ArmedInv => GuardFirstLast
  BY DEF ArmedInv
<1> QED BY <1>1, ArmedInvariant, PTL

\* As long as there is something to clean up, a supervisor runs or systemd is
\* about to restart it: no sequence of failures strands a hotspot.
THEOREM AlwaysSupervised == Spec => []Supervised
<1>1. ArmedInv => Supervised
  BY DEF ArmedInv
<1> QED BY <1>1, ArmedInvariant, PTL

LEMMA TeardownStep == Typed /\ OrphanInv /\ TeardownInv /\ [Next]_vars => TeardownInv'
<1> SUFFICES ASSUME Typed, OrphanInv, TeardownInv, [Next]_vars PROVE TeardownInv'
  OBVIOUS
<1> USE DEF At, host, wifi, RunTyped, Typed, NoOrphan, OrphanInv, TeardownInv, Teardown, Empty,
            Forgotten, Emptied
<1>1. CASE Load
  <2>1. CASE Hold(journal, "sw_inspect")
    <3>1. run'.at = "sw_inspect" /\ run'.data = journal
      BY <2>1, HoldShape DEF JournalTyped, Places, OtherPlaces
    <3> QED BY <1>1, <3>1 DEF Load, OnlyRun
  <2>2. CASE run' = Idle
    <3>1. run'.at = "idle"
      BY <2>2 DEF Idle
    <3> QED BY <1>1, <3>1 DEF Load, OnlyRun
  <2>3. CASE Goto("preflight")
    <3>1. run'.at = "preflight"
      BY <2>3 DEF Goto, Run
    <3> QED BY <1>1, <3>1 DEF Load, OnlyRun
  <2> QED BY <1>1, <2>1, <2>2, <2>3 DEF Load
<1>2. CASE Preflight \/ NewState \/ SaveStarting
  BY <1>2, RaisedShape, ServeOpen
  DEF Hold, Idle, NewState, OnJournal, OnlyRun, Preflight, Run, Save,
      SaveStarting, Supported
<1>3. CASE PublishStarting \/ ArmWatch \/ GuardBlocked \/ SaveReceipt
  BY ZenonT(60), <1>3, RaisedShape, ServeOpen
  DEF ArmWatch, Goto, GuardBlocked, Hold, Idle, OnHost, OnJournal, OnStatus,
      Proceed, Publish, PublishStarting, Run, Save, SaveReceipt
<1>4. CASE HoldAutoconnect \/ AutoconnectNo \/ WifiIdle \/ JournalRadio
  BY ZenonT(60), <1>4, RaisedShape, ServeOpen
  DEF AutoconnectNo, Check, Goto, Hold, HoldAutoconnect, Idle, JournalRadio,
      OnJournal, OnWifi, OnlyRun, Proceed, Run, Save, WifiIdle
<1>5. CASE RadioOff \/ VerifyPlan \/ CreateInterface \/ AddProfile
  BY <1>5, RaisedShape, ServeOpen
  DEF AddProfile, Check, CreateInterface, Goto, Idle, OnHost, OnWifi, OnlyRun,
      PlanHolds, Proceed, RadioOff, Run, SetRadio, VerifyPlan
<1>6. CASE Recheck \/ RadioOn \/ WaitReady \/ RecheckReady
  BY <1>6, RaisedShape, ServeOpen
  DEF Check, Goto, Idle, Inspected, OnWifi, OnlyRun, PlanHolds, Proceed,
      RadioOn, Recheck, RecheckReady, Required, Run, SetRadio, WaitReady
<1>7. CASE Activate \/ GuardMode \/ CheckHealthy \/ SaveActive
  BY ZenonT(60), <1>7, RaisedShape, ServeOpen
  DEF Activate, Check, CheckHealthy, Goto, GuardMode, Guarded, Healthy, Hold,
      Idle, Inspected, OnHost, OnJournal, OnlyRun, PlanHolds, Proceed,
      Required, Run, Save, SaveActive
<1>8. CASE PublishActive
  BY <1>8, RaisedShape, ServeOpen
  DEF Idle, PublishActive, PublishAndLeave, Run
<1>9. CASE SwitchInspect
  BY <1>9, RaisedShape, ServeOpen
  DEF Idle, Inspected, OnlyRun, Run, Supported, SwitchInspect
<1>10. CASE SwitchSave
  BY <1>10, RaisedShape, ServeOpen
  DEF Hold, Idle, OnJournal, Run, Save, SwitchSave
<1>11. CASE SwitchPublish \/ SwitchGuard
  BY ZenonT(60), <1>11, RaisedShape, ServeOpen
  DEF Goto, Guarded, Hold, Idle, OnHost, OnStatus, Proceed, Publish, Run,
      SwitchGuard, SwitchPublish
<1>12. CASE StopLoad \/ StopInspect \/ StopSave \/ StopPublish
  BY ZenonT(60), <1>12, RaisedShape, ServeOpen
  DEF Check, Goto, Hold, Idle, Inspected, NoSession, OnJournal, OnStatus,
      OnlyRun, Proceed, Publish, Run, Save, StopInspect, StopLoad,
      StopPublish, StopSave
<1>13. CASE StopTable \/ StopGuard \/ Down \/ DeleteProfile
  BY ZenonT(60), <1>13, RaisedShape, ServeOpen
  DEF Attempt, DeleteProfile, Down, Goto, Guarded, Hold, Idle, Inspected,
      OnHost, OnJournal, OnlyRun, Proceed, Run, Save, StopGuard, StopTable
<1>14. CASE DeleteInterface \/ ConfirmAbsent \/ DeleteTable \/ ConfirmTable
  BY <1>14, RaisedShape, ServeOpen
  DEF Attempt, Check, ConfirmAbsent, ConfirmTable, DeleteInterface,
      DeleteTable, Goto, Idle, Inspected, OnHost, OnlyRun, Proceed, Run
<1>15. CASE RemoveLease \/ RestoreRadio \/ SwitchRadioBack \/ ConfirmRadio \/
            RestoreAutoconnect
  BY ZenonT(60), <1>15, RaisedShape, ServeOpen
  DEF Attempt, Check, ConfirmRadio, Goto, Idle, OnHost, OnWifi, OnlyRun,
      Proceed, RemoveLease, RestoreAutoconnect, RestoreRadio, Run, SetRadio,
      SwitchRadioBack
<1>16. CASE ConfirmAutoconnect \/ Clear \/ StopReturn \/ PublishRecovery
  BY <1>16, RaisedShape, ServeOpen
  DEF Attempt, Check, Clear, ConfirmAutoconnect, Goto, Idle, OnJournal,
      OnStatus, OnlyRun, Proceed, Publish, PublishAndLeave, PublishRecovery,
      Run, StopReturn
<1>17. CASE TickLoad \/ TickHealthy
  BY ZenonT(60), <1>17, RaisedShape, ServeOpen
  DEF Call, Check, Healthy, Hold, Idle, Inspected, NoSession, OnlyRun,
      PlanHolds, Required, Run, TickHealthy, TickLoad
<1>18. CASE TickPublish \/ TickPublishError
  BY <1>18, RaisedShape, ServeOpen
  DEF Attempt, Idle, PublishAndLeave, Run, TickPublish, TickPublishError
<1>19. CASE Configure
  BY <1>19, RaisedShape, ServeOpen
  DEF Configure, Idle, OnlyRun, PublishAndLeave, Run
<1>20. CASE Tick
  BY <1>20, RaisedShape, ServeOpen
  DEF Idle, OnlyRun, Run, Tick
<1>21. CASE (\E want \in Requests : Request(want))
  BY <1>21, RaisedShape, ServeOpen
  DEF Idle, OnlyRun, Request, Run
<1>22. CASE WatchExit
  BY <1>22, RaisedShape, ServeOpen
  DEF Idle, Run, WatchExit
<1>23. CASE WatchRestart
  BY <1>23, RaisedShape, ServeOpen
  DEF Idle, Run, WatchRestart
<1>24. CASE Fail \/ Kill \/ KillWatch \/ CalmDown
  BY <1>24, RaisedShape, ServeOpen
  DEF CalmDown, Fail, Idle, Kill, KillWatch, OnlyRun, Run
<1>25. CASE UserRadio \/ UserAutoconnect \/ LinkUp \/ LinkDown
  BY <1>25, RaisedShape, ServeOpen
  DEF Disturbs, Idle, LinkDown, LinkUp, Outside, Run, SetRadio,
      UserAutoconnect, UserRadio
<1>26. CASE UplinkChange \/ ApDrop \/ ApActivate \/ AlterRules
  BY <1>26, RaisedShape, ServeOpen
  DEF AlterRules, ApActivate, ApDrop, Disturbs, Idle, Outside, Run,
      UplinkChange
<1>27. CASE FlushTable \/ EditProfile \/ SharingCleanup
  BY <1>27, RaisedShape, ServeOpen
  DEF Disturbs, EditProfile, FlushTable, Idle, Outside, Run, SharingCleanup
<1>28. CASE UNCHANGED vars
  BY <1>28 DEF vars
<1> QED
  BY <1>1, <1>2, <1>3, <1>4, <1>5, <1>6, <1>7, <1>8, <1>9, <1>10, <1>11,
     <1>12, <1>13, <1>14, <1>15, <1>16, <1>17, <1>18, <1>19, <1>20, <1>21,
     <1>22, <1>23, <1>24, <1>25, <1>26, <1>27, <1>28
  DEF Next, Progress, Start, Switch, Stop, TickSteps, Failure, Environment

LEMMA TeardownInit == Init => TeardownInv
  BY DEF Init, TeardownInv, Teardown, Empty, Idle

LEMMA TeardownInvariant == Spec => []TeardownInv
  BY TeardownInit, TeardownStep, TypedInvariant, OrphanInvariant, PTL DEF Spec

LEMMA TeardownAction ==
  Typed /\ OrphanInv /\ TeardownInv /\ [Next]_vars => [BlockedRemoval]_vars
<1> SUFFICES ASSUME Typed, OrphanInv, TeardownInv, [Next]_vars, run' # run,
                    ~(present \cap {"ap", "profile", "interface"} \subseteq present')
             PROVE  table \notin Serve
  BY DEF BlockedRemoval
<1> USE DEF At, host, wifi, OrphanInv, TeardownInv, Teardown, Empty, Emptied
<1>1. CASE Load \/ Preflight \/ NewState \/ SaveStarting \/ PublishStarting \/
           ArmWatch \/ GuardBlocked \/ SaveReceipt
  BY <1>1
  DEF ArmWatch, Goto, GuardBlocked, Hold, Load, NewState, OnHost, OnJournal,
      OnStatus, OnlyRun, Preflight, Proceed, Publish, PublishStarting, Save,
      SaveReceipt, SaveStarting, Supported
<1>2. CASE HoldAutoconnect \/ AutoconnectNo \/ WifiIdle \/ JournalRadio \/
           RadioOff \/ VerifyPlan \/ CreateInterface \/ AddProfile
  BY <1>2
  DEF AddProfile, AutoconnectNo, Check, CreateInterface, Goto, Hold,
      HoldAutoconnect, JournalRadio, OnHost, OnJournal, OnWifi, OnlyRun,
      PlanHolds, Proceed, RadioOff, Save, SetRadio, VerifyPlan, WifiIdle
<1>3. CASE Recheck \/ RadioOn \/ WaitReady \/ RecheckReady \/ Activate \/
           GuardMode \/ CheckHealthy \/ SaveActive
  BY <1>3
  DEF Activate, Check, CheckHealthy, Goto, GuardMode, Guarded, Healthy, Hold,
      Inspected, OnHost, OnJournal, OnWifi, OnlyRun, PlanHolds, Proceed,
      RadioOn, Recheck, RecheckReady, Required, Save, SaveActive, SetRadio,
      WaitReady
<1>4. CASE PublishActive
  BY <1>4
  DEF PublishActive, PublishAndLeave
<1>5. CASE SwitchInspect \/ SwitchSave \/ SwitchPublish \/ SwitchGuard
  BY <1>5
  DEF Goto, Guarded, Hold, Inspected, OnHost, OnJournal, OnStatus, OnlyRun,
      Proceed, Publish, Save, Supported, SwitchGuard, SwitchInspect,
      SwitchPublish, SwitchSave
<1>6. CASE StopLoad \/ StopInspect \/ StopSave \/ StopPublish \/ StopTable \/
           StopGuard \/ Down \/ DeleteProfile
  BY <1>6
  DEF Attempt, Check, DeleteProfile, Down, Goto, Guarded, Hold, Inspected,
      OnHost, OnJournal, OnStatus, OnlyRun, Proceed, Publish, Save, StopGuard,
      StopInspect, StopLoad, StopPublish, StopSave, StopTable
<1>7. CASE DeleteInterface \/ ConfirmAbsent \/ DeleteTable \/ ConfirmTable \/
           RemoveLease \/ RestoreRadio \/ SwitchRadioBack \/ ConfirmRadio \/
           RestoreAutoconnect
  BY <1>7
  DEF Attempt, Check, ConfirmAbsent, ConfirmRadio, ConfirmTable,
      DeleteInterface, DeleteTable, Goto, Inspected, OnHost, OnWifi, OnlyRun,
      Proceed, RemoveLease, RestoreAutoconnect, RestoreRadio, SetRadio,
      SwitchRadioBack
<1>8. CASE ConfirmAutoconnect \/ Clear \/ StopReturn \/ PublishRecovery
  BY <1>8
  DEF Attempt, Check, Clear, ConfirmAutoconnect, Goto, OnJournal, OnStatus,
      OnlyRun, Proceed, Publish, PublishAndLeave, PublishRecovery, StopReturn
<1>9. CASE TickLoad \/ TickHealthy \/ TickPublish \/ TickPublishError \/
           Configure \/ Tick \/ (\E want \in Requests : Request(want)) \/
           WatchExit
  BY <1>9
  DEF Attempt, Call, Check, Configure, Healthy, Hold, Inspected, OnlyRun,
      PlanHolds, PublishAndLeave, Request, Required, Tick, TickHealthy,
      TickLoad, TickPublish, TickPublishError, WatchExit
<1>10. CASE WatchRestart
  BY <1>10
  DEF WatchRestart
<1>11. CASE Fail \/ Kill \/ KillWatch \/ CalmDown
  BY <1>11
  DEF CalmDown, Fail, Kill, KillWatch, OnlyRun
<1>12. CASE UserRadio \/ UserAutoconnect \/ LinkUp \/ LinkDown \/
           UplinkChange \/ ApDrop \/ ApActivate \/ AlterRules
  BY <1>12
  DEF AlterRules, ApActivate, ApDrop, Disturbs, LinkDown, LinkUp, Outside,
      SetRadio, UplinkChange, UserAutoconnect, UserRadio
<1>13. CASE FlushTable \/ EditProfile \/ SharingCleanup
  BY <1>13
  DEF Disturbs, EditProfile, FlushTable, Outside, SharingCleanup
<1>14. CASE UNCHANGED vars
  BY <1>14 DEF vars
<1> QED
  BY <1>1, <1>2, <1>3, <1>4, <1>5, <1>6, <1>7, <1>8, <1>9, <1>10, <1>11,
     <1>12, <1>13, <1>14
  DEF Next, Progress, Start, Switch, Stop, TickSteps, Failure, Environment

\* Stop never takes the access point, its profile or its interface away while
\* the guard still lets traffic through, whatever state an interrupted start,
\* switch or stop left behind.
THEOREM TeardownIsBlocked == Spec => TeardownBlocked
  BY TeardownAction, TypedInvariant, OrphanInvariant, TeardownInvariant, PTL
  DEF Spec, TeardownBlocked
-----------------------------------------------------------------------------
(* What a session shows to others and gives back: the phase, the public status,  *)
(* the rules against the journal, and the user's settings.                       *)


\* The journal's phase follows the place in the code: every handler writes the phase
\* before it acts on it, and what is in memory has the phase on disk.
LEMMA PhaseStep == Typed /\ OrphanInv /\ PhaseInv /\ [Next]_vars => PhaseInv'
<1> SUFFICES ASSUME Typed, OrphanInv, PhaseInv, [Next]_vars PROVE PhaseInv'
  OBVIOUS
<1> USE DEF At, host, wifi, RunTyped, Typed, NoOrphan, OrphanInv, PhaseInv, Starting, Serving,
            Stopping, StartPlaces, SwitchPlaces, StopPlaces, TickPlaces, Journalled, HasData,
            Forgotten, Emptied
<1>1. CASE Load
  <2>1. CASE journal.phase = "active" /\ Hold(journal, "sw_inspect")
    <3>1. journal # NoSession
      BY <2>1 DEF NoSession
    <3>2. run'.at = "sw_inspect" /\ run'.data = journal
      BY <2>1, HoldShape DEF JournalTyped, Places, OtherPlaces
    <3> QED BY <1>1, <2>1, <3>1, <3>2 DEF Load, OnlyRun
  <2>2. CASE run' = Idle
    <3>1. run'.at = "idle"
      BY <2>2 DEF Idle
    <3> QED BY <1>1, <3>1 DEF Load, OnlyRun
  <2>3. CASE Goto("preflight")
    <3>1. run'.at = "preflight"
      BY <2>3 DEF Goto, Run
    <3> QED BY <1>1, <3>1 DEF Load, OnlyRun
  <2> QED BY <1>1, <2>1, <2>2, <2>3 DEF Load
<1>2. CASE Preflight
  BY <1>2, RaisedShape, NotSession
  DEF Idle, OnlyRun, Preflight, Run, Supported
<1>3. CASE NewState
  BY <1>3, RaisedShape, NotSession
  DEF Hold, Idle, NewState, Run
<1>4. CASE SaveStarting
  <2> DEFINE d == run.data
  <2>1. d \in Session /\ d.phase = "starting"
    BY <1>4 DEF SaveStarting, Session, Phases
  <2>2. Save(d, "publish_starting")
    BY <1>4 DEF SaveStarting
  <2> HIDE DEF d
  <2>3. /\ journal' = d /\ OnJournal
        /\ \/ run'.at = "publish_starting" /\ run'.data = d
           \/ run'.at \in {"idle", "st_load", "publish_recovery"}
    BY <2>1, <2>2, SaveShape DEF Places, OtherPlaces
  <2> QED BY <1>4, <2>1, <2>3, NotSession DEF SaveStarting, OnJournal
<1>5. CASE PublishStarting \/ ArmWatch
  BY <1>5, RaisedShape, NotSession
  DEF ArmWatch, Goto, Idle, OnStatus, Proceed, Publish, PublishStarting, Run
<1>6. CASE GuardBlocked
  <2> DEFINE d == [run.data EXCEPT !.handle = TRUE, !.digest = "blocked"]
  <2>1. d \in Session /\ d.phase = run.data.phase
    BY <1>6 DEF GuardBlocked, Session, Rules, Serve, Decided
  <2>2. Hold(d, "save_receipt") \/ run' = Raised
    BY <1>6 DEF GuardBlocked
  <2> HIDE DEF d
  <2>3. \/ run'.at = "save_receipt" /\ run'.data = d
        \/ run'.at \in {"idle", "st_load", "publish_recovery"}
    BY <2>1, <2>2, HoldShape, RaisedShape DEF Places
  <2> QED BY <1>6, <2>1, <2>3 DEF GuardBlocked, OnHost
<1>7. CASE SaveReceipt
  <2> DEFINE p == IF run.data.sta THEN "verify_plan" ELSE "hold_autoconnect"
  <2>1. run.data \in Session /\ p \in {"verify_plan", "hold_autoconnect"}
    BY <1>7 DEF SaveReceipt
  <2>2. Save(run.data, p)
    BY <1>7 DEF SaveReceipt
  <2> HIDE DEF p
  <2>3. /\ journal' = run.data /\ OnJournal
        /\ \/ run'.at = p /\ run'.data = run.data
           \/ run'.at \in {"idle", "st_load", "publish_recovery"}
    BY <2>1, <2>2, SaveShape DEF Places
  <2> QED BY <1>7, <2>1, <2>3, NotSession DEF SaveReceipt, OnJournal
<1>8. CASE HoldAutoconnect
  <2> DEFINE d == [run.data EXCEPT !.autoTouched = TRUE]
  <2>1. run.data \in Session /\ d \in Session /\ d.phase = run.data.phase
    BY <1>8 DEF HoldAutoconnect, Session
  <2> HIDE DEF d
  <2>2. CASE Save(d, "autoconnect_no")
    <3>1. /\ journal' = d /\ OnJournal
          /\ \/ run'.at = "autoconnect_no" /\ run'.data = d
             \/ run'.at \in {"idle", "st_load", "publish_recovery"}
      BY <2>1, <2>2, SaveShape DEF Places
    <3> QED BY <1>8, <2>1, <3>1, NotSession DEF HoldAutoconnect, OnJournal
  <2>3. CASE run' = Raised /\ OnlyRun
    BY <1>8, <2>3, RaisedShape DEF HoldAutoconnect, OnlyRun
  <2>4. CASE Goto("wifi_idle") /\ OnlyRun
    BY <1>8, <2>4 DEF HoldAutoconnect, OnlyRun, Goto, Run
  <2> QED BY <1>8, <2>2, <2>3, <2>4 DEF HoldAutoconnect, d
<1>9. CASE AutoconnectNo \/ WifiIdle
  BY <1>9, RaisedShape, NotSession
  DEF AutoconnectNo, Check, Goto, Idle, OnWifi, OnlyRun, Proceed, Run,
      WifiIdle
<1>10. CASE JournalRadio
  <2> DEFINE d == [run.data EXCEPT !.radioTouched = TRUE]
  <2>1. d \in Session /\ d.phase = run.data.phase
    BY <1>10 DEF JournalRadio, Session, Phases
  <2>2. Save(d, "radio_off")
    BY <1>10 DEF JournalRadio
  <2> HIDE DEF d
  <2>3. /\ journal' = d /\ OnJournal
        /\ \/ run'.at = "radio_off" /\ run'.data = d
           \/ run'.at \in {"idle", "st_load", "publish_recovery"}
    BY <2>1, <2>2, SaveShape DEF Places, OtherPlaces
  <2> QED BY <1>10, <2>1, <2>3, NotSession DEF JournalRadio, OnJournal
<1>11. CASE RadioOff \/ VerifyPlan \/ CreateInterface
  BY <1>11, RaisedShape, NotSession
  DEF Check, CreateInterface, Goto, Idle, OnHost, OnWifi, OnlyRun, PlanHolds,
      Proceed, RadioOff, Run, SetRadio, VerifyPlan
<1>12. CASE AddProfile \/ Recheck \/ RadioOn
  BY <1>12, RaisedShape, NotSession
  DEF AddProfile, Check, Goto, Idle, Inspected, OnHost, OnWifi, OnlyRun,
      Proceed, RadioOn, Recheck, Required, Run, SetRadio
<1>13. CASE WaitReady \/ RecheckReady \/ Activate
  BY <1>13, RaisedShape, NotSession
  DEF Activate, Check, Goto, Idle, Inspected, OnHost, OnlyRun, PlanHolds,
      Proceed, RecheckReady, Required, Run, WaitReady
<1>14. CASE GuardMode
  <2> DEFINE d == [run.data EXCEPT !.digest = run.data.serve]
  <2>1. d \in Session /\ d.phase = run.data.phase
    BY <1>14 DEF GuardMode, Session, Rules, Serve, Decided
  <2>2. Hold(d, "healthy") \/ run' = Raised
    BY <1>14 DEF GuardMode
  <2> HIDE DEF d
  <2>3. \/ run'.at = "healthy" /\ run'.data = d
        \/ run'.at \in {"idle", "st_load", "publish_recovery"}
    BY <2>1, <2>2, HoldShape, RaisedShape DEF Places
  <2> QED BY <1>14, <2>1, <2>3 DEF GuardMode, OnHost
<1>15. CASE CheckHealthy
  BY <1>15, RaisedShape, NotSession
  DEF Check, CheckHealthy, Healthy, Idle, Inspected, OnlyRun, PlanHolds,
      Required, Run
<1>16. CASE SaveActive
  <2> DEFINE d == [run.data EXCEPT !.phase = "active"]
  <2>1. d \in Session /\ d.phase = "active"
    BY <1>16 DEF SaveActive, Session, Phases
  <2>2. Save(d, "publish_active")
    BY <1>16 DEF SaveActive
  <2> HIDE DEF d
  <2>3. /\ journal' = d /\ OnJournal
        /\ \/ run'.at = "publish_active" /\ run'.data = d
           \/ run'.at \in {"idle", "st_load", "publish_recovery"}
    BY <2>1, <2>2, SaveShape DEF Places, OtherPlaces
  <2> QED BY <1>16, <2>1, <2>3, NotSession DEF SaveActive, OnJournal
<1>17. CASE PublishActive
  BY <1>17, RaisedShape, NotSession
  DEF Idle, PublishActive, PublishAndLeave, Run
<1>18. CASE SwitchInspect
  BY <1>18, RaisedShape, NotSession
  DEF Idle, Inspected, OnlyRun, Run, Supported, SwitchInspect
<1>19. CASE SwitchSave
  <2> DEFINE d == [run.data EXCEPT !.phase = "switching"]
  <2>1. d \in Session /\ d.phase = "switching"
    BY <1>19 DEF SwitchSave, Session, Phases
  <2>2. Save(d, "sw_publish")
    BY <1>19 DEF SwitchSave
  <2> HIDE DEF d
  <2>3. /\ journal' = d /\ OnJournal
        /\ \/ run'.at = "sw_publish" /\ run'.data = d
           \/ run'.at \in {"idle", "st_load", "publish_recovery"}
    BY <2>1, <2>2, SaveShape DEF Places, OtherPlaces
  <2> QED BY <1>19, <2>1, <2>3, NotSession DEF SwitchSave, OnJournal
<1>20. CASE SwitchPublish
  BY <1>20, RaisedShape, NotSession
  DEF Goto, Idle, OnStatus, Proceed, Publish, Run, SwitchPublish
<1>21. CASE SwitchGuard
  <2> DEFINE d == [run.data EXCEPT !.digest = run.want, !.serve = run.want]
  <2>1. d \in Session /\ d.phase = run.data.phase
    BY <1>21 DEF SwitchGuard, Session, Rules, Serve, Decided
  <2>2. Hold(d, "healthy") \/ run' = Raised
    BY <1>21 DEF SwitchGuard
  <2> HIDE DEF d
  <2>3. \/ run'.at = "healthy" /\ run'.data = d
        \/ run'.at \in {"idle", "st_load", "publish_recovery"}
    BY <2>1, <2>2, HoldShape, RaisedShape DEF Places
  <2> QED BY <1>21, <2>1, <2>3 DEF SwitchGuard, OnHost
<1>22. CASE StopLoad
  BY <1>22, RaisedShape, NotSession
  DEF Hold, Idle, NoSession, OnlyRun, Run, StopLoad
<1>23. CASE StopInspect
  BY <1>23, RaisedShape, NotSession
  DEF Check, Idle, Inspected, OnlyRun, Run, StopInspect
<1>24. CASE StopSave
  <2> DEFINE d == [run.data EXCEPT !.phase = "stopping"]
  <2>1. d \in Session /\ d.phase = "stopping"
    BY <1>24 DEF StopSave, Session, Phases
  <2>2. Save(d, "st_publish")
    BY <1>24 DEF StopSave
  <2> HIDE DEF d
  <2>3. /\ journal' = d /\ OnJournal
        /\ \/ run'.at = "st_publish" /\ run'.data = d
           \/ run'.at \in {"idle", "st_load", "publish_recovery"}
    BY <2>1, <2>2, SaveShape DEF Places, OtherPlaces
  <2> QED BY <1>24, <2>1, <2>3, NotSession DEF StopSave, OnJournal
<1>25. CASE StopPublish
  BY <1>25, RaisedShape, NotSession
  DEF Goto, Idle, OnStatus, Proceed, Publish, Run, StopPublish
<1>26. CASE StopTable
  <2> DEFINE d == [run.data EXCEPT !.handle = TRUE]
  <2>1. run.data \in Session /\ d \in Session /\ d.phase = run.data.phase
    BY <1>26 DEF StopTable, Session
  <2> HIDE DEF d
  <2>2. CASE Save(d, "st_guard")
    <3>1. /\ journal' = d /\ OnJournal
          /\ \/ run'.at = "st_guard" /\ run'.data = d
             \/ run'.at \in {"idle", "st_load", "publish_recovery"}
      BY <2>1, <2>2, SaveShape DEF Places
    <3> QED BY <1>26, <2>1, <3>1, NotSession DEF StopTable, OnJournal
  <2>3. CASE (Goto("rb_down") \/ Goto("st_guard")) /\ OnlyRun
    BY <1>26, <2>3 DEF StopTable, OnlyRun, Goto, Run
  <2> QED BY <1>26, <2>2, <2>3 DEF StopTable, d
<1>27. CASE StopGuard
  BY <1>27, RaisedShape, NotSession
  DEF Goto, Guarded, Idle, OnHost, Proceed, Run, StopGuard
<1>28. CASE Down \/ DeleteProfile \/ DeleteInterface
  BY <1>28, RaisedShape, NotSession
  DEF Attempt, DeleteInterface, DeleteProfile, Down, Goto, Idle, Inspected,
      OnHost, Proceed, Run
<1>29. CASE ConfirmAbsent \/ DeleteTable \/ ConfirmTable
  BY <1>29, RaisedShape, NotSession
  DEF Attempt, Check, ConfirmAbsent, ConfirmTable, DeleteTable, Goto, Idle,
      Inspected, OnHost, OnlyRun, Proceed, Run
<1>30. CASE RemoveLease \/ RestoreRadio \/ SwitchRadioBack
  BY <1>30, RaisedShape, NotSession
  DEF Check, Goto, Idle, OnHost, OnWifi, OnlyRun, Proceed, RemoveLease,
      RestoreRadio, Run, SetRadio, SwitchRadioBack
<1>31. CASE ConfirmRadio
  BY <1>31, RaisedShape, NotSession
  DEF Check, ConfirmRadio, Idle, OnlyRun, Run
<1>32. CASE RestoreAutoconnect
  BY ZenonT(60), <1>32, RaisedShape, NotSession
  DEF Attempt, Goto, Idle, OnWifi, OnlyRun, Proceed, RestoreAutoconnect, Run
<1>33. CASE ConfirmAutoconnect
  BY <1>33, RaisedShape, NotSession
  DEF Check, ConfirmAutoconnect, Idle, OnlyRun, Run
<1>34. CASE Clear \/ StopReturn \/ PublishRecovery
  BY <1>34, RaisedShape, NotSession
  DEF Attempt, Clear, Goto, Idle, OnJournal, OnStatus, Proceed, Publish,
      PublishAndLeave, PublishRecovery, Run, StopReturn
<1>35. CASE TickLoad
  <2>1. CASE journal.phase = "active" /\ Hold(journal, "tick_healthy")
    <3>1. journal # NoSession
      BY <2>1 DEF NoSession
    <3>2. run'.at = "tick_healthy" /\ run'.data = journal
      BY <2>1, HoldShape DEF JournalTyped, Places, OtherPlaces
    <3> QED BY <1>35, <2>1, <3>1, <3>2 DEF TickLoad
  <2>2. CASE run' = Idle \/ run' = Call("tick")
    <3>1. Idle.at = "idle" /\ Call("tick").at = "st_load"
      BY DEF Idle, Call, Run
    <3> QED BY <1>35, <2>2, <3>1 DEF TickLoad
  <2> QED BY <1>35, <2>1, <2>2 DEF TickLoad
<1>36. CASE TickHealthy \/ TickPublish
  BY <1>36, RaisedShape, NotSession
  DEF Check, Healthy, Idle, Inspected, OnlyRun, PlanHolds, PublishAndLeave,
      Required, Run, TickHealthy, TickPublish
<1>37. CASE TickPublishError \/ Configure
  BY <1>37, RaisedShape, NotSession
  DEF Attempt, Configure, Idle, OnlyRun, PublishAndLeave, Run,
      TickPublishError
<1>38. CASE Tick
  BY <1>38, RaisedShape, NotSession
  DEF Idle, OnlyRun, Run, Tick
<1>39. CASE (\E want \in Requests : Request(want))
  BY <1>39, RaisedShape, NotSession
  DEF Idle, OnlyRun, Request, Run
<1>40. CASE WatchExit
  BY <1>40, RaisedShape, NotSession
  DEF Idle, Run, WatchExit
<1>41. CASE WatchRestart
  BY <1>41, RaisedShape, NotSession
  DEF Idle, Run, WatchRestart
<1>42. CASE Fail \/ Kill \/ KillWatch
  BY <1>42, RaisedShape, NotSession
  DEF Fail, Idle, Kill, KillWatch, OnlyRun, Run
<1>43. CASE CalmDown
  BY <1>43, RaisedShape, NotSession
  DEF CalmDown, Idle, Run
<1>44. CASE UserRadio \/ UserAutoconnect \/ LinkUp
  BY <1>44, RaisedShape, NotSession
  DEF Disturbs, Idle, LinkUp, Outside, Run, SetRadio, UserAutoconnect,
      UserRadio
<1>45. CASE LinkDown \/ UplinkChange \/ ApDrop
  BY <1>45, RaisedShape, NotSession
  DEF ApDrop, Disturbs, Idle, LinkDown, Outside, Run, UplinkChange
<1>46. CASE ApActivate \/ AlterRules \/ FlushTable
  BY <1>46, RaisedShape, NotSession
  DEF AlterRules, ApActivate, Disturbs, FlushTable, Idle, Outside, Run
<1>47. CASE EditProfile \/ SharingCleanup
  BY <1>47, RaisedShape, NotSession
  DEF Disturbs, EditProfile, Idle, Outside, Run, SharingCleanup
<1>48. CASE UNCHANGED vars
  BY <1>48 DEF vars
<1> QED
  BY <1>1, <1>2, <1>3, <1>4, <1>5, <1>6, <1>7, <1>8, <1>9, <1>10, <1>11,
     <1>12, <1>13, <1>14, <1>15, <1>16, <1>17, <1>18, <1>19, <1>20, <1>21,
     <1>22, <1>23, <1>24, <1>25, <1>26, <1>27, <1>28, <1>29, <1>30, <1>31,
     <1>32, <1>33, <1>34, <1>35, <1>36, <1>37, <1>38, <1>39, <1>40, <1>41,
     <1>42, <1>43, <1>44, <1>45, <1>46, <1>47, <1>48
  DEF Next, Progress, Start, Switch, Stop, TickSteps, Failure, Environment

LEMMA StatusShape ==
  /\ \A s \in Session : StatusOf(s).phase = s.phase /\ StatusOf(s).mode = ModeOf(s)
  /\ StatusOf(NoSession).phase = "off"
  BY NotSession DEF StatusOf

LEMMA PhaseInit == Init => PhaseInv
  BY DEF Init, PhaseInv, Starting, Serving, Stopping, StartPlaces, SwitchPlaces, StopPlaces, TickPlaces,
         Journalled, Idle, NoSession

LEMMA PhaseInvariant == Spec => []PhaseInv
  BY PhaseInit, PhaseStep, TypedInvariant, OrphanInvariant, PTL DEF Spec

\* The public status is behind the journal only where the next step publishes it.
LEMMA StatusInvStep == Typed /\ OrphanInv /\ PhaseInv /\ StatusInv /\ [Next]_vars => StatusInv'
<1> SUFFICES ASSUME Typed, OrphanInv, PhaseInv, StatusInv, [Next]_vars PROVE StatusInv'
  OBVIOUS
<1> USE DEF At, host, wifi, RunTyped, Typed, NoOrphan, OrphanInv, PhaseInv, StatusInv, StatusHonest,
            Announced, Starting, Serving, Stopping, StartPlaces, SwitchPlaces, StopPlaces, TickPlaces,
            Journalled, HasData, Forgotten, Emptied
<1>1. CASE Load
  <2>1. CASE journal.phase = "active" /\ Hold(journal, "sw_inspect")
    <3>1. journal # NoSession
      BY <2>1 DEF NoSession
    <3>2. run'.at = "sw_inspect" /\ run'.data = journal
      BY <2>1, HoldShape DEF JournalTyped, Places, OtherPlaces
    <3> QED BY <1>1, <2>1, <3>1, <3>2 DEF Load, OnlyRun
  <2>2. CASE run' = Idle
    <3>1. run'.at = "idle"
      BY <2>2 DEF Idle
    <3> QED BY <1>1, <3>1 DEF Load, OnlyRun
  <2>3. CASE Goto("preflight")
    <3>1. run'.at = "preflight"
      BY <2>3 DEF Goto, Run
    <3> QED BY <1>1, <3>1 DEF Load, OnlyRun
  <2> QED BY <1>1, <2>1, <2>2, <2>3 DEF Load
<1>2. CASE Preflight
  BY <1>2, RaisedShape, NotSession, StatusShape
  DEF Idle, OnlyRun, Preflight, Run, Supported
<1>3. CASE NewState
  BY <1>3, RaisedShape, NotSession, StatusShape
  DEF Hold, Idle, NewState, Run
<1>4. CASE SaveStarting
  <2> DEFINE d == run.data
  <2>1. d \in Session /\ d.phase = "starting"
    BY <1>4 DEF SaveStarting, Session, Phases
  <2>2. Save(d, "publish_starting")
    BY <1>4 DEF SaveStarting
  <2> HIDE DEF d
  <2>3. /\ journal' = d /\ OnJournal
        /\ \/ run'.at = "publish_starting" /\ run'.data = d
           \/ run'.at \in {"idle", "st_load", "publish_recovery"}
    BY <2>1, <2>2, SaveShape DEF Places, OtherPlaces
  <2> QED BY <1>4, <2>1, <2>3, NotSession DEF SaveStarting, OnJournal
<1>5. CASE PublishStarting \/ ArmWatch
  BY <1>5, RaisedShape, NotSession, StatusShape
  DEF ArmWatch, Goto, Idle, OnStatus, Proceed, Publish, PublishStarting, Run
<1>6. CASE GuardBlocked
  <2> DEFINE d == [run.data EXCEPT !.handle = TRUE, !.digest = "blocked"]
  <2>1. d \in Session /\ d.phase = run.data.phase
    BY <1>6 DEF GuardBlocked, Session, Rules, Serve, Decided
  <2>2. Hold(d, "save_receipt") \/ run' = Raised
    BY <1>6 DEF GuardBlocked
  <2> HIDE DEF d
  <2>3. \/ run'.at = "save_receipt" /\ run'.data = d
        \/ run'.at \in {"idle", "st_load", "publish_recovery"}
    BY <2>1, <2>2, HoldShape, RaisedShape DEF Places
  <2> QED BY <1>6, <2>1, <2>3 DEF GuardBlocked, OnHost
<1>7. CASE SaveReceipt
  <2> DEFINE p == IF run.data.sta THEN "verify_plan" ELSE "hold_autoconnect"
  <2>1. run.data \in Session /\ p \in {"verify_plan", "hold_autoconnect"}
    BY <1>7 DEF SaveReceipt
  <2>2. Save(run.data, p)
    BY <1>7 DEF SaveReceipt
  <2> HIDE DEF p
  <2>3. /\ journal' = run.data /\ OnJournal
        /\ \/ run'.at = p /\ run'.data = run.data
           \/ run'.at \in {"idle", "st_load", "publish_recovery"}
    BY <2>1, <2>2, SaveShape DEF Places
  <2> QED BY <1>7, <2>1, <2>3, NotSession DEF SaveReceipt, OnJournal
<1>8. CASE HoldAutoconnect
  <2> DEFINE d == [run.data EXCEPT !.autoTouched = TRUE]
  <2>1. run.data \in Session /\ d \in Session /\ d.phase = run.data.phase
    BY <1>8 DEF HoldAutoconnect, Session
  <2> HIDE DEF d
  <2>2. CASE Save(d, "autoconnect_no")
    <3>1. /\ journal' = d /\ OnJournal
          /\ \/ run'.at = "autoconnect_no" /\ run'.data = d
             \/ run'.at \in {"idle", "st_load", "publish_recovery"}
      BY <2>1, <2>2, SaveShape DEF Places
    <3> QED BY <1>8, <2>1, <3>1, NotSession DEF HoldAutoconnect, OnJournal
  <2>3. CASE run' = Raised /\ OnlyRun
    BY <1>8, <2>3, RaisedShape DEF HoldAutoconnect, OnlyRun
  <2>4. CASE Goto("wifi_idle") /\ OnlyRun
    BY <1>8, <2>4 DEF HoldAutoconnect, OnlyRun, Goto, Run
  <2> QED BY <1>8, <2>2, <2>3, <2>4 DEF HoldAutoconnect, d
<1>9. CASE AutoconnectNo \/ WifiIdle
  BY <1>9, RaisedShape, NotSession, StatusShape
  DEF AutoconnectNo, Check, Goto, Idle, OnWifi, OnlyRun, Proceed, Run,
      WifiIdle
<1>10. CASE JournalRadio
  <2> DEFINE d == [run.data EXCEPT !.radioTouched = TRUE]
  <2>1. d \in Session /\ d.phase = run.data.phase
    BY <1>10 DEF JournalRadio, Session, Phases
  <2>2. Save(d, "radio_off")
    BY <1>10 DEF JournalRadio
  <2> HIDE DEF d
  <2>3. /\ journal' = d /\ OnJournal
        /\ \/ run'.at = "radio_off" /\ run'.data = d
           \/ run'.at \in {"idle", "st_load", "publish_recovery"}
    BY <2>1, <2>2, SaveShape DEF Places, OtherPlaces
  <2> QED BY <1>10, <2>1, <2>3, NotSession DEF JournalRadio, OnJournal
<1>11. CASE RadioOff \/ VerifyPlan \/ CreateInterface
  BY <1>11, RaisedShape, NotSession, StatusShape
  DEF Check, CreateInterface, Goto, Idle, OnHost, OnWifi, OnlyRun, PlanHolds,
      Proceed, RadioOff, Run, SetRadio, VerifyPlan
<1>12. CASE AddProfile \/ Recheck \/ RadioOn
  BY <1>12, RaisedShape, NotSession, StatusShape
  DEF AddProfile, Check, Goto, Idle, Inspected, OnHost, OnWifi, OnlyRun,
      Proceed, RadioOn, Recheck, Required, Run, SetRadio
<1>13. CASE WaitReady \/ RecheckReady \/ Activate
  BY <1>13, RaisedShape, NotSession, StatusShape
  DEF Activate, Check, Goto, Idle, Inspected, OnHost, OnlyRun, PlanHolds,
      Proceed, RecheckReady, Required, Run, WaitReady
<1>14. CASE GuardMode
  <2> DEFINE d == [run.data EXCEPT !.digest = run.data.serve]
  <2>1. d \in Session /\ d.phase = run.data.phase
    BY <1>14 DEF GuardMode, Session, Rules, Serve, Decided
  <2>2. Hold(d, "healthy") \/ run' = Raised
    BY <1>14 DEF GuardMode
  <2> HIDE DEF d
  <2>3. \/ run'.at = "healthy" /\ run'.data = d
        \/ run'.at \in {"idle", "st_load", "publish_recovery"}
    BY <2>1, <2>2, HoldShape, RaisedShape DEF Places
  <2> QED BY <1>14, <2>1, <2>3 DEF GuardMode, OnHost
<1>15. CASE CheckHealthy
  BY <1>15, RaisedShape, NotSession, StatusShape
  DEF Check, CheckHealthy, Healthy, Idle, Inspected, OnlyRun, PlanHolds,
      Required, Run
<1>16. CASE SaveActive
  <2> DEFINE d == [run.data EXCEPT !.phase = "active"]
  <2>1. d \in Session /\ d.phase = "active"
    BY <1>16 DEF SaveActive, Session, Phases
  <2>2. Save(d, "publish_active")
    BY <1>16 DEF SaveActive
  <2> HIDE DEF d
  <2>3. /\ journal' = d /\ OnJournal
        /\ \/ run'.at = "publish_active" /\ run'.data = d
           \/ run'.at \in {"idle", "st_load", "publish_recovery"}
    BY <2>1, <2>2, SaveShape DEF Places, OtherPlaces
  <2> QED BY <1>16, <2>1, <2>3, NotSession DEF SaveActive, OnJournal
<1>17. CASE PublishActive
  BY <1>17, RaisedShape, NotSession, StatusShape
  DEF Idle, PublishActive, PublishAndLeave, Run
<1>18. CASE SwitchInspect
  BY <1>18, RaisedShape, NotSession, StatusShape
  DEF Idle, Inspected, OnlyRun, Run, Supported, SwitchInspect
<1>19. CASE SwitchSave
  <2> DEFINE d == [run.data EXCEPT !.phase = "switching"]
  <2>1. d \in Session /\ d.phase = "switching"
    BY <1>19 DEF SwitchSave, Session, Phases
  <2>2. Save(d, "sw_publish")
    BY <1>19 DEF SwitchSave
  <2> HIDE DEF d
  <2>3. /\ journal' = d /\ OnJournal
        /\ \/ run'.at = "sw_publish" /\ run'.data = d
           \/ run'.at \in {"idle", "st_load", "publish_recovery"}
    BY <2>1, <2>2, SaveShape DEF Places, OtherPlaces
  <2> QED BY <1>19, <2>1, <2>3, NotSession DEF SwitchSave, OnJournal
<1>20. CASE SwitchPublish
  BY <1>20, RaisedShape, NotSession, StatusShape
  DEF Goto, Idle, OnStatus, Proceed, Publish, Run, SwitchPublish
<1>21. CASE SwitchGuard
  <2> DEFINE d == [run.data EXCEPT !.digest = run.want, !.serve = run.want]
  <2>1. d \in Session /\ d.phase = run.data.phase
    BY <1>21 DEF SwitchGuard, Session, Rules, Serve, Decided
  <2>2. Hold(d, "healthy") \/ run' = Raised
    BY <1>21 DEF SwitchGuard
  <2> HIDE DEF d
  <2>3. \/ run'.at = "healthy" /\ run'.data = d
        \/ run'.at \in {"idle", "st_load", "publish_recovery"}
    BY <2>1, <2>2, HoldShape, RaisedShape DEF Places
  <2> QED BY <1>21, <2>1, <2>3 DEF SwitchGuard, OnHost
<1>22. CASE StopLoad
  BY <1>22, RaisedShape, NotSession, StatusShape
  DEF Hold, Idle, NoSession, OnlyRun, Run, StopLoad
<1>23. CASE StopInspect
  BY <1>23, RaisedShape, NotSession, StatusShape
  DEF Check, Idle, Inspected, OnlyRun, Run, StopInspect
<1>24. CASE StopSave
  <2> DEFINE d == [run.data EXCEPT !.phase = "stopping"]
  <2>1. d \in Session /\ d.phase = "stopping"
    BY <1>24 DEF StopSave, Session, Phases
  <2>2. Save(d, "st_publish")
    BY <1>24 DEF StopSave
  <2> HIDE DEF d
  <2>3. /\ journal' = d /\ OnJournal
        /\ \/ run'.at = "st_publish" /\ run'.data = d
           \/ run'.at \in {"idle", "st_load", "publish_recovery"}
    BY <2>1, <2>2, SaveShape DEF Places, OtherPlaces
  <2> QED BY <1>24, <2>1, <2>3, NotSession DEF StopSave, OnJournal
<1>25. CASE StopPublish
  BY <1>25, RaisedShape, NotSession, StatusShape
  DEF Goto, Idle, OnStatus, Proceed, Publish, Run, StopPublish
<1>26. CASE StopTable
  <2> DEFINE d == [run.data EXCEPT !.handle = TRUE]
  <2>1. run.data \in Session /\ d \in Session /\ d.phase = run.data.phase
    BY <1>26 DEF StopTable, Session
  <2> HIDE DEF d
  <2>2. CASE Save(d, "st_guard")
    <3>1. /\ journal' = d /\ OnJournal
          /\ \/ run'.at = "st_guard" /\ run'.data = d
             \/ run'.at \in {"idle", "st_load", "publish_recovery"}
      BY <2>1, <2>2, SaveShape DEF Places
    <3> QED BY <1>26, <2>1, <3>1, NotSession DEF StopTable, OnJournal
  <2>3. CASE (Goto("rb_down") \/ Goto("st_guard")) /\ OnlyRun
    BY <1>26, <2>3 DEF StopTable, OnlyRun, Goto, Run
  <2> QED BY <1>26, <2>2, <2>3 DEF StopTable, d
<1>27. CASE StopGuard
  BY <1>27, RaisedShape, NotSession, StatusShape
  DEF Goto, Guarded, Idle, OnHost, Proceed, Run, StopGuard
<1>28. CASE Down \/ DeleteProfile \/ DeleteInterface
  BY <1>28, RaisedShape, NotSession, StatusShape
  DEF Attempt, DeleteInterface, DeleteProfile, Down, Goto, Idle, Inspected,
      OnHost, Proceed, Run
<1>29. CASE ConfirmAbsent \/ DeleteTable \/ ConfirmTable
  BY <1>29, RaisedShape, NotSession, StatusShape
  DEF Attempt, Check, ConfirmAbsent, ConfirmTable, DeleteTable, Goto, Idle,
      Inspected, OnHost, OnlyRun, Proceed, Run
<1>30. CASE RemoveLease \/ RestoreRadio \/ SwitchRadioBack
  BY <1>30, RaisedShape, NotSession, StatusShape
  DEF Check, Goto, Idle, OnHost, OnWifi, OnlyRun, Proceed, RemoveLease,
      RestoreRadio, Run, SetRadio, SwitchRadioBack
<1>31. CASE ConfirmRadio
  BY <1>31, RaisedShape, NotSession, StatusShape
  DEF Check, ConfirmRadio, Idle, OnlyRun, Run
<1>32. CASE RestoreAutoconnect
  <2>1. UNCHANGED <<host, journal, status>>
    BY <1>32 DEF RestoreAutoconnect, OnlyRun, OnWifi
  <2>2. \/ run'.at \in {"st_clear", "st_auto_check"} /\ run'.data = run.data
        \/ run'.at \in {"idle", "st_load", "publish_recovery"}
    BY <1>32, RaisedShape DEF RestoreAutoconnect, Proceed, Goto, Run
  <2> QED BY <1>32, <2>1, <2>2 DEF RestoreAutoconnect
<1>33. CASE ConfirmAutoconnect
  BY <1>33, RaisedShape, NotSession, StatusShape
  DEF Check, ConfirmAutoconnect, Idle, OnlyRun, Run
<1>34. CASE Clear \/ StopReturn
  BY <1>34, RaisedShape, NotSession, StatusShape
  DEF Attempt, Clear, Goto, Idle, OnJournal, OnStatus, Proceed, Publish,
      PublishAndLeave, Run, StopReturn
<1>35. CASE PublishRecovery
  <2>1. run'.at \in {"idle", "st_load", "publish_recovery"}
    BY <1>35, RaisedShape DEF PublishRecovery, PublishAndLeave, Idle
  <2>2. status' = StatusOf(journal) /\ UNCHANGED <<table, present, journal>>
    BY <1>35 DEF PublishRecovery, PublishAndLeave
  <2>3. CASE journal = NoSession
    BY <2>1, <2>2, <2>3, StatusShape
  <2>4. CASE journal \in Session
    BY <2>1, <2>2, <2>4, StatusShape, NotSession DEF Session, Phases, ModeOf
  <2> QED BY <2>3, <2>4 DEF JournalTyped
<1>36. CASE TickLoad
  <2>1. CASE journal.phase = "active" /\ Hold(journal, "tick_healthy")
    <3>1. journal # NoSession
      BY <2>1 DEF NoSession
    <3>2. run'.at = "tick_healthy" /\ run'.data = journal
      BY <2>1, HoldShape DEF JournalTyped, Places, OtherPlaces
    <3> QED BY <1>36, <2>1, <3>1, <3>2 DEF TickLoad
  <2>2. CASE run' = Idle \/ run' = Call("tick")
    <3>1. Idle.at = "idle" /\ Call("tick").at = "st_load"
      BY DEF Idle, Call, Run
    <3> QED BY <1>36, <2>2, <3>1 DEF TickLoad
  <2> QED BY <1>36, <2>1, <2>2 DEF TickLoad
<1>37. CASE TickHealthy \/ TickPublish
  BY <1>37, RaisedShape, NotSession, StatusShape
  DEF Check, Healthy, Idle, Inspected, OnlyRun, PlanHolds, PublishAndLeave,
      Required, Run, TickHealthy, TickPublish
<1>38. CASE TickPublishError \/ Configure
  BY <1>38, RaisedShape, NotSession, StatusShape
  DEF Attempt, Configure, Idle, OnlyRun, PublishAndLeave, Run,
      TickPublishError
<1>39. CASE Tick
  BY <1>39, RaisedShape, NotSession, StatusShape
  DEF Idle, OnlyRun, Run, Tick
<1>40. CASE (\E want \in Requests : Request(want))
  BY <1>40, RaisedShape, NotSession, StatusShape
  DEF Idle, OnlyRun, Request, Run
<1>41. CASE WatchExit
  BY <1>41, RaisedShape, NotSession, StatusShape
  DEF Idle, Run, WatchExit
<1>42. CASE WatchRestart
  BY <1>42, RaisedShape, NotSession, StatusShape
  DEF Idle, Run, WatchRestart
<1>43. CASE Fail \/ Kill \/ KillWatch
  BY <1>43, RaisedShape, NotSession, StatusShape
  DEF Fail, Idle, Kill, KillWatch, OnlyRun, Run
<1>44. CASE CalmDown
  BY <1>44, RaisedShape, NotSession, StatusShape
  DEF CalmDown, Idle, Run
<1>45. CASE UserRadio \/ UserAutoconnect \/ LinkUp
  BY <1>45, RaisedShape, NotSession, StatusShape
  DEF Disturbs, Idle, LinkUp, Outside, Run, SetRadio, UserAutoconnect,
      UserRadio
<1>46. CASE LinkDown \/ UplinkChange \/ ApDrop
  BY <1>46, RaisedShape, NotSession, StatusShape
  DEF ApDrop, Disturbs, Idle, LinkDown, Outside, Run, UplinkChange
<1>47. CASE ApActivate \/ AlterRules \/ FlushTable
  BY <1>47, RaisedShape, NotSession, StatusShape
  DEF AlterRules, ApActivate, Disturbs, FlushTable, Idle, Outside, Run
<1>48. CASE EditProfile \/ SharingCleanup
  BY <1>48, RaisedShape, NotSession, StatusShape
  DEF Disturbs, EditProfile, Idle, Outside, Run, SharingCleanup
<1>49. CASE UNCHANGED vars
  BY <1>49 DEF vars
<1> QED
  BY <1>1, <1>2, <1>3, <1>4, <1>5, <1>6, <1>7, <1>8, <1>9, <1>10, <1>11,
     <1>12, <1>13, <1>14, <1>15, <1>16, <1>17, <1>18, <1>19, <1>20, <1>21,
     <1>22, <1>23, <1>24, <1>25, <1>26, <1>27, <1>28, <1>29, <1>30, <1>31,
     <1>32, <1>33, <1>34, <1>35, <1>36, <1>37, <1>38, <1>39, <1>40, <1>41,
     <1>42, <1>43, <1>44, <1>45, <1>46, <1>47, <1>48, <1>49
  DEF Next, Progress, Start, Switch, Stop, TickSteps, Failure, Environment

LEMMA StatusInit == Init => StatusInv
  BY StatusShape DEF Init, StatusInv, StatusHonest, Announced, Stopping, StartPlaces, SwitchPlaces,
         StopPlaces, Idle

LEMMA StatusInvariant == Spec => []StatusInv
  BY StatusInit, StatusInvStep, TypedInvariant, OrphanInvariant, PhaseInvariant, PTL DEF Spec

\* Whatever fails or is killed, the public status does not say off while anything of
\* the session is on the host, does not announce a session that no journal knows,
\* and names the journalled mode.
THEOREM StatusIsHonest == Spec => []StatusHonest
<1>1. StatusInv => StatusHonest
  BY DEF StatusInv
<1> QED BY <1>1, StatusInvariant, PTL

\* The table is loaded under a journal that already says starting or switching, with
\* the rules that the journal is then made to name.
LEMMA RulesStep == Typed /\ OrphanInv /\ PhaseInv /\ RulesInv /\ [Next]_vars => RulesInv'
<1> SUFFICES ASSUME Typed, OrphanInv, PhaseInv, RulesInv, [Next]_vars PROVE RulesInv'
  OBVIOUS
<1> USE DEF At, host, wifi, RunTyped, Typed, NoOrphan, OrphanInv, PhaseInv, RulesInv, RulesJournaled,
            Starting, Serving, Stopping, StartPlaces, SwitchPlaces, StopPlaces, TickPlaces,
            Journalled, HasData, Forgotten, Emptied
<1>1. CASE Load
  <2>1. CASE journal.phase = "active" /\ Hold(journal, "sw_inspect")
    <3>1. journal # NoSession
      BY <2>1 DEF NoSession
    <3>2. run'.at = "sw_inspect" /\ run'.data = journal
      BY <2>1, HoldShape DEF JournalTyped, Places, OtherPlaces
    <3> QED BY <1>1, <2>1, <3>1, <3>2 DEF Load, OnlyRun
  <2>2. CASE run' = Idle
    <3>1. run'.at = "idle"
      BY <2>2 DEF Idle
    <3> QED BY <1>1, <3>1 DEF Load, OnlyRun
  <2>3. CASE Goto("preflight")
    <3>1. run'.at = "preflight"
      BY <2>3 DEF Goto, Run
    <3> QED BY <1>1, <3>1 DEF Load, OnlyRun
  <2> QED BY <1>1, <2>1, <2>2, <2>3 DEF Load
<1>2. CASE Preflight
  BY <1>2, RaisedShape, NotSession
  DEF Idle, OnlyRun, Preflight, Run, Supported
<1>3. CASE NewState
  BY <1>3, RaisedShape, NotSession
  DEF Hold, Idle, NewState, Run
<1>4. CASE SaveStarting
  <2> DEFINE d == run.data
  <2>1. d \in Session /\ d.phase = "starting"
    BY <1>4 DEF SaveStarting, Session, Phases
  <2>2. Save(d, "publish_starting")
    BY <1>4 DEF SaveStarting
  <2> HIDE DEF d
  <2>3. /\ journal' = d /\ OnJournal
        /\ \/ run'.at = "publish_starting" /\ run'.data = d
           \/ run'.at \in {"idle", "st_load", "publish_recovery"}
    BY <2>1, <2>2, SaveShape DEF Places, OtherPlaces
  <2> QED BY <1>4, <2>1, <2>3, NotSession DEF SaveStarting, OnJournal
<1>5. CASE PublishStarting \/ ArmWatch
  BY <1>5, RaisedShape, NotSession
  DEF ArmWatch, Goto, Idle, OnStatus, Proceed, Publish, PublishStarting, Run
<1>6. CASE GuardBlocked
  <2> DEFINE d == [run.data EXCEPT !.handle = TRUE, !.digest = "blocked"]
  <2>1. d \in Session /\ d.phase = run.data.phase /\ d.serve = run.data.serve
    BY <1>6 DEF GuardBlocked, Session, Rules, Serve, Decided
  <2>2. Hold(d, "save_receipt") \/ run' = Raised
    BY <1>6 DEF GuardBlocked
  <2> HIDE DEF d
  <2>3. \/ run'.at = "save_receipt" /\ run'.data = d
        \/ run'.at \in {"idle", "st_load", "publish_recovery"}
    BY <2>1, <2>2, HoldShape, RaisedShape DEF Places
  <2> QED BY <1>6, <2>1, <2>3 DEF GuardBlocked, OnHost
<1>7. CASE SaveReceipt
  <2> DEFINE p == IF run.data.sta THEN "verify_plan" ELSE "hold_autoconnect"
  <2>1. run.data \in Session /\ p \in {"verify_plan", "hold_autoconnect"}
    BY <1>7 DEF SaveReceipt
  <2>2. Save(run.data, p)
    BY <1>7 DEF SaveReceipt
  <2> HIDE DEF p
  <2>3. /\ journal' = run.data /\ OnJournal
        /\ \/ run'.at = p /\ run'.data = run.data
           \/ run'.at \in {"idle", "st_load", "publish_recovery"}
    BY <2>1, <2>2, SaveShape DEF Places
  <2> QED BY <1>7, <2>1, <2>3, NotSession DEF SaveReceipt, OnJournal
<1>8. CASE HoldAutoconnect
  <2> DEFINE d == [run.data EXCEPT !.autoTouched = TRUE]
  <2>1. run.data \in Session /\ d \in Session /\ d.phase = run.data.phase /\ d.serve = run.data.serve /\ d.digest = run.data.digest
    BY <1>8 DEF HoldAutoconnect, Session
  <2> HIDE DEF d
  <2>2. CASE Save(d, "autoconnect_no")
    <3>1. /\ journal' = d /\ OnJournal
          /\ \/ run'.at = "autoconnect_no" /\ run'.data = d
             \/ run'.at \in {"idle", "st_load", "publish_recovery"}
      BY <2>1, <2>2, SaveShape DEF Places
    <3> QED BY <1>8, <2>1, <3>1, NotSession DEF HoldAutoconnect, OnJournal
  <2>3. CASE run' = Raised /\ OnlyRun
    BY <1>8, <2>3, RaisedShape DEF HoldAutoconnect, OnlyRun
  <2>4. CASE Goto("wifi_idle") /\ OnlyRun
    BY <1>8, <2>4 DEF HoldAutoconnect, OnlyRun, Goto, Run
  <2> QED BY <1>8, <2>2, <2>3, <2>4 DEF HoldAutoconnect, d
<1>9. CASE AutoconnectNo \/ WifiIdle
  BY <1>9, RaisedShape, NotSession
  DEF AutoconnectNo, Check, Goto, Idle, OnWifi, OnlyRun, Proceed, Run,
      WifiIdle
<1>10. CASE JournalRadio
  <2> DEFINE d == [run.data EXCEPT !.radioTouched = TRUE]
  <2>1. d \in Session /\ d.phase = run.data.phase /\ d.serve = run.data.serve /\ d.digest = run.data.digest
    BY <1>10 DEF JournalRadio, Session, Phases
  <2>2. Save(d, "radio_off")
    BY <1>10 DEF JournalRadio
  <2> HIDE DEF d
  <2>3. /\ journal' = d /\ OnJournal
        /\ \/ run'.at = "radio_off" /\ run'.data = d
           \/ run'.at \in {"idle", "st_load", "publish_recovery"}
    BY <2>1, <2>2, SaveShape DEF Places, OtherPlaces
  <2> QED BY <1>10, <2>1, <2>3, NotSession DEF JournalRadio, OnJournal
<1>11. CASE RadioOff \/ VerifyPlan \/ CreateInterface
  BY <1>11, RaisedShape, NotSession
  DEF Check, CreateInterface, Goto, Idle, OnHost, OnWifi, OnlyRun, PlanHolds,
      Proceed, RadioOff, Run, SetRadio, VerifyPlan
<1>12. CASE AddProfile \/ Recheck \/ RadioOn
  BY <1>12, RaisedShape, NotSession
  DEF AddProfile, Check, Goto, Idle, Inspected, OnHost, OnWifi, OnlyRun,
      Proceed, RadioOn, Recheck, Required, Run, SetRadio
<1>13. CASE WaitReady \/ RecheckReady \/ Activate
  BY <1>13, RaisedShape, NotSession
  DEF Activate, Check, Goto, Idle, Inspected, OnHost, OnlyRun, PlanHolds,
      Proceed, RecheckReady, Required, Run, WaitReady
<1>14. CASE GuardMode
  <2> DEFINE d == [run.data EXCEPT !.digest = run.data.serve]
  <2>1. d \in Session /\ d.phase = run.data.phase /\ d.serve = run.data.serve /\ d.digest = d.serve
    BY <1>14 DEF GuardMode, Session, Rules, Serve, Decided
  <2>2. \/ run' = Raised /\ table' \in {table, run.data.serve}
        \/ Hold(d, "healthy") /\ table' = run.data.serve
    BY <1>14 DEF GuardMode
  <2> HIDE DEF d
  <2>3. \/ run'.at \in {"idle", "st_load", "publish_recovery"} /\ table' \in {table, run.data.serve}
        \/ run'.at = "healthy" /\ run'.data = d /\ table' = run.data.serve
    BY <2>1, <2>2, HoldShape, RaisedShape DEF Places
  <2> QED BY <1>14, <2>1, <2>3 DEF GuardMode, OnHost
<1>15. CASE CheckHealthy
  BY <1>15, RaisedShape, NotSession
  DEF Check, CheckHealthy, Healthy, Idle, Inspected, OnlyRun, PlanHolds,
      Required, Run
<1>16. CASE SaveActive
  <2> DEFINE d == [run.data EXCEPT !.phase = "active"]
  <2>1. d \in Session /\ d.phase = "active" /\ d.serve = run.data.serve /\ d.digest = run.data.digest
    BY <1>16 DEF SaveActive, Session, Phases
  <2>2. Save(d, "publish_active")
    BY <1>16 DEF SaveActive
  <2> HIDE DEF d
  <2>3. /\ journal' = d /\ OnJournal
        /\ \/ run'.at = "publish_active" /\ run'.data = d
           \/ run'.at \in {"idle", "st_load", "publish_recovery"}
    BY <2>1, <2>2, SaveShape DEF Places, OtherPlaces
  <2> QED BY <1>16, <2>1, <2>3, NotSession DEF SaveActive, OnJournal
<1>17. CASE PublishActive
  BY <1>17, RaisedShape, NotSession
  DEF Idle, PublishActive, PublishAndLeave, Run
<1>18. CASE SwitchInspect
  BY <1>18, RaisedShape, NotSession
  DEF Idle, Inspected, OnlyRun, Run, Supported, SwitchInspect
<1>19. CASE SwitchSave
  <2> DEFINE d == [run.data EXCEPT !.phase = "switching"]
  <2>1. d \in Session /\ d.phase = "switching" /\ d.serve = run.data.serve /\ d.digest = run.data.digest
    BY <1>19 DEF SwitchSave, Session, Phases
  <2>2. Save(d, "sw_publish")
    BY <1>19 DEF SwitchSave
  <2> HIDE DEF d
  <2>3. /\ journal' = d /\ OnJournal
        /\ \/ run'.at = "sw_publish" /\ run'.data = d
           \/ run'.at \in {"idle", "st_load", "publish_recovery"}
    BY <2>1, <2>2, SaveShape DEF Places, OtherPlaces
  <2> QED BY <1>19, <2>1, <2>3, NotSession DEF SwitchSave, OnJournal
<1>20. CASE SwitchPublish
  BY <1>20, RaisedShape, NotSession
  DEF Goto, Idle, OnStatus, Proceed, Publish, Run, SwitchPublish
<1>21. CASE SwitchGuard
  <2> DEFINE d == [run.data EXCEPT !.digest = run.want, !.serve = run.want]
  <2>1. d \in Session /\ d.phase = run.data.phase /\ d.serve = run.want /\ d.digest = d.serve
    BY <1>21 DEF SwitchGuard, Session, Rules, Serve, Decided
  <2>2. \/ run' = Raised /\ table' \in {table, run.want}
        \/ Hold(d, "healthy") /\ table' = run.want
    BY <1>21 DEF SwitchGuard
  <2> HIDE DEF d
  <2>3. \/ run'.at \in {"idle", "st_load", "publish_recovery"} /\ table' \in {table, run.want}
        \/ run'.at = "healthy" /\ run'.data = d /\ table' = run.want
    BY <2>1, <2>2, HoldShape, RaisedShape DEF Places
  <2> QED BY <1>21, <2>1, <2>3 DEF SwitchGuard, OnHost
<1>22. CASE StopLoad
  BY <1>22, RaisedShape, NotSession
  DEF Hold, Idle, NoSession, OnlyRun, Run, StopLoad
<1>23. CASE StopInspect
  BY <1>23, RaisedShape, NotSession
  DEF Check, Idle, Inspected, OnlyRun, Run, StopInspect
<1>24. CASE StopSave
  <2> DEFINE d == [run.data EXCEPT !.phase = "stopping"]
  <2>1. d \in Session /\ d.phase = "stopping" /\ d.serve = run.data.serve /\ d.digest = run.data.digest
    BY <1>24 DEF StopSave, Session, Phases
  <2>2. Save(d, "st_publish")
    BY <1>24 DEF StopSave
  <2> HIDE DEF d
  <2>3. /\ journal' = d /\ OnJournal
        /\ \/ run'.at = "st_publish" /\ run'.data = d
           \/ run'.at \in {"idle", "st_load", "publish_recovery"}
    BY <2>1, <2>2, SaveShape DEF Places, OtherPlaces
  <2> QED BY <1>24, <2>1, <2>3, NotSession DEF StopSave, OnJournal
<1>25. CASE StopPublish
  BY <1>25, RaisedShape, NotSession
  DEF Goto, Idle, OnStatus, Proceed, Publish, Run, StopPublish
<1>26. CASE StopTable
  <2> DEFINE d == [run.data EXCEPT !.handle = TRUE]
  <2>1. run.data \in Session /\ d \in Session /\ d.phase = run.data.phase /\ d.serve = run.data.serve /\ d.digest = run.data.digest
    BY <1>26 DEF StopTable, Session
  <2> HIDE DEF d
  <2>2. CASE Save(d, "st_guard")
    <3>1. /\ journal' = d /\ OnJournal
          /\ \/ run'.at = "st_guard" /\ run'.data = d
             \/ run'.at \in {"idle", "st_load", "publish_recovery"}
      BY <2>1, <2>2, SaveShape DEF Places
    <3> QED BY <1>26, <2>1, <3>1, NotSession DEF StopTable, OnJournal
  <2>3. CASE (Goto("rb_down") \/ Goto("st_guard")) /\ OnlyRun
    BY <1>26, <2>3 DEF StopTable, OnlyRun, Goto, Run
  <2> QED BY <1>26, <2>2, <2>3 DEF StopTable, d
<1>27. CASE StopGuard
  BY <1>27, RaisedShape, NotSession
  DEF Goto, Guarded, Idle, OnHost, Proceed, Run, StopGuard
<1>28. CASE Down \/ DeleteProfile \/ DeleteInterface
  BY <1>28, RaisedShape, NotSession
  DEF Attempt, DeleteInterface, DeleteProfile, Down, Goto, Idle, Inspected,
      OnHost, Proceed, Run
<1>29. CASE ConfirmAbsent \/ DeleteTable \/ ConfirmTable
  BY <1>29, RaisedShape, NotSession
  DEF Attempt, Check, ConfirmAbsent, ConfirmTable, DeleteTable, Goto, Idle,
      Inspected, OnHost, OnlyRun, Proceed, Run
<1>30. CASE RemoveLease \/ RestoreRadio \/ SwitchRadioBack
  BY <1>30, RaisedShape, NotSession
  DEF Check, Goto, Idle, OnHost, OnWifi, OnlyRun, Proceed, RemoveLease,
      RestoreRadio, Run, SetRadio, SwitchRadioBack
<1>31. CASE ConfirmRadio
  BY <1>31, RaisedShape, NotSession
  DEF Check, ConfirmRadio, Idle, OnlyRun, Run
<1>32. CASE RestoreAutoconnect
  <2>1. UNCHANGED <<host, journal, status>>
    BY <1>32 DEF RestoreAutoconnect, OnlyRun, OnWifi
  <2>2. \/ run'.at \in {"st_clear", "st_auto_check"} /\ run'.data = run.data
        \/ run'.at \in {"idle", "st_load", "publish_recovery"}
    BY <1>32, RaisedShape DEF RestoreAutoconnect, Proceed, Goto, Run
  <2> QED BY <1>32, <2>1, <2>2 DEF RestoreAutoconnect
<1>33. CASE ConfirmAutoconnect
  BY <1>33, RaisedShape, NotSession
  DEF Check, ConfirmAutoconnect, Idle, OnlyRun, Run
<1>34. CASE Clear
  <2>1. journal'.phase = "none"
    BY <1>34 DEF Clear, NoSession
  <2>2. run'.at \in {"st_publish_off", "idle", "st_load", "publish_recovery"}
    BY <1>34, RaisedShape DEF Clear, Proceed, Goto, Run
  <2> QED BY <1>34, <2>1, <2>2
<1>35. CASE StopReturn
  BY <1>35, RaisedShape, NotSession
  DEF Attempt, Goto, Idle, OnStatus, Proceed, Publish, PublishAndLeave, Run,
      StopReturn
<1>36. CASE PublishRecovery
  <2>1. run'.at \in {"idle", "st_load", "publish_recovery"}
    BY <1>36, RaisedShape DEF PublishRecovery, PublishAndLeave, Idle
  <2>2. status' = StatusOf(journal) /\ UNCHANGED <<table, present, journal>>
    BY <1>36 DEF PublishRecovery, PublishAndLeave
  <2>3. CASE journal = NoSession
    BY <2>1, <2>2, <2>3, StatusShape
  <2>4. CASE journal \in Session
    BY <2>1, <2>2, <2>4, StatusShape, NotSession DEF Session, Phases, ModeOf
  <2> QED BY <2>3, <2>4 DEF JournalTyped
<1>37. CASE TickLoad
  <2>1. CASE journal.phase = "active" /\ Hold(journal, "tick_healthy")
    <3>1. journal # NoSession
      BY <2>1 DEF NoSession
    <3>2. run'.at = "tick_healthy" /\ run'.data = journal
      BY <2>1, HoldShape DEF JournalTyped, Places, OtherPlaces
    <3> QED BY <1>37, <2>1, <3>1, <3>2 DEF TickLoad
  <2>2. CASE run' = Idle \/ run' = Call("tick")
    <3>1. Idle.at = "idle" /\ Call("tick").at = "st_load"
      BY DEF Idle, Call, Run
    <3> QED BY <1>37, <2>2, <3>1 DEF TickLoad
  <2> QED BY <1>37, <2>1, <2>2 DEF TickLoad
<1>38. CASE TickHealthy \/ TickPublish
  BY <1>38, RaisedShape, NotSession
  DEF Check, Healthy, Idle, Inspected, OnlyRun, PlanHolds, PublishAndLeave,
      Required, Run, TickHealthy, TickPublish
<1>39. CASE TickPublishError \/ Configure
  BY <1>39, RaisedShape, NotSession
  DEF Attempt, Configure, Idle, OnlyRun, PublishAndLeave, Run,
      TickPublishError
<1>40. CASE Tick
  BY <1>40, RaisedShape, NotSession
  DEF Idle, OnlyRun, Run, Tick
<1>41. CASE (\E want \in Requests : Request(want))
  BY <1>41, RaisedShape, NotSession
  DEF Idle, OnlyRun, Request, Run
<1>42. CASE WatchExit
  BY <1>42, RaisedShape, NotSession
  DEF Idle, Run, WatchExit
<1>43. CASE WatchRestart
  BY <1>43, RaisedShape, NotSession
  DEF Idle, Run, WatchRestart
<1>44. CASE Fail \/ Kill \/ KillWatch
  BY <1>44, RaisedShape, NotSession
  DEF Fail, Idle, Kill, KillWatch, OnlyRun, Run
<1>45. CASE CalmDown
  BY <1>45, RaisedShape, NotSession
  DEF CalmDown, Idle, Run
<1>46. CASE UserRadio \/ UserAutoconnect \/ LinkUp
  BY <1>46, RaisedShape, NotSession
  DEF Disturbs, Idle, LinkUp, Outside, Run, SetRadio, UserAutoconnect,
      UserRadio
<1>47. CASE LinkDown \/ UplinkChange \/ ApDrop
  BY <1>47, RaisedShape, NotSession
  DEF ApDrop, Disturbs, Idle, LinkDown, Outside, Run, UplinkChange
<1>48. CASE ApActivate \/ AlterRules \/ FlushTable
  BY <1>48, RaisedShape, NotSession
  DEF AlterRules, ApActivate, Disturbs, FlushTable, Idle, Outside, Run
<1>49. CASE EditProfile \/ SharingCleanup
  BY <1>49, RaisedShape, NotSession
  DEF Disturbs, EditProfile, Idle, Outside, Run, SharingCleanup
<1>50. CASE UNCHANGED vars
  BY <1>50 DEF vars
<1> QED
  BY <1>1, <1>2, <1>3, <1>4, <1>5, <1>6, <1>7, <1>8, <1>9, <1>10, <1>11,
     <1>12, <1>13, <1>14, <1>15, <1>16, <1>17, <1>18, <1>19, <1>20, <1>21,
     <1>22, <1>23, <1>24, <1>25, <1>26, <1>27, <1>28, <1>29, <1>30, <1>31,
     <1>32, <1>33, <1>34, <1>35, <1>36, <1>37, <1>38, <1>39, <1>40, <1>41,
     <1>42, <1>43, <1>44, <1>45, <1>46, <1>47, <1>48, <1>49, <1>50
  DEF Next, Progress, Start, Switch, Stop, TickSteps, Failure, Environment

LEMMA RulesInit == Init => RulesInv
  BY DEF Init, RulesInv, RulesJournaled, StartPlaces, Idle, NoSession

LEMMA RulesInvariant == Spec => []RulesInv
  BY RulesInit, RulesStep, TypedInvariant, OrphanInvariant, PhaseInvariant, PTL DEF Spec

\* Between any two steps, and after any kill, the rules in force are those the journal
\* names, somebody else's, or none; a session still starting lets nothing else through.
THEOREM RulesAreJournaled == Spec => []RulesJournaled
<1>1. RulesInv => RulesJournaled
  BY DEF RulesInv
<1> QED BY <1>1, RulesInvariant, PTL

\* Whatever of the user's settings is changed has been marked in the journal before.
LEMMA BaselineStep == Typed /\ OrphanInv /\ ArmedInv /\ BaselineInv /\ [Next]_vars => BaselineInv'
<1> SUFFICES ASSUME Typed, OrphanInv, ArmedInv, BaselineInv, [Next]_vars PROVE BaselineInv'
  OBVIOUS
<1> USE DEF At, host, wifi, RunTyped, Typed, NoOrphan, OrphanInv, ArmedInv, SameMarks, Untouched,
            BaselineInv, Settled, RadioDone, StartPlaces, SwitchPlaces, StopPlaces, TickPlaces,
            Journalled, HasData, Forgotten, Emptied
<1>1. CASE Load
  <2>1. CASE journal.phase = "active" /\ Hold(journal, "sw_inspect")
    <3>1. journal # NoSession
      BY <2>1 DEF NoSession
    <3>2. run'.at = "sw_inspect" /\ run'.data = journal
      BY <2>1, HoldShape DEF JournalTyped, Places, OtherPlaces
    <3> QED BY <1>1, <2>1, <3>1, <3>2 DEF Load, OnlyRun
  <2>2. CASE run' = Idle
    <3>1. run'.at = "idle"
      BY <2>2 DEF Idle
    <3> QED BY <1>1, <3>1 DEF Load, OnlyRun
  <2>3. CASE Goto("preflight")
    <3>1. run'.at = "preflight"
      BY <2>3 DEF Goto, Run
    <3> QED BY <1>1, <3>1 DEF Load, OnlyRun
  <2> QED BY <1>1, <2>1, <2>2, <2>3 DEF Load
<1>2. CASE Preflight
  BY <1>2, RaisedShape, NotSession
  DEF Idle, OnlyRun, Preflight, Run, Supported
<1>3. CASE NewState
  BY <1>3, RaisedShape, NotSession
  DEF Hold, Idle, NewState, Run
<1>4. CASE SaveStarting
  <2> DEFINE d == run.data
  <2>1. d \in Session /\ Settled(d) /\ Untouched(d)
    BY <1>4 DEF SaveStarting, Session, Phases
  <2>2. Save(d, "publish_starting")
    BY <1>4 DEF SaveStarting
  <2> HIDE DEF d
  <2>3. /\ journal' = d /\ OnJournal
        /\ \/ run'.at = "publish_starting" /\ run'.data = d
           \/ run'.at \in {"idle", "st_load", "publish_recovery"}
    BY <2>1, <2>2, SaveShape DEF Places, OtherPlaces
  <2> QED BY <1>4, <2>1, <2>3, NotSession DEF SaveStarting, OnJournal
<1>5. CASE PublishStarting \/ ArmWatch
  BY <1>5, RaisedShape, NotSession
  DEF ArmWatch, Goto, Idle, OnStatus, Proceed, Publish, PublishStarting, Run
<1>6. CASE GuardBlocked
  <2> DEFINE d == [run.data EXCEPT !.handle = TRUE, !.digest = "blocked"]
  <2>1. d \in Session /\ d.radio = run.data.radio /\ d.auto = run.data.auto /\ d.sta = run.data.sta
        /\ d.radioTouched = run.data.radioTouched /\ d.autoTouched = run.data.autoTouched
    BY <1>6 DEF GuardBlocked, Session, Rules, Serve, Decided
  <2>2. Hold(d, "save_receipt") \/ run' = Raised
    BY <1>6 DEF GuardBlocked
  <2> HIDE DEF d
  <2>3. \/ run'.at = "save_receipt" /\ run'.data = d
        \/ run'.at \in {"idle", "st_load", "publish_recovery"}
    BY <2>1, <2>2, HoldShape, RaisedShape DEF Places
  <2> QED BY <1>6, <2>1, <2>3 DEF GuardBlocked, OnHost
<1>7. CASE SaveReceipt
  <2> DEFINE p == IF run.data.sta THEN "verify_plan" ELSE "hold_autoconnect"
  <2>1. run.data \in Session /\ p \in {"verify_plan", "hold_autoconnect"}
        /\ (p = "verify_plan" => run.data.sta)
    BY <1>7 DEF SaveReceipt
  <2>2. Save(run.data, p)
    BY <1>7 DEF SaveReceipt
  <2> HIDE DEF p
  <2>3. /\ journal' = run.data /\ OnJournal
        /\ \/ run'.at = p /\ run'.data = run.data
           \/ run'.at \in {"idle", "st_load", "publish_recovery"}
    BY <2>1, <2>2, SaveShape DEF Places
  <2> QED BY <1>7, <2>1, <2>3, NotSession DEF SaveReceipt, OnJournal
<1>8. CASE HoldAutoconnect
  <2> DEFINE d == [run.data EXCEPT !.autoTouched = TRUE]
  <2>1. run.data \in Session /\ d \in Session /\ d.radio = run.data.radio /\ d.auto = run.data.auto /\ d.sta = run.data.sta
        /\ d.radioTouched = run.data.radioTouched /\ d.autoTouched = TRUE
    BY <1>8 DEF HoldAutoconnect, Session
  <2> HIDE DEF d
  <2>2. CASE run.data.auto /\ Save(d, "autoconnect_no")
    <3>1. /\ journal' = d /\ OnJournal
          /\ \/ run'.at = "autoconnect_no" /\ run'.data = d
             \/ run'.at \in {"idle", "st_load", "publish_recovery"}
      BY <2>1, <2>2, SaveShape DEF Places
    <3> QED BY <1>8, <2>1, <2>2, <3>1, NotSession DEF HoldAutoconnect, OnJournal
  <2>3. CASE run' = Raised /\ OnlyRun
    BY <1>8, <2>3, RaisedShape DEF HoldAutoconnect, OnlyRun
  <2>4. CASE Goto("wifi_idle") /\ OnlyRun
    BY <1>8, <2>4 DEF HoldAutoconnect, OnlyRun, Goto, Run
  <2> QED BY <1>8, <2>2, <2>3, <2>4 DEF HoldAutoconnect, d
<1>9. CASE AutoconnectNo \/ WifiIdle
  BY <1>9, RaisedShape, NotSession
  DEF AutoconnectNo, Check, Goto, Idle, OnWifi, OnlyRun, Proceed, Run,
      WifiIdle
<1>10. CASE JournalRadio
  <2> DEFINE d == [run.data EXCEPT !.radioTouched = TRUE]
  <2>1. d \in Session /\ d.radio = run.data.radio /\ d.auto = run.data.auto /\ d.sta = run.data.sta
        /\ d.radioTouched = TRUE /\ d.autoTouched = run.data.autoTouched
    BY <1>10 DEF JournalRadio, Session, Phases
  <2>2. Save(d, "radio_off")
    BY <1>10 DEF JournalRadio
  <2> HIDE DEF d
  <2>3. /\ journal' = d /\ OnJournal
        /\ \/ run'.at = "radio_off" /\ run'.data = d
           \/ run'.at \in {"idle", "st_load", "publish_recovery"}
    BY <2>1, <2>2, SaveShape DEF Places, OtherPlaces
  <2> QED BY <1>10, <2>1, <2>3, NotSession DEF JournalRadio, OnJournal
<1>11. CASE RadioOff \/ VerifyPlan \/ CreateInterface
  BY <1>11, RaisedShape, NotSession
  DEF Check, CreateInterface, Goto, Idle, OnHost, OnWifi, OnlyRun, PlanHolds,
      Proceed, RadioOff, Run, SetRadio, VerifyPlan
<1>12. CASE AddProfile \/ Recheck \/ RadioOn
  BY <1>12, RaisedShape, NotSession
  DEF AddProfile, Check, Goto, Idle, Inspected, OnHost, OnWifi, OnlyRun,
      Proceed, RadioOn, Recheck, Required, Run, SetRadio
<1>13. CASE WaitReady \/ RecheckReady \/ Activate
  BY <1>13, RaisedShape, NotSession
  DEF Activate, Check, Goto, Idle, Inspected, OnHost, OnlyRun, PlanHolds,
      Proceed, RecheckReady, Required, Run, WaitReady
<1>14. CASE GuardMode
  <2> DEFINE d == [run.data EXCEPT !.digest = run.data.serve]
  <2>1. d \in Session /\ d.radio = run.data.radio /\ d.auto = run.data.auto /\ d.sta = run.data.sta
        /\ d.radioTouched = run.data.radioTouched /\ d.autoTouched = run.data.autoTouched
    BY <1>14 DEF GuardMode, Session, Rules, Serve, Decided
  <2>2. Hold(d, "healthy") \/ run' = Raised
    BY <1>14 DEF GuardMode
  <2> HIDE DEF d
  <2>3. \/ run'.at = "healthy" /\ run'.data = d
        \/ run'.at \in {"idle", "st_load", "publish_recovery"}
    BY <2>1, <2>2, HoldShape, RaisedShape DEF Places
  <2> QED BY <1>14, <2>1, <2>3 DEF GuardMode, OnHost
<1>15. CASE CheckHealthy
  BY <1>15, RaisedShape, NotSession
  DEF Check, CheckHealthy, Healthy, Idle, Inspected, OnlyRun, PlanHolds,
      Required, Run
<1>16. CASE SaveActive
  <2> DEFINE d == [run.data EXCEPT !.phase = "active"]
  <2>1. d \in Session /\ d.radio = run.data.radio /\ d.auto = run.data.auto /\ d.sta = run.data.sta
        /\ d.radioTouched = run.data.radioTouched /\ d.autoTouched = run.data.autoTouched
    BY <1>16 DEF SaveActive, Session, Phases
  <2>2. Save(d, "publish_active")
    BY <1>16 DEF SaveActive
  <2> HIDE DEF d
  <2>3. /\ journal' = d /\ OnJournal
        /\ \/ run'.at = "publish_active" /\ run'.data = d
           \/ run'.at \in {"idle", "st_load", "publish_recovery"}
    BY <2>1, <2>2, SaveShape DEF Places, OtherPlaces
  <2> QED BY <1>16, <2>1, <2>3, NotSession DEF SaveActive, OnJournal
<1>17. CASE PublishActive
  BY <1>17, RaisedShape, NotSession
  DEF Idle, PublishActive, PublishAndLeave, Run
<1>18. CASE SwitchInspect
  BY <1>18, RaisedShape, NotSession
  DEF Idle, Inspected, OnlyRun, Run, Supported, SwitchInspect
<1>19. CASE SwitchSave
  <2> DEFINE d == [run.data EXCEPT !.phase = "switching"]
  <2>1. d \in Session /\ d.radio = run.data.radio /\ d.auto = run.data.auto /\ d.sta = run.data.sta
        /\ d.radioTouched = run.data.radioTouched /\ d.autoTouched = run.data.autoTouched
    BY <1>19 DEF SwitchSave, Session, Phases
  <2>2. Save(d, "sw_publish")
    BY <1>19 DEF SwitchSave
  <2> HIDE DEF d
  <2>3. /\ journal' = d /\ OnJournal
        /\ \/ run'.at = "sw_publish" /\ run'.data = d
           \/ run'.at \in {"idle", "st_load", "publish_recovery"}
    BY <2>1, <2>2, SaveShape DEF Places, OtherPlaces
  <2> QED BY <1>19, <2>1, <2>3, NotSession DEF SwitchSave, OnJournal
<1>20. CASE SwitchPublish
  BY <1>20, RaisedShape, NotSession
  DEF Goto, Idle, OnStatus, Proceed, Publish, Run, SwitchPublish
<1>21. CASE SwitchGuard
  <2> DEFINE d == [run.data EXCEPT !.digest = run.want, !.serve = run.want]
  <2>1. d \in Session /\ d.radio = run.data.radio /\ d.auto = run.data.auto /\ d.sta = run.data.sta
        /\ d.radioTouched = run.data.radioTouched /\ d.autoTouched = run.data.autoTouched
    BY <1>21 DEF SwitchGuard, Session, Rules, Serve, Decided
  <2>2. Hold(d, "healthy") \/ run' = Raised
    BY <1>21 DEF SwitchGuard
  <2> HIDE DEF d
  <2>3. \/ run'.at = "healthy" /\ run'.data = d
        \/ run'.at \in {"idle", "st_load", "publish_recovery"}
    BY <2>1, <2>2, HoldShape, RaisedShape DEF Places
  <2> QED BY <1>21, <2>1, <2>3 DEF SwitchGuard, OnHost
<1>22. CASE StopLoad
  BY <1>22, RaisedShape, NotSession
  DEF Hold, Idle, NoSession, OnlyRun, Run, StopLoad
<1>23. CASE StopInspect
  BY <1>23, RaisedShape, NotSession
  DEF Check, Idle, Inspected, OnlyRun, Run, StopInspect
<1>24. CASE StopSave
  <2> DEFINE d == [run.data EXCEPT !.phase = "stopping"]
  <2>1. d \in Session /\ d.radio = run.data.radio /\ d.auto = run.data.auto /\ d.sta = run.data.sta
        /\ d.radioTouched = run.data.radioTouched /\ d.autoTouched = run.data.autoTouched
    BY <1>24 DEF StopSave, Session, Phases
  <2>2. Save(d, "st_publish")
    BY <1>24 DEF StopSave
  <2> HIDE DEF d
  <2>3. /\ journal' = d /\ OnJournal
        /\ \/ run'.at = "st_publish" /\ run'.data = d
           \/ run'.at \in {"idle", "st_load", "publish_recovery"}
    BY <2>1, <2>2, SaveShape DEF Places, OtherPlaces
  <2> QED BY <1>24, <2>1, <2>3, NotSession DEF StopSave, OnJournal
<1>25. CASE StopPublish
  BY <1>25, RaisedShape, NotSession
  DEF Goto, Idle, OnStatus, Proceed, Publish, Run, StopPublish
<1>26. CASE StopTable
  <2> DEFINE d == [run.data EXCEPT !.handle = TRUE]
  <2>1. run.data \in Session /\ d \in Session /\ d.radio = run.data.radio /\ d.auto = run.data.auto /\ d.sta = run.data.sta
        /\ d.radioTouched = run.data.radioTouched /\ d.autoTouched = run.data.autoTouched
    BY <1>26 DEF StopTable, Session
  <2> HIDE DEF d
  <2>2. CASE Save(d, "st_guard")
    <3>1. /\ journal' = d /\ OnJournal
          /\ \/ run'.at = "st_guard" /\ run'.data = d
             \/ run'.at \in {"idle", "st_load", "publish_recovery"}
      BY <2>1, <2>2, SaveShape DEF Places
    <3> QED BY <1>26, <2>1, <3>1, NotSession DEF StopTable, OnJournal
  <2>3. CASE (Goto("rb_down") \/ Goto("st_guard")) /\ OnlyRun
    BY <1>26, <2>3 DEF StopTable, OnlyRun, Goto, Run
  <2> QED BY <1>26, <2>2, <2>3 DEF StopTable, d
<1>27. CASE StopGuard
  BY <1>27, RaisedShape, NotSession
  DEF Goto, Guarded, Idle, OnHost, Proceed, Run, StopGuard
<1>28. CASE Down \/ DeleteProfile \/ DeleteInterface
  BY <1>28, RaisedShape, NotSession
  DEF Attempt, DeleteInterface, DeleteProfile, Down, Goto, Idle, Inspected,
      OnHost, Proceed, Run
<1>29. CASE ConfirmAbsent \/ DeleteTable \/ ConfirmTable
  BY <1>29, RaisedShape, NotSession
  DEF Attempt, Check, ConfirmAbsent, ConfirmTable, DeleteTable, Goto, Idle,
      Inspected, OnHost, OnlyRun, Proceed, Run
<1>30. CASE RemoveLease \/ RestoreRadio \/ SwitchRadioBack
  BY <1>30, RaisedShape, NotSession
  DEF Check, Goto, Idle, OnHost, OnWifi, OnlyRun, Proceed, RemoveLease,
      RestoreRadio, Run, SetRadio, SwitchRadioBack
<1>31. CASE ConfirmRadio
  BY <1>31, RaisedShape, NotSession
  DEF Check, ConfirmRadio, Idle, OnlyRun, Run
<1>32. CASE RestoreAutoconnect
  BY ZenonT(60), <1>32, RaisedShape, NotSession
  DEF Attempt, Goto, Idle, OnWifi, OnlyRun, Proceed, RestoreAutoconnect, Run
<1>33. CASE ConfirmAutoconnect
  BY <1>33, RaisedShape, NotSession
  DEF Check, ConfirmAutoconnect, Idle, OnlyRun, Run
<1>34. CASE Clear \/ StopReturn \/ PublishRecovery
  BY <1>34, RaisedShape, NotSession
  DEF Attempt, Clear, Goto, Idle, OnJournal, OnStatus, Proceed, Publish,
      PublishAndLeave, PublishRecovery, Run, StopReturn
<1>35. CASE TickLoad
  <2>1. CASE journal.phase = "active" /\ Hold(journal, "tick_healthy")
    <3>1. journal # NoSession
      BY <2>1 DEF NoSession
    <3>2. run'.at = "tick_healthy" /\ run'.data = journal
      BY <2>1, HoldShape DEF JournalTyped, Places, OtherPlaces
    <3> QED BY <1>35, <2>1, <3>1, <3>2 DEF TickLoad
  <2>2. CASE run' = Idle \/ run' = Call("tick")
    <3>1. Idle.at = "idle" /\ Call("tick").at = "st_load"
      BY DEF Idle, Call, Run
    <3> QED BY <1>35, <2>2, <3>1 DEF TickLoad
  <2> QED BY <1>35, <2>1, <2>2 DEF TickLoad
<1>36. CASE TickHealthy \/ TickPublish
  BY <1>36, RaisedShape, NotSession
  DEF Check, Healthy, Idle, Inspected, OnlyRun, PlanHolds, PublishAndLeave,
      Required, Run, TickHealthy, TickPublish
<1>37. CASE TickPublishError \/ Configure
  BY <1>37, RaisedShape, NotSession
  DEF Attempt, Configure, Idle, OnlyRun, PublishAndLeave, Run,
      TickPublishError
<1>38. CASE Tick
  BY <1>38, RaisedShape, NotSession
  DEF Idle, OnlyRun, Run, Tick
<1>39. CASE (\E want \in Requests : Request(want))
  BY <1>39, RaisedShape, NotSession
  DEF Idle, OnlyRun, Request, Run
<1>40. CASE WatchExit
  BY <1>40, RaisedShape, NotSession
  DEF Idle, Run, WatchExit
<1>41. CASE WatchRestart
  BY <1>41, RaisedShape, NotSession
  DEF Idle, Run, WatchRestart
<1>42. CASE Fail \/ Kill \/ KillWatch
  BY <1>42, RaisedShape, NotSession
  DEF Fail, Idle, Kill, KillWatch, OnlyRun, Run
<1>43. CASE CalmDown
  BY <1>43, RaisedShape, NotSession
  DEF CalmDown, Idle, Run
<1>44. CASE UserRadio \/ UserAutoconnect \/ LinkUp
  BY <1>44, RaisedShape, NotSession
  DEF Disturbs, Idle, LinkUp, Outside, Run, SetRadio, UserAutoconnect,
      UserRadio
<1>45. CASE LinkDown \/ UplinkChange \/ ApDrop
  BY <1>45, RaisedShape, NotSession
  DEF ApDrop, Disturbs, Idle, LinkDown, Outside, Run, UplinkChange
<1>46. CASE ApActivate \/ AlterRules \/ FlushTable
  BY <1>46, RaisedShape, NotSession
  DEF AlterRules, ApActivate, Disturbs, FlushTable, Idle, Outside, Run
<1>47. CASE EditProfile \/ SharingCleanup
  BY <1>47, RaisedShape, NotSession
  DEF Disturbs, EditProfile, Idle, Outside, Run, SharingCleanup
<1>48. CASE UNCHANGED vars
  BY <1>48 DEF vars
<1> QED
  BY <1>1, <1>2, <1>3, <1>4, <1>5, <1>6, <1>7, <1>8, <1>9, <1>10, <1>11,
     <1>12, <1>13, <1>14, <1>15, <1>16, <1>17, <1>18, <1>19, <1>20, <1>21,
     <1>22, <1>23, <1>24, <1>25, <1>26, <1>27, <1>28, <1>29, <1>30, <1>31,
     <1>32, <1>33, <1>34, <1>35, <1>36, <1>37, <1>38, <1>39, <1>40, <1>41,
     <1>42, <1>43, <1>44, <1>45, <1>46, <1>47, <1>48
  DEF Next, Progress, Start, Switch, Stop, TickSteps, Failure, Environment

LEMMA BaselineInit == Init => BaselineInv
  BY DEF Init, BaselineInv, Journalled, StartPlaces, SwitchPlaces, StopPlaces, TickPlaces, Idle

LEMMA BaselineInvariant == Spec => []BaselineInv
  BY BaselineInit, BaselineStep, TypedInvariant, OrphanInvariant, ArmedInvariant, PTL DEF Spec

\* The journal is removed in one place only, when both settings are settled.
LEMMA BaselineAction ==
  Typed /\ OrphanInv /\ BaselineInv /\ [Next]_vars => [BaselineKept]_vars
<1> SUFFICES ASSUME Typed, OrphanInv, BaselineInv, [Next]_vars, journal # NoSession, journal' = NoSession
             PROVE  /\ radio = journal.radio \/ "radio" \in byUser
                    /\ auto = journal.auto \/ "auto" \in byUser
  BY DEF BaselineKept
<1> USE DEF At, host, wifi, RunTyped, Typed, OrphanInv, BaselineInv, RadioDone, StartPlaces,
            SwitchPlaces, StopPlaces, TickPlaces, Journalled, HasData, Forgotten, Emptied
<1>1. CASE Load \/ Preflight \/ NewState
  BY <1>1, NotSession
  DEF Goto, Hold, Load, NewState, NoSession, OnlyRun, Preflight, Supported
<1>2. CASE SaveStarting
  <2> DEFINE d == run.data
  <2>1. d \in Session /\ Settled(d) /\ Untouched(d)
    BY <1>2 DEF SaveStarting, Session, Phases
  <2>2. Save(d, "publish_starting")
    BY <1>2 DEF SaveStarting
  <2> HIDE DEF d
  <2>3. /\ journal' = d /\ OnJournal
        /\ \/ run'.at = "publish_starting" /\ run'.data = d
           \/ run'.at \in {"idle", "st_load", "publish_recovery"}
    BY <2>1, <2>2, SaveShape DEF Places, OtherPlaces
  <2> QED BY <1>2, <2>1, <2>3, NotSession DEF SaveStarting, OnJournal
<1>3. CASE PublishStarting \/ ArmWatch
  BY <1>3, NotSession
  DEF ArmWatch, Goto, OnStatus, Proceed, Publish, PublishStarting
<1>4. CASE GuardBlocked
  <2> DEFINE d == [run.data EXCEPT !.handle = TRUE, !.digest = "blocked"]
  <2>1. d \in Session /\ d.radio = run.data.radio /\ d.auto = run.data.auto /\ d.sta = run.data.sta
        /\ d.radioTouched = run.data.radioTouched /\ d.autoTouched = run.data.autoTouched
    BY <1>4 DEF GuardBlocked, Session, Rules, Serve, Decided
  <2>2. Hold(d, "save_receipt") \/ run' = Raised
    BY <1>4 DEF GuardBlocked
  <2> HIDE DEF d
  <2>3. \/ run'.at = "save_receipt" /\ run'.data = d
        \/ run'.at \in {"idle", "st_load", "publish_recovery"}
    BY <2>1, <2>2, HoldShape, RaisedShape DEF Places
  <2> QED BY <1>4, <2>1, <2>3 DEF GuardBlocked, OnHost
<1>5. CASE SaveReceipt
  <2> DEFINE p == IF run.data.sta THEN "verify_plan" ELSE "hold_autoconnect"
  <2>1. run.data \in Session /\ p \in {"verify_plan", "hold_autoconnect"}
        /\ (p = "verify_plan" => run.data.sta)
    BY <1>5 DEF SaveReceipt
  <2>2. Save(run.data, p)
    BY <1>5 DEF SaveReceipt
  <2> HIDE DEF p
  <2>3. /\ journal' = run.data /\ OnJournal
        /\ \/ run'.at = p /\ run'.data = run.data
           \/ run'.at \in {"idle", "st_load", "publish_recovery"}
    BY <2>1, <2>2, SaveShape DEF Places
  <2> QED BY <1>5, <2>1, <2>3, NotSession DEF SaveReceipt, OnJournal
<1>6. CASE HoldAutoconnect
  <2> DEFINE d == [run.data EXCEPT !.autoTouched = TRUE]
  <2>1. run.data \in Session /\ d \in Session /\ d.radio = run.data.radio /\ d.auto = run.data.auto /\ d.sta = run.data.sta
        /\ d.radioTouched = run.data.radioTouched /\ d.autoTouched = TRUE
    BY <1>6 DEF HoldAutoconnect, Session
  <2> HIDE DEF d
  <2>2. CASE run.data.auto /\ Save(d, "autoconnect_no")
    <3>1. /\ journal' = d /\ OnJournal
          /\ \/ run'.at = "autoconnect_no" /\ run'.data = d
             \/ run'.at \in {"idle", "st_load", "publish_recovery"}
      BY <2>1, <2>2, SaveShape DEF Places
    <3> QED BY <1>6, <2>1, <2>2, <3>1, NotSession DEF HoldAutoconnect, OnJournal
  <2>3. CASE run' = Raised /\ OnlyRun
    BY <1>6, <2>3, RaisedShape DEF HoldAutoconnect, OnlyRun
  <2>4. CASE Goto("wifi_idle") /\ OnlyRun
    BY <1>6, <2>4 DEF HoldAutoconnect, OnlyRun, Goto, Run
  <2> QED BY <1>6, <2>2, <2>3, <2>4 DEF HoldAutoconnect, d
<1>7. CASE AutoconnectNo \/ WifiIdle
  BY <1>7, NotSession
  DEF AutoconnectNo, Check, Goto, OnWifi, OnlyRun, Proceed, WifiIdle
<1>8. CASE JournalRadio
  <2> DEFINE d == [run.data EXCEPT !.radioTouched = TRUE]
  <2>1. d \in Session /\ d.radio = run.data.radio /\ d.auto = run.data.auto /\ d.sta = run.data.sta
        /\ d.radioTouched = TRUE /\ d.autoTouched = run.data.autoTouched
    BY <1>8 DEF JournalRadio, Session, Phases
  <2>2. Save(d, "radio_off")
    BY <1>8 DEF JournalRadio
  <2> HIDE DEF d
  <2>3. /\ journal' = d /\ OnJournal
        /\ \/ run'.at = "radio_off" /\ run'.data = d
           \/ run'.at \in {"idle", "st_load", "publish_recovery"}
    BY <2>1, <2>2, SaveShape DEF Places, OtherPlaces
  <2> QED BY <1>8, <2>1, <2>3, NotSession DEF JournalRadio, OnJournal
<1>9. CASE RadioOff \/ VerifyPlan \/ CreateInterface \/ AddProfile \/
           Recheck \/ RadioOn
  BY <1>9, NotSession
  DEF AddProfile, Check, CreateInterface, Goto, Inspected, OnHost, OnWifi,
      OnlyRun, PlanHolds, Proceed, RadioOff, RadioOn, Recheck, Required,
      SetRadio, VerifyPlan
<1>10. CASE WaitReady \/ RecheckReady \/ Activate
  BY <1>10, NotSession
  DEF Activate, Check, Goto, Inspected, OnHost, OnlyRun, PlanHolds, Proceed,
      RecheckReady, Required, WaitReady
<1>11. CASE GuardMode
  <2> DEFINE d == [run.data EXCEPT !.digest = run.data.serve]
  <2>1. d \in Session /\ d.radio = run.data.radio /\ d.auto = run.data.auto /\ d.sta = run.data.sta
        /\ d.radioTouched = run.data.radioTouched /\ d.autoTouched = run.data.autoTouched
    BY <1>11 DEF GuardMode, Session, Rules, Serve, Decided
  <2>2. Hold(d, "healthy") \/ run' = Raised
    BY <1>11 DEF GuardMode
  <2> HIDE DEF d
  <2>3. \/ run'.at = "healthy" /\ run'.data = d
        \/ run'.at \in {"idle", "st_load", "publish_recovery"}
    BY <2>1, <2>2, HoldShape, RaisedShape DEF Places
  <2> QED BY <1>11, <2>1, <2>3 DEF GuardMode, OnHost
<1>12. CASE CheckHealthy
  BY <1>12, NotSession
  DEF Check, CheckHealthy, Healthy, Inspected, OnlyRun, PlanHolds, Required
<1>13. CASE SaveActive
  <2> DEFINE d == [run.data EXCEPT !.phase = "active"]
  <2>1. d \in Session /\ d.radio = run.data.radio /\ d.auto = run.data.auto /\ d.sta = run.data.sta
        /\ d.radioTouched = run.data.radioTouched /\ d.autoTouched = run.data.autoTouched
    BY <1>13 DEF SaveActive, Session, Phases
  <2>2. Save(d, "publish_active")
    BY <1>13 DEF SaveActive
  <2> HIDE DEF d
  <2>3. /\ journal' = d /\ OnJournal
        /\ \/ run'.at = "publish_active" /\ run'.data = d
           \/ run'.at \in {"idle", "st_load", "publish_recovery"}
    BY <2>1, <2>2, SaveShape DEF Places, OtherPlaces
  <2> QED BY <1>13, <2>1, <2>3, NotSession DEF SaveActive, OnJournal
<1>14. CASE PublishActive
  BY <1>14, NotSession
  DEF PublishActive, PublishAndLeave
<1>15. CASE SwitchInspect
  BY <1>15, NotSession
  DEF Inspected, OnlyRun, Supported, SwitchInspect
<1>16. CASE SwitchSave
  <2> DEFINE d == [run.data EXCEPT !.phase = "switching"]
  <2>1. d \in Session /\ d.radio = run.data.radio /\ d.auto = run.data.auto /\ d.sta = run.data.sta
        /\ d.radioTouched = run.data.radioTouched /\ d.autoTouched = run.data.autoTouched
    BY <1>16 DEF SwitchSave, Session, Phases
  <2>2. Save(d, "sw_publish")
    BY <1>16 DEF SwitchSave
  <2> HIDE DEF d
  <2>3. /\ journal' = d /\ OnJournal
        /\ \/ run'.at = "sw_publish" /\ run'.data = d
           \/ run'.at \in {"idle", "st_load", "publish_recovery"}
    BY <2>1, <2>2, SaveShape DEF Places, OtherPlaces
  <2> QED BY <1>16, <2>1, <2>3, NotSession DEF SwitchSave, OnJournal
<1>17. CASE SwitchPublish
  BY <1>17, NotSession
  DEF Goto, OnStatus, Proceed, Publish, SwitchPublish
<1>18. CASE SwitchGuard
  <2> DEFINE d == [run.data EXCEPT !.digest = run.want, !.serve = run.want]
  <2>1. d \in Session /\ d.radio = run.data.radio /\ d.auto = run.data.auto /\ d.sta = run.data.sta
        /\ d.radioTouched = run.data.radioTouched /\ d.autoTouched = run.data.autoTouched
    BY <1>18 DEF SwitchGuard, Session, Rules, Serve, Decided
  <2>2. Hold(d, "healthy") \/ run' = Raised
    BY <1>18 DEF SwitchGuard
  <2> HIDE DEF d
  <2>3. \/ run'.at = "healthy" /\ run'.data = d
        \/ run'.at \in {"idle", "st_load", "publish_recovery"}
    BY <2>1, <2>2, HoldShape, RaisedShape DEF Places
  <2> QED BY <1>18, <2>1, <2>3 DEF SwitchGuard, OnHost
<1>19. CASE StopLoad \/ StopInspect
  BY <1>19, NotSession
  DEF Check, Hold, Inspected, NoSession, OnlyRun, StopInspect, StopLoad
<1>20. CASE StopSave
  <2> DEFINE d == [run.data EXCEPT !.phase = "stopping"]
  <2>1. d \in Session /\ d.radio = run.data.radio /\ d.auto = run.data.auto /\ d.sta = run.data.sta
        /\ d.radioTouched = run.data.radioTouched /\ d.autoTouched = run.data.autoTouched
    BY <1>20 DEF StopSave, Session, Phases
  <2>2. Save(d, "st_publish")
    BY <1>20 DEF StopSave
  <2> HIDE DEF d
  <2>3. /\ journal' = d /\ OnJournal
        /\ \/ run'.at = "st_publish" /\ run'.data = d
           \/ run'.at \in {"idle", "st_load", "publish_recovery"}
    BY <2>1, <2>2, SaveShape DEF Places, OtherPlaces
  <2> QED BY <1>20, <2>1, <2>3, NotSession DEF StopSave, OnJournal
<1>21. CASE StopPublish
  BY <1>21, NotSession
  DEF Goto, OnStatus, Proceed, Publish, StopPublish
<1>22. CASE StopTable
  <2> DEFINE d == [run.data EXCEPT !.handle = TRUE]
  <2>1. run.data \in Session /\ d \in Session /\ d.radio = run.data.radio /\ d.auto = run.data.auto /\ d.sta = run.data.sta
        /\ d.radioTouched = run.data.radioTouched /\ d.autoTouched = run.data.autoTouched
    BY <1>22 DEF StopTable, Session
  <2> HIDE DEF d
  <2>2. CASE Save(d, "st_guard")
    <3>1. /\ journal' = d /\ OnJournal
          /\ \/ run'.at = "st_guard" /\ run'.data = d
             \/ run'.at \in {"idle", "st_load", "publish_recovery"}
      BY <2>1, <2>2, SaveShape DEF Places
    <3> QED BY <1>22, <2>1, <3>1, NotSession DEF StopTable, OnJournal
  <2>3. CASE (Goto("rb_down") \/ Goto("st_guard")) /\ OnlyRun
    BY <1>22, <2>3 DEF StopTable, OnlyRun, Goto, Run
  <2> QED BY <1>22, <2>2, <2>3 DEF StopTable, d
<1>23. CASE StopGuard
  BY <1>23, NotSession
  DEF Goto, Guarded, OnHost, Proceed, StopGuard
<1>24. CASE Down \/ DeleteProfile \/ DeleteInterface \/ ConfirmAbsent \/
           DeleteTable \/ ConfirmTable
  BY <1>24, NotSession
  DEF Attempt, Check, ConfirmAbsent, ConfirmTable, DeleteInterface,
      DeleteProfile, DeleteTable, Down, Goto, Inspected, OnHost, OnlyRun,
      Proceed
<1>25. CASE RemoveLease \/ RestoreRadio \/ SwitchRadioBack \/ ConfirmRadio \/
           RestoreAutoconnect \/ ConfirmAutoconnect
  BY <1>25, NotSession
  DEF Attempt, Check, ConfirmAutoconnect, ConfirmRadio, Goto, OnHost, OnWifi,
      OnlyRun, Proceed, RemoveLease, RestoreAutoconnect, RestoreRadio,
      SetRadio, SwitchRadioBack
<1>26. CASE Clear \/ StopReturn \/ PublishRecovery
  BY <1>26, NotSession
  DEF Attempt, Clear, Goto, OnJournal, OnStatus, Proceed, Publish,
      PublishAndLeave, PublishRecovery, StopReturn
<1>27. CASE TickLoad \/ TickHealthy \/ TickPublish \/ TickPublishError \/
           Configure \/ Tick
  BY <1>27, NotSession
  DEF Attempt, Call, Check, Configure, Healthy, Hold, Inspected, NoSession,
      OnlyRun, PlanHolds, PublishAndLeave, Required, Tick, TickHealthy,
      TickLoad, TickPublish, TickPublishError
<1>28. CASE (\E want \in Requests : Request(want)) \/ WatchExit \/ WatchRestart
  BY <1>28, NotSession
  DEF OnlyRun, Request, WatchExit, WatchRestart
<1>29. CASE Fail \/ Kill \/ KillWatch \/ CalmDown
  BY <1>29, NotSession
  DEF CalmDown, Fail, Kill, KillWatch, OnlyRun
<1>30. CASE UserRadio \/ UserAutoconnect \/ LinkUp \/ LinkDown \/
           UplinkChange \/ ApDrop
  BY <1>30, NotSession
  DEF ApDrop, Disturbs, LinkDown, LinkUp, Outside, SetRadio, UplinkChange,
      UserAutoconnect, UserRadio
<1>31. CASE ApActivate \/ AlterRules \/ FlushTable \/ EditProfile \/
           SharingCleanup
  BY <1>31, NotSession
  DEF AlterRules, ApActivate, Disturbs, EditProfile, FlushTable, Outside,
      SharingCleanup
<1>32. CASE UNCHANGED vars
  BY <1>32 DEF vars
<1> QED
  BY <1>1, <1>2, <1>3, <1>4, <1>5, <1>6, <1>7, <1>8, <1>9, <1>10, <1>11,
     <1>12, <1>13, <1>14, <1>15, <1>16, <1>17, <1>18, <1>19, <1>20, <1>21,
     <1>22, <1>23, <1>24, <1>25, <1>26, <1>27, <1>28, <1>29, <1>30, <1>31,
     <1>32
  DEF Next, Progress, Start, Switch, Stop, TickSteps, Failure, Environment

\* A session is only forgotten when radio and autoconnect are what they were, except
\* for what others changed in between (controller.py:160-177).
THEOREM BaselineIsRestored == Spec => BaselineRestored
  BY BaselineAction, TypedInvariant, OrphanInvariant, BaselineInvariant, PTL
  DEF Spec, BaselineRestored

\* A link comes up by autoconnect only, and that is off from before the radio is
\* switched off until what we switched on is off again.
LEMMA LinkStep ==
  HandsOff /\ Typed /\ OrphanInv /\ ArmedInv /\ BaselineInv /\ LinkInv /\ [Next]_vars => LinkInv'
<1> SUFFICES ASSUME HandsOff, Typed, OrphanInv, ArmedInv, BaselineInv, LinkInv, [Next]_vars
             PROVE  LinkInv'
  OBVIOUS
<1>0. /\ JournalTyped /\ RunTyped /\ run \in Run /\ auto \in BOOLEAN /\ radio \in BOOLEAN
      /\ run.at \in Journalled =>
           /\ journal # NoSession /\ SameMarks
           /\ run.data.radio = journal.radio /\ run.data.sta = journal.sta
      /\ run.at = "verify_plan" => journal.sta
      /\ run.at = "save_starting" => ~run.data.radioTouched
      /\ run.at \in {"st_auto", "st_auto_check"} => radio = journal.radio
      /\ Disturb \cap {"radio", "autoconnect", "userlink"} = {}
  BY DEF Typed, HostTyped, RunTyped, OrphanInv, ArmedInv, BaselineInv, LinkInv, RadioDone, Untouched,
         HandsOff, HasData, Journalled
<1> USE <1>0 DEF At, host, wifi, RunTyped, SameMarks, LinkInv, StartPlaces, SwitchPlaces,
                 StopPlaces, TickPlaces, Journalled, HasData
<1>1. CASE Load
  <2>1. CASE journal.phase = "active" /\ Hold(journal, "sw_inspect")
    <3>1. journal # NoSession
      BY <2>1 DEF NoSession
    <3>2. run'.at = "sw_inspect" /\ run'.data = journal
      BY <2>1, HoldShape DEF JournalTyped, Places, OtherPlaces
    <3> QED BY <1>1, <2>1, <3>1, <3>2 DEF Load, OnlyRun
  <2>2. CASE run' = Idle
    <3>1. run'.at = "idle"
      BY <2>2 DEF Idle
    <3> QED BY <1>1, <3>1 DEF Load, OnlyRun
  <2>3. CASE Goto("preflight")
    <3>1. run'.at = "preflight"
      BY <2>3 DEF Goto, Run
    <3> QED BY <1>1, <3>1 DEF Load, OnlyRun
  <2> QED BY <1>1, <2>1, <2>2, <2>3 DEF Load
<1>2. CASE Preflight
  BY <1>2, RaisedShape, NotSession
  DEF Idle, OnlyRun, Preflight, Run, Supported
<1>3. CASE NewState
  BY <1>3, RaisedShape, NotSession
  DEF Hold, Idle, NewState, Run
<1>4. CASE SaveStarting
  <2> DEFINE d == run.data
  <2>1. d \in Session /\ ~d.radioTouched
    BY <1>4 DEF SaveStarting, Session, Phases
  <2>2. Save(d, "publish_starting")
    BY <1>4 DEF SaveStarting
  <2> HIDE DEF d
  <2>3. /\ journal' = d /\ OnJournal
        /\ \/ run'.at = "publish_starting" /\ run'.data = d
           \/ run'.at \in {"idle", "st_load", "publish_recovery"}
    BY <2>1, <2>2, SaveShape DEF Places, OtherPlaces
  <2> QED BY <1>4, <2>1, <2>3, NotSession DEF SaveStarting, OnJournal
<1>5. CASE PublishStarting \/ ArmWatch
  BY <1>5, RaisedShape, NotSession
  DEF ArmWatch, Goto, Idle, OnStatus, Proceed, Publish, PublishStarting, Run
<1>6. CASE GuardBlocked
  <2> DEFINE d == [run.data EXCEPT !.handle = TRUE, !.digest = "blocked"]
  <2>1. d \in Session /\ d.radio = run.data.radio /\ d.sta = run.data.sta
        /\ d.radioTouched = run.data.radioTouched
    BY <1>6 DEF GuardBlocked, Session, Rules, Serve, Decided
  <2>2. Hold(d, "save_receipt") \/ run' = Raised
    BY <1>6 DEF GuardBlocked
  <2> HIDE DEF d
  <2>3. \/ run'.at = "save_receipt" /\ run'.data = d
        \/ run'.at \in {"idle", "st_load", "publish_recovery"}
    BY <2>1, <2>2, HoldShape, RaisedShape DEF Places
  <2> QED BY <1>6, <2>1, <2>3 DEF GuardBlocked, OnHost
<1>7. CASE SaveReceipt
  <2> DEFINE p == IF run.data.sta THEN "verify_plan" ELSE "hold_autoconnect"
  <2>1. run.data \in Session /\ p \in {"verify_plan", "hold_autoconnect"}
        /\ (p = "verify_plan" => run.data.sta)
    BY <1>7 DEF SaveReceipt
  <2>2. Save(run.data, p)
    BY <1>7 DEF SaveReceipt
  <2> HIDE DEF p
  <2>3. /\ journal' = run.data /\ OnJournal
        /\ \/ run'.at = p /\ run'.data = run.data
           \/ run'.at \in {"idle", "st_load", "publish_recovery"}
    BY <2>1, <2>2, SaveShape DEF Places
  <2> QED BY <1>7, <2>1, <2>3, NotSession DEF SaveReceipt, OnJournal
<1>8. CASE HoldAutoconnect
  <2> DEFINE d == [run.data EXCEPT !.autoTouched = TRUE]
  <2>1. run.data \in Session /\ d \in Session /\ d.radio = run.data.radio /\ d.sta = run.data.sta
        /\ d.radioTouched = run.data.radioTouched
    BY <1>8 DEF HoldAutoconnect, Session
  <2> HIDE DEF d
  <2>2. CASE run.data.auto /\ Save(d, "autoconnect_no")
    <3>1. /\ journal' = d /\ OnJournal
          /\ \/ run'.at = "autoconnect_no" /\ run'.data = d
             \/ run'.at \in {"idle", "st_load", "publish_recovery"}
      BY <2>1, <2>2, SaveShape DEF Places
    <3> QED BY <1>8, <2>1, <2>2, <3>1, NotSession DEF HoldAutoconnect, OnJournal
  <2>3. CASE run' = Raised /\ OnlyRun
    BY <1>8, <2>3, RaisedShape DEF HoldAutoconnect, OnlyRun
  <2>4. CASE ~auto /\ Goto("wifi_idle") /\ OnlyRun
    BY <1>8, <2>4 DEF HoldAutoconnect, OnlyRun, Goto, Run
  <2> QED BY <1>8, <2>2, <2>3, <2>4 DEF HoldAutoconnect, d
<1>9. CASE AutoconnectNo \/ WifiIdle
  BY <1>9, RaisedShape, NotSession
  DEF AutoconnectNo, Check, Goto, Idle, OnWifi, OnlyRun, Proceed, Run,
      WifiIdle
<1>10. CASE JournalRadio
  <2> DEFINE d == [run.data EXCEPT !.radioTouched = TRUE]
  <2>1. d \in Session /\ d.radio = run.data.radio /\ d.sta = run.data.sta
        /\ d.radioTouched = TRUE
    BY <1>10 DEF JournalRadio, Session, Phases
  <2>2. Save(d, "radio_off")
    BY <1>10 DEF JournalRadio
  <2> HIDE DEF d
  <2>3. /\ journal' = d /\ OnJournal
        /\ \/ run'.at = "radio_off" /\ run'.data = d
           \/ run'.at \in {"idle", "st_load", "publish_recovery"}
    BY <2>1, <2>2, SaveShape DEF Places, OtherPlaces
  <2> QED BY <1>10, <2>1, <2>3, NotSession DEF JournalRadio, OnJournal
<1>11. CASE RadioOff \/ VerifyPlan \/ CreateInterface
  BY <1>11, RaisedShape, NotSession
  DEF Check, CreateInterface, Goto, Idle, OnHost, OnWifi, OnlyRun, PlanHolds,
      Proceed, RadioOff, Run, SetRadio, VerifyPlan
<1>12. CASE AddProfile \/ Recheck \/ RadioOn
  BY <1>12, RaisedShape, NotSession
  DEF AddProfile, Check, Goto, Idle, Inspected, OnHost, OnWifi, OnlyRun,
      Proceed, RadioOn, Recheck, Required, Run, SetRadio
<1>13. CASE WaitReady \/ RecheckReady \/ Activate
  BY <1>13, RaisedShape, NotSession
  DEF Activate, Check, Goto, Idle, Inspected, OnHost, OnlyRun, PlanHolds,
      Proceed, RecheckReady, Required, Run, WaitReady
<1>14. CASE GuardMode
  <2> DEFINE d == [run.data EXCEPT !.digest = run.data.serve]
  <2>1. d \in Session /\ d.radio = run.data.radio /\ d.sta = run.data.sta
        /\ d.radioTouched = run.data.radioTouched
    BY <1>14 DEF GuardMode, Session, Rules, Serve, Decided
  <2>2. Hold(d, "healthy") \/ run' = Raised
    BY <1>14 DEF GuardMode
  <2> HIDE DEF d
  <2>3. \/ run'.at = "healthy" /\ run'.data = d
        \/ run'.at \in {"idle", "st_load", "publish_recovery"}
    BY <2>1, <2>2, HoldShape, RaisedShape DEF Places
  <2> QED BY <1>14, <2>1, <2>3 DEF GuardMode, OnHost
<1>15. CASE CheckHealthy
  BY <1>15, RaisedShape, NotSession
  DEF Check, CheckHealthy, Healthy, Idle, Inspected, OnlyRun, PlanHolds,
      Required, Run
<1>16. CASE SaveActive
  <2> DEFINE d == [run.data EXCEPT !.phase = "active"]
  <2>1. d \in Session /\ d.radio = run.data.radio /\ d.sta = run.data.sta
        /\ d.radioTouched = run.data.radioTouched
    BY <1>16 DEF SaveActive, Session, Phases
  <2>2. Save(d, "publish_active")
    BY <1>16 DEF SaveActive
  <2> HIDE DEF d
  <2>3. /\ journal' = d /\ OnJournal
        /\ \/ run'.at = "publish_active" /\ run'.data = d
           \/ run'.at \in {"idle", "st_load", "publish_recovery"}
    BY <2>1, <2>2, SaveShape DEF Places, OtherPlaces
  <2> QED BY <1>16, <2>1, <2>3, NotSession DEF SaveActive, OnJournal
<1>17. CASE PublishActive
  BY <1>17, RaisedShape, NotSession
  DEF Idle, PublishActive, PublishAndLeave, Run
<1>18. CASE SwitchInspect
  BY <1>18, RaisedShape, NotSession
  DEF Idle, Inspected, OnlyRun, Run, Supported, SwitchInspect
<1>19. CASE SwitchSave
  <2> DEFINE d == [run.data EXCEPT !.phase = "switching"]
  <2>1. d \in Session /\ d.radio = run.data.radio /\ d.sta = run.data.sta
        /\ d.radioTouched = run.data.radioTouched
    BY <1>19 DEF SwitchSave, Session, Phases
  <2>2. Save(d, "sw_publish")
    BY <1>19 DEF SwitchSave
  <2> HIDE DEF d
  <2>3. /\ journal' = d /\ OnJournal
        /\ \/ run'.at = "sw_publish" /\ run'.data = d
           \/ run'.at \in {"idle", "st_load", "publish_recovery"}
    BY <2>1, <2>2, SaveShape DEF Places, OtherPlaces
  <2> QED BY <1>19, <2>1, <2>3, NotSession DEF SwitchSave, OnJournal
<1>20. CASE SwitchPublish
  BY <1>20, RaisedShape, NotSession
  DEF Goto, Idle, OnStatus, Proceed, Publish, Run, SwitchPublish
<1>21. CASE SwitchGuard
  <2> DEFINE d == [run.data EXCEPT !.digest = run.want, !.serve = run.want]
  <2>1. d \in Session /\ d.radio = run.data.radio /\ d.sta = run.data.sta
        /\ d.radioTouched = run.data.radioTouched
    BY <1>21 DEF SwitchGuard, Session, Rules, Serve, Decided
  <2>2. Hold(d, "healthy") \/ run' = Raised
    BY <1>21 DEF SwitchGuard
  <2> HIDE DEF d
  <2>3. \/ run'.at = "healthy" /\ run'.data = d
        \/ run'.at \in {"idle", "st_load", "publish_recovery"}
    BY <2>1, <2>2, HoldShape, RaisedShape DEF Places
  <2> QED BY <1>21, <2>1, <2>3 DEF SwitchGuard, OnHost
<1>22. CASE StopLoad
  BY <1>22, RaisedShape, NotSession
  DEF Hold, Idle, NoSession, OnlyRun, Run, StopLoad
<1>23. CASE StopInspect
  BY <1>23, RaisedShape, NotSession
  DEF Check, Idle, Inspected, OnlyRun, Run, StopInspect
<1>24. CASE StopSave
  <2> DEFINE d == [run.data EXCEPT !.phase = "stopping"]
  <2>1. d \in Session /\ d.radio = run.data.radio /\ d.sta = run.data.sta
        /\ d.radioTouched = run.data.radioTouched
    BY <1>24 DEF StopSave, Session, Phases
  <2>2. Save(d, "st_publish")
    BY <1>24 DEF StopSave
  <2> HIDE DEF d
  <2>3. /\ journal' = d /\ OnJournal
        /\ \/ run'.at = "st_publish" /\ run'.data = d
           \/ run'.at \in {"idle", "st_load", "publish_recovery"}
    BY <2>1, <2>2, SaveShape DEF Places, OtherPlaces
  <2> QED BY <1>24, <2>1, <2>3, NotSession DEF StopSave, OnJournal
<1>25. CASE StopPublish
  BY <1>25, RaisedShape, NotSession
  DEF Goto, Idle, OnStatus, Proceed, Publish, Run, StopPublish
<1>26. CASE StopTable
  <2> DEFINE d == [run.data EXCEPT !.handle = TRUE]
  <2>1. run.data \in Session /\ d \in Session /\ d.radio = run.data.radio /\ d.sta = run.data.sta
        /\ d.radioTouched = run.data.radioTouched
    BY <1>26 DEF StopTable, Session
  <2> HIDE DEF d
  <2>2. CASE Save(d, "st_guard")
    <3>1. /\ journal' = d /\ OnJournal
          /\ \/ run'.at = "st_guard" /\ run'.data = d
             \/ run'.at \in {"idle", "st_load", "publish_recovery"}
      BY <2>1, <2>2, SaveShape DEF Places
    <3> QED BY <1>26, <2>1, <3>1, NotSession DEF StopTable, OnJournal
  <2>3. CASE (Goto("rb_down") \/ Goto("st_guard")) /\ OnlyRun
    BY <1>26, <2>3 DEF StopTable, OnlyRun, Goto, Run
  <2> QED BY <1>26, <2>2, <2>3 DEF StopTable, d
<1>27. CASE StopGuard
  BY <1>27, RaisedShape, NotSession
  DEF Goto, Guarded, Idle, OnHost, Proceed, Run, StopGuard
<1>28. CASE Down \/ DeleteProfile \/ DeleteInterface
  BY <1>28, RaisedShape, NotSession
  DEF Attempt, DeleteInterface, DeleteProfile, Down, Goto, Idle, Inspected,
      OnHost, Proceed, Run
<1>29. CASE ConfirmAbsent \/ DeleteTable \/ ConfirmTable
  BY <1>29, RaisedShape, NotSession
  DEF Attempt, Check, ConfirmAbsent, ConfirmTable, DeleteTable, Goto, Idle,
      Inspected, OnHost, OnlyRun, Proceed, Run
<1>30. CASE RemoveLease \/ RestoreRadio \/ SwitchRadioBack
  BY <1>30, RaisedShape, NotSession
  DEF Check, Goto, Idle, OnHost, OnWifi, OnlyRun, Proceed, RemoveLease,
      RestoreRadio, Run, SetRadio, SwitchRadioBack
<1>31. CASE ConfirmRadio
  BY <1>31, RaisedShape, NotSession
  DEF Check, ConfirmRadio, Idle, OnlyRun, Run
<1>32. CASE RestoreAutoconnect
  BY ZenonT(60), <1>32, RaisedShape, NotSession
  DEF Attempt, Goto, Idle, OnWifi, OnlyRun, Proceed, RestoreAutoconnect, Run
<1>33. CASE ConfirmAutoconnect
  BY <1>33, RaisedShape, NotSession
  DEF Check, ConfirmAutoconnect, Idle, OnlyRun, Run
<1>34. CASE Clear \/ StopReturn \/ PublishRecovery
  BY <1>34, RaisedShape, NotSession
  DEF Attempt, Clear, Goto, Idle, OnJournal, OnStatus, Proceed, Publish,
      PublishAndLeave, PublishRecovery, Run, StopReturn
<1>35. CASE TickLoad
  <2>1. CASE journal.phase = "active" /\ Hold(journal, "tick_healthy")
    <3>1. journal # NoSession
      BY <2>1 DEF NoSession
    <3>2. run'.at = "tick_healthy" /\ run'.data = journal
      BY <2>1, HoldShape DEF JournalTyped, Places, OtherPlaces
    <3> QED BY <1>35, <2>1, <3>1, <3>2 DEF TickLoad
  <2>2. CASE run' = Idle \/ run' = Call("tick")
    <3>1. Idle.at = "idle" /\ Call("tick").at = "st_load"
      BY DEF Idle, Call, Run
    <3> QED BY <1>35, <2>2, <3>1 DEF TickLoad
  <2> QED BY <1>35, <2>1, <2>2 DEF TickLoad
<1>36. CASE TickHealthy \/ TickPublish
  BY <1>36, RaisedShape, NotSession
  DEF Check, Healthy, Idle, Inspected, OnlyRun, PlanHolds, PublishAndLeave,
      Required, Run, TickHealthy, TickPublish
<1>37. CASE TickPublishError \/ Configure
  BY <1>37, RaisedShape, NotSession
  DEF Attempt, Configure, Idle, OnlyRun, PublishAndLeave, Run,
      TickPublishError
<1>38. CASE Tick
  BY <1>38, RaisedShape, NotSession
  DEF Idle, OnlyRun, Run, Tick
<1>39. CASE (\E want \in Requests : Request(want))
  BY <1>39, RaisedShape, NotSession
  DEF Idle, OnlyRun, Request, Run
<1>40. CASE WatchExit
  BY <1>40, RaisedShape, NotSession
  DEF Idle, Run, WatchExit
<1>41. CASE WatchRestart
  BY <1>41, RaisedShape, NotSession
  DEF Idle, Run, WatchRestart
<1>42. CASE Fail \/ Kill \/ KillWatch
  BY <1>42, RaisedShape, NotSession
  DEF Fail, Idle, Kill, KillWatch, OnlyRun, Run
<1>43. CASE CalmDown
  BY <1>43, RaisedShape, NotSession
  DEF CalmDown, Idle, Run
<1>44. CASE UserRadio \/ UserAutoconnect \/ LinkUp
  BY <1>44, RaisedShape, NotSession
  DEF Disturbs, Idle, LinkUp, Outside, Run, SetRadio, UserAutoconnect,
      UserRadio
<1>45. CASE LinkDown \/ UplinkChange \/ ApDrop
  BY <1>45, RaisedShape, NotSession
  DEF ApDrop, Disturbs, Idle, LinkDown, Outside, Run, UplinkChange
<1>46. CASE ApActivate \/ AlterRules \/ FlushTable
  BY <1>46, RaisedShape, NotSession
  DEF AlterRules, ApActivate, Disturbs, FlushTable, Idle, Outside, Run
<1>47. CASE EditProfile \/ SharingCleanup
  BY <1>47, RaisedShape, NotSession
  DEF Disturbs, EditProfile, Idle, Outside, Run, SharingCleanup
<1>48. CASE UNCHANGED vars
  BY <1>48 DEF vars
<1> QED
  BY <1>1, <1>2, <1>3, <1>4, <1>5, <1>6, <1>7, <1>8, <1>9, <1>10, <1>11,
     <1>12, <1>13, <1>14, <1>15, <1>16, <1>17, <1>18, <1>19, <1>20, <1>21,
     <1>22, <1>23, <1>24, <1>25, <1>26, <1>27, <1>28, <1>29, <1>30, <1>31,
     <1>32, <1>33, <1>34, <1>35, <1>36, <1>37, <1>38, <1>39, <1>40, <1>41,
     <1>42, <1>43, <1>44, <1>45, <1>46, <1>47, <1>48
  DEF Next, Progress, Start, Switch, Stop, TickSteps, Failure, Environment

LEMMA LinkInit == Init => LinkInv
  BY DEF Init, LinkInv, Idle, NoSession

\* The radio is switched off in two places, and in neither of them is a link up.
LEMMA LinkAction ==
  Typed /\ ArmedInv /\ OrphanInv /\ BaselineInv /\ LinkInv /\ [Next]_vars => [link /\ ~link' => run' = run]_vars
<1> SUFFICES ASSUME Typed, ArmedInv, OrphanInv, BaselineInv, LinkInv, [Next]_vars, link, ~link'
             PROVE  run' = run
  BY DEF vars
<1>1. CASE RadioOff \/ SwitchRadioBack \/ RadioOn
  <2>1. /\ RadioOff => ~link
        /\ RadioOn => (link' <=> link)
        /\ SwitchRadioBack => run.data.radio = journal.radio /\ (journal.radio \/ ~link)
    BY DEF RadioOff, RadioOn, SwitchRadioBack, SetRadio, At, LinkInv, BaselineInv, Journalled,
           StopPlaces, Typed, HostTyped
  <2>2. CASE RadioOff \/ RadioOn
    BY <2>1, <2>2
  <2>3. CASE SwitchRadioBack
    <3>1. link' = (link /\ run.data.radio) \/ link' = link
      BY <2>3 DEF SwitchRadioBack, SetRadio, wifi
    <3> QED BY <3>1, <2>1, <2>3
  <2> QED BY <1>1, <2>2, <2>3
<1>2. CASE LinkUp \/ LinkDown \/ UplinkChange \/ UserRadio \/ UserAutoconnect
  BY <1>2 DEF LinkUp, LinkDown, UplinkChange, UserRadio, UserAutoconnect, Outside
<1>3. CASE Load \/ Preflight \/ NewState \/ SaveStarting \/ PublishStarting \/ ArmWatch
        \/ GuardBlocked \/ SaveReceipt \/ HoldAutoconnect \/ AutoconnectNo \/ WifiIdle \/ JournalRadio
  BY <1>3 DEF Load, Preflight, NewState, SaveStarting, PublishStarting, ArmWatch, GuardBlocked,
     SaveReceipt, HoldAutoconnect, AutoconnectNo, WifiIdle, JournalRadio, Save, Publish,
     OnlyRun, OnHost, OnWifi, OnJournal, OnStatus, wifi
<1>4. CASE VerifyPlan \/ CreateInterface \/ AddProfile \/ Recheck \/ WaitReady \/ RecheckReady
        \/ Activate \/ GuardMode \/ CheckHealthy \/ SaveActive \/ PublishActive \/ Switch
  BY <1>4 DEF VerifyPlan, CreateInterface, AddProfile, Recheck, WaitReady, RecheckReady, Activate,
     GuardMode, CheckHealthy, SaveActive, PublishActive, Switch, SwitchInspect, SwitchSave,
     SwitchPublish, SwitchGuard, Save, Publish, PublishAndLeave, OnlyRun, OnHost, OnJournal, OnStatus, wifi
<1>5. CASE StopLoad \/ StopInspect \/ StopSave \/ StopPublish \/ StopTable \/ StopGuard
        \/ Down \/ DeleteProfile \/ DeleteInterface \/ ConfirmAbsent \/ DeleteTable
        \/ ConfirmTable \/ RemoveLease \/ RestoreRadio
  BY <1>5 DEF StopLoad, StopInspect, StopSave, StopPublish, StopTable, StopGuard, Down, DeleteProfile,
     DeleteInterface, ConfirmAbsent, DeleteTable, ConfirmTable, RemoveLease, RestoreRadio,
     Save, Publish, OnlyRun, OnHost, OnJournal, OnStatus, wifi
<1>6. CASE ConfirmRadio \/ RestoreAutoconnect \/ ConfirmAutoconnect \/ Clear \/ StopReturn
        \/ PublishRecovery \/ TickSteps \/ Configure
  BY <1>6 DEF ConfirmRadio, RestoreAutoconnect, ConfirmAutoconnect, Clear, StopReturn, PublishRecovery,
     TickSteps, TickLoad, TickHealthy, TickPublish, TickPublishError, Configure, Publish,
     PublishAndLeave, OnlyRun, OnJournal, OnStatus, wifi
<1>7. CASE Tick \/ (\E want \in Requests : Request(want)) \/ WatchExit \/ WatchRestart \/ Failure
  BY <1>7 DEF Tick, Request, WatchExit, WatchRestart, Failure, Fail, Kill, KillWatch, CalmDown,
     OnlyRun, wifi
<1>8. CASE ApDrop \/ ApActivate \/ AlterRules \/ FlushTable \/ EditProfile \/ SharingCleanup
  BY <1>8 DEF ApDrop, ApActivate, AlterRules, FlushTable, EditProfile, SharingCleanup, Outside
<1>9. CASE UNCHANGED vars
  BY <1>9 DEF vars
<1> QED BY <1>1, <1>2, <1>3, <1>4, <1>5, <1>6, <1>7, <1>8, <1>9
  DEF Next, Progress, Start, Stop, Environment

\* While no person touches the radio, autoconnect or a link, no step of ours cuts one
\* that came up by autoconnect, whatever fails, is killed or is retried, and whichever
\* uplinks there are (controller.py:79-87 and 167-171).
THEOREM LinkIsPreserved == HandsOff => (Spec => LinkPreserved)
<1> SUFFICES ASSUME HandsOff PROVE Spec => LinkPreserved
  OBVIOUS
<1>1. Typed /\ OrphanInv /\ ArmedInv /\ BaselineInv /\ LinkInv /\ [Next]_vars => LinkInv'
  BY LinkStep
<1> QED
  BY <1>1, LinkInit, LinkAction, TypedInvariant, OrphanInvariant, ArmedInvariant, BaselineInvariant, PTL
  DEF Spec, LinkPreserved

\* All parts of the inductive invariant together, for whatever rests on them.
THEOREM SessionIsSafe == Spec => []SafetyInv
  BY TypedInvariant, OrphanInvariant, ArmedInvariant, PhaseInvariant, StatusInvariant, RulesInvariant,
     TeardownInvariant, BaselineInvariant, PTL DEF SafetyInv
=============================================================================
