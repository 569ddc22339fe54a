------------------------- MODULE HotspotSessionInv --------------------------
(***************************************************************************)
(* What is true of HotspotSession between any two steps: the inductive     *)
(* strengthening of its safety properties, one part per property, by the   *)
(* place in the code the lock holder has reached.                          *)
(***************************************************************************)
EXTENDS HotspotSession

\* Places with a session on disk, and those that hold one in memory.
Journalled == StartPlaces \cup SwitchPlaces \cup TickPlaces
                \cup (StopPlaces \ {"st_load", "st_publish_off"})
                \cup {"sw_inspect", "sw_save"}
HasData    == Journalled \cup {"save_starting"}
Forgotten  == {"preflight", "new_state", "save_starting", "st_publish_off",
               "tick_publish_error"}

Undecided == {"load", "preflight", "sw_inspect"}
Decided   == {"new_state", "sw_save", "sw_publish", "sw_guard"}

HostTyped ==
  /\ table \in Rules
  /\ present \subseteq Artifacts
  /\ edited \in BOOLEAN /\ calm \in BOOLEAN
  /\ radio \in BOOLEAN /\ auto \in BOOLEAN /\ link \in BOOLEAN
  /\ uplink \in Uplinks \cup {"none"}
  /\ byUser \subseteq {"radio", "auto"}
  /\ watch \in {"off", "up", "exiting", "failed"}
JournalTyped == journal \in Session \cup {NoSession}
StatusTyped  == status \in [phase: Phases \cup {"off"}, mode: Modes]
RunTyped ==
  /\ run \in Run
  /\ run.at \in HasData => run.data \in Session
  /\ run.at \in Undecided => run.want \in {"local", "internet"}
  /\ run.at \in Decided => run.want \in Serve

Typed == HostTyped /\ JournalTyped /\ StatusTyped /\ RunTyped

Clean == table = "absent" /\ present = {}

\* For NoOrphan: where the journal must exist, and what the teardown achieved.
Emptied == {"st_radio", "st_radio_set", "st_radio_check", "st_auto", "st_auto_check", "st_clear"}
OrphanInv ==
  /\ NoOrphan
  /\ run.at \in Journalled => journal # NoSession
  /\ run.at \in Forgotten => journal = NoSession
  /\ run.at \in {"rb_table", "rb_confirm", "st_lease"} => present \subseteq {"lease"}
  /\ run.at \in {"st_lease"} \cup Emptied => table = "absent"
  /\ run.at \in Emptied => present = {}

\* The steps of start between arm_watch and the recheck of what was built.
Building == {"save_receipt", "hold_autoconnect", "autoconnect_no", "wifi_idle",
             "journal_radio", "radio_off", "verify_plan", "create_interface",
             "add_profile"}
Untouched(s) == ~s.radioTouched /\ ~s.autoTouched
SameMarks == /\ run.data.radioTouched = journal.radioTouched
             /\ run.data.autoTouched = journal.autoTouched

\* For GuardFirstLast and Supervised.
ArmedInv ==
  /\ GuardFirstLast
  /\ Supervised
  /\ run.at \in Journalled => SameMarks
  /\ run.at = "save_starting" => Untouched(run.data)
  /\ run.at \in {"publish_starting", "arm_watch", "guard_blocked"} => Clean /\ Untouched(journal)
  /\ run.at \in Building \cup {"guard_blocked"} => watch \in {"up", "failed"}
  /\ run.at \in Building /\ "flush" \notin Disturb => table # "absent"

\* For StatusHonest and RulesJournaled: the phase by then, in memory and on disk.
Announced == (StartPlaces \cup SwitchPlaces)
               \ {"publish_starting", "sw_publish", "publish_active"}
Stopping  == StopPlaces \ {"st_load", "st_inspect", "st_save", "st_publish", "st_publish_off"}
Starting  == StartPlaces \ {"healthy", "save_active", "publish_active"}
Serving   == {"publish_active", "sw_inspect", "sw_save"} \cup TickPlaces
PhaseInv ==
  /\ run.at = "save_starting" => run.data.phase = "starting"
  /\ run.at \in Journalled => run.data.phase = journal.phase
  /\ run.at \in Starting => journal.phase = "starting"
  /\ run.at \in SwitchPlaces => journal.phase = "switching"
  /\ run.at \in {"healthy", "save_active"} => journal.phase \in {"starting", "switching"}
  /\ run.at \in Serving => run.data = journal /\ journal.phase = "active"
  /\ run.at \in Stopping \cup {"st_publish"} => journal.phase = "stopping"

\* For StatusHonest: what the public status says by then.
StatusInv ==
  /\ StatusHonest
  /\ run.at \in Announced => status.phase \in {"starting", "switching"}
  /\ run.at \in Stopping => status.phase = "stopping"

\* For RulesJournaled: which rules, which digest.
RulesInv ==
  /\ RulesJournaled
  /\ run.at \in {"healthy", "save_active"} =>
       /\ run.data.digest = run.data.serve
       /\ table \in {run.data.serve, "altered", "absent"}
  /\ run.at \in StartPlaces /\ journal.phase = "starting" => run.data.serve = journal.serve

\* For TeardownBlocked: where the guard is closed, and where nothing is built yet.
Teardown == {"rb_down", "rb_profile", "rb_interface"}
Empty    == {"publish_starting", "arm_watch", "guard_blocked", "save_receipt",
             "hold_autoconnect", "autoconnect_no", "wifi_idle", "journal_radio",
             "radio_off", "verify_plan"}
TeardownInv ==
  /\ run.at \in Teardown => table \notin Serve
  /\ run.at \in Empty => present = {}

\* For BaselineRestored: the journal knows the baseline and who changed what.
Settled(s) == /\ radio = s.radio \/ "radio" \in byUser \/ s.radioTouched
              /\ auto = s.auto \/ "auto" \in byUser \/ s.autoTouched
RadioDone(s) == radio = s.radio \/ "radio" \in byUser
BaselineInv ==
  /\ journal # NoSession => Settled(journal) /\ (journal.autoTouched => journal.auto)
  /\ run.at \in Journalled => /\ run.data.radio = journal.radio
                              /\ run.data.auto = journal.auto
                              /\ run.data.sta = journal.sta
  /\ run.at = "save_starting" => Settled(run.data) /\ Untouched(run.data)
  /\ run.at \in {"radio_off", "radio_on"} => journal.radioTouched
  /\ run.at = "verify_plan" => journal.sta
  /\ run.at \in {"create_interface", "add_profile", "recheck"} => journal.sta \/ journal.radioTouched
  /\ run.at = "autoconnect_no" => journal.autoTouched
  /\ run.at \in {"st_auto", "st_auto_check", "st_clear"} => RadioDone(journal)
  /\ run.at = "st_auto_check" => journal.auto
  /\ run.at = "st_clear" => auto = journal.auto \/ "auto" \in byUser

\* For LinkPreserved, while no person touches the radio, autoconnect or the links: a
\* link comes up by autoconnect only, which is off wherever the radio is switched off.
HandsOff == Disturb \cap {"radio", "autoconnect", "userlink"} = {}
LinkInv ==
  /\ byUser = {}
  /\ run.at \in {"wifi_idle", "journal_radio", "radio_off", "radio_on"} => ~auto
  /\ run.at \in {"journal_radio", "radio_off"} => ~link
  /\ run.at \in {"create_interface", "add_profile", "recheck"} => journal.sta \/ ~auto
  /\ run.at = "st_radio_set" => journal.radioTouched /\ (journal.radio \/ ~link)
  /\ journal # NoSession /\ journal.radioTouched /\ ~journal.radio /\ radio => ~auto

SafetyInv ==
  Typed /\ OrphanInv /\ ArmedInv /\ PhaseInv /\ StatusInv /\ RulesInv /\ TeardownInv /\ BaselineInv
=============================================================================
