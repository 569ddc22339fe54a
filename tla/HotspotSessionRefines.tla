----------------------- MODULE HotspotSessionRefines ------------------------
(***************************************************************************)
(* HotspotSession seen from outside: it implements SessionAbstract, and it *)
(* moves the firewall table only in the ways GuardPolicy is checked for.   *)
(***************************************************************************)
EXTENDS HotspotSessionInv

\* The words SessionAbstract uses name no uplink.
ASSUME WordsAssumption == Uplinks \cap {"busy", "clean", "closed", "exposed"} = {}

Served == IF journal = NoSession THEN "none"
          ELSE IF journal.phase = "active" THEN journal.serve ELSE "busy"

Carriers == {"interface", "profile", "ap", "sharing"}
Exposed  == table = "absent" /\ present \cap Carriers # {}
Host     == IF table \in Serve \cup {"altered"} THEN table
            ELSE IF Clean THEN "clean" ELSE IF Exposed THEN "exposed" ELSE "closed"

RadioDue == journal # NoSession /\ radio # journal.radio /\ "radio" \notin byUser
AutoDue  == journal # NoSession /\ auto # journal.auto /\ "auto" \notin byUser
Due      == {x \in {"radio", "auto"} : (x = "radio" /\ RadioDue) \/ (x = "auto" /\ AutoDue)}

Abstract == INSTANCE SessionAbstract WITH
  session <- Served, host <- Host, due <- Due,
  Settings <- {"radio", "auto"}, Alterable <- "rules" \in Disturb

\* Unless somebody takes the table away, a session keeps the promises of
\* SessionAbstract step by step: every command, journal write, failure, kill and
\* act of the user is one of its steps or changes nothing it shows
\* (controller.py:53-177).
Implements == Abstract!Spec

\* The table is created blocked and loaded only while it exists: what GuardPolicy
\* shows about traffic over any sequence of modes is true of every session whose
\* rules nobody else alters (backend.py:94-103).
Guard == INSTANCE GuardPolicy WITH
  flows <- {}, answered <- {}, Others <- {}, Packets <- {}, MaxFlows <- 0
GuardUse == Guard!Spec
=============================================================================
