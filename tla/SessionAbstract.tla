--------------------------- MODULE SessionAbstract ---------------------------
(***************************************************************************)
(* What a hotspot session promises to the host and its user, whatever      *)
(* fails or is killed on the way: the host is changed only within a        *)
(* session; it is opened only while an operation is recorded as under way, *)
(* and first closed whenever something is taken away; an active session    *)
(* serves what it says; and when the session is over the host is clean and *)
(* the user's settings are back.                                           *)
(***************************************************************************)

CONSTANTS
  Serve,     \* what a session may let through: "local" or an uplink
  Settings,  \* the user's settings, which a session may have to change
  Alterable  \* others may alter the rules

VARIABLES
  session,  \* "none", "busy" (starting, switching, stopping), or what it serves
  host,     \* "clean", "closed" (changed, nothing let through), what is let
            \* through, or "altered" rules of others
  due       \* settings the session changed and has not put back

vars == <<session, host, due>>
-----------------------------------------------------------------------------
Init == session = "none" /\ host = "clean" /\ due = {}

Begin == session = "none" /\ session' = "busy" /\ UNCHANGED <<host, due>>

\* The only ways from the host the session found to the traffic of clients, and back.
Close ==
  /\ session = "busy" /\ host' = "closed"
  /\ UNCHANGED <<session, due>>
Open(m) ==
  /\ session = "busy" /\ host # "clean" /\ host' = m
  /\ UNCHANGED <<session, due>>
Clean ==
  /\ session = "busy" /\ host \notin Serve /\ host' = "clean"
  /\ UNCHANGED <<session, due>>

Take(x) == session = "busy" /\ due' = due \cup {x} /\ UNCHANGED <<session, host>>
Give(x) == session = "busy" /\ due' = due \ {x} /\ UNCHANGED <<session, host>>

Activate(m) == session = "busy" /\ host \in {m, "altered"} /\ session' = m /\ UNCHANGED <<host, due>>
Busy        == session \in Serve /\ session' = "busy" /\ UNCHANGED <<host, due>>
End         == session = "busy" /\ host = "clean" /\ due = {}
               /\ session' = "none" /\ UNCHANGED <<host, due>>

\* Others: the user decides about a setting, an administrator about the rules.
Overrule(x) == due' = due \ {x} /\ UNCHANGED <<session, host>>
Alter       == Alterable /\ host # "clean" /\ host' = "altered" /\ UNCHANGED <<session, due>>

Next ==
  \/ Begin \/ Close \/ Clean \/ Busy \/ End \/ Alter
  \/ \E m \in Serve : Open(m) \/ Activate(m)
  \/ \E x \in Settings : Take(x) \/ Give(x) \/ Overrule(x)

Spec == Init /\ [][Next]_vars
=============================================================================
