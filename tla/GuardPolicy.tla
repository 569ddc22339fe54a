----------------------------- MODULE GuardPolicy -----------------------------
(***************************************************************************)
(* The nftables guard of policy.py: the rules of every mode, first match   *)
(* decides, over the kernel's connection tracking, which outlives every    *)
(* reload of the rules.  `table' takes the values it has in                *)
(* HotspotSession; packets that do not touch the session's interface match *)
(* no rule and are left out.                                               *)
(***************************************************************************)
EXTENDS Naturals, FiniteSets, Sequences

CONSTANTS
  Uplinks,  \* interfaces an internet session may forward to
  Others,   \* every other interface (docker0, tailscale0, ...)
  Packets,  \* the packets that are sent
  MaxFlows  \* bound: flows that are tracked at the same time

Ifaces == {"vif", "host"} \cup Uplinks \cup Others

\* "client" is every address of SUBNET but the host's own, "cast" the broadcast or
\* multicast address that goes with the port, "special" the other non-routable
\* ranges, "public" all the rest, RFC 1918 included.
Subnet    == {"client", "gateway"}
V4        == Subnet \cup {"zero", "cast", "special", "public"}
Addresses == V4 \cup {"v6"}

\* Ports of TCP and UDP alike; "announce" is 36475, "names" 5353 or 5355.
Ports == {"dns", "dhcp_client", "dhcp_server", "icmp", "app", "announce", "names", "any"}

Packet == [in: Ifaces, out: Ifaces, src: Addresses, dst: Addresses, sport: Ports, dport: Ports]

\* The host sends under its own address, and its routes take only the session's subnet
\* and its broadcasts to the session's interface; the kernel forwards nothing whose
\* source is 0.0.0.0; a packet to an IPv6 address has an IPv6 source.
ASSUME PacketAssumption ==
  /\ Packets \subseteq Packet
  /\ \A p \in Packets :
       /\ "vif" \in {p.in, p.out}
       /\ p.in = "host" => p.src \in {"gateway", "v6"} /\ p.dst \in Subnet \cup {"cast", "v6"}
       /\ p.in \in Uplinks \cup Others => p.src # "zero"
       /\ p.dst = "v6" => p.src = "v6"
ASSUME IfaceAssumption ==
  /\ Uplinks \cap ({"vif", "host", "absent", "blocked", "local"} \cup Others) = {}
  /\ Others \cap {"vif", "host"} = {}
  /\ MaxFlows \in Nat

VARIABLES
  table,    \* "absent", "blocked", "local" or the uplink that is let through
  flows,    \* tracked connections, as the addresses and ports of their first packet
  answered  \* those that have seen a packet in the other direction

vars == <<table, flows, answered>>
-----------------------------------------------------------------------------
(* rules(): what each chain says. *)

Any  == [in |-> Ifaces, out |-> Ifaces, src |-> Addresses, dst |-> Addresses,
         sport |-> Ports, dport |-> Ports, ct |-> {"new", "established"}]
From == [Any EXCEPT !.in = {"vif"}]
To   == [Any EXCEPT !.out = {"vif"}]

Accept(match) == [match |-> match, accept |-> TRUE]
Drop(match)   == [match |-> match, accept |-> FALSE]
When(condition, rules) == IF condition THEN rules ELSE <<>>

Greet == <<
  Accept([From EXCEPT !.dst = {"gateway"}, !.ct = {"established"}]),
  Accept([From EXCEPT !.dst = {"gateway"}, !.dport = {"icmp"}]),
  Accept([From EXCEPT !.dst = {"gateway"}, !.dport = {"app"}]),
  Accept([From EXCEPT !.dst = {"gateway", "cast"}, !.dport = {"announce"}]),
  Accept([From EXCEPT !.dst = {"cast"}, !.dport = {"names"}]) >>

DnsIn(mode) ==
  IF mode = "local" THEN << Drop([From EXCEPT !.dport = {"dns"}]) >>
                    ELSE << Accept([From EXCEPT !.dst = {"gateway"}, !.dport = {"dns"}]) >>

Lease == <<
  Accept([From EXCEPT !.src = {"zero"} \cup Subnet, !.sport = {"dhcp_client"}, !.dport = {"dhcp_server"}]),
  Drop([From EXCEPT !.src = V4 \ Subnet]) >>

\* Mutants: established flows come before DNS, and spoofed sources after the services.
InputGuardEstablished(mode) ==
  << Drop([From EXCEPT !.src = {"v6"}]) >>
  \o When(mode # "blocked", Lease \o Greet \o DnsIn(mode))
  \o << Drop(From) >>
InputGuardSpoofed(mode) ==
  << Drop([From EXCEPT !.src = {"v6"}]) >>
  \o When(mode # "blocked", <<Lease[1]>> \o DnsIn(mode) \o Greet \o <<Lease[2]>>)
  \o << Drop(From) >>

InputGuard(mode) ==
  << Drop([From EXCEPT !.src = {"v6"}]) >>
  \o When(mode # "blocked", Lease \o DnsIn(mode) \o Greet)
  \o << Drop(From) >>

Peers == << Accept([From EXCEPT !.out = {"vif"}, !.dst = Subnet]) >>

\* Mutant: whatever arrives over the uplink may open a flow to a client.
InternetOpen(uplink) == <<
  Drop([From EXCEPT !.dst = {"zero", "cast", "special"}]),
  Accept([From EXCEPT !.out = {uplink}]),
  Accept([To EXCEPT !.in = {uplink}, !.dst = Subnet]) >>

Internet(uplink) == <<
  Drop([From EXCEPT !.dst = {"zero", "cast", "special"}]),
  Accept([From EXCEPT !.out = {uplink}]),
  Accept([To EXCEPT !.in = {uplink}, !.dst = Subnet, !.ct = {"established"}]) >>

ForwardGuard(mode) ==
  << Drop([From EXCEPT !.src = {"v6"}]), Drop([To EXCEPT !.src = {"v6"}]),
     Drop([From EXCEPT !.src = V4 \ Subnet]) >>
  \o When(mode # "blocked", Peers)
  \o When(mode \in Uplinks, Internet(mode))
  \o << Drop(From), Drop(To) >>

\* Mutant: what the host sends is dropped unless the mode is internet.
OutputGuardClosed(mode) ==
  << Drop([To EXCEPT !.src = {"v6"}]) >> \o When(mode \notin Uplinks, << Drop(To) >>)

OutputGuard(mode) ==
  << Drop([To EXCEPT !.src = {"v6"}]) >>
  \o When(mode = "local", << Drop([To EXCEPT !.sport = {"dns"}]) >>)
  \o When(mode = "blocked", << Drop(To) >>)

Modes == {"blocked", "local"} \cup Uplinks
Rules == [mode \in Modes |-> [input |-> InputGuard(mode), forward |-> ForwardGuard(mode),
                              output |-> OutputGuard(mode)]]
-----------------------------------------------------------------------------
(* The kernel: hooks, first match, connection tracking. *)

Hook(p) == IF p.out = "host" THEN "input" ELSE IF p.in = "host" THEN "output" ELSE "forward"

Ends(p)    == [src |-> p.src, dst |-> p.dst, sport |-> p.sport, dport |-> p.dport]
Reverse(e) == [src |-> e.dst, dst |-> e.src, sport |-> e.dport, dport |-> e.sport]
IsReply(p) == Reverse(Ends(p)) \in flows
Ct(p)      == IF IsReply(p) \/ Ends(p) \in answered THEN "established" ELSE "new"

Matches(rule, p) ==
  /\ p.in \in rule.match.in /\ p.out \in rule.match.out
  /\ p.src \in rule.match.src /\ p.dst \in rule.match.dst
  /\ p.sport \in rule.match.sport /\ p.dport \in rule.match.dport
  /\ Ct(p) \in rule.match.ct

\* First match decides, and policy accept lets go on what no rule matches: every drop
\* that matches stands behind an accept that does.
Decides(chain, p) ==
  LET hits == {i \in DOMAIN chain : Matches(chain[i], p)}
  IN  \A i \in hits : ~chain[i].accept => \E j \in hits : j < i /\ chain[j].accept
Passes(p) == Decides(Rules[table][Hook(p)], p)

Send(p) ==
  /\ table # "absent"
  /\ Passes(p)
  /\ IF IsReply(p)
       THEN answered' = answered \cup {Reverse(Ends(p))} /\ UNCHANGED flows
       ELSE /\ Cardinality(flows \cup {Ends(p)}) <= MaxFlows
            /\ flows' = flows \cup {Ends(p)} /\ UNCHANGED answered
  /\ UNCHANGED table

Expire(e) ==
  /\ flows' = flows \ {e} /\ answered' = answered \ {e}
  /\ UNCHANGED table
-----------------------------------------------------------------------------
(* nft_program: one transaction that creates the table, or flushes and      *)
(* refills its chains; and the deletion of the table.                       *)

Create == table = "absent" /\ table' = "blocked" /\ UNCHANGED <<flows, answered>>

\* Mutant: any interface name is taken for an uplink.
LoadAny(mode) ==
  /\ table # "absent"
  /\ table' \in {mode} \cup Others
  /\ UNCHANGED <<flows, answered>>

Load(mode) ==
  /\ table # "absent"
  /\ table' = mode
  /\ UNCHANGED <<flows, answered>>

Delete == table # "absent" /\ table' = "absent" /\ UNCHANGED <<flows, answered>>

Init == table = "absent" /\ flows = {} /\ answered = {}

Next ==
  \/ Create \/ Delete
  \/ \E mode \in Modes : Load(mode)
  \/ \E p \in Packets : Send(p)
  \/ \E e \in flows : Expire(e)

Spec == Init /\ [][Next]_vars

TypeOK ==
  /\ table \in {"absent"} \cup Modes
  /\ flows \subseteq {Ends(p) : p \in Packets}
  /\ answered \subseteq flows
-----------------------------------------------------------------------------
Dns(p)     == (p.out = "host" /\ p.dport = "dns") \/ (p.in = "host" /\ p.sport = "dns")
Crosses(p) == {p.in, p.out} \cap (Uplinks \cup Others) # {}

\* A downgrade closes what the mode before it let be established: in local mode
\* neither DNS with the host nor anything from or to another interface passes,
\* and in blocked mode nothing (policy.py:30).
DowngradeCloses ==
  \A p \in Packets :
    table = "blocked" \/ (table = "local" /\ (Dns(p) \/ Crosses(p))) => ~Passes(p)

\* Nothing outside ever opens a flow to a client, over whatever sequence of modes
\* and uplinks, and a spoofed or IPv6 source opens none at all.
ClientsOpenFlows ==
  \A e \in flows : e.src \in Subnet \/ (e.src = "zero" /\ e.dport = "dhcp_server")

\* Only the uplink of the mode carries traffic, and it brings in only the answers
\* to flows that a client opened: no other interface, whatever was established.
OnlyUplink ==
  \A p \in Packets : table # "absent" /\ Crosses(p) /\ Passes(p) =>
    /\ table \in Uplinks /\ table \in {p.in, p.out}
    /\ p.out = "vif" => \E e \in flows : e.src \in Subnet /\ Ends(p) \in {e, Reverse(e)}

\* A flow that the rules in force let begin gets its answers back, from whoever it
\* is addressed to: a broadcast or multicast address answers nothing.
Answer(p) == [in |-> p.out, out |-> p.in, src |-> p.dst, dst |-> p.src, sport |-> p.dport, dport |-> p.sport]
RepliesReturn ==
  \A p \in Packets :
    table # "absent" /\ p.dst # "cast" /\ Ends(p) \in flows /\ Passes(p) => Passes(Answer(p))
=============================================================================
