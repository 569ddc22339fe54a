-------------------------- MODULE GuardPolicyProofs --------------------------
(***************************************************************************)
(* What the guard lets through, proved for every set of interfaces and of  *)
(* packets.  A chain is taken apart into its pieces: one that accepts      *)
(* nothing of a packet is Silent about it, and a packet that a piece drops *)
(* behind silent pieces only is dropped by the chain (lemma Join); a piece *)
(* that Lets it through does so whatever follows (lemma Pass).             *)
(***************************************************************************)
EXTENDS GuardPolicy, TLAPS

Match == [in: SUBSET Ifaces, out: SUBSET Ifaces, src: SUBSET Addresses, dst: SUBSET Addresses,
          sport: SUBSET Ports, dport: SUBSET Ports, ct: SUBSET {"new", "established"}]
Rule  == [match: Match, accept: BOOLEAN]

Silent(chain, p) == \A i \in DOMAIN chain : chain[i].accept => ~Matches(chain[i], p)
Lets(chain, p)   == Decides(chain, p) /\ ~Silent(chain, p)

-----------------------------------------------------------------------------
(* Chains. *)

(* The parts of a concatenation decide for the whole of it, which is how        *)
(* policy.py:29-68 builds its chains.                                           *)
LEMMA Join ==
  ASSUME NEW A \in Seq(Rule), NEW B \in Seq(Rule), NEW p
  PROVE  /\ A \o B \in Seq(Rule)
         /\ ~Decides(A, p) => ~Decides(A \o B, p)
         /\ Silent(A, p) /\ ~Decides(B, p) => ~Decides(A \o B, p)
         /\ Silent(A, p) /\ Silent(B, p) => Silent(A \o B, p)
<1> DEFINE C == A \o B
<1>1. /\ C \in Seq(Rule)
      /\ Len(A) \in Nat /\ Len(B) \in Nat
      /\ DOMAIN A = 1 .. Len(A) /\ DOMAIN B = 1 .. Len(B) /\ DOMAIN C = 1 .. (Len(A) + Len(B))
      /\ \A i \in DOMAIN A : C[i] = A[i]
      /\ \A i \in DOMAIN B : C[Len(A) + i] = B[i]
  OBVIOUS
<1>2. \A k \in DOMAIN C : k \in DOMAIN A \/ (\E i \in DOMAIN B : k = Len(A) + i)
  <2> SUFFICES ASSUME NEW k \in DOMAIN C, k \notin DOMAIN A
               PROVE  \E i \in DOMAIN B : k = Len(A) + i
    OBVIOUS
  <2> WITNESS k - Len(A) \in DOMAIN B
  <2> QED BY <1>1
<1> HIDE DEF C
<1>3. ASSUME ~Decides(A, p) PROVE ~Decides(C, p)
  <2>1. PICK i \in DOMAIN A :
          /\ Matches(A[i], p) /\ ~A[i].accept
          /\ \A j \in DOMAIN A : Matches(A[j], p) /\ A[j].accept => ~(j < i)
    BY <1>3 DEF Decides
  <2>2. i \in DOMAIN C /\ C[i] = A[i]
    BY <1>1
  <2>3. \A j \in DOMAIN C : j < i => j \in DOMAIN A /\ C[j] = A[j]
    BY <1>1
  <2> QED BY <2>1, <2>2, <2>3 DEF Decides
<1>4. ASSUME Silent(A, p), ~Decides(B, p) PROVE ~Decides(C, p)
  <2>1. PICK i \in DOMAIN B :
          /\ Matches(B[i], p) /\ ~B[i].accept
          /\ \A j \in DOMAIN B : Matches(B[j], p) /\ B[j].accept => ~(j < i)
    BY <1>4 DEF Decides
  <2>2. Len(A) + i \in DOMAIN C /\ C[Len(A) + i] = B[i]
    BY <1>1
  <2>3. ASSUME NEW j \in DOMAIN C, j < Len(A) + i, Matches(C[j], p) PROVE ~C[j].accept
    <3>1. CASE j \in DOMAIN A
      BY <3>1, <2>3, <1>1, <1>4 DEF Silent
    <3>2. CASE j \notin DOMAIN A
      <4>1. PICK k \in DOMAIN B : j = Len(A) + k
        BY <3>2, <1>2
      <4>2. k < i /\ C[j] = B[k]
        BY <4>1, <2>3, <1>1
      <4> QED BY <4>2, <2>1, <2>3
    <3> QED BY <3>1, <3>2
  <2> QED BY <2>1, <2>2, <2>3 DEF Decides
<1>5. ASSUME Silent(A, p), Silent(B, p) PROVE Silent(C, p)
  <2> SUFFICES ASSUME NEW k \in DOMAIN C, C[k].accept PROVE ~Matches(C[k], p)
    BY DEF Silent
  <2>1. CASE k \in DOMAIN A
    BY <2>1, <1>1, <1>5 DEF Silent
  <2>2. CASE k \notin DOMAIN A
    <3>1. PICK i \in DOMAIN B : k = Len(A) + i
      BY <2>2, <1>2
    <3> QED BY <3>1, <1>1, <1>5 DEF Silent
  <2> QED BY <2>1, <2>2
<1> QED BY <1>1, <1>3, <1>4, <1>5 DEF C

(* A part that lets a packet through does so for the whole, and parts that drop  *)
(* nothing of it make a whole that does not.                                    *)
LEMMA Pass ==
  ASSUME NEW A \in Seq(Rule), NEW B \in Seq(Rule), NEW p
  PROVE  /\ Decides(A, p) /\ Decides(B, p) => Decides(A \o B, p)
         /\ Lets(A, p) => Lets(A \o B, p)
         /\ Decides(A, p) /\ Lets(B, p) => Lets(A \o B, p)
<1> DEFINE C == A \o B
<1>1. /\ C \in Seq(Rule)
      /\ Len(A) \in Nat /\ Len(B) \in Nat
      /\ DOMAIN A = 1 .. Len(A) /\ DOMAIN B = 1 .. Len(B) /\ DOMAIN C = 1 .. (Len(A) + Len(B))
      /\ \A i \in DOMAIN A : C[i] = A[i]
      /\ \A i \in DOMAIN B : C[Len(A) + i] = B[i]
  OBVIOUS
<1>2. \A k \in DOMAIN C : k \in DOMAIN A \/ (\E i \in DOMAIN B : k = Len(A) + i)
  <2> SUFFICES ASSUME NEW k \in DOMAIN C, k \notin DOMAIN A
               PROVE  \E i \in DOMAIN B : k = Len(A) + i
    OBVIOUS
  <2> WITNESS k - Len(A) \in DOMAIN B
  <2> QED BY <1>1
<1> HIDE DEF C
<1>3. ASSUME Decides(A, p), NEW k \in DOMAIN A, Matches(C[k], p), ~C[k].accept
      PROVE  \E j \in DOMAIN C : j < k /\ Matches(C[j], p) /\ C[j].accept
  <2>1. Matches(A[k], p) /\ ~A[k].accept
    BY <1>1, <1>3
  <2>2. PICK j \in DOMAIN A : j < k /\ Matches(A[j], p) /\ A[j].accept
    BY <1>3, <2>1 DEF Decides
  <2>3. j \in DOMAIN C /\ C[j] = A[j]
    BY <1>1
  <2> QED BY <2>2, <2>3
<1>4. ASSUME Decides(B, p), NEW i \in DOMAIN B, Matches(B[i], p), ~B[i].accept
      PROVE  \E j \in DOMAIN C : j < Len(A) + i /\ Matches(C[j], p) /\ C[j].accept
  <2>1. PICK j \in DOMAIN B : j < i /\ Matches(B[j], p) /\ B[j].accept
    BY <1>4 DEF Decides
  <2>2. Len(A) + j \in DOMAIN C /\ C[Len(A) + j] = B[j] /\ Len(A) + j < Len(A) + i
    BY <2>1, <1>1
  <2> QED BY <2>1, <2>2
<1>5. ASSUME ~Silent(A, p), NEW i \in DOMAIN B
      PROVE  \E j \in DOMAIN C : j < Len(A) + i /\ Matches(C[j], p) /\ C[j].accept
  <2>1. PICK j \in DOMAIN A : Matches(A[j], p) /\ A[j].accept
    BY <1>5 DEF Silent
  <2>2. j \in DOMAIN C /\ C[j] = A[j] /\ j < Len(A) + i
    BY <1>1
  <2> QED BY <2>1, <2>2
<1>6. ASSUME Decides(A, p), Decides(B, p) \/ ~Silent(A, p) PROVE Decides(C, p)
  <2> SUFFICES ASSUME NEW k \in DOMAIN C, Matches(C[k], p), ~C[k].accept
               PROVE  \E j \in DOMAIN C : j < k /\ Matches(C[j], p) /\ C[j].accept
    BY DEF Decides
  <2>1. CASE k \in DOMAIN A
    BY <2>1, <1>3, <1>6
  <2>2. CASE k \notin DOMAIN A
    <3>1. PICK i \in DOMAIN B : k = Len(A) + i
      BY <2>2, <1>2
    <3>2. Matches(B[i], p) /\ ~B[i].accept
      BY <3>1, <1>1
    <3> QED BY <3>1, <3>2, <1>4, <1>5, <1>6
  <2> QED BY <2>1, <2>2
<1>7. ~Silent(A, p) \/ ~Silent(B, p) => ~Silent(C, p)
  <2>1. ASSUME NEW j \in DOMAIN A, Matches(A[j], p), A[j].accept PROVE ~Silent(C, p)
    <3>1. j \in DOMAIN C /\ C[j] = A[j]
      BY <1>1
    <3> QED BY <2>1, <3>1 DEF Silent
  <2>2. ASSUME NEW j \in DOMAIN B, Matches(B[j], p), B[j].accept PROVE ~Silent(C, p)
    <3>1. Len(A) + j \in DOMAIN C /\ C[Len(A) + j] = B[j]
      BY <1>1
    <3> QED BY <2>2, <3>1 DEF Silent
  <2> QED BY <2>1, <2>2 DEF Silent
<1>8. /\ Decides(A, p) /\ Decides(B, p) => Decides(C, p)
      /\ Lets(A, p) => Lets(C, p)
      /\ Decides(A, p) /\ Lets(B, p) => Lets(C, p)
  BY <1>6, <1>7, Zenon DEF Lets
<1> QED BY <1>8 DEF C

(* One rule alone.                                                              *)
LEMMA One ==
  ASSUME NEW r \in Rule, NEW p
  PROVE  /\ <<r>> \in Seq(Rule)
         /\ Decides(<<r>>, p) <=> (Matches(r, p) => r.accept)
         /\ Silent(<<r>>, p) <=> (r.accept => ~Matches(r, p))
<1>1. DOMAIN <<r>> = {1} /\ <<r>>[1] = r
  OBVIOUS
<1>2. \A i, j \in {1} : ~(i < j)
  OBVIOUS
<1> QED BY <1>1, <1>2 DEF Decides, Silent

(* No rule at all.                                                              *)
LEMMA None == ASSUME NEW p PROVE <<>> \in Seq(Rule) /\ Silent(<<>>, p)
  BY DEF Silent

(* A chain decides for a packet that matches none of its drops.                 *)
LEMMA Undropped ==
  ASSUME NEW A, NEW p, \A i \in DOMAIN A : ~A[i].accept => ~Matches(A[i], p)
  PROVE  Decides(A, p)
  BY DEF Decides

(* A chain of drops only: it accepts nothing, and drops what any of them matches. *)
LEMMA Drops ==
  ASSUME NEW A \in Seq(Rule), \A i \in DOMAIN A : ~A[i].accept, NEW p
  PROVE  /\ Silent(A, p)
         /\ (\E i \in DOMAIN A : Matches(A[i], p)) => ~Decides(A, p)
  BY DEF Silent, Decides

(* Every piece of policy.py's chains is a sequence of rules.                    *)
LEMMA Pieces ==
  /\ Any \in Match /\ From \in Match /\ To \in Match
  /\ Lease \in Seq(Rule) /\ Greet \in Seq(Rule) /\ Peers \in Seq(Rule)
  /\ \A mode \in Modes : DnsIn(mode) \in Seq(Rule)
  /\ \A mode \in Uplinks : Internet(mode) \in Seq(Rule)
<1>1. Any \in Match /\ From \in Match /\ To \in Match
  BY DEF Any, From, To, Match, Ifaces
<1>2. \A m \in Match : Accept(m) \in Rule /\ Drop(m) \in Rule
  BY DEF Accept, Drop, Rule
<1>3. Subnet \subseteq Addresses /\ V4 \subseteq Addresses
  BY DEF Subnet, V4, Addresses
<1>4. Lease \in Seq(Rule)
  <2>1. [From EXCEPT !.src = {"zero"} \cup Subnet, !.sport = {"dhcp_client"}, !.dport = {"dhcp_server"}] \in Match
    BY <1>1, <1>3 DEF Match, Ports, V4, Addresses
  <2>2. [From EXCEPT !.src = V4 \ Subnet] \in Match
    BY <1>1, <1>3 DEF Match
  <2> QED BY <2>1, <2>2, <1>2 DEF Lease
<1>5. Greet \in Seq(Rule)
  <2>1. /\ [From EXCEPT !.dst = {"gateway"}, !.ct = {"established"}] \in Match
        /\ [From EXCEPT !.dst = {"gateway"}, !.dport = {"icmp"}] \in Match
        /\ [From EXCEPT !.dst = {"gateway"}, !.dport = {"app"}] \in Match
    BY <1>1 DEF Match, Ports, Addresses, V4, Subnet
  <2>2. /\ [From EXCEPT !.dst = {"gateway", "cast"}, !.dport = {"announce"}] \in Match
        /\ [From EXCEPT !.dst = {"cast"}, !.dport = {"names"}] \in Match
    BY <1>1 DEF Match, Ports, Addresses, V4, Subnet
  <2> QED BY <2>1, <2>2, <1>2 DEF Greet
<1>6. Peers \in Seq(Rule)
  <2>1. [From EXCEPT !.out = {"vif"}, !.dst = Subnet] \in Match
    BY <1>1, <1>3 DEF Match, Ifaces
  <2> QED BY <2>1, <1>2 DEF Peers
<1>7. ASSUME NEW mode \in Modes PROVE DnsIn(mode) \in Seq(Rule)
  <2>1. /\ [From EXCEPT !.dport = {"dns"}] \in Match
        /\ [From EXCEPT !.dst = {"gateway"}, !.dport = {"dns"}] \in Match
    BY <1>1 DEF Match, Ports, Addresses, V4, Subnet
  <2> QED BY <2>1, <1>2 DEF DnsIn
<1>8. ASSUME NEW mode \in Uplinks PROVE Internet(mode) \in Seq(Rule)
  <2>1. /\ [From EXCEPT !.dst = {"zero", "cast", "special"}] \in Match
        /\ [From EXCEPT !.out = {mode}] \in Match
        /\ [To EXCEPT !.in = {mode}, !.dst = Subnet, !.ct = {"established"}] \in Match
    BY <1>1, <1>3 DEF Match, Ifaces, Addresses, V4
  <2> QED BY <2>1, <1>2 DEF Internet
<1> QED BY <1>1, <1>4, <1>5, <1>6, <1>7, <1>8

(* What the rules that decide in the proofs below say.                          *)
LEMMA Shapes ==
  /\ DOMAIN Lease = {1, 2} /\ ~Lease[2].accept
  /\ Lease[1].match.src = {"zero"} \cup Subnet /\ Lease[1].match.dport = {"dhcp_server"}
  /\ Lease[2].match = [From EXCEPT !.src = V4 \ Subnet]
  /\ DOMAIN DnsIn("local") = {1} /\ ~DnsIn("local")[1].accept
  /\ DnsIn("local")[1].match = [From EXCEPT !.dport = {"dns"}]
  /\ DOMAIN Peers = {1} /\ Peers[1].match.in = {"vif"} /\ Peers[1].match.out = {"vif"}
  /\ \A uplink : /\ DOMAIN Internet(uplink) = {1, 2, 3} /\ ~Internet(uplink)[1].accept
                 /\ Internet(uplink)[2].match.in = {"vif"}
                 /\ Internet(uplink)[2].match.out = {uplink}
                 /\ Internet(uplink)[3].match.in = {uplink}
                 /\ Internet(uplink)[3].match.dst = Subnet
                 /\ Internet(uplink)[3].match.ct = {"established"}
<1>1. /\ DOMAIN From = {"in", "out", "src", "dst", "sport", "dport", "ct"}
      /\ DOMAIN To = {"in", "out", "src", "dst", "sport", "dport", "ct"}
      /\ From.in = {"vif"} /\ To.out = {"vif"}
  BY DEF From, To, Any
<1>2. \A m : Accept(m).match = m /\ Drop(m).match = m /\ ~Drop(m).accept
  BY DEF Accept, Drop
<1>3. /\ DOMAIN Lease = {1, 2}
      /\ Lease[1] = Accept([From EXCEPT !.src = {"zero"} \cup Subnet, !.sport = {"dhcp_client"},
                                        !.dport = {"dhcp_server"}])
      /\ Lease[2] = Drop([From EXCEPT !.src = V4 \ Subnet])
  BY DEF Lease
<1>4. /\ DOMAIN DnsIn("local") = {1} /\ DnsIn("local")[1] = Drop([From EXCEPT !.dport = {"dns"}])
  BY DEF DnsIn
<1>5. /\ DOMAIN Peers = {1} /\ Peers[1] = Accept([From EXCEPT !.out = {"vif"}, !.dst = Subnet])
  BY DEF Peers
<1>6. ASSUME NEW uplink
      PROVE  /\ DOMAIN Internet(uplink) = {1, 2, 3}
             /\ Internet(uplink)[1] = Drop([From EXCEPT !.dst = {"zero", "cast", "special"}])
             /\ Internet(uplink)[2] = Accept([From EXCEPT !.out = {uplink}])
             /\ Internet(uplink)[3] = Accept([To EXCEPT !.in = {uplink}, !.dst = Subnet,
                                                        !.ct = {"established"}])
  BY DEF Internet
<1>7. /\ Lease[1].match.src = {"zero"} \cup Subnet /\ Lease[1].match.dport = {"dhcp_server"}
      /\ Lease[2].match = [From EXCEPT !.src = V4 \ Subnet] /\ ~Lease[2].accept
  <2> DEFINE m == [From EXCEPT !.src = {"zero"} \cup Subnet, !.sport = {"dhcp_client"},
                               !.dport = {"dhcp_server"}]
             n == [From EXCEPT !.src = V4 \ Subnet]
  <2>1. m.src = {"zero"} \cup Subnet /\ m.dport = {"dhcp_server"}
    BY <1>1
  <2>2. Lease[1] = Accept(m) /\ Lease[2] = Drop(n)
    BY <1>3
  <2> HIDE DEF m, n
  <2>3. Lease[1].match = m /\ Lease[2].match = n /\ ~Lease[2].accept
    BY <1>2, <2>2
  <2> QED BY <2>1, <2>3 DEF n
<1>8. /\ ~DnsIn("local")[1].accept /\ DnsIn("local")[1].match = [From EXCEPT !.dport = {"dns"}]
  <2> DEFINE m == [From EXCEPT !.dport = {"dns"}]
  <2>1. DnsIn("local")[1] = Drop(m)
    BY <1>4
  <2> HIDE DEF m
  <2>2. ~DnsIn("local")[1].accept /\ DnsIn("local")[1].match = m
    BY <1>2, <2>1
  <2> QED BY <2>2 DEF m
<1>9. Peers[1].match.in = {"vif"} /\ Peers[1].match.out = {"vif"}
  <2> DEFINE m == [From EXCEPT !.out = {"vif"}, !.dst = Subnet]
  <2>1. m.in = {"vif"} /\ m.out = {"vif"} /\ Peers[1] = Accept(m)
    BY <1>1, <1>5
  <2> HIDE DEF m
  <2> QED BY <1>2, <2>1
<1>10. ASSUME NEW uplink
       PROVE  /\ ~Internet(uplink)[1].accept
              /\ Internet(uplink)[2].match.in = {"vif"}
              /\ Internet(uplink)[2].match.out = {uplink}
              /\ Internet(uplink)[3].match.in = {uplink}
              /\ Internet(uplink)[3].match.dst = Subnet
              /\ Internet(uplink)[3].match.ct = {"established"}
  <2> DEFINE d == [From EXCEPT !.dst = {"zero", "cast", "special"}]
             f == [From EXCEPT !.out = {uplink}]
             t == [To EXCEPT !.in = {uplink}, !.dst = Subnet, !.ct = {"established"}]
  <2>1. f.in = {"vif"} /\ f.out = {uplink}
    BY <1>1
  <2>2. t.in = {uplink} /\ t.dst = Subnet /\ t.ct = {"established"}
    BY <1>1
  <2>3. /\ Internet(uplink)[1] = Drop(d) /\ Internet(uplink)[2] = Accept(f)
        /\ Internet(uplink)[3] = Accept(t)
    BY <1>6
  <2> HIDE DEF d, f, t
  <2>4. ~Internet(uplink)[1].accept /\ Internet(uplink)[2].match = f /\ Internet(uplink)[3].match = t
    BY <1>2, <2>3
  <2> QED BY <2>1, <2>2, <2>4
<1> QED BY <1>3, <1>4, <1>5, <1>6, <1>7, <1>8, <1>9, <1>10
-----------------------------------------------------------------------------
(* The chains. *)

(* The ends of the three chains: the drops of sources they begin with, and those *)
(* of everything else.                                                          *)
Sources == << Drop([From EXCEPT !.src = {"v6"}]), Drop([To EXCEPT !.src = {"v6"}]),
              Drop([From EXCEPT !.src = V4 \ Subnet]) >>
Rest    == << Drop(From), Drop(To) >>

(* A packet of the session's interface, and where it is hooked.                 *)
LEMMA Hooked ==
  ASSUME NEW p \in Packets
  PROVE  /\ p \in Packet /\ Ct(p) \in {"new", "established"}
         /\ Hook(p) = "input" => p.out = "host" /\ p.in = "vif"
         /\ Hook(p) = "output" => p.in = "host" /\ p.out = "vif" /\ p.src \in {"gateway", "v6"}
         /\ Hook(p) = "forward" => p.out # "host" /\ p.in # "host" /\ "vif" \in {p.in, p.out}
         /\ Hook(p) \in {"input", "output", "forward"}
  BY PacketAssumption DEF Packet, Hook, Ct

(* The drops at the beginning of the forward chain, and at its end, accept      *)
(* nothing; the first take IPv6 and spoofed sources, the second whatever is left. *)
LEMMA Brackets ==
  ASSUME NEW p \in Packet, Ct(p) \in {"new", "established"}
  PROVE  /\ Sources \in Seq(Rule) /\ Rest \in Seq(Rule)
         /\ Silent(Sources, p) /\ Silent(Rest, p)
         /\ "vif" \in {p.in, p.out} /\ p.src = "v6" => ~Decides(Sources, p)
         /\ p.in = "vif" /\ p.src \notin Subnet => ~Decides(Sources, p)
         /\ "vif" \in {p.in, p.out} => ~Decides(Rest, p)
<1>1. Sources \in Seq(Rule) /\ Rest \in Seq(Rule)
  <2>1. /\ [From EXCEPT !.src = {"v6"}] \in Match /\ [To EXCEPT !.src = {"v6"}] \in Match
        /\ [From EXCEPT !.src = V4 \ Subnet] \in Match
    BY Pieces DEF Match, Addresses
  <2>2. \A m \in Match : Drop(m) \in Rule
    BY DEF Drop, Rule
  <2> QED BY <2>1, <2>2, Pieces DEF Sources, Rest
<1>2. /\ DOMAIN Sources = {1, 2, 3} /\ \A i \in DOMAIN Sources : ~Sources[i].accept
      /\ DOMAIN Rest = {1, 2} /\ \A i \in DOMAIN Rest : ~Rest[i].accept
  BY DEF Sources, Rest, Drop
<1>3. ASSUME "vif" \in {p.in, p.out}, p.src = "v6"
      PROVE  \E i \in DOMAIN Sources : Matches(Sources[i], p)
  <2>1. CASE p.in = "vif"
    <3>1. Matches(Sources[1], p)
      BY <2>1, <1>3 DEF Sources, Drop, Matches, From, Any, Packet
    <3> QED BY <3>1, <1>2
  <2>2. CASE p.out = "vif"
    <3>1. Matches(Sources[2], p)
      BY <2>2, <1>3 DEF Sources, Drop, Matches, To, Any, Packet
    <3> QED BY <3>1, <1>2
  <2> QED BY <1>3, <2>1, <2>2
<1>4. ASSUME p.in = "vif", p.src \notin Subnet
      PROVE  \E i \in DOMAIN Sources : Matches(Sources[i], p)
  <2>1. CASE p.src = "v6"
    BY <2>1, <1>3, <1>4
  <2>2. CASE p.src # "v6"
    <3>1. p.src \in V4 \ Subnet
      BY <2>2, <1>4 DEF Packet, Addresses
    <3>2. Matches(Sources[3], p)
      BY <3>1, <1>4 DEF Sources, Drop, Matches, From, Any, Packet
    <3> QED BY <3>2, <1>2
  <2> QED BY <2>1, <2>2
<1>5. ASSUME "vif" \in {p.in, p.out} PROVE \E i \in DOMAIN Rest : Matches(Rest[i], p)
  <2>1. CASE p.in = "vif"
    <3>1. Matches(Rest[1], p)
      BY <2>1 DEF Rest, Drop, Matches, From, Any, Packet
    <3> QED BY <3>1, <1>2
  <2>2. CASE p.out = "vif"
    <3>1. Matches(Rest[2], p)
      BY <2>2 DEF Rest, Drop, Matches, To, Any, Packet
    <3> QED BY <3>1, <1>2
  <2> QED BY <1>5, <2>1, <2>2
<1> QED BY <1>1, <1>2, <1>3, <1>4, <1>5, Drops

(* The forward chain drops what its middle says nothing of, and what came from  *)
(* a source that is not a client's.                                             *)
LEMMA Forward ==
  ASSUME NEW mode \in Modes, NEW p \in Packet, Ct(p) \in {"new", "established"},
         "vif" \in {p.in, p.out}
  PROVE  /\ p.src = "v6" \/ (p.in = "vif" /\ p.src \notin Subnet) => ~Decides(ForwardGuard(mode), p)
         /\ mode = "blocked" => ~Decides(ForwardGuard(mode), p)
         /\ Crosses(p) /\ mode \notin Uplinks => ~Decides(ForwardGuard(mode), p)
         /\ Crosses(p) /\ mode \notin {p.in, p.out} => ~Decides(ForwardGuard(mode), p)
         /\ Crosses(p) /\ p.out = "vif" /\ (Ct(p) = "new" \/ p.dst \notin Subnet)
              => ~Decides(ForwardGuard(mode), p)
<1> DEFINE P == When(mode # "blocked", Peers)
           I == When(mode \in Uplinks, Internet(mode))
<1>1. ForwardGuard(mode) = ((Sources \o P) \o I) \o Rest
  BY DEF ForwardGuard, Sources, Rest
<1>2. P \in Seq(Rule) /\ I \in Seq(Rule)
  BY Pieces, None DEF When
<1>3. mode = "blocked" => Silent(P, p)
  BY None DEF When
<1>4. mode \notin Uplinks => Silent(I, p)
  BY None DEF When
<1>5. Crosses(p) => ~(p.in = "vif" /\ p.out = "vif")
  BY IfaceAssumption DEF Crosses
<1>6. ASSUME Crosses(p) PROVE Silent(P, p)
  <2>1. CASE mode = "blocked"
    BY <2>1, <1>3
  <2>2. CASE mode # "blocked"
    <3>1. DOMAIN Peers = {1} /\ ~Matches(Peers[1], p)
      BY <1>5, <1>6, Shapes DEF Matches
    <3> QED BY <3>1, <2>2 DEF When, Silent
  <2> QED BY <2>1, <2>2
<1>7. ASSUME mode \in Uplinks, mode \notin {p.in, p.out} PROVE Silent(I, p)
  <2>1. /\ DOMAIN Internet(mode) = {1, 2, 3} /\ ~Internet(mode)[1].accept
        /\ ~Matches(Internet(mode)[2], p) /\ ~Matches(Internet(mode)[3], p)
    BY <1>7, Shapes DEF Matches
  <2> QED BY <2>1, <1>7 DEF When, Silent
<1>8. ASSUME mode \in Uplinks, p.in # "vif", Ct(p) = "new" \/ p.dst \notin Subnet
      PROVE  Silent(I, p)
  <2>1. /\ DOMAIN Internet(mode) = {1, 2, 3} /\ ~Internet(mode)[1].accept
        /\ ~Matches(Internet(mode)[2], p) /\ ~Matches(Internet(mode)[3], p)
    BY <1>8, Shapes DEF Matches
  <2> QED BY <2>1, <1>8 DEF When, Silent
<1> HIDE DEF P, I
<1>9. ~Decides(Sources, p) => ~Decides(ForwardGuard(mode), p)
  <2> SUFFICES ASSUME ~Decides(Sources, p) PROVE ~Decides(ForwardGuard(mode), p)
    OBVIOUS
  <2>1. Sources \o P \in Seq(Rule) /\ ~Decides(Sources \o P, p)
    BY <1>2, Brackets, Join
  <2>2. (Sources \o P) \o I \in Seq(Rule) /\ ~Decides((Sources \o P) \o I, p)
    BY <2>1, <1>2, Join
  <2>3. ~Decides(((Sources \o P) \o I) \o Rest, p)
    BY <2>2, Brackets, Join
  <2> QED BY <2>3, <1>1
<1>10. Silent(P, p) /\ Silent(I, p) => ~Decides(ForwardGuard(mode), p)
  <2> SUFFICES ASSUME Silent(P, p), Silent(I, p) PROVE ~Decides(ForwardGuard(mode), p)
    OBVIOUS
  <2>1. Sources \o P \in Seq(Rule) /\ Silent(Sources \o P, p)
    BY <1>2, Brackets, Join
  <2>2. (Sources \o P) \o I \in Seq(Rule) /\ Silent((Sources \o P) \o I, p)
    BY <2>1, <1>2, Join
  <2>3. ~Decides(((Sources \o P) \o I) \o Rest, p)
    BY <2>2, Brackets, Join
  <2> QED BY <2>3, <1>1
<1>11. "blocked" \notin Uplinks
  BY IfaceAssumption
<1> QED BY <1>3, <1>4, <1>5, <1>6, <1>7, <1>8, <1>9, <1>10, <1>11, Brackets

(* The input chain drops IPv6, spoofed sources but a DHCP request's, everything *)
(* when it is blocked and DNS when the mode is local.                           *)
LEMMA Input ==
  ASSUME NEW mode \in Modes, NEW p \in Packet, Ct(p) \in {"new", "established"},
         p.in = "vif", p.out = "host"
  PROVE  /\ mode = "blocked" \/ p.src = "v6" => ~Decides(InputGuard(mode), p)
         /\ p.src \notin Subnet /\ ~(p.src = "zero" /\ p.dport = "dhcp_server")
              => ~Decides(InputGuard(mode), p)
         /\ mode = "local" /\ p.dport = "dns" => ~Decides(InputGuard(mode), p)
<1> DEFINE First    == << Drop([From EXCEPT !.src = {"v6"}]) >>
           Services == When(mode # "blocked", Lease \o DnsIn(mode) \o Greet)
           Last     == << Drop(From) >>
<1>1. InputGuard(mode) = (First \o Services) \o Last
  BY DEF InputGuard
<1>2. Services \in Seq(Rule)
  <2>1. Lease \o DnsIn(mode) \in Seq(Rule)
    BY Pieces, Join
  <2>2. (Lease \o DnsIn(mode)) \o Greet \in Seq(Rule)
    BY <2>1, Pieces, Join
  <2> QED BY <2>2, None DEF When
<1>3. /\ First \in Seq(Rule) /\ Silent(First, p)
      /\ p.src = "v6" => ~Decides(First, p)
  <2> DEFINE r == Drop([From EXCEPT !.src = {"v6"}])
  <2>1. r \in Rule /\ ~r.accept
    BY Pieces DEF Drop, Rule, Match, Addresses
  <2>2. p.src = "v6" => Matches(r, p)
    BY DEF Drop, Matches, From, Any, Packet
  <2> HIDE DEF r
  <2>3. <<r>> \in Seq(Rule) /\ Silent(<<r>>, p) /\ (p.src = "v6" => ~Decides(<<r>>, p))
    BY <2>1, <2>2, One
  <2> QED BY <2>3 DEF r
<1>4. Last \in Seq(Rule) /\ Silent(Last, p) /\ ~Decides(Last, p)
  <2> DEFINE r == Drop(From)
  <2>1. r \in Rule /\ ~r.accept /\ Matches(r, p)
    BY Pieces DEF Drop, Rule, Matches, From, Any, Packet
  <2> HIDE DEF r
  <2>3. <<r>> \in Seq(Rule) /\ Silent(<<r>>, p) /\ ~Decides(<<r>>, p)
    BY <2>1, One
  <2> QED BY <2>3 DEF r
<1>5. mode = "blocked" => Silent(Services, p)
  BY None DEF When
<1>6. ASSUME mode # "blocked", p.src \in V4 \ Subnet, ~(p.src = "zero" /\ p.dport = "dhcp_server")
      PROVE  ~Decides(Services, p)
  <2>1. /\ DOMAIN Lease = {1, 2} /\ ~Lease[2].accept
        /\ Matches(Lease[2], p) /\ ~Matches(Lease[1], p)
    <3>1. Matches(Lease[2], p)
      BY <1>6, Shapes DEF Matches, From, Any, Packet
    <3>2. ~Matches(Lease[1], p)
      BY <1>6, Shapes DEF Matches
    <3> QED BY <3>1, <3>2, Shapes
  <2>2. ~Decides(Lease, p)
    BY <2>1 DEF Decides
  <2>3. Lease \o DnsIn(mode) \in Seq(Rule) /\ ~Decides(Lease \o DnsIn(mode), p)
    BY <2>2, Pieces, Join
  <2>4. ~Decides((Lease \o DnsIn(mode)) \o Greet, p)
    BY <2>3, Pieces, Join
  <2> QED BY <2>4, <1>6 DEF When
<1>7. ASSUME mode = "local", p.dport = "dns" PROVE ~Decides(Services, p)
  <2>1. DOMAIN Lease = {1, 2} /\ ~Lease[2].accept /\ ~Matches(Lease[1], p)
    BY <1>7, Shapes DEF Matches
  <2>2. Silent(Lease, p)
    BY <2>1 DEF Silent
  <2>3. /\ DOMAIN DnsIn(mode) = {1} /\ ~DnsIn(mode)[1].accept /\ Matches(DnsIn(mode)[1], p)
    <3>1. Matches(DnsIn("local")[1], p)
      <4> DEFINE m == [From EXCEPT !.dport = {"dns"}]
      <4>1. /\ m.in = {"vif"} /\ m.out = Ifaces /\ m.src = Addresses /\ m.dst = Addresses
            /\ m.sport = Ports /\ m.dport = {"dns"} /\ m.ct = {"new", "established"}
        BY DEF From, Any
      <4>2. DnsIn("local")[1].match = m
        BY Shapes
      <4> HIDE DEF m
      <4> QED BY <4>1, <4>2, <1>7 DEF Matches, Packet
    <3> QED BY <3>1, <1>7, Shapes
  <2>4. ~Decides(DnsIn(mode), p)
    BY <2>3 DEF Decides
  <2>5. Lease \o DnsIn(mode) \in Seq(Rule) /\ ~Decides(Lease \o DnsIn(mode), p)
    BY <2>2, <2>4, Pieces, Join
  <2>6. ~Decides((Lease \o DnsIn(mode)) \o Greet, p)
    BY <2>5, Pieces, Join
  <2> QED BY <2>6, <1>7 DEF When
<1> HIDE DEF First, Services, Last
<1>8. First \o Services \in Seq(Rule)
  BY <1>2, <1>3, Join
<1>9. ~Decides(First, p) => ~Decides(InputGuard(mode), p)
  BY <1>1, <1>2, <1>3, <1>4, <1>8, Join
<1>10. ~Decides(Services, p) => ~Decides(InputGuard(mode), p)
  BY <1>1, <1>2, <1>3, <1>4, <1>8, Join
<1>11. Silent(Services, p) => ~Decides(InputGuard(mode), p)
  <2> SUFFICES ASSUME Silent(Services, p) PROVE ~Decides(InputGuard(mode), p)
    OBVIOUS
  <2>1. Silent(First \o Services, p)
    BY <1>2, <1>3, Join
  <2> QED BY <2>1, <1>1, <1>4, <1>8, Join
<1>12. p.src = "v6" \/ p.src \in V4
  BY DEF Packet, Addresses
<1> QED BY <1>3, <1>5, <1>6, <1>7, <1>9, <1>10, <1>11, <1>12

(* The output chain holds drops only: IPv6, the answers of DNS when the mode is *)
(* local, everything when it is blocked.                                        *)
LEMMA Output ==
  ASSUME NEW mode \in Modes, NEW p \in Packet, Ct(p) \in {"new", "established"}, p.out = "vif"
  PROVE  /\ mode = "blocked" \/ p.src = "v6" => ~Decides(OutputGuard(mode), p)
         /\ mode = "local" /\ p.sport = "dns" => ~Decides(OutputGuard(mode), p)
<1> DEFINE v  == Drop([To EXCEPT !.src = {"v6"}])
           d  == Drop([To EXCEPT !.sport = {"dns"}])
           b  == Drop(To)
           Ds == When(mode = "local", <<d>>)
           Bs == When(mode = "blocked", <<b>>)
<1>1. OutputGuard(mode) = (<<v>> \o Ds) \o Bs
  BY DEF OutputGuard
<1>2. /\ v \in Rule /\ ~v.accept /\ d \in Rule /\ ~d.accept /\ b \in Rule /\ ~b.accept
  BY Pieces DEF Drop, Rule, Match, Addresses, Ports
<1>3. /\ p.src = "v6" => Matches(v, p)
      /\ p.sport = "dns" => Matches(d, p)
      /\ Matches(b, p)
  BY DEF Drop, Matches, To, Any, Packet
<1> HIDE DEF v, d, b
<1>4. /\ <<v>> \in Seq(Rule) /\ Silent(<<v>>, p) /\ (p.src = "v6" => ~Decides(<<v>>, p))
  BY <1>2, <1>3, One
<1>5. /\ Ds \in Seq(Rule) /\ Silent(Ds, p)
      /\ mode = "local" /\ p.sport = "dns" => ~Decides(Ds, p)
  BY <1>2, <1>3, One, None DEF When
<1>6. /\ Bs \in Seq(Rule) /\ (mode = "blocked" => ~Decides(Bs, p))
  BY <1>2, <1>3, One, None DEF When
<1> HIDE DEF Ds, Bs
<1>7. <<v>> \o Ds \in Seq(Rule) /\ Silent(<<v>> \o Ds, p)
  BY <1>4, <1>5, Join
<1>8. /\ p.src = "v6" => ~Decides(<<v>> \o Ds, p)
      /\ mode = "local" /\ p.sport = "dns" => ~Decides(<<v>> \o Ds, p)
  BY <1>4, <1>5, Join
<1>9. /\ p.src = "v6" => ~Decides((<<v>> \o Ds) \o Bs, p)
      /\ mode = "local" /\ p.sport = "dns" => ~Decides((<<v>> \o Ds) \o Bs, p)
      /\ mode = "blocked" => ~Decides((<<v>> \o Ds) \o Bs, p)
  BY <1>6, <1>7, <1>8, Join
<1> QED BY <1>1, <1>9
-----------------------------------------------------------------------------
(* The invariants. *)

(* The chain a packet meets.                                                    *)
LEMMA Chain ==
  ASSUME TypeOK, table # "absent", NEW p \in Packets
  PROVE  /\ table \in Modes
         /\ Hook(p) = "input"   => (Passes(p) <=> Decides(InputGuard(table), p))
         /\ Hook(p) = "forward" => (Passes(p) <=> Decides(ForwardGuard(table), p))
         /\ Hook(p) = "output"  => (Passes(p) <=> Decides(OutputGuard(table), p))
  BY DEF TypeOK, Passes, Rules

(* Type correctness: the table is one of the modes, and what is tracked was     *)
(* sent, for all interfaces, packets and bounds.                                *)
THEOREM GuardTypes == Spec => []TypeOK
<1>1. Init => TypeOK
  BY DEF Init, TypeOK
<1>2. TypeOK /\ [Next]_vars => TypeOK'
  <2> SUFFICES ASSUME TypeOK, [Next]_vars PROVE TypeOK'
    OBVIOUS
  <2>1. CASE Create
    BY <2>1 DEF TypeOK, Create, Modes
  <2>2. CASE Delete
    BY <2>2 DEF TypeOK, Delete
  <2>3. ASSUME NEW mode \in Modes, Load(mode) PROVE TypeOK'
    BY <2>3 DEF TypeOK, Load
  <2>4. ASSUME NEW p \in Packets, Send(p) PROVE TypeOK'
    BY <2>4 DEF TypeOK, Send, IsReply
  <2>5. ASSUME NEW e \in flows, Expire(e) PROVE TypeOK'
    BY <2>5 DEF TypeOK, Expire
  <2>6. CASE UNCHANGED vars
    BY <2>6 DEF TypeOK, vars
  <2> QED BY <2>1, <2>2, <2>3, <2>4, <2>5, <2>6 DEF Next
<1> QED BY <1>1, <1>2, PTL DEF Spec

(* A downgrade closes what the mode before it let be established (policy.py:30), *)
(* for every set of interfaces and packets.                                     *)
THEOREM DowngradesClose == Spec => []DowngradeCloses
<1>1. TypeOK => DowngradeCloses
  <2> SUFFICES ASSUME TypeOK, NEW p \in Packets,
                      table = "blocked" \/ (table = "local" /\ (Dns(p) \/ Crosses(p)))
               PROVE  ~Passes(p)
    BY DEF DowngradeCloses
  <2>1. table # "absent" /\ table \notin Uplinks
    BY IfaceAssumption
  <2>2. CASE Hook(p) = "input"
    <3>1. ~Crosses(p)
      BY <2>2, Hooked, IfaceAssumption DEF Crosses
    <3>2. table = "blocked" \/ (table = "local" /\ p.dport = "dns")
      BY <3>1, <2>2, Hooked DEF Dns
    <3> QED BY <3>2, <2>1, <2>2, Chain, Hooked, Input
  <2>3. CASE Hook(p) = "output"
    <3>1. ~Crosses(p)
      BY <2>3, Hooked, IfaceAssumption DEF Crosses
    <3>2. table = "blocked" \/ (table = "local" /\ p.sport = "dns")
      BY <3>1, <2>3, Hooked DEF Dns
    <3> QED BY <3>2, <2>1, <2>3, Chain, Hooked, Output
  <2>4. CASE Hook(p) = "forward"
    <3>1. table = "blocked" \/ Crosses(p)
      BY <2>4, Hooked DEF Dns
    <3> QED BY <3>1, <2>1, <2>4, Chain, Hooked, Forward
  <2> QED BY <2>2, <2>3, <2>4, Hooked
<1> QED BY <1>1, GuardTypes, PTL

(* What passes and is neither an answer nor tracked comes from a client.        *)
LEMMA Opens ==
  ASSUME TypeOK, table # "absent", NEW p \in Packets, Passes(p), Ct(p) = "new"
  PROVE  p.src \in Subnet \/ (p.src = "zero" /\ p.dport = "dhcp_server")
<1>1. CASE Hook(p) = "input"
  BY <1>1, Chain, Hooked, Input
<1>2. CASE Hook(p) = "output"
  BY <1>2, Chain, Hooked, Output DEF Subnet
<1>3. CASE Hook(p) = "forward"
  <2>1. CASE p.in = "vif"
    BY <2>1, <1>3, Chain, Hooked, Forward
  <2>2. CASE p.in # "vif"
    <3>1. p.out = "vif" /\ Crosses(p)
      BY <2>2, <1>3, Hooked DEF Crosses, Packet, Ifaces
    <3> QED BY <3>1, <1>3, Chain, Hooked, Forward
  <2> QED BY <2>1, <2>2
<1> QED BY <1>1, <1>2, <1>3, Hooked

(* Nothing outside opens a flow to a client, whatever modes and uplinks follow  *)
(* one another (policy.py:29).                                                  *)
THEOREM OnlyClientsOpen == Spec => []ClientsOpenFlows
<1>1. Init => ClientsOpenFlows
  BY DEF Init, ClientsOpenFlows
<1>2. TypeOK /\ ClientsOpenFlows /\ [Next]_vars => ClientsOpenFlows'
  <2> SUFFICES ASSUME TypeOK, ClientsOpenFlows, [Next]_vars PROVE ClientsOpenFlows'
    OBVIOUS
  <2>1. CASE Create \/ Delete \/ (\E mode \in Modes : Load(mode)) \/ UNCHANGED vars
    BY <2>1 DEF ClientsOpenFlows, Create, Delete, Load, vars
  <2>2. ASSUME NEW e \in flows, Expire(e) PROVE ClientsOpenFlows'
    BY <2>2 DEF ClientsOpenFlows, Expire
  <2>3. ASSUME NEW p \in Packets, Send(p) PROVE ClientsOpenFlows'
    <3>1. CASE IsReply(p)
      BY <2>3, <3>1 DEF ClientsOpenFlows, Send
    <3>2. CASE ~IsReply(p)
      <4>1. flows' = flows \cup {Ends(p)}
        BY <2>3, <3>2 DEF Send
      <4>2. CASE Ends(p) \in flows
        BY <4>1, <4>2 DEF ClientsOpenFlows
      <4>3. CASE Ends(p) \notin flows
        <5>1. Ct(p) = "new"
          BY <3>2, <4>3 DEF Ct, TypeOK
        <5>2. p.src \in Subnet \/ (p.src = "zero" /\ p.dport = "dhcp_server")
          BY <5>1, <2>3, Opens DEF Send
        <5>3. Ends(p).src = p.src /\ Ends(p).dport = p.dport
          BY DEF Ends
        <5> QED BY <4>1, <5>2, <5>3 DEF ClientsOpenFlows
      <4> QED BY <4>2, <4>3
    <3> QED BY <3>1, <3>2
  <2> QED BY <2>1, <2>2, <2>3 DEF Next
<1> QED BY <1>1, <1>2, GuardTypes, PTL DEF Spec

(* Only the uplink of the mode carries traffic, and brings in only the answers  *)
(* to what a client opened (policy.py:47-61).                                   *)
THEOREM OnlyUplinkCarries == Spec => []OnlyUplink
<1>1. TypeOK /\ ClientsOpenFlows => OnlyUplink
  <2> SUFFICES ASSUME TypeOK, ClientsOpenFlows, NEW p \in Packets,
                      table # "absent", Crosses(p), Passes(p)
               PROVE  /\ table \in Uplinks /\ table \in {p.in, p.out}
                      /\ p.out = "vif" => \E e \in flows : e.src \in Subnet /\ Ends(p) \in {e, Reverse(e)}
    BY DEF OnlyUplink
  <2>1. Hook(p) = "forward"
    BY Hooked, IfaceAssumption DEF Crosses
  <2>2. table \in Uplinks /\ table \in {p.in, p.out}
    BY <2>1, Chain, Hooked, Forward
  <2>3. ASSUME p.out = "vif" PROVE \E e \in flows : e.src \in Subnet /\ Ends(p) \in {e, Reverse(e)}
    <3>1. Ct(p) = "established" /\ p.dst \in Subnet
      BY <2>1, <2>3, Chain, Hooked, Forward
    <3>2. CASE IsReply(p)
      <4>1. Reverse(Ends(p)).src \in Subnet /\ Ends(p) = Reverse(Reverse(Ends(p)))
        BY <3>1 DEF Ends, Reverse
      <4> QED BY <4>1, <3>2 DEF IsReply
    <3>3. CASE ~IsReply(p)
      <4>1. Ends(p) \in flows
        BY <3>1, <3>3 DEF Ct, TypeOK
      <4>2. p.in \in Uplinks \cup Others
        BY <2>3, IfaceAssumption DEF Crosses
      <4>3. p.src # "zero"
        BY <4>2, PacketAssumption
      <4>4. Ends(p).src = p.src
        BY DEF Ends
      <4> QED BY <4>1, <4>3, <4>4 DEF ClientsOpenFlows
    <3> QED BY <3>2, <3>3
  <2> QED BY <2>2, <2>3
<1> QED BY <1>1, GuardTypes, OnlyClientsOpen, PTL
-----------------------------------------------------------------------------
(* Answers come back. *)

(* The output chain lets through what is IPv4 and not the answer of a closed DNS. *)
LEMMA OutputLets ==
  ASSUME NEW mode \in Modes, NEW p, mode # "blocked", p.src # "v6",
         ~(mode = "local" /\ p.sport = "dns")
  PROVE  Decides(OutputGuard(mode), p)
<1> DEFINE v  == Drop([To EXCEPT !.src = {"v6"}])
           d  == Drop([To EXCEPT !.sport = {"dns"}])
           b  == Drop(To)
           Ds == When(mode = "local", <<d>>)
           Bs == When(mode = "blocked", <<b>>)
<1>1. OutputGuard(mode) = (<<v>> \o Ds) \o Bs
  BY DEF OutputGuard
<1>2. v \in Rule /\ d \in Rule
  BY Pieces DEF Drop, Rule, Match, Addresses, Ports
<1>3. ~Matches(v, p) /\ (mode = "local" => ~Matches(d, p))
  BY DEF Drop, Matches, To, Any
<1> HIDE DEF v, d, b
<1>4. <<v>> \in Seq(Rule) /\ Decides(<<v>>, p)
  BY <1>2, <1>3, One
<1>5. Ds \in Seq(Rule) /\ Decides(Ds, p)
  BY <1>2, <1>3, One, None, Undropped DEF When
<1>6. Bs = <<>> /\ Bs \in Seq(Rule) /\ Decides(Bs, p)
  BY None, Undropped DEF When
<1> HIDE DEF Ds, Bs
<1>7. <<v>> \o Ds \in Seq(Rule) /\ Decides(<<v>> \o Ds, p)
  BY <1>4, <1>5, Join, Pass
<1> QED BY <1>1, <1>6, <1>7, Pass

(* The input chain lets a client's packet through that belongs to a tracked flow *)
(* with the host, but for a closed DNS.                                         *)
LEMMA InputLets ==
  ASSUME NEW mode \in Modes, NEW p, mode # "blocked",
         p.in = "vif", p.out = "host", p.src \in Subnet, p.dst = "gateway",
         p.sport \in Ports, p.dport \in Ports, Ct(p) = "established",
         ~(mode = "local" /\ p.dport = "dns")
  PROVE  Decides(InputGuard(mode), p)
<1> DEFINE First    == << Drop([From EXCEPT !.src = {"v6"}]) >>
           Services == Lease \o DnsIn(mode) \o Greet
           Last     == << Drop(From) >>
<1>1. InputGuard(mode) = (First \o Services) \o Last
  BY DEF InputGuard, When
<1>2. First \in Seq(Rule) /\ Decides(First, p) /\ Last \in Seq(Rule)
  <2> DEFINE r == Drop([From EXCEPT !.src = {"v6"}])
             l == Drop(From)
  <2>1. r \in Rule /\ l \in Rule
    BY Pieces DEF Drop, Rule, Match, Addresses
  <2>2. ~Matches(r, p)
    BY DEF Drop, Matches, From, Any, Subnet
  <2> HIDE DEF r, l
  <2>3. <<r>> \in Seq(Rule) /\ Decides(<<r>>, p) /\ <<l>> \in Seq(Rule)
    BY <2>1, <2>2, One
  <2> QED BY <2>3 DEF r, l
<1>3. Decides(Lease, p)
  <2>1. ~Matches(Lease[2], p)
    BY Shapes DEF Matches, From, Any
  <2>2. Lease[1].accept
    BY DEF Lease, Accept
  <2> QED BY <2>1, <2>2, Shapes, Undropped
<1>4. Decides(DnsIn(mode), p)
  <2>1. CASE mode = "local"
    <3>1. ~Matches(DnsIn("local")[1], p)
      <4> DEFINE m == [From EXCEPT !.dport = {"dns"}]
      <4>1. m.dport = {"dns"}
        BY DEF From, Any
      <4>2. DnsIn("local")[1].match = m
        BY Shapes
      <4> HIDE DEF m
      <4> QED BY <4>1, <4>2, <2>1 DEF Matches
    <3> QED BY <3>1, <2>1, Shapes, Undropped
  <2>2. CASE mode # "local"
    <3>1. \A i \in DOMAIN DnsIn(mode) : DnsIn(mode)[i].accept
      BY <2>2 DEF DnsIn, Accept
    <3> QED BY <3>1, Undropped
  <2> QED BY <2>1, <2>2
<1>5. Lets(Greet, p)
  <2>1. \A i \in DOMAIN Greet : Greet[i].accept
    BY DEF Greet, Accept
  <2>2. 1 \in DOMAIN Greet /\ Matches(Greet[1], p)
    <3> DEFINE m == [From EXCEPT !.dst = {"gateway"}, !.ct = {"established"}]
    <3>1. /\ m.in = {"vif"} /\ m.out = Ifaces /\ m.src = Addresses /\ m.dst = {"gateway"}
          /\ m.sport = Ports /\ m.dport = Ports /\ m.ct = {"established"}
      BY DEF From, Any
    <3>2. 1 \in DOMAIN Greet /\ Greet[1] = Accept(m)
      BY DEF Greet
    <3> HIDE DEF m
    <3>3. Greet[1].match = m
      BY <3>2 DEF Accept
    <3>4. p.out \in Ifaces /\ p.src \in Addresses
      BY DEF Ifaces, Addresses, V4
    <3> QED BY <3>1, <3>2, <3>3, <3>4 DEF Matches
  <2> QED BY <2>1, <2>2, Undropped DEF Lets, Silent
<1> HIDE DEF First, Last
<1>6. Lease \o DnsIn(mode) \in Seq(Rule) /\ Decides(Lease \o DnsIn(mode), p)
  BY <1>3, <1>4, Pieces, Join, Pass
<1>7. Services \in Seq(Rule) /\ Lets(Services, p)
  BY <1>5, <1>6, Pieces, Join, Pass
<1> HIDE DEF Services
<1>8. First \o Services \in Seq(Rule) /\ Lets(First \o Services, p)
  BY <1>2, <1>7, Join, Pass
<1>9. Lets((First \o Services) \o Last, p)
  BY <1>2, <1>8, Pass
<1> QED BY <1>1, <1>9 DEF Lets

(* Between clients the forward chain takes only what goes to another of them.    *)
LEMMA PeersOnly ==
  ASSUME NEW mode \in Modes, NEW p \in Packet, Ct(p) \in {"new", "established"},
         p.in = "vif", p.out = "vif", p.dst \notin Subnet
  PROVE  ~Decides(ForwardGuard(mode), p)
<1> DEFINE P == When(mode # "blocked", Peers)
           I == When(mode \in Uplinks, Internet(mode))
<1>1. ForwardGuard(mode) = ((Sources \o P) \o I) \o Rest
  BY DEF ForwardGuard, Sources, Rest
<1>2. P \in Seq(Rule) /\ I \in Seq(Rule)
  BY Pieces, None DEF When
<1>3. Silent(P, p)
  <2>1. ~Matches(Peers[1], p)
    <3> DEFINE m == [From EXCEPT !.out = {"vif"}, !.dst = Subnet]
    <3>1. m.dst = Subnet
      BY DEF From, Any
    <3>2. Peers[1] = Accept(m)
      BY DEF Peers
    <3> HIDE DEF m
    <3> QED BY <3>1, <3>2 DEF Accept, Matches
  <2>2. Silent(Peers, p)
    BY <2>1, Shapes DEF Silent
  <2> QED BY <2>2, None DEF When
<1>4. Silent(I, p)
  <2>1. CASE mode \in Uplinks
    <3>1. "vif" # mode
      BY <2>1, IfaceAssumption
    <3>2. /\ DOMAIN Internet(mode) = {1, 2, 3} /\ ~Internet(mode)[1].accept
          /\ ~Matches(Internet(mode)[2], p) /\ ~Matches(Internet(mode)[3], p)
      BY <3>1, Shapes DEF Matches
    <3> QED BY <3>2, <2>1 DEF When, Silent
  <2>2. CASE mode \notin Uplinks
    BY <2>2, None DEF When
  <2> QED BY <2>1, <2>2
<1> HIDE DEF P, I
<1>5. Sources \o P \in Seq(Rule) /\ Silent(Sources \o P, p)
  BY <1>2, <1>3, Brackets, Join
<1>6. (Sources \o P) \o I \in Seq(Rule) /\ Silent((Sources \o P) \o I, p)
  BY <1>2, <1>4, <1>5, Join
<1>7. ~Decides(((Sources \o P) \o I) \o Rest, p)
  BY <1>6, Brackets, Join
<1> QED BY <1>1, <1>7

(* The forward chain lets clients talk to one another, and in internet mode to    *)
(* the uplink and back.                                                         *)
LEMMA ForwardLets ==
  ASSUME NEW mode \in Modes, NEW p, mode # "blocked",
         p.src \in V4, p.dst \in Subnet, p.sport \in Ports, p.dport \in Ports,
         Ct(p) = "established"
  PROVE  /\ p.in = "vif" /\ p.out = "vif" /\ p.src \in Subnet => Decides(ForwardGuard(mode), p)
         /\ p.in = "vif" /\ p.src \in Subnet /\ mode \in Uplinks /\ p.out = mode
              => Decides(ForwardGuard(mode), p)
         /\ p.out = "vif" /\ mode \in Uplinks /\ p.in = mode => Decides(ForwardGuard(mode), p)
<1> DEFINE I == When(mode \in Uplinks, Internet(mode))
<1>1. ForwardGuard(mode) = ((Sources \o Peers) \o I) \o Rest
  BY DEF ForwardGuard, Sources, Rest, When
<1>2. Peers \in Seq(Rule) /\ I \in Seq(Rule)
  BY Pieces, None DEF When
<1>3. Sources \in Seq(Rule) /\ Rest \in Seq(Rule)
  <2>1. /\ [From EXCEPT !.src = {"v6"}] \in Match /\ [To EXCEPT !.src = {"v6"}] \in Match
        /\ [From EXCEPT !.src = V4 \ Subnet] \in Match
    BY Pieces DEF Match, Addresses
  <2>2. \A m \in Match : Drop(m) \in Rule
    BY DEF Drop, Rule
  <2> QED BY <2>1, <2>2, Pieces DEF Sources, Rest
<1>4. ASSUME p.in = "vif" => p.src \in Subnet PROVE Decides(Sources, p)
  <2>1. DOMAIN Sources = {1, 2, 3}
    BY DEF Sources
  <2>2. ~Matches(Sources[1], p) /\ ~Matches(Sources[2], p)
    BY DEF Sources, Drop, Matches, From, To, Any, V4, Subnet
  <2>3. ~Matches(Sources[3], p)
    BY <1>4 DEF Sources, Drop, Matches, From, Any
  <2> QED BY <2>1, <2>2, <2>3, Undropped
<1>5. Decides(Peers, p)
  BY Undropped DEF Peers, Accept
<1>6. ASSUME p.in = "vif", p.out = "vif", p.src \in Subnet PROVE Lets(Peers, p)
  <2> DEFINE m == [From EXCEPT !.out = {"vif"}, !.dst = Subnet]
  <2>1. /\ m.in = {"vif"} /\ m.out = {"vif"} /\ m.src = Addresses /\ m.dst = Subnet
        /\ m.sport = Ports /\ m.dport = Ports /\ m.ct = {"new", "established"}
    BY DEF From, Any
  <2>2. Peers[1] = Accept(m)
    BY DEF Peers
  <2> HIDE DEF m
  <2>3. Peers[1].accept /\ Peers[1].match = m
    BY <2>2 DEF Accept
  <2>4. Matches(Peers[1], p)
    BY <2>1, <2>3, <1>6 DEF Matches, Addresses
  <2> QED BY <2>3, <2>4, <1>5, Shapes DEF Lets, Silent
<1>7. ASSUME mode \in Uplinks,
             (p.in = "vif" /\ p.out = mode) \/ (p.in = mode /\ p.out = "vif")
      PROVE  Lets(I, p)
  <2> DEFINE d == [From EXCEPT !.dst = {"zero", "cast", "special"}]
             f == [From EXCEPT !.out = {mode}]
             t == [To EXCEPT !.in = {mode}, !.dst = Subnet, !.ct = {"established"}]
  <2>1. d.dst = {"zero", "cast", "special"}
    BY DEF From, Any
  <2>2. /\ f.in = {"vif"} /\ f.out = {mode} /\ f.src = Addresses /\ f.dst = Addresses
        /\ f.sport = Ports /\ f.dport = Ports /\ f.ct = {"new", "established"}
    BY DEF From, Any
  <2>3. /\ t.in = {mode} /\ t.out = {"vif"} /\ t.src = Addresses /\ t.dst = Subnet
        /\ t.sport = Ports /\ t.dport = Ports /\ t.ct = {"established"}
    BY DEF To, Any
  <2>4. I = <<Drop(d), Accept(f), Accept(t)>>
    BY <1>7 DEF When, Internet
  <2> HIDE DEF d, f, t, I
  <2>5. /\ DOMAIN I = {1, 2, 3} /\ I[1].match = d /\ I[2].match = f /\ I[3].match = t
        /\ I[2].accept /\ I[3].accept
    BY <2>4 DEF Drop, Accept
  <2>6. ~Matches(I[1], p)
    BY <2>1, <2>5 DEF Matches, Subnet
  <2>7. Matches(I[2], p) \/ Matches(I[3], p)
    BY <2>2, <2>3, <2>5, <1>7 DEF Matches, Addresses, V4
  <2>8. Decides(I, p)
    BY <2>5, <2>6, Undropped
  <2> QED BY <2>5, <2>7, <2>8 DEF Lets, Silent
<1> HIDE DEF I
<1>8. ASSUME Decides(Sources, p), Lets(Peers, p) \/ (Decides(Peers, p) /\ Lets(I, p))
      PROVE  Decides(ForwardGuard(mode), p)
  <2>1. Sources \o Peers \in Seq(Rule) /\ (Sources \o Peers) \o I \in Seq(Rule)
    BY <1>2, <1>3, Join
  <2>2. Lets((Sources \o Peers) \o I, p)
    <3>1. CASE Lets(Peers, p)
      <4>1. Lets(Sources \o Peers, p)
        BY <3>1, <1>2, <1>3, <1>8, Pass
      <4> QED BY <4>1, <2>1, <1>2, Pass
    <3>2. CASE Decides(Peers, p) /\ Lets(I, p)
      <4>1. Decides(Sources \o Peers, p)
        BY <3>2, <1>2, <1>3, <1>8, Pass
      <4> QED BY <4>1, <3>2, <2>1, <1>2, Pass
    <3> QED BY <3>1, <3>2, <1>8
  <2>3. Lets(((Sources \o Peers) \o I) \o Rest, p)
    BY <2>1, <2>2, <1>3, Pass
  <2> QED BY <2>3, <1>1 DEF Lets
<1>9. mode \in Uplinks => mode # "vif"
  BY IfaceAssumption
<1>10. ASSUME p.in = "vif", p.out = "vif", p.src \in Subnet PROVE Decides(ForwardGuard(mode), p)
  BY <1>10, <1>4, <1>6, <1>8
<1>11. ASSUME p.in = "vif", p.src \in Subnet, mode \in Uplinks, p.out = mode
       PROVE  Decides(ForwardGuard(mode), p)
  <2>1. Decides(Sources, p)
    BY <1>11, <1>4
  <2>2. Lets(I, p)
    BY <1>11, <1>7
  <2> QED BY <2>1, <2>2, <1>5, <1>8
<1>12. ASSUME p.out = "vif", mode \in Uplinks, p.in = mode PROVE Decides(ForwardGuard(mode), p)
  <2>1. Decides(Sources, p)
    BY <1>12, <1>4, <1>9
  <2>2. Lets(I, p)
    BY <1>12, <1>7
  <2> QED BY <2>1, <2>2, <1>5, <1>8
<1> QED BY <1>10, <1>11, <1>12

(* What the rules in force let begin gets its answers back, for every set of     *)
(* interfaces and packets: policy.py:29-68 in one direction and in the other.   *)
THEOREM AnswersReturn == Spec => []RepliesReturn
<1>1. TypeOK /\ ClientsOpenFlows => RepliesReturn
  <2> SUFFICES ASSUME TypeOK, ClientsOpenFlows, NEW p \in Packets,
                      table # "absent", p.dst # "cast", Ends(p) \in flows, Passes(p)
               PROVE  Passes(Answer(p))
    BY DEF RepliesReturn
  <2> DEFINE a == Answer(p)
  <2>1. /\ a.in = p.out /\ a.out = p.in /\ a.src = p.dst /\ a.dst = p.src
        /\ a.sport = p.dport /\ a.dport = p.sport
    BY DEF Answer
  <2>2. Ct(a) = "established"
    <3>1. Reverse(Ends(a)) = Ends(p)
      BY DEF Answer, Reverse, Ends
    <3> QED BY <3>1 DEF Ct, IsReply
  <2>3. p \in Packet /\ Ct(p) \in {"new", "established"} /\ table \in Modes
    BY Hooked, Chain
  <2>4. p.src \in Subnet \/ (p.src = "zero" /\ p.dport = "dhcp_server")
    <3>1. Ends(p).src = p.src /\ Ends(p).dport = p.dport
      BY DEF Ends
    <3> QED BY <3>1 DEF ClientsOpenFlows
  <2>5. p.src # "v6" /\ p.dst # "v6" /\ p.dst \in V4 /\ p.sport \in Ports /\ p.dport \in Ports
    BY <2>3, <2>4, PacketAssumption DEF Subnet, Packet, Addresses
  <2>6. table # "blocked"
    BY <2>3, Hooked, Chain, Input, Output, Forward
  <2> HIDE DEF a
  <2>7. CASE Hook(p) = "input"
    <3>1. p.in = "vif" /\ p.out = "host" /\ ~(table = "local" /\ p.dport = "dns")
      BY <2>7, <2>3, Hooked, Chain, Input
    <3>2. Decides(OutputGuard(table), a)
      BY <3>1, <2>1, <2>3, <2>5, <2>6, OutputLets
    <3>3. Hook(a) = "output"
      BY <3>1, <2>1 DEF Hook
    <3> QED BY <3>2, <3>3, <2>3 DEF Passes, Rules, a
  <2>8. CASE Hook(p) = "output"
    <3>1. /\ p.in = "host" /\ p.out = "vif" /\ p.src = "gateway" /\ p.dst \in Subnet
          /\ ~(table = "local" /\ p.sport = "dns")
      BY <2>8, <2>3, <2>5, Hooked, Chain, Output, PacketAssumption
    <3>2. Decides(InputGuard(table), a)
      BY <3>1, <2>1, <2>2, <2>3, <2>5, <2>6, InputLets
    <3>3. Hook(a) = "input"
      BY <3>1, <2>1 DEF Hook
    <3> QED BY <3>2, <3>3, <2>3 DEF Passes, Rules, a
  <2>9. CASE Hook(p) = "forward"
    <3>1. /\ Hook(a) = "forward" /\ "vif" \in {p.in, p.out} /\ p.in # "host" /\ p.out # "host"
          /\ Decides(ForwardGuard(table), p)
      BY <2>9, <2>1, Hooked, Chain DEF Hook
    <3>2. Decides(ForwardGuard(table), a)
      <4>1. CASE p.in = "vif" /\ p.out = "vif"
        <5>1. p.src \in Subnet /\ p.dst \in Subnet
          BY <4>1, <3>1, <2>3, Forward, PeersOnly
        <5> QED BY <4>1, <5>1, <2>1, <2>2, <2>3, <2>5, <2>6, ForwardLets
      <4>2. CASE p.in = "vif" /\ p.out # "vif"
        <5>1. Crosses(p)
          BY <4>2, <3>1, <2>3 DEF Crosses, Packet, Ifaces
        <5>2. p.src \in Subnet /\ table \in Uplinks /\ p.out = table
          BY <4>2, <5>1, <3>1, <2>3, IfaceAssumption, Forward
        <5> QED BY <4>2, <5>2, <2>1, <2>2, <2>3, <2>5, <2>6, ForwardLets
      <4>3. CASE p.in # "vif"
        <5>1. p.out = "vif" /\ p.in \in Uplinks \cup Others /\ Crosses(p)
          BY <4>3, <3>1, <2>3 DEF Crosses, Packet, Ifaces
        <5>2. p.dst \in Subnet /\ table \in Uplinks /\ p.in = table
          BY <5>1, <3>1, <2>3, IfaceAssumption, Forward
        <5>3. p.src \in Subnet
          BY <5>1, <2>4, PacketAssumption
        <5> QED BY <5>1, <5>2, <5>3, <2>1, <2>2, <2>3, <2>5, <2>6, ForwardLets
      <4> QED BY <4>1, <4>2, <4>3
    <3> QED BY <3>1, <3>2, <2>3 DEF Passes, Rules, a
  <2> QED BY <2>7, <2>8, <2>9, Hooked
<1> QED BY <1>1, GuardTypes, OnlyClientsOpen, PTL
=============================================================================
