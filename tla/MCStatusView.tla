---------------------------- MODULE MCStatusView -----------------------------
(* StatusView with two stations, and a lease file and a neighbour table of     *)
(* every kind: nothing, one's own, ambiguous, renewed, expired; not reachable, *)
(* one address, two addresses, another's address.                              *)
EXTENDS StatusView, FiniteSetsExt

MCStations  == {"phone", "tablet"}
MCAddresses == {"a1", "a2"}

Line(mac, ipv4, expiry) == [mac |-> mac, ipv4 |-> ipv4, expiry |-> expiry]
MCLeases ==
  { << >>,
    <<Line("phone", "a1", 1), Line("tablet", "a1", 1)>>,
    <<Line("phone", "a1", 1), Line("phone", "a2", 2)>>,
    <<Line("phone", "a1", 0), Line("tablet", "a1", 1)>> }

Entry(mac, ipv4, reachable) == [mac |-> mac, ipv4 |-> ipv4, reachable |-> reachable]
MCNeighbors ==
  { { Entry("phone", "a2", FALSE) },
    { Entry("phone", "a1", TRUE), Entry("phone", "a2", TRUE), Entry("tablet", "a2", TRUE) } }

\* The join itself over all files of at most three lines and tables of at most two
\* entries: what each source may say of a station, without the steps that find it.
AllLines  == [mac: MCStations, ipv4: MCAddresses, expiry: 0..2]
AllFiles  == UNION {[1..n -> AllLines] : n \in 0..3}
AllTables == UNION {kSubset(k, [mac: MCStations, ipv4: MCAddresses, reachable: BOOLEAN]) : k \in 0..2}

Holds(lines, mac, a) ==      \* the best lease of mac is for a
  \E i \in DOMAIN lines :
    /\ lines[i].mac = mac /\ lines[i].ipv4 = a /\ lines[i].expiry > 0
    /\ \A j \in DOMAIN lines : lines[j].mac = mac =>
         lines[j].expiry <= lines[i].expiry /\ (lines[j].expiry = lines[i].expiry => i <= j)
ASSUME JoinFromLeases ==
  \A lines \in AllFiles, mac \in MCStations, a \in MCAddresses :
    (mac \in DOMAIN Leases(lines) /\ Leases(lines)[mac] = a)
      <=> Holds(lines, mac, a) /\ ~\E other \in MCStations \ {mac} : Holds(lines, other, a)
ASSUME JoinFromNeighbors ==
  \A table \in AllTables, mac \in MCStations, a \in MCAddresses :
    RowOf(mac, <<>>, table).ipv4 = a
      <=> \A b \in MCAddresses : [mac |-> mac, ipv4 |-> b, reachable |-> TRUE] \in table <=> a = b
=============================================================================
