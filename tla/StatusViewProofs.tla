-------------------------- MODULE StatusViewProofs ---------------------------
(***************************************************************************)
(* How old may be what a reader of the public status is told, for every    *)
(* set of stations, every content of the tables and all time limits.  A    *)
(* status, wherever it is, bounds with its own ages how long ago what it   *)
(* says was true; the sample that is being made does so with its elapsed   *)
(* time; and no step, the clock's least of all, makes the world older than *)
(* the status that tells of it.                                            *)
(***************************************************************************)
EXTENDS StatusView, FiniteSetTheorems, TLAPS

Sample == [dumped: SUBSET Stations, rows: SUBSET Row, data: {"OK", "UNAVAILABLE"}]
Writer == [at: Places, elapsed: 0..ProbeTime, draft: Sample]

\* Types, and what the histories say of the present.
Present(t, p) == Witness \in t <=> p >= 0
TypeInv ==
  /\ session \in {"off", "busy"} \cup Modes /\ there \subseteq Stations
  /\ presence \in -(Long + 1)..Long /\ since \in 0..Never
  /\ file \in Status /\ reader \in Reader /\ writer \in Writer
  /\ Probing => session \in Modes
  /\ Present(there, presence)
  /\ session = WitnessMode => since = 0

\* What was said of the Witness and the mode by whom it was seen `age' ago: gone for
\* no longer, or there for no longer.
Seen(said, age, t, p)   == Witness \in said \ t => -p - 1 <= age
Missed(said, age, t, p) == Witness \in t \ said => p <= age

\* A status, with the stations t that are there by now, the Witness' presence p and
\* the time n since its mode was in force.
Bounded(s, t, p, n) ==
  s.phase = "active" =>
    /\ Seen(s.rows, s.stamp + ProbeTime, t, p)
    /\ s.data = "OK" => Missed(s.rows, s.stamp + ProbeTime, t, p)
    /\ s.mode = WitnessMode => /\ s.stamp <= Ttl => n <= s.stamp
                               /\ s.updated <= Stale => n <= s.updated

Macs(rows) == {row.mac : row \in rows}

\* The sample that is being made.
Sampled(w, t, p) ==
  /\ w.at = "dump" => /\ Seen(w.draft.dumped, w.elapsed, t, p)
                      /\ Missed(w.draft.dumped, w.elapsed, t, p)
  /\ w.at = "publish" =>
       /\ Seen(Macs(w.draft.rows), w.elapsed, t, p)
       /\ w.draft.data = "OK" => Missed(Macs(w.draft.rows), w.elapsed, t, p)

\* The reader looked at the age when it read, and has not taken long since.
Judged(r, n) ==
  r.at = "detect" /\ ~r.stale /\ r.value.phase = "active" /\ r.value.mode = WitnessMode =>
    n <= Stale + r.elapsed

Unshared(rows) ==
  \A row, other \in {row \in rows : row.source = "dhcp_lease"} :
    row.ipv4 = other.ipv4 => row = other

AgeInv ==
  /\ Sampled(writer, there, presence)
  /\ Bounded(file, there, presence, since)
  /\ reader.at = "detect" => Bounded(reader.value, there, presence, since)
  /\ Judged(reader, since)
LeaseInv == Unshared(writer.draft.rows)
-----------------------------------------------------------------------------
(* Arithmetic of ages. *)

LEMMA Limits ==
  /\ Ttl \in Nat /\ Stale \in Nat /\ ProbeTime \in Nat /\ DetectTime \in Nat
  /\ Ttl <= Stale /\ ProbeTime <= Stale
  BY TimeAssumption

LEMMA Counted ==
  ASSUME NEW n \in Nat, NEW age \in 0..n
  PROVE  /\ Upto(n, age) \in 0..n
         /\ age <= Upto(n, age) /\ Upto(n, age) <= age + 1
         /\ age < n => Upto(n, age) = age + 1
         /\ age = n => Upto(n, age) = n
  BY DEF Upto

\* A status grows older without changing what it says.
LEMMA OlderShape ==
  ASSUME NEW s \in Status
  PROVE  /\ Older(s) \in Status
         /\ Older(s).phase = s.phase /\ Older(s).mode = s.mode
         /\ Older(s).rows = s.rows /\ Older(s).data = s.data
         /\ s.phase = "active" => /\ Older(s).stamp = Upto(Ttl + 1, s.stamp)
                                  /\ Older(s).updated = Upto(Stale + 1, s.updated)
<1>1. Upto(Stale + 1, s.updated) \in 0..(Stale + 1) /\ Upto(Ttl + 1, s.stamp) \in 0..(Ttl + 1)
  BY Limits, Counted DEF Status
<1>2. CASE s.phase = "off"
  BY <1>2 DEF Older
<1>3. CASE s.phase = "busy"
  BY <1>1, <1>3 DEF Older, Status
<1>4. CASE s.phase = "active"
  BY <1>1, <1>4 DEF Older, Status
<1> QED BY <1>2, <1>3, <1>4 DEF Status

LEMMA StatusShapes ==
  /\ Off \in Status /\ Off.phase = "off"
  /\ Busy \in Status /\ Busy.phase = "busy"
  /\ \A mode \in Modes, rows \in SUBSET Stations, data \in {"OK", "UNAVAILABLE"}, updated \in 0..(Stale + 1) :
       Active(mode, rows, data, updated) \in Status
<1>1. Off \in Status /\ Off.phase = "off"
  BY Limits DEF Status, Off
<1>2. \A s \in Status : LET busy == [s EXCEPT !.phase = "busy", !.data = "UNAVAILABLE"]
                        IN  busy \in Status /\ busy.phase = "busy"
  BY DEF Status
<1>3. Busy \in Status /\ Busy.phase = "busy"
  BY <1>1, <1>2 DEF Busy
<1>4. ASSUME NEW mode \in Modes, NEW rows \in SUBSET Stations, NEW data \in {"OK", "UNAVAILABLE"},
             NEW updated \in 0..(Stale + 1)
      PROVE  Active(mode, rows, data, updated) \in Status
  BY Limits DEF Status, Active
<1> QED BY <1>1, <1>3, <1>4

LEMMA WriterShapes ==
  /\ NoDump \in Sample /\ Idle \in Writer /\ Idle.at = "idle"
  /\ \A w \in Writer, p \in Places : [w EXCEPT !.at = p] \in Writer /\ [w EXCEPT !.at = p].at = p
  BY Limits DEF NoDump, Sample, Idle, Writer, Places
-----------------------------------------------------------------------------
(* clients.merge *)

\* The rows are of the stations that were dumped, and no two have the same lease.
LEMMA Joined ==
  ASSUME NEW lines \in LeaseFiles, NEW table \in NeighborTables, NEW dumped \in SUBSET Stations
  PROVE  LET rows == Merge(dumped, Leases(lines), table)
         IN  rows \subseteq Row /\ Macs(rows) = dumped /\ Unshared(rows)
<1> DEFINE current  == {lines[i] : i \in {i \in DOMAIN lines : Counts(lines, i)}}
           sole     == {l \in current : \A k \in current : k.ipv4 = l.ipv4 => k = l}
           assigned == Leases(lines)
<1>1. current \subseteq Lease
  BY TableAssumption
<1>2. /\ DOMAIN assigned = {l.mac : l \in sole}
      /\ \A mac \in DOMAIN assigned : \E l \in sole : l.mac = mac /\ assigned[mac] = l.ipv4
  BY DEF Leases
<1> HIDE DEF current, sole
<1>3. \A l \in sole : l \in Lease /\ \A k \in sole : k.ipv4 = l.ipv4 => k = l
  BY <1>1 DEF sole
<1> HIDE DEF assigned
<1>4. \A mac \in DOMAIN assigned : assigned[mac] \in Addresses
  BY <1>2, <1>3 DEF Lease
<1>5. \A mac, other \in DOMAIN assigned : assigned[mac] = assigned[other] => mac = other
  BY <1>2, <1>3
<1>6. \A mac \in dumped : RowOf(mac, assigned, table) \in Row /\ RowOf(mac, assigned, table).mac = mac
  <2> TAKE mac \in dumped
  <2>1. CASE mac \in DOMAIN assigned
    BY <1>4, <2>1 DEF RowOf, Row, Sources
  <2>2. CASE mac \notin DOMAIN assigned /\ Cardinality(Reachable(table, mac)) = 1
    <3>1. Reachable(table, mac) # {}
      BY <2>2, FS_EmptySet
    <3>2. Reachable(table, mac) \subseteq Addresses
      BY TableAssumption DEF Reachable, Neighbor
    <3> QED BY <2>2, <3>1, <3>2 DEF RowOf, Row, Sources
  <2>3. CASE mac \notin DOMAIN assigned /\ Cardinality(Reachable(table, mac)) # 1
    BY <2>3 DEF RowOf, Row, Sources
  <2> QED BY <2>1, <2>2, <2>3
<1>7. \A mac \in dumped : RowOf(mac, assigned, table).source = "dhcp_lease" =>
        mac \in DOMAIN assigned /\ RowOf(mac, assigned, table).ipv4 = assigned[mac]
  BY DEF RowOf
<1> DEFINE rows == Merge(dumped, assigned, table)
<1>8. rows = {RowOf(mac, assigned, table) : mac \in dumped}
  BY DEF Merge
<1> HIDE DEF rows
<1>9. rows \subseteq Row /\ Macs(rows) = dumped
  BY <1>6, <1>8 DEF Macs
<1>10. Unshared(rows)
  <2> SUFFICES ASSUME NEW mac \in dumped, NEW other \in dumped,
                      RowOf(mac, assigned, table).source = "dhcp_lease",
                      RowOf(other, assigned, table).source = "dhcp_lease",
                      RowOf(mac, assigned, table).ipv4 = RowOf(other, assigned, table).ipv4
               PROVE  mac = other
    BY <1>8 DEF Unshared
  <2> QED BY <1>5, <1>7
<1> QED BY <1>9, <1>10 DEF rows, assigned
-----------------------------------------------------------------------------
(* Types. *)

LEMMA TypeInit == Init => TypeInv
<1> SUFFICES ASSUME Init PROVE TypeInv
  OBVIOUS
<1>1. NoRead \in Reader
  BY Limits, StatusShapes DEF NoRead, Reader
<1>2. writer \in Writer /\ writer.at = "idle"
  BY WriterShapes DEF Init
<1>3. Long \in Nat /\ Never \in Nat
  BY Limits DEF Long, Never
<1> QED BY <1>1, <1>2, <1>3, StatusShapes, WitnessAssumption
        DEF Init, TypeInv, Probing, Present

LEMMA TypeStep == TypeInv /\ [Next]_vars => TypeInv'
<1> SUFFICES ASSUME TypeInv, [Next]_vars PROVE TypeInv'
  OBVIOUS
<1>b. Long \in Nat /\ Never \in Nat
  BY Limits DEF Long, Never
<1>d. writer' = Idle => writer' \in Writer /\ ~Probing'
  BY WriterShapes DEF Probing
<1>e. WitnessMode \in Modes /\ "busy" \notin Modes /\ "off" \notin Modes
  BY WitnessAssumption DEF Modes
<1>1. CASE Begin
  BY <1>1, <1>e, WriterShapes DEF TypeInv, Begin, Goto, Quiet, Probing, Places
<1>2. CASE Announce
  BY <1>2, StatusShapes, WriterShapes DEF TypeInv, Announce, Goto, Quiet, Probing, Places
<1>3. CASE BecomeOff
  <2>1. presence' \in -(Long + 1)..Long /\ Present(there', presence')
    BY <1>3, <1>b DEF TypeInv, BecomeOff, Present
  <2> QED BY <1>3, <2>1, <1>e, WriterShapes DEF TypeInv, BecomeOff, Goto, Probing, Places
<1>4. CASE AnnounceOff
  BY <1>4, <1>d, StatusShapes DEF TypeInv, AnnounceOff, Quiet
<1>5. CASE FailWork
  BY <1>5, <1>d, StatusShapes DEF TypeInv, FailWork, Quiet
<1>6. CASE TickHealthy
  <2>1. [Idle EXCEPT !.at = "probe"] \in Writer
    BY WriterShapes DEF Places
  <2> QED BY <1>6, <2>1 DEF TypeInv, TickHealthy, Quiet
<1>7. ASSUME NEW mode \in Modes, BecomeActive(mode) PROVE TypeInv'
  <2>1. [Idle EXCEPT !.at = "probe"] \in Writer
    BY WriterShapes DEF Places
  <2>2. since' \in 0..Never /\ (session' = WitnessMode => since' = 0)
    BY <1>7, <1>b DEF TypeInv, BecomeActive
  <2> QED BY <1>7, <2>1, <2>2 DEF TypeInv, BecomeActive
<1>8. CASE Dump
  BY <1>8 DEF TypeInv, Dump, Quiet, Probing, Writer, Sample, Places
<1>9. CASE Unavailable
  BY <1>9, WriterShapes DEF TypeInv, Unavailable, Quiet, Probing, Writer, Sample, Places
<1>10. CASE Publish
  <2>1. {row.mac : row \in writer.draft.rows} \subseteq Stations
    BY DEF TypeInv, Writer, Sample, Row
  <2>2. session \in Modes /\ writer.draft.data \in {"OK", "UNAVAILABLE"} /\ writer.elapsed \in 0..(Stale + 1)
    BY <1>10, Limits DEF TypeInv, Publish, Probing, Writer, Sample
  <2>3. file' \in Status
    BY <1>10, <2>1, <2>2, StatusShapes DEF TypeInv, Publish
  <2> QED BY <1>10, <2>3, <1>d DEF TypeInv, Publish, Quiet
<1>11. CASE Kill
  BY <1>11, <1>d DEF TypeInv, Kill, Quiet
<1>12. ASSUME NEW lines \in LeaseFiles, NEW table \in NeighborTables, ReadTables(lines, table)
       PROVE  TypeInv'
  <2> DEFINE rows == Merge(writer.draft.dumped, Leases(lines), table)
  <2>1. rows \subseteq Row
    BY Joined DEF TypeInv, Writer, Sample
  <2> HIDE DEF rows
  <2>2. [dumped |-> {}, rows |-> rows, data |-> "OK"] \in Sample
    BY <2>1 DEF Sample
  <2>3. writer' \in Writer
    BY <1>12, <2>2 DEF TypeInv, ReadTables, Writer, Places, rows
  <2> QED BY <1>12, <2>3 DEF TypeInv, ReadTables, Quiet, Probing
<1>13. CASE Read
  <2>1. reader' \in Reader
    BY <1>13, Limits DEF TypeInv, Read, Reader
  <2> QED BY <1>13, <2>1 DEF TypeInv, Read, Probing
<1>14. CASE Return
  <2>1. reader' \in Reader
    BY <1>14, Limits, StatusShapes DEF TypeInv, Return, NoRead, Reader
  <2> QED BY <1>14, <2>1 DEF TypeInv, Return, Probing
<1>15. ASSUME NEW s \in Stations, Associate(s) \/ Leave(s) PROVE TypeInv'
  <2>1. presence' \in -(Long + 1)..Long /\ Present(there', presence')
    BY <1>15, <1>b DEF TypeInv, Associate, Leave, Present
  <2> QED BY <1>15, <2>1 DEF TypeInv, Associate, Leave, Probing
<1>16. CASE Tick
  <2>1. presence' \in -(Long + 1)..Long /\ Present(there', presence')
    <3>1. CASE Witness \in there
      BY <1>16, <3>1, <1>b, Counted DEF TypeInv, Tick, Present
    <3>2. CASE Witness \notin there
      <4>1. -presence \in 0..(Long + 1) /\ presence < 0
        BY <3>2, <1>b DEF TypeInv, Present
      <4> QED BY <1>16, <3>2, <4>1, <1>b DEF TypeInv, Tick, Present, Upto
    <3> QED BY <3>1, <3>2
  <2>2. since' \in 0..Never /\ (session' = WitnessMode => since' = 0)
    BY <1>16, <1>b, Counted DEF TypeInv, Tick
  <2>3. file' \in Status
    BY <1>16, OlderShape DEF TypeInv, Tick
  <2>4. reader' \in Reader
    <3>1. reader.value \in Status /\ Older(reader.value) \in Status
      BY OlderShape DEF TypeInv, Reader
    <3>2. reader.at # "idle" => reader.elapsed + 1 \in 0..DetectTime
      BY <1>16, Limits DEF TypeInv, Tick, Reader
    <3> QED BY <1>16, <3>1, <3>2 DEF TypeInv, Tick, Reader
  <2>5. writer' \in Writer /\ writer'.at = writer.at
    BY <1>16, Limits DEF TypeInv, Tick, Writer
  <2> QED BY <1>16, <2>1, <2>2, <2>3, <2>4, <2>5 DEF TypeInv, Tick, Probing
<1>17. CASE UNCHANGED vars
  BY <1>17 DEF TypeInv, vars, Probing
<1> QED BY <1>1, <1>2, <1>3, <1>4, <1>5, <1>6, <1>7, <1>8, <1>9, <1>10, <1>11, <1>12, <1>13, <1>14,
           <1>15, <1>16, <1>17 DEF Next

\* Every status that is published or read is one (controller.py:24-50, client.py:27-46).
THEOREM StatusTypes == Spec => []TypeOK
<1>1. TypeInv => TypeOK
  BY DEF TypeInv, TypeOK, Writer, Sample
<1> QED BY <1>1, TypeInit, TypeStep, PTL DEF Spec
-----------------------------------------------------------------------------
(* Ages. *)

\* Between two ticks the Witness stays where it is, or it has come or gone just now.
Moves(t, p, t2, p2) ==
  \/ (Witness \in t2 <=> Witness \in t) /\ p2 = p
  \/ Witness \in t2 /\ p2 = 0
  \/ Witness \notin t2 /\ p2 = -1

\* A tick makes the histories older by one at most, and never past their limits.
Ages(t, p, n, p2, n2) ==
  /\ Witness \in t => p2 <= p + 1 /\ p2 <= Long
  /\ Witness \notin t => -p2 <= -p + 1 /\ -p2 <= Long + 1
  /\ n2 <= n + 1

LEMMA SeenMoves ==
  ASSUME NEW said, NEW t, NEW t2, NEW p \in Int, NEW p2 \in Int, NEW age \in Nat, Moves(t, p, t2, p2)
  PROVE  /\ Seen(said, age, t, p) => Seen(said, age, t2, p2)
         /\ Missed(said, age, t, p) => Missed(said, age, t2, p2)
  BY DEF Moves, Seen, Missed

LEMMA SeenAges ==
  ASSUME NEW said, NEW t, NEW p \in Int, NEW p2 \in Int, NEW n \in Nat, NEW n2 \in Nat, NEW age \in Nat,
         Ages(t, p, n, p2, n2)
  PROVE  /\ Seen(said, age, t, p) => Seen(said, age + 1, t, p2)
         /\ Missed(said, age, t, p) => Missed(said, age + 1, t, p2)
  BY Limits DEF Ages, Seen, Missed, Long

LEMMA BoundedMoves ==
  ASSUME NEW s \in Status, NEW t, NEW t2, NEW p \in Int, NEW p2 \in Int, NEW n \in Nat, NEW n2 \in Nat,
         Moves(t, p, t2, p2), n2 <= n, Bounded(s, t, p, n)
  PROVE  Bounded(s, t2, p2, n2)
<1>1. s.stamp \in Nat /\ s.updated \in Nat /\ s.stamp + ProbeTime \in Nat
  BY Limits DEF Status
<1>2. SUFFICES ASSUME s.phase = "active" PROVE Bounded(s, t2, p2, n2)
  BY DEF Bounded
<1>3. Seen(s.rows, s.stamp + ProbeTime, t2, p2)
  BY <1>1, <1>2, SeenMoves DEF Bounded
<1>4. s.data = "OK" => Missed(s.rows, s.stamp + ProbeTime, t2, p2)
  BY <1>1, <1>2 DEF Bounded, Missed, Moves
<1> QED BY <1>1, <1>2, <1>3, <1>4, Limits DEF Bounded

LEMMA BoundedAges ==
  ASSUME NEW s \in Status, NEW t, NEW p \in Int, NEW p2 \in Int, NEW n \in Nat, NEW n2 \in Nat,
         Ages(t, p, n, p2, n2), Bounded(s, t, p, n)
  PROVE  Bounded(Older(s), t, p2, n2)
<1> DEFINE o == Older(s)
<1>1. o.phase = s.phase /\ o.mode = s.mode /\ o.rows = s.rows /\ o.data = s.data
  BY OlderShape
<1> SUFFICES ASSUME s.phase = "active" PROVE Bounded(o, t, p2, n2)
  BY <1>1 DEF Bounded
<1>2. o.stamp = Upto(Ttl + 1, s.stamp) /\ o.updated = Upto(Stale + 1, s.updated)
  BY OlderShape
<1>3. s.stamp \in 0..(Ttl + 1) /\ s.updated \in 0..(Stale + 1)
  BY DEF Status
<1>4. /\ o.stamp \in Nat /\ (o.stamp = s.stamp + 1 \/ o.stamp = Ttl + 1)
      /\ o.updated \in Nat /\ (o.updated = s.updated + 1 \/ o.updated = Stale + 1)
  BY <1>2, <1>3, Limits DEF Upto
<1> HIDE DEF o
<1>5. Seen(o.rows, o.stamp + ProbeTime, t, p2)
  BY <1>1, <1>3, <1>4, Limits DEF Bounded, Seen, Ages, Long
<1>6. o.data = "OK" => Missed(o.rows, o.stamp + ProbeTime, t, p2)
  BY <1>1, <1>3, <1>4, Limits DEF Bounded, Missed, Ages, Long
<1>7. o.mode = WitnessMode => /\ o.stamp <= Ttl => n2 <= o.stamp
                              /\ o.updated <= Stale => n2 <= o.updated
  BY <1>1, <1>3, <1>4, Limits DEF Bounded, Ages
<1> QED BY <1>5, <1>6, <1>7 DEF Bounded

LEMMA SampledMoves ==
  ASSUME NEW w \in Writer, NEW t, NEW t2, NEW p \in Int, NEW p2 \in Int,
         Moves(t, p, t2, p2), Sampled(w, t, p)
  PROVE  Sampled(w, t2, p2)
<1>1. w.elapsed \in Nat
  BY Limits DEF Writer
<1> QED BY <1>1, SeenMoves DEF Sampled

LEMMA AgeInit == Init => AgeInv
<1>1. ASSUME Init PROVE Off.phase = "off" /\ Idle.at = "idle" /\ NoRead.at = "idle" /\ NoRead.value = Off
  BY DEF Off, Idle, NoRead
<1> QED BY <1>1 DEF Init, AgeInv, Sampled, Bounded, Judged

\* Whatever happens between two ticks.
LEMMA Quick ==
  ASSUME TypeInv, Next, ~Tick
  PROVE  /\ Moves(there, presence, there', presence') /\ since' \in Nat /\ since' <= since
         /\ reader' = reader \/ reader' = NoRead \/ Read
         /\ file' = file \/ file'.phase # "active" \/ Publish
         /\ writer' = writer \/ writer'.at \notin {"dump", "publish"} \/ Dump \/ Unavailable
            \/ \E lines \in LeaseFiles, table \in NeighborTables : ReadTables(lines, table)
<1> USE DEF Quiet, Moves
<1>1. since \in Nat /\ Present(there, presence)
  BY Limits DEF TypeInv, Never
<1>2. Off.phase # "active" /\ Busy.phase # "active" /\ Idle.at \notin {"dump", "publish"}
  BY StatusShapes, WriterShapes
<1>3. \A p \in {"announce", "work", "announce_off"} : Goto(p) => writer'.at \notin {"dump", "publish"}
  BY DEF TypeInv, Writer, Goto
<1>4. CASE Begin \/ Announce \/ AnnounceOff \/ FailWork \/ Kill
  BY <1>1, <1>2, <1>3, <1>4 DEF Begin, Announce, AnnounceOff, FailWork, Kill
<1>5. CASE BecomeOff
  BY <1>1, <1>3, <1>5 DEF BecomeOff, Present
<1>6. CASE TickHealthy \/ \E mode \in Modes : BecomeActive(mode)
  <2> DEFINE probing == [Idle EXCEPT !.at = "probe"]
  <2>1. probing.at = "probe"
    BY WriterShapes DEF Places
  <2>2. writer' = probing
    BY <1>6 DEF TickHealthy, BecomeActive
  <2> HIDE DEF probing
  <2> QED BY <1>1, <1>6, <2>1, <2>2 DEF TickHealthy, BecomeActive
<1>7. CASE Dump \/ Unavailable \/ \E lines \in LeaseFiles, table \in NeighborTables : ReadTables(lines, table)
  <2>1. UNCHANGED file /\ Quiet
    BY <1>7 DEF Dump, Unavailable, ReadTables
  <2> QED BY <1>1, <1>7, <2>1
<1>8. CASE Publish
  BY <1>1, <1>2, <1>8 DEF Publish
<1>9. CASE Read
  BY <1>1, <1>9 DEF Read
<1>10. CASE Return
  BY <1>1, <1>10 DEF Return
<1>11. CASE \E s \in Stations : Associate(s) \/ Leave(s)
  BY <1>1, <1>11 DEF Associate, Leave
<1> QED BY <1>4, <1>5, <1>6, <1>7, <1>8, <1>9, <1>10, <1>11 DEF Next

LEMMA AgeQuick == TypeInv /\ AgeInv /\ Next /\ ~Tick => AgeInv'
<1> SUFFICES ASSUME TypeInv, AgeInv, Next, ~Tick PROVE AgeInv'
  OBVIOUS
<1>1. /\ presence \in Int /\ since \in Nat /\ file \in Status /\ reader \in Reader /\ writer \in Writer
      /\ presence' \in Int /\ since' \in Nat /\ since' <= since
      /\ Moves(there, presence, there', presence')
  <2>1. TypeInv'
    BY TypeStep
  <2>2. Long \in Nat /\ Never \in Nat
    BY Limits DEF Long, Never
  <2> QED BY <2>1, <2>2, Quick DEF TypeInv
<1>2. \A s \in Status : Bounded(s, there, presence, since) => Bounded(s, there', presence', since')
  BY <1>1, BoundedMoves
<1>3. Bounded(file', there', presence', since')
  <2>1. CASE Publish
    <3> DEFINE rows == Macs(writer.draft.rows)
    <3>1. /\ file' = Active(session, rows, writer.draft.data, writer.elapsed)
          /\ UNCHANGED <<there, presence, since>>
      BY <2>1 DEF Publish, Macs, Quiet
    <3>2. /\ Seen(rows, writer.elapsed, there, presence)
          /\ writer.draft.data = "OK" => Missed(rows, writer.elapsed, there, presence)
      BY <2>1 DEF AgeInv, Sampled, Publish
    <3>3. writer.elapsed \in 0..ProbeTime /\ (session = WitnessMode => since = 0)
      BY <1>1 DEF Writer, TypeInv
    <3> HIDE DEF rows
    <3>4. Bounded(Active(session, rows, writer.draft.data, writer.elapsed), there, presence, since)
      BY <1>1, <3>2, <3>3, Limits DEF Bounded, Active, Seen, Missed
    <3> QED BY <3>1, <3>4
  <2> QED BY <1>1, <1>2, <2>1, Quick DEF AgeInv, Bounded
<1>4. reader' = reader \/ reader'.value = file \/ reader'.at = "idle"
  BY Quick DEF Read, NoRead
<1>5. reader'.at = "detect" => Bounded(reader'.value, there', presence', since')
  BY <1>1, <1>2, <1>4 DEF AgeInv, Reader
<1>6. Judged(reader', since')
  <2>1. CASE reader' = reader
    <3>1. reader.elapsed \in Nat
      BY <1>1, Limits DEF Reader
    <3> QED BY <1>1, <2>1, <3>1, Limits DEF AgeInv, Judged
  <2>2. CASE reader' = NoRead
    BY <2>2 DEF Judged, NoRead
  <2>3. CASE Read
    <3>1. since' = since /\ reader'.elapsed = 0 /\ reader'.value = file
      BY <2>3 DEF Read
    <3>0. ~reader'.stale => file.phase = "off" \/ ~(file.updated > Stale)
      BY <2>3, Zenon DEF Read
    <3>2. file.updated \in Nat
      BY <1>1, Limits DEF Status
    <3>3. file.phase = "active" /\ file.mode = WitnessMode /\ ~reader'.stale => since <= Stale
      BY <1>1, <3>0, <3>1, <3>2, Limits DEF AgeInv, Bounded
    <3> QED BY <1>1, <3>1, <3>3, Limits DEF Judged
  <2> QED BY <2>1, <2>2, <2>3, Quick
<1>7. Sampled(writer', there', presence')
  <2>1. CASE writer' = writer
    BY <1>1, <2>1, SampledMoves DEF AgeInv
  <2>2. CASE writer'.at \notin {"dump", "publish"}
    BY <2>2 DEF Sampled
  <2>3. CASE Dump
    <3>1. writer'.at = "dump" /\ writer'.draft.dumped = there /\ there' = there
      BY <1>1, <2>3 DEF Dump, Writer, Sample, Quiet
    <3> QED BY <3>1 DEF Sampled, Seen, Missed
  <2>4. CASE Unavailable
    <3>1. writer'.at = "publish" /\ writer'.draft = NoDump
      BY <1>1, <2>4 DEF Unavailable, Writer
    <3> QED BY <3>1 DEF Sampled, Seen, Macs, NoDump
  <2>5. ASSUME NEW lines \in LeaseFiles, NEW table \in NeighborTables, ReadTables(lines, table)
        PROVE  Sampled(writer', there', presence')
    <3> DEFINE rows == Merge(writer.draft.dumped, Leases(lines), table)
    <3>1. Macs(rows) = writer.draft.dumped
      BY <1>1, Joined DEF Writer, Sample
    <3> HIDE DEF rows
    <3>2. writer'.at = "publish" /\ writer'.draft.rows = rows /\ writer'.elapsed = writer.elapsed
          /\ writer.at = "dump" /\ UNCHANGED <<there, presence>>
      BY <1>1, <2>5 DEF ReadTables, Writer, Sample, Quiet, rows
    <3> QED BY <3>1, <3>2 DEF AgeInv, Sampled
  <2> QED BY <2>1, <2>2, <2>3, <2>4, <2>5, Quick
<1> QED BY <1>3, <1>5, <1>6, <1>7 DEF AgeInv

LEMMA AgeTick == TypeInv /\ AgeInv /\ Tick => AgeInv'
<1> SUFFICES ASSUME TypeInv, AgeInv, Tick PROVE AgeInv'
  OBVIOUS
<1>1. Long \in Nat /\ Never \in Nat
  BY Limits DEF Long, Never
<1>2. /\ presence \in -(Long + 1)..Long /\ since \in 0..Never /\ Present(there, presence)
      /\ file \in Status /\ reader \in Reader /\ writer \in Writer
  BY DEF TypeInv
<1>3. there' = there /\ presence' \in Int /\ since' \in Nat /\ Ages(there, presence, since, presence', since')
  <2>1. CASE Witness \in there
    BY <1>1, <1>2, <2>1 DEF Tick, Upto, Ages, Present
  <2>2. CASE Witness \notin there
    BY <1>1, <1>2, <2>2 DEF Tick, Upto, Ages, Present
  <2> QED BY <2>1, <2>2
<1>4. \A s \in Status : Bounded(s, there, presence, since) => Bounded(Older(s), there', presence', since')
  BY <1>1, <1>2, <1>3, BoundedAges
<1>5. Bounded(file', there', presence', since')
  BY <1>2, <1>4 DEF Tick, AgeInv
<1>6. ASSUME reader'.at = "detect"
      PROVE  /\ reader.at = "detect" /\ reader.elapsed \in Nat /\ reader'.elapsed = reader.elapsed + 1
             /\ reader'.value = Older(reader.value) /\ reader'.stale = reader.stale
  BY <1>2, <1>6, Limits DEF Tick, Reader
<1>7. reader'.at = "detect" => Bounded(reader'.value, there', presence', since')
  BY <1>2, <1>4, <1>6 DEF AgeInv, Reader
<1>8. Judged(reader', since')
  <2> SUFFICES ASSUME reader'.at = "detect" PROVE Judged(reader', since')
    BY DEF Judged
  <2>1. reader'.value.phase = reader.value.phase /\ reader'.value.mode = reader.value.mode
    BY <1>2, <1>6, OlderShape DEF Reader
  <2> QED BY <1>2, <1>3, <1>6, <2>1, Limits DEF AgeInv, Judged, Ages
<1>9. Sampled(writer', there', presence')
  <2>1. CASE Probing
    <3>1. writer'.at = writer.at /\ writer'.draft = writer.draft /\ writer'.elapsed = writer.elapsed + 1
      BY <1>2, <2>1 DEF Tick, Writer
    <3>2. writer.elapsed \in Nat
      BY <1>2, Limits DEF Writer
    <3>3. \A said : /\ Seen(said, writer.elapsed, there, presence) => Seen(said, writer'.elapsed, there', presence')
                    /\ Missed(said, writer.elapsed, there, presence) => Missed(said, writer'.elapsed, there', presence')
      <4>1. presence \in Int /\ since \in Nat
        BY <1>1, <1>2
      <4>2. \A said : /\ Seen(said, writer.elapsed, there, presence) => Seen(said, writer.elapsed + 1, there, presence')
                      /\ Missed(said, writer.elapsed, there, presence) => Missed(said, writer.elapsed + 1, there, presence')
        BY <1>3, <3>2, <4>1, SeenAges
      <4> QED BY <1>3, <3>1, <4>2
    <3> QED BY <3>1, <3>3 DEF AgeInv, Sampled
  <2>2. CASE ~Probing
    BY <2>2 DEF Tick, Probing, Sampled
  <2> QED BY <2>1, <2>2
<1> QED BY <1>5, <1>7, <1>8, <1>9 DEF AgeInv

LEMMA AgeStep == TypeInv /\ AgeInv /\ [Next]_vars => AgeInv'
<1>1. ASSUME AgeInv, UNCHANGED vars PROVE AgeInv'
  BY <1>1 DEF vars, AgeInv, Sampled, Judged
<1> QED BY <1>1, AgeQuick, AgeTick

\* No two rows that are made have the same lease, whatever the lease file says.
LEMMA LeaseStep == TypeInv /\ LeaseInv /\ [Next]_vars => LeaseInv'
<1> SUFFICES ASSUME TypeInv, LeaseInv, [Next]_vars PROVE LeaseInv'
  OBVIOUS
<1>1. writer \in Writer /\ NoDump.rows = {} /\ Idle.draft = NoDump
  BY DEF TypeInv, NoDump, Idle
<1>2. CASE writer'.draft.rows = writer.draft.rows
  BY <1>2 DEF LeaseInv
<1>3. CASE writer'.draft.rows = {}
  BY <1>3 DEF LeaseInv, Unshared
<1>4. ASSUME NEW p, Goto(p) PROVE writer'.draft.rows = writer.draft.rows
  BY <1>1, <1>4 DEF Goto, Writer
<1>5. CASE Begin \/ Announce \/ BecomeOff
  BY <1>2, <1>4, <1>5 DEF Begin, Announce, BecomeOff
<1>6. CASE AnnounceOff \/ FailWork \/ Publish \/ Kill
  BY <1>1, <1>3, <1>6 DEF AnnounceOff, FailWork, Publish, Kill
<1>7. CASE TickHealthy \/ \E mode \in Modes : BecomeActive(mode)
  <2>1. writer' = [Idle EXCEPT !.at = "probe"]
    BY <1>7 DEF TickHealthy, BecomeActive
  <2> QED BY <1>1, <1>3, <2>1 DEF Idle
<1>8. CASE Dump \/ Tick
  <2>1. CASE Dump
    BY <1>1, <1>2, <2>1 DEF Dump, Writer, Sample
  <2>2. CASE Tick
    <3>1. writer' = writer \/ writer' = [writer EXCEPT !.elapsed = @ + 1]
      BY <2>2, Zenon DEF Tick
    <3> QED BY <1>1, <1>2, <3>1 DEF Writer
  <2> QED BY <1>8, <2>1, <2>2
<1>9. CASE Unavailable
  BY <1>1, <1>3, <1>9 DEF Unavailable, Writer
<1>10. ASSUME NEW lines \in LeaseFiles, NEW table \in NeighborTables, ReadTables(lines, table)
       PROVE  LeaseInv'
  <2> DEFINE rows == Merge(writer.draft.dumped, Leases(lines), table)
  <2>1. Unshared(rows)
    BY <1>1, Joined DEF Writer, Sample
  <2> HIDE DEF rows
  <2>2. writer'.draft.rows = rows
    BY <1>1, <1>10 DEF ReadTables, Writer, Sample, rows
  <2> QED BY <2>1, <2>2 DEF LeaseInv
<1>11. CASE Read \/ Return \/ (\E s \in Stations : Associate(s) \/ Leave(s)) \/ UNCHANGED vars
  BY <1>2, <1>11 DEF Read, Return, Associate, Leave, vars
<1> QED BY <1>5, <1>6, <1>7, <1>8, <1>9, <1>10, <1>11 DEF Next
-----------------------------------------------------------------------------
LEMMA StatusInvariant == Spec => [](TypeInv /\ AgeInv /\ LeaseInv)
<1>1. Init => LeaseInv
  BY DEF Init, LeaseInv, Unshared, Idle, NoDump
<1> QED BY <1>1, TypeInit, TypeStep, AgeInit, AgeStep, LeaseStep, PTL DEF Spec

\* Rows that are shown are of stations that were there within CLIENT_TTL and the time
\* of one probe, none that was there all that time is missing, they are shown with the
\* mode that was in force within CLIENT_TTL, and no two share a lease, for all time
\* limits and tables (clients.py:81-83, 126-167).
THEOREM RowsAreRecent == Spec => []RowsRecent
<1>1. TypeInv /\ AgeInv /\ LeaseInv => RowsRecent
  <2> SUFFICES ASSUME TypeInv, AgeInv, LeaseInv PROVE RowsRecent
    OBVIOUS
  <2>1. reader \in Reader /\ presence \in Int /\ since \in Nat /\ Present(there, presence)
    BY Limits DEF TypeInv, Long, Never
  <2>2. ASSUME Answering, Answer.data = "OK"
        PROVE  /\ Witness \in Answer.rows \ there => -presence - 1 <= Ttl + ProbeTime
               /\ Witness \in there /\ presence > Ttl + ProbeTime => Witness \in Answer.rows
               /\ Answer.mode = WitnessMode => since <= Ttl
    <3> DEFINE v == reader.value
    <3>0. v.phase \in {"off", "busy", "active"} /\ v.stamp \in 0..(Ttl + 1)
      BY <2>1 DEF Reader, Status
    <3>1. v.phase = "active" /\ v.data = "OK" /\ v.stamp <= Ttl /\ Answer.rows = v.rows /\ Answer.mode = v.mode
      <4>1. v.phase # "off" /\ v.phase # "busy" /\ ~reader.stale /\ ~(v.stamp > Ttl)
        BY <2>2 DEF Answer
      <4>2. Answer = [health |-> "OK", mode |-> v.mode, rows |-> v.rows, data |-> v.data]
        BY <3>0, <4>1, Zenon DEF Answer
      <4> QED BY <2>2, <3>0, <4>1, <4>2, Limits
    <3>2. v.stamp \in Nat /\ Bounded(v, there, presence, since)
      BY <2>1, <2>2, Limits DEF AgeInv, Answering, Reader, Status
    <3> HIDE DEF v
    <3> QED BY <2>1, <3>1, <3>2, Limits DEF Bounded, Seen, Missed
  <2> QED BY <2>2 DEF RowsRecent, LeaseInv, Unshared
<1> QED BY <1>1, StatusInvariant, PTL

\* Who is told of an active session had one in that mode within the 60 seconds after
\* which a status is stale and the time the answer took (client.py:44-45, controller.py:24).
THEOREM StatusIsRecent == Spec => []StatusRecent
<1>1. TypeInv /\ AgeInv => StatusRecent
  <2> SUFFICES ASSUME TypeInv, AgeInv, Answering, Answer.health = "OK", Answer.mode = WitnessMode
               PROVE  since <= Stale + DetectTime
    BY DEF StatusRecent
  <2>1. reader \in Reader /\ since \in Nat
    BY Limits DEF TypeInv, Never
  <2>2. reader.value.phase = "active" /\ ~reader.stale /\ reader.value.mode = WitnessMode
    BY <2>1, WitnessAssumption DEF Answer, Reader, Status
  <2>3. since <= Stale + reader.elapsed
    BY <2>2 DEF AgeInv, Judged, Answering
  <2> QED BY <2>1, <2>3, Limits DEF Reader
<1> QED BY <1>1, StatusInvariant, PTL
-----------------------------------------------------------------------------
(* What the join says, and not how it is found. *)

\* The line of mac that counts, the latest of its own that is not expired and the first
\* of equals, is for the address a.
Latest(lines, mac, a) ==
  \E i \in DOMAIN lines :
    /\ lines[i].mac = mac /\ lines[i].ipv4 = a /\ lines[i].expiry > 0
    /\ \A j \in DOMAIN lines : lines[j].mac = mac =>
         lines[j].expiry <= lines[i].expiry /\ (lines[j].expiry = lines[i].expiry => i <= j)

LEMMA LineTypes ==
  ASSUME NEW lines \in Seq(Lease), NEW i \in DOMAIN lines
  PROVE  i \in Nat /\ lines[i] \in Lease /\ lines[i].expiry \in Nat
<1> DEFINE S == Lease
<1>1. lines \in Seq(S)
  OBVIOUS
<1> HIDE DEF S
<1>2. i \in Nat /\ lines[i] \in S
  <2>1. DOMAIN lines = 1..Len(lines) /\ Len(lines) \in Nat
    BY <1>1
  <2>2. i \in 1..Len(lines)
    BY <2>1
  <2> QED BY <1>1, <2>1, <2>2
<1> QED BY <1>2 DEF S, Lease

LEMMA LatestCounts ==
  ASSUME NEW lines \in Seq(Lease), NEW mac, NEW a
  PROVE  Latest(lines, mac, a) <=>
           \E i \in DOMAIN lines : Counts(lines, i) /\ lines[i].mac = mac /\ lines[i].ipv4 = a
<1>1. \A i \in DOMAIN lines : i \in Nat /\ lines[i].expiry \in Nat
  BY LineTypes
<1>2. ASSUME NEW i \in DOMAIN lines, lines[i].mac = mac
      PROVE  Counts(lines, i) <=>
               /\ lines[i].expiry > 0
               /\ \A j \in DOMAIN lines : lines[j].mac = mac =>
                    lines[j].expiry <= lines[i].expiry /\ (lines[j].expiry = lines[i].expiry => i <= j)
  BY <1>1, <1>2 DEF Counts
<1> HIDE DEF Counts
<1> QED BY <1>2 DEF Latest

\* A lease address is shown with a station exactly when it is the one of the station's
\* latest lease and of no other's, for lease files of any length (clients.py:70-85).
THEOREM LeasesAreJoined ==
  ASSUME NEW lines \in Seq(Lease), NEW mac, NEW a
  PROVE  mac \in DOMAIN Leases(lines) /\ Leases(lines)[mac] = a
           <=> Latest(lines, mac, a) /\ \A other : Latest(lines, other, a) => other = mac
<1> DEFINE current == {lines[i] : i \in {i \in DOMAIN lines : Counts(lines, i)}}
           sole    == {l \in current : \A k \in current : k.ipv4 = l.ipv4 => k = l}
<1>1. /\ DOMAIN Leases(lines) = {l.mac : l \in sole}
      /\ \A m \in DOMAIN Leases(lines) :
           Leases(lines)[m] = (CHOOSE l \in sole : l.mac = m).ipv4
  BY DEF Leases
<1>2. \A m, b : Latest(lines, m, b) <=> \E l \in current : l.mac = m /\ l.ipv4 = b
  BY LatestCounts
<1>3. \A k, l \in current : k.mac = l.mac => k = l
  <2> SUFFICES ASSUME NEW i \in DOMAIN lines, NEW j \in DOMAIN lines,
                      Counts(lines, i), Counts(lines, j), lines[i].mac = lines[j].mac, i # j
               PROVE  FALSE
    OBVIOUS
  <2>1. /\ i \in Nat /\ j \in Nat
        /\ lines[i].expiry \in Nat /\ lines[j].expiry \in Nat
    BY LineTypes
  <2> QED BY <2>1 DEF Counts
<1> HIDE DEF current
<1>4. ASSUME mac \in DOMAIN Leases(lines), Leases(lines)[mac] = a
      PROVE  Latest(lines, mac, a) /\ \A other : Latest(lines, other, a) => other = mac
  <2>1. PICK l \in sole : l.mac = mac /\ l.ipv4 = a
    BY <1>1, <1>4
  <2> QED BY <2>1, <1>2
<1>5. ASSUME Latest(lines, mac, a), \A other : Latest(lines, other, a) => other = mac
      PROVE  mac \in DOMAIN Leases(lines) /\ Leases(lines)[mac] = a
  <2>1. PICK l \in current : l.mac = mac /\ l.ipv4 = a
    BY <1>2, <1>5
  <2>2. l \in sole
    <3>1. ASSUME NEW k \in current, k.ipv4 = l.ipv4 PROVE k = l
      <4>1. Latest(lines, k.mac, a)
        BY <3>1, <2>1, <1>2
      <4>2. k.mac = l.mac
        BY <4>1, <2>1, <1>5
      <4> QED BY <4>2, <1>3
    <3> QED BY <3>1
  <2>3. mac \in DOMAIN Leases(lines)
    BY <1>1, <2>1, <2>2
  <2>4. \A k \in sole : k.mac = mac => k = l
    BY <1>3, <2>1
  <2>5. (CHOOSE k \in sole : k.mac = mac) = l
    BY <2>1, <2>2, <2>4
  <2> QED BY <1>1, <2>1, <2>3, <2>5
<1> QED BY <1>4, <1>5

\* A station without a lease is shown with an address from `ip neigh' exactly when that
\* is the only one it is reachable at (clients.py:88-109).
THEOREM NeighborsAreJoined ==
  ASSUME IsFiniteSet(Addresses), "none" \notin Addresses, NEW table \in SUBSET Neighbor,
         NEW assigned, NEW mac, mac \notin DOMAIN assigned, NEW a \in Addresses
  PROVE  RowOf(mac, assigned, table).ipv4 = a <=> Reachable(table, mac) = {a}
<1> DEFINE reached == Reachable(table, mac)
<1>1. IsFiniteSet(reached) /\ reached \subseteq Addresses
  <2>1. reached \subseteq Addresses
    BY DEF Reachable, Neighbor
  <2> QED BY <2>1, FS_Subset
<1>2. Cardinality(reached) = 1 <=> \E b : reached = {b}
  BY <1>1, FS_Singleton
<1> HIDE DEF reached
<1>3. CASE Cardinality(reached) = 1
  <2>1. PICK b : reached = {b}
    BY <1>2, <1>3
  <2>2. RowOf(mac, assigned, table).ipv4 = b
    BY <1>3, <2>1 DEF RowOf, reached
  <2> QED BY <2>1, <2>2 DEF reached
<1>4. CASE Cardinality(reached) # 1
  <2>1. RowOf(mac, assigned, table).ipv4 = "none"
    BY <1>4 DEF RowOf, reached
  <2> QED BY <2>1, <1>2, <1>4 DEF reached
<1> QED BY <1>3, <1>4
=============================================================================
