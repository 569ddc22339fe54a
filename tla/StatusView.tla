----------------------------- MODULE StatusView ------------------------------
(***************************************************************************)
(* The public status from its making to its use: controller.status with    *)
(* clients.snapshot and merge, under the operation lock, and client.status *)
(* with clients.expire in whoever asks, without any lock.  Stations come   *)
(* and go between the reads, the supervisor may stall or die, and what the *)
(* reader holds may be replaced while it looks for the uplink.  Times are  *)
(* ages in ticks of the monotonic clock, counted up to one past the limit  *)
(* they are compared with; the histories are of one station and one mode,  *)
(* Witness and WitnessMode, which may be any.                              *)
(***************************************************************************)
EXTENDS Integers, Sequences, FiniteSets

CONSTANTS
  Stations,        \* MAC addresses
  Addresses,       \* IPv4 addresses of the hotspot's subnet
  LeaseFiles,      \* what dnsmasq's lease file may hold when it is read
  NeighborTables,  \* what `ip neigh' may report
  Witness,         \* the station and
  WitnessMode,     \* the mode the histories are of
  Ttl,             \* CLIENT_TTL
  Stale,           \* the 60 seconds of client.status
  ProbeTime,       \* Probe's deadline
  DetectTime       \* bound: what client.status takes after reading the file

Lease    == [mac: Stations, ipv4: Addresses, expiry: Nat]       \* 0: has passed
Neighbor == [mac: Stations, ipv4: Addresses, reachable: BOOLEAN]

ASSUME TableAssumption == /\ LeaseFiles \subseteq Seq(Lease)
                          /\ NeighborTables \subseteq SUBSET Neighbor
ASSUME TimeAssumption  == /\ {Ttl, Stale, ProbeTime, DetectTime} \subseteq Nat
                          /\ Ttl <= Stale /\ ProbeTime <= Stale
ASSUME WitnessAssumption == Witness \in Stations /\ WitnessMode \in {"local", "internet"}

VARIABLES
  session,   \* the journal: "off", "busy", or the mode of an active session
  there,     \* the stations associated with the access point
  presence,  \* history: n >= 0, Witness has been there for n ticks; -n, away for n - 1
  since,     \* history: ticks since the session was last active in WitnessMode
  writer,    \* who holds the operation lock, and the status it is making
  file,      \* status.json
  reader     \* a caller of client.status, and what it has read

vars == <<session, there, presence, since, writer, file, reader>>

Modes   == {"local", "internet"}
Sources == {"dhcp_lease", "neighbor_reachable", "none"}
Row     == [mac: Stations, ipv4: Addresses \cup {"none"}, source: Sources]

Long    == Ttl + ProbeTime + 1
Never   == Stale + DetectTime + 1
Upto(n, age) == IF age < n THEN age + 1 ELSE n

\* A published status; only an active one has rows, which are "OK" or "UNAVAILABLE",
\* and of which only the station is kept here.
Off     == [phase |-> "off", mode |-> "off", rows |-> {}, data |-> "OFF", updated |-> 0, stamp |-> 0]
Busy    == [Off EXCEPT !.phase = "busy", !.data = "UNAVAILABLE"]
Active(mode, rows, data, updated) ==
  [phase |-> "active", mode |-> mode, rows |-> rows, data |-> data, updated |-> updated, stamp |-> 0]

Status == [phase: {"off", "busy", "active"}, mode: Modes \cup {"off"}, rows: SUBSET Stations,
           data: {"OFF", "OK", "UNAVAILABLE"}, updated: 0..(Stale + 1), stamp: 0..(Ttl + 1)]

Places == {"idle", "announce", "work", "announce_off", "probe", "dump", "publish"}
NoDump == [dumped |-> {}, rows |-> {}, data |-> "UNAVAILABLE"]
Idle   == [at |-> "idle", elapsed |-> 0, draft |-> NoDump]
Reader == [at: {"idle", "detect"}, stale: BOOLEAN, elapsed: 0..DetectTime, value: Status]
NoRead == [at |-> "idle", stale |-> FALSE, elapsed |-> 0, value |-> Off]

TypeOK ==
  /\ session \in {"off", "busy"} \cup Modes
  /\ there \subseteq Stations /\ presence \in -(Long + 1)..Long
  /\ since \in 0..Never
  /\ writer.at \in Places /\ writer.elapsed \in 0..ProbeTime
  /\ writer.draft.dumped \subseteq Stations /\ writer.draft.rows \subseteq Row
  /\ file \in Status
  /\ reader \in Reader
-----------------------------------------------------------------------------
(* clients.merge: stations joined with leases and, failing these, neighbours. *)

\* The line of each station that counts: not expired, the latest, the first of equals.
Counts(lines, i) ==
  /\ lines[i].expiry > 0
  /\ \A j \in DOMAIN lines \ {i} : lines[j].mac = lines[i].mac =>
       lines[j].expiry < lines[i].expiry \/ (lines[j].expiry = lines[i].expiry /\ i < j)

Leases(lines) ==
  LET current == {lines[i] : i \in {i \in DOMAIN lines : Counts(lines, i)}}
      sole    == {l \in current : \A k \in current : k.ipv4 = l.ipv4 => k = l}
  IN  [mac \in {l.mac : l \in sole} |-> (CHOOSE l \in sole : l.mac = mac).ipv4]

Reachable(table, mac) == {n.ipv4 : n \in {n \in table : n.mac = mac /\ n.reachable}}

RowOf(mac, assigned, table) ==
  IF mac \in DOMAIN assigned
    THEN [mac |-> mac, ipv4 |-> assigned[mac], source |-> "dhcp_lease"]
  ELSE IF Cardinality(Reachable(table, mac)) = 1
    THEN [mac |-> mac, ipv4 |-> CHOOSE a \in Reachable(table, mac) : TRUE, source |-> "neighbor_reachable"]
  ELSE [mac |-> mac, ipv4 |-> "none", source |-> "none"]

Merge(dumped, assigned, table) == {RowOf(mac, assigned, table) : mac \in dumped}
-----------------------------------------------------------------------------
(* The holder of the lock: an operation, or a tick of the supervisor. *)

Goto(p) == writer' = [writer EXCEPT !.at = p]
Quiet   == UNCHANGED <<there, presence, since, reader>>

\* start, switch, stop, and a tick that found the session unhealthy: the journal first.
Begin ==
  /\ writer.at = "idle" /\ Goto("announce")
  /\ session' = "busy" /\ UNCHANGED file /\ Quiet

\* Mutant: the mode is published as the journal's phase.
AnnouncePhase ==
  /\ writer.at = "announce" /\ Goto("work")
  /\ file' = [Busy EXCEPT !.mode = session] /\ UNCHANGED session /\ Quiet

Announce ==
  /\ writer.at = "announce" /\ Goto("work")
  /\ file' = Busy /\ UNCHANGED session /\ Quiet

BecomeActive(mode) ==
  /\ writer.at = "work" /\ session' = mode
  /\ since' = IF mode = WitnessMode THEN 0 ELSE since
  /\ writer' = [Idle EXCEPT !.at = "probe"]
  /\ UNCHANGED <<there, presence, file, reader>>

\* The access point is gone, and every station with it.
BecomeOff ==
  /\ writer.at = "work" /\ session' = "off" /\ Goto("announce_off")
  /\ there' = {} /\ presence' = IF Witness \in there THEN -1 ELSE presence
  /\ UNCHANGED <<since, file, reader>>

AnnounceOff ==
  /\ writer.at = "announce_off" /\ writer' = Idle
  /\ file' = Off /\ UNCHANGED session /\ Quiet

\* A failed operation publishes what the journal still says.
FailWork == writer.at = "work" /\ writer' = Idle /\ file' = Busy /\ UNCHANGED session /\ Quiet

\* The supervisor found the session healthy and publishes it anew.
TickHealthy ==
  /\ writer.at = "idle" /\ session \in Modes
  /\ writer' = [Idle EXCEPT !.at = "probe"]
  /\ UNCHANGED <<session, file>> /\ Quiet

\* snapshot: `updated' is taken before it, the stamp of the rows after it.
Dump ==
  /\ writer.at = "probe"
  /\ writer' = [writer EXCEPT !.at = "dump", !.draft.dumped = there]
  /\ UNCHANGED <<session, file>> /\ Quiet

\* The tables are read while stations come and go, and may say anything: one step.
\* The rows are those of the stations as dumped, not as they are by now.
ReadTables(lines, table) ==
  /\ writer.at = "dump"
  /\ writer' = [writer EXCEPT !.at = "publish", !.draft =
       [dumped |-> {}, rows |-> Merge(writer.draft.dumped, Leases(lines), table), data |-> "OK"]]
  /\ UNCHANGED <<session, file>> /\ Quiet

\* Mutant: when a probe fails, the rows published last are published again.
UnavailableCached ==
  /\ writer.at \in {"probe", "dump"}
  /\ writer' = [writer EXCEPT !.at = "publish", !.draft = [NoDump EXCEPT !.data = "OK",
       !.rows = {[mac |-> s, ipv4 |-> "none", source |-> "none"] : s \in file.rows}]]
  /\ UNCHANGED <<session, file>> /\ Quiet

\* Any probe that fails or exceeds the deadline leaves no rows at all.
Unavailable ==
  /\ writer.at \in {"probe", "dump"}
  /\ writer' = [writer EXCEPT !.at = "publish", !.draft = NoDump]
  /\ UNCHANGED <<session, file>> /\ Quiet

Publish ==
  /\ writer.at = "publish" /\ writer' = Idle
  /\ file' = Active(session, {row.mac : row \in writer.draft.rows}, writer.draft.data, writer.elapsed)
  /\ UNCHANGED session /\ Quiet

Kill == writer.at # "idle" /\ writer' = Idle /\ UNCHANGED <<session, file>> /\ Quiet
-----------------------------------------------------------------------------
(* client.status *)

\* Mutant: the age of the status is not looked at.
ReadAnyAge ==
  /\ reader.at = "idle"
  /\ reader' = [at |-> "detect", stale |-> FALSE, elapsed |-> 0, value |-> file]
  /\ UNCHANGED <<session, there, presence, since, writer, file>>

\* A missing file reads like one that says off.
Read ==
  /\ reader.at = "idle"
  /\ reader' = [at |-> "detect", elapsed |-> 0, value |-> file,
                stale |-> file.phase # "off" /\ file.updated > Stale]
  /\ UNCHANGED <<session, there, presence, since, writer, file>>

\* What status() returns if it ends now: expire() looks at the clock last.
Answer ==
  LET v == reader.value IN
  IF v.phase = "off" THEN [health |-> "OK", mode |-> "off", rows |-> {}, data |-> "OFF"]
  ELSE IF reader.stale THEN [health |-> "UNKNOWN", mode |-> v.mode, rows |-> {}, data |-> "UNAVAILABLE"]
  ELSE IF v.phase # "active" THEN [health |-> "OK", mode |-> "busy", rows |-> {}, data |-> "UNAVAILABLE"]
  ELSE IF v.stamp > Ttl THEN [health |-> "OK", mode |-> v.mode, rows |-> {}, data |-> "STALE"]
  ELSE [health |-> "OK", mode |-> v.mode, rows |-> v.rows, data |-> v.data]

Return == reader.at = "detect" /\ reader' = NoRead /\ UNCHANGED <<session, there, presence, since, writer, file>>
-----------------------------------------------------------------------------
(* Stations and the clock. *)

Associate(s) ==
  /\ session # "off" /\ s \notin there /\ there' = there \cup {s}
  /\ presence' = IF s = Witness THEN 0 ELSE presence
  /\ UNCHANGED <<session, since, writer, file, reader>>

Leave(s) ==
  /\ s \in there /\ there' = there \ {s}
  /\ presence' = IF s = Witness THEN -1 ELSE presence
  /\ UNCHANGED <<session, since, writer, file, reader>>

Probing == writer.at \in {"probe", "dump", "publish"}
Older(status) ==
  IF status.phase = "off" THEN status
  ELSE IF status.phase = "busy" THEN [status EXCEPT !.updated = Upto(Stale + 1, @)]
  ELSE [status EXCEPT !.updated = Upto(Stale + 1, @), !.stamp = Upto(Ttl + 1, @)]

Tick ==
  /\ Probing => writer.elapsed < ProbeTime
  /\ reader.at = "detect" => reader.elapsed < DetectTime
  /\ presence' = IF Witness \in there THEN Upto(Long, presence) ELSE -Upto(Long + 1, -presence)
  /\ since' = IF session = WitnessMode THEN 0 ELSE Upto(Never, since)
  /\ writer' = IF Probing THEN [writer EXCEPT !.elapsed = @ + 1] ELSE writer
  /\ file' = Older(file)
  /\ reader' = IF reader.at = "idle" THEN reader
               ELSE [reader EXCEPT !.elapsed = @ + 1, !.value = Older(@)]
  /\ UNCHANGED <<session, there>>
-----------------------------------------------------------------------------
Init ==
  /\ session = "off" /\ file = Off
  /\ there = {} /\ presence = -(Long + 1) /\ since = Never
  /\ writer = Idle /\ reader = NoRead

Next ==
  \/ Begin \/ Announce \/ BecomeOff \/ AnnounceOff \/ FailWork \/ TickHealthy
  \/ \E mode \in Modes : BecomeActive(mode)
  \/ Dump \/ Unavailable \/ Publish \/ Kill
  \/ \E lines \in LeaseFiles, table \in NeighborTables : ReadTables(lines, table)
  \/ Read \/ Return
  \/ \E s \in Stations : Associate(s) \/ Leave(s)
  \/ Tick

Spec == Init /\ [][Next]_vars
-----------------------------------------------------------------------------
Answering == reader.at = "detect"

\* Rows that are shown are recent: a station in them was associated within
\* CLIENT_TTL and the time of one probe, one that was there all that time is not
\* missing, and the session was in the mode they are shown with within CLIENT_TTL,
\* whoever stalled or died since; and they never give two stations the same lease
\* (clients.py:81-83, 126-167).
RowsRecent ==
  /\ Answering /\ Answer.data = "OK" =>
       /\ Witness \in Answer.rows \ there => -presence - 1 <= Ttl + ProbeTime
       /\ Witness \in there /\ presence > Ttl + ProbeTime => Witness \in Answer.rows
       /\ Answer.mode = WitnessMode => since <= Ttl
  /\ \A row, other \in {row \in writer.draft.rows : row.source = "dhcp_lease"} :
       row.ipv4 = other.ipv4 => row = other

\* A status that claims health was true not long ago: who is told of an active
\* session had one in that mode within the 60 seconds after which a status is
\* stale, and the time it took to answer (client.py:44-45, controller.py:24).
StatusRecent ==
  Answering /\ Answer.health = "OK" /\ Answer.mode = WitnessMode => since <= Stale + DetectTime
=============================================================================
