-------------------------- MODULE MCHotspotSession --------------------------
(* HotspotSession with a cellular uplink, or that and the Wi-Fi station        *)
(* itself, and for each question the disturbances that bear on it.             *)
EXTENDS HotspotSessionRefines, FiniteSetsExt
Radio == INSTANCE RadioPlan

MCCellular  == {"wwan0"}
MCWifi      == {"wlan0"}
MCBoth      == {"wwan0", "wlan0"}
MCNone      == {}

MCRecovery  == {"ap", "uplink", "profile"}
MCUser      == {"radio", "autoconnect", "userlink"}
MCStation   == {"autolink", "uplink", "ap", "profile", "rules", "flush"}
MCConnect   == {"userlink"}

\* The plan itself, over combinations of at most two groups, limits of at most three
\* and no, one or two P2P devices.  What wifi.py accepts can be set up: every
\* interface finds a place in a group that names its kind.  When no kind stands in
\* two groups it also accepts all that can.
Groups(n) == [1..n -> [kinds: SUBSET Radio!Kinds \ {{}}, limit: 0..3]]
Placed(block, p2p) ==
  LET needed == {x \in Radio!Kinds \X (1..2) : x[2] <= Radio!Needed(p2p)[x[1]]}
  IN  /\ Cardinality(needed) <= block.total
      /\ \E place \in [needed -> DOMAIN block.groups] :
           /\ \A x \in needed : x[1] \in block.groups[place[x]].kinds
           /\ \A i \in DOMAIN block.groups :
                Cardinality({x \in needed : place[x] = i}) <= block.groups[i].limit
Apart(block) ==
  \A i, j \in DOMAIN block.groups : i # j => block.groups[i].kinds \cap block.groups[j].kinds = {}

ASSUME CombinationsPlaced ==
  \A n \in 0..2, p2p \in 0..2 : \A groups \in Groups(n), total \in 0..4 :
    LET block == Radio!Block(groups, total, TRUE)
    IN  /\ Radio!Holds(block, p2p) => Placed(block, p2p)
        /\ Apart(block) /\ Placed(block, p2p) => Radio!Holds(block, p2p)

\* And whatever the radio was when the plan was made: where it is verified, the
\* access point never takes a connected station to another channel.
Radios ==
  [blocks: {<<>>, <<Radio!Block(<<[kinds |-> {"managed", "AP"}, limit |-> 2]>>, 2, TRUE)>>},
   sends: SUBSET {2437, 2484, 5180}, phy: {1},
   station: {Radio!NotConnected} \cup [phy: 1..2, frequency: {2437, 2484, 5180}]]
ASSUME StationKeepsChannel ==
  \A before, now \in Radios, sta \in BOOLEAN, p2p \in 0..1 :
    LET plan == Radio!Plan(before, sta, p2p)
    IN  /\ plan # Radio!NoPlan /\ Radio!Verified(now, plan) /\ now.station # Radio!NotConnected
             => plan.frequency = now.station.frequency
        /\ plan.sta => plan.frequency \in before.sends /\ p2p = 0
=============================================================================
