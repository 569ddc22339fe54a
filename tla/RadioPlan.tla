------------------------------ MODULE RadioPlan ------------------------------
(***************************************************************************)
(* The radio plan of wifi.py, as pure operators: which of the interface    *)
(* combinations that the driver advertises holds a station beside the      *)
(* access point, and which channel the access point gets.  Frequencies,    *)
(* channels and what iw says of them are taken as parsed.                  *)
(***************************************************************************)
EXTENDS Naturals, Sequences

Kinds == {"managed", "AP", "P2P-device"}

\* A combination: groups of kinds with their limits, the limit of all together (0 if
\* it is not said), and whether it says how many channels.
Block(groups, total, channels) == [groups |-> groups, total |-> total, channels |-> channels]

\* The station, the access point and the P2P devices there already are.
Needed(p2p) == [kind \in Kinds |-> IF kind = "P2P-device" THEN p2p ELSE 1]
NeededKinds(p2p) == {kind \in Kinds : Needed(p2p)[kind] > 0}
Together(p2p, kinds) ==
  (IF "managed" \in kinds THEN 1 ELSE 0) + (IF "AP" \in kinds THEN 1 ELSE 0)
    + (IF "P2P-device" \in kinds THEN p2p ELSE 0)

\* A kind that several groups name counts against the limit of each.
Holds(block, p2p) ==
  /\ block.channels
  /\ block.total >= Together(p2p, Kinds)
  /\ \A i \in DOMAIN block.groups :
       Together(p2p, block.groups[i].kinds) <= block.groups[i].limit
  /\ NeededKinds(p2p) \subseteq UNION {block.groups[i].kinds : i \in DOMAIN block.groups}

StationAndAp(blocks, p2p) == \E i \in DOMAIN blocks : Holds(blocks[i], p2p)
-----------------------------------------------------------------------------
(* channel(), station(), plan() and verify_plan(): a radio is its combinations, *)
(* the frequencies it may send on, its phy, and the station's phy and           *)
(* frequency while it is connected.                                             *)

NoPlan  == [frequency |-> 0, sta |-> FALSE]
NotConnected == [phy |-> 0, frequency |-> 0]
Default == 2437

Usable(radio, frequency) ==
  frequency \in radio.sends /\ (frequency \in 2412..2472 \/ frequency \in 5000..5899)

Plan(radio, sta, p2p) ==
  LET frequency == IF sta THEN radio.station.frequency ELSE Default IN
  IF /\ sta => /\ StationAndAp(radio.blocks, p2p)
               /\ radio.station # NotConnected /\ radio.station.phy = radio.phy
     /\ Usable(radio, frequency)
  THEN [frequency |-> frequency, sta |-> sta]
  ELSE NoPlan

Verified(radio, plan) ==
  IF plan.sta THEN radio.station = [phy |-> radio.phy, frequency |-> plan.frequency]
              ELSE radio.station = NotConnected
=============================================================================
