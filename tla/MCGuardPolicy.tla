---------------------------- MODULE MCGuardPolicy ----------------------------
(* GuardPolicy with packets of every port and address in every direction, and  *)
(* with the few ports and addresses that tell flows apart.                     *)
EXTENDS GuardPolicy

MCUplinks == {"cell", "lan"}
MCOthers  == {"docker"}

\* What a host on the access point, outside or this host itself may send.
FromClient(sources, targets, sports, dports) ==
  [in: {"vif"}, out: {"vif", "host"} \cup Uplinks \cup Others,
   src: sources, dst: targets, sport: sports, dport: dports]
ToClient(sources, ports) ==
  [in: Uplinks \cup Others, out: {"vif"}, src: sources, dst: {"client"}, sport: ports, dport: ports]
FromHost(targets, sports, dports) ==
  [in: {"host"}, out: {"vif"}, src: {"gateway"}, dst: targets, sport: sports, dport: dports]

MCFlowPackets ==
  LET ports == {"dns", "any"}
  IN  FromClient({"client", "public"}, {"client", "gateway", "public"}, ports, ports)
      \cup ToClient({"client", "public"}, ports) \cup FromHost({"client"}, ports, ports)

MCServicePackets ==
  FromClient({"client", "zero", "public", "v6"}, {"client", "gateway", "cast", "special", "public"},
             {"dhcp_client", "announce", "any"}, Ports \ {"dns"})
  \cup ToClient({"public", "v6"}, {"announce", "any"})
  \cup FromHost({"client", "cast"}, {"announce", "any"}, {"announce", "any"})

MCPackets == MCFlowPackets \cup MCServicePackets
=============================================================================
