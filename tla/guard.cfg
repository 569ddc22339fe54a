SPECIFICATION Spec
CONSTANTS
  Uplinks <- MCUplinks
  Others <- MCOthers
  Packets <- MCPackets
  MaxFlows = 1
INVARIANTS TypeOK DowngradeCloses OnlyUplink ClientsOpenFlows RepliesReturn
