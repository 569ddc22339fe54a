SPECIFICATION Spec
CONSTANTS
  Stations <- MCStations
  Addresses <- MCAddresses
  LeaseFiles <- MCLeases
  NeighborTables <- MCNeighbors
  Witness = "phone"
  WitnessMode = "internet"
  Ttl = 2
  Stale = 3
  ProbeTime = 1
  DetectTime = 1
INVARIANTS TypeOK RowsRecent StatusRecent
