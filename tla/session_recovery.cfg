SPECIFICATION FairSpec
CONSTANTS
  Uplinks <- MCCellular
  WifiUplinks <- MCNone
  AllowWifi = FALSE
  Disturb <- MCRecovery
INVARIANTS TypeOK NoOrphan GuardFirstLast Supervised StatusHonest
PROPERTIES TeardownBlocked GuardUse OperationEnds Recovers
CHECK_DEADLOCK FALSE
