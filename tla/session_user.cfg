SPECIFICATION Spec
CONSTANTS
  Uplinks <- MCCellular
  WifiUplinks <- MCNone
  AllowWifi = FALSE
  Disturb <- MCUser
PROPERTIES BaselineRestored Implements
CHECK_DEADLOCK FALSE
