SPECIFICATION Spec
CONSTANTS
  Uplinks <- MCCellular
  WifiUplinks <- MCNone
  AllowWifi = FALSE
  Disturb <- MCConnect
PROPERTIES LinkPreserved
CHECK_DEADLOCK FALSE
