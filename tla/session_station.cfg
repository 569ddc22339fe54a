SPECIFICATION Spec
CONSTANTS
  Uplinks <- MCBoth
  WifiUplinks <- MCWifi
  AllowWifi = TRUE
  Disturb <- MCStation
INVARIANTS RulesJournaled
PROPERTIES LinkPreserved
CHECK_DEADLOCK FALSE
