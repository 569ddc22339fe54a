SPECIFICATION Spec
CONSTANTS
  HideTicks = 3
  ExpireTicks = 6
INVARIANTS TypeOK SecretExpires
PROPERTIES ClipboardRespected
