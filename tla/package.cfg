SPECIFICATION Spec
CONSTANTS
  Files <- MCFiles
  Versions <- MCVersions
  Payload <- MCPayload
  MaxEdits = 2
INVARIANTS TypeOK Accounted NotWhileActive
PROPERTIES OnlyOwnFiles RollsBack
