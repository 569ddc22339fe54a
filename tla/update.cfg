SPECIFICATION UpdateSpec
CONSTANTS
  Files <- MCFiles
  Versions <- MCVersions
  Payload <- MCPayload
  UiFiles <- MCUiFiles
  MaxEdits = 1
INVARIANTS UpdateAccounted
PROPERTIES UpdateWhole
CHECK_DEADLOCK FALSE
