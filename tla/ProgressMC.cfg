SPECIFICATION ProgressSpec
CONSTANTS
  Socket = {s1, s2, s3}
  None = None
  RoomCap = 2
  GuestOwned = TRUE
  Connections = 1
  MaxEdits = 3
  MaxQueries = 3
  MaxCrashes = 1
INVARIANTS
  NoTeardownUnderHello
  RowsKeepUp
PROPERTIES
  GuestHelloAnswered
  EditsGetSaved
\* The bounds end every part.
CHECK_DEADLOCK FALSE
