CONSTANTS
  Connections = 1
  MaxEdits = 2
  MaxQueries = 2
  MaxCrashes = 0

SPECIFICATION Spec
CHECK_DEADLOCK FALSE
PROPERTY PruneKeepsEdits
