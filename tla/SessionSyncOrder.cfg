CONSTANTS
  Connections = 2
  MaxEdits = 2
  MaxQueries = 2
  MaxCrashes = 0

SPECIFICATION Spec
CHECK_DEADLOCK FALSE
INVARIANT CleanMeansSaved
