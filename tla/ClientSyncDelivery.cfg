SPECIFICATION FairSpec
CONSTANTS
  Client = {c1, c2}
  Path = {p}
  Value <- SmallValues
  Capacity = 2
  None = None
  MaxEdits = 2
  MaxResends = 1
  MaxDrops = 1
  MaxReloads = 1
  MaxRestarts = 1
  MaxNacks = 1
  MaxStrays = 1
  MaxMishaps = 1
PROPERTY EditsReachServer
CHECK_DEADLOCK FALSE
