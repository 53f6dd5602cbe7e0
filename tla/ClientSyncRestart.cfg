SPECIFICATION Spec
CONSTANTS
  Client = {c1, c2}
  Path = {p}
  Value <- SmallValues
  Capacity = 2
  None = None
  MaxEdits = 2
  MaxResends = 0
  MaxDrops = 0
  MaxReloads = 0
  MaxRestarts = 1
  MaxNacks = 0
  MaxStrays = 0
  MaxMishaps = 2
INVARIANT Converged
CHECK_DEADLOCK FALSE
