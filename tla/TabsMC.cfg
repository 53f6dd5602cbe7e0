SPECIFICATION TabsSpec
CONSTANTS
  Client = {c1, c2}
  Path = {p, q}
  Value <- SmallValues
  Capacity = 1
  None = None
  MaxEdits = 2
  MaxResends = 0
  MaxDrops = 2
  MaxReloads = 1
  MaxRestarts = 0
  MaxNacks = 1
  MaxStrays = 1
  MaxMishaps = 2
  MaxLoads = 2
  MaxTimeouts = 2
  EditsWithLoads = 1
  LoadsAndMishaps = 3
SYMMETRY EitherTab
INVARIANTS
  EditsAgree
  NoEditLost
  LoadsAgree
\* Players may stop editing; and the bounds end every part.
CHECK_DEADLOCK FALSE
