SPECIFICATION PresenceSpec
CONSTANTS
  Tab = {g, h}
  NoUser = NoUser
  MaxIds = 3
  MaxEdits = 1
  MaxConns = 3
  TouchTtl = 1
INVARIANT ColoursTellApart
\* Every tab may be closed.
CHECK_DEADLOCK FALSE
