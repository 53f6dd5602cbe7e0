SPECIFICATION PageSpec
CONSTANTS
  Fader = Fader
  Note = Note
  None = None
  Path = {Fader, Note}
  Continuous = {Fader}
  Value = {0, 1}
  Depth = 3
  Room = {here, there}
  Track = {0, 1}
  FreshTracks = {0}
  Nowhere = Nowhere
  MaxEntries = 3
  MaxPatches = 1
  Level = {0, 1, 2}
  Null = Null
  NaN = NaN
  MinDelta = 1
  MinLevel = 1
  MaxLevel = 1
  MinPeak = 1
  MinSpread = 1
  KnobTime = 1
  Tolerance = 0
  EnumValues = 2
  TrackId = {1}
  MaxActs = 2
  Slot = {t}
  Preset = {p}
  Word = {w}
  Blank = Blank
  NoSlot = NoSlot
  MaxAsked = 3
  MaxCalls = 1
  MaxSessions = 2
  MaxFetches = 2
  MaxVisits = 2
SYMMETRY EitherRoom
INVARIANTS
  HistoryLinks
  RedoUndoesUndo
  PageIsWhereItSays
  PatchesCarryAll
  AnswersKeepApart
  LobbyPolls
  PassesEarned
\* The bounds end every part.
CHECK_DEADLOCK FALSE
