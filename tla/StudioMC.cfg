SPECIFICATION StudioSpec
CONSTANTS
  T1 = T1
  T2 = T2
  C = C
  Rest = Rest
  None = None
  Track = {T1, T2}
  Buffer = 4
  Length = 3
  Note = {C, Rest}
  FillNote = C
  Opening <- MCOpening
  MaxEdits = 2
  Slots = {0, 1, 2}
  NoCard = NoCard
  Tracks = {0, 1}
  NoTrack = NoTrack
  Top = 3
  KnobStep = 2
  Junk = Junk
  MaxTravel = 1
  MaxVisits = 2
  Attack = 1
  Close = 1
  Margin = 2
  BodyDecay = 1
  BodyStop = 3
  Asked = {0, 5}
  LongestKick = 3
  Longest = 2
  Voices = {0, 1}
  Ahead = 1
  MaxTime = 3
  MaxHits = 2
INVARIANTS
  HitsAreHeard
  ControlsFollow
PROPERTIES
  MovesCarry
  PastesSelect
  DropsLand
  KeysReachTheView
\* The bounds end every part.
CHECK_DEADLOCK FALSE
