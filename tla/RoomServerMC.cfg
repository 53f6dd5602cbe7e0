CONSTANTS
  c1 = c1
  c2 = c2
  p1 = p1
  p2 = p2
  v1 = v1
  v2 = v2
  Client = {c1, c2}
  Path = {p1, p2}
  Value = {v1, v2}
  Capacity = 2
  MaxSeq = 2
  MaxHead = 6
  Seed <- MCSeed
  Loadable <- MCLoadable
  Payload <- MCPayload
  Address = {c1, c2}
  BucketCapacity = 2
  TickMs = 3
  MaxKeys = 1
  MaxClock = 8
  PoolSize = 2
  BufferSize = 2
  DefaultEnabled = 1
  DefaultLength = 1
  BpmMin = 1
  BpmMax = 2
  DefaultBpm = 2
  MaxChanges = 2
  EngineType = {synth, kick}
  DefaultEngine = synth
  Param = {tune, decay}
  StepKey = {note, chord}
  OptionalStepKey = {chord}
  MixerKey = {volume}
  Legal = {low, high}
  Default = low
  Absent = Absent
  Garbage = Garbage
  Caller <- MCCaller
  MaxRequests = 3
  RoomId = {r1}
  User = {ann}
  Guest = Guest
  NoRoom = NoRoom
  MaxClients = 2
  MaxSockets = 2
  MaxFlips = 1
  MaxAsked = 1
  Tab = {g, h}
  MaxIds = 2
  MaxEdits = 1
  MaxConns = 3
  TouchTtl = 1
SYMMETRY TabsAlike
SPECIFICATION ServerSpec
INVARIANTS
  ReplayWindow
  CatchUpRebuilds
  AppliedOncePerWindow
  BurstPlusRate
  RoomLegal
  RowRestores
  ReopenRestores
  OlderFilesOpen
  LibraryIsWhole
  PeersAreShown
  ConnectionHolds
\* Clients may all stop sending, pages be closed; and the bounds end every part.
CHECK_DEADLOCK FALSE
