CONSTANTS
  Tempo = {90, 120}
  StepTime <- MCStepTime
  LookAhead = 4
  BlockSize = 2
  NoTick = NoTick
  Voice <- MCVoice
  MaxEvents = 4
  Top = 5
  Sustain = 4
  Patterns <- MCPatterns
  DefaultSteps <- MCDefaultSteps
  ChordSize = 2
  DrumKinds = {"kick2", "snare2", "hat2", "clap2"}
  Knobs <- MCKnobs
  DefaultKnobs <- MCDefaultKnobs
  MaxTime = 7
  MaxCommands = 2
  PoolSize = 2
  EngineType = {"synth2", "kick2"}
  Bpm = {90, 120}
  Value = {1, 2}
  SyncedTime <- MCSyncedTime
  Project <- MCProject
  None = None
  MaxWrites = 2
  MaxPresses = 2
SPECIFICATION PageSpec
INVARIANT BlockRenderedOnce
INVARIANT ChordSpreads
INVARIANT EnginesMatch
INVARIANT GainsSettle
INVARIANT NothingOutlivesContext
PROPERTY StepsOnTime
PROPERTY NoClick
PROPERTY NotesEnd
CHECK_DEADLOCK FALSE
