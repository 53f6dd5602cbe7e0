SPECIFICATION DialogsSpec
CONSTANTS
  Slot = {t}
  Preset = {p}
  Word = {w}
  Blank = Blank
  NoSlot = NoSlot
  MaxAsked = 2
  MaxCalls = 1
INVARIANT PromptsKeepApart
\* Nobody has to ask or answer anything.
CHECK_DEADLOCK FALSE
