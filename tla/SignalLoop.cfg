CONSTANTS
  HasRulesFile = TRUE
  Buffered = 1
  MaxEdits = 2
SPECIFICATION Spec
PROPERTIES
  ReloadNotMissed
  LoopReturns
CHECK_DEADLOCK FALSE
