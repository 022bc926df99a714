CONSTANTS
  HasRulesFile = TRUE
  Buffered = 1
  MaxEdits = 2
SPECIFICATION Spec
PROPERTIES
  TermStops
CHECK_DEADLOCK FALSE
