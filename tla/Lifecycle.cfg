SPECIFICATION Spec
INVARIANTS
  PoolOutlivesPorts
  EalOutlivesAll
  ArgumentsOutliveEal
  CleanupAccepted
  ErrorsReported
  SuccessMeansReleased
PROPERTIES
  StopFinishes
  ReadyReturns
CHECK_DEADLOCK FALSE
