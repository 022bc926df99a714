SPECIFICATION Spec
CONSTANTS
  LcoreIds = {1, 3, 6}
  MaxWorkers = 3
  BurstSize = 1
  MaxBursts = 1
  MaxEmptyPolls = 1
INVARIANTS
  QueuesExclusive
  ReportExact
CHECK_DEADLOCK FALSE
