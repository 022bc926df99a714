CONSTANTS
  p1 = p1
  p2 = p2
  ReaderCapacity = 3
  WorkerCount = 2
  Publishers = {p1, p2}
  MaxCalls = 1
SPECIFICATION SafeSpec
SYMMETRY PublisherSymmetry
INVARIANTS
  MemorySafe
  HeapOwned
  PublishIsSynchronous
  ReclaimAccounting
  CleanupSafe
  TeardownNeverBusy
  FailureReported
  RunInv
PROPERTIES
  MonotonicReads
  ReclaimsSafely
CHECK_DEADLOCK FALSE
