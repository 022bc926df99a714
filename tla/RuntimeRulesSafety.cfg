CONSTANTS
  p1 = p1
  p2 = p2
  ReaderCapacity = 2
  WorkerCount = 2
  Publishers = {p1, p2}
  MaxCalls = 1
SPECIFICATION SafeRSpec
SYMMETRY GoroutineSymmetry
INVARIANTS
  EntryCoversNative
  GenerationsAgree
  RuntimeInv
CHECK_DEADLOCK FALSE
