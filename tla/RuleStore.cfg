CONSTANTS
  c1 = c1
  c2 = c2
  f1 = f1
  f2 = f2
  f3 = f3
  r1 = r1
  fwd = fwd
  bad = bad
  NULL = NULL
  Callers = {c1, c2}
  Keys <- MCKeys
  InvalidKeys = {f3}
  Actions = {fwd, bad}
  InvalidActions = {bad}
  Capacity <- MCCapacity
  Snapshots <- MCSnapshots
  MaxCalls = 2
SPECIFICATION SafeSpec
SYMMETRY CallerSymmetry
INVARIANTS
  CopiesAgree
  NeverRejected
PROPERTIES
  Linearizable
CHECK_DEADLOCK FALSE
