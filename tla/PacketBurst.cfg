CONSTANTS
  m1 = m1
  m2 = m2
  m3 = m3
  Mbufs = {m1, m2, m3}
  BurstSize = 3
  MaxBursts = 2
SPECIFICATION Spec
SYMMETRY MbufSymmetry
INVARIANTS
  ExactOwnership
  OrderPreserved
  StatsConserved
CHECK_DEADLOCK FALSE
