SPECIFICATION Spec
CONSTANTS
  OctetBits = 1
  MaxFlowRules = 2
  MaxRouteRules = 3
  NumTbl8 = 2
  MaxCalls = 1
  Documents <- MCDocuments
  Snapshots <- MCSnapshots
  NativeArrays <- MCNativeArrays
  Packets <- MCPackets
INVARIANTS
  RoutesFit
CHECK_DEADLOCK FALSE
