SPECIFICATION Spec
CONSTANTS
  OctetBits = 1
  MaxFlowRules = 2
  MaxRouteRules = 3
  NumTbl8 = 2
  MaxCalls = 3
  Documents <- MCDocuments
  Snapshots <- MCSnapshots
  NativeArrays <- MCNativeArrays
  Packets <- MCPackets
INVARIANTS
  VerdictsFollowRules
  ObjectsOwned
  ValidatorsAgree
CHECK_DEADLOCK FALSE
