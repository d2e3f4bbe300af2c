SPECIFICATION Spec
CONSTANTS
  Ids <- MCIds
  TraceIds <- MCTraceIds
  MaxSigint = 1
INVARIANTS
  PoolTypeOK
  TreeStaysRedBlack
  TreeHoldsIds
  SearchesAgree
  GetFinds
  LeavesNothing
