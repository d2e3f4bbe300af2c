SPECIFICATION FairSpec
CONSTANTS
  Type <- MCType
  Func <- MCFunc
  RetType <- MCRetType
  Args <- MCArgs
  Outcomes <- MCOutcomes
  Iters <- MCFinite
  Modes = {FALSE, TRUE}
  SavesMask = TRUE
  MaxStarts = 3
  MaxCalls = 4
  MaxSigint = 0
INVARIANT CrashIsLastCall
PROPERTIES
  ImplementsCallLog
  LoopEnds
