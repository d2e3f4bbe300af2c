SPECIFICATION PlaySpec
CONSTANTS
  Type <- MCType
  Func <- MCFunc
  RetType <- MCRetType
  Args <- MCArgs
  Outcomes <- MCOutcomes
  Iters <- MCIters
  Modes = {FALSE}
  SavesMask = FALSE
  MaxStarts = 3
  MaxCalls = 4
  MaxSigint = 1
  MaxPlays = 1
INVARIANT ReplayFindsArgs
