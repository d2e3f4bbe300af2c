SPECIFICATION MinSpec
CONSTANTS
  Type <- MCType
  Func <- MCFunc
  RetType <- MCRetType
  Args <- MCArgs
  Outcomes <- MCOutcomes
  Iters <- MCIters
  Modes = {FALSE}
  SavesMask = TRUE
  MaxStarts = 1
  MaxCalls = 4
  MaxSigint = 0
  Rounds <- MCRounds
  MaxMins = 2
  MaxMinSigint = 0
INVARIANT IdsBelowCallsNum
