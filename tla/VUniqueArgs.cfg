SPECIFICATION Spec
CONSTANTS
  Type <- MCType
  Func <- MCFunc
  RetType <- MCRetType
  Args <- MCArgs
  Outcomes <- MCOutcomes
  Iters <- MCIters
  Modes = {FALSE, TRUE}
  SavesMask = TRUE
  MaxStarts = 3
  MaxCalls = 3
  MaxSigint = 0
INVARIANT UniqueArgsUnique
