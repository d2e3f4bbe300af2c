SPECIFICATION Spec
CONSTANTS
  Type <- MCType
  Func <- MCFunc
  RetType <- MCRetType
  Args <- MCArgs
  Outcomes <- MCOutcomes
  Iters <- MCIters
  Modes = {FALSE, TRUE}
  SavesMask = FALSE
  MaxStarts = 3
  MaxCalls = 3
  MaxSigint = 1
INVARIANT SigintHandledInLoop
