SPECIFICATION FairMinSpec
CONSTANTS
  Type <- MCType
  Func <- MCFunc
  RetType <- MCRetType
  Args <- MCArgs
  Outcomes <- MCOutcomes
  Iters <- MCIters
  Modes = {FALSE}
  SavesMask = TRUE
  MaxStarts = 2
  MaxCalls = 4
  MaxSigint = 0
  Rounds <- MCRounds
  MaxMins = 1
  MaxMinSigint = 2
INVARIANTS
  MinTypeOK
  MinReproducible
PROPERTIES
  MinShrinks
  MinEnds
