SPECIFICATION SessionSpec
CONSTANTS
  Type <- MCType
  Func <- MCFunc
  RetType <- MCRetType
  Args <- MCArgs
  Outcomes <- MCOutcomes
  Iters <- MCIters
  Modes = {FALSE}
  SavesMask = TRUE
  MaxStarts = 2
  MaxCalls = 4
  MaxSigint = 2
  MaxPlays = 1
  Kinds = {"shell", "main", "mutate"}
  Share = 2
  Shorter <- MCShorter
INVARIANTS
  SessionTypeOK
  ReplayReproduces
  CleanSessionIsIntact
  ReplayRebuildsPool
  RestoreGivesBack
