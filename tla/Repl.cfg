SPECIFICATION ReplSpec
CONSTANTS
  Name <- MCName
  Typed <- MCTyped
  MaxCtx = 3
  MaxValue = 4
  MaxCall = 1
  MaxLen = 2
INVARIANTS
  RefsCountValues
  ValuesBoundOnce
  ArgsOutliveLine
PROPERTIES
  ImplementsSharing
