SPECIFICATION FairMiSpec
CONSTANTS
  Projects <- MCProjects
  MainFile = "main"
  IncludePath <- MCPath
  MaxReads = 8
INVARIANTS
  MiTypeOK
  OutputIsComplete
  IncludedComeFirst
  UnreachableFound
PROPERTY MiEnds
