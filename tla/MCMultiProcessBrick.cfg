CONSTANTS
  p1 = p1
  p2 = p2
  Procs <- MCProcs
  Width = 16
  InitialSizes <- MCInitialSizes
  Sizes <- MCSizes
  Data <- MCData
  CanFail = TRUE
  MaxArena <- MCMaxArena
  FileExists = FALSE
  MaxCalls = 2
  MaxCrashes = 1
SPECIFICATION Spec
INVARIANT
  Openable
