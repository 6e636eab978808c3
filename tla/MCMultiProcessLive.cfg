CONSTANTS
  p1 = p1
  p2 = p2
  Procs <- MCProcs
  Width = 16
  InitialSizes <- MCInitialSizes
  Sizes <- MCSizes
  Data <- MCData
  CanFail = TRUE
  MaxArena <- MCLockArena
  FileExists = FALSE
  MaxCalls = 3
  MaxCrashes = 1
SPECIFICATION FairSpec
PROPERTY
  EveryWaiterGranted
