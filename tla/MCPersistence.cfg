CONSTANTS
  Width = 16
  InitialSizes <- MCInitialSizes
  Sizes <- MCSizes
  Data <- MCData
  CanFail = TRUE
  MaxArena <- MCMaxArena
  PageSize = 48
  Versions <- MCVersions
  MaxOpens = 3
  MaxCrashes = 1
SPECIFICATION Spec
INVARIANTS
  SyncedDurable
