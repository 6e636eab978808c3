CONSTANTS
  Width = 16
  InitialSizes <- MCInitialSizes
  Sizes <- MCZeroSizes
  Data <- MCData
  CanFail = TRUE
  MaxArena <- MCMaxArena
SPECIFICATION Spec
INVARIANT
  LiveIntact
