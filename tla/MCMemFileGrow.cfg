CONSTANTS
  Width = 16
  InitialSizes <- MCGrowInitialSizes
  Sizes <- MCGrowSizes
  Data <- MCData
  CanFail = TRUE
  MaxArena <- MCGrowMaxArena
SPECIFICATION Spec
INVARIANTS
  NoOverlap
  BoundsOrder
