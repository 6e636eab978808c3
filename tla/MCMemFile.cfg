CONSTANTS
  Width = 16
  InitialSizes <- MCInitialSizes
  Sizes <- MCSizes
  Data <- MCData
  CanFail = TRUE
  MaxArena <- MCMaxArena
SPECIFICATION Spec
INVARIANTS
  TypeOK
  NoOverlap
  FreeListWellFormed
  LiveIntact
PROPERTIES
  CoalesceSound
