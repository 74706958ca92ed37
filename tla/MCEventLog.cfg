SPECIFICATION Spec
CONSTANTS
  Size = 3
  DelSave = TRUE
  MaxEvents = 7
INVARIANTS
  IdsNameEntries
  WalkReadsNeighbours
  OverflowTold
