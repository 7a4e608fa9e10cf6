SPECIFICATION Spec
CONSTANTS
  Procs = {c1, c2}
  Cells <- MCCells
CONSTRAINT OneAtATime
INVARIANTS
  MuxIsSelected
  LinesKeepWhatTheyWereTold
  LedDrivesItsOwnLine
SYMMETRY Interchangeable
