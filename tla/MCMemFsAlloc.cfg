SPECIFICATION Spec
CONSTANTS
  Procs = {p1, p2}
  Dirs = {d1, d2}
  IndexMax = 3
  Nobody = Nobody
INVARIANTS
  SlotsAreFreeWhenTaken
  BitmapMatchesLists
PROPERTY IsAllocator
SYMMETRY Interchangeable
