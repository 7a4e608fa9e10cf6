SPECIFICATION Spec
CONSTANTS
  NCounters = 1
  Procs = {f1, f2, f3}
  IntMax = 10
  WriteValues <- MCWriteValues
  Sizes <- MCSizes
  ReadsMax = 2
INVARIANTS
  ReadsOneNumber
PROPERTY ReadTwiceOnlyIfOverlapped
SYMMETRY Interchangeable
