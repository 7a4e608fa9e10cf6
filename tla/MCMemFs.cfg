SPECIFICATION Spec
CONSTANTS
  InodeMax = 4
  BlkMax = 2
  FileSizeMax = 1
  Names = {a, b}
  Files = {f1}
  Mounts = {m1, m2}
  Invalid = Invalid
CONSTRAINT NotStuck
INVARIANTS
  Tree
  BlocksHaveOneOwner
  DentriesAreListed
PROPERTY
  IsDirTree
VIEW Live
SYMMETRY NameSymmetry
