SPECIFICATION Spec
CONSTANTS
  Variants <- MCInterrupt
  Clients = {c1, c2}
  Worker = w
INVARIANT ThreadTellsChange
