SPECIFICATION Spec
CONSTANTS
  Variants <- MCBoth
  Clients = {c1, c2}
  Worker = w
INVARIANTS
  ViewsAgree
  StatusFollowsPin
PROPERTY PollTellsChange
