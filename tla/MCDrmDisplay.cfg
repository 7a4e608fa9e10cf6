SPECIFICATION Spec
CONSTANTS
  Drivers <- MCDrivers
  Clients = {c1, c2, fbdev}
  Fbdev = fbdev
  Nobody = Nobody
  Leak = Leak
CHECK_DEADLOCK FALSE
INVARIANTS
  BufferIsAlive
  HandlersFindTheirDevice
PROPERTIES
  RemoveEnds
