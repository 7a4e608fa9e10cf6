SPECIFICATION Spec
CONSTANTS
  Readers = {r1, r2}
  Drivers <- MCAllDrivers
  CpuCounts = {1, 2}
INVARIANTS
  MissesAtMostOnePress
  NoPhantomRead
  DeliveredValue
PROPERTIES
  TimedPollReadsPress
  RepeatedPressIsRead
