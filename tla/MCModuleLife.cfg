SPECIFICATION Spec
CONSTANTS
  Drivers <- MCDrivers
  Slots = {s1, s2}
  Numbers = {n1, n2}
  Nobody = Nobody
INVARIANTS
  NamesAreFree
  LoadedHasAll
  DeviceFileLeadsHome
