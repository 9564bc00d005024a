\* Three directories; the application is killed, or a write fails, twice.
SPECIFICATION Spec
CONSTANTS
  MaxId = 3
  MaxFaults = 2
INVARIANTS TypeOK NewIdsAreFree ListMatchesDisk
PROPERTY WholeContainersStay
