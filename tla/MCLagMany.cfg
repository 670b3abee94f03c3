SPECIFICATION Spec
CONSTANTS
  NumLag = 3
  Port = {p1, p2}
  MaxMembers = 2
  CounterMod = 4
  Faults = {"lookup", "bucketDelete", "groupDelete"}
  MaxStale = 1
  ClientChecksOids = FALSE
SYMMETRY PortSymmetry
INVARIANTS
  TypeOK
  OtherLagsCounted
  UsedHasGroup
