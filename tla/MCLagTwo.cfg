SPECIFICATION Spec
CONSTANTS
  NumLag = 2
  Port = {p1, p2}
  MaxMembers = 2
  CounterMod = 4
  Faults = {}
  MaxStale = 0
  ClientChecksOids = TRUE
SYMMETRY PortSymmetry
INVARIANTS
  MembersAsTold
CHECK_DEADLOCK FALSE
