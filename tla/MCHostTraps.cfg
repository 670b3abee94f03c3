SPECIFICATION TrapSpec
CONSTANTS
  Trap = {"DHCP", "LLDP"}
  Header <- TrapHeaders
  Node = {n1, n2, n3, n4}
  Null = Null
  Actions = {"TRAP", "TRANSIT"}
  Objects <- Listable
  MaxCalls = 4
  MaxMallocs = 2
  MaxAfter = 1
  TrapFaults = {"flow", "malloc"}
SYMMETRY Names
INVARIANTS
  ListsIntact
  FlowsMatchLists
  ListAsAsked
  FlaggedTrapsFollow
\* No further call is modelled once a loop that removes has come to a header.
CHECK_DEADLOCK FALSE
