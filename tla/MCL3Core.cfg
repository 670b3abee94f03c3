SPECIFICATION Spec
CONSTANTS
  NumVr = 1
  NumRif = 2
  NumNbr = 2
  NumNh = 2
  MaxRoutes = 1
  ip1 = ip1
  ip2 = ip2
  net = net
  noIp = noIp
  host1 = host1
  host2 = host2
  wide = wide
  Ip = {ip1, ip2}
  Ip6 = {ip2}
  NoIp = noIp
  Prefix = {host1, wide}
  Prefix6 = {}
  HostPrefix = {host1}
  AddrOf <- AddrPlain
  MissActions = {"TRAP", "DROP"}
  Faults = {}
  StackNh <- DirtyStack
  ClientChecksOids = TRUE
INVARIANTS
  TypeOK
  NbrLists
  NhLists
  RouteLists
  GroupPerNeighbor
  HardwareFollowsNeighbors
  NextHopResolved
PROPERTIES
  NeighborChangeKeepsRoutes
