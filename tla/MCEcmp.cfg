SPECIFICATION EcmpSpec
CONSTANTS
  NumVr = 1
  NumRif = 1
  NumNbr = 2
  NumNh = 2
  MaxRoutes = 0
  ip1 = ip1
  ip2 = ip2
  ip3 = ip3
  noIp = noIp
  Ip = {ip1, ip2}
  Ip6 = {}
  NoIp = noIp
  Prefix = {}
  Prefix6 = {}
  HostPrefix = {}
  AddrOf <- NoRoutes
  MissActions = {"TRAP"}
  Faults = {}
  StackNh <- NoStack
  ClientChecksOids = TRUE
  NumNhg = 1
  MaxMembers = 3
  NumBuckets = 2
  CountMod = 8
  EcmpFaults = {"group", "list"}
  ClientKeepsMembers = TRUE
INVARIANTS
  UsedGroupsExist
  ListAsTold
  CountIsMembers
  BucketsLeadSomewhere
PROPERTY
  OnlyFullGroupsAreLeft
