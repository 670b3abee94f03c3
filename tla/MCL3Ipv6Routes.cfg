SPECIFICATION Spec
CONSTANTS
  NumVr = 1
  NumRif = 1
  NumNbr = 1
  NumNh = 1
  MaxRoutes = 1
  ip1 = ip1
  ip2 = ip2
  net = net
  noIp = noIp
  host1 = host1
  host2 = host2
  wide = wide
  Ip = {ip1}
  Ip6 = {}
  NoIp = noIp
  Prefix = {wide}
  Prefix6 = {wide}
  HostPrefix = {}
  AddrOf <- AddrPlain
  MissActions = {"TRAP"}
  Faults = {}
  StackNh <- NoStack
  ClientChecksOids = TRUE
INVARIANTS
  ListsHoldLiveRoutes
CHECK_DEADLOCK FALSE
