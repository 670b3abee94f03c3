SPECIFICATION Spec
CONSTANTS
  NumVr = 2
  NumRif = 2
  NumNbr = 1
  NumNh = 1
  MaxRoutes = 2
  ip1 = ip1
  ip2 = ip2
  net = net
  noIp = noIp
  host1 = host1
  host2 = host2
  wide = wide
  Ip = {ip1}
  Ip6 = {}
  NoIp = noIp
  Prefix = {host1, wide}
  Prefix6 = {}
  HostPrefix = {host1}
  AddrOf <- AddrPlain
  MissActions = {"TRAP"}
  Faults = {"groupDelete", "reAdd"}
  StackNh <- NoStack
  ClientChecksOids = TRUE
INVARIANTS
  RoutersIsolated
  NoFlowToMissingNeighbor
  RefCounts
CHECK_DEADLOCK FALSE
