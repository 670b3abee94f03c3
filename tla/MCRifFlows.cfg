SPECIFICATION Spec
CONSTANTS
  Port = {1}
  Vlan = {1}
  HostMac = {"m"}
  RouterMac = {"rm"}
  MaxOdd = 1
  L2Faults = {"rifFlow"}
  AttrPort = {}
  Speed = {10, 1000}
  Pcp = {1}
  NumRif = 2
  NumMtu = 1
  RifPort = {1}
  VrId = {0}
  Mtu = {0, 1500}
INVARIANTS
  FlowsFollowInterfaces
  RifTablesSound
CHECK_DEADLOCK FALSE
