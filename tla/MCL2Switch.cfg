SPECIFICATION Spec
CONSTANTS
  Port = {1, 2}
  Vlan = {5}
  HostMac = {"m"}
  RouterMac = {}
  MaxOdd = 0
  L2Faults = {"vlanFlow"}
  AttrPort = {1}
  Speed = {10, 1000}
  Pcp = {1}
  NumRif = 1
  NumMtu = 1
  RifPort = {}
  VrId = {0}
  Mtu = {1500}
INVARIANTS
  TaggedAsAsked
  ForwardsInItsVlan
  AttributesAsAsked
CHECK_DEADLOCK FALSE
