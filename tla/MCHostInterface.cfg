SPECIFICATION Spec
CONSTANTS
  swp1 = swp1
  swp2 = swp2
  swp3 = swp3
  Stdin = Stdin
  BadFd = BadFd
  NumPorts = 2
  Device = {swp1, swp2}
  MaxCreates = 3
  Faults = {"open", "signal"}
INVARIANTS
  PacketsKeepPort
  SlotsSound
PROPERTIES
  DevicesServed
