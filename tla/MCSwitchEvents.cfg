SPECIFICATION Spec
CONSTANTS
  a = a
  b = b
  NoFn = NoFn
  Handler = {a, b}
  Tables <- Clients
  NumPorts = 1
  MaxThreads = 2
  MaxInits = 2
  MaxLearned = 2
  MaxFlaps = 1
  Faults = {"lib", "setup", "thread"}
INVARIANTS
  OneLateCall
  EventsInOrder
PROPERTIES
  LinksTold
  AddressesTold
