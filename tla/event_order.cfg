SPECIFICATION Spec
CONSTANTS
  Clients = {a, b}
  NoClient = null
  Slots = 2
  QueueLen = 4
  MaxEvents = 2
  MaxClients = 3
  Quiet = {"load", "address"}
INVARIANTS KeepsOrder
CHECK_DEADLOCK FALSE
