SPECIFICATION FairSpec
CONSTANTS
  Clients = {a, b}
  NoClient = null
  Slots = 2
  QueueLen = 3
  MaxEvents = 2
  MaxClients = 3
  Quiet = {"rotation", "load", "address"}
INVARIANTS TypeInv EventsInOrder NothingStale SlotsAreOwn CallsFindTheirConnection CallsCarryASlot
PROPERTIES GoneClientsAreDeleted
CHECK_DEADLOCK FALSE
