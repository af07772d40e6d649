CONSTANTS
  Rooms = {r1}
  Hubs = {h1}
  Clients = {c1, c2}
  NoHub = NoHub
  NoRoom = NoRoom
  NoClient = NoClient
  SendBuf = 1
  IncomingBuf = 1
  MaxEvents = 2
SPECIFICATION FairSpec
CHECK_DEADLOCK FALSE
PROPERTIES
  StoppedHubReturns
  BrokenConnectionLeaves
  HungUpIsDisconnected
  EmptiedHubCloses
  ReadersAreServed
