CONSTANTS
  Rooms = {r1}
  Hubs = {h1, h2}
  Clients = {c1, c2, c3}
  NoHub = NoHub
  NoRoom = NoRoom
  NoClient = NoClient
  SendBuf = 1
  IncomingBuf = 1
  MaxEvents = 2
SPECIFICATION Spec
SYMMETRY Symmetry
CHECK_DEADLOCK FALSE
INVARIANTS
  TypeOK
  NoPanic
  RegisteredIffOpen
  NobodyForgotten
  MembersAreConnected
PROPERTIES
  HungUpForCause
  OnlyFailedUpgradesStrand
  IsLiveRooms
