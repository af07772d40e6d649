CONSTANTS
  Clients = {c1, c2, c3}
  Server = Server
  Sources = {s1}
  NoSource = NoSource
  Positions = {0, 1}
  SendBuf = 2
  IncomingBuf = 2
  MaxEvents = 2
SPECIFICATION Spec
SYMMETRY Symmetry
CHECK_DEADLOCK FALSE
INVARIANTS
  TypeOK
  MessagesChain
  MembersInStep
PROPERTIES
  IsSharedPlayback
