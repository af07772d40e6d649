CONSTANTS
  Rooms = {r1, r2, r3, r4}
  Handlers = {h1, h2}
  NoRoom = NoRoom
  MaxRooms = 2
  MaxCuts = 1
SPECIFICATION Spec
SYMMETRY Symmetry
CHECK_DEADLOCK FALSE
INVARIANTS
  TypeOK
  DeletedStaysDeleted
  RoomsAreStored
  InviteCodesPersist
  FreshIDsDiffer
PROPERTIES
  LimitHoldsButForRaces
