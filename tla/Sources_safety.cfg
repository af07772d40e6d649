CONSTANTS
  Sources = {s1, s2, s3}
  Handlers = {h1, h2}
  Header = Header
  Scrap = Scrap
  NoSource = NoSource
  MaxCuts = 2
SPECIFICATION Spec
SYMMETRY Symmetry
INVARIANTS
  TypeOK
  DeletedStayAway
  AddedStay
  UpdatesStick
  RoomShowsTheChosen
