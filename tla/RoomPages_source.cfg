CONSTANTS
  Pages = {p1, p2}
  Sources = {a, b}
  NoSource = NoSource
  Positions = {0, 50}
  Suppress = 2
  IncomingBuf = 1
  MaxCauses = 2
  MaxUpsets = 2
  MaxInbox = 2
SPECIFICATION Spec
SYMMETRY Symmetry
INVARIANT PagesShowTheSource
CHECK_DEADLOCK FALSE
