CONSTANTS
  Users = {u1, u2, u3}
  Names = {n1, n2}
  NoName = NoName
SPECIFICATION Spec
SYMMETRY Symmetry
INVARIANTS
  TypeOK
  IDsDiffer
  MeIsMe
  NamesAreTaken
  AccountsStay
