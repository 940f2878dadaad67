SPECIFICATION Spec
CONSTANTS
  Album = {a1, a2}
  Photo = {p1, p2, p3}
  u1 = u1
  u2 = u2
  r1 = r1
  r2 = r2
  User = {u1, u2}
  Request = {r1, r2}
  UserOf <- MCUserOf
  Base = {"trip"}
  Suffixed <- MCSuffixed
  MaxPosition = 4
  None = None
SYMMETRY Symmetry
INVARIANT TypeOK SlugsUnique PositionsDistinct
PROPERTY MovesAsAsked OnlyOwnerChanges ImplementsAlbumOrder
CHECK_DEADLOCK FALSE
