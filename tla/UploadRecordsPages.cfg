\* One client pages through its records while three creates come in.
SPECIFICATION Spec
CONSTANTS
  alice = alice
  bob = bob
  x = x
  y = y
  private = private
  slash = slash
  blank = blank
  suffix = suffix
  name = name
  Piece <- MCPiece
  Private = private
  Slash = slash
  Blank = blank
  Id <- MCId
  RawPath <- MCRawPath
  User = {alice}
  LastMedia = 3
  Content = {x}
  Request = {r1, r2, r3}
  Walker = {w1}
  MaxTime = 0
  MaxAttempts = 1
  RawLimit <- MCRawLimit
  MaxLimit = 2
  Absent = Absent
SYMMETRY WalkSymmetry
INVARIANTS
  PagesSound
  WalkComplete
