\* Three racing creates and deletes, lost answers, two users.
SPECIFICATION Spec
CONSTANTS
  alice = alice
  bob = bob
  x = x
  y = y
  private = private
  slash = slash
  blank = blank
  suffix = suffix
  name = name
  Piece <- MCPiece
  Private = private
  Slash = slash
  Blank = blank
  Id <- MCId
  RawPath <- MCRawPath
  User = {alice, bob}
  LastMedia = 1
  Content = {x, y}
  Request = {r1, r2, r3}
  Walker = {}
  MaxTime = 1
  MaxAttempts = 2
  RawLimit <- MCRawLimit
  MaxLimit = 2
  Absent = Absent
SYMMETRY RequestSymmetry
CHECK_DEADLOCK FALSE
INVARIANTS
  TypeOK
  AnswersTrue
  PathsBelong
PROPERTIES
  FirstWriteStays
  DeletedByExactId
