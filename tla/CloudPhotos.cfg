\* One request of each kind at a time over one user's entry in each store.
SPECIFICATION SystemSpec
CONSTANTS
  alice = alice
  x = x
  android = android
  private = private
  slash = slash
  blank = blank
  name = name
  Piece <- MCPiece
  Private = private
  Slash = slash
  Blank = blank
  Id <- MCId
  RawPath <- MCRawPath
  User = {alice}
  LastMedia = 1
  Content = {x}
  Request = {r1}
  Walker = {}
  MaxTime = 0
  MaxAttempts = 2
  RawLimit = {1}
  MaxLimit = 1
  Absent = Absent
  Platform = {android}
  TokenRequest = {t1}
  Invocation = {d1}
  DeleteMarkers = {}
  PageSize = 1
  S3DeleteBatchSize = 1
  DynamoBatchWriteSize = 1
  MaxBatchWriteRetries = 0
INVARIANTS
  UserErased
PROPERTIES
  ImplementsDeletion
  MarksNeverStore
