\* One invocation at a time over the three stores, entries coming and going.
SPECIFICATION Spec
CONSTANTS
  alice = alice
  bob = bob
  User = {alice, bob}
  Invocation = {d1}
  LastKey = 3
  Entries <- MCEntries
  DeleteMarkers = {2}
  PageSize = 2
  S3DeleteBatchSize = 2
  DynamoBatchWriteSize = 1
  MaxBatchWriteRetries = 1
INVARIANTS
  TypeOK
  NothingOwedSurvives
  BatchesAccepted
  Tracking
PROPERTIES
  ImplementsContract
