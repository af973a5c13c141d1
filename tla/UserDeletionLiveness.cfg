\* One invocation under fairness, entries coming and going.
SPECIFICATION FairSpec
CONSTANTS
  alice = alice
  bob = bob
  User = {alice}
  Invocation = {d1}
  LastKey = 3
  Entries <- MCLive
  DeleteMarkers = {2}
  PageSize = 3
  S3DeleteBatchSize = 2
  DynamoBatchWriteSize = 2
  MaxBatchWriteRetries = 1
INVARIANTS
  BatchesAccepted
PROPERTIES
  Responds
