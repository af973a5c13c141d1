\* Two invocations for the same caller over one table.
SPECIFICATION Spec
CONSTANTS
  alice = alice
  bob = bob
  User = {alice}
  Invocation = {d1, d2}
  LastKey = 2
  Entries <- MCRecords
  DeleteMarkers = {2}
  PageSize = 2
  S3DeleteBatchSize = 2
  DynamoBatchWriteSize = 2
  MaxBatchWriteRetries = 1
SYMMETRY InvocationSymmetry
INVARIANTS
  NothingOwedSurvives

