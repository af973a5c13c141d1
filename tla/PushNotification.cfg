\* One notifier over two tokens of its caller beside token requests, under fairness.
SPECIFICATION FairSpec
CONSTANTS
  alice = alice
  bob = bob
  android = android
  User = {alice}
  LastToken = 2
  Platform = {android}
  Request = {r1}
  Notifier = {n1}
  MaxTime = 0
  MaxAttempts = 1
  Absent = Absent
INVARIANTS
  TypeOK
  EveryDeviceTried
PROPERTIES
  LiveTokensStay
  NotifyEnds
