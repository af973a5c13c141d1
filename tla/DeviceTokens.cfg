\* Three racing registrations and removals of two users' tokens.
SPECIFICATION TokenSpec
CONSTANTS
  alice = alice
  bob = bob
  android = android
  ios = ios
  User = {alice, bob}
  LastToken = 1
  Platform = {android, ios}
  Request = {r1, r2, r3}
  MaxTime = 1
  MaxAttempts = 2
  Absent = Absent
SYMMETRY TokenSymmetry
INVARIANTS
  TokenTypeOK
PROPERTIES
  RegistrationTimeKept
