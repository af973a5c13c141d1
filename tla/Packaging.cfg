\* Builds and verifications of two groups and one layer over six working copies.
SPECIFICATION FairSpec
CONSTANTS
  handler1 = handler1
  handler2 = handler2
  tests2 = tests2
  shared3 = shared3
  shared4 = shared4
  old = old
  new = new
  Package = {1, 2, 3, 4}
  File = {handler1, handler2, tests2, shared3, shared4}
  PackageOf <- MCPackageOf
  Handler = {handler1, handler2}
  Excluded = {tests2}
  Trees <- MCTrees
  Layer = {firebase}
  Version = {old, new}
INVARIANTS
  TypeOK
  ArchivesComplete
  VerifiedLoads
  LayersFresh
  OnlyZipsRemain
PROPERTIES
  BuildEnds
