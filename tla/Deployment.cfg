\* Three pushes to either branch over two environments.
SPECIFICATION FairSpec
CONSTANTS
  route = route
  cors = cors
  extra = extra
  first = first
  listed = listed
  limited = limited
  unlisted = unlisted
  changed = changed
  shared = shared
  unknown = unknown
  Name = {route, cors, extra}
  Value = {1, 2}
  Collection = {"api_routes", "cors_preflights", "limits"}
  LastCommit = 3
  Tree = {first, listed, limited, unlisted, changed, shared, unknown}
  Content <- MCContent
  First = first
INVARIANTS
  TypeOK
  NoJobReplaced
  NewestReachesProd
  DevFirst
  ProdPlansFresh
  EverySettingTracked
  StageServes
PROPERTIES
  ProdForward
  RunsEnd
CHECK_DEADLOCK FALSE
