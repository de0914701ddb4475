CONSTANTS
  Level = {1, 2}
  View = {"v1", "v2"}
  Old = {"v1"}
  Resource <- Resources
  Request = {"q1", "q2"}
  Check = {"c1"}
SPECIFICATION FairSpec
CHECK_DEADLOCK FALSE
INVARIANTS
  TypeOK
  RoleWhole
  ViewsFollow
  NobodyLeftOut
  CacheAgrees
PROPERTIES
  CacheSettles
