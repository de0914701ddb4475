CONSTANTS
  Level = {1, 2}
  Entity = {"a", "b", "c", "d"}
  PrivacyOf <- Privacy
  PlaceOf <- Places2
  AdminOf <- Admins2
  First = {"b", "c"}
  Change = {"u1", "u2", "t1"}
  Approval = {"u1", "u2"}
  Retires <- RetiresOf
  Adds <- AddsOf
  Setting <- Settings
  None = None
SPECIFICATION Spec
CHECK_DEADLOCK FALSE
INVARIANTS
  TypeOK
  TilesSettle
  ServedSettles
  ExportsSettle
  NothingLeftPending
