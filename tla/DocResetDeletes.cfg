CONSTANTS
  Country = {"c1"}
  LastRequest = 3
  LastRow = 2
  LastTask = 3
  None = None
  Setting <- Quiet
SPECIFICATION Spec
\* The uploader may stop at any time.
CHECK_DEADLOCK FALSE
INVARIANTS
  NoOrphans
