CONSTANTS
  Upload = {"u1", "u2", "u3"}
  Session = {"s1", "s2", "s3"}
  Country = {"c1"}
  Visit = {"v1"}
  Batch = {"b1"}
  None = None
  SessionOf <- ThreeSessions
  OriginalOf <- OneWaiting
  Validated = {"u1", "u2"}
  Lenient = {}
  Cloned = {"u1"}
  Historical = {}
  Withdrawable = {}
  Mortal = {}
  Rematching = {"v1"}
SPECIFICATION Spec
\* The uploader and the reviewers may stop at any time.
CHECK_DEADLOCK FALSE
INVARIANTS
  ApprovedOnlyMatched
  GapOnlyInApproval
  DecisionStands
PROPERTIES
  Publishes
  RowLossExplained
