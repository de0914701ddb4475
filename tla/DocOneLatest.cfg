CONSTANTS
  Upload = {"u1", "u2"}
  Session = {"s1", "s2"}
  Country = {"c1"}
  Visit = {"v1", "v2"}
  Batch = {}
  None = None
  SessionOf <- TwoSessions
  OriginalOf <- SameCountry
  Validated = {"u1", "u2"}
  Lenient = {}
  Cloned = {}
  Historical = {}
  Withdrawable = {}
  Mortal = {}
  Rematching = {}
SPECIFICATION Spec
\* The uploader and the reviewers may stop at any time.
CHECK_DEADLOCK FALSE
INVARIANTS
  OneLatestPerCountry
