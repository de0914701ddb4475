CONSTANTS
  Upload = {"u1", "u2"}
  Session = {"s1"}
  Country = {"c1"}
  Visit = {"v1"}
  Batch = {}
  None = None
  SessionOf <- OneSession
  OriginalOf <- NewCountry
  Validated = {"u1", "u2"}
  Lenient = {}
  Cloned = {}
  Historical = {}
  Withdrawable = {}
  Mortal = {}
  Rematching = {}
SPECIFICATION FairSpec
\* The uploader and the reviewers may stop at any time.
CHECK_DEADLOCK FALSE
PROPERTIES
  ApprovalShown
