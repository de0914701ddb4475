CONSTANTS
  Upload = {"u1", "u2"}
  Session = {"s1"}
  Country = {"c1"}
  Visit = {}
  Batch = {"b1"}
  None = None
  SessionOf <- OneSession
  OriginalOf <- NewCountry
  Validated = {"u1", "u2"}
  Lenient = {"u2"}
  Cloned = {"u1"}
  Historical = {}
  Withdrawable = {"s1"}
  Mortal = {"b1"}
  Rematching = {}
SPECIFICATION FairSpec
\* The uploader and the reviewers may stop at any time.
CHECK_DEADLOCK FALSE
PROPERTIES
  DeletionExplained
  EventuallyPrepared
  BatchFinishes
