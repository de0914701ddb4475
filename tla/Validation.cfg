CONSTANTS
  Code = {1, 2, 3, 11, 12, 13, 21, 22}
  Country = {1, 2, 3}
  NoCode = 0
  Setting <- Settings
SPECIFICATION FairSpec
\* After the verdicts the uploader may stop.
CHECK_DEADLOCK FALSE
INVARIANTS
  NothingTwice
  TreeIsFile
  OfferedReached
  FlawlessValid
PROPERTIES
  VerdictComes
