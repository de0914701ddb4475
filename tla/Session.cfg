CONSTANTS
  Country = {"c1", "c2"}
  LastRequest = 5
  LastRow = 4
  LastTask = 5
  None = None
  Setting <- Settings
SPECIFICATION FairSpec
\* The uploader may stop at any time.
CHECK_DEADLOCK FALSE
INVARIANTS
  TypeOK
  OneUploadPerCountry
  VerdictHasRevision
  HiddenBeforeReview
PROPERTIES
  ReadOnlyFrozen
  ResetStands
  PreprocessingEnds
