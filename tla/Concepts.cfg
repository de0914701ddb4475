CONSTANTS
  Upload = {"u1", "u2", "u3"}
  MaxUnits = 4
  Place <- Land
  Similar <- LandOverlap
  Shape <- ThreeRevisions
  Date <- Dates
  Part <- Parts
  Historical = {"u3"}
  Elsewhere = {}
  EditLimit <- Changes
  Dialogs = 2
  None = None
SPECIFICATION Spec
CHECK_DEADLOCK FALSE
INVARIANTS
  FlagMeansConcept
  OneToOne
  ConceptNumbers
  VersionsFollowDates
  MatchedCodes
  NothingBetterLeft
