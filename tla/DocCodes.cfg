CONSTANTS
  Upload = {"u1", "u2"}
  MaxUnits = 4
  Place <- Land
  Similar <- LandOverlap
  Shape <- TwoRevisions
  Date <- TwoDates
  Part <- Parts
  Historical = {}
  Elsewhere = {}
  EditLimit <- FourChanges
  Dialogs = 0
  None = None
SPECIFICATION Spec
CHECK_DEADLOCK FALSE
INVARIANTS
  UcodesUnique
