CONSTANTS
  Upload = {u1, u2, u3}
  Base = base
  BaseStart = 1
  Horizon = 4
  None = none
SPECIFICATION Spec
SYMMETRY Interchangeable
CHECK_DEADLOCK FALSE
INVARIANTS
  OneVersionAt
  OpenIsListed
PROPERTIES
  PastKept
