SPECIFICATION Spec
CONSTANTS
  Amounts <- Boundaries
  MaxCents = 1000
  FloatCents = 900
  None = None
INVARIANT StoredIsEntity
CHECK_DEADLOCK FALSE
