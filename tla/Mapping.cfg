SPECIFICATION Spec
CONSTANTS
  Amounts <- Boundaries
  MaxCents = 1000
  FloatCents = 900
  None = None
INVARIANTS AnswersTheRequest PayloadIsRow
PROPERTY OnlyDecisionChanges
CHECK_DEADLOCK FALSE
