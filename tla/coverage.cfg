CONSTANTS
  MaxRuns = 2
  Starting = {1}
  Started = {"a"}
  Detaching = TRUE
SPECIFICATION Spec
INVARIANTS
  TypeOK
  ClaimBacked
  RecordTells
PROPERTY
  Ends
CHECK_DEADLOCK FALSE
