CONSTANTS
  MaxRuns = 1
  Starting = {1}
  Started = {"a"}
  Detaching = TRUE
SPECIFICATION Spec
PROPERTY EndsAfterTimeout
CHECK_DEADLOCK FALSE
