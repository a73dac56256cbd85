CONSTANTS
  Docs <- MCDocs
  v1 = v1
  v2 = v2
  Version <- MCVersion
  MaxEdits = 1
  MaxChanges = 0
  MaxKills = 1
  MaxCommands = 4
SPECIFICATION Spec
INVARIANT PassIsComplete
CHECK_DEADLOCK FALSE
