CONSTANTS
  Docs <- MCDocs
  v1 = v1
  v2 = v2
  Version <- MCVersion
  MaxEdits = 1
  MaxChanges = 1
  MaxKills = 1
  MaxCommands = 5
SPECIFICATION Spec
INVARIANTS
  TypeOK
  ReportMeans
  ShippedSound
  ShippedListed
PROPERTY
  Repackaged
CHECK_DEADLOCK FALSE
SYMMETRY Symmetry
