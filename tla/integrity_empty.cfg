\* An untouched repository that holds an empty file.
SPECIFICATION Spec
CONSTANTS
  empty = empty
  x = x
  y = y
  z = z
  v = v
  w = w
  File <- TwoFiles
  Contents <- ThreeContents
  SizeOf <- Sizes
  Versions <- TwoVersions
  NoFile = NoFile
  NoHash = NoHash
  NoGit = NoGit
  MaxChanges = 1
  MaxInventories = 1
INVARIANT NoFalseAlarm
SYMMETRY Symmetry
CHECK_DEADLOCK FALSE
