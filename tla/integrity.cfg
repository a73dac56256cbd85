\* Two files: every repository they can form, changed once at any moment, two
\* runs of inventory and any number of verify, each killed anywhere.
SPECIFICATION Spec
CONSTANTS
  empty = empty
  x = x
  y = y
  z = z
  v = v
  w = w
  File <- TwoFiles
  Contents <- ThreeContents
  SizeOf <- Sizes
  Versions <- TwoVersions
  NoFile = NoFile
  NoHash = NoHash
  NoGit = NoGit
  MaxChanges = 1
  MaxInventories = 2
INVARIANTS
  TypeOK
  DetectsChange
  PassCovers
  FalseAlarmIsEmptyFile
SYMMETRY Symmetry
CHECK_DEADLOCK FALSE
