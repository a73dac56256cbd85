\* Every graph of three directories with up to two entries each, any failing
\* call, and at most one failing resolve().
SPECIFICATION FairSpec
CONSTANTS
  r = r
  a = a
  b = b
  Dir <- ThreeDirs
  Root = r
  Name <- TwoNames
  NoEntry = NoEntry
  Leaf = Leaf
  ResolveBudget = 1
INVARIANTS
  TypeOK
  ScannedOnce
  ScanOrder
  Complete
PROPERTY
  Termination
CHECK_DEADLOCK FALSE
