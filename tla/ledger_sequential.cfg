\* Commands run one after another; init runs only while there is no manifest.
CONSTANTS
  i1 = i1
  i2 = i2
  i3 = i3
  i4 = i4
  Invocation <- Four
  Batches <- AllBatches
  Exclusive = TRUE
  InitAgain = FALSE
SPECIFICATION Spec
INVARIANTS
  TypeOK
  SeqIncreasing
  StateCovers
  AckRecorded
PROPERTIES
  LedgerSpec
CHECK_DEADLOCK FALSE
