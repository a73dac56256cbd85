\* Commands overlap freely, and init is run again.
CONSTANTS
  i1 = i1
  i2 = i2
  i3 = i3
  i4 = i4
  Invocation <- Four
  Batches <- SomeBatches
  Exclusive = FALSE
  InitAgain = TRUE
SPECIFICATION Spec
INVARIANTS
  BatchAtomic
SYMMETRY Symmetry
CHECK_DEADLOCK FALSE
