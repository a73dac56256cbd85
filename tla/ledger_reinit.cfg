\* Commands run one after another; init is run again with a manifest in place.
CONSTANTS
  i1 = i1
  i2 = i2
  i3 = i3
  i4 = i4
  Invocation <- Four
  Batches <- SomeBatches
  Exclusive = TRUE
  InitAgain = TRUE
SPECIFICATION Spec
INVARIANTS
  SeqIdentifies
SYMMETRY Symmetry
CHECK_DEADLOCK FALSE
