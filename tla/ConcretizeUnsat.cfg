\* A harness that any assignment passes, one of another hole, one with both.
SPECIFICATION Spec
CONSTANTS
  a = a
  b = b
  Holes = {a, b}
  Vals <- MCVals
  Pairs = 3
  Asserts = TRUE
  Uses <- UsesBoth
  Attempts = 2
  Sketches <- EasyFirst
INVARIANT UnsatJustified
CHECK_DEADLOCK FALSE
