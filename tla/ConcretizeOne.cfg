\* Every sketch of one harness with two holes, attempted five times.
SPECIFICATION Spec
CONSTANTS
  a = a
  b = b
  Holes = {a, b}
  Vals <- MCVals
  Pairs = 1
  Asserts = FALSE
  Uses <- UsesOne
  Attempts = 5
  Sketches <- AllOne
INVARIANT OnlyBadExcluded
INVARIANT UnsatJustified
PROPERTY NothingRetried
CHECK_DEADLOCK FALSE
