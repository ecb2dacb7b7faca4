\* Three harnesses: the third concretizes what the first left to the finder.
SPECIFICATION Spec
CONSTANTS
  a = a
  b = b
  Holes = {a, b}
  Vals <- MCVals
  Pairs = 3
  Asserts = TRUE
  Uses <- UsesThree
  Attempts = 1
  Sketches <- AllThree
INVARIANT NoPendingAtSwitch
CHECK_DEADLOCK FALSE
