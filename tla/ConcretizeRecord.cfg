\* A hole left to the finder by one harness and concretized by the next.
SPECIFICATION Spec
CONSTANTS
  a = a
  b = b
  Holes = {a, b}
  Vals <- MCVals
  Pairs = 2
  Asserts = FALSE
  Uses <- UsesTwo
  Attempts = 1
  Sketches <- AllTwo
INVARIANT ChoiceIsRecorded
CHECK_DEADLOCK FALSE
