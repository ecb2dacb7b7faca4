\* Every sketch of two harnesses that share a hole, attempted three times.
SPECIFICATION Spec
CONSTANTS
  a = a
  b = b
  Holes = {a, b}
  Vals <- MCVals
  Pairs = 2
  Asserts = FALSE
  Uses <- UsesTwo
  Attempts = 3
  Sketches <- AllTwo
INVARIANT TypeOK
INVARIANT AnswerCorrect
INVARIANT FinderKnowsChoices
PROPERTY NothingRetried
CHECK_DEADLOCK FALSE
PROPERTY BlameSuffices
