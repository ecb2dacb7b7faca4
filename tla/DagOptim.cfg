\* The rules of the optimizer on small DAGs of every kind of node, and its
\* treatment of assertions.
SPECIFICATION Spec
CONSTANTS
  IsTopLevel = TRUE
  NINPUTS = 3
  Shapes <- MCShapes
  AlterArraccs = {TRUE, FALSE}
INVARIANTS NodeMeaning ValuesCovered VerdictKept TypeOK
CHECK_DEADLOCK FALSE
