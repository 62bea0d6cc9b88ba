SPECIFICATION Spec
CONSTANTS
  Thread = {main, p1, p2, p3}
  Main = main
  HEAD = HEAD
  TAIL = TAIL
  NULL = NULL
INVARIANT ForeachVisitsAll
CHECK_DEADLOCK FALSE
