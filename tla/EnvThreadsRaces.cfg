SPECIFICATION FairSpec
CONSTANTS
  Thread = {t1, t2}
  Writers = {t1, t2}
  Name = {n1, n2}
  Value = {v1}
  Addr = {p1, p2}
  Array = {b1}
  MaxCells = 3
  NULL = NULL
  Free = Free
  Junk = Junk
VIEW Memory
CHECK_DEADLOCK FALSE
PROPERTY
  CallsReturn
