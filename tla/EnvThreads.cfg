SPECIFICATION Spec
CONSTANTS
  Thread = {t1, t2}
  Writers = {t1, t2}
  Name = {n1, n2}
  Value = {v1, v2}
  Addr = {p1, p2, p3, p4}
  Array = {b1, b2}
  MaxCells = 3
  NULL = NULL
  Free = Free
  Junk = Junk
SYMMETRY Symmetry
CONSTRAINT NoOverlapYet
CHECK_DEADLOCK FALSE
INVARIANTS
  TypeOK
  SafeUnlessRaced
  TableAtRest
PROPERTY
  ReadsCurrent
