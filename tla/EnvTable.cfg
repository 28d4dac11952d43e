SPECIFICATION Spec
CONSTANTS
  Char <- MCChar
  EQ = "="
  NULL = NULL
  Free = Free
  NameArgs <- MCNameArgs
  ValueArgs <- MCValueArgs
  Addr = {p1, p2, p3, p4}
SYMMETRY Symmetry
INVARIANTS
  TypeOK
  HeapIsTable
  ArrayClosed
  OneEntryPerName
  HeldPointersValid
  IInv
PROPERTY ImplementsMap
