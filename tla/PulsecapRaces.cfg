SPECIFICATION Spec
CONSTANTS
  c1 = c1
  Callers <- One
  Counts = {1, 3}
  MaxCount = 2
  MaxEdges = 3
  EnallSticky = FALSE
  HoldUnread = FALSE
  Ops <- AllOps
  Overlap <- AllOverlap
INVARIANTS
  TypeOK
  StoreInBounds
  ReadOutConsistent
