SPECIFICATION Spec
CONSTANTS
  c1 = c1
  Callers <- One
  Counts = {1, 2}
  MaxCount = 3
  MaxEdges = 5
  EnallSticky = TRUE
  HoldUnread = TRUE
  Ops <- Start1
  Overlap <- EdgesOverlap
INVARIANT LineReleased
