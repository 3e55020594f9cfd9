SPECIFICATION Spec
CONSTANTS
  c1 = c1
  Callers <- One
  Counts = {1, 2, 3}
  MaxCount = 4
  MaxEdges = 5
  EnallSticky = TRUE
  HoldUnread = TRUE
  Ops <- StartShow
  Overlap <- AllOverlap
INVARIANTS
  Alternating
  DoneMeansComplete
PROPERTY DoneIsFrozen
