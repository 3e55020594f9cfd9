SPECIFICATION FairSpec
CONSTANTS
  c1 = c1
  Callers <- One
  Counts = {1, 2, 3}
  MaxCount = 4
  MaxEdges = 3
  EnallSticky = TRUE
  HoldUnread = TRUE
  Ops <- AllOps
  Overlap <- Nothing
PROPERTIES
  ImplementsEdgeCapture
  CaptureEnds
