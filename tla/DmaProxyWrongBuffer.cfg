SPECIFICATION Spec
CONSTANTS
  u1 = u1
  u2 = u2
  Users <- TwoUsers
  Buffers = {0, 1}
  MaxCookie = 3
  Failures = {}
\* The model stops when MaxCookie transfers were submitted.
CHECK_DEADLOCK FALSE
INVARIANT BufferAsAsked
