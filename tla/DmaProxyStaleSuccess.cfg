SPECIFICATION Spec
CONSTANTS
  u1 = u1
  u2 = u2
  Users <- OneUser
  Buffers = {0}
  MaxCookie = 3
  Failures = {"prep"}
\* The model stops when MaxCookie transfers were submitted.
CHECK_DEADLOCK FALSE
INVARIANT NoErrorMeansStarted
