SPECIFICATION FairSpec
CONSTANTS
  u1 = u1
  u2 = u2
  Users <- OneUser
  Buffers = {0, 1}
  MaxCookie = 3
  Failures = {"prep", "submit"}
\* The model stops when MaxCookie transfers were submitted.
CHECK_DEADLOCK FALSE
INVARIANTS
  TypeOK
  NoErrorMeansTransferred
  ErrorHasCause
PROPERTIES
  NoLostCompletion
  IoctlReturns
