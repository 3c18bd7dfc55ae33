CONSTANTS
  t1 = t1  t2 = t2  u1 = u1  u2 = u2
  ClientAddress = ClientAddress
  HandlerIds <- MCHandlerIds
  People <- MCPeople
  MaxFailures <- MCMaxFailures
  Window = 1
  Lockout = 2
  Lifetime = 2
  MaxTime = 2
SYMMETRY MCSymmetry
SPECIFICATION AccountsSpec
CHECK_DEADLOCK FALSE
INVARIANTS
  AdminRemains
