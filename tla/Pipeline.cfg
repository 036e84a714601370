SPECIFICATION Spec
CONSTANTS
  c1 = c1  c2 = c2  c3 = c3  c4 = c4  w1 = w1  w2 = w2  v1 = v1  v2 = v2
  n1 = n1  n2 = n2  f1 = f1  f2 = f2  f3 = f3  a1 = a1  a2 = a2  a3 = a3
  Client <- ThreeClients
  SWs <- TwoSw
  RWs <- TwoRw
  Name <- OneName
  Hash <- HashTwo
  Fd <- TwoFds
  Addr <- TwoAddrs
  PipeCap = 1
  CanStop = FALSE
  None = None
INVARIANTS Paired TableSound AnswerOnce NameOrder
SYMMETRY Symmetry
CHECK_DEADLOCK FALSE
