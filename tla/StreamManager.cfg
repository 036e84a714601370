SPECIFICATION Spec
CONSTANTS
  u1 = u1  u2 = u2  n1 = n1  n2 = n2  s1 = s1  s2 = s2  s3 = s3  s4 = s4
  Uid <- TwoUsers
  Name <- OneName
  Stream <- ThreeStreams
  None = None
INVARIANTS NoDanglingEntry PushRegistered ForwardedToPeer
PROPERTIES OwnerDeletes RemovalScope
SYMMETRY Symmetry
