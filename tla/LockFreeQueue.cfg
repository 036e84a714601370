SPECIFICATION Spec
CONSTANTS
  a1 = a1  a2 = a2  a3 = a3  v1 = v1  v2 = v2
  Addr <- MCAddr
  Value <- MCValue
  Dummy = a1
  Null = Null
  MaxItems = 4
INVARIANTS NoUseAfterFree NoNodeRace SizeAccurate NoLeak
PROPERTIES ImplementsFifo
CHECK_DEADLOCK FALSE
