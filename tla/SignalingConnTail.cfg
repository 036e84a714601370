SPECIFICATION Spec
CONSTANTS
  HeadSize = 2
  Limit = 6
  UintMax = 37
  IntMax = 18
  Prealloc = 1
  BodyLen = {0, 1, 2}
  ReplySize = 2
  Timeout = 2
  MaxBytes = 9
  MaxRequests = 3
INVARIANT OneRequest
CHECK_DEADLOCK FALSE
