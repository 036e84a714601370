SPECIFICATION FairSpec
CONSTANTS
  HeadSize = 2
  Limit = 6
  UintMax = 37
  IntMax = 18
  Prealloc = 1
  BodyLen = {0, 1, 2, 5, 9, 20}
  ReplySize = 2
  Timeout = 2
  MaxBytes = 12
  MaxRequests = 3
INVARIANTS NoStall OnceBelowLimit RepliesAccounted
PROPERTIES MessageServed IdleCloses
CHECK_DEADLOCK FALSE
