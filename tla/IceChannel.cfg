SPECIFICATION FairSpec
CONSTANTS
  a = a
  b = b
  NoConn = NoConn
  Conns <- TwoConns
  Priority <- FirstPreferred
  Ufrags = {none, v}
  NoUfrag = none
  Answers = {v}
  RttSamples = {0, 1}
  InitRtt = 4
  RTT_RATIO = 0
  MIN_RTT = 1
  MAX_RTT = 4
  k_min_improvement = 1
  WEAK_PING_INTERVAL = 1
  STRONG_PING_INTERVAL = 2
  STABLING_CONNECTION_PING_INTERVAL = 4
  STABLE_CONNECTION_PING_INTERVAL = 4
  MIN_PINGS_AT_WEAK_PING_INTERVAL = 1
  WEAK_CONNECTION_RECEIVE_TIMEOUT = 2
  CONNECTION_WRITE_CONNECT_FAILS = 2
  CONNECTION_WRITE_CONNECT_TIMEOUT = 2
  CONNECTION_WRITE_TIMEOUT = 4
  LongUptime = FALSE
  AgeCap = 5
  MaxReqs = 1
  Codes = {487}
INVARIANTS SelectedAlive NoStaleRead StateAccurate
PROPERTIES ImplementsChannel PingedAgain DeadPeerFails
CHECK_DEADLOCK FALSE
