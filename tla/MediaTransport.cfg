SPECIFICATION Spec
CONSTANTS
  Fps = {f1, f2}
  BadFp = BadFp
  NoFp = NoFp
  MaxAnswers = 3
  MaxOthers = 2
INVARIANTS KeysMatchPeer StartsWhenReady PcStateAccurate ConnectedHasKeys LibsrtpCounted
PROPERTIES EndedUntilNewFingerprint
CHECK_DEADLOCK FALSE
