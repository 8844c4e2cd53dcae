SPECIFICATION FairRequestSpec
CONSTANTS
  Waiters = {w1, w2, w3}
  NoThread = NoThread
CHECK_DEADLOCK FALSE
INVARIANT ReturnsWhenReady
INVARIANT CallbackOnce
PROPERTY CallbackCalled
PROPERTY BlockedAreWoken
