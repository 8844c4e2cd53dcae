SPECIFICATION FairRequestSpec
CONSTANTS
  Waiters = {w1, w2}
  NoThread = NoThread
CHECK_DEADLOCK FALSE
PROPERTY WaitersResumed
