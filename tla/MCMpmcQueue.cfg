SPECIFICATION QueueSpec
CONSTANTS
  Size = 2
  Threads = {t1, t2, t3}
  Values = {v1, v2}
  None = None
  MaxSeq = 2
INVARIANT NodeExclusive
INVARIANT BeatenOnRetry
PROPERTY RefinesFifo
PROPERTY CallsReturn
