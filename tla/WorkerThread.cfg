\* Four slots: two gets and a put may fall between the two loads of empty(),
\* and the ring wraps and overruns.
CONSTANTS
  Size = 4
  Values = {a, b}
  NoValue = none
SPECIFICATION FairSpec
INVARIANT ParseHasMessage
PROPERTIES
  FifoSpec
  WorkerGoesOn
