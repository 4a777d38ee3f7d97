\* close() against UpdateStatus(-1): the store of a value computed before
\* close() set the gate to 0.
CONSTANTS
  Kinds = {k1, k2}
  MaxSize = 2
  EventsNum = 2
  MaxSessions = 1
  MaxMessages = 2
SPECIFICATION Spec
INVARIANT GateOpenWhenClosed
CHECK_DEADLOCK FALSE
