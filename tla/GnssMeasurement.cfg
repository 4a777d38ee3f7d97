\* Two sessions; four messages of two kinds make the two reports that open the
\* gate, or one report and a partial batch, and fill the queue.  No symmetry
\* and FairSpec: two of the properties are temporal.
CONSTANTS
  Kinds = {k1, k2}
  MaxSize = 2
  EventsNum = 2
  MaxSessions = 2
  MaxMessages = 4
SPECIFICATION FairSpec
INVARIANTS
  TypeOK
  QueueLimits
  ClosedIsQuiet
  PopFindsMessage
  GateCountsReports
  AtMostOneEarlyLocation
PROPERTIES
  ReportIsFresh
  ReportReachesOpenSession
  CrashOnlyInClose
  CloseReturns
  GateOpens
CHECK_DEADLOCK FALSE
