\* Two clients, also both at once as in a test, and three sessions or aborts;
\* a file with no, one, two and three points, up to two steps between two.
CONSTANTS
  Clients = {server1, server2}
  NoClient = NoClient
  Backends = {"tty", "fake"}
  Routes = {0, 1, 2, 3}
  MaxSteps = 1
  OneAtATime = FALSE
  MaxStarts = 3
SPECIFICATION FairSpec
INVARIANTS
  WatchesCurrentClient
  PointsStayInMemory
  WalksTheRoute
PROPERTIES
  ReportingSpec
  StopQuiets
CHECK_DEADLOCK FALSE
