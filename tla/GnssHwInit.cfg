\* Two retries and two faults: an answer may come after its wait, and a
\* message may use up its retries.  The receiver may fall silent for good.
CONSTANTS
  Boards = {"kingfisher", "salvator"}
  Buses <- MCBuses
  Firmwares = {301, 201, 0}
  SecMajors = {"GLONASS", "BEIDOU", "NONE"}
  Sbas = {"DISABLE", "ENABLE"}
  Rejected = {{}, {"measx"}}
  RetriesCnt = 2
  MayFallSilent = TRUE
  MaxFaults = 2
SPECIFICATION FairSpec
INVARIANT ConfigurationAgrees
PROPERTIES
  OwnAckIsApplied
  InitEnds
CHECK_DEADLOCK FALSE
