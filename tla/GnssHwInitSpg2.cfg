\* A receiver with SPG 2.01, nothing lost or refused.
CONSTANTS
  Boards = {"kingfisher"}
  Buses <- MCBuses
  Firmwares = {201}
  SecMajors = {"GLONASS"}
  Sbas = {"ENABLE"}
  Rejected = {{}}
  RetriesCnt = 2
  MayFallSilent = FALSE
  MaxFaults = 0
SPECIFICATION Spec
INVARIANT SecondSystemEnabled
CHECK_DEADLOCK FALSE
