\* Time since startup may be 0, equal to defaultRtcTime, or larger.  Two
\* satellites at most; lengths below, at and between whole blocks, and one
\* above the largest message.
CONSTANTS
  Times = {0, 1, 5}
  GpsTimes = {0, 3, 9}
  MaxSvsNum = 2
  SingleBlockSize = 3
  RepeatedBlockSize = 2
  Lengths = {3, 4, 5, 6, 7, 8}
  SvIds = {0, 24, 93, 192, 200}
  Tows = {0, 7}
  TowAccs = {0, 15, 40}
SPECIFICATION Spec
INVARIANTS
  ReportGivesGpsTime
  ReportGivesStartupTime
  BlocksInPayload
  MeasurementPerBlock
  SvidOfConstellation
  TimeAgreesWithState
CHECK_DEADLOCK FALSE
