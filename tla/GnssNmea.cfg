\* Four epochs, each with any fix and any of its sentences dropped.  Of the
\* satellites two sentences per long group, room for five of up to six that
\* the lists may hold, at most one sentence lost.
CONSTANTS
  Fixes <- MCFixes
  MaxEpochs = 4
  Groups <- MCGroups
  UsedGroups <- MCUsedGroups
  PerSentence = 2
  SVS_COUNT = 5
  Statuses = {"GPS_GLONASS", "GPS_BEIDOU", "GPS_ONLY"}
  GsaFields = {18, 19}
  Digits = {0, 1, 2}
  MaxGroups = 4
  MaxLost = 1
SPECIFICATION Spec
INVARIANTS
  SatellitesTypeOK
  ListIsLastGroup
  NothingOutlivesVoid
  FieldsAreOfLastSentences
PROPERTY UsedIsOfLastFix
CHECK_DEADLOCK FALSE
