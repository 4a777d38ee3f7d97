\* A byte of six values, a buffer of 36 bytes: with two faults the two bytes
\* read as a length can be any two, so frames overrun the buffer and the length
\* survives.
CONSTANTS
  Base = 6
  Sync1 = 5
  Sync2 = 4
  Dollar = 3
  Eol = 2
  Plain = {0, 1}
  PayloadLens = {0, 2, 27, 28}
  PayloadBytes = {0, 1, 2, 3, 4, 5}
  MaxSentence = 4
  MaxFaults = 2
SPECIFICATION Spec
INVARIANT TypeOK
PROPERTIES
  CleanIsPutWhole
  ReaderReturns
