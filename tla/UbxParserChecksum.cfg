\* A frame whose checksum differs reaches the parsers.
CONSTANTS
  Base = 3
  Sync1 = 2
  Sync2 = 1
  ElementLens = {9}
SPECIFICATION ParserSpec
PROPERTY SelectedPassedTest
