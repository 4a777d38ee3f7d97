\* Elements of one byte, of the shortest frame, and of frames with a payload of
\* one byte and three, complete or not.
CONSTANTS
  Base = 3
  Sync1 = 2
  Sync2 = 1
  ElementLens = {1, 8, 9, 11}
SPECIFICATION ParserSpec
PROPERTIES
  PayloadInElement
  ExactFrameIsSelected
