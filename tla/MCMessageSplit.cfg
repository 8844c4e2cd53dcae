SPECIFICATION MsgSpec
CONSTANTS
  HeaderSize = 3
  Frames = 2
  MaxLength = 3
  MaxRead = 8
  Garbage = Garbage
CHECK_DEADLOCK FALSE
INVARIANT BodyIntact
