SPECIFICATION FairMsgSpec
CONSTANTS
  HeaderSize = 3
  Frames = 3
  MaxLength = 3
  MaxRead = 8
  Garbage = Garbage
CHECK_DEADLOCK FALSE
INVARIANT FramesExact
INVARIANT BodyIntactUnlessSplit
PROPERTY AllDelivered
