\* One sender that runs ahead by the depth of the FIFO, one that runs further.
SPECIFICATION Spec
CONSTANTS
  FRAME_SIZE = 5
  RESP_SIZE = 6
  RX_FIFO = 3
  Aheads = {3, 4}
  Garbage = Garbage
  MaxFrames = 4
INVARIANTS
  NoOverrun
  InterruptRearmed
  ShiftedByLoss
PROPERTIES
  ImplementsStream
  FramesAnswered
