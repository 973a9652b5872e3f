CONSTANTS
  PacketSize = 2
  Buffers = 4
  ControlSize = 2
  LineLength = 3
  Application = {"signal"}
  Values = 3
  Frames = 3
  Total = {1}
  Asked = {1}
  StopsOut = FALSE
  MaxBroken = 1
SPECIFICATION Spec
INVARIANTS
  StateNotified
