CONSTANTS
  PacketSize = 2
  Buffers = 4
  ControlSize = 2
  LineLength = 3
  Application = {"get", "put", "signal"}
  Values = 3
  Frames = 3
  Total = {1}
  Asked = {1}
  StopsOut = TRUE
  MaxBroken = 1
SPECIFICATION Spec
PROPERTIES
  StoppedDataEnd
