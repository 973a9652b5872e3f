CONSTANTS
  PacketSize = 2
  Buffers = 4
  ControlSize = 2
  LineLength = 3
  Application = {"get", "put", "signal"}
  Values = 3
  Frames = 3
  Total = {1, 2, 4}
  Asked = {2, 4, 5}
  StopsOut = FALSE
  MaxBroken = 1
SPECIFICATION Spec
INVARIANTS
  ReceivedInOrder
  SentInOrder
  HostIsServed
PROPERTIES
  EveryRequestEnds
