CONSTANTS
  A = A
  B = B
  C = C
  Task = {A, B, C}
  Idle = Idle
  NoTask = NoTask
  Event = {}
  MaxPriority = 2
  MaxDelay = 3
  Wraps = 1
  Slack = 2
  Line = {1, 2}
  TASK_PERIOD = 2
  Duration = 3
  Second = 4
  IntHalf = 4
  Garbage <- Unwritten
  TicksPerSec = 3
  MaxClock = 15
  Name = {x, y}
  Value = {u, v}
  Junk = Junk
  Factor = {3, 4}
  Capacity = {2}
  MaxCapacity = 4
SYMMETRY Alike
SPECIFICATION Spec
INVARIANTS
  IsSequence
  AnsweredInTime
  AnsweredUntilExpiry
PROPERTY WaitsWhatItWasGiven
\* the main of ex1_time.c returns
CHECK_DEADLOCK FALSE
