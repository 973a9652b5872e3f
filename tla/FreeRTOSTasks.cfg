SPECIFICATION Spec
CONSTANTS
  Task = {a, b}
  Idle = Idle
  NoTask = NoTask
  Event = {}
  MaxPriority = 2
  MaxDelay = 3
  Wraps = 1
  Periodic = {a}
  Period = 2
  Delays = {1, 3}
  Priorities = {0, 2}
  MaxNest = 2
  MaxMissed = 2
INVARIANTS ListsInv MostUrgentRuns SleepsExactly
PROPERTY TicksAreKept
