SPECIFICATION Spec
CONSTANTS
  data = data
  letters = letters
  x = x
  y = y
  mutex = mutex
  low = low
  mid = mid
  high = high
  semaphore = semaphore
  Queue = {data, letters, semaphore, mutex}
  Kind <- MCKind
  Length <- MCLength
  Item <- MCItem
  NoItem = NoItem
  Task = {low, mid, high}
  Base <- MCBase
  Scenario <- MCScenario
  FromISR = {data}
  Event <- MCEvent
  Idle = Idle
  NoTask = NoTask
  MaxPriority = 3
  MaxDelay = 3
  Wraps = 2
  MaxMissed = 1
  MaxLock = 1
  MaxDepth = 2
  MaxLate = 2
INVARIANTS QueueInv HolderInherits NoLostWakeup TimesOutOnTime
PROPERTY IsBoundedQueue
