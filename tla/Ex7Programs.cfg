CONSTANTS
  Task <- Tasks
  Sem <- Sems
  Mutex <- Mutexes
  None = None
  Boots <- BootTasks
  Program <- Programs
  BasePrio <- Priorities
  Joinable <- Joinables
  Slack = 4
  SLEEP_PERIOD = 15
SPECIFICATION Spec
INVARIANTS
  ProgramsInv
  MutualExclusion
  BroadcastStarts
  OwnerRunsForHigh
  StuckOnlyInEmbrace
  HighWaitsForNoWork
PROPERTIES
  MedGoesBeforeHigh
  EmbraceIsForever
  EveryProgramEnds
\* TaskA returns or hangs in a join and TaskD demonstrates a deadlock:
\* StuckOnlyInEmbrace says that no other program stops, and how
CHECK_DEADLOCK FALSE
