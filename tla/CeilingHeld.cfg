CONSTANTS
  Task <- Tasks
  Sem <- Sems
  Mutex <- Mutexes
  None = None
  Boots = {"E.barrier"}
  Program <- Programs
  BasePrio <- Priorities
  Joinable <- Joinables
  Slack = 4
  SLEEP_PERIOD = 15
SPECIFICATION Spec
INVARIANT CeilingHeld
