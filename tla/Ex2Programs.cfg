CONSTANTS
  Thread = {t1, t2}
  Loops = 5
  Seats = 5
  User = {u1, u2, u3}
  Fields = 3
  None = None
SPECIFICATION Spec
\* the program without the waiter can deadlock: StuckOnlyInCircle says how, and
\* that the other one cannot
CHECK_DEADLOCK FALSE
INVARIANTS
  TwoSurvive
  OneLoopSurvives
  NeighboursExclude
  StuckOnlyInCircle
  ForksWaitForNobody
PROPERTIES
  RacingSteps
  OnlyOneSingleton
  GarbageOnlyInWindow
  MealsGoOn
  DinnerSteps
