------------------------- MODULE PriorityInversion -------------------------
(***************************************************************************)
(* Ex7/TaskB/TaskB.c: low, med and high start together; low and high share *)
(* a resource guarded by a semaphore, and med shares nothing.              *)
(***************************************************************************)
EXTENDS XenomaiCalls

CONSTANT SLEEP_PERIOD   \* in TIME_UNITs; long enough to outlast the work

Sems == {"semaphoreBarrier", "semaphoreResource"}
Tasks == {"B.low", "B.med", "B.high", "B.barrier"}

low ==
  P("semaphoreBarrier") \o
  P("semaphoreResource") \o Spin(3) \o V("semaphoreResource")

med == P("semaphoreBarrier") \o Sleep(1) \o Spin(5)

high ==
  P("semaphoreBarrier") \o Sleep(2) \o
  P("semaphoreResource") \o Spin(2) \o V("semaphoreResource")

barrier ==
  SemCreate("semaphoreBarrier", 0) \o SemCreate("semaphoreResource", 1) \o
  Start("B.low") \o Start("B.med") \o Start("B.high") \o
  Sleep(SLEEP_PERIOD) \o Broadcast("semaphoreBarrier") \o Sleep(SLEEP_PERIOD) \o
  Join("B.low") \o Join("B.med") \o Join("B.high") \o Forever

Programs ==
  [t \in Tasks |-> CASE t = "B.low" -> low [] t = "B.med" -> med
                     [] t = "B.high" -> high [] OTHER -> barrier]

\* A faulty variant: low is as urgent as med.
Priorities_equal ==
  [t \in Tasks |-> CASE t = "B.low" -> 2 [] t = "B.med" -> 2
                     [] t = "B.high" -> 3 [] OTHER -> 0]

\* rt_task_create: the last argument but one.
Priorities ==
  [t \in Tasks |-> CASE t = "B.low" -> 1 [] t = "B.med" -> 2
                     [] t = "B.high" -> 3 [] OTHER -> 0]

Joinables == {"B.low", "B.med", "B.high"}
=============================================================================
