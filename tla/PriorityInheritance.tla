------------------------ MODULE PriorityInheritance ------------------------
(***************************************************************************)
(* Ex7/TaskC/TaskC.c: the tasks of TaskB with the resource guarded by a    *)
(* mutex, whose owner inherits the priority of the tasks it blocks.        *)
(***************************************************************************)
EXTENDS XenomaiCalls

CONSTANT SLEEP_PERIOD   \* in TIME_UNITs; long enough to outlast the work

Sems == {"semaphoreBarrier"}
Mutexes == {"mutexResource"}
Tasks == {"C.low", "C.med", "C.high", "C.barrier"}

low ==
  P("semaphoreBarrier") \o
  Acquire("mutexResource") \o Spin(3) \o Release("mutexResource")

med ==
  P("semaphoreBarrier") \o Sleep(1) \o
  Spin(1) \o Spin(1) \o Spin(1) \o Spin(1) \o Spin(1)

high ==
  P("semaphoreBarrier") \o Sleep(2) \o
  Acquire("mutexResource") \o Spin(2) \o Release("mutexResource")

barrier ==
  SemCreate("semaphoreBarrier", 0) \o
  Start("C.low") \o Start("C.med") \o Start("C.high") \o
  Sleep(SLEEP_PERIOD) \o Broadcast("semaphoreBarrier") \o Sleep(SLEEP_PERIOD) \o
  Join("C.low") \o Join("C.med") \o Join("C.high") \o Forever

Programs ==
  [t \in Tasks |-> CASE t = "C.low" -> low [] t = "C.med" -> med
                     [] t = "C.high" -> high [] OTHER -> barrier]

\* rt_task_create: the last argument but one.
Priorities ==
  [t \in Tasks |-> CASE t = "C.low" -> 1 [] t = "C.med" -> 2
                     [] t = "C.high" -> 3 [] OTHER -> 0]

Joinables == {"C.low", "C.med", "C.high"}
=============================================================================
