---------------------------- MODULE NestedLocks ----------------------------
(***************************************************************************)
(* Ex7/TaskD/TaskD.c: low locks A and then B, high locks B and then A.     *)
(* Priority inheritance does not prevent the deadlock.                     *)
(***************************************************************************)
EXTENDS XenomaiCalls

CONSTANT SLEEP_PERIOD   \* in TIME_UNITs; long enough to outlast the work

Sems == {"semaphoreBarrier"}
Mutexes == {"mutexA", "mutexB"}
Tasks == {"D.low", "D.high", "D.barrier"}

low ==
  P("semaphoreBarrier") \o
  Acquire("mutexA") \o Spin(3) \o Acquire("mutexB") \o
  Release("mutexB") \o Release("mutexA") \o Spin(1)

\* A faulty variant: high releases B before it acquires A.
high_releasesB ==
  P("semaphoreBarrier") \o Sleep(1) \o
  Acquire("mutexB") \o Spin(1) \o Release("mutexB") \o
  Acquire("mutexA") \o Spin(2) \o Release("mutexA") \o Spin(1)

high ==
  P("semaphoreBarrier") \o Sleep(1) \o
  Acquire("mutexB") \o Spin(1) \o Acquire("mutexA") \o Spin(2) \o
  Release("mutexA") \o Release("mutexB") \o Spin(1)

\* A faulty variant: the broadcast comes before high is started.
barrier_early ==
  SemCreate("semaphoreBarrier", 0) \o Start("D.low") \o
  Sleep(SLEEP_PERIOD) \o Broadcast("semaphoreBarrier") \o Start("D.high") \o
  Sleep(SLEEP_PERIOD) \o Join("D.low") \o Join("D.high") \o Forever

barrier ==
  SemCreate("semaphoreBarrier", 0) \o Start("D.low") \o Start("D.high") \o
  Sleep(SLEEP_PERIOD) \o Broadcast("semaphoreBarrier") \o Sleep(SLEEP_PERIOD) \o
  Join("D.low") \o Join("D.high") \o Forever

Programs ==
  [t \in Tasks |-> CASE t = "D.low" -> low [] t = "D.high" -> high [] OTHER -> barrier]

\* rt_task_create: the last argument but one.
Priorities ==
  [t \in Tasks |-> CASE t = "D.low" -> 1 [] t = "D.high" -> 2 [] OTHER -> 0]

Joinables == {"D.low", "D.high"}
=============================================================================
