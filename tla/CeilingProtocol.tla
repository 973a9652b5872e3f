-------------------------- MODULE CeilingProtocol --------------------------
(***************************************************************************)
(* Ex7/TaskE/TaskE.c: the nested sections of TaskD under a home-made       *)
(* immediate ceiling protocol: a task takes the ceiling of a mutex before  *)
(* it locks it, and its base priority back after it has unlocked it.       *)
(***************************************************************************)
EXTENDS XenomaiCalls

CONSTANT SLEEP_PERIOD   \* in TIME_UNITs; long enough to outlast the work

Sems == {"semaphoreBarrier"}
Mutexes == {"mutexA", "mutexB"}
Tasks == {"E.low", "E.high", "E.barrier"}

\* A.priority and B.priority
Ceiling == [m \in Mutexes |-> IF m = "mutexA" THEN 5 ELSE 10]

icpp_lock(r) == SetPriority(Ceiling[r]) \o Acquire(r)
icpp_unlock(r, base_priority) == Release(r) \o SetPriority(base_priority)

\* Faulty variant: low works before it unlocks A.
low_unlocksLate ==
  P("semaphoreBarrier") \o
  icpp_lock("mutexA") \o Spin(3) \o icpp_lock("mutexB") \o
  icpp_unlock("mutexB", 1) \o Spin(1) \o icpp_unlock("mutexA", 1)

low ==
  P("semaphoreBarrier") \o
  icpp_lock("mutexA") \o Spin(3) \o icpp_lock("mutexB") \o
  icpp_unlock("mutexB", 1) \o icpp_unlock("mutexA", 1) \o Spin(1)

high ==
  P("semaphoreBarrier") \o Sleep(1) \o
  icpp_lock("mutexB") \o Spin(1) \o icpp_lock("mutexA") \o Spin(2) \o
  icpp_unlock("mutexA", 2) \o icpp_unlock("mutexB", 2) \o Spin(1)

barrier ==
  SemCreate("semaphoreBarrier", 0) \o Start("E.low") \o Start("E.high") \o
  Sleep(SLEEP_PERIOD) \o Broadcast("semaphoreBarrier") \o Sleep(SLEEP_PERIOD) \o
  Join("E.low") \o Join("E.high") \o Forever

Programs ==
  [t \in Tasks |-> CASE t = "E.low" -> low [] t = "E.high" -> high [] OTHER -> barrier]

\* rt_task_create: the last argument but one.
Priorities ==
  [t \in Tasks |-> CASE t = "E.low" -> 1 [] t = "E.high" -> 2 [] OTHER -> 0]

Joinables == {"E.low", "E.high"}
=============================================================================
