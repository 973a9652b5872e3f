----------------------------- MODULE SemBarrier -----------------------------
(***************************************************************************)
(* Ex7/TaskA/TaskA.c: two tasks wait for a broadcast of the task that      *)
(* created them.  That task is the most urgent of the three and sleeps for *)
(* 100 ns only, the time unit of this module, so it may broadcast and even *)
(* delete the semaphore before the others have come to wait for it.        *)
(***************************************************************************)
EXTENDS XenomaiCalls

Sems == {"semaphore1"}
Tasks == {"A.thread1", "A.thread2", "A.thread3"}

thread1 == P("semaphore1")
thread2 == P("semaphore1")

\* Faulty variants: a semaphore that lets one task through, and one that is
\* never deleted.
thread3_oneUnit ==
  SemCreate("semaphore1", 1) \o Start("A.thread1") \o Start("A.thread2") \o
  Sleep(1) \o Broadcast("semaphore1") \o Sleep(1) \o
  Join("A.thread1") \o Join("A.thread2") \o SemDelete("semaphore1")
thread3_noDelete ==
  SemCreate("semaphore1", 0) \o Start("A.thread1") \o Start("A.thread2") \o
  Sleep(1) \o Broadcast("semaphore1") \o Sleep(1) \o
  Join("A.thread1") \o Join("A.thread2")

thread3 ==
  SemCreate("semaphore1", 0) \o Start("A.thread1") \o Start("A.thread2") \o
  Sleep(1) \o Broadcast("semaphore1") \o Sleep(1) \o
  Join("A.thread1") \o Join("A.thread2") \o SemDelete("semaphore1")

Programs ==
  [t \in Tasks |-> CASE t = "A.thread1" -> thread1 [] t = "A.thread2" -> thread2
                     [] OTHER -> thread3]

\* rt_task_create: the last argument but one.
Priorities ==
  [t \in Tasks |-> CASE t = "A.thread1" -> 1 [] t = "A.thread2" -> 2 [] OTHER -> 3]

\* Neither rt_task_create nor main's passes T_JOINABLE.
Joinables == {}
=============================================================================
