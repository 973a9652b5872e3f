---------------------------- MODULE FreeRTOSTasks ----------------------------
(***************************************************************************)
(* FreeRTOS with an application that may call any function of task.h at    *)
(* any time its documentation allows: nothing that blocks the caller while *)
(* the scheduler is suspended, and no handle of a deleted task.  The tick  *)
(* and a handler that resumes tasks interrupt it wherever interrupts are   *)
(* enabled.                                                                *)
(***************************************************************************)
EXTENDS FreeRTOSKernel

CONSTANTS
  Periodic,     \* the tasks that call vTaskDelayUntil
  Period,       \* their cycle time
  Delays,       \* the numbers of ticks the application delays for
  Priorities,   \* the priorities it uses
  MaxNest,      \* bound on nested calls of vTaskSuspendAll
  MaxMissed     \* bound on the ticks of one suspension of the scheduler

\* Priorities above configMAX_PRIORITIES - 1 are lowered to it by the kernel, and
\* a portTickType holds no more ticks than MaxDelay.
ASSUME TasksAssumption ==
  /\ Periodic \subseteq Task /\ Priorities \subseteq Priority
  /\ Period \in Tick /\ Delays \subseteq Tick /\ MaxMissed \in Tick

VARIABLES
  kernel,
  pc,           \* where a task is: "run" in its own code, else in the kernel
  previous,     \* the *pxPreviousWakeTime of vTaskDelayUntil
  sleep,        \* ticks t has still to wait for (nobody's variable)
  behind        \* ticks since previous[t] (nobody's variable)

vars == <<kernel, pc, previous, sleep, behind>>

Init ==
  /\ kernel = BootKernel
  /\ pc = [t \in AnyTask |-> "run"]
  /\ previous = [t \in Periodic |-> 0]
  /\ sleep = [t \in Task |-> 0]
  /\ behind = [t \in Periodic |-> 0]

Lists(k) ==
  [ready |-> UNION {ToSet(k.ready[p]) : p \in Priority},
   delayed |-> ToSet(k.delayed), overflow |-> ToSet(k.overflow),
   suspended |-> k.suspended, terminating |-> ToSet(k.terminating)]
Created(k) == UNION {Lists(k)[l] : l \in DOMAIN Lists(k)}
Handles == (Created(kernel) \ ToSet(kernel.terminating)) \ {Idle}

\* How the times in s go on with the ticks that are counted in this step.
Elapsed == Ticks(kernel'.tickCount - kernel.tickCount)
Counting(s) ==
  sleep' = [t \in Task |-> IF s[t] > Elapsed THEN s[t] - Elapsed ELSE 0]
Ageing(s) ==
  behind' = [t \in Periodic |-> Min({s[t] + Elapsed, MaxDelay + 1})]
Awake(t) == [sleep EXCEPT ![t] = 0]

Runs(t) == kernel.running /\ kernel.current = t /\ pc[t] = "run"
May(t) == Runs(t) /\ t \in Task
MayBlock(t) == May(t) /\ kernel.suspendDepth = 0
Goto(t, l) == pc' = [pc EXCEPT ![t] = l]

Pass(s) == Counting(s) /\ Ageing(behind) /\ UNCHANGED previous

-----------------------------------------------------------------------------
(* main, before vTaskStartScheduler *)

MainCreate(u, p) ==
  /\ ~kernel.running /\ u \notin Created(kernel)
  /\ kernel' = Create(kernel, u, p)
  /\ UNCHANGED <<pc, previous, sleep, behind>>

\* The running task of later must be found among the others, if there are any.
MainSuspend(u) ==
  /\ ~kernel.running /\ u \in Handles
  /\ LET l == Suspend(kernel, u)
     IN  /\ l.numberOfTasks > 1 => Lists(l).ready # {}
         /\ kernel' = IF u # kernel.current THEN l
                      ELSE IF l.numberOfTasks = 1 THEN [l EXCEPT !.current = NoTask]
                      ELSE SwitchContext(l)
  /\ UNCHANGED <<pc, previous, sleep, behind>>

Start ==
  /\ ~kernel.running
  /\ kernel' = StartScheduler(kernel)
  /\ UNCHANGED <<pc, previous, sleep, behind>>

-----------------------------------------------------------------------------
(* The calls of the running task *)

TaskCreate(t, u, p) ==
  /\ May(t) /\ u \notin Created(kernel)
  /\ kernel' = Create(kernel, u, p)
  /\ Goto(u, "run")
  /\ previous' = [v \in Periodic |-> IF v = u THEN kernel.tickCount ELSE previous[v]]
  /\ behind' = [v \in Periodic |-> IF v = u THEN 0 ELSE behind[v]]
  /\ UNCHANGED sleep

TaskDelete(t, u) ==
  /\ May(t) /\ u \in Handles /\ (u = t => kernel.suspendDepth = 0)
  /\ kernel' = Delete(kernel, u)
  /\ IF u = t THEN Goto(t, "yield") ELSE UNCHANGED pc
  /\ Pass(Awake(u))

\* vTaskDelay up to its xTaskResumeAll; what comes in between is for pending lists.
TaskDelay(t, n) ==
  /\ MayBlock(t) /\ n > 0
  /\ kernel' = AddCurrentTaskToDelayedList(SuspendAll(kernel), Ticks(kernel.tickCount + n))
  /\ Goto(t, "resume")
  /\ Pass([sleep EXCEPT ![t] = n])

\* vTaskDelayUntil, by a task that is not a whole turn of the tick count late.
TaskDelayUntil(t) ==
  /\ MayBlock(t) /\ t \in Periodic
  /\ behind[t] <= MaxDelay /\ Period - behind[t] <= MaxDelay
  /\ LET time == Ticks(previous[t] + Period)
         k == SuspendAll(kernel)
     IN  /\ previous' = [previous EXCEPT ![t] = time]
         /\ kernel' = IF ShouldDelay(kernel, previous[t], time)
                      THEN AddCurrentTaskToDelayedList(k, time) ELSE k
  /\ sleep' = [sleep EXCEPT ![t] = IF behind[t] \in 0 .. Period - 1 THEN Period - behind[t] ELSE 0]
  /\ behind' = [behind EXCEPT ![t] = @ - Period]
  /\ Goto(t, "resume")

\* The xTaskResumeAll of a delay, and the yield that is still to be made.
EndDelay(t) ==
  /\ kernel.current = t /\ t \in Task /\ pc[t] = "resume"
  /\ kernel' = ResumeAll(kernel)
  /\ Goto(t, IF AlreadyYields(kernel) THEN "run" ELSE "yield")
  /\ Pass(sleep)

\* portYIELD_WITHIN_API, after the critical section or the delay.
Yield(t) ==
  /\ kernel.current = t /\ pc[t] = "yield"
  /\ kernel' = SwitchContext(kernel)
  /\ Goto(t, "run")
  /\ Pass(sleep)

\* taskYIELD, or vTaskDelay(0).
TaskYield(t) ==
  /\ MayBlock(t)
  /\ kernel' = SwitchContext(kernel)
  /\ UNCHANGED pc /\ Pass(sleep)

TaskPrioritySet(t, u, p) ==
  /\ May(t) /\ u \in Handles
  /\ kernel' = PrioritySet(kernel, u, p)
  /\ UNCHANGED pc /\ Pass(sleep)

TaskSuspend(t, u) ==
  /\ May(t) /\ u \in Handles /\ (u = t => kernel.suspendDepth = 0)
  /\ kernel' = Suspend(kernel, u)
  /\ IF u = t THEN Goto(t, "yield") ELSE UNCHANGED pc
  /\ Pass(Awake(u))

TaskResume(t, u) ==
  /\ May(t) /\ u \in Handles
  /\ kernel' = Resume(kernel, u)
  /\ UNCHANGED pc /\ Pass(sleep)

TaskSuspendAll(t) ==
  /\ May(t) /\ kernel.suspendDepth < MaxNest
  /\ kernel' = SuspendAll(kernel)
  /\ UNCHANGED pc /\ Pass(sleep)

TaskResumeAll(t) ==
  /\ May(t) /\ kernel.suspendDepth > 0
  /\ kernel' = ResumeAll(kernel)
  /\ UNCHANGED pc /\ Pass(sleep)

-----------------------------------------------------------------------------
(* The idle task: prvIdleTask and prvCheckTasksWaitingTermination *)

IdleCheck ==
  /\ Runs(Idle) /\ kernel.tasksDeleted > 0
  /\ kernel' = SuspendAll(kernel)
  /\ Goto(Idle, "resume") /\ Pass(sleep)

IdleResume ==
  /\ kernel.current = Idle /\ pc[Idle] = "resume"
  /\ kernel' = ResumeAll(kernel)
  /\ Goto(Idle, IF kernel.terminating = <<>> THEN "test" ELSE "reap")
  /\ Pass(sleep)

IdleReap ==
  /\ kernel.current = Idle /\ pc[Idle] = "reap"
  /\ kernel' = Reap(kernel)
  /\ Goto(Idle, "test") /\ Pass(sleep)

\* The idle task gives way to others of its priority.
IdleYield ==
  /\ kernel.running /\ kernel.current = Idle
  /\ pc[Idle] = "test" \/ (pc[Idle] = "run" /\ kernel.tasksDeleted = 0)
  /\ kernel' = YieldIf(Len(kernel.ready[0]) > 1, kernel)
  /\ Goto(Idle, "run") /\ Pass(sleep)

-----------------------------------------------------------------------------
(* Interrupts *)

\* vTick: count, and switch to the task that is to run now.
TickInterrupt ==
  /\ kernel.running /\ kernel.missedTicks < MaxMissed
  /\ kernel' = SwitchContext(IncrementTick(kernel))
  /\ UNCHANGED pc /\ Pass(sleep)

\* A handler that resumes a task.
ResumeInterrupt(u) ==
  /\ kernel.running /\ u \in Handles
  /\ kernel' = ResumeFromISR(kernel, u)
  /\ UNCHANGED pc /\ Pass(sleep)

Call(t) ==
  \/ \E u \in Task, p \in Priorities : TaskCreate(t, u, p) \/ TaskPrioritySet(t, u, p)
  \/ \E u \in Task : TaskDelete(t, u) \/ TaskSuspend(t, u) \/ TaskResume(t, u)
  \/ \E n \in Delays : TaskDelay(t, n)
  \/ TaskDelayUntil(t) \/ TaskYield(t) \/ TaskSuspendAll(t)

Kernel ==
  \/ \E t \in Task : EndDelay(t) \/ Yield(t) \/ TaskResumeAll(t)
  \/ IdleCheck \/ IdleResume \/ IdleReap \/ IdleYield

Next ==
  \/ \E u \in Task, p \in Priorities : MainCreate(u, p)
  \/ \E u \in Task : MainSuspend(u) \/ ResumeInterrupt(u)
  \/ Start
  \/ \E t \in Task : Call(t)
  \/ Kernel
  \/ TickInterrupt

Spec == Init /\ [][Next]_vars

-----------------------------------------------------------------------------

\* A task is in one list of the scheduler and there at one place: on the list of
\* its own priority while it is ready.  The counters agree with the lists, and no
\* ready task lies above uxTopReadyPriority, where nobody would look for it.
ListsInv ==
  LET k == kernel
      all == {k.ready[p] : p \in Priority}
             \cup {k.delayed, k.overflow, k.pending, k.terminating}
  IN  /\ \A s \in all : IsInjective(s)
      /\ \A l, m \in DOMAIN Lists(k) : l # m => Lists(k)[l] \cap Lists(k)[m] = {}
      /\ \A p \in Priority : \A t \in ToSet(k.ready[p]) :
           k.priority[t] = p /\ p <= k.topReady
      /\ \A t \in ToSet(k.pending) : t \in k.suspended \cup Blocked(k)
      /\ k.numberOfTasks = Cardinality(Created(k))
      /\ k.tasksDeleted = Len(k.terminating)
      /\ k.suspendDepth = 0 => k.missedTicks = 0 /\ k.pending = <<>> /\ ~k.missedYield

\* While the scheduler is not suspended nobody waits for a less urgent task, and
\* the CPU is with a ready task unless that one is about to give it away.
MostUrgentRuns ==
  LET k == kernel
  IN  k.running /\ k.suspendDepth = 0 =>
        /\ InReady(k, k.current) \/ pc[k.current] = "yield"
        /\ \A t \in Lists(k).ready : k.priority[t] <= k.priority[k.current]

\* A delay ends with the tick it is meant to end with, never a turn of the tick
\* count later, whatever list it was in, however often the count wraps and the
\* scheduler is suspended.
SleepsExactly == \A t \in Task : t \in Blocked(kernel) <=> sleep[t] > 0

\* Ticks that come while the scheduler is suspended are counted later, each once.
Now == Ticks(kernel.tickCount + kernel.missedTicks)
TicksAreKept == [][kernel.running => Now' \in {Now, Ticks(Now + 1)}]_vars
=============================================================================
