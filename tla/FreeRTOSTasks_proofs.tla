------------------------- MODULE FreeRTOSTasks_proofs -------------------------
(***************************************************************************)
(* What is proved of the tasks of FreeRTOS, for any number of them and any *)
(* priorities, delays and bounds: the lemmas about the sections of tasks.c *)
(* are in FreeRTOSKernel_proofs.                                           *)
(***************************************************************************)
EXTENDS FreeRTOSTasks, FreeRTOSKernel_proofs

-----------------------------------------------------------------------------
(* The tick count *)

LEMMA StepTime ==
  ASSUME InTime(kernel), Next
  PROVE  Onwards(kernel, kernel')
<1>1. IsKernel(kernel)
  BY DEF InTime
<1>2. SUFFICES \/ IsKernel(kernel') /\ SameTime(kernel, kernel')
               \/ Onwards(kernel, kernel')
  BY SameTimeIsOnwards
<1>3. ASSUME kernel' = ResumeAll(kernel) PROVE Onwards(kernel, kernel')
  BY <1>1, <1>3, ResumeAllPreserves DEF Onwards, InTime
<1>4. ASSUME NEW t \in Task, NEW u \in Task, NEW p, TaskPrioritySet(t, u, p)
      PROVE  IsKernel(kernel') /\ SameTime(kernel, kernel')
  BY <1>1, <1>4, PrioritySetGoes DEF TaskPrioritySet, AnyTask, Goes
<1>5. ASSUME NEW t \in Task, NEW n, TaskDelay(t, n)
      PROVE  IsKernel(kernel') /\ SameTime(kernel, kernel')
  BY <1>1, <1>5, DelayTime DEF TaskDelay
<1>6. ASSUME NEW t \in Task, TaskDelayUntil(t)
      PROVE  IsKernel(kernel') /\ SameTime(kernel, kernel')
  BY <1>1, <1>6, DelayTime DEF TaskDelayUntil
<1>7. ASSUME NEW u \in Task, MainSuspend(u)
      PROVE  IsKernel(kernel') /\ SameTime(kernel, kernel')
  <2> DEFINE l == Suspend(kernel, u)
             m == [l EXCEPT !.current = NoTask]
  <2>1. IsKernel(l) /\ SameTime(kernel, l)
    BY <1>1, SuspendTime
  <2>2. kernel' \in {l, m, SwitchContext(l)}
    BY <1>7 DEF MainSuspend
  <2> HIDE DEF l
  <2>3. Moved(l, m)
    BY <2>1 DEF Moved, IsKernel, SameTime, Fields
  <2> HIDE DEF m
  <2>4. IsKernel(m) /\ SameTime(l, m)
    BY <2>1, <2>3, MovedIsKernel
  <2>5. QED
    BY <2>1, <2>2, <2>4, SwitchTime DEF SameTime
<1>8. ASSUME Start PROVE Onwards(kernel, kernel')
  <2> DEFINE l == Create(kernel, Idle, 0)
             m == [l EXCEPT !.running = TRUE, !.tickCount = 0]
  <2>1. IsKernel(l)
    BY <1>1, CreateGoes
  <2>2. kernel' = m /\ ~kernel.running
    BY <1>8 DEF Start, StartScheduler
  <2> HIDE DEF l
  <2>3. /\ m = [x \in Fields |-> m[x]] /\ m.tickCount = 0
        /\ m.priority = l.priority /\ m.base = l.base /\ m.pending = l.pending
        /\ m.delayed = l.delayed /\ m.overflow = l.overflow /\ m.missedTicks = l.missedTicks
    BY <2>1 DEF IsKernel, Fields
  <2> HIDE DEF m
  <2>4. QED
    BY <2>1, <2>2, <2>3, KernelAssumption DEF Onwards, InTime, IsKernel, Tick
<1>9. ASSUME TickInterrupt PROVE Onwards(kernel, kernel')
  BY <1>9, TickTime DEF TickInterrupt, Onwards
<1>10. ASSUME NEW t \in Task, Call(t)
      PROVE  IsKernel(kernel') /\ SameTime(kernel, kernel')
  <2>1. ASSUME NEW u \in Task, NEW p \in Priorities, TaskCreate(t, u, p)
        PROVE  IsKernel(kernel') /\ SameTime(kernel, kernel')
    BY <1>1, <2>1, CreateGoes DEF TaskCreate
  <2>2. ASSUME NEW u \in Task, TaskDelete(t, u)
        PROVE  IsKernel(kernel') /\ SameTime(kernel, kernel')
    BY <1>1, <2>2, DeleteTime DEF TaskDelete
  <2>3. ASSUME NEW u \in Task, TaskSuspend(t, u)
        PROVE  IsKernel(kernel') /\ SameTime(kernel, kernel')
    BY <1>1, <2>3, SuspendTime DEF TaskSuspend
  <2>4. ASSUME NEW u \in Task, TaskResume(t, u)
        PROVE  IsKernel(kernel') /\ SameTime(kernel, kernel')
    BY <1>1, <2>4, ResumeTime DEF TaskResume
  <2>5. CASE TaskYield(t)
    BY <1>1, <2>5, SwitchTime DEF TaskYield
  <2>6. CASE TaskSuspendAll(t)
    BY <1>1, <2>6, SuspendAllPreserves DEF TaskSuspendAll
  <2>7. QED
    BY <1>4, <1>5, <1>6, <1>10, <2>1, <2>2, <2>3, <2>4, <2>5, <2>6 DEF Call
<1>11. CASE Kernel
  <2>1. ASSUME NEW t \in Task, EndDelay(t) \/ TaskResumeAll(t)
        PROVE  Onwards(kernel, kernel')
    BY <1>3, <2>1 DEF EndDelay, TaskResumeAll
  <2>2. ASSUME NEW t \in Task, Yield(t)
        PROVE  IsKernel(kernel') /\ SameTime(kernel, kernel')
    BY <1>1, <2>2, SwitchTime DEF Yield
  <2>3. CASE IdleCheck
    BY <1>1, <2>3, SuspendAllPreserves DEF IdleCheck
  <2>4. CASE IdleResume
    BY <1>3, <2>4 DEF IdleResume
  <2>5. CASE IdleReap
    BY <1>1, <2>5, ReapTime DEF IdleReap
  <2>6. CASE IdleYield
    BY <1>1, <2>6, SwitchTime DEF IdleYield
  <2>7. QED
    BY <1>11, <2>1, <2>2, <2>3, <2>4, <2>5, <2>6 DEF Kernel
<1>12. ASSUME NEW u \in Task, NEW p, MainCreate(u, p)
       PROVE  IsKernel(kernel') /\ SameTime(kernel, kernel')
  BY <1>1, <1>12, CreateGoes DEF MainCreate
<1>13. ASSUME NEW u \in Task, ResumeInterrupt(u)
       PROVE  IsKernel(kernel') /\ SameTime(kernel, kernel')
  BY <1>1, <1>13, ResumeTime DEF ResumeInterrupt
<1>14. QED
  BY <1>7, <1>8, <1>9, <1>10, <1>11, <1>12, <1>13 DEF Next

\* Ticks that come while the scheduler is suspended are counted later, each once:
\* incrementing, suspending and resuming move ticks between uxMissedTicks and
\* xTickCount, and no other call of task.h touches either.
THEOREM TicksAreCounted == Spec => TicksAreKept
<1>1. Init => InTime(kernel)
  BY BootPreserves, KernelAssumption DEF Init, InTime, BootKernel, Tick
<1>2. InTime(kernel) /\ [Next]_vars =>
        /\ InTime(kernel)'
        /\ [kernel.running => Now' \in {Now, Ticks(Now + 1)}]_vars
  <2>1. ASSUME InTime(kernel), Next
        PROVE  InTime(kernel') /\ (kernel.running => Now' \in {Now, Ticks(Now + 1)})
    BY <2>1, StepTime DEF Onwards, Clock, Now
  <2>2. ASSUME InTime(kernel), UNCHANGED vars
        PROVE  InTime(kernel')
    BY <2>2 DEF vars
  <2>3. QED
    BY <2>1, <2>2 DEF InTime
<1>3. QED
  BY <1>1, <1>2, PTL DEF Spec, TicksAreKept

-----------------------------------------------------------------------------
(* The lists, the counters and the running task *)

\* The tasks of a kernel, seen as its lists.
LEMMA CreatedAre ==
  ASSUME NEW k, Tidy(k)
  PROVE  Created(k) = All(k) /\ Lists(k).ready = ReadyTasks(k)
<1>1. DOMAIN Lists(k) = {"ready", "delayed", "overflow", "suspended", "terminating"}
  BY DEF Lists
<1>2. Lists(k).ready = ReadyTasks(k)
  <2>1. Lists(k).ready = UNION {ToSet(k.ready[p]) : p \in Priority}
    BY DEF Lists
  <2>2. \A p \in Priority : \A t \in ToSet(k.ready[p]) : t \in AnyTask /\ InReady(k, t)
    BY ReadyTask DEF Tidy
  <2>3. \A t \in AnyTask : InReady(k, t) =>
          k.priority[t] \in Priority /\ t \in ToSet(k.ready[k.priority[t]])
    BY DEF Tidy, InReady
  <2>4. QED
    BY <2>1, <2>2, <2>3 DEF ReadyTasks
<1>3. /\ Lists(k).delayed = ToSet(k.delayed) /\ Lists(k).overflow = ToSet(k.overflow)
      /\ Lists(k).suspended = k.suspended /\ Lists(k).terminating = ToSet(k.terminating)
  BY DEF Lists
<1>4. Created(k) = All(k)
  <2> DEFINE L == Lists(k)
  <2> HIDE DEF L
  <2>1. Created(k) = L["ready"] \cup L["delayed"] \cup L["overflow"] \cup L["suspended"]
                     \cup L["terminating"]
    BY <1>1 DEF Created, L
  <2>2. QED
    BY <1>2, <1>3, <2>1 DEF All, Asleep, Blocked, L
<1>5. QED
  BY <1>2, <1>4


\* Only the running task is at a point where it holds the scheduler suspended, and
\* one that runs its own code is ready.
Controlled(k, f) ==
  /\ f \in [AnyTask -> {"run", "resume", "yield", "test", "reap"}]
  /\ ~k.running => \A t \in AnyTask : f[t] = "run"
  /\ k.running /\ f[k.current] \in {"run", "test", "reap"} => k.current \in ReadyTasks(k)
  /\ \A t \in AnyTask : f[t] = "resume" => t = k.current /\ k.suspendDepth = 1
  /\ k.running /\ f[k.current] = "yield" => k.suspendDepth = 0
  /\ k.current = Idle /\ f[Idle] # "resume" => k.suspendDepth = 0
  /\ f[Idle] = "reap" => k.terminating # <<>>

LEMMA Waiting ==
  ASSUME NEW k, Good(k), NEW l, Good(l), ToSet(k.terminating) \subseteq ToSet(l.terminating)
  PROVE  k.terminating # <<>> => l.terminating # <<>>
BY NothingInList, EmptyOnce DEF Good, Sound, Kept, Tidy

LEMMA CallsControlled ==
  ASSUME NEW k, Good(k), NEW l, Called(k, l), NEW f, Controlled(k, f)
  PROVE  Controlled(l, f)
<1>1. k.suspendDepth \in Nat /\ l.suspendDepth = k.suspendDepth
  BY DEF Good, Sound, CountsAgree, Called, Switched
<1>2. k.terminating # <<>> => l.terminating # <<>>
  BY Waiting DEF Called
<1>3. /\ l.running = k.running
      /\ \/ l.current = k.current
         \/ k.suspendDepth = 0 /\ l.current \in ReadyTasks(l)
      /\ ReadyTasks(k) \subseteq ReadyTasks(l)
  BY <1>1 DEF Called, Switched
<1>4. QED
  BY <1>1, <1>2, <1>3 DEF Controlled

\* The running task goes from one point of its code to another.
LEMMA GotoControlled ==
  ASSUME NEW k, Good(k), k.running, NEW l, Good(l), l.running, NEW f, Controlled(k, f),
         NEW place \in {"run", "yield", "test", "reap"}, l.suspendDepth = 0,
         l.current # k.current => l.current \in ReadyTasks(l),
         place = "yield" \/ k.current \in ReadyTasks(l) \/ l.current \in ReadyTasks(l),
         place = "reap" => l.terminating # <<>>,
         k.current # Idle => ToSet(k.terminating) \subseteq ToSet(l.terminating)
  PROVE  Controlled(l, [f EXCEPT ![k.current] = place])
<1>1. k.current \in AnyTask /\ Idle \in AnyTask
  BY DEF Good, Chosen, AnyTask
<1>2. k.current # Idle /\ k.terminating # <<>> => l.terminating # <<>>
  BY Waiting
<1>3. QED
  BY <1>1, <1>2 DEF Controlled

-----------------------------------------------------------------------------
(* The steps *)

Well == Good(kernel) /\ Controlled(kernel, pc)

LEMMA MayRuns ==
  ASSUME Well, NEW t, May(t)
  PROVE  /\ t \in AnyTask /\ t # Idle /\ kernel.running /\ kernel.current = t
         /\ t \in ReadyTasks(kernel) /\ pc[t] = "run"
         /\ kernel.suspendDepth \in Nat
         /\ \A u \in AnyTask : pc[u] # "resume"
BY KernelAssumption DEF Well, Good, Sound, CountsAgree, Controlled, May, Runs, AnyTask

LEMMA HandlesAre ==
  ASSUME Well, NEW u \in Handles
  PROVE  u \in AnyTask /\ u # Idle /\ u \in All(kernel) /\ u \notin ToSet(kernel.terminating)
<1>1. Tidy(kernel)
  BY DEF Well, Good, Sound, Kept
<1>2. QED
  BY <1>1, CreatedAre, AllIsFinite DEF Handles

LEMMA CreatedIsGood ==
  ASSUME NEW k, NEW l, NEW u \in Task, NEW p \in Priority,
         Good(k), ~k.running, u \notin All(k), l = Create(k, u, p)
  PROVE  Good(l) /\ ~l.running /\ l.suspendDepth = 0
<1>1. Good(l)
  BY BootCreates
<1>2. ~l.running
  BY BootCreates
<1>3. l.suspendDepth = 0
  BY BootCreates, ZenonT(60)
<1>4. QED
  BY <1>1, <1>2, <1>3

LEMMA MainWell ==
  ASSUME Well,
         \/ \E u \in Task, p \in Priorities : MainCreate(u, p)
         \/ \E u \in Task : MainSuspend(u)
         \/ Start
  PROVE  Well'
<1>1. /\ Good(kernel) /\ Controlled(kernel, pc) /\ Tidy(kernel) /\ pc' = pc
      /\ ~kernel.running /\ kernel.suspendDepth = 0
      /\ \A u \in Task : u \in AnyTask /\ u # Idle
  BY KernelAssumption DEF Well, Good, Sound, Kept, Started, MainCreate, MainSuspend, Start, AnyTask
<1>2. \A t \in AnyTask : pc[t] = "run"
  BY <1>1 DEF Controlled
<1>3. ASSUME Good(kernel'), kernel'.suspendDepth = 0,
             kernel'.running => kernel'.current \in ReadyTasks(kernel')
      PROVE  Well'
  <2>1. Idle \in AnyTask
    BY DEF AnyTask
  <2>2. kernel'.running => kernel'.current \in AnyTask
    BY <1>3 DEF Good, Chosen
  <2>3. QED
    BY <1>1, <1>2, <1>3, <2>1, <2>2 DEF Well, Controlled
<1>4. ASSUME NEW u \in Task, NEW p \in Priorities, MainCreate(u, p) PROVE Well'
  <2>1. u \notin All(kernel) /\ kernel' = Create(kernel, u, p) /\ p \in Priority
    BY <1>1, <1>4, CreatedAre, TasksAssumption DEF MainCreate
  <2>2. Good(kernel') /\ ~kernel'.running /\ kernel'.suspendDepth = 0
    BY <1>1, <2>1, CreatedIsGood
  <2>3. QED
    BY <1>3, <2>2
<1>5. ASSUME NEW u \in Task, MainSuspend(u) PROVE Well'
  <2> DEFINE l == Suspend(kernel, u)
  <2>1. u \in All(kernel) /\ u \notin ToSet(kernel.terminating)
    BY <1>5, HandlesAre DEF MainSuspend
  <2>2. Aside(kernel, l, u)
    BY <1>1, <2>1, SuspendMoves
  <2>3. /\ l.numberOfTasks > 1 => Lists(l).ready # {}
        /\ kernel' = IF u # kernel.current THEN l
                     ELSE IF l.numberOfTasks = 1 THEN [l EXCEPT !.current = NoTask]
                     ELSE SwitchContext(l)
    BY <1>5 DEF MainSuspend
  <2> HIDE DEF l
  <2>4. Lists(l).ready = ReadyTasks(l)
    BY <2>2, CreatedAre DEF Aside, Sound, Kept
  <2>5. l.numberOfTasks \in Nat \ {0}
    <3>1. u \in All(l) /\ IsFiniteSet(All(l)) /\ l.numberOfTasks = Cardinality(All(l))
      BY <2>1, <2>2, AllIsFinite DEF Aside, Sound, Kept, CountsAgree
    <3>2. QED
      BY <3>1, FS_CardinalityType, FS_EmptySet
  <2>6. Good(kernel') /\ ~kernel'.running
    <3>1. CASE u # kernel.current
      BY <1>1, <2>2, <2>3, <3>1, AsideIsGood DEF Aside
    <3>2. CASE u = kernel.current
      <4>1. \/ l.numberOfTasks = 1 /\ kernel' = [l EXCEPT !.current = NoTask]
            \/ ReadyTasks(l) # {} /\ kernel' = SwitchContext(l)
        BY <2>3, <2>4, <2>5, <3>2
      <4>2. QED
        BY <1>1, <2>1, <2>2, <3>2, <4>1, MainSuspendIs
    <3>3. QED
      BY <3>1, <3>2
  <2>7. QED
    BY <1>3, <2>6 DEF Good, Started
<1>6. CASE Start
  BY <1>1, <1>3, <1>6, StartIs DEF Start
<1>7. QED
  BY <1>4, <1>5, <1>6

\* A call that leaves the running task where it is in its code.
LEMMA CallWell ==
  ASSUME Well, Called(kernel, kernel'), pc' = pc
  PROVE  Well'
BY CallsControlled DEF Well, Called

LEMMA CreateWell ==
  ASSUME Well, NEW t \in Task, NEW u \in Task, NEW p \in Priorities, TaskCreate(t, u, p)
  PROVE  Well'
<1>1. /\ Good(kernel) /\ Controlled(kernel, pc) /\ Tidy(kernel)
      /\ kernel.running /\ kernel.current = t /\ t \in ReadyTasks(kernel)
      /\ u \in AnyTask /\ u # Idle
  BY MayRuns, KernelAssumption DEF Well, Good, Sound, Kept, TaskCreate, AnyTask
<1>2. u \notin All(kernel) /\ p \in Priority
  BY <1>1, CreatedAre, TasksAssumption DEF TaskCreate
<1>3. Called(kernel, kernel')
  BY <1>1, <1>2, CreateIs DEF TaskCreate
<1>4. Controlled(kernel', pc)
  BY <1>1, <1>3, CallsControlled
<1>5. kernel'.current = u => u \in ReadyTasks(kernel')
  BY <1>1, <1>2, <1>3 DEF Called, Switched, All
<1>6. pc' = [pc EXCEPT ![u] = "run"]
  BY DEF TaskCreate, Goto
<1>7. Controlled(kernel', pc')
  BY <1>1, <1>4, <1>5, <1>6 DEF Controlled
<1>8. QED
  BY <1>3, <1>7 DEF Well, Called

\* vTaskDelete and vTaskSuspend: a task that lays itself aside has yet to yield.
LEMMA AsideWell ==
  ASSUME Well, NEW t \in Task, NEW u \in Task, TaskDelete(t, u) \/ TaskSuspend(t, u)
  PROVE  Well'
<1>1. /\ Good(kernel) /\ Controlled(kernel, pc)
      /\ kernel.running /\ kernel.current = t /\ t \in ReadyTasks(kernel) /\ t # Idle
      /\ pc[t] = "run" /\ t \in AnyTask /\ Idle \in AnyTask
  BY MayRuns DEF Well, TaskDelete, TaskSuspend, AnyTask
<1>2. /\ u \in AnyTask /\ u # Idle /\ u \in All(kernel) /\ u \notin ToSet(kernel.terminating)
      /\ u = t => kernel.suspendDepth = 0
      /\ pc' = IF u = t THEN [pc EXCEPT ![t] = "yield"] ELSE pc
  BY HandlesAre DEF TaskDelete, TaskSuspend, Goto
<1>3. Aside(kernel, kernel', u)
  BY <1>1, <1>2, SuspendMoves DEF TaskDelete, TaskSuspend
<1>4. Good(kernel')
  BY <1>1, <1>3, AsideIsGood
<1>5. kernel.terminating # <<>> => kernel'.terminating # <<>>
  BY <1>1, <1>3, <1>4, Waiting DEF Aside
<1>6. Controlled(kernel', pc')
  BY <1>1, <1>2, <1>3, <1>5 DEF Controlled, Aside
<1>7. QED
  BY <1>4, <1>6 DEF Well

\* A delay, as far as its xTaskResumeAll.
LEMMA DelayWell ==
  ASSUME Well, NEW t \in Task, MayBlock(t), Goto(t, "resume"),
         NEW time \in Tick, time # kernel.tickCount,
         \/ kernel' = AddCurrentTaskToDelayedList(SuspendAll(kernel), time)
         \/ kernel' = SuspendAll(kernel)
  PROVE  Well'
<1>1. /\ Good(kernel) /\ Controlled(kernel, pc)
      /\ kernel.running /\ kernel.current = t /\ t \in ReadyTasks(kernel) /\ t # Idle
      /\ pc[t] = "run" /\ kernel.suspendDepth = 0 /\ Idle \in AnyTask /\ t \in AnyTask
      /\ \A u \in AnyTask : pc[u] # "resume"
  BY MayRuns DEF Well, MayBlock, AnyTask
<1>2. /\ Good(kernel') /\ kernel'.running = kernel.running /\ kernel'.current = kernel.current
      /\ kernel'.suspendDepth = 1 /\ kernel'.terminating = kernel.terminating
  <2>1. CASE kernel' = SuspendAll(kernel)
    <3>1. /\ Good(kernel') /\ kernel'.running = kernel.running
          /\ kernel'.current = kernel.current /\ kernel'.terminating = kernel.terminating
          /\ kernel'.suspendDepth = kernel.suspendDepth + 1
      BY <1>1, <2>1, SuspendAllIs
    <3>2. QED
      BY <1>1, <3>1
  <2>2. CASE kernel' = AddCurrentTaskToDelayedList(SuspendAll(kernel), time)
    BY <1>1, <2>2, DelayIs
  <2>3. QED
    BY <2>1, <2>2
<1>3. pc' = [pc EXCEPT ![t] = "resume"]
  BY DEF Goto
<1>4. Controlled(kernel', pc')
  BY <1>1, <1>2, <1>3 DEF Controlled
<1>5. QED
  BY <1>2, <1>4 DEF Well

LEMMA SuspendAllWell ==
  ASSUME Well, NEW t \in Task, TaskSuspendAll(t)
  PROVE  Well'
<1>1. /\ Good(kernel) /\ Controlled(kernel, pc)
      /\ kernel.running /\ kernel.current = t /\ t \in ReadyTasks(kernel) /\ t # Idle
      /\ pc[t] = "run" /\ Idle \in AnyTask /\ t \in AnyTask
      /\ \A u \in AnyTask : pc[u] # "resume"
      /\ kernel' = SuspendAll(kernel) /\ pc' = pc
  BY MayRuns DEF Well, TaskSuspendAll, AnyTask
<1>2. /\ Good(kernel') /\ kernel'.running = kernel.running /\ kernel'.current = kernel.current
      /\ kernel'.terminating = kernel.terminating /\ ReadyTasks(kernel') = ReadyTasks(kernel)
  BY <1>1, SuspendAllIs
<1>3. QED
  BY <1>1, <1>2 DEF Well, Controlled

LEMMA ResumeAllWell ==
  ASSUME Well, NEW t \in Task, TaskResumeAll(t)
  PROVE  Well'
<1>1. /\ Good(kernel) /\ Controlled(kernel, pc)
      /\ kernel.running /\ kernel.current = t /\ t \in ReadyTasks(kernel) /\ t # Idle
      /\ pc[t] = "run" /\ Idle \in AnyTask /\ t \in AnyTask
      /\ \A u \in AnyTask : pc[u] # "resume"
      /\ kernel' = ResumeAll(kernel) /\ pc' = pc
      /\ kernel.suspendDepth \in Nat /\ kernel.suspendDepth > 0
  BY MayRuns DEF Well, TaskResumeAll, AnyTask
<1>2. /\ Good(kernel') /\ kernel'.running = kernel.running
      /\ ReadyTasks(kernel) \subseteq ReadyTasks(kernel')
      /\ kernel'.terminating = kernel.terminating
      /\ kernel'.suspendDepth = kernel.suspendDepth - 1
      /\ kernel'.current # kernel.current =>
           kernel.suspendDepth = 1 /\ kernel'.current \in ReadyTasks(kernel')
  BY <1>1, ResumeAllIs
<1>3. Controlled(kernel', pc')
  BY <1>1, <1>2 DEF Controlled
<1>4. QED
  BY <1>2, <1>3 DEF Well

LEMMA EndDelayWell ==
  ASSUME Well, NEW t \in Task, EndDelay(t)
  PROVE  Well'
<1>1. /\ Good(kernel) /\ Controlled(kernel, pc) /\ t \in AnyTask /\ t # Idle
      /\ kernel.current = t /\ pc[t] = "resume" /\ kernel' = ResumeAll(kernel)
      /\ pc' = [pc EXCEPT ![t] = IF AlreadyYields(kernel) THEN "run" ELSE "yield"]
  BY KernelAssumption DEF Well, EndDelay, Goto, AnyTask
<1>2. kernel.running /\ kernel.suspendDepth = 1 /\ kernel.suspendDepth > 0
  BY <1>1 DEF Controlled
<1>3. /\ Good(kernel') /\ kernel'.running = kernel.running
      /\ kernel'.terminating = kernel.terminating
      /\ kernel'.suspendDepth = kernel.suspendDepth - 1
      /\ kernel'.current # kernel.current \/ (kernel.suspendDepth = 1 /\ AlreadyYields(kernel)) =>
           kernel.suspendDepth = 1 /\ kernel'.current \in ReadyTasks(kernel')
  BY <1>1, <1>2, ResumeAllIs
<1>4. kernel'.suspendDepth = 0
  BY <1>2, <1>3
<1>5. Controlled(kernel', pc')
  <2>1. CASE AlreadyYields(kernel)
    BY <1>1, <1>2, <1>3, <1>4, <2>1, GotoControlled
  <2>2. CASE ~AlreadyYields(kernel)
    BY <1>1, <1>2, <1>3, <1>4, <2>2, GotoControlled
  <2>3. QED
    BY <2>1, <2>2
<1>6. QED
  BY <1>3, <1>5 DEF Well

LEMMA YieldWell ==
  ASSUME Well, NEW t \in Task, Yield(t)
  PROVE  Well'
<1>1. /\ Good(kernel) /\ Controlled(kernel, pc) /\ t \in AnyTask /\ t # Idle
      /\ kernel.current = t /\ pc[t] = "yield" /\ kernel' = YieldIf(TRUE, kernel)
      /\ pc' = [pc EXCEPT ![t] = "run"]
  BY KernelAssumption DEF Well, Yield, Goto, AnyTask, YieldIf
<1>2. kernel.running /\ kernel.suspendDepth = 0
  BY <1>1 DEF Controlled
<1>3. Called(kernel, kernel') /\ kernel'.current \in ReadyTasks(kernel')
  BY <1>1, <1>2, YieldIs
<1>4. /\ Good(kernel') /\ kernel'.running /\ kernel'.suspendDepth = 0
      /\ ToSet(kernel.terminating) \subseteq ToSet(kernel'.terminating)
  BY <1>2, <1>3 DEF Called, Switched
<1>5. Controlled(kernel', pc')
  BY <1>1, <1>2, <1>3, <1>4, GotoControlled
<1>6. QED
  BY <1>4, <1>5 DEF Well

LEMMA IdleIs ==
  ASSUME Well, kernel.current = Idle
  PROVE  /\ Good(kernel) /\ Controlled(kernel, pc) /\ Idle \in AnyTask
         /\ kernel.running => Idle \in ReadyTasks(kernel)
         /\ pc[Idle] # "run" => kernel.running
         /\ pc[Idle] # "resume" => kernel.suspendDepth = 0
         /\ pc[Idle] = "resume" => kernel.suspendDepth = 1
BY DEF Well, Good, Started, Controlled, AnyTask

LEMMA IdleWell ==
  ASSUME Well, IdleCheck \/ IdleResume \/ IdleReap \/ IdleYield
  PROVE  Well'
<1>1. kernel.current = Idle
  BY DEF IdleCheck, IdleResume, IdleReap, IdleYield, Runs
<1>2. /\ Good(kernel) /\ Controlled(kernel, pc) /\ Idle \in AnyTask
      /\ kernel.running => Idle \in ReadyTasks(kernel)
      /\ pc[Idle] # "run" => kernel.running
      /\ pc[Idle] # "resume" => kernel.suspendDepth = 0
      /\ pc[Idle] = "resume" => kernel.suspendDepth = 1
  BY <1>1, IdleIs
<1>3. CASE IdleCheck
  <2>1. /\ kernel.running /\ pc[Idle] = "run" /\ kernel' = SuspendAll(kernel)
        /\ pc' = [pc EXCEPT ![Idle] = "resume"]
    BY <1>3 DEF IdleCheck, Runs, Goto
  <2>2. /\ Good(kernel') /\ kernel'.running = kernel.running
        /\ kernel'.current = kernel.current /\ kernel'.terminating = kernel.terminating
        /\ kernel'.suspendDepth = kernel.suspendDepth + 1
    BY <1>2, <2>1, SuspendAllIs
  <2>3. kernel'.suspendDepth = 1
    BY <1>2, <2>1, <2>2
  <2>4. Controlled(kernel', pc')
    BY <1>1, <1>2, <2>1, <2>2, <2>3 DEF Controlled
  <2>5. QED
    BY <2>2, <2>4 DEF Well
<1>4. CASE IdleResume
  <2>1. /\ kernel.running /\ kernel.suspendDepth = 1 /\ kernel.suspendDepth > 0
        /\ kernel' = ResumeAll(kernel)
        /\ pc' = [pc EXCEPT ![Idle] = IF kernel.terminating = <<>> THEN "test" ELSE "reap"]
    BY <1>2, <1>4 DEF IdleResume, Goto
  <2>2. /\ Good(kernel') /\ kernel'.running = kernel.running
        /\ ReadyTasks(kernel) \subseteq ReadyTasks(kernel')
        /\ kernel'.terminating = kernel.terminating
        /\ kernel'.suspendDepth = kernel.suspendDepth - 1
        /\ kernel'.current # kernel.current => kernel'.current \in ReadyTasks(kernel')
    BY <1>2, <2>1, ResumeAllIs
  <2>3. kernel'.suspendDepth = 0
    BY <2>1, <2>2
  <2>4. Controlled(kernel', pc')
    <3>1. CASE kernel.terminating = <<>>
      BY <1>1, <1>2, <2>1, <2>2, <2>3, <3>1, GotoControlled
    <3>2. CASE kernel.terminating # <<>>
      BY <1>1, <1>2, <2>1, <2>2, <2>3, <3>2, GotoControlled
    <3>3. QED
      BY <3>1, <3>2
  <2>5. QED
    BY <2>2, <2>4 DEF Well
<1>5. CASE IdleReap
  <2>1. /\ kernel.running /\ kernel.suspendDepth = 0 /\ kernel' = Reap(kernel)
        /\ pc' = [pc EXCEPT ![Idle] = "test"] /\ kernel.terminating # <<>>
    BY <1>2, <1>5 DEF IdleReap, Goto, Controlled
  <2>2. /\ Good(kernel') /\ kernel'.running = kernel.running
        /\ ReadyTasks(kernel') = ReadyTasks(kernel)
        /\ kernel'.current = kernel.current /\ kernel'.suspendDepth = kernel.suspendDepth
    BY <1>1, <1>2, <2>1, ReapIs
  <2>3. Controlled(kernel', pc')
    BY <1>1, <1>2, <2>1, <2>2, GotoControlled
  <2>4. QED
    BY <2>2, <2>3 DEF Well
<1>6. CASE IdleYield
  <2> DEFINE yields == Len(kernel.ready[0]) > 1
  <2>1. /\ kernel.running /\ kernel.suspendDepth = 0 /\ kernel' = YieldIf(yields, kernel)
        /\ pc' = [pc EXCEPT ![Idle] = "run"]
    BY <1>2, <1>6 DEF IdleYield, Goto
  <2>2. yields \in BOOLEAN
    OBVIOUS
  <2> HIDE DEF yields
  <2>3. Called(kernel, kernel')
    BY <1>2, <2>1, <2>2, YieldIs
  <2>4. /\ Good(kernel') /\ kernel'.running /\ kernel'.suspendDepth = 0
        /\ ReadyTasks(kernel) \subseteq ReadyTasks(kernel')
        /\ kernel'.current # kernel.current => kernel'.current \in ReadyTasks(kernel')
    BY <2>1, <2>3 DEF Called, Switched
  <2>5. Controlled(kernel', pc')
    BY <1>1, <1>2, <2>1, <2>4, GotoControlled
  <2>6. QED
    BY <2>4, <2>5 DEF Well
<1>7. QED
  BY <1>3, <1>4, <1>5, <1>6

\* Where a sleeping task wakes: never now, and within a turn of the tick count.
LEMMA WakeTime ==
  ASSUME NEW tick \in Tick, NEW n \in 1 .. MaxDelay
  PROVE  /\ Ticks(tick + n) \in Tick /\ Ticks(tick + n) # tick
         /\ n = IF Ticks(tick + n) > tick THEN Ticks(tick + n) - tick
                ELSE Ticks(tick + n) + Turn - tick
<1>1. /\ MaxDelay \in Nat \ {0} /\ tick \in Nat /\ n \in Nat /\ tick <= MaxDelay
      /\ n > 0 /\ n <= MaxDelay
  BY KernelAssumption DEF Tick
<1>2. CASE tick + n <= MaxDelay
  <2>1. tick + n \in Tick
    BY <1>1, <1>2 DEF Tick
  <2>2. Ticks(tick + n) = tick + n
    <3>1. PICK a \in Nat : a = tick + n
      BY <1>1
    <3>2. Ticks(a) = a
      BY <2>1, <3>1, TicksAdd
    <3>3. QED
      BY <3>1, <3>2
  <2>3. QED
    BY <1>1, <1>2, <2>1, <2>2
<1>3. CASE ~ (tick + n <= MaxDelay)
  <2>1. PICK r \in 0 .. MaxDelay : r = tick + n - Turn
    BY <1>1, <1>3 DEF Turn
  <2>2. PICK M \in Nat \ {0} : M = MaxDelay + 1
    BY <1>1
  <2>3. r \in 0 .. M - 1 /\ tick + n = M * 1 + r
    BY <1>1, <2>1, <2>2 DEF Turn
  <2>4. (tick + n) % M = r
    BY <2>3, RemainderIs
  <2>5. Ticks(tick + n) = r
    BY <2>2, <2>4 DEF Ticks
  <2>6. QED
    BY <1>1, <2>1, <2>5 DEF Tick, Turn
<1>4. QED
  BY <1>2, <1>3

LEMMA UntilWell ==
  ASSUME Well, previous \in [Periodic -> Tick], NEW t \in Task, TaskDelayUntil(t)
  PROVE  Well' /\ previous' \in [Periodic -> Tick]
<1> DEFINE time == Ticks(previous[t] + Period)
<1>1. /\ t \in Periodic /\ MayBlock(t) /\ Goto(t, "resume")
      /\ previous' = [previous EXCEPT ![t] = time]
      /\ kernel' = IF ShouldDelay(kernel, previous[t], time)
                   THEN AddCurrentTaskToDelayedList(SuspendAll(kernel), time)
                   ELSE SuspendAll(kernel)
  BY DEF TaskDelayUntil
<1>2. time \in Tick /\ previous[t] \in Int
  <2>1. previous[t] \in Nat /\ Period \in Nat
    BY <1>1, KernelAssumption, TasksAssumption DEF Tick
  <2>2. PICK a \in Nat : a = previous[t] + Period
    BY <2>1
  <2>3. QED
    BY <2>1, <2>2, TicksAdd
<1> HIDE DEF time
<1>3. kernel.tickCount \in Tick /\ kernel.tickCount \in Int
  BY DEF Well, Good, Sound, Kept, Ahead, Tick
<1>4. CASE ~ShouldDelay(kernel, previous[t], time)
  <2>1. /\ Ticks(kernel.tickCount + 1) \in Tick /\ Ticks(kernel.tickCount + 1) # kernel.tickCount
    BY <1>3, KernelAssumption, WakeTime
  <2>2. QED
    BY <1>1, <1>2, <1>4, <2>1, DelayWell
<1>5. CASE ShouldDelay(kernel, previous[t], time)
  <2>1. time # kernel.tickCount
    BY <1>2, <1>3, <1>5 DEF ShouldDelay, Tick
  <2>2. QED
    BY <1>1, <1>2, <1>5, <2>1, DelayWell
<1>6. QED
  BY <1>4, <1>5

LEMMA StepWell ==
  ASSUME Well, previous \in [Periodic -> Tick], Next
  PROVE  Well' /\ previous' \in [Periodic -> Tick]
<1>1. /\ Good(kernel) /\ kernel.tickCount \in Tick
      /\ \A t \in Task : t \in AnyTask
  BY DEF Well, Good, Sound, Kept, Ahead, AnyTask
<1>2. ASSUME \/ \E u \in Task, p \in Priorities : MainCreate(u, p)
             \/ \E u \in Task : MainSuspend(u)
             \/ Start
      PROVE  Well' /\ previous' = previous
  BY <1>2, MainWell DEF MainCreate, MainSuspend, Start
<1>3. ASSUME NEW u \in Task, ResumeInterrupt(u)
      PROVE  Well' /\ previous' = previous
  BY <1>1, <1>3, ResumeIs, CallWell DEF ResumeInterrupt, Pass
<1>4. ASSUME TickInterrupt PROVE Well' /\ previous' = previous
  BY <1>1, <1>4, TickIs, CallWell DEF TickInterrupt, Pass
<1>5. CASE Kernel
  <2>1. ASSUME NEW t \in Task, EndDelay(t) \/ Yield(t) \/ TaskResumeAll(t)
        PROVE  Well' /\ previous' = previous
    BY <2>1, EndDelayWell, YieldWell, ResumeAllWell DEF EndDelay, Yield, TaskResumeAll, Pass
  <2>2. ASSUME IdleCheck \/ IdleResume \/ IdleReap \/ IdleYield
        PROVE  Well' /\ previous' = previous
    BY <2>2, IdleWell DEF IdleCheck, IdleResume, IdleReap, IdleYield, Pass
  <2>3. QED
    BY <1>5, <2>1, <2>2 DEF Kernel
<1>6. ASSUME NEW t \in Task, Call(t)
      PROVE  Well' /\ previous' \in [Periodic -> Tick]
  <2>1. ASSUME NEW u \in Task, NEW p \in Priorities, TaskCreate(t, u, p)
        PROVE  Well' /\ previous' \in [Periodic -> Tick]
    BY <1>1, <2>1, CreateWell DEF TaskCreate
  <2>2. ASSUME NEW u \in Task, NEW p \in Priorities, TaskPrioritySet(t, u, p)
        PROVE  Well' /\ previous' = previous
    <3>1. /\ kernel.running /\ u \in AnyTask /\ u # Idle /\ p \in Priority
          /\ kernel' = PrioritySet(kernel, u, p) /\ pc' = pc /\ previous' = previous
      BY <2>2, MayRuns, HandlesAre, TasksAssumption DEF TaskPrioritySet, Pass
    <3>2. Called(kernel, kernel')
      BY <1>1, <3>1, PrioritySetIs
    <3>3. QED
      BY <3>1, <3>2, CallWell
  <2>3. ASSUME NEW u \in Task, TaskDelete(t, u) \/ TaskSuspend(t, u)
        PROVE  Well' /\ previous' = previous
    BY <2>3, AsideWell DEF TaskDelete, TaskSuspend, Pass
  <2>4. ASSUME NEW u \in Task, TaskResume(t, u)
        PROVE  Well' /\ previous' = previous
    <3>1. /\ kernel.running /\ u \in AnyTask
          /\ kernel' = Resume(kernel, u) /\ pc' = pc /\ previous' = previous
      BY <1>1, <2>4, MayRuns DEF TaskResume, Pass
    <3>2. Called(kernel, kernel')
      BY <1>1, <3>1, ResumeIs
    <3>3. QED
      BY <3>1, <3>2, CallWell
  <2>5. ASSUME NEW n \in Delays, TaskDelay(t, n)
        PROVE  Well' /\ previous' = previous
    <3>1. /\ MayBlock(t) /\ Goto(t, "resume") /\ n \in 1 .. MaxDelay
          /\ kernel' = AddCurrentTaskToDelayedList(SuspendAll(kernel), Ticks(kernel.tickCount + n))
          /\ previous' = previous
      BY <2>5, TasksAssumption, KernelAssumption DEF TaskDelay, Pass, Tick
    <3>2. /\ Ticks(kernel.tickCount + n) \in Tick
          /\ Ticks(kernel.tickCount + n) # kernel.tickCount
      BY <1>1, <3>1, WakeTime
    <3>3. QED
      BY <3>1, <3>2, DelayWell
  <2>6. CASE TaskDelayUntil(t)
    BY <2>6, UntilWell
  <2>7. CASE TaskYield(t)
    <3>1. kernel.running /\ kernel' = YieldIf(TRUE, kernel) /\ pc' = pc /\ previous' = previous
      BY <2>7, MayRuns DEF TaskYield, MayBlock, Pass, YieldIf
    <3>2. Called(kernel, kernel')
      BY <1>1, <3>1, YieldIs
    <3>3. QED
      BY <3>1, <3>2, CallWell
  <2>8. CASE TaskSuspendAll(t)
    BY <2>8, SuspendAllWell DEF TaskSuspendAll, Pass
  <2>9. QED
    BY <1>6, <2>1, <2>2, <2>3, <2>4, <2>5, <2>6, <2>7, <2>8 DEF Call
<1>7. QED
  BY <1>2, <1>3, <1>4, <1>5, <1>6 DEF Next

LEMMA AlwaysWell == Spec => [](Well /\ previous \in [Periodic -> Tick])
<1> DEFINE Inv == Well /\ previous \in [Periodic -> Tick]
<1>1. Init => Inv
  <2>1. ASSUME Init PROVE Controlled(kernel, pc)
    BY <2>1 DEF Init, Controlled, BootKernel, AnyTask
  <2>2. ASSUME Init PROVE previous \in [Periodic -> Tick]
    BY <2>2, KernelAssumption DEF Init, Tick
  <2>3. QED
    BY <2>1, <2>2, BootIsGood DEF Init, Well
<1>2. Inv /\ [Next]_vars => Inv'
  <2>1. CASE Next
    BY <2>1, StepWell
  <2>2. CASE UNCHANGED vars
    BY <2>2 DEF vars, Well
  <2>3. QED
    BY <2>1, <2>2
<1>3. QED
  BY <1>1, <1>2, PTL DEF Spec

\* Lists and counters agree whatever the application calls and the handlers do.
THEOREM ListsAgree == Spec => []ListsInv
<1>1. Well => ListsInv
  <2> DEFINE k == kernel
             L == Lists(k)
             all == {k.ready[p] : p \in Priority}
                    \cup {k.delayed, k.overflow, k.pending, k.terminating}
  <2>1. SUFFICES ASSUME Well PROVE ListsInv
    OBVIOUS
  <2>2. /\ Tidy(k) /\ CountsAgree(k) /\ ToSet(k.pending) \subseteq k.suspended
    BY <2>1 DEF Well, Good, Sound, Kept
  <2>3. \A s \in all : IsInjective(s)
    BY <2>2 DEF Tidy, ReadyListsInv, Once
  <2>4. \A l, m \in DOMAIN L : l # m => L[l] \cap L[m] = {}
    <3>1. DOMAIN L = {"ready", "delayed", "overflow", "suspended", "terminating"}
      BY DEF Lists
    <3>2. L["ready"] = ReadyTasks(k)
      BY <2>2, CreatedAre
    <3>3. /\ L["delayed"] = ToSet(k.delayed) /\ L["overflow"] = ToSet(k.overflow)
          /\ L["suspended"] = k.suspended /\ L["terminating"] = ToSet(k.terminating)
      BY DEF Lists
    <3>4. /\ ToSet(k.delayed) \subseteq AnyTask /\ ToSet(k.overflow) \subseteq AnyTask
          /\ k.suspended \subseteq AnyTask
      BY <2>2, NothingInList DEF Tidy
    <3> HIDE DEF L, k
    <3>5. /\ ReadyTasks(k) \cap ToSet(k.delayed) = {} /\ ReadyTasks(k) \cap ToSet(k.overflow) = {}
          /\ ReadyTasks(k) \cap k.suspended = {} /\ ReadyTasks(k) \cap ToSet(k.terminating) = {}
      BY <2>2 DEF Tidy, Apart, ReadyTasks, Asleep, Blocked
    <3>6. /\ ToSet(k.delayed) \cap ToSet(k.overflow) = {} /\ ToSet(k.delayed) \cap k.suspended = {}
          /\ ToSet(k.delayed) \cap ToSet(k.terminating) = {}
          /\ ToSet(k.overflow) \cap k.suspended = {}
          /\ ToSet(k.overflow) \cap ToSet(k.terminating) = {}
          /\ k.suspended \cap ToSet(k.terminating) = {}
      BY <2>2, <3>4 DEF Tidy, Apart
    <3>7. QED
      BY <3>1, <3>2, <3>3, <3>5, <3>6
  <2>5. \A p \in Priority : \A t \in ToSet(k.ready[p]) : k.priority[t] = p /\ p <= k.topReady
    BY <2>2 DEF Tidy, ReadyListsInv
  <2>6. k.numberOfTasks = Cardinality(Created(k))
    BY <2>2, CreatedAre DEF CountsAgree
  <2>7. k.suspendDepth = 0 => k.missedTicks = 0 /\ k.pending = <<>> /\ ~k.missedYield
    BY <2>2 DEF CountsAgree
  <2>8. \A t \in ToSet(k.pending) : t \in k.suspended \cup Blocked(k)
    BY <2>2
  <2>9. k.tasksDeleted = Len(k.terminating)
    BY <2>2 DEF CountsAgree
  <2>10. QED
    BY <2>3, <2>4, <2>5, <2>6, <2>7, <2>8, <2>9 DEF ListsInv
<1>2. QED
  BY <1>1, AlwaysWell, PTL

\* Nobody ready is more urgent than the running task, except while the scheduler is
\* suspended: every call of task.h, every wake-up and every missed yield leads to
\* the switch it calls for.
THEOREM UrgentFirst == Spec => []MostUrgentRuns
<1>1. Well => MostUrgentRuns
  <2>1. SUFFICES ASSUME Well, kernel.running, kernel.suspendDepth = 0
        PROVE  /\ InReady(kernel, kernel.current) \/ pc[kernel.current] = "yield"
               /\ \A t \in Lists(kernel).ready :
                    kernel.priority[t] <= kernel.priority[kernel.current]
    BY DEF MostUrgentRuns
  <2>2. /\ Tidy(kernel) /\ Chosen(kernel) /\ ~kernel.missedYield
        /\ kernel.current \in AnyTask
    BY <2>1 DEF Well, Good, Sound, Kept, CountsAgree, Chosen
  <2>3. Foremost(kernel, kernel.current)
    BY <2>2, KernelAssumption DEF Chosen, AnyTask
  <2>4. pc[kernel.current] = "yield" \/ kernel.current \in ReadyTasks(kernel)
    BY <2>1, <2>2 DEF Well, Controlled
  <2>5. QED
    BY <2>2, <2>3, <2>4, CreatedAre DEF Foremost, ReadyTasks
<1>2. QED
  BY <1>1, AlwaysWell, PTL

-----------------------------------------------------------------------------
(* Delays *)

\* sleep is what the lists say, and behind is the distance of the tick count from the
\* last wake time, up to a whole turn.
Slept ==
  /\ sleep \in [Task -> 0 .. MaxDelay]
  /\ \A t \in Task : sleep[t] = Left(kernel, t)

Aged ==
  /\ previous \in [Periodic -> Tick] /\ behind \in [Periodic -> -MaxDelay .. MaxDelay + 1]
  /\ \A t \in Periodic : behind[t] <= MaxDelay =>
       \/ kernel.tickCount = previous[t] + behind[t]
       \/ kernel.tickCount = previous[t] + behind[t] + Turn
       \/ kernel.tickCount = previous[t] + behind[t] - Turn

Timely == Slept /\ Aged /\ kernel.missedTicks \in 0 .. MaxMissed

LEMMA ElapsedIs ==
  ASSUME kernel.tickCount \in Tick, NEW n \in 0 .. MaxDelay,
         kernel'.tickCount = Ticks(kernel.tickCount + n)
  PROVE  Elapsed = n
BY TickCounts DEF Elapsed

\* The times that are left go down with the ticks that are counted.
LEMMA SleptOn ==
  ASSUME NEW n \in 0 .. MaxDelay, Elapsed = n, NEW s \in [Task -> 0 .. MaxDelay], Counting(s),
         \A t \in Task : Left(kernel', t) = IF s[t] > n THEN s[t] - n ELSE 0
  PROVE  Slept'
<1>1. sleep' = [t \in Task |-> IF s[t] > n THEN s[t] - n ELSE 0]
  BY DEF Counting
<1>2. MaxDelay \in Nat
  BY KernelAssumption
<1>3. \A t \in Task : sleep'[t] \in 0 .. MaxDelay
  BY <1>1, <1>2
<1>4. QED
  BY <1>1, <1>3 DEF Slept

LEMMA AgedOn ==
  ASSUME Aged, kernel.tickCount \in Tick, NEW n \in 0 .. MaxDelay,
         kernel'.tickCount = Ticks(kernel.tickCount + n), Elapsed = n,
         Ageing(behind), UNCHANGED previous
  PROVE  Aged'
<1>1. MaxDelay \in Nat /\ MaxDelay \in Int /\ Turn = MaxDelay + 1 /\ n \in Int
  BY KernelAssumption DEF Turn
<1>2. ASSUME NEW t \in Periodic
      PROVE  behind'[t] = IF behind[t] + n <= MaxDelay + 1 THEN behind[t] + n ELSE MaxDelay + 1
  <2>1. behind'[t] = Min({behind[t] + n, MaxDelay + 1})
    BY DEF Ageing
  <2>2. behind[t] + n \in Int /\ MaxDelay + 1 \in Int
    BY <1>1 DEF Aged
  <2>3. QED
    BY <2>1, <2>2, MinOfTwo
<1>3. \/ kernel'.tickCount = kernel.tickCount + n
      \/ kernel'.tickCount = kernel.tickCount + n - Turn
  BY TickCounts
<1>4. kernel'.tickCount \in Tick
  BY <1>1, TickCounts DEF Tick
<1>5. behind' \in [Periodic -> -MaxDelay .. MaxDelay + 1]
  <2>1. ASSUME NEW t \in Periodic PROVE behind'[t] \in -MaxDelay .. MaxDelay + 1
    BY <1>1, <1>2 DEF Aged
  <2>2. QED
    BY <2>1 DEF Ageing
<1>6. ASSUME NEW t \in Periodic, behind'[t] <= MaxDelay
      PROVE  \/ kernel'.tickCount = previous[t] + behind'[t]
             \/ kernel'.tickCount = previous[t] + behind'[t] + Turn
             \/ kernel'.tickCount = previous[t] + behind'[t] - Turn
  <2>1. /\ behind[t] \in Int /\ behind[t] <= MaxDelay + 1 /\ previous[t] \in 0 .. MaxDelay
        /\ behind[t] <= MaxDelay =>
             \/ kernel.tickCount = previous[t] + behind[t]
             \/ kernel.tickCount = previous[t] + behind[t] + Turn
             \/ kernel.tickCount = previous[t] + behind[t] - Turn
    BY <1>1 DEF Aged, Tick
  <2>2. behind'[t] = behind[t] + n /\ behind[t] <= MaxDelay
    BY <1>1, <1>2, <1>6, <2>1
  <2>3. kernel.tickCount \in 0 .. MaxDelay /\ kernel'.tickCount \in 0 .. MaxDelay
    BY <1>4 DEF Tick
  <2>4. QED
    BY <1>1, <1>3, <1>6, <2>1, <2>2, <2>3
<1>7. QED
  BY <1>5, <1>6 DEF Aged

\* A call in which n ticks are counted and nobody starts or stops waiting.
LEMMA LapseTimely ==
  ASSUME Well, Timely, NEW n \in 0 .. MaxDelay, Lapse(kernel, kernel', n),
         kernel'.missedTicks \in 0 .. MaxMissed, Pass(sleep)
  PROVE  Timely'
<1>1. kernel.tickCount \in Tick
  BY DEF Well, Good, Sound, Kept, Ahead
<1>2. Elapsed = n /\ kernel'.tickCount = Ticks(kernel.tickCount + n)
  BY <1>1, ElapsedIs DEF Lapse
<1>3. \A t \in Task : Left(kernel', t) = IF sleep[t] > n THEN sleep[t] - n ELSE 0
  BY DEF Lapse, Passed, Timely, Slept, AnyTask
<1>4. Counting(sleep) /\ Ageing(behind) /\ UNCHANGED previous
  BY DEF Pass
<1>5. sleep \in [Task -> 0 .. MaxDelay] /\ Aged
  BY DEF Timely, Slept
<1>6. Slept'
  BY <1>2, <1>3, <1>4, <1>5, SleptOn
<1>7. Aged'
  BY <1>1, <1>2, <1>4, <1>5, AgedOn
<1>8. QED
  BY <1>6, <1>7 DEF Timely

\* No tick is counted, and the tasks wait for s.
LEMMA NoTick ==
  ASSUME Well, Timely, SameTime(kernel, kernel'), NEW s \in [Task -> 0 .. MaxDelay],
         \A t \in Task : Left(kernel', t) = s[t], Counting(s)
  PROVE  /\ 0 \in 0 .. MaxDelay /\ kernel.tickCount \in Tick
         /\ kernel'.tickCount = Ticks(kernel.tickCount + 0) /\ Elapsed = 0
         /\ kernel'.missedTicks \in 0 .. MaxMissed /\ Slept'
<1>1. 0 \in 0 .. MaxDelay /\ kernel.tickCount \in Tick
  BY KernelAssumption DEF Well, Good, Sound, Kept, Ahead
<1>2. kernel'.tickCount = Ticks(kernel.tickCount + 0)
  <2>1. kernel.tickCount \in Nat /\ kernel.tickCount + 0 = kernel.tickCount
    BY <1>1 DEF Tick
  <2>2. QED
    BY <1>1, <2>1, TicksAdd DEF SameTime
<1>3. Elapsed = 0
  BY <1>1, <1>2, ElapsedIs
<1>4. \A t \in Task : Left(kernel', t) = IF s[t] > 0 THEN s[t] - 0 ELSE 0
  <2>1. \A t \in Task : s[t] \in 0 .. MaxDelay
    OBVIOUS
  <2>2. \A x \in 0 .. MaxDelay : x = IF x > 0 THEN x - 0 ELSE 0
    BY KernelAssumption
  <2>3. QED
    BY <2>1, <2>2
<1>5. Slept'
  BY <1>1, <1>3, <1>4, SleptOn
<1>6. QED
  BY <1>1, <1>2, <1>3, <1>5 DEF Timely, SameTime

LEMMA SameTimely ==
  ASSUME Well, Timely, SameWaits(kernel, kernel'), Pass(sleep)
  PROVE  Timely'
<1>1. /\ SameTime(kernel, kernel') /\ sleep \in [Task -> 0 .. MaxDelay] /\ Aged
      /\ \A t \in Task : Left(kernel', t) = sleep[t]
  BY DEF SameWaits, Timely, Slept, AnyTask
<1>2. Counting(sleep) /\ Ageing(behind) /\ UNCHANGED previous
  BY DEF Pass
<1>3. /\ 0 \in 0 .. MaxDelay /\ kernel.tickCount \in Tick
      /\ kernel'.tickCount = Ticks(kernel.tickCount + 0) /\ Elapsed = 0
      /\ kernel'.missedTicks \in 0 .. MaxMissed /\ Slept'
  BY <1>1, <1>2, NoTick
<1>4. Aged'
  BY <1>1, <1>2, <1>3, AgedOn
<1>5. QED
  BY <1>3, <1>4 DEF Timely

\* main calls nothing that takes time, and no task waits yet.
LEMMA MainTimely ==
  ASSUME Well, Timely, SameWaits(kernel, kernel'), UNCHANGED <<previous, sleep, behind>>
  PROVE  Timely'
BY DEF Timely, Slept, Aged, SameWaits, SameTime, AnyTask

\* Whoever is suspended or deleted waits no more; nobody else is affected.
LEMMA AsideTimely ==
  ASSUME Well, Timely, NEW u \in Task, Aside(kernel, kernel', u), Pass(Awake(u))
  PROVE  Timely'
<1>1. /\ SameTime(kernel, kernel') /\ Awake(u) \in [Task -> 0 .. MaxDelay] /\ Aged
      /\ \A t \in Task : Left(kernel', t) = Awake(u)[t]
  BY KernelAssumption DEF Aside, Timely, Slept, AnyTask, Awake
<1>2. Counting(Awake(u)) /\ Ageing(behind) /\ UNCHANGED previous
  BY DEF Pass
<1>3. /\ 0 \in 0 .. MaxDelay /\ kernel.tickCount \in Tick
      /\ kernel'.tickCount = Ticks(kernel.tickCount + 0) /\ Elapsed = 0
      /\ kernel'.missedTicks \in 0 .. MaxMissed /\ Slept'
  BY <1>1, <1>2, NoTick
<1>4. Aged'
  BY <1>1, <1>2, <1>3, AgedOn
<1>5. QED
  BY <1>3, <1>4 DEF Timely

\* A new task has not called vTaskDelayUntil yet: its last wake time is now.
LEMMA CreateTimely ==
  ASSUME Well, Timely, NEW t \in Task, NEW u \in Task, NEW p \in Priorities, TaskCreate(t, u, p)
  PROVE  Timely'
<1>1. /\ Good(kernel) /\ kernel.running /\ kernel.current = t /\ t \in ReadyTasks(kernel)
      /\ u \in AnyTask /\ Tidy(kernel)
  BY MayRuns, KernelAssumption DEF Well, Good, Sound, Kept, TaskCreate, AnyTask
<1>2. u \notin All(kernel) /\ p \in Priority
  BY <1>1, CreatedAre, TasksAssumption DEF TaskCreate
<1>3. SameWaits(kernel, kernel')
  BY <1>1, <1>2, CreateIs DEF TaskCreate
<1>4. Slept' /\ kernel'.missedTicks \in 0 .. MaxMissed /\ kernel'.tickCount = kernel.tickCount
  BY <1>3 DEF SameWaits, SameTime, Timely, Slept, TaskCreate, AnyTask
<1>5. kernel.tickCount \in Tick /\ 0 \in -MaxDelay .. MaxDelay + 1 /\ kernel.tickCount \in Int
  BY KernelAssumption DEF Well, Good, Sound, Kept, Ahead, Tick
<1>6. Aged'
  <2>1. /\ previous' = [v \in Periodic |-> IF v = u THEN kernel.tickCount ELSE previous[v]]
        /\ behind' = [v \in Periodic |-> IF v = u THEN 0 ELSE behind[v]]
    BY DEF TaskCreate
  <2>2. ASSUME NEW v \in Periodic, behind'[v] <= MaxDelay
        PROVE  \/ kernel'.tickCount = previous'[v] + behind'[v]
               \/ kernel'.tickCount = previous'[v] + behind'[v] + Turn
               \/ kernel'.tickCount = previous'[v] + behind'[v] - Turn
    <3>1. CASE v = u
      BY <1>4, <1>5, <2>1, <3>1
    <3>2. CASE v # u
      BY <1>4, <2>1, <2>2, <3>2 DEF Timely, Aged
    <3>3. QED
      BY <3>1, <3>2
  <2>3. previous' \in [Periodic -> Tick] /\ behind' \in [Periodic -> -MaxDelay .. MaxDelay + 1]
    BY <1>5, <2>1 DEF Timely, Aged
  <2>4. QED
    BY <2>2, <2>3 DEF Aged
<1>7. QED
  BY <1>4, <1>6 DEF Timely

\* Nobody waits before the scheduler runs.
Rested == ~kernel.running => \A t \in Task : sleep[t] = 0

LEMMA MainStepTimely ==
  ASSUME Well, Timely, Rested,
         \/ \E u \in Task, p \in Priorities : MainCreate(u, p)
         \/ \E u \in Task : MainSuspend(u)
         \/ Start
  PROVE  Timely' /\ Rested'
<1>1. /\ Good(kernel) /\ Tidy(kernel) /\ ~kernel.running
      /\ UNCHANGED <<previous, sleep, behind>>
      /\ \A u \in Task : u \in AnyTask /\ u # Idle
  BY KernelAssumption DEF Well, Good, Sound, Kept, MainCreate, MainSuspend, Start, AnyTask
<1>2. Rested'
  BY <1>1 DEF Rested
<1>3. ASSUME NEW u \in Task, NEW p \in Priorities, MainCreate(u, p)
      PROVE  SameWaits(kernel, kernel')
  <2>1. kernel' = Create(kernel, u, p) /\ u \notin All(kernel) /\ p \in Priority
    BY <1>1, <1>3, CreatedAre, TasksAssumption DEF MainCreate
  <2>2. QED
    BY <1>1, <2>1, MainCreateIs
<1>4. ASSUME NEW u \in Task, MainSuspend(u)
      PROVE  SameWaits(kernel, kernel')
  <2> DEFINE l == Suspend(kernel, u)
  <2>1. u \in All(kernel) /\ u \notin ToSet(kernel.terminating)
    BY <1>4, HandlesAre DEF MainSuspend
  <2>2. Aside(kernel, l, u)
    BY <1>1, <2>1, SuspendMoves
  <2>3. /\ l.numberOfTasks > 1 => Lists(l).ready # {}
        /\ kernel' = IF u # kernel.current THEN l
                     ELSE IF l.numberOfTasks = 1 THEN [l EXCEPT !.current = NoTask]
                     ELSE SwitchContext(l)
    BY <1>4 DEF MainSuspend
  <2> HIDE DEF l
  <2>4. SameWaits(kernel, l)
    <3>1. Left(kernel, u) = 0
      BY <1>1 DEF Rested, Timely, Slept
    <3>2. QED
      BY <2>2, <3>1 DEF Aside, SameWaits
  <2>5. Lists(l).ready = ReadyTasks(l)
    BY <2>2, CreatedAre DEF Aside, Sound, Kept
  <2>6. l.numberOfTasks \in Nat \ {0}
    <3>1. u \in All(l) /\ IsFiniteSet(All(l)) /\ l.numberOfTasks = Cardinality(All(l))
      BY <2>1, <2>2, AllIsFinite DEF Aside, Sound, Kept, CountsAgree
    <3>2. QED
      BY <3>1, FS_CardinalityType, FS_EmptySet
  <2>7. CASE u # kernel.current
    BY <2>3, <2>4, <2>7
  <2>8. CASE u = kernel.current
    <3>1. \/ l.numberOfTasks = 1 /\ kernel' = [l EXCEPT !.current = NoTask]
          \/ ReadyTasks(l) # {} /\ kernel' = SwitchContext(l)
      BY <2>3, <2>5, <2>6, <2>8
    <3>2. SameWaits(l, kernel')
      BY <1>1, <2>1, <2>2, <2>8, <3>1, MainSuspendIs
    <3>3. QED
      BY <2>4, <3>2 DEF SameWaits, SameTime
  <2>9. QED
    BY <2>7, <2>8
<1>5. ASSUME Start PROVE SameWaits(kernel, kernel')
  <2>1. kernel' = StartScheduler(kernel)
    BY <1>5 DEF Start
  <2>2. QED
    BY <1>1, <2>1, StartIs
<1>6. SameWaits(kernel, kernel')
  BY <1>3, <1>4, <1>5
<1>7. QED
  BY <1>1, <1>2, <1>6, MainTimely

\* What is left of vTaskDelayUntil's period is what the task has to wait for.  How
\* far it is behind says whether it has to wait at all.
LEMMA UntilWaits ==
  ASSUME NEW tick \in Tick, NEW last \in Tick, NEW b \in -MaxDelay .. MaxDelay,
         Period - b <= MaxDelay, NEW k, k.tickCount = tick,
         tick = last + b \/ tick = last + b + Turn \/ tick = last + b - Turn
  PROVE  LET time == Ticks(last + Period)
         IN  /\ time \in Tick
             /\ \/ tick = time + (b - Period)
                \/ tick = time + (b - Period) + Turn
                \/ tick = time + (b - Period) - Turn
             /\ ShouldDelay(k, last, time) <=> b \in 0 .. Period - 1
             /\ b \in 0 .. Period - 1 =>
                  Period - b = IF time > tick THEN time - tick ELSE time + Turn - tick
<1>1. /\ MaxDelay \in Nat \ {0} /\ Period \in 0 .. MaxDelay /\ tick \in 0 .. MaxDelay
      /\ last \in 0 .. MaxDelay /\ b \in Int /\ -MaxDelay <= b /\ b <= MaxDelay
  BY KernelAssumption, TasksAssumption DEF Tick
<1>2. PICK m \in Nat \ {0} : m = MaxDelay + 1 /\ m = Turn /\ MaxDelay = m - 1
  BY <1>1 DEF Turn
<1> DEFINE time == Ticks(last + Period)
<1>3. /\ time \in 0 .. MaxDelay
      /\ time = last + Period \/ time = last + Period - m \/ time = last + Period - m - m
  <2>1. last + Period \in Int
    BY <1>1
  <2>2. PICK q \in Int, r \in 0 .. m - 1 : last + Period = m * q + r /\ r = (last + Period) % m
    BY <2>1, QuotientIs
  <2>3. time = r
    BY <1>2, <2>2 DEF Ticks
  <2>4. PICK e \in Int : e = m * q
    OBVIOUS
  <2>5. last + Period = e + r
    BY <2>2, <2>4
  <2>6. 0 <= last + Period /\ last + Period <= 3 * MaxDelay
    BY <1>1
  <2>7. q = 0 \/ q = 1 \/ q = 2
    <3>1. q >= 3 => e >= 3 * m
      BY <2>4
    <3>2. q <= -1 => e <= -m
      BY <2>4
    <3>3. QED
      BY <1>2, <2>5, <2>6, <3>1, <3>2
  <2>8. e = 0 \/ e = m \/ e = m + m
    BY <2>4, <2>7
  <2>9. QED
    BY <1>1, <1>2, <2>3, <2>5, <2>8
<1> HIDE DEF time
<1>4. ShouldDelay(k, last, time) <=>
        IF tick < last THEN time < last /\ time > tick ELSE time < last \/ time > tick
  BY DEF ShouldDelay
<1>5. tick = last + b \/ tick = last + b + m \/ tick = last + b - m
  BY <1>2
<1>6. \/ tick = time + (b - Period)
      \/ tick = time + (b - Period) + m
      \/ tick = time + (b - Period) - m
  BY <1>1, <1>2, <1>3, <1>5
<1>7. ShouldDelay(k, last, time) <=> b \in 0 .. Period - 1
  <2>1. b \in 0 .. Period - 1 <=> 0 <= b /\ b < Period
    BY <1>1
  <2>2. CASE tick = last + b
    BY <1>1, <1>2, <1>3, <1>4, <2>1, <2>2
  <2>3. CASE tick = last + b + m
    BY <1>1, <1>2, <1>3, <1>4, <2>1, <2>3
  <2>4. CASE tick = last + b - m
    BY <1>1, <1>2, <1>3, <1>4, <2>1, <2>4
  <2>5. QED
    BY <1>5, <2>2, <2>3, <2>4
<1>8. ASSUME b \in 0 .. Period - 1
      PROVE  Period - b = IF time > tick THEN time - tick ELSE time + m - tick
  BY <1>1, <1>2, <1>3, <1>5, <1>8
<1>9. QED
  BY <1>1, <1>2, <1>3, <1>6, <1>7, <1>8 DEF time, Tick

\* The caller of a delay of n ticks waits for n ticks.
LEMMA DelayTimely ==
  ASSUME Well, Timely, NEW t \in Task, NEW n \in Delays, TaskDelay(t, n)
  PROVE  Timely' /\ kernel'.running
<1> DEFINE time == Ticks(kernel.tickCount + n)
<1>1. /\ Good(kernel) /\ kernel.running /\ kernel.suspendDepth = 0 /\ kernel.current = t
      /\ t \in ReadyTasks(kernel) /\ t # Idle /\ t \in AnyTask
  BY MayRuns DEF Well, TaskDelay, MayBlock
<1>2. n \in 1 .. MaxDelay /\ n \in 0 .. MaxDelay /\ kernel.tickCount \in Tick
  BY KernelAssumption, TasksAssumption
  DEF Well, Good, Sound, Kept, Ahead, TaskDelay, Tick
<1>3. /\ kernel' = AddCurrentTaskToDelayedList(SuspendAll(kernel), time)
      /\ Pass([sleep EXCEPT ![t] = n])
  BY DEF TaskDelay
<1>4. /\ time \in Tick /\ time # kernel.tickCount
      /\ n = IF time > kernel.tickCount THEN time - kernel.tickCount
             ELSE time + Turn - kernel.tickCount
  BY <1>2, WakeTime
<1> HIDE DEF time
<1>5. /\ kernel'.running = kernel.running /\ SameTime(kernel, kernel')
      /\ \A u \in AnyTask \ {t} : Left(kernel', u) = Left(kernel, u)
      /\ Left(kernel', t) = IF time > kernel.tickCount THEN time - kernel.tickCount
                            ELSE time + Turn - kernel.tickCount
  BY <1>1, <1>3, <1>4, DelayIs
<1> DEFINE s == [sleep EXCEPT ![t] = n]
<1>6. /\ s \in [Task -> 0 .. MaxDelay] /\ Aged
      /\ \A u \in Task : Left(kernel', u) = s[u]
  BY <1>2, <1>4, <1>5 DEF Timely, Slept, AnyTask
<1>7. Counting(s) /\ Ageing(behind) /\ UNCHANGED previous
  BY <1>3 DEF Pass
<1> HIDE DEF s
<1>8. /\ 0 \in 0 .. MaxDelay /\ kernel.tickCount \in Tick
      /\ kernel'.tickCount = Ticks(kernel.tickCount + 0) /\ Elapsed = 0
      /\ kernel'.missedTicks \in 0 .. MaxMissed /\ Slept'
  BY <1>5, <1>6, <1>7, NoTick
<1>9. Aged'
  BY <1>6, <1>7, <1>8, AgedOn
<1>10. QED
  BY <1>1, <1>5, <1>8, <1>9 DEF Timely

LEMMA UntilTimely ==
  ASSUME Well, Timely, NEW t \in Task, TaskDelayUntil(t)
  PROVE  Timely' /\ kernel'.running
<1> DEFINE last == previous[t]
           b == behind[t]
           time == Ticks(last + Period)
<1>1. /\ Good(kernel) /\ kernel.running /\ kernel.suspendDepth = 0 /\ kernel.current = t
      /\ t \in ReadyTasks(kernel) /\ t # Idle /\ t \in AnyTask
  BY MayRuns DEF Well, TaskDelayUntil, MayBlock
<1>2. /\ t \in Periodic /\ b <= MaxDelay /\ Period - b <= MaxDelay
      /\ previous' = [previous EXCEPT ![t] = time]
      /\ kernel' = IF ShouldDelay(kernel, last, time)
                   THEN AddCurrentTaskToDelayedList(SuspendAll(kernel), time)
                   ELSE SuspendAll(kernel)
      /\ sleep' = [sleep EXCEPT ![t] = IF b \in 0 .. Period - 1 THEN Period - b ELSE 0]
      /\ behind' = [behind EXCEPT ![t] = b - Period]
  BY DEF TaskDelayUntil
<1>3. /\ kernel.tickCount \in Tick /\ last \in Tick /\ b \in -MaxDelay .. MaxDelay
      /\ \/ kernel.tickCount = last + b
         \/ kernel.tickCount = last + b + Turn
         \/ kernel.tickCount = last + b - Turn
  BY <1>2, KernelAssumption DEF Well, Good, Sound, Kept, Ahead, Timely, Aged
<1> HIDE DEF last, b
<1>4. /\ time \in Tick
      /\ \/ kernel.tickCount = time + (b - Period)
         \/ kernel.tickCount = time + (b - Period) + Turn
         \/ kernel.tickCount = time + (b - Period) - Turn
      /\ ShouldDelay(kernel, last, time) <=> b \in 0 .. Period - 1
      /\ b \in 0 .. Period - 1 =>
           Period - b = IF time > kernel.tickCount THEN time - kernel.tickCount
                        ELSE time + Turn - kernel.tickCount
  BY <1>2, <1>3, UntilWaits
<1> HIDE DEF time
<1>5. /\ Period \in 0 .. MaxDelay /\ MaxDelay \in Nat /\ b \in Int
      /\ time \in 0 .. MaxDelay /\ kernel.tickCount \in 0 .. MaxDelay /\ Turn = MaxDelay + 1
  BY <1>3, <1>4, KernelAssumption, TasksAssumption DEF Tick, Turn
<1>6. /\ SameTime(kernel, kernel') /\ kernel'.running
      /\ \A u \in Task : Left(kernel', u) = sleep'[u]
      /\ sleep'[t] \in 0 .. MaxDelay
  <2>1. \A u \in Task : sleep[u] = Left(kernel, u) /\ u \in AnyTask
    BY DEF Timely, Slept, AnyTask
  <2>2. sleep'[t] = IF b \in 0 .. Period - 1 THEN Period - b ELSE 0
    BY <1>2 DEF Timely, Slept
  <2>3. \A u \in Task \ {t} : sleep'[u] = sleep[u]
    BY <1>2 DEF Timely, Slept
  <2>4. CASE b \in 0 .. Period - 1
    <3>1. time # kernel.tickCount
      BY <1>3, <1>4, <1>5, <2>4
    <3>2. kernel' = AddCurrentTaskToDelayedList(SuspendAll(kernel), time)
      BY <1>2, <1>4, <2>4
    <3>3. /\ kernel'.running = kernel.running /\ SameTime(kernel, kernel')
          /\ \A u \in AnyTask \ {t} : Left(kernel', u) = Left(kernel, u)
          /\ Left(kernel', t) = IF time > kernel.tickCount THEN time - kernel.tickCount
                                ELSE time + Turn - kernel.tickCount
      BY <1>1, <1>4, <3>1, <3>2, DelayIs
    <3>4. Left(kernel', t) = sleep'[t] /\ sleep'[t] \in 0 .. MaxDelay
      BY <1>4, <1>5, <2>2, <2>4, <3>3
    <3>5. QED
      BY <1>1, <2>1, <2>3, <3>3, <3>4
  <2>5. CASE ~ (b \in 0 .. Period - 1)
    <3>1. kernel' = SuspendAll(kernel)
      BY <1>2, <1>4, <2>5
    <3>2. SameWaits(kernel, kernel') /\ kernel'.running = kernel.running
      BY <1>1, <3>1, SuspendAllIs
    <3>3. Left(kernel, t) = 0
      <4>1. Kept(kernel) /\ t \notin Blocked(kernel)
        BY <1>1 DEF Good, Sound, Kept, Tidy, Apart, ReadyTasks, Asleep
      <4>2. QED
        BY <1>1, <4>1, TimeLeft
    <3>4. QED
      BY <1>1, <1>5, <2>1, <2>2, <2>3, <2>5, <3>2, <3>3 DEF SameWaits
  <2>6. QED
    BY <2>4, <2>5
<1>7. Slept' /\ kernel'.missedTicks \in 0 .. MaxMissed /\ kernel'.tickCount = kernel.tickCount
  BY <1>2, <1>6 DEF Timely, Slept, SameTime
<1>8. Aged'
  <2>1. b - Period \in -MaxDelay .. MaxDelay + 1
    BY <1>2, <1>3, <1>5
  <2>2. /\ previous' \in [Periodic -> Tick] /\ behind' \in [Periodic -> -MaxDelay .. MaxDelay + 1]
        /\ previous'[t] = time /\ behind'[t] = b - Period
    BY <1>2, <1>4, <2>1 DEF Timely, Aged
  <2>3. ASSUME NEW v \in Periodic, behind'[v] <= MaxDelay
        PROVE  \/ kernel'.tickCount = previous'[v] + behind'[v]
               \/ kernel'.tickCount = previous'[v] + behind'[v] + Turn
               \/ kernel'.tickCount = previous'[v] + behind'[v] - Turn
    <3>1. CASE v = t
      BY <1>4, <1>7, <2>2, <3>1
    <3>2. CASE v # t
      BY <1>2, <1>7, <2>3, <3>2 DEF Timely, Aged
    <3>3. QED
      BY <3>1, <3>2
  <2>4. QED
    BY <2>2, <2>3 DEF Aged
<1>9. QED
  BY <1>6, <1>7, <1>8 DEF Timely

\* The ticks that were missed are over with the last xTaskResumeAll.
LEMMA ResumeAllTimely ==
  ASSUME Well, Timely, kernel.running, kernel.suspendDepth > 0,
         kernel' = ResumeAll(kernel), Pass(sleep)
  PROVE  Timely' /\ kernel'.running
<1>1. /\ kernel'.running = kernel.running
      /\ \/ kernel.suspendDepth # 1 /\ SameWaits(kernel, kernel')
         \/ /\ kernel.suspendDepth = 1 /\ kernel'.tickCount = Clock(kernel)
            /\ kernel'.missedTicks = 0 /\ Passed(kernel, kernel', kernel.missedTicks)
  BY ResumeAllIs DEF Well
<1>2. CASE SameWaits(kernel, kernel')
  BY <1>1, <1>2, SameTimely
<1>3. CASE /\ kernel'.tickCount = Clock(kernel) /\ kernel'.missedTicks = 0
           /\ Passed(kernel, kernel', kernel.missedTicks)
  <2>1. PICK n \in 0 .. MaxDelay : n = kernel.missedTicks
    BY KernelAssumption, TasksAssumption DEF Timely, Tick
  <2>2. Lapse(kernel, kernel', n)
    BY <1>3, <2>1 DEF Lapse, Clock
  <2>3. kernel'.missedTicks \in 0 .. MaxMissed
    BY <1>3, KernelAssumption, TasksAssumption DEF Tick
  <2>4. QED
    BY <1>1, <2>2, <2>3, LapseTimely
<1>4. QED
  BY <1>1, <1>2, <1>3

LEMMA TickTimely ==
  ASSUME Well, Timely, TickInterrupt
  PROVE  Timely' /\ kernel'.running
<1>1. /\ Good(kernel) /\ Kept(kernel) /\ kernel.running /\ kernel.missedTicks < MaxMissed
      /\ kernel' = SwitchContext(IncrementTick(kernel)) /\ Pass(sleep)
  BY DEF TickInterrupt, Well, Good, Sound
<1>2. /\ Called(kernel, kernel')
      /\ \/ /\ kernel.suspendDepth > 0 /\ Later(kernel, kernel')
            /\ \A t \in AnyTask : Left(kernel', t) = Left(kernel, t)
         \/ /\ ~ (kernel.suspendDepth > 0) /\ Sooner(kernel, kernel')
            /\ Passed(kernel, kernel', 1)
  BY <1>1, TickIs
<1>3. /\ MaxDelay \in Nat \ {0} /\ MaxMissed \in Nat /\ 0 \in 0 .. MaxDelay /\ 1 \in 0 .. MaxDelay
      /\ kernel.missedTicks \in 0 .. MaxMissed
  BY KernelAssumption, TasksAssumption DEF Tick, Timely
<1>4. CASE /\ Later(kernel, kernel')
           /\ \A t \in AnyTask : Left(kernel', t) = Left(kernel, t)
  <2>1. kernel.tickCount \in Tick /\ kernel.tickCount \in Nat
    BY <1>1, KernelAssumption DEF Kept, Ahead, Tick
  <2>2. kernel'.tickCount = Ticks(kernel.tickCount + 0)
    <3>1. kernel.tickCount + 0 = kernel.tickCount
      BY <2>1
    <3>2. QED
      BY <1>4, <2>1, <3>1, TicksAdd DEF Later
  <2>3. Passed(kernel, kernel', 0)
    <3>1. ASSUME NEW t \in AnyTask
          PROVE  Left(kernel', t) = IF Left(kernel, t) > 0 THEN Left(kernel, t) - 0 ELSE 0
      <4>1. Left(kernel, t) \in Nat
        BY <1>1, TimeLeft
      <4>2. PICK n \in Nat : n = Left(kernel, t)
        BY <4>1
      <4>3. n = IF n > 0 THEN n - 0 ELSE 0
        OBVIOUS
      <4>4. QED
        BY <1>4, <4>2, <4>3
    <3>2. QED
      BY <3>1 DEF Passed
  <2>4. kernel'.missedTicks \in 0 .. MaxMissed
    BY <1>1, <1>3, <1>4 DEF Later
  <2>5. Timely'
    BY <1>1, <1>3, <2>2, <2>3, <2>4, LapseTimely DEF Lapse
  <2>6. QED
    BY <1>1, <1>2, <2>5 DEF Called
<1>5. CASE Sooner(kernel, kernel') /\ Passed(kernel, kernel', 1)
  <2>1. Lapse(kernel, kernel', 1) /\ kernel'.missedTicks \in 0 .. MaxMissed
    BY <1>3, <1>5 DEF Lapse, Sooner
  <2>2. Timely'
    BY <1>1, <1>3, <2>1, LapseTimely
  <2>3. QED
    BY <1>1, <1>2, <2>2 DEF Called
<1>6. QED
  BY <1>2, <1>4, <1>5

LEMMA StepTimely ==
  ASSUME Well, Timely, Rested, Next
  PROVE  Timely' /\ Rested'
<1>1. Good(kernel) /\ \A t \in Task : t \in AnyTask /\ t # Idle
  BY KernelAssumption DEF Well, AnyTask
<1>2. ASSUME \/ \E u \in Task, p \in Priorities : MainCreate(u, p)
             \/ \E u \in Task : MainSuspend(u)
             \/ Start
      PROVE  Timely' /\ Rested'
  BY <1>2, MainStepTimely
<1>3. ASSUME NEW u \in Task, ResumeInterrupt(u)
      PROVE  Timely' /\ kernel'.running
  <2>1. kernel.running /\ kernel' = ResumeFromISR(kernel, u) /\ Pass(sleep)
    BY <1>3 DEF ResumeInterrupt
  <2>2. Called(kernel, kernel') /\ SameWaits(kernel, kernel')
    BY <1>1, <2>1, ResumeIs
  <2>3. QED
    BY <2>1, <2>2, SameTimely DEF Called
<1>4. ASSUME NEW t \in Task, EndDelay(t) \/ TaskResumeAll(t)
      PROVE  Timely' /\ kernel'.running
  <2>1. kernel' = ResumeAll(kernel) /\ Pass(sleep)
    BY <1>4 DEF EndDelay, TaskResumeAll
  <2>2. kernel.running /\ kernel.suspendDepth > 0
    BY <1>1, <1>4, MayRuns DEF EndDelay, TaskResumeAll, Well, Controlled
  <2>3. QED
    BY <2>1, <2>2, ResumeAllTimely
<1>5. ASSUME NEW t \in Task, NEW yields \in BOOLEAN, kernel.running,
             kernel' = YieldIf(yields, kernel), Pass(sleep)
      PROVE  Timely' /\ kernel'.running
  <2>1. Called(kernel, kernel') /\ SameWaits(kernel, kernel')
    BY <1>1, <1>5, YieldIs
  <2>2. QED
    BY <1>5, <2>1, SameTimely DEF Called
<1>6. ASSUME NEW t \in Task, Yield(t) \/ TaskYield(t)
      PROVE  Timely' /\ kernel'.running
  <2>1. kernel' = YieldIf(TRUE, kernel) /\ Pass(sleep)
    BY <1>6 DEF Yield, TaskYield, YieldIf
  <2>2. kernel.running
    BY <1>1, <1>6, MayRuns DEF Yield, TaskYield, MayBlock, Well, Controlled
  <2>3. QED
    BY <1>5, <2>1, <2>2
<1>7. CASE IdleCheck \/ IdleResume \/ IdleReap \/ IdleYield
  <2>1. kernel.current = Idle
    BY <1>7 DEF IdleCheck, IdleResume, IdleReap, IdleYield, Runs
  <2>2. /\ Controlled(kernel, pc)
        /\ kernel.running => Idle \in ReadyTasks(kernel)
        /\ pc[Idle] # "run" => kernel.running
        /\ pc[Idle] = "resume" => kernel.suspendDepth = 1
    BY <2>1, IdleIs
  <2>3. CASE IdleCheck
    <3>1. kernel.running /\ kernel' = SuspendAll(kernel) /\ Pass(sleep)
      BY <2>3 DEF IdleCheck, Runs
    <3>2. SameWaits(kernel, kernel') /\ kernel'.running = kernel.running
      BY <1>1, <3>1, SuspendAllIs
    <3>3. QED
      BY <3>1, <3>2, SameTimely DEF Rested
  <2>4. CASE IdleResume
    <3>1. kernel' = ResumeAll(kernel) /\ Pass(sleep) /\ kernel.running /\ kernel.suspendDepth > 0
      BY <2>2, <2>4 DEF IdleResume
    <3>2. QED
      BY <3>1, ResumeAllTimely DEF Rested
  <2>5. CASE IdleReap
    <3>1. /\ kernel' = Reap(kernel) /\ Pass(sleep) /\ kernel.running
          /\ kernel.terminating # <<>> /\ kernel.current \in ReadyTasks(kernel)
      BY <2>1, <2>2, <2>5 DEF IdleReap, Controlled
    <3>2. SameWaits(kernel, kernel') /\ kernel'.running = kernel.running
      BY <1>1, <3>1, ReapIs
    <3>3. QED
      BY <3>1, <3>2, SameTimely DEF Rested
  <2>6. CASE IdleYield
    <3> DEFINE yields == Len(kernel.ready[0]) > 1
    <3>1. kernel.running /\ kernel' = YieldIf(yields, kernel) /\ Pass(sleep)
      BY <2>6 DEF IdleYield
    <3>2. yields \in BOOLEAN
      OBVIOUS
    <3> HIDE DEF yields
    <3>3. Called(kernel, kernel') /\ SameWaits(kernel, kernel')
      BY <1>1, <3>1, <3>2, YieldIs
    <3>4. QED
      BY <3>1, <3>3, SameTimely DEF Called, Rested
  <2>7. QED
    BY <1>7, <2>3, <2>4, <2>5, <2>6
<1>8. ASSUME NEW t \in Task, Call(t)
      PROVE  Timely' /\ kernel'.running
  <2>1. ASSUME NEW u \in Task, NEW p \in Priorities, TaskCreate(t, u, p)
        PROVE  Timely' /\ kernel'.running
    <3>1. Tidy(kernel) /\ kernel.running /\ kernel.current \in ReadyTasks(kernel) /\ p \in Priority
      BY <2>1, MayRuns, TasksAssumption DEF TaskCreate, Well, Good, Sound, Kept
    <3>2. kernel' = Create(kernel, u, p) /\ u \notin All(kernel)
      BY <2>1, <3>1, CreatedAre DEF TaskCreate
    <3>3. Called(kernel, kernel')
      BY <1>1, <3>1, <3>2, CreateIs
    <3>4. QED
      BY <2>1, <3>1, <3>3, CreateTimely DEF Called
  <2>2. ASSUME NEW u \in Task, NEW p \in Priorities, TaskPrioritySet(t, u, p)
        PROVE  Timely' /\ kernel'.running
    <3>1. /\ kernel.running /\ p \in Priority
          /\ kernel' = PrioritySet(kernel, u, p) /\ Pass(sleep)
      BY <2>2, MayRuns, TasksAssumption DEF TaskPrioritySet
    <3>2. Called(kernel, kernel') /\ SameWaits(kernel, kernel')
      BY <1>1, <3>1, PrioritySetIs
    <3>3. QED
      BY <3>1, <3>2, SameTimely DEF Called
  <2>3. ASSUME NEW u \in Task, TaskDelete(t, u) \/ TaskSuspend(t, u)
        PROVE  Timely' /\ kernel'.running
    <3>1. /\ kernel.running /\ Pass(Awake(u))
          /\ u \in All(kernel) /\ u \notin ToSet(kernel.terminating)
      BY <2>3, MayRuns, HandlesAre DEF TaskDelete, TaskSuspend
    <3>2. Aside(kernel, kernel', u)
      BY <1>1, <2>3, <3>1, SuspendMoves DEF TaskDelete, TaskSuspend
    <3>3. QED
      BY <3>1, <3>2, AsideTimely DEF Aside
  <2>4. ASSUME NEW u \in Task, TaskResume(t, u)
        PROVE  Timely' /\ kernel'.running
    <3>1. kernel.running /\ kernel' = Resume(kernel, u) /\ Pass(sleep)
      BY <2>4, MayRuns DEF TaskResume
    <3>2. Called(kernel, kernel') /\ SameWaits(kernel, kernel')
      BY <1>1, <3>1, ResumeIs
    <3>3. QED
      BY <3>1, <3>2, SameTimely DEF Called
  <2>5. ASSUME NEW n \in Delays, TaskDelay(t, n) PROVE Timely' /\ kernel'.running
    BY <2>5, DelayTimely
  <2>6. ASSUME TaskDelayUntil(t) PROVE Timely' /\ kernel'.running
    BY <2>6, UntilTimely
  <2>7. ASSUME TaskSuspendAll(t) PROVE Timely' /\ kernel'.running
    <3>1. kernel.running /\ kernel' = SuspendAll(kernel) /\ Pass(sleep)
      BY <2>7, MayRuns DEF TaskSuspendAll
    <3>2. SameWaits(kernel, kernel') /\ kernel'.running = kernel.running
      BY <1>1, <3>1, SuspendAllIs
    <3>3. QED
      BY <3>1, <3>2, SameTimely
  <2>8. QED
    BY <1>6, <1>8, <2>1, <2>2, <2>3, <2>4, <2>5, <2>6, <2>7 DEF Call
<1>9. QED
  BY <1>2, <1>3, <1>4, <1>6, <1>7, <1>8, TickTimely DEF Next, Kernel, Rested

\* A task waits exactly as long as the ticks it has asked for are not counted.
THEOREM DelaysAreExact == Spec => []SleepsExactly
<1> DEFINE Inv == Timely /\ Rested
<1>1. Init => Inv
  <2>1. SUFFICES ASSUME Init PROVE Inv
    OBVIOUS
  <2>2. /\ kernel = BootKernel /\ previous = [t \in Periodic |-> 0]
        /\ sleep = [t \in Task |-> 0] /\ behind = [t \in Periodic |-> 0]
    BY <2>1 DEF Init
  <2>3. /\ MaxDelay \in Nat /\ MaxMissed \in Nat
        /\ kernel.tickCount = 0 /\ kernel.missedTicks = 0
        /\ kernel.delayed = <<>> /\ kernel.overflow = <<>>
    BY <2>2, KernelAssumption, TasksAssumption DEF BootKernel, Tick
  <2>4. \A t \in Task : Left(kernel, t) = 0
    BY <2>3, EmptyOnce DEF Left
  <2>5. Slept /\ Rested
    BY <2>2, <2>3, <2>4 DEF Slept, Rested
  <2>6. Aged
    BY <2>2, <2>3 DEF Aged, Tick
  <2>7. QED
    BY <2>3, <2>5, <2>6 DEF Timely
<1>2. Well /\ Inv /\ [Next]_vars => Inv'
  <2>1. CASE Next
    BY <2>1, StepTimely
  <2>2. CASE UNCHANGED vars
    BY <2>2 DEF vars, Timely, Slept, Aged, Rested
  <2>3. QED
    BY <2>1, <2>2
<1>3. Well /\ Inv => SleepsExactly
  BY TimeLeft DEF Well, Good, Sound, Timely, Slept, SleepsExactly, AnyTask
<1>4. QED
  BY <1>1, <1>2, <1>3, AlwaysWell, PTL DEF Spec
=============================================================================
