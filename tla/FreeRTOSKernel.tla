--------------------------- MODULE FreeRTOSKernel ---------------------------
(***************************************************************************)
(* The scheduler of FreeRTOS V7.0.0 (Ex4/thirdparty/freertos/source,       *)
(* tasks.c and list.c) as operators on its state.  A kernel k is a record  *)
(* of the static variables of tasks.c; an operator maps it to the kernel   *)
(* after a section that runs with interrupts disabled.                     *)
(*                                                                         *)
(* A ready list is walked with pxIndex, and an insertion at the end makes  *)
(* the new item the last one to be reached by that walk: the list is the   *)
(* sequence of its tasks in the order in which they are next served.       *)
(***************************************************************************)
EXTENDS Integers, SequencesExt, FiniteSetsExt

CONSTANTS
  Task,         \* the tasks an application creates
  Idle,         \* the idle task
  NoTask,       \* pxCurrentTCB == NULL
  Event,        \* event lists: who waits for data, for space, ...
  MaxPriority,  \* configMAX_PRIORITIES - 1
  MaxDelay,     \* portMAX_DELAY, the largest tick count
  Wraps         \* the number of values of xNumOfOverflows

ASSUME KernelAssumption ==
  /\ IsFiniteSet(Task) /\ Idle \notin Task /\ NoTask \notin Task \cup {Idle}
  /\ MaxPriority \in Nat /\ MaxDelay \in Nat \ {0} /\ Wraps \in Nat \ {0}

AnyTask == Task \cup {Idle}
Priority == 0 .. MaxPriority
Tick == 0 .. MaxDelay
Ticks(n) == n % (MaxDelay + 1)          \* the tick count wraps

BootKernel ==
  [current |-> NoTask,                  \* pxCurrentTCB
   running |-> FALSE,                   \* xSchedulerRunning
   ready |-> [p \in Priority |-> <<>>], \* pxReadyTasksLists
   delayed |-> <<>>,                    \* pxDelayedTaskList, by wake time
   overflow |-> <<>>,                   \* pxOverflowDelayedTaskList
   pending |-> <<>>,                    \* xPendingReadyList
   suspended |-> {},                    \* xSuspendedTaskList
   terminating |-> <<>>,                \* xTasksWaitingTermination
   event |-> [e \in Event |-> <<>>],    \* the event lists of queues
   priority |-> [t \in AnyTask |-> 0],  \* uxPriority
   base |-> [t \in AnyTask |-> 0],      \* uxBasePriority
   urgency |-> [t \in AnyTask |-> 0],   \* the value of xEventListItem, counted from its top
   wake |-> [t \in AnyTask |-> 0],      \* xItemValue of xGenericListItem
   numberOfTasks |-> 0, tasksDeleted |-> 0,
   tickCount |-> 0, nextUnblock |-> MaxDelay, numOfOverflows |-> 0,
   topReady |-> 0,                      \* uxTopReadyPriority
   suspendDepth |-> 0,                  \* uxSchedulerSuspended
   missedTicks |-> 0, missedYield |-> FALSE]

-----------------------------------------------------------------------------
(* list.c *)

ListRemove(s, t) ==
  IF t \in ToSet(s) THEN RemoveAt(s, CHOOSE i \in DOMAIN s : s[i] = t) ELSE s

\* vListInsert: before the first of the items that go after t.
ListInsert(s, t, after) ==
  LET before == {i \in DOMAIN s : \A j \in 1 .. i : s[j] \notin after}
  IN  InsertAt(s, Cardinality(before) + 1, t)

-----------------------------------------------------------------------------
(* tasks.c *)

InReady(k, t) == t \in ToSet(k.ready[k.priority[t]])
InEvent(k, t) == \E e \in Event : t \in ToSet(k.event[e])
Blocked(k) == ToSet(k.delayed) \cup ToSet(k.overflow)

\* The item value is read only in the delayed lists: elsewhere it is 0.
RemoveGeneric(k, t) ==
  [k EXCEPT !.wake[t] = 0,
            !.ready = [p \in Priority |-> ListRemove(@[p], t)],
            !.delayed = ListRemove(@, t), !.overflow = ListRemove(@, t),
            !.suspended = @ \ {t}, !.terminating = ListRemove(@, t)]

\* The event item is in an event list, or in the list of pending ready tasks.
RemoveEvent(k, t) ==
  [k EXCEPT !.event = [e \in Event |-> ListRemove(@[e], t)],
            !.pending = ListRemove(@, t)]

AddTaskToReadyQueue(k, t) ==
  [k EXCEPT !.topReady = IF k.priority[t] > @ THEN k.priority[t] ELSE @,
            !.ready[k.priority[t]] = Append(@, t)]

\* The tasks of s become ready, one after the other.
MakeReady(k, s) ==
  LET after[n \in 0 .. Len(s)] ==
        IF n = 0 THEN k
        ELSE AddTaskToReadyQueue(RemoveGeneric(RemoveEvent(after[n - 1], s[n]), s[n]), s[n])
  IN  after[Len(s)]

\* The next task of the highest priority that has ready tasks.
SwitchContext(k) ==
  IF k.suspendDepth > 0 THEN [k EXCEPT !.missedYield = TRUE] ELSE
  LET top == Max({p \in 0 .. k.topReady : k.ready[p] # <<>>})
  IN  [k EXCEPT !.topReady = top, !.current = Head(k.ready[top]),
                !.ready[top] = Append(Tail(@), Head(@))]

\* The list is in wake time order, but its head may be due later than
\* xNextTaskUnblockTime says.
CheckDelayedTasks(k) ==
  IF k.tickCount < k.nextUnblock THEN k ELSE
  LET due == {i \in DOMAIN k.delayed :
                \A j \in 1 .. i : k.wake[k.delayed[j]] <= k.tickCount}
      l == MakeReady(k, SubSeq(k.delayed, 1, Cardinality(due)))
  IN  [l EXCEPT !.nextUnblock =
                  IF l.delayed = <<>> THEN MaxDelay ELSE l.wake[Head(l.delayed)]]

\* A faulty variant: the two lists do not change places when the count wraps.
IncrementTick_noSwap(k) ==
  IF k.suspendDepth > 0 THEN [k EXCEPT !.missedTicks = @ + 1] ELSE
  CheckDelayedTasks([k EXCEPT !.tickCount = Ticks(@ + 1)])

IncrementTick(k) ==
  IF k.suspendDepth > 0 THEN [k EXCEPT !.missedTicks = @ + 1] ELSE
  LET l == [k EXCEPT !.tickCount = Ticks(@ + 1)]
      m == [l EXCEPT !.delayed = l.overflow, !.overflow = l.delayed,
                     !.numOfOverflows = (@ + 1) % Wraps,
                     !.nextUnblock = IF l.overflow = <<>> THEN MaxDelay
                                     ELSE l.wake[Head(l.overflow)]]
  IN  CheckDelayedTasks(IF l.tickCount = 0 THEN m ELSE l)

\* The running task leaves the ready list for one of the two delayed lists.
AddCurrentTaskToDelayedList(k, time) ==
  LET t == k.current
      l == [RemoveGeneric(k, t) EXCEPT !.wake[t] = time]
      later == {u \in DOMAIN l.wake : l.wake[u] > time}
  IN  IF time < l.tickCount
      THEN [l EXCEPT !.overflow = ListInsert(@, t, later)]
      ELSE [l EXCEPT !.delayed = ListInsert(@, t, later),
                     !.nextUnblock = IF time < @ THEN time ELSE @]

SuspendAll(k) == [k EXCEPT !.suspendDepth = @ + 1]

\* A faulty variant: they are counted once, however many came.
MissedTicks_once(k) ==
  [IF k.missedTicks > 0 THEN IncrementTick(k) ELSE k EXCEPT !.missedTicks = 0]

\* The ticks that came while the scheduler was suspended.
MissedTicks(k) ==
  LET after[n \in 0 .. k.missedTicks] == IF n = 0 THEN k ELSE IncrementTick(after[n - 1])
  IN  [after[k.missedTicks] EXCEPT !.missedTicks = 0]

\* xTaskResumeAll finds a reason to yield and returns pdTRUE.
AlreadyYields(k) ==
  /\ k.suspendDepth = 1 /\ k.numberOfTasks > 0
  /\ \/ \E t \in ToSet(k.pending) : k.priority[t] >= k.priority[k.current]
     \/ k.missedTicks > 0
     \/ k.missedYield

\* A faulty variant: a yield that was missed is not made up for.
ResumeAll_forgetsYield(k) ==
  LET l == [k EXCEPT !.suspendDepth = @ - 1]
      m == MissedTicks(MakeReady(l, l.pending))
  IN  IF l.suspendDepth > 0 \/ l.numberOfTasks = 0 THEN l
      ELSE IF k.missedYield \/ ~AlreadyYields(k) THEN [m EXCEPT !.missedYield = FALSE]
      ELSE SwitchContext(m)

ResumeAll(k) ==
  LET l == [k EXCEPT !.suspendDepth = @ - 1]
      m == MissedTicks(MakeReady(l, l.pending))
  IN  IF l.suspendDepth > 0 \/ l.numberOfTasks = 0 THEN l
      ELSE IF AlreadyYields(k) THEN SwitchContext([m EXCEPT !.missedYield = FALSE])
      ELSE m

YieldIf(yields, k) == IF yields THEN SwitchContext(k) ELSE k

\* xTaskGenericCreate, from main or from a task, once the memory is there.
Create(k, t, p) ==
  LET first == k.current = NoTask
      urgent == first \/ (~k.running /\ k.priority[k.current] <= p)
      l == [k EXCEPT !.numberOfTasks = @ + 1,
                     !.priority[t] = p, !.base[t] = p, !.urgency[t] = p,
                     !.current = IF urgent THEN t ELSE @]
  IN  YieldIf(k.running /\ k.priority[k.current] < p, AddTaskToReadyQueue(l, t))

\* vTaskDelete, as far as its critical section goes.
Delete(k, t) ==
  [RemoveGeneric(RemoveEvent(k, t), t) EXCEPT
     !.terminating = Append(@, t), !.tasksDeleted = @ + 1]

\* vTaskDelayUntil: does the wake time lie ahead?
ShouldDelay(k, previous, time) ==
  IF k.tickCount < previous
  THEN time < previous /\ time > k.tickCount
  ELSE time < previous \/ time > k.tickCount

\* A faulty variant: a ready task stays in the list of its old priority.
PrioritySet_keepsList(k, t, p) ==
  LET l == [k EXCEPT !.base[t] = p, !.urgency[t] = p,
                     !.priority[t] = IF @ = k.base[t] THEN p ELSE @]
  IN  IF k.base[t] = p THEN k
      ELSE YieldIf(IF p > k.base[t] THEN t # k.current ELSE t = k.current, l)

\* vTaskPrioritySet
PrioritySet(k, t, p) ==
  LET l == [k EXCEPT !.base[t] = p, !.urgency[t] = p,
                     !.priority[t] = IF @ = k.base[t] THEN p ELSE @]
      m == IF t \in ToSet(k.ready[k.base[t]])
           THEN AddTaskToReadyQueue(RemoveGeneric(l, t), t) ELSE l
  IN  IF k.base[t] = p THEN k
      ELSE YieldIf(IF p > k.base[t] THEN t # k.current ELSE t = k.current, m)

\* vTaskSuspend, as far as its critical section goes.
Suspend(k, t) ==
  [RemoveGeneric(RemoveEvent(k, t), t) EXCEPT !.suspended = @ \cup {t}]

IsTaskSuspended(k, t) ==
  t \in k.suspended /\ t \notin ToSet(k.pending) /\ ~InEvent(k, t)

\* vTaskResume
Resume(k, t) ==
  IF t = k.current \/ ~IsTaskSuspended(k, t) THEN k
  ELSE YieldIf(k.priority[t] >= k.priority[k.current], MakeReady(k, <<t>>))

\* xTaskResumeFromISR, in a handler that yields when it is told to.
ResumeFromISR(k, t) ==
  IF ~IsTaskSuspended(k, t) THEN k
  ELSE IF k.suspendDepth > 0 THEN [k EXCEPT !.pending = Append(@, t)]
  ELSE YieldIf(k.priority[t] >= k.priority[k.current], MakeReady(k, <<t>>))

\* vTaskPlaceOnEventList, for the running task, with the scheduler suspended.
PlaceOnEventList(k, e, ticks) ==
  LET t == k.current
      lessUrgent == {u \in DOMAIN k.urgency : k.urgency[u] < k.urgency[t]}
      l == [k EXCEPT !.event[e] = ListInsert(@, t, lessUrgent)]
  IN  IF ticks = MaxDelay
      THEN [RemoveGeneric(l, t) EXCEPT !.suspended = @ \cup {t}]
      ELSE AddCurrentTaskToDelayedList(l, Ticks(k.tickCount + ticks))

\* xTaskRemoveFromEventList, and whether it asks for a yield.
RemoveFromEventList(k, e) ==
  LET t == Head(k.event[e])
  IN  IF k.suspendDepth > 0
      THEN [RemoveEvent(k, t) EXCEPT !.pending = Append(@, t)]
      ELSE MakeReady(k, <<t>>)
WantsYield(k, e) == k.priority[Head(k.event[e])] >= k.priority[k.current]

\* xTaskCheckForTimeOut, for a wait of ticks counted from timeOut: is it over, and
\* how many ticks are left?  A wait of MaxDelay never ends.
TimeOutNow(k) == [overflows |-> k.numOfOverflows, entering |-> k.tickCount]
IsTimeOut(k, timeOut, ticks) ==
  /\ ticks # MaxDelay
  /\ \/ k.numOfOverflows # timeOut.overflows /\ k.tickCount >= timeOut.entering
     \/ Ticks(k.tickCount - timeOut.entering) >= ticks
TicksLeft(k, timeOut, ticks) ==
  IF ticks = MaxDelay THEN ticks ELSE ticks - Ticks(k.tickCount - timeOut.entering)

\* t runs at priority p from now on.
ChangePriority(k, t, p) ==
  LET l == [k EXCEPT !.priority[t] = p, !.urgency[t] = p]
  IN  IF InReady(k, t) THEN AddTaskToReadyQueue(RemoveGeneric(l, t), t) ELSE l

\* vTaskPriorityInherit: the holder of a mutex the running task has to wait for.
PriorityInherit(k, holder) ==
  IF k.priority[holder] < k.priority[k.current]
  THEN ChangePriority(k, holder, k.priority[k.current]) ELSE k

\* vTaskPriorityDisinherit: the running task gives the mutex back.
PriorityDisinherit(k, holder) ==
  IF holder # NoTask /\ k.priority[holder] # k.base[holder]
  THEN ChangePriority(k, holder, k.base[holder]) ELSE k

\* prvCheckTasksWaitingTermination takes the first task of its list away and
\* frees its memory.
Reap(k) ==
  LET t == Head(k.terminating)
  IN  [k EXCEPT !.terminating = Tail(@), !.priority[t] = 0, !.base[t] = 0, !.urgency[t] = 0,
                !.numberOfTasks = @ - 1, !.tasksDeleted = @ - 1]

\* vTaskStartScheduler
StartScheduler(k) == [Create(k, Idle, 0) EXCEPT !.running = TRUE, !.tickCount = 0]
=============================================================================
