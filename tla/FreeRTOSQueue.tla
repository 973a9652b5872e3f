---------------------------- MODULE FreeRTOSQueue ----------------------------
(***************************************************************************)
(* Queues, semaphores and mutexes of FreeRTOS (queue.c) on its scheduler.  *)
(* Every critical section of a blocking call is a step of its own, and the *)
(* tick and handlers that send and receive interrupt it in between.        *)
(***************************************************************************)
EXTENDS FreeRTOSKernel

CONSTANTS
  Queue,
  Kind,         \* "data", "semaphore" or "mutex"
  Length,       \* uxLength
  Item,         \* what is sent to a queue
  NoItem,       \* the item of semaphores and mutexes
  Base,         \* the priority t is created with, above that of the idle task
  Scenario,     \* the calls each task makes, if any, in each kind of run
  FromISR,      \* the queues that handlers use
  MaxMissed,    \* bound on the ticks of one suspension of the scheduler
  MaxLock,      \* bound on what handlers do to a locked queue
  MaxDepth,     \* bound on the recursive takes of a mutex
  MaxLate       \* bound on the ticks a call is kept from the CPU

ASSUME QueueAssumption ==
  /\ Event = Queue \X {"send", "receive"}
  /\ FromISR \subseteq Queue
  /\ \A q \in Queue : Length[q] \in Nat \ {0}
  /\ \A q \in Queue : Kind[q] = "mutex" => Length[q] = 1 /\ q \notin FromISR
  /\ \A q \in Queue : Kind[q] # "data" <=> Item[q] = {NoItem}
  /\ \A t \in Task : Base[t] \in Priority

VARIABLES
  ops,          \* ops[t]: operation, queue and ticks of the calls t makes
  kernel,
  queue,
  pc,           \* the next critical section of t, "run" outside of queue.c
  call,         \* the call t is in
  waited        \* the ticks counted since it was made (nobody's variable)

vars == <<ops, kernel, queue, pc, call, waited>>

Unlocked == -1
NoCall == [op |-> "none"]

\* xQueueCreate, xQueueCreateMutex, vSemaphoreCreateBinary, which is given once
NewQueue(q) ==
  [count |-> IF Kind[q] = "data" THEN 0 ELSE 1,
   buffer |-> [i \in 0 .. Length[q] - 1 |-> NoItem],
   writeTo |-> 0, readFrom |-> Length[q] - 1,
   holder |-> NoTask, depth |-> 0,      \* pxMutexHolder, uxRecursiveCallCount
   rxLock |-> Unlocked, txLock |-> Unlocked]

Init ==
  /\ ops \in Scenario
  /\ LET busy == {t \in Task : ops[t] # {}}
         order == SetToSeq(busy)
         created[n \in 0 .. Cardinality(busy)] ==
           IF n = 0 THEN BootKernel ELSE Create(created[n - 1], order[n], Base[order[n]])
     IN  kernel = StartScheduler(created[Cardinality(busy)])
  /\ queue = [q \in Queue |-> NewQueue(q)]
  /\ pc = [t \in Task |-> "run"]
  /\ call = [t \in Task |-> NoCall]
  /\ waited = [t \in Task |-> 0]

-----------------------------------------------------------------------------
(* prvCopyDataToQueue and prvCopyDataFromQueue *)

Ring(q, i) == i % Length[q]

\* A faulty variant: an item sent to the front lands on the last one read.
CopyTo_front(q, x, front) ==
  LET r == queue[q]
      s == [r EXCEPT !.count = @ + 1]
  IN  IF Kind[q] # "data" THEN [s EXCEPT !.holder = NoTask, !.depth = 0]
      ELSE IF front
      THEN [s EXCEPT !.buffer[r.readFrom] = x, !.readFrom = IF @ = 0 THEN 0 ELSE @ - 1]
      ELSE [s EXCEPT !.buffer[r.writeTo] = x, !.writeTo = Ring(q, @ + 1)]

CopyTo(q, x, front) ==
  LET r == queue[q]
      s == [r EXCEPT !.count = @ + 1]
  IN  IF Kind[q] # "data" THEN [s EXCEPT !.holder = NoTask, !.depth = 0]
      ELSE IF front
      THEN [s EXCEPT !.buffer[r.readFrom] = x, !.readFrom = Ring(q, @ - 1 + Length[q])]
      ELSE [s EXCEPT !.buffer[r.writeTo] = x, !.writeTo = Ring(q, @ + 1)]

\* Every take of a mutex is a recursive one.  Only its holder touches the count,
\* so what it does outside of the critical section is merged with it: the
\* increment after the receive, and the last decrement before the send.
CopyFrom(q, t) ==
  [queue[q] EXCEPT !.count = @ - 1,
                   !.readFrom = IF Kind[q] = "data" THEN Ring(q, @ + 1) ELSE @,
                   !.holder = IF Kind[q] = "mutex" THEN t ELSE @,
                   !.depth = IF Kind[q] = "mutex" THEN 1 ELSE @]

-----------------------------------------------------------------------------
(* xQueueGenericSend and xQueueGenericReceive *)

Sends(c) == c.op \in {"send", "sendFront"}
Blocking(c) == queue[c.queue].count = IF Sends(c) THEN Length[c.queue] ELSE 0

\* Who may have waited for what c does, and where the caller of c waits.
Wakes(c) == <<c.queue, IF c.op = "receive" THEN "send" ELSE "receive">>
Waits(c) == <<c.queue, IF Sends(c) THEN "send" ELSE "receive">>

Elapsed == Ticks(kernel'.tickCount - kernel.tickCount)
Timed(t) == call[t] # NoCall /\ call[t].limit # MaxDelay
Ageing ==
  waited' = [t \in Task |-> IF Timed(t) /\ call'[t] # NoCall THEN waited[t] + Elapsed ELSE 0]

Goto(t, l) == pc' = [pc EXCEPT ![t] = l]
Return(t) == Goto(t, "run") /\ call' = [call EXCEPT ![t] = NoCall]

\* The first task of the event list goes on, at once if it is as urgent.
WakeOne(k, e) ==
  IF k.event[e] = <<>> THEN k ELSE YieldIf(WantsYield(k, e), RemoveFromEventList(k, e))

\* A faulty variant: the mutex is given back at the priority that was inherited.
Transfer_inherited(t, c) ==
  /\ queue' = [queue EXCEPT ![c.queue] =
                 CASE Sends(c) -> CopyTo(c.queue, c.item, c.op = "sendFront")
                   [] c.op = "receive" -> CopyFrom(c.queue, t)
                   [] c.op = "peek" -> @]
  /\ kernel' = WakeOne(kernel, Wakes(c))

Transfer(t, c) ==
  /\ queue' = [queue EXCEPT ![c.queue] =
                 CASE Sends(c) -> CopyTo(c.queue, c.item, c.op = "sendFront")
                   [] c.op = "receive" -> CopyFrom(c.queue, t)
                   [] c.op = "peek" -> @]
  /\ kernel' = WakeOne(IF Sends(c) THEN PriorityDisinherit(kernel, queue[c.queue].holder)
                       ELSE kernel, Wakes(c))

\* The first critical section of the loop, at the call and after every wait.
Try(t, c) ==
  /\ kernel.current = t
  /\ \/ ~Blocking(c) /\ Transfer(t, c) /\ Return(t)
     \/ Blocking(c) /\ c.ticks = 0 /\ Return(t) /\ UNCHANGED <<kernel, queue>>
     \/ /\ Blocking(c) /\ c.ticks > 0
        /\ call' = [call EXCEPT ![t] = c]
        /\ Goto(t, "suspend")
        /\ UNCHANGED <<kernel, queue>>
  /\ Ageing

\* No task takes a mutex it holds, or gives one it does not hold.
Calls(t) ==
  {c \in [op : {"send", "sendFront", "receive", "peek"}, queue : Queue,
          item : {NoItem} \cup UNION {Item[q] : q \in Queue}, limit : 0 .. MaxDelay] :
     /\ <<c.op, c.queue, c.limit>> \in ops[t]
     /\ c.item \in IF Sends(c) THEN Item[c.queue] ELSE {NoItem}
     /\ Kind[c.queue] = "mutex" => (Sends(c) <=> queue[c.queue].holder = t)
     /\ Kind[c.queue] = "mutex" /\ Sends(c) => queue[c.queue].depth = 1}

Start(t) ==
  /\ pc[t] = "run"
  /\ \E c \in Calls(t) :
       Try(t, [op |-> c.op, queue |-> c.queue, item |-> c.item, limit |-> c.limit,
               ticks |-> c.limit, timeOut |-> TimeOutNow(kernel), then |-> "again"])

Again(t) == pc[t] = "try" /\ Try(t, call[t])

\* xQueueTakeMutexRecursive of a mutex that t holds, and xQueueGiveMutexRecursive
\* before the last one, which gives the mutex back.
TakeAgain(t) ==
  /\ pc[t] = "run" /\ kernel.current = t
  /\ \E q \in Queue : /\ queue[q].holder = t /\ queue[q].depth < MaxDepth
                      /\ queue' = [queue EXCEPT ![q].depth = @ + 1]
  /\ UNCHANGED <<kernel, pc, call, waited>>

GiveOne(t) ==
  /\ pc[t] = "run" /\ kernel.current = t
  /\ \E q \in Queue : /\ queue[q].holder = t /\ queue[q].depth > 1
                      /\ queue' = [queue EXCEPT ![q].depth = @ - 1]
  /\ UNCHANGED <<kernel, pc, call, waited>>

\* vTaskPrioritySet of another task, which may be waiting
SetPriority(t) ==
  /\ pc[t] = "run" /\ kernel.current = t
  /\ \E u \in Task, p \in Priority :
       /\ <<"setPriority", u, p>> \in ops[t]
       /\ kernel' = PrioritySet(kernel, u, p)
  /\ UNCHANGED <<queue, pc, call>> /\ Ageing

Step(t, from, to) == kernel.current = t /\ pc[t] = from /\ Goto(t, to)

SuspendScheduler(t) ==
  /\ Step(t, "suspend", "lock")
  /\ kernel' = SuspendAll(kernel)
  /\ UNCHANGED <<queue, call>> /\ Ageing

\* prvLockQueue
Lock(t) ==
  /\ Step(t, "lock", "check")
  /\ queue' = [queue EXCEPT ![call[t].queue].rxLock = Max({@, 0}),
                            ![call[t].queue].txLock = Max({@, 0})]
  /\ UNCHANGED <<kernel, call>> /\ Ageing

\* A faulty variant: after a wake-up for nothing the whole time is waited again.
Check_anew(t) ==
  LET c == call[t]
      over == IsTimeOut(kernel, c.timeOut, c.ticks)
  IN  /\ Step(t, "check", IF over THEN "unlockTx" ELSE "test")
      /\ call' = [call EXCEPT ![t] =
                    IF over THEN [@ EXCEPT !.then = "fail"]
                    ELSE [@ EXCEPT !.timeOut = TimeOutNow(kernel)]]
      /\ UNCHANGED <<kernel, queue>> /\ Ageing

\* xTaskCheckForTimeOut
Check(t) ==
  LET c == call[t]
      over == IsTimeOut(kernel, c.timeOut, c.ticks)
  IN  /\ Step(t, "check", IF over THEN "unlockTx" ELSE "test")
      /\ call' = [call EXCEPT ![t] =
                    IF over THEN [@ EXCEPT !.then = "fail"]
                    ELSE [@ EXCEPT !.ticks = TicksLeft(kernel, c.timeOut, c.ticks),
                                   !.timeOut = TimeOutNow(kernel)]]
      /\ UNCHANGED <<kernel, queue>> /\ Ageing

\* prvIsQueueFull or prvIsQueueEmpty
Test(t) ==
  /\ Step(t, "test", IF Blocking(call[t]) THEN "place" ELSE "unlockTx")
  /\ call' = [call EXCEPT ![t].then = IF Blocking(call[t]) THEN "blocked" ELSE "again"]
  /\ UNCHANGED <<kernel, queue>> /\ Ageing

\* A faulty variant: the holder of a mutex keeps its own priority.
Place_plain(t) ==
  /\ Step(t, "place", "unlockTx")
  /\ kernel' = PlaceOnEventList(kernel, Waits(call[t]), call[t].ticks)
  /\ UNCHANGED <<queue, call>> /\ Ageing

\* vTaskPriorityInherit and vTaskPlaceOnEventList
Place(t) ==
  /\ Step(t, "place", "unlockTx")
  /\ LET c == call[t]
         k == IF Kind[c.queue] = "mutex" /\ ~Sends(c)
              THEN PriorityInherit(kernel, queue[c.queue].holder) ELSE kernel
     IN  kernel' = PlaceOnEventList(k, Waits(c), c.ticks)
  /\ UNCHANGED <<queue, call>> /\ Ageing

\* prvUnlockQueue: up to n of the tasks in e are woken; the yield is for later.
WakeMany(k, e, n) ==
  LET after[i \in 0 .. n] ==
        IF i = 0 THEN k ELSE LET l == after[i - 1]
                             IN  IF l.event[e] = <<>> THEN l
                                 ELSE [RemoveFromEventList(l, e) EXCEPT
                                         !.missedYield = @ \/ WantsYield(l, e)]
  IN  after[n]

\* A faulty variant: what handlers have sent meanwhile is not looked at.
UnlockTx_forgets(t) ==
  /\ Step(t, "unlockTx", "unlockRx")
  /\ queue' = [queue EXCEPT ![call[t].queue].txLock = Unlocked]
  /\ UNCHANGED <<kernel, call>> /\ Ageing

UnlockTx(t) ==
  /\ Step(t, "unlockTx", "unlockRx")
  /\ LET q == call[t].queue
     IN  /\ kernel' = WakeMany(kernel, <<q, "receive">>, queue[q].txLock)
         /\ queue' = [queue EXCEPT ![q].txLock = Unlocked]
  /\ UNCHANGED call /\ Ageing

UnlockRx(t) ==
  /\ Step(t, "unlockRx", "resume")
  /\ LET q == call[t].queue
     IN  /\ kernel' = WakeMany(kernel, <<q, "send">>, queue[q].rxLock)
         /\ queue' = [queue EXCEPT ![q].rxLock = Unlocked]
  /\ UNCHANGED call /\ Ageing

\* xTaskResumeAll, whose result matters only to a task that has blocked itself
Resumed(t) ==
  /\ kernel.current = t /\ pc[t] = "resume"
  /\ kernel' = ResumeAll(kernel)
  /\ CASE call[t].then = "fail" -> Return(t)
       [] call[t].then = "again" -> Goto(t, "try") /\ UNCHANGED call
       [] call[t].then = "blocked" ->
            Goto(t, IF AlreadyYields(kernel) THEN "try" ELSE "yield") /\ UNCHANGED call
  /\ Ageing
  /\ UNCHANGED queue

Yield(t) ==
  /\ Step(t, "yield", "try")
  /\ kernel' = SwitchContext(kernel)
  /\ UNCHANGED <<queue, call>> /\ Ageing

-----------------------------------------------------------------------------
(* Interrupts: each handler yields at its end when it is told to *)

\* The other side of a locked queue is told later, by whoever unlocks it.
Tell(k, e, lock) == IF lock = Unlocked THEN WakeOne(k, e) ELSE k
Counted(lock) == IF lock = Unlocked THEN lock ELSE lock + 1

Used(q) == \E t \in Task : \E o \in ops[t] : o[2] = q

\* xQueueGenericSendFromISR
SendFromISR(q) ==
  /\ Used(q) /\ queue[q].count < Length[q] /\ queue[q].txLock < MaxLock
  /\ \E x \in Item[q], front \in BOOLEAN :
       queue' = [queue EXCEPT ![q] = [CopyTo(q, x, front) EXCEPT !.txLock = Counted(@)]]
  /\ kernel' = Tell(kernel, <<q, "receive">>, queue[q].txLock)
  /\ UNCHANGED <<pc, call>> /\ Ageing

\* xQueueReceiveFromISR
ReceiveFromISR(q) ==
  /\ Used(q) /\ queue[q].count > 0 /\ queue[q].rxLock < MaxLock
  /\ queue' = [queue EXCEPT ![q] = [CopyFrom(q, NoTask) EXCEPT !.rxLock = Counted(@)]]
  /\ kernel' = Tell(kernel, <<q, "send">>, queue[q].rxLock)
  /\ UNCHANGED <<pc, call>> /\ Ageing

\* vTick
TickInterrupt ==
  /\ kernel.missedTicks < MaxMissed /\ \A t \in Task : waited[t] < MaxLate
  /\ kernel' = SwitchContext(IncrementTick(kernel))
  /\ UNCHANGED <<queue, pc, call>> /\ Ageing

Next ==
  /\ \/ \E t \in Task :
          \/ Start(t) \/ Again(t) \/ TakeAgain(t) \/ GiveOne(t) \/ SetPriority(t)
          \/ SuspendScheduler(t) \/ Lock(t) \/ Check(t) \/ Test(t) \/ Place(t)
          \/ UnlockTx(t) \/ UnlockRx(t) \/ Resumed(t) \/ Yield(t)
     \/ \E q \in FromISR : SendFromISR(q) \/ ReceiveFromISR(q)
     \/ TickInterrupt
  /\ UNCHANGED ops

Spec == Init /\ [][Next]_vars

-----------------------------------------------------------------------------

QueueRecord(q) ==
  [count : 0 .. Length[q], buffer : [0 .. Length[q] - 1 -> Item[q] \cup {NoItem}],
   writeTo : 0 .. Length[q] - 1, readFrom : 0 .. Length[q] - 1,
   holder : Task \cup {NoTask}, depth : Nat,
   rxLock : {Unlocked} \cup Nat, txLock : {Unlocked} \cup Nat]

\* What a task keeps of a call between two critical sections.
IsCall(c) ==
  /\ c = [op |-> c.op, queue |-> c.queue, item |-> c.item, limit |-> c.limit,
          ticks |-> c.ticks, timeOut |-> c.timeOut, then |-> c.then]
  /\ c.op \in {"send", "sendFront", "receive", "peek"} /\ c.queue \in Queue
  /\ Sends(c) => c.item \in Item[c.queue]
  /\ c.then \in {"again", "blocked", "fail"}

Locking == {"lock", "check", "test", "place", "unlockTx", "unlockRx", "resume"}

TypeOK ==
  /\ queue = [q \in Queue |-> queue[q]] /\ \A q \in Queue : queue[q] \in QueueRecord(q)
  /\ pc \in [Task -> Locking \cup {"run", "suspend", "yield", "try"}]
  /\ call = [t \in Task |-> call[t]] /\ \A t \in Task : pc[t] # "run" => IsCall(call[t])

\* The next slot to write is the one after the last item.
IndicesAgree ==
  \A q \in Queue :
    LET r == queue[q]
    IN  Kind[q] = "data" => r.writeTo = Ring(q, r.readFrom + 1 + r.count)

\* A queue is locked only while its locker has the scheduler suspended, a mutex
\* is free exactly when nobody holds it, no recursive take is left on a free one,
\* and a task runs above its own priority only while it holds one.
QueueInv ==
  /\ \A q \in Queue :
       /\ queue[q].count \in 0 .. Length[q]
       /\ kernel.suspendDepth = 0 => queue[q].txLock = Unlocked /\ queue[q].rxLock = Unlocked
       /\ Kind[q] = "mutex" => /\ queue[q].count = 0 <=> queue[q].holder # NoTask
                               /\ queue[q].depth > 0 => queue[q].count = 0
  /\ \A t \in Task :
       kernel.priority[t] # kernel.base[t] => \E q \in Queue : queue[q].holder = t

\* Whoever waits for a mutex waits for a task of at least its own priority.
HolderInherits ==
  \A q \in Queue : Kind[q] = "mutex" =>
    \A t \in ToSet(kernel.event[<<q, "receive">>]) :
      queue[q].holder # NoTask => kernel.priority[queue[q].holder] >= kernel.priority[t]

\* No wake-up is lost, however tasks and handlers send and receive while a queue
\* is locked: a task waits although its call could succeed only if another one
\* has been woken for that and is on its way to look.
Comes(t, e) ==
  /\ call[t] # NoCall /\ Waits(call[t]) = e /\ pc[t] \in {"try", "yield"}
  /\ t \notin ToSet(kernel.event[e])
NoLostWakeup ==
  kernel.suspendDepth = 0 =>
    \A t \in Task, q \in Queue :
      call[t] # NoCall /\ t \in ToSet(kernel.event[Waits(call[t])]) /\ ~Blocking(call[t])
        => \E u \in Task : Comes(u, Waits(call[t]))

\* A call with a limit fails after that many ticks and not before, and sleeps for
\* no longer, however often it is woken for nothing and the tick count wraps.
TimesOutOnTime ==
  \A t \in Task : call[t] # NoCall =>
    /\ call[t].then = "fail" => call[t].limit # MaxDelay /\ waited[t] >= call[t].limit
    /\ t \in Blocked(kernel) => waited[t] < call[t].limit

\* The most urgent of those who wait for an event is the first to be woken: the
\* event lists are kept in priority order (queue.c:112-113, tasks.c:1744-1746).
EventListsInOrder ==
  \A e \in Event : \A i, j \in DOMAIN kernel.event[e] :
    i < j => kernel.priority[kernel.event[e][i]] >= kernel.priority[kernel.event[e][j]]

ItemsOf(q, r) ==
  [i \in 1 .. r.count |-> IF Kind[q] = "data" THEN r.buffer[Ring(q, r.readFrom + i)] ELSE NoItem]
Contents(q) == ItemsOf(q, queue[q])

\* Two indices, a count and two lock counts make a bounded queue.
Promise == INSTANCE BoundedQueue WITH
  items <- [q \in Queue |-> Contents(q)]
IsBoundedQueue == Promise!Spec
=============================================================================
