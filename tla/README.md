# TLA+ verification of the TTK4147 real-time exercises

This directory models the concurrent programs of the repository in TLA+, checks
them with TLC on small instances and proves the properties that matter most with
TLAPS for every value of the constants. `PROJECT.json` lists components, runs,
theorems and hazards, and maps every definition to the lines it stands for.

    tlc -workers 2 -config FreeRTOSTasks.cfg FreeRTOSTasks   # a run
    tlapm FreeRTOSTasks_proofs.tla                           # a proof

## 1. Inventory

The repository holds seven exercises: some twenty small programs and copies of two
vendored code bases. Each program is its own system; what they share is the
platform they run on (pthreads, the Xenomai native skin, FreeRTOS, the bare
AVR32).

| Component | State | Operations | What makes it hard | What makes it correct |
|---|---|---|---|---|
| Ex2 Task 1, `Task1.c` | one global counter, a position per thread | `++increment_var` in a loop and in a `printf`, without lock | data race: any number of updates is lost, the build may merge increments | never less than two, never more than the increments executed |
| Ex2 Task 2, `Task2.c` | the counter and a semaphore | as above, the loop guarded, the last increment not | the race that is left starts when one thread has finished | one whole loop survives; every run is one of Task 1 |
| Ex2 Task 3, `Task3.c` | pointer, four fields, semaphore | double-checked `getSingleton`, reads of the fields | published before initialised; the first check is stale | one object, same for all; garbage only during initialisation |
| Ex2 Task 4, `Task4_deadlock.c`, `Task4_fixed_deadlock.c` | five fork mutexes, a waiter mutex in the fixed one | lock, lock, eat, unlock, unlock, for ever | circular wait; unfair mutexes | neighbours never eat together; no deadlock with the waiter |
| Ex3, `main.c` | GPIO interrupt flag and a flag variable per pin, response pins | `interrupt_J3` sets flags, `interrupt_big_while` answers them | handler between any two instructions, edges between any two steps of the handler, one-bit flags, non-volatile flags, a 100 us busy wait | no edge lost, no answer without an edge, answers in time |
| Ex4, `main.c` | three tasks, three test and response lines | polling, `vTaskDelay`, busy wait, answer | preemption, a busy wait at the priority of the idle task | pinA and pinB answer within a tick, pinC within its busy wait and one more |
| FreeRTOS scheduler, `tasks.c`, `list.c` (in Ex4) | ready, delayed, pending, suspended and event lists, tick count, cached next wake time, missed ticks and yields, current and base priorities | create, delete, delay, suspend, resume, set priority, suspend the scheduler, tick, idle clean-up | wrap of the tick count, interrupts while the scheduler is suspended, cached values, priorities that change under lists sorted by them | the most urgent task runs; a delay of n ticks ends with the n-th; ticks are neither lost nor counted twice |
| FreeRTOS queues, `queue.c` (in Ex4) | ring buffer, two lock counts, mutex holder and depth | send, send to the front, receive, peek, recursive mutexes, from tasks and from handlers | a blocking call of nine critical sections with interrupts in between, timeouts over the wrap, wake-ups for nothing | a bounded sequence; no lost wake-up; calls fail on time; holders inherit |
| USB serial line, `udi_cdc.c` (in Ex3 and Ex4) | two buffers each way with positions, counts and selections, ongoing flags, line state | getc, putc, DCD and overrun signals, callbacks of transfers, start of frame, enable, disable | the interrupt between any two reads of shared variables; configuration in the middle of a call | bytes in order, none lost while the line stays enabled; the host is told of the line's state |
| USB control endpoint, `usbb_device.c`, `udc.c` | endpoint state, request, payload position, callback, the controller's flags | SETUP, data and handshake packets, NAKs, stalls | a host that breaks off, shortens or replaces requests at any packet | known requests get all their data and end |
| USB endpoint jobs, `usbb_device.c` | enabled, halted, a job per endpoint | run, abort, free, halt, clear | jobs refused or aborted under their owner | part of the two above |
| Ex5, `Task2.c`, `Task3.c`, `io.c` | polling threads and disturbance threads on one CPU | poll and answer; absolute sleep | time sharing against pulses; a period of 1 ns | answers follow pulses |
| Ex6, `TaskA.c`, `io.c` | three periodic tasks of one priority | poll, answer, yield, wait for the period, expire | yields between equals; the time is looked at after the poll | pulses are answered within a period, but for one that comes after the last poll |
| Ex7, `TaskA.c` .. `TaskE.c` | tasks with priorities, semaphores, mutexes, one CPU | start barrier, busy work, locks, `icpp_lock` and `icpp_unlock`, joins | preemption, priority inversion, inheritance, deadlock, broadcast that is not remembered, undefined joins | exclusion, bounded blocking, no missed start, no deadlock with the ceiling protocol |
| Xenomai native skin (external) | ready tasks, waiters, owners, priorities, clock | the `rt_*` calls Ex7 makes | hand-over of mutexes, inheritance along chains | no lost wake-up, owners right |
| Ex1a, `ex1_time.c`, `ex1_taskb.c`, `ex1_taskc.c` | `timespec` values | normalise, add, subtract, compare, busy wait, menu | carries, a value never written, cases that fall through | sums and differences normalised and exact |
| Ex1b, `array.c` | front, back, capacity, a buffer | insert, pop, reserve, copy, save | growth by a truncated product, shared buffers, unchecked pops | behaves as a sequence within its capacity |
| Other Atmel drivers (vendored) | registers | set-up of clock, pins, board | | not this repository's logic |

How they interact: within Ex2 the threads share memory and POSIX semaphores or
mutexes, and `main` creates and joins them. In Ex3 the interrupt handler and
`main` share three flag variables, and the tester reaches the program through
pins. Ex4's three tasks meet in the FreeRTOS scheduler, which the tick
interrupts. Both boards print over USB: `printf` calls `udi_cdc_putc` in the
application, the USB interrupt handler ends transfers and calls back into
`udi_cdc.c`, and requests on the control endpoint enable and disable the line
under the application. In Ex7 a boot task creates semaphores and mutexes, starts the others,
sleeps, broadcasts a semaphore as start signal, sleeps, and joins; the tasks
meet only in the kernel. What can go wrong, at its line and
with the property that would notice, is `hazards` in `PROJECT.json`.

## 2. What is modelled, and how it corresponds to the code

### Ex2: shared memory under pthreads

* **`DiningPhilosophers`** (`Task4_deadlock.c`). The five thread functions differ
  only in the forks they name; `First(p)` and `Second(p)` give fork p and its
  neighbour in the order of the ten lock calls. `pc[p]` is the next call, `owner`
  the mutexes, `created` the threads `main` has created. A step is one call.
* **`DiningWaiter`** (`Task4_fixed_deadlock.c`) adds the waiter mutex around the
  meal. `DinnerSteps` is the refinement: seen without the waiter's two steps every
  run is a run of `DiningPhilosophers`.
* **`RacingCounter`** (`Task1.c`). Load and store of an increment are two steps.
  The variable is a plain `long` in a data race, so the build may load it once,
  add several of the remaining increments and store once: `Store` adds a batch of
  any size. An aligned `long` is read and written whole on the target; tearing is
  left out.
* **`GuardedCounter`** (`Task2.c`). `SemWait`, load, store and `SemPost` of the
  loop; then load and store of the increment in the arguments of `printf`, which
  no semaphore guards. It refines `RacingCounter` (`RacingSteps`).
* **`Singleton`** (`Task3.c`). The object is named after the thread that allocates
  it. The pointer is published first and then the fields are set one by one. Stores
  become visible in program order (x86, as in the exercise's lab, and a semaphore
  call the compiler cannot see through between publication and reuse); on a weaker
  memory model the window would be larger. A user reads the fields in any order,
  as arguments of a call are evaluated, and `garbage` records which ones were unset.

* **`Ex2Programs`** starts one of the five programs and runs it; `CounterThreads`,
  `SingletonUsers` and `Table` hold what the programs on the same kind of object share:
  their constants and, in `Table`, who sits at the table and which two forks each takes. One run
  so checks all of them, each with its own fairness.

The thread-local counters and the texts printed are not modelled.

### Ex3: an interrupt handler and a polling loop

* **`DeferredInterrupt`** (`Ex3/src/main.c`). `pending` is the flag in the GPIO,
  `flag` the variable. The handler goes over the pins in order, and for each one
  tests, sets the flag and clears the interrupt in three steps between which edges
  may come. `main` tests, clears, waits, lowers and raises in steps between which the
  handler may run. A unit of time is 5 us; it passes only in the busy waits of
  `main`, so answers are timed by what the code spends on purpose, and the few
  instructions in between come on top. The flags are not volatile. The build may
  therefore use a zero it has loaded as long as no function is called in between;
  `reuses` says whether it does and `known` which zeros it has. Everything that is
  not a question of progress holds for both kinds of build.
  `MCDeferredInterrupt` gives the busy waits of the code. The handler is the one
  compiled in (lines 66-82), and `main` runs `interrupt_big_while`; `busy_wait_A` and
  `busy_wait_ABC` are called by nothing and are not modelled.

### Ex7: priorities, semaphores and mutexes under Xenomai

* **`XenomaiKernel`** is the part of the native skin these programs use, modelled
  from how they use it. Program and priorities are CONSTANTS, so the kernel is
  checked and its invariant proved once for all programs. `pc[t]` is the call task t is at,
  `status[t]` whether it is ready or what it is blocked in, `running` who has the
  CPU. `Call` is one system call with everything it causes: a release hands the
  mutex to the most urgent waiter and reschedules, a broadcast wakes all waiters,
  the end of a task wakes its joiners. `Prio` is the base priority and what waiters
  lend it, along chains. `Wake` is the timer interrupt of a sleep, `Tick` the clock.
  - Time is counted in the program's units. Calls take none, except that at most
    `Slack` units in a run may be spent anywhere: printing, system calls, interrupts
    and late timers. Every timing property names its `Slack`.
  - The caller of `rt_task_set_priority` goes to the tail of its new priority, so an
    equal may take the CPU. A task that blocks and wakes up is chosen among equals
    without an order.
  - A join on a task that is not joinable is undefined: it returns or waits.
  - Nobody locks a mutex it is inside or unlocks one it is not
    (`KernelAssumption`); TLC evaluates it for each program.
  - `TaskE.c` passes an `RT_MUTEX` by value; the copy holds the same handle, so it is
    modelled as the mutex itself.
* **`SemBarrier`** (`TaskA.c`), **`PriorityInversion`** (`TaskB.c`),
  **`PriorityInheritance`** (`TaskC.c`), **`NestedLocks`** (`TaskD.c`) and
  **`CeilingProtocol`** (`TaskE.c`) give the tasks' functions as sequences of the
  calls of **`XenomaiCalls`**, read line by line against the C functions, with
  the priorities and joinability of the `rt_task_create` calls. `icpp_lock` and
  `icpp_unlock` are definitions of their own that the programs use as the code does.
* **`Ex7Programs`** puts the five programs on one kernel as five sets of tasks of
  which only one is started, and states what each program promises; `ProgramsInv` is the
  inductive invariant those promises are proved from.
* `main` of these programs starts the boot task and joins it. It is the initial
  state. The boot task is not joinable either; if that join returned at once the
  process would end with all its tasks. The models take it to wait.

### Ex4: FreeRTOS

* **`FreeRTOSKernel`** (`tasks.c`, `list.c`) is a library: a kernel is a record of the
  static variables, and each function, or each part of one between enabling and
  disabling interrupts, is an operator from kernel to kernel, with every call inside
  it (a resume that yields, a tick that swaps the lists and wakes tasks, a yield that
  is only noted while the scheduler is suspended). The lists of `list.c` are
  sequences in the order in which they are served. `Ticks` wraps as the tick count
  does; the event item's value `configMAX_PRIORITIES - priority` is kept as the
  priority it was computed from (`urgency`), apart from the task's own priority,
  because the code lets the two differ.
* **`FreeRTOSTasks`** is an application that calls anything in `task.h`, from `main`
  and from its tasks, with the tick and a handler that resumes tasks wherever
  interrupts are enabled, and the idle task's clean-up. It keeps to the rules the
  headers give: no blocking call while the scheduler is suspended, no handle of a
  deleted task, `vTaskDelayUntil` initialised with the present time and not a whole
  turn of the count late. Nor does `main`, before the scheduler starts, suspend the last
  task that is ready: `vTaskSuspend` would call `vTaskSwitchContext` with all ready lists
  empty, which counts `uxTopReadyPriority` down below 0 (`tasks.c:935-959`, `1718-1722`).
  `sleep` and `behind` are histories that say how long a task
  has asked to wait.
* **`PinTasks`** (`Ex4/main.c`) are pinA, pinB and pinC on that kernel with a tester
  that holds each line until it is answered. Calls take no time, but up to `Slack`
  ticks may come between any two of their steps; `busy_delay_ms` consumes CPU time.
* **`FreeRTOSQueue`** (`queue.c`): the blocking send and receive are one loop with the
  critical sections of the code as steps: try, suspend the scheduler, lock the queue,
  check the time, test again, wait, unlock both sides, resume, yield. Handlers send to
  and receive from a queue between any two of them and count in its locks.
  `IsBoundedQueue` is the refinement of **`BoundedQueue`**. `MCFreeRTOSQueue` gives the
  scenarios of the run. Every take of a mutex is a recursive one, and the recursion
  count is set in the step that takes or gives the mutex, where the code does it just
  after (`queue.c:427`) or before (`queue.c:375`). Nobody but the holder looks at that
  count or writes it, so no other step tells the difference; `QueueInv` says of it only
  what holds at each of the code's steps, that a free mutex counts no recursive take.

### Ex3 and Ex4: the USB device

The two copies of these files are the same; the map names those of Ex3.

* **`UsbJobs`** (`usbb_device.c`): operators for the jobs of the data endpoints, the
  library the line is built on. A requested stall survives the freeing of its
  endpoint, as in the code.
* **`UsbCdc`** (`udi_cdc.c`): the calls of the application are split at every access to
  a shared variable; the interrupt is one step, because nothing interrupts it. C does not
  order the operands of the comparison at line 587 nor the two subscripts at line 595, so
  `Compare` and `Read` load them in either order; `register` and `operand` hold what has
  been loaded and are reset once it is used. The interrupt ends transfers and calls back,
  counts frames, resets, configures, selects interfaces and halts endpoints.
  Histories: `unread` and `unsent` are the bytes received and not given, written and not
  sent, since the line was enabled; `stale` is what the second buffer still counted at that
  moment, given before or not, since `udi_cdc_data_enable` empties the first one only; and
  `misled` says that a call is under way of which nothing is promised (section 5), with
  which the counting of what is received ends until the line is enabled again. 9-bit
  characters send two bytes by the same loop and are left out.
* **`UsbControl`** (`usbb_device.c`, `udc.c`): the interrupt handler of the control
  endpoint is one step with `udd_ctrl_interrupt`'s order of flags, and the host moves
  between two runs of it; the host sees NAK until the handler has answered. Requests
  are one of each kind the code tells apart: with data to the host, with data from it,
  with a callback, with a side effect, unknown.
* **`UsbDevice`** composes the two: a run is one of the control endpoint or of the line,
  which share the configuration (`SetConfiguration`, `SetDataInterface`, `Halt` of
  `UsbCdc` are what the requests do to the line).

### Ex6 and Ex1

* **`PeriodicPolling`** (`Ex6/TaskA.c`). The three task functions differ in the line only.
  `left` is `endTime` less the time, `due` the timer of `rt_task_set_periodic`, which runs
  whether the task waits or not; `overrun` says that `rt_task_wait_period` will return at
  once. The Linux calls in `io_read` and `io_write` take a task out of Xenomai's scheduler,
  so no order among the ready tasks is assumed. Histories: for how long a line has waited
  (`waited`) and how much of it was slack (`overhead`), what was left of the time when it
  went low (`since`), and whether that was after the poll of that turn (`afterPoll`).
* **`BusyWait`** (`ex1_time.c`): `main` with its cases that fall through, and the three
  waits. `then` is the sum with a `tv_nsec` that is chosen from values below zero, within a
  second and above; `Normalized` is the two loops, `Cmp` narrows its difference to an int.
* **`ArrayList`** (`array.c`): the structs, the buffers behind them, and `content`, the
  sequence each array should be. An insertion or a reservation may take elements or the
  buffer from the copies that share it; `fresh` are the variables that may still be used.
* **`SmallPrograms`** puts these and `PinTasks` into one run, one program at a time;
  `SmallParameters` and `PinNames` hold their constants.

## 3. Runs

| Run | Instance | What it shows |
|---|---|---|
| `ex2` | the five programs: 2 threads of 5 iterations; 3 threads, 3 fields; 5 philosophers, without and with a waiter | of racing increments two survive, and one loop in the guarded program, which implements the racing one; one singleton, unset fields only while they are being set; neighbours never eat together, and only the full circle stops the dinner; with the waiter fork locks never block, meals go on for ever and every step is one of the program without |
| `interrupt` | 3 pins, 2 edges each, B's wait 2 units | no edge lost, no answer invented, answers within one round, all edges answered |
| `ex7` | the five programs, Slack 4 | the invariants and exclusion; nobody is let through by a broadcast that came too early; nobody misses the start signal of the inversion; its high waits until med is done, and with inheritance the owner runs; nested locks stop in the embrace only; with ceilings nobody waits for work; every program ends, or embraces |
| `ceiling_dropped` | Slack 4 | *violated*: what `TaskE.c:46` says of the priority does not hold after a nested unlock |
| `tasks` | 2 tasks, idle, priorities 0 and 2, tick counts 0 to 3, 2 missed ticks, 2 nested suspensions | lists and counters agree, the most urgent task runs, delays end exactly on time over every wrap and suspension, ticks are kept |
| `small` | Ex4: the three tasks of the code, tick counts 0 to 3, Slack 2; Ex6: two tasks, period 2, duration 3, Slack 2; Ex1a: seconds of 4 ns, five values of the unwritten field; Ex1b: two variables, capacities 2 to 4 | pinA and pinB answer within a tick, pinC within its busy wait and one more, beyond the slack; the periodic tasks answer within a period, and leave only a line unanswered that went low after their last poll; the busy wait ends in time whatever nobody has written; an array and its copies stay sequences |
| `queue` | queues of 2 and 3, a semaphore, a mutex; up to two tasks and handlers; tick counts 0 to 3 | lock counts lose no wake-up, limits are kept, holders inherit and give back, and every queue is a bounded sequence |
| `event_order` | 3 tasks, one queue | *violated*: "Stored in priority order." (`queue.c:112`) does not survive `vTaskPrioritySet` |
| `usb` | buffers of 4 bytes in packets of 2, control packets of 2, descriptors of 1 to 4 bytes, one broken-off request | since the line was enabled bytes stay in order in both directions under every interleaving with the interrupt, after what the second receive buffer still counted; known requests get their data whole; every request ends |
| `stale_line` | receiving only | *violated*: after a second configuration `udi_cdc_is_rx_ready` answers yes before anything has come |
| `lost_notification` | line signals only | *violated*: after the race of `udi_cdc.c:391` the host is never told again |
| `stopped_data` | control endpoint, a host that stops sending | *violated*: the request never ends |

**Bounds, and why they are enough.**
*Ex2.* Iterations stand for 50 million: five let a stale value be held across
several iterations of the other thread, and a thread go from its first load to its
end in between, which is the worst case of the properties; `OneLoopSurvives` is
sharp (one more fails). `Fields` is 3 of the code's 4; first, last and one in the
middle. *Ex3.* `Edges` lets an edge be merged with one that is pending, in the flag
or being answered; B's wait of 20 units is scaled to 2, and `AnsweredInTime` is sharp.
*Ex7.* `SLEEP_PERIOD` of the barriers is 1000 units (100 ms) in the code and 15 in the
run, still longer than all the work and overhead together; the barrier does nothing
but sleep. `Slack` 4 lets every task be late by more than any of the short sleeps that
the programs rely on. *FreeRTOS.* `MaxDelay` 3 makes the tick count wrap every four
ticks, so that delays of 1 and 3 ticks start on either side of it and tasks are in
both delayed lists; portMAX_DELAY is the same constant, as in the code. Two tasks and
the idle task are enough for one that runs, one that is listed and one that is woken
by a handler; three priorities, of which one is unused, let `uxTopReadyPriority` skip a list.
`MaxMissed` 2 is the smallest number at which counting missed ticks one by one shows.
In `queue` `MaxLock` 1 makes a handler act once on each side of a locked queue, `MaxLate`
2 lets a call be kept from the CPU past its limit, `Wraps` 2 keeps one bit of the number
of overflows. *USB.* Buffers hold two packets, the smallest number that tells a full
packet from a full buffer; `Values` 3 numbers bytes so that swapped, lost and repeated
ones differ; `Frames` 3 tells the frame of the last short packet from the two around it.
`Used` lets the host use the endpoint of the application's call only: the three share
nothing but the configuration. `Total` and `Asked` have data that end within, at the end
of and after a packet, shorter than, as long as and longer than what was asked for.
`MaxBroken` 1: after a request that was broken off the next is watched to its end; a
second break adds no state of the endpoint that the first does not reach.
*Ex6.* Two of the three tasks, which share nothing but the CPU; a slack as long as the period
lets a task overrun, and a duration that is no multiple of it lets one expire between two
release points. *Ex1.* The times of `Unwritten` end a wait before it begins, at once, and
after up to two and a half seconds; two is the least capacity that both factors enlarge, and
2, 3, 4 includes a product that is truncated. `Alike` is sound because nothing tells the
variables or the values apart.
A run stops only where the program does: deadlock is not reported in `ex2`, `ex7`
and `small`, whose programs may end or hang.

**Fairness.** Threads of Ex2 are scheduled: weak fairness of each created thread and
of `main`. Nothing is assumed of who gets a contended mutex or semaphore, which
may pass over a waiter for ever; therefore `MealsGoOn` promises meals and not a meal
for everyone. In Ex3 processor and handler go on (weak fairness of `Main` and of
`Isr`), the tester may stop at any time, and a test run has finitely many edges
(`Edges`): an endless storm of interrupts would keep `main` from running, and a
reaction tester does not produce one. In Ex7 the CPU executes and the clock runs: weak
fairness of the whole next-state relation. Which task runs is the scheduler's
decision and not a question of fairness. On the control endpoint the processor serves a
raised interrupt (the variable `handled` flips in each run of the handler, so that its
weak fairness can be stated of that step alone), the host asks on as long as it has a
request, and it resets a device that does not hear it: the timeouts every host has.
FreeRTOS is checked for safety with real time in its histories (`SleepsExactly`,
`TimesOutOnTime`, `AnsweredInTime` are bounds and say more than that something happens).

**Findings.** Five sentences of the repository are refuted by runs.
- `TaskE.c:46` says that a lock sets the priority of the task to that of
the resource. `icpp_unlock` sets the base priority whatever is still held
(`TaskE.c:58`), so after the nested unlock of B at line 102 low works on with A at
priority 1. The program gets away with it: `ex7` shows that high then
waits for the unlocking only, and that no deadlock comes of it.
- `queue.c:112` says that waiting tasks are "Stored in priority order."; `vTaskPrioritySet`
(`tasks.c:875`) gives a waiting task a new value and leaves it at its place.
- `udi_cdc.h:253` says that `udi_cdc_is_rx_ready` checks if a character has been received;
`udi_cdc_data_enable` (`udi_cdc.c:269`) resets the count of one buffer and the line then
selects the other, so bytes of the time before the configuration are read again.
- `udi_cdc.h:224`, "Notify a state change": the ongoing flag is assigned after the
interrupt that ends the notification may have cleared it (`udi_cdc.c:391`).
- `usbb_device.c:1322` promises a host that it may stop sending data; a NAK flag of an
earlier packet is served first (`usbb_device.c:1426`) and the handshake never comes.

Also met while modelling: the comment "Starting in order that they arrived." on the
broadcasts (`TaskA.c:61`, `TaskB.c:107`, `TaskC.c:122`, `TaskD.c:122`, `TaskE.c:193`) is not
what the code does, since the semaphores are S_PRIO and the tasks start in the order of
their priorities; and `udi_cdc_read_buf` copies from the transmit buffer (`udi_cdc.c:629`).

## 4. Proofs

Every theorem holds for all values of the constants under the named assumption of
its module (`TableAssumption`: more than one seat; `CounterAssumption`, `SingletonAssumption`: there
are threads, iterations and fields; `InterruptAssumption`: pins and waits are
numbers; `KernelAssumption` of Xenomai: programs are well formed; `ProgramsAssumption`: tasks,
programs and priorities are those of the five files; `KernelAssumption` of
FreeRTOS: finitely many tasks, none of them the idle task; `TasksAssumption`: what the
application passes are priorities and `portTickType`s; `QueueAssumption`: queues have
lengths, items and lists of their own, and tasks are created with a priority that
`prvInitialiseTCBVariables` has clamped; `UsbAssumption`: buffers and packets have sizes, and buffers hold
whole packets; `PollingAssumption`: lines, period and duration are numbers;
`ClockAssumption`: a second has nanoseconds and fits half an `int`; `ArrayAssumption`: a
growth makes a capacity larger; `PinAssumption`: the three tasks of `main` and no other). Each proof shows
that an inductive invariant holds initially and is kept by each action, one step
per action and one below it per conjunct the action can disturb, and derives the
property from it.

| Module | Theorems | The inductive invariant, and why it is needed |
|---|---|---|
| `Ex2Programs_proofs` | `NeighboursNeverBothEat`, `DeadlockIsTheCircle` | types and `ForksHeld`: a fork belongs to p exactly when p's position says so. Exclusion follows because a shared fork has one owner; the deadlock theorem because a blocked philosopher's fork has an owner that is blocked itself, all the way round |
| | `ForksNeverBlock`, `WaiterRefines` | also `WaiterHeld`: the waiter belongs to whoever is past its lock, so everybody else holds no fork. The refinement maps each action to the action of the same name and the waiter's to stutters |
| | `TwoIncrementsSurvive` | `ZeroMeansFirst` (only a thread that has stored nothing can hold zero) and `OneMeansMore` (while the counter is at most one somebody still has increments to do). The final value alone is not inductive, because a stale register can bring an old value back |
| | `OneLoopAlwaysSurvives`, `GuardedRefines` | `NoLoopIsLost`: counter and registers never fall below the iterations any thread has counted, in the loop because of the semaphore and after it because a last load is made after the loop |
| | `AllocatedOnce`, `WindowCloses` | `OneInside` (the semaphore), `Initialising` (who allocates and who sets), `SameObject`, and `PostedComplete`, the link from the end of the window to complete fields; the two action properties follow from it step by step |
| | all of the above | each program's invariant holds while its variables are in use. `Steps` says that a step is a step of the program that runs and leaves the others as they are, so the lemmas about the five programs carry the proof; a refinement is the identity for the program that is refined to itself |
| `DeferredInterrupt_proofs` | `Invariance`, `EdgesAreKept`, `AnswersAreEarned` | `Tested` (the handler acts on an interrupt that is there, `main` on a flag that is set) with the two properties. The count of answers needs every place an edge can be in, and that an edge counts once while the handler has set the flag and not cleared the interrupt |
| | `AnswersAreTimely` | `TimeInv`: `Timely`, what a channel has waited and what it is still owed before its answer is at most one answer of every pin; `Timed`, the times; `Noticed`, `main` has not passed over a pin for which time has gone by. The property alone says nothing of where `main` is in its round, and `Timely` counts the answers between there and the channel |
| `Ex7Programs_proofs` | `KernelInvariance`, `MutexesExclude`, `NoLostWakeup` | `KernelInv`: `OwnerInside` (the kernel's owner is the task whose program is between acquire and release, also through a hand-over), `BlockedAtCall`, `WaitersHaveReason`, `MostUrgentRuns` (nobody ready is more urgent than the running task, by priorities that are a maximum over chains of waiters), `StatusFitsPlace`, `NothingSpent` and `BaseAsSet` (the base priority is that of the last `rt_task_set_priority` passed). The lemmas about the calls use `KernelAssumption` only, so they hold for every well-formed program |
| | `ProgramsInvariance` | `ProgramsInv`, of the five programs for every `Slack`: `OneProgram`, `GatesOpen` (the boot task, at the lowest priority, gets past a start or the broadcast only when the task it started is blocked), and below |
| | `StartTogether` | `PassedWereWaiting` and `count["semaphore1"] = 0`: the broadcast stores nothing, so nobody passes later |
| | `InversionLasts`, `OwnerRunsWhileHighWaits` | by `ResourceIsCounted` (the unit of the semaphore is stored or with exactly one task) high of TaskB waits for low, which `MostUrgentRuns` keeps off the CPU as long as med is ready; in TaskC `OwnerInside` says that high waits for low, and the chain of waiters lends low the priority of high |
| | `EmbraceLasts`, `OnlyTaskDDeadlocks` | in the embrace both wait for the other's mutex and no call of either is possible; that nothing else stops needs, for every place of every program, who is going on: a program that stops has no sleeper and nobody ready, and each blocked task then names the one it waits for |
| | `HighWaitIsOverhead` | `CeilingsOrder` (high is kept out of its sections until low's work in its own is done, and low out of them until high is at its last busy wait) and `WaitsInSlack` (each unit high waits for a mutex has come from the slack, since low is at no busy wait) |
| `FreeRTOSTasks_proofs` | `TicksAreCounted` | types of the times; each operator of the kernel is shown to leave the tick count and the missed ticks alone or to pass one on |
| | `ListsAgree` | `Well`, of a kernel and the positions of its tasks: `Tidy` (types, lists without repetition and in order of wake times, nobody in two of them), `Ahead` (wake times lie ahead, in this turn of the count or the next, and `nextUnblock` not behind the first), `CountsAgree` (the counters), `Started` (the idle task is ready once the scheduler runs, or there might be nobody to switch to), `Chosen` (the running task is the most urgent or a yield is owed) and `Controlled` (a task inside a delay is the running one and the scheduler is suspended once). Order and times are needed although `ListsInv` does not speak of them: which tasks a tick wakes follows from both |
| | `UrgentFirst` | the same: `Chosen`, with no yield owed unless the scheduler is suspended |
| | `DelaysAreExact` | also `Slept` (what a task has left is the distance from the tick count to its wake time, plus a turn in the overflow list), `Aged` (the tick count is the last wake time and what has passed since, up to a turn), missed ticks within their bound and `Rested`. That `vTaskDelayUntil` decides by its three comparisons whether to wait at all, for every phase of the count, is `UntilWaits` |
| `FreeRTOSQueue_proofs` | `RingInvariance`, `Refinement` | `RingInv`: types, and the index of the next write lies as many places after that of the last read as there are items, round the end of the storage. The refinement mapping reads `Contents(q)` from the ring; copies to the back, to the front and from the front are the three steps of `BoundedQueue`, everything else stutters |
| | `LocksAndHolders` | `Queues`, `CallsOK` and `KernelInv`: who has a queue locked has suspended the scheduler, once, so nobody else runs; a task above its own priority holds a mutex, and mutexes have one holder |
| | `WakeupsAreKept` | `WaitInv` with the above. `Attended` counts: while somebody waits for an event, or has found that there is nothing to be had and is about to wait, those on the way to look (`Coming`) and the wake-ups noted in the lock of the queue (`Noted`) are together at least as many as the calls that could go on (`Wanted`). The property asks for one task only, which says nothing of what is left when that one has taken its share. Each item moves the balance by one: a task that sends or receives leaves the way and takes what it came for, whoever a send or a handler wakes comes to it, a handler at a locked queue raises the count that `prvUnlockQueue` then works off. `Waiters` (the event lists hold tasks that have placed themselves there and do not run) and `Serving` (nobody is ready and in an event list at once, and there is always somebody to switch to) make sure that who is on the way has left the list. An event list is a set to this proof, so it does not depend on the order that the finding on `EventListsInOrder` is about |
| | `TimesOutInATurn` | `TimeInv` with the above, under `InATurn`: the ticks a call is kept off the CPU and those of one suspension come to at most a turn of the tick count. `Dated` ties what a call remembers (`xTimeOut`, the ticks that are left) to what it has waited, round the wrap of the count: the property knows the limit only. `CallTimes` adds that a sleeper's place in the delayed lists is what is left of its limit, which needs to hold from the check to the placing without a tick in between, and `LateOK` counts the ticks that `xTaskResumeAll` has still to make up as waited already. The kernel's part is in `Orderly`, `Eases` (no time passes, nobody begins to wait) and `Elapses` (n ticks are counted, and every sleeper has n fewer to go or is awake) |
| | `HoldersInherit` | `HoldInv` with the above, under `OneMutexEach`: a task uses one mutex, and nobody sets the priority of a task that uses one. `Fair` says who will hold a mutex that is free: it keeps no trace of those who wait, so the property would not outlive the take. Somebody at least as urgent as whoever still waits is on the way to it, and so is the running task if it is one that takes it, because the list of waiters is in order of priority (`InLine`) and the first is woken. That needs the ready lists in order too: `Level` (each holds tasks of its priority, none above `uxTopReadyPriority`) and `Leads` (after a switch the running task is the most urgent) |
| `UsbDevice_proofs` | `BytesLeaveInOrder` | `Typed` and `SendInv`: which of the two transmit buffers holds the bytes written last, how many of them the running job has, and that the bytes of both follow those the host has got, in order (`Sending`, `Writing`) |
| | `BytesArriveInOrder` | `ReceiveInv`, the same for the receive buffers: what the job has filled (`Received`) and what the application has not read (`Reading`) are `stale` and then `unread`; `Comparing` says of each order of the loads that what a call holds is still so, or the comparison fails, and what can make it pass wrongly is what sets `misled` |
| | `RequestsAreServed` | `ControlInv`, that is `Serves(control, host)`: for each state of the driver's machine what it has given or taken of the data and what the host may be waiting for (`Asking`, `Quiet`, `Pending`, `Stalling`, `Acknowledging`, `Awaiting`, `Taking`, `Giving`). The property speaks of the packet at hand only; that data are whole at their end needs how many packets went before |
| `SmallPrograms_proofs` | `ArraysStaySequences` | `ArraysInv`: `Represents` (front, back and capacity delimit a part of a buffer of that length, which holds the elements in order, and every growth makes it longer) for each array that may still be used, and buffers that are not empty belong to one of those. As there is one buffer more than variables, a reservation always finds an empty one |
| | `BusyWaitEndsInTime` | `TimingInv`: in the loop `then` is what was asked for from the beginning on, whatever the field held that is never written, and every reading but the last was before it. That a sum of two times is normalised and exact is `NormalizedTotal`, and that the comparison orders them `CmpOrders` |
| | `PollingAnswers` | `OnTime`: by where a task is in its turn, what its line may have waited; before the poll a period and the overhead, after it the overhead and the rest of the period, unless a release point is already owed; and of a line that went low after the poll, that its task has spent no more than that overhead of what was left. The property says of a deleted task what must be known while it is still at the check |
| | `PinsAnswerInTime` | `PinInv`: `Steady` (`Good` below, every task ready or delayed by one tick at most, the priorities of `main`), `InCall` (a task between the two halves of `vTaskDelay` is the running one and has the scheduler suspended) and `LineInTime` (while its task is delayed a line has waited for late ticks only). A tick that is not late comes when the idle task runs alone or pinC spins, and then nobody else is ready (`NobodyElse`). The property says nothing of the scheduler, on whose lists and priorities this rests |
| `FreeRTOSKernel_proofs` | lemmas | what every operator of `tasks.c` leaves alone, arithmetic of tick counts, induction over a recursive function, what the operators of `list.c` do to a list (`RemoveFromList`, `InsertIntoList`: a list in order stays in order), and whom each operator wakes: `Frees` (nobody begins to wait, nobody ceases to be ready, and who is switched to is ready) holds of every one but `PlaceOnEventList`, for which `PlaceOnEventListServes` says who joins the list |
| | lemmas | priorities: `Calm` (nobody changes places in an event list, and ready lists stay `Level`) holds of every operator but `PlaceOnEventList`, which puts the running task where its priority belongs (`PlaceOnEventListRanks`), and `vTaskPrioritySet`, of which the finding on `EventListsInOrder` is |
| | lemmas | what the operators do to `Tidy` and `Ahead`: `MakeReadyMoves`, `CheckDelayedMoves`, `IncrementTickMoves`, `MissedTicksMoves`; and that each function of `task.h` keeps `Good`, the conjunction of `Tidy`, `Ahead`, `CountsAgree`, `Started` and `Chosen`. The proofs about `FreeRTOSTasks`, the queues and Ex4 all rest on these |

The library's induction theorems take an operator as parameter, which no prover here can
instantiate. `MakeReady` and `MissedTicks`, which go on as long as there are tasks and
ticks, and the sums `Answers` of Ex3 are proved by `SetInduction` instead: a set of numbers that holds 0, and n + 1 with
each n, holds all of them (from the least element of its complement), applied to the set of
those steps up to which the recursive function does what is claimed.

The proofs corrected the model in four places, all of them assumptions on constants that
no run could have missed. `Period` must be a `portTickType`: for a longer one `vTaskDelayUntil`,
which adds it to a wake time modulo the turn, does not wait at all, so `DelaysAreExact` is
false. And `MaxMissed` must be less than a turn: the tick count after a longer suspension
says nothing of how often it went round. `IntHalf` must be a natural number and `Name`
finite, which the code has no way not to meet.

**Only model-checked**: liveness (`MealsGoOn`, `EveryEdgeAnswered`, `EveryProgramEnds`,
`EveryRequestEnds`), which is out of the prover's reach. Every other property that a passing
run checks is a theorem, two of them under a hypothesis that the code needs and the run's
constants meet. `HolderInherits` is one under `OneMutexEach` (`mutex` is the only one of the
run, and the task that sets a priority does not use it): a task that holds two mutexes gets
its own priority back with the first it gives (`tasks.c` `vTaskPriorityDisinherit`), and one
whose priority is raised while it waits becomes more urgent than the holder.
`TimesOutOnTime` is one under `InATurn` (`MaxLate` + `MaxMissed` <= `MaxDelay`, here
2 + 1 <= 3), because a call that is kept off the CPU for more than a turn of the tick count
may find its time not over (`xTaskCheckForTimeOut` sees the count and whether it wrapped, not
how often).

## 5. Not modelled

Ex5: its threads poll for ever among ten that never block, and when one is served is Linux's
decision, so there is no bound to check; the absolute sleeps of `Task3.c` are to the past from
the first turn on. `Ex5/main.c` (empty); `ex1_taskd.c` (allocates memory until there is none)
and the two measuring programs of Ex1a (fill a histogram); `timespec_sub`, which nobody calls.
Of Ex1b: pops from an empty array, smaller reservations and a capacity of one grown by 1.5,
which the functions do not look at and no program asks for.
In Ex7, what is printed, memory locking, and the deletion of objects after an endless
loop, which is never reached. Memory models weaker than x86 and lock stealing between
three users of one mutex, which no program of Ex7 has.
Of FreeRTOS: allocation, stacks and contexts, hooks, traces, run-time statistics,
co-routines, the alternative queue API, the registry and the deletion of queues; mutexes
are modelled although Ex4's `FreeRTOSConfig.h` switches them off. Of the USB stack:
VBUS, suspend and wake-up, descriptors, high speed, the banks and DMA registers of the
controller, `read_buf` and `write_buf`. The other drivers of the Atmel framework write
registers and keep no state that a property could be about; they are most of the
repository's lines.

Of some hazards nothing can be claimed, because the code promises nothing: an unfair
mutex may starve one philosopher (`Task4_fixed_deadlock.c:14`); a failed `rt_sem_p` is
ignored (`TaskA.c:22`) and a task that is not joinable is joined (`TaskB.c:139`); a call of
`vTaskDelayUntil` more than a period ahead may take a far wake time for one in the past
(`tasks.c:683`); a `udi_cdc_getc` that the host configures the device under, when it is past
its comparison, skips a byte or gives one that is not there (`udi_cdc.c:596`), and one whose
build loads the position after the selection may give one when an empty transfer ends in
between (`udi_cdc.c:587`); a line of Ex6 that goes low between the last poll and the look at
the time (`TaskA.c:49`); the ongoing flag stays when a halted endpoint refuses a job
(`udi_cdc.c:451`); a stall that was only requested outlives its endpoint (`usbb_device.c:786`);
a writer spins when VBUS goes away (`udi_cdc.c:710`); and a SETUP before the handshake of
SET_ADDRESS ends that request as done (`usbb_device.c:1076`).

## 6. Plan

1. *Done*: Ex2, Ex3 and Ex7, checked and proved, the programs of Ex7 included; the FreeRTOS
   scheduler and queues with Ex4's tasks on them, checked, and their lists, priorities,
   delays, ring buffers, locks, wake-ups, timeouts and inheritance proved; the USB device, checked, and its bytes and
   requests proved; the programs of Ex1, Ex4 and Ex6, checked and proved.
2. *Left*: the rest of the USB stack, suspend and wake-up first.

The suite is meant to stay at about a dozen runs; programs of one exercise share one.
