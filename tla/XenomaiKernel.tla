--------------------------- MODULE XenomaiKernel ---------------------------
(***************************************************************************)
(* The part of the Xenomai native skin that the programs of Ex7 run on: a  *)
(* one-CPU preemptive fixed-priority scheduler (every task is created with *)
(* T_CPU(1)), S_PRIO semaphores, mutexes with priority inheritance, sleeps *)
(* and busy waits.  Xenomai itself is not in the repository: the calls are *)
(* modelled as TaskA.c .. TaskE.c use them.                                *)
(*                                                                         *)
(* Time is counted in TIME_UNITs; calls take none, except for at most      *)
(* Slack units in a run, spent anywhere, that stand for printing, system   *)
(* calls, interrupts and late timers.                                      *)
(***************************************************************************)
EXTENDS XenomaiCalls, FiniteSets

CONSTANTS
  Task, Sem, Mutex,
  None,         \* no task: the CPU is idle, a mutex is free
  Boots,        \* the task main starts, in each program
  Program,      \* Program[t]: the instructions of the function t executes
  BasePrio,     \* the priority t is created with, larger is more urgent
  Joinable,     \* the tasks created with T_JOINABLE
  Slack         \* bound on the overhead of a run

\* Statement i of t lies between the acquisition of m and its release.
Inside(t, m, i) ==
  \E a \in 1 .. i - 1 :
    /\ Program[t][a].op = "acquire" /\ Program[t][a].arg = m
    /\ \A r \in a + 1 .. i - 1 :
         ~(Program[t][r].op = "release" /\ Program[t][r].arg = m)

\* An instruction names an object of the kind it works on.
WellFormed(i) ==
  \/ i.op \in {"create", "p", "v", "broadcast", "delete"} /\ i.arg \in Sem
  \/ i.op \in {"acquire", "release"} /\ i.arg \in Mutex
  \/ i.op \in {"start", "join"} /\ i.arg \in Task
  \/ i.op \in {"setprio", "sleep", "spin", "forever"}

\* No program of Ex7 locks a mutex it is inside, or unlocks one it is not.
ASSUME KernelAssumption ==
  /\ Boots \subseteq Task /\ None \notin Task
  /\ IsFiniteSet(Mutex) /\ Slack \in Nat
  /\ BasePrio \in [Task -> Nat]
  /\ \A t \in Task :
       /\ Len(Program[t]) \in Nat
       /\ \A i \in 1 .. Len(Program[t]) :
            LET c == Program[t][i]
            IN  /\ WellFormed(c) /\ c.n \in Nat
                /\ c.op = "acquire" => ~Inside(t, c.arg, i)
                /\ c.op = "release" => Inside(t, c.arg, i)

VARIABLES
  status,       \* dormant, ready, sleep, sem, mutex, join or dead
  pc,           \* the statement t is at, or blocked in
  running,      \* the task that has the CPU
  base,         \* the priority of t before inheritance
  spent,        \* units t has slept, spun or waited in its statement
  live,         \* the semaphores that exist
  count,        \* their values
  owner,        \* who holds each mutex
  failed,       \* the tasks one of whose rt_sem_p returned an error
  arrived,      \* the tasks that blocked in rt_sem_p, in that order
  slack         \* overhead spent so far

vars == <<status, pc, running, base, spent, live, count, owner, failed,
          arrived, slack>>

At(t, op) == pc[t] <= Len(Program[t]) /\ Program[t][pc[t]].op = op
Arg(t) == Program[t][pc[t]].arg
Num(t) == Program[t][pc[t]].n

Holds(t, m) == Inside(t, m, pc[t])

Waiting(t, kind, x) == status[t] = kind /\ Arg(t) = x

Init ==
  /\ running \in Boots
  /\ status = [t \in Task |-> IF t = running THEN "ready" ELSE "dormant"]
  /\ pc = [t \in Task |-> 1]
  /\ base = BasePrio
  /\ spent = [t \in Task |-> 0]
  /\ live = {}
  /\ count = [s \in Sem |-> 0]
  /\ owner = [m \in Mutex |-> None]
  /\ failed = {}
  /\ arrived = <<>>
  /\ slack = 0

-----------------------------------------------------------------------------

\* A faulty variant: mutexes without priority inheritance.
Prio_noInheritance(t) == base[t]

\* The tasks that wait for a mutex of t, directly or along a chain, lend t
\* their priority.
Prio(t) ==
  LET reach[n \in Nat] ==
        IF n = 0 THEN {t}
        ELSE reach[n - 1] \cup
             {u \in Task : status[u] = "mutex" /\ owner[Arg(u)] \in reach[n - 1]}
      lenders == reach[Cardinality(Mutex)]
  IN  CHOOSE p \in {base[u] : u \in lenders} : \A u \in lenders : base[u] <= p

Top(S) == {t \in S : \A u \in S : Prio(u) <= Prio(t)}
Best == Top({t \in Task : status[t] = "ready"})

Elect == IF Best' = {} THEN running' = None ELSE running' \in Best'

\* The running task keeps the CPU against tasks of its own priority (FIFO).
Reschedule == IF running \in Best' THEN UNCHANGED running ELSE Elect

\* The tasks of S go on to their next statement.
Advance(S) ==
  /\ pc' = [t \in Task |-> IF t \in S THEN pc[t] + 1 ELSE pc[t]]
  /\ spent' = [t \in Task |-> IF t \in S THEN 0 ELSE spent[t]]

Resume(S) == status' = [t \in Task |-> IF t \in S THEN "ready" ELSE status[t]]
Block(t, kind) ==
  /\ status' = [status EXCEPT ![t] = kind]
  /\ UNCHANGED <<pc, spent>>

SemWaiters(s) == {t \in Task : Waiting(t, "sem", s)}
MutexWaiters(m) == {t \in Task : Waiting(t, "mutex", m)}

\* rt_sem_p(s, TM_INFINITE): an error for a semaphore that does not exist.
SemP(t) ==
  /\ At(t, "p")
  /\ LET s == Arg(t)
     IN  \/ /\ s \in live /\ count[s] > 0
            /\ count' = [count EXCEPT ![s] = @ - 1]
            /\ Advance({t})
            /\ UNCHANGED <<status, failed, arrived>>
         \/ /\ s \in live /\ count[s] = 0
            /\ Block(t, "sem")
            /\ arrived' = Append(arrived, t)
            /\ UNCHANGED <<count, failed>>
         \/ /\ s \notin live
            /\ failed' = failed \cup {t}
            /\ Advance({t})
            /\ UNCHANGED <<status, count, arrived>>
  /\ UNCHANGED <<base, live, owner>>

\* rt_sem_v(s): the most urgent waiter gets the unit, or it is stored.
SemV(t) ==
  /\ At(t, "v")
  /\ LET s == Arg(t)
     IN  IF SemWaiters(s) = {}
         THEN /\ count' = [count EXCEPT ![s] = @ + 1]
              /\ Advance({t})
              /\ UNCHANGED status
         ELSE \E u \in Top(SemWaiters(s)) :
                Resume({u}) /\ Advance({t, u}) /\ UNCHANGED count
  /\ UNCHANGED <<base, live, owner, failed, arrived>>

\* rt_sem_broadcast(s): every waiter goes on, and the value becomes zero.
SemBroadcast(t) ==
  /\ At(t, "broadcast")
  /\ Resume(SemWaiters(Arg(t)))
  /\ Advance({t} \cup SemWaiters(Arg(t)))
  /\ count' = [count EXCEPT ![Arg(t)] = 0]
  /\ UNCHANGED <<base, live, owner, failed, arrived>>

\* rt_sem_create(s, n, S_PRIO): an error for the name of one that exists.
SemMake(t) ==
  /\ At(t, "create")
  /\ live' = live \cup {Arg(t)}
  /\ count' = [count EXCEPT ![Arg(t)] = IF Arg(t) \in live THEN @ ELSE Num(t)]
  /\ Advance({t})
  /\ UNCHANGED <<status, base, owner, failed, arrived>>

\* rt_sem_delete(s): every waiter goes on with the error EIDRM.
SemRemove(t) ==
  /\ At(t, "delete")
  /\ live' = live \ {Arg(t)}
  /\ failed' = failed \cup SemWaiters(Arg(t))
  /\ Resume(SemWaiters(Arg(t)))
  /\ Advance({t} \cup SemWaiters(Arg(t)))
  /\ UNCHANGED <<base, count, owner, arrived>>

\* A faulty variant: acquiring does not look at the owner.
MutexAcquire_unchecked(t) ==
  /\ At(t, "acquire")
  /\ owner' = [owner EXCEPT ![Arg(t)] = t]
  /\ Advance({t})
  /\ UNCHANGED <<status, base, live, count, failed, arrived>>

\* rt_mutex_acquire(m, TM_INFINITE)
MutexAcquire(t) ==
  /\ At(t, "acquire")
  /\ LET m == Arg(t)
     IN  \/ /\ owner[m] = None
            /\ owner' = [owner EXCEPT ![m] = t]
            /\ Advance({t})
            /\ UNCHANGED status
         \/ owner[m] # None /\ Block(t, "mutex") /\ UNCHANGED owner
  /\ UNCHANGED <<base, live, count, failed, arrived>>

\* A faulty variant: the waiters go on, but the mutex is not theirs.
MutexRelease_frees(t) ==
  /\ At(t, "release")
  /\ owner' = [owner EXCEPT ![Arg(t)] = None]
  /\ Resume(MutexWaiters(Arg(t)))
  /\ Advance({t} \cup MutexWaiters(Arg(t)))
  /\ UNCHANGED <<base, live, count, failed, arrived>>

\* rt_mutex_release(m): the mutex passes to its most urgent waiter, if any.
MutexRelease(t) ==
  /\ At(t, "release")
  /\ LET m == Arg(t)
     IN  IF MutexWaiters(m) = {}
         THEN /\ owner' = [owner EXCEPT ![m] = None]
              /\ Advance({t})
              /\ UNCHANGED status
         ELSE \E u \in Top(MutexWaiters(m)) :
                /\ owner' = [owner EXCEPT ![m] = u]
                /\ Resume({u})
                /\ Advance({t, u})
  /\ UNCHANGED <<base, live, count, failed, arrived>>

TaskSleep(t) ==
  /\ At(t, "sleep")
  /\ Block(t, "sleep")
  /\ UNCHANGED <<base, live, count, owner, failed, arrived>>

SpinEnd(t) ==
  /\ At(t, "spin")
  /\ spent[t] >= Num(t)
  /\ Advance({t})
  /\ UNCHANGED <<status, base, live, count, owner, failed, arrived>>

TaskStart(t) ==
  /\ At(t, "start")
  /\ Resume({Arg(t)} \cap {u \in Task : status[u] = "dormant"})
  /\ Advance({t})
  /\ UNCHANGED <<base, live, count, owner, failed, arrived>>

\* rt_task_join(u): undefined for a task that is not joinable; the join fails
\* at once or waits.
TaskJoin(t) ==
  /\ At(t, "join")
  /\ LET u == Arg(t)
     IN  \/ /\ status[u] = "dead" \/ u \notin Joinable
            /\ Advance({t})
            /\ UNCHANGED status
         \/ status[u] # "dead" /\ Block(t, "join")
  /\ UNCHANGED <<base, live, count, owner, failed, arrived>>

\* The task function returns.
TaskReturn(t) ==
  /\ pc[t] = Len(Program[t]) + 1
  /\ LET joiners == {u \in Task : Waiting(u, "join", t)}
     IN  /\ status' = [u \in Task |-> IF u = t THEN "dead"
                                      ELSE IF u \in joiners THEN "ready"
                                      ELSE status[u]]
         /\ Advance(joiners)
  /\ UNCHANGED <<base, live, count, owner, failed, arrived>>

Call(t) ==
  /\ running = t
  /\ \/ SemP(t) \/ SemV(t) \/ SemBroadcast(t) \/ SemMake(t) \/ SemRemove(t)
     \/ MutexAcquire(t) \/ MutexRelease(t)
     \/ TaskSleep(t) \/ SpinEnd(t) \/ TaskStart(t) \/ TaskJoin(t) \/ TaskReturn(t)
  /\ Reschedule
  /\ UNCHANGED slack

\* rt_task_set_priority(self, n): the caller goes to the tail of its new
\* priority, so a task of equal priority may take the CPU.
TaskSetPriority(t) ==
  /\ running = t
  /\ At(t, "setprio")
  /\ base' = [base EXCEPT ![t] = Num(t)]
  /\ Advance({t})
  /\ UNCHANGED <<status, live, count, owner, failed, arrived, slack>>
  /\ Elect

\* while(1){}
SpinForever(t) == running = t /\ At(t, "forever") /\ UNCHANGED vars

\* The timer interrupt that ends a sleep, on time or late.
Wake(t) ==
  /\ status[t] = "sleep"
  /\ spent[t] >= Num(t)
  /\ Resume({t})
  /\ Advance({t})
  /\ UNCHANGED <<base, live, count, owner, failed, arrived, slack>>
  /\ Reschedule

Spinning(t) == t = running /\ At(t, "spin") /\ spent[t] < Num(t)
Sleeping(t) == status[t] = "sleep"

\* Nothing is late: the CPU is in a busy wait or idle, and no sleep is over.
OnTime ==
  /\ running = None \/ Spinning(running)
  /\ \A t \in Task : Sleeping(t) => spent[t] < Num(t)

\* One unit passes; it is overhead unless everything is on time.
Tick ==
  /\ IF OnTime
     THEN (\E t \in Task : Spinning(t) \/ Sleeping(t)) /\ UNCHANGED slack
     ELSE slack < Slack /\ slack' = slack + 1
  /\ spent' = [t \in Task |->
                 IF Spinning(t) \/ status[t] \in {"sleep", "sem", "mutex"}
                 THEN spent[t] + 1 ELSE spent[t]]
  /\ UNCHANGED <<status, pc, running, base, live, count, owner, failed, arrived>>

Next ==
  \/ \E t \in Task : Call(t) \/ TaskSetPriority(t) \/ SpinForever(t) \/ Wake(t)
  \/ Tick

\* The CPU executes and the clock runs.
Spec == Init /\ [][Next]_vars /\ WF_vars(Next)

-----------------------------------------------------------------------------

TypeOK ==
  /\ status \in [Task -> {"dormant", "ready", "sleep", "sem", "mutex", "join", "dead"}]
  /\ pc \in [Task -> Nat] /\ \A t \in Task : pc[t] \in 1 .. Len(Program[t]) + 1
  /\ running \in Task \cup {None}
  /\ base \in [Task -> Nat] /\ spent \in [Task -> Nat]
  /\ live \subseteq Sem /\ count \in [Sem -> Nat]
  /\ owner \in [Mutex -> Task \cup {None}]
  /\ failed \subseteq Task /\ arrived \in Seq(Task)
  /\ slack \in 0 .. Slack

\* The CPU is with one of the most urgent tasks that can use it, inherited
\* priorities counted, and idle only while nobody can.
MostUrgentRuns == IF running = None THEN Best = {} ELSE running \in Best

\* A blocked task is at the call that blocks it.
BlockedAtCall ==
  \A t \in Task :
    /\ status[t] = "sem" => At(t, "p") /\ Arg(t) \in live
    /\ status[t] = "mutex" => At(t, "acquire")
    /\ status[t] = "sleep" => At(t, "sleep")
    /\ status[t] = "join" => At(t, "join")

\* The kernel's owner of a mutex is the task whose program is between the
\* acquisition and the release, through every hand-over.
OwnerInside == \A t \in Task, m \in Mutex : owner[m] = t <=> Holds(t, m)

\* No wake-up is lost: a task waits for a semaphore only while its value is
\* zero, and for a mutex only while another task is inside it.
WaitersHaveReason ==
  \A t \in Task :
    /\ status[t] = "sem" => count[Arg(t)] = 0
    /\ status[t] = "mutex" => owner[Arg(t)] \notin {None, t}

\* A task that has not been started is at its first statement, one that has
\* returned past its last, one that waits for a semaphore has come to it, and
\* nobody joins a task that has returned.
StatusFitsPlace ==
  \A t \in Task :
    /\ status[t] = "dormant" => pc[t] = 1
    /\ status[t] = "dead" => pc[t] = Len(Program[t]) + 1
    /\ status[t] = "sem" => \E i \in DOMAIN arrived : arrived[i] = t
    /\ status[t] = "join" => status[Arg(t)] # "dead"

\* Time is counted for those who sleep, wait or spin, and from nothing.
NothingSpent ==
  \A t \in Task :
    status[t] = "dormant" \/ (status[t] = "ready" /\ ~At(t, "spin")) => spent[t] = 0

\* A task's own priority is the one it has last set, or was created with.
BaseAsSet ==
  \A t \in Task :
    LET set == {i \in 1 .. pc[t] - 1 : Program[t][i].op = "setprio"}
    IN  \/ set = {} /\ base[t] = BasePrio[t]
        \/ \E i \in set : base[t] = Program[t][i].n /\ \A j \in set : j <= i

\* The strengthening the proofs are inductive on.
KernelInv ==
  /\ TypeOK /\ MostUrgentRuns /\ BlockedAtCall /\ OwnerInside
  /\ WaitersHaveReason /\ StatusFitsPlace /\ NothingSpent /\ BaseAsSet

\* Two tasks are never between the acquisition and the release of one mutex
\* (TaskC.c:43-55 and 90-99, TaskD.c, TaskE.c).
MutualExclusion ==
  \A t, u \in Task, m \in Mutex : Holds(t, m) /\ Holds(u, m) => t = u
=============================================================================
