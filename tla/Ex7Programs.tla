---------------------------- MODULE Ex7Programs ----------------------------
(***************************************************************************)
(* The five programs of Ex7 on one kernel: a run is a run of one of them,  *)
(* the one whose boot task is ready at the start.  The tasks of the other  *)
(* programs stay dormant.                                                  *)
(***************************************************************************)
EXTENDS XenomaiKernel

CONSTANT SLEEP_PERIOD   \* in TIME_UNITs; long enough to outlast the work

A == INSTANCE SemBarrier
B == INSTANCE PriorityInversion
C == INSTANCE PriorityInheritance
D == INSTANCE NestedLocks
E == INSTANCE CeilingProtocol

BootTasks == {"A.thread3", "B.barrier", "C.barrier", "D.barrier", "E.barrier"}

Tasks == A!Tasks \cup B!Tasks \cup C!Tasks \cup D!Tasks \cup E!Tasks
Sems == A!Sems \cup B!Sems \cup C!Sems \cup D!Sems \cup E!Sems
Mutexes == C!Mutexes \cup D!Mutexes \cup E!Mutexes
Joinables ==
  A!Joinables \cup B!Joinables \cup C!Joinables \cup D!Joinables \cup E!Joinables

Programs ==
  [t \in Tasks |-> CASE t \in A!Tasks -> A!Programs[t] [] t \in B!Tasks -> B!Programs[t]
                     [] t \in C!Tasks -> C!Programs[t] [] t \in D!Tasks -> D!Programs[t]
                     [] OTHER -> E!Programs[t]]
Priorities ==
  [t \in Tasks |-> CASE t \in A!Tasks -> A!Priorities[t] [] t \in B!Tasks -> B!Priorities[t]
                     [] t \in C!Tasks -> C!Priorities[t] [] t \in D!Tasks -> D!Priorities[t]
                     [] OTHER -> E!Priorities[t]]

\* The kernel runs these programs; a run may be limited to some of them.
ASSUME ProgramsAssumption ==
  /\ Task = Tasks /\ Sem = Sems /\ Mutex = Mutexes
  /\ Program = Programs /\ BasePrio = Priorities /\ Joinable = Joinables
  /\ Boots \subseteq BootTasks /\ SLEEP_PERIOD \in Nat

-----------------------------------------------------------------------------
(* TaskA *)

\* A thread that has really been let through by the broadcast.
Passed(t) == pc[t] > 1 /\ t \notin failed

\* Whoever passes was waiting when the semaphore was broadcast: a thread that
\* comes later never goes through on its own (TaskA.c:60, value 0 at 46).
PassedWereWaiting ==
  \A t \in {"A.thread1", "A.thread2"} :
    Passed(t) => pc["A.thread3"] > 5 /\ \E i \in DOMAIN arrived : arrived[i] = t

-----------------------------------------------------------------------------
(* TaskB and TaskC *)

\* No task of TaskB misses the start signal: when the barrier has broadcast,
\* every task has left the gate (TaskB.c:103-106; a broadcast is not remembered).
NobodyMissesBroadcast ==
  pc["B.barrier"] > 7 => \A t \in B!Joinables : pc[t] > 1

\* A broadcast starts those who wait at that moment and nobody else, in TaskA,
\* and in TaskB that is everybody.
BroadcastStarts == PassedWereWaiting /\ NobodyMissesBroadcast

HighHasResource == pc["B.high"] \in 4 .. 5

\* The inversion itself: high is never handed the resource while med, which
\* needs nothing high waits for, is in its work, so high waits for the rest of
\* it too (TaskB.c:63 against 75).
MedGoesBeforeHigh ==
  [][Waiting("B.high", "sem", "semaphoreResource") /\ HighHasResource'
       => ~At("B.med", "spin")]_vars

\* The inversion is gone: while high waits for the mutex, the CPU is its
\* owner's and never med's (TaskC.c:90 against 72-75).
OwnerRunsForHigh ==
  \A m \in C!Mutexes : Waiting("C.high", "mutex", m) => running = owner[m]

-----------------------------------------------------------------------------
(* TaskD *)

\* Low has A and not yet B, high has B and not yet A.
Embrace ==
  /\ Holds("D.low", "mutexA") /\ ~Holds("D.low", "mutexB")
  /\ Holds("D.high", "mutexB") /\ ~Holds("D.high", "mutexA")
  /\ pc["D.low"] <= 4 /\ pc["D.high"] <= 5

\* No program stops before its end but TaskD, in the circular wait of its two
\* nested sections, the barrier then waiting in its join for ever (TaskD.c:51,
\* 84, 127), and TaskA, which ends or hangs in an undefined join.
StuckOnlyInEmbrace ==
  (\A t \in Task : status[t] \notin {"ready", "sleep"}) =>
    \/ status["A.thread3"] # "dormant"
    \/ /\ Embrace
       /\ Waiting("D.low", "mutex", "mutexB") /\ Waiting("D.high", "mutex", "mutexA")
       /\ status["D.barrier"] = "join"

\* The deadlock is settled long before anyone waits: from the moment both hold
\* their first mutex, neither ever gets the other one (TaskD.c:44-51, 77-84).
EmbraceIsForever == [][Embrace => Embrace']_vars

-----------------------------------------------------------------------------
(* TaskE *)

\* high may still find A taken, because low is back at priority 1 before it
\* unlocks A (TaskE.c:102-106), but then it waits for the unlocking only, never
\* for a unit of low's work.
HighWaitsForNoWork ==
  \A m \in E!Mutexes : Waiting("E.high", "mutex", m) => spent["E.high"] <= Slack

\* TaskE.c:46: "Set the tasks current priority to the resource's priority".
\* A task that holds one resource and is not inside icpp_lock or icpp_unlock is
\* at the priority of that resource.
CeilingHeld ==
  \A t \in E!Tasks, m \in E!Mutexes :
    {r \in E!Mutexes : Holds(t, r)} = {m} /\ ~At(t, "setprio") /\ ~At(t, "acquire")
      => base[t] = E!Ceiling[m]

-----------------------------------------------------------------------------
(* What the proofs need besides KernelInv *)

\* A run is a run of one program, whose boot task never returns but in TaskA.
OneProgram ==
  /\ \E F \in {A!Tasks, B!Tasks, C!Tasks, D!Tasks, E!Tasks} :
       /\ \A t \in Task \ F : status[t] = "dormant"
       /\ \E b \in F \cap BootTasks : status[b] # "dormant"
  /\ \A b \in BootTasks \ {"A.thread3"} : pc[b] <= Len(Program[b])

\* Statement start of b starts t, and statement broadcast of b finds t waiting,
\* because b, at priority 0, runs while t does not (TaskB.c:98-106).
Gate(t, b, start, broadcast) ==
  /\ status[t] = "dormant" <=> pc[b] <= start
  /\ pc[b] > broadcast => pc[t] > 1

GatesOpen ==
  /\ Gate("B.low", "B.barrier", 3, 7) /\ Gate("B.med", "B.barrier", 4, 7)
  /\ Gate("B.high", "B.barrier", 5, 7)
  /\ Gate("C.low", "C.barrier", 2, 6) /\ Gate("C.med", "C.barrier", 3, 6)
  /\ Gate("C.high", "C.barrier", 4, 6)
  /\ Gate("D.low", "D.barrier", 2, 5) /\ Gate("D.high", "D.barrier", 3, 5)
  /\ Gate("E.low", "E.barrier", 2, 5) /\ Gate("E.high", "E.barrier", 3, 5)

\* The unit of TaskB's resource is stored, or with the one task that is past
\* rt_sem_p and not past rt_sem_v (TaskB.c:41-49, 75-83).
ResourceIsCounted ==
  LET lowHas == pc["B.low"] \in 3 .. 4
      highHas == pc["B.high"] \in 4 .. 5
  IN  /\ "semaphoreResource" \in live <=> pc["B.barrier"] > 2
      /\ pc["B.barrier"] > 2 =>
           \/ count["semaphoreResource"] = 1 /\ ~lowHas /\ ~highHas
           \/ count["semaphoreResource"] = 0 /\ (lowHas <=> ~highHas)

\* The ceilings keep high out of its sections until low is done with the work
\* in its own, and low out of them until high is at its last busy wait.
CeilingsOrder ==
  pc["E.high"] \in 4 .. 13 => pc["E.low"] \in {1, 2} \cup 9 .. 12

\* What high waits for a mutex is all overhead.
WaitsInSlack == status["E.high"] = "mutex" => spent["E.high"] <= slack

\* The strengthening the proofs about the five programs are inductive on.
ProgramsInv ==
  /\ KernelInv /\ OneProgram /\ GatesOpen /\ PassedWereWaiting
  /\ count["semaphore1"] = 0 /\ ResourceIsCounted /\ CeilingsOrder /\ WaitsInSlack

-----------------------------------------------------------------------------

\* Nobody is left behind in TaskA: even a thread that missed the broadcast comes
\* to its end, because thread3 deletes the semaphore without waiting for it
\* (TaskA.c:67-71), unless a join on a thread that cannot be joined waits.
EndA == (\A t \in A!Tasks : status[t] = "dead") \/ status["A.thread3"] = "join"

InLastLoop(t) == At(t, "forever")

\* Every program ends: TaskD in the embrace if not in the last loop of its
\* barrier (TaskD.c:127-129), TaskE with both tasks joined, "No deadlock"
\* (TaskE.c:112, 164, 199-202), TaskB and TaskC in that last loop too.
EveryProgramEnds ==
  /\ <>[](status["A.thread3"] = "dormant" \/ EndA)
  /\ <>[](status["B.barrier"] = "dormant" \/ InLastLoop("B.barrier"))
  /\ <>[](status["C.barrier"] = "dormant" \/ InLastLoop("C.barrier"))
  /\ <>[](status["D.barrier"] = "dormant" \/ Embrace \/ InLastLoop("D.barrier"))
  /\ <>[](\/ status["E.barrier"] = "dormant"
          \/ InLastLoop("E.barrier") /\ \A t \in E!Joinables : status[t] = "dead")
=============================================================================
