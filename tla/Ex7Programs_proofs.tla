-------------------------- MODULE Ex7Programs_proofs --------------------------
(***************************************************************************)
(* First, for every set of tasks and every program that satisfies          *)
(* KernelAssumption: a mutex is owned by the task whose program is inside  *)
(* it and by no other, nobody waits without a reason, and the most urgent  *)
(* task runs.  Then the five programs of Ex7, for every bound on the       *)
(* overhead and every SLEEP_PERIOD.                                        *)
(***************************************************************************)
EXTENDS Ex7Programs, FiniteSetTheorems, WellFoundedInduction, TLAPS

-----------------------------------------------------------------------------
(* The calls, for all programs *)

\* The part of the invariant the calls preserve whoever is scheduled.
CallTypes ==
  /\ status \in [Task -> {"dormant", "ready", "sleep", "sem", "mutex", "join", "dead"}]
  /\ pc \in [Task -> Nat] /\ \A t \in Task : pc[t] \in 1 .. Len(Program[t]) + 1
  /\ base \in [Task -> Nat] /\ spent \in [Task -> Nat]
  /\ live \subseteq Sem /\ count \in [Sem -> Nat]
  /\ owner \in [Mutex -> Task \cup {None}]
  /\ failed \subseteq Task /\ arrived \in Seq(Task)

CallInv == CallTypes /\ BlockedAtCall /\ OwnerInside /\ WaitersHaveReason

-----------------------------------------------------------------------------

\* Going past statement i enters a mutex by its acquisition, leaves it by its
\* release and changes nothing else.
LEMMA InsideStep ==
  ASSUME NEW t, NEW m, NEW i \in Nat, i >= 1
  PROVE  Inside(t, m, i + 1) <=>
           \/ Program[t][i].op = "acquire" /\ Program[t][i].arg = m
           \/ /\ Inside(t, m, i)
              /\ ~(Program[t][i].op = "release" /\ Program[t][i].arg = m)
<1> DEFINE Acq(a) == Program[t][a].op = "acquire" /\ Program[t][a].arg = m
           Rel(a) == Program[t][a].op = "release" /\ Program[t][a].arg = m
<1>1. Inside(t, m, i + 1) <=> \E a \in 1 .. i : Acq(a) /\ \A r \in a + 1 .. i : ~Rel(r)
  BY DEF Inside
<1>2. Inside(t, m, i) <=> \E a \in 1 .. i - 1 : Acq(a) /\ \A r \in a + 1 .. i - 1 : ~Rel(r)
  BY DEF Inside
<1>3. ~(Acq(i) /\ Rel(i))
  OBVIOUS
<1> HIDE DEF Acq, Rel
<1>4. ASSUME NEW a \in 1 .. i, Acq(a), \A r \in a + 1 .. i : ~Rel(r)
      PROVE  \/ Acq(i)
             \/ ~Rel(i) /\ \E b \in 1 .. i - 1 : Acq(b) /\ \A r \in b + 1 .. i - 1 : ~Rel(r)
  <2>1. CASE a = i
    BY <1>4, <2>1
  <2>2. CASE a # i
    <3>1. a \in 1 .. i - 1 /\ i \in a + 1 .. i
      BY <2>2
    <3>2. QED
      BY <1>4, <3>1
  <2>3. QED
    BY <2>1, <2>2
<1>5. ASSUME Acq(i) PROVE \E a \in 1 .. i : Acq(a) /\ \A r \in a + 1 .. i : ~Rel(r)
  <2>1. i \in 1 .. i /\ i + 1 .. i = {}
    OBVIOUS
  <2>2. QED
    BY <1>5, <2>1
<1>6. ASSUME NEW a \in 1 .. i - 1, Acq(a), \A r \in a + 1 .. i - 1 : ~Rel(r), ~Rel(i)
      PROVE  \E b \in 1 .. i : Acq(b) /\ \A r \in b + 1 .. i : ~Rel(r)
  <2>1. \A r \in a + 1 .. i : r = i \/ r \in a + 1 .. i - 1
    OBVIOUS
  <2>2. QED
    BY <1>6, <2>1
<1>7. QED
  BY <1>1, <1>2, <1>3, <1>4, <1>5, <1>6 DEF Acq, Rel

\* The instruction a task is at is well-formed and obeys the lock discipline.
LEMMA Statement ==
  ASSUME CallTypes, NEW t \in Task, pc[t] <= Len(Program[t])
  PROVE  /\ pc[t] \in 1 .. Len(Program[t])
         /\ WellFormed(Program[t][pc[t]]) /\ Num(t) \in Nat
         /\ At(t, "acquire") => ~Inside(t, Arg(t), pc[t])
         /\ At(t, "release") => Inside(t, Arg(t), pc[t])
<1>1. pc[t] \in 1 .. Len(Program[t])
  BY KernelAssumption DEF CallTypes
<1>2. /\ WellFormed(Program[t][pc[t]]) /\ Program[t][pc[t]].n \in Nat
      /\ Program[t][pc[t]].op = "acquire" => ~Inside(t, Program[t][pc[t]].arg, pc[t])
      /\ Program[t][pc[t]].op = "release" => Inside(t, Program[t][pc[t]].arg, pc[t])
  BY <1>1, KernelAssumption
<1>3. QED
  BY <1>1, <1>2 DEF At, Arg, Num

\* A task that does not move is at the same call.
LEMMA SamePlace ==
  ASSUME NEW t \in Task, pc'[t] = pc[t]
  PROVE  /\ \A op : At(t, op)' <=> At(t, op)
         /\ Arg(t)' = Arg(t)
  BY DEF At, Arg

\* What Advance does to the positions, and to the mutexes tasks are inside.
LEMMA AdvanceEffect ==
  ASSUME CallTypes, NEW S \in SUBSET Task, Advance(S),
         \A t \in S : pc[t] <= Len(Program[t])
  PROVE  /\ pc' \in [Task -> Nat] /\ spent' \in [Task -> Nat]
         /\ \A t \in Task : pc'[t] \in 1 .. Len(Program[t]) + 1
         /\ \A t \in Task \ S : pc'[t] = pc[t]
         /\ \A t \in Task, m \in Mutex :
              Holds(t, m)' <=>
                IF t \in S
                THEN \/ At(t, "acquire") /\ Arg(t) = m
                     \/ Holds(t, m) /\ ~(At(t, "release") /\ Arg(t) = m)
                ELSE Holds(t, m)
<1>1. \A t \in Task : /\ pc[t] \in Nat /\ pc[t] >= 1 /\ pc[t] <= Len(Program[t]) + 1
                      /\ Len(Program[t]) \in Nat
  BY KernelAssumption DEF CallTypes
<1>2. pc' \in [Task -> Nat] /\ spent' \in [Task -> Nat]
  BY <1>1 DEF Advance, CallTypes
<1>3. \A t \in Task : /\ pc'[t] \in 1 .. Len(Program[t]) + 1
                      /\ t \notin S => pc'[t] = pc[t]
                      /\ t \in S => pc'[t] = pc[t] + 1
  BY <1>1 DEF Advance
<1>4. ASSUME NEW t \in Task, NEW m \in Mutex
      PROVE  Holds(t, m)' <=>
               IF t \in S
               THEN \/ At(t, "acquire") /\ Arg(t) = m
                    \/ Holds(t, m) /\ ~(At(t, "release") /\ Arg(t) = m)
               ELSE Holds(t, m)
  <2>1. Holds(t, m)' <=> Inside(t, m, pc'[t])
    BY DEF Holds, Inside
  <2>2. CASE t \notin S
    BY <1>3, <2>1, <2>2 DEF Holds
  <2>3. CASE t \in S
    BY <1>1, <1>3, <2>1, <2>3, InsideStep DEF Holds, At, Arg
  <2>4. QED
    BY <2>2, <2>3
<1>5. QED
  BY <1>2, <1>3, <1>4

-----------------------------------------------------------------------------

\* A call that lets the tasks of S, none of them at a mutex call, go on and
\* blocks nobody.
LEMMA GoOn ==
  ASSUME CallInv, NEW S \in SUBSET Task, Advance(S), UNCHANGED owner,
         \A t \in S : /\ pc[t] <= Len(Program[t])
                      /\ ~At(t, "acquire") /\ ~At(t, "release"),
         status' \in [Task -> {"dormant", "ready", "sleep", "sem", "mutex", "join", "dead"}],
         \A t \in Task : status'[t] \in {"sem", "mutex", "sleep", "join"}
                           => t \notin S /\ status'[t] = status[t],
         \A t \in Task : status'[t] = "sem" => Arg(t) \in live' /\ count'[Arg(t)] = 0,
         base' \in [Task -> Nat], live' \subseteq Sem, count' \in [Sem -> Nat],
         failed' \subseteq Task, arrived' \in Seq(Task)
  PROVE  CallInv'
<1>1. /\ pc' \in [Task -> Nat] /\ spent' \in [Task -> Nat]
      /\ \A t \in Task : pc'[t] \in 1 .. Len(Program[t]) + 1
      /\ \A t \in Task \ S : pc'[t] = pc[t]
      /\ \A t \in Task, m \in Mutex : Holds(t, m)' <=> Holds(t, m)
  BY AdvanceEffect DEF CallInv
<1>2. CallTypes'
  BY <1>1 DEF CallInv, CallTypes
<1>3. OwnerInside'
  BY <1>1 DEF CallInv, OwnerInside
<1>4. ASSUME NEW t \in Task, status'[t] \in {"sem", "mutex", "sleep", "join"}
      PROVE  /\ status[t] = status'[t]
             /\ \A op : At(t, op)' <=> At(t, op)
             /\ Arg(t)' = Arg(t)
  BY <1>1, <1>4, SamePlace
<1>5. BlockedAtCall'
  BY <1>4 DEF CallInv, BlockedAtCall
<1>6. WaitersHaveReason'
  BY <1>4 DEF CallInv, WaitersHaveReason
<1>7. QED
  BY <1>2, <1>3, <1>5, <1>6 DEF CallInv

\* A call in which the calling task blocks.
LEMMA BlockCaller ==
  ASSUME CallInv, NEW t \in Task, NEW kind \in {"sem", "mutex", "sleep", "join"},
         Block(t, kind), UNCHANGED <<base, live, count, owner, failed>>,
         arrived' \in Seq(Task),
         kind = "sem" => At(t, "p") /\ Arg(t) \in live /\ count[Arg(t)] = 0,
         kind = "mutex" => At(t, "acquire") /\ owner[Arg(t)] \notin {None, t},
         kind = "sleep" => At(t, "sleep"),
         kind = "join" => At(t, "join")
  PROVE  CallInv'
<1>1. /\ status' = [status EXCEPT ![t] = kind] /\ pc' = pc /\ spent' = spent
      /\ live' = live /\ count' = count /\ owner' = owner
  BY DEF Block
<1>2. CallTypes'
  BY <1>1 DEF CallInv, CallTypes
<1>3. \A u \in Task : /\ status'[u] = IF u = t THEN kind ELSE status[u]
                      /\ \A op : At(u, op)' <=> At(u, op)
                      /\ Arg(u)' = Arg(u)
  BY <1>1, SamePlace DEF CallInv, CallTypes
<1>4. BlockedAtCall'
  BY <1>1, <1>3 DEF CallInv, BlockedAtCall
<1>5. OwnerInside'
  BY <1>1 DEF CallInv, OwnerInside, Holds, Inside
<1>6. WaitersHaveReason'
  BY <1>1, <1>3 DEF CallInv, WaitersHaveReason
<1>7. QED
  BY <1>2, <1>4, <1>5, <1>6 DEF CallInv

-----------------------------------------------------------------------------

\* Who waits for a semaphore waits at its rt_sem_p, and the value is zero.
LEMMA SemWaiting ==
  ASSUME CallInv, NEW t \in Task, status[t] = "sem"
  PROVE  /\ Arg(t) \in live /\ count[Arg(t)] = 0
         /\ pc[t] <= Len(Program[t]) /\ ~At(t, "acquire") /\ ~At(t, "release")
  BY DEF CallInv, BlockedAtCall, WaitersHaveReason, At

\* The calls of a ready task, one lemma each.
LEMMA SemPInv ==
  ASSUME CallInv, NEW t \in Task, status[t] = "ready", SemP(t)
  PROVE  CallInv'
<1>1. /\ At(t, "p") /\ Arg(t) \in Sem /\ pc[t] <= Len(Program[t])
      /\ ~At(t, "acquire") /\ ~At(t, "release")
  BY Statement DEF SemP, CallInv, At, Arg, WellFormed
<1>2. UNCHANGED <<base, live, owner>> /\ CallTypes
  BY DEF SemP, CallInv
<1>3. CASE Arg(t) \in live /\ count[Arg(t)] > 0
  <2>1. /\ count' = [count EXCEPT ![Arg(t)] = @ - 1] /\ Advance({t})
        /\ UNCHANGED <<status, failed, arrived>>
    BY <1>2, <1>3 DEF SemP, CallTypes
  <2>2. count' \in [Sem -> Nat]
    BY <1>1, <1>2, <1>3, <2>1 DEF CallTypes
  <2>3. \A u \in Task : status'[u] = "sem" => Arg(u) \in live' /\ count'[Arg(u)] = 0
    BY <1>1, <1>2, <1>3, <2>1, SemWaiting DEF CallTypes
  <2>4. QED
    BY <1>1, <1>2, <2>1, <2>2, <2>3, GoOn DEF CallTypes
<1>4. CASE Arg(t) \in live /\ count[Arg(t)] = 0
  <2>1. /\ Block(t, "sem") /\ arrived' = Append(arrived, t)
        /\ UNCHANGED <<count, failed>>
    BY <1>2, <1>4 DEF SemP, CallTypes
  <2>2. arrived' \in Seq(Task)
    BY <1>2, <2>1 DEF CallTypes
  <2>3. QED
    BY <1>1, <1>2, <1>4, <2>1, <2>2, BlockCaller
<1>5. CASE Arg(t) \notin live
  <2>1. /\ failed' = failed \cup {t} /\ Advance({t})
        /\ UNCHANGED <<status, count, arrived>>
    BY <1>2, <1>5 DEF SemP
  <2>2. \A u \in Task : status'[u] = "sem" => Arg(u) \in live' /\ count'[Arg(u)] = 0
    BY <1>2, <2>1, SemWaiting
  <2>3. QED
    BY <1>1, <1>2, <2>1, <2>2, GoOn DEF CallTypes
<1>6. QED
  BY <1>1, <1>2, <1>3, <1>4, <1>5 DEF CallTypes

LEMMA SemVInv ==
  ASSUME CallInv, NEW t \in Task, status[t] = "ready", SemV(t)
  PROVE  CallInv'
<1>1. /\ Arg(t) \in Sem /\ pc[t] <= Len(Program[t])
      /\ ~At(t, "acquire") /\ ~At(t, "release")
  BY Statement DEF SemV, CallInv, At, Arg, WellFormed
<1>2. UNCHANGED <<base, live, owner, failed, arrived>> /\ CallTypes
  BY DEF SemV, CallInv
<1>3. CASE SemWaiters(Arg(t)) = {}
  <2>1. /\ count' = [count EXCEPT ![Arg(t)] = @ + 1] /\ Advance({t})
        /\ UNCHANGED status
    BY <1>3 DEF SemV
  <2>2. count' \in [Sem -> Nat]
    BY <1>1, <1>2, <2>1 DEF CallTypes
  <2>3. \A u \in Task : status'[u] = "sem" => Arg(u) \in live' /\ count'[Arg(u)] = 0
    BY <1>1, <1>2, <1>3, <2>1, SemWaiting DEF CallTypes, SemWaiters, Waiting
  <2>4. QED
    BY <1>1, <1>2, <2>1, <2>2, <2>3, GoOn DEF CallTypes
<1>4. CASE SemWaiters(Arg(t)) # {}
  <2>1. PICK u \in Task : /\ status[u] = "sem" /\ Resume({u}) /\ Advance({t, u})
                          /\ UNCHANGED count
    BY <1>4 DEF SemV, Top, SemWaiters, Waiting
  <2>2. \A v \in Task : status'[v] = IF v = u THEN "ready" ELSE status[v]
    BY <2>1 DEF Resume
  <2>3. status' \in [Task -> {"dormant", "ready", "sleep", "sem", "mutex", "join", "dead"}]
    BY <1>2, <2>1 DEF Resume, CallTypes
  <2>4. \A v \in Task : status'[v] = "sem" => Arg(v) \in live' /\ count'[Arg(v)] = 0
    BY <1>2, <2>1, <2>2, SemWaiting
  <2>5. \A v \in {t, u} : /\ pc[v] <= Len(Program[v])
                          /\ ~At(v, "acquire") /\ ~At(v, "release")
    BY <1>1, <2>1, SemWaiting
  <2>6. \A v \in Task : status'[v] \in {"sem", "mutex", "sleep", "join"}
                          => v \notin {t, u} /\ status'[v] = status[v]
    BY <2>2
  <2>7. QED
    BY <1>2, <2>1, <2>3, <2>4, <2>5, <2>6, GoOn DEF CallTypes
<1>5. QED
  BY <1>3, <1>4

LEMMA SemBroadcastInv ==
  ASSUME CallInv, NEW t \in Task, status[t] = "ready", SemBroadcast(t)
  PROVE  CallInv'
<1> DEFINE S == {t} \cup SemWaiters(Arg(t))
<1>1. /\ Arg(t) \in Sem /\ pc[t] <= Len(Program[t])
      /\ ~At(t, "acquire") /\ ~At(t, "release")
  BY Statement DEF SemBroadcast, CallInv, At, Arg, WellFormed
<1>2. /\ UNCHANGED <<base, live, owner, failed, arrived>> /\ CallTypes
      /\ count' = [count EXCEPT ![Arg(t)] = 0] /\ Advance(S)
      /\ Resume(SemWaiters(Arg(t)))
  BY DEF SemBroadcast, CallInv
<1>3. \A u \in Task : status'[u] = IF u \in SemWaiters(Arg(t)) THEN "ready" ELSE status[u]
  BY <1>2 DEF Resume
<1>4. status' \in [Task -> {"dormant", "ready", "sleep", "sem", "mutex", "join", "dead"}]
  BY <1>2 DEF Resume, CallTypes
<1>5. \A u \in S : /\ u \in Task /\ pc[u] <= Len(Program[u])
                   /\ ~At(u, "acquire") /\ ~At(u, "release")
  BY <1>1, SemWaiting DEF SemWaiters, Waiting
<1>6. \A u \in Task : status'[u] \in {"sem", "mutex", "sleep", "join"}
                        => u \notin S /\ status'[u] = status[u]
  BY <1>3
<1>7. \A u \in Task : status'[u] = "sem" => Arg(u) \in live' /\ count'[Arg(u)] = 0
  BY <1>1, <1>2, <1>3, SemWaiting DEF CallTypes
<1>8. count' \in [Sem -> Nat]
  BY <1>1, <1>2 DEF CallTypes
<1> HIDE DEF S
<1>9. QED
  BY <1>2, <1>4, <1>5, <1>6, <1>7, <1>8, GoOn DEF CallTypes

LEMMA SemMakeInv ==
  ASSUME CallInv, NEW t \in Task, status[t] = "ready", SemMake(t)
  PROVE  CallInv'
<1>1. /\ Arg(t) \in Sem /\ pc[t] <= Len(Program[t]) /\ Num(t) \in Nat
      /\ ~At(t, "acquire") /\ ~At(t, "release")
  BY Statement DEF SemMake, CallInv, At, Arg, WellFormed
<1>2. /\ UNCHANGED <<status, base, owner, failed, arrived>> /\ CallTypes
      /\ live' = live \cup {Arg(t)} /\ Advance({t})
      /\ count' = [count EXCEPT ![Arg(t)] = IF Arg(t) \in live THEN @ ELSE Num(t)]
  BY DEF SemMake, CallInv
<1>3. live' \subseteq Sem /\ count' \in [Sem -> Nat]
  BY <1>1, <1>2 DEF CallTypes
<1>4. \A u \in Task : status'[u] = "sem" => Arg(u) \in live' /\ count'[Arg(u)] = 0
  BY <1>1, <1>2, SemWaiting DEF CallTypes
<1>5. QED
  BY <1>1, <1>2, <1>3, <1>4, GoOn DEF CallTypes

LEMMA SemRemoveInv ==
  ASSUME CallInv, NEW t \in Task, status[t] = "ready", SemRemove(t)
  PROVE  CallInv'
<1> DEFINE W == SemWaiters(Arg(t))
           S == {t} \cup W
<1>1. /\ Arg(t) \in Sem /\ pc[t] <= Len(Program[t])
      /\ ~At(t, "acquire") /\ ~At(t, "release")
  BY Statement DEF SemRemove, CallInv, At, Arg, WellFormed
<1>2. /\ UNCHANGED <<base, count, owner, arrived>> /\ CallTypes
      /\ live' = live \ {Arg(t)} /\ failed' = failed \cup W
      /\ Resume(W) /\ Advance(S)
  BY DEF SemRemove, CallInv
<1>3. \A u \in Task : status'[u] = IF u \in W THEN "ready" ELSE status[u]
  BY <1>2 DEF Resume
<1>4. status' \in [Task -> {"dormant", "ready", "sleep", "sem", "mutex", "join", "dead"}]
  BY <1>2 DEF Resume, CallTypes
<1>5. \A u \in S : /\ u \in Task /\ pc[u] <= Len(Program[u])
                   /\ ~At(u, "acquire") /\ ~At(u, "release")
  BY <1>1, SemWaiting DEF SemWaiters, Waiting
<1>6. \A u \in Task : status'[u] \in {"sem", "mutex", "sleep", "join"}
                        => u \notin S /\ status'[u] = status[u]
  BY <1>3
<1>7. \A u \in Task : status'[u] = "sem" => Arg(u) \in live' /\ count'[Arg(u)] = 0
  BY <1>2, <1>3, SemWaiting DEF SemWaiters, Waiting
<1>8. live' \subseteq Sem /\ failed' \subseteq Task
  BY <1>2, <1>5 DEF CallTypes
<1> HIDE DEF S, W
<1>9. QED
  BY <1>2, <1>4, <1>5, <1>6, <1>7, <1>8, GoOn DEF CallTypes

LEMMA TaskSleepInv ==
  ASSUME CallInv, NEW t \in Task, status[t] = "ready", TaskSleep(t)
  PROVE  CallInv'
  BY BlockCaller DEF TaskSleep, CallInv, CallTypes

LEMMA SpinEndInv ==
  ASSUME CallInv, NEW t \in Task, status[t] = "ready", SpinEnd(t)
  PROVE  CallInv'
<1>1. /\ pc[t] <= Len(Program[t]) /\ ~At(t, "acquire") /\ ~At(t, "release")
  BY DEF SpinEnd, At
<1>2. \A u \in Task : status'[u] = "sem" => Arg(u) \in live' /\ count'[Arg(u)] = 0
  BY SemWaiting DEF SpinEnd
<1>3. QED
  BY <1>1, <1>2, GoOn DEF SpinEnd, CallInv, CallTypes

LEMMA TaskStartInv ==
  ASSUME CallInv, NEW t \in Task, status[t] = "ready", TaskStart(t)
  PROVE  CallInv'
<1> DEFINE R == {Arg(t)} \cap {u \in Task : status[u] = "dormant"}
<1>1. /\ pc[t] <= Len(Program[t]) /\ ~At(t, "acquire") /\ ~At(t, "release")
  BY DEF TaskStart, At
<1>2. /\ UNCHANGED <<base, live, count, owner, failed, arrived>> /\ CallTypes
      /\ Resume(R) /\ Advance({t})
  BY DEF TaskStart, CallInv
<1>3. \A u \in Task : /\ status'[u] = IF u \in R THEN "ready" ELSE status[u]
                      /\ u \in R => status[u] = "dormant"
  BY <1>2 DEF Resume
<1>4. status' \in [Task -> {"dormant", "ready", "sleep", "sem", "mutex", "join", "dead"}]
  BY <1>2 DEF Resume, CallTypes
<1>5. \A u \in Task : status'[u] = "sem" => Arg(u) \in live' /\ count'[Arg(u)] = 0
  BY <1>2, <1>3, SemWaiting
<1>6. \A u \in Task : status'[u] \in {"sem", "mutex", "sleep", "join"}
                        => u \notin {t} /\ status'[u] = status[u]
  BY <1>3
<1>7. QED
  BY <1>1, <1>2, <1>4, <1>5, <1>6, GoOn DEF CallTypes

LEMMA TaskJoinInv ==
  ASSUME CallInv, NEW t \in Task, status[t] = "ready", TaskJoin(t)
  PROVE  CallInv'
<1>1. /\ At(t, "join") /\ pc[t] <= Len(Program[t])
      /\ ~At(t, "acquire") /\ ~At(t, "release")
      /\ UNCHANGED <<base, live, count, owner, failed, arrived>> /\ CallTypes
  BY DEF TaskJoin, At, CallInv
<1>2. CASE Advance({t}) /\ UNCHANGED status
  <2>1. \A u \in Task : status'[u] = "sem" => Arg(u) \in live' /\ count'[Arg(u)] = 0
    BY <1>1, <1>2, SemWaiting
  <2>2. QED
    BY <1>1, <1>2, <2>1, GoOn DEF CallTypes
<1>3. CASE Block(t, "join")
  BY <1>1, <1>3, BlockCaller DEF CallTypes
<1>4. QED
  BY <1>2, <1>3 DEF TaskJoin

LEMMA TaskReturnInv ==
  ASSUME CallInv, NEW t \in Task, status[t] = "ready", TaskReturn(t)
  PROVE  CallInv'
<1> DEFINE S == {u \in Task : Waiting(u, "join", t)}
<1>1. /\ UNCHANGED <<base, live, count, owner, failed, arrived>> /\ CallTypes
      /\ status' = [u \in Task |-> IF u = t THEN "dead"
                                   ELSE IF u \in S THEN "ready" ELSE status[u]]
      /\ Advance(S)
  BY DEF TaskReturn, CallInv
<1>2. \A u \in S : /\ u \in Task /\ pc[u] <= Len(Program[u])
                   /\ ~At(u, "acquire") /\ ~At(u, "release")
  BY DEF CallInv, BlockedAtCall, At, Waiting
<1>3. status' \in [Task -> {"dormant", "ready", "sleep", "sem", "mutex", "join", "dead"}]
  BY <1>1 DEF CallTypes
<1>4. \A u \in Task : status'[u] \in {"sem", "mutex", "sleep", "join"}
                        => u \notin S /\ status'[u] = status[u]
  BY <1>1
<1>5. \A u \in Task : status'[u] = "sem" => Arg(u) \in live' /\ count'[Arg(u)] = 0
  BY <1>1, <1>4, SemWaiting
<1> HIDE DEF S
<1>6. QED
  BY <1>1, <1>2, <1>3, <1>4, <1>5, GoOn DEF CallTypes

LEMMA TaskSetPriorityInv ==
  ASSUME CallInv, NEW t \in Task, status[t] = "ready", TaskSetPriority(t)
  PROVE  CallInv'
<1>1. /\ pc[t] <= Len(Program[t]) /\ Num(t) \in Nat
      /\ ~At(t, "acquire") /\ ~At(t, "release")
  BY Statement DEF TaskSetPriority, At, CallInv
<1>2. /\ base' = [base EXCEPT ![t] = Num(t)] /\ Advance({t}) /\ CallTypes
      /\ UNCHANGED <<status, live, count, owner, failed, arrived>>
  BY DEF TaskSetPriority, CallInv
<1>3. base' \in [Task -> Nat]
  BY <1>1, <1>2 DEF CallTypes
<1>4. \A u \in Task : status'[u] = "sem" => Arg(u) \in live' /\ count'[Arg(u)] = 0
  BY <1>2, SemWaiting
<1>5. QED
  BY <1>1, <1>2, <1>3, <1>4, GoOn DEF CallTypes

LEMMA WakeInv ==
  ASSUME CallInv, NEW t \in Task, Wake(t)
  PROVE  CallInv'
<1>1. /\ status[t] = "sleep" /\ Resume({t}) /\ Advance({t}) /\ CallTypes
      /\ UNCHANGED <<base, live, count, owner, failed, arrived>>
  BY DEF Wake, CallInv
<1>2. pc[t] <= Len(Program[t]) /\ ~At(t, "acquire") /\ ~At(t, "release")
  BY <1>1 DEF CallInv, BlockedAtCall, At
<1>3. \A u \in Task : status'[u] = IF u = t THEN "ready" ELSE status[u]
  BY <1>1 DEF Resume
<1>4. status' \in [Task -> {"dormant", "ready", "sleep", "sem", "mutex", "join", "dead"}]
  BY <1>1 DEF Resume, CallTypes
<1>5. \A u \in Task : status'[u] = "sem" => Arg(u) \in live' /\ count'[Arg(u)] = 0
  BY <1>1, <1>3, SemWaiting
<1>6. \A u \in Task : status'[u] \in {"sem", "mutex", "sleep", "join"}
                        => u \notin {t} /\ status'[u] = status[u]
  BY <1>3
<1>7. QED
  BY <1>1, <1>2, <1>4, <1>5, <1>6, GoOn DEF CallTypes

LEMMA TickInv ==
  ASSUME CallInv, Tick
  PROVE  CallInv'
<1>1. UNCHANGED <<status, pc, base, live, count, owner, failed, arrived>>
  BY DEF Tick
<1>2. spent' \in [Task -> Nat]
  BY DEF Tick, CallInv, CallTypes
<1>3. QED
  BY <1>1, <1>2 DEF CallInv, CallTypes, BlockedAtCall, OwnerInside, WaitersHaveReason,
     At, Arg, Holds, Inside

LEMMA MutexAcquireInv ==
  ASSUME CallInv, NEW t \in Task, status[t] = "ready", MutexAcquire(t)
  PROVE  CallInv'
<1>1. /\ At(t, "acquire") /\ Arg(t) \in Mutex /\ pc[t] <= Len(Program[t])
      /\ ~At(t, "release") /\ ~Holds(t, Arg(t)) /\ owner[Arg(t)] # t
  BY Statement DEF MutexAcquire, CallInv, OwnerInside, Holds, At, Arg, WellFormed
<1>2. UNCHANGED <<base, live, count, failed, arrived>> /\ CallTypes
  BY DEF MutexAcquire, CallInv
<1>3. CASE owner[Arg(t)] = None
  <2>1. /\ owner' = [owner EXCEPT ![Arg(t)] = t] /\ Advance({t}) /\ UNCHANGED status
    BY <1>3 DEF MutexAcquire
  <2>2. /\ pc' \in [Task -> Nat] /\ spent' \in [Task -> Nat]
        /\ \A u \in Task : pc'[u] \in 1 .. Len(Program[u]) + 1
        /\ \A u \in Task \ {t} : pc'[u] = pc[u]
        /\ \A m \in Mutex : Holds(t, m)' <=> Arg(t) = m \/ Holds(t, m)
        /\ \A u \in Task \ {t}, m \in Mutex : Holds(u, m)' <=> Holds(u, m)
    BY <1>1, <1>2, <2>1, AdvanceEffect
  <2>3. CallTypes'
    BY <1>1, <1>2, <2>1, <2>2 DEF CallTypes
  <2>4. \A u \in Task : status[u] \in {"sem", "mutex", "sleep", "join"} =>
           /\ \A op : At(u, op)' <=> At(u, op)
           /\ Arg(u)' = Arg(u)
    BY <2>2, SamePlace
  <2>5. BlockedAtCall'
    BY <1>2, <2>1, <2>4 DEF CallInv, BlockedAtCall
  <2>6. OwnerInside'
    <3> SUFFICES ASSUME NEW u \in Task, NEW m \in Mutex
                 PROVE  owner'[m] = u <=> Holds(u, m)'
      BY DEF OwnerInside
    <3>1. owner'[m] = IF m = Arg(t) THEN t ELSE owner[m]
      BY <1>2, <2>1 DEF CallTypes
    <3>2. owner[m] = u <=> Holds(u, m)
      BY DEF CallInv, OwnerInside
    <3>3. u = t => (Holds(u, m)' <=> (Arg(t) = m \/ Holds(t, m)))
      BY <2>2
    <3>4. u # t => (Holds(u, m)' <=> Holds(u, m))
      BY <2>2
    <3>5. None # u
      BY KernelAssumption
    <3>6. QED
      BY <1>3, <3>1, <3>2, <3>3, <3>4, <3>5
  <2>7. WaitersHaveReason'
    <3>1. ASSUME NEW u \in Task, status[u] = "mutex"
          PROVE  (owner[Arg(u)] \notin {None, u})'
      <4>1. owner[Arg(u)] \notin {None, u} /\ Arg(u)' = Arg(u) /\ Arg(u) # Arg(t)
        BY <1>3, <2>4, <3>1 DEF CallInv, WaitersHaveReason
      <4>2. QED
        BY <1>2, <2>1, <4>1 DEF CallTypes
    <3>2. ASSUME NEW u \in Task, status[u] = "sem" PROVE (count[Arg(u)] = 0)'
      BY <1>2, <2>4, <3>2, SemWaiting
    <3>3. QED
      BY <2>1, <3>1, <3>2 DEF WaitersHaveReason
  <2>8. QED
    BY <2>3, <2>5, <2>6, <2>7 DEF CallInv
<1>4. CASE owner[Arg(t)] # None
  <2>1. Block(t, "mutex") /\ UNCHANGED owner
    BY <1>4 DEF MutexAcquire
  <2>2. QED
    BY <1>1, <1>2, <1>4, <2>1, BlockCaller DEF CallTypes
<1>5. QED
  BY <1>3, <1>4

LEMMA MutexReleaseInv ==
  ASSUME CallInv, NEW t \in Task, status[t] = "ready", MutexRelease(t)
  PROVE  CallInv'
<1>1. /\ At(t, "release") /\ Arg(t) \in Mutex /\ pc[t] <= Len(Program[t])
      /\ ~At(t, "acquire") /\ owner[Arg(t)] = t
  BY Statement DEF MutexRelease, CallInv, OwnerInside, Holds, At, Arg, WellFormed
<1>2. UNCHANGED <<base, live, count, failed, arrived>> /\ CallTypes
  BY DEF MutexRelease, CallInv
<1>3. CASE MutexWaiters(Arg(t)) = {}
  <2>1. /\ owner' = [owner EXCEPT ![Arg(t)] = None] /\ Advance({t}) /\ UNCHANGED status
    BY <1>3 DEF MutexRelease
  <2>2. /\ pc' \in [Task -> Nat] /\ spent' \in [Task -> Nat]
        /\ \A u \in Task : pc'[u] \in 1 .. Len(Program[u]) + 1
        /\ \A u \in Task \ {t} : pc'[u] = pc[u]
        /\ \A m \in Mutex : Holds(t, m)' <=> Arg(t) # m /\ Holds(t, m)
        /\ \A u \in Task \ {t}, m \in Mutex : Holds(u, m)' <=> Holds(u, m)
    BY <1>1, <1>2, <2>1, AdvanceEffect
  <2>3. CallTypes'
    BY <1>1, <1>2, <2>1, <2>2 DEF CallTypes
  <2>4. \A u \in Task : status[u] \in {"sem", "mutex", "sleep", "join"} =>
           /\ \A op : At(u, op)' <=> At(u, op)
           /\ Arg(u)' = Arg(u)
    BY <2>2, SamePlace
  <2>5. BlockedAtCall'
    BY <1>2, <2>1, <2>4 DEF CallInv, BlockedAtCall
  <2>6. OwnerInside'
    <3> SUFFICES ASSUME NEW u \in Task, NEW m \in Mutex
                 PROVE  owner'[m] = u <=> Holds(u, m)'
      BY DEF OwnerInside
    <3>1. owner'[m] = IF m = Arg(t) THEN None ELSE owner[m]
      BY <1>2, <2>1 DEF CallTypes
    <3>2. owner[m] = u <=> Holds(u, m)
      BY DEF CallInv, OwnerInside
    <3>3. u = t => (Holds(u, m)' <=> (Arg(t) # m /\ Holds(t, m)))
      BY <2>2
    <3>4. u # t => (Holds(u, m)' <=> Holds(u, m))
      BY <2>2
    <3>5. None # u
      BY KernelAssumption
    <3>6. QED
      BY <1>1, <3>1, <3>2, <3>3, <3>4, <3>5
  <2>7. WaitersHaveReason'
    <3>1. ASSUME NEW u \in Task, status[u] = "mutex"
          PROVE  (owner[Arg(u)] \notin {None, u})'
      <4>1. owner[Arg(u)] \notin {None, u} /\ Arg(u)' = Arg(u) /\ Arg(u) # Arg(t)
        BY <1>3, <2>4, <3>1 DEF CallInv, WaitersHaveReason, MutexWaiters, Waiting
      <4>2. QED
        BY <1>2, <2>1, <4>1 DEF CallTypes
    <3>2. ASSUME NEW u \in Task, status[u] = "sem" PROVE (count[Arg(u)] = 0)'
      BY <1>2, <2>4, <3>2, SemWaiting
    <3>3. QED
      BY <2>1, <3>1, <3>2 DEF WaitersHaveReason
  <2>8. QED
    BY <2>3, <2>5, <2>6, <2>7 DEF CallInv
<1>4. CASE MutexWaiters(Arg(t)) # {}
  <2>1. PICK w \in Task : /\ status[w] = "mutex" /\ Arg(w) = Arg(t) /\ w # t
                          /\ owner' = [owner EXCEPT ![Arg(t)] = w]
                          /\ Resume({w}) /\ Advance({t, w})
    BY <1>4 DEF MutexRelease, Top, MutexWaiters, Waiting
  <2>2. pc[w] <= Len(Program[w]) /\ At(w, "acquire") /\ ~At(w, "release")
    BY <2>1 DEF CallInv, BlockedAtCall, At
  <2>3. /\ pc' \in [Task -> Nat] /\ spent' \in [Task -> Nat]
        /\ \A u \in Task : pc'[u] \in 1 .. Len(Program[u]) + 1
        /\ \A u \in Task \ {t, w} : pc'[u] = pc[u]
        /\ \A m \in Mutex : Holds(t, m)' <=> Arg(t) # m /\ Holds(t, m)
        /\ \A m \in Mutex : Holds(w, m)' <=> Arg(t) = m \/ Holds(w, m)
        /\ \A u \in Task \ {t, w}, m \in Mutex : Holds(u, m)' <=> Holds(u, m)
    BY <1>1, <1>2, <2>1, <2>2, AdvanceEffect
  <2>4. status' = [u \in Task |-> IF u = w THEN "ready" ELSE status[u]]
    BY <2>1 DEF Resume
  <2>5. CallTypes'
    BY <1>1, <1>2, <2>1, <2>3, <2>4 DEF CallTypes
  <2>6. \A u \in Task : status'[u] \in {"sem", "mutex", "sleep", "join"} =>
           /\ status'[u] = status[u] /\ u # w
           /\ \A op : At(u, op)' <=> At(u, op)
           /\ Arg(u)' = Arg(u)
    BY <2>3, <2>4, SamePlace
  <2>7. BlockedAtCall'
    BY <1>2, <2>6 DEF CallInv, BlockedAtCall
  <2>8. OwnerInside'
    <3> SUFFICES ASSUME NEW u \in Task, NEW m \in Mutex
                 PROVE  owner'[m] = u <=> Holds(u, m)'
      BY DEF OwnerInside
    <3>1. owner'[m] = IF m = Arg(t) THEN w ELSE owner[m]
      BY <1>2, <2>1 DEF CallTypes
    <3>2. owner[m] = u <=> Holds(u, m)
      BY DEF CallInv, OwnerInside
    <3>3. u = t => (Holds(u, m)' <=> (Arg(t) # m /\ Holds(t, m)))
      BY <2>3
    <3>4. u = w => (Holds(u, m)' <=> (Arg(t) = m \/ Holds(w, m)))
      BY <2>3
    <3>5. u \notin {t, w} => (Holds(u, m)' <=> Holds(u, m))
      BY <2>3
    <3>6. QED
      BY <1>1, <2>1, <3>1, <3>2, <3>3, <3>4, <3>5
  <2>9. WaitersHaveReason'
    <3>1. ASSUME NEW u \in Task, status'[u] = "mutex"
          PROVE  (owner[Arg(u)] \notin {None, u})'
      <4>1. /\ owner[Arg(u)] \notin {None, u} /\ Arg(u)' = Arg(u)
            /\ status[u] = "mutex" /\ u # w
        BY <2>6, <3>1 DEF CallInv, WaitersHaveReason
      <4>2. Arg(u) = Arg(t) => owner'[Arg(u)] = w
        BY <1>1, <1>2, <2>1 DEF CallTypes
      <4>3. Arg(u) # Arg(t) => owner'[Arg(u)] = owner[Arg(u)]
        BY <1>1, <1>2, <2>1 DEF CallTypes
      <4>4. w # None
        BY KernelAssumption
      <4>5. QED
        BY <4>1, <4>2, <4>3, <4>4
    <3>2. ASSUME NEW u \in Task, status'[u] = "sem" PROVE (count[Arg(u)] = 0)'
      BY <1>2, <2>6, <3>2, SemWaiting
    <3>3. QED
      BY <3>1, <3>2 DEF WaitersHaveReason
  <2>10. QED
    BY <2>5, <2>7, <2>8, <2>9 DEF CallInv
<1>5. QED
  BY <1>3, <1>4

-----------------------------------------------------------------------------

\* What a step can do to task u when t makes a call.
Keeps(u) == pc'[u] = pc[u] /\ spent'[u] = spent[u]
Moves(u) ==
  /\ pc[u] <= Len(Program[u]) /\ pc'[u] = pc[u] + 1
  /\ spent'[u] = 0 /\ status'[u] = "ready"

Returning(t) == pc[t] = Len(Program[t]) + 1

Untouched(t, u) ==
  /\ u # t /\ Keeps(u) /\ status'[u] = status[u]
  /\ Returning(t) /\ Arg(u) = t => status[u] # "join"
  /\ At(t, "start") /\ Arg(t) = u => status[u] # "dormant"
  /\ At(t, "broadcast") /\ Arg(t) = Arg(u) => status[u] # "sem"

GoesOn(t) ==
  /\ Moves(t) /\ ~At(t, "sleep") /\ ~At(t, "forever")
  /\ At(t, "p") => \/ Arg(t) \in live /\ count[Arg(t)] > 0
                   \/ Arg(t) \notin live /\ failed' = failed \cup {t}
  /\ At(t, "acquire") => owner[Arg(t)] = None
  /\ At(t, "join") => status[Arg(t)] = "dead" \/ Arg(t) \notin Joinable

Blocks(t) ==
  /\ Keeps(t)
  /\ \/ /\ status'[t] = "sem" /\ At(t, "p") /\ Arg(t) \in live
        /\ count[Arg(t)] = 0 /\ arrived' = Append(arrived, t)
     \/ status'[t] = "mutex" /\ At(t, "acquire") /\ owner[Arg(t)] # None
     \/ status'[t] = "sleep" /\ At(t, "sleep")
     \/ status'[t] = "join" /\ At(t, "join") /\ status[Arg(t)] # "dead"

Returns(t) == Keeps(t) /\ Returning(t) /\ status'[t] = "dead"

Starts(t, u) ==
  /\ u # t /\ Keeps(u) /\ At(t, "start") /\ Arg(t) = u
  /\ status[u] = "dormant" /\ status'[u] = "ready"

Wakes(t, u) ==
  /\ u # t /\ Moves(u)
  /\ \/ /\ status[u] = "sem" /\ Arg(t) = Arg(u)
        /\ \/ At(t, "v") \/ At(t, "broadcast")
           \/ At(t, "delete") /\ u \in failed'
     \/ status[u] = "mutex" /\ Arg(t) = Arg(u) /\ At(t, "release")
     \/ status[u] = "join" /\ Arg(u) = t /\ Returning(t)

Outline(t, u) ==
  \/ Untouched(t, u) \/ Starts(t, u) \/ Wakes(t, u)
  \/ u = t /\ (GoesOn(t) \/ Blocks(t) \/ Returns(t))

\* A call that is a statement of t is not its return.
LEMMA AtStatement ==
  ASSUME CallInv, NEW t \in Task, NEW op, At(t, op)
  PROVE  /\ pc[t] <= Len(Program[t]) /\ ~Returning(t)
         /\ \A o : At(t, o) => o = op
  BY KernelAssumption DEF CallInv, CallTypes, At, Returning

\* The caller goes on and wakes the tasks of S.
LEMMA OutlineWakes ==
  ASSUME CallInv, NEW t \in Task, status[t] = "ready", NEW S \in SUBSET Task, t \notin S,
         pc[t] <= Len(Program[t]), ~Returning(t), Advance({t} \cup S), Resume(S),
         ~At(t, "sleep"), ~At(t, "forever"), ~At(t, "p"), ~At(t, "acquire"), ~At(t, "join"),
         ~At(t, "start"), At(t, "broadcast") => S = SemWaiters(Arg(t)),
         \A u \in S : \/ /\ status[u] = "sem" /\ Arg(t) = Arg(u)
                         /\ \/ At(t, "v") \/ At(t, "broadcast")
                            \/ At(t, "delete") /\ u \in failed'
                      \/ status[u] = "mutex" /\ Arg(t) = Arg(u) /\ At(t, "release")
  PROVE  \A u \in Task : Outline(t, u)
<1>1. ASSUME NEW u \in S PROVE Wakes(t, u)
  <2>1. pc[u] <= Len(Program[u])
    BY DEF CallInv, BlockedAtCall, At
  <2>2. Moves(u)
    BY <2>1 DEF Advance, Resume, Moves
  <2>3. QED
    BY <2>2 DEF Wakes
<1>2. ASSUME NEW u \in Task, u \notin S, u # t PROVE Untouched(t, u)
  BY <1>2 DEF Advance, Resume, Untouched, Keeps, SemWaiters, Waiting
<1>3. GoesOn(t)
  BY DEF GoesOn, Moves, Advance, Resume
<1>4. QED
  BY <1>1, <1>2, <1>3 DEF Outline

\* The caller goes on alone.
LEMMA OutlineGoesOn ==
  ASSUME CallInv, NEW t \in Task, status[t] = "ready",
         pc[t] <= Len(Program[t]), ~Returning(t), Advance({t}), UNCHANGED status,
         ~At(t, "sleep"), ~At(t, "forever"), ~At(t, "start"), ~At(t, "broadcast"),
         At(t, "p") => \/ Arg(t) \in live /\ count[Arg(t)] > 0
                       \/ Arg(t) \notin live /\ failed' = failed \cup {t},
         At(t, "acquire") => owner[Arg(t)] = None,
         At(t, "join") => status[Arg(t)] = "dead" \/ Arg(t) \notin Joinable
  PROVE  \A u \in Task : Outline(t, u)
<1>1. ASSUME NEW u \in Task, u # t PROVE Untouched(t, u)
  BY <1>1 DEF Advance, Untouched, Keeps
<1>2. GoesOn(t)
  BY DEF GoesOn, Moves, Advance
<1>3. QED
  BY <1>1, <1>2 DEF Outline

\* The caller blocks.
LEMMA OutlineBlocks ==
  ASSUME CallInv, NEW t \in Task, status[t] = "ready", NEW kind, Block(t, kind),
         ~Returning(t),
         \/ /\ kind = "sem" /\ At(t, "p") /\ Arg(t) \in live
            /\ count[Arg(t)] = 0 /\ arrived' = Append(arrived, t)
         \/ kind = "mutex" /\ At(t, "acquire") /\ owner[Arg(t)] # None
         \/ kind = "sleep" /\ At(t, "sleep")
         \/ kind = "join" /\ At(t, "join") /\ status[Arg(t)] # "dead"
  PROVE  \A u \in Task : Outline(t, u)
<1>1. \A u \in Task : status'[u] = IF u = t THEN kind ELSE status[u]
  BY DEF Block, CallInv, CallTypes
<1>2. \A u \in Task : Keeps(u)
  BY DEF Block, Keeps
<1>3. Blocks(t)
  BY <1>1, <1>2 DEF Blocks
<1>4. ~At(t, "start") /\ ~At(t, "broadcast")
  BY AtStatement
<1>5. QED
  BY <1>1, <1>2, <1>3, <1>4 DEF Outline, Untouched

LEMMA SemPOutline ==
  ASSUME CallInv, NEW t \in Task, status[t] = "ready", SemP(t)
  PROVE  \A u \in Task : Outline(t, u)
<1>1. At(t, "p")
  BY DEF SemP
<1>2. CASE Advance({t}) /\ UNCHANGED status /\ Arg(t) \in live /\ count[Arg(t)] > 0
  BY <1>1, <1>2, AtStatement, OutlineGoesOn
<1>3. CASE /\ Block(t, "sem") /\ Arg(t) \in live /\ count[Arg(t)] = 0
           /\ arrived' = Append(arrived, t)
  BY <1>1, <1>3, AtStatement, OutlineBlocks
<1>4. CASE /\ Advance({t}) /\ UNCHANGED status /\ Arg(t) \notin live
           /\ failed' = failed \cup {t}
  BY <1>1, <1>4, AtStatement, OutlineGoesOn
<1>5. QED
  BY <1>2, <1>3, <1>4 DEF SemP

LEMMA SemVOutline ==
  ASSUME CallInv, NEW t \in Task, status[t] = "ready", SemV(t)
  PROVE  \A u \in Task : Outline(t, u)
<1>1. At(t, "v")
  BY DEF SemV
<1>2. CASE Advance({t}) /\ UNCHANGED status
  BY <1>1, <1>2, AtStatement, OutlineGoesOn
<1>3. CASE \E u \in Top(SemWaiters(Arg(t))) : Resume({u}) /\ Advance({t, u})
  <2>1. PICK w \in Task : /\ status[w] = "sem" /\ Arg(w) = Arg(t)
                          /\ Resume({w}) /\ Advance({t, w})
    BY <1>3 DEF Top, SemWaiters, Waiting
  <2>2. {t, w} = {t} \cup {w} /\ t \notin {w} /\ {w} \in SUBSET Task
    BY <2>1
  <2>3. QED
    BY <1>1, <2>1, <2>2, AtStatement, OutlineWakes
<1>4. QED
  BY <1>2, <1>3 DEF SemV

LEMMA SemBroadcastOutline ==
  ASSUME CallInv, NEW t \in Task, status[t] = "ready", SemBroadcast(t)
  PROVE  \A u \in Task : Outline(t, u)
<1> DEFINE S == SemWaiters(Arg(t))
<1>1. At(t, "broadcast") /\ Resume(S) /\ Advance({t} \cup S)
  BY DEF SemBroadcast
<1>2. S \in SUBSET Task /\ t \notin S /\ \A u \in S : status[u] = "sem" /\ Arg(t) = Arg(u)
  BY DEF SemWaiters, Waiting
<1>3. At(t, "broadcast") => S = SemWaiters(Arg(t))
  OBVIOUS
<1> HIDE DEF S
<1>4. QED
  BY <1>1, <1>2, <1>3, AtStatement, OutlineWakes

LEMMA SemRemoveOutline ==
  ASSUME CallInv, NEW t \in Task, status[t] = "ready", SemRemove(t)
  PROVE  \A u \in Task : Outline(t, u)
<1> DEFINE S == SemWaiters(Arg(t))
<1>1. At(t, "delete") /\ Resume(S) /\ Advance({t} \cup S) /\ failed' = failed \cup S
  BY DEF SemRemove
<1>2. S \in SUBSET Task /\ t \notin S /\ \A u \in S : status[u] = "sem" /\ Arg(t) = Arg(u)
  BY DEF SemWaiters, Waiting
<1> HIDE DEF S
<1>3. QED
  BY <1>1, <1>2, AtStatement, OutlineWakes

LEMMA MutexAcquireOutline ==
  ASSUME CallInv, NEW t \in Task, status[t] = "ready", MutexAcquire(t)
  PROVE  \A u \in Task : Outline(t, u)
<1>1. At(t, "acquire")
  BY DEF MutexAcquire
<1>2. CASE owner[Arg(t)] = None /\ Advance({t}) /\ UNCHANGED status
  BY <1>1, <1>2, AtStatement, OutlineGoesOn
<1>3. CASE owner[Arg(t)] # None /\ Block(t, "mutex")
  BY <1>1, <1>3, AtStatement, OutlineBlocks
<1>4. QED
  BY <1>2, <1>3 DEF MutexAcquire

LEMMA MutexReleaseOutline ==
  ASSUME CallInv, NEW t \in Task, status[t] = "ready", MutexRelease(t)
  PROVE  \A u \in Task : Outline(t, u)
<1>1. At(t, "release")
  BY DEF MutexRelease
<1>2. CASE Advance({t}) /\ UNCHANGED status
  BY <1>1, <1>2, AtStatement, OutlineGoesOn
<1>3. CASE \E u \in Top(MutexWaiters(Arg(t))) : Resume({u}) /\ Advance({t, u})
  <2>1. PICK w \in Task : /\ status[w] = "mutex" /\ Arg(w) = Arg(t)
                          /\ Resume({w}) /\ Advance({t, w})
    BY <1>3 DEF Top, MutexWaiters, Waiting
  <2>2. {t, w} = {t} \cup {w} /\ t \notin {w} /\ {w} \in SUBSET Task
    BY <2>1
  <2>3. QED
    BY <1>1, <2>1, <2>2, AtStatement, OutlineWakes
<1>4. QED
  BY <1>2, <1>3 DEF MutexRelease

LEMMA TaskJoinOutline ==
  ASSUME CallInv, NEW t \in Task, status[t] = "ready", TaskJoin(t)
  PROVE  \A u \in Task : Outline(t, u)
<1>1. At(t, "join")
  BY DEF TaskJoin
<1>2. CASE /\ status[Arg(t)] = "dead" \/ Arg(t) \notin Joinable
           /\ Advance({t}) /\ UNCHANGED status
  BY <1>1, <1>2, AtStatement, OutlineGoesOn
<1>3. CASE status[Arg(t)] # "dead" /\ Block(t, "join")
  BY <1>1, <1>3, AtStatement, OutlineBlocks
<1>4. QED
  BY <1>2, <1>3 DEF TaskJoin

LEMMA TaskStartOutline ==
  ASSUME CallInv, NEW t \in Task, status[t] = "ready", TaskStart(t)
  PROVE  \A u \in Task : Outline(t, u)
<1>1. At(t, "start") /\ Advance({t})
      /\ Resume({Arg(t)} \cap {u \in Task : status[u] = "dormant"})
  BY DEF TaskStart
<1>2. /\ pc[t] <= Len(Program[t]) /\ ~Returning(t)
      /\ \A op \in {"sleep", "forever", "p", "acquire", "join", "broadcast"} : ~At(t, op)
  BY <1>1, AtStatement
<1>3. GoesOn(t)
  BY <1>1, <1>2 DEF GoesOn, Moves, Advance, Resume
<1>4. ASSUME NEW u \in Task, u # t PROVE Starts(t, u) \/ Untouched(t, u)
  BY <1>1, <1>2, <1>4 DEF Starts, Untouched, Keeps, Advance, Resume
<1>5. QED
  BY <1>3, <1>4 DEF Outline

LEMMA TaskReturnOutline ==
  ASSUME CallInv, NEW t \in Task, status[t] = "ready", TaskReturn(t)
  PROVE  \A u \in Task : Outline(t, u)
<1> DEFINE S == {u \in Task : Waiting(u, "join", t)}
<1>1. /\ Returning(t) /\ Advance(S)
      /\ status' = [u \in Task |-> IF u = t THEN "dead"
                                   ELSE IF u \in S THEN "ready" ELSE status[u]]
  BY DEF TaskReturn, Returning
<1>2. t \notin S /\ \A u \in S : u \in Task /\ status[u] = "join" /\ Arg(u) = t
  BY DEF Waiting
<1>3. ASSUME NEW u \in S PROVE Wakes(t, u)
  <2>1. u \in Task /\ pc[u] <= Len(Program[u])
    BY <1>2 DEF CallInv, BlockedAtCall, At
  <2>2. Moves(u)
    BY <1>1, <1>2, <2>1 DEF Advance, Moves
  <2>3. QED
    BY <1>1, <1>2, <2>2 DEF Wakes
<1>4. ASSUME NEW u \in Task, u \notin S, u # t PROVE Untouched(t, u)
  <2>1. ~At(t, "start") /\ ~At(t, "broadcast")
    BY <1>1, AtStatement
  <2>2. QED
    BY <1>1, <1>4, <2>1 DEF Untouched, Keeps, Advance, Waiting
<1>5. Returns(t)
  BY <1>1, <1>2 DEF Returns, Keeps, Advance
<1>6. QED
  BY <1>3, <1>4, <1>5 DEF Outline

\* What a call or a change of priority does to each task.
LEMMA CallOutline ==
  ASSUME CallInv, NEW t \in Task, status[t] = "ready", Call(t) \/ TaskSetPriority(t)
  PROVE  \A u \in Task : Outline(t, u)
<1>1. CASE SemMake(t)
  BY <1>1, AtStatement, OutlineGoesOn DEF SemMake
<1>2. CASE SpinEnd(t)
  BY <1>2, AtStatement, OutlineGoesOn DEF SpinEnd
<1>3. CASE TaskSetPriority(t)
  BY <1>3, AtStatement, OutlineGoesOn DEF TaskSetPriority
<1>4. CASE TaskSleep(t)
  BY <1>4, AtStatement, OutlineBlocks DEF TaskSleep
<1>5. QED
  BY <1>1, <1>2, <1>3, <1>4, SemPOutline, SemVOutline, SemBroadcastOutline,
     SemRemoveOutline, MutexAcquireOutline, MutexReleaseOutline, TaskStartOutline,
     TaskJoinOutline, TaskReturnOutline DEF Call

-----------------------------------------------------------------------------

\* Who has arrived stays so.
HasArrived(u) == \E i \in DOMAIN arrived : arrived[i] = u

LEMMA ArrivedGrows ==
  ASSUME CallTypes, NEW t \in Task, arrived' = arrived \/ arrived' = Append(arrived, t)
  PROVE  /\ \A u : HasArrived(u) => HasArrived(u)'
         /\ arrived' = Append(arrived, t) => HasArrived(t)'
<1>1. arrived \in Seq(Task) /\ Len(arrived) \in Nat /\ DOMAIN arrived = 1 .. Len(arrived)
  BY DEF CallTypes
<1>2. CASE arrived' = arrived
  BY <1>2 DEF HasArrived
<1>3. ASSUME arrived' = Append(arrived, t)
      PROVE  HasArrived(t)' /\ \A u : HasArrived(u) => HasArrived(u)'
  <2>1. /\ Len(arrived') = Len(arrived) + 1 /\ DOMAIN arrived' = 1 .. Len(arrived) + 1
        /\ \A i \in 1 .. Len(arrived) : arrived'[i] = arrived[i]
        /\ arrived'[Len(arrived) + 1] = t
    BY <1>1, <1>3
  <2>2. HasArrived(t)'
    BY <1>1, <2>1 DEF HasArrived
  <2>3. ASSUME NEW i \in DOMAIN arrived PROVE i \in DOMAIN arrived' /\ arrived'[i] = arrived[i]
    BY <1>1, <2>1
  <2>4. QED
    BY <2>2, <2>3 DEF HasArrived
<1>4. QED
  BY <1>2, <1>3

LEMMA CallArrives ==
  ASSUME NEW t \in Task, Call(t) \/ TaskSetPriority(t)
  PROVE  arrived' = arrived \/ arrived' = Append(arrived, t)
<1>1. CASE SemP(t)
  BY <1>1 DEF SemP
<1>2. QED
  BY <1>1 DEF Call, SemV, SemBroadcast, SemMake, SemRemove, MutexAcquire, MutexRelease,
     TaskSleep, SpinEnd, TaskStart, TaskJoin, TaskReturn, TaskSetPriority

\* A call keeps every task where its state says it is.
LEMMA CallPlaces ==
  ASSUME CallInv, StatusFitsPlace, NEW t \in Task, status[t] = "ready",
         Call(t) \/ TaskSetPriority(t)
  PROVE  StatusFitsPlace'
<1>1. \A u \in Task : Outline(t, u)
  BY CallOutline
<1>2. /\ \A u : HasArrived(u) => HasArrived(u)'
      /\ arrived' = Append(arrived, t) => HasArrived(t)'
  BY CallArrives, ArrivedGrows DEF CallInv
<1>3. SUFFICES ASSUME NEW u \in Task
      PROVE  /\ status'[u] = "dormant" => pc'[u] = 1
             /\ status'[u] = "dead" => pc'[u] = Len(Program[u]) + 1
             /\ status'[u] = "sem" => HasArrived(u)'
             /\ status'[u] = "join" => status'[Arg(u)'] # "dead"
  BY DEF StatusFitsPlace, HasArrived
<1>4. Outline(t, u)
  BY <1>1
<1>5. /\ status[u] = "dormant" => pc[u] = 1
      /\ status[u] = "dead" => pc[u] = Len(Program[u]) + 1
      /\ status[u] = "sem" => HasArrived(u)
      /\ status[u] = "join" => status[Arg(u)] # "dead" /\ At(u, "join")
  BY DEF StatusFitsPlace, HasArrived, CallInv, BlockedAtCall
<1>6. status'[u] = "dormant" => pc'[u] = 1
  BY <1>4, <1>5 DEF Outline, Untouched, Starts, Wakes, GoesOn, Blocks, Returns, Keeps, Moves
<1>7. status'[u] = "dead" => pc'[u] = Len(Program[u]) + 1
  BY <1>4, <1>5 DEF Outline, Untouched, Starts, Wakes, GoesOn, Blocks, Returns, Keeps,
     Moves, Returning
<1>8. status'[u] = "sem" => HasArrived(u)'
  BY <1>2, <1>4, <1>5 DEF Outline, Untouched, Starts, Wakes, GoesOn, Blocks, Returns,
     Keeps, Moves
<1>9. ASSUME status'[u] = "join" PROVE status'[Arg(u)'] # "dead"
  <2>0. (Untouched(t, u) /\ status[u] = "join") \/ (u = t /\ Blocks(t))
    BY <1>4, <1>9 DEF Outline, Untouched, Starts, Wakes, GoesOn, Returns, Moves
  <2>1. pc'[u] = pc[u] /\ At(u, "join") /\ status[Arg(u)] # "dead"
    BY <1>5, <1>9, <2>0 DEF Untouched, Blocks, Keeps
  <2>2. Arg(u)' = Arg(u) /\ Arg(u) \in Task
    BY <2>1, SamePlace, Statement DEF CallInv, At, Arg, WellFormed
  <2>3. Outline(t, Arg(u))
    BY <1>1, <2>2
  <2>4. ASSUME status'[Arg(u)] = "dead" PROVE Arg(u) = t /\ Returns(t)
    BY <2>1, <2>3, <2>4 DEF Outline, Untouched, Starts, Wakes, GoesOn, Blocks, Moves
  <2>5. ASSUME Arg(u) = t, Returns(t) PROVE FALSE
    <3>1. u = t \/ (status[u] = "join" /\ Untouched(t, u))
      BY <2>0
    <3>2. u # t
      BY <1>9, <2>5 DEF Returns
    <3>3. QED
      BY <2>5, <3>1, <3>2 DEF Untouched, Returns
  <2>6. QED
    BY <2>2, <2>4, <2>5
<1>10. QED
  BY <1>6, <1>7, <1>8, <1>9

\* A call leaves nothing on the count of those who are not spinning.
LEMMA CallSpends ==
  ASSUME CallInv, NothingSpent, NEW t \in Task, status[t] = "ready",
         Call(t) \/ TaskSetPriority(t)
  PROVE  NothingSpent'
<1>1. SUFFICES ASSUME NEW u \in Task,
                      status'[u] = "dormant" \/ (status'[u] = "ready" /\ ~At(u, "spin")')
               PROVE  spent'[u] = 0
  BY DEF NothingSpent
<1>2. Outline(t, u)
  BY CallOutline
<1>3. CASE pc'[u] = pc[u] + 1 /\ spent'[u] = 0
  BY <1>3
<1>4. CASE Starts(t, u)
  BY <1>4 DEF Starts, Keeps, NothingSpent
<1>5. CASE Untouched(t, u)
  <2>1. pc'[u] = pc[u] /\ spent'[u] = spent[u] /\ status'[u] = status[u]
    BY <1>5 DEF Untouched, Keeps
  <2>2. At(u, "spin")' <=> At(u, "spin")
    BY <2>1, SamePlace
  <2>3. QED
    BY <1>1, <2>1, <2>2 DEF NothingSpent
<1>6. CASE u = t /\ (Blocks(t) \/ Returns(t))
  BY <1>1, <1>6 DEF Blocks, Returns
<1>7. QED
  BY <1>2, <1>3, <1>4, <1>5, <1>6 DEF Outline, Wakes, GoesOn, Moves

LEMMA WakePlaces ==
  ASSUME CallInv, StatusFitsPlace, NothingSpent, NEW t \in Task, Wake(t)
  PROVE  StatusFitsPlace' /\ NothingSpent'
<1>1. /\ status[t] = "sleep" /\ UNCHANGED arrived
      /\ status' = [u \in Task |-> IF u \in {t} THEN "ready" ELSE status[u]]
      /\ \A u \in Task \ {t} : pc'[u] = pc[u] /\ spent'[u] = spent[u]
      /\ spent'[t] = 0
  BY DEF Wake, Resume, Advance
<1>2. ASSUME NEW u \in Task \ {t}
      PROVE  /\ status'[u] = status[u]
             /\ \A op : At(u, op)' <=> At(u, op)
             /\ Arg(u)' = Arg(u)
  BY <1>1, SamePlace
<1>3. ASSUME NEW u \in Task, status'[u] = "join" PROVE status'[Arg(u)'] # "dead"
  <2>1. u # t /\ status[u] = "join" /\ At(u, "join")
    BY <1>1, <1>3 DEF CallInv, BlockedAtCall
  <2>2. Arg(u)' = Arg(u) /\ Arg(u) \in Task /\ status[Arg(u)] # "dead"
    BY <1>2, <2>1, Statement DEF CallInv, At, Arg, WellFormed, StatusFitsPlace
  <2>3. QED
    BY <1>1, <2>2
<1>4. ASSUME NEW u \in Task
      PROVE  /\ status'[u] = "dormant" => pc'[u] = 1
             /\ status'[u] = "dead" => pc'[u] = Len(Program[u]) + 1
             /\ status'[u] = "sem" => \E i \in DOMAIN arrived' : arrived'[i] = u
  BY <1>1 DEF StatusFitsPlace
<1>5. StatusFitsPlace'
  BY <1>3, <1>4 DEF StatusFitsPlace
<1>6. NothingSpent'
  BY <1>1, <1>2 DEF NothingSpent
<1>7. QED
  BY <1>5, <1>6

\* The task that has the CPU is ready.
LEMMA RunningReady ==
  ASSUME MostUrgentRuns, NEW t \in Task, running = t
  PROVE  status[t] = "ready"
  BY KernelAssumption DEF MostUrgentRuns, Best, Top

LEMMA TickPlaces ==
  ASSUME CallInv, MostUrgentRuns, StatusFitsPlace, NothingSpent, Tick
  PROVE  StatusFitsPlace' /\ NothingSpent'
<1>1. /\ UNCHANGED <<status, pc, running, arrived>>
      /\ spent' = [t \in Task |->
                     IF Spinning(t) \/ status[t] \in {"sleep", "sem", "mutex"}
                     THEN spent[t] + 1 ELSE spent[t]]
  BY DEF Tick
<1>2. StatusFitsPlace'
  BY <1>1 DEF StatusFitsPlace, Arg
<1>3. ASSUME NEW u \in Task,
             status'[u] = "dormant" \/ (status'[u] = "ready" /\ ~At(u, "spin")')
      PROVE  spent'[u] = 0
  <2>1. ~Spinning(u) /\ status[u] \notin {"sleep", "sem", "mutex"} /\ spent[u] = 0
    <3>1. CASE status[u] = "dormant"
      BY <3>1, RunningReady DEF NothingSpent, Spinning
    <3>2. CASE status[u] = "ready" /\ ~At(u, "spin")
      BY <3>2 DEF NothingSpent, Spinning
    <3>3. QED
      BY <1>1, <1>3, <3>1, <3>2, SamePlace
  <2>2. QED
    BY <1>1, <2>1
<1>4. QED
  BY <1>2, <1>3 DEF NothingSpent

-----------------------------------------------------------------------------

\* Induction over the natural numbers, for the set of those that have a property.
LEMMA SetInduction ==
  ASSUME NEW S \in SUBSET Nat, 0 \in S, \A n \in S : n + 1 \in S
  PROVE  S = Nat
<1>1. SUFFICES ASSUME Nat \ S # {} PROVE FALSE
  OBVIOUS
<1>2. PICK m \in Nat \ S : \A n \in Nat \ S : ~ (<<n, m>> \in OpToRel(<, Nat))
  BY <1>1, WFMin, NatLessThanWellFounded
<1>3. \A n \in Nat \ S : ~ (n < m)
  BY <1>2 DEF OpToRel
<1>4. m # 0 /\ m - 1 \in Nat /\ m - 1 < m /\ m - 1 + 1 = m
  OBVIOUS
<1>5. m - 1 \in S
  BY <1>3, <1>4
<1>6. QED
  BY <1>4, <1>5

\* The tasks that wait for a mutex of a task of S.
Lenders(S) == {u \in Task : status[u] = "mutex" /\ owner[Arg(u)] \in S}

\* Where those who wait for t are not waited for, t has the priority of the most
\* urgent of them and itself.
LEMMA PrioOf ==
  ASSUME NEW t \in Task, NEW W \in SUBSET Task,
         Lenders({t}) = W, Lenders({t} \cup W) = W, W = {} \/ Cardinality(Mutex) # 0
  PROVE  Prio(t) = CHOOSE p \in {base[u] : u \in {t} \cup W} :
                     \A u \in {t} \cup W : base[u] <= p
<1> DEFINE Def(f) == f = [n \in Nat |-> IF n = 0 THEN {t} ELSE f[n - 1] \cup Lenders(f[n - 1])]
           reach == CHOOSE f : Def(f)
           N == Cardinality(Mutex)
<1>1. Prio(t) = CHOOSE p \in {base[u] : u \in reach[N]} : \A u \in reach[N] : base[u] <= p
  BY DEF Prio, Lenders
<1>2. N \in Nat
  BY KernelAssumption, FS_CardinalityType
<1>3. Def([n \in Nat |-> IF n = 0 THEN {t} ELSE {t} \cup W])
  <2> DEFINE g == [n \in Nat |-> IF n = 0 THEN {t} ELSE {t} \cup W]
  <2>1. ASSUME NEW n \in Nat
        PROVE  g[n] = IF n = 0 THEN {t} ELSE g[n - 1] \cup Lenders(g[n - 1])
    <3>1. CASE n = 0
      BY <3>1
    <3>2. CASE n = 1
      <4>1. g[n - 1] = {t} /\ g[n] = {t} \cup W
        BY <3>2
      <4>2. QED
        BY <3>2, <4>1
    <3>3. CASE n > 1
      <4>1. g[n - 1] = {t} \cup W /\ g[n] = {t} \cup W
        BY <3>3
      <4>2. QED
        BY <3>3, <4>1
    <3>4. QED
      BY <3>1, <3>2, <3>3
  <2>2. QED
    BY <2>1
<1>4. Def(reach)
  BY <1>3
<1>5. /\ reach[0] = {t}
      /\ \A n \in Nat : reach[n + 1] = reach[n] \cup Lenders(reach[n])
  <2> HIDE DEF reach
  <2>0. \A n \in Nat : reach[n] = IF n = 0 THEN {t} ELSE reach[n - 1] \cup Lenders(reach[n - 1])
    BY <1>4
  <2> HIDE DEF Def
  <2>1. reach[0] = {t}
    BY <2>0
  <2>2. ASSUME NEW n \in Nat PROVE reach[n + 1] = reach[n] \cup Lenders(reach[n])
    <3>1. PICK k \in Nat : k = n + 1
      OBVIOUS
    <3>2. k # 0 /\ k - 1 = n
      BY <3>1
    <3>3. reach[k] = reach[k - 1] \cup Lenders(reach[k - 1])
      BY <2>0, <3>2
    <3>4. QED
      BY <3>1, <3>2, <3>3
  <2>3. QED
    BY <2>1, <2>2
<1> HIDE DEF reach, Def, N
<1> DEFINE S == {n \in Nat : reach[n] = IF n = 0 THEN {t} ELSE {t} \cup W}
<1>6. 0 \in S
  BY <1>5
<1>7. ASSUME NEW n \in S PROVE n + 1 \in S
  <2>1. n \in Nat /\ n + 1 \in Nat /\ n + 1 # 0
    OBVIOUS
  <2>2. reach[n] = {t} \/ reach[n] = {t} \cup W
    OBVIOUS
  <2>3. reach[n + 1] = {t} \cup W
    BY <1>5, <2>1, <2>2
  <2>4. QED
    BY <2>1, <2>3
<1>8. S = Nat
  <2>1. S \in SUBSET Nat
    OBVIOUS
  <2> HIDE DEF S
  <2>2. QED
    BY <1>6, <1>7, <2>1, SetInduction
<1>9. reach[N] = {t} \cup W
  BY <1>2, <1>8 DEF N
<1>10. QED
  BY <1>1, <1>9

\* A task nobody waits for has the priority it was given.
LEMMA PrioAlone ==
  ASSUME CallTypes, NEW t \in Task,
         \A u \in Task : status[u] = "mutex" => owner[Arg(u)] # t
  PROVE  Prio(t) = base[t] /\ base[t] \in Nat
<1>1. PICK W \in SUBSET Task : W = {}
  OBVIOUS
<1>2. {t} \cup W = {t} /\ Lenders({t}) = W /\ Lenders({t} \cup W) = W
  BY <1>1 DEF Lenders
<1>3. Prio(t) = CHOOSE p \in {base[u] : u \in {t} \cup W} :
                  \A u \in {t} \cup W : base[u] <= p
  BY <1>1, <1>2, PrioOf
<1>4. base[t] \in Nat /\ {base[u] : u \in {t}} = {base[t]} /\ base[t] <= base[t]
  BY DEF CallTypes
<1>5. QED
  BY <1>2, <1>3, <1>4

\* A task one other waits for, whom nobody waits for, is as urgent as both.
LEMMA PrioOfOwner ==
  ASSUME CallTypes, NEW t \in Task, NEW w \in Task, w # t, Arg(w) \in Mutex,
         \A u \in Task : status[u] = "mutex" /\ owner[Arg(u)] \in {t, w} <=> u = w,
         owner[Arg(w)] = t
  PROVE  Prio(t) \in Nat /\ Prio(t) >= base[t] /\ Prio(t) >= base[w]
<1>1. Lenders({t}) = {w} /\ Lenders({t} \cup {w}) = {w}
  BY DEF Lenders
<1>2. Cardinality(Mutex) # 0
  BY KernelAssumption, FS_EmptySet
<1>3. Prio(t) = CHOOSE p \in {base[u] : u \in {t} \cup {w}} : \A u \in {t} \cup {w} : base[u] <= p
  <2>1. PICK W \in SUBSET Task : W = {w}
    OBVIOUS
  <2>2. Lenders({t}) = W /\ Lenders({t} \cup W) = W /\ (W = {} \/ Cardinality(Mutex) # 0)
    BY <1>1, <1>2, <2>1
  <2>3. Prio(t) = CHOOSE p \in {base[u] : u \in {t} \cup W} : \A u \in {t} \cup W : base[u] <= p
    BY <2>1, <2>2, PrioOf, SMTT(60)
  <2>4. QED
    BY <2>1, <2>3, Zenon
<1>4. base[t] \in Nat /\ base[w] \in Nat
  BY DEF CallTypes
<1>5. \E p \in {base[u] : u \in {t} \cup {w}} : \A u \in {t} \cup {w} : base[u] <= p
  <2>1. CASE base[t] <= base[w]
    BY <1>4, <2>1
  <2>2. CASE base[w] <= base[t]
    BY <1>4, <2>2
  <2>3. QED
    BY <1>4, <2>1, <2>2
<1>6. QED
  BY <1>3, <1>4, <1>5

\* Whoever is elected is among the most urgent who are ready.
LEMMA ElectMostUrgent ==
  ASSUME Reschedule \/ Elect, running \in Task \cup {None}
  PROVE  running' \in Task \cup {None} /\ MostUrgentRuns'
<1>1. None \notin Best' /\ Best' \subseteq Task
  BY KernelAssumption DEF Best, Top
<1>2. QED
  BY <1>1 DEF Reschedule, Elect, MostUrgentRuns

\* Time changes nobody's urgency.
LEMMA SameUrgency ==
  ASSUME UNCHANGED <<status, pc, running, base, owner>>, MostUrgentRuns
  PROVE  MostUrgentRuns'
<1>1. Best' = Best
  BY DEF Best, Top, Prio, Arg
<1>2. QED
  BY <1>1 DEF MostUrgentRuns

\* A task passes a statement that does not set its priority.
LEMMA BaseKept ==
  ASSUME CallTypes, BaseAsSet, UNCHANGED base,
         \A u \in Task : \/ pc'[u] = pc[u]
                         \/ /\ pc'[u] = pc[u] + 1 /\ pc[u] <= Len(Program[u])
                            /\ ~At(u, "setprio")
  PROVE  BaseAsSet'
<1> DEFINE Set(u, n) == {i \in 1 .. n - 1 : Program[u][i].op = "setprio"}
<1>1. ASSUME NEW u \in Task PROVE Set(u, pc'[u]) = Set(u, pc[u])
  <2>1. CASE pc'[u] = pc[u]
    BY <2>1
  <2>2. CASE pc'[u] = pc[u] + 1 /\ pc[u] <= Len(Program[u]) /\ ~At(u, "setprio")
    <3>1. pc[u] \in Nat /\ pc[u] >= 1 /\ Program[u][pc[u]].op # "setprio"
      BY <2>2 DEF CallTypes, At
    <3>2. \A i : i \in 1 .. pc'[u] - 1 <=> i \in 1 .. pc[u] - 1 \/ i = pc[u]
      BY <2>2, <3>1
    <3>3. QED
      BY <3>1, <3>2
  <2>3. QED
    BY <2>1, <2>2
<1>2. QED
  BY <1>1 DEF BaseAsSet

LEMMA SetPriorityBase ==
  ASSUME CallTypes, BaseAsSet, NEW t \in Task, TaskSetPriority(t)
  PROVE  BaseAsSet'
<1>1. /\ At(t, "setprio") /\ base' = [base EXCEPT ![t] = Num(t)]
      /\ \A u \in Task : pc'[u] = IF u = t THEN pc[u] + 1 ELSE pc[u]
  BY DEF TaskSetPriority, Advance
<1>2. pc[t] \in Nat /\ pc[t] >= 1 /\ Program[t][pc[t]].op = "setprio" /\ base \in [Task -> Nat]
  BY <1>1 DEF CallTypes, At
<1>3. /\ pc[t] \in {i \in 1 .. pc'[t] - 1 : Program[t][i].op = "setprio"}
      /\ \A j \in 1 .. pc'[t] - 1 : j <= pc[t]
      /\ base'[t] = Program[t][pc[t]].n
  BY <1>1, <1>2 DEF Num
<1>4. \A u \in Task \ {t} : pc'[u] = pc[u] /\ base'[u] = base[u]
  BY <1>1, <1>2
<1>5. QED
  BY <1>3, <1>4 DEF BaseAsSet

\* A call other than a change of priority passes no statement that changes it.
LEMMA CallBase ==
  ASSUME CallInv, BaseAsSet, NEW t \in Task, status[t] = "ready", Call(t)
  PROVE  BaseAsSet'
<1>1. \A u \in Task : Outline(t, u)
  BY CallOutline
<1>2. UNCHANGED base
  BY DEF Call, SemP, SemV, SemBroadcast, SemMake, SemRemove, MutexAcquire, MutexRelease,
     TaskSleep, SpinEnd, TaskStart, TaskJoin, TaskReturn
<1>3. \E op : op # "setprio" /\ (At(t, op) \/ Returning(t))
  <2>1. At(t, "p") \/ At(t, "v") \/ At(t, "broadcast") \/ At(t, "create") \/ At(t, "delete")
        \/ At(t, "acquire") \/ At(t, "release") \/ At(t, "sleep") \/ At(t, "spin")
        \/ At(t, "start") \/ At(t, "join") \/ Returning(t)
    BY DEF Call, SemP, SemV, SemBroadcast, SemMake, SemRemove, MutexAcquire, MutexRelease,
       TaskSleep, SpinEnd, TaskStart, TaskJoin, TaskReturn, Returning
  <2>2. QED
    BY <2>1
<1>4. ~At(t, "setprio")
  BY <1>3, AtStatement
<1>5. ASSUME NEW u \in Task
      PROVE  \/ pc'[u] = pc[u]
             \/ pc'[u] = pc[u] + 1 /\ pc[u] <= Len(Program[u]) /\ ~At(u, "setprio")
  <2>1. CASE u = t
    BY <1>1, <1>4, <2>1 DEF Outline, Untouched, Starts, Wakes, GoesOn, Blocks, Returns,
       Keeps, Moves
  <2>2. CASE Wakes(t, u)
    <3>1. At(u, "p") \/ At(u, "acquire") \/ At(u, "join")
      BY <2>2 DEF Wakes, CallInv, BlockedAtCall
    <3>2. QED
      BY <2>2, <3>1, AtStatement DEF Wakes, Moves
  <2>3. CASE u # t /\ ~Wakes(t, u)
    BY <1>1, <2>3 DEF Outline, Untouched, Starts, Keeps
  <2>4. QED
    BY <2>1, <2>2, <2>3
<1>6. CallTypes
  BY DEF CallInv
<1>7. QED
  BY <1>2, <1>5, <1>6, BaseKept

LEMMA WakeBase ==
  ASSUME CallInv, BaseAsSet, NEW t \in Task, Wake(t)
  PROVE  BaseAsSet'
<1>1. /\ At(t, "sleep") /\ pc[t] <= Len(Program[t]) /\ UNCHANGED base
      /\ \A u \in Task : pc'[u] = IF u = t THEN pc[u] + 1 ELSE pc[u]
  BY DEF Wake, Advance, CallInv, BlockedAtCall, At
<1>2. ~At(t, "setprio") /\ CallTypes
  BY <1>1, AtStatement DEF CallInv
<1>3. QED
  BY <1>1, <1>2, BaseKept

LEMMA KernelInvParts ==
  KernelInv <=> /\ CallInv /\ MostUrgentRuns /\ StatusFitsPlace /\ NothingSpent
                /\ BaseAsSet
                /\ running \in Task \cup {None} /\ slack \in 0 .. Slack
  BY DEF KernelInv, TypeOK, CallInv, CallTypes

LEMMA KernelInvNext ==
  ASSUME CallInv', MostUrgentRuns', StatusFitsPlace', NothingSpent',
         BaseAsSet', running' \in Task \cup {None}, slack' \in 0 .. Slack
  PROVE  KernelInv'
  BY DEF KernelInv, TypeOK, CallInv, CallTypes

LEMMA InitKernelInv == Init => KernelInv
<1> SUFFICES ASSUME Init PROVE KernelInv
  OBVIOUS
<1> USE KernelAssumption DEF Init
<1>1. CallTypes
  BY DEF CallTypes
<1>2. BlockedAtCall /\ WaitersHaveReason /\ StatusFitsPlace /\ NothingSpent
  BY DEF BlockedAtCall, WaitersHaveReason, StatusFitsPlace, NothingSpent
<1>3. OwnerInside
  BY DEF OwnerInside, Holds, Inside
<1>4. running \in Task /\ slack \in 0 .. Slack
  OBVIOUS
<1>5. MostUrgentRuns
  <2>1. {t \in Task : status[t] = "ready"} = {running}
    BY <1>4
  <2>2. Prio(running) <= Prio(running) => Best = {running}
    BY <2>1 DEF Best, Top
  <2>3. Prio(running) <= Prio(running)
    BY <1>1, <1>4, PrioAlone
  <2>4. QED
    BY <1>4, <2>2, <2>3 DEF MostUrgentRuns
<1>6. BaseAsSet
  BY DEF BaseAsSet
<1>7. QED
  BY <1>1, <1>2, <1>3, <1>4, <1>5, <1>6, KernelInvParts DEF CallInv

LEMMA NextKernelInv == KernelInv /\ [Next]_vars => KernelInv'
<1> SUFFICES ASSUME KernelInv, [Next]_vars PROVE KernelInv'
  OBVIOUS
<1>1. /\ CallInv /\ MostUrgentRuns /\ StatusFitsPlace /\ NothingSpent /\ BaseAsSet
      /\ running \in Task \cup {None} /\ slack \in 0 .. Slack /\ Slack \in Nat
      /\ \A t \in Task : running = t => status[t] = "ready"
  BY KernelInvParts, KernelAssumption, RunningReady
<1>2. ASSUME NEW t \in Task, Call(t) PROVE KernelInv'
  <2>1. status[t] = "ready" /\ Reschedule /\ UNCHANGED slack
    BY <1>1, <1>2 DEF Call
  <2>2. CallInv'
    BY <1>1, <1>2, <2>1, SemPInv, SemVInv, SemBroadcastInv, SemMakeInv, SemRemoveInv,
       MutexAcquireInv, MutexReleaseInv, TaskSleepInv, SpinEndInv, TaskStartInv,
       TaskJoinInv, TaskReturnInv
    DEF Call
  <2>3. StatusFitsPlace' /\ NothingSpent' /\ BaseAsSet'
    BY <1>1, <1>2, <2>1, CallPlaces, CallSpends, CallBase
  <2>4. QED
    BY <1>1, <2>1, <2>2, <2>3, ElectMostUrgent, KernelInvNext
<1>3. ASSUME NEW t \in Task, TaskSetPriority(t) PROVE KernelInv'
  <2>1. status[t] = "ready" /\ Elect /\ UNCHANGED slack
    BY <1>1, <1>3 DEF TaskSetPriority
  <2>2. StatusFitsPlace' /\ NothingSpent' /\ BaseAsSet'
    BY <1>1, <1>3, <2>1, CallPlaces, CallSpends, SetPriorityBase DEF CallInv
  <2>3. QED
    BY <1>1, <1>3, <2>1, <2>2, TaskSetPriorityInv, ElectMostUrgent, KernelInvNext
<1>4. ASSUME NEW t \in Task, Wake(t) PROVE KernelInv'
  <2>1. Reschedule /\ UNCHANGED slack
    BY <1>4 DEF Wake
  <2>2. QED
    BY <1>1, <1>4, <2>1, WakeInv, WakePlaces, WakeBase, ElectMostUrgent, KernelInvNext
<1>5. CASE Tick
  <2>1. UNCHANGED <<status, pc, running, base, owner>> /\ slack' \in 0 .. Slack
    BY <1>1, <1>5 DEF Tick
  <2>2. CallInv' /\ StatusFitsPlace' /\ NothingSpent'
    BY <1>1, <1>5, TickInv, TickPlaces
  <2>4. BaseAsSet'
    BY <1>1, <2>1 DEF BaseAsSet
  <2>3. MostUrgentRuns' /\ running' \in Task \cup {None}
    BY <1>1, <2>1, SameUrgency
  <2>5. QED
    BY <2>1, <2>2, <2>3, <2>4, KernelInvNext
<1>6. CASE UNCHANGED vars
  <2>1. MostUrgentRuns'
    BY <1>1, <1>6, SameUrgency DEF vars
  <2>2. CallInv' /\ StatusFitsPlace' /\ NothingSpent' /\ BaseAsSet'
    BY <1>1, <1>6 DEF vars, CallInv, CallTypes, BlockedAtCall, OwnerInside, BaseAsSet,
       WaitersHaveReason, StatusFitsPlace, NothingSpent, At, Arg, Holds, Inside
  <2>3. running' \in Task \cup {None} /\ slack' \in 0 .. Slack
    BY <1>1, <1>6 DEF vars
  <2>4. QED
    BY <2>1, <2>2, <2>3, KernelInvNext
<1>7. QED
  BY <1>2, <1>3, <1>4, <1>5, <1>6 DEF Next, SpinForever

\* What a step of the system does to each task, for every program: a call of the
\* running task, the end of a sleep, or nothing.
Rests == UNCHANGED <<status, pc, running, base, live, count, owner, failed, arrived>>

WakesUp(t) ==
  /\ status[t] = "sleep" /\ At(t, "sleep") /\ Moves(t)
  /\ \A u \in Task \ {t} : Keeps(u) /\ status'[u] = status[u]
  /\ UNCHANGED <<base, live, count, owner, failed, arrived, slack>>

LEMMA StepOutline ==
  ASSUME KernelInv, [Next]_vars
  PROVE  \/ \E t \in Task : /\ running = t /\ status[t] = "ready" /\ UNCHANGED slack
                            /\ Call(t) \/ TaskSetPriority(t)
                            /\ \A u \in Task : Outline(t, u)
         \/ \E t \in Task : WakesUp(t)
         \/ Rests /\ (Tick \/ UNCHANGED vars)
<1>1. CallInv /\ MostUrgentRuns
  BY KernelInvParts
<1>2. ASSUME NEW t \in Task, Call(t) \/ TaskSetPriority(t)
      PROVE  /\ running = t /\ status[t] = "ready" /\ UNCHANGED slack
             /\ \A u \in Task : Outline(t, u)
  <2>1. running = t /\ UNCHANGED slack
    BY <1>2 DEF Call, TaskSetPriority
  <2>2. status[t] = "ready"
    BY <1>1, <2>1, RunningReady
  <2>3. QED
    BY <1>1, <1>2, <2>1, <2>2, CallOutline
<1>3. ASSUME NEW t \in Task, Wake(t) PROVE WakesUp(t)
  <2>1. status[t] = "sleep" /\ At(t, "sleep") /\ pc[t] <= Len(Program[t])
    BY <1>1, <1>3 DEF Wake, CallInv, BlockedAtCall, At
  <2>2. Moves(t)
    BY <1>3, <2>1 DEF Wake, Resume, Advance, Moves
  <2>3. QED
    BY <1>3, <2>1, <2>2 DEF Wake, Resume, Advance, WakesUp, Keeps
<1>4. Tick => Rests
  BY DEF Tick, Rests
<1>5. UNCHANGED vars => Rests
  BY DEF vars, Rests
<1>6. QED
  BY <1>2, <1>3, <1>4, <1>5 DEF Next, SpinForever

\* Only a task that waits is moved by another one.
LEMMA RunsItself ==
  ASSUME KernelInv, [Next]_vars, NEW u \in Task, pc'[u] # pc[u],
         ~At(u, "p"), ~At(u, "acquire"), ~At(u, "join"), ~At(u, "sleep")
  PROVE  /\ running = u /\ status[u] = "ready" /\ GoesOn(u)
         /\ Call(u) \/ TaskSetPriority(u)
         /\ \A w \in Task : Outline(u, w)
<1>1. status[u] \notin {"sem", "mutex", "join", "sleep"}
  BY DEF KernelInv, BlockedAtCall
<1>2. PICK t \in Task : /\ running = t /\ status[t] = "ready"
                        /\ Call(t) \/ TaskSetPriority(t)
                        /\ \A w \in Task : Outline(t, w)
  BY StepOutline DEF WakesUp, Keeps, Rests
<1>3. u = t /\ GoesOn(u)
  <2>1. Outline(t, u)
    BY <1>2
  <2>2. QED
    BY <1>1, <2>1 DEF Outline, Untouched, Starts, Wakes, Blocks, Returns, Keeps
<1>4. QED
  BY <1>2, <1>3

\* Who gets past an acquisition finds the mutex free or is handed it.
LEMMA AcquireMoves ==
  ASSUME KernelInv, [Next]_vars, NEW u \in Task, At(u, "acquire"), pc'[u] # pc[u]
  PROVE  \/ owner[Arg(u)] = None
         \/ \E t \in Task : owner[Arg(u)] = t /\ At(t, "release") /\ running = t
<1>1. pc[u] <= Len(Program[u]) /\ \A o : At(u, o) => o = "acquire"
  BY AtStatement, KernelInvParts
<1>2. CASE \E t \in Task : running = t /\ \A w \in Task : Outline(t, w)
  <2>1. PICK t \in Task : running = t /\ Outline(t, u)
    BY <1>2
  <2>2. GoesOn(u) \/ (Wakes(t, u) /\ status[u] = "mutex" /\ Arg(t) = Arg(u) /\ At(t, "release"))
    <3>1. Wakes(t, u) \/ (u = t /\ GoesOn(t))
      BY <2>1 DEF Outline, Untouched, Starts, Blocks, Returns, Keeps
    <3>2. status[u] \in {"sem", "join"} => At(u, "p") \/ At(u, "join")
      BY DEF KernelInv, BlockedAtCall
    <3>3. QED
      BY <1>1, <3>1, <3>2 DEF Wakes
  <2>3. ASSUME Arg(t) = Arg(u), At(t, "release") PROVE owner[Arg(u)] = t
    <3>1. CallTypes /\ OwnerInside /\ pc[t] <= Len(Program[t])
      BY <2>3, KernelInvParts DEF CallInv, At
    <3>2. Arg(t) \in Mutex /\ Holds(t, Arg(t))
      BY <2>3, <3>1, Statement DEF Holds, WellFormed, At, Arg
    <3>3. QED
      BY <2>3, <3>1, <3>2 DEF OwnerInside
  <2>4. QED
    BY <2>1, <2>2, <2>3 DEF GoesOn
<1>3. CASE \E t \in Task : WakesUp(t)
  BY <1>1, <1>3 DEF WakesUp, Keeps
<1>4. CASE Rests
  BY <1>4 DEF Rests
<1>5. QED
  BY <1>2, <1>3, <1>4, StepOutline

\* A mutex belongs to the task that is inside it, and waiters have a reason, for
\* all programs.
THEOREM KernelInvariance == Spec => []KernelInv
<1>1. Init => KernelInv
  BY InitKernelInv
<1>2. KernelInv /\ [Next]_vars => KernelInv'
  BY NextKernelInv
<1>3. QED
  BY <1>1, <1>2, PTL DEF Spec

\* No two tasks are ever inside one mutex, through every hand-over.
THEOREM MutexesExclude == Spec => []MutualExclusion
<1>1. KernelInv => MutualExclusion
  BY DEF KernelInv, OwnerInside, MutualExclusion
<1>2. QED
  BY <1>1, KernelInvariance, PTL

\* A task waits for a semaphore only at zero, and for a mutex only while another
\* task owns it: no wake-up is lost.
THEOREM NoLostWakeup == Spec => []WaitersHaveReason
<1>1. KernelInv => WaitersHaveReason
  BY DEF KernelInv
<1>2. QED
  BY <1>1, KernelInvariance, PTL

-----------------------------------------------------------------------------
(* The programs, statement by statement *)

LEMMA Code_A_thread1 ==
  /\ Program["A.thread1"] = A!thread1 /\ Len(Program["A.thread1"]) = 1
  /\ Program["A.thread1"][1] = Instr("p", "semaphore1", 0)
<1>1. Program["A.thread1"] = A!thread1
  BY ProgramsAssumption DEF Programs, Tasks, A!Tasks, B!Tasks, C!Tasks, D!Tasks, E!Tasks,
     A!Programs
<1>2. QED
  BY <1>1 DEF A!thread1, A!Instr, Instr, A!P

LEMMA Code_A_thread2 ==
  /\ Program["A.thread2"] = A!thread2 /\ Len(Program["A.thread2"]) = 1
  /\ Program["A.thread2"][1] = Instr("p", "semaphore1", 0)
<1>1. Program["A.thread2"] = A!thread2
  BY ProgramsAssumption DEF Programs, Tasks, A!Tasks, B!Tasks, C!Tasks, D!Tasks, E!Tasks,
     A!Programs
<1>2. QED
  BY <1>1 DEF A!thread2, A!Instr, Instr, A!P

LEMMA Code_A_thread3 ==
  /\ Program["A.thread3"] = A!thread3 /\ Len(Program["A.thread3"]) = 9
  /\ Program["A.thread3"][1] = Instr("create", "semaphore1", 0)
  /\ Program["A.thread3"][2] = Instr("start", "A.thread1", 0)
  /\ Program["A.thread3"][3] = Instr("start", "A.thread2", 0)
  /\ Program["A.thread3"][4] = Instr("sleep", "self", 1)
  /\ Program["A.thread3"][5] = Instr("broadcast", "semaphore1", 0)
  /\ Program["A.thread3"][6] = Instr("sleep", "self", 1)
  /\ Program["A.thread3"][7] = Instr("join", "A.thread1", 0)
  /\ Program["A.thread3"][8] = Instr("join", "A.thread2", 0)
  /\ Program["A.thread3"][9] = Instr("delete", "semaphore1", 0)
<1>1. Program["A.thread3"] = A!thread3
  BY ProgramsAssumption DEF Programs, Tasks, A!Tasks, B!Tasks, C!Tasks, D!Tasks, E!Tasks,
     A!Programs
<1>2. QED
  BY <1>1 DEF A!thread3, A!Instr, Instr, A!Broadcast, A!Join, A!SemCreate, A!SemDelete, A!Sleep, A!Start

LEMMA Code_B_low ==
  /\ Program["B.low"] = B!low /\ Len(Program["B.low"]) = 4
  /\ Program["B.low"][1] = Instr("p", "semaphoreBarrier", 0)
  /\ Program["B.low"][2] = Instr("p", "semaphoreResource", 0)
  /\ Program["B.low"][3] = Instr("spin", "self", 3)
  /\ Program["B.low"][4] = Instr("v", "semaphoreResource", 0)
<1>1. Program["B.low"] = B!low
  BY ProgramsAssumption DEF Programs, Tasks, A!Tasks, B!Tasks, C!Tasks, D!Tasks, E!Tasks,
     B!Programs
<1>2. QED
  BY <1>1 DEF B!low, B!Instr, Instr, B!P, B!Spin, B!V

LEMMA Code_B_med ==
  /\ Program["B.med"] = B!med /\ Len(Program["B.med"]) = 3
  /\ Program["B.med"][1] = Instr("p", "semaphoreBarrier", 0)
  /\ Program["B.med"][2] = Instr("sleep", "self", 1)
  /\ Program["B.med"][3] = Instr("spin", "self", 5)
<1>1. Program["B.med"] = B!med
  BY ProgramsAssumption DEF Programs, Tasks, A!Tasks, B!Tasks, C!Tasks, D!Tasks, E!Tasks,
     B!Programs
<1>2. QED
  BY <1>1 DEF B!med, B!Instr, Instr, B!P, B!Sleep, B!Spin

LEMMA Code_B_high ==
  /\ Program["B.high"] = B!high /\ Len(Program["B.high"]) = 5
  /\ Program["B.high"][1] = Instr("p", "semaphoreBarrier", 0)
  /\ Program["B.high"][2] = Instr("sleep", "self", 2)
  /\ Program["B.high"][3] = Instr("p", "semaphoreResource", 0)
  /\ Program["B.high"][4] = Instr("spin", "self", 2)
  /\ Program["B.high"][5] = Instr("v", "semaphoreResource", 0)
<1>1. Program["B.high"] = B!high
  BY ProgramsAssumption DEF Programs, Tasks, A!Tasks, B!Tasks, C!Tasks, D!Tasks, E!Tasks,
     B!Programs
<1>2. QED
  BY <1>1 DEF B!high, B!Instr, Instr, B!P, B!Sleep, B!Spin, B!V

LEMMA Code_B_barrier ==
  /\ Program["B.barrier"] = B!barrier /\ Len(Program["B.barrier"]) = 12
  /\ Program["B.barrier"][1] = Instr("create", "semaphoreBarrier", 0)
  /\ Program["B.barrier"][2] = Instr("create", "semaphoreResource", 1)
  /\ Program["B.barrier"][3] = Instr("start", "B.low", 0)
  /\ Program["B.barrier"][4] = Instr("start", "B.med", 0)
  /\ Program["B.barrier"][5] = Instr("start", "B.high", 0)
  /\ Program["B.barrier"][6] = Instr("sleep", "self", SLEEP_PERIOD)
  /\ Program["B.barrier"][7] = Instr("broadcast", "semaphoreBarrier", 0)
  /\ Program["B.barrier"][8] = Instr("sleep", "self", SLEEP_PERIOD)
  /\ Program["B.barrier"][9] = Instr("join", "B.low", 0)
  /\ Program["B.barrier"][10] = Instr("join", "B.med", 0)
  /\ Program["B.barrier"][11] = Instr("join", "B.high", 0)
  /\ Program["B.barrier"][12] = Instr("forever", "self", 0)
<1>1. Program["B.barrier"] = B!barrier
  BY ProgramsAssumption DEF Programs, Tasks, A!Tasks, B!Tasks, C!Tasks, D!Tasks, E!Tasks,
     B!Programs
<1>2. QED
  BY <1>1 DEF B!barrier, B!Instr, Instr, B!Broadcast, B!Forever, B!Join, B!SemCreate, B!Sleep, B!Start

LEMMA Code_C_low ==
  /\ Program["C.low"] = C!low /\ Len(Program["C.low"]) = 4
  /\ Program["C.low"][1] = Instr("p", "semaphoreBarrier", 0)
  /\ Program["C.low"][2] = Instr("acquire", "mutexResource", 0)
  /\ Program["C.low"][3] = Instr("spin", "self", 3)
  /\ Program["C.low"][4] = Instr("release", "mutexResource", 0)
<1>1. Program["C.low"] = C!low
  BY ProgramsAssumption DEF Programs, Tasks, A!Tasks, B!Tasks, C!Tasks, D!Tasks, E!Tasks,
     C!Programs
<1>2. QED
  BY <1>1 DEF C!low, C!Instr, Instr, C!Acquire, C!P, C!Release, C!Spin

LEMMA Code_C_med ==
  /\ Program["C.med"] = C!med /\ Len(Program["C.med"]) = 7
  /\ Program["C.med"][1] = Instr("p", "semaphoreBarrier", 0)
  /\ Program["C.med"][2] = Instr("sleep", "self", 1)
  /\ Program["C.med"][3] = Instr("spin", "self", 1)
  /\ Program["C.med"][4] = Instr("spin", "self", 1)
  /\ Program["C.med"][5] = Instr("spin", "self", 1)
  /\ Program["C.med"][6] = Instr("spin", "self", 1)
  /\ Program["C.med"][7] = Instr("spin", "self", 1)
<1>1. Program["C.med"] = C!med
  BY ProgramsAssumption DEF Programs, Tasks, A!Tasks, B!Tasks, C!Tasks, D!Tasks, E!Tasks,
     C!Programs
<1>2. QED
  BY <1>1 DEF C!med, C!Instr, Instr, C!P, C!Sleep, C!Spin

LEMMA Code_C_high ==
  /\ Program["C.high"] = C!high /\ Len(Program["C.high"]) = 5
  /\ Program["C.high"][1] = Instr("p", "semaphoreBarrier", 0)
  /\ Program["C.high"][2] = Instr("sleep", "self", 2)
  /\ Program["C.high"][3] = Instr("acquire", "mutexResource", 0)
  /\ Program["C.high"][4] = Instr("spin", "self", 2)
  /\ Program["C.high"][5] = Instr("release", "mutexResource", 0)
<1>1. Program["C.high"] = C!high
  BY ProgramsAssumption DEF Programs, Tasks, A!Tasks, B!Tasks, C!Tasks, D!Tasks, E!Tasks,
     C!Programs
<1>2. QED
  BY <1>1 DEF C!high, C!Instr, Instr, C!Acquire, C!P, C!Release, C!Sleep, C!Spin

LEMMA Code_C_barrier ==
  /\ Program["C.barrier"] = C!barrier /\ Len(Program["C.barrier"]) = 11
  /\ Program["C.barrier"][1] = Instr("create", "semaphoreBarrier", 0)
  /\ Program["C.barrier"][2] = Instr("start", "C.low", 0)
  /\ Program["C.barrier"][3] = Instr("start", "C.med", 0)
  /\ Program["C.barrier"][4] = Instr("start", "C.high", 0)
  /\ Program["C.barrier"][5] = Instr("sleep", "self", SLEEP_PERIOD)
  /\ Program["C.barrier"][6] = Instr("broadcast", "semaphoreBarrier", 0)
  /\ Program["C.barrier"][7] = Instr("sleep", "self", SLEEP_PERIOD)
  /\ Program["C.barrier"][8] = Instr("join", "C.low", 0)
  /\ Program["C.barrier"][9] = Instr("join", "C.med", 0)
  /\ Program["C.barrier"][10] = Instr("join", "C.high", 0)
  /\ Program["C.barrier"][11] = Instr("forever", "self", 0)
<1>1. Program["C.barrier"] = C!barrier
  BY ProgramsAssumption DEF Programs, Tasks, A!Tasks, B!Tasks, C!Tasks, D!Tasks, E!Tasks,
     C!Programs
<1>2. QED
  BY <1>1 DEF C!barrier, C!Instr, Instr, C!Broadcast, C!Forever, C!Join, C!SemCreate, C!Sleep, C!Start

LEMMA Code_D_low ==
  /\ Program["D.low"] = D!low /\ Len(Program["D.low"]) = 7
  /\ Program["D.low"][1] = Instr("p", "semaphoreBarrier", 0)
  /\ Program["D.low"][2] = Instr("acquire", "mutexA", 0)
  /\ Program["D.low"][3] = Instr("spin", "self", 3)
  /\ Program["D.low"][4] = Instr("acquire", "mutexB", 0)
  /\ Program["D.low"][5] = Instr("release", "mutexB", 0)
  /\ Program["D.low"][6] = Instr("release", "mutexA", 0)
  /\ Program["D.low"][7] = Instr("spin", "self", 1)
<1>1. Program["D.low"] = D!low
  BY ProgramsAssumption DEF Programs, Tasks, A!Tasks, B!Tasks, C!Tasks, D!Tasks, E!Tasks,
     D!Programs
<1>2. QED
  BY <1>1 DEF D!low, D!Instr, Instr, D!Acquire, D!P, D!Release, D!Spin

LEMMA Code_D_high ==
  /\ Program["D.high"] = D!high /\ Len(Program["D.high"]) = 9
  /\ Program["D.high"][1] = Instr("p", "semaphoreBarrier", 0)
  /\ Program["D.high"][2] = Instr("sleep", "self", 1)
  /\ Program["D.high"][3] = Instr("acquire", "mutexB", 0)
  /\ Program["D.high"][4] = Instr("spin", "self", 1)
  /\ Program["D.high"][5] = Instr("acquire", "mutexA", 0)
  /\ Program["D.high"][6] = Instr("spin", "self", 2)
  /\ Program["D.high"][7] = Instr("release", "mutexA", 0)
  /\ Program["D.high"][8] = Instr("release", "mutexB", 0)
  /\ Program["D.high"][9] = Instr("spin", "self", 1)
<1>1. Program["D.high"] = D!high
  BY ProgramsAssumption DEF Programs, Tasks, A!Tasks, B!Tasks, C!Tasks, D!Tasks, E!Tasks,
     D!Programs
<1>2. QED
  BY <1>1 DEF D!high, D!Instr, Instr, D!Acquire, D!P, D!Release, D!Sleep, D!Spin

LEMMA Code_D_barrier ==
  /\ Program["D.barrier"] = D!barrier /\ Len(Program["D.barrier"]) = 9
  /\ Program["D.barrier"][1] = Instr("create", "semaphoreBarrier", 0)
  /\ Program["D.barrier"][2] = Instr("start", "D.low", 0)
  /\ Program["D.barrier"][3] = Instr("start", "D.high", 0)
  /\ Program["D.barrier"][4] = Instr("sleep", "self", SLEEP_PERIOD)
  /\ Program["D.barrier"][5] = Instr("broadcast", "semaphoreBarrier", 0)
  /\ Program["D.barrier"][6] = Instr("sleep", "self", SLEEP_PERIOD)
  /\ Program["D.barrier"][7] = Instr("join", "D.low", 0)
  /\ Program["D.barrier"][8] = Instr("join", "D.high", 0)
  /\ Program["D.barrier"][9] = Instr("forever", "self", 0)
<1>1. Program["D.barrier"] = D!barrier
  BY ProgramsAssumption DEF Programs, Tasks, A!Tasks, B!Tasks, C!Tasks, D!Tasks, E!Tasks,
     D!Programs
<1>2. QED
  BY <1>1 DEF D!barrier, D!Instr, Instr, D!Broadcast, D!Forever, D!Join, D!SemCreate, D!Sleep, D!Start

LEMMA Code_E_low ==
  /\ Program["E.low"] = E!low /\ Len(Program["E.low"]) = 11
  /\ Program["E.low"][1] = Instr("p", "semaphoreBarrier", 0)
  /\ Program["E.low"][2] = Instr("setprio", "self", 5)
  /\ Program["E.low"][3] = Instr("acquire", "mutexA", 0)
  /\ Program["E.low"][4] = Instr("spin", "self", 3)
  /\ Program["E.low"][5] = Instr("setprio", "self", 10)
  /\ Program["E.low"][6] = Instr("acquire", "mutexB", 0)
  /\ Program["E.low"][7] = Instr("release", "mutexB", 0)
  /\ Program["E.low"][8] = Instr("setprio", "self", 1)
  /\ Program["E.low"][9] = Instr("release", "mutexA", 0)
  /\ Program["E.low"][10] = Instr("setprio", "self", 1)
  /\ Program["E.low"][11] = Instr("spin", "self", 1)
<1>1. Program["E.low"] = E!low
  BY ProgramsAssumption DEF Programs, Tasks, A!Tasks, B!Tasks, C!Tasks, D!Tasks, E!Tasks,
     E!Programs
<1>2. E!Ceiling["mutexA"] = 5 /\ E!Ceiling["mutexB"] = 10
  BY DEF E!Ceiling, E!Mutexes
<1>3. QED
  BY <1>1, <1>2 DEF E!low, E!Instr, Instr, E!Acquire, E!P, E!Release, E!SetPriority, E!Spin, E!icpp_lock, E!icpp_unlock

LEMMA Code_E_high ==
  /\ Program["E.high"] = E!high /\ Len(Program["E.high"]) = 13
  /\ Program["E.high"][1] = Instr("p", "semaphoreBarrier", 0)
  /\ Program["E.high"][2] = Instr("sleep", "self", 1)
  /\ Program["E.high"][3] = Instr("setprio", "self", 10)
  /\ Program["E.high"][4] = Instr("acquire", "mutexB", 0)
  /\ Program["E.high"][5] = Instr("spin", "self", 1)
  /\ Program["E.high"][6] = Instr("setprio", "self", 5)
  /\ Program["E.high"][7] = Instr("acquire", "mutexA", 0)
  /\ Program["E.high"][8] = Instr("spin", "self", 2)
  /\ Program["E.high"][9] = Instr("release", "mutexA", 0)
  /\ Program["E.high"][10] = Instr("setprio", "self", 2)
  /\ Program["E.high"][11] = Instr("release", "mutexB", 0)
  /\ Program["E.high"][12] = Instr("setprio", "self", 2)
  /\ Program["E.high"][13] = Instr("spin", "self", 1)
<1>1. Program["E.high"] = E!high
  BY ProgramsAssumption DEF Programs, Tasks, A!Tasks, B!Tasks, C!Tasks, D!Tasks, E!Tasks,
     E!Programs
<1>2. E!Ceiling["mutexA"] = 5 /\ E!Ceiling["mutexB"] = 10
  BY DEF E!Ceiling, E!Mutexes
<1>3. QED
  BY <1>1, <1>2 DEF E!high, E!Instr, Instr, E!Acquire, E!P, E!Release, E!SetPriority, E!Sleep, E!Spin, E!icpp_lock, E!icpp_unlock

LEMMA Code_E_barrier ==
  /\ Program["E.barrier"] = E!barrier /\ Len(Program["E.barrier"]) = 9
  /\ Program["E.barrier"][1] = Instr("create", "semaphoreBarrier", 0)
  /\ Program["E.barrier"][2] = Instr("start", "E.low", 0)
  /\ Program["E.barrier"][3] = Instr("start", "E.high", 0)
  /\ Program["E.barrier"][4] = Instr("sleep", "self", SLEEP_PERIOD)
  /\ Program["E.barrier"][5] = Instr("broadcast", "semaphoreBarrier", 0)
  /\ Program["E.barrier"][6] = Instr("sleep", "self", SLEEP_PERIOD)
  /\ Program["E.barrier"][7] = Instr("join", "E.low", 0)
  /\ Program["E.barrier"][8] = Instr("join", "E.high", 0)
  /\ Program["E.barrier"][9] = Instr("forever", "self", 0)
<1>1. Program["E.barrier"] = E!barrier
  BY ProgramsAssumption DEF Programs, Tasks, A!Tasks, B!Tasks, C!Tasks, D!Tasks, E!Tasks,
     E!Programs
<1>2. QED
  BY <1>1 DEF E!barrier, E!Instr, Instr, E!Broadcast, E!Forever, E!Join, E!SemCreate, E!Sleep, E!Start
-----------------------------------------------------------------------------
(* Mutexes *)

\* A task is at a statement or past the last.
LEMMA Place ==
  ASSUME CallTypes, NEW t \in Task, NEW n, Len(Program[t]) = n
  PROVE  pc[t] \in 1 .. n + 1
  BY DEF CallTypes

\* Which call x = Program[t][i] can be, of those the proofs ask about.
CallTable(t, i, op, arg, n) ==
  /\ op = "start" =>
       \/ t = "A.thread3" /\ i = 2 /\ arg = "A.thread1"
       \/ t = "A.thread3" /\ i = 3 /\ arg = "A.thread2"
       \/ t = "B.barrier" /\ i = 3 /\ arg = "B.low"
       \/ t = "B.barrier" /\ i = 4 /\ arg = "B.med"
       \/ t = "B.barrier" /\ i = 5 /\ arg = "B.high"
       \/ t = "C.barrier" /\ i = 2 /\ arg = "C.low"
       \/ t = "C.barrier" /\ i = 3 /\ arg = "C.med"
       \/ t = "C.barrier" /\ i = 4 /\ arg = "C.high"
       \/ t = "D.barrier" /\ i = 2 /\ arg = "D.low"
       \/ t = "D.barrier" /\ i = 3 /\ arg = "D.high"
       \/ t = "E.barrier" /\ i = 2 /\ arg = "E.low"
       \/ t = "E.barrier" /\ i = 3 /\ arg = "E.high"
  /\ op = "broadcast" =>
       \/ t = "A.thread3" /\ i = 5 /\ arg = "semaphore1"
       \/ t = "B.barrier" /\ i = 7 /\ arg = "semaphoreBarrier"
       \/ t = "C.barrier" /\ i = 6 /\ arg = "semaphoreBarrier"
       \/ t = "D.barrier" /\ i = 5 /\ arg = "semaphoreBarrier"
       \/ t = "E.barrier" /\ i = 5 /\ arg = "semaphoreBarrier"
  /\ op = "v" =>
       \/ t = "B.low" /\ i = 4 /\ arg = "semaphoreResource"
       \/ t = "B.high" /\ i = 5 /\ arg = "semaphoreResource"
  /\ op = "create" =>
       \/ t = "A.thread3" /\ i = 1 /\ arg = "semaphore1" /\ n = 0
       \/ t = "B.barrier" /\ i = 1 /\ arg = "semaphoreBarrier" /\ n = 0
       \/ t = "B.barrier" /\ i = 2 /\ arg = "semaphoreResource" /\ n = 1
       \/ t = "C.barrier" /\ i = 1 /\ arg = "semaphoreBarrier" /\ n = 0
       \/ t = "D.barrier" /\ i = 1 /\ arg = "semaphoreBarrier" /\ n = 0
       \/ t = "E.barrier" /\ i = 1 /\ arg = "semaphoreBarrier" /\ n = 0
  /\ op = "delete" => t = "A.thread3" /\ i = 9 /\ arg = "semaphore1"
  /\ op = "acquire" =>
       \/ t = "C.low" /\ i = 2 /\ arg = "mutexResource"
       \/ t = "C.high" /\ i = 3 /\ arg = "mutexResource"
       \/ t = "D.low" /\ i = 2 /\ arg = "mutexA"
       \/ t = "D.low" /\ i = 4 /\ arg = "mutexB"
       \/ t = "D.high" /\ i = 3 /\ arg = "mutexB"
       \/ t = "D.high" /\ i = 5 /\ arg = "mutexA"
       \/ t = "E.low" /\ i = 3 /\ arg = "mutexA"
       \/ t = "E.low" /\ i = 6 /\ arg = "mutexB"
       \/ t = "E.high" /\ i = 4 /\ arg = "mutexB"
       \/ t = "E.high" /\ i = 7 /\ arg = "mutexA"
  /\ op = "forever" =>
       \/ t = "B.barrier" /\ i = 12
       \/ t = "C.barrier" /\ i = 11
       \/ t = "D.barrier" /\ i = 9
       \/ t = "E.barrier" /\ i = 9
  /\ op = "p" /\ arg = "semaphoreResource" =>
       (t = "B.low" /\ i = 2) \/ (t = "B.high" /\ i = 3)
  /\ op = "p" => t \notin BootTasks
  /\ op = "setprio" => t \in {"E.low", "E.high"}

LEMMA Calls ==
  ASSUME NEW t \in Task, NEW i \in 1 .. Len(Program[t])
  PROVE  CallTable(t, i, Program[t][i].op, Program[t][i].arg, Program[t][i].n)
<1>1. t \in Tasks
  BY ProgramsAssumption
<1>2. CASE t = "A.thread1"
  BY <1>2, Code_A_thread1 DEF CallTable, Instr, BootTasks
<1>3. CASE t = "A.thread2"
  BY <1>3, Code_A_thread2 DEF CallTable, Instr, BootTasks
<1>4. CASE t = "A.thread3"
  BY <1>4, Code_A_thread3 DEF CallTable, Instr, BootTasks
<1>5. CASE t = "B.low"
  BY <1>5, Code_B_low DEF CallTable, Instr, BootTasks
<1>6. CASE t = "B.med"
  BY <1>6, Code_B_med DEF CallTable, Instr, BootTasks
<1>7. CASE t = "B.high"
  BY <1>7, Code_B_high DEF CallTable, Instr, BootTasks
<1>8. CASE t = "B.barrier"
  BY <1>8, Code_B_barrier DEF CallTable, Instr, BootTasks
<1>9. CASE t = "C.low"
  BY <1>9, Code_C_low DEF CallTable, Instr, BootTasks
<1>10. CASE t = "C.med"
  BY <1>10, Code_C_med DEF CallTable, Instr, BootTasks
<1>11. CASE t = "C.high"
  BY <1>11, Code_C_high DEF CallTable, Instr, BootTasks
<1>12. CASE t = "C.barrier"
  BY <1>12, Code_C_barrier DEF CallTable, Instr, BootTasks
<1>13. CASE t = "D.low"
  BY <1>13, Code_D_low DEF CallTable, Instr, BootTasks
<1>14. CASE t = "D.high"
  BY <1>14, Code_D_high DEF CallTable, Instr, BootTasks
<1>15. CASE t = "D.barrier"
  BY <1>15, Code_D_barrier DEF CallTable, Instr, BootTasks
<1>16. CASE t = "E.low"
  BY <1>16, Code_E_low DEF CallTable, Instr, BootTasks
<1>17. CASE t = "E.high"
  BY <1>17, Code_E_high DEF CallTable, Instr, BootTasks
<1>18. CASE t = "E.barrier"
  BY <1>18, Code_E_barrier DEF CallTable, Instr, BootTasks
<1>19. QED
  BY <1>1, <1>2, <1>3, <1>4, <1>5, <1>6, <1>7, <1>8, <1>9, <1>10,
     <1>11, <1>12, <1>13, <1>14, <1>15, <1>16, <1>17, <1>18
  DEF Tasks, A!Tasks, B!Tasks, C!Tasks, D!Tasks, E!Tasks

\* The same of the statement a task is at.
LEMMA WhoCalls ==
  ASSUME CallTypes, NEW t \in Task, NEW op, At(t, op)
  PROVE  CallTable(t, pc[t], op, Arg(t), Num(t))
<1>1. pc[t] \in 1 .. Len(Program[t]) /\ Program[t][pc[t]].op = op
  BY KernelAssumption DEF CallTypes, At
<1>2. QED
  BY <1>1, Calls DEF Arg, Num

\* Program t acquires m at statement a, releases it at r, and uses it nowhere else.
SectionOf(t, m, a, r) ==
  /\ a \in Nat \ {0} /\ r \in Nat /\ a < r
  /\ \A j \in 1 .. Len(Program[t]) :
       /\ Program[t][j].op = "acquire" /\ Program[t][j].arg = m <=> j = a
       /\ Program[t][j].op = "release" /\ Program[t][j].arg = m <=> j = r

LEMMA Section ==
  ASSUME CallTypes, NEW t \in Task, NEW m, NEW a, NEW r, SectionOf(t, m, a, r)
  PROVE  Holds(t, m) <=> pc[t] \in a + 1 .. r
<1>1. pc[t] \in 1 .. Len(Program[t]) + 1 /\ Len(Program[t]) \in Nat
  BY KernelAssumption DEF CallTypes
<1> DEFINE i == pc[t]
           Acq(j) == Program[t][j].op = "acquire" /\ Program[t][j].arg = m
           Rel(j) == Program[t][j].op = "release" /\ Program[t][j].arg = m
<1>2. /\ a \in Nat \ {0} /\ r \in Nat /\ a < r
      /\ \A j \in 1 .. Len(Program[t]) : (Acq(j) <=> j = a) /\ (Rel(j) <=> j = r)
  BY DEF SectionOf
<1>3. Holds(t, m) <=> \E b \in 1 .. i - 1 : Acq(b) /\ \A j \in b + 1 .. i - 1 : ~Rel(j)
  BY DEF Holds, Inside
<1> HIDE DEF Acq, Rel
<1>4. ASSUME NEW b \in 1 .. i - 1, Acq(b), \A j \in b + 1 .. i - 1 : ~Rel(j)
      PROVE  i \in a + 1 .. r
  <2>1. b = a /\ (r <= i - 1 => r \in a + 1 .. i - 1 /\ Rel(r))
    BY <1>1, <1>2, <1>4
  <2>2. QED
    BY <1>1, <1>2, <1>4, <2>1
<1>5. ASSUME i \in a + 1 .. r
      PROVE  a \in 1 .. i - 1 /\ Acq(a) /\ \A j \in a + 1 .. i - 1 : ~Rel(j)
  BY <1>1, <1>2, <1>5
<1>6. QED
  BY <1>3, <1>4, <1>5

\* Who is inside which mutex, and where.
LEMMA Holders ==
  ASSUME CallTypes, NEW t \in Task, NEW m \in Mutex
  PROVE  Holds(t, m) <=>
           \/ t = "C.low" /\ m = "mutexResource" /\ pc[t] \in 3 .. 4
           \/ t = "C.high" /\ m = "mutexResource" /\ pc[t] \in 4 .. 5
           \/ t = "D.low" /\ m = "mutexA" /\ pc[t] \in 3 .. 6
           \/ t = "D.low" /\ m = "mutexB" /\ pc[t] \in 5 .. 5
           \/ t = "D.high" /\ m = "mutexB" /\ pc[t] \in 4 .. 8
           \/ t = "D.high" /\ m = "mutexA" /\ pc[t] \in 6 .. 7
           \/ t = "E.low" /\ m = "mutexA" /\ pc[t] \in 4 .. 9
           \/ t = "E.low" /\ m = "mutexB" /\ pc[t] \in 7 .. 7
           \/ t = "E.high" /\ m = "mutexB" /\ pc[t] \in 5 .. 11
           \/ t = "E.high" /\ m = "mutexA" /\ pc[t] \in 8 .. 9
<1>1. m \in {"mutexResource", "mutexA", "mutexB"} /\ pc[t] \in 1 .. Len(Program[t]) + 1
  BY ProgramsAssumption DEF CallTypes, Mutexes, C!Mutexes, D!Mutexes, E!Mutexes
<1>2. ASSUME t = "C.low", m = "mutexResource" PROVE Holds(t, m) <=> pc[t] \in 3 .. 4
  <2>1. SectionOf(t, m, 2, 4)
    BY <1>2, Code_C_low DEF SectionOf, Instr
  <2>2. QED
    BY <2>1, Section
<1>3. ASSUME t = "C.high", m = "mutexResource" PROVE Holds(t, m) <=> pc[t] \in 4 .. 5
  <2>1. SectionOf(t, m, 3, 5)
    BY <1>3, Code_C_high DEF SectionOf, Instr
  <2>2. QED
    BY <2>1, Section
<1>4. ASSUME t = "D.low", m = "mutexA" PROVE Holds(t, m) <=> pc[t] \in 3 .. 6
  <2>1. SectionOf(t, m, 2, 6)
    BY <1>4, Code_D_low DEF SectionOf, Instr
  <2>2. QED
    BY <2>1, Section
<1>5. ASSUME t = "D.low", m = "mutexB" PROVE Holds(t, m) <=> pc[t] \in 5 .. 5
  <2>1. SectionOf(t, m, 4, 5)
    BY <1>5, Code_D_low DEF SectionOf, Instr
  <2>2. QED
    BY <2>1, Section
<1>6. ASSUME t = "D.high", m = "mutexB" PROVE Holds(t, m) <=> pc[t] \in 4 .. 8
  <2>1. SectionOf(t, m, 3, 8)
    BY <1>6, Code_D_high DEF SectionOf, Instr
  <2>2. QED
    BY <2>1, Section
<1>7. ASSUME t = "D.high", m = "mutexA" PROVE Holds(t, m) <=> pc[t] \in 6 .. 7
  <2>1. SectionOf(t, m, 5, 7)
    BY <1>7, Code_D_high DEF SectionOf, Instr
  <2>2. QED
    BY <2>1, Section
<1>8. ASSUME t = "E.low", m = "mutexA" PROVE Holds(t, m) <=> pc[t] \in 4 .. 9
  <2>1. SectionOf(t, m, 3, 9)
    BY <1>8, Code_E_low DEF SectionOf, Instr
  <2>2. QED
    BY <2>1, Section
<1>9. ASSUME t = "E.low", m = "mutexB" PROVE Holds(t, m) <=> pc[t] \in 7 .. 7
  <2>1. SectionOf(t, m, 6, 7)
    BY <1>9, Code_E_low DEF SectionOf, Instr
  <2>2. QED
    BY <2>1, Section
<1>10. ASSUME t = "E.high", m = "mutexB" PROVE Holds(t, m) <=> pc[t] \in 5 .. 11
  <2>1. SectionOf(t, m, 4, 11)
    BY <1>10, Code_E_high DEF SectionOf, Instr
  <2>2. QED
    BY <2>1, Section
<1>11. ASSUME t = "E.high", m = "mutexA" PROVE Holds(t, m) <=> pc[t] \in 8 .. 9
  <2>1. SectionOf(t, m, 7, 9)
    BY <1>11, Code_E_high DEF SectionOf, Instr
  <2>2. QED
    BY <2>1, Section
<1>12. ASSUME Holds(t, m)
      PROVE  \E a \in 1 .. Len(Program[t]) : Program[t][a].op = "acquire" /\ Program[t][a].arg = m
  BY <1>1, <1>12, KernelAssumption DEF Holds, Inside
<1>13. ASSUME NEW a \in 1 .. Len(Program[t]),
              Program[t][a].op = "acquire", Program[t][a].arg = m
      PROVE  <<t, m>> \in {<<"C.low", "mutexResource">>,
                             <<"C.high", "mutexResource">>,
                             <<"D.low", "mutexA">>,
                             <<"D.low", "mutexB">>,
                             <<"D.high", "mutexB">>,
                             <<"D.high", "mutexA">>,
                             <<"E.low", "mutexA">>,
                             <<"E.low", "mutexB">>,
                             <<"E.high", "mutexB">>,
                             <<"E.high", "mutexA">>}
  BY <1>13, Calls DEF CallTable
<1>14. QED
  BY <1>2, <1>3, <1>4, <1>5, <1>6, <1>7, <1>8, <1>9, <1>10, <1>11, <1>12, <1>13

\* What each task's own priority is, by place where it sets it.
LEMMA Bases ==
  ASSUME CallTypes, BaseAsSet
  PROVE
    /\ base["A.thread1"] = 1 /\ base["A.thread2"] = 2 /\ base["A.thread3"] = 3
    /\ base["B.low"] = 1 /\ base["B.med"] = 2 /\ base["B.high"] = 3
    /\ base["B.barrier"] = 0 /\ base["C.low"] = 1 /\ base["C.med"] = 2
    /\ base["C.high"] = 3 /\ base["C.barrier"] = 0 /\ base["D.low"] = 1
    /\ base["D.high"] = 2 /\ base["D.barrier"] = 0 /\ base["E.barrier"] = 0
    /\ pc["E.low"] \in 1 .. 12 /\ pc["E.high"] \in 1 .. 14
    /\ base["E.low"] = IF pc["E.low"] \in 3 .. 5 THEN 5
                       ELSE IF pc["E.low"] \in 6 .. 8 THEN 10 ELSE 1
    /\ base["E.high"] = IF pc["E.high"] \in 4 .. 6 THEN 10
                        ELSE IF pc["E.high"] \in 7 .. 10 THEN 5 ELSE 2
<1>1. /\ \A t \in Task : Len(Program[t]) \in Nat /\ pc[t] \in 1 .. Len(Program[t]) + 1
      /\ Task = Tasks
  BY ProgramsAssumption, KernelAssumption DEF CallTypes
<1>2. ASSUME NEW t \in Task \ {"E.low", "E.high"} PROVE base[t] = BasePrio[t]
  <2>1. ASSUME NEW i \in 1 .. Len(Program[t]) PROVE Program[t][i].op # "setprio"
    BY <2>1, Calls DEF CallTable
  <2>2. 1 .. pc[t] - 1 \subseteq 1 .. Len(Program[t])
    BY <1>1
  <2>3. QED
    BY <2>1, <2>2 DEF BaseAsSet
<1>3. ASSUME NEW t \in Task PROVE BasePrio[t] = Priorities[t]
  BY ProgramsAssumption
<1>4. "E.low" \in Task /\ "E.high" \in Task
  BY <1>1 DEF Tasks, E!Tasks
<1>5. pc["E.low"] \in 1 .. 12 /\ pc["E.high"] \in 1 .. 14
  <2>1. pc["E.low"] \in 1 .. 11 + 1 /\ pc["E.high"] \in 1 .. 13 + 1
    BY <1>4, Place, Code_E_low, Code_E_high
  <2>2. QED
    BY <2>1

<1>6. base["E.low"] = IF pc["E.low"] \in 3 .. 5 THEN 5
                     ELSE IF pc["E.low"] \in 6 .. 8 THEN 10 ELSE 1
  <2> DEFINE set == {i \in 1 .. pc["E.low"] - 1 : Program["E.low"][i].op = "setprio"}
  <2>1. set = {i \in {2, 5, 8, 10} : i < pc["E.low"]}
    BY <1>5, Code_E_low DEF Instr
  <2>2. \/ set = {} /\ base["E.low"] = BasePrio["E.low"]
        \/ \E i \in set : base["E.low"] = Program["E.low"][i].n /\ \A j \in set : j <= i
    BY <1>4 DEF BaseAsSet
  <2>3. BasePrio["E.low"] = 1
    BY <1>3, <1>4 DEF Priorities, Tasks, A!Tasks, B!Tasks, C!Tasks, D!Tasks, E!Tasks, E!Priorities
  <2> HIDE DEF set
  <2>4. QED
    BY <1>5, <2>1, <2>2, <2>3, Code_E_low DEF Instr
<1>7. base["E.high"] = IF pc["E.high"] \in 4 .. 6 THEN 10
                      ELSE IF pc["E.high"] \in 7 .. 10 THEN 5 ELSE 2
  <2> DEFINE set == {i \in 1 .. pc["E.high"] - 1 : Program["E.high"][i].op = "setprio"}
  <2>1. set = {i \in {3, 6, 10, 12} : i < pc["E.high"]}
    BY <1>5, Code_E_high DEF Instr
  <2>2. \/ set = {} /\ base["E.high"] = BasePrio["E.high"]
        \/ \E i \in set : base["E.high"] = Program["E.high"][i].n /\ \A j \in set : j <= i
    BY <1>4 DEF BaseAsSet
  <2>3. BasePrio["E.high"] = 2
    BY <1>3, <1>4 DEF Priorities, Tasks, A!Tasks, B!Tasks, C!Tasks, D!Tasks, E!Tasks, E!Priorities
  <2> HIDE DEF set
  <2>4. QED
    BY <1>5, <2>1, <2>2, <2>3, Code_E_high DEF Instr
<1>8. base["A.thread1"] = 1 /\ base["A.thread2"] = 2 /\ base["A.thread3"] = 3
  <2>1. Priorities["A.thread1"] = 1 /\ Priorities["A.thread2"] = 2 /\ Priorities["A.thread3"] = 3
    BY DEF Priorities, Tasks, A!Tasks, B!Tasks, C!Tasks, D!Tasks, E!Tasks, A!Priorities
  <2>2. QED
    BY <1>1, <1>2, <1>3, <2>1 DEF Tasks, A!Tasks
<1>9. base["B.low"] = 1 /\ base["B.med"] = 2 /\ base["B.high"] = 3 /\ base["B.barrier"] = 0
  <2>1. Priorities["B.low"] = 1 /\ Priorities["B.med"] = 2 /\ Priorities["B.high"] = 3 /\ Priorities["B.barrier"] = 0
    BY DEF Priorities, Tasks, A!Tasks, B!Tasks, C!Tasks, D!Tasks, E!Tasks, B!Priorities
  <2>2. QED
    BY <1>1, <1>2, <1>3, <2>1 DEF Tasks, B!Tasks
<1>10. base["C.low"] = 1 /\ base["C.med"] = 2 /\ base["C.high"] = 3 /\ base["C.barrier"] = 0
  <2>1. Priorities["C.low"] = 1 /\ Priorities["C.med"] = 2 /\ Priorities["C.high"] = 3 /\ Priorities["C.barrier"] = 0
    BY DEF Priorities, Tasks, A!Tasks, B!Tasks, C!Tasks, D!Tasks, E!Tasks, C!Priorities
  <2>2. QED
    BY <1>1, <1>2, <1>3, <2>1 DEF Tasks, C!Tasks
<1>11. base["D.low"] = 1 /\ base["D.high"] = 2 /\ base["D.barrier"] = 0
  <2>1. Priorities["D.low"] = 1 /\ Priorities["D.high"] = 2 /\ Priorities["D.barrier"] = 0
    BY DEF Priorities, Tasks, A!Tasks, B!Tasks, C!Tasks, D!Tasks, E!Tasks, D!Priorities
  <2>2. QED
    BY <1>1, <1>2, <1>3, <2>1 DEF Tasks, D!Tasks
<1>12. base["E.barrier"] = 0
  <2>1. Priorities["E.barrier"] = 0
    BY DEF Priorities, Tasks, A!Tasks, B!Tasks, C!Tasks, D!Tasks, E!Tasks, E!Priorities
  <2>2. QED
    BY <1>1, <1>2, <1>3, <2>1 DEF Tasks, E!Tasks
<1>13. QED
  BY <1>5, <1>6, <1>7, <1>8, <1>9, <1>10, <1>11, <1>12

-----------------------------------------------------------------------------
(* Urgency *)

\* Nobody who can run is more urgent than who runs.
LEMMA Outranked ==
  ASSUME KernelInv, NEW b \in Task, NEW t \in Task, running = b, status[t] = "ready"
  PROVE  Prio(t) <= Prio(b)
  BY KernelAssumption DEF KernelInv, MostUrgentRuns, Best, Top

\* A task that waits for a mutex waits for the one inside it.
LEMMA MutexWaiter ==
  ASSUME KernelInv, NEW t \in Task, status[t] = "mutex"
  PROVE  /\ At(t, "acquire") /\ Arg(t) \in Mutex /\ owner[Arg(t)] \in Task \ {t}
         /\ Holds(owner[Arg(t)], Arg(t))
<1>1. CallTypes /\ At(t, "acquire") /\ owner[Arg(t)] \notin {None, t}
  BY KernelInvParts DEF CallInv, BlockedAtCall, WaitersHaveReason
<1>2. pc[t] <= Len(Program[t]) /\ Program[t][pc[t]].op = "acquire"
  BY <1>1 DEF At
<1>3. WellFormed(Program[t][pc[t]])
  BY <1>1, <1>2, Statement
<1>4. Arg(t) \in Mutex
  BY <1>2, <1>3 DEF WellFormed, Arg
<1>5. owner[Arg(t)] \in Task \ {t}
  BY <1>1, <1>4 DEF CallTypes
<1>6. QED
  BY <1>1, <1>4, <1>5 DEF KernelInv, OwnerInside

\* Nobody lends a task that is inside no mutex.
LEMMA HoldsNone ==
  ASSUME KernelInv, NEW t \in Task, \A m \in Mutex : ~Holds(t, m)
  PROVE  Prio(t) = base[t] /\ base[t] \in Nat
<1>1. \A u \in Task : status[u] = "mutex" => owner[Arg(u)] # t
  BY MutexWaiter
<1>2. QED
  BY <1>1, PrioAlone, KernelInvParts DEF CallInv

LEMMA NobodyWaits ==
  ASSUME KernelInv, NEW t \in Task, \A u \in Task : status[u] # "mutex"
  PROVE  Prio(t) = base[t] /\ base[t] \in Nat
  BY PrioAlone, KernelInvParts DEF CallInv

\* A task is started by its start and by nothing else, and once.
LEMMA Dormancy ==
  ASSUME KernelInv, [Next]_vars, NEW u \in Task
  PROVE  /\ status[u] # "dormant" => status'[u] # "dormant"
         /\ status[u] = "dormant" /\ status'[u] # "dormant" =>
              \E t \in Task : /\ running = t /\ status[t] = "ready"
                              /\ At(t, "start") /\ Arg(t) = u /\ pc'[t] = pc[t] + 1
         /\ \A t \in Task : At(t, "start") /\ Arg(t) = u /\ pc'[t] # pc[t]
              => status'[u] # "dormant"
<1>1. CASE \E t \in Task : /\ running = t /\ status[t] = "ready"
                           /\ \A w \in Task : Outline(t, w)
  <2>1. PICK t \in Task : /\ running = t /\ status[t] = "ready"
                          /\ \A w \in Task : Outline(t, w)
    BY <1>1
  <2>2. ASSUME status[u] = "dormant", status'[u] # "dormant"
        PROVE  At(t, "start") /\ Arg(t) = u /\ t # u
    BY <2>1, <2>2 DEF Outline, Untouched, Starts, Wakes
  <2>3. ASSUME At(t, "start") PROVE pc'[t] = pc[t] + 1
    <3>1. ~Returning(t) /\ \A o : At(t, o) => o = "start"
      BY <2>3, AtStatement, KernelInvParts
    <3>2. GoesOn(t)
      BY <2>1, <3>1 DEF Outline, Untouched, Starts, Wakes, Blocks, Returns
    <3>3. QED
      BY <3>2 DEF GoesOn, Moves
  <2>4. status[u] # "dormant" => status'[u] # "dormant"
    BY <2>1 DEF Outline, Untouched, Starts, Wakes, GoesOn, Blocks, Returns, Moves
  <2>5. ASSUME NEW w \in Task, At(w, "start"), Arg(w) = u, pc'[w] # pc[w],
               status[u] = "dormant"
        PROVE  status'[u] # "dormant"
    <3>1. running = w /\ status[w] = "ready" /\ Outline(w, u)
      <4>1. \A o : At(w, o) => o = "start"
        BY <2>5, AtStatement, KernelInvParts
      <4>2. QED
        BY <2>5, <4>1, RunsItself
    <3>2. QED
      BY <2>5, <3>1 DEF Outline, Untouched, Starts, Wakes
  <2>6. QED
    BY <2>1, <2>2, <2>3, <2>4, <2>5
<1>2. CASE \E t \in Task : WakesUp(t)
  <2>1. PICK t \in Task : WakesUp(t)
    BY <1>2
  <2>2. (status[u] = "dormant") <=> (status'[u] = "dormant")
    BY <2>1 DEF WakesUp, Moves
  <2>3. ASSUME NEW w \in Task, At(w, "start"), pc'[w] # pc[w] PROVE FALSE
    <3>1. w = t /\ At(t, "sleep") /\ \A o : At(w, o) => o = "start"
      BY <2>1, <2>3, AtStatement, KernelInvParts DEF WakesUp, Keeps
    <3>2. QED
      BY <3>1
  <2>4. QED
    BY <2>2, <2>3
<1>3. CASE Rests
  BY <1>3 DEF Rests
<1>4. QED
  BY <1>1, <1>2, <1>3, StepOutline

\* No step moves a task by more than a statement.
LEMMA StepByStep ==
  ASSUME KernelInv, [Next]_vars, NEW t \in Task
  PROVE  pc'[t] = pc[t] \/ pc'[t] = pc[t] + 1
  BY StepOutline DEF Rests, WakesUp, Outline, Untouched, Starts, Wakes, GoesOn, Blocks,
     Returns, Keeps, Moves

-----------------------------------------------------------------------------
(* The start of each program *)

\* Nobody starts a task of another program, and the barriers stay in their loops.
LEMMA OneProgramStep ==
  ASSUME KernelInv, [Next]_vars, OneProgram
  PROVE  OneProgram'
<1> DEFINE Families == {A!Tasks, B!Tasks, C!Tasks, D!Tasks, E!Tasks}
           Last == BootTasks \ {"A.thread3"}
<1>1. PICK F \in Families : /\ \A t \in Task \ F : status[t] = "dormant"
                            /\ \E b \in F \cap BootTasks : status[b] # "dormant"
  BY DEF OneProgram
<1>2. CallTypes
  BY KernelInvParts DEF CallInv
<1>3. ASSUME NEW u \in Task \ F PROVE status'[u] = "dormant"
  <2>1. SUFFICES ASSUME NEW t \in Task, status[t] = "ready", At(t, "start"), Arg(t) = u
                 PROVE  FALSE
    BY <1>1, Dormancy
  <2>2. t \in F
    BY <1>1, <2>1
  <2>3. u \in F
    <3>1. CallTable(t, pc[t], "start", u, Num(t))
      BY <1>2, <2>1, WhoCalls
    <3>2. CASE F \in {A!Tasks, B!Tasks}
      BY <2>2, <3>1, <3>2 DEF CallTable, A!Tasks, B!Tasks
    <3>3. CASE F \in {C!Tasks, D!Tasks, E!Tasks}
      BY <2>2, <3>1, <3>3 DEF CallTable, C!Tasks, D!Tasks, E!Tasks
    <3>4. QED
      BY <3>2, <3>3
  <2>4. QED
    BY <2>3
<1>4. \E b \in F \cap BootTasks : status'[b] # "dormant"
  <2>1. F \subseteq Task
    BY ProgramsAssumption DEF Tasks
  <2>2. QED
    BY <1>1, <2>1, Dormancy
<1>5. ASSUME NEW b \in Last PROVE pc'[b] <= Len(Program[b])
  <2>1. b \in Task
    BY ProgramsAssumption DEF BootTasks, Tasks, A!Tasks, B!Tasks, C!Tasks, D!Tasks, E!Tasks
  <2>2. /\ pc[b] <= Len(Program[b]) /\ pc[b] \in Nat /\ Len(Program[b]) \in Nat
        /\ pc'[b] = pc[b] \/ pc'[b] = pc[b] + 1
    BY <1>2, <2>1, StepByStep, KernelAssumption DEF OneProgram, CallTypes
  <2>3. ASSUME pc[b] = Len(Program[b]) PROVE pc'[b] = pc[b]
    <3>1. Program[b][Len(Program[b])].op = "forever"
      <4>1. Program["B.barrier"][Len(Program["B.barrier"])].op = "forever"
        BY Code_B_barrier DEF Instr
      <4>2. Program["C.barrier"][Len(Program["C.barrier"])].op = "forever"
        BY Code_C_barrier DEF Instr
      <4>3. Program["D.barrier"][Len(Program["D.barrier"])].op = "forever"
        BY Code_D_barrier DEF Instr
      <4>4. Program["E.barrier"][Len(Program["E.barrier"])].op = "forever"
        BY Code_E_barrier DEF Instr
      <4>5. QED
        BY <4>1, <4>2, <4>3, <4>4 DEF BootTasks
    <3>5. At(b, "forever")
      BY <2>2, <2>3, <3>1 DEF At
    <3>2. \A o : At(b, o) => o = "forever"
      BY <2>1, <3>5, AtStatement, KernelInvParts
    <3>3. pc'[b] # pc[b] => GoesOn(b)
      BY <2>1, <3>2, RunsItself
    <3>4. QED
      BY <3>3, <3>5 DEF GoesOn
  <2>4. QED
    BY <2>2, <2>3
<1>6. QED
  BY <1>3, <1>4, <1>5 DEF OneProgram

\* What b starts at s and lets go at c has gone to wait before b, which is less
\* urgent, comes to c.
LEMMA GateStep ==
  ASSUME KernelInv, [Next]_vars, NEW t \in Task, NEW b \in Task, NEW s \in Nat, NEW c \in Nat,
         s < c, Gate(t, b, s, c),
         \A w \in Task : At(w, "start") /\ Arg(w) = t => w = b /\ pc[w] = s,
         pc[b] = s => At(b, "start") /\ Arg(b) = t,
         pc[b] = c => At(b, "broadcast") /\ Arg(b) = "semaphoreBarrier",
         pc[t] = 1 => At(t, "p") /\ Arg(t) = "semaphoreBarrier",
         base[t] > base[b], \A m \in Mutex : ~Holds(b, m)
  PROVE  Gate(t, b, s, c)'
<1>1. /\ pc[t] \in Nat /\ pc[t] >= 1 /\ pc[b] \in Nat
      /\ pc'[t] = pc[t] \/ pc'[t] = pc[t] + 1
      /\ pc'[b] = pc[b] \/ pc'[b] = pc[b] + 1
  BY StepByStep, SMTT(60) DEF KernelInv, TypeOK
<1>2. status'[t] = "dormant" <=> pc'[b] <= s
  <2>1. ASSUME pc'[b] # pc[b], pc[b] = s PROVE status'[t] # "dormant"
    BY <2>1, Dormancy
  <2>2. ASSUME status[t] = "dormant", status'[t] # "dormant" PROVE pc[b] = s /\ pc'[b] = s + 1
    BY <2>2, Dormancy
  <2>3. status[t] # "dormant" => status'[t] # "dormant"
    BY Dormancy
  <2>4. QED
    BY <1>1, <2>1, <2>2, <2>3 DEF Gate
<1>3. ASSUME pc[b] = c, pc'[b] = c + 1, pc[t] = 1 PROVE pc'[t] = 2
  <2>1. At(b, "broadcast") /\ \A o : At(b, o) => o = "broadcast"
    BY <1>3, AtStatement, KernelInvParts
  <2>2. running = b /\ status[b] = "ready" /\ Outline(b, t)
    BY <1>3, <2>1, RunsItself
  <2>3. ASSUME status[t] = "ready" PROVE FALSE
    <3>1. Holds(t, Arg(t)) <=> FALSE
      BY <1>3 DEF Holds, Inside
    <3>2. \A m \in Mutex : ~Holds(t, m)
      BY <1>3 DEF Holds, Inside
    <3>3. Prio(t) = base[t] /\ Prio(b) = base[b] /\ base[t] \in Nat /\ base[b] \in Nat
      BY <3>2, HoldsNone
    <3>4. QED
      BY <2>2, <2>3, <3>3, Outranked
  <2>4. At(t, "p") /\ \A o : At(t, o) => o = "p"
    BY <1>3, AtStatement, KernelInvParts
  <2>5. status[t] # "dormant" /\ status[t] # "dead"
    <3>1. pc[t] <= Len(Program[t]) /\ Len(Program[t]) \in Nat
      BY <2>4, KernelAssumption DEF At
    <3>2. QED
      BY <1>1, <1>3, <3>1 DEF Gate, KernelInv, StatusFitsPlace
  <2>6. status[t] \notin {"mutex", "sleep", "join"}
    BY <2>4 DEF KernelInv, BlockedAtCall
  <2>7. status[t] = "sem"
    BY <2>3, <2>5, <2>6 DEF KernelInv, TypeOK
  <2>8. Arg(t) = Arg(b) /\ t # b
    BY <1>3, <2>2, <2>7
  <2>9. QED
    BY <1>3, <2>1, <2>2, <2>7, <2>8 DEF Outline, Untouched, Starts, Wakes, Moves
<1>4. pc'[b] > c => pc'[t] > 1
  BY <1>1, <1>3 DEF Gate
<1>5. QED
  BY <1>2, <1>4 DEF Gate

\* Nobody misses the start signal of the four programs that have one.
LEMMA GatesStep ==
  ASSUME KernelInv, [Next]_vars, GatesOpen
  PROVE  GatesOpen'
<1>1. CallTypes /\ BaseAsSet
  BY KernelInvParts DEF CallInv
<1>2. ASSUME NEW b \in BootTasks PROVE b \in Task /\ \A m \in Mutex : ~Holds(b, m)
  <2>1. b \in Task
    BY ProgramsAssumption DEF BootTasks, Tasks, A!Tasks, B!Tasks, C!Tasks, D!Tasks, E!Tasks
  <2>2. QED
    BY <1>1, <2>1, Holders DEF BootTasks
<1>3. Gate("B.low", "B.barrier", 3, 7)'
  <2>1. "B.low" \in Task
    BY ProgramsAssumption DEF Tasks, B!Tasks
  <2>2. \A w \in Task : At(w, "start") /\ Arg(w) = "B.low" => w = "B.barrier" /\ pc[w] = 3
    BY <1>1, WhoCalls DEF CallTable
  <2>3. /\ pc["B.barrier"] = 3 => At("B.barrier", "start") /\ Arg("B.barrier") = "B.low"
        /\ pc["B.barrier"] = 7 =>
             At("B.barrier", "broadcast") /\ Arg("B.barrier") = "semaphoreBarrier"
        /\ pc["B.low"] = 1 => At("B.low", "p") /\ Arg("B.low") = "semaphoreBarrier"
    BY Code_B_barrier, Code_B_low DEF At, Arg, Instr
  <2>4. base["B.low"] > base["B.barrier"]
    BY <1>1, Bases
  <2>5. Gate("B.low", "B.barrier", 3, 7) /\ "B.barrier" \in BootTasks
    BY DEF GatesOpen, BootTasks
  <2>6. QED
    BY <1>2, <2>1, <2>2, <2>3, <2>4, <2>5, GateStep
<1>4. Gate("B.med", "B.barrier", 4, 7)'
  <2>1. "B.med" \in Task
    BY ProgramsAssumption DEF Tasks, B!Tasks
  <2>2. \A w \in Task : At(w, "start") /\ Arg(w) = "B.med" => w = "B.barrier" /\ pc[w] = 4
    BY <1>1, WhoCalls DEF CallTable
  <2>3. /\ pc["B.barrier"] = 4 => At("B.barrier", "start") /\ Arg("B.barrier") = "B.med"
        /\ pc["B.barrier"] = 7 =>
             At("B.barrier", "broadcast") /\ Arg("B.barrier") = "semaphoreBarrier"
        /\ pc["B.med"] = 1 => At("B.med", "p") /\ Arg("B.med") = "semaphoreBarrier"
    BY Code_B_barrier, Code_B_med DEF At, Arg, Instr
  <2>4. base["B.med"] > base["B.barrier"]
    BY <1>1, Bases
  <2>5. Gate("B.med", "B.barrier", 4, 7) /\ "B.barrier" \in BootTasks
    BY DEF GatesOpen, BootTasks
  <2>6. QED
    BY <1>2, <2>1, <2>2, <2>3, <2>4, <2>5, GateStep
<1>5. Gate("B.high", "B.barrier", 5, 7)'
  <2>1. "B.high" \in Task
    BY ProgramsAssumption DEF Tasks, B!Tasks
  <2>2. \A w \in Task : At(w, "start") /\ Arg(w) = "B.high" => w = "B.barrier" /\ pc[w] = 5
    BY <1>1, WhoCalls DEF CallTable
  <2>3. /\ pc["B.barrier"] = 5 => At("B.barrier", "start") /\ Arg("B.barrier") = "B.high"
        /\ pc["B.barrier"] = 7 =>
             At("B.barrier", "broadcast") /\ Arg("B.barrier") = "semaphoreBarrier"
        /\ pc["B.high"] = 1 => At("B.high", "p") /\ Arg("B.high") = "semaphoreBarrier"
    BY Code_B_barrier, Code_B_high DEF At, Arg, Instr
  <2>4. base["B.high"] > base["B.barrier"]
    BY <1>1, Bases
  <2>5. Gate("B.high", "B.barrier", 5, 7) /\ "B.barrier" \in BootTasks
    BY DEF GatesOpen, BootTasks
  <2>6. QED
    BY <1>2, <2>1, <2>2, <2>3, <2>4, <2>5, GateStep
<1>6. Gate("C.low", "C.barrier", 2, 6)'
  <2>1. "C.low" \in Task
    BY ProgramsAssumption DEF Tasks, C!Tasks
  <2>2. \A w \in Task : At(w, "start") /\ Arg(w) = "C.low" => w = "C.barrier" /\ pc[w] = 2
    BY <1>1, WhoCalls DEF CallTable
  <2>3. /\ pc["C.barrier"] = 2 => At("C.barrier", "start") /\ Arg("C.barrier") = "C.low"
        /\ pc["C.barrier"] = 6 =>
             At("C.barrier", "broadcast") /\ Arg("C.barrier") = "semaphoreBarrier"
        /\ pc["C.low"] = 1 => At("C.low", "p") /\ Arg("C.low") = "semaphoreBarrier"
    BY Code_C_barrier, Code_C_low DEF At, Arg, Instr
  <2>4. base["C.low"] > base["C.barrier"]
    BY <1>1, Bases
  <2>5. Gate("C.low", "C.barrier", 2, 6) /\ "C.barrier" \in BootTasks
    BY DEF GatesOpen, BootTasks
  <2>6. QED
    BY <1>2, <2>1, <2>2, <2>3, <2>4, <2>5, GateStep
<1>7. Gate("C.med", "C.barrier", 3, 6)'
  <2>1. "C.med" \in Task
    BY ProgramsAssumption DEF Tasks, C!Tasks
  <2>2. \A w \in Task : At(w, "start") /\ Arg(w) = "C.med" => w = "C.barrier" /\ pc[w] = 3
    BY <1>1, WhoCalls DEF CallTable
  <2>3. /\ pc["C.barrier"] = 3 => At("C.barrier", "start") /\ Arg("C.barrier") = "C.med"
        /\ pc["C.barrier"] = 6 =>
             At("C.barrier", "broadcast") /\ Arg("C.barrier") = "semaphoreBarrier"
        /\ pc["C.med"] = 1 => At("C.med", "p") /\ Arg("C.med") = "semaphoreBarrier"
    BY Code_C_barrier, Code_C_med DEF At, Arg, Instr
  <2>4. base["C.med"] > base["C.barrier"]
    BY <1>1, Bases
  <2>5. Gate("C.med", "C.barrier", 3, 6) /\ "C.barrier" \in BootTasks
    BY DEF GatesOpen, BootTasks
  <2>6. QED
    BY <1>2, <2>1, <2>2, <2>3, <2>4, <2>5, GateStep
<1>8. Gate("C.high", "C.barrier", 4, 6)'
  <2>1. "C.high" \in Task
    BY ProgramsAssumption DEF Tasks, C!Tasks
  <2>2. \A w \in Task : At(w, "start") /\ Arg(w) = "C.high" => w = "C.barrier" /\ pc[w] = 4
    BY <1>1, WhoCalls DEF CallTable
  <2>3. /\ pc["C.barrier"] = 4 => At("C.barrier", "start") /\ Arg("C.barrier") = "C.high"
        /\ pc["C.barrier"] = 6 =>
             At("C.barrier", "broadcast") /\ Arg("C.barrier") = "semaphoreBarrier"
        /\ pc["C.high"] = 1 => At("C.high", "p") /\ Arg("C.high") = "semaphoreBarrier"
    BY Code_C_barrier, Code_C_high DEF At, Arg, Instr
  <2>4. base["C.high"] > base["C.barrier"]
    BY <1>1, Bases
  <2>5. Gate("C.high", "C.barrier", 4, 6) /\ "C.barrier" \in BootTasks
    BY DEF GatesOpen, BootTasks
  <2>6. QED
    BY <1>2, <2>1, <2>2, <2>3, <2>4, <2>5, GateStep
<1>9. Gate("D.low", "D.barrier", 2, 5)'
  <2>1. "D.low" \in Task
    BY ProgramsAssumption DEF Tasks, D!Tasks
  <2>2. \A w \in Task : At(w, "start") /\ Arg(w) = "D.low" => w = "D.barrier" /\ pc[w] = 2
    BY <1>1, WhoCalls DEF CallTable
  <2>3. /\ pc["D.barrier"] = 2 => At("D.barrier", "start") /\ Arg("D.barrier") = "D.low"
        /\ pc["D.barrier"] = 5 =>
             At("D.barrier", "broadcast") /\ Arg("D.barrier") = "semaphoreBarrier"
        /\ pc["D.low"] = 1 => At("D.low", "p") /\ Arg("D.low") = "semaphoreBarrier"
    BY Code_D_barrier, Code_D_low DEF At, Arg, Instr
  <2>4. base["D.low"] > base["D.barrier"]
    BY <1>1, Bases
  <2>5. Gate("D.low", "D.barrier", 2, 5) /\ "D.barrier" \in BootTasks
    BY DEF GatesOpen, BootTasks
  <2>6. QED
    BY <1>2, <2>1, <2>2, <2>3, <2>4, <2>5, GateStep
<1>10. Gate("D.high", "D.barrier", 3, 5)'
  <2>1. "D.high" \in Task
    BY ProgramsAssumption DEF Tasks, D!Tasks
  <2>2. \A w \in Task : At(w, "start") /\ Arg(w) = "D.high" => w = "D.barrier" /\ pc[w] = 3
    BY <1>1, WhoCalls DEF CallTable
  <2>3. /\ pc["D.barrier"] = 3 => At("D.barrier", "start") /\ Arg("D.barrier") = "D.high"
        /\ pc["D.barrier"] = 5 =>
             At("D.barrier", "broadcast") /\ Arg("D.barrier") = "semaphoreBarrier"
        /\ pc["D.high"] = 1 => At("D.high", "p") /\ Arg("D.high") = "semaphoreBarrier"
    BY Code_D_barrier, Code_D_high DEF At, Arg, Instr
  <2>4. base["D.high"] > base["D.barrier"]
    BY <1>1, Bases
  <2>5. Gate("D.high", "D.barrier", 3, 5) /\ "D.barrier" \in BootTasks
    BY DEF GatesOpen, BootTasks
  <2>6. QED
    BY <1>2, <2>1, <2>2, <2>3, <2>4, <2>5, GateStep
<1>11. Gate("E.low", "E.barrier", 2, 5)'
  <2>1. "E.low" \in Task
    BY ProgramsAssumption DEF Tasks, E!Tasks
  <2>2. \A w \in Task : At(w, "start") /\ Arg(w) = "E.low" => w = "E.barrier" /\ pc[w] = 2
    BY <1>1, WhoCalls DEF CallTable
  <2>3. /\ pc["E.barrier"] = 2 => At("E.barrier", "start") /\ Arg("E.barrier") = "E.low"
        /\ pc["E.barrier"] = 5 =>
             At("E.barrier", "broadcast") /\ Arg("E.barrier") = "semaphoreBarrier"
        /\ pc["E.low"] = 1 => At("E.low", "p") /\ Arg("E.low") = "semaphoreBarrier"
    BY Code_E_barrier, Code_E_low DEF At, Arg, Instr
  <2>4. base["E.low"] > base["E.barrier"]
    BY <1>1, Bases
  <2>5. Gate("E.low", "E.barrier", 2, 5) /\ "E.barrier" \in BootTasks
    BY DEF GatesOpen, BootTasks
  <2>6. QED
    BY <1>2, <2>1, <2>2, <2>3, <2>4, <2>5, GateStep
<1>12. Gate("E.high", "E.barrier", 3, 5)'
  <2>1. "E.high" \in Task
    BY ProgramsAssumption DEF Tasks, E!Tasks
  <2>2. \A w \in Task : At(w, "start") /\ Arg(w) = "E.high" => w = "E.barrier" /\ pc[w] = 3
    BY <1>1, WhoCalls DEF CallTable
  <2>3. /\ pc["E.barrier"] = 3 => At("E.barrier", "start") /\ Arg("E.barrier") = "E.high"
        /\ pc["E.barrier"] = 5 =>
             At("E.barrier", "broadcast") /\ Arg("E.barrier") = "semaphoreBarrier"
        /\ pc["E.high"] = 1 => At("E.high", "p") /\ Arg("E.high") = "semaphoreBarrier"
    BY Code_E_barrier, Code_E_high DEF At, Arg, Instr
  <2>4. base["E.high"] > base["E.barrier"]
    BY <1>1, Bases
  <2>5. Gate("E.high", "E.barrier", 3, 5) /\ "E.barrier" \in BootTasks
    BY DEF GatesOpen, BootTasks
  <2>6. QED
    BY <1>2, <2>1, <2>2, <2>3, <2>4, <2>5, GateStep
<1>13. QED
  BY <1>3, <1>4, <1>5, <1>6, <1>7, <1>8, <1>9, <1>10, <1>11, <1>12 DEF GatesOpen

-----------------------------------------------------------------------------
(* TaskA and TaskB: the semaphores *)

\* Errors and arrivals are never forgotten.
LEMMA Remembered ==
  ASSUME KernelInv, [Next]_vars
  PROVE  failed \subseteq failed' /\ \A u : HasArrived(u) => HasArrived(u)'
<1>1. CallTypes
  BY KernelInvParts DEF CallInv
<1>2. CASE \E t \in Task : Call(t) \/ TaskSetPriority(t)
  <2>1. PICK t \in Task : Call(t) \/ TaskSetPriority(t)
    BY <1>2
  <2>2. \A u : HasArrived(u) => HasArrived(u)'
    BY <1>1, <2>1, CallArrives, ArrivedGrows
  <2>3. failed \subseteq failed'
    BY <2>1 DEF Call, SemP, SemV, SemBroadcast, SemMake, SemRemove, MutexAcquire,
       MutexRelease, TaskSleep, SpinEnd, TaskStart, TaskJoin, TaskReturn, TaskSetPriority
  <2>4. QED
    BY <2>2, <2>3
<1>3. CASE UNCHANGED <<failed, arrived>>
  BY <1>3 DEF HasArrived
<1>4. QED
  BY <1>2, <1>3 DEF Next, SpinForever, vars, Wake, Tick

\* A semaphore is changed by calls with its name.
LEMMA SemKept ==
  ASSUME [Next]_vars, NEW s \in Sem, count \in [Sem -> Nat],
         \A t \in Task, op \in {"p", "v", "broadcast", "create", "delete"} :
           Call(t) /\ At(t, op) => Arg(t) # s
  PROVE  count'[s] = count[s] /\ (s \in live' <=> s \in live)
<1>1. ASSUME NEW t \in Task, Call(t) PROVE count'[s] = count[s] /\ (s \in live' <=> s \in live)
  <2>1. CASE SemP(t)
    BY <1>1, <2>1 DEF SemP, Call
  <2>2. CASE SemV(t)
    BY <1>1, <2>2 DEF SemV, Call
  <2>3. CASE SemBroadcast(t)
    BY <1>1, <2>3 DEF SemBroadcast, Call
  <2>4. CASE SemMake(t)
    BY <1>1, <2>4 DEF SemMake, Call
  <2>5. CASE SemRemove(t)
    BY <1>1, <2>5 DEF SemRemove, Call
  <2>6. QED
    BY <1>1, <2>1, <2>2, <2>3, <2>4, <2>5
    DEF Call, MutexAcquire, MutexRelease, TaskSleep, SpinEnd, TaskStart, TaskJoin, TaskReturn
<1>2. QED
  BY <1>1 DEF Next, TaskSetPriority, SpinForever, vars, Wake, Tick

\* Nothing is ever stored in the semaphore of TaskA.
LEMMA NothingStored ==
  ASSUME KernelInv, [Next]_vars, count["semaphore1"] = 0
  PROVE  count'["semaphore1"] = 0
<1>1. CallTypes /\ "semaphore1" \in Sem
  BY ProgramsAssumption, KernelInvParts DEF CallInv, Sems, A!Sems
<1>2. ASSUME NEW t \in Task, Call(t) PROVE count'["semaphore1"] = 0
  <2>1. CASE SemP(t)
    BY <1>1, <2>1 DEF SemP, CallTypes
  <2>2. CASE SemV(t)
    <3>1. Arg(t) # "semaphore1"
      BY <1>1, <2>2, WhoCalls DEF SemV, CallTable
    <3>2. QED
      BY <1>1, <2>2, <3>1 DEF SemV, CallTypes
  <2>3. CASE SemBroadcast(t)
    BY <1>1, <2>3 DEF SemBroadcast, CallTypes
  <2>4. CASE SemMake(t)
    <3>1. Arg(t) = "semaphore1" => Num(t) = 0
      BY <1>1, <2>4, WhoCalls DEF SemMake, CallTable
    <3>2. QED
      BY <1>1, <2>4, <3>1 DEF SemMake, CallTypes
  <2>5. QED
    BY <1>2, <2>1, <2>2, <2>3, <2>4 DEF Call, SemRemove, MutexAcquire, MutexRelease,
       TaskSleep, SpinEnd, TaskStart, TaskJoin, TaskReturn
<1>3. QED
  BY <1>2 DEF Next, TaskSetPriority, SpinForever, vars, Wake, Tick

\* Who gets through the semaphore of TaskA without an error was waiting when it
\* was broadcast.
LEMMA PassedStep ==
  ASSUME KernelInv, [Next]_vars, PassedWereWaiting, count["semaphore1"] = 0
  PROVE  PassedWereWaiting'
<1>1. CallTypes /\ CallInv
  BY KernelInvParts DEF CallInv
<1>2. SUFFICES ASSUME NEW t \in {"A.thread1", "A.thread2"}, Passed(t)'
               PROVE  pc'["A.thread3"] > 5 /\ HasArrived(t)'
  BY DEF PassedWereWaiting, HasArrived
<1>3. t \in Task /\ "A.thread3" \in Task
  BY ProgramsAssumption DEF Tasks, A!Tasks
<1>4. /\ pc["A.thread3"] \in Nat /\ pc[t] \in Nat /\ pc[t] >= 1
      /\ pc'["A.thread3"] \in {pc["A.thread3"], pc["A.thread3"] + 1}
      /\ pc'[t] \in {pc[t], pc[t] + 1}
  BY <1>1, <1>3, StepByStep DEF CallTypes
<1>5. CASE pc[t] > 1
  <2>1. Passed(t)
    BY <1>2, <1>5, Remembered DEF Passed
  <2>2. pc["A.thread3"] > 5 /\ HasArrived(t)
    BY <2>1 DEF PassedWereWaiting, HasArrived
  <2>3. QED
    BY <1>4, <2>2, Remembered
<1>6. CASE pc[t] = 1
  <2>1. At(t, "p") /\ Arg(t) = "semaphore1"
    <3>1. CASE t = "A.thread1"
      BY <1>6, <3>1, Code_A_thread1 DEF At, Arg, Instr
    <3>2. CASE t = "A.thread2"
      BY <1>6, <3>2, Code_A_thread2 DEF At, Arg, Instr
    <3>3. QED
      BY <3>1, <3>2
  <2>2. ~At(t, "sleep") /\ ~At(t, "acquire") /\ ~At(t, "join")
    BY <1>1, <1>3, <2>1, AtStatement
  <2>3. pc'[t] # pc[t] /\ t \notin failed'
    BY <1>2, <1>6 DEF Passed
  <2>4. PICK w \in Task : running = w /\ \A u \in Task : Outline(w, u)
    BY <1>3, <2>2, <2>3, StepOutline DEF WakesUp, Keeps, Rests
  <2>5. /\ Wakes(w, t) /\ status[t] = "sem" /\ Arg(w) = "semaphore1"
        /\ At(w, "v") \/ At(w, "broadcast")
    <3>1. ~GoesOn(t)
      BY <2>1, <2>3 DEF GoesOn
    <3>2. Wakes(w, t)
      BY <1>3, <2>3, <2>4, <3>1 DEF Outline, Untouched, Starts, Blocks, Returns, Keeps
    <3>3. status[t] \notin {"mutex", "join"}
      BY <1>1, <1>3, <2>2 DEF CallInv, BlockedAtCall
    <3>4. QED
      BY <2>1, <2>3, <3>2, <3>3 DEF Wakes
  <2>6. ~At(w, "v") /\ w = "A.thread3" /\ pc[w] = 5
    BY <1>1, <2>5, WhoCalls DEF CallTable
  <2>7. pc'["A.thread3"] = 6
    <3>1. At(w, "broadcast") /\ Outline(w, w)
      BY <2>4, <2>5, <2>6
    <3>2. ~Returning(w) /\ \A o : At(w, o) => o = "broadcast"
      BY <1>1, <3>1, AtStatement
    <3>3. GoesOn(w)
      BY <3>1, <3>2 DEF Outline, Untouched, Starts, Wakes, Blocks, Returns
    <3>4. QED
      BY <2>6, <3>3 DEF GoesOn, Moves
  <2>8. HasArrived(t)
    BY <1>3, <2>5 DEF KernelInv, StatusFitsPlace, HasArrived
  <2>9. QED
    BY <2>7, <2>8, Remembered
<1>7. QED
  BY <1>4, <1>5, <1>6

\* The action of the running task is the one its statement names.
LEMMA SemCall ==
  ASSUME CallInv, NEW t \in Task, Call(t) \/ TaskSetPriority(t)
  PROVE  /\ At(t, "p") => SemP(t)
         /\ At(t, "v") => SemV(t)
         /\ At(t, "create") => SemMake(t)
<1>1. ASSUME NEW op \in {"p", "v", "create"}, At(t, op)
      PROVE  SemP(t) \/ SemV(t) \/ SemMake(t)
  <2>1. ~Returning(t) /\ \A o : At(t, o) => o = op
    BY <1>1, AtStatement
  <2>2. QED
    BY <1>1, <2>1 DEF Call, SemBroadcast, SemRemove, MutexAcquire, MutexRelease,
       TaskSleep, SpinEnd, TaskStart, TaskJoin, TaskReturn, Returning, TaskSetPriority
<1>2. /\ SemP(t) => At(t, "p")
      /\ SemV(t) => At(t, "v")
      /\ SemMake(t) => At(t, "create")
  BY DEF SemP, SemV, SemMake
<1>3. \A op, o : At(t, op) /\ At(t, o) => o = op
  BY AtStatement
<1>4. QED
  BY <1>1, <1>2, <1>3

\* A task is let past the gate of the resource, or out of its section, by a call
\* with the name of the resource.
LEMMA ResourceMoves ==
  ASSUME KernelInv, [Next]_vars, NEW u \in Task, pc'[u] # pc[u],
         (At(u, "p") /\ Arg(u) = "semaphoreResource") \/ At(u, "v")
  PROVE  \E t \in Task, op \in {"p", "v", "broadcast", "delete"} :
           /\ running = t /\ At(t, op) /\ Arg(t) = "semaphoreResource"
           /\ Call(t) \/ TaskSetPriority(t)
<1>1. CallTypes /\ CallInv
  BY KernelInvParts DEF CallInv
<1>2. Arg(u) = "semaphoreResource"
  BY <1>1, WhoCalls DEF CallTable
<1>3. ~At(u, "sleep") /\ ~At(u, "acquire") /\ ~At(u, "join")
  BY <1>1, AtStatement
<1>4. PICK t \in Task : /\ running = t /\ Outline(t, u)
                        /\ Call(t) \/ TaskSetPriority(t)
  BY <1>3, StepOutline DEF WakesUp, Keeps, Rests
<1>5. t = u \/ Wakes(t, u)
  BY <1>4 DEF Outline, Untouched, Starts, Keeps
<1>6. status[u] \notin {"mutex", "join"}
  BY <1>1, <1>3 DEF CallInv, BlockedAtCall
<1>7. QED
  BY <1>2, <1>4, <1>5, <1>6 DEF Wakes

LowHas == pc["B.low"] \in 3 .. 4
HighHas == pc["B.high"] \in 4 .. 5

\* The unit is stored or with one task, whoever takes it, gives it or hands it on.
LEMMA ResourceStep ==
  ASSUME KernelInv, [Next]_vars, GatesOpen, ResourceIsCounted
  PROVE  ResourceIsCounted'
<1> DEFINE s == "semaphoreResource"
           Uses(t) == \E op \in {"p", "v", "broadcast", "create", "delete"} :
                         At(t, op) /\ Arg(t) = s
           Made == pc["B.barrier"] > 2
           Counted == \/ count[s] = 1 /\ ~LowHas /\ ~HighHas
                      \/ count[s] = 0 /\ (LowHas <=> ~HighHas)
<1>1. CallTypes /\ CallInv /\ s \in Sem /\ {"B.low", "B.high", "B.barrier"} \subseteq Task
  BY ProgramsAssumption, KernelInvParts DEF CallInv, Sems, B!Sems, Tasks, B!Tasks
<1>2. /\ pc["B.low"] \in Nat /\ pc["B.high"] \in Nat /\ pc["B.barrier"] \in Nat
      /\ pc["B.low"] >= 1 /\ pc["B.high"] >= 1 /\ count[s] \in Nat
      /\ pc'["B.low"] \in {pc["B.low"], pc["B.low"] + 1}
      /\ pc'["B.high"] \in {pc["B.high"], pc["B.high"] + 1}
      /\ pc'["B.barrier"] \in {pc["B.barrier"], pc["B.barrier"] + 1}
  BY <1>1, StepByStep DEF CallTypes
<1>3. (s \in live <=> Made) /\ (Made => Counted)
  BY DEF ResourceIsCounted, LowHas, HighHas
<1>4. /\ pc["B.low"] > 1 => pc["B.barrier"] > 3
      /\ pc["B.high"] > 1 => pc["B.barrier"] > 3
  BY <1>1, <1>2 DEF GatesOpen, Gate, KernelInv, StatusFitsPlace
<1>5. SUFFICES (s \in live' <=> Made') /\ (Made' => Counted')
  BY DEF ResourceIsCounted, LowHas, HighHas
<1> HIDE DEF Counted, Made, Uses
<1>6. ASSUME \A t \in Task : running = t /\ (Call(t) \/ TaskSetPriority(t)) => ~Uses(t)
      PROVE  (s \in live' <=> Made') /\ (Made' => Counted')
  <2>1. count'[s] = count[s] /\ (s \in live' <=> s \in live)
    <3>1. \A t \in Task, op \in {"p", "v", "broadcast", "create", "delete"} :
            Call(t) /\ At(t, op) => Arg(t) # s
      BY <1>6 DEF Uses, Call
    <3>2. QED
      BY <1>1, <3>1, SemKept DEF CallTypes
  <2>2. ASSUME NEW u \in Task, pc'[u] # pc[u]
        PROVE  ~(At(u, "p") /\ Arg(u) = s) /\ ~At(u, "v")
    BY <1>6, <2>2, ResourceMoves DEF Uses
  <2>3. pc["B.low"] \in {2, 4} => pc'["B.low"] = pc["B.low"]
    <3>1. /\ pc["B.low"] = 2 => At("B.low", "p") /\ Arg("B.low") = s
          /\ pc["B.low"] = 4 => At("B.low", "v")
      BY Code_B_low DEF At, Arg, Instr
    <3>2. QED
      BY <1>1, <2>2, <3>1
  <2>4. pc["B.high"] \in {3, 5} => pc'["B.high"] = pc["B.high"]
    BY <1>1, <2>2, Code_B_high, SMTT(60) DEF At, Arg, Instr
  <2>5. pc["B.barrier"] = 2 => pc'["B.barrier"] = 2
    <3>1. SUFFICES ASSUME pc["B.barrier"] = 2, pc'["B.barrier"] # 2 PROVE FALSE
      OBVIOUS
    <3>2. At("B.barrier", "create") /\ Arg("B.barrier") = s
      BY <3>1, Code_B_barrier DEF At, Arg, Instr
    <3>3. \A o : At("B.barrier", o) => o = "create"
      BY <1>1, <3>2, AtStatement
    <3>4. running = "B.barrier" /\ (Call("B.barrier") \/ TaskSetPriority("B.barrier"))
      BY <1>1, <3>1, <3>3, RunsItself
    <3>5. QED
      BY <1>1, <1>6, <3>2, <3>4 DEF Uses
  <2>6. (LowHas' <=> LowHas) /\ (HighHas' <=> HighHas) /\ (Made' <=> Made)
    BY <1>2, <2>3, <2>4, <2>5 DEF LowHas, HighHas, Made
  <2>7. QED
    BY <1>3, <2>1, <2>6 DEF Counted
<1>7. ASSUME NEW t \in Task, running = t, Call(t) \/ TaskSetPriority(t), Uses(t)
      PROVE  (s \in live' <=> Made') /\ (Made' => Counted')
  <2>1. /\ At(t, "p") => SemP(t)
        /\ At(t, "v") => SemV(t)
        /\ At(t, "create") => SemMake(t)
        /\ status[t] = "ready"
    BY <1>1, <1>7, SemCall, RunningReady DEF KernelInv
  <2>2. \/ t = "B.low" /\ pc[t] = 2 /\ At(t, "p")
        \/ t = "B.high" /\ pc[t] = 3 /\ At(t, "p")
        \/ t = "B.low" /\ pc[t] = 4 /\ At(t, "v")
        \/ t = "B.high" /\ pc[t] = 5 /\ At(t, "v")
        \/ t = "B.barrier" /\ pc[t] = 2 /\ At(t, "create") /\ Num(t) = 1
    <3>1. PICK op \in {"p", "v", "broadcast", "create", "delete"} : At(t, op) /\ Arg(t) = s
      BY <1>7 DEF Uses
    <3>2. CallTable(t, pc[t], op, s, Num(t))
      BY <1>1, <3>1, WhoCalls
    <3>3. QED
      BY <3>1, <3>2 DEF CallTable
  <2>3. Arg(t) = s
    BY <1>7 DEF Uses
  <2>4. ASSUME SemP(t), t \in {"B.low", "B.high"}, pc[t] = IF t = "B.low" THEN 2 ELSE 3
        PROVE  (s \in live' <=> Made') /\ (Made' => Counted')
    <3>1. Made /\ s \in live /\ live' = live
      BY <1>2, <1>3, <1>4, <2>4 DEF SemP, Made
    <3>2. CASE count[s] > 0
      <4>1. count'[s] = count[s] - 1 /\ Advance({t})
        BY <1>1, <2>3, <2>4, <3>1, <3>2 DEF SemP, CallTypes
      <4>2. /\ pc'["B.barrier"] = pc["B.barrier"]
            /\ t = "B.low" => pc'["B.low"] = 3 /\ pc'["B.high"] = pc["B.high"]
            /\ t = "B.high" => pc'["B.high"] = 4 /\ pc'["B.low"] = pc["B.low"]
        BY <1>1, <2>4, <4>1 DEF Advance
      <4>3. count[s] = 1 /\ ~LowHas /\ ~HighHas
        BY <1>3, <3>1, <3>2 DEF Counted
      <4>4. QED
        BY <1>2, <2>4, <3>1, <4>1, <4>2, <4>3 DEF Counted, Made, LowHas, HighHas
    <3>3. CASE ~(count[s] > 0)
      <4>1. UNCHANGED <<pc, count>>
        BY <2>3, <2>4, <3>1, <3>3 DEF SemP, Block
      <4>2. QED
        BY <1>3, <3>1, <4>1 DEF Counted, Made, LowHas, HighHas
    <3>4. QED
      BY <3>2, <3>3
  <2>5. ASSUME SemV(t), t \in {"B.low", "B.high"}, pc[t] = IF t = "B.low" THEN 4 ELSE 5
        PROVE  (s \in live' <=> Made') /\ (Made' => Counted')
    <3>1. Made /\ live' = live
      BY <1>2, <1>4, <2>5 DEF SemV, Made
    <3>2. count[s] = 0 /\ (t = "B.low" => ~HighHas) /\ (t = "B.high" => ~LowHas)
      BY <1>3, <2>5, <3>1 DEF Counted, LowHas, HighHas
    <3>3. CASE SemWaiters(s) = {}
      <4>1. count'[s] = count[s] + 1 /\ Advance({t})
        BY <1>1, <2>3, <2>5, <3>3 DEF SemV, CallTypes
      <4>2. /\ pc'["B.barrier"] = pc["B.barrier"]
            /\ t = "B.low" => pc'["B.low"] = 5 /\ pc'["B.high"] = pc["B.high"]
            /\ t = "B.high" => pc'["B.high"] = 6 /\ pc'["B.low"] = pc["B.low"]
        BY <1>1, <2>5, <4>1 DEF Advance
      <4>3. QED
        <5>1. CASE t = "B.low"
          BY <1>2, <1>3, <2>5, <3>1, <3>2, <4>1, <4>2, <5>1 DEF Counted, Made, LowHas, HighHas
        <5>2. CASE t = "B.high"
          BY <1>2, <1>3, <2>5, <3>1, <3>2, <4>1, <4>2, <5>2 DEF Counted, Made, LowHas, HighHas
        <5>3. QED
          BY <2>5, <5>1, <5>2
    <3>4. CASE SemWaiters(s) # {}
      <4>1. PICK u \in Top(SemWaiters(s)) : Advance({t, u}) /\ UNCHANGED count
        BY <2>3, <2>5, <3>4 DEF SemV
      <4>2. u \in Task /\ status[u] = "sem" /\ Arg(u) = s
        BY <4>1 DEF Top, SemWaiters, Waiting
      <4>3. At(u, "p")
        BY <1>1, <4>2 DEF CallInv, BlockedAtCall
      <4>4. (u = "B.low" /\ pc[u] = 2) \/ (u = "B.high" /\ pc[u] = 3)
        <5>1. CallTable(u, pc[u], "p", s, Num(u))
          BY <1>1, <4>2, <4>3, WhoCalls
        <5>2. QED
          BY <5>1 DEF CallTable
      <4>5. u # t
        BY <2>1, <4>2
      <4>6. /\ pc'["B.barrier"] = pc["B.barrier"]
            /\ t = "B.low" => pc'["B.low"] = 5 /\ pc'["B.high"] = 4
            /\ t = "B.high" => pc'["B.high"] = 6 /\ pc'["B.low"] = 3
        BY <1>1, <2>5, <4>1, <4>4, <4>5 DEF Advance
      <4>7. QED
        <5>1. CASE t = "B.low"
          BY <1>3, <2>5, <3>1, <3>2, <4>1, <4>6, <5>1 DEF Counted, Made, LowHas, HighHas
        <5>2. CASE t = "B.high"
          BY <1>3, <2>5, <3>1, <3>2, <4>1, <4>6, <5>2 DEF Counted, Made, LowHas, HighHas
        <5>3. QED
          BY <2>5, <5>1, <5>2
    <3>5. QED
      BY <3>3, <3>4
  <2>6. ASSUME SemMake(t), t = "B.barrier", pc[t] = 2, Num(t) = 1
        PROVE  (s \in live' <=> Made') /\ (Made' => Counted')
    <3>1. s \notin live /\ pc["B.low"] = 1 /\ pc["B.high"] = 1
      BY <1>2, <1>3, <1>4, <2>6 DEF Made
    <3>2. live' = live \cup {s} /\ count'[s] = 1 /\ Advance({t})
      BY <1>1, <2>3, <2>6, <3>1 DEF SemMake, CallTypes
    <3>3. pc'["B.barrier"] = 3 /\ pc'["B.low"] = 1 /\ pc'["B.high"] = 1
      BY <1>1, <2>6, <3>1, <3>2 DEF Advance
    <3>4. QED
      BY <3>2, <3>3 DEF Made, Counted, LowHas, HighHas
  <2>7. QED
    BY <2>1, <2>2, <2>4, <2>5, <2>6
<1>8. QED
  BY <1>6, <1>7

-----------------------------------------------------------------------------
(* Who can run *)

\* While a task of a program is started, the other programs are not.
LEMMA Alone ==
  ASSUME KernelInv, OneProgram, NEW t \in Task, status[t] # "dormant",
         NEW F \in {A!Tasks, B!Tasks, C!Tasks, D!Tasks, E!Tasks}, t \in F
  PROVE  \A u \in Task \ F : status[u] = "dormant" /\ pc[u] = 1
<1>1. PICK G \in {A!Tasks, B!Tasks, C!Tasks, D!Tasks, E!Tasks} :
        \A u \in Task \ G : status[u] = "dormant"
  BY DEF OneProgram
<1>2. t \in G
  BY <1>1
<1>3. F = G
  BY <1>2 DEF A!Tasks, B!Tasks, C!Tasks, D!Tasks, E!Tasks
<1>4. QED
  BY <1>1, <1>3 DEF KernelInv, StatusFitsPlace

\* A task in the middle of its program is ready, where it does not wait.
LEMMA CanRun ==
  ASSUME KernelInv, NEW t \in Task, pc[t] > 1, pc[t] <= Len(Program[t]),
         ~At(t, "p"), ~At(t, "sleep"), ~At(t, "join")
  PROVE  /\ status[t] \in {"ready", "mutex"}
         /\ ~At(t, "acquire") => status[t] = "ready"
<1>1. status[t] \notin {"sem", "sleep", "join"} /\ (status[t] = "mutex" => At(t, "acquire"))
  BY DEF KernelInv, BlockedAtCall
<1>2. status[t] # "dormant" /\ status[t] # "dead"
  BY KernelAssumption DEF KernelInv, TypeOK, StatusFitsPlace
<1>3. QED
  BY <1>1, <1>2 DEF KernelInv, TypeOK

\* A task more urgent than all others that are ready has the CPU.
LEMMA OnlyUrgent ==
  ASSUME KernelInv, NEW t \in Task, status[t] = "ready", Prio(t) \in Nat,
         \A u \in Task \ {t} : status[u] = "ready" => Prio(u) \in Nat /\ Prio(u) < Prio(t)
  PROVE  running = t
<1>1. t \in Best
  BY DEF Best, Top
<1>2. running \in Best
  BY <1>1 DEF KernelInv, MostUrgentRuns
<1>3. \A u \in Best : status[u] = "ready" /\ u \in Task /\ Prio(t) <= Prio(u)
  BY DEF Best, Top
<1>4. running \in Task /\ status[running] = "ready" /\ Prio(t) <= Prio(running)
  BY <1>2, <1>3
<1>5. QED
  BY <1>4

-----------------------------------------------------------------------------
(* TaskE *)

\* While nothing but the two tasks of TaskE is ready and neither waits, the CPU
\* is with the one of the higher base priority.
LEMMA CeilingsRule ==
  ASSUME KernelInv, OneProgram, NEW t \in {"E.low", "E.high"}, running = t,
         status["E.low"] = "ready", status["E.high"] = "ready"
  PROVE  \A u \in {"E.low", "E.high"} : base[u] <= base[t]
<1>1. CallTypes /\ {"E.low", "E.high", "E.barrier"} \subseteq Task
  BY ProgramsAssumption, KernelInvParts DEF CallInv, Tasks, E!Tasks
<1>2. ASSUME NEW u \in Task, status[u] = "mutex" PROVE FALSE
  <2>1. u \in E!Tasks
    BY <1>1, <1>2, Alone DEF E!Tasks
  <2>2. At(u, "acquire")
    BY <1>2, MutexWaiter
  <2>3. u \in {"E.low", "E.high"}
    BY <1>1, <2>1, <2>2, WhoCalls DEF CallTable, E!Tasks
  <2>4. QED
    BY <1>2, <2>3
<1>3. ASSUME NEW u \in {"E.low", "E.high"} PROVE base[u] <= base[t]
  <2>1. Prio(u) = base[u] /\ Prio(t) = base[t]
    BY <1>1, <1>2, NobodyWaits
  <2>2. QED
    BY <1>1, <2>1, Outranked
<1>4. QED
  BY <1>3

\* The mutexes of TaskE are with its two tasks, at these places.
LEMMA HoldersE ==
  ASSUME KernelInv, OneProgram, NEW t \in {"E.low", "E.high"}, status[t] = "mutex"
  PROVE  \/ /\ t = "E.low" /\ owner[Arg(t)] = "E.high"
            /\ \/ pc["E.low"] = 3 /\ pc["E.high"] \in 8 .. 9
               \/ pc["E.low"] = 6 /\ pc["E.high"] \in 5 .. 11
         \/ /\ t = "E.high" /\ owner[Arg(t)] = "E.low"
            /\ \/ pc["E.high"] = 4 /\ pc["E.low"] = 7
               \/ pc["E.high"] = 7 /\ pc["E.low"] \in 4 .. 9
<1>1. CallTypes /\ t \in Task
  BY ProgramsAssumption, KernelInvParts DEF CallInv, Tasks, E!Tasks
<1>2. /\ At(t, "acquire") /\ Arg(t) \in Mutex /\ owner[Arg(t)] \in Task \ {t}
      /\ Holds(owner[Arg(t)], Arg(t))
  BY <1>1, MutexWaiter
<1>3. PICK o \in Task : o = owner[Arg(t)] /\ o # t /\ Holds(o, Arg(t))
  BY <1>2
<1>4. CallTable(t, pc[t], "acquire", Arg(t), Num(t))
  BY <1>1, <1>2, WhoCalls
<1>5. o \in E!Tasks
  <2>1. pc[o] # 1
    BY <1>1, <1>2, <1>3, Holders
  <2>2. QED
    BY <1>1, <2>1, Alone DEF E!Tasks
<1>6. CASE t = "E.low"
  <2>1. o = "E.high" /\ (Arg(t) = "mutexA" => pc[o] \in 8 .. 9)
                     /\ (Arg(t) = "mutexB" => pc[o] \in 5 .. 11)
    BY <1>1, <1>2, <1>3, <1>5, <1>6, Holders DEF E!Tasks
  <2>2. (pc[t] = 3 /\ Arg(t) = "mutexA") \/ (pc[t] = 6 /\ Arg(t) = "mutexB")
    BY <1>4, <1>6 DEF CallTable
  <2>3. QED
    BY <1>3, <1>6, <2>1, <2>2
<1>7. CASE t = "E.high"
  <2>1. o = "E.low" /\ (Arg(t) = "mutexA" => pc[o] \in 4 .. 9)
                    /\ (Arg(t) = "mutexB" => pc[o] = 7)
    BY <1>1, <1>2, <1>3, <1>5, <1>7, Holders DEF E!Tasks
  <2>2. (pc[t] = 4 /\ Arg(t) = "mutexB") \/ (pc[t] = 7 /\ Arg(t) = "mutexA")
    BY <1>4, <1>7 DEF CallTable
  <2>3. QED
    BY <1>3, <1>7, <2>1, <2>2
<1>8. QED
  BY <1>6, <1>7

\* Neither task of TaskE enters a section that the other's ceiling closes.
LEMMA CeilingsStep ==
  ASSUME KernelInv, [Next]_vars, OneProgram, CeilingsOrder
  PROVE  CeilingsOrder'
<1> DEFINE low == pc["E.low"]
           high == pc["E.high"]
<1>1. CallTypes /\ BaseAsSet /\ {"E.low", "E.high"} \subseteq Task
  BY ProgramsAssumption, KernelInvParts DEF CallInv, Tasks, E!Tasks
<1>2. /\ low \in 1 .. 12 /\ high \in 1 .. 14
      /\ low' \in {low, low + 1} /\ high' \in {high, high + 1} /\ low' \in 1 .. 12
  <2>1. CallTypes' /\ BaseAsSet'
    BY NextKernelInv DEF KernelInv, TypeOK, CallTypes
  <2>2. low' \in 1 .. 12
    <3>1. (CallTypes /\ BaseAsSet => low \in 1 .. 12)'
      BY Bases, PTL
    <3>2. QED
      BY <2>1, <3>1
  <2>3. QED
    BY <1>1, <2>2, Bases, StepByStep
<1>3. ASSUME low \in 3 .. 11, low # 3, low # 6 PROVE status["E.low"] = "ready"
  <2>1. /\ low > 1 /\ low <= Len(Program["E.low"]) /\ ~At("E.low", "acquire")
        /\ ~At("E.low", "p") /\ ~At("E.low", "sleep") /\ ~At("E.low", "join")
    BY <1>3, Code_E_low DEF At, Instr
  <2>2. QED
    BY <1>1, <2>1, CanRun
<1>4. ASSUME high \in 3 .. 13, high # 4, high # 7 PROVE status["E.high"] = "ready"
  <2>1. /\ high > 1 /\ high <= Len(Program["E.high"]) /\ ~At("E.high", "acquire")
        /\ ~At("E.high", "p") /\ ~At("E.high", "sleep") /\ ~At("E.high", "join")
    BY <1>4, Code_E_high DEF At, Instr
  <2>2. QED
    BY <1>1, <2>1, CanRun
<1>5. ASSUME high = 3, high' = 4 PROVE low \notin 3 .. 8 /\ low' = low
  <2>1. \A o : At("E.high", o) => o = "setprio"
    BY <1>5, Code_E_high DEF At, Instr
  <2>2. running = "E.high" /\ Outline("E.high", "E.low")
    BY <1>1, <1>5, <2>1, RunsItself
  <2>3. low' = low
    <3>1. ~Returning("E.high")
      BY <1>5, Code_E_high DEF Returning
    <3>2. ~Wakes("E.high", "E.low")
      BY <2>1, <3>1 DEF Wakes
    <3>3. QED
      BY <2>2, <3>2 DEF Outline, Untouched, Starts, Keeps
  <2>4. ASSUME low \in 3 .. 8 PROVE FALSE
    <3>1. status["E.low"] = "ready"
      <4>1. status["E.low"] # "mutex"
        BY <1>5, HoldersE
      <4>2. low = 3 \/ low = 6 => status["E.low"] \in {"ready", "mutex"}
        <5>1. ASSUME low = 3 \/ low = 6
              PROVE  /\ low > 1 /\ low <= Len(Program["E.low"]) /\ ~At("E.low", "p")
                     /\ ~At("E.low", "sleep") /\ ~At("E.low", "join")
          BY <5>1, Code_E_low DEF At, Instr
        <5>2. QED
          BY <1>1, <5>1, CanRun
      <4>3. QED
        BY <1>3, <2>4, <4>1, <4>2
    <3>2. base["E.low"] >= 5 /\ base["E.high"] = 2
      BY <1>1, <1>5, <2>4, Bases
    <3>3. QED
      <4>1. \A u \in {"E.low", "E.high"} : base[u] <= base["E.high"]
        BY <1>4, <1>5, <2>2, <3>1, CeilingsRule
      <4>2. base["E.low"] <= base["E.high"]
        BY <4>1
      <4>3. QED
        BY <1>1, <3>2, <4>2 DEF CallTypes
  <2>5. QED
    BY <2>3, <2>4
<1>6. ASSUME high \in 4 .. 13, low = 2, low' = 3 PROVE FALSE
  <2>1. \A o : At("E.low", o) => o = "setprio"
    BY <1>6, Code_E_low DEF At, Instr
  <2>2. running = "E.low" /\ status["E.low"] = "ready"
    BY <1>1, <1>6, <2>1, RunsItself
  <2>3. status["E.high"] = "ready"
    <3>1. status["E.high"] # "mutex"
      BY <1>6, HoldersE
    <3>2. high = 4 \/ high = 7 => status["E.high"] \in {"ready", "mutex"}
      <4>1. ASSUME high = 4 \/ high = 7
            PROVE  /\ high > 1 /\ high <= Len(Program["E.high"]) /\ ~At("E.high", "p")
                   /\ ~At("E.high", "sleep") /\ ~At("E.high", "join")
        BY <4>1, Code_E_high DEF At, Instr
      <4>2. QED
        BY <1>1, <4>1, CanRun
    <3>3. QED
      BY <1>4, <1>6, <3>1, <3>2
  <2>4. base["E.low"] = 1 /\ base["E.high"] >= 2
    BY <1>1, <1>6, Bases
  <2>5. QED
    <3>1. \A u \in {"E.low", "E.high"} : base[u] <= base["E.low"]
      BY <2>2, <2>3, CeilingsRule
    <3>2. base["E.high"] <= base["E.low"]
      BY <3>1
    <3>3. QED
      BY <1>1, <2>4, <3>2 DEF CallTypes
<1>7. QED
  BY <1>2, <1>5, <1>6 DEF CeilingsOrder

\* Whenever high waits for a mutex, low is at its release and has the CPU.
LEMMA HighWaitsAtRelease ==
  ASSUME KernelInv, OneProgram, CeilingsOrder, status["E.high"] = "mutex"
  PROVE  running = "E.low" /\ pc["E.low"] = 9
<1>1. /\ CallTypes /\ BaseAsSet /\ {"E.low", "E.high", "E.barrier"} \subseteq Task
  BY ProgramsAssumption, KernelInvParts DEF CallInv, Tasks, E!Tasks
<1>2. owner[Arg("E.high")] = "E.low" /\ pc["E.high"] = 7 /\ pc["E.low"] = 9
  BY HoldersE DEF CeilingsOrder
<1>3. status["E.low"] = "ready"
  <2>1. /\ pc["E.low"] > 1 /\ pc["E.low"] <= Len(Program["E.low"])
        /\ ~At("E.low", "acquire") /\ ~At("E.low", "p")
        /\ ~At("E.low", "sleep") /\ ~At("E.low", "join")
    BY <1>2, Code_E_low DEF At, Instr
  <2>2. QED
    BY <1>1, <2>1, CanRun
<1>4. \A u \in Task \ {"E.low", "E.high"} : status[u] # "mutex"
  <2>1. SUFFICES ASSUME NEW u \in Task \ {"E.low", "E.high"}, status[u] = "mutex"
                 PROVE  FALSE
    OBVIOUS
  <2>2. u \in E!Tasks
    BY <1>1, <2>1, Alone DEF E!Tasks
  <2>3. CallTable(u, pc[u], "acquire", Arg(u), Num(u))
    BY <1>1, <2>1, MutexWaiter, WhoCalls
  <2>4. QED
    BY <2>1, <2>2, <2>3 DEF CallTable, E!Tasks
<1>5. Arg("E.high") \in Mutex
  BY <1>1, MutexWaiter
<1>6. /\ Prio("E.low") \in Nat /\ Prio("E.low") >= base["E.high"]
  <2>1. \A u \in Task : status[u] = "mutex" /\ owner[Arg(u)] \in {"E.low", "E.high"}
                          <=> u = "E.high"
    BY <1>1, <1>2, <1>3, <1>4
  <2>2. QED
    BY <1>1, <1>2, <1>5, <2>1, PrioOfOwner
<1>7. ASSUME NEW u \in Task \ {"E.low"}, status[u] = "ready"
      PROVE  Prio(u) \in Nat /\ Prio(u) < Prio("E.low")
  <2>1. u \in E!Tasks
    BY <1>1, <1>7, Alone DEF E!Tasks
  <2>2. u = "E.barrier"
    BY <1>7, <2>1 DEF E!Tasks
  <2>3. \A m \in Mutex : ~Holds(u, m)
    BY <1>1, <2>2, Holders
  <2>4. Prio(u) = 0
    BY <1>1, <2>2, <2>3, HoldsNone, Bases
  <2>5. base["E.high"] = 5
    BY <1>1, <1>2, Bases
  <2>6. QED
    BY <1>6, <2>4, <2>5
<1>8. QED
  BY <1>1, <1>2, <1>3, <1>6, <1>7, OnlyUrgent

\* Time passes for high in a mutex only as overhead.
LEMMA WaitsInSlackStep ==
  ASSUME KernelInv, [Next]_vars, OneProgram, CeilingsOrder, WaitsInSlack
  PROVE  WaitsInSlack'
<1> DEFINE h == "E.high"
<1>1. CallTypes /\ h \in Task /\ spent[h] \in Nat /\ slack \in Nat
  BY ProgramsAssumption, KernelAssumption, KernelInvParts
  DEF CallInv, CallTypes, Tasks, E!Tasks
<1>2. SUFFICES ASSUME status'[h] = "mutex" PROVE spent'[h] <= slack'
  BY DEF WaitsInSlack
<1>3. ASSUME NEW t \in Task, status[t] = "ready", UNCHANGED slack, Outline(t, h)
      PROVE  spent'[h] <= slack'
  <2>1. CASE status[h] = "mutex"
    BY <1>2, <1>3, <2>1 DEF WaitsInSlack, Outline, Untouched, Starts, Wakes, GoesOn,
       Blocks, Returns, Moves, Keeps
  <2>2. CASE status[h] # "mutex"
    <3>1. Blocks(h) /\ t = h /\ At(h, "acquire")
      BY <1>2, <1>3, <2>2 DEF Outline, Untouched, Starts, Wakes, GoesOn, Blocks,
         Returns, Moves
    <3>2. ~At(h, "spin")
      BY <1>1, <3>1, AtStatement, KernelInvParts
    <3>3. spent[h] = 0 /\ spent'[h] = spent[h]
      BY <1>1, <1>3, <3>1, <3>2 DEF KernelInv, NothingSpent, Blocks, Keeps
    <3>4. QED
      BY <1>1, <1>3, <3>3
  <2>3. QED
    BY <2>1, <2>2
<1>4. ASSUME NEW t \in Task, WakesUp(t) PROVE spent'[h] <= slack'
  BY <1>1, <1>2, <1>4 DEF WaitsInSlack, WakesUp, Moves, Keeps
<1>5. CASE Rests /\ Tick
  <2>1. status[h] = "mutex"
    BY <1>2, <1>5 DEF Rests
  <2>2. running = "E.low" /\ pc["E.low"] = 9
    BY <2>1, HighWaitsAtRelease
  <2>3. ~OnTime
    <3>1. "E.low" # None /\ ~At("E.low", "spin")
      BY <2>2, ProgramsAssumption, KernelAssumption, Code_E_low
      DEF At, Instr, Tasks, E!Tasks
    <3>2. QED
      BY <2>2, <3>1 DEF OnTime, Spinning
  <2>4. slack' = slack + 1 /\ spent'[h] = spent[h] + 1
    BY <1>1, <1>5, <2>1, <2>3 DEF Tick
  <2>5. QED
    BY <1>1, <2>1, <2>4 DEF WaitsInSlack
<1>6. CASE UNCHANGED vars
  BY <1>2, <1>6 DEF vars, WaitsInSlack
<1>7. QED
  BY <1>1, <1>3, <1>4, <1>5, <1>6, StepOutline

-----------------------------------------------------------------------------
(* TaskB and TaskC *)

\* While med works low cannot give the unit of the resource to high.
LEMMA MedWorksFirst ==
  ASSUME KernelInv, [Next]_vars, OneProgram,
         Waiting("B.high", "sem", "semaphoreResource"), HighHasResource'
  PROVE  ~At("B.med", "spin")
<1>1. CallTypes /\ BaseAsSet /\ {"B.low", "B.med", "B.high"} \subseteq Task
  BY ProgramsAssumption, KernelInvParts DEF CallInv, Tasks, B!Tasks
<1>2. /\ status["B.high"] = "sem" /\ Arg("B.high") = "semaphoreResource"
      /\ At("B.high", "p")
  BY <1>1 DEF Waiting, KernelInv, BlockedAtCall
<1>3. pc["B.high"] = 3 /\ pc'["B.high"] # pc["B.high"]
  <2>1. CallTable("B.high", pc["B.high"], "p", "semaphoreResource", Num("B.high"))
    BY <1>1, <1>2, WhoCalls
  <2>2. pc["B.high"] = 3
    BY <2>1 DEF CallTable
  <2>3. QED
    BY <2>2 DEF HighHasResource
<1>4. PICK t \in Task, op \in {"p", "v", "broadcast", "delete"} :
        running = t /\ At(t, op) /\ Arg(t) = "semaphoreResource"
  BY <1>1, <1>2, <1>3, ResourceMoves
<1>5. t = "B.low" /\ status[t] = "ready"
  <2>1. status[t] = "ready"
    BY <1>4, RunningReady DEF KernelInv
  <2>2. CallTable(t, pc[t], op, "semaphoreResource", Num(t))
    BY <1>1, <1>4, WhoCalls
  <2>3. QED
    BY <1>2, <2>1, <2>2 DEF CallTable
<1>6. SUFFICES ASSUME At("B.med", "spin") PROVE FALSE
  OBVIOUS
<1>7. status["B.med"] = "ready"
  <2>1. pc["B.med"] # 1
    BY <1>6, Code_B_med DEF At, Instr
  <2>2. pc["B.med"] > 1 /\ pc["B.med"] <= Len(Program["B.med"])
    BY <1>1, <1>6, <2>1 DEF At, CallTypes
  <2>3. /\ ~At("B.med", "p") /\ ~At("B.med", "sleep") /\ ~At("B.med", "join")
        /\ ~At("B.med", "acquire")
    BY <1>1, <1>6, AtStatement, KernelInvParts
  <2>4. QED
    BY <1>1, <2>2, <2>3, CanRun
<1>8. \A u \in Task : status[u] # "mutex"
  <2>1. SUFFICES ASSUME NEW u \in Task, status[u] = "mutex" PROVE FALSE
    OBVIOUS
  <2>2. u \in B!Tasks
    BY <1>1, <1>2, <2>1, Alone DEF B!Tasks
  <2>3. CallTable(u, pc[u], "acquire", Arg(u), Num(u))
    BY <1>1, <2>1, MutexWaiter, WhoCalls
  <2>4. QED
    BY <2>2, <2>3 DEF CallTable, B!Tasks
<1>9. Prio("B.med") = 2 /\ Prio("B.low") = 1
  BY <1>1, <1>8, NobodyWaits, Bases
<1>10. Prio("B.med") <= Prio("B.low")
  BY <1>1, <1>4, <1>5, <1>7, Outranked
<1>11. QED
  BY <1>9, <1>10

\* Who holds the mutex that high waits for runs at the priority of high.
LEMMA OwnerRuns ==
  ASSUME KernelInv, OneProgram
  PROVE  OwnerRunsForHigh
<1> DEFINE h == "C.high"
           l == "C.low"
<1>1. SUFFICES ASSUME NEW m \in C!Mutexes, Waiting(h, "mutex", m) PROVE running = owner[m]
  BY DEF OwnerRunsForHigh
<1>2. /\ CallTypes /\ BaseAsSet /\ {h, l, "C.med", "C.barrier"} \subseteq Task
  BY ProgramsAssumption, KernelInvParts DEF CallInv, Tasks, C!Tasks
<1>3. status[h] = "mutex" /\ Arg(h) = m
  BY <1>1 DEF Waiting
<1>4. /\ At(h, "acquire") /\ m \in Mutex /\ owner[m] \in Task \ {h} /\ Holds(owner[m], m)
  BY <1>2, <1>3, MutexWaiter
<1>5. owner[m] = l /\ pc[l] \in 3 .. 4
  <2>1. m = "mutexResource"
    BY DEF C!Mutexes
  <2>2. PICK o \in Task : o = owner[m] /\ o # h /\ Holds(o, m)
    BY <1>4
  <2>3. o = l /\ pc[o] \in 3 .. 4
    BY <1>2, <1>4, <2>1, <2>2, Holders
  <2>4. QED
    BY <2>2, <2>3
<1>6. status[l] = "ready"
  <2>1. /\ pc[l] > 1 /\ pc[l] <= Len(Program[l]) /\ ~At(l, "acquire")
        /\ ~At(l, "p") /\ ~At(l, "sleep") /\ ~At(l, "join")
    BY <1>5, Code_C_low DEF At, Instr
  <2>2. QED
    BY <1>2, <2>1, CanRun
<1>7. \A u \in Task \ {h, l} : status[u] # "mutex"
  <2>1. SUFFICES ASSUME NEW u \in Task \ {h, l}, status[u] = "mutex" PROVE FALSE
    OBVIOUS
  <2>2. u \in C!Tasks
    BY <1>2, <1>3, <2>1, Alone DEF C!Tasks
  <2>3. CallTable(u, pc[u], "acquire", Arg(u), Num(u))
    BY <1>2, <2>1, MutexWaiter, WhoCalls
  <2>4. QED
    BY <2>1, <2>2, <2>3 DEF CallTable, C!Tasks
<1>8. Prio(l) \in Nat /\ Prio(l) >= base[h]
  <2>1. \A u \in Task : status[u] = "mutex" /\ owner[Arg(u)] \in {l, h} <=> u = h
    BY <1>3, <1>5, <1>6, <1>7
  <2>2. QED
    BY <1>2, <1>3, <1>4, <1>5, <2>1, PrioOfOwner
<1>9. ASSUME NEW u \in Task \ {l}, status[u] = "ready"
      PROVE  Prio(u) \in Nat /\ Prio(u) < Prio(l)
  <2>1. u \in C!Tasks
    BY <1>2, <1>3, <1>9, Alone DEF C!Tasks
  <2>2. u \in {"C.med", "C.barrier"}
    BY <1>3, <1>9, <2>1 DEF C!Tasks
  <2>3. \A m2 \in Mutex : ~Holds(u, m2)
    BY <1>2, <2>2, Holders
  <2>4. Prio(u) = base[u] /\ base[u] \in Nat
    BY <2>3, HoldsNone
  <2>5. base[h] = 3 /\ base["C.med"] = 2 /\ base["C.barrier"] = 0
    BY <1>2, Bases
  <2>6. QED
    BY <1>8, <2>2, <2>4, <2>5
<1>10. running = l
  BY <1>2, <1>6, <1>8, <1>9, OnlyUrgent
<1>11. QED
  BY <1>5, <1>10

-----------------------------------------------------------------------------
(* TaskD *)

\* Where the tasks of TaskD are, by what they hold.
LEMMA HoldsD ==
  ASSUME CallTypes
  PROVE  /\ "D.low" \in Task /\ "D.high" \in Task /\ {"mutexA", "mutexB"} \subseteq Mutex
         /\ pc["D.low"] \in 1 .. 8 /\ pc["D.high"] \in 1 .. 10
         /\ Holds("D.low", "mutexA") <=> pc["D.low"] \in 3 .. 6
         /\ Holds("D.low", "mutexB") <=> pc["D.low"] = 5
         /\ Holds("D.high", "mutexB") <=> pc["D.high"] \in 4 .. 8
         /\ Holds("D.high", "mutexA") <=> pc["D.high"] \in 6 .. 7
<1>1. "D.low" \in Task /\ "D.high" \in Task /\ {"mutexA", "mutexB"} \subseteq Mutex
  BY ProgramsAssumption DEF Tasks, D!Tasks, Mutexes, D!Mutexes
<1>2. pc["D.low"] \in 1 .. 7 + 1 /\ pc["D.high"] \in 1 .. 9 + 1
  BY <1>1, Place, Code_D_low, Code_D_high
<1>3. pc["D.low"] \in 1 .. 8 /\ pc["D.high"] \in 1 .. 10
  BY <1>2
<1>4. QED
  BY <1>1, <1>3, Holders

\* The embrace is the two tasks at these places.
LEMMA EmbracePlaces ==
  ASSUME CallTypes
  PROVE  Embrace <=> pc["D.low"] \in 3 .. 4 /\ pc["D.high"] \in 4 .. 5
  BY HoldsD DEF Embrace

\* Once both have their first mutex, neither ever gets its second one.
LEMMA EmbraceStep ==
  ASSUME KernelInv, [Next]_vars, Embrace
  PROVE  Embrace'
<1>1. CallTypes /\ OwnerInside /\ KernelInv' /\ CallTypes'
  BY NextKernelInv DEF KernelInv, TypeOK, CallTypes
<1>2. pc["D.low"] \in 3 .. 4 /\ pc["D.high"] \in 4 .. 5
  BY <1>1, EmbracePlaces
<1>3. owner["mutexA"] = "D.low" /\ owner["mutexB"] = "D.high"
  BY <1>1, <1>2, HoldsD DEF OwnerInside
<1>4. /\ \A op : At("D.low", op) => op \in {"spin", "acquire"}
      /\ \A op : At("D.high", op) => op \in {"spin", "acquire"}
  BY <1>2, Code_D_low, Code_D_high DEF At, Instr
<1>5. pc["D.low"] = 4 => At("D.low", "acquire") /\ Arg("D.low") = "mutexB"
  BY Code_D_low DEF At, Arg, Instr
<1>6. pc["D.high"] = 5 => At("D.high", "acquire") /\ Arg("D.high") = "mutexA"
  BY Code_D_high DEF At, Arg, Instr
<1>7. ASSUME pc["D.low"] = 4 PROVE pc'["D.low"] = 4
  BY <1>1, <1>3, <1>4, <1>5, <1>7, HoldsD, AcquireMoves, KernelAssumption
<1>8. ASSUME pc["D.high"] = 5 PROVE pc'["D.high"] = 5
  BY <1>1, <1>3, <1>4, <1>6, <1>8, HoldsD, AcquireMoves, KernelAssumption
<1>9. pc'["D.low"] \in 3 .. 4 /\ pc'["D.high"] \in 4 .. 5
  BY <1>1, <1>2, <1>7, <1>8, HoldsD, StepByStep
<1>10. (Embrace <=> pc["D.low"] \in 3 .. 4 /\ pc["D.high"] \in 4 .. 5)'
  BY <1>1, EmbracePlaces, PTL
<1>11. QED
  BY <1>9, <1>10

-----------------------------------------------------------------------------
(* The invariant *)

LEMMA InitProgramsInv == Init => ProgramsInv
<1> SUFFICES ASSUME Init PROVE ProgramsInv
  OBVIOUS
<1>1. KernelInv
  BY InitKernelInv
<1>2. running \in BootTasks /\ BootTasks \subseteq Task
  BY ProgramsAssumption
  DEF Init, BootTasks, Tasks, A!Tasks, B!Tasks, C!Tasks, D!Tasks, E!Tasks
<1>3. /\ \A t \in Task : pc[t] = 1 /\ (status[t] = "dormant" <=> t # running)
      /\ live = {} /\ "semaphore1" \in Sem /\ count["semaphore1"] = 0
      /\ slack = 0 /\ running \in Task
  BY <1>2, ProgramsAssumption DEF Init, Sems, A!Sems
<1>4. OneProgram
  <2>1. \E F \in {A!Tasks, B!Tasks, C!Tasks, D!Tasks, E!Tasks} : running \in F
    BY <1>2 DEF BootTasks, A!Tasks, B!Tasks, C!Tasks, D!Tasks, E!Tasks
  <2>2. \A b \in BootTasks \ {"A.thread3"} : 1 <= Len(Program[b])
    <3>1. /\ 1 <= Len(Program["B.barrier"]) /\ 1 <= Len(Program["C.barrier"])
          /\ 1 <= Len(Program["D.barrier"]) /\ 1 <= Len(Program["E.barrier"])
      BY Code_B_barrier, Code_C_barrier, Code_D_barrier, Code_E_barrier
    <3>2. QED
      BY <3>1, Zenon DEF BootTasks
  <2>3. QED
    BY <1>2, <1>3, <2>1, <2>2 DEF OneProgram
<1>5. Tasks = Task
  BY ProgramsAssumption
<1>6. GatesOpen
  BY <1>2, <1>3, <1>5
  DEF GatesOpen, Gate, BootTasks, Tasks, A!Tasks, B!Tasks, C!Tasks, D!Tasks, E!Tasks
<1>7. PassedWereWaiting /\ ResourceIsCounted /\ CeilingsOrder /\ WaitsInSlack
  BY <1>2, <1>3, <1>5 DEF PassedWereWaiting, Passed, ResourceIsCounted, CeilingsOrder,
     WaitsInSlack, Init, BootTasks, Tasks, A!Tasks, B!Tasks, C!Tasks, D!Tasks, E!Tasks
<1>8. QED
  BY <1>1, <1>3, <1>4, <1>6, <1>7 DEF ProgramsInv

LEMMA NextProgramsInv == ProgramsInv /\ [Next]_vars => ProgramsInv'
<1> SUFFICES ASSUME ProgramsInv, [Next]_vars PROVE ProgramsInv'
  OBVIOUS
<1>1. /\ KernelInv /\ OneProgram /\ GatesOpen /\ PassedWereWaiting
      /\ count["semaphore1"] = 0 /\ ResourceIsCounted /\ CeilingsOrder /\ WaitsInSlack
  BY DEF ProgramsInv
<1>2. KernelInv' /\ OneProgram' /\ GatesOpen'
  BY <1>1, NextKernelInv, OneProgramStep, GatesStep
<1>3. PassedWereWaiting' /\ count'["semaphore1"] = 0 /\ ResourceIsCounted'
  BY <1>1, PassedStep, NothingStored, ResourceStep
<1>4. CeilingsOrder' /\ WaitsInSlack'
  BY <1>1, CeilingsStep, WaitsInSlackStep
<1>5. QED
  BY <1>2, <1>3, <1>4 DEF ProgramsInv

-----------------------------------------------------------------------------
(* Who can stop *)

\* Where a barrier waits, it waits in a join, with the gates behind it.
LEMMA BarrierJoins ==
  ASSUME KernelInv, OneProgram, NEW b \in BootTasks \ {"A.thread3"},
         status[b] \notin {"dormant", "ready", "sleep"}
  PROVE  /\ status[b] = "join" /\ At(b, "join") /\ status[Arg(b)] # "dead"
<1>1. b \in Task /\ CallTypes
  BY ProgramsAssumption, KernelInvParts
  DEF CallInv, BootTasks, Tasks, A!Tasks, B!Tasks, C!Tasks, D!Tasks, E!Tasks
<1>2. status[b] # "dead"
  BY <1>1, KernelAssumption DEF OneProgram, KernelInv, StatusFitsPlace
<1>3. status[b] # "mutex"
  <2>1. SUFFICES ASSUME status[b] = "mutex" PROVE FALSE
    OBVIOUS
  <2>2. CallTable(b, pc[b], "acquire", Arg(b), Num(b))
    BY <1>1, <2>1, MutexWaiter, WhoCalls
  <2>3. QED
    BY <2>2 DEF CallTable, BootTasks
<1>4. status[b] # "sem"
  <2>1. SUFFICES ASSUME At(b, "p") PROVE FALSE
    BY <1>1 DEF KernelInv, BlockedAtCall
  <2>2. CallTable(b, pc[b], "p", Arg(b), Num(b))
    BY <1>1, <2>1, WhoCalls
  <2>3. QED
    BY <2>2 DEF CallTable, BootTasks
<1>5. status[b] = "join"
  BY <1>1, <1>2, <1>3, <1>4 DEF CallTypes
<1>6. QED
  BY <1>1, <1>5 DEF KernelInv, BlockedAtCall, StatusFitsPlace

\* A task past its first statement that does not go on is done, or waits for a
\* semaphore, a mutex or another task.
LEMMA StopsAt ==
  ASSUME KernelInv, NEW t \in Task, pc[t] > 1, status[t] \notin {"ready", "sleep"}
  PROVE  \/ status[t] = "dead"
         \/ status[t] = "sem" /\ At(t, "p") /\ count[Arg(t)] = 0
         \/ status[t] = "mutex" /\ At(t, "acquire")
         \/ status[t] = "join" /\ At(t, "join")
<1>1. status[t] # "dormant"
  BY DEF KernelInv, StatusFitsPlace
<1>2. QED
  BY <1>1 DEF KernelInv, TypeOK, BlockedAtCall, WaitersHaveReason

\* A task inside a section that does not wait for another mutex goes on.
LEMMA BusyInside ==
  ASSUME KernelInv, NEW t \in Task, pc[t] > 1, pc[t] <= Len(Program[t]),
         ~At(t, "p"), ~At(t, "acquire"), ~At(t, "join"),
         status[t] \notin {"ready", "sleep"}
  PROVE  FALSE
<1>1. status[t] = "dead"
  BY StopsAt
<1>2. pc[t] = Len(Program[t]) + 1 /\ Len(Program[t]) \in Nat
  BY <1>1, KernelAssumption DEF KernelInv, StatusFitsPlace
<1>3. QED
  BY <1>2

Stopped(S) == \A t \in S : status[t] \notin {"ready", "sleep"}

\* TaskB runs to its end.
LEMMA StuckB ==
  ASSUME ProgramsInv, Stopped(Task), pc["B.barrier"] > 7
  PROVE  \A t \in B!Joinables : status[t] = "dead"
<1> DEFINE low == "B.low"
           med == "B.med"
           high == "B.high"
<1>1. /\ KernelInv /\ {low, med, high} \subseteq Task
      /\ \A t \in Task : status[t] \notin {"ready", "sleep"}
  BY ProgramsAssumption DEF ProgramsInv, Tasks, B!Tasks, Stopped
<1>2. pc[low] > 1 /\ pc[med] > 1 /\ pc[high] > 1
  BY DEF ProgramsInv, GatesOpen, Gate
<1>3. pc[low] \in 1 .. 4 + 1 /\ pc[med] \in 1 .. 3 + 1 /\ pc[high] \in 1 .. 5 + 1
  BY <1>1, Place, Code_B_low, Code_B_med, Code_B_high, KernelInvParts DEF CallInv
<1>4. ASSUME pc[low] \in 3 .. 4 PROVE FALSE
  <2>1. /\ pc[low] <= Len(Program[low]) /\ ~At(low, "p")
        /\ ~At(low, "acquire") /\ ~At(low, "join")
    BY <1>4, Code_B_low DEF At, Instr
  <2>2. QED
    BY <1>1, <1>2, <2>1, BusyInside
<1>5. ASSUME pc[high] \in 4 .. 5 PROVE FALSE
  <2>1. /\ pc[high] <= Len(Program[high]) /\ ~At(high, "p")
        /\ ~At(high, "acquire") /\ ~At(high, "join")
    BY <1>5, Code_B_high DEF At, Instr
  <2>2. QED
    BY <1>1, <1>2, <2>1, BusyInside
<1>6. count["semaphoreResource"] = 1
  <2>1. pc["B.barrier"] > 2
    BY ProgramsAssumption DEF ProgramsInv, KernelInv, TypeOK, Tasks, B!Tasks
  <2>2. QED
    BY <1>4, <1>5, <2>1 DEF ProgramsInv, ResourceIsCounted
<1>7. status[med] = "dead"
  <2>1. ~At(med, "p") /\ ~At(med, "acquire") /\ ~At(med, "join")
    BY <1>2, <1>3, Code_B_med DEF At, Instr
  <2>2. QED
    BY <1>1, <1>2, <2>1, StopsAt
<1>8. status[low] = "dead"
  <2>1. /\ At(low, "p") => Arg(low) = "semaphoreResource"
        /\ ~At(low, "acquire") /\ ~At(low, "join")
    BY <1>2, <1>3, Code_B_low DEF At, Arg, Instr
  <2>2. QED
    BY <1>1, <1>2, <1>6, <2>1, StopsAt
<1>9. status[high] = "dead"
  <2>1. /\ At(high, "p") => Arg(high) = "semaphoreResource"
        /\ ~At(high, "acquire") /\ ~At(high, "join")
    BY <1>2, <1>3, Code_B_high DEF At, Arg, Instr
  <2>2. QED
    BY <1>1, <1>2, <1>6, <2>1, StopsAt
<1>10. QED
  BY <1>7, <1>8, <1>9 DEF B!Joinables

\* What a task of TaskC, TaskD or TaskE that is past its first statement waits for.
LEMMA WaitsFor ==
  ASSUME ProgramsInv, NEW t \in Task, pc[t] > 1, status[t] \notin {"ready", "sleep", "dead"},
         \A o : At(t, o) => o \in {"sleep", "acquire", "spin", "release", "setprio"}
  PROVE  /\ status[t] = "mutex" /\ At(t, "acquire")
         /\ CallTable(t, pc[t], "acquire", Arg(t), Num(t)) /\ Arg(t) \in Mutex
         /\ \E o \in Task \ {t} : owner[Arg(t)] = o /\ Holds(o, Arg(t)) /\ pc[o] > 1
<1>1. KernelInv /\ CallTypes
  BY KernelInvParts DEF ProgramsInv, CallInv
<1>2. status[t] = "mutex" /\ At(t, "acquire")
  BY <1>1, StopsAt
<1>3. Arg(t) \in Mutex /\ owner[Arg(t)] \in Task \ {t} /\ Holds(owner[Arg(t)], Arg(t))
  BY <1>1, <1>2, MutexWaiter
<1>4. PICK o \in Task \ {t} : owner[Arg(t)] = o /\ Holds(o, Arg(t))
  BY <1>3
<1>5. pc[o] > 1
  BY <1>1, <1>3, <1>4, Holders
<1>6. QED
  BY <1>1, <1>2, <1>3, <1>4, <1>5, WhoCalls

\* TaskC runs to its end.
LEMMA StuckC ==
  ASSUME ProgramsInv, Stopped(Task), pc["C.barrier"] > 6
  PROVE  \A t \in C!Joinables : status[t] = "dead"
<1> DEFINE low == "C.low"
           med == "C.med"
           high == "C.high"
<1>1. /\ KernelInv /\ CallTypes /\ {low, med, high} \subseteq Task
      /\ \A t \in Task : status[t] \notin {"ready", "sleep"}
  BY ProgramsAssumption, KernelInvParts
  DEF ProgramsInv, CallInv, Tasks, C!Tasks, Stopped
<1>2. pc[low] > 1 /\ pc[med] > 1 /\ pc[high] > 1
  BY DEF ProgramsInv, GatesOpen, Gate
<1>3. pc[low] \in 1 .. 4 + 1 /\ pc[med] \in 1 .. 7 + 1 /\ pc[high] \in 1 .. 5 + 1
  BY <1>1, Place, Code_C_low, Code_C_med, Code_C_high
<1>4. ASSUME pc[low] \in 3 .. 4 PROVE FALSE
  <2>1. /\ pc[low] <= Len(Program[low]) /\ ~At(low, "p")
        /\ ~At(low, "acquire") /\ ~At(low, "join")
    BY <1>4, Code_C_low DEF At, Instr
  <2>2. QED
    BY <1>1, <1>2, <2>1, BusyInside
<1>5. ASSUME pc[high] \in 4 .. 5 PROVE FALSE
  <2>1. /\ pc[high] <= Len(Program[high]) /\ ~At(high, "p")
        /\ ~At(high, "acquire") /\ ~At(high, "join")
    BY <1>5, Code_C_high DEF At, Instr
  <2>2. QED
    BY <1>1, <1>2, <2>1, BusyInside
<1>6. \A o \in Task : ~Holds(o, "mutexResource")
  <2>1. "mutexResource" \in Mutex
    BY ProgramsAssumption DEF Mutexes, C!Mutexes
  <2>2. QED
    BY <1>1, <1>4, <1>5, <2>1, Holders
<1>7. status[med] = "dead"
  <2>1. \A o : At(med, o) => o \in {"sleep", "spin"}
    BY <1>2, <1>3, Code_C_med DEF At, Instr
  <2>2. QED
    BY <1>1, <1>2, <2>1, WaitsFor
<1>8. status[low] = "dead"
  <2>1. /\ \A o : At(low, o) => o \in {"acquire", "spin", "release"}
        /\ At(low, "acquire") => Arg(low) = "mutexResource"
    BY <1>2, <1>3, Code_C_low DEF At, Arg, Instr
  <2>2. QED
    BY <1>1, <1>2, <1>6, <2>1, WaitsFor
<1>9. status[high] = "dead"
  <2>1. /\ \A o : At(high, o) => o \in {"sleep", "acquire", "spin", "release"}
        /\ At(high, "acquire") => Arg(high) = "mutexResource"
    BY <1>2, <1>3, Code_C_high DEF At, Arg, Instr
  <2>2. QED
    BY <1>1, <1>2, <1>6, <2>1, WaitsFor
<1>10. QED
  BY <1>7, <1>8, <1>9 DEF C!Joinables

\* TaskD runs to its end or into the embrace.
LEMMA StuckD ==
  ASSUME ProgramsInv, Stopped(Task), pc["D.barrier"] > 5
  PROVE  \/ \A t \in D!Joinables : status[t] = "dead"
         \/ /\ Embrace
            /\ Waiting("D.low", "mutex", "mutexB") /\ Waiting("D.high", "mutex", "mutexA")
<1> DEFINE low == "D.low"
           high == "D.high"
<1>1. /\ KernelInv /\ CallTypes /\ {low, high} \subseteq Task
      /\ \A t \in Task : status[t] \notin {"ready", "sleep"}
  BY ProgramsAssumption, KernelInvParts
  DEF ProgramsInv, CallInv, Tasks, D!Tasks, Stopped
<1>2. pc[low] > 1 /\ pc[high] > 1
  BY DEF ProgramsInv, GatesOpen, Gate
<1>3. pc[low] \in 1 .. 7 + 1 /\ pc[high] \in 1 .. 9 + 1
  BY <1>1, Place, Code_D_low, Code_D_high
<1>4. ASSUME pc[low] \in {3, 5, 6, 7} PROVE FALSE
  <2>1. /\ pc[low] <= Len(Program[low]) /\ ~At(low, "p")
        /\ ~At(low, "acquire") /\ ~At(low, "join")
    BY <1>4, Code_D_low DEF At, Instr
  <2>2. QED
    BY <1>1, <1>2, <2>1, BusyInside
<1>5. ASSUME pc[high] \in {4, 6, 7, 8, 9} PROVE FALSE
  <2>1. /\ pc[high] <= Len(Program[high]) /\ ~At(high, "p")
        /\ ~At(high, "acquire") /\ ~At(high, "join")
    BY <1>5, Code_D_high DEF At, Instr
  <2>2. QED
    BY <1>1, <1>2, <2>1, BusyInside
<1>6. ASSUME NEW o \in Task, pc[o] > 1, NEW m \in Mutex, Holds(o, m)
      PROVE  \/ o = low /\ m = "mutexA" /\ pc[low] = 4
             \/ o = high /\ m = "mutexB" /\ pc[high] = 5
  <2>1. o \in D!Tasks
    BY <1>1, <1>2, <1>6, Alone DEF ProgramsInv, KernelInv, StatusFitsPlace, D!Tasks
  <2>2. QED
    BY <1>1, <1>4, <1>5, <1>6, <2>1, Holders DEF D!Tasks
<1>7. ASSUME status[low] # "dead"
      PROVE  /\ status[low] = "mutex" /\ Arg(low) = "mutexB"
             /\ pc[low] = 4 /\ pc[high] = 5
  <2>1. \A o : At(low, o) => o \in {"acquire", "spin", "release"}
    BY <1>2, <1>3, Code_D_low DEF At, Instr
  <2>2. /\ status[low] = "mutex" /\ CallTable(low, pc[low], "acquire", Arg(low), Num(low))
        /\ Arg(low) \in Mutex
        /\ \E o \in Task \ {low} : Holds(o, Arg(low)) /\ pc[o] > 1
    BY <1>1, <1>2, <1>7, <2>1, WaitsFor
  <2>3. Arg(low) = "mutexB" /\ pc[high] = 5
    BY <1>6, <2>2
  <2>4. QED
    BY <2>2, <2>3 DEF CallTable
<1>8. ASSUME status[high] # "dead"
      PROVE  /\ status[high] = "mutex" /\ Arg(high) = "mutexA"
             /\ pc[high] = 5 /\ pc[low] = 4
  <2>1. \A o : At(high, o) => o \in {"sleep", "acquire", "spin", "release"}
    BY <1>2, <1>3, Code_D_high DEF At, Instr
  <2>2. /\ status[high] = "mutex" /\ CallTable(high, pc[high], "acquire", Arg(high), Num(high))
        /\ Arg(high) \in Mutex
        /\ \E o \in Task \ {high} : Holds(o, Arg(high)) /\ pc[o] > 1
    BY <1>1, <1>2, <1>8, <2>1, WaitsFor
  <2>3. Arg(high) = "mutexA" /\ pc[low] = 4
    BY <1>6, <2>2
  <2>4. QED
    BY <2>2, <2>3 DEF CallTable
<1>9. status[low] = "dead" => pc[low] = 8
  <2>1. status[low] = "dead" => pc[low] = Len(Program[low]) + 1
    BY <1>1 DEF KernelInv, StatusFitsPlace
  <2>2. Len(Program[low]) = 7
    BY Code_D_low
  <2>3. QED
    BY <2>1, <2>2
<1>10. status[high] = "dead" => pc[high] = 10
  <2>1. status[high] = "dead" => pc[high] = Len(Program[high]) + 1
    BY <1>1 DEF KernelInv, StatusFitsPlace
  <2>2. Len(Program[high]) = 9
    BY Code_D_high
  <2>3. QED
    BY <2>1, <2>2
<1>11. CASE status[low] = "dead" /\ status[high] = "dead"
  BY <1>11 DEF D!Joinables
<1>12. CASE ~(status[low] = "dead" /\ status[high] = "dead")
  <2>1. /\ status[low] = "mutex" /\ Arg(low) = "mutexB" /\ pc[low] = 4
        /\ status[high] = "mutex" /\ Arg(high) = "mutexA" /\ pc[high] = 5
    BY <1>7, <1>8, <1>9, <1>10, <1>12
  <2>2. Embrace
    BY <1>1, <2>1, EmbracePlaces
  <2>3. QED
    BY <2>1, <2>2 DEF Waiting
<1>13. QED
  BY <1>11, <1>12

\* TaskE runs to its end.
LEMMA StuckE ==
  ASSUME ProgramsInv, Stopped(Task), pc["E.barrier"] > 5
  PROVE  \A t \in E!Joinables : status[t] = "dead"
<1> DEFINE low == "E.low"
           high == "E.high"
<1>1. /\ KernelInv /\ CallTypes /\ {low, high} \subseteq Task /\ OneProgram /\ CeilingsOrder
      /\ \A t \in Task : status[t] \notin {"ready", "sleep"}
  BY ProgramsAssumption, KernelInvParts
  DEF ProgramsInv, CallInv, Tasks, E!Tasks, Stopped
<1>2. pc[low] > 1 /\ pc[high] > 1
  BY DEF ProgramsInv, GatesOpen, Gate
<1>3. pc[low] \in 1 .. 11 + 1 /\ pc[high] \in 1 .. 13 + 1
  BY <1>1, Place, Code_E_low, Code_E_high
<1>4. status[high] # "mutex"
  BY <1>1, HighWaitsAtRelease, RunningReady DEF KernelInv
<1>5. status[low] # "mutex"
  BY <1>1, HoldersE DEF CeilingsOrder
<1>6. status[low] = "dead"
  <2>1. \A o : At(low, o) => o \in {"acquire", "spin", "release", "setprio"}
    BY <1>2, <1>3, Code_E_low DEF At, Instr
  <2>2. QED
    BY <1>1, <1>2, <1>5, <2>1, WaitsFor
<1>7. status[high] = "dead"
  <2>1. \A o : At(high, o) => o \in {"sleep", "acquire", "spin", "release", "setprio"}
    BY <1>2, <1>3, Code_E_high DEF At, Instr
  <2>2. QED
    BY <1>1, <1>2, <1>4, <2>1, WaitsFor
<1>8. QED
  BY <1>6, <1>7 DEF E!Joinables

\* Where nobody can go on, it is TaskA, or TaskD in the embrace.
LEMMA StuckWhere == ProgramsInv => StuckOnlyInEmbrace
<1>1. SUFFICES ASSUME ProgramsInv, Stopped(Task), status["A.thread3"] = "dormant"
               PROVE  /\ Embrace
                      /\ Waiting("D.low", "mutex", "mutexB")
                      /\ Waiting("D.high", "mutex", "mutexA")
                      /\ status["D.barrier"] = "join"
  BY DEF StuckOnlyInEmbrace, Stopped
<1>2. KernelInv /\ OneProgram
  BY <1>1 DEF ProgramsInv
<1>3. PICK b \in BootTasks \ {"A.thread3"} : status[b] # "dormant"
  BY <1>1, <1>2 DEF OneProgram
<1>4. b \in Task
  BY ProgramsAssumption DEF BootTasks, Tasks, A!Tasks, B!Tasks, C!Tasks, D!Tasks, E!Tasks
<1>5. status[b] = "join" /\ At(b, "join") /\ status[Arg(b)] # "dead"
  BY <1>1, <1>2, <1>3, <1>4, BarrierJoins DEF Stopped
<1>6. b # "B.barrier"
  <2>1. SUFFICES ASSUME At("B.barrier", "join"), status[Arg("B.barrier")] # "dead"
                 PROVE  FALSE
    BY <1>5
  <2>2. pc["B.barrier"] > 7 /\ Arg("B.barrier") \in B!Joinables
    <3>1. "B.barrier" \in Task /\ CallTypes
      BY <1>2, ProgramsAssumption, KernelInvParts DEF CallInv, Tasks, B!Tasks
    <3>2. pc["B.barrier"] \in 1 .. 12 + 1
      BY <3>1, Place, Code_B_barrier
    <3>3. QED
      BY <2>1, <3>2, Code_B_barrier DEF At, Arg, Instr, B!Joinables
  <2>3. QED
    BY <1>1, <2>1, <2>2, StuckB
<1>7. b # "C.barrier"
  <2>1. SUFFICES ASSUME At("C.barrier", "join"), status[Arg("C.barrier")] # "dead"
                 PROVE  FALSE
    BY <1>5
  <2>2. pc["C.barrier"] > 6 /\ Arg("C.barrier") \in C!Joinables
    <3>1. "C.barrier" \in Task /\ CallTypes
      BY <1>2, ProgramsAssumption, KernelInvParts DEF CallInv, Tasks, C!Tasks
    <3>2. pc["C.barrier"] \in 1 .. 11 + 1
      BY <3>1, Place, Code_C_barrier
    <3>3. QED
      BY <2>1, <3>2, Code_C_barrier DEF At, Arg, Instr, C!Joinables
  <2>3. QED
    BY <1>1, <2>1, <2>2, StuckC
<1>8. b # "E.barrier"
  <2>1. SUFFICES ASSUME At("E.barrier", "join"), status[Arg("E.barrier")] # "dead"
                 PROVE  FALSE
    BY <1>5
  <2>2. pc["E.barrier"] > 5 /\ Arg("E.barrier") \in E!Joinables
    <3>1. "E.barrier" \in Task /\ CallTypes
      BY <1>2, ProgramsAssumption, KernelInvParts DEF CallInv, Tasks, E!Tasks
    <3>2. pc["E.barrier"] \in 1 .. 9 + 1
      BY <3>1, Place, Code_E_barrier
    <3>3. QED
      BY <2>1, <3>2, Code_E_barrier DEF At, Arg, Instr, E!Joinables
  <2>3. QED
    BY <1>1, <2>1, <2>2, StuckE
<1>9. b = "D.barrier"
  BY <1>6, <1>7, <1>8 DEF BootTasks
<1>10. pc["D.barrier"] > 5 /\ Arg("D.barrier") \in D!Joinables
  <2>1. "D.barrier" \in Task /\ CallTypes
    BY <1>2, ProgramsAssumption, KernelInvParts DEF CallInv, Tasks, D!Tasks
  <2>2. pc["D.barrier"] \in 1 .. 9 + 1
    BY <2>1, Place, Code_D_barrier
  <2>3. QED
    BY <1>5, <1>9, <2>2, Code_D_barrier DEF At, Arg, Instr, D!Joinables
<1>11. QED
  BY <1>1, <1>5, <1>9, <1>10, StuckD

-----------------------------------------------------------------------------
(* Theorems *)

\* The five programs stay in order: one program runs, the barriers find their
\* tasks waiting, the resource of TaskB is counted and the ceilings of TaskE keep
\* its two tasks apart.
THEOREM ProgramsInvariance == Spec => []ProgramsInv
<1>1. Init => ProgramsInv
  BY InitProgramsInv
<1>2. ProgramsInv /\ [Next]_vars => ProgramsInv'
  BY NextProgramsInv
<1>3. QED
  BY <1>1, <1>2, PTL DEF Spec

\* A broadcast starts those who wait at that moment and nobody else, and in TaskB
\* that is all three tasks.
THEOREM StartTogether == Spec => []BroadcastStarts
<1>1. ProgramsInv => BroadcastStarts
  <2>1. SUFFICES ASSUME ProgramsInv, pc["B.barrier"] > 7, NEW t \in B!Joinables
                 PROVE  pc[t] > 1
    BY DEF ProgramsInv, BroadcastStarts, NobodyMissesBroadcast
  <2>2. QED
    BY <2>1 DEF ProgramsInv, GatesOpen, Gate, B!Joinables
<1>2. QED
  BY <1>1, ProgramsInvariance, PTL

\* The priority inversion of TaskB: high gets the resource only when med is not,
\* or no longer, at its work.
THEOREM InversionLasts == Spec => MedGoesBeforeHigh
<1>1. ProgramsInv /\ [Next]_vars =>
        [Waiting("B.high", "sem", "semaphoreResource") /\ HighHasResource'
           => ~At("B.med", "spin")]_vars
  BY MedWorksFirst DEF ProgramsInv
<1>2. QED
  BY <1>1, ProgramsInvariance, PTL DEF Spec, MedGoesBeforeHigh

\* The same program with a mutex has no inversion: while high waits, the owner
\* of what it waits for runs.
THEOREM OwnerRunsWhileHighWaits == Spec => []OwnerRunsForHigh
<1>1. ProgramsInv => OwnerRunsForHigh
  BY OwnerRuns DEF ProgramsInv, OwnerRunsForHigh
<1>2. QED
  BY <1>1, ProgramsInvariance, PTL

\* The deadlock of TaskD is settled when both tasks hold their first mutex.
THEOREM EmbraceLasts == Spec => EmbraceIsForever
<1>1. KernelInv /\ [Next]_vars => [Embrace => Embrace']_vars
  BY EmbraceStep
<1>2. QED
  BY <1>1, KernelInvariance, PTL DEF Spec, EmbraceIsForever

\* Of the five programs only TaskD can deadlock, and only in that embrace.
THEOREM OnlyTaskDDeadlocks == Spec => []StuckOnlyInEmbrace
  BY StuckWhere, ProgramsInvariance, PTL

\* With the ceilings of TaskE, high never waits for the work of low.
THEOREM HighWaitIsOverhead == Spec => []HighWaitsForNoWork
<1>1. ProgramsInv => HighWaitsForNoWork
  <2>1. SUFFICES ASSUME ProgramsInv, status["E.high"] = "mutex"
                 PROVE  spent["E.high"] <= Slack
    BY DEF HighWaitsForNoWork, Waiting
  <2>2. /\ "E.high" \in Task /\ spent["E.high"] <= slack
        /\ TypeOK
    BY <2>1, ProgramsAssumption
    DEF ProgramsInv, WaitsInSlack, KernelInv, Tasks, E!Tasks
  <2>3. QED
    BY <2>2, KernelAssumption DEF TypeOK
<1>2. QED
  BY <1>1, ProgramsInvariance, PTL
=============================================================================
