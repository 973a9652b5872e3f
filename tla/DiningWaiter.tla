---------------------------- MODULE DiningWaiter ----------------------------
(***************************************************************************)
(* Ex2/Task4_fixed_deadlock.c: the same dinner with one more mutex, the    *)
(* waiter, held from before the first fork is taken until after it is put  *)
(* back.  Without the waiter a behaviour of this module is a behaviour of  *)
(* DiningPhilosophers (Dinner below).                                      *)
(***************************************************************************)
EXTENDS Table

VARIABLES
  pc,           \* the statement each philosopher thread is at
  owner,        \* which philosopher holds each fork
  waiter,       \* which philosopher holds the waiter mutex
  created       \* threads 1..created have been started by main

vars == <<pc, owner, waiter, created>>

Init ==
  /\ pc = [p \in Philosopher |-> "lockWaiter"]
  /\ owner = [f \in Fork |-> Nobody]
  /\ waiter = Nobody
  /\ created = 0

-----------------------------------------------------------------------------

Create ==
  /\ created < Seats
  /\ created' = created + 1
  /\ UNCHANGED <<pc, owner, waiter>>

Step(p, from, to) ==
  /\ p <= created
  /\ pc[p] = from
  /\ pc' = [pc EXCEPT ![p] = to]
  /\ UNCHANGED created

LockFork(p, f) ==
  /\ owner[f] = Nobody
  /\ owner' = [owner EXCEPT ![f] = p]
  /\ UNCHANGED waiter

UnlockFork(f) == owner' = [owner EXCEPT ![f] = Nobody] /\ UNCHANGED waiter

\* Faulty variants: the waiter serves two at a time; the first fork is never
\* put down; the waiter is never released.
LockWaiter_unchecked(p) ==
  Step(p, "lockWaiter", "lockFirst") /\ waiter' = p /\ UNCHANGED owner
UnlockFirst_forgets(p) ==
  Step(p, "unlockFirst", "unlockWaiter") /\ UNCHANGED <<owner, waiter>>

LockWaiter(p) ==
  /\ Step(p, "lockWaiter", "lockFirst")
  /\ waiter = Nobody
  /\ waiter' = p
  /\ UNCHANGED owner

LockFirst(p)    == Step(p, "lockFirst", "lockSecond") /\ LockFork(p, First(p))
LockSecond(p)   == Step(p, "lockSecond", "eat") /\ LockFork(p, Second(p))
Eat(p)          == Step(p, "eat", "unlockSecond") /\ UNCHANGED <<owner, waiter>>
UnlockSecond(p) == Step(p, "unlockSecond", "unlockFirst") /\ UnlockFork(Second(p))
UnlockFirst(p)  == Step(p, "unlockFirst", "unlockWaiter") /\ UnlockFork(First(p))

UnlockWaiter(p) ==
  /\ Step(p, "unlockWaiter", "lockWaiter")
  /\ waiter' = Nobody
  /\ UNCHANGED owner

Dine(p) ==
  \/ LockWaiter(p) \/ LockFirst(p) \/ LockSecond(p) \/ Eat(p)
  \/ UnlockSecond(p) \/ UnlockFirst(p) \/ UnlockWaiter(p)

Next == Create \/ \E p \in Philosopher : Dine(p)

\* Created threads are scheduled; a contended mutex may go to any waiter, so
\* LockWaiter of one philosopher may be passed over for ever.
Fairness == WF_vars(Create) /\ \A p \in Philosopher : WF_vars(Dine(p))
Spec == Init /\ [][Next]_vars /\ Fairness

-----------------------------------------------------------------------------

TypeOK ==
  /\ pc \in [Philosopher ->
               {"lockWaiter", "lockFirst", "lockSecond", "eat",
                "unlockSecond", "unlockFirst", "unlockWaiter"}]
  /\ owner \in [Fork -> Philosopher \cup {Nobody}]
  /\ waiter \in Philosopher \cup {Nobody}
  /\ created \in 0 .. Seats

HoldsFirst(p) == pc[p] \in {"lockSecond", "eat", "unlockSecond", "unlockFirst"}
HoldsSecond(p) == pc[p] \in {"eat", "unlockSecond"}

ForksHeld ==
  \A p \in Philosopher, f \in Fork :
    owner[f] = p <=> \/ f = First(p) /\ HoldsFirst(p)
                     \/ f = Second(p) /\ HoldsSecond(p)

WaiterHeld == \A p \in Philosopher : waiter = p <=> pc[p] # "lockWaiter"

CreatedOnly == \A p \in Philosopher : p > created => pc[p] = "lockWaiter"

\* The strengthening the proofs are inductive on.
IInv == TypeOK /\ ForksHeld /\ WaiterHeld /\ CreatedOnly

\* The fix serialises the whole table, not only the neighbours: whoever holds
\* a fork is the one the waiter serves, so a fork lock
\* (Task4_fixed_deadlock.c:15-16) never blocks once the waiter is held.
ForksWaitForNobody ==
  \A p \in Philosopher :
    /\ pc[p] = "lockFirst" => owner[First(p)] = Nobody
    /\ pc[p] = "lockSecond" => owner[Second(p)] = Nobody

\* No reachable state has every thread blocked (the title of
\* Task4_fixed_deadlock.c): main or some philosopher can always move.
SomebodyCanMove ==
  \/ created < Seats
  \/ \E p \in Philosopher :
       /\ pc[p] = "lockWaiter" => waiter = Nobody
       /\ pc[p] = "lockFirst" => owner[First(p)] = Nobody
       /\ pc[p] = "lockSecond" => owner[Second(p)] = Nobody

\* Dinner never stops: there is always a later meal, though not for everyone.
MealsGoOn == []<>(\E p \in Philosopher : pc[p] = "eat")

\* The waiter only removes behaviours of the deadlocking program: seen without
\* the waiter's two statements, every run is a run of Task4_deadlock.c.
Dinner == INSTANCE DiningPhilosophers WITH
  pc <- [p \in Philosopher |->
           IF pc[p] \in {"lockWaiter", "unlockWaiter"} THEN "lockFirst" ELSE pc[p]]

DinnerSteps == Dinner!Init /\ [][Dinner!Next]_(Dinner!vars)
=============================================================================
