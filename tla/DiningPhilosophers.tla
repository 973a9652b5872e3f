------------------------- MODULE DiningPhilosophers -------------------------
(***************************************************************************)
(* Ex2/Task4_deadlock.c: philosopher p loops forever taking fork p, then   *)
(* the fork of the neighbour, eating, and putting them back in the         *)
(* opposite order.  The forks are pthread mutexes.  main starts the        *)
(* threads one by one, so the first philosophers already dine while the    *)
(* last ones do not exist yet.                                             *)
(***************************************************************************)
EXTENDS Table

VARIABLES
  pc,           \* the statement each philosopher thread is at
  owner,        \* which philosopher holds each fork, Nobody when unlocked
  created       \* threads 1..created have been started by main

vars == <<pc, owner, created>>

Init ==
  /\ pc = [p \in Philosopher |-> "lockFirst"]
  /\ owner = [f \in Fork |-> Nobody]
  /\ created = 0

-----------------------------------------------------------------------------

\* main: the pthread_create calls, in order; the joins never return.
Create ==
  /\ created < Seats
  /\ created' = created + 1
  /\ UNCHANGED <<pc, owner>>

Step(p, from, to) ==
  /\ p <= created
  /\ pc[p] = from
  /\ pc' = [pc EXCEPT ![p] = to]
  /\ UNCHANGED created

\* Faulty variants: the lock is taken whoever holds it; the first fork is
\* never put down.
Lock_unchecked(p, f) == owner' = [owner EXCEPT ![f] = p]

Lock(p, f) == owner[f] = Nobody /\ owner' = [owner EXCEPT ![f] = p]
Unlock(f) == owner' = [owner EXCEPT ![f] = Nobody]

UnlockFirst_forgets(p) ==
  Step(p, "unlockFirst", "lockFirst") /\ UNCHANGED owner

LockFirst(p)    == Step(p, "lockFirst", "lockSecond") /\ Lock(p, First(p))
LockSecond(p)   == Step(p, "lockSecond", "eat") /\ Lock(p, Second(p))
Eat(p)          == Step(p, "eat", "unlockSecond") /\ UNCHANGED owner
UnlockSecond(p) == Step(p, "unlockSecond", "unlockFirst") /\ Unlock(Second(p))
UnlockFirst(p)  == Step(p, "unlockFirst", "lockFirst") /\ Unlock(First(p))

Dine(p) ==
  \/ LockFirst(p) \/ LockSecond(p) \/ Eat(p)
  \/ UnlockSecond(p) \/ UnlockFirst(p)

Next == Create \/ \E p \in Philosopher : Dine(p)

\* Every created thread is scheduled: the pthreads run under a time-sharing
\* scheduler.  Nothing is assumed about which waiter a mutex is handed to.
Spec == Init /\ [][Next]_vars /\ WF_vars(Create)
             /\ \A p \in Philosopher : WF_vars(Dine(p))

-----------------------------------------------------------------------------

TypeOK ==
  /\ pc \in [Philosopher ->
               {"lockFirst", "lockSecond", "eat", "unlockSecond", "unlockFirst"}]
  /\ owner \in [Fork -> Philosopher \cup {Nobody}]
  /\ created \in 0 .. Seats

HoldsFirst(p) == pc[p] \in {"lockSecond", "eat", "unlockSecond", "unlockFirst"}
HoldsSecond(p) == pc[p] \in {"eat", "unlockSecond"}

\* The locks record exactly what the threads' positions say they hold.
ForksHeld ==
  \A p \in Philosopher, f \in Fork :
    owner[f] = p <=> \/ f = First(p) /\ HoldsFirst(p)
                     \/ f = Second(p) /\ HoldsSecond(p)

\* Two neighbours never eat at the same time: a fork between them would be in
\* two hands (the mutexes of Task4_deadlock.c:14-19).
NeighboursExclude ==
  \A p \in Philosopher : ~(pc[p] = "eat" /\ pc[Second(p)] = "eat")

\* No thread can take a step: neither main nor any philosopher.
CanMove(p) ==
  /\ p <= created
  /\ pc[p] = "lockFirst" => owner[First(p)] = Nobody
  /\ pc[p] = "lockSecond" => owner[Second(p)] = Nobody
Stuck == created = Seats /\ \A p \in Philosopher : ~CanMove(p)

\* The only way the program stops is the one the file is named after: every
\* philosopher holds its first fork and waits for its neighbour's.
StuckOnlyInCircle ==
  Stuck => \A p \in Philosopher :
             owner[First(p)] = p /\ pc[p] = "lockSecond"
=============================================================================
