--------------------------- MODULE GuardedCounter ---------------------------
(***************************************************************************)
(* Ex2/Task2.c: the counter of Task1.c with a semaphore around the         *)
(* increment in the loop.  The increment in the arguments of printf is not *)
(* between sem_wait and sem_post, so a thread that has finished its loop   *)
(* races with the loop of the other.                                       *)
(***************************************************************************)
EXTENDS CounterThreads

VARIABLES
  counter,      \* increment_var
  semaphore,    \* the value of Semaphore
  left,         \* increments a thread has not stored yet, the last one included
  register,     \* what a thread loaded
  pc

vars == <<counter, semaphore, left, register, pc>>

\* Faulty variant: the semaphore lets two threads in.
Init_two ==
  /\ counter = 0
  /\ semaphore = 2
  /\ left = [t \in Thread |-> Loops + 1]
  /\ register = [t \in Thread |-> 0]
  /\ pc = [t \in Thread |-> "wait"]

Init ==
  /\ counter = 0
  /\ semaphore = 1
  /\ left = [t \in Thread |-> Loops + 1]
  /\ register = [t \in Thread |-> 0]
  /\ pc = [t \in Thread |-> "wait"]

-----------------------------------------------------------------------------

Go(t, from, to) == pc[t] = from /\ pc' = [pc EXCEPT ![t] = to]

SemWait(t) ==
  /\ Go(t, "wait", "load")
  /\ semaphore > 0
  /\ semaphore' = semaphore - 1
  /\ UNCHANGED <<counter, left, register>>

LoadCounter(t) ==
  /\ register' = [register EXCEPT ![t] = counter]
  /\ UNCHANGED <<counter, semaphore, left>>

StoreCounter(t) ==
  /\ counter' = register[t] + 1
  /\ left' = [left EXCEPT ![t] = @ - 1]
  /\ UNCHANGED <<semaphore, register>>

Load(t) == Go(t, "load", "store") /\ LoadCounter(t)
Store(t) == Go(t, "store", "post") /\ StoreCounter(t)

SemPost(t) ==
  /\ Go(t, "post", IF left[t] > 1 THEN "wait" ELSE "lastLoad")
  /\ semaphore' = semaphore + 1
  /\ UNCHANGED <<counter, left, register>>

\* ++increment_var in the arguments of printf; the faulty variant skips it.
LastLoad_skipped(t) ==
  Go(t, "lastLoad", "done") /\ UNCHANGED <<counter, semaphore, left, register>>
LastLoad(t) == Go(t, "lastLoad", "lastStore") /\ LoadCounter(t)
LastStore(t) == Go(t, "lastStore", "done") /\ StoreCounter(t)

Run(t) ==
  \/ SemWait(t) \/ Load(t) \/ Store(t) \/ SemPost(t)
  \/ LastLoad(t) \/ LastStore(t)

\* main joins both threads: the program ends.
Joined == (\A t \in Thread : pc[t] = "done") /\ UNCHANGED vars

Next == (\E t \in Thread : Run(t)) \/ Joined

\* Both threads are scheduled; the semaphore may pass a waiter over, but only
\* as often as the other thread has iterations.
Spec == Init /\ [][Next]_vars /\ \A t \in Thread : WF_vars(Run(t))

-----------------------------------------------------------------------------

TypeOK ==
  /\ counter \in Nat
  /\ semaphore \in 0 .. 1
  /\ left \in [Thread -> 0 .. Loops + 1]
  /\ register \in [Thread -> Nat]
  /\ pc \in [Thread -> {"wait", "load", "store", "post", "lastLoad", "lastStore", "done"}]

Guarded(t) == pc[t] \in {"load", "store", "post"}

\* The semaphore is taken exactly while a thread is between wait and post.
OneGuarded ==
  /\ \A t, u \in Thread : Guarded(t) /\ Guarded(u) => t = u
  /\ semaphore = 1 => \A t \in Thread : ~Guarded(t)

LeftFits ==
  \A t \in Thread :
    /\ pc[t] \in {"wait", "load", "store"} => left[t] > 1
    /\ pc[t] = "post" => left[t] > 0
    /\ pc[t] \in {"lastLoad", "lastStore"} => left[t] = 1
    /\ pc[t] = "done" <=> left[t] = 0

\* Iterations of t that have stored.
Iterations(t) == IF left[t] = 0 THEN Loops ELSE Loops + 1 - left[t]

\* No thread ever takes the counter below what any one loop has counted.
NoLoopIsLost ==
  \A t \in Thread :
    /\ counter >= Iterations(t)
    /\ pc[t] = "store" => \A u \in Thread : register[t] >= Iterations(u)
    /\ pc[t] = "lastStore" => register[t] >= Loops
    /\ left[t] = 0 => counter > Loops

\* The strengthening the proof is inductive on.
IInv == TypeOK /\ OneGuarded /\ LeftFits /\ NoLoopIsLost

\* The unguarded last increment (Task2.c:29) can cost everything the other
\* thread ever did, but never the loop of the thread that stores last.
OneLoopSurvives == (\A t \in Thread : pc[t] = "done") => counter >= Loops + 1

\* The semaphore only removes behaviours: every run is a run of Task1.c.
Racing == INSTANCE RacingCounter WITH
  pc <- [t \in Thread |->
           IF pc[t] \in {"store", "lastStore"} THEN "store"
           ELSE IF pc[t] = "done" THEN "done" ELSE "load"]

RacingSteps == Racing!Init /\ [][Racing!Next]_(Racing!vars)
=============================================================================
