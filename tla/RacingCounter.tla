--------------------------- MODULE RacingCounter ---------------------------
(***************************************************************************)
(* Ex2/Task1.c: threads that each increment a shared counter Loops times   *)
(* in a loop and once more while printing it, without synchronisation.     *)
(* The increments are a data race: the build may load the counter once,    *)
(* add any number of the increments still to do and store it once, so an   *)
(* access adds a nondeterministic batch.                                   *)
(***************************************************************************)
EXTENDS CounterThreads

VARIABLES
  counter,      \* increment_var
  left,         \* increments a thread has not stored yet, the last one included
  register,     \* what a thread loaded
  pc

vars == <<counter, left, register, pc>>

Init ==
  /\ counter = 0
  /\ left = [t \in Thread |-> Loops + 1]
  /\ register = [t \in Thread |-> 0]
  /\ pc = [t \in Thread |-> "load"]

-----------------------------------------------------------------------------

\* Faulty variant: the counter is kept in a register and never loaded again.
Load_never(t) ==
  /\ pc[t] = "load"
  /\ pc' = [pc EXCEPT ![t] = "store"]
  /\ UNCHANGED <<counter, left, register>>

\* ++increment_var, the load.
Load(t) ==
  /\ pc[t] = "load"
  /\ register' = [register EXCEPT ![t] = counter]
  /\ pc' = [pc EXCEPT ![t] = "store"]
  /\ UNCHANGED <<counter, left>>

\* ++increment_var, the store, of one increment or of several.
Store(t) ==
  /\ pc[t] = "store"
  /\ \E batch \in 1 .. left[t] :
       /\ counter' = register[t] + batch
       /\ left' = [left EXCEPT ![t] = @ - batch]
       /\ pc' = [pc EXCEPT ![t] = IF batch = left[t] THEN "done" ELSE "load"]
  /\ UNCHANGED register

\* main joins both threads: the program ends.
Joined == (\A t \in Thread : pc[t] = "done") /\ UNCHANGED vars

Next == (\E t \in Thread : Load(t) \/ Store(t)) \/ Joined

\* Both threads are scheduled.
Spec == Init /\ [][Next]_vars
             /\ \A t \in Thread : WF_vars(Load(t) \/ Store(t))

-----------------------------------------------------------------------------

TypeOK ==
  /\ counter \in Nat
  /\ left \in [Thread -> 0 .. Loops + 1]
  /\ register \in [Thread -> Nat]
  /\ pc \in [Thread -> {"load", "store", "done"}]

\* A thread is done when it has no increment left, and not before.
DoneMeansNoneLeft == \A t \in Thread : pc[t] = "done" <=> left[t] = 0

\* Zero is only ever seen by a thread that has stored nothing.
ZeroMeansFirst ==
  /\ counter = 0 => \A t \in Thread : left[t] = Loops + 1
  /\ \A t \in Thread :
       pc[t] = "store" /\ register[t] = 0 => left[t] = Loops + 1

\* The value one is stored by a thread that still has increments to do.
OneMeansMore == counter <= 1 => \E t \in Thread : left[t] > 0

\* The strengthening the proof is inductive on.
IInv == TypeOK /\ DoneMeansNoneLeft /\ ZeroMeansFirst /\ OneMeansMore

\* However many updates are lost (Task1.c:28), two survive: the value printed
\* last (line 32) is never less than two, for any number of iterations.
TwoSurvive == (\A t \in Thread : pc[t] = "done") => counter >= 2
=============================================================================
