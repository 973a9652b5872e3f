-------------------------- MODULE CounterThreads --------------------------
(* The threads of Ex2/Task1.c and Ex2/Task2.c. *)
EXTENDS Integers

CONSTANTS
  Thread,       \* two threads in the code
  Loops         \* iterations of the loop, 50000000 in the code

ASSUME CounterAssumption == Thread # {} /\ Loops \in Nat \ {0}
===========================================================================
