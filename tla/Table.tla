------------------------------- MODULE Table ------------------------------
(***************************************************************************)
(* The table that Ex2/Task4_deadlock.c and Ex2/Task4_fixed_deadlock.c lay: *)
(* five threads and five pthread mutexes, named in turn.                   *)
(***************************************************************************)
EXTENDS Integers

CONSTANT
  Seats         \* philosophers at the table, and forks on it: 5 in the code

\* With one seat both forks of a philosopher would be the same mutex.
ASSUME TableAssumption == Seats \in Nat \ {0, 1}

Philosopher == 1 .. Seats
Fork == 1 .. Seats
Nobody == 0

\* dining1 locks fork1 then fork2, ..., dining5 locks fork5 then fork1.
First(p) == p
Second(p) == IF p = Seats THEN 1 ELSE p + 1
===========================================================================
