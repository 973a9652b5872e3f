-------------------------- MODULE SmallParameters --------------------------
(* The parameters of the programs of Ex1, Ex4 and Ex6, and their bounds. *)
EXTENDS Integers, FiniteSets

CONSTANTS
  Slack,        \* bound on the ticks that pass while there is work to do
\* Ex6/TaskA.c
  Line,         \* the channels 1, 2 and 3
  TASK_PERIOD,  \* in units of time
  Duration,     \* how long a task polls
\* Ex1a/ex1_time.c
  Second,       \* in nanoseconds
  IntHalf,      \* an int holds 2 * IntHalf values
  Garbage,      \* what t.tv_nsec may be; no value overflows a long
  TicksPerSec,  \* sysconf(_SC_CLK_TCK)
  MaxClock,     \* bound on the time
\* Ex1b/array.c
  Name,         \* the variables of type Array
  Value,        \* what is stored
  Junk,         \* what malloc returns
  Factor,       \* growth factors in halves: 1.5 and 2 in ex1_taske.c
  Capacity,     \* the capacities asked for; 10 in ex1_taske.c
  MaxCapacity   \* bound on the capacity of an array

ASSUME PollingAssumption ==
  /\ Line \subseteq Nat /\ Slack \in Nat
  /\ TASK_PERIOD \in Nat \ {0} /\ Duration \in Nat

ASSUME ClockAssumption ==
  /\ Second \in Nat \ {0} /\ IntHalf \in Nat /\ IntHalf >= Second
  /\ Garbage \subseteq Int
  /\ TicksPerSec \in Nat /\ MaxClock \in Nat

\* A capacity that a factor leaves as it is (1 * 1.5 is 1) is not asked for.
ASSUME ArrayAssumption ==
  /\ IsFiniteSet(Name) /\ Junk \notin Value /\ MaxCapacity \in Nat
  /\ Factor \subseteq Nat /\ Capacity \subseteq 1 .. MaxCapacity
  /\ \A f \in Factor, c \in Capacity : (c * f) \div 2 > c
=============================================================================
