------------------------------ MODULE BusyWait ------------------------------
(***************************************************************************)
(* Ex1a/ex1_time.c: main waits for a second in the way that was asked for  *)
(* and, its cases falling through, in all the ways after it.  busy_wait is *)
(* given a timespec whose tv_nsec nobody has written.                      *)
(*                                                                         *)
(* A second has Second nanoseconds; an int holds 2 * IntHalf values.       *)
(***************************************************************************)
EXTENDS SmallParameters

VARIABLES
  doing,        \* where main is
  clock,        \* CLOCK_MONOTONIC in nanoseconds
  cpu,          \* the ticks of CPU time the process has used
  now, then,    \* the timespecs of busy_wait
  began,        \* clock or cpu when the present wait began
  asked,        \* history: what busy_wait was given, in nanoseconds
  before        \* history: clock at the read before the last one

timing == <<doing, clock, cpu, now, then, began, asked, before>>

-----------------------------------------------------------------------------
(* timespec *)

\* A faulty variant: nothing is borrowed from the seconds.
Normalized_positive(sec, nsec) ==
  IF nsec < 0 THEN [sec |-> sec, nsec |-> nsec]
  ELSE [sec |-> sec + nsec \div Second, nsec |-> nsec % Second]

\* Both loops: whole seconds are carried, and borrowed where there is less than
\* nothing.
Normalized(sec, nsec) == [sec |-> sec + nsec \div Second, nsec |-> nsec % Second]

Add(lhs, rhs) == Normalized(lhs.sec + rhs.sec, lhs.nsec + rhs.nsec)

\* The difference is a long that is returned as an int.
Cmp(lhs, rhs) ==
  CASE lhs.sec < rhs.sec -> -1
    [] lhs.sec > rhs.sec -> 1
    [] OTHER -> ((lhs.nsec - rhs.nsec + IntHalf) % (2 * IntHalf)) - IntHalf

Total(t) == t.sec * Second + t.nsec

\* clock_gettime
GetTime == [sec |-> clock \div Second, nsec |-> clock % Second]

-----------------------------------------------------------------------------

Zero == [sec |-> 0, nsec |-> 0]

\* scanf and switch
Init ==
  /\ doing \in {"sleep", "busyWait", "times", "end"}
  /\ clock \in 0 .. Second - 1 /\ cpu = 0
  /\ now = Zero /\ then = Zero /\ asked = 0 /\ before = 0
  /\ began = IF doing = "sleep" THEN clock ELSE 0

\* sleep(1), whose end may be late
Slept ==
  /\ doing = "sleep" /\ clock >= began + Second
  /\ doing' = "busyWait"
  /\ UNCHANGED <<clock, cpu, now, then, began, asked, before>>

\* t.tv_sec = 1, the first read and its sum with t
Begin ==
  /\ doing = "busyWait"
  /\ \E nsec \in Garbage :
       /\ then' = Add(GetTime, [sec |-> 1, nsec |-> nsec])
       /\ asked' = Second + nsec
  /\ doing' = "loop" /\ now' = GetTime
  /\ began' = clock /\ before' = clock
  /\ UNCHANGED <<clock, cpu>>

\* while(timespec_cmp(now, then) < 0), and the read in it
Read ==
  /\ doing = "loop" /\ Cmp(now, then) < 0
  /\ now' = GetTime /\ before' = Total(now)
  /\ UNCHANGED <<doing, clock, cpu, then, began, asked>>

\* The end of busy_wait, and start_time of busy_wait_times
Waited ==
  /\ doing = "loop" /\ Cmp(now, then) >= 0
  /\ doing' = "times" /\ began' = cpu
  /\ UNCHANGED <<clock, cpu, now, then, asked, before>>

Timed ==
  /\ doing = "times" /\ cpu - began >= TicksPerSec
  /\ doing' = "end"
  /\ UNCHANGED <<clock, cpu, now, then, began, asked, before>>

\* Time passes, and the process has the CPU or not.
Pass ==
  /\ clock < MaxClock
  /\ clock' = clock + 1
  /\ \/ UNCHANGED cpu
     \/ doing \notin {"sleep", "end"} /\ cpu' = cpu + 1
  /\ UNCHANGED <<doing, now, then, began, asked, before>>

Next == Slept \/ Begin \/ Read \/ Waited \/ Timed \/ Pass

Spec == Init /\ [][Next]_timing

-----------------------------------------------------------------------------

\* Whatever the nanoseconds that were never written, even less than nothing or
\* more than a second: the busy wait ends with the first read of the clock at
\* which a second and they have passed (ex1_time.c:44-54).
WaitsWhatItWasGiven ==
  [][Waited => /\ Total(now) >= began + asked
               /\ before < began + asked \/ before = began]_timing
=============================================================================
