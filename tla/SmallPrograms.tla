--------------------------- MODULE SmallPrograms ---------------------------
(***************************************************************************)
(* The programs of Ex1, Ex4 and Ex6, each a system of its own: a run is a  *)
(* run of one of them, and the variables of the others stay as they are at *)
(* their start.                                                            *)
(***************************************************************************)
EXTENDS PinNames

VARIABLES
  program,
  array, memory, fresh, content,
  doing, clock, cpu, now, then, began, asked, before,
  kernel, pc, call, spun, level, response, waiting, wait, late,
  at, left, due, overrun, test, pending, waited, since, overhead, afterPoll, spent

arrays == <<array, memory, fresh, content>>
timing == <<doing, clock, cpu, now, then, began, asked, before>>
pins == <<kernel, pc, call, spun, level, response, waiting, wait, late>>
polling ==
  <<at, left, due, overrun, test, pending, waited, since, overhead, afterPoll, spent>>
vars == <<program, arrays, timing, pins, polling>>

Arrays == INSTANCE ArrayList
Timing == INSTANCE BusyWait
Pins == INSTANCE PinTasks WITH test <- level, asked <- waiting
Polling == INSTANCE PeriodicPolling

Init ==
  /\ Arrays!Init /\ Timing!Init /\ Pins!Init /\ Polling!Init
  /\ program \in {"array", "ex1_time", "Ex4", "Ex6"}
  /\ program # "ex1_time" => doing = "end" /\ clock = 0

Next ==
  /\ \/ program = "array" /\ Arrays!Next /\ UNCHANGED <<timing, pins, polling>>
     \/ program = "ex1_time" /\ Timing!Next /\ UNCHANGED <<arrays, pins, polling>>
     \/ program = "Ex4" /\ Pins!Next /\ UNCHANGED <<arrays, timing, polling>>
     \/ program = "Ex6" /\ Polling!Next /\ UNCHANGED <<arrays, timing, pins>>
  /\ UNCHANGED program

Spec == Init /\ [][Next]_vars

-----------------------------------------------------------------------------
(* The instance *)

\* Less than nothing, less than a second, and more.
Unwritten == {-5, -1, 0, 3, 6}

\* Which array and which value it is makes no difference.
Alike == Permutations(Name) \cup Permutations(Value)

-----------------------------------------------------------------------------
(* What the programs promise, each stated in its own module *)

\* Ex1b: an array and its copies are sequences, also across growing.
IsSequence == Arrays!IsSequence

\* Ex1a: the busy wait ends in time, whatever nobody has written.
WaitsWhatItWasGiven == Timing!WaitsWhatItWasGiven

\* Ex4: every line is answered within its bound.
AnsweredInTime == Pins!AnsweredInTime

\* Ex6: every line is answered in time, or its task has seen its own time over
\* before it could see the line.
AnsweredUntilExpiry == Polling!AnsweredUntilExpiry
=============================================================================
