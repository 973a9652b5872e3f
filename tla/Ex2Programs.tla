---------------------------- MODULE Ex2Programs ----------------------------
(***************************************************************************)
(* The programs of Ex2: a run is a run of one of the five, and the         *)
(* variables of the others stay as they are at a start.                    *)
(***************************************************************************)
EXTENDS CounterThreads, SingletonUsers, Table

VARIABLES
  program,
  counter, semaphore, left, register, place,
  at, singleton, set, initSem, started, object, toRead, garbage,
  pc, owner, waiter, created

counters == <<counter, semaphore, left, register, place>>
users == <<at, singleton, set, initSem, started, object, toRead, garbage>>
dinner == <<pc, owner, waiter, created>>
vars == <<program, counters, users, dinner>>

Task1 == INSTANCE RacingCounter WITH pc <- place
Task2 == INSTANCE GuardedCounter WITH pc <- place
Task3 == INSTANCE Singleton WITH pc <- at, semaphore <- initSem
Task4 == INSTANCE DiningPhilosophers
Task4Fixed == INSTANCE DiningWaiter

Init ==
  \/ program = "Task1" /\ Task1!Init /\ semaphore = 1 /\ Task3!Init /\ Task4Fixed!Init
  \/ program = "Task4_deadlock" /\ Task2!Init /\ Task3!Init /\ Task4!Init /\ waiter = 0
  \/ /\ program \in {"Task2", "Task3", "Task4_fixed_deadlock"}
     /\ Task2!Init /\ Task3!Init /\ Task4Fixed!Init

Next ==
  /\ \/ /\ program = "Task1" /\ Task1!Next
        /\ UNCHANGED <<semaphore, users, dinner>>
     \/ /\ program = "Task2" /\ Task2!Next
        /\ UNCHANGED <<users, dinner>>
     \/ /\ program = "Task3" /\ Task3!Next
        /\ UNCHANGED <<counters, dinner>>
     \/ /\ program = "Task4_deadlock" /\ Task4!Next
        /\ UNCHANGED <<waiter, counters, users>>
     \/ /\ program = "Task4_fixed_deadlock" /\ Task4Fixed!Next
        /\ UNCHANGED <<counters, users>>
  /\ UNCHANGED program

\* As for each program on its own.
Spec ==
  /\ Init /\ [][Next]_vars
  /\ program = "Task4_fixed_deadlock" => Task4Fixed!Fairness

-----------------------------------------------------------------------------
(* What the programs promise, each stated in its own module *)

\* Task1: however many updates are lost, two survive.
TwoSurvive == program = "Task1" => Task1!TwoSurvive

\* Task2: the loop of the thread that stores last survives.
OneLoopSurvives == program = "Task2" => Task2!OneLoopSurvives

\* Task2: every run is a run of Task1.
RacingSteps == Task2!RacingSteps

\* Task3: the singleton is allocated once.
OnlyOneSingleton == Task3!OnlyOneSingleton

\* Task3: fields without a value are read only while they are being set.
GarbageOnlyInWindow == Task3!GarbageOnlyInWindow

\* Task4, with or without the waiter: neighbours never eat together.
NeighboursExclude == Task4!NeighboursExclude

\* Task4: the only deadlock is the full circle, and with the waiter there is none.
StuckOnlyInCircle ==
  IF program = "Task4_fixed_deadlock" THEN Task4Fixed!SomebodyCanMove
  ELSE Task4!StuckOnlyInCircle

\* Task4 with the waiter: whom the waiter serves finds both forks free.
ForksWaitForNobody ==
  program = "Task4_fixed_deadlock" => Task4Fixed!ForksWaitForNobody

\* Task4 with the waiter: there is always a later meal.
MealsGoOn == program = "Task4_fixed_deadlock" => Task4Fixed!MealsGoOn

\* Task4 with the waiter: every run is a run of the program without.
DinnerSteps == Task4Fixed!DinnerSteps
=============================================================================
