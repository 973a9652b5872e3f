------------------------- MODULE DeferredInterrupt -------------------------
(***************************************************************************)
(* Ex3/src/main.c: an interrupt handler sets a flag per test pin, and the  *)
(* loop of main answers the flags it finds with a pulse on the response    *)
(* pin, after a long busy wait in the case of B.  The tester lowers the    *)
(* test pins whenever it likes.  Time passes in the busy waits, in units   *)
(* of 5 us; a channel is the number of a pin in the order of the code.     *)
(***************************************************************************)
EXTENDS Integers

CONSTANTS
  N,            \* test pins: A, B and C in the code
  Delay,        \* busy wait before the answer of each, 20 units for B
  Edges         \* bound on the falling edges of a pin in one test run

ASSUME InterruptAssumption ==
  N \in Nat \ {0} /\ Delay \in [1 .. N -> Nat] /\ Edges \in Nat

Channel == 1 .. N

VARIABLES
  pending,      \* the interrupt flag of a pin in the GPIO
  flag,         \* flag_A, flag_B and flag_C
  isrAt,        \* channel the handler is at, 0 when it does not run
  isrDoes,      \* what it does next there
  at, does,     \* channel main is at, and what it does next there
  left,         \* units left of the busy wait main is in
  reuses,       \* the build keeps zeros it has loaded in registers
  known,        \* flags main has seen at zero since its last call
  waited,       \* history: units since the tester's edge, NotWaiting if answered
  edges, pulses \* history: edges and answers of a pin

isr == <<isrAt, isrDoes>>
main == <<at, does, left, known>>
tester == <<waited, edges, pulses>>
vars == <<pending, flag, isr, main, reuses, tester>>

NotWaiting == -1

\* The state when init returns and interrupts are on: edges that came since
\* the pins were set up are pending.  The flags are not volatile, so what a
\* build does with them is open, but the same at all times.
Init ==
  /\ \E early \in SUBSET Channel :
       /\ pending = [c \in Channel |-> c \in early]
       /\ waited = [c \in Channel |-> IF c \in early THEN 0 ELSE NotWaiting]
       /\ edges = [c \in Channel |-> IF c \in early THEN 1 ELSE 0]
  /\ flag = [c \in Channel |-> FALSE]
  /\ isrAt = 0 /\ isrDoes = "test"
  /\ at = 1 /\ does = "test" /\ left = 0 /\ known = {}
  /\ reuses \in BOOLEAN
  /\ pulses = [c \in Channel |-> 0]

-----------------------------------------------------------------------------

\* The tester lowers a pin.
Edge(c) ==
  /\ edges[c] < Edges
  /\ edges' = [edges EXCEPT ![c] = @ + 1]
  /\ pending' = [pending EXCEPT ![c] = TRUE]
  /\ waited' = [waited EXCEPT ![c] = IF @ = NotWaiting THEN 0 ELSE @]
  /\ UNCHANGED <<flag, isr, main, reuses, pulses>>

\* The CPU enters the handler between two instructions of main.
Interrupt ==
  /\ isrAt = 0
  /\ \E c \in Channel : pending[c]
  /\ isrAt' = 1 /\ isrDoes' = "test"
  /\ UNCHANGED <<pending, flag, main, reuses, tester>>

NextPin(c) == isrAt' = IF c = N THEN 0 ELSE c + 1

IsrTest(c) ==
  /\ isrAt = c /\ isrDoes = "test"
  /\ IF pending[c] THEN isrDoes' = "set" /\ UNCHANGED isrAt
                   ELSE NextPin(c) /\ UNCHANGED isrDoes
  /\ UNCHANGED <<pending, flag, main, reuses, tester>>

IsrSet(c) ==
  /\ isrAt = c /\ isrDoes = "set"
  /\ flag' = [flag EXCEPT ![c] = TRUE]
  /\ isrDoes' = "clear"
  /\ UNCHANGED <<pending, isrAt, main, reuses, tester>>

\* A faulty variant: the handler does not clear the interrupt.
IsrClear_forgets(c) ==
  /\ isrAt = c /\ isrDoes = "clear"
  /\ isrDoes' = "test" /\ NextPin(c)
  /\ UNCHANGED <<pending, flag, main, reuses, tester>>

IsrClear(c) ==
  /\ isrAt = c /\ isrDoes = "clear"
  /\ pending' = [pending EXCEPT ![c] = FALSE]
  /\ isrDoes' = "test" /\ NextPin(c)
  /\ UNCHANGED <<flag, main, reuses, tester>>

Isr == Interrupt \/ \E c \in Channel : IsrTest(c) \/ IsrSet(c) \/ IsrClear(c)

-----------------------------------------------------------------------------

\* A step of main: the handler does not run.
InMain(c, step) == isrAt = 0 /\ at = c /\ does = step

GoOn(c) == at' = (IF c = N THEN 1 ELSE c + 1) /\ does' = "test"

\* if (flag_X): a zero loaded before may be used again as long as no function
\* has been called, and the function of another channel was not either.
Test(c) ==
  /\ InMain(c, "test")
  /\ IF flag[c] /\ c \notin known
       THEN does' = "take" /\ UNCHANGED <<at, known>>
       ELSE GoOn(c) /\ known' = IF reuses THEN known \cup {c} ELSE {}
  /\ UNCHANGED <<pending, flag, isr, left, reuses, tester>>

\* A faulty variant: the flag is not cleared.
Take_forgets(c) ==
  /\ InMain(c, "take")
  /\ does' = "wait" /\ left' = Delay[c]
  /\ UNCHANGED <<pending, flag, isr, at, known, reuses, tester>>

\* flag_X = 0 and the call of busy_delay_us, which takes 100 us for B.
Take(c) ==
  /\ InMain(c, "take")
  /\ flag' = [flag EXCEPT ![c] = FALSE]
  /\ does' = "wait" /\ left' = Delay[c]
  /\ UNCHANGED <<pending, isr, at, known, reuses, tester>>

\* The answer begins and is held for 5 us.
SetLow(c) ==
  /\ InMain(c, "wait") /\ left = 0
  /\ does' = "hold" /\ left' = 1 /\ known' = {}
  /\ waited' = [waited EXCEPT ![c] = NotWaiting]
  /\ pulses' = [pulses EXCEPT ![c] = @ + 1]
  /\ UNCHANGED <<pending, flag, isr, at, reuses, edges>>

\* Faulty variants: the flag is cleared when the answer is over; main stays
\* with a pin as long as its flag is set.
SetHigh_clears(c) ==
  /\ InMain(c, "hold") /\ left = 0
  /\ GoOn(c) /\ flag' = [flag EXCEPT ![c] = FALSE]
  /\ UNCHANGED <<pending, isr, left, known, reuses, tester>>
SetHigh_stays(c) ==
  /\ InMain(c, "hold") /\ left = 0
  /\ does' = "test"
  /\ UNCHANGED <<pending, flag, isr, at, left, known, reuses, tester>>

\* The answer ends.
SetHigh(c) ==
  /\ InMain(c, "hold") /\ left = 0
  /\ GoOn(c)
  /\ UNCHANGED <<pending, flag, isr, left, known, reuses, tester>>

\* A unit passes in the busy wait of main; the handler does not wait for it.
Tick ==
  /\ left > 0 /\ isrAt = 0 /\ \A c \in Channel : ~pending[c]
  /\ left' = left - 1
  /\ waited' = [c \in Channel |->
                  IF waited[c] = NotWaiting THEN NotWaiting ELSE waited[c] + 1]
  /\ UNCHANGED <<pending, flag, isr, at, does, known, reuses, edges, pulses>>

Main ==
  \/ \E c \in Channel : Test(c) \/ Take(c) \/ SetLow(c) \/ SetHigh(c)
  \/ Tick

Next == Main \/ Isr \/ \E c \in Channel : Edge(c)

\* The processor runs; the tester need not do anything.
Spec == Init /\ [][Next]_vars /\ WF_vars(Main) /\ WF_vars(Isr)

-----------------------------------------------------------------------------

TypeOK ==
  /\ pending \in [Channel -> BOOLEAN]
  /\ flag \in [Channel -> BOOLEAN]
  /\ isrAt \in 0 .. N
  /\ isrDoes \in {"test", "set", "clear"}
  /\ at \in Channel
  /\ does \in {"test", "take", "wait", "hold"}
  /\ left \in Nat
  /\ reuses \in BOOLEAN
  /\ known \in SUBSET Channel
  /\ waited \in [Channel -> Nat \cup {NotWaiting}]
  /\ edges \in [Channel -> Nat]
  /\ pulses \in [Channel -> Nat]

\* main has taken the flag and not answered yet.
Taken(c) == at = c /\ does = "wait"

\* The handler has set the flag and not cleared the interrupt yet.
Recorded(c) == isrAt = c /\ isrDoes = "clear"

\* The handler acts on an interrupt that is there and main on a flag that is.
Tested ==
  /\ \A c \in Channel : isrAt = c /\ isrDoes # "test" => pending[c]
  /\ \A c \in Channel : Recorded(c) => flag[c]
  /\ isrAt = 0 => isrDoes = "test"
  /\ does = "take" => flag[at]

\* No edge is forgotten (main.c:66-82 against 151): one that is not answered
\* yet is in the GPIO, in the flag, or in the answer main is about to give.
NoEdgeForgotten ==
  \A c \in Channel :
    waited[c] # NotWaiting => pending[c] \/ flag[c] \/ Taken(c)

One(b) == IF b THEN 1 ELSE 0

\* No answer is invented: every answer given and every one on its way has an
\* edge of its own, whatever is merged or seen twice.
NoAnswerInvented ==
  \A c \in Channel :
    pulses[c] + One(Taken(c)) + One(flag[c]) + One(pending[c] /\ ~Recorded(c))
      <= edges[c]

IInv == TypeOK /\ Tested /\ NoEdgeForgotten /\ NoAnswerInvented

\* What one answer of each of the first n channels takes.
Answers[n \in 0 .. N] == IF n = 0 THEN 0 ELSE Answers[n - 1] + Delay[n] + 1

\* The answer comes at latest after one answer of every channel: the 100 us
\* of B (main.c:161) are spent at most once between an edge and its answer.
AnsweredInTime == \A c \in Channel : waited[c] <= Answers[N]

\* Every edge is answered, provided the build loads the flags on every pass.
EveryEdgeAnswered ==
  \A c \in Channel :
    ~reuses /\ waited[c] # NotWaiting ~> waited[c] = NotWaiting
=============================================================================
