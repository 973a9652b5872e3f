---------------------- MODULE DeferredInterrupt_proofs ----------------------
(***************************************************************************)
(* For any number of pins, any busy waits and any number of edges: no edge *)
(* is forgotten between the interrupt handler and the loop of main, and no *)
(* answer is given without an edge of its own, whatever the build does     *)
(* with flags that are not volatile.  An answer that is given comes after  *)
(* one answer of every pin at latest.                                      *)
(***************************************************************************)
EXTENDS DeferredInterrupt, WellFoundedInduction, TLAPS

\* Where the handler and main go next.
LEMMA Turns ==
  /\ 1 \in Channel /\ Channel \subseteq 0 .. N /\ 0 \in 0 .. N /\ 0 \notin Channel
  /\ \A c \in Channel : /\ (IF c = N THEN 1 ELSE c + 1) \in Channel
                        /\ (IF c = N THEN 0 ELSE c + 1) \in 0 .. N
                        /\ Delay[c] \in Nat
  BY InterruptAssumption DEF Channel

LEMMA InitIInv == Init => IInv
<1> SUFFICES ASSUME Init PROVE IInv
  OBVIOUS
<1>1. PICK early \in SUBSET Channel :
        /\ pending = [c \in Channel |-> c \in early]
        /\ waited = [c \in Channel |-> IF c \in early THEN 0 ELSE NotWaiting]
        /\ edges = [c \in Channel |-> IF c \in early THEN 1 ELSE 0]
  BY DEF Init
<1>2. TypeOK
  BY <1>1, Turns DEF Init, TypeOK, NotWaiting
<1>3. Tested /\ NoEdgeForgotten
  BY <1>1, Turns DEF Init, Tested, NoEdgeForgotten, Recorded, Taken, NotWaiting
<1>4. NoAnswerInvented
  <2> SUFFICES ASSUME NEW c \in Channel
               PROVE  pulses[c] + One(Taken(c)) + One(flag[c])
                        + One(pending[c] /\ ~Recorded(c)) <= edges[c]
    BY DEF NoAnswerInvented
  <2>1. pulses[c] = 0 /\ ~Taken(c) /\ ~flag[c] /\ ~Recorded(c)
    BY Turns DEF Init, Taken, Recorded
  <2>2. pending[c] <=> c \in early
    BY <1>1
  <2>3. edges[c] = IF c \in early THEN 1 ELSE 0
    BY <1>1
  <2>4. QED
    BY <2>1, <2>2, <2>3 DEF One
<1>5. QED
  BY <1>2, <1>3, <1>4 DEF IInv

LEMMA NextIInv == IInv /\ [Next]_vars => IInv'
<1> SUFFICES ASSUME IInv, [Next]_vars PROVE IInv'
  OBVIOUS
<1> USE Turns DEF IInv, isr, main, tester
<1>1. ASSUME NEW c \in Channel, Edge(c) PROVE IInv'
  <2>1. TypeOK'
    <3>1. edges' \in [Channel -> Nat] /\ waited' \in [Channel -> Nat \cup {NotWaiting}]
      BY <1>1 DEF Edge, TypeOK
    <3>2. QED
      BY <1>1, <3>1 DEF Edge, TypeOK
  <2>2. Tested'
    BY <1>1 DEF Edge, TypeOK, Tested, Recorded
  <2>3. NoEdgeForgotten'
    BY <1>1 DEF Edge, TypeOK, Tested, NoEdgeForgotten, Taken, Recorded, NotWaiting
  <2>4. NoAnswerInvented'
    <3> SUFFICES ASSUME NEW d \in Channel
                 PROVE  (pulses[d] + One(Taken(d)) + One(flag[d])
                           + One(pending[d] /\ ~Recorded(d)) <= edges[d])'
      BY DEF NoAnswerInvented
    <3>1. pulses[d] + One(Taken(d)) + One(flag[d])
            + One(pending[d] /\ ~Recorded(d)) <= edges[d]
      BY DEF NoAnswerInvented
    <3>2. Taken(d)' = Taken(d) /\ Recorded(d)' = Recorded(d)
      BY <1>1 DEF Edge, Taken, Recorded
    <3>3. pulses[d] \in Nat /\ edges[d] \in Nat
      BY DEF TypeOK
    <3>4. CASE d = c
      BY <1>1, <3>1, <3>2, <3>3, <3>4 DEF Edge, TypeOK, One
    <3>5. CASE d # c
      BY <1>1, <3>1, <3>2, <3>5 DEF Edge, TypeOK, One
    <3>6. QED
      BY <3>4, <3>5
  <2>5. QED
    BY <2>1, <2>2, <2>3, <2>4
<1>2. CASE Interrupt
  <2>1. TypeOK'
    BY <1>2 DEF Interrupt, TypeOK
  <2>2. Tested'
    BY <1>2 DEF Interrupt, TypeOK, Tested, Recorded
  <2>3. NoEdgeForgotten'
    BY <1>2 DEF Interrupt, TypeOK, Tested, NoEdgeForgotten, Taken, Recorded, NotWaiting
  <2>4. NoAnswerInvented'
    BY <1>2 DEF Interrupt, TypeOK, Tested, NoAnswerInvented, Taken, Recorded, One
  <2>5. QED
    BY <2>1, <2>2, <2>3, <2>4
<1>3. ASSUME NEW c \in Channel, IsrTest(c) PROVE IInv'
  <2>1. TypeOK'
    BY <1>3 DEF IsrTest, NextPin, TypeOK
  <2>2. Tested'
    BY <1>3 DEF IsrTest, NextPin, TypeOK, Tested, Recorded
  <2>3. NoEdgeForgotten'
    BY <1>3 DEF IsrTest, NextPin, TypeOK, Tested, NoEdgeForgotten, Taken, Recorded, NotWaiting
  <2>4. NoAnswerInvented'
    BY <1>3 DEF IsrTest, NextPin, TypeOK, Tested, NoAnswerInvented, Taken, Recorded, One
  <2>5. QED
    BY <2>1, <2>2, <2>3, <2>4
<1>4. ASSUME NEW c \in Channel, IsrSet(c) PROVE IInv'
  <2>1. TypeOK'
    BY <1>4 DEF IsrSet, TypeOK
  <2>2. Tested'
    BY <1>4 DEF IsrSet, TypeOK, Tested, Recorded
  <2>3. NoEdgeForgotten'
    BY <1>4 DEF IsrSet, TypeOK, Tested, NoEdgeForgotten, Taken, Recorded, NotWaiting
  <2>4. NoAnswerInvented'
    <3> SUFFICES ASSUME NEW d \in Channel
                 PROVE  (pulses[d] + One(Taken(d)) + One(flag[d])
                           + One(pending[d] /\ ~Recorded(d)) <= edges[d])'
      BY DEF NoAnswerInvented
    <3>1. pulses[d] + One(Taken(d)) + One(flag[d])
            + One(pending[d] /\ ~Recorded(d)) <= edges[d]
      BY DEF NoAnswerInvented
    <3>2. Taken(d)' = Taken(d) /\ pulses[d] \in Nat /\ edges[d] \in Nat
      BY <1>4 DEF IsrSet, Taken, TypeOK
    <3>3. CASE d = c
      <4>1. pending[d] /\ ~Recorded(d) /\ Recorded(d)' /\ flag'[d]
        BY <1>4, <3>3 DEF IsrSet, Tested, Recorded, TypeOK
      <4>2. QED
        BY <1>4, <3>1, <3>2, <4>1 DEF IsrSet, One
    <3>4. CASE d # c
      BY <1>4, <3>1, <3>2, <3>4 DEF IsrSet, TypeOK, Recorded, One
    <3>5. QED
      BY <3>3, <3>4
  <2>5. QED
    BY <2>1, <2>2, <2>3, <2>4
<1>5. ASSUME NEW c \in Channel, IsrClear(c) PROVE IInv'
  <2>1. TypeOK'
    BY <1>5 DEF IsrClear, NextPin, TypeOK
  <2>2. Tested'
    BY <1>5 DEF IsrClear, NextPin, TypeOK, Tested, Recorded
  <2>3. NoEdgeForgotten'
    BY <1>5 DEF IsrClear, NextPin, TypeOK, Tested, NoEdgeForgotten, Taken, Recorded, NotWaiting
  <2>4. NoAnswerInvented'
    BY <1>5 DEF IsrClear, NextPin, TypeOK, Tested, NoAnswerInvented, Taken, Recorded, One
  <2>5. QED
    BY <2>1, <2>2, <2>3, <2>4
<1>6. ASSUME NEW c \in Channel, Test(c) PROVE IInv'
  <2>1. TypeOK'
    BY <1>6 DEF Test, InMain, GoOn, TypeOK
  <2>2. Tested'
    BY <1>6 DEF Test, InMain, GoOn, TypeOK, Tested, Recorded
  <2>3. NoEdgeForgotten'
    BY <1>6 DEF Test, InMain, GoOn, TypeOK, Tested, NoEdgeForgotten, Taken, Recorded, NotWaiting
  <2>4. NoAnswerInvented'
    BY <1>6 DEF Test, InMain, GoOn, TypeOK, Tested, NoAnswerInvented, Taken, Recorded, One
  <2>5. QED
    BY <2>1, <2>2, <2>3, <2>4
<1>7. ASSUME NEW c \in Channel, Take(c) PROVE IInv'
  <2>1. TypeOK'
    BY <1>7 DEF Take, InMain, TypeOK
  <2>2. Tested'
    BY <1>7 DEF Take, InMain, TypeOK, Tested, Recorded
  <2>3. NoEdgeForgotten'
    BY <1>7 DEF Take, InMain, TypeOK, Tested, NoEdgeForgotten, Taken, Recorded, NotWaiting
  <2>4. NoAnswerInvented'
    BY <1>7 DEF Take, InMain, TypeOK, Tested, NoAnswerInvented, Taken, Recorded, One
  <2>5. QED
    BY <2>1, <2>2, <2>3, <2>4
<1>8. ASSUME NEW c \in Channel, SetLow(c) PROVE IInv'
  <2>1. TypeOK'
    BY <1>8 DEF SetLow, InMain, TypeOK, NotWaiting
  <2>2. Tested'
    BY <1>8 DEF SetLow, InMain, TypeOK, Tested, Recorded
  <2>3. NoEdgeForgotten'
    BY <1>8 DEF SetLow, InMain, TypeOK, Tested, NoEdgeForgotten, Taken, Recorded, NotWaiting
  <2>4. NoAnswerInvented'
    BY <1>8 DEF SetLow, InMain, TypeOK, Tested, NoAnswerInvented, Taken, Recorded, One
  <2>5. QED
    BY <2>1, <2>2, <2>3, <2>4
<1>9. ASSUME NEW c \in Channel, SetHigh(c) PROVE IInv'
  <2>1. TypeOK'
    BY <1>9 DEF SetHigh, InMain, GoOn, TypeOK
  <2>2. Tested'
    BY <1>9 DEF SetHigh, InMain, GoOn, TypeOK, Tested, Recorded
  <2>3. NoEdgeForgotten'
    BY <1>9 DEF SetHigh, InMain, GoOn, TypeOK, Tested, NoEdgeForgotten, Taken, Recorded, NotWaiting
  <2>4. NoAnswerInvented'
    BY <1>9 DEF SetHigh, InMain, GoOn, TypeOK, Tested, NoAnswerInvented, Taken, Recorded, One
  <2>5. QED
    BY <2>1, <2>2, <2>3, <2>4
<1>10. CASE Tick
  <2>1. TypeOK'
    BY <1>10 DEF Tick, TypeOK, NotWaiting
  <2>2. Tested'
    BY <1>10 DEF Tick, TypeOK, Tested, Recorded
  <2>3. NoEdgeForgotten'
    BY <1>10 DEF Tick, TypeOK, Tested, NoEdgeForgotten, Taken, Recorded, NotWaiting
  <2>4. NoAnswerInvented'
    BY <1>10 DEF Tick, TypeOK, Tested, NoAnswerInvented, Taken, Recorded, One
  <2>5. QED
    BY <2>1, <2>2, <2>3, <2>4
<1>11. CASE UNCHANGED vars
  BY <1>11 DEF vars, TypeOK, Tested, NoEdgeForgotten, NoAnswerInvented, Taken, Recorded
<1>12. QED
  BY <1>1, <1>2, <1>3, <1>4, <1>5, <1>6, <1>7, <1>8, <1>9, <1>10, <1>11 DEF Next, Main, Isr

\* The inductive invariant: types, what the handler and main rely on between
\* two steps of their own, and the two properties.
THEOREM Invariance == Spec => []IInv
  BY InitIInv, NextIInv, PTL DEF Spec

\* No edge is forgotten, however the handler interrupts the test, the clearing
\* and the answer of main (main.c:66-82 against 149-178).
THEOREM EdgesAreKept == Spec => []NoEdgeForgotten
  BY Invariance, PTL DEF IInv

\* Every answer has an edge of its own (main.c:151, 160 and 171 clear the flag
\* before the answer, the handler sets it once per interrupt).
THEOREM AnswersAreEarned == Spec => []NoAnswerInvented
  BY Invariance, PTL DEF IInv

-----------------------------------------------------------------------------
(* How long an answer takes *)

LEMMA SetInduction ==
  ASSUME NEW S \in SUBSET Nat, 0 \in S, \A n \in S : n + 1 \in S
  PROVE  S = Nat
<1>1. SUFFICES ASSUME Nat \ S # {} PROVE FALSE
  OBVIOUS
<1>2. PICK m \in Nat \ S : \A n \in Nat \ S : ~ (<<n, m>> \in OpToRel(<, Nat))
  BY <1>1, WFMin, NatLessThanWellFounded
<1>3. \A n \in Nat \ S : ~ (n < m)
  BY <1>2 DEF OpToRel
<1>4. m # 0 /\ m - 1 \in Nat /\ m - 1 < m /\ m - 1 + 1 = m
  OBVIOUS
<1>5. m - 1 \in S
  BY <1>3, <1>4
<1>6. QED
  BY <1>4, <1>5

\* The recursive function is what its definition says.
LEMMA AnswersIs ==
  /\ Answers[0] = 0 /\ \A n \in 0 .. N : Answers[n] \in Nat
  /\ \A n \in Channel : n - 1 \in 0 .. N /\ Answers[n] = Answers[n - 1] + Delay[n] + 1
<1> DEFINE Runs(h, m) == h = [n \in 0 .. m |-> IF n = 0 THEN 0 ELSE h[n - 1] + Delay[n] + 1]
<1>1. N \in Nat /\ N # 0 /\ \A n \in Channel : n \in Nat /\ n - 1 \in 0 .. N /\ Delay[n] \in Nat
  BY InterruptAssumption DEF Channel
<1>2. \E h : Runs(h, N)
  <2> DEFINE E == {m \in Nat : \E h : Runs(h, m)}
  <2>1. 0 \in E
    <3>1. Runs([n \in 0 .. 0 |-> 0], 0)
      OBVIOUS
    <3>2. QED
      BY <3>1
  <2>2. ASSUME NEW m \in E PROVE m + 1 \in E
    <3>1. PICK h : Runs(h, m)
      OBVIOUS
    <3> DEFINE g == [n \in 0 .. m + 1 |-> IF n <= m THEN h[n] ELSE h[m] + Delay[m + 1] + 1]
    <3>2. Runs(g, m + 1)
      <4>1. ASSUME NEW n \in 0 .. m + 1
            PROVE  g[n] = IF n = 0 THEN 0 ELSE g[n - 1] + Delay[n] + 1
        BY <3>1
      <4>2. QED
        BY <4>1
    <3> HIDE DEF g
    <3>3. m + 1 \in Nat /\ \E f : Runs(f, m + 1)
      BY <3>2
    <3>4. QED
      BY <3>3
  <2>3. E = Nat
    <3> HIDE DEF E
    <3>1. E \in SUBSET Nat
      BY DEF E
    <3>2. QED
      BY <2>1, <2>2, <3>1, SetInduction
  <2>4. QED
    BY <1>1, <2>3
<1>3. Runs(Answers, N)
  BY <1>2 DEF Answers
<1>4. /\ Answers[0] = 0
      /\ \A n \in 0 .. N : n # 0 => Answers[n] = Answers[n - 1] + Delay[n] + 1
  <2>1. 0 \in 0 .. N
    BY <1>1
  <2>2. QED
    BY <1>3, <2>1
<1>5. \A n \in 0 .. N : Answers[n] \in Nat
  <2> DEFINE S == {n \in Nat : n <= N => Answers[n] \in Nat}
  <2>1. 0 \in S
    BY <1>4
  <2>2. ASSUME NEW n \in S PROVE n + 1 \in S
    <3>1. SUFFICES ASSUME n + 1 <= N PROVE Answers[n + 1] \in Nat
      OBVIOUS
    <3>2. n + 1 \in Channel /\ n + 1 \in 0 .. N /\ n + 1 # 0 /\ (n + 1) - 1 = n /\ Answers[n] \in Nat
      BY <1>1, <3>1 DEF Channel
    <3>3. Delay[n + 1] \in Nat
      BY <1>1, <3>2
    <3>4. QED
      BY <1>4, <3>2, <3>3
  <2>3. S = Nat
    <3> HIDE DEF S
    <3>1. S \in SUBSET Nat
      BY DEF S
    <3>2. QED
      BY <2>1, <2>2, <3>1, SetInduction
  <2>4. QED
    BY <2>3
<1>6. QED
  BY <1>1, <1>4, <1>5 DEF Channel

LEMMA AnswersGrow ==
  ASSUME NEW m \in 0 .. N, NEW n \in 0 .. N, m <= n
  PROVE  Answers[m] <= Answers[n]
<1> DEFINE S == {d \in Nat : m + d <= N => Answers[m] <= Answers[m + d]}
<1>1. N \in Nat
  BY InterruptAssumption
<1>2. 0 \in S
  BY AnswersIs
<1>3. ASSUME NEW d \in S PROVE d + 1 \in S
  <2>1. SUFFICES ASSUME m + (d + 1) <= N PROVE Answers[m] <= Answers[m + (d + 1)]
    OBVIOUS
  <2>2. m + (d + 1) \in Channel /\ m + (d + 1) - 1 = m + d /\ m + d \in 0 .. N
    BY <1>1, <2>1 DEF Channel
  <2>3. Answers[m + (d + 1)] = Answers[m + d] + Delay[m + (d + 1)] + 1
    BY <2>2, AnswersIs
  <2>4. Answers[m] <= Answers[m + d] /\ Delay[m + (d + 1)] \in Nat
    BY <1>1, <2>2, InterruptAssumption DEF Channel
  <2>5. Answers[m] \in Nat /\ Answers[m + d] \in Nat
    BY <2>2, AnswersIs
  <2>6. QED
    BY <2>3, <2>4, <2>5
<1>4. S = Nat
  <2> HIDE DEF S
  <2>1. S \in SUBSET Nat
    BY DEF S
  <2>2. QED
    BY <1>2, <1>3, <2>1, SetInduction
<1>5. PICK d \in Nat : d = n - m /\ m + d = n /\ m + d <= N
  OBVIOUS
<1>6. d \in S
  BY <1>4
<1>7. QED
  BY <1>5, <1>6

\* The channel after a, and the time that main, when it comes to a, may still
\* spend before it comes to c.
Turn(a) == IF a = N THEN 1 ELSE a + 1

Before(a, c) ==
  IF a <= c THEN Answers[c - 1] - Answers[a - 1]
            ELSE Answers[N] - Answers[a - 1] + Answers[c - 1]

LEMMA BeforeIs ==
  ASSUME NEW a \in Channel, NEW c \in Channel
  PROVE  /\ Turn(a) \in Channel /\ Before(a, c) \in Nat
         /\ Before(a, c) + Delay[c] + 1 <= Answers[N]
         /\ a # c => Before(a, c) = Before(Turn(a), c) + Delay[a] + 1
         /\ a = c => Before(a, c) = 0
<1>1. N \in Nat /\ N # 0 /\ a \in 1 .. N /\ c \in 1 .. N /\ Delay[a] \in Nat /\ Delay[c] \in Nat
  BY InterruptAssumption DEF Channel
<1>2. PICK T \in Nat, A \in Nat, P \in Nat, C \in Nat, Q \in Nat :
        /\ T = Answers[N] /\ A = Answers[a] /\ P = Answers[a - 1]
        /\ C = Answers[c] /\ Q = Answers[c - 1]
  <2>1. N \in 0 .. N /\ a \in 0 .. N /\ c \in 0 .. N /\ a - 1 \in 0 .. N /\ c - 1 \in 0 .. N
    BY <1>1
  <2>2. QED
    BY <2>1, AnswersIs
<1>3. A = P + Delay[a] + 1 /\ C = Q + Delay[c] + 1
  BY <1>2, AnswersIs
<1>4. A <= T /\ C <= T /\ (a <= c => P <= Q) /\ (a < c => A <= Q) /\ (c < a => C <= P)
  <2>1. N \in 0 .. N /\ a \in 0 .. N /\ c \in 0 .. N /\ a - 1 \in 0 .. N /\ c - 1 \in 0 .. N
    BY <1>1
  <2>2. A <= T /\ C <= T
    BY <1>1, <1>2, <2>1, AnswersGrow
  <2>3. a <= c => P <= Q
    <3>1. a <= c => a - 1 <= c - 1
      BY <1>1
    <3>2. QED
      BY <1>2, <2>1, <3>1, AnswersGrow
  <2>4. a < c => A <= Q
    <3>1. a < c => a <= c - 1
      BY <1>1
    <3>2. QED
      BY <1>2, <2>1, <3>1, AnswersGrow
  <2>5. c < a => C <= P
    <3>1. c < a => c <= a - 1
      BY <1>1
    <3>2. QED
      BY <1>2, <2>1, <3>1, AnswersGrow
  <2>6. QED
    BY <2>2, <2>3, <2>4, <2>5
<1>5. Turn(a) \in Channel
  BY <1>1 DEF Turn, Channel
<1>6. Before(a, c) = IF a <= c THEN Q - P ELSE T - P + Q
  BY <1>2 DEF Before
<1>7. Before(a, c) \in Nat /\ Before(a, c) + Delay[c] + 1 <= T
  BY <1>1, <1>3, <1>4, <1>6
<1>8. a # c => Before(a, c) = Before(Turn(a), c) + Delay[a] + 1
  <2>1. CASE a = N /\ a # c
    <3>1. PICK b \in Nat : b = Turn(a) /\ b <= c /\ b - 1 = 0 /\ A = T
      BY <1>1, <1>2, <2>1 DEF Turn
    <3>2. Before(Turn(a), c) = Q
      <4>1. Before(b, c) = Answers[c - 1] - Answers[0]
        BY <3>1 DEF Before
      <4>2. QED
        BY <1>2, <3>1, <4>1, AnswersIs
    <3>3. QED
      BY <1>1, <1>3, <1>6, <2>1, <3>1, <3>2
  <2>2. CASE a # N /\ a # c
    <3>1. PICK b \in Nat : b = Turn(a) /\ b = a + 1 /\ b - 1 = a
      BY <1>1, <2>2 DEF Turn
    <3>2. Before(Turn(a), c) = IF a + 1 <= c THEN Q - A ELSE T - A + Q
      <4>1. Before(b, c) = IF a + 1 <= c THEN Answers[c - 1] - Answers[a]
                           ELSE Answers[N] - Answers[a] + Answers[c - 1]
        BY <3>1 DEF Before
      <4>2. QED
        BY <1>2, <3>1, <4>1
    <3>3. QED
      BY <1>1, <1>3, <1>6, <2>2, <3>2
  <2>3. QED
    BY <2>1, <2>2
<1>9. a = c => Before(a, c) = 0
  BY <1>1, <1>2, <1>6
<1>10. QED
  BY <1>2, <1>5, <1>7, <1>8, <1>9

-----------------------------------------------------------------------------
(* The time between an edge and its answer *)

\* What main may still spend before it begins the answer of c, without the
\* busy wait of c itself; the channel it is at does not count when its answer
\* is already being held.
Owed(c) ==
  CASE does \in {"test", "take"} -> Before(at, c)
    [] does = "wait" -> Before(at, c) - (Delay[at] - left)
    [] does = "hold" -> left + Before(Turn(at), c)

\* What has passed since the edge and what is still to come.
Timely ==
  \A c \in Channel : waited[c] # NotWaiting => waited[c] + Owed(c) + Delay[c] <= Answers[N]

Timed ==
  /\ does \in {"test", "take"} => left = 0
  /\ does = "wait" => left <= Delay[at]
  /\ does = "hold" => left <= 1 /\ known = {}

\* main has not passed over a channel that has waited for any time: time passes
\* in busy waits, after which main has forgotten the zeros it had loaded.
Noticed ==
  \A c \in Channel : waited[c] # NotWaiting /\ waited[c] # 0 =>
    /\ flag[c] \/ Taken(c)
    /\ does \in {"test", "take"} => c \notin known

TimeInv == Timely /\ Timed /\ Noticed

LEMMA InitTimely == Init => TimeInv
<1> SUFFICES ASSUME Init PROVE TimeInv
  OBVIOUS
<1>1. ASSUME NEW c \in Channel PROVE waited[c] \in {0, NotWaiting}
  BY DEF Init
<1>2. Timed /\ Noticed
  BY <1>1 DEF Init, Timed, Noticed
<1>3. Timely
  <2> SUFFICES ASSUME NEW c \in Channel, waited[c] # NotWaiting
               PROVE  waited[c] + Owed(c) + Delay[c] <= Answers[N]
    BY DEF Timely
  <2>1. waited[c] = 0 /\ Owed(c) = Before(1, c)
    BY <1>1 DEF Init, Owed
  <2>2. Before(1, c) \in Nat /\ Before(1, c) + Delay[c] + 1 <= Answers[N]
    BY Turns, BeforeIs
  <2>3. Delay[c] \in Nat /\ Answers[N] \in Nat
    BY Turns, AnswersIs, InterruptAssumption
  <2>4. QED
    BY <2>1, <2>2, <2>3
<1>4. QED
  BY <1>2, <1>3 DEF TimeInv

\* Wherever main is, it owes no more than one round to an edge of this moment.
LEMMA OwedIs ==
  ASSUME TypeOK, Timed, NEW c \in Channel
  PROVE  /\ Delay[c] \in Nat /\ Answers[N] \in Nat /\ Owed(c) \in Int
         /\ Owed(c) + Delay[c] >= 0 /\ Owed(c) + Delay[c] <= Answers[N]
<1>1. /\ at \in Channel /\ left \in Nat /\ Delay[c] \in Nat /\ Delay[at] \in Nat
      /\ Answers[N] \in Nat /\ Turn(at) \in Channel
  <2>1. at \in Channel /\ left \in Nat
    BY DEF TypeOK
  <2>2. Answers[N] \in Nat
    BY AnswersIs, InterruptAssumption
  <2>3. QED
    BY <2>1, <2>2, Turns, BeforeIs
<1>2. /\ Before(at, c) \in Nat /\ Before(at, c) + Delay[c] + 1 <= Answers[N]
      /\ at # c => Before(at, c) >= Delay[at]
      /\ at = c => Before(at, c) = 0
  <2>1. Before(Turn(at), c) \in Nat
    BY <1>1, BeforeIs
  <2>2. QED
    BY <1>1, <2>1, BeforeIs
<1>3. Before(Turn(at), c) \in Nat /\ Before(Turn(at), c) + Delay[c] + 1 <= Answers[N]
  BY <1>1, BeforeIs
<1>4. CASE does \in {"test", "take"}
  BY <1>1, <1>2, <1>4 DEF Owed
<1>5. CASE does = "wait"
  <2>1. left <= Delay[at] /\ Owed(c) = Before(at, c) - (Delay[at] - left)
    BY <1>5 DEF Timed, Owed
  <2>2. CASE at = c
    BY <1>1, <1>2, <2>1, <2>2
  <2>3. CASE at # c
    BY <1>1, <1>2, <2>1, <2>3
  <2>4. QED
    BY <2>2, <2>3
<1>6. CASE does = "hold"
  BY <1>1, <1>3, <1>6 DEF Timed, Owed
<1>7. QED
  BY <1>4, <1>5, <1>6 DEF TypeOK

\* The same after the step.
LEMMA OwedIsNext ==
  TypeOK' /\ Timed' =>
    \A c \in Channel : Owed(c)' \in Int /\ (Owed(c) + Delay[c])' <= Answers[N]
<1> DEFINE Bounded == \A c \in Channel : Owed(c) \in Int /\ Owed(c) + Delay[c] <= Answers[N]
<1>1. TypeOK /\ Timed => Bounded
  BY OwedIs
<1> HIDE DEF Bounded
<1>2. TypeOK' /\ Timed' => Bounded'
  BY <1>1, PTL
<1>3. QED
  BY <1>2 DEF Bounded

LEMMA NextTimely == IInv /\ TimeInv /\ [Next]_vars => TimeInv'
<1> SUFFICES ASSUME IInv, TimeInv, [Next]_vars PROVE TimeInv'
  OBVIOUS
<1>1. TypeOK /\ Timed /\ TypeOK'
  BY NextIInv DEF IInv, TimeInv
\* It is enough to look at the channels whose edge has not been answered.
<1>2. ASSUME Timed', Noticed',
             \A c \in Channel : waited'[c] # NotWaiting =>
               \/ waited'[c] = 0
               \/ waited[c] # NotWaiting /\ waited'[c] + Owed(c)' <= waited[c] + Owed(c)
      PROVE  TimeInv'
  <2> SUFFICES ASSUME NEW c \in Channel, waited'[c] # NotWaiting
               PROVE  waited'[c] + Owed(c)' + Delay[c] <= Answers[N]
    BY <1>2 DEF TimeInv, Timely
  <2>1. /\ Owed(c)' \in Int /\ Owed(c)' + Delay[c] <= Answers[N]
        /\ Owed(c) \in Int /\ Delay[c] \in Nat /\ Answers[N] \in Nat
    BY <1>1, <1>2, OwedIs, OwedIsNext
  <2>2. waited'[c] \in Nat
    BY <1>1 DEF TypeOK
  <2>3. waited[c] # NotWaiting => waited[c] \in Nat /\ waited[c] + Owed(c) + Delay[c] <= Answers[N]
    BY <1>1 DEF TypeOK, TimeInv, Timely
  <2>4. CASE waited'[c] = 0
    BY <2>1, <2>4
  <2>5. CASE waited[c] # NotWaiting /\ waited'[c] + Owed(c)' <= waited[c] + Owed(c)
    BY <2>1, <2>2, <2>3, <2>5
  <2>6. QED
    BY <1>2, <2>4, <2>5
<1> USE DEF isr, main, tester
\* A step that leaves main and the times alone.
<1>3. ASSUME UNCHANGED <<main, waited>>, \A c \in Channel : flag[c] => flag'[c]
      PROVE  TimeInv'
  <2>1. Timed' /\ Noticed'
    BY <1>3 DEF TimeInv, Timed, Noticed, Taken
  <2>2. \A c \in Channel : Owed(c)' = Owed(c)
    BY <1>3 DEF Owed
  <2>3. \A c \in Channel : waited'[c] # NotWaiting =>
          waited[c] # NotWaiting /\ waited'[c] + Owed(c)' <= waited[c] + Owed(c)
    <3>1. \A c \in Channel : waited[c] \in Int /\ Owed(c) \in Int
      BY <1>1, OwedIs DEF TypeOK, NotWaiting
    <3>2. QED
      BY <1>3, <2>2, <3>1
  <2>4. QED
    BY <1>2, <2>1, <2>3
<1>4. ASSUME NEW c \in Channel, Edge(c) PROVE TimeInv'
  <2>1. /\ UNCHANGED <<main, flag>>
        /\ \A d \in Channel : waited'[d] = waited[d] \/ waited'[d] = 0
    BY <1>1, <1>4 DEF Edge, TypeOK
  <2>2. Timed' /\ Noticed'
    BY <2>1 DEF TimeInv, Timed, Noticed, Taken
  <2>3. \A d \in Channel : Owed(d)' = Owed(d) /\ waited[d] \in Int /\ Owed(d) \in Int
    BY <1>1, <2>1, OwedIs DEF Owed, TypeOK, NotWaiting
  <2>4. QED
    BY <1>2, <2>1, <2>2, <2>3
<1>5. CASE Isr
  <2>1. CASE Interrupt
    BY <1>3, <2>1 DEF Interrupt
  <2>2. ASSUME NEW c \in Channel, IsrTest(c) PROVE TimeInv'
    BY <1>3, <2>2 DEF IsrTest
  <2>3. ASSUME NEW c \in Channel, IsrSet(c) PROVE TimeInv'
    <3>1. \A d \in Channel : flag[d] => flag'[d]
      BY <1>1, <2>3 DEF IsrSet, TypeOK
    <3>2. QED
      BY <1>3, <2>3, <3>1 DEF IsrSet
  <2>4. ASSUME NEW c \in Channel, IsrClear(c) PROVE TimeInv'
    BY <1>3, <2>4 DEF IsrClear
  <2>5. QED
    BY <1>5, <2>1, <2>2, <2>3, <2>4 DEF Isr
<1>6. ASSUME NEW c \in Channel, Test(c) PROVE TimeInv'
  <2>1. at = c /\ does = "test" /\ left = 0 /\ left' = 0 /\ UNCHANGED <<flag, waited>>
    BY <1>6 DEF Test, InMain, TimeInv, Timed
  <2>2. CASE flag[c] /\ c \notin known
    <3>1. does' = "take" /\ UNCHANGED <<at, known>>
      BY <1>6, <2>2 DEF Test
    <3>2. Timed' /\ Noticed'
      BY <2>1, <3>1 DEF TimeInv, Timed, Noticed, Taken
    <3>3. \A d \in Channel : Owed(d)' = Owed(d) /\ waited[d] \in Int /\ Owed(d) \in Int
      BY <1>1, <2>1, <3>1, OwedIs DEF Owed, TypeOK, NotWaiting
    <3>4. QED
      BY <1>2, <2>1, <3>2, <3>3
  <2>3. CASE ~ (flag[c] /\ c \notin known)
    <3>1. at' = Turn(c) /\ does' = "test" /\ known' \subseteq known \cup {c}
      BY <1>6, <2>3 DEF Test, GoOn, Turn
    <3>2. waited[c] # NotWaiting => waited[c] = 0
      BY <2>1, <2>3 DEF TimeInv, Noticed, Taken
    <3>3. Timed' /\ Noticed'
      BY <2>1, <3>1, <3>2 DEF TimeInv, Timed, Noticed, Taken
    <3>4. ASSUME NEW d \in Channel, waited'[d] # NotWaiting, waited'[d] # 0
          PROVE  waited[d] # NotWaiting /\ waited'[d] + Owed(d)' <= waited[d] + Owed(d)
      <4>1. d # c /\ waited'[d] = waited[d]
        BY <2>1, <3>2, <3>4
      <4>2. Owed(d) = Before(c, d) /\ Owed(d)' = Before(Turn(c), d)
        BY <2>1, <3>1 DEF Owed
      <4>3. /\ Before(c, d) = Before(Turn(c), d) + Delay[c] + 1
            /\ Before(Turn(c), d) \in Nat /\ Before(c, d) \in Nat
        BY <4>1, BeforeIs
      <4>4. waited[d] \in Int /\ Delay[c] \in Nat
        BY <1>1, Turns DEF TypeOK, NotWaiting
      <4>5. QED
        BY <3>4, <4>1, <4>2, <4>3, <4>4
    <3>5. QED
      BY <1>2, <3>3, <3>4
  <2>4. QED
    BY <2>2, <2>3
<1>7. ASSUME NEW c \in Channel, Take(c) PROVE TimeInv'
  <2>1. /\ at = c /\ does = "take" /\ does' = "wait" /\ left' = Delay[c] /\ Delay[c] \in Nat
        /\ UNCHANGED <<at, known, waited>> /\ \A d \in Channel \ {c} : flag'[d] = flag[d]
    BY <1>1, <1>7, Turns DEF Take, InMain, TypeOK
  <2>2. Timed' /\ Noticed'
    BY <2>1 DEF TimeInv, Timed, Noticed, Taken
  <2>3. \A d \in Channel : Owed(d)' = Owed(d) /\ waited[d] \in Int /\ Owed(d) \in Int
    <3> SUFFICES ASSUME NEW d \in Channel
                 PROVE  Owed(d)' = Owed(d) /\ waited[d] \in Int /\ Owed(d) \in Int
      OBVIOUS
    <3>1. Owed(d) = Before(c, d) /\ Owed(d)' = Before(c, d) - (Delay[c] - Delay[c])
      BY <2>1 DEF Owed
    <3>2. Before(c, d) \in Nat /\ waited[d] \in Int
      BY <1>1, BeforeIs DEF TypeOK, NotWaiting
    <3>3. QED
      BY <2>1, <3>1, <3>2
  <2>4. QED
    BY <1>2, <2>1, <2>2, <2>3
<1>8. ASSUME NEW c \in Channel, SetLow(c) PROVE TimeInv'
  <2>1. /\ at = c /\ does = "wait" /\ left = 0 /\ does' = "hold" /\ left' = 1 /\ known' = {}
        /\ UNCHANGED <<at, flag>> /\ waited'[c] = NotWaiting
        /\ \A d \in Channel \ {c} : waited'[d] = waited[d]
    BY <1>1, <1>8 DEF SetLow, InMain, TypeOK
  <2>2. Timed' /\ Noticed'
    BY <2>1 DEF TimeInv, Timed, Noticed, Taken
  <2>3. ASSUME NEW d \in Channel, waited'[d] # NotWaiting
        PROVE  waited[d] # NotWaiting /\ waited'[d] + Owed(d)' <= waited[d] + Owed(d)
    <3>1. d # c /\ waited'[d] = waited[d]
      BY <2>1, <2>3
    <3>2. Owed(d) = Before(c, d) - (Delay[c] - 0) /\ Owed(d)' = 1 + Before(Turn(c), d)
      BY <2>1 DEF Owed
    <3>3. /\ Before(c, d) = Before(Turn(c), d) + Delay[c] + 1 /\ Turn(c) \in Channel
          /\ Before(c, d) \in Nat
      BY <3>1, BeforeIs
    <3>4. Before(Turn(c), d) \in Nat /\ waited[d] \in Int /\ Delay[c] \in Nat
      <4>1. PICK t \in Channel : t = Turn(c)
        BY <3>3
      <4>2. Before(t, d) \in Nat
        BY BeforeIs
      <4>3. QED
        BY <1>1, <4>1, <4>2, Turns DEF TypeOK, NotWaiting
    <3>5. QED
      BY <2>3, <3>1, <3>2, <3>3, <3>4
  <2>4. QED
    BY <1>2, <2>2, <2>3
<1>9. ASSUME NEW c \in Channel, SetHigh(c) PROVE TimeInv'
  <2>1. /\ at = c /\ does = "hold" /\ left = 0 /\ does' = "test" /\ at' = Turn(c)
        /\ UNCHANGED <<left, flag, known, waited>>
    BY <1>9 DEF SetHigh, InMain, GoOn, Turn
  <2>2. Timed' /\ Noticed'
    BY <2>1 DEF TimeInv, Timed, Noticed, Taken
  <2>3. \A d \in Channel : Owed(d)' = Owed(d) /\ waited[d] \in Int /\ Owed(d) \in Int
    <3> SUFFICES ASSUME NEW d \in Channel
                 PROVE  Owed(d)' = Owed(d) /\ waited[d] \in Int /\ Owed(d) \in Int
      OBVIOUS
    <3>1. Owed(d) = 0 + Before(Turn(c), d) /\ Owed(d)' = Before(Turn(c), d)
      BY <2>1 DEF Owed
    <3>2. Before(Turn(c), d) \in Nat /\ waited[d] \in Int
      BY <1>1, BeforeIs DEF TypeOK, NotWaiting
    <3>3. QED
      BY <3>1, <3>2
  <2>4. QED
    BY <1>2, <2>1, <2>2, <2>3
<1>10. CASE Tick
  <2>1. /\ left > 0 /\ left' = left - 1 /\ UNCHANGED <<at, does, known, flag>>
        /\ \A d \in Channel : waited'[d] = IF waited[d] = NotWaiting THEN NotWaiting
                                           ELSE waited[d] + 1
    BY <1>10 DEF Tick
  <2>2. left \in Nat /\ at \in Channel /\ Delay[at] \in Nat /\ does \in {"wait", "hold"}
    BY <1>1, <2>1, Turns DEF TypeOK, Timed
  <2>3. \A d \in Channel : waited[d] # NotWaiting => flag[d] \/ Taken(d)
    BY <1>10 DEF Tick, IInv, NoEdgeForgotten
  <2>4. Timed' /\ Noticed'
    BY <2>1, <2>2, <2>3 DEF TimeInv, Timed, Noticed, Taken
  <2>5. ASSUME NEW d \in Channel, waited'[d] # NotWaiting
        PROVE  waited[d] # NotWaiting /\ waited'[d] + Owed(d)' <= waited[d] + Owed(d)
    <3>1. waited[d] # NotWaiting /\ waited[d] \in Nat /\ waited'[d] = waited[d] + 1
      BY <1>1, <2>1, <2>5 DEF TypeOK
    <3>2. Before(at, d) \in Nat /\ Before(Turn(at), d) \in Nat
      BY <2>2, BeforeIs
    <3>3. CASE does = "wait"
      <4>1. /\ Owed(d) = Before(at, d) - (Delay[at] - left)
            /\ Owed(d)' = Before(at, d) - (Delay[at] - (left - 1))
        BY <2>1, <3>3 DEF Owed
      <4>2. QED
        BY <2>2, <3>1, <3>2, <4>1
    <3>4. CASE does = "hold"
      <4>1. Owed(d) = left + Before(Turn(at), d) /\ Owed(d)' = left - 1 + Before(Turn(at), d)
        BY <2>1, <3>4 DEF Owed
      <4>2. QED
        BY <2>2, <3>1, <3>2, <4>1
    <3>5. QED
      BY <2>2, <3>3, <3>4
  <2>6. QED
    BY <1>2, <2>4, <2>5
<1>11. CASE UNCHANGED vars
  BY <1>3, <1>11 DEF vars
<1>12. QED
  BY <1>4, <1>5, <1>6, <1>7, <1>8, <1>9, <1>10, <1>11 DEF Next, Main

\* An answer comes after one answer of every channel at latest, whatever the
\* pins, their busy waits and the build (main.c:149-178): an edge never waits
\* for two answers of the same channel.
THEOREM AnswersAreTimely == Spec => []AnsweredInTime
<1>1. IInv /\ TimeInv => AnsweredInTime
  <2> SUFFICES ASSUME IInv, TimeInv, NEW c \in Channel PROVE waited[c] <= Answers[N]
    BY DEF AnsweredInTime
  <2>1. /\ Delay[c] \in Nat /\ Answers[N] \in Nat /\ Owed(c) \in Int
        /\ Owed(c) + Delay[c] >= 0
    BY OwedIs DEF IInv, TimeInv
  <2>2. waited[c] \in Nat \cup {NotWaiting}
    BY DEF IInv, TypeOK
  <2>3. waited[c] # NotWaiting => waited[c] + Owed(c) + Delay[c] <= Answers[N]
    BY DEF TimeInv, Timely
  <2>4. QED
    BY <2>1, <2>2, <2>3 DEF NotWaiting
<1>2. QED
  BY <1>1, InitIInv, NextIInv, InitTimely, NextTimely, PTL DEF Spec

=============================================================================
