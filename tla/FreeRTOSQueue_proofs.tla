------------------------ MODULE FreeRTOSQueue_proofs ------------------------
(***************************************************************************)
(* For any queues, tasks and calls: whatever steps of tasks and handlers   *)
(* interleave, each queue is a bounded queue, locks and mutexes are kept,  *)
(* no wake-up is lost, calls fail in time, and the holder of a mutex runs  *)
(* at the priority of those who wait for it.                               *)
(***************************************************************************)
EXTENDS FreeRTOSQueue, FreeRTOSKernel_proofs, SequenceTheorems, TLAPS

\* Sequences as functions: what the operators of Sequences do to them.
LEMMA IsSeq ==
  ASSUME NEW n \in Nat, NEW S, NEW f \in [1 .. n -> S]
  PROVE  f \in Seq(S) /\ Len(f) = n
OBVIOUS

\* An item at the end.
LEMMA AppendIs ==
  ASSUME NEW n \in Nat, NEW S, NEW f \in [1 .. n -> S], NEW x \in S
  PROVE  Append(f, x) = [i \in 1 .. n + 1 |-> IF i = n + 1 THEN x ELSE f[i]]
<1>1. f \in Seq(S) /\ Len(f) = n
  BY IsSeq
<1>2. Append(f, x) \in Seq(S) /\ Len(Append(f, x)) = n + 1
  BY <1>1, AppendProperties
<1>3. DOMAIN Append(f, x) = 1 .. n + 1
  BY <1>2, LenProperties
<1>4. \A i \in 1 .. n + 1 : Append(f, x)[i] = IF i = n + 1 THEN x ELSE f[i]
  BY <1>1, AppendProperties
<1>5. Append(f, x) = [i \in 1 .. n + 1 |-> Append(f, x)[i]]
  BY <1>2, <1>3, LenProperties
<1>6. QED
  BY <1>4, <1>5, Zenon

\* An item at the front.
LEMMA ConsIs ==
  ASSUME NEW n \in Nat, NEW S, NEW f \in [1 .. n -> S], NEW x \in S
  PROVE  <<x>> \o f = [i \in 1 .. n + 1 |-> IF i = 1 THEN x ELSE f[i - 1]]
<1>1. f \in Seq(S) /\ Len(f) = n /\ <<x>> \in Seq(S) /\ Len(<<x>>) = 1 /\ <<x>>[1] = x
  BY IsSeq
<1> DEFINE g == <<x>> \o f
<1>2. /\ g \in Seq(S) /\ Len(g) = n + 1
      /\ \A i \in 1 .. n + 1 : g[i] = IF i <= 1 THEN <<x>>[i] ELSE f[i - 1]
  BY <1>1, ConcatProperties
<1>3. g = [i \in 1 .. n + 1 |-> g[i]]
  BY <1>2, LenProperties
<1>4. \A i \in 1 .. n + 1 : g[i] = IF i = 1 THEN x ELSE f[i - 1]
  BY <1>1, <1>2
<1>5. QED
  BY <1>4, <1>3, Zenon

\* The first item taken away.
LEMMA TailIs ==
  ASSUME NEW n \in Nat \ {0}, NEW S, NEW f \in [1 .. n -> S]
  PROVE  f # <<>> /\ Tail(f) = [i \in 1 .. n - 1 |-> f[i + 1]]
<1>1. f \in Seq(S) /\ Len(f) = n /\ f # <<>>
  BY IsSeq
<1>2. Tail(f) \in Seq(S) /\ Len(Tail(f)) = n - 1 /\ \A i \in 1 .. n - 1 : Tail(f)[i] = f[i + 1]
  BY <1>1, HeadTailProperties
<1>3. Tail(f) = [i \in 1 .. n - 1 |-> Tail(f)[i]]
  BY <1>2, LenProperties
<1>4. QED
  BY <1>1, <1>2, <1>3, Zenon

-----------------------------------------------------------------------------

RingInv == TypeOK /\ IndicesAgree

\* An index into the ring, twice around at most.
LEMMA RingIs ==
  ASSUME NEW q \in Queue
  PROVE  /\ Length[q] \in Nat \ {0}
         /\ \A i \in 0 .. 2 * Length[q] :
              Ring(q, i) = IF i < Length[q] THEN i
                           ELSE IF i < 2 * Length[q] THEN i - Length[q] ELSE 0
<1>1. Length[q] \in Nat \ {0}
  BY QueueAssumption
<1>2. ASSUME NEW L \in Nat \ {0}, NEW i \in 0 .. L - 1 PROVE i % L = i
  OBVIOUS
<1>3. ASSUME NEW L \in Nat \ {0}, NEW i \in L .. 2 * L - 1 PROVE i % L = i - L
  OBVIOUS
<1>4. ASSUME NEW L \in Nat \ {0} PROVE (2 * L) % L = 0
  OBVIOUS
<1>5. QED
  BY <1>1, <1>2, <1>3, <1>4 DEF Ring

\* Steps round the ring from an index f in it.
LEMMA RingMoves ==
  ASSUME NEW q \in Queue, NEW f \in 0 .. Length[q] - 1
  PROVE  /\ Ring(q, f) = f
         /\ Ring(q, f - 1 + Length[q]) \in 0 .. Length[q] - 1
         /\ \A i \in 0 .. Length[q] :
              /\ Ring(q, f + i) \in 0 .. Length[q] - 1
              /\ Ring(q, Ring(q, f + i) + 1) = Ring(q, f + (i + 1))
              /\ Ring(q, Ring(q, f + 1) + i) = Ring(q, f + (i + 1))
         /\ \A i \in 1 .. Length[q] + 1 :
              Ring(q, Ring(q, f - 1 + Length[q]) + i) = Ring(q, f + (i - 1))
         /\ \A i, j \in 0 .. Length[q] :
              i < j /\ j - i < Length[q] => Ring(q, f + i) # Ring(q, f + j)
<1>1. PICK L \in Nat \ {0} : L = Length[q]
  BY RingIs
<1>2. \A i \in 0 .. 2 * L : Ring(q, i) = IF i < L THEN i ELSE IF i < 2 * L THEN i - L ELSE 0
  BY <1>1, RingIs
<1>3. /\ f \in 0 .. L - 1 /\ f \in 0 .. 2 * L /\ f - 1 + L \in 0 .. 2 * L
      /\ \A i \in 0 .. L : f + i \in 0 .. 2 * L /\ f + (i + 1) \in 0 .. 2 * L
  BY <1>1
<1>4. Ring(q, f) = f /\ Ring(q, f - 1 + L) = IF f = 0 THEN L - 1 ELSE f - 1
  BY <1>2, <1>3
<1>5. \A i \in 0 .. L : Ring(q, f + i) = IF f + i < L THEN f + i
                                         ELSE IF f + i < 2 * L THEN f + i - L ELSE 0
  BY <1>2, <1>3
<1>6. ASSUME NEW i \in 0 .. L
      PROVE  /\ Ring(q, Ring(q, f + i) + 1) = Ring(q, f + (i + 1))
             /\ Ring(q, Ring(q, f + 1) + i) = Ring(q, f + (i + 1))
  <2>1. Ring(q, f + (i + 1)) = IF f + (i + 1) < L THEN f + (i + 1)
                               ELSE IF f + (i + 1) < 2 * L THEN f + (i + 1) - L ELSE 0
    BY <1>2, <1>3
  <2>2. ASSUME NEW n \in 0 .. L - 1, NEW m \in 0 .. L
        PROVE  Ring(q, n + m) = IF n + m < L THEN n + m
                                ELSE IF n + m < 2 * L THEN n + m - L ELSE 0
    BY <1>2
  <2>3. 1 \in 0 .. L
    OBVIOUS
  <2>4. Ring(q, f + 1) = IF f + 1 < L THEN f + 1 ELSE f + 1 - L
    BY <1>3, <1>5, <2>3
  <2>5. Ring(q, f + i) \in 0 .. L - 1 /\ Ring(q, f + 1) \in 0 .. L - 1
    BY <1>3, <1>5, <2>4
  <2>6. Ring(q, Ring(q, f + i) + 1) = Ring(q, f + (i + 1))
    BY <1>3, <1>5, <2>1, <2>2, <2>3, <2>5
  <2>7. Ring(q, Ring(q, f + 1) + i) = Ring(q, f + (i + 1))
    BY <1>3, <2>1, <2>2, <2>4, <2>5
  <2>8. QED
    BY <2>6, <2>7
<1>7. ASSUME NEW i \in 1 .. L + 1
      PROVE  Ring(q, Ring(q, f - 1 + L) + i) = Ring(q, f + (i - 1))
  <2>1. i - 1 \in 0 .. L
    OBVIOUS
  <2>2. CASE f = 0
    <3>1. L - 1 + i \in 0 .. 2 * L
      OBVIOUS
    <3>2. QED
      BY <1>2, <1>4, <1>5, <2>1, <2>2, <3>1
  <2>3. CASE f # 0
    <3>1. f - 1 + i = f + (i - 1)
      BY <1>3
    <3>2. QED
      BY <1>4, <2>3, <3>1
  <2>4. QED
    BY <2>2, <2>3
<1>8. ASSUME NEW i \in 0 .. L, NEW j \in 0 .. L, i < j, j - i < L
      PROVE  Ring(q, f + i) # Ring(q, f + j)
  BY <1>3, <1>5, <1>8
<1>9. \A i \in 0 .. L : Ring(q, f + i) \in 0 .. L - 1
  BY <1>3, <1>5
<1>10. Ring(q, f - 1 + L) \in 0 .. L - 1
  BY <1>3, <1>4
<1>11. QED
  BY <1>1, <1>4, <1>6, <1>7, <1>8, <1>9, <1>10

\* The c items of b after index f, walked round the ring.
Walk(q, b, f, c) == [i \in 1 .. c |-> b[Ring(q, f + i)]]

LEMMA WalkIs ==
  ASSUME NEW q \in Queue, NEW S, NEW b \in [0 .. Length[q] - 1 -> S],
         NEW f \in 0 .. Length[q] - 1, NEW c \in 0 .. Length[q]
  PROVE  Walk(q, b, f, c) \in [1 .. c -> S]
<1>1. \A i \in 1 .. c : Ring(q, f + i) \in 0 .. Length[q] - 1
  BY RingIs, RingMoves, 1 .. c \subseteq 0 .. Length[q]
<1>2. QED
  BY <1>1 DEF Walk

\* An item put before them.
LEMMA WalkFront ==
  ASSUME NEW q \in Queue, NEW S, NEW b \in [0 .. Length[q] - 1 -> S], NEW x \in S,
         NEW f \in 0 .. Length[q] - 1, NEW c \in 0 .. Length[q] - 1
  PROVE  LET g == Ring(q, f - 1 + Length[q])
         IN  /\ Ring(q, g + 1 + (c + 1)) = Ring(q, f + 1 + c)
             /\ Walk(q, [b EXCEPT ![f] = x], g, c + 1) = <<x>> \o Walk(q, b, f, c)
<1> DEFINE g == Ring(q, f - 1 + Length[q])
           d == [b EXCEPT ![f] = x]
<1>1. PICK L \in Nat \ {0} : L = Length[q]
  BY RingIs
<1>2. g \in 0 .. L - 1 /\ \A i \in 1 .. L + 1 : Ring(q, g + i) = Ring(q, f + (i - 1))
  BY <1>1, RingMoves
<1> HIDE DEF g
<1>3. Ring(q, g + 1 + (c + 1)) = Ring(q, f + 1 + c)
  <2>1. PICK n \in 1 .. L + 1 : n = c + 2
    BY <1>1
  <2>2. g + n = g + 1 + (c + 1) /\ f + (n - 1) = f + 1 + c
    BY <1>1, <1>2, <2>1
  <2>3. Ring(q, g + n) = Ring(q, f + (n - 1))
    BY <1>2
  <2>4. QED
    BY <2>2, <2>3
<1>4. ASSUME NEW i \in 1 .. c + 1
      PROVE  d[Ring(q, g + i)] = IF i = 1 THEN x ELSE Walk(q, b, f, c)[i - 1]
  <2>1. i \in 1 .. L + 1 /\ i - 1 \in 0 .. L /\ 0 \in 0 .. L /\ f + 0 = f
    BY <1>1
  <2>2. Ring(q, g + i) = Ring(q, f + (i - 1)) /\ Ring(q, f) = f
    BY <1>2, <2>1, RingMoves
  <2>3. CASE i = 1
    BY <1>1, <2>1, <2>2, <2>3
  <2>4. CASE i # 1
    <3>1. i - 1 \in 1 .. c /\ 0 < i - 1 /\ i - 1 - 0 < L
      BY <1>1, <2>4
    <3>2. Ring(q, f + (i - 1)) # f /\ Ring(q, f + (i - 1)) \in 0 .. L - 1
      BY <1>1, <2>1, <2>2, <3>1, RingMoves
    <3>3. d[Ring(q, f + (i - 1))] = b[Ring(q, f + (i - 1))]
      BY <1>1, <3>2
    <3>4. Walk(q, b, f, c)[i - 1] = b[Ring(q, f + (i - 1))]
      BY <3>1 DEF Walk
    <3>5. QED
      BY <2>2, <2>4, <3>3, <3>4
  <2>5. QED
    BY <2>3, <2>4
<1>5. Walk(q, d, g, c + 1) = [i \in 1 .. c + 1 |-> IF i = 1 THEN x ELSE Walk(q, b, f, c)[i - 1]]
  BY <1>4 DEF Walk
<1>6. c \in Nat /\ c \in 0 .. Length[q]
  BY <1>1
<1>7. Walk(q, b, f, c) \in [1 .. c -> S]
  BY <1>6, WalkIs
<1>8. <<x>> \o Walk(q, b, f, c)
        = [i \in 1 .. c + 1 |-> IF i = 1 THEN x ELSE Walk(q, b, f, c)[i - 1]]
  BY <1>6, <1>7, ConsIs
<1>9. QED
  BY <1>3, <1>5, <1>8 DEF g

\* The first of them taken away.
LEMMA WalkTail ==
  ASSUME NEW q \in Queue, NEW S, NEW b \in [0 .. Length[q] - 1 -> S],
         NEW f \in 0 .. Length[q] - 1, NEW c \in 1 .. Length[q]
  PROVE  LET g == Ring(q, f + 1)
         IN  /\ g \in 0 .. Length[q] - 1
             /\ Ring(q, g + 1 + (c - 1)) = Ring(q, f + 1 + c)
             /\ Walk(q, b, f, c) # <<>>
             /\ Walk(q, b, g, c - 1) = Tail(Walk(q, b, f, c))
<1> DEFINE g == Ring(q, f + 1)
<1>1. PICK L \in Nat \ {0} : L = Length[q]
  BY RingIs
<1>2. g \in 0 .. L - 1 /\ \A i \in 0 .. L : Ring(q, g + i) = Ring(q, f + (i + 1))
  BY <1>1, RingMoves, 1 \in 0 .. L
<1> HIDE DEF g
<1>3. Ring(q, g + 1 + (c - 1)) = Ring(q, f + 1 + c)
  <2>1. c \in 0 .. L /\ g + 1 + (c - 1) = g + c /\ f + 1 + c = f + (c + 1)
    BY <1>1, <1>2
  <2>2. QED
    BY <1>2, <2>1
<1>4. Walk(q, b, g, c - 1) = [i \in 1 .. c - 1 |-> Walk(q, b, f, c)[i + 1]]
  <2>1. ASSUME NEW i \in 1 .. c - 1 PROVE b[Ring(q, g + i)] = Walk(q, b, f, c)[i + 1]
    <3>1. i \in 0 .. L /\ i + 1 \in 1 .. c
      BY <1>1
    <3>2. QED
      BY <1>2, <3>1 DEF Walk
  <2>2. QED
    BY <2>1 DEF Walk
<1>5. c \in Nat \ {0} /\ c \in 0 .. Length[q]
  BY <1>1
<1>6. Walk(q, b, f, c) \in [1 .. c -> S]
  BY <1>5, WalkIs
<1>7. /\ Walk(q, b, f, c) # <<>>
      /\ Tail(Walk(q, b, f, c)) = [i \in 1 .. c - 1 |-> Walk(q, b, f, c)[i + 1]]
  <2>1. PICK n \in Nat \ {0} : n = c
    BY <1>5
  <2>2. PICK e \in [1 .. n -> S] : e = Walk(q, b, f, c)
    BY <2>1, <1>6
  <2>3. e # <<>> /\ Tail(e) = [i \in 1 .. n - 1 |-> e[i + 1]]
    <3>1. \A d \in [1 .. n -> S] : d # <<>> /\ Tail(d) = [i \in 1 .. n - 1 |-> d[i + 1]]
      BY TailIs, Zenon
    <3>2. QED
      BY <3>1
  <2>4. QED
    BY <2>1, <2>2, <2>3
<1>8. QED
  BY <1>1, <1>2, <1>3, <1>4, <1>7 DEF g

-----------------------------------------------------------------------------

\* What a queue is on its own: of its type, and with indices that agree.
IsQueue(q, r) ==
  /\ r \in QueueRecord(q)
  /\ Kind[q] = "data" => r.writeTo = Ring(q, r.readFrom + 1 + r.count)

LEMMA QueueFields ==
  ASSUME NEW q \in Queue, NEW r, IsQueue(q, r)
  PROVE  /\ r.count \in 0 .. Length[q]
         /\ r.readFrom \in 0 .. Length[q] - 1 /\ r.writeTo \in 0 .. Length[q] - 1
         /\ r.buffer \in [0 .. Length[q] - 1 -> Item[q] \cup {NoItem}]
         /\ r.holder \in Task \cup {NoTask} /\ r.depth \in Nat
         /\ r.rxLock \in {Unlocked} \cup Nat /\ r.txLock \in {Unlocked} \cup Nat
         /\ r = [count |-> r.count, buffer |-> r.buffer, writeTo |-> r.writeTo,
                 readFrom |-> r.readFrom, holder |-> r.holder, depth |-> r.depth,
                 rxLock |-> r.rxLock, txLock |-> r.txLock]
BY DEF IsQueue, QueueRecord

\* Its items: those of the ring, or nothing but a number of them.
LEMMA ItemsAre ==
  ASSUME NEW q \in Queue, NEW r, IsQueue(q, r)
  PROVE  /\ Kind[q] = "data" => ItemsOf(q, r) = Walk(q, r.buffer, r.readFrom, r.count)
         /\ Kind[q] # "data" => ItemsOf(q, r) = [i \in 1 .. r.count |-> NoItem]
         /\ ItemsOf(q, r) \in [1 .. r.count -> Item[q] \cup {NoItem}]
<1>1. Kind[q] = "data" => ItemsOf(q, r) = Walk(q, r.buffer, r.readFrom, r.count)
  BY DEF ItemsOf, Walk
<1>2. Kind[q] # "data" => ItemsOf(q, r) = [i \in 1 .. r.count |-> NoItem]
  BY DEF ItemsOf
<1>3. Kind[q] = "data" => ItemsOf(q, r) \in [1 .. r.count -> Item[q] \cup {NoItem}]
  <2>1. /\ r.count \in 0 .. Length[q] /\ r.readFrom \in 0 .. Length[q] - 1
        /\ r.buffer \in [0 .. Length[q] - 1 -> Item[q] \cup {NoItem}]
    BY QueueFields
  <2>2. Walk(q, r.buffer, r.readFrom, r.count) \in [1 .. r.count -> Item[q] \cup {NoItem}]
    BY <2>1, WalkIs
  <2>3. QED
    BY <1>1, <2>2
<1>4. QED
  BY <1>1, <1>2, <1>3

\* An item put into a queue that is not full is its first or its last.
LEMMA PutIs ==
  ASSUME NEW q \in Queue, IsQueue(q, queue[q]), queue[q].count # Length[q],
         NEW x \in Item[q], NEW front \in BOOLEAN
  PROVE  LET s == CopyTo(q, x, front)
         IN  /\ IsQueue(q, s)
             /\ ItemsOf(q, s) = IF front THEN <<x>> \o Contents(q) ELSE Append(Contents(q), x)
<1> DEFINE r == queue[q]
           L == Length[q]
           s == CopyTo(q, x, front)
           S == Item[q] \cup {NoItem}
           c == r.count
           f == r.readFrom
           w == r.writeTo
           b == r.buffer
           h == r.holder
           d == r.depth
           rx == r.rxLock
           tx == r.txLock
<1>1. /\ c \in 0 .. L - 1 /\ f \in 0 .. L - 1 /\ w \in 0 .. L - 1
      /\ b \in [0 .. L - 1 -> S] /\ h \in Task \cup {NoTask} /\ d \in Nat
      /\ rx \in {Unlocked} \cup Nat /\ tx \in {Unlocked} \cup Nat
      /\ r = [count |-> c, buffer |-> b, writeTo |-> w, readFrom |-> f,
              holder |-> h, depth |-> d, rxLock |-> rx, txLock |-> tx]
  BY QueueFields, RingIs
<1>2. x \in S /\ c \in Nat /\ c + 1 \in 0 .. L
  BY <1>1, RingIs
<1>3. Kind[q] # "data" =>
        s = [count |-> c + 1, buffer |-> b, writeTo |-> w, readFrom |-> f,
             holder |-> NoTask, depth |-> 0, rxLock |-> rx, txLock |-> tx]
  BY DEF CopyTo, IsQueue, QueueRecord
<1>4. Kind[q] = "data" /\ front =>
        s = [count |-> c + 1, buffer |-> [b EXCEPT ![f] = x], writeTo |-> w,
             readFrom |-> Ring(q, f - 1 + L),
             holder |-> h, depth |-> d, rxLock |-> rx, txLock |-> tx]
  BY DEF CopyTo, IsQueue, QueueRecord
<1>5. Kind[q] = "data" /\ ~front =>
        s = [count |-> c + 1, buffer |-> [b EXCEPT ![w] = x], writeTo |-> Ring(q, w + 1),
             readFrom |-> f, holder |-> h, depth |-> d, rxLock |-> rx, txLock |-> tx]
  BY DEF CopyTo, IsQueue, QueueRecord
<1> HIDE DEF c, f, w, b, h, d, rx, tx
<1>6. CASE Kind[q] # "data"
  <2>1. x = NoItem
    BY <1>6, QueueAssumption
  <2>2. s = [count |-> c + 1, buffer |-> b, writeTo |-> w, readFrom |-> f,
             holder |-> NoTask, depth |-> 0, rxLock |-> rx, txLock |-> tx]
    BY <1>6, <1>3
  <2>3. IsQueue(q, s)
    BY <1>1, <1>2, <1>6, <2>2 DEF IsQueue, QueueRecord
  <2>4. /\ Contents(q) = [i \in 1 .. c |-> NoItem]
        /\ ItemsOf(q, s) = [i \in 1 .. c + 1 |-> NoItem]
    BY <1>1, <1>6, <2>2 DEF Contents, ItemsOf
  <2>5. /\ Append(Contents(q), x) = [i \in 1 .. c + 1 |-> NoItem]
        /\ <<x>> \o Contents(q) = [i \in 1 .. c + 1 |-> NoItem]
    <3>1. c \in Nat /\ x \in {NoItem} /\ Contents(q) \in [1 .. c -> {NoItem}]
      BY <1>2, <2>1, <2>4
    <3>2. \A i \in 1 .. c : Contents(q)[i] = NoItem
      BY <2>4
    <3>3. Append(Contents(q), x) = [i \in 1 .. c + 1 |-> NoItem]
      BY <3>1, <3>2, AppendIs
    <3>4. <<x>> \o Contents(q) = [i \in 1 .. c + 1 |-> NoItem]
      BY <3>1, <3>2, ConsIs
    <3>5. QED
      BY <3>3, <3>4
  <2>6. QED
    BY <2>3, <2>4, <2>5
<1>7. ASSUME Kind[q] = "data"
      PROVE  w = Ring(q, f + 1 + c) /\ Contents(q) = Walk(q, b, f, c)
  BY <1>1, <1>7, ItemsAre DEF IsQueue, Contents
<1>8. CASE Kind[q] = "data" /\ front
  <2> DEFINE g == Ring(q, f - 1 + L)
             e == [b EXCEPT ![f] = x]
  <2>1. s = [count |-> c + 1, buffer |-> e, writeTo |-> w, readFrom |-> g,
             holder |-> h, depth |-> d, rxLock |-> rx, txLock |-> tx]
    BY <1>8, <1>4
  <2>2. g \in 0 .. L - 1 /\ e \in [0 .. L - 1 -> S]
    BY <1>1, <1>2, RingMoves
  <2>3. /\ Ring(q, g + 1 + (c + 1)) = Ring(q, f + 1 + c)
        /\ Walk(q, e, g, c + 1) = <<x>> \o Walk(q, b, f, c)
    BY <1>1, <1>2, WalkFront, ZenonT(30)
  <2> HIDE DEF g, e
  <2>4. IsQueue(q, s)
    <3>1. s \in QueueRecord(q)
      BY <1>1, <1>2, <2>1, <2>2 DEF QueueRecord
    <3>2. s.writeTo = w /\ s.readFrom = g /\ s.count = c + 1
      BY <2>1
    <3>3. s.writeTo = Ring(q, s.readFrom + 1 + s.count)
      BY <1>7, <1>8, <2>3, <3>2
    <3>4. QED
      BY <3>1, <3>3 DEF IsQueue
  <2>5. ItemsOf(q, s) = Walk(q, e, g, c + 1)
    <3>1. s.buffer = e /\ s.readFrom = g /\ s.count = c + 1
      BY <2>1
    <3>2. QED
      BY <1>8, <2>4, <3>1, ItemsAre, ZenonT(30)
  <2>6. QED
    BY <1>7, <1>8, <2>3, <2>4, <2>5
<1>9. CASE Kind[q] = "data" /\ ~front
  <2> DEFINE v == Ring(q, w + 1)
             e == [b EXCEPT ![w] = x]
  <2>1. s = [count |-> c + 1, buffer |-> e, writeTo |-> v, readFrom |-> f,
             holder |-> h, depth |-> d, rxLock |-> rx, txLock |-> tx]
    BY <1>9, <1>5
  <2>2. /\ v \in 0 .. L - 1 /\ e \in [0 .. L - 1 -> S]
        /\ v = Ring(q, f + 1 + (c + 1))
        /\ Walk(q, e, f, c + 1) = Append(Walk(q, b, f, c), x)
    <3>1. e \in [0 .. L - 1 -> S]
      BY <1>1, <1>2
    <3>2. PICK M \in Nat \ {0} : M = L
      BY RingIs
    <3>3. c \in 0 .. M - 1 /\ f \in 0 .. M - 1 /\ b \in [0 .. M - 1 -> S]
      BY <1>1, <3>2
    <3>4. PICK n \in 1 .. M : n = c + 1
      BY <3>3
    <3>5. f + 1 + c = f + n /\ f + 1 + (c + 1) = f + (n + 1)
      BY <3>3, <3>4
    <3>6. w = Ring(q, f + n)
      BY <1>7, <1>9, <3>5
    <3>7. v = Ring(q, f + 1 + (c + 1)) /\ v \in 0 .. L - 1
      <4>1. n \in 0 .. M /\ 1 \in 0 .. M
        OBVIOUS
      <4>2. v = Ring(q, f + (n + 1))
        BY <1>1, <3>2, <3>6, <4>1, RingMoves
      <4>3. v \in 0 .. L - 1
        BY <1>1, <3>2, <4>1, RingMoves
      <4>4. QED
        BY <3>5, <4>2, <4>3
    <3>8. ASSUME NEW i \in 1 .. n
          PROVE  e[Ring(q, f + i)] = IF i = n THEN x ELSE Walk(q, b, f, c)[i]
      <4>1. CASE i = n
        BY <1>1, <3>6, <4>1
      <4>2. CASE i # n
        <5>1. i \in 1 .. c /\ i \in 0 .. M /\ n \in 0 .. M /\ i < n /\ n - i < M
          BY <3>3, <3>4, <4>2
        <5>2. Ring(q, f + i) # w /\ Ring(q, f + i) \in 0 .. L - 1
          BY <3>3, <3>2, <3>6, <5>1, RingMoves
        <5>3. e[Ring(q, f + i)] = b[Ring(q, f + i)]
          BY <1>1, <5>2
        <5>4. QED
          BY <4>2, <5>1, <5>3 DEF Walk
      <4>3. QED
        BY <4>1, <4>2
    <3> HIDE DEF e, S
    <3>9. Walk(q, e, f, n) = [i \in 1 .. n |-> IF i = n THEN x ELSE Walk(q, b, f, c)[i]]
      BY <3>8 DEF Walk
    <3>10. Walk(q, b, f, c) \in [1 .. c -> S] /\ c \in Nat
      <4>1. PICK a \in [0 .. Length[q] - 1 -> S], k \in 0 .. Length[q] - 1, m \in 0 .. Length[q] :
              a = b /\ k = f /\ m = c
        BY <3>3, <3>2
      <4>2. Walk(q, a, k, m) \in [1 .. m -> S]
        BY WalkIs
      <4>3. QED
        BY <1>2, <4>1, <4>2
    <3>11. Append(Walk(q, b, f, c), x)
             = [i \in 1 .. c + 1 |-> IF i = c + 1 THEN x ELSE Walk(q, b, f, c)[i]]
      <4>1. PICK u \in [1 .. c -> S] : u = Walk(q, b, f, c)
        BY <3>10
      <4>2. Append(u, x) = [i \in 1 .. c + 1 |-> IF i = c + 1 THEN x ELSE u[i]]
        BY <1>2, <3>10, AppendIs
      <4>3. QED
        BY <4>1, <4>2
    <3>12. QED
      BY <3>1, <3>4, <3>7, <3>9, <3>11 DEF e, S
  <2> HIDE DEF v, e
  <2>3. IsQueue(q, s)
    <3>1. s \in QueueRecord(q)
      BY <1>1, <1>2, <2>1, <2>2 DEF QueueRecord
    <3>2. s.writeTo = v /\ s.readFrom = f /\ s.count = c + 1
      BY <2>1
    <3>3. QED
      BY <2>2, <3>1, <3>2 DEF IsQueue
  <2>4. ItemsOf(q, s) = Walk(q, e, f, c + 1)
    <3>1. s.buffer = e /\ s.readFrom = f /\ s.count = c + 1
      BY <2>1
    <3>2. QED
      BY <1>9, <2>3, <3>1, ItemsAre
  <2>5. QED
    BY <1>7, <1>9, <2>2, <2>3, <2>4
<1>10. QED
  BY <1>6, <1>8, <1>9

\* An item taken from a queue that is not empty is its first.
LEMMA GetIs ==
  ASSUME NEW q \in Queue, IsQueue(q, queue[q]), queue[q].count # 0, NEW t \in Task \cup {NoTask}
  PROVE  LET s == CopyFrom(q, t)
         IN  /\ IsQueue(q, s)
             /\ Contents(q) # <<>> /\ ItemsOf(q, s) = Tail(Contents(q))
<1> DEFINE r == queue[q]
           L == Length[q]
           s == CopyFrom(q, t)
           S == Item[q] \cup {NoItem}
           c == r.count
           f == r.readFrom
           w == r.writeTo
           b == r.buffer
           h == r.holder
           d == r.depth
           rx == r.rxLock
           tx == r.txLock
<1>1. /\ c \in 1 .. L /\ f \in 0 .. L - 1 /\ w \in 0 .. L - 1
      /\ b \in [0 .. L - 1 -> S] /\ h \in Task \cup {NoTask} /\ d \in Nat
      /\ rx \in {Unlocked} \cup Nat /\ tx \in {Unlocked} \cup Nat
      /\ r = [count |-> c, buffer |-> b, writeTo |-> w, readFrom |-> f,
              holder |-> h, depth |-> d, rxLock |-> rx, txLock |-> tx]
  BY QueueFields, RingIs
<1>2. c - 1 \in 0 .. L /\ c \in Nat \ {0}
  BY <1>1, RingIs
<1>3. s = [count |-> c - 1, buffer |-> b, writeTo |-> w,
           readFrom |-> IF Kind[q] = "data" THEN Ring(q, f + 1) ELSE f,
           holder |-> IF Kind[q] = "mutex" THEN t ELSE h,
           depth |-> IF Kind[q] = "mutex" THEN 1 ELSE d, rxLock |-> rx, txLock |-> tx]
  <2>1. CASE Kind[q] = "mutex"
    <3>1. Kind[q] # "data"
      BY <2>1
    <3>2. s = [r EXCEPT !.count = r.count - 1, !.readFrom = r.readFrom, !.holder = t, !.depth = 1]
      BY <2>1, <3>1 DEF CopyFrom
    <3>3. QED
      BY <1>1, <2>1, <3>1, <3>2
  <2>2. CASE Kind[q] # "mutex"
    <3>1. s = [r EXCEPT !.count = r.count - 1,
                        !.readFrom = IF Kind[q] = "data" THEN Ring(q, r.readFrom + 1)
                                     ELSE r.readFrom,
                        !.holder = r.holder, !.depth = r.depth]
      BY <2>2 DEF CopyFrom
    <3>2. QED
      BY <1>1, <2>2, <3>1
  <2>3. QED
    BY <2>1, <2>2
<1>4. PICK g \in Task \cup {NoTask}, e \in Nat :
        s = [count |-> c - 1, buffer |-> b, writeTo |-> w,
             readFrom |-> IF Kind[q] = "data" THEN Ring(q, f + 1) ELSE f,
             holder |-> g, depth |-> e, rxLock |-> rx, txLock |-> tx]
  <2> DEFINE g == IF Kind[q] = "mutex" THEN t ELSE h
             e == IF Kind[q] = "mutex" THEN 1 ELSE d
  <2>1. g \in Task \cup {NoTask} /\ e \in Nat
    BY <1>1
  <2> HIDE DEF g, e
  <2>2. QED
    BY <1>3, <2>1 DEF g, e
<1> HIDE DEF c, f, w, b, h, d, rx, tx
<1>5. CASE Kind[q] # "data"
  <2>1. IsQueue(q, s)
    BY <1>1, <1>2, <1>4, <1>5 DEF IsQueue, QueueRecord
  <2>2. /\ Contents(q) = [i \in 1 .. c |-> NoItem]
        /\ ItemsOf(q, s) = [i \in 1 .. c - 1 |-> NoItem]
    BY <1>1, <1>4, <1>5 DEF Contents, ItemsOf
  <2>3. PICK n \in Nat \ {0} : n = c
    BY <1>2
  <2>4. PICK u \in [1 .. n -> {NoItem}] : u = Contents(q)
    BY <2>2, <2>3
  <2>5. u # <<>> /\ Tail(u) = [i \in 1 .. n - 1 |-> u[i + 1]]
    BY TailIs
  <2>6. \A i \in 1 .. n - 1 : u[i + 1] = NoItem
    OBVIOUS
  <2>7. QED
    BY <2>1, <2>2, <2>3, <2>4, <2>5, <2>6
<1>6. CASE Kind[q] = "data"
  <2> DEFINE v == Ring(q, f + 1)
  <2>1. w = Ring(q, f + 1 + c) /\ Contents(q) = Walk(q, b, f, c)
    BY <1>1, <1>6, ItemsAre DEF IsQueue, Contents
  <2>2. /\ v \in 0 .. L - 1
        /\ Ring(q, v + 1 + (c - 1)) = Ring(q, f + 1 + c)
        /\ Walk(q, b, f, c) # <<>>
        /\ Walk(q, b, v, c - 1) = Tail(Walk(q, b, f, c))
    BY <1>1, WalkTail
  <2> HIDE DEF v
  <2>3. s = [count |-> c - 1, buffer |-> b, writeTo |-> w, readFrom |-> v,
             holder |-> g, depth |-> e, rxLock |-> rx, txLock |-> tx]
    BY <1>4, <1>6 DEF v
  <2>4. IsQueue(q, s)
    <3>1. s \in QueueRecord(q)
      BY <1>1, <1>2, <2>2, <2>3 DEF QueueRecord
    <3>2. s.writeTo = w /\ s.readFrom = v /\ s.count = c - 1
      BY <2>3
    <3>3. QED
      BY <2>1, <2>2, <3>1, <3>2 DEF IsQueue
  <2>5. ItemsOf(q, s) = Walk(q, b, v, c - 1)
    <3>1. s.buffer = b /\ s.readFrom = v /\ s.count = c - 1
      BY <2>3
    <3>2. QED
      BY <1>6, <2>4, <3>1, ItemsAre
  <2>6. QED
    BY <2>1, <2>2, <2>4, <2>5
<1>7. QED
  BY <1>5, <1>6

\* Locks and the depth of a mutex are nothing to the items.
LEMMA AsideIs ==
  ASSUME NEW q \in Queue, NEW r, IsQueue(q, r), NEW v
  PROVE  /\ v \in {Unlocked} \cup Nat =>
              LET s == [r EXCEPT !.txLock = v]
              IN  IsQueue(q, s) /\ ItemsOf(q, s) = ItemsOf(q, r)
         /\ v \in {Unlocked} \cup Nat =>
              LET s == [r EXCEPT !.rxLock = v]
              IN  IsQueue(q, s) /\ ItemsOf(q, s) = ItemsOf(q, r)
         /\ v \in Nat =>
              LET s == [r EXCEPT !.depth = v]
              IN  IsQueue(q, s) /\ ItemsOf(q, s) = ItemsOf(q, r)
<1>1. ASSUME NEW s \in QueueRecord(q), s.count = r.count, s.buffer = r.buffer,
             s.writeTo = r.writeTo, s.readFrom = r.readFrom
      PROVE  IsQueue(q, s) /\ ItemsOf(q, s) = ItemsOf(q, r)
  BY <1>1 DEF IsQueue, ItemsOf
<1>2. ASSUME v \in {Unlocked} \cup Nat
      PROVE  LET s == [r EXCEPT !.txLock = v]
             IN  /\ s \in QueueRecord(q) /\ s.count = r.count /\ s.buffer = r.buffer
                 /\ s.writeTo = r.writeTo /\ s.readFrom = r.readFrom
  BY <1>2 DEF IsQueue, QueueRecord
<1>3. ASSUME v \in {Unlocked} \cup Nat
      PROVE  LET s == [r EXCEPT !.rxLock = v]
             IN  /\ s \in QueueRecord(q) /\ s.count = r.count /\ s.buffer = r.buffer
                 /\ s.writeTo = r.writeTo /\ s.readFrom = r.readFrom
  BY <1>3 DEF IsQueue, QueueRecord
<1>4. ASSUME v \in Nat
      PROVE  LET s == [r EXCEPT !.depth = v]
             IN  /\ s \in QueueRecord(q) /\ s.count = r.count /\ s.buffer = r.buffer
                 /\ s.writeTo = r.writeTo /\ s.readFrom = r.readFrom
  BY <1>4 DEF IsQueue, QueueRecord
<1>5. QED
  BY <1>1, <1>2, <1>3, <1>4

LEMMA LocksAre ==
  ASSUME NEW l \in {Unlocked} \cup Nat
  PROVE  Max({l, 0}) \in Nat /\ Counted(l) \in {Unlocked} \cup Nat
<1>1. CASE l = Unlocked
  <2>1. {l, 0} = {-1, 0}
    BY <1>1 DEF Unlocked
  <2>2. Max({-1, 0}) = 0
    BY DEF Max
  <2>3. QED
    BY <1>1, <2>1, <2>2 DEF Counted
<1>2. CASE l \in Nat
  <2>1. Max({l, 0}) = l
    BY <1>2 DEF Max
  <2>2. QED
    BY <1>2, <2>1 DEF Counted, Unlocked
<1>3. QED
  BY <1>1, <1>2

-----------------------------------------------------------------------------

\* What a step can do to the items of the queues.
Others(q) == \A p \in Queue \ {q} : queue'[p] = queue[p]
Keeps ==
  \A q \in Queue : IsQueue(q, queue'[q]) /\ ItemsOf(q, queue'[q]) = Contents(q)
Puts(q) ==
  /\ Others(q) /\ queue[q].count < Length[q] /\ IsQueue(q, queue'[q])
  /\ \E x \in Item[q] : \/ ItemsOf(q, queue'[q]) = Append(Contents(q), x)
                        \/ ItemsOf(q, queue'[q]) = <<x>> \o Contents(q)
Gets(q) ==
  /\ Others(q) /\ IsQueue(q, queue'[q])
  /\ Contents(q) # <<>> /\ ItemsOf(q, queue'[q]) = Tail(Contents(q))
QueueStep ==
  /\ queue' = [q \in Queue |-> queue'[q]]
  /\ Keeps \/ \E q \in Queue : Puts(q) \/ Gets(q)

Queues == queue = [q \in Queue |-> queue[q]] /\ \A q \in Queue : IsQueue(q, queue[q])

\* One queue is set aside, the others stay.
LEMMA AsideStep ==
  ASSUME Queues, NEW q \in Queue, NEW s, queue' = [queue EXCEPT ![q] = s],
         IsQueue(q, s), ItemsOf(q, s) = Contents(q)
  PROVE  QueueStep
BY DEF Queues, QueueStep, Keeps, Contents

LEMMA TransferStep ==
  ASSUME Queues, NEW t \in Task, NEW c, IsCall(c), ~Blocking(c), Transfer(t, c)
  PROVE  QueueStep
<1> DEFINE q == c.queue
<1>1. /\ q \in Queue /\ IsQueue(q, queue[q])
      /\ c.op \in {"send", "sendFront", "receive", "peek"}
      /\ Sends(c) => c.item \in Item[q]
  BY DEF IsCall, Queues
<1> DEFINE new == CASE Sends(c) -> CopyTo(q, c.item, c.op = "sendFront")
                    [] c.op = "receive" -> CopyFrom(q, t)
                    [] c.op = "peek" -> queue[q]
<1>2. queue' = [queue EXCEPT ![q] = new]
  BY DEF Transfer
<1>3. /\ Sends(c) => new = CopyTo(q, c.item, c.op = "sendFront")
      /\ c.op = "receive" => new = CopyFrom(q, t)
      /\ c.op = "peek" => new = queue[q]
  <2> HIDE DEF q
  <2>1. QED
    BY DEF Sends
<1> HIDE DEF new
<1>4. queue' = [p \in Queue |-> queue'[p]] /\ Others(q) /\ queue'[q] = new
  BY <1>1, <1>2 DEF Queues, Others
<1>5. CASE Sends(c)
  <2>1. queue'[q] = CopyTo(q, c.item, c.op = "sendFront")
    BY <1>4, <1>5, <1>3
  <2>2. queue[q].count # Length[q] /\ queue[q].count < Length[q]
    <3>1. queue[q].count # Length[q]
      BY <1>5 DEF Blocking
    <3>2. queue[q].count \in 0 .. Length[q] /\ Length[q] \in Nat
      BY <1>1, QueueFields, RingIs
    <3>3. QED
      BY <3>1, <3>2
  <2>3. (c.op = "sendFront") \in BOOLEAN /\ c.item \in Item[q]
    BY <1>1, <1>5
  <2> DEFINE s == CopyTo(q, c.item, c.op = "sendFront")
  <2>4. /\ IsQueue(q, s)
        /\ ItemsOf(q, s) = IF c.op = "sendFront" THEN <<c.item>> \o Contents(q)
                           ELSE Append(Contents(q), c.item)
    BY <1>1, <2>2, <2>3, PutIs
  <2> HIDE DEF s
  <2>5. Puts(q)
    BY <1>4, <2>1, <2>2, <2>3, <2>4 DEF Puts, s
  <2>6. QED
    BY <1>1, <1>4, <2>5 DEF QueueStep
<1>6. CASE c.op = "receive"
  <2>1. queue'[q] = CopyFrom(q, t)
    BY <1>4, <1>6, <1>3
  <2>2. queue[q].count # 0
    BY <1>6 DEF Blocking, Sends
  <2>3. Gets(q)
    BY <1>1, <1>4, <2>1, <2>2, GetIs DEF Gets
  <2>4. QED
    BY <1>1, <1>4, <2>3 DEF QueueStep
<1>7. CASE c.op = "peek"
  <2>1. queue'[q] = queue[q]
    BY <1>4, <1>7, <1>3
  <2>2. Keeps
    BY <1>4, <2>1 DEF Queues, Others, Keeps, Contents
  <2>3. QED
    BY <1>4, <2>2 DEF QueueStep
<1>8. QED
  BY <1>1, <1>5, <1>6, <1>7 DEF Sends

LEMMA UnchangedStep ==
  ASSUME Queues, UNCHANGED queue
  PROVE  QueueStep
BY DEF Queues, QueueStep, Keeps, Contents

\* What is kept of the calls: nothing outside of queue.c, the call within it.
CallsOK ==
  /\ pc \in [Task -> Locking \cup {"run", "suspend", "yield", "try"}]
  /\ call = [t \in Task |-> call[t]] /\ \A t \in Task : pc[t] # "run" => IsCall(call[t])

LEMMA GoesOn ==
  ASSUME CallsOK, NEW t \in Task,
         NEW l \in Locking \cup {"run", "suspend", "yield", "try"}, Goto(t, l),
         NEW c, call' = [call EXCEPT ![t] = c], l = "run" \/ IsCall(c)
  PROVE  CallsOK'
<1>1. /\ pc' \in [Task -> Locking \cup {"run", "suspend", "yield", "try"}]
      /\ pc'[t] = l /\ \A u \in Task \ {t} : pc'[u] = pc[u]
  BY DEF CallsOK, Goto
<1>2. /\ call' = [u \in Task |-> call'[u]]
      /\ call'[t] = c /\ \A u \in Task \ {t} : call'[u] = call[u]
  BY DEF CallsOK
<1>3. \A u \in Task : pc'[u] # "run" => IsCall(call'[u])
  BY <1>1, <1>2 DEF CallsOK
<1>4. QED
  BY <1>1, <1>2, <1>3 DEF CallsOK, IsCall, Sends

\* As the call stays as it is.
LEMMA GoesOnIn ==
  ASSUME CallsOK, NEW t \in Task,
         NEW l \in Locking \cup {"run", "suspend", "yield", "try"}, Goto(t, l),
         pc[t] # "run", UNCHANGED call
  PROVE  CallsOK'
<1>1. call' = [call EXCEPT ![t] = call[t]] /\ IsCall(call[t])
  BY DEF CallsOK
<1>2. QED
  BY <1>1, GoesOn

LEMMA CallFields ==
  ASSUME NEW c, IsCall(c), NEW u \in {"again", "blocked", "fail"}, NEW v, NEW w
  PROVE  /\ IsCall([c EXCEPT !.then = u])
         /\ IsCall([c EXCEPT !.ticks = v, !.timeOut = w])
<1>1. [c EXCEPT !.then = u]
        = [op |-> c.op, queue |-> c.queue, item |-> c.item, limit |-> c.limit,
           ticks |-> c.ticks, timeOut |-> c.timeOut, then |-> u]
  BY DEF IsCall
<1>2. [c EXCEPT !.ticks = v, !.timeOut = w]
        = [op |-> c.op, queue |-> c.queue, item |-> c.item, limit |-> c.limit,
           ticks |-> v, timeOut |-> w, then |-> c.then]
  <2>1. c \in [op : {c.op}, queue : {c.queue}, item : {c.item}, limit : {c.limit},
               ticks : {c.ticks}, timeOut : {c.timeOut}, then : {c.then}]
    BY DEF IsCall
  <2> DEFINE d == [c EXCEPT !.ticks = v, !.timeOut = w]
  <2>2. d \in [op : {c.op}, queue : {c.queue}, item : {c.item}, limit : {c.limit},
               ticks : {v}, timeOut : {w}, then : {c.then}]
    BY <2>1
  <2> HIDE DEF d
  <2>3. d = [op |-> c.op, queue |-> c.queue, item |-> c.item, limit |-> c.limit,
             ticks |-> v, timeOut |-> w, then |-> c.then]
    BY <2>2
  <2>4. QED
    BY <2>3 DEF d
<1>3. /\ c.op \in {"send", "sendFront", "receive", "peek"} /\ c.queue \in Queue
      /\ c.op \in {"send", "sendFront"} => c.item \in Item[c.queue]
      /\ c.then \in {"again", "blocked", "fail"}
  BY DEF IsCall, Sends
<1>4. QED
  BY <1>1, <1>2, <1>3 DEF IsCall, Sends

LEMMA StaysOut ==
  ASSUME CallsOK, UNCHANGED <<pc, call>>
  PROVE  CallsOK'
BY DEF CallsOK, IsCall, Sends

-----------------------------------------------------------------------------

\* Tries to send or to receive.
LEMMA TryStep ==
  ASSUME Queues, CallsOK, NEW t \in Task, NEW c, IsCall(c), Try(t, c)
  PROVE  QueueStep /\ CallsOK'
<1>1. CASE ~Blocking(c) /\ Transfer(t, c) /\ Return(t)
  BY <1>1, TransferStep, GoesOn DEF Return
<1>2. CASE Blocking(c) /\ c.ticks = 0 /\ Return(t) /\ UNCHANGED <<kernel, queue>>
  BY <1>2, UnchangedStep, GoesOn DEF Return
<1>3. CASE /\ Blocking(c) /\ c.ticks > 0
           /\ call' = [call EXCEPT ![t] = c]
           /\ Goto(t, "suspend")
           /\ UNCHANGED <<kernel, queue>>
  BY <1>3, UnchangedStep, GoesOn
<1>4. QED
  BY <1>1, <1>2, <1>3 DEF Try

LEMMA StartStep ==
  ASSUME Queues, CallsOK, NEW t \in Task, Start(t)
  PROVE  QueueStep /\ CallsOK'
<1>1. PICK c \in Calls(t) :
        Try(t, [op |-> c.op, queue |-> c.queue, item |-> c.item, limit |-> c.limit,
                ticks |-> c.limit, timeOut |-> TimeOutNow(kernel), then |-> "again"])
  BY DEF Start
<1> DEFINE d == [op |-> c.op, queue |-> c.queue, item |-> c.item, limit |-> c.limit,
                 ticks |-> c.limit, timeOut |-> TimeOutNow(kernel), then |-> "again"]
<1>2. /\ c.op \in {"send", "sendFront", "receive", "peek"} /\ c.queue \in Queue
      /\ c.item \in IF Sends(c) THEN Item[c.queue] ELSE {NoItem}
  BY DEF Calls
<1>3. IsCall(d)
  BY <1>2 DEF IsCall, Sends
<1>4. QED
  BY <1>1, <1>3, TryStep

\* Moves between the critical sections that leave the queues alone.
LEMMA PlainStep ==
  ASSUME Queues, CallsOK, NEW t \in Task,
         \/ SuspendScheduler(t) \/ Check(t) \/ Test(t) \/ Place(t) \/ Resumed(t) \/ Yield(t)
         \/ SetPriority(t)
  PROVE  QueueStep /\ CallsOK'
<1>1. QueueStep
  BY UnchangedStep
     DEF SuspendScheduler, Check, Test, Place, Resumed, Yield, SetPriority
<1>2. SUFFICES CallsOK'
  BY <1>1
<1>3. CASE SetPriority(t)
  <2>1. UNCHANGED <<pc, call>>
    BY <1>3 DEF SetPriority
  <2>2. QED
    BY <2>1, StaysOut
<1>4. CASE SuspendScheduler(t)
  <2>1. Goto(t, "lock") /\ pc[t] # "run" /\ UNCHANGED call
    BY <1>4 DEF SuspendScheduler, Step
  <2>2. "lock" \in Locking \cup {"run", "suspend", "yield", "try"}
    BY DEF Locking
  <2>3. QED
    BY <2>1, <2>2, GoesOnIn
<1>5. CASE Place(t)
  <2>1. Goto(t, "unlockTx") /\ pc[t] # "run" /\ UNCHANGED call
    BY <1>5 DEF Place, Step
  <2>2. "unlockTx" \in Locking \cup {"run", "suspend", "yield", "try"}
    BY DEF Locking
  <2>3. QED
    BY <2>1, <2>2, GoesOnIn
<1>6. CASE Yield(t)
  <2>1. Goto(t, "try") /\ pc[t] # "run" /\ UNCHANGED call
    BY <1>6 DEF Yield, Step
  <2>2. "try" \in Locking \cup {"run", "suspend", "yield", "try"}
    BY DEF Locking
  <2>3. QED
    BY <2>1, <2>2, GoesOnIn
<1>7. CASE Check(t)
  <2> DEFINE over == IsTimeOut(kernel, call[t].timeOut, call[t].ticks)
             c == IF over THEN [call[t] EXCEPT !.then = "fail"]
                  ELSE [call[t] EXCEPT
                          !.ticks = TicksLeft(kernel, call[t].timeOut, call[t].ticks),
                          !.timeOut = TimeOutNow(kernel)]
  <2>1. IsCall(call[t])
    BY <1>7 DEF Check, Step, CallsOK
  <2>2. IsCall(c)
    BY <2>1, CallFields
  <2>3. call' = [call EXCEPT ![t] = c]
    BY <1>7 DEF Check
  <2>4. Goto(t, IF over THEN "unlockTx" ELSE "test")
    BY <1>7 DEF Check, Step
  <2>5. (IF over THEN "unlockTx" ELSE "test") \in Locking
    BY DEF Locking
  <2> HIDE DEF c, over
  <2>6. QED
    BY <2>2, <2>3, <2>4, <2>5, GoesOn
<1>8. CASE Test(t)
  <2> DEFINE c == [call[t] EXCEPT !.then = IF Blocking(call[t]) THEN "blocked" ELSE "again"]
  <2>1. IsCall(call[t])
    BY <1>8 DEF Test, Step, CallsOK
  <2>2. IsCall(c)
    BY <2>1, CallFields
  <2>3. call' = [call EXCEPT ![t] = c]
    BY <1>8 DEF Test
  <2>4. Goto(t, IF Blocking(call[t]) THEN "place" ELSE "unlockTx")
    BY <1>8 DEF Test, Step
  <2>5. (IF Blocking(call[t]) THEN "place" ELSE "unlockTx") \in Locking
    BY DEF Locking
  <2> HIDE DEF c
  <2>6. QED
    BY <2>2, <2>3, <2>4, <2>5, GoesOn
<1>9. CASE Resumed(t)
  <2>1. \/ Return(t)
        \/ UNCHANGED call /\ (Goto(t, "try") \/ Goto(t, "yield"))
    <3>1. call[t].then \in {"fail", "again", "blocked"}
      BY <1>9 DEF Resumed, CallsOK, IsCall
    <3>2. QED
      BY <1>9, <3>1 DEF Resumed
  <2>2. pc[t] # "run"
    BY <1>9 DEF Resumed
  <2>3. QED
    <3>1. CASE Return(t)
      BY <3>1, GoesOn DEF Return
    <3>2. CASE UNCHANGED call /\ Goto(t, "try")
      BY <2>2, <3>2, GoesOnIn
    <3>3. CASE UNCHANGED call /\ Goto(t, "yield")
      BY <2>2, <3>3, GoesOnIn
    <3>4. QED
      BY <2>1, <3>1, <3>2, <3>3
<1>10. QED
  BY <1>3, <1>4, <1>5, <1>6, <1>7, <1>8, <1>9

\* Moves that lock or unlock a queue, or count the takes of a mutex.
LEMMA AsideSteps ==
  ASSUME Queues, CallsOK, NEW t \in Task,
         TakeAgain(t) \/ GiveOne(t) \/ Lock(t) \/ UnlockTx(t) \/ UnlockRx(t)
  PROVE  QueueStep /\ CallsOK'
<1>1. ASSUME NEW q \in Queue
      PROVE  /\ IsQueue(q, queue[q])
             /\ queue[q].txLock \in {Unlocked} \cup Nat /\ queue[q].rxLock \in {Unlocked} \cup Nat
             /\ queue[q].depth \in Nat
  BY QueueFields DEF Queues
<1>2. CASE TakeAgain(t)
  <2>1. PICK q \in Queue : queue' = [queue EXCEPT ![q].depth = @ + 1]
    BY <1>2 DEF TakeAgain
  <2> DEFINE s == [queue[q] EXCEPT !.depth = queue[q].depth + 1]
  <2>2. queue' = [queue EXCEPT ![q] = s]
    BY <2>1
  <2>3. queue[q].depth + 1 \in Nat
    BY <1>1
  <2>4. IsQueue(q, s) /\ ItemsOf(q, s) = Contents(q)
    BY <1>1, <2>3, AsideIs DEF Contents
  <2> HIDE DEF s
  <2>5. UNCHANGED <<pc, call>>
    BY <1>2 DEF TakeAgain
  <2>6. QED
    BY <2>2, <2>4, <2>5, AsideStep, StaysOut
<1>3. CASE GiveOne(t)
  <2>1. PICK q \in Queue : queue[q].depth > 1 /\ queue' = [queue EXCEPT ![q].depth = @ - 1]
    BY <1>3 DEF GiveOne
  <2> DEFINE s == [queue[q] EXCEPT !.depth = queue[q].depth - 1]
  <2>2. queue' = [queue EXCEPT ![q] = s]
    BY <2>1
  <2>3. queue[q].depth - 1 \in Nat
    BY <1>1, <2>1
  <2>4. IsQueue(q, s) /\ ItemsOf(q, s) = Contents(q)
    BY <1>1, <2>3, AsideIs DEF Contents
  <2> HIDE DEF s
  <2>5. UNCHANGED <<pc, call>>
    BY <1>3 DEF GiveOne
  <2>6. QED
    BY <2>2, <2>4, <2>5, AsideStep, StaysOut
<1> DEFINE q == call[t].queue
<1>4. CASE Lock(t)
  <2>1. pc[t] # "run" /\ Goto(t, "check") /\ UNCHANGED call
    BY <1>4 DEF Lock, Step
  <2>2. q \in Queue
    BY <2>1 DEF CallsOK, IsCall
  <2> DEFINE s == [queue[q] EXCEPT !.rxLock = Max({queue[q].rxLock, 0}),
                                   !.txLock = Max({queue[q].txLock, 0})]
  <2>3. queue' = [queue EXCEPT ![q] = s]
    BY <1>4 DEF Lock
  <2>4. /\ Max({queue[q].rxLock, 0}) \in {Unlocked} \cup Nat
        /\ Max({queue[q].txLock, 0}) \in {Unlocked} \cup Nat
    BY <1>1, <2>2, LocksAre
  <2>5. IsQueue(q, s) /\ ItemsOf(q, s) = Contents(q)
    <3> DEFINE u == [queue[q] EXCEPT !.rxLock = Max({queue[q].rxLock, 0})]
    <3>1. IsQueue(q, u) /\ ItemsOf(q, u) = Contents(q)
      BY <1>1, <2>2, <2>4, AsideIs DEF Contents
    <3>2. s = [u EXCEPT !.txLock = Max({queue[q].txLock, 0})]
      OBVIOUS
    <3> HIDE DEF u, s
    <3>3. QED
      BY <2>2, <2>4, <3>1, <3>2, AsideIs
  <2> HIDE DEF s, q
  <2>6. "check" \in Locking
    BY DEF Locking
  <2>7. QED
    BY <2>1, <2>2, <2>3, <2>5, <2>6, AsideStep, GoesOnIn
<1>5. CASE UnlockTx(t)
  <2>1. pc[t] # "run" /\ Goto(t, "unlockRx") /\ UNCHANGED call
    BY <1>5 DEF UnlockTx, Step
  <2>2. q \in Queue
    BY <2>1 DEF CallsOK, IsCall
  <2> DEFINE s == [queue[q] EXCEPT !.txLock = Unlocked]
  <2>3. queue' = [queue EXCEPT ![q] = s]
    BY <1>5 DEF UnlockTx
  <2>4. IsQueue(q, s) /\ ItemsOf(q, s) = Contents(q)
    BY <1>1, <2>2, AsideIs DEF Contents
  <2> HIDE DEF s, q
  <2>5. "unlockRx" \in Locking
    BY DEF Locking
  <2>6. QED
    BY <2>1, <2>2, <2>3, <2>4, <2>5, AsideStep, GoesOnIn
<1>6. CASE UnlockRx(t)
  <2>1. pc[t] # "run" /\ Goto(t, "resume") /\ UNCHANGED call
    BY <1>6 DEF UnlockRx, Step
  <2>2. q \in Queue
    BY <2>1 DEF CallsOK, IsCall
  <2> DEFINE s == [queue[q] EXCEPT !.rxLock = Unlocked]
  <2>3. queue' = [queue EXCEPT ![q] = s]
    BY <1>6 DEF UnlockRx
  <2>4. IsQueue(q, s) /\ ItemsOf(q, s) = Contents(q)
    BY <1>1, <2>2, AsideIs DEF Contents
  <2> HIDE DEF s, q
  <2>5. "resume" \in Locking
    BY DEF Locking
  <2>6. QED
    BY <2>1, <2>2, <2>3, <2>4, <2>5, AsideStep, GoesOnIn
<1>7. QED
  BY <1>2, <1>3, <1>4, <1>5, <1>6

\* Handlers send and receive.
LEMMA HandlerStep ==
  ASSUME Queues, CallsOK, NEW q \in FromISR, q \in Queue, SendFromISR(q) \/ ReceiveFromISR(q)
  PROVE  QueueStep /\ CallsOK'
<1>1. /\ IsQueue(q, queue[q]) /\ queue[q].count \in 0 .. Length[q] /\ Length[q] \in Nat
      /\ queue = [p \in Queue |-> queue[p]]
  BY QueueFields, RingIs DEF Queues
<1>2. CASE SendFromISR(q)
  <2>1. PICK x \in Item[q], front \in BOOLEAN :
          queue' = [queue EXCEPT ![q] = [CopyTo(q, x, front) EXCEPT !.txLock = Counted(@)]]
    BY <1>2 DEF SendFromISR
  <2> DEFINE s == CopyTo(q, x, front)
             u == [s EXCEPT !.txLock = Counted(s.txLock)]
  <2>2. queue' = [queue EXCEPT ![q] = u]
    BY <2>1
  <2>3. queue[q].count < Length[q] /\ queue[q].count # Length[q]
    BY <1>1, <1>2 DEF SendFromISR
  <2>4. /\ IsQueue(q, s)
        /\ ItemsOf(q, s) = IF front THEN <<x>> \o Contents(q) ELSE Append(Contents(q), x)
    BY <1>1, <2>3, PutIs
  <2> HIDE DEF s
  <2>5. IsQueue(q, u) /\ ItemsOf(q, u) = ItemsOf(q, s)
    BY <2>4, QueueFields, LocksAre, AsideIs
  <2> HIDE DEF u
  <2>6. /\ queue' = [p \in Queue |-> queue'[p]]
        /\ Others(q) /\ queue'[q] = u
    BY <1>1, <2>2 DEF Others
  <2>7. Puts(q)
    BY <2>3, <2>4, <2>5, <2>6 DEF Puts
  <2>8. QED
    BY <1>2, <2>6, <2>7, StaysOut DEF SendFromISR, QueueStep
<1>3. CASE ReceiveFromISR(q)
  <2> DEFINE s == CopyFrom(q, NoTask)
             u == [s EXCEPT !.rxLock = Counted(s.rxLock)]
  <2>1. queue' = [queue EXCEPT ![q] = u]
    BY <1>3 DEF ReceiveFromISR
  <2>2. queue[q].count # 0
    BY <1>1, <1>3 DEF ReceiveFromISR
  <2>3. /\ IsQueue(q, s)
        /\ Contents(q) # <<>> /\ ItemsOf(q, s) = Tail(Contents(q))
    BY <1>1, <2>2, GetIs
  <2> HIDE DEF s
  <2>4. IsQueue(q, u) /\ ItemsOf(q, u) = ItemsOf(q, s)
    BY <2>3, QueueFields, LocksAre, AsideIs
  <2> HIDE DEF u
  <2>5. /\ queue' = [p \in Queue |-> queue'[p]]
        /\ Others(q) /\ queue'[q] = u
    BY <1>1, <2>1 DEF Others
  <2>6. Gets(q)
    BY <2>3, <2>4, <2>5 DEF Gets
  <2>7. QED
    BY <1>3, <2>5, <2>6, StaysOut DEF ReceiveFromISR, QueueStep
<1>4. QED
  BY <1>2, <1>3

LEMMA AnyStep ==
  ASSUME Queues, CallsOK, [Next]_vars
  PROVE  QueueStep /\ CallsOK'
<1>1. CASE UNCHANGED vars
  BY <1>1, UnchangedStep, StaysOut DEF vars
<1>2. ASSUME NEW t \in Task, Again(t)
      PROVE  QueueStep /\ CallsOK'
  <2>1. IsCall(call[t])
    BY <1>2 DEF Again, CallsOK
  <2>2. QED
    BY <1>2, <2>1, TryStep DEF Again
<1>3. CASE TickInterrupt
  BY <1>3, UnchangedStep, StaysOut DEF TickInterrupt
<1>4. ASSUME NEW q \in FromISR, SendFromISR(q) \/ ReceiveFromISR(q)
      PROVE  QueueStep /\ CallsOK'
  BY <1>4, HandlerStep, QueueAssumption
<1>5. QED
  BY <1>1, <1>2, <1>3, <1>4, StartStep, PlainStep, AsideSteps DEF Next

LEMMA QueuesStay ==
  ASSUME Queues, QueueStep
  PROVE  Queues'
<1>1. \A q \in Queue : IsQueue(q, queue'[q])
  BY DEF Queues, QueueStep, Keeps, Puts, Gets, Others
<1>2. QED
  BY <1>1 DEF Queues, QueueStep

\* The inductive invariant: the types and the agreement of the two indices.
LEMMA RingInvIs == RingInv <=> Queues /\ CallsOK
BY DEF RingInv, TypeOK, IndicesAgree, Queues, CallsOK, IsQueue

LEMMA InitQueues == Init => Queues /\ CallsOK
<1> SUFFICES ASSUME Init PROVE Queues /\ CallsOK
  OBVIOUS
<1>1. ASSUME NEW q \in Queue
      PROVE  IsQueue(q, NewQueue(q))
  <2>1. PICK L \in Nat \ {0} : L = Length[q]
    BY RingIs
  <2>2. NewQueue(q) \in QueueRecord(q)
    BY <2>1 DEF NewQueue, QueueRecord
  <2>3. Ring(q, L - 1 + 1 + 0) = 0
    <3>1. L \in 0 .. 2 * L /\ L - 1 + 1 + 0 = L
      OBVIOUS
    <3>2. QED
      BY <2>1, <3>1, RingIs
  <2>4. QED
    BY <2>1, <2>2, <2>3 DEF IsQueue, NewQueue
<1>2. Queues
  BY <1>1 DEF Init, Queues
<1>3. CallsOK
  BY DEF Init, CallsOK
<1>4. QED
  BY <1>2, <1>3

\* The queues and the calls keep their types, and the index at which the next item
\* is written is always the one after the last item (queue.c prvCopyDataToQueue,
\* prvCopyDataFromQueue), however tasks and handlers interleave.
THEOREM RingInvariance == Spec => [](TypeOK /\ IndicesAgree)
<1>1. Init => RingInv
  BY InitQueues, RingInvIs
<1>2. RingInv /\ [Next]_vars => RingInv'
  <2> SUFFICES ASSUME RingInv, [Next]_vars PROVE RingInv'
    OBVIOUS
  <2>1. Queues' /\ CallsOK'
    BY RingInvIs, AnyStep, QueuesStay
  <2>2. QED
    BY <2>1 DEF RingInv, TypeOK, IndicesAgree, Queues, CallsOK, IsQueue, QueueRecord, Ring,
                IsCall, Sends
<1>3. QED
  BY <1>1, <1>2, PTL DEF Spec, RingInv

\* Whatever tasks and handlers do to the queues of the program, in whatever order, the
\* items of each are those of a bounded queue: what is taken is the first item of
\* those sent and not yet taken, nothing is lost or taken twice, no more than Length
\* items are kept.
THEOREM Refinement == Spec => IsBoundedQueue
<1>1. Init => Promise!Init
  <2> SUFFICES ASSUME Init, NEW q \in Queue
               PROVE  Contents(q) \in Seq(Item[q]) /\ Len(Contents(q)) <= Length[q]
    BY DEF Promise!Init
  <2>1. PICK L \in Nat \ {0} : L = Length[q]
    BY RingIs
  <2>2. queue[q] = NewQueue(q) /\ IsQueue(q, queue[q])
    BY InitQueues DEF Init, Queues
  <2>3. CASE Kind[q] = "data"
    <3>1. Contents(q) \in [1 .. 0 -> Item[q]]
      BY <2>2, <2>3 DEF Contents, ItemsOf, NewQueue
    <3>2. QED
      BY <2>1, <3>1, IsSeq, 0 \in Nat
  <2>4. CASE Kind[q] # "data"
    <3>1. Contents(q) \in [1 .. 1 -> Item[q]]
      BY <2>2, <2>4, QueueAssumption DEF Contents, ItemsOf, NewQueue
    <3>2. QED
      <4>1. Contents(q) \in Seq(Item[q]) /\ Len(Contents(q)) = 1
        BY <3>1, IsSeq, 1 \in Nat
      <4>2. QED
        BY <2>1, <4>1
  <2>5. QED
    BY <2>3, <2>4
<1>2. RingInv /\ [Next]_vars => [Promise!Next]_([q \in Queue |-> Contents(q)])
  <2> SUFFICES ASSUME RingInv, [Next]_vars
               PROVE  [Promise!Next]_([q \in Queue |-> Contents(q)])
    OBVIOUS
  <2>1. Queues /\ QueueStep
    BY RingInvIs, AnyStep
  <2> DEFINE items == [q \in Queue |-> Contents(q)]
             after == [q \in Queue |-> ItemsOf(q, queue'[q])]
  <2>2. items' = after
    BY DEF Contents, ItemsOf, Ring
  <2>3. CASE Keeps
    BY <2>2, <2>3 DEF Keeps
  <2>4. ASSUME NEW q \in Queue, Puts(q)
        PROVE  Promise!Send(q)
    <3>1. PICK x \in Item[q] : \/ ItemsOf(q, queue'[q]) = Append(Contents(q), x)
                               \/ ItemsOf(q, queue'[q]) = <<x>> \o Contents(q)
      BY <2>4 DEF Puts
    <3>2. Len(items[q]) < Length[q]
      <4>1. IsQueue(q, queue[q])
        BY <2>1 DEF Queues
      <4>2. queue[q].count \in Nat /\ Contents(q) \in [1 .. queue[q].count -> Item[q] \cup {NoItem}]
        BY <4>1, QueueFields, ItemsAre, RingIs DEF Contents
      <4>3. Len(Contents(q)) = queue[q].count
        BY <4>2, IsSeq
      <4>4. QED
        BY <2>4, <4>3 DEF Puts
    <3>3. \A p \in Queue \ {q} : ItemsOf(p, queue'[p]) = Contents(p)
      BY <2>4 DEF Puts, Others, Contents
    <3>4. \/ after = [items EXCEPT ![q] = Append(items[q], x)]
          \/ after = [items EXCEPT ![q] = <<x>> \o items[q]]
      BY <3>1, <3>3
    <3> HIDE DEF after
    <3>5. QED
      BY <2>2, <3>2, <3>4 DEF Promise!Send
  <2>5. ASSUME NEW q \in Queue, Gets(q)
        PROVE  Promise!Receive(q)
    <3>1. \A p \in Queue \ {q} : ItemsOf(p, queue'[p]) = Contents(p)
      BY <2>5 DEF Gets, Others, Contents
    <3>2. after = [items EXCEPT ![q] = Tail(items[q])] /\ items[q] # <<>>
      BY <2>5, <3>1 DEF Gets
    <3> HIDE DEF after
    <3>3. QED
      BY <2>2, <3>2 DEF Promise!Receive
  <2>6. QED
    BY <2>1, <2>3, <2>4, <2>5 DEF QueueStep, Promise!Next
<1>3. QED
  BY <1>1, <1>2, RingInvariance, PTL DEF Spec, RingInv, IsBoundedQueue, Promise!Spec

-----------------------------------------------------------------------------
(* What is locked while, who holds what, and who runs above its own priority.  *)
(* The inductive invariant relates the queues to where each task is in queue.c *)

\* The scheduler is suspended while its current task is between the two calls.
Suspension ==
  /\ kernel.suspendDepth \in {0, 1}
  /\ kernel.suspendDepth = 1 => kernel.current \in Task
  /\ \A t \in Task : pc[t] \in Locking <=> kernel.suspendDepth = 1 /\ kernel.current = t

\* A queue is locked by the task that has yet to unlock it.
TxLocking == {"check", "test", "place", "unlockTx"}
RxLocking == TxLocking \cup {"unlockRx"}
Within(q, S) == \E t \in Task : pc[t] \in S /\ call[t].queue = q
LocksOK ==
  \A q \in Queue : /\ queue[q].txLock # Unlocked <=> Within(q, TxLocking)
                   /\ queue[q].rxLock # Unlocked <=> Within(q, RxLocking)

\* A mutex is free exactly when nobody holds it.
MutexOK(q, r) ==
  /\ Kind[q] = "mutex" => /\ r.count = 0 <=> r.holder # NoTask
                          /\ r.count = 0 <=> r.depth > 0
  /\ Kind[q] # "mutex" => r.holder = NoTask
Mutexes == \A q \in Queue : MutexOK(q, queue[q])

\* Only takers wait at a mutex, and it is held by another task when they are placed.
Takers ==
  \A t \in Task : pc[t] # "run" /\ Kind[call[t].queue] = "mutex" =>
    /\ ~Sends(call[t])
    /\ pc[t] = "place" => queue[call[t].queue].count = 0

Held(t) == \E q \in Queue : queue[q].holder = t
Boosts == \A t \in Boosted(kernel) : Held(t)

KernelInv ==
  /\ IsKernel(kernel) /\ Suspension /\ LocksOK /\ Mutexes /\ Takers /\ Boosts

LEMMA KernelInvImplies ==
  ASSUME Queues, CallsOK, KernelInv
  PROVE  QueueInv
<1>1. \A q \in Queue : queue[q].count \in 0 .. Length[q]
  BY QueueFields DEF Queues
<1>2. ASSUME NEW q \in Queue, kernel.suspendDepth = 0
      PROVE  queue[q].txLock = Unlocked /\ queue[q].rxLock = Unlocked
  <2>1. \A t \in Task : pc[t] \notin Locking
    BY <1>2 DEF KernelInv, Suspension
  <2>2. ~Within(q, TxLocking) /\ ~Within(q, RxLocking)
    BY <2>1 DEF Within, TxLocking, RxLocking, Locking
  <2>3. QED
    BY <2>2 DEF KernelInv, LocksOK
<1>3. ASSUME NEW t \in Task, kernel.priority[t] # kernel.base[t]
      PROVE  \E q \in Queue : queue[q].holder = t
  BY <1>3 DEF KernelInv, Boosts, Boosted, AnyTask, Held
<1>4. QED
  BY <1>1, <1>2, <1>3 DEF QueueInv, KernelInv, Mutexes, MutexOK

-----------------------------------------------------------------------------
(* How each part of it outlives a step *)

LEMMA SuspensionStays ==
  ASSUME Suspension, kernel'.suspendDepth = kernel.suspendDepth,
         kernel.suspendDepth > 0 => kernel'.current = kernel.current,
         \A t \in Task : pc'[t] \in Locking <=> pc[t] \in Locking
  PROVE  Suspension'
BY DEF Suspension

SameLocks(p) ==
  /\ queue'[p].txLock = Unlocked <=> queue[p].txLock = Unlocked
  /\ queue'[p].rxLock = Unlocked <=> queue[p].rxLock = Unlocked

LEMMA LocksStay ==
  ASSUME LocksOK, \A q \in Queue : SameLocks(q),
         \A t \in Task : /\ pc'[t] \in TxLocking <=> pc[t] \in TxLocking
                         /\ pc'[t] \in RxLocking <=> pc[t] \in RxLocking
                         /\ pc[t] \in RxLocking => call'[t].queue = call[t].queue
  PROVE  LocksOK'
<1>1. TxLocking \subseteq RxLocking
  BY DEF RxLocking
<1>2. ASSUME NEW q \in Queue
      PROVE  /\ Within(q, TxLocking)' <=> Within(q, TxLocking)
             /\ Within(q, RxLocking)' <=> Within(q, RxLocking)
  BY <1>1 DEF Within
<1>3. QED
  BY <1>2 DEF LocksOK, SameLocks

\* Of the counts, holders and depths.
LEMMA TakersStay ==
  ASSUME Takers,
         \A t \in Task : pc'[t] # "run" => pc[t] # "run" /\ call'[t].queue = call[t].queue
                                                         /\ call'[t].op = call[t].op,
         \A t \in Task : pc'[t] = "place" /\ Kind[call'[t].queue] = "mutex" =>
                           queue'[call'[t].queue].count = 0
  PROVE  Takers'
BY DEF Takers, Sends

HoldersStay == \A q \in Queue : queue[q].holder # NoTask => queue'[q].holder = queue[q].holder

LEMMA BoostsStay ==
  ASSUME Boosts, HoldersStay, Boosted(kernel') \subseteq Boosted(kernel)
  PROVE  Boosts'
<1>1. \A t \in Boosted(kernel) : t # NoTask
  BY KernelAssumption DEF Boosted, AnyTask
<1>2. QED
  BY <1>1 DEF Boosts, HoldersStay, Boosted, Held

LEMMA PutMutex ==
  ASSUME NEW q \in Queue, IsQueue(q, queue[q]), MutexOK(q, queue[q]),
         queue[q].count # Length[q], NEW x, NEW front \in BOOLEAN
  PROVE  LET s == CopyTo(q, x, front)
         IN  /\ MutexOK(q, s) /\ s.holder \in {queue[q].holder, NoTask}
             /\ s.txLock = queue[q].txLock /\ s.rxLock = queue[q].rxLock
             /\ Kind[q] # "mutex" => s.holder = queue[q].holder
<1> DEFINE r == queue[q]
           s == CopyTo(q, x, front)
<1>1. /\ s.count = r.count + 1
      /\ s.txLock = r.txLock /\ s.rxLock = r.rxLock
      /\ Kind[q] # "data" => s.holder = NoTask /\ s.depth = 0
      /\ Kind[q] = "data" => s.holder = r.holder
  BY DEF CopyTo, IsQueue, QueueRecord
<1>2. r.count \in Nat
  BY QueueFields, RingIs
<1> HIDE DEF r, s
<1>3. MutexOK(q, s)
  BY <1>1, <1>2 DEF MutexOK, r
<1>4. QED
  BY <1>1, <1>3 DEF MutexOK, r, s

LEMMA GetMutex ==
  ASSUME NEW q \in Queue, IsQueue(q, queue[q]), MutexOK(q, queue[q]),
         queue[q].count # 0, NEW t, t \in Task \/ Kind[q] # "mutex"
  PROVE  LET s == CopyFrom(q, t)
         IN  /\ MutexOK(q, s)
             /\ queue[q].holder # NoTask => s.holder = queue[q].holder
             /\ s.txLock = queue[q].txLock /\ s.rxLock = queue[q].rxLock
<1> DEFINE r == queue[q]
           s == CopyFrom(q, t)
<1>1. /\ s.count = r.count - 1
      /\ s.txLock = r.txLock /\ s.rxLock = r.rxLock
      /\ Kind[q] = "mutex" => s.holder = t /\ s.depth = 1
      /\ Kind[q] # "mutex" => s.holder = r.holder
  BY DEF CopyFrom, IsQueue, QueueRecord
<1>2. r.count \in 0 .. Length[q] /\ (Kind[q] = "mutex" => Length[q] = 1)
  BY QueueFields, QueueAssumption
<1>3. t \in Task => t # NoTask
  BY KernelAssumption
<1> HIDE DEF r, s
<1>4. MutexOK(q, s)
  <2>1. Kind[q] = "mutex" => r.count = 1 /\ r.count - 1 = 0
    BY <1>2 DEF r
  <2>2. QED
    BY <1>1, <1>3, <2>1 DEF MutexOK, r
<1>5. QED
  BY <1>1, <1>4 DEF MutexOK, r, s

-----------------------------------------------------------------------------
(* What queue.c has the scheduler do *)

LEMMA WakeOnePreserves ==
  ASSUME NEW k, IsKernel(k), NEW e
  PROVE  Preserves(k, WakeOne(k, e))
<1> DEFINE l == RemoveFromEventList(k, e)
           m == YieldIf(WantsYield(k, e), l)
<1>1. WakeOne(k, e) = IF k.event[e] = <<>> THEN k ELSE m
  BY DEF WakeOne
<1>2. Preserves(k, l)
  BY RemoveFromEventListPreserves
<1>3. Preserves(l, m)
  BY <1>2, YieldIfPreserves DEF Preserves
<1> HIDE DEF l, m
<1>4. QED
  BY <1>1, <1>2, <1>3, PreservesIsOrder

\* One turn of prvUnlockQueue.
Woken(k, e) ==
  IF k.event[e] = <<>> THEN k
  ELSE [RemoveFromEventList(k, e) EXCEPT !.missedYield = @ \/ WantsYield(k, e)]

LEMMA WokenPreserves ==
  ASSUME NEW k, IsKernel(k), NEW e
  PROVE  Preserves(k, Woken(k, e))
<1> DEFINE l == RemoveFromEventList(k, e)
           m == [l EXCEPT !.missedYield = @ \/ WantsYield(k, e)]
<1>1. Woken(k, e) = IF k.event[e] = <<>> THEN k ELSE m
  BY DEF Woken
<1>2. Preserves(k, l)
  BY RemoveFromEventListPreserves
<1> HIDE DEF l
<1>3. /\ m = [x \in Fields |-> m[x]]
      /\ m.priority = l.priority /\ m.base = l.base /\ m.suspendDepth = l.suspendDepth
      /\ m.current = l.current /\ m.pending = l.pending
      /\ m.missedTicks = l.missedTicks /\ m.delayed = l.delayed /\ m.overflow = l.overflow
  BY <1>2 DEF IsKernel, Preserves, Fields
<1> HIDE DEF m
<1>4. Preserves(k, m)
  BY <1>2, <1>3 DEF IsKernel, Preserves
<1>5. QED
  BY <1>1, <1>4, PreservesIsOrder

LEMMA WakeManyRuns ==
  ASSUME NEW k, NEW e, NEW N \in Nat
  PROVE  \E after : /\ after[0] = k /\ WakeMany(k, e, N) = after[N]
                     /\ \A n \in 0 .. N - 1 : after[n + 1] = Woken(after[n], e)
<1> DEFINE Runs(h, n) == h = [i \in 0 .. n |-> IF i = 0 THEN k ELSE Woken(h[i - 1], e)]
           after == CHOOSE h : Runs(h, N)
<1>1. WakeMany(k, e, N) = after[N]
  BY DEF WakeMany, Woken
<1>2. \E h : Runs(h, N)
  <2> DEFINE E == {n \in Nat : \E h : Runs(h, n)}
  <2>1. 0 \in E
    <3>1. Runs([i \in 0 .. 0 |-> k], 0)
      OBVIOUS
    <3>2. QED
      BY <3>1
  <2>2. ASSUME NEW n \in E PROVE n + 1 \in E
    <3>1. PICK h : Runs(h, n)
      OBVIOUS
    <3> DEFINE g == [i \in 0 .. n + 1 |-> IF i <= n THEN h[i] ELSE Woken(h[n], e)]
    <3>2. Runs(g, n + 1)
      <4>1. ASSUME NEW i \in 0 .. n + 1
            PROVE  g[i] = IF i = 0 THEN k ELSE Woken(g[i - 1], e)
        BY <3>1
      <4>2. QED
        BY <4>1
    <3> HIDE DEF g
    <3>3. n + 1 \in Nat /\ \E f : Runs(f, n + 1)
      BY <3>2
    <3>4. QED
      BY <3>3
  <2>3. E = Nat
    <3> HIDE DEF E
    <3>1. E \in SUBSET Nat
      BY DEF E
    <3>2. QED
      BY <2>1, <2>2, <3>1, SetInduction
  <2>4. QED
    BY <2>3
<1>3. Runs(after, N)
  BY <1>2
<1> HIDE DEF after
<1>4. after[0] = k /\ \A n \in 0 .. N - 1 : after[n + 1] = Woken(after[n], e)
  BY <1>3
<1>5. QED
  BY <1>1, <1>4

LEMMA WakeManyPreserves ==
  ASSUME NEW k, IsKernel(k), NEW e, NEW N \in Nat
  PROVE  Preserves(k, WakeMany(k, e, N))
<1>1. PICK after : /\ after[0] = k /\ WakeMany(k, e, N) = after[N]
                   /\ \A n \in 0 .. N - 1 : after[n + 1] = Woken(after[n], e)
  BY ONLY WakeManyRuns, N \in Nat
<1> DEFINE S == {n \in Nat : n <= N => Preserves(k, after[n])}
<1>2. 0 \in S
  BY <1>1, PreservesIsOrder
<1>3. ASSUME NEW n \in S PROVE n + 1 \in S
  <2>1. SUFFICES ASSUME n + 1 <= N PROVE Preserves(k, after[n + 1])
    OBVIOUS
  <2>2. Preserves(k, after[n])
    BY <2>1
  <2>3. after[n + 1] = Woken(after[n], e)
    BY <1>1, <2>1
  <2>4. Preserves(after[n], after[n + 1])
    BY <2>2, <2>3, WokenPreserves DEF Preserves
  <2>5. QED
    BY <2>2, <2>4, PreservesIsOrder
<1>4. S = Nat
  <2> HIDE DEF S
  <2>1. S \in SUBSET Nat
    BY DEF S
  <2>2. QED
    BY <1>2, <1>3, <2>1, SetInduction
<1>5. QED
  BY <1>1, <1>4

-----------------------------------------------------------------------------
(* The steps *)

\* A task moves on outside of the part in which the scheduler is suspended.
LEMMA MoveOutside ==
  ASSUME CallsOK, KernelInv, NEW t \in Task, NEW l, Goto(t, l),
         pc[t] \notin Locking, l \notin Locking,
         NEW c, call' = [call EXCEPT ![t] = c],
         l # "run" /\ Kind[c.queue] = "mutex" => ~Sends(c),
         NEW B, Goes(kernel, kernel', B),
         \A q \in Queue : SameLocks(q), kernel.current = t
  PROVE  IsKernel(kernel') /\ Suspension' /\ LocksOK' /\ Takers'
<1>1. /\ pc'[t] = l /\ \A u \in Task \ {t} : pc'[u] = pc[u]
      /\ call'[t] = c /\ \A u \in Task \ {t} : call'[u] = call[u]
  BY DEF CallsOK, Goto
<1>2. RxLocking \subseteq Locking /\ TxLocking \subseteq Locking /\ "place" \in Locking
  BY DEF RxLocking, TxLocking, Locking
<1>3. Suspension'
  <2>1. \A u \in Task : pc'[u] \in Locking <=> pc[u] \in Locking
    BY <1>1
  <2>2. QED
    BY <2>1, SuspensionStays DEF Goes, KernelInv
<1>4. LocksOK'
  BY <1>1, <1>2, LocksStay DEF KernelInv
<1>5. Takers'
  <2>1. \A u \in Task : pc'[u] # "place"
    BY <1>1, <1>2 DEF KernelInv, Suspension
  <2>2. QED
    BY <1>1, <2>1 DEF Takers, KernelInv, Sends
<1>6. QED
  BY <1>3, <1>4, <1>5 DEF Goes

\* A call that does what it is for, and wakes one who waits for that.
LEMMA TransferInv ==
  ASSUME Queues, CallsOK, KernelInv, NEW t \in Task, NEW c, IsCall(c), ~Blocking(c),
         Transfer(t, c)
  PROVE  /\ Goes(kernel, kernel', Boosted(kernel))
         /\ \A q \in Queue : SameLocks(q)
         /\ Mutexes' /\ Boosts'
<1> DEFINE q == c.queue
           k == IF Sends(c) THEN PriorityDisinherit(kernel, queue[q].holder) ELSE kernel
           B == IF Sends(c) THEN Boosted(kernel) \ {queue[q].holder} ELSE Boosted(kernel)
<1>1. /\ q \in Queue /\ IsQueue(q, queue[q]) /\ MutexOK(q, queue[q])
      /\ c.op \in {"send", "sendFront", "receive", "peek"}
      /\ Sends(c) => c.item \in Item[q]
  BY DEF IsCall, Queues, KernelInv, Mutexes
<1>2. Goes(kernel, kernel', B)
  <2>1. queue[q].holder \in AnyTask \cup {NoTask}
    BY <1>1, QueueFields DEF AnyTask
  <2>2. Goes(kernel, k, B)
    <3>1. CASE Sends(c)
      BY <2>1, <3>1, PriorityDisinheritGoes DEF KernelInv
    <3>2. CASE ~Sends(c)
      BY <3>2 DEF Goes, KernelInv
    <3>3. QED
      BY <3>1, <3>2
  <2>3. kernel' = WakeOne(k, Wakes(c))
    BY DEF Transfer
  <2> HIDE DEF k, B
  <2>4. Preserves(k, kernel')
    BY <2>2, <2>3, WakeOnePreserves DEF Goes
  <2>5. QED
    BY <2>2, <2>4, GoesThenPreserves
<1>3. Goes(kernel, kernel', Boosted(kernel))
  BY <1>2 DEF Goes
<1> DEFINE new == CASE Sends(c) -> CopyTo(q, c.item, c.op = "sendFront")
                    [] c.op = "receive" -> CopyFrom(q, t)
                    [] c.op = "peek" -> queue[q]
<1>4. queue' = [queue EXCEPT ![q] = new]
  BY DEF Transfer
<1>5. /\ Sends(c) => new = CopyTo(q, c.item, c.op = "sendFront")
      /\ c.op = "receive" => new = CopyFrom(q, t)
      /\ c.op = "peek" => new = queue[q]
  <2> HIDE DEF q
  <2>1. QED
    BY DEF Sends
<1> HIDE DEF new, k
<1>6. queue'[q] = new /\ \A p \in Queue \ {q} : queue'[p] = queue[p]
  BY <1>1, <1>4 DEF Queues
<1>7. /\ MutexOK(q, new)
      /\ new.txLock = queue[q].txLock /\ new.rxLock = queue[q].rxLock
      /\ \/ Sends(c) /\ new.holder \in {queue[q].holder, NoTask}
         \/ ~Sends(c) /\ (queue[q].holder # NoTask => new.holder = queue[q].holder)
  <2>1. CASE Sends(c)
    <3>1. queue[q].count # Length[q] /\ (c.op = "sendFront") \in BOOLEAN
      BY <2>1 DEF Blocking
    <3> DEFINE s == CopyTo(q, c.item, c.op = "sendFront")
    <3> HIDE DEF q
    <3>2. /\ MutexOK(q, s) /\ s.holder \in {queue[q].holder, NoTask}
          /\ s.txLock = queue[q].txLock /\ s.rxLock = queue[q].rxLock
      BY <1>1, <3>1, PutMutex
    <3>3. new = s
      BY <1>5, <2>1
    <3> HIDE DEF s
    <3>4. QED
      BY <2>1, <3>2, <3>3
  <2>2. CASE c.op = "receive"
    <3>1. queue[q].count # 0 /\ ~Sends(c)
      BY <2>2 DEF Blocking, Sends
    <3> HIDE DEF q
    <3>2. QED
      BY <1>1, <1>5, <2>2, <3>1, GetMutex
  <2>3. CASE c.op = "peek"
    BY <1>1, <1>5, <2>3 DEF Sends
  <2>4. QED
    BY <1>1, <2>1, <2>2, <2>3 DEF Sends
<1> HIDE DEF q
<1>8. Mutexes'
  <2>1. \A p \in Queue : MutexOK(p, queue'[p])
    BY <1>1, <1>6, <1>7 DEF KernelInv, Mutexes
  <2>2. QED
    BY <2>1 DEF Mutexes, MutexOK
<1>9. Boosts'
  <2>1. \A u \in B : u # NoTask /\ Held(u)
    BY KernelAssumption DEF KernelInv, Boosts, Boosted, AnyTask
  <2>2. ASSUME NEW u \in B
        PROVE  \E p \in Queue : queue'[p].holder = u
    <3>1. PICK p \in Queue : queue[p].holder = u
      BY <2>1 DEF Held
    <3>2. CASE p # q
      BY <1>6, <3>1, <3>2
    <3>3. CASE p = q
      <4>1. ~Sends(c)
        BY <2>2, <3>1, <3>3
      <4>2. QED
        BY <1>6, <1>7, <2>1, <3>1, <3>3, <4>1
    <3>4. QED
      BY <3>2, <3>3
  <2> HIDE DEF B
  <2>3. Boosted(kernel') \subseteq B
    BY <1>2 DEF Goes
  <2>4. QED
    BY <2>2, <2>3 DEF Boosts, Boosted, Held
<1>10. \A p \in Queue : SameLocks(p)
  BY <1>1, <1>6, <1>7 DEF SameLocks
<1>11. QED
  BY <1>3, <1>8, <1>9, <1>10

\* The first critical section of the loop.
LEMMA TryInv ==
  ASSUME Queues, CallsOK, KernelInv, NEW t \in Task, NEW c, IsCall(c), Try(t, c),
         pc[t] \in {"run", "try"},
         Blocking(c) /\ Kind[c.queue] = "mutex" => ~Sends(c)
  PROVE  KernelInv'
<1>1. kernel.current = t /\ pc[t] \notin Locking /\ "run" \notin Locking /\ "suspend" \notin Locking
  BY DEF Try, Locking
<1>2. CASE ~Blocking(c) /\ Transfer(t, c) /\ Return(t)
  <2>1. /\ Goes(kernel, kernel', Boosted(kernel))
        /\ \A q \in Queue : SameLocks(q)
        /\ Mutexes' /\ Boosts'
    BY <1>2, TransferInv
  <2>2. IsKernel(kernel') /\ Suspension' /\ LocksOK' /\ Takers'
    BY <1>1, <1>2, <2>1, MoveOutside DEF Return
  <2>3. QED
    BY <2>1, <2>2 DEF KernelInv, IsKernel
<1>3. ASSUME UNCHANGED <<kernel, queue>>
      PROVE  /\ Goes(kernel, kernel', Boosted(kernel))
             /\ \A q \in Queue : SameLocks(q)
             /\ Mutexes' /\ Boosts'
  <2>1. Goes(kernel, kernel', Boosted(kernel))
    BY <1>3 DEF Goes, KernelInv
  <2>2. QED
    BY <1>3, <2>1 DEF KernelInv, SameLocks, Mutexes, MutexOK, Boosts, Boosted, Held
<1>4. CASE Blocking(c) /\ c.ticks = 0 /\ Return(t) /\ UNCHANGED <<kernel, queue>>
  <2>1. IsKernel(kernel') /\ Suspension' /\ LocksOK' /\ Takers'
    BY <1>1, <1>3, <1>4, MoveOutside DEF Return
  <2>2. QED
    BY <1>3, <1>4, <2>1 DEF KernelInv, IsKernel
<1>5. CASE /\ Blocking(c) /\ c.ticks > 0
           /\ call' = [call EXCEPT ![t] = c]
           /\ Goto(t, "suspend")
           /\ UNCHANGED <<kernel, queue>>
  <2>1. IsKernel(kernel') /\ Suspension' /\ LocksOK' /\ Takers'
    BY <1>1, <1>3, <1>5, MoveOutside
  <2>2. QED
    BY <1>3, <1>5, <2>1 DEF KernelInv, IsKernel
<1>6. QED
  BY <1>2, <1>4, <1>5 DEF Try

LEMMA StartInv ==
  ASSUME Queues, CallsOK, KernelInv, NEW t \in Task, Start(t)
  PROVE  KernelInv'
<1>1. PICK c \in Calls(t) :
        Try(t, [op |-> c.op, queue |-> c.queue, item |-> c.item, limit |-> c.limit,
                ticks |-> c.limit, timeOut |-> TimeOutNow(kernel), then |-> "again"])
  BY DEF Start
<1> DEFINE d == [op |-> c.op, queue |-> c.queue, item |-> c.item, limit |-> c.limit,
                 ticks |-> c.limit, timeOut |-> TimeOutNow(kernel), then |-> "again"]
           q == c.queue
<1>2. /\ c.op \in {"send", "sendFront", "receive", "peek"} /\ q \in Queue
      /\ c.item \in IF Sends(c) THEN Item[q] ELSE {NoItem}
      /\ Kind[q] = "mutex" => (Sends(c) <=> queue[q].holder = t)
  BY DEF Calls
<1>3. IsCall(d) /\ (Sends(d) <=> Sends(c)) /\ d.queue = q
  BY <1>2 DEF IsCall, Sends
<1>4. ASSUME Blocking(d), Kind[q] = "mutex", Sends(d)
      PROVE  FALSE
  <2>1. queue[q].holder = t /\ t # NoTask
    BY <1>2, <1>3, <1>4, KernelAssumption
  <2>2. queue[q].count = 0
    BY <1>2, <1>4, <2>1 DEF KernelInv, Mutexes, MutexOK
  <2>3. queue[q].count = Length[q] /\ Length[q] = 1
    BY <1>2, <1>3, <1>4, QueueAssumption DEF Blocking
  <2>4. QED
    BY <2>2, <2>3
<1>5. pc[t] = "run" /\ Try(t, d)
  BY <1>1 DEF Start
<1> HIDE DEF d
<1>6. QED
  BY <1>3, <1>4, <1>5, TryInv

LEMMA AgainInv ==
  ASSUME Queues, CallsOK, KernelInv, NEW t \in Task, Again(t)
  PROVE  KernelInv'
<1>1. pc[t] = "try" /\ Try(t, call[t]) /\ IsCall(call[t])
  BY DEF Again, CallsOK
<1>2. Kind[call[t].queue] = "mutex" => ~Sends(call[t])
  BY <1>1 DEF KernelInv, Takers
<1>3. QED
  BY <1>1, <1>2, TryInv

\* Nothing but the scheduler: who holds and who locks what stays as it is.
LEMMA QueuesAlone ==
  ASSUME KernelInv, UNCHANGED queue
  PROVE  (\A q \in Queue : SameLocks(q)) /\ Mutexes' /\ HoldersStay
BY DEF KernelInv, Mutexes, MutexOK, SameLocks, HoldersStay

\* Takes and gives of a mutex that stay within its holder.
LEMMA DepthInv ==
  ASSUME Queues, CallsOK, KernelInv, NEW t \in Task, TakeAgain(t) \/ GiveOne(t)
  PROVE  KernelInv'
<1>1. PICK q \in Queue, d \in Nat :
        /\ queue[q].holder = t /\ d > 0
        /\ queue' = [queue EXCEPT ![q] = [queue[q] EXCEPT !.depth = d]]
  <2>1. CASE TakeAgain(t)
    <3>1. PICK q \in Queue : queue[q].holder = t /\ queue' = [queue EXCEPT ![q].depth = @ + 1]
      BY <2>1 DEF TakeAgain
    <3>2. queue[q].depth \in Nat
      BY QueueFields DEF Queues
    <3>3. queue[q].depth + 1 \in Nat /\ queue[q].depth + 1 > 0
      BY <3>2
    <3>4. queue' = [queue EXCEPT ![q] = [queue[q] EXCEPT !.depth = queue[q].depth + 1]]
      BY <3>1
    <3>5. QED
      BY <3>1, <3>3, <3>4
  <2>2. CASE GiveOne(t)
    <3>1. PICK q \in Queue : /\ queue[q].holder = t /\ queue[q].depth > 1
                             /\ queue' = [queue EXCEPT ![q].depth = @ - 1]
      BY <2>2 DEF GiveOne
    <3>2. queue[q].depth \in Nat
      BY QueueFields DEF Queues
    <3>3. queue[q].depth - 1 \in Nat /\ queue[q].depth - 1 > 0
      BY <3>1, <3>2
    <3>4. queue' = [queue EXCEPT ![q] = [queue[q] EXCEPT !.depth = queue[q].depth - 1]]
      BY <3>1
    <3>5. QED
      BY <3>1, <3>3, <3>4
  <2>3. QED
    BY <2>1, <2>2
<1> DEFINE s == [queue[q] EXCEPT !.depth = d]
<1>2. /\ s.depth = d /\ s.count = queue[q].count /\ s.holder = queue[q].holder
      /\ s.txLock = queue[q].txLock /\ s.rxLock = queue[q].rxLock
  BY DEF Queues, IsQueue, QueueRecord
<1> HIDE DEF s
<1>3. queue'[q] = s /\ \A p \in Queue \ {q} : queue'[p] = queue[p]
  BY <1>1 DEF Queues, s
<1>4. (\A p \in Queue : SameLocks(p)) /\ HoldersStay
  BY <1>2, <1>3 DEF SameLocks, HoldersStay
<1>5. Mutexes'
  <2>1. t # NoTask
    BY KernelAssumption
  <2>2. MutexOK(q, s)
    BY <1>1, <1>2, <2>1 DEF KernelInv, Mutexes, MutexOK
  <2>3. \A p \in Queue : MutexOK(p, queue'[p])
    BY <1>3, <2>2 DEF KernelInv, Mutexes
  <2>4. QED
    BY <2>3 DEF Mutexes, MutexOK
<1>6. UNCHANGED <<kernel, pc, call>>
  BY DEF TakeAgain, GiveOne
<1>7. IsKernel(kernel') /\ Suspension' /\ Boosts'
  BY <1>4, <1>6, BoostsStay DEF KernelInv, IsKernel, Suspension
<1>8. LocksOK'
  BY <1>4, <1>6, LocksStay DEF KernelInv
<1>9. Takers'
  <2>1. \A p \in Queue : queue'[p].count = queue[p].count
    BY <1>2, <1>3
  <2>2. ASSUME NEW u \in Task, pc[u] # "run"
        PROVE  queue'[call[u].queue].count = queue[call[u].queue].count
    BY <2>1, <2>2 DEF CallsOK, IsCall
  <2>3. QED
    BY <1>6, <2>2 DEF KernelInv, Takers, Sends
<1>10. QED
  BY <1>5, <1>7, <1>8, <1>9 DEF KernelInv, IsKernel

\* The scheduler does something, and nobody moves in queue.c.
LEMMA KernelMoves ==
  ASSUME KernelInv, Goes(kernel, kernel', Boosted(kernel)), UNCHANGED <<queue, pc, call>>
  PROVE  KernelInv'
<1>1. (\A q \in Queue : SameLocks(q)) /\ Mutexes' /\ HoldersStay
  BY QueuesAlone
<1>2. Suspension'
  BY SuspensionStays DEF KernelInv, Goes
<1>3. LocksOK'
  BY <1>1, LocksStay DEF KernelInv
<1>4. Takers'
  BY DEF KernelInv, Takers, Sends
<1>5. Boosts'
  BY <1>1, BoostsStay DEF KernelInv, Goes
<1>6. QED
  BY <1>1, <1>2, <1>3, <1>4, <1>5 DEF KernelInv, Goes, IsKernel

LEMMA SetPriorityInv ==
  ASSUME KernelInv, NEW t \in Task, SetPriority(t)
  PROVE  KernelInv'
<1>1. PICK u \in Task, p \in Priority : kernel' = PrioritySet(kernel, u, p)
  BY DEF SetPriority
<1>2. Goes(kernel, kernel', Boosted(kernel))
  BY <1>1, PrioritySetGoes DEF KernelInv, AnyTask
<1>3. QED
  BY <1>2, KernelMoves DEF SetPriority

LEMMA TickInv ==
  ASSUME KernelInv, TickInterrupt
  PROVE  KernelInv'
<1> DEFINE k == IncrementTick(kernel)
<1>1. kernel' = SwitchContext(k)
  BY DEF TickInterrupt
<1>2. Preserves(kernel, k)
  BY IncrementTickPreserves DEF KernelInv
<1> HIDE DEF k
<1>3. Preserves(k, kernel')
  BY <1>1, <1>2, SwitchContextPreserves DEF Preserves
<1>4. Goes(kernel, kernel', Boosted(kernel))
  BY <1>2, <1>3, PreservesIsOrder, PreservesGoes
<1>5. QED
  BY <1>4, KernelMoves DEF TickInterrupt

\* From one part to another in which the scheduler is suspended.
LEMMA MoveWithin ==
  ASSUME CallsOK, KernelInv, NEW t \in Task, NEW l, Goto(t, l),
         pc[t] \in Locking, l \in Locking,
         NEW c, call' = [call EXCEPT ![t] = c], c.queue = call[t].queue, c.op = call[t].op,
         NEW B, Goes(kernel, kernel', B)
  PROVE  /\ IsKernel(kernel') /\ Suspension'
         /\ pc'[t] = l /\ \A u \in Task : u # t => pc'[u] = pc[u] /\ pc[u] \notin Locking
         /\ call'[t] = c /\ \A u \in Task : call'[u].queue = call[u].queue
         /\ \A u \in Task : call'[u].op = call[u].op
<1>1. /\ pc'[t] = l /\ \A u \in Task \ {t} : pc'[u] = pc[u]
      /\ call'[t] = c /\ \A u \in Task \ {t} : call'[u] = call[u]
  BY DEF CallsOK, Goto
<1>2. \A u \in Task \ {t} : pc[u] \notin Locking
  BY DEF KernelInv, Suspension
<1>3. Suspension'
  <2>1. \A u \in Task : pc'[u] \in Locking <=> pc[u] \in Locking
    BY <1>1
  <2>2. QED
    BY <2>1, SuspensionStays DEF Goes, KernelInv
<1>4. QED
  BY <1>1, <1>2, <1>3 DEF Goes

\* vTaskSuspendAll: until now nobody is in that part.
LEMMA SuspendInv ==
  ASSUME CallsOK, KernelInv, NEW t \in Task, SuspendScheduler(t)
  PROVE  KernelInv'
<1>1. /\ kernel.current = t /\ pc[t] = "suspend" /\ Goto(t, "lock")
      /\ kernel' = SuspendAll(kernel) /\ UNCHANGED <<queue, call>>
  BY DEF SuspendScheduler, Step
<1>2. /\ pc'[t] = "lock" /\ \A u \in Task \ {t} : pc'[u] = pc[u]
  BY <1>1 DEF CallsOK, Goto
<1>3. /\ "suspend" \notin Locking /\ "lock" \in Locking
      /\ "lock" \notin RxLocking /\ "suspend" \notin RxLocking
      /\ "lock" \notin TxLocking /\ "suspend" \notin TxLocking
  BY DEF Locking, RxLocking, TxLocking
<1>4. kernel.suspendDepth = 0 /\ \A u \in Task : pc[u] \notin Locking
  BY <1>1, <1>3 DEF KernelInv, Suspension
<1>5. /\ IsKernel(kernel') /\ kernel'.priority = kernel.priority /\ kernel'.base = kernel.base
      /\ kernel'.suspendDepth = 1 /\ kernel'.current = t
  <2> DEFINE k == SuspendAll(kernel)
  <2>1. /\ IsKernel(k) /\ k.priority = kernel.priority /\ k.base = kernel.base
        /\ k.suspendDepth = kernel.suspendDepth + 1 /\ k.current = kernel.current
    BY SuspendAllPreserves DEF KernelInv
  <2> HIDE DEF k
  <2>2. QED
    BY <1>1, <1>4, <2>1 DEF k
<1>6. Suspension'
  BY <1>2, <1>3, <1>4, <1>5 DEF Suspension
<1>7. (\A q \in Queue : SameLocks(q)) /\ Mutexes' /\ HoldersStay
  BY <1>1, QueuesAlone
<1>8. LocksOK'
  BY <1>1, <1>2, <1>3, <1>7, LocksStay DEF KernelInv
<1>9. Takers'
  BY <1>1, <1>2 DEF KernelInv, Takers, Sends
<1>10. Boosts'
  <2>1. Boosted(kernel') \subseteq Boosted(kernel)
    BY <1>5 DEF Boosted
  <2>2. QED
    BY <1>7, <2>1, BoostsStay DEF KernelInv
<1>11. QED
  BY <1>5, <1>6, <1>7, <1>8, <1>9, <1>10 DEF KernelInv, IsKernel

\* prvLockQueue
LEMMA LockInv ==
  ASSUME Queues, CallsOK, KernelInv, NEW t \in Task, Lock(t)
  PROVE  KernelInv'
<1> DEFINE q == call[t].queue
<1>1. /\ pc[t] = "lock" /\ Goto(t, "check") /\ UNCHANGED <<kernel, call>>
      /\ IsCall(call[t]) /\ q \in Queue
  BY DEF Lock, Step, CallsOK, IsCall
<1>2. call' = [call EXCEPT ![t] = call[t]]
  BY <1>1 DEF CallsOK
<1>3. "lock" \in Locking /\ "check" \in Locking /\ RxLocking \subseteq Locking
      /\ "check" \in TxLocking /\ TxLocking \subseteq RxLocking /\ "lock" \notin RxLocking
  BY DEF Locking, RxLocking, TxLocking
<1>4. Goes(kernel, kernel', Boosted(kernel))
  BY <1>1 DEF KernelInv, Goes
<1>5. /\ IsKernel(kernel') /\ Suspension'
      /\ pc'[t] = "check" /\ \A u \in Task : u # t => pc'[u] = pc[u] /\ pc[u] \notin Locking
      /\ call'[t] = call[t]
  <2>1. PICK c : c = call[t]
    OBVIOUS
  <2>2. /\ call' = [call EXCEPT ![t] = c] /\ c.queue = call[t].queue /\ c.op = call[t].op
        /\ pc[t] \in Locking /\ Goto(t, "check")
    BY <1>1, <1>2, <1>3, <2>1
  <2> HIDE DEF q
  <2>3. QED
    BY <1>3, <1>4, <2>1, <2>2, MoveWithin
<1> DEFINE s == [queue[q] EXCEPT !.rxLock = Max({queue[q].rxLock, 0}),
                                 !.txLock = Max({queue[q].txLock, 0})]
<1>6. queue' = [queue EXCEPT ![q] = s]
  BY DEF Lock
<1>7. /\ s.count = queue[q].count /\ s.holder = queue[q].holder /\ s.depth = queue[q].depth
      /\ s.txLock # Unlocked /\ s.rxLock # Unlocked
  <2>1. /\ s.count = queue[q].count /\ s.holder = queue[q].holder /\ s.depth = queue[q].depth
        /\ s.txLock = Max({queue[q].txLock, 0}) /\ s.rxLock = Max({queue[q].rxLock, 0})
    BY <1>1 DEF Queues, IsQueue, QueueRecord
  <2>2. Max({queue[q].txLock, 0}) \in Nat /\ Max({queue[q].rxLock, 0}) \in Nat
    BY <1>1, QueueFields, LocksAre DEF Queues
  <2> HIDE DEF s
  <2>3. QED
    BY <2>1, <2>2 DEF Unlocked
<1> HIDE DEF s
<1>8. queue'[q] = s /\ \A p \in Queue : p # q => queue'[p] = queue[p]
  BY <1>1, <1>6 DEF Queues
<1>9. LocksOK'
  <2>1. \A p \in Queue : ~Within(p, TxLocking) /\ ~Within(p, RxLocking)
    BY <1>1, <1>3, <1>5 DEF Within
  <2>2. \A p \in Queue \ {q} : queue'[p].txLock = Unlocked /\ queue'[p].rxLock = Unlocked
    BY <1>8, <2>1 DEF KernelInv, LocksOK
  <2>3. ASSUME NEW p \in Queue
        PROVE  /\ Within(p, TxLocking)' <=> p = q
               /\ Within(p, RxLocking)' <=> p = q
    BY <1>1, <1>3, <1>5 DEF Within
  <2>4. QED
    BY <1>7, <1>8, <2>2, <2>3 DEF LocksOK
<1>10. Mutexes' /\ HoldersStay
  BY <1>7, <1>8 DEF KernelInv, Mutexes, MutexOK, HoldersStay
<1>11. Takers'
  <2>1. \A u \in Task : pc'[u] # "place"
    BY <1>5 DEF Locking
  <2>2. QED
    BY <1>1, <1>5, <2>1 DEF KernelInv, Takers, Sends
<1>12. Boosts'
  BY <1>4, <1>10, BoostsStay DEF KernelInv, Goes
<1>13. QED
  BY <1>5, <1>9, <1>10, <1>11, <1>12 DEF KernelInv, IsKernel

\* From one part to another in which the queue is locked on both sides.
LEMMA MoveLocked ==
  ASSUME CallsOK, KernelInv, NEW t \in Task, NEW l, Goto(t, l),
         pc[t] \in TxLocking, l \in TxLocking,
         NEW c, call' = [call EXCEPT ![t] = c], c.queue = call[t].queue, c.op = call[t].op,
         NEW B, Goes(kernel, kernel', B), UNCHANGED queue,
         l = "place" /\ Kind[c.queue] = "mutex" => queue[c.queue].count = 0
  PROVE  IsKernel(kernel') /\ Suspension' /\ LocksOK' /\ Mutexes' /\ Takers' /\ HoldersStay
<1>1. RxLocking \subseteq Locking /\ TxLocking \subseteq RxLocking /\ "place" \in Locking
      /\ "run" \notin RxLocking
  BY DEF Locking, RxLocking, TxLocking
<1>2. /\ IsKernel(kernel') /\ Suspension'
      /\ pc'[t] = l /\ \A u \in Task : u # t => pc'[u] = pc[u] /\ pc[u] \notin Locking
      /\ call'[t] = c /\ \A u \in Task : call'[u].queue = call[u].queue
      /\ \A u \in Task : call'[u].op = call[u].op
  BY <1>1, MoveWithin
<1>3. (\A q \in Queue : SameLocks(q)) /\ Mutexes' /\ HoldersStay
  BY QueuesAlone
<1>4. LocksOK'
  BY <1>1, <1>2, <1>3, LocksStay DEF KernelInv
<1>5. Takers'
  <2>1. \A u \in Task : pc'[u] # "run" => pc[u] # "run"
    BY <1>1, <1>2
  <2>2. \A u \in Task : pc'[u] = "place" => u = t
    BY <1>1, <1>2
  <2>3. QED
    BY <1>2, <2>1, <2>2, TakersStay DEF KernelInv
<1>6. QED
  BY <1>2, <1>3, <1>4, <1>5

LEMMA CheckInv ==
  ASSUME CallsOK, KernelInv, NEW t \in Task, Check(t)
  PROVE  KernelInv'
<1> DEFINE over == IsTimeOut(kernel, call[t].timeOut, call[t].ticks)
           l == IF over THEN "unlockTx" ELSE "test"
           c == IF over THEN [call[t] EXCEPT !.then = "fail"]
                ELSE [call[t] EXCEPT
                        !.ticks = TicksLeft(kernel, call[t].timeOut, call[t].ticks),
                        !.timeOut = TimeOutNow(kernel)]
<1>1. /\ pc[t] = "check" /\ Goto(t, l) /\ call' = [call EXCEPT ![t] = c]
      /\ UNCHANGED <<kernel, queue>> /\ IsCall(call[t])
  BY DEF Check, Step, CallsOK
<1>2. c.queue = call[t].queue /\ c.op = call[t].op
  BY <1>1 DEF IsCall
<1>3. pc[t] \in TxLocking /\ l \in TxLocking /\ l # "place"
  BY <1>1 DEF TxLocking
<1>4. Goes(kernel, kernel', Boosted(kernel))
  BY <1>1 DEF KernelInv, Goes
<1> HIDE DEF l, c, over
<1>5. IsKernel(kernel') /\ Suspension' /\ LocksOK' /\ Mutexes' /\ Takers' /\ HoldersStay
  BY <1>1, <1>2, <1>3, <1>4, MoveLocked
<1>6. Boosts'
  BY <1>4, <1>5, BoostsStay DEF KernelInv, Goes
<1>7. QED
  BY <1>5, <1>6 DEF KernelInv, IsKernel

LEMMA TestInv ==
  ASSUME CallsOK, KernelInv, NEW t \in Task, Test(t)
  PROVE  KernelInv'
<1> DEFINE l == IF Blocking(call[t]) THEN "place" ELSE "unlockTx"
           c == [call[t] EXCEPT !.then = IF Blocking(call[t]) THEN "blocked" ELSE "again"]
<1>1. /\ pc[t] = "test" /\ Goto(t, l) /\ call' = [call EXCEPT ![t] = c]
      /\ UNCHANGED <<kernel, queue>> /\ IsCall(call[t])
  BY DEF Test, Step, CallsOK
<1>2. c.queue = call[t].queue /\ c.op = call[t].op
  BY <1>1 DEF IsCall
<1>3. pc[t] \in TxLocking /\ l \in TxLocking
  BY <1>1 DEF TxLocking
<1>4. l = "place" /\ Kind[c.queue] = "mutex" => queue[c.queue].count = 0
  BY <1>1, <1>2 DEF KernelInv, Takers, Blocking
<1>5. Goes(kernel, kernel', Boosted(kernel))
  BY <1>1 DEF KernelInv, Goes
<1> HIDE DEF l, c
<1>6. IsKernel(kernel') /\ Suspension' /\ LocksOK' /\ Mutexes' /\ Takers' /\ HoldersStay
  BY <1>1, <1>2, <1>3, <1>4, <1>5, MoveLocked
<1>7. Boosts'
  BY <1>5, <1>6, BoostsStay DEF KernelInv, Goes
<1>8. QED
  BY <1>6, <1>7 DEF KernelInv, IsKernel

\* The holder of the mutex gets the priority of the one who is placed in its list.
LEMMA PlaceInv ==
  ASSUME Queues, CallsOK, KernelInv, NEW t \in Task, Place(t)
  PROVE  KernelInv'
<1>1. PICK c : c = call[t]
  OBVIOUS
<1> DEFINE h == queue[c.queue].holder
           inherits == Kind[c.queue] = "mutex" /\ ~Sends(c)
           k == IF inherits THEN PriorityInherit(kernel, h) ELSE kernel
           B == Boosted(kernel) \cup IF inherits THEN {h} ELSE {}
<1>2. /\ pc[t] = "place" /\ Goto(t, "unlockTx") /\ UNCHANGED <<queue, call>>
      /\ IsCall(c) /\ c.queue \in Queue
      /\ kernel' = PlaceOnEventList(k, Waits(c), c.ticks)
  BY <1>1 DEF Place, Step, CallsOK, IsCall
<1>3. inherits => h \in Task
  <2>1. inherits => h # NoTask
    BY <1>1, <1>2 DEF KernelInv, Takers, Mutexes, MutexOK
  <2>2. h \in Task \cup {NoTask}
    BY <1>2, QueueFields DEF Queues
  <2>3. QED
    BY <2>1, <2>2
<1>4. Goes(kernel, kernel', B)
  <2>1. Goes(kernel, k, B)
    <3>1. CASE inherits
      BY <1>3, <3>1, PriorityInheritGoes DEF KernelInv, AnyTask
    <3>2. CASE ~inherits
      BY <3>2 DEF KernelInv, Goes
    <3>3. QED
      BY <3>1, <3>2
  <2> HIDE DEF k, B
  <2>2. Preserves(k, kernel')
    BY <1>2, <2>1, PlaceOnEventListPreserves DEF Goes
  <2>3. QED
    BY <2>1, <2>2, GoesThenPreserves
<1>5. Boosts'
  <2>1. \A u \in B : Held(u)
    BY <1>2 DEF KernelInv, Boosts, Held
  <2>2. Boosted(kernel') \subseteq B
    BY <1>4 DEF Goes
  <2> HIDE DEF B
  <2>3. QED
    BY <1>2, <2>1, <2>2 DEF Boosts, Boosted, Held
<1> HIDE DEF B, k, h, inherits
<1>6. IsKernel(kernel') /\ Suspension' /\ LocksOK' /\ Mutexes' /\ Takers' /\ HoldersStay
  <2>1. pc[t] \in TxLocking /\ "unlockTx" \in TxLocking
    BY <1>2 DEF TxLocking
  <2>2. call' = [call EXCEPT ![t] = c]
    BY <1>1, <1>2 DEF CallsOK
  <2>3. c.queue = call[t].queue /\ c.op = call[t].op /\ UNCHANGED queue
    BY <1>1, <1>2
  <2>4. PICK b : Goes(kernel, kernel', b)
    BY <1>4
  <2>5. Goto(t, "unlockTx")
    BY <1>2
  <2>6. PICK l : l = "unlockTx"
    OBVIOUS
  <2>7. l # "place"
    BY <2>6
  <2>8. QED
    BY <2>1, <2>2, <2>3, <2>4, <2>5, <2>6, <2>7, MoveLocked
<1>7. QED
  BY <1>5, <1>6 DEF KernelInv, IsKernel

\* prvUnlockQueue: the senders' side first
LEMMA UnlockInv ==
  ASSUME Queues, CallsOK, KernelInv, NEW t \in Task, UnlockTx(t) \/ UnlockRx(t)
  PROVE  KernelInv'
<1>1. PICK c : c = call[t]
  OBVIOUS
<1>2. PICK q \in Queue : q = c.queue
  BY <1>1 DEF UnlockTx, UnlockRx, Step, CallsOK, IsCall
<1>3. "unlockTx" \in TxLocking /\ "unlockRx" \notin TxLocking /\ "unlockRx" \in RxLocking
      /\ "resume" \notin RxLocking /\ "resume" \in Locking /\ RxLocking \subseteq Locking
      /\ TxLocking \subseteq RxLocking /\ "run" \notin Locking
      /\ "place" \notin {"unlockRx", "resume"}
  BY DEF TxLocking, RxLocking, Locking
<1>4. /\ queue[q].txLock \in {Unlocked} \cup Nat /\ queue[q].rxLock \in {Unlocked} \cup Nat
  BY QueueFields DEF Queues
<1> DEFINE Moves(l, s, k) ==
             /\ pc[t] \in Locking /\ l \in Locking /\ Goto(t, l) /\ UNCHANGED call
             /\ queue' = [queue EXCEPT ![q] = s]
             /\ s.count = queue[q].count /\ s.holder = queue[q].holder /\ s.depth = queue[q].depth
             /\ Preserves(kernel, kernel')
<1>5. ASSUME NEW l \in {"unlockRx", "resume"}, NEW s, NEW k, Moves(l, s, k)
      PROVE  /\ IsKernel(kernel') /\ Suspension' /\ Mutexes' /\ Takers' /\ Boosts'
             /\ pc'[t] = l /\ \A u \in Task : u # t => pc'[u] = pc[u] /\ pc[u] \notin Locking
             /\ call'[t] = c /\ \A u \in Task : call'[u].queue = call[u].queue
             /\ queue'[q] = s /\ \A p \in Queue : p # q => queue'[p] = queue[p]
  <2>1. Goes(kernel, kernel', Boosted(kernel))
    BY <1>5, PreservesGoes
  <2>2. call' = [call EXCEPT ![t] = c]
    BY <1>1, <1>5 DEF CallsOK
  <2>3. c.queue = call[t].queue /\ c.op = call[t].op /\ pc[t] \in Locking /\ l \in Locking
        /\ Goto(t, l)
    BY <1>1, <1>5
  <2>4. /\ IsKernel(kernel') /\ Suspension'
        /\ pc'[t] = l /\ \A u \in Task : u # t => pc'[u] = pc[u] /\ pc[u] \notin Locking
        /\ call'[t] = c /\ \A u \in Task : call'[u].queue = call[u].queue
        /\ \A u \in Task : call'[u].op = call[u].op
    BY <2>1, <2>2, <2>3, MoveWithin
  <2>5. queue'[q] = s /\ \A p \in Queue : p # q => queue'[p] = queue[p]
    BY <1>5 DEF Queues
  <2>6. Mutexes' /\ HoldersStay
    BY <1>5, <2>5 DEF KernelInv, Mutexes, MutexOK, HoldersStay
  <2>7. Takers'
    <3>1. \A u \in Task : pc'[u] # "place"
      BY <1>3, <2>4 DEF Locking
    <3>2. \A u \in Task : pc'[u] # "run" => pc[u] # "run"
      BY <1>3, <1>5, <2>4
    <3>3. QED
      BY <2>4, <3>1, <3>2, TakersStay DEF KernelInv
  <2>8. Boosts'
    BY <2>1, <2>6, BoostsStay DEF KernelInv, Goes
  <2>9. QED
    BY <2>4, <2>5, <2>6, <2>7, <2>8
<1>6. CASE UnlockTx(t)
  <2> DEFINE s == [queue[q] EXCEPT !.txLock = Unlocked]
  <2>1. /\ pc[t] = "unlockTx" /\ Goto(t, "unlockRx") /\ UNCHANGED call
        /\ queue' = [queue EXCEPT ![q] = s]
        /\ kernel' = WakeMany(kernel, <<q, "receive">>, queue[q].txLock)
    BY <1>1, <1>2, <1>6 DEF UnlockTx, Step
  <2>2. /\ s.count = queue[q].count /\ s.holder = queue[q].holder /\ s.depth = queue[q].depth
        /\ s.txLock = Unlocked /\ s.rxLock = queue[q].rxLock
    BY DEF Queues, IsQueue, QueueRecord
  <2> HIDE DEF s
  <2>3. queue[q].txLock \in Nat
    BY <1>1, <1>2, <1>3, <1>4, <2>1 DEF KernelInv, LocksOK, Within
  <2>4. Preserves(kernel, kernel')
    BY <2>1, <2>3, WakeManyPreserves DEF KernelInv
  <2>5. Moves("unlockRx", s, kernel)
    BY <1>3, <2>1, <2>2, <2>4
  <2>6. /\ IsKernel(kernel') /\ Suspension' /\ Mutexes' /\ Takers' /\ Boosts'
        /\ pc'[t] = "unlockRx"
        /\ \A u \in Task : u # t => pc'[u] = pc[u] /\ pc[u] \notin Locking
        /\ call'[t] = c /\ \A u \in Task : call'[u].queue = call[u].queue
        /\ queue'[q] = s /\ \A p \in Queue : p # q => queue'[p] = queue[p]
    BY <1>5, <2>5
  <2>7. ASSUME NEW p \in Queue
        PROVE  /\ Within(p, TxLocking) <=> p = q
               /\ ~Within(p, TxLocking)'
               /\ Within(p, RxLocking)' <=> p = q
               /\ Within(p, RxLocking) <=> p = q
    BY <1>1, <1>2, <1>3, <2>1, <2>6 DEF Within
  <2>8. LocksOK'
    BY <2>2, <2>6, <2>7 DEF KernelInv, LocksOK
  <2>9. QED
    BY <2>6, <2>8 DEF KernelInv, IsKernel
<1>7. CASE UnlockRx(t)
  <2> DEFINE s == [queue[q] EXCEPT !.rxLock = Unlocked]
  <2>1. /\ pc[t] = "unlockRx" /\ Goto(t, "resume") /\ UNCHANGED call
        /\ queue' = [queue EXCEPT ![q] = s]
        /\ kernel' = WakeMany(kernel, <<q, "send">>, queue[q].rxLock)
    BY <1>1, <1>2, <1>7 DEF UnlockRx, Step
  <2>2. /\ s.count = queue[q].count /\ s.holder = queue[q].holder /\ s.depth = queue[q].depth
        /\ s.rxLock = Unlocked /\ s.txLock = queue[q].txLock
    BY DEF Queues, IsQueue, QueueRecord
  <2> HIDE DEF s
  <2>3. queue[q].rxLock \in Nat
    BY <1>1, <1>2, <1>3, <1>4, <2>1 DEF KernelInv, LocksOK, Within
  <2>4. Preserves(kernel, kernel')
    BY <2>1, <2>3, WakeManyPreserves DEF KernelInv
  <2>5. Moves("resume", s, kernel)
    BY <1>3, <2>1, <2>2, <2>4
  <2>6. /\ IsKernel(kernel') /\ Suspension' /\ Mutexes' /\ Takers' /\ Boosts'
        /\ pc'[t] = "resume"
        /\ \A u \in Task : u # t => pc'[u] = pc[u] /\ pc[u] \notin Locking
        /\ call'[t] = c /\ \A u \in Task : call'[u].queue = call[u].queue
        /\ queue'[q] = s /\ \A p \in Queue : p # q => queue'[p] = queue[p]
    BY <1>5, <2>5
  <2>7. ASSUME NEW p \in Queue
        PROVE  /\ ~Within(p, TxLocking)
               /\ ~Within(p, TxLocking)'
               /\ ~Within(p, RxLocking)'
               /\ Within(p, RxLocking) <=> p = q
    BY <1>1, <1>2, <1>3, <2>1, <2>6 DEF Within
  <2>8. LocksOK'
    BY <2>2, <2>6, <2>7 DEF KernelInv, LocksOK
  <2>9. QED
    BY <2>6, <2>8 DEF KernelInv, IsKernel
<1>8. QED
  BY <1>6, <1>7

\* xTaskResumeAll
LEMMA ResumedInv ==
  ASSUME CallsOK, KernelInv, NEW t \in Task, Resumed(t)
  PROVE  KernelInv'
<1>1. /\ kernel.current = t /\ pc[t] = "resume" /\ kernel' = ResumeAll(kernel)
      /\ UNCHANGED queue /\ IsCall(call[t])
  BY DEF Resumed, CallsOK
<1>2. /\ "resume" \in Locking /\ "resume" \notin RxLocking /\ TxLocking \subseteq RxLocking
      /\ RxLocking \subseteq Locking /\ "place" \in Locking
  BY DEF Locking, TxLocking, RxLocking
<1>3. PICK l : /\ l \in {"run", "try", "yield"} /\ Goto(t, l)
               /\ l # "run" => UNCHANGED call
               /\ \E c : call' = [call EXCEPT ![t] = c]
  <2>1. \/ Return(t)
        \/ UNCHANGED call /\ Goto(t, IF AlreadyYields(kernel) THEN "try" ELSE "yield")
        \/ UNCHANGED call /\ Goto(t, "try")
    <3>1. call[t].then \in {"fail", "again", "blocked"}
      BY <1>1 DEF IsCall
    <3>2. QED
      BY <3>1 DEF Resumed
  <2>2. CASE Return(t)
    BY <2>2 DEF Return
  <2>3. CASE UNCHANGED call /\ Goto(t, IF AlreadyYields(kernel) THEN "try" ELSE "yield")
    <3>1. call' = [call EXCEPT ![t] = call[t]]
      BY <2>3 DEF CallsOK
    <3>2. PICK l \in {"try", "yield"} : Goto(t, l)
      BY <2>3
    <3>3. QED
      BY <2>3, <3>1, <3>2
  <2>4. CASE UNCHANGED call /\ Goto(t, "try")
    <3>1. call' = [call EXCEPT ![t] = call[t]]
      BY <2>4 DEF CallsOK
    <3>2. QED
      BY <2>4, <3>1
  <2>5. QED
    BY <2>1, <2>2, <2>3, <2>4
<1>4. /\ pc'[t] = l /\ \A u \in Task \ {t} : pc'[u] = pc[u] /\ call'[u] = call[u]
      /\ l # "run" => call'[t] = call[t]
  BY <1>3 DEF CallsOK, Goto
<1>5. l \notin Locking /\ l \notin RxLocking /\ l \notin TxLocking /\ l # "place"
  BY <1>3 DEF Locking, RxLocking, TxLocking
<1>6. kernel.suspendDepth = 1 /\ \A u \in Task \ {t} : pc[u] \notin Locking
  BY <1>1, <1>2 DEF KernelInv, Suspension
<1>7. /\ IsKernel(kernel') /\ kernel'.priority = kernel.priority /\ kernel'.base = kernel.base
      /\ kernel'.suspendDepth = 0
  <2> DEFINE k == ResumeAll(kernel)
  <2>1. /\ IsKernel(k) /\ k.priority = kernel.priority /\ k.base = kernel.base
        /\ k.suspendDepth = kernel.suspendDepth - 1
    BY ResumeAllPreserves DEF KernelInv
  <2> HIDE DEF k
  <2>2. QED
    BY <1>1, <1>6, <2>1 DEF k
<1>8. Suspension'
  <2>1. \A u \in Task : pc'[u] \notin Locking
    BY <1>4, <1>5, <1>6
  <2>2. QED
    BY <1>7, <2>1 DEF Suspension
<1>9. (\A q \in Queue : SameLocks(q)) /\ Mutexes' /\ HoldersStay
  BY <1>1, QueuesAlone
<1>10. LocksOK'
  <2>1. ASSUME NEW u \in Task
        PROVE  /\ pc'[u] \in TxLocking <=> pc[u] \in TxLocking
               /\ pc'[u] \in RxLocking <=> pc[u] \in RxLocking
               /\ pc[u] \in RxLocking => call'[u].queue = call[u].queue
    BY <1>1, <1>2, <1>4, <1>5, <1>6
  <2>2. QED
    BY <1>9, <2>1, LocksStay DEF KernelInv
<1>11. Takers'
  <2>1. \A u \in Task : pc'[u] # "place"
    BY <1>2, <1>4, <1>5, <1>6
  <2>2. ASSUME NEW u \in Task, pc'[u] # "run"
        PROVE  pc[u] # "run" /\ call'[u].queue = call[u].queue /\ call'[u].op = call[u].op
    BY <1>1, <1>4, <2>2
  <2>3. QED
    BY <2>1, <2>2, TakersStay DEF KernelInv
<1>12. Boosts'
  <2>1. Boosted(kernel') \subseteq Boosted(kernel)
    BY <1>7 DEF Boosted
  <2>2. QED
    BY <1>9, <2>1, BoostsStay DEF KernelInv
<1>13. QED
  BY <1>7, <1>8, <1>9, <1>10, <1>11, <1>12 DEF KernelInv, IsKernel

LEMMA YieldInv ==
  ASSUME CallsOK, KernelInv, NEW t \in Task, Yield(t)
  PROVE  KernelInv'
<1>1. PICK c : c = call[t]
  OBVIOUS
<1>2. /\ kernel.current = t /\ pc[t] = "yield" /\ Goto(t, "try")
      /\ call' = [call EXCEPT ![t] = c]
      /\ kernel' = SwitchContext(kernel) /\ UNCHANGED queue
  BY <1>1 DEF Yield, Step, CallsOK
<1>3. Goes(kernel, kernel', Boosted(kernel))
  BY <1>2, SwitchContextPreserves, PreservesGoes DEF KernelInv
<1>4. (\A q \in Queue : SameLocks(q)) /\ Mutexes' /\ HoldersStay
  BY <1>2, QueuesAlone
<1>5. Kind[c.queue] = "mutex" => ~Sends(c)
  BY <1>1, <1>2 DEF KernelInv, Takers
<1>6. pc[t] \notin Locking /\ "try" \notin Locking
  BY <1>2 DEF Locking
<1>7. IsKernel(kernel') /\ Suspension' /\ LocksOK' /\ Takers'
  BY <1>2, <1>3, <1>4, <1>5, <1>6, MoveOutside
<1>8. Boosts'
  BY <1>3, <1>4, BoostsStay DEF KernelInv, Goes
<1>9. QED
  BY <1>4, <1>7, <1>8 DEF KernelInv, IsKernel

\* A handler leaves mutexes alone, and a queue as locked as it is.
LEMMA HandlerInv ==
  ASSUME Queues, CallsOK, KernelInv, NEW q \in FromISR, SendFromISR(q) \/ ReceiveFromISR(q)
  PROVE  KernelInv'
<1>1. /\ q \in Queue /\ Kind[q] # "mutex" /\ IsQueue(q, queue[q]) /\ MutexOK(q, queue[q])
      /\ queue[q].count \in 0 .. Length[q] /\ Length[q] \in Nat
      /\ queue[q].txLock \in {Unlocked} \cup Nat /\ queue[q].rxLock \in {Unlocked} \cup Nat
  BY QueueAssumption, QueueFields, RingIs DEF Queues, KernelInv, Mutexes
<1>2. \A v \in {Unlocked} \cup Nat : Counted(v) = Unlocked <=> v = Unlocked
  BY DEF Counted, Unlocked
<1>3. \E s : /\ queue' = [queue EXCEPT ![q] = s]
             /\ MutexOK(q, s)
             /\ s.txLock = Unlocked <=> queue[q].txLock = Unlocked
             /\ s.rxLock = Unlocked <=> queue[q].rxLock = Unlocked
  <2>1. CASE SendFromISR(q)
    <3>1. PICK x \in Item[q], front \in BOOLEAN :
            queue' = [queue EXCEPT ![q] = [CopyTo(q, x, front) EXCEPT !.txLock = Counted(@)]]
      BY <2>1 DEF SendFromISR
    <3> DEFINE r == CopyTo(q, x, front)
               s == [r EXCEPT !.txLock = Counted(r.txLock)]
    <3>2. queue[q].count # Length[q]
      BY <1>1, <2>1 DEF SendFromISR
    <3>3. /\ MutexOK(q, r) /\ r.txLock = queue[q].txLock /\ r.rxLock = queue[q].rxLock
      BY <1>1, <3>2, PutMutex
    <3>4. IsQueue(q, r)
      BY <1>1, <3>2, PutIs
    <3>5. queue' = [queue EXCEPT ![q] = s]
      BY <3>1
    <3> HIDE DEF r
    <3>6. /\ s.holder = r.holder /\ s.rxLock = r.rxLock /\ s.txLock = Counted(r.txLock)
      BY <3>4 DEF IsQueue, QueueRecord
    <3> HIDE DEF s
    <3>7. QED
      BY <1>1, <1>2, <3>3, <3>5, <3>6 DEF MutexOK
  <2>2. CASE ReceiveFromISR(q)
    <3> DEFINE r == CopyFrom(q, NoTask)
               s == [r EXCEPT !.rxLock = Counted(r.rxLock)]
    <3>1. queue[q].count # 0
      BY <1>1, <2>2 DEF ReceiveFromISR
    <3>2. /\ MutexOK(q, r) /\ r.txLock = queue[q].txLock /\ r.rxLock = queue[q].rxLock
      BY <1>1, <3>1, GetMutex
    <3>3. IsQueue(q, r)
      BY <1>1, <3>1, GetIs
    <3>4. queue' = [queue EXCEPT ![q] = s]
      BY <2>2 DEF ReceiveFromISR
    <3> HIDE DEF r
    <3>5. /\ s.holder = r.holder /\ s.txLock = r.txLock /\ s.rxLock = Counted(r.rxLock)
      BY <3>3 DEF IsQueue, QueueRecord
    <3> HIDE DEF s
    <3>6. QED
      BY <1>1, <1>2, <3>2, <3>4, <3>5 DEF MutexOK
  <2>3. QED
    BY <2>1, <2>2
<1>4. PICK s : /\ queue' = [queue EXCEPT ![q] = s]
               /\ MutexOK(q, s)
               /\ s.txLock = Unlocked <=> queue[q].txLock = Unlocked
               /\ s.rxLock = Unlocked <=> queue[q].rxLock = Unlocked
  BY <1>3
<1>5. queue'[q] = s /\ \A p \in Queue : p # q => queue'[p] = queue[p]
  BY <1>1, <1>4 DEF Queues
<1>6. \A p \in Queue : SameLocks(p)
  BY <1>4, <1>5 DEF SameLocks
<1>7. Mutexes' /\ HoldersStay
  <2>1. \A p \in Queue : MutexOK(p, queue'[p])
    BY <1>4, <1>5 DEF KernelInv, Mutexes
  <2>2. Mutexes'
    BY <2>1 DEF Mutexes, MutexOK
  <2>3. HoldersStay
    BY <1>1, <1>5 DEF MutexOK, HoldersStay
  <2>4. QED
    BY <2>2, <2>3
<1>8. Goes(kernel, kernel', Boosted(kernel)) /\ UNCHANGED <<pc, call>>
  <2>1. PICK e, lock : kernel' = Tell(kernel, e, lock)
    BY DEF SendFromISR, ReceiveFromISR
  <2>2. Preserves(kernel, kernel')
    BY <2>1, WakeOnePreserves, PreservesIsOrder DEF Tell, KernelInv
  <2>3. QED
    BY <2>2, PreservesGoes DEF SendFromISR, ReceiveFromISR
<1>9. Suspension'
  BY <1>8, SuspensionStays DEF KernelInv, Goes
<1>10. LocksOK'
  BY <1>6, <1>8, LocksStay DEF KernelInv
<1>11. Takers'
  <2>1. \A p \in Queue : Kind[p] = "mutex" => queue'[p] = queue[p]
    BY <1>1, <1>5
  <2>2. ASSUME NEW u \in Task, pc[u] # "run"
        PROVE  call[u].queue \in Queue
    BY <2>2 DEF CallsOK, IsCall
  <2>3. QED
    BY <1>8, <2>1, <2>2 DEF KernelInv, Takers, Sends
<1>12. Boosts'
  BY <1>7, <1>8, BoostsStay DEF KernelInv, Goes
<1>13. QED
  BY <1>7, <1>8, <1>9, <1>10, <1>11, <1>12 DEF KernelInv, Goes, IsKernel

\* main creates the tasks one after the other and starts the scheduler.
LEMMA MainCreates ==
  ASSUME Init
  PROVE  \E N, order, created :
           /\ N \in Nat
           /\ order \in [1 .. N -> Task] /\ \A i, j \in 1 .. N : order[i] = order[j] => i = j
           /\ created[0] = BootKernel
           /\ \A n \in 0 .. N - 1 :
                created[n + 1] = Create(created[n], order[n + 1], Base[order[n + 1]])
           /\ kernel = StartScheduler(created[N])
<1> DEFINE busy == {t \in Task : ops[t] # {}}
           order == SetToSeq(busy)
           N == Cardinality(busy)
           Next1(n, k) == Create(k, order[n], Base[order[n]])
           Runs(h, n) == h = [i \in 0 .. n |-> IF i = 0 THEN BootKernel ELSE Next1(i, h[i - 1])]
           created == CHOOSE h : Runs(h, N)
<1>1. kernel = StartScheduler(created[N])
  BY DEF Init
<1>2. N \in Nat /\ ExistsBijection(1 .. N, busy)
  <2>1. IsFiniteSet(busy)
    BY KernelAssumption, FS_Subset
  <2>2. QED
    BY <2>1, FS_CardinalityType
<1>3. order \in [1 .. N -> Task] /\ \A i, j \in 1 .. N : order[i] = order[j] => i = j
  <2>1. \E f \in [1 .. N -> busy] : IsInjective(f)
    BY <1>2 DEF ExistsBijection, Bijection, Injection
  <2> DEFINE f == CHOOSE f \in [1 .. N -> busy] : IsInjective(f)
  <2>2. f \in [1 .. N -> busy] /\ IsInjective(f)
    BY <2>1
  <2>3. order = f
    BY DEF SetToSeq
  <2> HIDE DEF f, order
  <2>4. QED
    BY <2>2, <2>3 DEF IsInjective
<1> HIDE DEF N, order
<1>4. \E h : Runs(h, N)
  <2> DEFINE E == {n \in Nat : \E h : Runs(h, n)}
  <2>1. 0 \in E
    <3>1. Runs([i \in 0 .. 0 |-> BootKernel], 0)
      OBVIOUS
    <3>2. QED
      BY <3>1
  <2>2. ASSUME NEW n \in E PROVE n + 1 \in E
    <3>1. PICK h : Runs(h, n)
      OBVIOUS
    <3> DEFINE g == [i \in 0 .. n + 1 |-> IF i <= n THEN h[i] ELSE Next1(n + 1, h[n])]
    <3> HIDE DEF Next1
    <3>2. Runs(g, n + 1)
      <4>1. ASSUME NEW i \in 0 .. n + 1
            PROVE  g[i] = IF i = 0 THEN BootKernel ELSE Next1(i, g[i - 1])
        BY <3>1
      <4>2. QED
        BY <4>1
    <3> HIDE DEF g
    <3>3. n + 1 \in Nat /\ \E f : Runs(f, n + 1)
      BY <3>2
    <3>4. QED
      BY <3>3
  <2>3. E = Nat
    <3> HIDE DEF E
    <3>1. E \in SUBSET Nat
      BY DEF E
    <3>2. QED
      BY <2>1, <2>2, <3>1, SetInduction
  <2>4. QED
    BY <1>2, <2>3
<1>5. Runs(created, N)
  BY <1>4
<1> HIDE DEF created
<1>6. created[0] = BootKernel
  BY <1>2, <1>5
<1>7. ASSUME NEW n \in 0 .. N - 1
      PROVE  created[n + 1] = Create(created[n], order[n + 1], Base[order[n + 1]])
  BY <1>2, <1>5
<1>8. QED
  BY <1>1, <1>2, <1>3, <1>6, <1>7

LEMMA InitInv ==
  ASSUME Init
  PROVE  KernelInv
<1>1. PICK N, order, created :
        /\ N \in Nat
        /\ created[0] = BootKernel
        /\ \A n \in 0 .. N - 1 :
             created[n + 1] = Create(created[n], order[n + 1], Base[order[n + 1]])
        /\ kernel = StartScheduler(created[N])
  BY MainCreates
<1> DEFINE Fresh(k) == IsKernel(k) /\ k.suspendDepth = 0 /\ Boosted(k) = {}
           S == {n \in Nat : n <= N => Fresh(created[n])}
<1>2. Fresh(BootKernel)
  BY BootPreserves DEF Boosted, BootKernel
<1>3. ASSUME NEW k, NEW l, Fresh(k), Goes(k, l, Boosted(k))
      PROVE  Fresh(l)
  BY <1>3 DEF Goes
<1>4. 0 \in S
  BY <1>1, <1>2
<1>5. ASSUME NEW n \in S PROVE n + 1 \in S
  <2>1. SUFFICES ASSUME n + 1 <= N PROVE Fresh(created[n + 1])
    OBVIOUS
  <2>2. Fresh(created[n])
    BY <1>1, <2>1
  <2>3. created[n + 1] = Create(created[n], order[n + 1], Base[order[n + 1]])
    BY <1>1, <2>1
  <2> HIDE DEF S
  <2>4. Goes(created[n], created[n + 1], Boosted(created[n]))
    BY <2>2, <2>3, CreateGoes
  <2>5. QED
    BY <1>3, <2>2, <2>4
<1>6. S = Nat
  <2> HIDE DEF S
  <2>1. S \in SUBSET Nat
    BY DEF S
  <2>2. QED
    BY <1>4, <1>5, <2>1, SetInduction
<1>7. Fresh(created[N])
  <2>1. N \in S
    <3> HIDE DEF S
    <3>1. QED
      BY <1>1, <1>6
  <2>2. N <= N
    BY <1>1
  <2> HIDE DEF Fresh
  <2>3. QED
    BY <2>1, <2>2
<1>8. Fresh(kernel)
  BY <1>1, <1>3, <1>7, StartSchedulerGoes
<1>9. pc = [t \in Task |-> "run"] /\ queue = [q \in Queue |-> NewQueue(q)]
  BY DEF Init
<1>10. Suspension /\ Takers /\ Boosts
  BY <1>8, <1>9 DEF Suspension, Takers, Boosts, Locking
<1>11. LocksOK
  BY <1>9 DEF LocksOK, Within, TxLocking, RxLocking, NewQueue
<1>12. Mutexes
  <2>1. ASSUME NEW q \in Queue
        PROVE  MutexOK(q, queue[q])
    BY <1>9 DEF MutexOK, NewQueue
  <2>2. QED
    BY <2>1 DEF Mutexes
<1>13. QED
  BY <1>8, <1>10, <1>11, <1>12 DEF KernelInv

\* Whatever the step, the inductive invariant outlives it.
LEMMA KernelStays ==
  ASSUME Queues, CallsOK, KernelInv, [Next]_vars
  PROVE  KernelInv'
<1>1. CASE UNCHANGED vars
  <2>1. Goes(kernel, kernel', Boosted(kernel)) /\ UNCHANGED <<queue, pc, call>>
    BY <1>1 DEF vars, KernelInv, Goes
  <2>2. QED
    BY <2>1, KernelMoves
<1>2. ASSUME NEW t \in Task,
             \/ Start(t) \/ Again(t) \/ TakeAgain(t) \/ GiveOne(t) \/ SetPriority(t)
             \/ SuspendScheduler(t) \/ Lock(t) \/ Check(t) \/ Test(t) \/ Place(t)
             \/ UnlockTx(t) \/ UnlockRx(t) \/ Resumed(t) \/ Yield(t)
      PROVE  KernelInv'
  BY <1>2, StartInv, AgainInv, DepthInv, SetPriorityInv, SuspendInv, LockInv, CheckInv,
     TestInv, PlaceInv, UnlockInv, ResumedInv, YieldInv
<1>3. ASSUME NEW q \in FromISR, SendFromISR(q) \/ ReceiveFromISR(q)
      PROVE  KernelInv'
  BY <1>3, HandlerInv
<1>4. TickInterrupt => KernelInv'
  BY TickInv
<1>5. QED
  BY <1>1, <1>2, <1>3, <1>4 DEF Next

\* However tasks and handlers interleave: a queue is locked only while its locker has
\* the scheduler suspended (queue.c prvLockQueue, prvUnlockQueue), a mutex is free
\* exactly when nobody holds it, no recursive take is left on a free one, and a task runs
\* above its own priority only while it holds one (tasks.c vTaskPriorityInherit, vTaskPriorityDisinherit).
THEOREM LocksAndHolders == Spec => []QueueInv
<1> DEFINE Inv == Queues /\ CallsOK /\ KernelInv
<1>1. Init => Inv
  BY InitQueues, InitInv
<1>2. Inv /\ [Next]_vars => Inv'
  BY AnyStep, QueuesStay, KernelStays
<1>3. Inv => QueueInv
  BY KernelInvImplies
<1>4. QED
  BY <1>1, <1>2, <1>3, PTL DEF Spec

-----------------------------------------------------------------------------
(* No wake-up is lost: who is awaited, who is on the way, and who is noted *)

\* A task that has put itself on an event list, or goes to look at its queue.
Placed(t) ==
  \/ pc[t] \in {"try", "yield"}
  \/ pc[t] \in {"unlockTx", "unlockRx", "resume"} /\ call[t].then = "blocked"
\* What a task does when the scheduler resumes is decided before it is placed.
Places == \A t \in Task : pc[t] = "place" => call[t].then = "blocked"

\* The event lists hold tasks that were placed there and do not run.
Waiters ==
  \A e \in Event : \A t \in ToSet(kernel.event[e]) :
    /\ t \in Task /\ Placed(t) /\ Waits(call[t]) = e
    /\ pc[t] = "try" => kernel.current # t

\* Who will look at the queue of e, how many could go on there, and how many are
\* to be woken when the queue is unlocked.
Coming(e) == {t \in Task : Placed(t) /\ Waits(call[t]) = e /\ t \notin ToSet(kernel.event[e])}
Wanted(e, r) == IF e[2] = "receive" THEN r.count ELSE Length[e[1]] - r.count
Noted(e, r) ==
  LET lock == IF e[2] = "receive" THEN r.txLock ELSE r.rxLock
  IN  IF lock = Unlocked THEN 0 ELSE lock
Enough(e, S, r) == Cardinality(S) + Noted(e, r) >= Wanted(e, r)

\* Somebody waits for e, or has found that there is nothing to be had and will.
Awaited(e) ==
  kernel.event[e] # <<>> \/ \E t \in Task : pc[t] = "place" /\ Waits(call[t]) = e
\* As long as somebody waits, as many are on the way, or noted, as could go on.
Attended == \A e \in Event : Awaited(e) => Enough(e, Coming(e), queue[e[1]])

\* The inductive invariant. That a task on its way has not fallen back asleep needs
\* the scheduler: nobody is ready and in an event list at once (Serving).
WaitInv == Serving(kernel) /\ Places /\ Waiters /\ Attended

-----------------------------------------------------------------------------

LEMMA EventIs ==
  ASSUME NEW e \in Event
  PROVE  e[1] \in Queue /\ e[2] \in {"send", "receive"} /\ e = <<e[1], e[2]>>
BY QueueAssumption

LEMMA CountsAre ==
  ASSUME NEW e \in Event, NEW r, IsQueue(e[1], r)
  PROVE  Wanted(e, r) \in Nat /\ Noted(e, r) \in Nat
<1>1. e[1] \in Queue
  BY EventIs
<1>2. /\ r.count \in 0 .. Length[e[1]] /\ Length[e[1]] \in Nat \ {0}
      /\ r.rxLock \in {Unlocked} \cup Nat /\ r.txLock \in {Unlocked} \cup Nat
  BY <1>1, QueueFields, RingIs
<1>3. QED
  BY <1>2 DEF Wanted, Noted

\* D comes to a set of tasks, and t leaves it.
LEMMA CountsGo ==
  ASSUME NEW S \in SUBSET Task, NEW T \in SUBSET Task, NEW D \in SUBSET Task, NEW t,
         D \cap S = {}, (S \ {t}) \cup D \subseteq T
  PROVE  /\ Cardinality(S) \in Nat /\ Cardinality(T) \in Nat /\ Cardinality(D) \in Nat
         /\ t \notin S => Cardinality(S) + Cardinality(D) <= Cardinality(T)
         /\ Cardinality(S) - 1 + Cardinality(D) <= Cardinality(T)
<1>1. IsFiniteSet(S) /\ IsFiniteSet(T) /\ IsFiniteSet(D)
  BY KernelAssumption, FS_Subset
<1>2. Cardinality(S) \in Nat /\ Cardinality(T) \in Nat /\ Cardinality(D) \in Nat
  BY <1>1, FS_CardinalityType
<1> DEFINE U == S \ {t}
<1>3. /\ IsFiniteSet(U)
      /\ Cardinality(U) = IF t \in S THEN Cardinality(S) - 1 ELSE Cardinality(S)
  BY <1>1, FS_RemoveElement
<1>4. U \cap D = {} /\ U \cup D \subseteq T
  OBVIOUS
<1> HIDE DEF U
<1>5. /\ IsFiniteSet(U \cup D)
      /\ Cardinality(U \cup D) = Cardinality(U) + Cardinality(D) - Cardinality(U \cap D)
  BY <1>1, <1>3, FS_Union
<1>6. Cardinality({}) = 0
  BY FS_EmptySet
<1>7. Cardinality(U \cup D) <= Cardinality(T)
  BY <1>1, <1>4, FS_Subset
<1>8. Cardinality(U) + Cardinality(D) <= Cardinality(T)
  <2>1. Cardinality(U) \in Nat
    BY <1>3, FS_CardinalityType
  <2>2. Cardinality(U \cap D) = 0
    BY <1>4, <1>6
  <2>3. Cardinality(U \cup D) = Cardinality(U) + Cardinality(D)
    BY <1>2, <1>5, <2>1, <2>2
  <2>4. QED
    BY <1>7, <2>3
<1>9. QED
  BY <1>2, <1>3, <1>8

\* Enough are on the way after t has left, if as many come as are wanted more.
LEMMA EnoughStill ==
  ASSUME NEW e \in Event, NEW r, NEW s, IsQueue(e[1], r), IsQueue(e[1], s),
         NEW S \in SUBSET Task, NEW T \in SUBSET Task, NEW D \in SUBSET Task, NEW t,
         D \cap S = {}, (S \ {t}) \cup D \subseteq T, Enough(e, S, r),
         Noted(e, s) - Wanted(e, s) + Cardinality(D)
           >= Noted(e, r) - Wanted(e, r) + IF t \in S THEN 1 ELSE 0
  PROVE  Enough(e, T, s)
<1>1. /\ Wanted(e, r) \in Nat /\ Noted(e, r) \in Nat
      /\ Wanted(e, s) \in Nat /\ Noted(e, s) \in Nat
  BY CountsAre
<1>2. /\ Cardinality(S) \in Nat /\ Cardinality(T) \in Nat /\ Cardinality(D) \in Nat
      /\ t \notin S => Cardinality(S) + Cardinality(D) <= Cardinality(T)
      /\ Cardinality(S) - 1 + Cardinality(D) <= Cardinality(T)
  BY CountsGo
<1>3. Cardinality(S) + Noted(e, r) >= Wanted(e, r)
  BY DEF Enough
<1>4. Cardinality(T) + Noted(e, s) >= Wanted(e, s)
  <2>1. CASE t \in S
    BY <1>1, <1>2, <1>3, <2>1
  <2>2. CASE t \notin S
    BY <1>1, <1>2, <1>3, <2>2
  <2>3. QED
    BY <2>1, <2>2
<1>5. QED
  BY <1>4 DEF Enough

LEMMA NobodyBegins ==
  ASSUME Frees(kernel, kernel'), NEW e \in Event, kernel.event[e] = <<>>
  PROVE  kernel'.event[e] = <<>>
<1>1. ToSet(kernel'.event[e]) = {} /\ Once(kernel'.event[e])
  BY EmptyOnce DEF Frees, Serving, Parted
<1>2. QED
  BY <1>1, TailOfList

\* The queues after a step.
QueuesAfter == \A q \in Queue : IsQueue(q, queue'[q])

\* A step after which t, if anybody, is no longer on the way, and D are.
LEMMA StepInv ==
  ASSUME Queues, QueuesAfter, WaitInv, Frees(kernel, kernel'),
         NEW t, \A e \in Event : t \notin ToSet(kernel.event[e]),
         \A u \in Task \ {t} : Placed(u) => Placed(u)' /\ call'[u] = call[u],
         \A u \in Task \ {t} : pc'[u] = "try" =>
           pc[u] = "try" \/ ~Placed(u) \/ Listed(kernel', kernel'.current),
         \A u \in Task : pc'[u] = "place" => call'[u].then = "blocked",
         \A e \in Event : Awaited(e)' =>
           \/ Wanted(e, queue'[e[1]]) = 0
           \/ /\ Awaited(e)
              /\ \E D \in SUBSET ToSet(kernel.event[e]) :
                   /\ D \cap ToSet(kernel'.event[e]) = {}
                   /\ Noted(e, queue'[e[1]]) - Wanted(e, queue'[e[1]]) + Cardinality(D)
                        >= Noted(e, queue[e[1]]) - Wanted(e, queue[e[1]])
                           + IF t \in Coming(e) THEN 1 ELSE 0
  PROVE  WaitInv'
<1>1. /\ Serving(kernel')
      /\ \A e \in Event : ToSet(kernel'.event[e]) \subseteq ToSet(kernel.event[e])
      /\ kernel'.current # kernel.current => Listed(kernel', kernel'.current)
  BY DEF Frees
<1>2. Places'
  BY DEF Places
<1>3. Waiters'
  <2> SUFFICES ASSUME NEW e \in Event, NEW u \in ToSet(kernel'.event[e])
               PROVE  /\ u \in Task /\ Placed(u)' /\ Waits(call'[u]) = e
                      /\ pc'[u] = "try" => kernel'.current # u
    BY DEF Waiters, Waits, Sends
  <2>1. /\ u \in Task \ {t} /\ Placed(u) /\ Waits(call[u]) = e
        /\ pc[u] = "try" => kernel.current # u
    BY <1>1 DEF WaitInv, Waiters
  <2>2. ~Listed(kernel', u)
    BY <1>1 DEF Serving, Parted
  <2>3. QED
    BY <1>1, <2>1, <2>2
<1>4. Attended'
  <2> SUFFICES ASSUME NEW e \in Event, Awaited(e)'
               PROVE  Enough(e, Coming(e)', queue'[e[1]])
    BY DEF Attended, Enough, Noted, Wanted, Unlocked
  <2>1. IsQueue(e[1], queue[e[1]]) /\ IsQueue(e[1], queue'[e[1]])
    BY EventIs DEF Queues, QueuesAfter
  <2>2. Coming(e) \in SUBSET Task /\ Coming(e)' \in SUBSET Task
    BY DEF Coming
  <2>3. CASE Wanted(e, queue'[e[1]]) = 0
    <3>1. Cardinality(Coming(e)') \in Nat
      BY <2>2, KernelAssumption, FS_Subset, FS_CardinalityType
    <3>2. Noted(e, queue'[e[1]]) \in Nat
      BY <2>1, CountsAre
    <3>3. QED
      BY <2>3, <3>1, <3>2 DEF Enough
  <2>4. CASE Wanted(e, queue'[e[1]]) # 0
    <3>1. PICK D \in SUBSET ToSet(kernel.event[e]) :
            /\ D \cap ToSet(kernel'.event[e]) = {}
            /\ Noted(e, queue'[e[1]]) - Wanted(e, queue'[e[1]]) + Cardinality(D)
                 >= Noted(e, queue[e[1]]) - Wanted(e, queue[e[1]])
                    + IF t \in Coming(e) THEN 1 ELSE 0
      BY <2>4
    <3>2. Enough(e, Coming(e), queue[e[1]])
      BY <2>4 DEF WaitInv, Attended
    <3>3. \A u \in D : u \in Task \ {t} /\ Placed(u) /\ Waits(call[u]) = e
      BY DEF WaitInv, Waiters
    <3>4. /\ D \in SUBSET Task /\ D \cap Coming(e) = {}
          /\ (Coming(e) \ {t}) \cup D \subseteq Coming(e)'
      BY <1>1, <3>1, <3>3 DEF Coming, Waits, Sends
    <3>5. PICK S, T, r, s :
            /\ S \in SUBSET Task /\ T \in SUBSET Task
            /\ S = Coming(e) /\ T = Coming(e)' /\ r = queue[e[1]] /\ s = queue'[e[1]]
      BY <2>2
    <3>6. Enough(e, T, s)
      BY <2>1, <3>1, <3>2, <3>4, <3>5, EnoughStill
    <3>7. QED
      BY <3>5, <3>6
  <2>5. QED
    BY <2>3, <2>4
<1>5. QED
  BY <1>1, <1>2, <1>3, <1>4 DEF WaitInv, Serving, Parted, IsKernel, Listed

\* A step in which nobody who is on the way goes astray, and the queues want no more.
LEMMA QuietInv ==
  ASSUME Queues, QueuesAfter, WaitInv, Frees(kernel, kernel'),
         \A u \in Task : Placed(u) => Placed(u)' /\ call'[u] = call[u],
         \A u \in Task : pc'[u] = "try" =>
           pc[u] = "try" \/ ~Placed(u) \/ Listed(kernel', kernel'.current),
         \A u \in Task : pc'[u] = "place" =>
           /\ call'[u].then = "blocked"
           /\ LET e == Waits(call'[u])
              IN  \/ pc[u] = "place" /\ e = Waits(call[u])
                  \/ Wanted(e, queue'[e[1]]) = 0,
         \A e \in Event : /\ Noted(e, queue'[e[1]]) = Noted(e, queue[e[1]])
                          /\ Wanted(e, queue'[e[1]]) = Wanted(e, queue[e[1]])
  PROVE  WaitInv'
<1>1. \A e \in Event : NoTask \notin ToSet(kernel.event[e]) /\ NoTask \notin Coming(e)
  BY KernelAssumption DEF WaitInv, Waiters, Coming
<1>2. ASSUME NEW e \in Event, Awaited(e)', Wanted(e, queue'[e[1]]) # 0
      PROVE  /\ Awaited(e)
             /\ \E D \in SUBSET ToSet(kernel.event[e]) :
                   /\ D \cap ToSet(kernel'.event[e]) = {}
                   /\ Noted(e, queue'[e[1]]) - Wanted(e, queue'[e[1]]) + Cardinality(D)
                        >= Noted(e, queue[e[1]]) - Wanted(e, queue[e[1]])
                           + IF NoTask \in Coming(e) THEN 1 ELSE 0
  <2>1. Awaited(e)
    <3>1. CASE kernel.event[e] # <<>>
      BY <3>1 DEF Awaited
    <3>2. CASE kernel.event[e] = <<>>
      <4>1. PICK u \in Task : pc'[u] = "place" /\ Waits(call'[u]) = e
        BY <1>2, <3>2, NobodyBegins DEF Awaited, Waits, Sends
      <4>2. QED
        BY <1>2, <4>1 DEF Awaited
    <3>3. QED
      BY <3>1, <3>2
  <2>2. Cardinality({}) = 0
    BY FS_EmptySet
  <2>3. IsQueue(e[1], queue[e[1]])
    BY EventIs DEF Queues
  <2>4. Wanted(e, queue[e[1]]) \in Nat /\ Noted(e, queue[e[1]]) \in Nat
    BY <2>3, CountsAre
  <2>5. Noted(e, queue'[e[1]]) - Wanted(e, queue'[e[1]]) + Cardinality({})
          >= Noted(e, queue[e[1]]) - Wanted(e, queue[e[1]]) + IF NoTask \in Coming(e) THEN 1 ELSE 0
    BY <1>1, <2>2, <2>4
  <2>6. {} \in SUBSET ToSet(kernel.event[e]) /\ {} \cap ToSet(kernel'.event[e]) = {}
    OBVIOUS
  <2>7. QED
    BY <2>1, <2>5, <2>6
<1>3. \A u \in Task \ {NoTask} : u \in Task
  OBVIOUS
<1>4. QED
  BY <1>1, <1>2, <1>3, StepInv

-----------------------------------------------------------------------------
(* How many each way of waking lets go *)

LEMMA WakeOneFrees ==
  ASSUME NEW k, Serving(k), NEW e \in Event
  PROVE  LET l == WakeOne(k, e)
         IN  /\ Frees(k, l)
             /\ \/ k.event[e] = <<>>
                \/ \E u \in ToSet(k.event[e]) : u \notin ToSet(l.event[e])
<1>1. CASE k.event[e] = <<>>
  BY <1>1, FreesNobody DEF WakeOne
<1>2. CASE k.event[e] # <<>>
  <2> DEFINE l == RemoveFromEventList(k, e)
             yields == WantsYield(k, e)
             m == YieldIf(yields, l)
  <2>1. Frees(k, l) /\ Head(k.event[e]) \notin ToSet(l.event[e])
    BY <1>2, RemoveFromEventListFrees
  <2>2. Head(k.event[e]) \in ToSet(k.event[e])
    BY <1>2, TailOfList DEF Serving, Parted
  <2>3. WakeOne(k, e) = m
    BY <1>2 DEF WakeOne
  <2> HIDE DEF l, yields
  <2>4. Frees(l, m) /\ m.event = l.event
    BY <2>1, YieldIfFrees DEF Frees
  <2>5. Frees(k, m)
    BY <2>1, <2>4, FreesTwice
  <2> HIDE DEF m
  <2>6. QED
    BY <2>1, <2>2, <2>3, <2>4, <2>5
<1>3. QED
  BY <1>1, <1>2

LEMMA WokenFrees ==
  ASSUME NEW k, Serving(k), NEW e \in Event
  PROVE  LET l == Woken(k, e)
         IN  /\ Frees(k, l)
             /\ k.event[e] = <<>> => l.event[e] = <<>>
             /\ k.event[e] # <<>> =>
                  \E u \in ToSet(k.event[e]) : u \notin ToSet(l.event[e])
<1>1. CASE k.event[e] = <<>>
  BY <1>1, FreesNobody DEF Woken
<1>2. CASE k.event[e] # <<>>
  <2> DEFINE l == RemoveFromEventList(k, e)
             m == [l EXCEPT !.missedYield = @ \/ WantsYield(k, e)]
  <2>1. Frees(k, l) /\ Head(k.event[e]) \notin ToSet(l.event[e])
    BY <1>2, RemoveFromEventListFrees
  <2>2. Head(k.event[e]) \in ToSet(k.event[e])
    BY <1>2, TailOfList DEF Serving, Parted
  <2>3. Woken(k, e) = m
    BY <1>2 DEF Woken
  <2> HIDE DEF l
  <2>4. /\ m = [x \in Fields |-> m[x]] /\ m.missedTicks = l.missedTicks
        /\ m.topReady = l.topReady /\ m.priority = l.priority /\ m.base = l.base
        /\ m.ready = l.ready /\ m.event = l.event /\ m.pending = l.pending
        /\ m.current = l.current /\ m.delayed = l.delayed /\ m.overflow = l.overflow
    BY <2>1 DEF Frees, Serving, Parted, IsKernel, Fields
  <2> HIDE DEF m
  <2>5. IsKernel(m)
    BY <2>1, <2>4 DEF Frees, Serving, Parted, IsKernel
  <2>6. Frees(l, m)
    BY <2>1, <2>4, <2>5, OnlyTimesFrees DEF OnlyTimes, Frees, Serving, Parted
  <2>7. Frees(k, m)
    BY <2>1, <2>6, FreesTwice
  <2>8. QED
    BY <1>2, <2>1, <2>2, <2>3, <2>4, <2>7
<1>3. QED
  BY <1>1, <1>2

\* Of those who wait for e, N are woken, or all.
LEMMA WakeManyFrees ==
  ASSUME NEW k, Serving(k), NEW e \in Event, NEW N \in Nat
  PROVE  LET l == WakeMany(k, e, N)
         IN  /\ Frees(k, l)
             /\ \/ l.event[e] = <<>>
                \/ Cardinality(ToSet(k.event[e]) \ ToSet(l.event[e])) >= N
<1>1. PICK after : /\ after[0] = k /\ WakeMany(k, e, N) = after[N]
                   /\ \A n \in 0 .. N - 1 : after[n + 1] = Woken(after[n], e)
  BY ONLY WakeManyRuns, N \in Nat
<1> DEFINE W == ToSet(k.event[e])
           Gone(n) == W \ ToSet(after[n].event[e])
           Done(n) == /\ Frees(k, after[n])
                      /\ after[n].event[e] = <<>> \/ Cardinality(Gone(n)) >= n
           S == {n \in Nat : n <= N => Done(n)}
<1>2. IsFiniteSet(W)
  <2>1. W \subseteq AnyTask
    BY DEF Serving, Parted, Once, ToSet
  <2>2. IsFiniteSet(AnyTask)
    BY KernelAssumption, FS_AddElement DEF AnyTask
  <2>3. QED
    BY <2>1, <2>2, FS_Subset
<1>3. \A n \in Nat : IsFiniteSet(Gone(n)) /\ Cardinality(Gone(n)) \in Nat
  BY <1>2, FS_Subset, FS_CardinalityType
<1> HIDE DEF Gone, Done, W
<1>4. 0 \in S
  <2>1. Cardinality(Gone(0)) >= 0 /\ Frees(k, after[0])
    BY <1>1, <1>3, FreesNobody
  <2>2. Done(0)
    BY <2>1 DEF Done
  <2>3. QED
    BY <2>2
<1>5. ASSUME NEW n \in S PROVE n + 1 \in S
  <2>1. SUFFICES ASSUME n + 1 <= N PROVE Done(n + 1)
    OBVIOUS
  <2>2. /\ n \in Nat /\ n + 1 \in Nat /\ Frees(k, after[n])
        /\ after[n].event[e] = <<>> \/ Cardinality(Gone(n)) >= n
    BY <2>1 DEF Done
  <2>3. PICK k1, k2 : k1 = after[n] /\ k2 = after[n + 1]
    OBVIOUS
  <2>4. k2 = Woken(k1, e)
    BY <1>1, <2>1, <2>3
  <2>5. /\ Frees(k1, k2)
        /\ k1.event[e] = <<>> => k2.event[e] = <<>>
        /\ k1.event[e] # <<>> =>
             \E u \in ToSet(k1.event[e]) : u \notin ToSet(k2.event[e])
    <3>1. Serving(k1)
      BY <2>2, <2>3 DEF Frees
    <3>2. QED
      BY <2>4, <3>1, WokenFrees
  <2>6. Frees(k, k2)
    BY <2>2, <2>3, <2>5, FreesTwice
  <2>7. CASE k1.event[e] = <<>>
    BY <2>3, <2>5, <2>6, <2>7 DEF Done
  <2>8. CASE k1.event[e] # <<>>
    <3>1. PICK u \in ToSet(k1.event[e]) : u \notin ToSet(k2.event[e])
      BY <2>5, <2>8
    <3>2. u \in Gone(n + 1) /\ u \notin Gone(n) /\ Gone(n) \subseteq Gone(n + 1)
      BY <2>2, <2>3, <2>5, <3>1 DEF Frees, Gone, W
    <3>3. PICK G, H : G = Gone(n) /\ H = Gone(n + 1)
      OBVIOUS
    <3>4. IsFiniteSet(G) /\ IsFiniteSet(H) /\ Cardinality(G) \in Nat /\ Cardinality(H) \in Nat
      BY <1>3, <2>2, <3>3
    <3>5. Cardinality(G \cup {u}) = Cardinality(G) + 1 /\ IsFiniteSet(G \cup {u})
      BY <3>2, <3>3, <3>4, FS_AddElement
    <3>6. Cardinality(G \cup {u}) <= Cardinality(H)
      BY <3>2, <3>3, <3>4, FS_Subset
    <3>7. Cardinality(G) >= n
      BY <2>2, <2>3, <2>8, <3>3
    <3>8. Cardinality(H) >= n + 1
      BY <2>2, <3>4, <3>5, <3>6, <3>7
    <3>9. QED
      BY <2>3, <2>6, <3>3, <3>8 DEF Done
  <2>9. QED
    BY <2>7, <2>8
<1>6. S = Nat
  <2> HIDE DEF S
  <2>1. S \in SUBSET Nat
    BY DEF S
  <2>2. QED
    BY <1>4, <1>5, <2>1, SetInduction
<1>7. Done(N)
  BY <1>6
<1>8. QED
  BY <1>1, <1>7 DEF Done, Gone, W

-----------------------------------------------------------------------------
(* The actions, one by one *)

\* A send or a receive takes what it wants, and lets one go on who waits for that.
LEMMA TransferCounts ==
  ASSUME Queues, QueuesAfter, NEW t \in Task, NEW c, IsCall(c), ~Blocking(c), Transfer(t, c),
         NEW e \in Event
  PROVE  LET r == queue[e[1]]
             s == queue'[e[1]]
         IN  /\ Noted(e, s) = Noted(e, r)
             /\ Wanted(e, s) <= Wanted(e, r)
                                + (IF e = Wakes(c) THEN 1 ELSE 0) - (IF e = Waits(c) THEN 1 ELSE 0)
<1> DEFINE q == c.queue
<1>1. /\ q \in Queue /\ IsQueue(q, queue[q]) /\ IsQueue(q, queue'[q])
      /\ c.op \in {"send", "sendFront", "receive", "peek"}
  BY DEF IsCall, Queues, QueuesAfter
<1>2. e[1] \in Queue /\ e[2] \in {"send", "receive"} /\ e = <<e[1], e[2]>>
  BY EventIs
<1> DEFINE new == CASE Sends(c) -> CopyTo(q, c.item, c.op = "sendFront")
                    [] c.op = "receive" -> CopyFrom(q, t)
                    [] c.op = "peek" -> queue[q]
<1>3. queue' = [queue EXCEPT ![q] = new]
  BY DEF Transfer
<1>4. /\ Sends(c) => new = CopyTo(q, c.item, c.op = "sendFront")
      /\ c.op = "receive" => new = CopyFrom(q, t)
      /\ c.op = "peek" => new = queue[q]
  <2> HIDE DEF q
  <2>1. QED
    BY DEF Sends
<1> HIDE DEF new
<1>5. queue'[q] = new /\ \A p \in Queue \ {q} : queue'[p] = queue[p]
  BY <1>1, <1>3 DEF Queues
<1>6. /\ new.txLock = queue[q].txLock /\ new.rxLock = queue[q].rxLock
      /\ new.count = IF Sends(c) THEN queue[q].count + 1
                     ELSE IF c.op = "receive" THEN queue[q].count - 1 ELSE queue[q].count
  <2>1. CASE Sends(c)
    <3> DEFINE s == CopyTo(q, c.item, c.op = "sendFront")
    <3>1. s.txLock = queue[q].txLock /\ s.rxLock = queue[q].rxLock /\ s.count = queue[q].count + 1
      BY <1>1 DEF CopyTo, IsQueue, QueueRecord
    <3> HIDE DEF s
    <3>2. QED
      BY <1>4, <2>1, <3>1 DEF s
  <2>2. CASE c.op = "receive"
    <3> DEFINE s == CopyFrom(q, t)
    <3>1. s.txLock = queue[q].txLock /\ s.rxLock = queue[q].rxLock /\ s.count = queue[q].count - 1
      BY <1>1 DEF CopyFrom, IsQueue, QueueRecord
    <3> HIDE DEF s
    <3>2. QED
      BY <1>4, <2>2, <3>1 DEF s, Sends
  <2>3. CASE c.op = "peek"
    BY <1>4, <2>3 DEF Sends
  <2>4. QED
    BY <1>1, <2>1, <2>2, <2>3 DEF Sends
<1>7. /\ Waits(c) = <<q, IF Sends(c) THEN "send" ELSE "receive">>
      /\ Wakes(c) = <<q, IF c.op = "receive" THEN "send" ELSE "receive">>
      /\ Sends(c) <=> c.op \in {"send", "sendFront"}
  BY DEF Waits, Wakes, Sends
<1> HIDE DEF q
<1>8. CASE e[1] # q
  <2>1. queue'[e[1]] = queue[e[1]] /\ e # Waits(c) /\ e # Wakes(c)
    BY <1>2, <1>5, <1>7, <1>8
  <2>2. IsQueue(e[1], queue[e[1]])
    BY <1>2 DEF Queues
  <2>3. Wanted(e, queue[e[1]]) \in Nat
    BY <2>2, CountsAre
  <2>4. QED
    BY <2>1, <2>3
<1>9. CASE e[1] = q
  <2>1. queue[q].count \in Int /\ Length[q] \in Int
    BY <1>1, QueueFields, RingIs
  <2>2. CASE e = <<q, "receive">>
    <3>1. /\ Wanted(e, queue'[q]) = new.count /\ Wanted(e, queue[q]) = queue[q].count
          /\ Noted(e, queue'[q]) = Noted(e, queue[q])
      BY <1>5, <1>6, <2>2 DEF Wanted, Noted
    <3>2. (e = Wakes(c) <=> c.op # "receive") /\ (e = Waits(c) <=> ~Sends(c))
      BY <1>7, <2>2
    <3>3. QED
      BY <1>1, <1>6, <1>7, <1>9, <2>1, <3>1, <3>2
  <2>3. CASE e = <<q, "send">>
    <3>1. /\ Wanted(e, queue'[q]) = Length[q] - new.count
          /\ Wanted(e, queue[q]) = Length[q] - queue[q].count
          /\ Noted(e, queue'[q]) = Noted(e, queue[q])
      BY <1>5, <1>6, <2>3 DEF Wanted, Noted
    <3>2. (e = Wakes(c) <=> c.op = "receive") /\ (e = Waits(c) <=> Sends(c))
      BY <1>7, <2>3
    <3>3. QED
      BY <1>1, <1>6, <1>7, <1>9, <2>1, <3>1, <3>2
  <2>4. QED
    BY <1>2, <1>9, <2>2, <2>3
<1>10. QED
  BY <1>8, <1>9

LEMMA TransferFrees ==
  ASSUME Queues, Serving(kernel), NEW t \in Task, NEW c, IsCall(c), Transfer(t, c)
  PROVE  /\ Frees(kernel, kernel') /\ Wakes(c) \in Event /\ Waits(c) \in Event
         /\ \/ kernel'.event[Wakes(c)] = <<>>
            \/ \E u \in ToSet(kernel.event[Wakes(c)]) : u \notin ToSet(kernel'.event[Wakes(c)])
<1> DEFINE h == queue[c.queue].holder
           k == IF Sends(c) THEN PriorityDisinherit(kernel, h) ELSE kernel
           e == Wakes(c)
<1>1. e \in Event /\ Waits(c) \in Event
  BY QueueAssumption DEF IsCall, Wakes, Waits
<1>2. h \in Task \cup {NoTask}
  BY QueueFields DEF IsCall, Queues
<1> HIDE DEF h, e
<1>3. Frees(kernel, k) /\ k.event = kernel.event
  BY <1>2, PriorityDisinheritFrees, FreesNobody
<1>4. kernel' = WakeOne(k, e)
  BY DEF Transfer, e, h
<1> HIDE DEF k
<1>5. /\ Frees(k, kernel')
      /\ \/ k.event[e] = <<>>
         \/ \E u \in ToSet(k.event[e]) : u \notin ToSet(kernel'.event[e])
  <2>1. Serving(k)
    BY <1>3 DEF Frees
  <2>2. QED
    BY <1>1, <1>4, <2>1, WakeOneFrees
<1>6. Frees(kernel, kernel')
  BY <1>3, <1>5, FreesTwice
<1>7. kernel.event[e] = <<>> => kernel'.event[e] = <<>>
  BY <1>1, <1>6, NobodyBegins
<1>8. QED
  BY <1>1, <1>3, <1>5, <1>6, <1>7 DEF e

\* Blocked, it waits for what there is none of.
LEMMA BlockingWants ==
  ASSUME Queues, NEW c, IsCall(c)
  PROVE  /\ Waits(c) \in Event /\ Waits(c)[1] = c.queue
         /\ Blocking(c) <=> Wanted(Waits(c), queue[c.queue]) = 0
<1>1. c.queue \in Queue /\ IsQueue(c.queue, queue[c.queue])
  BY DEF IsCall, Queues
<1>2. queue[c.queue].count \in Int /\ Length[c.queue] \in Int
  BY <1>1, QueueFields, RingIs
<1>3. /\ Waits(c) \in Event /\ Waits(c)[1] = c.queue
      /\ Waits(c)[2] = IF Sends(c) THEN "send" ELSE "receive"
  BY <1>1, QueueAssumption DEF Waits
<1>4. QED
  BY <1>2, <1>3 DEF Blocking, Wanted

\* One pass of the loop: the caller is served, gives up, or goes on to wait.
LEMMA TryWaits ==
  ASSUME Queues, QueuesAfter, CallsOK, KernelInv, WaitInv, NEW t \in Task, NEW c, IsCall(c),
         Try(t, c), pc[t] \in {"run", "try"}, pc[t] = "try" => c = call[t]
  PROVE  WaitInv'
<1>1. /\ kernel.suspendDepth = 0 /\ kernel.current = t
      /\ \A u \in Task : pc[u] \notin Locking
  BY DEF Try, KernelInv, Suspension, Locking
<1>2. \A e \in Event : t \notin ToSet(kernel.event[e])
  BY <1>1 DEF WaitInv, Waiters, Placed
<1>3. /\ pc'[t] \in {"run", "suspend"}
      /\ \A u \in Task \ {t} : pc'[u] = pc[u] /\ call'[u] = call[u]
  BY DEF CallsOK, Try, Return, Goto
<1>4. \A u \in Task : pc'[u] # "place"
  BY <1>1, <1>3 DEF Locking
<1>5. \A e \in Event : t \in Coming(e) => e = Waits(c)
  BY DEF Coming, Placed
<1>6. \A u \in Task \ {t} : Placed(u) => Placed(u)' /\ call'[u] = call[u]
  BY <1>3 DEF Placed
<1>7. ASSUME NEW e \in Event, kernel'.event[e] # <<>>, Frees(kernel, kernel')
      PROVE  Awaited(e)
  BY <1>7, NobodyBegins DEF Awaited
<1>8. \A u \in Task \ {t} : pc'[u] = "try" =>
        pc[u] = "try" \/ ~Placed(u) \/ Listed(kernel', kernel'.current)
  BY <1>3
<1>9. \A u \in Task : pc'[u] = "place" => call'[u].then = "blocked"
  BY <1>4
<1>10. CASE Blocking(c)
  <2>1. UNCHANGED <<kernel, queue>>
    BY <1>10 DEF Try
  <2>2. Frees(kernel, kernel')
    BY <2>1, FreesNobody DEF WaitInv
  <2>3. ASSUME NEW e \in Event, Awaited(e)'
        PROVE  \/ Wanted(e, queue'[e[1]]) = 0
               \/ /\ Awaited(e)
                  /\ \E D \in SUBSET ToSet(kernel.event[e]) :
                       /\ D \cap ToSet(kernel'.event[e]) = {}
                       /\ Noted(e, queue'[e[1]]) - Wanted(e, queue'[e[1]]) + Cardinality(D)
                            >= Noted(e, queue[e[1]]) - Wanted(e, queue[e[1]])
                               + IF t \in Coming(e) THEN 1 ELSE 0
    <3>1. CASE t \in Coming(e)
      BY <1>5, <1>10, <2>1, <3>1, BlockingWants
    <3>2. CASE t \notin Coming(e)
      <4>1. Awaited(e)
        BY <1>4, <1>7, <2>2, <2>3 DEF Awaited
      <4>2. IsQueue(e[1], queue[e[1]])
        BY EventIs DEF Queues
      <4>3. Wanted(e, queue[e[1]]) \in Nat /\ Noted(e, queue[e[1]]) \in Nat
        BY <4>2, CountsAre
      <4>4. Cardinality({}) = 0
        BY FS_EmptySet
      <4>5. Noted(e, queue'[e[1]]) - Wanted(e, queue'[e[1]]) + Cardinality({})
              >= Noted(e, queue[e[1]]) - Wanted(e, queue[e[1]]) + IF t \in Coming(e) THEN 1 ELSE 0
        BY <2>1, <3>2, <4>3, <4>4
      <4>6. {} \in SUBSET ToSet(kernel.event[e]) /\ {} \cap ToSet(kernel'.event[e]) = {}
        OBVIOUS
      <4>7. QED
        BY <4>1, <4>5, <4>6
    <3>3. QED
      BY <3>1, <3>2
  <2>4. QED
    BY <1>2, <1>6, <1>8, <1>9, <2>2, <2>3, StepInv
<1>11. CASE ~Blocking(c)
  <2>1. Transfer(t, c)
    BY <1>11 DEF Try
  <2>2. /\ Frees(kernel, kernel')
        /\ \/ kernel'.event[Wakes(c)] = <<>>
           \/ \E u \in ToSet(kernel.event[Wakes(c)]) : u \notin ToSet(kernel'.event[Wakes(c)])
    BY <2>1, TransferFrees DEF WaitInv
  <2>3. ASSUME NEW e \in Event, Awaited(e)'
        PROVE  /\ Awaited(e)
               /\ \E D \in SUBSET ToSet(kernel.event[e]) :
                    /\ D \cap ToSet(kernel'.event[e]) = {}
                    /\ Noted(e, queue'[e[1]]) - Wanted(e, queue'[e[1]]) + Cardinality(D)
                         >= Noted(e, queue[e[1]]) - Wanted(e, queue[e[1]])
                            + IF t \in Coming(e) THEN 1 ELSE 0
    <3>1. kernel'.event[e] # <<>> /\ Awaited(e)
      BY <1>4, <1>7, <2>2, <2>3 DEF Awaited
    <3>2. IsQueue(e[1], queue[e[1]]) /\ IsQueue(e[1], queue'[e[1]])
      BY EventIs DEF Queues, QueuesAfter
    <3>3. PICK w \in Nat, n \in Nat, v \in Nat :
            /\ w = Wanted(e, queue[e[1]]) /\ n = Noted(e, queue[e[1]])
            /\ v = Wanted(e, queue'[e[1]])
      BY <3>2, CountsAre
    <3>4. /\ Noted(e, queue'[e[1]]) = n
          /\ v <= w + (IF e = Wakes(c) THEN 1 ELSE 0) - (IF e = Waits(c) THEN 1 ELSE 0)
      BY <1>11, <2>1, <3>3, TransferCounts
    <3>5. t \in Coming(e) => e = Waits(c)
      BY <1>5
    <3>6. \E D \in SUBSET ToSet(kernel.event[e]) :
            D \cap ToSet(kernel'.event[e]) = {} /\ Cardinality(D) = IF e = Wakes(c) THEN 1 ELSE 0
      <4>1. CASE e = Wakes(c)
        <5>1. PICK u \in ToSet(kernel.event[e]) : u \notin ToSet(kernel'.event[e])
          BY <2>2, <3>1, <4>1
        <5>2. Cardinality({u}) = 1 /\ {u} \cap ToSet(kernel'.event[e]) = {}
          BY <5>1, FS_Singleton
        <5>3. QED
          BY <4>1, <5>2
      <4>2. CASE e # Wakes(c)
        <5>1. Cardinality({}) = 0 /\ {} \cap ToSet(kernel'.event[e]) = {}
          BY FS_EmptySet
        <5>2. QED
          BY <4>2, <5>1
      <4>3. QED
        BY <4>1, <4>2
    <3>7. PICK D \in SUBSET ToSet(kernel.event[e]) :
            D \cap ToSet(kernel'.event[e]) = {} /\ Cardinality(D) = IF e = Wakes(c) THEN 1 ELSE 0
      BY <3>6
    <3>8. n - v + Cardinality(D) >= n - w + IF t \in Coming(e) THEN 1 ELSE 0
      BY <3>4, <3>5, <3>7
    <3>9. QED
      BY <3>1, <3>3, <3>4, <3>7, <3>8
  <2>4. ASSUME NEW e \in Event, Awaited(e)'
        PROVE  \/ Wanted(e, queue'[e[1]]) = 0
               \/ /\ Awaited(e)
                  /\ \E D \in SUBSET ToSet(kernel.event[e]) :
                       /\ D \cap ToSet(kernel'.event[e]) = {}
                       /\ Noted(e, queue'[e[1]]) - Wanted(e, queue'[e[1]]) + Cardinality(D)
                            >= Noted(e, queue[e[1]]) - Wanted(e, queue[e[1]])
                               + IF t \in Coming(e) THEN 1 ELSE 0
    BY <2>3, <2>4
  <2>5. QED
    BY <1>2, <1>6, <1>8, <1>9, <2>2, <2>4, StepInv
<1>12. QED
  BY <1>10, <1>11

\* Nothing has changed in what the queues want.
SameCounts ==
  \A e \in Event : /\ Noted(e, queue'[e[1]]) = Noted(e, queue[e[1]])
                   /\ Wanted(e, queue'[e[1]]) = Wanted(e, queue[e[1]])

LEMMA QueuesSame == UNCHANGED queue => SameCounts
BY DEF SameCounts

LEMMA NobodyMoves ==
  ASSUME Queues, QueuesAfter, WaitInv, Frees(kernel, kernel'), UNCHANGED <<pc, call>>,
         SameCounts
  PROVE  WaitInv'
<1>1. \A u \in Task : Placed(u) => Placed(u)' /\ call'[u] = call[u]
  BY DEF Placed
<1>2. \A u \in Task : pc'[u] = "place" =>
        /\ call'[u].then = "blocked" /\ pc[u] = "place" /\ Waits(call'[u]) = Waits(call[u])
  BY DEF WaitInv, Places
<1>3. QED
  BY <1>1, <1>2, QuietInv DEF SameCounts

LEMMA MovesQuietly ==
  ASSUME Queues, QueuesAfter, CallsOK, WaitInv, Frees(kernel, kernel'), SameCounts,
         NEW t \in Task, NEW l, Goto(t, l), NEW c, call' = [call EXCEPT ![t] = c],
         Placed(t) => /\ c = call[t]
                      /\ \/ l \in {"try", "yield"}
                         \/ l \in {"unlockTx", "unlockRx", "resume"} /\ c.then = "blocked",
         l = "try" => pc[t] = "try" \/ ~Placed(t) \/ Listed(kernel', kernel'.current),
         l = "place" => /\ c.then = "blocked"
                        /\ Wanted(Waits(c), queue'[Waits(c)[1]]) = 0
  PROVE  WaitInv'
<1>1. /\ pc'[t] = l /\ call'[t] = c
      /\ \A u \in Task \ {t} : pc'[u] = pc[u] /\ call'[u] = call[u]
  BY DEF CallsOK, Goto
<1>2. \A u \in Task : Placed(u) => Placed(u)' /\ call'[u] = call[u]
  BY <1>1 DEF Placed
<1>3. \A u \in Task : pc'[u] = "try" =>
        pc[u] = "try" \/ ~Placed(u) \/ Listed(kernel', kernel'.current)
  BY <1>1
<1>4. ASSUME NEW u \in Task, pc'[u] = "place"
      PROVE  /\ call'[u].then = "blocked"
             /\ LET e == Waits(call'[u])
                IN  \/ pc[u] = "place" /\ e = Waits(call[u])
                    \/ Wanted(e, queue'[e[1]]) = 0
  <2>1. CASE u = t
    BY <1>1, <1>4, <2>1
  <2>2. CASE u # t
    BY <1>1, <1>4, <2>2 DEF WaitInv, Places
  <2>3. QED
    BY <2>1, <2>2
<1>5. QED
  BY <1>2, <1>3, <1>4, QuietInv DEF SameCounts

\* A task that is not on the way goes on, but not to wait.
LEMMA MovesAside ==
  ASSUME Queues, QueuesAfter, CallsOK, WaitInv, Frees(kernel, kernel'), SameCounts,
         NEW t \in Task, ~Placed(t), NEW l, Goto(t, l), l # "place",
         NEW c, call' = [call EXCEPT ![t] = c]
  PROVE  WaitInv'
<1>1. Placed(t) => /\ c = call[t]
                   /\ \/ l \in {"try", "yield"}
                      \/ l \in {"unlockTx", "unlockRx", "resume"} /\ c.then = "blocked"
  OBVIOUS
<1>2. l = "try" => pc[t] = "try" \/ ~Placed(t) \/ Listed(kernel', kernel'.current)
  OBVIOUS
<1>3. l = "place" => /\ c.then = "blocked"
                     /\ Wanted(Waits(c), queue'[Waits(c)[1]]) = 0
  OBVIOUS
<1>4. QED
  BY <1>1, <1>2, <1>3, MovesQuietly

LEMMA DepthWaits ==
  ASSUME Queues, QueuesAfter, WaitInv, NEW t \in Task, TakeAgain(t) \/ GiveOne(t)
  PROVE  WaitInv'
<1>1. UNCHANGED <<kernel, pc, call>>
  BY DEF TakeAgain, GiveOne
<1>2. PICK p \in Queue : \E v : queue' = [queue EXCEPT ![p].depth = v]
  <2>1. CASE TakeAgain(t)
    BY <2>1 DEF TakeAgain
  <2>2. CASE GiveOne(t)
    BY <2>2 DEF GiveOne
  <2>3. QED
    BY <2>1, <2>2
<1>3. ASSUME NEW q \in Queue
      PROVE  /\ queue'[q].count = queue[q].count
             /\ queue'[q].txLock = queue[q].txLock /\ queue'[q].rxLock = queue[q].rxLock
  BY <1>2 DEF Queues, IsQueue, QueueRecord
<1>4. SameCounts
  BY <1>3, EventIs DEF SameCounts, Wanted, Noted
<1>5. Frees(kernel, kernel')
  BY <1>1, FreesNobody DEF WaitInv
<1>6. QED
  BY <1>1, <1>4, <1>5, NobodyMoves

LEMMA SetPriorityWaits ==
  ASSUME Queues, QueuesAfter, WaitInv, NEW t \in Task, SetPriority(t)
  PROVE  WaitInv'
<1>1. PICK u \in Task, p \in Priority : kernel' = PrioritySet(kernel, u, p)
  BY DEF SetPriority
<1>2. Frees(kernel, kernel')
  BY <1>1, PrioritySetFrees DEF WaitInv
<1>3. QED
  BY <1>2, QueuesSame, NobodyMoves DEF SetPriority

LEMMA TickWaits ==
  ASSUME Queues, QueuesAfter, WaitInv, TickInterrupt
  PROVE  WaitInv'
<1> DEFINE k == IncrementTick(kernel)
<1>1. Frees(kernel, k)
  BY IncrementTickFrees DEF WaitInv
<1>2. kernel' = SwitchContext(k)
  BY DEF TickInterrupt
<1> HIDE DEF k
<1>3. Frees(k, kernel')
  BY <1>1, <1>2, SwitchContextFrees DEF Frees
<1>4. Frees(kernel, kernel')
  BY <1>1, <1>3, FreesTwice
<1>5. QED
  BY <1>4, QueuesSame, NobodyMoves DEF TickInterrupt

LEMMA SuspendWaits ==
  ASSUME Queues, QueuesAfter, CallsOK, WaitInv, NEW t \in Task, SuspendScheduler(t)
  PROVE  WaitInv'
<1>1. PICK c : c = call[t]
  OBVIOUS
<1>2. /\ pc[t] = "suspend" /\ Goto(t, "lock") /\ UNCHANGED queue
      /\ call' = [call EXCEPT ![t] = c] /\ kernel' = SuspendAll(kernel)
  BY <1>1 DEF SuspendScheduler, Step, CallsOK
<1>3. Frees(kernel, kernel')
  BY <1>2, SuspendAllFrees DEF WaitInv
<1>4. ~Placed(t)
  BY <1>2 DEF Placed
<1>5. SameCounts
  BY <1>2, QueuesSame
<1>6. PICK l : l = "lock" /\ Goto(t, l)
  BY <1>2
<1>7. l # "place"
  BY <1>6
<1>8. QED
  BY <1>2, <1>3, <1>4, <1>5, <1>6, <1>7, MovesAside

\* prvLockQueue: an unlocked queue is locked with nothing noted.
LEMMA LockWaits ==
  ASSUME Queues, QueuesAfter, CallsOK, WaitInv, NEW t \in Task, Lock(t)
  PROVE  WaitInv'
<1>1. PICK c : c = call[t]
  OBVIOUS
<1>2. /\ pc[t] = "lock" /\ Goto(t, "check") /\ UNCHANGED kernel
      /\ call' = [call EXCEPT ![t] = c] /\ IsCall(c)
  BY <1>1 DEF Lock, Step, CallsOK
<1> DEFINE q == c.queue
           v == Max({queue[q].rxLock, 0})
           w == Max({queue[q].txLock, 0})
<1>3. q \in Queue /\ IsQueue(q, queue[q])
  BY <1>2 DEF IsCall, Queues
<1>4. queue' = [queue EXCEPT ![q] = [queue[q] EXCEPT !.rxLock = v, !.txLock = w]]
  BY <1>1, <1>3 DEF Lock, Queues
<1>5. /\ v = IF queue[q].rxLock = Unlocked THEN 0 ELSE queue[q].rxLock
      /\ w = IF queue[q].txLock = Unlocked THEN 0 ELSE queue[q].txLock
  <2>1. \A l \in {Unlocked} \cup Nat : Max({l, 0}) = IF l = Unlocked THEN 0 ELSE l
    BY DEF Max, Unlocked
  <2>2. QED
    BY <1>3, <2>1, QueueFields
<1>6. v # Unlocked /\ w # Unlocked
  BY <1>3, <1>5, QueueFields DEF Unlocked
<1> HIDE DEF v, w, q
<1>7. /\ queue'[q].count = queue[q].count /\ queue'[q].txLock = w /\ queue'[q].rxLock = v
      /\ \A p \in Queue \ {q} : queue'[p] = queue[p]
  BY <1>3, <1>4 DEF Queues, IsQueue, QueueRecord
<1>8. SameCounts
  <2> SUFFICES ASSUME NEW e \in Event
               PROVE  /\ Noted(e, queue'[e[1]]) = Noted(e, queue[e[1]])
                      /\ Wanted(e, queue'[e[1]]) = Wanted(e, queue[e[1]])
    BY DEF SameCounts
  <2>1. CASE e[1] = q
    BY <1>5, <1>6, <1>7, <2>1 DEF Wanted, Noted
  <2>2. CASE e[1] # q
    BY <1>7, <2>2, EventIs
  <2>3. QED
    BY <2>1, <2>2
<1>9. Frees(kernel, kernel')
  BY <1>2, FreesNobody DEF WaitInv
<1>10. ~Placed(t)
  BY <1>2 DEF Placed
<1>11. PICK l : l = "check" /\ Goto(t, l)
  BY <1>2
<1>12. l # "place"
  BY <1>11
<1>13. QED
  BY <1>2, <1>8, <1>9, <1>10, <1>11, <1>12, MovesAside

LEMMA CheckWaits ==
  ASSUME Queues, QueuesAfter, CallsOK, WaitInv, NEW t \in Task, Check(t)
  PROVE  WaitInv'
<1>1. PICK over : over = IsTimeOut(kernel, call[t].timeOut, call[t].ticks)
  OBVIOUS
<1>2. PICK l \in {"unlockTx", "test"} : pc[t] = "check" /\ Goto(t, l)
  BY <1>1 DEF Check, Step
<1>3. PICK c : call' = [call EXCEPT ![t] = c]
  BY DEF Check
<1>4. UNCHANGED <<kernel, queue>>
  BY DEF Check
<1>5. Frees(kernel, kernel')
  BY <1>4, FreesNobody DEF WaitInv
<1>6. ~Placed(t) /\ l # "place"
  BY <1>2 DEF Placed
<1>7. SameCounts
  BY <1>4, QueuesSame
<1>8. QED
  BY <1>2, <1>3, <1>5, <1>6, <1>7, MovesAside

\* prvIsQueueFull or prvIsQueueEmpty: there is nothing to be had when it goes on to wait.
LEMMA TestWaits ==
  ASSUME Queues, QueuesAfter, CallsOK, WaitInv, NEW t \in Task, Test(t)
  PROVE  WaitInv'
<1> DEFINE b == Blocking(call[t])
           c == [call[t] EXCEPT !.then = IF b THEN "blocked" ELSE "again"]
<1>1. /\ pc[t] = "test" /\ Goto(t, IF b THEN "place" ELSE "unlockTx")
      /\ call' = [call EXCEPT ![t] = c]
      /\ UNCHANGED <<kernel, queue>> /\ IsCall(call[t])
  BY DEF Test, Step, CallsOK
<1>2. /\ c.then = (IF b THEN "blocked" ELSE "again") /\ c.op = call[t].op
      /\ c.queue = call[t].queue
  BY <1>1 DEF IsCall
<1>3. Waits(c) = Waits(call[t])
  BY <1>2 DEF Waits, Sends
<1>4. b => Wanted(Waits(c), queue'[Waits(c)[1]]) = 0
  BY <1>1, <1>3, BlockingWants
<1> HIDE DEF b, c
<1>5. Frees(kernel, kernel')
  BY <1>1, FreesNobody DEF WaitInv
<1>6. ~Placed(t)
  BY <1>1 DEF Placed
<1>7. SameCounts
  BY <1>1, QueuesSame
<1>8. PICK d : d = c /\ call' = [call EXCEPT ![t] = d]
  BY <1>1
<1>9. CASE b
  <2>1. PICK l : l = "place" /\ Goto(t, l)
    BY <1>1, <1>9
  <2>2. l # "try" /\ d.then = "blocked" /\ Wanted(Waits(d), queue'[Waits(d)[1]]) = 0
    BY <1>2, <1>4, <1>8, <1>9, <2>1
  <2>3. QED
    BY <1>5, <1>6, <1>7, <1>8, <2>1, <2>2, MovesQuietly
<1>10. CASE ~b
  <2>1. PICK l : l = "unlockTx" /\ Goto(t, l)
    BY <1>1, <1>10
  <2>2. l # "place"
    BY <2>1
  <2>3. QED
    BY <1>5, <1>6, <1>7, <1>8, <2>1, <2>2, MovesAside
<1>11. QED
  BY <1>9, <1>10

LEMMA ResumedWaits ==
  ASSUME Queues, QueuesAfter, CallsOK, WaitInv, NEW t \in Task, Resumed(t)
  PROVE  WaitInv'
<1>1. /\ pc[t] = "resume" /\ kernel' = ResumeAll(kernel) /\ UNCHANGED queue
      /\ IsCall(call[t]) /\ call[t].then \in {"fail", "again", "blocked"}
  BY DEF Resumed, CallsOK, IsCall
<1>2. /\ Frees(kernel, kernel')
      /\ AlreadyYields(kernel) => Listed(kernel', kernel'.current)
  BY <1>1, ResumeAllFrees DEF WaitInv
<1>3. Placed(t) <=> call[t].then = "blocked"
  BY <1>1 DEF Placed
<1>4. SameCounts
  BY <1>1, QueuesSame
<1>5. CASE call[t].then = "fail"
  <2>1. PICK l, c : /\ l = "run" /\ Goto(t, l) /\ call' = [call EXCEPT ![t] = c]
    BY <1>1, <1>5 DEF Resumed, Return
  <2>2. ~Placed(t) /\ l # "place"
    BY <1>3, <1>5, <2>1
  <2>3. QED
    BY <1>2, <1>4, <2>1, <2>2, MovesAside
<1>6. CASE call[t].then # "fail"
  <2>1. call' = [call EXCEPT ![t] = call[t]]
    BY <1>1, <1>6 DEF Resumed, CallsOK
  <2>2. PICK c : c = call[t] /\ call' = [call EXCEPT ![t] = c]
    BY <2>1
  <2>3. CASE call[t].then = "again"
    <3>1. PICK l : l = "try" /\ Goto(t, l)
      BY <2>3 DEF Resumed
    <3>2. ~Placed(t) /\ l # "place"
      BY <1>3, <2>3, <3>1
    <3>3. QED
      BY <1>2, <1>4, <2>2, <3>1, <3>2, MovesAside
  <2>4. CASE call[t].then = "blocked"
    <3>1. PICK l \in {"try", "yield"} : Goto(t, l) /\ (l = "try" => AlreadyYields(kernel))
      BY <2>4 DEF Resumed
    <3>2. /\ l # "place"
          /\ l = "try" => Listed(kernel', kernel'.current)
      BY <1>2, <3>1
    <3>3. QED
      BY <1>2, <1>4, <2>2, <3>1, <3>2, MovesQuietly
  <2>5. QED
    BY <1>1, <1>6, <2>3, <2>4
<1>7. QED
  BY <1>5, <1>6

LEMMA YieldWaits ==
  ASSUME Queues, QueuesAfter, CallsOK, KernelInv, WaitInv, NEW t \in Task, Yield(t)
  PROVE  WaitInv'
<1>1. PICK c : c = call[t]
  OBVIOUS
<1>2. /\ kernel.current = t /\ pc[t] = "yield" /\ Goto(t, "try")
      /\ call' = [call EXCEPT ![t] = c]
      /\ kernel' = SwitchContext(kernel) /\ UNCHANGED queue
  BY <1>1 DEF Yield, Step, CallsOK
<1>3. kernel.suspendDepth = 0
  BY <1>2 DEF KernelInv, Suspension, Locking
<1>4. Frees(kernel, kernel') /\ Listed(kernel', kernel'.current)
  BY <1>2, <1>3, SwitchContextFrees DEF WaitInv
<1>5. SameCounts
  BY <1>2, QueuesSame
<1>6. PICK l : l = "try" /\ Goto(t, l)
  BY <1>2
<1>7. l # "place" /\ l \in {"try", "yield"}
  BY <1>6
<1>8. QED
  BY <1>1, <1>2, <1>4, <1>5, <1>6, <1>7, MovesQuietly

LEMMA StartWaits ==
  ASSUME Queues, QueuesAfter, CallsOK, KernelInv, WaitInv, NEW t \in Task, Start(t)
  PROVE  WaitInv'
<1>1. PICK c \in Calls(t) :
        Try(t, [op |-> c.op, queue |-> c.queue, item |-> c.item, limit |-> c.limit,
                ticks |-> c.limit, timeOut |-> TimeOutNow(kernel), then |-> "again"])
  BY DEF Start
<1> DEFINE d == [op |-> c.op, queue |-> c.queue, item |-> c.item, limit |-> c.limit,
                 ticks |-> c.limit, timeOut |-> TimeOutNow(kernel), then |-> "again"]
<1>2. /\ c.op \in {"send", "sendFront", "receive", "peek"} /\ c.queue \in Queue
      /\ c.item \in IF Sends(c) THEN Item[c.queue] ELSE {NoItem}
  BY DEF Calls
<1>3. IsCall(d)
  BY <1>2 DEF IsCall, Sends
<1>4. pc[t] = "run" /\ Try(t, d)
  BY <1>1 DEF Start
<1> HIDE DEF d
<1>5. QED
  BY <1>3, <1>4, TryWaits

LEMMA AgainWaits ==
  ASSUME Queues, QueuesAfter, CallsOK, KernelInv, WaitInv, NEW t \in Task, Again(t)
  PROVE  WaitInv'
<1>1. PICK c : c = call[t]
  OBVIOUS
<1>2. pc[t] = "try" /\ Try(t, c) /\ IsCall(c)
  BY <1>1 DEF Again, CallsOK
<1>3. QED
  BY <1>1, <1>2, TryWaits

\* vTaskPlaceOnEventList: nobody is waited for who was not already.
LEMMA PlaceWaits ==
  ASSUME Queues, CallsOK, KernelInv, WaitInv, NEW t \in Task, Place(t)
  PROVE  WaitInv'
<1>1. PICK c : c = call[t]
  OBVIOUS
<1> DEFINE h == queue[c.queue].holder
           inherits == Kind[c.queue] = "mutex" /\ ~Sends(c)
           k == IF inherits THEN PriorityInherit(kernel, h) ELSE kernel
           e == Waits(c)
<1>2. /\ pc[t] = "place" /\ kernel.current = t /\ Goto(t, "unlockTx")
      /\ UNCHANGED <<queue, call>> /\ IsCall(c) /\ c.queue \in Queue
      /\ kernel' = PlaceOnEventList(k, e, c.ticks)
  BY <1>1 DEF Place, Step, CallsOK, IsCall
<1>3. inherits => h \in Task
  <2>1. inherits => h # NoTask
    BY <1>1, <1>2 DEF KernelInv, Takers, Mutexes, MutexOK
  <2>2. h \in Task \cup {NoTask}
    BY <1>2, QueueFields DEF Queues
  <2>3. QED
    BY <2>1, <2>2
<1>4. e \in Event
  BY <1>2, BlockingWants
<1> HIDE DEF h, inherits, e
<1>5. Serving(k) /\ k.event = kernel.event /\ k.current = t
  <2>1. Serving(kernel) /\ kernel.current \in AnyTask
    BY <1>2 DEF WaitInv, AnyTask
  <2>2. CASE inherits
    BY <1>2, <1>3, <2>1, <2>2, PriorityInheritFrees DEF Frees
  <2>3. CASE ~inherits
    BY <1>2, <2>1, <2>3
  <2>4. QED
    BY <2>2, <2>3
<1>6. \A f \in Event : t \notin ToSet(kernel.event[f])
  BY <1>2 DEF WaitInv, Waiters, Placed
<1> HIDE DEF k
<1>7. /\ Serving(kernel') /\ kernel'.current = t
      /\ ToSet(kernel'.event[e]) = ToSet(kernel.event[e]) \cup {t}
      /\ \A f \in Event \ {e} : kernel'.event[f] = kernel.event[f]
  <2>1. PICK ticks : ticks = c.ticks
    OBVIOUS
  <2>2. k.current \in Task /\ \A f \in Event : k.current \notin ToSet(k.event[f])
    BY <1>5, <1>6
  <2>3. PICK l : l = PlaceOnEventList(k, e, ticks)
    OBVIOUS
  <2>4. /\ Serving(l) /\ l.current = k.current
        /\ ToSet(l.event[e]) = ToSet(k.event[e]) \cup {k.current}
        /\ \A f \in Event \ {e} : l.event[f] = k.event[f]
    BY <1>4, <1>5, <2>2, <2>3, PlaceOnEventListServes
  <2>5. QED
    BY <1>2, <1>5, <2>1, <2>3, <2>4
<1>8. /\ pc'[t] = "unlockTx" /\ call[t].then = "blocked" /\ Waits(call[t]) = e
      /\ \A u \in Task \ {t} : pc'[u] = pc[u] /\ pc[u] # "place"
  BY <1>1, <1>2 DEF Goto, CallsOK, KernelInv, Suspension, Locking, WaitInv, Places, e
<1>9. Placed(t)' /\ ~Placed(t) /\ \A u \in Task \ {t} : Placed(u)' <=> Placed(u)
  BY <1>2, <1>8 DEF Placed
<1>10. Places'
  BY <1>8 DEF Places
<1>11. Waiters'
  <2> SUFFICES ASSUME NEW f \in Event, NEW u \in ToSet(kernel'.event[f])
               PROVE  /\ u \in Task /\ Placed(u)' /\ Waits(call'[u]) = f
                      /\ pc'[u] = "try" => kernel'.current # u
    BY DEF Waiters, Waits, Sends
  <2>1. CASE u = t
    BY <1>2, <1>6, <1>7, <1>8, <1>9, <2>1
  <2>2. CASE u # t
    BY <1>2, <1>7, <1>8, <1>9, <2>2 DEF WaitInv, Waiters
  <2>3. QED
    BY <2>1, <2>2
<1>12. ASSUME NEW f \in Event, Awaited(f)'
       PROVE  Awaited(f) /\ Coming(f)' = Coming(f)
  <2>1. Waits(call[t]) = e /\ UNCHANGED call
    BY <1>2, <1>8
  <2>2. \A u \in Task : Waits(call'[u]) = Waits(call[u]) /\ Waits(call[u])' = Waits(call[u])
    BY <2>1 DEF Waits, Sends
  <2>3. Awaited(f)
    BY <1>2, <1>7, <1>8, <1>12, <2>1 DEF Awaited
  <2>4. \A u \in Task : u \in Coming(f)' <=> u \in Coming(f)
    BY <1>7, <1>9, <2>1, <2>2 DEF Coming
  <2>5. QED
    BY <2>3, <2>4 DEF Coming
<1>13. Attended'
  BY <1>2, <1>12 DEF WaitInv, Attended, Enough, Noted, Wanted
<1>14. QED
  BY <1>7, <1>10, <1>11, <1>13 DEF WaitInv, Serving, Parted, IsKernel, Listed

\* Whoever is noted while a queue is locked is woken when it is unlocked.
LEMMA UnlockSideWaits ==
  ASSUME Queues, QueuesAfter, CallsOK, WaitInv, NEW t \in Task,
         pc[t] \in {"unlockTx", "unlockRx"}, NEW l \in {"unlockRx", "resume"}, Goto(t, l),
         UNCHANGED call, \A u \in Task \ {t} : pc[u] # "place",
         NEW e \in Event, NEW N \in Nat, kernel' = WakeMany(kernel, e, N),
         Noted(e, queue[e[1]]) = N, Noted(e, queue'[e[1]]) = 0,
         \A f \in Event \ {e} : Noted(f, queue'[f[1]]) = Noted(f, queue[f[1]]),
         \A f \in Event : Wanted(f, queue'[f[1]]) = Wanted(f, queue[f[1]])
  PROVE  WaitInv'
<1>1. /\ Frees(kernel, kernel')
      /\ \/ kernel'.event[e] = <<>>
         \/ Cardinality(ToSet(kernel.event[e]) \ ToSet(kernel'.event[e])) >= N
  BY WakeManyFrees DEF WaitInv
<1>2. pc'[t] = l /\ \A u \in Task \ {t} : pc'[u] = pc[u]
  BY DEF Goto, CallsOK
<1>3. \A u \in Task : Placed(u) => Placed(u)' /\ call'[u] = call[u]
  BY <1>2 DEF Placed
<1>4. \A u \in Task : pc'[u] = "try" => pc[u] = "try"
  BY <1>2
<1>5. \A u \in Task : pc'[u] # "place"
  BY <1>2
<1>6. \A f \in Event : NoTask \notin ToSet(kernel.event[f]) /\ NoTask \notin Coming(f)
  BY KernelAssumption DEF WaitInv, Waiters, Coming
<1>7. ASSUME NEW f \in Event, Awaited(f)'
      PROVE  /\ Awaited(f)
             /\ \E D \in SUBSET ToSet(kernel.event[f]) :
                  /\ D \cap ToSet(kernel'.event[f]) = {}
                  /\ Noted(f, queue'[f[1]]) - Wanted(f, queue'[f[1]]) + Cardinality(D)
                       >= Noted(f, queue[f[1]]) - Wanted(f, queue[f[1]])
                          + IF NoTask \in Coming(f) THEN 1 ELSE 0
  <2>1. kernel'.event[f] # <<>>
    BY <1>5, <1>7 DEF Awaited
  <2>2. Awaited(f)
    BY <1>1, <2>1, NobodyBegins DEF Awaited
  <2>3. IsQueue(f[1], queue[f[1]])
    BY EventIs DEF Queues
  <2>4. Wanted(f, queue[f[1]]) \in Nat /\ Noted(f, queue[f[1]]) \in Nat
    BY <2>3, CountsAre
  <2>5. CASE f = e
    <3>1. PICK D : D = ToSet(kernel.event[e]) \ ToSet(kernel'.event[e])
      OBVIOUS
    <3>2. Cardinality(D) >= N
      BY <1>1, <2>1, <2>5, <3>1
    <3>3. Cardinality(D) \in Nat
      <4>1. D \subseteq Task
        BY <3>1 DEF WaitInv, Waiters
      <4>2. QED
        BY <4>1, KernelAssumption, FS_Subset, FS_CardinalityType
    <3>4. Noted(f, queue'[f[1]]) - Wanted(f, queue'[f[1]]) + Cardinality(D)
            >= Noted(f, queue[f[1]]) - Wanted(f, queue[f[1]])
               + IF NoTask \in Coming(f) THEN 1 ELSE 0
      BY <1>6, <2>4, <2>5, <3>2, <3>3
    <3>5. D \in SUBSET ToSet(kernel.event[f]) /\ D \cap ToSet(kernel'.event[f]) = {}
      BY <2>5, <3>1
    <3>6. QED
      BY <2>2, <3>4, <3>5
  <2>6. CASE f # e
    <3>1. Cardinality({}) = 0
      BY FS_EmptySet
    <3>2. Noted(f, queue'[f[1]]) - Wanted(f, queue'[f[1]]) + Cardinality({})
            >= Noted(f, queue[f[1]]) - Wanted(f, queue[f[1]])
               + IF NoTask \in Coming(f) THEN 1 ELSE 0
      BY <1>6, <2>4, <2>6, <3>1
    <3>3. {} \in SUBSET ToSet(kernel.event[f]) /\ {} \cap ToSet(kernel'.event[f]) = {}
      OBVIOUS
    <3>4. QED
      BY <2>2, <3>2, <3>3
  <2>7. QED
    BY <2>5, <2>6
<1>8. \A u \in Task \ {NoTask} : u \in Task
  OBVIOUS
<1>9. QED
  BY <1>1, <1>3, <1>4, <1>5, <1>6, <1>7, <1>8, StepInv

LEMMA UnlockWaits ==
  ASSUME Queues, QueuesAfter, CallsOK, KernelInv, WaitInv, NEW t \in Task,
         UnlockTx(t) \/ UnlockRx(t)
  PROVE  WaitInv'
<1>1. PICK q \in Queue : q = call[t].queue
  BY DEF UnlockTx, UnlockRx, Step, CallsOK, IsCall
<1>2. /\ queue[q].txLock \in {Unlocked} \cup Nat /\ queue[q].rxLock \in {Unlocked} \cup Nat
      /\ <<q, "receive">> \in Event /\ <<q, "send">> \in Event
  BY QueueFields, QueueAssumption DEF Queues
<1>3. pc[t] \in Locking /\ \A u \in Task \ {t} : pc[u] # "place"
  BY DEF UnlockTx, UnlockRx, Step, Locking, KernelInv, Suspension
<1>4. ASSUME NEW f \in Event
      PROVE  f[1] \in Queue /\ f[2] \in {"send", "receive"} /\ f = <<f[1], f[2]>>
  BY EventIs
<1>5. CASE UnlockTx(t)
  <2> DEFINE s == [queue[q] EXCEPT !.txLock = Unlocked]
             e == <<q, "receive">>
  <2>1. /\ pc[t] = "unlockTx" /\ Goto(t, "unlockRx") /\ UNCHANGED call
        /\ queue' = [queue EXCEPT ![q] = s]
        /\ kernel' = WakeMany(kernel, e, queue[q].txLock)
    BY <1>1, <1>5 DEF UnlockTx, Step
  <2>2. s.count = queue[q].count /\ s.txLock = Unlocked /\ s.rxLock = queue[q].rxLock
    BY DEF Queues, IsQueue, QueueRecord
  <2> HIDE DEF s
  <2>3. queue'[q] = s /\ \A p \in Queue \ {q} : queue'[p] = queue[p]
    BY <2>1 DEF Queues
  <2>4. PICK N \in Nat : N = queue[q].txLock
    BY <1>1, <1>2, <2>1 DEF KernelInv, LocksOK, Within, TxLocking
  <2>5. Noted(e, queue[e[1]]) = N /\ Noted(e, queue'[e[1]]) = 0
    BY <2>2, <2>3, <2>4 DEF Noted, Unlocked
  <2>6. \A f \in Event \ {e} : Noted(f, queue'[f[1]]) = Noted(f, queue[f[1]])
    BY <1>4, <2>2, <2>3 DEF Noted
  <2>7. \A f \in Event : Wanted(f, queue'[f[1]]) = Wanted(f, queue[f[1]])
    BY <1>4, <2>2, <2>3 DEF Wanted
  <2> HIDE DEF e
  <2>8. PICK l \in {"unlockRx", "resume"} : Goto(t, l)
    BY <2>1
  <2>9. e \in Event /\ kernel' = WakeMany(kernel, e, N) /\ pc[t] \in {"unlockTx", "unlockRx"}
    BY <1>2, <2>1, <2>4 DEF e
  <2>10. QED
    BY <1>3, <2>1, <2>5, <2>6, <2>7, <2>8, <2>9, UnlockSideWaits
<1>6. CASE UnlockRx(t)
  <2> DEFINE s == [queue[q] EXCEPT !.rxLock = Unlocked]
             e == <<q, "send">>
  <2>1. /\ pc[t] = "unlockRx" /\ Goto(t, "resume") /\ UNCHANGED call
        /\ queue' = [queue EXCEPT ![q] = s]
        /\ kernel' = WakeMany(kernel, e, queue[q].rxLock)
    BY <1>1, <1>6 DEF UnlockRx, Step
  <2>2. s.count = queue[q].count /\ s.rxLock = Unlocked /\ s.txLock = queue[q].txLock
    BY DEF Queues, IsQueue, QueueRecord
  <2> HIDE DEF s
  <2>3. queue'[q] = s /\ \A p \in Queue \ {q} : queue'[p] = queue[p]
    BY <2>1 DEF Queues
  <2>4. PICK N \in Nat : N = queue[q].rxLock
    BY <1>1, <1>2, <2>1 DEF KernelInv, LocksOK, Within, RxLocking
  <2>5. Noted(e, queue[e[1]]) = N /\ Noted(e, queue'[e[1]]) = 0
    BY <2>2, <2>3, <2>4 DEF Noted, Unlocked
  <2>6. \A f \in Event \ {e} : Noted(f, queue'[f[1]]) = Noted(f, queue[f[1]])
    BY <1>4, <2>2, <2>3 DEF Noted
  <2>7. \A f \in Event : Wanted(f, queue'[f[1]]) = Wanted(f, queue[f[1]])
    BY <1>4, <2>2, <2>3 DEF Wanted
  <2> HIDE DEF e
  <2>8. PICK l \in {"unlockRx", "resume"} : Goto(t, l)
    BY <2>1
  <2>9. e \in Event /\ kernel' = WakeMany(kernel, e, N) /\ pc[t] \in {"unlockTx", "unlockRx"}
    BY <1>2, <2>1, <2>4 DEF e
  <2>10. QED
    BY <1>3, <2>1, <2>5, <2>6, <2>7, <2>8, <2>9, UnlockSideWaits
<1>7. QED
  BY <1>5, <1>6

\* One more can go on who waits for e: one is woken, or noted.
LEMMA TellWaits ==
  ASSUME Queues, QueuesAfter, WaitInv, UNCHANGED <<pc, call>>,
         NEW e \in Event, Wanted(e, queue'[e[1]]) = Wanted(e, queue[e[1]]) + 1,
         \/ /\ kernel' = kernel
            /\ Noted(e, queue'[e[1]]) = Noted(e, queue[e[1]]) + 1
         \/ /\ kernel' = WakeOne(kernel, e)
            /\ Noted(e, queue'[e[1]]) = Noted(e, queue[e[1]])
            /\ \A u \in Task : pc[u] = "place" => Waits(call[u]) # e,
         \A f \in Event \ {e} : /\ Wanted(f, queue'[f[1]]) <= Wanted(f, queue[f[1]])
                                /\ Noted(f, queue'[f[1]]) = Noted(f, queue[f[1]])
  PROVE  WaitInv'
<1>1. /\ Frees(kernel, kernel')
      /\ \/ Noted(e, queue'[e[1]]) = Noted(e, queue[e[1]]) + 1
         \/ /\ Noted(e, queue'[e[1]]) = Noted(e, queue[e[1]])
            /\ \/ kernel.event[e] = <<>>
               \/ \E u \in ToSet(kernel.event[e]) : u \notin ToSet(kernel'.event[e])
            /\ \A u \in Task : pc[u] = "place" => Waits(call[u]) # e
  BY WakeOneFrees, FreesNobody DEF WaitInv
<1>2. \A u \in Task : (Placed(u) => Placed(u)') /\ call'[u] = call[u] /\ pc'[u] = pc[u]
  BY DEF Placed
<1>3. \A u \in Task : pc'[u] = "place" => call'[u].then = "blocked"
  BY DEF WaitInv, Places
<1>4. \A f \in Event : NoTask \notin ToSet(kernel.event[f]) /\ NoTask \notin Coming(f)
  BY KernelAssumption DEF WaitInv, Waiters, Coming
<1>5. ASSUME NEW f \in Event, Awaited(f)'
      PROVE  /\ Awaited(f)
             /\ \E D \in SUBSET ToSet(kernel.event[f]) :
                  /\ D \cap ToSet(kernel'.event[f]) = {}
                  /\ Noted(f, queue'[f[1]]) - Wanted(f, queue'[f[1]]) + Cardinality(D)
                       >= Noted(f, queue[f[1]]) - Wanted(f, queue[f[1]])
                          + IF NoTask \in Coming(f) THEN 1 ELSE 0
  <2>1. /\ Awaited(f)
        /\ kernel.event[f] = <<>> => \E u \in Task : pc[u] = "place" /\ Waits(call[u]) = f
    BY <1>1, <1>5, NobodyBegins DEF Awaited, Waits, Sends
  <2>2. IsQueue(f[1], queue[f[1]]) /\ IsQueue(f[1], queue'[f[1]])
    BY EventIs DEF Queues, QueuesAfter
  <2>3. /\ Wanted(f, queue[f[1]]) \in Nat /\ Noted(f, queue[f[1]]) \in Nat
        /\ Wanted(f, queue'[f[1]]) \in Nat
    BY <2>2, CountsAre
  <2>4. Cardinality({}) = 0
    BY FS_EmptySet
  <2>5. CASE f = e /\ Noted(e, queue'[e[1]]) = Noted(e, queue[e[1]])
    <3>1. PICK u \in ToSet(kernel.event[e]) : u \notin ToSet(kernel'.event[e])
      BY <1>1, <2>1, <2>3, <2>5
    <3>2. Noted(f, queue'[f[1]]) - Wanted(f, queue'[f[1]]) + Cardinality({u})
            >= Noted(f, queue[f[1]]) - Wanted(f, queue[f[1]])
               + IF NoTask \in Coming(f) THEN 1 ELSE 0
      <4>1. Cardinality({u}) = 1
        BY FS_Singleton
      <4>2. /\ Wanted(f, queue'[f[1]]) = Wanted(f, queue[f[1]]) + 1
            /\ Noted(f, queue'[f[1]]) = Noted(f, queue[f[1]])
        BY <2>5
      <4>3. QED
        BY <1>4, <2>3, <4>1, <4>2
    <3>3. {u} \in SUBSET ToSet(kernel.event[f]) /\ {u} \cap ToSet(kernel'.event[f]) = {}
      BY <2>5, <3>1
    <3>4. QED
      BY <2>1, <3>2, <3>3
  <2>6. CASE f = e => Noted(e, queue'[e[1]]) # Noted(e, queue[e[1]])
    <3>1. Noted(f, queue'[f[1]]) - Wanted(f, queue'[f[1]]) + Cardinality({})
            >= Noted(f, queue[f[1]]) - Wanted(f, queue[f[1]])
               + IF NoTask \in Coming(f) THEN 1 ELSE 0
      BY <1>1, <1>4, <2>3, <2>4, <2>6
    <3>2. {} \in SUBSET ToSet(kernel.event[f]) /\ {} \cap ToSet(kernel'.event[f]) = {}
      OBVIOUS
    <3>3. QED
      BY <2>1, <3>1, <3>2
  <2>7. QED
    BY <2>5, <2>6
<1>6. \A u \in Task \ {NoTask} : u \in Task
  OBVIOUS
<1>7. QED
  BY <1>1, <1>2, <1>3, <1>4, <1>5, <1>6, StepInv

LEMMA HandlerWaits ==
  ASSUME Queues, QueuesAfter, CallsOK, KernelInv, WaitInv, NEW q \in FromISR,
         SendFromISR(q) \/ ReceiveFromISR(q)
  PROVE  WaitInv'
<1>1. /\ q \in Queue /\ IsQueue(q, queue[q])
      /\ queue[q].count \in Nat /\ Length[q] \in Nat
      /\ queue[q].txLock \in {Unlocked} \cup Nat /\ queue[q].rxLock \in {Unlocked} \cup Nat
      /\ <<q, "receive">> \in Event /\ <<q, "send">> \in Event
  BY QueueAssumption, QueueFields, RingIs DEF Queues
<1>2. ASSUME NEW f \in Event
      PROVE  f[1] \in Queue /\ f[2] \in {"send", "receive"} /\ f = <<f[1], f[2]>>
  BY EventIs
<1>3. ASSUME NEW u \in Task, pc[u] = "place"
      PROVE  /\ Waits(call[u])[1] = call[u].queue
             /\ call[u].queue = q => queue[q].txLock # Unlocked /\ queue[q].rxLock # Unlocked
  BY <1>1, <1>3 DEF Waits, KernelInv, LocksOK, Within, TxLocking, RxLocking
<1>4. UNCHANGED <<pc, call>>
  BY DEF SendFromISR, ReceiveFromISR
<1>5. CASE SendFromISR(q)
  <2>1. PICK x \in Item[q], front \in BOOLEAN :
          queue' = [queue EXCEPT ![q] = [CopyTo(q, x, front) EXCEPT !.txLock = Counted(@)]]
    BY <1>5 DEF SendFromISR
  <2> DEFINE r == CopyTo(q, x, front)
             s == [r EXCEPT !.txLock = Counted(r.txLock)]
             e == <<q, "receive">>
  <2>2. queue[q].count # Length[q] /\ kernel' = Tell(kernel, e, queue[q].txLock)
    BY <1>1, <1>5 DEF SendFromISR
  <2>3. r.count = queue[q].count + 1 /\ r.txLock = queue[q].txLock /\ r.rxLock = queue[q].rxLock
    BY <1>1 DEF CopyTo, IsQueue, QueueRecord
  <2>4. IsQueue(q, r)
    BY <1>1, <2>2, PutIs
  <2>5. queue' = [queue EXCEPT ![q] = s]
    BY <2>1
  <2> HIDE DEF r
  <2>6. s.count = r.count /\ s.rxLock = r.rxLock /\ s.txLock = Counted(r.txLock)
    BY <2>4 DEF IsQueue, QueueRecord
  <2> HIDE DEF s
  <2>7. queue'[q] = s /\ \A p \in Queue \ {q} : queue'[p] = queue[p]
    BY <1>1, <2>5 DEF Queues
  <2>8. Wanted(e, queue'[e[1]]) = Wanted(e, queue[e[1]]) + 1
    BY <2>3, <2>6, <2>7 DEF Wanted
  <2>9. ASSUME NEW f \in Event \ {e}
        PROVE  /\ Wanted(f, queue'[f[1]]) <= Wanted(f, queue[f[1]])
               /\ Noted(f, queue'[f[1]]) = Noted(f, queue[f[1]])
    <3>1. CASE f[1] = q
      BY <1>1, <1>2, <2>3, <2>6, <2>7, <3>1 DEF Wanted, Noted
    <3>2. CASE f[1] # q
      <4>1. IsQueue(f[1], queue[f[1]])
        BY <1>2 DEF Queues
      <4>2. Wanted(f, queue[f[1]]) \in Nat
        BY <4>1, CountsAre
      <4>3. QED
        BY <1>2, <2>7, <3>2, <4>2
    <3>3. QED
      BY <3>1, <3>2
  <2>10. \/ /\ kernel' = kernel
            /\ Noted(e, queue'[e[1]]) = Noted(e, queue[e[1]]) + 1
         \/ /\ kernel' = WakeOne(kernel, e)
            /\ Noted(e, queue'[e[1]]) = Noted(e, queue[e[1]])
            /\ \A u \in Task : pc[u] = "place" => Waits(call[u]) # e
    <3>1. CASE queue[q].txLock = Unlocked
      BY <1>3, <2>2, <2>3, <2>6, <2>7, <3>1 DEF Tell, Noted, Counted
    <3>2. CASE queue[q].txLock # Unlocked
      BY <1>1, <2>2, <2>3, <2>6, <2>7, <3>2 DEF Tell, Noted, Counted, Unlocked
    <3>3. QED
      BY <3>1, <3>2
  <2>11. e \in Event
    BY <1>1
  <2> HIDE DEF e
  <2>12. QED
    BY <1>4, <2>8, <2>9, <2>10, <2>11, TellWaits
<1>6. CASE ReceiveFromISR(q)
  <2> DEFINE r == CopyFrom(q, NoTask)
             s == [r EXCEPT !.rxLock = Counted(r.rxLock)]
             e == <<q, "send">>
  <2>1. queue[q].count # 0 /\ kernel' = Tell(kernel, e, queue[q].rxLock)
    BY <1>1, <1>6 DEF ReceiveFromISR
  <2>2. r.count = queue[q].count - 1 /\ r.txLock = queue[q].txLock /\ r.rxLock = queue[q].rxLock
    BY <1>1 DEF CopyFrom, IsQueue, QueueRecord
  <2>3. IsQueue(q, r)
    BY <1>1, <2>1, GetIs
  <2>4. queue' = [queue EXCEPT ![q] = s]
    BY <1>6 DEF ReceiveFromISR
  <2> HIDE DEF r
  <2>5. s.count = r.count /\ s.txLock = r.txLock /\ s.rxLock = Counted(r.rxLock)
    BY <2>3 DEF IsQueue, QueueRecord
  <2> HIDE DEF s
  <2>6. queue'[q] = s /\ \A p \in Queue \ {q} : queue'[p] = queue[p]
    BY <1>1, <2>4 DEF Queues
  <2>7. Wanted(e, queue'[e[1]]) = Wanted(e, queue[e[1]]) + 1
    BY <1>1, <2>2, <2>5, <2>6 DEF Wanted
  <2>8. ASSUME NEW f \in Event \ {e}
        PROVE  /\ Wanted(f, queue'[f[1]]) <= Wanted(f, queue[f[1]])
               /\ Noted(f, queue'[f[1]]) = Noted(f, queue[f[1]])
    <3>1. CASE f[1] = q
      BY <1>1, <1>2, <2>2, <2>5, <2>6, <3>1 DEF Wanted, Noted
    <3>2. CASE f[1] # q
      <4>1. IsQueue(f[1], queue[f[1]])
        BY <1>2 DEF Queues
      <4>2. Wanted(f, queue[f[1]]) \in Nat
        BY <4>1, CountsAre
      <4>3. QED
        BY <1>2, <2>6, <3>2, <4>2
    <3>3. QED
      BY <3>1, <3>2
  <2>9. \/ /\ kernel' = kernel
           /\ Noted(e, queue'[e[1]]) = Noted(e, queue[e[1]]) + 1
        \/ /\ kernel' = WakeOne(kernel, e)
           /\ Noted(e, queue'[e[1]]) = Noted(e, queue[e[1]])
           /\ \A u \in Task : pc[u] = "place" => Waits(call[u]) # e
    <3>1. CASE queue[q].rxLock = Unlocked
      BY <1>3, <2>1, <2>2, <2>5, <2>6, <3>1 DEF Tell, Noted, Counted
    <3>2. CASE queue[q].rxLock # Unlocked
      BY <1>1, <2>1, <2>2, <2>5, <2>6, <3>2 DEF Tell, Noted, Counted, Unlocked
    <3>3. QED
      BY <3>1, <3>2
  <2>10. e \in Event
    BY <1>1
  <2> HIDE DEF e
  <2>11. QED
    BY <1>4, <2>7, <2>8, <2>9, <2>10, TellWaits
<1>7. QED
  BY <1>5, <1>6

\* A task that runs its own code is in no call.
NoCalls == \A t \in Task : pc[t] = "run" => call[t] = NoCall

LEMMA CallsEnd ==
  ASSUME CallsOK, NoCalls, [Next]_vars
  PROVE  NoCalls'
<1>1. ASSUME UNCHANGED <<pc, call>>
      PROVE  NoCalls'
  BY <1>1 DEF NoCalls
<1>2. ASSUME NEW t \in Task, NEW l, Goto(t, l), NEW c, call' = [call EXCEPT ![t] = c],
             l # "run" \/ c = NoCall
      PROVE  NoCalls'
  BY <1>2 DEF NoCalls, CallsOK, Goto
<1>3. ASSUME NEW t \in Task, NEW l, Goto(t, l), l # "run", UNCHANGED call
      PROVE  NoCalls'
  BY <1>3 DEF NoCalls, CallsOK, Goto
<1>4. ASSUME NEW t \in Task, NEW c, Try(t, c)
      PROVE  NoCalls'
  <2>1. CASE Return(t)
    <3>1. Goto(t, "run") /\ call' = [call EXCEPT ![t] = NoCall]
      BY <2>1 DEF Return
    <3>2. QED
      BY <1>2, <3>1
  <2>2. CASE Goto(t, "suspend") /\ call' = [call EXCEPT ![t] = c]
    <3>1. PICK l : l = "suspend" /\ Goto(t, l)
      BY <2>2
    <3>2. l # "run"
      BY <3>1
    <3>3. QED
      BY <1>2, <2>2, <3>1, <3>2
  <2>3. QED
    BY <1>4, <2>1, <2>2 DEF Try
<1>5. ASSUME NEW t \in Task, Resumed(t)
      PROVE  NoCalls'
  <2>1. CASE Return(t)
    <3>1. Goto(t, "run") /\ call' = [call EXCEPT ![t] = NoCall]
      BY <2>1 DEF Return
    <3>2. QED
      BY <1>2, <3>1
  <2>2. CASE call[t].then # "fail"
    <3>1. call[t].then \in {"again", "blocked"}
      BY <1>5, <2>2 DEF Resumed, CallsOK, IsCall
    <3>2. PICK l \in {"try", "yield"} : Goto(t, l) /\ UNCHANGED call
      BY <1>5, <3>1 DEF Resumed
    <3>3. QED
      BY <1>3, <3>2
  <2>3. QED
    BY <1>5, <2>1, <2>2 DEF Resumed
<1>6. ASSUME NEW t \in Task, Check(t) \/ Test(t)
      PROVE  NoCalls'
  <2>1. PICK l \in {"unlockTx", "test", "place"} : Goto(t, l)
    BY <1>6 DEF Check, Test, Step
  <2>2. \E c : call' = [call EXCEPT ![t] = c]
    <3>1. CASE Check(t)
      BY <3>1 DEF Check
    <3>2. CASE Test(t)
      <4>1. call' = [call EXCEPT ![t] =
                       [call[t] EXCEPT !.then = IF Blocking(call[t]) THEN "blocked" ELSE "again"]]
        BY <3>2 DEF Test, CallsOK
      <4>2. QED
        BY <4>1
    <3>3. QED
      BY <1>6, <3>1, <3>2
  <2>3. QED
    BY <1>2, <2>1, <2>2
<1>7. ASSUME NEW t \in Task,
             \/ SuspendScheduler(t) \/ Lock(t) \/ Place(t) \/ UnlockTx(t) \/ UnlockRx(t)
             \/ Yield(t)
      PROVE  NoCalls'
  <2>1. PICK l \in Locking \cup {"try"} : Goto(t, l) /\ UNCHANGED call
    BY <1>7 DEF SuspendScheduler, Lock, Place, UnlockTx, UnlockRx, Yield, Step, Locking
  <2>2. l # "run"
    BY <2>1 DEF Locking
  <2>3. QED
    BY <1>3, <2>1, <2>2
<1>8. ASSUME NEW t \in Task, TakeAgain(t) \/ GiveOne(t) \/ SetPriority(t)
      PROVE  UNCHANGED <<pc, call>>
  BY <1>8 DEF TakeAgain, GiveOne, SetPriority
<1>9. ASSUME NEW q \in FromISR, SendFromISR(q) \/ ReceiveFromISR(q)
      PROVE  UNCHANGED <<pc, call>>
  BY <1>9 DEF SendFromISR, ReceiveFromISR
<1>10. TickInterrupt \/ UNCHANGED vars => UNCHANGED <<pc, call>>
  BY DEF TickInterrupt, vars
<1>11. ASSUME NEW t \in Task, Start(t) \/ Again(t)
       PROVE  \E c : Try(t, c)
  <2>1. CASE Start(t)
    BY <2>1 DEF Start
  <2>2. CASE Again(t)
    BY <2>2 DEF Again
  <2>3. QED
    BY <1>11, <2>1, <2>2
<1>12. QED
  BY <1>1, <1>4, <1>5, <1>6, <1>7, <1>8, <1>9, <1>10, <1>11 DEF Next

LEMMA InitWaits ==
  ASSUME Init
  PROVE  WaitInv /\ NoCalls
<1>1. PICK N, order, created :
        /\ N \in Nat
        /\ order \in [1 .. N -> Task] /\ \A i, j \in 1 .. N : order[i] = order[j] => i = j
        /\ created[0] = BootKernel
        /\ \A n \in 0 .. N - 1 :
             created[n + 1] = Create(created[n], order[n + 1], Base[order[n + 1]])
        /\ kernel = StartScheduler(created[N])
  BY MainCreates
<1> DEFINE Booted(n) == /\ Booting(created[n])
                        /\ \A u : Listed(created[n], u) => \E i \in 1 .. n : u = order[i]
           S == {n \in Nat : n <= N => Booted(n)}
<1>2. 0 \in S
  BY <1>1, BootIsBooting
<1>3. ASSUME NEW n \in S PROVE n + 1 \in S
  <2>1. SUFFICES ASSUME n + 1 <= N PROVE Booted(n + 1)
    OBVIOUS
  <2>2. n \in Nat /\ Booted(n) /\ n \in 0 .. N - 1 /\ n + 1 \in 1 .. N
    BY <1>1, <2>1
  <2>3. PICK t \in Task : t = order[n + 1]
    BY <1>1, <2>2
  <2>4. PICK p \in Priority : p = Base[t]
    BY QueueAssumption
  <2>5. PICK k, l : k = created[n] /\ l = created[n + 1]
    OBVIOUS
  <2>6. l = Create(k, t, p) /\ Booting(k)
    BY <1>1, <2>2, <2>3, <2>4, <2>5
  <2>7. t \in AnyTask /\ t # Idle
    BY KernelAssumption DEF AnyTask
  <2>8. ~Listed(k, t)
    <3>1. ASSUME NEW i \in 1 .. n PROVE order[i] # t
      BY <1>1, <2>2, <2>3
    <3>2. QED
      BY <2>2, <2>5, <3>1
  <2>9. /\ Booting(l)
        /\ \A u : Listed(l, u) => Listed(k, u) \/ u = t
    BY <2>6, <2>7, <2>8, CreateBoots
  <2>10. 1 .. n + 1 = (1 .. n) \cup {n + 1}
    BY <2>2
  <2>11. QED
    BY <2>2, <2>3, <2>5, <2>9, <2>10
<1>4. S = Nat
  <2> HIDE DEF S
  <2>1. S \in SUBSET Nat
    BY DEF S
  <2>2. QED
    BY <1>2, <1>3, <2>1, SetInduction
<1>5. Booted(N)
  BY <1>1, <1>4
<1>6. PICK k : k = created[N]
  OBVIOUS
<1>7. ~Listed(k, Idle)
  BY <1>1, <1>5, <1>6, KernelAssumption
<1>8. Serving(kernel) /\ \A e \in Event : kernel.event[e] = <<>>
  BY <1>1, <1>5, <1>6, <1>7, StartSchedulerServes
<1>9. \A t \in Task : pc[t] = "run" /\ call[t] = NoCall
  BY DEF Init
<1>10. ToSet(<<>>) = {}
  BY DEF ToSet
<1>11. Places /\ Waiters /\ Attended
  BY <1>8, <1>9, <1>10 DEF Places, Waiters, Attended, Awaited
<1>12. QED
  BY <1>8, <1>9, <1>11 DEF WaitInv, NoCalls

LEMMA WaitsStay ==
  ASSUME Queues, CallsOK, KernelInv, WaitInv, [Next]_vars
  PROVE  WaitInv'
<1>1. QueuesAfter
  BY AnyStep DEF Queues, QueueStep, Keeps, Puts, Gets, Others, QueuesAfter
<1>2. CASE UNCHANGED vars
  <2>1. UNCHANGED <<kernel, queue, pc, call>>
    BY <1>2 DEF vars
  <2>2. Frees(kernel, kernel')
    BY <2>1, FreesNobody DEF WaitInv
  <2>3. QED
    BY <1>1, <2>1, <2>2, QueuesSame, NobodyMoves
<1>3. ASSUME NEW t \in Task,
             \/ Start(t) \/ Again(t) \/ TakeAgain(t) \/ GiveOne(t) \/ SetPriority(t)
             \/ SuspendScheduler(t) \/ Lock(t) \/ Check(t) \/ Test(t) \/ Place(t)
             \/ UnlockTx(t) \/ UnlockRx(t) \/ Resumed(t) \/ Yield(t)
      PROVE  WaitInv'
  BY <1>1, <1>3, StartWaits, AgainWaits, DepthWaits, SetPriorityWaits, SuspendWaits, LockWaits,
     CheckWaits, TestWaits, PlaceWaits, UnlockWaits, ResumedWaits, YieldWaits
<1>4. ASSUME NEW q \in FromISR, SendFromISR(q) \/ ReceiveFromISR(q)
      PROVE  WaitInv'
  BY <1>1, <1>4, HandlerWaits
<1>5. TickInterrupt => WaitInv'
  BY <1>1, TickWaits
<1>6. QED
  BY <1>2, <1>3, <1>4, <1>5 DEF Next

\* Once the scheduler runs nobody is noted, so somebody is on the way.
LEMMA WaitsImply ==
  ASSUME Queues, CallsOK, KernelInv, WaitInv, NoCalls
  PROVE  NoLostWakeup
<1> SUFFICES ASSUME kernel.suspendDepth = 0, NEW t \in Task, call[t] # NoCall,
                    t \in ToSet(kernel.event[Waits(call[t])]), ~Blocking(call[t])
             PROVE  \E u \in Task : Comes(u, Waits(call[t]))
  BY DEF NoLostWakeup
<1>1. PICK c, e : c = call[t] /\ e = Waits(c)
  OBVIOUS
<1>2. IsCall(c)
  BY <1>1 DEF NoCalls, CallsOK
<1>3. e \in Event /\ e[1] = c.queue /\ Wanted(e, queue[e[1]]) # 0
  BY <1>1, <1>2, BlockingWants
<1>4. Noted(e, queue[e[1]]) = 0
  <2>1. queue[e[1]].txLock = Unlocked /\ queue[e[1]].rxLock = Unlocked
    BY <1>3, EventIs, KernelInvImplies DEF QueueInv
  <2>2. QED
    BY <2>1 DEF Noted
<1>5. Wanted(e, queue[e[1]]) \in Nat
  <2>1. IsQueue(e[1], queue[e[1]])
    BY <1>3, EventIs DEF Queues
  <2>2. QED
    BY <1>3, <2>1, CountsAre
<1>6. Enough(e, Coming(e), queue[e[1]])
  <2>1. kernel.event[e] # <<>>
    BY <1>1 DEF ToSet
  <2>2. QED
    BY <1>3, <2>1 DEF WaitInv, Attended, Awaited
<1>7. Coming(e) # {}
  <2>1. Cardinality({}) = 0
    BY FS_EmptySet
  <2>2. QED
    BY <1>3, <1>4, <1>5, <1>6, <2>1 DEF Enough
<1>8. PICK u \in Task : Placed(u) /\ Waits(call[u]) = e /\ u \notin ToSet(kernel.event[e])
  BY <1>7 DEF Coming
<1>9. pc[u] \in {"try", "yield"}
  BY <1>8 DEF Placed, KernelInv, Suspension, Locking
<1>10. call[u] # NoCall
  BY <1>9 DEF CallsOK, IsCall, NoCall
<1>11. QED
  BY <1>1, <1>8, <1>9, <1>10 DEF Comes

\* No wake-up is lost, however tasks and handlers send and receive while a queue is
\* locked (queue.c prvUnlockQueue, xQueueGenericSendFromISR, xQueueReceiveFromISR):
\* a task waits although its call could succeed only if another one has been woken
\* for that and is on its way to look.
THEOREM WakeupsAreKept == Spec => []NoLostWakeup
<1> DEFINE Inv == Queues /\ CallsOK /\ KernelInv /\ WaitInv /\ NoCalls
<1>1. Init => Inv
  BY InitQueues, InitInv, InitWaits
<1>2. Inv /\ [Next]_vars => Inv'
  BY AnyStep, QueuesStay, KernelStays, WaitsStay, CallsEnd
<1>3. Inv => NoLostWakeup
  BY WaitsImply
<1>4. QED
  BY <1>1, <1>2, <1>3, PTL DEF Spec

-----------------------------------------------------------------------------
(* Calls fail in time: how long each has waited, and has still to wait *)

LEMMA WakeOneEases ==
  ASSUME NEW k, Orderly(k), Serving(k), NEW e \in Event
  PROVE  Eases(k, WakeOne(k, e))
<1>1. CASE k.event[e] = <<>>
  BY <1>1, EasesNobody DEF WakeOne
<1>2. CASE k.event[e] # <<>>
  <2>1. PICK l : l = RemoveFromEventList(k, e)
    OBVIOUS
  <2>2. PICK yields : yields = WantsYield(k, e)
    OBVIOUS
  <2>3. Eases(k, l) /\ Orderly(l)
    BY <1>2, <2>1, RemoveFromEventListEases DEF Eases
  <2>4. Eases(l, YieldIf(yields, l))
    BY <2>3, YieldIfEases
  <2>5. QED
    BY <1>2, <2>1, <2>2, <2>3, <2>4, EasesTwice DEF WakeOne
<1>3. QED
  BY <1>1, <1>2

LEMMA WokenEases ==
  ASSUME NEW k, Orderly(k), Serving(k), NEW e \in Event
  PROVE  Eases(k, Woken(k, e)) /\ Woken(k, e).current = k.current
<1>1. CASE k.event[e] = <<>>
  BY <1>1, EasesNobody DEF Woken
<1>2. CASE k.event[e] # <<>>
  <2>1. PICK l : l = RemoveFromEventList(k, e)
    OBVIOUS
  <2>2. PICK yields : yields = (l.missedYield \/ WantsYield(k, e))
    OBVIOUS
  <2>3. PICK m : m = [l EXCEPT !.missedYield = yields]
    OBVIOUS
  <2>4. Woken(k, e) = m
    BY <1>2, <2>1, <2>2, <2>3 DEF Woken
  <2>5. /\ Eases(k, l) /\ l.current = k.current /\ l.suspendDepth = k.suspendDepth
        /\ l = [x \in Fields |-> l[x]]
    BY <1>2, <2>1, RemoveFromEventListEases
  <2>6. Orderly(l)
    BY <2>5 DEF Eases
  <2>7. /\ SameLists(l, m) /\ SameTime(l, m) /\ m.nextUnblock = l.nextUnblock
        /\ m.numberOfTasks = l.numberOfTasks /\ m.suspendDepth = l.suspendDepth
        /\ m.current = l.current
    BY <2>3, <2>5, <2>6 DEF Fields, SameLists, SameTime, Orderly, Tidy, IsKernel
  <2>8. Eases(l, m)
    BY <2>6, <2>7, SameListsEase
  <2>9. Eases(k, m)
    BY <2>5, <2>8, EasesTwice
  <2>10. QED
    BY <2>4, <2>5, <2>7, <2>9
<1>3. QED
  BY <1>1, <1>2

LEMMA WakeManyEases ==
  ASSUME NEW k, Orderly(k), Serving(k), NEW e \in Event, NEW N \in Nat
  PROVE  Eases(k, WakeMany(k, e, N)) /\ WakeMany(k, e, N).current = k.current
<1>1. PICK after : /\ after[0] = k /\ WakeMany(k, e, N) = after[N]
                   /\ \A n \in 0 .. N - 1 : after[n + 1] = Woken(after[n], e)
  BY ONLY WakeManyRuns, N \in Nat
<1> DEFINE Done(n) == /\ Serving(after[n]) /\ Eases(k, after[n])
                      /\ after[n].current = k.current
           S == {n \in Nat : n <= N => Done(n)}
<1>2. 0 \in S
  BY <1>1, EasesNobody
<1>3. ASSUME NEW n \in S PROVE n + 1 \in S
  <2>1. SUFFICES ASSUME n + 1 <= N PROVE Done(n + 1)
    OBVIOUS
  <2>2. PICK l, m : l = after[n] /\ m = after[n + 1]
    OBVIOUS
  <2>3. Serving(l) /\ Eases(k, l) /\ l.current = k.current /\ m = Woken(l, e)
    BY <1>1, <2>1, <2>2
  <2>4. Orderly(l)
    BY <2>3 DEF Eases
  <2>5. Frees(l, m)
    BY <2>3, WokenFrees
  <2>6. Eases(l, m) /\ m.current = l.current
    BY <2>3, <2>4, WokenEases
  <2>7. Serving(m) /\ Eases(k, m) /\ m.current = k.current
    BY <2>3, <2>5, <2>6, EasesTwice DEF Frees
  <2>8. QED
    BY <2>2, <2>7
<1>4. S = Nat
  <2> HIDE DEF S
  <2>1. S \in SUBSET Nat
    BY DEF S
  <2>2. QED
    BY <1>2, <1>3, <2>1, SetInduction
<1>5. QED
  BY <1>1, <1>4

\* A send gives the priority back that a mutex has lent.
LEMMA TransferEases ==
  ASSUME Queues, Orderly(kernel), Serving(kernel), NEW t \in Task, NEW c, IsCall(c),
         Transfer(t, c)
  PROVE  Eases(kernel, kernel')
<1>1. PICK h : h = queue[c.queue].holder
  OBVIOUS
<1>2. PICK k : k = IF Sends(c) THEN PriorityDisinherit(kernel, h) ELSE kernel
  OBVIOUS
<1>3. PICK e : e = Wakes(c)
  OBVIOUS
<1>4. e \in Event /\ h \in AnyTask \cup {NoTask} /\ h \in Task \cup {NoTask}
  BY <1>1, <1>3, QueueFields, QueueAssumption DEF IsCall, Queues, Wakes, AnyTask
<1>5. Eases(kernel, k) /\ Serving(k)
  <2>1. CASE Sends(c)
    BY <1>2, <1>4, <2>1, PriorityDisinheritEases, PriorityDisinheritFrees DEF Frees
  <2>2. CASE ~Sends(c)
    BY <1>2, <2>2, EasesNobody
  <2>3. QED
    BY <2>1, <2>2
<1>6. kernel' = WakeOne(k, e)
  BY <1>1, <1>2, <1>3 DEF Transfer
<1>7. Eases(k, kernel')
  BY <1>4, <1>5, <1>6, WakeOneEases DEF Eases
<1>8. QED
  BY <1>5, <1>7, EasesTwice

-----------------------------------------------------------------------------

\* The ticks a call is kept from the CPU, and those of one suspension of the
\* scheduler, come to less than a turn of the tick count: no wait of a task can
\* be told from one that is a turn longer.
InATurn == MaxLate \in Nat /\ MaxMissed \in Nat /\ MaxLate + MaxMissed <= MaxDelay

\* The running task is ready, or has put itself aside and goes on to give way.
Runner ==
  LET t == kernel.current
  IN  t \in ReadyTasks(kernel) \/ (t \in Task /\ pc[t] # "try" /\ Placed(t))

\* Of the w ticks that the call c has waited, all but those it took off its limit when
\* it last looked have been counted since it did.
Dated(k, c, w) ==
  /\ c.limit \in Tick /\ c.ticks \in 1 .. c.limit /\ c.timeOut.entering \in Tick
  /\ c.limit = MaxDelay => c.ticks = MaxDelay
  /\ c.limit # MaxDelay =>
       LET n == w - (c.limit - c.ticks)
       IN  /\ n \in Nat /\ k.tickCount = Ticks(c.timeOut.entering + n)
           /\ c.timeOut.entering + n <= MaxDelay => k.numOfOverflows = c.timeOut.overflows

\* Nobody has waited for so long, with what is still to be counted, that the tick
\* count could have come round.
LateOK ==
  /\ kernel.missedTicks \in 0 .. MaxMissed
  /\ \A t \in Task : waited[t] \in Nat /\ waited[t] + kernel.missedTicks <= MaxLate + MaxMissed

\* Where t is in its call and in the delayed lists fits how long it has waited.
CallTimes(t) ==
  LET c == call[t]
  IN  /\ pc[t] # "run" =>
           /\ Dated(kernel, c, waited[t])
           /\ pc[t] \in {"test", "place"} /\ c.limit # MaxDelay => waited[t] = c.limit - c.ticks
           /\ c.then = "fail" => c.limit # MaxDelay /\ waited[t] >= c.limit
      /\ t \in Blocked(kernel) =>
           Placed(t) /\ c.limit # MaxDelay /\ Left(kernel, t) + waited[t] = c.limit

\* The inductive invariant.
TimeInv == Orderly(kernel) /\ Runner /\ LateOK /\ \A t \in Task : CallTimes(t)

\* It says what is promised: who is asleep still has to wait.
LEMMA TimesImply ==
  ASSUME TimeInv, NoCalls
  PROVE  TimesOutOnTime
<1> SUFFICES ASSUME NEW t \in Task, call[t] # NoCall
             PROVE  /\ call[t].then = "fail" =>
                         call[t].limit # MaxDelay /\ waited[t] >= call[t].limit
                    /\ t \in Blocked(kernel) => waited[t] < call[t].limit
  BY DEF TimesOutOnTime
<1>1. pc[t] # "run" /\ CallTimes(t) /\ waited[t] \in Nat
  BY DEF NoCalls, TimeInv, LateOK
<1>2. Tidy(kernel) /\ Ahead(kernel) /\ t \in AnyTask
  BY DEF TimeInv, Orderly, AnyTask
<1>3. Left(kernel, t) \in Nat /\ (t \in Blocked(kernel) => Left(kernel, t) > 0)
  BY <1>2, LeftIs
<1>4. call[t].limit \in Nat
  BY <1>1 DEF CallTimes, Dated, Tick
<1>5. QED
  BY <1>1, <1>3, <1>4 DEF CallTimes

\* What is counted is what passes.
LEMMA ElapsedIs ==
  ASSUME Orderly(kernel), NEW n \in 0 .. MaxDelay,
         kernel'.tickCount = Ticks(kernel.tickCount + n)
  PROVE  Elapsed = n
<1>1. kernel.tickCount \in Tick
  BY DEF Orderly, Ahead
<1>2. QED
  BY <1>1, TickCounts DEF Elapsed

\* Ticks are counted, and a call is as many later.
LEMMA DatedLater ==
  ASSUME NEW k, NEW l, NEW n \in Nat, NEW c, NEW w \in Nat, Dated(k, c, w),
         l.tickCount = Ticks(k.tickCount + n), SameTurn(k, l, n)
  PROVE  Dated(l, c, IF c.limit # MaxDelay THEN w + n ELSE 0)
<1>1. CASE c.limit = MaxDelay
  BY <1>1 DEF Dated
<1>2. CASE c.limit # MaxDelay
  <2>1. PICK m : m = w - (c.limit - c.ticks)
    OBVIOUS
  <2>2. PICK e \in Tick : e = c.timeOut.entering
    BY DEF Dated
  <2>3. /\ m \in Nat /\ k.tickCount = Ticks(e + m)
        /\ e + m <= MaxDelay => k.numOfOverflows = c.timeOut.overflows
    BY <1>2, <2>1, <2>2 DEF Dated
  <2>4. e \in Nat /\ c.limit \in Nat /\ c.ticks \in Nat
    BY <2>2 DEF Dated, Tick
  <2>5. (w + n) - (c.limit - c.ticks) = m + n
    BY <2>1, <2>4
  <2>6. e + m \in Nat /\ e + (m + n) = (e + m) + n /\ m + n \in Nat
    BY <2>3, <2>4
  <2>7. l.tickCount = Ticks(e + (m + n))
    <3>1. Ticks(Ticks(e + m) + n) = Ticks((e + m) + n)
      BY <2>6, TicksAdd
    <3>2. QED
      BY <2>3, <2>6, <3>1
  <2>8. e + (m + n) <= MaxDelay => l.numOfOverflows = c.timeOut.overflows
    <3>1. SUFFICES ASSUME e + (m + n) <= MaxDelay
                   PROVE  l.numOfOverflows = c.timeOut.overflows
      OBVIOUS
    <3>2. e + m <= MaxDelay /\ e + m \in Tick
      BY <2>3, <2>4, <3>1, KernelAssumption DEF Tick
    <3>3. Ticks(e + m) = e + m
      BY <2>6, <3>2, TicksAdd
    <3>4. k.tickCount + n <= MaxDelay
      BY <2>3, <2>6, <3>1, <3>3
    <3>5. QED
      BY <2>3, <3>2, <3>4 DEF SameTurn
  <2>9. QED
    BY <1>2, <2>2, <2>5, <2>6, <2>7, <2>8 DEF Dated
<1>3. QED
  BY <1>1, <1>2

\* t goes on while n ticks are counted, or is done.
Continues(t, n) ==
  LET c == call[t]
      d == call'[t]
  IN  \/ pc'[t] = "run" /\ t \notin Blocked(kernel)
      \/ /\ pc[t] # "run" /\ pc'[t] # "run"
         /\ d.limit = c.limit /\ d.ticks = c.ticks /\ d.timeOut = c.timeOut
         /\ d.then = "fail" => c.then = "fail"
         /\ pc'[t] \in {"test", "place"} => n = 0 /\ pc[t] \in {"test", "place"}
         /\ t \in Blocked(kernel) => Placed(t)'

LEMMA ContinuesInTime ==
  ASSUME CallsOK, CallsOK', TimeInv, Ageing, NEW n \in 0 .. MaxDelay, Orderly(kernel'),
         kernel'.tickCount = Ticks(kernel.tickCount + n), SameTurn(kernel, kernel', n),
         NEW t \in Task, Left(kernel', t) = 0 \/ Left(kernel', t) = Left(kernel, t) - n,
         Continues(t, n)
  PROVE  CallTimes(t)'
<1>1. /\ Tidy(kernel) /\ Ahead(kernel) /\ Tidy(kernel') /\ Ahead(kernel') /\ t \in AnyTask
      /\ n \in Nat /\ waited[t] \in Nat /\ CallTimes(t) /\ Orderly(kernel)
  BY DEF TimeInv, Orderly, AnyTask, LateOK
<1>2. /\ Left(kernel, t) \in Nat /\ (t \in Blocked(kernel) <=> Left(kernel, t) > 0)
      /\ Left(kernel', t) \in Nat /\ (t \in Blocked(kernel') <=> Left(kernel', t) > 0)
  BY <1>1, LeftIs
<1>3. t \in Blocked(kernel') => t \in Blocked(kernel) /\ Left(kernel', t) = Left(kernel, t) - n
  BY <1>1, <1>2
<1>4. CASE pc'[t] = "run" /\ t \notin Blocked(kernel)
  BY <1>3, <1>4 DEF CallTimes
<1>5. CASE ~ (pc'[t] = "run" /\ t \notin Blocked(kernel))
  <2>1. PICK c, d : c = call[t] /\ d = call'[t]
    OBVIOUS
  <2>2. /\ pc[t] # "run" /\ pc'[t] # "run"
        /\ d.limit = c.limit /\ d.ticks = c.ticks /\ d.timeOut = c.timeOut
        /\ d.then = "fail" => c.then = "fail"
        /\ pc'[t] \in {"test", "place"} => n = 0 /\ pc[t] \in {"test", "place"}
        /\ t \in Blocked(kernel) => Placed(t)'
    BY <1>5, <2>1 DEF Continues
  <2>3. c # NoCall /\ d # NoCall
    BY <2>1, <2>2 DEF CallsOK, IsCall, NoCall
  <2>4. waited'[t] = IF c.limit # MaxDelay THEN waited[t] + n ELSE 0
    BY <1>1, <2>1, <2>3, ElapsedIs DEF Ageing, Timed
  <2>5. /\ Dated(kernel, c, waited[t])
        /\ pc[t] \in {"test", "place"} /\ c.limit # MaxDelay => waited[t] = c.limit - c.ticks
        /\ c.then = "fail" => c.limit # MaxDelay /\ waited[t] >= c.limit
        /\ t \in Blocked(kernel) =>
             Placed(t) /\ c.limit # MaxDelay /\ Left(kernel, t) + waited[t] = c.limit
    BY <1>1, <2>1, <2>2 DEF CallTimes
  <2>6. Dated(kernel', c, waited'[t])
    BY <1>1, <2>4, <2>5, DatedLater
  <2>7. Dated(kernel', d, waited'[t])
    BY <2>2, <2>6 DEF Dated
  <2>8. c.limit \in Nat
    BY <2>5 DEF Dated, Tick
  <2>9. pc'[t] \in {"test", "place"} /\ d.limit # MaxDelay => waited'[t] = d.limit - d.ticks
    BY <1>1, <2>2, <2>4, <2>5
  <2>10. d.then = "fail" => d.limit # MaxDelay /\ waited'[t] >= d.limit
    BY <1>1, <2>2, <2>4, <2>5, <2>8
  <2>11. t \in Blocked(kernel') =>
           Placed(t)' /\ d.limit # MaxDelay /\ Left(kernel', t) + waited'[t] = d.limit
    BY <1>1, <1>2, <1>3, <2>2, <2>4, <2>5, <2>8
  <2>12. QED
    BY <2>1, <2>7, <2>9, <2>10, <2>11 DEF CallTimes
<1>6. QED
  BY <1>4, <1>5

\* The running task stays as it is, or another one is switched to.
LEMMA RunnerStays ==
  ASSUME Runner, NEW n, Elapses(kernel, kernel', n),
         \/ kernel'.current \in ReadyTasks(kernel')
         \/ \A t \in Task : kernel.current = t /\ pc[t] # "try" /\ Placed(t)
                           => pc'[t] # "try" /\ Placed(t)'
  PROVE  Runner'
<1>1. PICK t, u : t = kernel.current /\ u = kernel'.current
  OBVIOUS
<1>2. u = t \/ u \in ReadyTasks(kernel')
  BY <1>1 DEF Elapses, Onto
<1>3. t \in ReadyTasks(kernel) => t \in ReadyTasks(kernel')
  BY DEF Elapses
<1>4. CASE u \in ReadyTasks(kernel')
  BY <1>1, <1>4 DEF Runner, ReadyTasks, InReady
<1>5. CASE u \notin ReadyTasks(kernel')
  <2>1. u = t /\ t \notin ReadyTasks(kernel)
    BY <1>2, <1>3, <1>5
  <2>2. t \in Task /\ pc[t] # "try" /\ Placed(t)
    BY <1>1, <2>1 DEF Runner
  <2>3. pc'[t] # "try" /\ Placed(t)'
    BY <1>1, <1>5, <2>2
  <2>4. QED
    BY <1>1, <2>1, <2>2, <2>3 DEF Runner, Placed
<1>6. QED
  BY <1>4, <1>5

\* What is still to be counted has been waited, or is still to be.
LEMMA LateStays ==
  ASSUME Orderly(kernel), LateOK, Ageing, NEW n \in 0 .. MaxDelay,
         kernel'.tickCount = Ticks(kernel.tickCount + n),
         kernel'.missedTicks \in Nat, kernel'.missedTicks + n = kernel.missedTicks, InATurn
  PROVE  LateOK'
<1>1. n \in Nat /\ Elapsed = n
  BY ElapsedIs
<1>2. ASSUME NEW t \in Task
      PROVE  waited'[t] \in Nat /\ (waited'[t] = waited[t] + n \/ waited'[t] = 0)
  BY <1>1 DEF Ageing, LateOK
<1>3. QED
  BY <1>1, <1>2 DEF LateOK, InATurn

LEMMA TimePasses ==
  ASSUME InATurn, CallsOK, CallsOK', TimeInv, Ageing, NEW n \in 0 .. MaxDelay,
         Elapses(kernel, kernel', n), LateOK',
         \/ kernel'.current \in ReadyTasks(kernel')
         \/ \A t \in Task : kernel.current = t /\ pc[t] # "try" /\ Placed(t)
                           => pc'[t] # "try" /\ Placed(t)',
         \A t \in Task : Continues(t, n) \/ CallTimes(t)'
  PROVE  TimeInv'
<1>1. Runner'
  BY RunnerStays DEF TimeInv
<1>2. ASSUME NEW t \in Task
      PROVE  CallTimes(t)'
  <2>1. Left(kernel', t) = 0 \/ Left(kernel', t) = Left(kernel, t) - n
    BY DEF Elapses, Nearer, AnyTask
  <2>2. /\ Orderly(kernel') /\ kernel'.tickCount = Ticks(kernel.tickCount + n)
        /\ SameTurn(kernel, kernel', n)
    BY DEF Elapses
  <2>3. CASE Continues(t, n)
    BY <2>1, <2>2, <2>3, ContinuesInTime
  <2>4. QED
    BY <2>3
<1>3. Orderly(kernel')
  BY DEF Elapses
<1>4. QED
  BY <1>1, <1>2, <1>3 DEF TimeInv, Orderly

\* No time passes.
LEMMA MomentPasses ==
  ASSUME InATurn, CallsOK, CallsOK', TimeInv, Ageing, Eases(kernel, kernel'),
         \/ kernel'.current \in ReadyTasks(kernel')
         \/ \A t \in Task : kernel.current = t /\ pc[t] # "try" /\ Placed(t)
                           => pc'[t] # "try" /\ Placed(t)',
         \A t \in Task : Continues(t, 0) \/ CallTimes(t)'
  PROVE  TimeInv'
<1>1. Orderly(kernel) /\ LateOK /\ kernel'.missedTicks = kernel.missedTicks
  BY DEF TimeInv, Eases, SameTime
<1>2. PICK n \in 0 .. MaxDelay : n = 0
  BY KernelAssumption
<1>3. Elapses(kernel, kernel', n)
  BY <1>1, <1>2, EasesElapses
<1>4. kernel'.missedTicks \in Nat /\ kernel'.missedTicks + n = kernel.missedTicks
  BY <1>1, <1>2 DEF LateOK, InATurn
<1>5. kernel'.tickCount = Ticks(kernel.tickCount + n)
  BY <1>3 DEF Elapses
<1>6. LateOK'
  BY <1>1, <1>4, <1>5, LateStays
<1>7. \A t \in Task : Continues(t, n) \/ CallTimes(t)'
  BY <1>2
<1>8. QED
  BY <1>3, <1>6, <1>7, TimePasses

\* The tasks that do not move go on.
LEMMA OthersContinue ==
  ASSUME TimeInv, NEW n, NEW t \in Task, pc'[t] = pc[t], call'[t] = call[t],
         n = 0 \/ pc[t] \notin {"test", "place"}
  PROVE  Continues(t, n)
<1>1. CallTimes(t)
  BY DEF TimeInv
<1>2. t \in Blocked(kernel) => Placed(t) /\ Placed(t)'
  BY <1>1 DEF CallTimes, Placed
<1>3. CASE pc[t] = "run"
  BY <1>2, <1>3 DEF Continues, Placed
<1>4. CASE pc[t] # "run"
  BY <1>2, <1>4 DEF Continues
<1>5. QED
  BY <1>3, <1>4

\* Nobody moves in queue.c.
LEMMA NobodyMovesInTime ==
  ASSUME InATurn, CallsOK, CallsOK', TimeInv, Ageing, Eases(kernel, kernel'),
         UNCHANGED <<pc, call>>
  PROVE  TimeInv'
<1>1. \A t \in Task : Continues(t, 0)
  BY OthersContinue
<1>2. \A t \in Task : kernel.current = t /\ pc[t] # "try" /\ Placed(t)
                      => pc'[t] # "try" /\ Placed(t)'
  BY DEF Placed
<1>3. QED
  BY <1>1, <1>2, MomentPasses

\* The running task moves on.
LEMMA MovesInTime ==
  ASSUME InATurn, CallsOK, CallsOK', TimeInv, Ageing, Eases(kernel, kernel'),
         NEW t \in Task, kernel.current = t, NEW l, Goto(t, l),
         NEW c, call' = [call EXCEPT ![t] = c],
         Continues(t, 0) \/ CallTimes(t)',
         \/ kernel'.current \in ReadyTasks(kernel')
         \/ pc[t] # "try" /\ Placed(t) => l # "try" /\ Placed(t)'
  PROVE  TimeInv'
<1>1. pc'[t] = l /\ \A u \in Task \ {t} : pc'[u] = pc[u] /\ call'[u] = call[u]
  BY DEF CallsOK, Goto
<1>2. ASSUME NEW u \in Task PROVE Continues(u, 0) \/ CallTimes(u)'
  <2>1. CASE u = t
    BY <2>1
  <2>2. CASE u # t
    <3>1. pc'[u] = pc[u] /\ call'[u] = call[u]
      BY <1>1, <2>2
    <3>2. QED
      BY <3>1, OthersContinue
  <2>3. QED
    BY <2>1, <2>2
<1>3. \/ kernel'.current \in ReadyTasks(kernel')
      \/ \A u \in Task : kernel.current = u /\ pc[u] # "try" /\ Placed(u)
                        => pc'[u] # "try" /\ Placed(u)'
  BY <1>1
<1>4. QED
  BY <1>2, <1>3, MomentPasses

\* A task that is not on the way waits for no time.
LEMMA NotAsleep ==
  ASSUME TimeInv, NEW t \in Task, ~Placed(t)
  PROVE  t \notin Blocked(kernel)
BY DEF TimeInv, CallTimes

\* It is running its own code, or is to look at its queue.
LEMMA TriesReady ==
  ASSUME TimeInv, NEW t \in Task, kernel.current = t, pc[t] \in {"run", "try"}
  PROVE  t \in ReadyTasks(kernel) /\ t \notin Blocked(kernel)
<1>1. t \in ReadyTasks(kernel)
  BY DEF TimeInv, Runner, Placed
<1>2. QED
  BY <1>1 DEF TimeInv, Orderly, Tidy, Apart, ReadyTasks, Asleep

-----------------------------------------------------------------------------
(* The actions, one by one *)

\* One pass of the loop: the caller is served, gives up, or goes on to wait.
LEMMA TryTimes ==
  ASSUME InATurn, Queues, CallsOK, CallsOK', WaitInv, TimeInv, NEW t \in Task, NEW c, IsCall(c),
         Try(t, c), pc[t] \in {"run", "try"},
         Goto(t, "suspend") => Continues(t, 0) \/ CallTimes(t)'
  PROVE  TimeInv'
<1>1. kernel.current = t /\ Ageing /\ Orderly(kernel) /\ Serving(kernel)
  BY DEF Try, TimeInv, WaitInv
<1>2. t \notin Blocked(kernel) /\ ~ (pc[t] # "try" /\ Placed(t))
  BY <1>1, TriesReady DEF Placed
<1>3. CASE Return(t)
  <2>1. PICK l, d : l = "run" /\ Goto(t, l) /\ call' = [call EXCEPT ![t] = d]
    BY <1>3 DEF Return
  <2>2. Continues(t, 0)
    BY <1>2, <2>1 DEF Continues, Goto, CallsOK
  <2>3. Eases(kernel, kernel')
    <3>1. CASE Transfer(t, c)
      BY <1>1, <3>1, TransferEases
    <3>2. CASE UNCHANGED kernel
      BY <1>1, <3>2, EasesNobody
    <3>3. QED
      BY <1>3, <3>1, <3>2 DEF Try, Return, Goto, CallsOK
  <2>4. QED
    BY <1>1, <1>2, <2>1, <2>2, <2>3, MovesInTime
<1>4. CASE Goto(t, "suspend") /\ call' = [call EXCEPT ![t] = c] /\ UNCHANGED kernel
  <2>1. PICK l : l = "suspend" /\ Goto(t, l)
    BY <1>4
  <2>2. Eases(kernel, kernel')
    BY <1>1, <1>4, EasesNobody
  <2>3. QED
    BY <1>1, <1>2, <1>4, <2>1, <2>2, MovesInTime
<1>5. QED
  BY <1>3, <1>4 DEF Try

LEMMA StartTimes ==
  ASSUME InATurn, Queues, CallsOK, CallsOK', WaitInv, NoCalls, TimeInv, NEW t \in Task, Start(t)
  PROVE  TimeInv'
<1>1. PICK c \in Calls(t) :
        Try(t, [op |-> c.op, queue |-> c.queue, item |-> c.item, limit |-> c.limit,
                ticks |-> c.limit, timeOut |-> TimeOutNow(kernel), then |-> "again"])
  BY DEF Start
<1>2. PICK d : d = [op |-> c.op, queue |-> c.queue, item |-> c.item, limit |-> c.limit,
                    ticks |-> c.limit, timeOut |-> TimeOutNow(kernel), then |-> "again"]
  OBVIOUS
<1>3. /\ c.op \in {"send", "sendFront", "receive", "peek"} /\ c.queue \in Queue
      /\ c.item \in IF Sends(c) THEN Item[c.queue] ELSE {NoItem}
      /\ c.limit \in 0 .. MaxDelay
  BY DEF Calls
<1>4. IsCall(d)
  BY <1>2, <1>3 DEF IsCall, Sends
<1>5. pc[t] = "run" /\ Try(t, d) /\ call[t] = NoCall
  BY <1>1, <1>2 DEF Start, NoCalls
<1>6. ASSUME Goto(t, "suspend")
      PROVE  CallTimes(t)'
  <2>1. /\ d.ticks > 0 /\ call' = [call EXCEPT ![t] = d] /\ pc'[t] = "suspend"
        /\ UNCHANGED kernel /\ Ageing
    BY <1>5, <1>6 DEF Try, Return, Goto, CallsOK
  <2>2. call'[t] = d
    BY <2>1 DEF CallsOK
  <2>3. waited'[t] = 0
    BY <1>5, <2>1 DEF Ageing, Timed
  <2>4. t \notin Blocked(kernel')
    BY <1>5, <2>1, TriesReady DEF Try
  <2>5. /\ d.limit = c.limit /\ d.ticks = c.limit /\ d.timeOut.entering = kernel.tickCount
        /\ d.timeOut.overflows = kernel.numOfOverflows /\ d.then = "again"
    BY <1>2 DEF TimeOutNow
  <2>6. kernel.tickCount \in Tick /\ kernel.tickCount \in Nat
    BY DEF TimeInv, Orderly, Ahead, Tick
  <2>7. kernel.tickCount = Ticks(kernel.tickCount + 0)
    BY <2>6, TicksAdd
  <2>8. c.limit \in 1 .. c.limit /\ 0 - (c.limit - c.limit) = 0
    BY <1>3, <2>1, <2>5
  <2>9. Dated(kernel', d, 0)
    BY <1>3, <2>1, <2>5, <2>6, <2>7, <2>8 DEF Dated, Tick
  <2>10. QED
    BY <2>1, <2>2, <2>3, <2>4, <2>5, <2>9 DEF CallTimes
<1>7. QED
  BY <1>4, <1>5, <1>6, TryTimes

LEMMA AgainTimes ==
  ASSUME InATurn, Queues, CallsOK, CallsOK', WaitInv, TimeInv, NEW t \in Task, Again(t)
  PROVE  TimeInv'
<1>1. PICK c : c = call[t]
  OBVIOUS
<1>2. pc[t] = "try" /\ Try(t, c) /\ IsCall(c) /\ kernel.current = t
  BY <1>1 DEF Again, CallsOK, Try
<1>3. ASSUME Goto(t, "suspend")
      PROVE  Continues(t, 0)
  <2>1. call' = [call EXCEPT ![t] = c] /\ pc'[t] = "suspend"
    BY <1>2, <1>3 DEF Try, Return, Goto, CallsOK
  <2>2. call'[t] = c
    BY <2>1 DEF CallsOK
  <2>3. t \notin Blocked(kernel)
    BY <1>2, TriesReady
  <2>4. QED
    BY <1>1, <1>2, <2>1, <2>2, <2>3 DEF Continues
<1>4. QED
  BY <1>2, <1>3, TryTimes

\* Takes and gives of a mutex that stay within its holder.
LEMMA DepthTimes ==
  ASSUME TimeInv, NEW t \in Task, TakeAgain(t) \/ GiveOne(t)
  PROVE  TimeInv'
<1>1. UNCHANGED <<kernel, pc, call, waited>>
  BY DEF TakeAgain, GiveOne
<1>2. Orderly(kernel') /\ LateOK'
  BY <1>1 DEF TimeInv, LateOK
<1>3. Runner'
  BY <1>1 DEF TimeInv, Runner, Placed, ReadyTasks, InReady
<1>4. ASSUME NEW u \in Task PROVE CallTimes(u)'
  BY <1>1 DEF TimeInv, CallTimes, Dated, Placed, Left, Blocked
<1>5. QED
  BY <1>2, <1>3, <1>4 DEF TimeInv

LEMMA SetPriorityTimes ==
  ASSUME InATurn, CallsOK, CallsOK', WaitInv, TimeInv, NEW t \in Task, SetPriority(t)
  PROVE  TimeInv'
<1>1. PICK u \in Task, p \in Priority : kernel' = PrioritySet(kernel, u, p)
  BY DEF SetPriority
<1>2. Eases(kernel, kernel')
  BY <1>1, PrioritySetEases DEF TimeInv, WaitInv, AnyTask
<1>3. Ageing /\ UNCHANGED <<pc, call>>
  BY DEF SetPriority
<1>4. QED
  BY <1>2, <1>3, NobodyMovesInTime

LEMMA SuspendTimes ==
  ASSUME InATurn, CallsOK, CallsOK', KernelInv, TimeInv, NEW t \in Task, SuspendScheduler(t)
  PROVE  TimeInv'
<1>1. PICK c, l : c = call[t] /\ l = "lock"
  OBVIOUS
<1>2. /\ kernel.current = t /\ pc[t] = "suspend" /\ Goto(t, l) /\ call'[t] = c
      /\ call' = [call EXCEPT ![t] = c] /\ kernel' = SuspendAll(kernel) /\ Ageing
  BY <1>1 DEF SuspendScheduler, Step, CallsOK
<1>3. Eases(kernel, kernel')
  BY <1>2, SuspendAllEases DEF TimeInv, KernelInv, Suspension
<1>4. ~Placed(t)
  BY <1>2 DEF Placed
<1>5. Continues(t, 0)
  BY <1>1, <1>2, <1>4, NotAsleep DEF Continues, Goto, CallsOK
<1>6. QED
  BY <1>2, <1>3, <1>4, <1>5, MovesInTime

LEMMA LockTimes ==
  ASSUME InATurn, CallsOK, CallsOK', TimeInv, NEW t \in Task, Lock(t)
  PROVE  TimeInv'
<1>1. PICK c, l : c = call[t] /\ l = "check"
  OBVIOUS
<1>2. /\ kernel.current = t /\ pc[t] = "lock" /\ Goto(t, l) /\ call'[t] = c
      /\ call' = [call EXCEPT ![t] = c] /\ UNCHANGED kernel /\ Ageing
  BY <1>1 DEF Lock, Step, CallsOK
<1>3. Eases(kernel, kernel')
  BY <1>2, EasesNobody DEF TimeInv
<1>4. ~Placed(t)
  BY <1>2 DEF Placed
<1>5. Continues(t, 0)
  BY <1>1, <1>2, <1>4, NotAsleep DEF Continues, Goto, CallsOK
<1>6. QED
  BY <1>2, <1>3, <1>4, <1>5, MovesInTime

\* prvIsQueueFull or prvIsQueueEmpty
LEMMA TestTimes ==
  ASSUME InATurn, CallsOK, CallsOK', TimeInv, NEW t \in Task, Test(t)
  PROVE  TimeInv'
<1>1. PICK l : l = IF Blocking(call[t]) THEN "place" ELSE "unlockTx"
  OBVIOUS
<1>2. PICK v \in {"again", "blocked"} : v = IF Blocking(call[t]) THEN "blocked" ELSE "again"
  OBVIOUS
<1>3. PICK c : c = [call[t] EXCEPT !.then = v]
  OBVIOUS
<1>4. /\ kernel.current = t /\ pc[t] = "test" /\ Goto(t, l) /\ call' = [call EXCEPT ![t] = c]
      /\ UNCHANGED kernel /\ Ageing /\ IsCall(call[t])
  BY <1>1, <1>2, <1>3 DEF Test, Step, CallsOK
<1>5. Eases(kernel, kernel')
  BY <1>4, EasesNobody DEF TimeInv
<1>6. ~Placed(t)
  BY <1>4 DEF Placed
<1>7. pc'[t] = l /\ call'[t] = c
  BY <1>4 DEF Goto, CallsOK
<1>8. /\ c.limit = call[t].limit /\ c.ticks = call[t].ticks /\ c.timeOut = call[t].timeOut
      /\ c.then = v
  BY <1>3, <1>4 DEF IsCall
<1>9. Continues(t, 0)
  BY <1>1, <1>4, <1>6, <1>7, <1>8, NotAsleep DEF Continues
<1>10. QED
  BY <1>4, <1>5, <1>6, <1>9, MovesInTime

\* prvUnlockQueue wakes tasks and does not switch to them.
LEMMA UnlockTimes ==
  ASSUME InATurn, Queues, CallsOK, CallsOK', KernelInv, WaitInv, TimeInv, NEW t \in Task,
         UnlockTx(t) \/ UnlockRx(t)
  PROVE  TimeInv'
<1>1. PICK q \in Queue : q = call[t].queue
  BY DEF UnlockTx, UnlockRx, Step, CallsOK, IsCall
<1>2. /\ queue[q].txLock \in {Unlocked} \cup Nat /\ queue[q].rxLock \in {Unlocked} \cup Nat
      /\ <<q, "receive">> \in Event /\ <<q, "send">> \in Event
  BY QueueFields, QueueAssumption DEF Queues
<1>3. PICK e \in Event, N \in Nat : kernel' = WakeMany(kernel, e, N)
  <2>1. CASE UnlockTx(t)
    <3>1. pc[t] = "unlockTx" /\ kernel' = WakeMany(kernel, <<q, "receive">>, queue[q].txLock)
      BY <1>1, <2>1 DEF UnlockTx, Step
    <3>2. queue[q].txLock \in Nat
      BY <1>1, <1>2, <3>1 DEF KernelInv, LocksOK, Within, TxLocking
    <3>3. QED
      BY <1>2, <3>1, <3>2
  <2>2. CASE UnlockRx(t)
    <3>1. pc[t] = "unlockRx" /\ kernel' = WakeMany(kernel, <<q, "send">>, queue[q].rxLock)
      BY <1>1, <2>2 DEF UnlockRx, Step
    <3>2. queue[q].rxLock \in Nat
      BY <1>1, <1>2, <3>1 DEF KernelInv, LocksOK, Within, RxLocking
    <3>3. QED
      BY <1>2, <3>1, <3>2
  <2>3. QED
    BY <2>1, <2>2
<1>4. Eases(kernel, kernel')
  BY <1>3, WakeManyEases DEF TimeInv, WaitInv
<1>5. PICK l \in {"unlockRx", "resume"} : Goto(t, l)
  BY DEF UnlockTx, UnlockRx, Step
<1>6. PICK c : c = call[t]
  OBVIOUS
<1>7. /\ kernel.current = t /\ pc[t] \in {"unlockTx", "unlockRx"}
      /\ call' = [call EXCEPT ![t] = c] /\ call'[t] = c /\ Ageing
  BY <1>6 DEF UnlockTx, UnlockRx, Step, CallsOK
<1>8. pc'[t] = l
  BY <1>5 DEF Goto, CallsOK
<1>9. Placed(t) => Placed(t)'
  BY <1>6, <1>7, <1>8 DEF Placed
<1>10. Continues(t, 0)
  BY <1>6, <1>7, <1>8, <1>9, NotAsleep DEF Continues
<1>11. l # "try"
  OBVIOUS
<1>12. QED
  BY <1>4, <1>5, <1>7, <1>9, <1>10, <1>11, MovesInTime

\* xTaskCheckForTimeOut is right although the tick count wraps.
LEMMA CheckIs ==
  ASSUME NEW k, k.tickCount \in Tick, NEW c, NEW w \in 0 .. MaxDelay, Dated(k, c, w)
  PROVE  /\ IsTimeOut(k, c.timeOut, c.ticks) <=> c.limit # MaxDelay /\ w >= c.limit
         /\ TicksLeft(k, c.timeOut, c.ticks) = IF c.limit = MaxDelay THEN c.ticks ELSE c.limit - w
<1>1. c.limit \in 0 .. MaxDelay /\ c.ticks \in 1 .. c.limit
  BY DEF Dated, Tick
<1>2. CASE c.limit = MaxDelay
  BY <1>2 DEF Dated, IsTimeOut, TicksLeft
<1>3. CASE c.limit # MaxDelay
  <2>1. PICK n : n = w - (c.limit - c.ticks)
    OBVIOUS
  <2>2. PICK e \in Tick : e = c.timeOut.entering
    BY DEF Dated
  <2>3. /\ n \in Nat /\ k.tickCount = Ticks(e + n)
        /\ e + n <= MaxDelay => k.numOfOverflows = c.timeOut.overflows
    BY <1>3, <2>1, <2>2 DEF Dated
  <2>4. n \in 0 .. MaxDelay /\ MaxDelay \in Nat
    BY <1>1, <2>1, <2>3, KernelAssumption
  <2>5. /\ k.tickCount = IF e + n <= MaxDelay THEN e + n ELSE e + n - Turn
        /\ Ticks(k.tickCount - e) = n
    BY <2>3, <2>4, TickCounts
  <2>6. k.tickCount >= e => k.numOfOverflows = c.timeOut.overflows
    BY <2>2, <2>3, <2>4, <2>5 DEF Tick, Turn
  <2>7. c.ticks # MaxDelay
    BY <1>1, <1>3, <2>4
  <2>8. IsTimeOut(k, c.timeOut, c.ticks) <=> n >= c.ticks
    BY <2>2, <2>5, <2>6, <2>7 DEF IsTimeOut
  <2>9. TicksLeft(k, c.timeOut, c.ticks) = c.ticks - n
    BY <2>2, <2>5, <2>7 DEF TicksLeft
  <2>10. (n >= c.ticks <=> w >= c.limit) /\ c.ticks - n = c.limit - w
    BY <1>1, <2>1
  <2>11. QED
    BY <1>3, <2>8, <2>9, <2>10
<1>4. QED
  BY <1>2, <1>3

LEMMA CheckTimes ==
  ASSUME InATurn, CallsOK, CallsOK', TimeInv, NEW t \in Task, Check(t)
  PROVE  TimeInv'
<1>1. PICK c : c = call[t]
  OBVIOUS
<1>2. PICK over : over = IsTimeOut(kernel, c.timeOut, c.ticks)
  OBVIOUS
<1>3. PICK left : left = TicksLeft(kernel, c.timeOut, c.ticks)
  OBVIOUS
<1>4. PICK l : l = IF over THEN "unlockTx" ELSE "test"
  OBVIOUS
<1>5. PICK d : d = IF over THEN [c EXCEPT !.then = "fail"]
                   ELSE [c EXCEPT !.ticks = left, !.timeOut = TimeOutNow(kernel)]
  OBVIOUS
<1>6. /\ kernel.current = t /\ pc[t] = "check" /\ Goto(t, l) /\ call' = [call EXCEPT ![t] = d]
      /\ UNCHANGED kernel /\ Ageing /\ IsCall(c)
  BY <1>1, <1>2, <1>3, <1>4, <1>5 DEF Check, Step, CallsOK
<1>7. Eases(kernel, kernel')
  BY <1>6, EasesNobody DEF TimeInv
<1>8. ~Placed(t)
  BY <1>6 DEF Placed
<1>9. pc'[t] = l /\ call'[t] = d /\ IsCall(d)
  <2>1. pc'[t] = l /\ call'[t] = d
    BY <1>6 DEF Goto, CallsOK
  <2>2. l # "run"
    BY <1>4
  <2>3. QED
    BY <2>1, <2>2 DEF CallsOK
<1>10. /\ over => /\ d.limit = c.limit /\ d.ticks = c.ticks /\ d.timeOut = c.timeOut
                  /\ d.then = "fail"
       /\ ~over => /\ d.limit = c.limit /\ d.ticks = left /\ d.timeOut = TimeOutNow(kernel)
                   /\ d.then = c.then
  BY <1>5, <1>6 DEF IsCall
<1>11. PICK w \in Nat : w = waited[t]
  BY DEF TimeInv, LateOK
<1>12. /\ w \in 0 .. MaxDelay /\ kernel.tickCount \in Tick /\ kernel.tickCount \in Nat
       /\ Orderly(kernel)
  <2>1. /\ w + kernel.missedTicks <= MaxLate + MaxMissed /\ kernel.missedTicks \in 0 .. MaxMissed
        /\ Orderly(kernel)
    BY <1>11 DEF TimeInv, LateOK
  <2>2. w <= MaxDelay
    BY <2>1, KernelAssumption DEF InATurn
  <2>3. kernel.tickCount \in Tick
    BY <2>1 DEF Orderly, Ahead
  <2>4. QED
    BY <2>1, <2>2, <2>3, KernelAssumption DEF Tick
<1>13. /\ Dated(kernel, c, w)
       /\ c.then = "fail" => c.limit # MaxDelay /\ w >= c.limit
  BY <1>1, <1>6, <1>11 DEF TimeInv, CallTimes
<1>14. /\ over <=> c.limit # MaxDelay /\ w >= c.limit
       /\ left = IF c.limit = MaxDelay THEN c.ticks ELSE c.limit - w
  BY <1>2, <1>3, <1>12, <1>13, CheckIs
<1>15. PICK z : z = waited'[t]
  OBVIOUS
<1>16. z = IF c.limit # MaxDelay THEN w ELSE 0
  <2>1. c # NoCall /\ d # NoCall
    BY <1>6, <1>9 DEF IsCall, NoCall
  <2>2. PICK n \in 0 .. MaxDelay : n = 0
    BY KernelAssumption
  <2>3. kernel'.tickCount = Ticks(kernel.tickCount + n)
    BY <1>6, <1>12, <2>2, TicksAdd
  <2>4. Elapsed = 0
    BY <1>12, <2>2, <2>3, ElapsedIs
  <2>5. QED
    BY <1>1, <1>6, <1>9, <1>11, <1>15, <2>1, <2>4 DEF Ageing, Timed
<1>17. t \notin Blocked(kernel')
  BY <1>6, <1>8, NotAsleep
<1>18. Dated(kernel', d, z)
  <2>1. CASE over
    BY <1>6, <1>10, <1>13, <1>14, <1>16, <2>1 DEF Dated
  <2>2. CASE ~over
    <3>1. /\ d.limit = c.limit /\ d.ticks = left
          /\ d.timeOut.entering = kernel.tickCount
          /\ d.timeOut.overflows = kernel.numOfOverflows
      BY <1>10, <2>2 DEF TimeOutNow
    <3>2. c.limit \in Tick /\ c.limit \in Nat /\ c.ticks \in 1 .. c.limit
          /\ (c.limit = MaxDelay => c.ticks = MaxDelay)
      BY <1>13 DEF Dated, Tick
    <3>3. left \in 1 .. c.limit
      BY <1>14, <2>2, <3>2
    <3>4. kernel.tickCount = Ticks(kernel.tickCount + 0)
      BY <1>12, TicksAdd
    <3>5. c.limit # MaxDelay => z - (c.limit - left) = 0
      BY <1>14, <1>16, <3>2
    <3>6. QED
      BY <1>6, <1>12, <1>14, <3>1, <3>2, <3>3, <3>4, <3>5 DEF Dated
  <2>3. QED
    BY <2>1, <2>2
<1>19. d.then = "fail" => d.limit # MaxDelay /\ z >= d.limit
  BY <1>10, <1>13, <1>14, <1>16
<1>20. l \in {"test", "place"} /\ d.limit # MaxDelay => z = d.limit - d.ticks
  <2>1. SUFFICES ASSUME l \in {"test", "place"}, d.limit # MaxDelay
                 PROVE  z = d.limit - d.ticks
    OBVIOUS
  <2>2. ~over /\ d.limit = c.limit /\ d.ticks = c.limit - w /\ z = w
    BY <1>4, <1>10, <1>14, <1>16, <2>1
  <2>3. c.limit \in Nat
    BY <1>13 DEF Dated, Tick
  <2>4. QED
    BY <2>2, <2>3
<1>21. CallTimes(t)'
  BY <1>9, <1>15, <1>17, <1>18, <1>19, <1>20 DEF CallTimes
<1>22. QED
  BY <1>6, <1>7, <1>8, <1>21, MovesInTime

\* vTaskPriorityInherit and vTaskPlaceOnEventList: the wait is for what is left.
LEMMA PlaceTimes ==
  ASSUME InATurn, Queues, CallsOK, CallsOK', KernelInv, WaitInv, TimeInv,
         NEW t \in Task, Place(t)
  PROVE  TimeInv'
<1>1. PICK c : c = call[t]
  OBVIOUS
<1> DEFINE h == queue[c.queue].holder
           inherits == Kind[c.queue] = "mutex" /\ ~Sends(c)
           k == IF inherits THEN PriorityInherit(kernel, h) ELSE kernel
           e == Waits(c)
<1>2. /\ pc[t] = "place" /\ kernel.current = t /\ Goto(t, "unlockTx")
      /\ UNCHANGED <<queue, call>> /\ IsCall(c) /\ c.queue \in Queue
      /\ kernel' = PlaceOnEventList(k, e, c.ticks) /\ Ageing
  BY <1>1 DEF Place, Step, CallsOK, IsCall
<1>3. inherits => h \in AnyTask
  <2>1. inherits => h # NoTask
    BY <1>1, <1>2 DEF KernelInv, Takers, Mutexes, MutexOK
  <2>2. h \in Task \cup {NoTask}
    BY <1>2, QueueFields DEF Queues
  <2>3. QED
    BY <2>1, <2>2 DEF AnyTask
<1>4. e \in Event
  BY <1>2, BlockingWants
<1> HIDE DEF h, inherits, e
<1>5. /\ Orderly(kernel) /\ LateOK /\ CallTimes(t) /\ t \in AnyTask /\ ~Placed(t)
      /\ t \in ReadyTasks(kernel) /\ t \notin Blocked(kernel)
  <2>1. ~Placed(t)
    BY <1>2 DEF Placed
  <2>2. t \in ReadyTasks(kernel)
    BY <1>2, <2>1 DEF TimeInv, Runner
  <2>3. QED
    BY <2>1, <2>2, NotAsleep DEF TimeInv, AnyTask
<1>6. Eases(kernel, k) /\ k.current = t /\ ReadyTasks(k) = ReadyTasks(kernel)
  <2>1. CASE inherits
    BY <1>2, <1>3, <1>5, <2>1, PriorityInheritEases
  <2>2. CASE ~inherits
    BY <1>2, <1>5, <2>2, EasesNobody
  <2>3. QED
    BY <2>1, <2>2
<1> HIDE DEF k
<1>7. PICK n : n = c.ticks
  OBVIOUS
<1>8. PICK w \in Nat : w = waited[t]
  BY <1>5 DEF LateOK
<1>9. /\ Dated(kernel, c, w) /\ (c.limit # MaxDelay => w = c.limit - n)
      /\ c.limit \in 0 .. MaxDelay /\ n \in 1 .. c.limit /\ n \in 1 .. MaxDelay
      /\ (c.limit = MaxDelay => n = MaxDelay) /\ (c.limit # MaxDelay => n # MaxDelay)
      /\ (c.then = "fail" => c.limit # MaxDelay /\ w >= c.limit)
  <2>1. /\ Dated(kernel, c, w) /\ (c.limit # MaxDelay => w = c.limit - n)
        /\ (c.then = "fail" => c.limit # MaxDelay /\ w >= c.limit)
    BY <1>1, <1>2, <1>5, <1>7, <1>8 DEF CallTimes
  <2>2. c.limit \in Tick /\ n \in 1 .. c.limit /\ (c.limit = MaxDelay => n = MaxDelay)
    BY <1>7, <2>1 DEF Dated
  <2>3. QED
    BY <2>1, <2>2, KernelAssumption DEF Tick
<1>10. Sleeps(k, kernel', n)
  <2>1. k.current \in Task /\ k.current \in ReadyTasks(k) /\ Orderly(k)
    BY <1>5, <1>6 DEF Eases
  <2>2. PICK l : l = PlaceOnEventList(k, e, n)
    OBVIOUS
  <2>3. Sleeps(k, l, n)
    BY <1>4, <1>9, <2>1, <2>2, PlaceSleeps
  <2>4. QED
    BY <1>2, <1>7, <2>2, <2>3
<1>11. /\ Orderly(kernel') /\ SameTime(kernel, kernel') /\ kernel'.current = t
       /\ \A u \in AnyTask \ {t} : Left(kernel', u) = Left(k, u)
       /\ Left(kernel', t) = IF n = MaxDelay THEN 0 ELSE n
  BY <1>6, <1>10 DEF Sleeps, Eases, SameTime
<1>12. PICK z \in 0 .. MaxDelay : z = 0
  BY KernelAssumption
<1>13. kernel.tickCount \in Tick /\ kernel.tickCount \in Nat
  BY <1>5 DEF Orderly, Ahead, Tick
<1>14. /\ kernel'.tickCount = Ticks(kernel.tickCount + z) /\ SameTurn(kernel, kernel', z)
       /\ kernel'.tickCount = kernel.tickCount /\ kernel'.numOfOverflows = kernel.numOfOverflows
       /\ kernel'.missedTicks = kernel.missedTicks
  BY <1>11, <1>12, <1>13, TicksAdd DEF SameTime, SameTurn
<1>15. LateOK'
  <2>1. kernel'.missedTicks \in Nat /\ kernel'.missedTicks + z = kernel.missedTicks
    BY <1>5, <1>12, <1>14 DEF LateOK, InATurn
  <2>2. QED
    BY <1>2, <1>5, <1>14, <2>1, LateStays
<1>16. pc'[t] = "unlockTx" /\ \A u \in Task \ {t} : pc'[u] = pc[u]
  BY <1>2 DEF Goto, CallsOK
<1>17. Placed(t)'
  BY <1>1, <1>2, <1>16 DEF Placed, WaitInv, Places
<1>18. Runner'
  BY <1>11, <1>16, <1>17 DEF Runner, Placed
<1>19. ASSUME NEW u \in Task, u # t PROVE CallTimes(u)'
  <2>1. Continues(u, z)
    BY <1>2, <1>12, <1>16, <1>19, OthersContinue
  <2>2. Left(kernel', u) = Left(k, u) /\ u \in AnyTask
    BY <1>11, <1>19 DEF AnyTask
  <2>3. Left(k, u) = 0 \/ Left(k, u) = Left(kernel, u) - z
    BY <1>6, <1>12, <2>2 DEF Eases, Nearer
  <2>4. QED
    BY <1>2, <1>11, <1>14, <2>1, <2>2, <2>3, ContinuesInTime
<1>20. PICK x : x = waited'[t]
  OBVIOUS
<1>21. x = IF c.limit # MaxDelay THEN w ELSE 0
  <2>1. c # NoCall
    BY <1>2 DEF IsCall, NoCall
  <2>2. Elapsed = 0
    BY <1>5, <1>12, <1>14, ElapsedIs
  <2>3. QED
    BY <1>1, <1>2, <1>8, <1>20, <2>1, <2>2 DEF Ageing, Timed
<1>22. Dated(kernel', c, x)
  BY <1>9, <1>14, <1>21 DEF Dated
<1>23. /\ c.limit # MaxDelay => x = c.limit - n
       /\ c.then = "fail" => c.limit # MaxDelay /\ x >= c.limit
  BY <1>9, <1>21
<1>24. t \in Blocked(kernel') => c.limit # MaxDelay /\ Left(kernel', t) + x = c.limit
  <2>1. t \in Blocked(kernel') => Left(kernel', t) > 0
    BY <1>5, <1>11, LeftIs DEF Orderly
  <2>2. t \in Blocked(kernel') => n # MaxDelay
    BY <1>11, <2>1
  <2>3. QED
    BY <1>9, <1>11, <1>23, <2>2
<1>25. call'[t] = c /\ pc'[t] \notin {"test", "place"} /\ Placed(t)'
  BY <1>1, <1>2, <1>16, <1>17
<1>26. CallTimes(t)'
  BY <1>20, <1>22, <1>23, <1>24, <1>25 DEF CallTimes
<1>27. QED
  BY <1>11, <1>15, <1>18, <1>19, <1>26 DEF TimeInv

\* xTaskResumeAll counts the ticks of the suspension.
LEMMA ResumedTimes ==
  ASSUME InATurn, CallsOK, CallsOK', KernelInv, TimeInv, NEW t \in Task, Resumed(t)
  PROVE  TimeInv'
<1>1. PICK n : n = kernel.missedTicks
  OBVIOUS
<1>2. PICK c : c = call[t]
  OBVIOUS
<1>3. /\ kernel.current = t /\ pc[t] = "resume" /\ kernel' = ResumeAll(kernel) /\ Ageing
      /\ IsCall(c) /\ Orderly(kernel) /\ LateOK
  BY <1>2 DEF Resumed, CallsOK, TimeInv
<1>4. kernel.suspendDepth = 1 /\ \A u \in Task \ {t} : pc[u] \notin {"test", "place"}
  BY <1>3 DEF KernelInv, Suspension, Locking
<1>5. n \in Nat /\ n \in 0 .. MaxDelay
  BY <1>1, <1>3, KernelAssumption DEF LateOK, InATurn
<1>6. /\ Elapses(kernel, kernel', n) /\ kernel'.missedTicks = 0
      /\ AlreadyYields(kernel) => kernel'.current \in ReadyTasks(kernel')
  BY <1>1, <1>3, <1>4, ResumeAllElapses
<1>7. kernel'.tickCount = Ticks(kernel.tickCount + n)
  BY <1>6 DEF Elapses
<1>8. LateOK'
  <2>1. kernel'.missedTicks \in Nat /\ kernel'.missedTicks + n = kernel.missedTicks
    BY <1>1, <1>5, <1>6
  <2>2. QED
    BY <1>3, <1>5, <1>7, <2>1, LateStays
<1>9. c.then \in {"again", "blocked", "fail"}
  BY <1>3 DEF IsCall
<1>10. PICK l \in {"run", "try", "yield"} :
         /\ Goto(t, l)
         /\ c.then = "fail" <=> l = "run"
         /\ c.then # "fail" => UNCHANGED call
         /\ \E d : call' = [call EXCEPT ![t] = d]
         /\ c.then = "blocked" /\ ~AlreadyYields(kernel) => l = "yield"
  <2>1. CASE c.then = "fail"
    BY <1>2, <2>1 DEF Resumed, Return
  <2>2. CASE c.then = "again"
    BY <1>2, <2>2 DEF Resumed, CallsOK
  <2>3. CASE c.then = "blocked"
    <3>1. CASE AlreadyYields(kernel)
      BY <1>2, <2>3, <3>1 DEF Resumed, CallsOK
    <3>2. CASE ~AlreadyYields(kernel)
      BY <1>2, <2>3, <3>2 DEF Resumed, CallsOK
    <3>3. QED
      BY <3>1, <3>2
  <2>4. QED
    BY <1>9, <2>1, <2>2, <2>3
<1>11. /\ pc'[t] = l /\ (c.then # "fail" => call'[t] = c)
       /\ \A u \in Task \ {t} : pc'[u] = pc[u] /\ call'[u] = call[u]
  BY <1>2, <1>10 DEF Goto, CallsOK
<1>12. Placed(t) <=> c.then = "blocked"
  BY <1>2, <1>3 DEF Placed
<1>13. \/ kernel'.current \in ReadyTasks(kernel')
       \/ \A u \in Task : kernel.current = u /\ pc[u] # "try" /\ Placed(u)
                         => pc'[u] # "try" /\ Placed(u)'
  <2>1. CASE AlreadyYields(kernel)
    BY <1>6, <2>1
  <2>2. CASE ~AlreadyYields(kernel)
    <3>1. Placed(t) => pc'[t] = "yield"
      BY <1>10, <1>11, <1>12, <2>2
    <3>2. QED
      BY <1>3, <3>1 DEF Placed
  <2>3. QED
    BY <2>1, <2>2
<1>14. ASSUME NEW u \in Task PROVE Continues(u, n)
  <2>1. CASE u # t
    BY <1>4, <1>11, <2>1, OthersContinue
  <2>2. CASE u = t
    <3>1. CASE c.then = "fail"
      BY <1>10, <1>11, <1>12, <2>2, <3>1, NotAsleep DEF Continues
    <3>2. CASE c.then # "fail"
      <4>1. pc'[t] \in {"try", "yield"} /\ call'[t] = c
        BY <1>10, <1>11, <3>2
      <4>2. Placed(t)'
        BY <4>1 DEF Placed
      <4>3. QED
        BY <1>2, <1>3, <2>2, <4>1, <4>2 DEF Continues
    <3>3. QED
      BY <3>1, <3>2
  <2>3. QED
    BY <2>1, <2>2
<1>15. QED
  BY <1>3, <1>5, <1>6, <1>8, <1>13, <1>14, TimePasses

\* A task that has put itself aside gives way.
LEMMA YieldTimes ==
  ASSUME InATurn, CallsOK, CallsOK', KernelInv, TimeInv, NEW t \in Task, Yield(t)
  PROVE  TimeInv'
<1>1. PICK c, l : c = call[t] /\ l = "try"
  OBVIOUS
<1>2. /\ kernel.current = t /\ pc[t] = "yield" /\ Goto(t, l) /\ call'[t] = c
      /\ call' = [call EXCEPT ![t] = c] /\ kernel' = SwitchContext(kernel) /\ Ageing
  BY <1>1 DEF Yield, Step, CallsOK
<1>3. kernel.suspendDepth = 0
  BY <1>2 DEF KernelInv, Suspension, Locking
<1>4. Eases(kernel, kernel') /\ kernel'.current \in ReadyTasks(kernel')
  BY <1>2, <1>3, SwitchEases DEF TimeInv
<1>5. pc'[t] = "try" /\ Placed(t)'
  BY <1>1, <1>2 DEF Placed, Goto, CallsOK
<1>6. Continues(t, 0)
  BY <1>1, <1>2, <1>5 DEF Continues
<1>7. QED
  BY <1>2, <1>4, <1>6, MovesInTime

\* Handlers wake a task, or leave it to whoever unlocks the queue.
LEMMA HandlerTimes ==
  ASSUME InATurn, CallsOK, CallsOK', WaitInv, TimeInv,
         NEW q \in FromISR, SendFromISR(q) \/ ReceiveFromISR(q)
  PROVE  TimeInv'
<1>1. <<q, "receive">> \in Event /\ <<q, "send">> \in Event
  BY QueueAssumption
<1>2. PICK e \in Event : \E lock : kernel' = Tell(kernel, e, lock)
  BY <1>1 DEF SendFromISR, ReceiveFromISR
<1>3. Orderly(kernel) /\ Serving(kernel)
  BY DEF TimeInv, WaitInv
<1>4. Eases(kernel, kernel')
  <2>1. kernel' \in {kernel, WakeOne(kernel, e)}
    BY <1>2 DEF Tell
  <2>2. QED
    BY <1>3, <2>1, WakeOneEases, EasesNobody
<1>5. Ageing /\ UNCHANGED <<pc, call>>
  BY DEF SendFromISR, ReceiveFromISR
<1>6. QED
  BY <1>4, <1>5, NobodyMovesInTime

\* A tick is counted, or noted while the scheduler is suspended.
LEMMA TickTimes ==
  ASSUME InATurn, CallsOK, CallsOK', KernelInv, TimeInv, TickInterrupt
  PROVE  TimeInv'
<1>1. /\ kernel' = SwitchContext(IncrementTick(kernel)) /\ UNCHANGED <<pc, call>> /\ Ageing
      /\ kernel.missedTicks < MaxMissed /\ (\A t \in Task : waited[t] < MaxLate)
      /\ Orderly(kernel) /\ LateOK /\ kernel.suspendDepth \in Nat
  BY DEF TickInterrupt, TimeInv, KernelInv, Suspension
<1>2. kernel.missedTicks \in Nat /\ MaxMissed \in Nat /\ MaxLate \in Nat
  BY <1>1 DEF LateOK, InATurn
<1>3. PICK n \in 0 .. MaxDelay :
        /\ Elapses(kernel, kernel', n)
        /\ \/ n = 0 /\ kernel'.missedTicks = kernel.missedTicks + 1
           \/ n = 1 /\ kernel.suspendDepth = 0 /\ kernel'.missedTicks = 0
  BY <1>1, TickElapses, KernelAssumption
<1>4. kernel'.tickCount = Ticks(kernel.tickCount + n) /\ n \in Nat
  BY <1>3 DEF Elapses
<1>5. LateOK'
  <2>1. kernel'.missedTicks \in 0 .. MaxMissed
    BY <1>1, <1>2, <1>3
  <2>2. ASSUME NEW t \in Task
        PROVE  waited'[t] \in Nat /\ waited'[t] + kernel'.missedTicks <= MaxLate + MaxMissed
    <3>1. PICK w \in Nat : w = waited[t]
      BY <1>1 DEF LateOK
    <3>2. waited'[t] = w + n \/ waited'[t] = 0
      BY <1>1, <1>4, <3>1, ElapsedIs DEF Ageing
    <3>3. w < MaxLate
      BY <1>1, <3>1
    <3>4. QED
      BY <1>1, <1>2, <1>3, <3>2, <3>3
  <2>3. QED
    BY <2>1, <2>2 DEF LateOK
<1>6. ASSUME NEW t \in Task PROVE Continues(t, n)
  <2>1. n = 0 \/ pc[t] \notin {"test", "place"}
    BY <1>3 DEF KernelInv, Suspension, Locking
  <2>2. QED
    BY <1>1, <2>1, OthersContinue
<1>7. \A t \in Task : kernel.current = t /\ pc[t] # "try" /\ Placed(t)
                      => pc'[t] # "try" /\ Placed(t)'
  BY <1>1 DEF Placed
<1>8. QED
  BY <1>1, <1>3, <1>5, <1>6, <1>7, TimePasses

-----------------------------------------------------------------------------

LEMMA InitTimes ==
  ASSUME Init, InATurn
  PROVE  TimeInv
<1>1. PICK N, order, created :
        /\ N \in Nat
        /\ order \in [1 .. N -> Task] /\ \A i, j \in 1 .. N : order[i] = order[j] => i = j
        /\ created[0] = BootKernel
        /\ \A n \in 0 .. N - 1 :
             created[n + 1] = Create(created[n], order[n + 1], Base[order[n + 1]])
        /\ kernel = StartScheduler(created[N])
  BY MainCreates
<1> DEFINE Booted(n) == /\ Good(created[n]) /\ ~created[n].running
                        /\ All(created[n]) \subseteq ReadyTasks(created[n])
                        /\ \A u \in All(created[n]) : \E i \in 1 .. n : u = order[i]
           S == {n \in Nat : n <= N => Booted(n)}
<1>2. 0 \in S
  BY <1>1, BootIsGood
<1>3. ASSUME NEW n \in S PROVE n + 1 \in S
  <2>1. SUFFICES ASSUME n + 1 <= N PROVE Booted(n + 1)
    OBVIOUS
  <2>2. n \in Nat /\ Booted(n) /\ n \in 0 .. N - 1 /\ n + 1 \in 1 .. N
    BY <1>1, <2>1
  <2>3. PICK t \in Task : t = order[n + 1]
    BY <1>1, <2>2
  <2>4. PICK p \in Priority : p = Base[t]
    BY QueueAssumption
  <2>5. PICK k, l : k = created[n] /\ l = created[n + 1]
    OBVIOUS
  <2>6. /\ l = Create(k, t, p) /\ Good(k) /\ ~k.running /\ All(k) \subseteq ReadyTasks(k)
        /\ \A u \in All(k) : \E i \in 1 .. n : u = order[i]
    BY <1>1, <2>2, <2>3, <2>4, <2>5
  <2>7. t \notin All(k)
    <3>1. ASSUME NEW i \in 1 .. n PROVE order[i] # t
      BY <1>1, <2>2, <2>3
    <3>2. QED
      BY <2>6, <3>1
  <2>8. /\ Good(l) /\ ~l.running
        /\ All(l) = All(k) \cup {t} /\ ReadyTasks(l) = ReadyTasks(k) \cup {t}
    BY <2>6, <2>7, BootCreates, ZenonT(60)
  <2>9. 1 .. n + 1 = (1 .. n) \cup {n + 1}
    BY <2>2
  <2>10. QED
    BY <2>3, <2>5, <2>6, <2>8, <2>9
<1>4. S = Nat
  <2> HIDE DEF S
  <2>1. S \in SUBSET Nat
    BY DEF S
  <2>2. QED
    BY <1>2, <1>3, <2>1, SetInduction
<1>5. Booted(N)
  BY <1>1, <1>4
<1>6. PICK k : k = created[N]
  OBVIOUS
<1>7. Good(k) /\ ~k.running /\ All(k) \subseteq ReadyTasks(k) /\ kernel = StartScheduler(k)
  BY <1>1, <1>5, <1>6
<1>8. PICK l : l = kernel
  OBVIOUS
<1>9. /\ Good(l) /\ l.running /\ l.suspendDepth = 0 /\ l.current \in ReadyTasks(l)
      /\ All(l) \subseteq ReadyTasks(l)
  BY <1>7, <1>8, StartIs
<1>10. Orderly(l) /\ Blocked(l) = {} /\ l.missedTicks = 0
  BY <1>9, StartsOrderly
<1>11. \A t \in Task : pc[t] = "run" /\ waited[t] = 0
  BY DEF Init
<1>12. Runner
  BY <1>8, <1>9 DEF Runner
<1>13. LateOK
  BY <1>8, <1>10, <1>11 DEF LateOK, InATurn
<1>14. \A t \in Task : CallTimes(t)
  BY <1>8, <1>10, <1>11 DEF CallTimes
<1>15. QED
  BY <1>8, <1>10, <1>12, <1>13, <1>14 DEF TimeInv

LEMMA TimesStay ==
  ASSUME InATurn, Queues, CallsOK, KernelInv, WaitInv, NoCalls, TimeInv, [Next]_vars
  PROVE  TimeInv'
<1>1. CallsOK'
  BY AnyStep
<1>2. CASE UNCHANGED vars
  <2>1. UNCHANGED <<kernel, pc, call, waited>>
    BY <1>2 DEF vars
  <2>2. Orderly(kernel') /\ LateOK'
    BY <2>1 DEF TimeInv, LateOK
  <2>3. Runner'
    BY <2>1 DEF TimeInv, Runner, Placed, ReadyTasks, InReady
  <2>4. ASSUME NEW u \in Task PROVE CallTimes(u)'
    BY <2>1 DEF TimeInv, CallTimes, Dated, Placed, Left, Blocked
  <2>5. QED
    BY <2>2, <2>3, <2>4 DEF TimeInv
<1>3. ASSUME NEW t \in Task,
             \/ Start(t) \/ Again(t) \/ TakeAgain(t) \/ GiveOne(t) \/ SetPriority(t)
             \/ SuspendScheduler(t) \/ Lock(t) \/ Check(t) \/ Test(t) \/ Place(t)
             \/ UnlockTx(t) \/ UnlockRx(t) \/ Resumed(t) \/ Yield(t)
      PROVE  TimeInv'
  BY <1>1, <1>3, StartTimes, AgainTimes, DepthTimes, SetPriorityTimes, SuspendTimes, LockTimes,
     CheckTimes, TestTimes, PlaceTimes, UnlockTimes, ResumedTimes, YieldTimes
<1>4. ASSUME NEW q \in FromISR, SendFromISR(q) \/ ReceiveFromISR(q)
      PROVE  TimeInv'
  BY <1>1, <1>4, HandlerTimes
<1>5. TickInterrupt => TimeInv'
  BY <1>1, TickTimes
<1>6. QED
  BY <1>2, <1>3, <1>4, <1>5 DEF Next

\* A call with a limit that fails has waited that long, and none sleeps for longer,
\* whichever task is woken for nothing and wherever the tick count wraps
\* (xTaskCheckForTimeOut, tasks.c:1875-1918, and the delayed lists), as long as what is
\* waited stays within a turn of the tick count.
THEOREM TimesOutInATurn ==
  ASSUME InATurn
  PROVE  Spec => []TimesOutOnTime
<1> DEFINE Inv == Queues /\ CallsOK /\ KernelInv /\ WaitInv /\ NoCalls /\ TimeInv
<1>1. Init => Inv
  BY InitQueues, InitInv, InitWaits, InitTimes
<1>2. Inv /\ [Next]_vars => Inv'
  BY AnyStep, QueuesStay, KernelStays, WaitsStay, CallsEnd, TimesStay
<1>3. Inv => TimesOutOnTime
  BY TimesImply
<1>4. QED
  BY <1>1, <1>2, <1>3, PTL DEF Spec

-----------------------------------------------------------------------------
(* Priority inheritance: who waits for a mutex, and who holds it or will *)

UsesIn(s, t, q) == \E o \in s[t] : o[1] # "setPriority" /\ o[2] = q
SetsNone(s) == \A t \in Task : \A o \in s[t] : o[1] # "setPriority"

\* vTaskPriorityInherit lends a priority to the holder of one mutex, and
\* vTaskPriorityDisinherit takes back whatever has been lent: they are made for tasks
\* that use one mutex each, whose priorities nobody else sets.
OneMutexEach ==
  \A s \in Scenario : \A t \in Task, q \in Queue :
    Kind[q] = "mutex" /\ UsesIn(s, t, q) =>
      /\ SetsNone(s)
      /\ \A p \in Queue : Kind[p] = "mutex" /\ UsesIn(s, t, p) => p = q

\* Whoever is in a call uses its queue, whoever holds a mutex uses it, and nobody
\* takes a mutex he holds.
Users == \A t \in Task : pc[t] # "run" => UsesIn(ops, t, call[t].queue)
Owners ==
  \A q \in Queue : queue[q].holder # NoTask =>
    queue[q].holder \in Task /\ UsesIn(ops, queue[q].holder, q)
Strangers ==
  \A t \in Task : pc[t] # "run" /\ Kind[call[t].queue] = "mutex" =>
    queue[call[t].queue].holder # t

\* Where the takers of q wait, a task that goes to look again, and one that is at
\* least as urgent as whoever waits.
Door(q) == <<q, "receive">>
Returns(t, e) == pc[t] \in {"try", "yield"} /\ Waits(call[t]) = e /\ Listed(kernel, t)
Above(k, t, e) == \A u \in ToSet(k.event[e]) : k.priority[u] <= k.priority[t]

\* Nobody waits for a mutex who is more urgent than its holder.  While it is free one
\* that goes to look is as urgent, and the running task if it is one that takes it.
Fair(q) ==
  LET e == Door(q)
      h == queue[q].holder
      t == kernel.current
  IN  /\ InLine(kernel, e)
      /\ h # NoTask => Above(kernel, h, e)
      /\ h = NoTask /\ kernel.event[e] # <<>> =>
           \E u \in Task : Returns(u, e) /\ Above(kernel, u, e)
      /\ h = NoTask /\ t \in Task /\ UsesIn(ops, t, q) => Above(kernel, t, e)

HoldInv ==
  /\ ops \in Scenario /\ Users /\ Owners /\ Strangers
  /\ SetsNone(ops) => Ranked(kernel) /\ \A q \in Queue : Kind[q] = "mutex" => Fair(q)

LEMMA DoorIs ==
  ASSUME NEW q \in Queue
  PROVE  Door(q) \in Event /\ \A p : Door(p) = Door(q) => p = q
BY QueueAssumption DEF Door

LEMMA DoorUsers ==
  ASSUME WaitInv, Users, NEW q \in Queue, NEW u \in ToSet(kernel.event[Door(q)])
  PROVE  /\ u \in Task /\ u \in AnyTask /\ pc[u] # "run" /\ call[u].queue = q
         /\ UsesIn(ops, u, q) /\ Placed(u) /\ (pc[u] = "try" => kernel.current # u)
<1>1. u \in Task /\ Placed(u) /\ Waits(call[u]) = Door(q) /\ (pc[u] = "try" => kernel.current # u)
  BY DoorIs DEF WaitInv, Waiters
<1>2. pc[u] # "run" /\ call[u].queue = q
  BY <1>1 DEF Placed, Waits, Door
<1>3. QED
  BY <1>1, <1>2 DEF Users, AnyTask

LEMMA HoldImplies ==
  ASSUME OneMutexEach, WaitInv, HoldInv
  PROVE  HolderInherits
<1> SUFFICES ASSUME NEW q \in Queue, Kind[q] = "mutex",
                    NEW t \in ToSet(kernel.event[<<q, "receive">>]), queue[q].holder # NoTask
             PROVE  kernel.priority[queue[q].holder] >= kernel.priority[t]
  BY DEF HolderInherits
<1>1. PICK h \in Task : h = queue[q].holder
  BY DEF HoldInv, Owners
<1>2. t \in AnyTask /\ t \in Task /\ UsesIn(ops, t, q)
  BY DoorUsers DEF HoldInv, Door
<1>3. SetsNone(ops)
  BY <1>2 DEF OneMutexEach, HoldInv
<1>4. Fair(q)
  BY <1>3 DEF HoldInv
<1>5. kernel.priority[t] <= kernel.priority[h]
  BY <1>1, <1>4 DEF Fair, Door, Above
<1>6. kernel.priority[t] \in Int /\ kernel.priority[h] \in Int
  BY <1>2, KernelAssumption DEF WaitInv, Serving, Parted, Priority, AnyTask
<1>7. QED
  BY <1>1, <1>5, <1>6

LEMMA SameOrder ==
  ASSUME NEW s, NEW w, NEW v, InOrder(s, w), \A u \in ToSet(s) : v[u] = w[u]
  PROVE  InOrder(s, v)
<1>1. \A i \in DOMAIN s : s[i] \in ToSet(s)
  BY DEF ToSet
<1>2. QED
  BY <1>1 DEF InOrder

\* Those who wait stay in line, as the priorities of all of them stay.
LEMMA LineStays ==
  ASSUME NEW k, NEW l, Serving(k), NEW e \in Event, InLine(k, e),
         \A u \in ToSet(k.event[e]) : u \in AnyTask /\ l.priority[u] = k.priority[u],
         ToSet(l.event[e]) \subseteq ToSet(k.event[e]),
         \A w : InOrder(k.event[e], w) => InOrder(l.event[e], w)
  PROVE  InLine(l, e)
<1>1. InOrder(l.event[e], Mirror(k))
  BY DEF InLine
<1>2. \A u \in ToSet(l.event[e]) : Mirror(l)[u] = Mirror(k)[u]
  BY DEF Mirror
<1>3. PICK s, w, v : s = l.event[e] /\ w = Mirror(k) /\ v = Mirror(l)
  OBVIOUS
<1>4. InOrder(s, v)
  BY <1>1, <1>2, <1>3, SameOrder
<1>5. QED
  BY <1>3, <1>4 DEF InLine

\* A step that wakes but does not place.
LEMMA FairStays ==
  ASSUME WaitInv, Users, Owners, UNCHANGED ops, NEW q \in Queue, Kind[q] = "mutex", Fair(q),
         queue'[q].holder = queue[q].holder, Serving(kernel'),
         ToSet(kernel'.event[Door(q)]) \subseteq ToSet(kernel.event[Door(q)]),
         \A w : InOrder(kernel.event[Door(q)], w) => InOrder(kernel'.event[Door(q)], w),
         \A u \in Task : UsesIn(ops, u, q) => kernel'.priority[u] = kernel.priority[u],
         queue[q].holder = NoTask =>
           \A u \in Task : Returns(u, Door(q)) => Returns(u, Door(q))',
         kernel'.current = kernel.current \/ Leads(kernel')
  PROVE  Fair(q)'
<1>1. PICK e \in Event : e = Door(q)
  BY DoorIs
<1>2. PICK W, V : W = ToSet(kernel.event[e]) /\ V = ToSet(kernel'.event[e]) /\ V \subseteq W
  BY <1>1
<1>3. \A u \in W : u \in Task /\ u \in AnyTask /\ UsesIn(ops, u, q)
                   /\ kernel'.priority[u] = kernel.priority[u]
  BY <1>1, <1>2, DoorUsers
<1>4. InLine(kernel', e)
  <2>1. PICK k, l : k = kernel /\ l = kernel'
    OBVIOUS
  <2>2. InLine(l, e)
    BY <1>1, <1>2, <1>3, <2>1, LineStays DEF Fair, WaitInv
  <2>3. QED
    BY <2>1, <2>2
<1>5. ASSUME NEW t \in Task, UsesIn(ops, t, q), Above(kernel, t, e)
      PROVE  Above(kernel', t, e)
  BY <1>2, <1>3, <1>5 DEF Above
<1>6. PICK h : h = queue[q].holder /\ h = queue'[q].holder
  OBVIOUS
<1>7. h # NoTask => Above(kernel', h, e)
  BY <1>1, <1>5, <1>6 DEF Fair, Owners
<1>8. ASSUME h = NoTask, V # {}
      PROVE  \E u \in Task : Returns(u, e)' /\ Listed(kernel', u) /\ Above(kernel', u, e)
  <2>1. kernel.event[e] # <<>>
    BY <1>2, <1>8, EmptyOnce
  <2>2. PICK u \in Task : Returns(u, e) /\ Above(kernel, u, e)
    BY <1>1, <1>6, <1>8, <2>1 DEF Fair
  <2>3. Returns(u, e)'
    BY <1>1, <1>6, <1>8, <2>2
  <2>4. UsesIn(ops, u, q)
    BY <1>1, <2>2 DEF Returns, Users, Waits, Door
  <2>5. Listed(kernel', u)
    BY <2>3 DEF Returns, Listed
  <2>6. QED
    BY <1>5, <2>2, <2>3, <2>4, <2>5
<1>9. kernel'.event[e] # <<>> => V # {}
  <2>1. Once(kernel'.event[e])
    BY DEF Serving, Parted
  <2>2. QED
    BY <1>2, <2>1, TailOfList
<1>10. ASSUME h = NoTask, kernel'.current \in Task, UsesIn(ops, kernel'.current, q)
       PROVE  Above(kernel', kernel'.current, e)
  <2>1. CASE V = {}
    BY <1>2, <2>1 DEF Above
  <2>2. CASE kernel'.current = kernel.current
    BY <1>1, <1>5, <1>6, <1>10, <2>2 DEF Fair
  <2>3. CASE V # {} /\ Leads(kernel')
    <3>1. PICK u \in Task : Listed(kernel', u) /\ Above(kernel', u, e)
      BY <1>8, <1>10, <2>3
    <3>2. kernel'.priority[u] <= kernel'.priority[kernel'.current]
      BY <2>3, <3>1 DEF Leads
    <3>3. \A v \in AnyTask : kernel'.priority[v] \in Int
      BY KernelAssumption DEF Serving, Parted, Priority
    <3>4. ASSUME NEW v \in V PROVE kernel'.priority[v] <= kernel'.priority[kernel'.current]
      BY <1>2, <1>3, <1>10, <3>1, <3>2, <3>3 DEF Above, AnyTask
    <3>5. QED
      BY <1>2, <3>4 DEF Above
  <2>4. QED
    BY <2>1, <2>2, <2>3
<1>11. UsesIn(ops', kernel'.current, q) <=> UsesIn(ops, kernel'.current, q)
  OBVIOUS
<1>12. QED
  BY <1>1, <1>4, <1>6, <1>7, <1>8, <1>9, <1>10, <1>11 DEF Fair, Door

\* Nobody takes or gives a mutex, or inherits.
LEMMA StillHolds ==
  ASSUME WaitInv, HoldInv, UNCHANGED ops, Users', Strangers',
         \A q \in Queue : queue'[q].holder = queue[q].holder,
         Ranked(kernel) => /\ Calm(kernel, kernel')
                           /\ kernel'.current = kernel.current \/ Leads(kernel'),
         kernel'.priority = kernel.priority,
         \A u \in Task : pc[u] \in {"try", "yield"} =>
           \/ pc'[u] \in {"try", "yield"} /\ call'[u] = call[u]
           \/ Kind[call[u].queue] = "mutex" => queue[call[u].queue].holder # NoTask
  PROVE  HoldInv'
<1>1. Owners'
  BY DEF HoldInv, Owners, UsesIn
<1>2. ASSUME SetsNone(ops)
      PROVE  Ranked(kernel') /\ \A q \in Queue : Kind[q] = "mutex" => Fair(q)'
  <2>1. Ranked(kernel) /\ Calm(kernel, kernel')
        /\ (kernel'.current = kernel.current \/ Leads(kernel'))
    BY <1>2 DEF HoldInv
  <2>2. Ranked(kernel')
    BY <2>1, CalmRanks
  <2>3. ASSUME NEW q \in Queue, Kind[q] = "mutex"
        PROVE  Fair(q)'
    <3>1. Fair(q) /\ Door(q) \in Event
      BY <1>2, <2>3, DoorIs DEF HoldInv
    <3>2. ASSUME NEW u \in Task, queue[q].holder = NoTask, Returns(u, Door(q))
          PROVE  Returns(u, Door(q))'
      <4>1. call[u].queue = q
        BY <3>2 DEF Returns, Waits, Door
      <4>2. pc'[u] \in {"try", "yield"} /\ call'[u] = call[u]
        BY <2>3, <3>2, <4>1 DEF Returns
      <4>3. Listed(kernel', u)
        BY <2>1, <3>2 DEF Returns, Calm, Frees
      <4>4. QED
        BY <3>2, <4>2, <4>3 DEF Returns, Waits, Sends, Listed
    <3>3. Serving(kernel')
      BY <2>2 DEF Ranked
    <3>4. /\ ToSet(kernel'.event[Door(q)]) \subseteq ToSet(kernel.event[Door(q)])
          /\ \A w : InOrder(kernel.event[Door(q)], w) => InOrder(kernel'.event[Door(q)], w)
      BY <2>1, <3>1 DEF Calm, Frees
    <3>5. QED
      BY <2>1, <2>3, <3>1, <3>2, <3>3, <3>4, FairStays DEF HoldInv
  <2>4. QED
    BY <2>2, <2>3
<1>3. Ranked(kernel') => Ranked(kernel)'
  BY DEF Ranked, Serving, Level, Parted, IsKernel, Listed
<1>4. QED
  BY <1>1, <1>2, <1>3 DEF HoldInv, SetsNone

-----------------------------------------------------------------------------
(* Waking, with priorities *)

LEMMA WakeOneCalms ==
  ASSUME NEW k, Ranked(k), NEW e \in Event
  PROVE  LET l == WakeOne(k, e)
         IN  Calm(k, l) /\ (l.current = k.current \/ Leads(l))
<1>1. CASE k.event[e] = <<>>
  BY <1>1, QuietNobody DEF WakeOne, Quiet
<1>2. CASE k.event[e] # <<>>
  <2>1. PICK l : l = RemoveFromEventList(k, e)
    OBVIOUS
  <2>2. PICK m : m = SwitchContext(l)
    OBVIOUS
  <2>3. Quiet(k, l) /\ Ranked(l)
    BY <1>2, <2>1, RemoveFromEventListCalms, CalmRanks DEF Quiet
  <2>4. Calm(l, m) /\ (m.current = l.current \/ Leads(m))
    BY <2>2, <2>3, SwitchContextCalms
  <2>5. Calm(k, m)
    BY <2>3, <2>4, CalmTwice DEF Quiet
  <2>6. WakeOne(k, e) \in {l, m}
    BY <1>2, <2>1, <2>2 DEF WakeOne, YieldIf
  <2>7. QED
    BY <2>3, <2>4, <2>5, <2>6 DEF Quiet
<1>3. QED
  BY <1>1, <1>2

LEMMA WokenCalms ==
  ASSUME NEW k, Ranked(k), NEW e \in Event
  PROVE  Quiet(k, Woken(k, e))
<1>1. CASE k.event[e] = <<>>
  BY <1>1, QuietNobody DEF Woken
<1>2. CASE k.event[e] # <<>>
  <2>1. PICK l : l = RemoveFromEventList(k, e)
    OBVIOUS
  <2>2. PICK yields : yields = (l.missedYield \/ WantsYield(k, e))
    OBVIOUS
  <2>3. PICK m : m = [l EXCEPT !.missedYield = yields]
    OBVIOUS
  <2>4. Woken(k, e) = m
    BY <1>2, <2>1, <2>2, <2>3 DEF Woken
  <2>5. Quiet(k, l) /\ Ranked(l)
    BY <1>2, <2>1, RemoveFromEventListCalms, CalmRanks DEF Quiet
  <2>6. /\ m = [x \in Fields |-> m[x]] /\ m.missedTicks = l.missedTicks
        /\ m.topReady = l.topReady /\ m.priority = l.priority /\ m.base = l.base
        /\ m.ready = l.ready /\ m.event = l.event /\ m.pending = l.pending
        /\ m.current = l.current /\ m.delayed = l.delayed /\ m.overflow = l.overflow
        /\ m.urgency = l.urgency
    BY <2>3, <2>5 DEF Ranked, Serving, Parted, IsKernel, Fields
  <2>7. IsKernel(m)
    BY <2>5, <2>6 DEF Ranked, Serving, Parted, IsKernel
  <2>8. OnlyTimes(l, m) /\ m.delayed \in Seq(AnyTask) /\ m.overflow \in Seq(AnyTask)
    BY <2>5, <2>6, <2>7 DEF OnlyTimes, Ranked, Serving, Parted
  <2>9. Quiet(l, m)
    BY <2>5, <2>6, <2>8, OnlyTimesQuiet
  <2>10. QED
    BY <2>4, <2>5, <2>9, QuietTwice
<1>3. QED
  BY <1>1, <1>2

LEMMA WakeManyCalms ==
  ASSUME NEW k, Ranked(k), NEW e \in Event, NEW N \in Nat
  PROVE  Quiet(k, WakeMany(k, e, N))
<1>1. PICK after : /\ after[0] = k /\ WakeMany(k, e, N) = after[N]
                   /\ \A n \in 0 .. N - 1 : after[n + 1] = Woken(after[n], e)
  BY ONLY WakeManyRuns, N \in Nat
<1> DEFINE S == {n \in Nat : n <= N => Quiet(k, after[n])}
<1>2. 0 \in S
  BY <1>1, QuietNobody
<1>3. ASSUME NEW n \in S PROVE n + 1 \in S
  <2>1. SUFFICES ASSUME n + 1 <= N PROVE Quiet(k, after[n + 1])
    OBVIOUS
  <2>2. PICK l, m : l = after[n] /\ m = after[n + 1]
    OBVIOUS
  <2>3. Quiet(k, l) /\ m = Woken(l, e)
    BY <1>1, <2>1, <2>2
  <2>4. Quiet(l, m)
    BY <2>3, WokenCalms, CalmRanks DEF Quiet
  <2>5. QED
    BY <2>2, <2>3, <2>4, QuietTwice
<1>4. S = Nat
  <2> HIDE DEF S
  <2>1. S \in SUBSET Nat
    BY DEF S
  <2>2. QED
    BY <1>2, <1>3, <2>1, SetInduction
<1>5. QED
  BY <1>1, <1>4

LEMMA ListedIsTask ==
  ASSUME NEW k, Serving(k), NEW t, Listed(k, t)
  PROVE  t \in AnyTask
<1>1. PICK p \in Priority : t \in ToSet(k.ready[p])
  BY DEF Listed
<1>2. PICK s : s = k.ready[p]
  OBVIOUS
<1>3. Once(s) /\ t \in ToSet(s)
  BY <1>1, <1>2 DEF Serving, Parted
<1>4. QED
  BY <1>3, OnceHolds

\* The first of those who wait is as urgent as any of them, and if nobody is switched
\* to so is the running task.
LEMMA HandsOver ==
  ASSUME NEW k, Ranked(k), k.suspendDepth = 0, NEW e \in Event, k.event[e] # <<>>,
         InLine(k, e), k.current \in AnyTask
  PROVE  LET l == WakeOne(k, e)
             u == Head(k.event[e])
         IN  /\ u \in ToSet(k.event[e]) /\ Listed(l, u)
             /\ Above(l, u, e) /\ Above(l, l.current, e)
<1>1. PICK s : s = k.event[e]
  OBVIOUS
<1>2. Once(s) /\ s # <<>> /\ InOrder(s, Mirror(k))
  BY <1>1 DEF Ranked, Serving, Parted, InLine
<1>3. PICK u \in AnyTask : u = Head(s) /\ u = s[1] /\ u \in ToSet(s)
  <2>1. s \in Seq(AnyTask)
    BY <1>2 DEF Once
  <2>2. QED
    BY <1>2, <2>1, TailOfList
<1>4. \A v \in AnyTask : k.priority[v] \in Int /\ MaxPriority \in Int
  BY KernelAssumption DEF Ranked, Serving, Parted, Priority
<1>5. ASSUME NEW v \in ToSet(s)
      PROVE  v \in AnyTask /\ k.priority[v] <= k.priority[u]
  <2>1. v \in AnyTask
    BY <1>2, <1>5, OnceHolds
  <2>2. s \in Seq(AnyTask)
    BY <1>2 DEF Once
  <2>3. PICK i \in 1 .. Len(s) : v = s[i]
    BY <1>5, <2>2 DEF ToSet
  <2>4. DOMAIN s = 1 .. Len(s) /\ Len(s) \in Nat
    BY <2>2
  <2>5. i = 1 \/ (1 \in DOMAIN s /\ i \in DOMAIN s /\ 1 < i)
    BY <2>3, <2>4
  <2>6. i = 1 \/ Mirror(k)[u] <= Mirror(k)[v]
    BY <1>2, <1>3, <2>3, <2>5 DEF InOrder
  <2>7. Mirror(k)[u] = MaxPriority - k.priority[u] /\ Mirror(k)[v] = MaxPriority - k.priority[v]
    BY <2>1 DEF Mirror
  <2>8. QED
    BY <1>3, <1>4, <2>1, <2>3, <2>6, <2>7
<1>6. PICK r : r = RemoveFromEventList(k, e)
  OBVIOUS
<1>7. Quiet(k, r) /\ Ranked(r)
  BY <1>1, <1>2, <1>6, RemoveFromEventListCalms, CalmRanks DEF Quiet
<1>8. Listed(r, u)
  <2>1. PICK z \in Seq(AnyTask) : z = <<u>> /\ Len(z) = 1 /\ z[1] = u
    <3>1. <<u>> \in Seq(AnyTask) /\ Len(<<u>>) = 1 /\ <<u>>[1] = u
      OBVIOUS
    <3>2. QED
      BY <3>1
  <2>2. r = MakeReady(k, z)
    BY <1>1, <1>3, <1>6, <2>1 DEF RemoveFromEventList
  <2>3. \A i \in 1 .. Len(z) : Listed(r, z[i])
    BY <2>2, MakeReadyFrees DEF Ranked
  <2>4. QED
    BY <2>1, <2>3
<1>9. PICK m : m = SwitchContext(r)
  OBVIOUS
<1>10. Preserves(k, r) /\ Preserves(r, m)
  <2>1. Preserves(k, r)
    BY <1>6, RemoveFromEventListPreserves DEF Ranked, Serving, Parted
  <2>2. Preserves(r, m)
    BY <1>9, <2>1, SwitchContextPreserves DEF Preserves
  <2>3. QED
    BY <2>1, <2>2
<1>11. PICK l : l = WakeOne(k, e)
  OBVIOUS
<1>12. l = IF WantsYield(k, e) THEN m ELSE r
  BY <1>1, <1>2, <1>6, <1>9, <1>11 DEF WakeOne, YieldIf
<1>13. WantsYield(k, e) <=> k.priority[u] >= k.priority[k.current]
  BY <1>1, <1>3 DEF WantsYield
<1>14. Calm(r, m) /\ Leads(m)
  BY <1>7, <1>9, <1>10, SwitchContextCalms DEF Preserves
<1>15. /\ l.priority = k.priority /\ Listed(l, u)
       /\ ToSet(l.event[e]) \subseteq ToSet(s)
  BY <1>1, <1>7, <1>8, <1>10, <1>12, <1>14 DEF Preserves, Calm, Quiet, Frees
<1>16. Above(l, u, e)
  BY <1>5, <1>15 DEF Above
<1>17. Above(l, l.current, e)
  <2>1. CASE WantsYield(k, e)
    <3>1. Leads(l) /\ l.current \in AnyTask
      BY <1>12, <1>14, <2>1, ListedIsTask DEF Leads, Calm, Frees
    <3>2. k.priority[u] <= k.priority[l.current]
      BY <1>15, <3>1 DEF Leads
    <3>3. QED
      BY <1>4, <1>5, <1>15, <3>1, <3>2 DEF Above
  <2>2. CASE ~WantsYield(k, e)
    <3>1. l.current = k.current
      BY <1>7, <1>12, <2>2 DEF Quiet
    <3>2. k.priority[u] <= k.priority[k.current]
      BY <1>4, <1>13, <2>2
    <3>3. QED
      BY <1>4, <1>5, <1>15, <3>1, <3>2 DEF Above
  <2>3. QED
    BY <2>1, <2>2
<1>18. QED
  BY <1>1, <1>3, <1>11, <1>15, <1>16, <1>17

-----------------------------------------------------------------------------
(* The actions, one by one *)

\* The scheduler moves on without the tasks.
LEMMA KernelHolds ==
  ASSUME WaitInv, CallsOK, HoldInv, UNCHANGED <<ops, pc, call>>,
         \A q \in Queue : queue'[q].holder = queue[q].holder,
         Ranked(kernel) => /\ Calm(kernel, kernel')
                           /\ kernel'.current = kernel.current \/ Leads(kernel'),
         kernel'.priority = kernel.priority
  PROVE  HoldInv'
<1>1. Users' /\ Strangers'
  BY DEF HoldInv, Users, Strangers, UsesIn, CallsOK, IsCall
<1>2. \A u \in Task : pc[u] \in {"try", "yield"} => pc'[u] \in {"try", "yield"} /\ call'[u] = call[u]
  OBVIOUS
<1>3. QED
  BY <1>1, <1>2, StillHolds

\* A task goes on in its call, or returns from it.
LEMMA MovesHold ==
  ASSUME WaitInv, CallsOK, HoldInv, UNCHANGED ops, NEW t \in Task, pc[t] # "run",
         NEW l, Goto(t, l), NEW c, call' = [call EXCEPT ![t] = c],
         l # "run" => c.queue = call[t].queue,
         pc[t] \in {"try", "yield"} => l \in {"try", "yield"} /\ c = call[t],
         \A q \in Queue : queue'[q].holder = queue[q].holder,
         Ranked(kernel) => /\ Calm(kernel, kernel')
                           /\ kernel'.current = kernel.current \/ Leads(kernel'),
         kernel'.priority = kernel.priority
  PROVE  HoldInv'
<1>1. /\ pc'[t] = l /\ call'[t] = c
      /\ \A u \in Task \ {t} : pc'[u] = pc[u] /\ call'[u] = call[u]
  BY DEF CallsOK, Goto
<1>2. \A u \in Task : pc'[u] # "run" =>
        pc[u] # "run" /\ call'[u].queue = call[u].queue /\ call[u].queue \in Queue
  BY <1>1 DEF CallsOK, IsCall
<1>3. Users' /\ Strangers'
  BY <1>2 DEF HoldInv, Users, Strangers, UsesIn
<1>4. \A u \in Task : pc[u] \in {"try", "yield"} => pc'[u] \in {"try", "yield"} /\ call'[u] = call[u]
  BY <1>1
<1>5. QED
  BY <1>3, <1>4, StillHolds

\* Takes and gives of a mutex that stay within its holder.
LEMMA DepthHolds ==
  ASSUME Queues, CallsOK, WaitInv, HoldInv, UNCHANGED ops, NEW t \in Task,
         TakeAgain(t) \/ GiveOne(t)
  PROVE  HoldInv'
<1>1. PICK q \in Queue : \E n : queue' = [queue EXCEPT ![q].depth = n]
  BY DEF TakeAgain, GiveOne
<1>2. \A p \in Queue : queue'[p].holder = queue[p].holder
  BY <1>1, QueueFields DEF Queues
<1>3. UNCHANGED <<ops, pc, call>> /\ kernel' = kernel
  BY DEF TakeAgain, GiveOne
<1>4. Ranked(kernel) => Calm(kernel, kernel') /\ kernel'.current = kernel.current
  BY <1>3, QuietNobody DEF Quiet
<1>5. QED
  BY <1>2, <1>3, <1>4, KernelHolds

\* Where this is done nobody uses a mutex.
LEMMA SetPriorityHolds ==
  ASSUME HoldInv, UNCHANGED ops, NEW t \in Task, SetPriority(t)
  PROVE  HoldInv'
<1>1. PICK u, p : <<"setPriority", u, p>> \in ops[t]
  BY DEF SetPriority
<1>2. ~SetsNone(ops)
  BY <1>1 DEF SetsNone
<1>3. UNCHANGED <<queue, pc, call>>
  BY DEF SetPriority
<1>4. Users' /\ Owners' /\ Strangers'
  BY <1>3 DEF HoldInv, Users, Owners, Strangers, UsesIn
<1>5. QED
  BY <1>2, <1>4 DEF HoldInv, SetsNone

LEMMA TickHolds ==
  ASSUME CallsOK, WaitInv, HoldInv, UNCHANGED ops, TickInterrupt
  PROVE  HoldInv'
<1>1. kernel' = SwitchContext(IncrementTick(kernel)) /\ UNCHANGED <<queue, pc, call>>
  BY DEF TickInterrupt
<1>2. PICK l : l = IncrementTick(kernel)
  OBVIOUS
<1>3. Preserves(kernel, l) /\ Preserves(l, kernel')
  BY <1>1, <1>2, IncrementTickPreserves, SwitchContextPreserves
     DEF Preserves, WaitInv, Serving, Parted
<1>4. ASSUME Ranked(kernel)
      PROVE  Calm(kernel, kernel') /\ (kernel'.current = kernel.current \/ Leads(kernel'))
  <2>1. Quiet(kernel, l) /\ Ranked(l)
    BY <1>2, <1>4, IncrementTickCalms, CalmRanks DEF Quiet
  <2>2. PICK m : m = kernel'
    OBVIOUS
  <2>3. Calm(l, m) /\ (m.current = l.current \/ Leads(m))
    BY <1>1, <1>2, <2>1, <2>2, SwitchContextCalms
  <2>4. Calm(kernel, m)
    BY <2>1, <2>3, CalmTwice DEF Quiet
  <2>5. QED
    BY <2>1, <2>2, <2>3, <2>4 DEF Quiet
<1>5. kernel'.priority = kernel.priority /\ \A q \in Queue : queue'[q].holder = queue[q].holder
  BY <1>1, <1>3 DEF Preserves
<1>6. QED
  BY <1>1, <1>4, <1>5, KernelHolds

\* Handlers use no mutex.
LEMMA HandlerHolds ==
  ASSUME Queues, CallsOK, KernelInv, WaitInv, HoldInv, UNCHANGED ops,
         NEW q \in FromISR, SendFromISR(q) \/ ReceiveFromISR(q)
  PROVE  HoldInv'
<1>1. /\ q \in Queue /\ Kind[q] # "mutex" /\ IsQueue(q, queue[q]) /\ queue[q].holder = NoTask
      /\ <<q, "receive">> \in Event /\ <<q, "send">> \in Event
  BY QueueAssumption DEF Queues, KernelInv, Mutexes, MutexOK
<1>2. PICK e \in Event : kernel' \in {kernel, WakeOne(kernel, e)}
  BY <1>1 DEF SendFromISR, ReceiveFromISR, Tell
<1>3. kernel'.priority = kernel.priority
  BY <1>2, WakeOnePreserves DEF Preserves, KernelInv
<1>4. ASSUME Ranked(kernel)
      PROVE  Calm(kernel, kernel') /\ (kernel'.current = kernel.current \/ Leads(kernel'))
  BY <1>2, <1>4, WakeOneCalms, QuietNobody DEF Quiet
<1>5. \A p \in Queue : queue'[p].holder = queue[p].holder
  <2>1. \A p \in Queue \ {q} : queue'[p] = queue[p]
    BY DEF SendFromISR, ReceiveFromISR, Queues
  <2>2. queue'[q].holder = NoTask
    <3>1. CASE SendFromISR(q)
      <4>1. PICK x, front : queue' = [queue EXCEPT ![q] =
                              [CopyTo(q, x, front) EXCEPT !.txLock = Counted(@)]]
        BY <3>1 DEF SendFromISR
      <4>2. PICK r : r = CopyTo(q, x, front)
        OBVIOUS
      <4>3. r.holder = NoTask /\ r.txLock = queue[q].txLock /\ r = [d \in DOMAIN r |-> r[d]]
            /\ "holder" \in DOMAIN r
        BY <1>1, <4>2, ZenonT(60) DEF CopyTo, IsQueue, QueueRecord
      <4>4. queue'[q] = [r EXCEPT !.txLock = Counted(@)]
        BY <1>1, <4>1, <4>2 DEF Queues
      <4>5. QED
        BY <4>3, <4>4
    <3>2. CASE ReceiveFromISR(q)
      <4>1. queue'[q] = [CopyFrom(q, NoTask) EXCEPT !.rxLock = Counted(@)]
        BY <1>1, <3>2 DEF ReceiveFromISR, Queues
      <4>2. QED
        BY <1>1, <4>1, QueueFields DEF CopyFrom
    <3>3. QED
      BY <3>1, <3>2
  <2>3. QED
    BY <1>1, <2>1, <2>2
<1>6. UNCHANGED <<ops, pc, call>>
  BY DEF SendFromISR, ReceiveFromISR
<1>7. QED
  BY <1>3, <1>4, <1>5, <1>6, KernelHolds

LEMMA SuspendHolds ==
  ASSUME KernelInv, CallsOK, WaitInv, HoldInv, UNCHANGED ops, NEW t \in Task, SuspendScheduler(t)
  PROVE  HoldInv'
<1>1. PICK c, l : c = call[t] /\ l = "lock"
  OBVIOUS
<1>2. /\ pc[t] = "suspend" /\ Goto(t, l) /\ call' = [call EXCEPT ![t] = c]
      /\ kernel' = SuspendAll(kernel) /\ UNCHANGED queue
  BY <1>1 DEF SuspendScheduler, Step, CallsOK
<1>3. kernel'.priority = kernel.priority
  BY <1>2, SuspendAllPreserves DEF KernelInv
<1>4. Ranked(kernel) => Calm(kernel, kernel') /\ kernel'.current = kernel.current
  BY <1>2, SuspendAllCalms DEF Quiet
<1>5. QED
  BY <1>1, <1>2, <1>3, <1>4, MovesHold

LEMMA LockHolds ==
  ASSUME Queues, CallsOK, WaitInv, HoldInv, UNCHANGED ops, NEW t \in Task, Lock(t)
  PROVE  HoldInv'
<1>1. PICK c, l : c = call[t] /\ l = "check"
  OBVIOUS
<1>2. /\ pc[t] = "lock" /\ Goto(t, l) /\ call' = [call EXCEPT ![t] = c] /\ kernel' = kernel
  BY <1>1 DEF Lock, Step, CallsOK
<1>3. PICK m, n : queue' = [queue EXCEPT ![c.queue].rxLock = m, ![c.queue].txLock = n]
  BY <1>1 DEF Lock
<1>4. \A p \in Queue : queue'[p].holder = queue[p].holder
  BY <1>3, QueueFields DEF Queues
<1>5. Ranked(kernel) => Calm(kernel, kernel') /\ kernel'.current = kernel.current
  BY <1>2, QuietNobody DEF Quiet
<1>6. QED
  BY <1>1, <1>2, <1>4, <1>5, MovesHold

LEMMA CheckHolds ==
  ASSUME CallsOK, WaitInv, HoldInv, UNCHANGED ops, NEW t \in Task, Check(t) \/ Test(t)
  PROVE  HoldInv'
<1>1. PICK b : b = call[t]
  OBVIOUS
<1>2. pc[t] \in {"check", "test"} /\ IsCall(b) /\ kernel' = kernel /\ UNCHANGED queue
  BY <1>1 DEF Check, Test, Step, CallsOK
<1>3. PICK c, l : /\ Goto(t, l) /\ call' = [call EXCEPT ![t] = c] /\ c.queue = b.queue
  <2>1. CASE Check(t)
    <3>1. PICK l : Goto(t, l)
      BY <2>1 DEF Check, Step
    <3>2. PICK u, v : /\ u = TicksLeft(kernel, b.timeOut, b.ticks) /\ v = TimeOutNow(kernel)
      OBVIOUS
    <3>3. PICK c \in {[b EXCEPT !.then = "fail"], [b EXCEPT !.ticks = u, !.timeOut = v]} :
            call' = [call EXCEPT ![t] = c]
      BY <1>1, <2>1, <3>2 DEF Check
    <3>4. c.queue = b.queue
      BY <1>2, <3>3 DEF IsCall
    <3>5. QED
      BY <3>1, <3>3, <3>4
  <2>2. CASE Test(t)
    <3>1. PICK l, v : Goto(t, l) /\ call' = [call EXCEPT ![t].then = v]
      BY <2>2 DEF Test, Step
    <3>2. PICK c : c = [b EXCEPT !.then = v]
      OBVIOUS
    <3>3. call' = [call EXCEPT ![t] = c] /\ c.queue = b.queue
      BY <1>1, <1>2, <3>1, <3>2 DEF IsCall
    <3>4. QED
      BY <3>1, <3>3
  <2>3. QED
    BY <2>1, <2>2
<1>4. Ranked(kernel) => Calm(kernel, kernel') /\ kernel'.current = kernel.current
  BY <1>2, QuietNobody DEF Quiet
<1>5. QED
  BY <1>1, <1>2, <1>3, <1>4, MovesHold

LEMMA UnlockHolds ==
  ASSUME Queues, CallsOK, KernelInv, WaitInv, HoldInv, UNCHANGED ops, NEW t \in Task,
         UnlockTx(t) \/ UnlockRx(t)
  PROVE  HoldInv'
<1>1. PICK q \in Queue : q = call[t].queue
  BY DEF UnlockTx, UnlockRx, Step, CallsOK, IsCall
<1>2. /\ queue[q].txLock \in {Unlocked} \cup Nat /\ queue[q].rxLock \in {Unlocked} \cup Nat
      /\ <<q, "receive">> \in Event /\ <<q, "send">> \in Event
  BY QueueFields, QueueAssumption DEF Queues
<1>3. PICK e \in Event, N \in Nat : kernel' = WakeMany(kernel, e, N)
  <2>1. CASE UnlockTx(t)
    <3>1. pc[t] = "unlockTx" /\ kernel' = WakeMany(kernel, <<q, "receive">>, queue[q].txLock)
      BY <1>1, <2>1 DEF UnlockTx, Step
    <3>2. queue[q].txLock \in Nat
      BY <1>1, <1>2, <3>1 DEF KernelInv, LocksOK, Within, TxLocking
    <3>3. QED
      BY <1>2, <3>1, <3>2
  <2>2. CASE UnlockRx(t)
    <3>1. pc[t] = "unlockRx" /\ kernel' = WakeMany(kernel, <<q, "send">>, queue[q].rxLock)
      BY <1>1, <2>2 DEF UnlockRx, Step
    <3>2. queue[q].rxLock \in Nat
      BY <1>1, <1>2, <3>1 DEF KernelInv, LocksOK, Within, RxLocking
    <3>3. QED
      BY <1>2, <3>1, <3>2
  <2>3. QED
    BY <2>1, <2>2
<1>4. kernel'.priority = kernel.priority
  BY <1>3, WakeManyPreserves DEF KernelInv, Preserves
<1>5. Ranked(kernel) => Calm(kernel, kernel') /\ kernel'.current = kernel.current
  BY <1>3, WakeManyCalms DEF Quiet
<1>6. PICK l \in {"unlockRx", "resume"} : Goto(t, l)
  BY DEF UnlockTx, UnlockRx, Step
<1>7. PICK c : c = call[t]
  OBVIOUS
<1>8. pc[t] \in {"unlockTx", "unlockRx"} /\ call' = [call EXCEPT ![t] = c]
  BY <1>7 DEF UnlockTx, UnlockRx, Step, CallsOK
<1>9. \A p \in Queue : queue'[p].holder = queue[p].holder
  <2>1. \/ queue' = [queue EXCEPT ![q].txLock = Unlocked]
        \/ queue' = [queue EXCEPT ![q].rxLock = Unlocked]
    BY <1>1 DEF UnlockTx, UnlockRx
  <2>2. QED
    BY <2>1, QueueFields DEF Queues
<1>10. QED
  BY <1>4, <1>5, <1>6, <1>7, <1>8, <1>9, MovesHold

LEMMA ResumedHolds ==
  ASSUME CallsOK, KernelInv, WaitInv, HoldInv, UNCHANGED ops, NEW t \in Task, Resumed(t)
  PROVE  HoldInv'
<1>1. PICK b : b = call[t]
  OBVIOUS
<1>2. /\ pc[t] = "resume" /\ kernel' = ResumeAll(kernel) /\ UNCHANGED queue
      /\ b.then \in {"again", "blocked", "fail"}
  BY <1>1 DEF Resumed, CallsOK, IsCall
<1>3. PICK l, c : /\ Goto(t, l) /\ call' = [call EXCEPT ![t] = c]
                  /\ l # "run" => c = b
  <2>1. CASE b.then = "fail"
    BY <1>1, <2>1 DEF Resumed, Return
  <2>2. CASE b.then = "again"
    BY <1>1, <2>2 DEF Resumed, CallsOK
  <2>3. CASE b.then = "blocked"
    BY <1>1, <2>3 DEF Resumed, CallsOK
  <2>4. QED
    BY <1>2, <2>1, <2>2, <2>3
<1>4. kernel'.priority = kernel.priority
  BY <1>2, ResumeAllPreserves DEF KernelInv
<1>5. Ranked(kernel) => /\ Calm(kernel, kernel')
                        /\ kernel'.current = kernel.current \/ Leads(kernel')
  BY <1>2, ResumeAllCalms
<1>6. QED
  BY <1>1, <1>2, <1>3, <1>4, <1>5, MovesHold

LEMMA YieldHolds ==
  ASSUME CallsOK, KernelInv, WaitInv, HoldInv, UNCHANGED ops, NEW t \in Task, Yield(t)
  PROVE  HoldInv'
<1>1. PICK c, l : c = call[t] /\ l = "try"
  OBVIOUS
<1>2. /\ pc[t] = "yield" /\ Goto(t, l) /\ call' = [call EXCEPT ![t] = c]
      /\ kernel' = SwitchContext(kernel) /\ UNCHANGED queue
  BY <1>1 DEF Yield, Step, CallsOK
<1>3. kernel'.priority = kernel.priority
  BY <1>2, SwitchContextPreserves DEF KernelInv, Preserves
<1>4. Ranked(kernel) => /\ Calm(kernel, kernel')
                        /\ kernel'.current = kernel.current \/ Leads(kernel')
  BY <1>2, SwitchContextCalms
<1>5. QED
  BY <1>1, <1>2, <1>3, <1>4, MovesHold

\* Who holds the queue a call has succeeded on.
LEMMA TransferHolder ==
  ASSUME Queues, KernelInv, NEW t \in Task, NEW c, IsCall(c), ~Blocking(c), Transfer(t, c)
  PROVE  /\ \A p \in Queue \ {c.queue} : queue'[p] = queue[p]
         /\ queue'[c.queue].holder =
              IF Kind[c.queue] = "mutex" /\ c.op = "receive" THEN t ELSE NoTask
         /\ ~Sends(c) /\ Kind[c.queue] = "mutex" => queue[c.queue].holder = NoTask
<1>1. PICK q \in Queue : q = c.queue
  BY DEF IsCall
<1>2. /\ IsQueue(q, queue[q]) /\ MutexOK(q, queue[q])
      /\ c.op \in {"send", "sendFront", "receive", "peek"}
  BY DEF IsCall, Queues, KernelInv, Mutexes
<1>3. PICK new : /\ queue' = [queue EXCEPT ![q] = new]
                 /\ Sends(c) => new = CopyTo(q, c.item, c.op = "sendFront")
                 /\ c.op = "receive" => new = CopyFrom(q, t)
                 /\ c.op = "peek" => new = queue[q]
  <2> DEFINE new == CASE Sends(c) -> CopyTo(q, c.item, c.op = "sendFront")
                      [] c.op = "receive" -> CopyFrom(q, t)
                      [] c.op = "peek" -> queue[q]
  <2>1. queue' = [queue EXCEPT ![q] = new]
    BY <1>1 DEF Transfer
  <2>2. /\ Sends(c) => new = CopyTo(q, c.item, c.op = "sendFront")
        /\ c.op = "receive" => new = CopyFrom(q, t)
        /\ c.op = "peek" => new = queue[q]
    BY DEF Sends
  <2> HIDE DEF new
  <2>3. QED
    BY <2>1, <2>2
<1>4. queue'[q] = new /\ \A p \in Queue \ {q} : queue'[p] = queue[p]
  BY <1>3 DEF Queues
<1>5. ~Sends(c) /\ Kind[q] = "mutex" => queue[q].holder = NoTask
  BY <1>1, <1>2 DEF Blocking, MutexOK
<1>6. new.holder = IF Kind[q] = "mutex" /\ c.op = "receive" THEN t ELSE NoTask
  <2>1. CASE Sends(c)
    <3>1. new.holder = IF Kind[q] = "data" THEN queue[q].holder ELSE NoTask
      BY <1>2, <1>3, <2>1 DEF CopyTo, IsQueue, QueueRecord
    <3>2. QED
      BY <1>2, <2>1, <3>1 DEF MutexOK, Sends
  <2>2. CASE c.op = "receive"
    <3>1. new.holder = IF Kind[q] = "mutex" THEN t ELSE queue[q].holder
      BY <1>2, <1>3, <2>2 DEF CopyFrom, IsQueue, QueueRecord
    <3>2. QED
      BY <1>2, <2>2, <3>1 DEF MutexOK
  <2>3. CASE c.op = "peek"
    BY <1>2, <1>3, <1>5, <2>3 DEF MutexOK, Sends
  <2>4. QED
    BY <1>2, <2>1, <2>2, <2>3 DEF Sends
<1>7. QED
  BY <1>1, <1>4, <1>5, <1>6

\* What a task that tries may count on.
Tries(t, c) ==
  /\ IsCall(c) /\ Try(t, c) /\ pc[t] \in {"run", "try"} /\ (pc[t] = "try" => call[t] = c)
  /\ UsesIn(ops, t, c.queue)
  /\ Kind[c.queue] = "mutex" => (Sends(c) <=> queue[c.queue].holder = t)

\* The call is over, or the task goes on to wait for what there is none of.
LEMMA TryBlocks ==
  ASSUME Queues, CallsOK, KernelInv, WaitInv, HoldInv, UNCHANGED ops,
         NEW t \in Task, NEW c, Tries(t, c), Blocking(c)
  PROVE  HoldInv'
<1>1. UNCHANGED <<kernel, queue>> /\ c.queue \in Queue
  BY DEF Tries, Try, IsCall
<1>2. PICK l, d : /\ Goto(t, l) /\ call' = [call EXCEPT ![t] = d]
                  /\ l = "run" \/ d = c
  BY DEF Tries, Try, Return
<1>3. /\ pc'[t] = l /\ call'[t] = d
      /\ \A u \in Task \ {t} : pc'[u] = pc[u] /\ call'[u] = call[u]
  BY <1>2 DEF CallsOK, Goto
<1>4. Kind[c.queue] = "mutex" => ~Sends(c) /\ queue[c.queue].holder \notin {t, NoTask}
  <2>1. SUFFICES ASSUME Kind[c.queue] = "mutex"
                 PROVE  ~Sends(c) /\ queue[c.queue].holder \notin {t, NoTask}
    OBVIOUS
  <2>2. MutexOK(c.queue, queue[c.queue]) /\ Length[c.queue] = 1 /\ t # NoTask
    BY <1>1, <2>1, QueueAssumption, KernelAssumption DEF KernelInv, Mutexes
  <2>3. ~Sends(c)
    <3>1. SUFFICES ASSUME Sends(c) PROVE FALSE
      OBVIOUS
    <3>2. queue[c.queue].count = 1 /\ queue[c.queue].holder # NoTask
      BY <2>1, <2>2, <3>1 DEF Blocking, Tries
    <3>3. QED
      BY <2>1, <2>2, <3>2 DEF MutexOK
  <2>4. queue[c.queue].count = 0
    BY <2>3 DEF Blocking
  <2>5. QED
    BY <2>1, <2>2, <2>3, <2>4 DEF MutexOK, Tries
<1>5. Users'
  BY <1>1, <1>2, <1>3 DEF HoldInv, Users, UsesIn, Tries
<1>6. Strangers'
  BY <1>1, <1>2, <1>3, <1>4 DEF HoldInv, Strangers
<1>7. Ranked(kernel) => Calm(kernel, kernel') /\ kernel'.current = kernel.current
  BY <1>1, QuietNobody DEF Quiet
<1>8. ASSUME NEW u \in Task, pc[u] \in {"try", "yield"}
      PROVE  \/ pc'[u] \in {"try", "yield"} /\ call'[u] = call[u]
             \/ Kind[call[u].queue] = "mutex" => queue[call[u].queue].holder # NoTask
  BY <1>3, <1>4, <1>8 DEF Tries
<1>9. QED
  BY <1>1, <1>5, <1>6, <1>7, <1>8, StillHolds

\* What becomes of those who use or hold a queue when a call on it succeeds.
LEMMA TransferUsers ==
  ASSUME Queues, CallsOK, KernelInv, HoldInv, UNCHANGED ops,
         NEW t \in Task, NEW c, Tries(t, c), Transfer(t, c), ~Blocking(c)
  PROVE  /\ Users' /\ Owners' /\ Strangers' /\ pc'[t] = "run"
         /\ \A u \in Task \ {t} : pc'[u] = pc[u] /\ call'[u] = call[u]
<1>1. Return(t) /\ c.queue \in Queue /\ IsCall(c) /\ t # NoTask
  BY KernelAssumption DEF Tries, Try, IsCall
<1>2. /\ pc'[t] = "run"
      /\ \A u \in Task \ {t} : pc'[u] = pc[u] /\ call'[u] = call[u]
  BY <1>1 DEF CallsOK, Return, Goto
<1>3. /\ \A p \in Queue \ {c.queue} : queue'[p] = queue[p]
      /\ queue'[c.queue].holder \in {t, NoTask}
  BY <1>1, TransferHolder
<1>4. Users'
  BY <1>2 DEF HoldInv, Users, UsesIn
<1>5. Owners'
  BY <1>1, <1>3 DEF HoldInv, Owners, UsesIn, Tries
<1>6. Strangers'
  <2> SUFFICES ASSUME NEW u \in Task, pc'[u] # "run", Kind[call'[u].queue] = "mutex"
               PROVE  queue'[call'[u].queue].holder # u
    BY DEF Strangers
  <2>1. u # t /\ pc[u] # "run" /\ call'[u] = call[u] /\ call[u].queue \in Queue /\ u # NoTask
    BY <1>2, KernelAssumption DEF CallsOK, IsCall
  <2>2. queue[call[u].queue].holder # u
    BY <2>1 DEF HoldInv, Strangers
  <2>3. QED
    BY <1>3, <2>1, <2>2
<1>7. QED
  BY <1>2, <1>4, <1>5, <1>6

\* A transfer that is not about a mutex.
LEMMA PlainTransferHolds ==
  ASSUME Queues, CallsOK, KernelInv, WaitInv, HoldInv, UNCHANGED ops,
         NEW t \in Task, NEW c, Tries(t, c), Transfer(t, c), ~Blocking(c),
         Kind[c.queue] # "mutex"
  PROVE  HoldInv'
<1>1. PICK q \in Queue : q = c.queue
  BY DEF Tries, IsCall
<1>2. queue[q].holder = NoTask /\ IsCall(c)
  BY <1>1 DEF KernelInv, Mutexes, MutexOK, Tries
<1>3. PICK e \in Event : e = Wakes(c)
  BY <1>2, TransferFrees DEF WaitInv
<1>4. kernel' = WakeOne(kernel, e)
  BY <1>1, <1>2, <1>3 DEF Transfer, PriorityDisinherit
<1>5. kernel'.priority = kernel.priority
  BY <1>4, WakeOnePreserves DEF Preserves, KernelInv
<1>6. Ranked(kernel) => Calm(kernel, kernel') /\ (kernel'.current = kernel.current \/ Leads(kernel'))
  BY <1>4, WakeOneCalms
<1>7. \A p \in Queue : queue'[p].holder = queue[p].holder
  <2>1. /\ \A p \in Queue \ {q} : queue'[p] = queue[p]
        /\ queue'[q].holder = NoTask
    BY <1>1, <1>2, TransferHolder
  <2>2. QED
    BY <1>2, <2>1
<1>8. /\ Users' /\ Strangers'
      /\ \A u \in Task \ {t} : pc'[u] = pc[u] /\ call'[u] = call[u]
  BY TransferUsers
<1>9. ASSUME NEW u \in Task, pc[u] \in {"try", "yield"}
      PROVE  \/ pc'[u] \in {"try", "yield"} /\ call'[u] = call[u]
             \/ Kind[call[u].queue] = "mutex" => queue[call[u].queue].holder # NoTask
  BY <1>8, <1>9 DEF Tries
<1>10. QED
  BY <1>5, <1>6, <1>7, <1>8, <1>9, StillHolds

\* To the other mutexes nothing has happened: the caller does not use them.
LEMMA OtherMutexesStay ==
  ASSUME OneMutexEach, Queues, CallsOK, KernelInv, WaitInv, HoldInv, UNCHANGED ops, SetsNone(ops),
         NEW t \in Task, NEW c, Tries(t, c), Transfer(t, c), ~Blocking(c),
         Kind[c.queue] = "mutex",
         Calm(kernel, kernel'), kernel'.current = kernel.current \/ Leads(kernel'),
         \A u \in AnyTask \ {t} : kernel'.priority[u] = kernel.priority[u],
         NEW p \in Queue, p # c.queue, Kind[p] = "mutex"
  PROVE  Fair(p)'
<1>1. /\ IsCall(c) /\ c.queue \in Queue /\ UsesIn(ops, t, c.queue)
      /\ pc[t] \in {"run", "try"} /\ (pc[t] = "try" => call[t] = c)
  BY DEF Tries, IsCall
<1>2. ~UsesIn(ops, t, p)
  BY <1>1 DEF OneMutexEach, HoldInv
<1>3. Fair(p) /\ Door(p) \in Event
  BY DoorIs DEF HoldInv
<1>4. \A u \in Task \ {t} : pc'[u] = pc[u] /\ call'[u] = call[u]
  BY TransferUsers
<1>5. queue'[p] = queue[p]
  BY <1>1, TransferHolder
<1>6. ASSUME NEW u \in Task, Returns(u, Door(p))
      PROVE  Returns(u, Door(p))'
  <2>1. call[u].queue = p /\ pc[u] \in {"try", "yield"}
    BY <1>6 DEF Returns, Waits, Door
  <2>2. u # t
    BY <1>1, <2>1
  <2>3. Listed(kernel', u)
    BY <1>6 DEF Returns, Calm, Frees
  <2>4. QED
    BY <1>4, <1>6, <2>2, <2>3 DEF Returns, Waits, Sends, Listed
<1>7. \A u \in Task : UsesIn(ops, u, p) => kernel'.priority[u] = kernel.priority[u]
  BY <1>2 DEF AnyTask
<1>8. /\ Serving(kernel')
      /\ ToSet(kernel'.event[Door(p)]) \subseteq ToSet(kernel.event[Door(p)])
      /\ \A w : InOrder(kernel.event[Door(p)], w) => InOrder(kernel'.event[Door(p)], w)
  BY <1>3 DEF Calm, Frees
<1>9. QED
  BY <1>3, <1>5, <1>6, <1>7, <1>8, FairStays DEF HoldInv

\* The one that takes a free mutex was as urgent as all who wait for it.
LEMMA TakeHolds ==
  ASSUME OneMutexEach, Queues, CallsOK, KernelInv, WaitInv, HoldInv, UNCHANGED ops,
         NEW t \in Task, NEW c, Tries(t, c), Transfer(t, c), ~Blocking(c),
         Kind[c.queue] = "mutex", c.op = "receive"
  PROVE  HoldInv'
<1>1. PICK q \in Queue : q = c.queue /\ Kind[q] = "mutex"
  BY DEF Tries, IsCall
<1>2. IsCall(c) /\ UsesIn(ops, t, q) /\ ~Sends(c) /\ kernel.current = t
  BY <1>1 DEF Tries, Try, Sends
<1>3. SetsNone(ops)
  BY <1>1, <1>2 DEF OneMutexEach, HoldInv
<1>4. Ranked(kernel) /\ Fair(q)
  BY <1>1, <1>3 DEF HoldInv
<1>5. PICK e \in Event : e = Wakes(c)
  BY <1>2, TransferFrees DEF WaitInv
<1>6. kernel' = WakeOne(kernel, e)
  BY <1>2, <1>5 DEF Transfer
<1>7. kernel'.priority = kernel.priority
  BY <1>6, WakeOnePreserves DEF Preserves, KernelInv
<1>8. Calm(kernel, kernel') /\ (kernel'.current = kernel.current \/ Leads(kernel'))
  BY <1>4, <1>6, WakeOneCalms
<1>9. queue[q].holder = NoTask /\ queue'[q].holder = t /\ t # NoTask
  BY <1>1, <1>2, TransferHolder, KernelAssumption
<1>10. PICK d \in Event : d = Door(q)
  BY DoorIs
<1>11. InLine(kernel', d)
  <2>1. PICK k, l : k = kernel /\ l = kernel'
    OBVIOUS
  <2>2. \A u \in ToSet(k.event[d]) : u \in AnyTask /\ l.priority[u] = k.priority[u]
    BY <1>7, <1>10, <2>1, DoorUsers DEF HoldInv
  <2>3. /\ Serving(k) /\ InLine(k, d) /\ ToSet(l.event[d]) \subseteq ToSet(k.event[d])
        /\ \A w : InOrder(k.event[d], w) => InOrder(l.event[d], w)
    BY <1>4, <1>8, <1>10, <2>1 DEF Ranked, Fair, Calm, Frees
  <2>4. InLine(l, d)
    BY <2>2, <2>3, LineStays
  <2>5. QED
    BY <2>1, <2>4
<1>12. Above(kernel', t, d)
  <2>1. Above(kernel, t, d)
    BY <1>2, <1>4, <1>9, <1>10 DEF Fair
  <2>2. ToSet(kernel'.event[d]) \subseteq ToSet(kernel.event[d])
    BY <1>8 DEF Calm, Frees
  <2>3. QED
    BY <1>7, <2>1, <2>2 DEF Above
<1>13. Fair(q)'
  BY <1>9, <1>10, <1>11, <1>12 DEF Fair, Door
<1>14. ASSUME NEW p \in Queue, Kind[p] = "mutex"
       PROVE  Fair(p)'
  <2>1. CASE p = q
    BY <1>13, <2>1
  <2>2. CASE p # q
    BY <1>1, <1>3, <1>7, <1>8, <1>14, <2>2, OtherMutexesStay
  <2>3. QED
    BY <2>1, <2>2
<1>15. Ranked(kernel)'
  BY <1>8, CalmRanks DEF Ranked, Serving, Level, Parted, IsKernel, Listed
<1>16. QED
  BY <1>14, <1>15, TransferUsers DEF HoldInv

\* The one that gives a mutex back, or looks at a free one, wakes the most urgent of
\* those who wait for it.
LEMMA GiveHolds ==
  ASSUME OneMutexEach, Queues, CallsOK, KernelInv, WaitInv, HoldInv, UNCHANGED ops,
         NEW t \in Task, NEW c, Tries(t, c), Transfer(t, c), ~Blocking(c),
         Kind[c.queue] = "mutex", c.op # "receive"
  PROVE  HoldInv'
<1>1. PICK q \in Queue : q = c.queue /\ Kind[q] = "mutex"
  BY DEF Tries, IsCall
<1>2. IsCall(c) /\ UsesIn(ops, t, q) /\ kernel.current = t /\ pc[t] \in {"run", "try"}
  BY <1>1 DEF Tries, Try
<1>3. SetsNone(ops)
  BY <1>1, <1>2 DEF OneMutexEach, HoldInv
<1>4. Ranked(kernel) /\ Fair(q)
  BY <1>1, <1>3 DEF HoldInv
<1>5. PICK d \in Event : d = Door(q) /\ d = Wakes(c)
  BY <1>1, DoorIs DEF Door, Wakes
<1>6. queue'[q].holder = NoTask
  BY <1>1, <1>2, TransferHolder
<1>7. kernel.suspendDepth = 0 /\ \A u \in Task : pc[u] \notin Locking
  BY <1>2 DEF KernelInv, Suspension, Locking
<1>8. \A u \in ToSet(kernel.event[d]) :
        u \in Task /\ u \in AnyTask /\ u # t /\ pc[u] \in {"try", "yield"} /\ Waits(call[u]) = d
  <2>1. \A u \in ToSet(kernel.event[d]) :
          u \in Task /\ u \in AnyTask /\ Placed(u) /\ (pc[u] = "try" => kernel.current # u)
    BY <1>5, DoorUsers DEF HoldInv
  <2>2. \A u \in ToSet(kernel.event[d]) : pc[u] \in {"try", "yield"} /\ Waits(call[u]) = d
    BY <1>7, <2>1 DEF Placed, Locking, WaitInv, Waiters
  <2>3. QED
    BY <1>2, <2>1, <2>2
<1>9. PICK k : /\ kernel' = WakeOne(k, d) /\ Quiet(kernel, k) /\ k.event = kernel.event
               /\ \A u \in AnyTask \ {t} : k.priority[u] = kernel.priority[u]
               /\ k.suspendDepth = 0
  <2>1. CASE Sends(c)
    <3>1. queue[q].holder = t
      BY <1>1, <2>1 DEF Tries
    <3>2. PICK k : k = PriorityDisinherit(kernel, t)
      OBVIOUS
    <3>3. kernel' = WakeOne(k, d)
      BY <1>1, <1>5, <2>1, <3>1, <3>2 DEF Transfer
    <3>4. /\ Quiet(kernel, k) /\ k.event = kernel.event
          /\ \A u \in AnyTask \ {t} : k.priority[u] = kernel.priority[u]
      BY <1>4, <3>2, PriorityDisinheritCalms
    <3>5. k.suspendDepth = 0
      BY <1>7, <3>2, PriorityDisinheritGoes DEF KernelInv, Goes, AnyTask
    <3>6. QED
      BY <3>3, <3>4, <3>5
  <2>2. CASE ~Sends(c)
    <3>1. kernel' = WakeOne(kernel, d)
      BY <1>5, <2>2 DEF Transfer
    <3>2. QED
      BY <1>4, <1>7, <3>1, QuietNobody
  <2>3. QED
    BY <2>1, <2>2
<1>10. Ranked(k) /\ k.current = t
  BY <1>2, <1>9, CalmRanks DEF Quiet
<1>11. PICK l : l = kernel'
  OBVIOUS
<1>12. Calm(k, l) /\ (l.current = k.current \/ Leads(l)) /\ l.priority = k.priority
  BY <1>9, <1>10, <1>11, WakeOneCalms, WakeOnePreserves DEF Preserves, Ranked, Serving, Parted
<1>13. Calm(kernel, l)
  BY <1>9, <1>12, CalmTwice DEF Quiet
<1>14. ToSet(l.event[d]) \subseteq ToSet(k.event[d]) /\ Serving(l)
  BY <1>12 DEF Calm, Frees
<1>15. InLine(k, d) /\ InLine(l, d)
  <2>1. Serving(kernel) /\ InLine(kernel, d)
    BY <1>4, <1>5 DEF Ranked, Fair
  <2>2. PICK j : j = kernel
    OBVIOUS
  <2>3. \A u \in ToSet(j.event[d]) : /\ u \in AnyTask /\ k.priority[u] = j.priority[u]
                                     /\ l.priority[u] = k.priority[u]
    BY <1>8, <1>9, <1>12, <2>2
  <2>4. \A w : /\ InOrder(j.event[d], w) => InOrder(k.event[d], w)
               /\ InOrder(k.event[d], w) => InOrder(l.event[d], w)
    BY <1>9, <1>12, <2>2 DEF Quiet, Calm
  <2>5. k.event = j.event /\ Serving(j) /\ InLine(j, d)
    BY <1>9, <2>1, <2>2
  <2>6. InLine(k, d)
    BY <2>3, <2>4, <2>5, LineStays
  <2>7. Serving(k)
    BY <1>10 DEF Ranked
  <2>8. InLine(l, d)
    BY <1>14, <2>3, <2>4, <2>5, <2>6, <2>7, LineStays
  <2>9. QED
    BY <2>6, <2>8
<1>16. ASSUME l.event[d] # <<>>
       PROVE  /\ \E u \in Task : Returns(u, d)' /\ Above(l, u, d)
              /\ Above(l, l.current, d)
  <2>1. k.event[d] # <<>>
    <3>1. Once(l.event[d])
      BY <1>14 DEF Serving, Parted
    <3>2. QED
      BY <1>14, <1>16, <3>1, EmptyOnce, TailOfList
  <2>2. k.current \in AnyTask
    BY <1>10 DEF AnyTask
  <2>3. PICK u \in ToSet(k.event[d]) : Listed(l, u) /\ Above(l, u, d) /\ Above(l, l.current, d)
    BY <1>9, <1>10, <1>11, <1>15, <2>1, <2>2, HandsOver
  <2>4. u \in Task /\ u # t /\ pc[u] \in {"try", "yield"} /\ Waits(call[u]) = d
    BY <1>8, <1>9, <2>3
  <2>5. pc'[u] = pc[u] /\ call'[u] = call[u]
    BY <2>4, TransferUsers
  <2>6. Returns(u, d)'
    BY <1>11, <2>3, <2>4, <2>5 DEF Returns, Waits, Sends, Listed
  <2>7. QED
    BY <2>3, <2>4, <2>6
<1>17. l.event[d] = <<>> => Above(l, l.current, d)
  BY EmptyOnce DEF Above
<1>18. Fair(q)'
  BY <1>5, <1>6, <1>11, <1>15, <1>16, <1>17 DEF Fair, Door
<1>19. ASSUME NEW p \in Queue, Kind[p] = "mutex"
       PROVE  Fair(p)'
  <2>1. CASE p = q
    BY <1>18, <2>1
  <2>2. CASE p # q
    <3>1. kernel'.current = kernel.current \/ Leads(kernel')
      BY <1>2, <1>10, <1>11, <1>12
    <3>2. \A u \in AnyTask \ {t} : kernel'.priority[u] = kernel.priority[u]
      BY <1>9, <1>11, <1>12
    <3>3. QED
      BY <1>1, <1>3, <1>11, <1>13, <1>19, <2>2, <3>1, <3>2, OtherMutexesStay
  <2>3. QED
    BY <2>1, <2>2
<1>20. Ranked(kernel)'
  BY <1>11, <1>13, CalmRanks DEF Ranked, Serving, Level, Parted, IsKernel, Listed
<1>21. QED
  BY <1>19, <1>20, TransferUsers DEF HoldInv

LEMMA TryHolds ==
  ASSUME OneMutexEach, Queues, CallsOK, KernelInv, WaitInv, HoldInv, UNCHANGED ops,
         NEW t \in Task, NEW c, Tries(t, c)
  PROVE  HoldInv'
<1>1. CASE Blocking(c)
  BY <1>1, TryBlocks
<1>2. CASE ~Blocking(c)
  <2>1. Transfer(t, c)
    BY <1>2 DEF Tries, Try
  <2>2. QED
    BY <1>2, <2>1, PlainTransferHolds, TakeHolds, GiveHolds
<1>3. QED
  BY <1>1, <1>2

LEMMA StartHolds ==
  ASSUME OneMutexEach, Queues, CallsOK, KernelInv, WaitInv, HoldInv, UNCHANGED ops,
         NEW t \in Task, Start(t)
  PROVE  HoldInv'
<1>1. PICK c \in Calls(t) :
        Try(t, [op |-> c.op, queue |-> c.queue, item |-> c.item, limit |-> c.limit,
                ticks |-> c.limit, timeOut |-> TimeOutNow(kernel), then |-> "again"])
  BY DEF Start
<1> DEFINE d == [op |-> c.op, queue |-> c.queue, item |-> c.item, limit |-> c.limit,
                 ticks |-> c.limit, timeOut |-> TimeOutNow(kernel), then |-> "again"]
<1>2. /\ c.op \in {"send", "sendFront", "receive", "peek"} /\ c.queue \in Queue
      /\ c.item \in IF Sends(c) THEN Item[c.queue] ELSE {NoItem}
      /\ Kind[c.queue] = "mutex" => (Sends(c) <=> queue[c.queue].holder = t)
      /\ <<c.op, c.queue, c.limit>> \in ops[t]
  BY DEF Calls
<1>3. IsCall(d) /\ (Sends(d) <=> Sends(c)) /\ d.queue = c.queue
  BY <1>2 DEF IsCall, Sends
<1>4. pc[t] = "run" /\ Try(t, d)
  BY <1>1 DEF Start
<1>5. UsesIn(ops, t, c.queue)
  <2>1. PICK o \in ops[t] : o = <<c.op, c.queue, c.limit>>
    BY <1>2
  <2>2. o[1] = c.op /\ o[2] = c.queue /\ c.op # "setPriority"
    BY <1>2, <2>1
  <2>3. QED
    BY <2>2 DEF UsesIn
<1> HIDE DEF d
<1>6. Tries(t, d)
  BY <1>2, <1>3, <1>4, <1>5 DEF Tries
<1>7. QED
  BY <1>6, TryHolds

LEMMA AgainHolds ==
  ASSUME OneMutexEach, Queues, CallsOK, KernelInv, WaitInv, HoldInv, UNCHANGED ops,
         NEW t \in Task, Again(t)
  PROVE  HoldInv'
<1>1. PICK c : c = call[t]
  OBVIOUS
<1>2. pc[t] = "try" /\ Try(t, c) /\ IsCall(c)
  BY <1>1 DEF Again, CallsOK
<1>3. UsesIn(ops, t, c.queue)
  BY <1>1, <1>2 DEF HoldInv, Users
<1>4. Kind[c.queue] = "mutex" => ~Sends(c) /\ queue[c.queue].holder # t
  BY <1>1, <1>2 DEF HoldInv, Strangers, KernelInv, Takers
<1>5. Tries(t, c)
  BY <1>1, <1>2, <1>3, <1>4 DEF Tries
<1>6. QED
  BY <1>5, TryHolds

\* The holder of a mutex is lent the priority of the one that begins to wait for it.
LEMMA PlaceHolds ==
  ASSUME OneMutexEach, Queues, CallsOK, KernelInv, WaitInv, HoldInv, UNCHANGED ops,
         NEW t \in Task, Place(t)
  PROVE  HoldInv'
<1>1. PICK c : c = call[t]
  OBVIOUS
<1>2. PICK q \in Queue : q = c.queue
  BY <1>1 DEF Place, Step, CallsOK, IsCall
<1>3. PICK h : h = queue[q].holder
  OBVIOUS
<1>4. PICK k : k = IF Kind[q] = "mutex" /\ ~Sends(c) THEN PriorityInherit(kernel, h) ELSE kernel
  OBVIOUS
<1>5. PICK e, l, ticks : e = Waits(c) /\ l = kernel' /\ ticks = c.ticks
  OBVIOUS
<1>6. /\ pc[t] = "place" /\ kernel.current = t /\ Goto(t, "unlockTx") /\ IsCall(c)
      /\ UNCHANGED <<queue, call>> /\ l = PlaceOnEventList(k, e, ticks)
  BY <1>1, <1>2, <1>3, <1>4, <1>5 DEF Place, Step, CallsOK
<1>7. e \in Event
  BY <1>5, <1>6, BlockingWants
<1>8. /\ pc'[t] = "unlockTx"
      /\ \A u \in Task \ {t} : pc'[u] = pc[u]
  BY <1>6 DEF CallsOK, Goto
<1>9. Users' /\ Owners' /\ Strangers'
  <2>1. \A u \in Task : pc'[u] # "run" => pc[u] # "run"
    BY <1>6, <1>8
  <2>2. QED
    BY <1>6, <2>1 DEF HoldInv, Users, Owners, Strangers, UsesIn
<1>10. SUFFICES ASSUME SetsNone(ops)
                PROVE  Ranked(l) /\ \A p \in Queue : Kind[p] = "mutex" => Fair(p)'
  <2>1. Ranked(kernel') => Ranked(kernel)'
    BY DEF Ranked, Serving, Level, Parted, IsKernel, Listed
  <2>2. QED
    BY <1>5, <1>9, <1>10, <2>1 DEF HoldInv, SetsNone
<1>11. Ranked(kernel) /\ \A p \in Queue : Kind[p] = "mutex" => Fair(p)
  BY <1>10 DEF HoldInv
<1>12. UsesIn(ops, t, q)
  BY <1>1, <1>2, <1>6 DEF HoldInv, Users
<1>13. Kind[q] = "mutex" =>
         h \in Task /\ h # t /\ ~Sends(c) /\ e = Door(q) /\ UsesIn(ops, h, q)
  <2> SUFFICES ASSUME Kind[q] = "mutex"
               PROVE  h \in Task /\ h # t /\ ~Sends(c) /\ e = Door(q) /\ UsesIn(ops, h, q)
    OBVIOUS
  <2>1. ~Sends(c) /\ queue[q].count = 0
    BY <1>1, <1>2, <1>6 DEF KernelInv, Takers
  <2>2. h # NoTask
    BY <1>3, <2>1 DEF KernelInv, Mutexes, MutexOK
  <2>3. h # t
    BY <1>1, <1>2, <1>3, <1>6 DEF HoldInv, Strangers
  <2>4. e = Door(q)
    BY <1>2, <1>5, <2>1 DEF Waits, Door
  <2>5. QED
    BY <1>3, <2>1, <2>2, <2>3, <2>4 DEF HoldInv, Owners
<1>14. /\ Quiet(kernel, k) /\ k.event = kernel.event
       /\ \A u \in AnyTask \ {h} : k.priority[u] = kernel.priority[u]
       /\ Kind[q] # "mutex" => k = kernel
       /\ Kind[q] = "mutex" => /\ k.priority[h] >= kernel.priority[t]
                               /\ k.priority[h] >= kernel.priority[h]
  <2>1. CASE Kind[q] = "mutex"
    <3>1. kernel.current \in AnyTask /\ k = PriorityInherit(kernel, h)
      BY <1>4, <1>6, <1>13, <2>1 DEF AnyTask
    <3>2. QED
      BY <1>6, <1>11, <1>13, <2>1, <3>1, PriorityInheritCalms
  <2>2. CASE Kind[q] # "mutex"
    BY <1>4, <1>11, <2>2, QuietNobody
  <2>3. QED
    BY <2>1, <2>2
<1>15. Ranked(k) /\ k.current = t
  BY <1>6, <1>14, CalmRanks DEF Quiet
<1>16. \A f \in Event : t \notin ToSet(k.event[f])
  BY <1>6, <1>14 DEF WaitInv, Waiters, Placed
<1>17. /\ Ranked(l) /\ l.priority = k.priority
       /\ InLine(k, e) => InLine(l, e)
       /\ \A u : u # t /\ Listed(k, u) => Listed(l, u)
       /\ l.current = t
       /\ ToSet(l.event[e]) = ToSet(k.event[e]) \cup {t}
       /\ \A f \in Event \ {e} : l.event[f] = k.event[f]
  <2>1. k.current \in Task /\ \A f \in Event : k.current \notin ToSet(k.event[f])
    BY <1>15, <1>16
  <2>2. Serving(k)
    BY <1>15 DEF Ranked
  <2>3. /\ l.current = k.current
        /\ ToSet(l.event[e]) = ToSet(k.event[e]) \cup {k.current}
        /\ \A f \in Event \ {e} : l.event[f] = k.event[f]
    BY <1>6, <1>7, <2>1, <2>2, PlaceOnEventListServes
  <2>4. /\ Ranked(l) /\ l.priority = k.priority
        /\ InLine(k, e) => InLine(l, e)
        /\ \A u : u # k.current /\ Listed(k, u) => Listed(l, u)
    BY <1>6, <1>7, <1>15, <2>1, PlaceOnEventListRanks
  <2>5. QED
    BY <1>15, <2>3, <2>4
<1>18. ASSUME NEW p \in Queue, Kind[p] = "mutex", p # q
       PROVE  Fair(p)'
  <2>1. Fair(p) /\ Door(p) \in Event
    BY <1>11, <1>18, DoorIs
  <2>2. Door(p) # e
    BY <1>2, <1>5, <1>18 DEF Door, Waits
  <2>3. l.event[Door(p)] = kernel.event[Door(p)]
    BY <1>14, <1>17, <2>1, <2>2
  <2>4. ASSUME NEW u \in Task, UsesIn(ops, u, p)
        PROVE  l.priority[u] = kernel.priority[u]
    <3>1. CASE Kind[q] = "mutex"
      <4>1. u # h
        BY <1>13, <1>18, <2>4, <3>1 DEF OneMutexEach, HoldInv
      <4>2. QED
        BY <1>14, <1>17, <4>1 DEF AnyTask
    <3>2. CASE Kind[q] # "mutex"
      BY <1>14, <1>17, <3>2
    <3>3. QED
      BY <3>1, <3>2
  <2>5. ASSUME NEW u \in Task, Returns(u, Door(p))
        PROVE  Returns(u, Door(p))'
    <3>1. u # t /\ pc[u] \in {"try", "yield"} /\ Listed(kernel, u)
      BY <1>6, <2>5 DEF Returns
    <3>2. Listed(l, u)
      BY <1>14, <1>17, <3>1 DEF Quiet, Calm, Frees
    <3>3. QED
      BY <1>5, <1>6, <1>8, <2>5, <3>1, <3>2 DEF Returns, Waits, Sends, Listed
  <2>6. Serving(kernel') /\ kernel'.current = kernel.current
    BY <1>5, <1>6, <1>17 DEF Ranked
  <2>7. QED
    BY <1>5, <1>6, <1>18, <2>1, <2>3, <2>4, <2>5, <2>6, FairStays DEF HoldInv
<1>19. ASSUME Kind[q] = "mutex"
       PROVE  Fair(q)'
  <2>1. Fair(q) /\ h \in Task /\ h # t /\ h # NoTask /\ e = Door(q)
    BY <1>11, <1>13, <1>19, KernelAssumption
  <2>2. InLine(kernel, e) /\ Above(kernel, h, e)
    BY <1>3, <2>1 DEF Fair
  <2>3. \A u \in ToSet(kernel.event[e]) : u \in AnyTask /\ u # h
    <3>1. \A u \in ToSet(kernel.event[e]) :
            u \in AnyTask /\ u \in Task /\ pc[u] # "run" /\ call[u].queue = q
      BY <2>1, DoorUsers DEF HoldInv
    <3>2. QED
      BY <1>3, <1>19, <3>1 DEF HoldInv, Strangers
  <2>4. InLine(l, e)
    <3>1. PICK j : j = kernel
      OBVIOUS
    <3>2. \A u \in ToSet(j.event[e]) : u \in AnyTask /\ k.priority[u] = j.priority[u]
      BY <1>14, <2>3, <3>1
    <3>3. k.event = j.event /\ Serving(j) /\ InLine(j, e)
      BY <1>11, <1>14, <2>2, <3>1 DEF Ranked
    <3>4. InLine(k, e)
      BY <1>7, <3>2, <3>3, LineStays
    <3>5. QED
      BY <1>17, <3>4
  <2>5. Above(l, h, e)
    <3>1. \A u \in AnyTask : k.priority[u] \in Int /\ kernel.priority[u] \in Int
      BY <1>11, <1>15, KernelAssumption DEF Ranked, Serving, Parted, Priority
    <3>2. h \in AnyTask /\ t \in AnyTask
      BY <2>1 DEF AnyTask
    <3>3. ASSUME NEW u \in ToSet(kernel.event[e])
          PROVE  k.priority[u] <= k.priority[h]
      <4>1. kernel.priority[u] <= kernel.priority[h] /\ u \in AnyTask
        BY <2>2, <2>3 DEF Above
      <4>2. k.priority[u] = kernel.priority[u]
        BY <1>14, <2>3
      <4>3. QED
        BY <1>14, <1>19, <3>1, <3>2, <4>1, <4>2
    <3>4. k.priority[t] <= k.priority[h]
      BY <1>14, <1>19, <2>1, <3>1, <3>2
    <3>5. \A u \in ToSet(l.event[e]) : k.priority[u] <= k.priority[h]
      BY <1>14, <1>17, <3>3, <3>4
    <3>6. QED
      BY <1>17, <3>5 DEF Above
  <2>6. queue'[q].holder = h
    BY <1>3, <1>6
  <2>7. QED
    BY <1>5, <2>1, <2>4, <2>5, <2>6 DEF Fair, Door
<1>20. QED
  BY <1>17, <1>18, <1>19

\* main() creates the tasks one by one, and nobody waits yet.
LEMMA InitHolds ==
  ASSUME Init
  PROVE  HoldInv
<1>1. PICK N, order, created :
        /\ N \in Nat
        /\ order \in [1 .. N -> Task] /\ \A i, j \in 1 .. N : order[i] = order[j] => i = j
        /\ created[0] = BootKernel
        /\ \A n \in 0 .. N - 1 :
             created[n + 1] = Create(created[n], order[n + 1], Base[order[n + 1]])
        /\ kernel = StartScheduler(created[N])
  BY MainCreates
<1> DEFINE Booted(n) == /\ Booting(created[n]) /\ Level(created[n])
                        /\ \A u : Listed(created[n], u) => \E i \in 1 .. n : u = order[i]
           S == {n \in Nat : n <= N => Booted(n)}
<1>2. 0 \in S
  BY <1>1, BootIsBooting, BootIsLevel
<1>3. ASSUME NEW n \in S PROVE n + 1 \in S
  <2>1. SUFFICES ASSUME n + 1 <= N PROVE Booted(n + 1)
    OBVIOUS
  <2>2. n \in Nat /\ Booted(n) /\ n \in 0 .. N - 1 /\ n + 1 \in 1 .. N
    BY <1>1, <2>1
  <2>3. PICK t \in Task : t = order[n + 1]
    BY <1>1, <2>2
  <2>4. PICK p \in Priority : p = Base[t]
    BY QueueAssumption
  <2>5. PICK k, l : k = created[n] /\ l = created[n + 1]
    OBVIOUS
  <2>6. l = Create(k, t, p) /\ Booting(k) /\ Level(k)
    BY <1>1, <2>2, <2>3, <2>4, <2>5
  <2>7. t \in AnyTask /\ t # Idle
    BY KernelAssumption DEF AnyTask
  <2>8. ~Listed(k, t)
    <3>1. ASSUME NEW i \in 1 .. n PROVE order[i] # t
      BY <1>1, <2>2, <2>3
    <3>2. QED
      BY <2>2, <2>5, <3>1
  <2>9. /\ Booting(l) /\ Level(l)
        /\ \A u : Listed(l, u) => Listed(k, u) \/ u = t
    BY <2>6, <2>7, <2>8, CreateBoots, CreateLevels
  <2>10. 1 .. n + 1 = (1 .. n) \cup {n + 1}
    BY <2>2
  <2>11. QED
    BY <2>2, <2>3, <2>5, <2>9, <2>10
<1>4. S = Nat
  <2> HIDE DEF S
  <2>1. S \in SUBSET Nat
    BY DEF S
  <2>2. QED
    BY <1>2, <1>3, <2>1, SetInduction
<1>5. Booted(N)
  <2>1. N \in Nat /\ N <= N
    BY <1>1
  <2>2. QED
    BY <1>4, <2>1
<1>6. PICK k : k = created[N]
  OBVIOUS
<1>7. ~Listed(k, Idle)
  BY <1>1, <1>5, <1>6, KernelAssumption
<1>8. Ranked(kernel) /\ \A e \in Event : kernel.event[e] = <<>>
  BY <1>1, <1>5, <1>6, <1>7, StartSchedulerServes, StartSchedulerRanks
<1>9. /\ ops \in Scenario /\ \A t \in Task : pc[t] = "run"
      /\ \A q \in Queue : queue[q].holder = NoTask
  BY DEF Init, NewQueue
<1>10. Users /\ Owners /\ Strangers
  BY <1>9 DEF Users, Owners, Strangers
<1>11. ASSUME NEW q \in Queue PROVE Fair(q)
  <2>1. kernel.event[Door(q)] = <<>>
    BY <1>8, DoorIs
  <2>2. QED
    BY <1>9, <2>1, EmptyOnce DEF Fair, InLine, Above
<1>12. QED
  BY <1>8, <1>9, <1>10, <1>11 DEF HoldInv

LEMMA HoldsStay ==
  ASSUME OneMutexEach, Queues, CallsOK, KernelInv, WaitInv, HoldInv, [Next]_vars
  PROVE  HoldInv'
<1>1. UNCHANGED ops
  BY DEF Next, vars
<1>2. CASE UNCHANGED vars
  <2>1. UNCHANGED <<ops, pc, call>> /\ kernel' = kernel
        /\ \A q \in Queue : queue'[q].holder = queue[q].holder
    BY <1>2 DEF vars
  <2>2. Ranked(kernel) => Calm(kernel, kernel') /\ kernel'.current = kernel.current
    BY <2>1, QuietNobody DEF Quiet
  <2>3. QED
    BY <2>1, <2>2, KernelHolds
<1>3. ASSUME NEW t \in Task,
             \/ Start(t) \/ Again(t) \/ TakeAgain(t) \/ GiveOne(t) \/ SetPriority(t)
             \/ SuspendScheduler(t) \/ Lock(t) \/ Check(t) \/ Test(t) \/ Place(t)
             \/ UnlockTx(t) \/ UnlockRx(t) \/ Resumed(t) \/ Yield(t)
      PROVE  HoldInv'
  BY <1>1, <1>3, StartHolds, AgainHolds, DepthHolds, SetPriorityHolds, SuspendHolds, LockHolds,
     CheckHolds, PlaceHolds, UnlockHolds, ResumedHolds, YieldHolds
<1>4. ASSUME NEW q \in FromISR, SendFromISR(q) \/ ReceiveFromISR(q)
      PROVE  HoldInv'
  BY <1>1, <1>4, HandlerHolds
<1>5. TickInterrupt => HoldInv'
  BY <1>1, TickHolds
<1>6. QED
  BY <1>2, <1>3, <1>4, <1>5 DEF Next

\* Whoever waits for a mutex waits for a task of at least its own priority
\* (vTaskPriorityInherit and vTaskPriorityDisinherit, tasks.c), however calls, handlers
\* and ticks interleave, where each task uses one mutex and nobody sets its priority.
THEOREM HoldersInherit ==
  ASSUME OneMutexEach
  PROVE  Spec => []HolderInherits
<1> DEFINE Inv == Queues /\ CallsOK /\ KernelInv /\ WaitInv /\ NoCalls /\ HoldInv
<1>1. Init => Inv
  BY InitQueues, InitInv, InitWaits, InitHolds
<1>2. Inv /\ [Next]_vars => Inv'
  BY AnyStep, QueuesStay, KernelStays, WaitsStay, CallsEnd, HoldsStay
<1>3. Inv => HolderInherits
  BY HoldImplies
<1>4. QED
  BY <1>1, <1>2, <1>3, PTL DEF Spec
=============================================================================
