----------------------- MODULE FreeRTOSKernel_proofs -----------------------
(***************************************************************************)
(* Lemmas about the scheduler of FreeRTOS, for any tasks, priorities and   *)
(* lists: what each section of tasks.c leaves alone, which task it moves   *)
(* from which list to which, and that it keeps lists, counters, times and  *)
(* the running task in order (Good).                                       *)
(***************************************************************************)
EXTENDS FreeRTOSKernel, FiniteSetTheorems, SequenceTheorems, WellFoundedInduction, TLAPS

\* Induction over the natural numbers, for the set of those that have a property.
LEMMA SetInduction ==
  ASSUME NEW S \in SUBSET Nat, 0 \in S, \A n \in S : n + 1 \in S
  PROVE  S = Nat
<1>1. SUFFICES ASSUME Nat \ S # {} PROVE FALSE
  OBVIOUS
<1>2. PICK m \in Nat \ S : \A n \in Nat \ S : ~ (<<n, m>> \in OpToRel(<, Nat))
  BY <1>1, WFMin, NatLessThanWellFounded
<1>3. \A n \in Nat \ S : ~ (n < m)
  BY <1>2 DEF OpToRel
<1>4. m # 0 /\ m - 1 \in Nat /\ m - 1 < m /\ m - 1 + 1 = m
  OBVIOUS
<1>5. m - 1 \in S
  BY <1>3, <1>4
<1>6. QED
  BY <1>4, <1>5

\* Sequences, whatever they hold.
IsList(s) == \E S : s \in Seq(S)

LEMMA SubSeqIsList ==
  ASSUME NEW s, NEW m \in Int, NEW n \in Int
  PROVE  IsList(SubSeq(s, m, n))
<1> DEFINE S == {s[i] : i \in m .. n}
<1>1. \A i \in m .. n : s[i] \in S
  OBVIOUS
<1> HIDE DEF S
<1>2. SubSeq(s, m, n) \in Seq(S)
  BY <1>1, SubSeqProperties
<1>3. QED
  BY <1>2 DEF IsList

LEMMA ListLength ==
  ASSUME NEW s, IsList(s)
  PROVE  Len(s) \in Nat /\ DOMAIN s = 1 .. Len(s)
<1>1. PICK S : s \in Seq(S)
  BY DEF IsList
<1>2. QED
  BY <1>1, LenProperties

LEMMA ShortLists ==
  ASSUME NEW x
  PROVE  IsList(<<>>) /\ IsList(<<x>>)
<1>1. <<>> \in Seq({x}) /\ <<x>> \in Seq({x})
  OBVIOUS
<1>2. QED
  BY <1>1 DEF IsList

LEMMA ConcatIsList ==
  ASSUME NEW s, NEW t, IsList(s), IsList(t)
  PROVE  IsList(s \o t)
<1>1. PICK S, T : s \in Seq(S) /\ t \in Seq(T)
  BY DEF IsList
<1>2. s \in Seq(S \cup T) /\ t \in Seq(S \cup T)
  BY <1>1, SeqMonotonic
<1>3. QED
  BY <1>2, ConcatProperties DEF IsList

LEMMA AppendIsList ==
  ASSUME NEW s, IsList(s), NEW x
  PROVE  IsList(Append(s, x))
<1>1. PICK S : s \in Seq(S)
  BY DEF IsList
<1>2. s \in Seq(S \cup {x})
  BY <1>1, SeqMonotonic
<1>3. QED
  BY <1>2, AppendProperties DEF IsList

LEMMA RemoveIsList ==
  ASSUME NEW s, IsList(s), NEW t
  PROVE  IsList(ListRemove(s, t))
<1>1. CASE t \notin ToSet(s)
  BY <1>1 DEF ListRemove
<1>2. CASE t \in ToSet(s)
  <2> DEFINE i == CHOOSE i \in DOMAIN s : s[i] = t
  <2>1. i \in 1 .. Len(s) /\ Len(s) \in Nat
    BY <1>2, ListLength DEF ToSet
  <2>2. ListRemove(s, t) = SubSeq(s, 1, i - 1) \o SubSeq(s, i + 1, Len(s))
    BY <1>2 DEF ListRemove, RemoveAt
  <2> HIDE DEF i
  <2>3. IsList(SubSeq(s, 1, i - 1)) /\ IsList(SubSeq(s, i + 1, Len(s)))
    <3>1. i - 1 \in Int /\ i + 1 \in Int /\ Len(s) \in Int /\ 1 \in Int
      BY <2>1
    <3>2. QED
      BY <3>1, SubSeqIsList
  <2>4. QED
    BY <2>2, <2>3, ConcatIsList
<1>3. QED
  BY <1>1, <1>2

LEMMA InsertIsList ==
  ASSUME NEW s, IsList(s), NEW t, NEW after
  PROVE  IsList(ListInsert(s, t, after))
<1> DEFINE before == {i \in DOMAIN s : \A j \in 1 .. i : s[j] \notin after}
           n == Cardinality(before) + 1
<1>1. Len(s) \in Nat /\ DOMAIN s = 1 .. Len(s)
  BY ListLength
<1>2. IsFiniteSet(DOMAIN s)
  BY <1>1, FS_Interval
<1>3. Cardinality(before) \in Nat
  BY <1>2, FS_Subset, FS_CardinalityType
<1>4. ListInsert(s, t, after) = SubSeq(s, 1, n - 1) \o <<t>> \o SubSeq(s, n, Len(s))
  BY DEF ListInsert, InsertAt
<1>5. n \in Int /\ n - 1 \in Int /\ 1 \in Int /\ Len(s) \in Int
  BY <1>1, <1>3
<1> HIDE DEF n
<1>6. IsList(SubSeq(s, 1, n - 1)) /\ IsList(SubSeq(s, n, Len(s)))
  BY <1>5, SubSeqIsList
<1>7. IsList(SubSeq(s, 1, n - 1) \o <<t>>)
  BY <1>6, ShortLists, ConcatIsList
<1>8. QED
  BY <1>4, <1>6, <1>7, ConcatIsList

-----------------------------------------------------------------------------
(* Numbers and intervals *)

LEMMA LeastElement ==
  ASSUME NEW S \in SUBSET Nat, S # {}
  PROVE  \E m \in S : \A n \in S : m <= n
<1>1. PICK m \in S : \A n \in S : ~ (<<n, m>> \in OpToRel(<, Nat))
  BY WFMin, NatLessThanWellFounded
<1>2. \A n \in S : ~ (n < m)
  BY <1>1 DEF OpToRel
<1>3. QED
  BY <1>2

LEMMA MaxIsGreatest ==
  ASSUME NEW n \in Nat, NEW S \in SUBSET (0 .. n), S # {}
  PROVE  Max(S) \in S /\ \A m \in S : m <= Max(S)
<1> DEFINE B == {b \in Nat : \A m \in S : m <= b}
<1>1. n \in B
  OBVIOUS
<1>2. PICK b \in B : \A c \in B : b <= c
  BY <1>1, LeastElement
<1>3. b \in S
  <2>1. SUFFICES ASSUME b \notin S PROVE FALSE
    OBVIOUS
  <2>2. \A m \in S : m <= b - 1
    BY <2>1, <1>2
  <2>3. b - 1 \in B
    <3>1. PICK m : m \in S
      OBVIOUS
    <3>2. b - 1 \in Nat
      BY <2>2, <3>1, <1>2
    <3>3. QED
      BY <2>2, <3>2
  <2>4. QED
    BY <2>3, <1>2
<1>4. \E x \in S : \A y \in S : x >= y
  BY <1>2, <1>3
<1>5. Max(S) \in S /\ \A y \in S : Max(S) >= y
  BY <1>4 DEF Max
<1>6. QED
  BY <1>5

\* A set of positions that holds all that lie before one of its own is a prefix.
LEMMA PrefixIs ==
  ASSUME NEW n \in Nat, NEW S \in SUBSET (1 .. n), \A i \in S : \A j \in 1 .. i : j \in S
  PROVE  Cardinality(S) \in 0 .. n /\ S = 1 .. Cardinality(S)
<1> DEFINE B == {b \in Nat : b + 1 \notin S}
<1>1. n \in B
  OBVIOUS
<1>2. PICK b \in B : \A c \in B : b <= c
  BY <1>1, LeastElement
<1>3. \A i \in 1 .. b : i \in S
  <2>1. SUFFICES ASSUME NEW i \in 1 .. b, i \notin S PROVE FALSE
    OBVIOUS
  <2>2. i - 1 \in B
    BY <2>1
  <2>3. QED
    BY <2>2, <1>2
<1>4. \A i \in S : i <= b
  BY <1>2
<1>5. b \in 0 .. n /\ \A i : i \in S <=> i \in 1 .. b
  <2>1. b \in 0 .. n
    BY <1>1, <1>2
  <2>2. ASSUME NEW i \in S PROVE i \in 1 .. b
    BY <2>1, <1>4
  <2>3. QED
    BY <2>1, <2>2, <1>3
<1>6. Cardinality(1 .. b) = b
  BY FS_Interval
<1>7. S = 1 .. b
  BY <1>5
<1>8. QED
  BY <1>5, <1>6, <1>7

-----------------------------------------------------------------------------
(* list.c *)

\* A list of tasks that holds each at one place.
Once(s) == s \in Seq(AnyTask) /\ IsInjective(s)

\* A list in the order of the values w.
InOrder(s, w) == \A i, j \in DOMAIN s : i < j => w[s[i]] <= w[s[j]]

LEMMA EmptyOnce == Once(<<>>) /\ ToSet(<<>>) = {} /\ \A w : InOrder(<<>>, w)
BY DEF Once, ToSet, IsInjective, InOrder

LEMMA RemoveFromList ==
  ASSUME NEW s, Once(s), NEW t
  PROVE  LET l == ListRemove(s, t)
         IN  /\ Once(l) /\ ToSet(l) = ToSet(s) \ {t}
             /\ t \notin ToSet(s) => l = s
             /\ \A w, v : InOrder(s, w) /\ (\A u \in ToSet(s) \ {t} : v[u] = w[u]) => InOrder(l, v)
<1>1. CASE t \notin ToSet(s)
  BY <1>1 DEF ListRemove, InOrder, ToSet
<1>2. CASE t \in ToSet(s)
  <2> DEFINE n == CHOOSE i \in DOMAIN s : s[i] = t
             l == SubSeq(s, 1, n - 1) \o SubSeq(s, n + 1, Len(s))
  <2>1. n \in 1 .. Len(s) /\ s[n] = t
    BY <1>2 DEF ToSet, Once
  <2>2. ListRemove(s, t) = l
    BY <1>2 DEF ListRemove, RemoveAt
  <2> HIDE DEF n
  <2>3. /\ l \in Seq(AnyTask) /\ Len(l) = Len(s) - 1
        /\ \A j \in 1 .. Len(s) - 1 : l[j] = IF j < n THEN s[j] ELSE s[j + 1]
    <3> DEFINE x == SubSeq(s, 1, n - 1)
               y == SubSeq(s, n + 1, Len(s))
    <3>1. /\ x \in Seq(AnyTask) /\ Len(x) = n - 1
          /\ \A i \in 1 .. n - 1 : x[i] = s[i]
      BY <2>1 DEF Once
    <3>2. /\ y \in Seq(AnyTask) /\ Len(y) = Len(s) - n
          /\ \A i \in 1 .. Len(s) - n : y[i] = s[i + n]
      BY <2>1 DEF Once
    <3>3. l = x \o y
      BY DEF l
    <3> HIDE DEF x, y
    <3>4. /\ l \in Seq(AnyTask) /\ Len(l) = Len(x) + Len(y)
          /\ \A i \in 1 .. Len(x) + Len(y) : l[i] = IF i <= Len(x) THEN x[i] ELSE y[i - Len(x)]
      <4>1. x \in Seq(AnyTask) /\ y \in Seq(AnyTask)
        BY <3>1, <3>2
      <4>2. /\ (x \o y) \in Seq(AnyTask)
            /\ Len(x \o y) = Len(x) + Len(y)
            /\ \A i \in 1 .. Len(x) + Len(y) : (x \o y)[i] =
                     IF i <= Len(x) THEN x[i] ELSE y[i - Len(x)]
        BY <4>1, ConcatProperties, Zenon
      <4>3. QED
        BY <4>2, <3>3, Zenon
    <3>5. Len(x) + Len(y) = Len(s) - 1 /\ n \in Int /\ Len(s) \in Int
      BY <3>1, <3>2, <2>1 DEF Once
    <3>6. ASSUME NEW j \in 1 .. Len(s) - 1
          PROVE  l[j] = IF j < n THEN s[j] ELSE s[j + 1]
      <4>1. CASE j < n
        <5>1. j \in 1 .. n - 1 /\ j <= Len(x) /\ j \in 1 .. Len(x) + Len(y)
          BY <4>1, <3>1, <3>5
        <5>2. QED
          BY <4>1, <5>1, <3>1, <3>4
      <4>2. CASE ~ (j < n)
        <5>1. ~ (j <= Len(x)) /\ j - Len(x) = j - n + 1 /\ j - n + 1 \in 1 .. Len(s) - n
              /\ (j - n + 1) + n = j + 1
          BY <4>2, <3>1, <3>5
        <5>2. QED
          BY <4>2, <5>1, <3>2, <3>4, <3>5
      <4>3. QED
        BY <4>1, <4>2
    <3>7. QED
      BY <3>4, <3>5, <3>6
  <2> HIDE DEF l
  <2>4. DOMAIN l = 1 .. Len(s) - 1 /\ DOMAIN s = 1 .. Len(s) /\ Len(s) \in Nat
    BY <2>3 DEF Once
  <2>5. \A i, j \in DOMAIN s : s[i] = s[j] => i = j
    BY DEF Once, IsInjective
  <2> DEFINE up(j) == IF j < n THEN j ELSE j + 1
  <2>6. /\ \A j \in DOMAIN l : up(j) \in DOMAIN s /\ up(j) # n /\ l[j] = s[up(j)]
        /\ \A i, j \in DOMAIN l : i < j => up(i) < up(j)
        /\ \A i, j \in DOMAIN l : i # j => up(i) # up(j)
    BY <2>1, <2>3, <2>4
  <2> HIDE DEF up
  <2>7. IsInjective(l)
    BY <2>5, <2>6 DEF IsInjective
  <2>8. ToSet(l) = ToSet(s) \ {t}
    <3>1. ASSUME NEW j \in DOMAIN l PROVE l[j] \in ToSet(s) \ {t}
      BY <2>1, <2>3, <2>4, <2>5 DEF ToSet
    <3>2. ASSUME NEW i \in DOMAIN s, s[i] # t PROVE \E j \in DOMAIN l : l[j] = s[i]
      <4>1. CASE i < n
        BY <4>1, <2>1, <2>3, <2>4
      <4>2. CASE i > n
        <5>1. i - 1 \in DOMAIN l /\ ~ (i - 1 < n) /\ (i - 1) + 1 = i
          BY <4>2, <2>1, <2>4
        <5>2. QED
          BY <5>1, <2>3, <2>4
      <4>3. QED
        BY <3>2, <4>1, <4>2, <2>1, <2>4
    <3>3. QED
      BY <3>1, <3>2 DEF ToSet
  <2>9. ASSUME NEW w, NEW v, InOrder(s, w), \A u \in ToSet(s) \ {t} : v[u] = w[u]
        PROVE  InOrder(l, v)
    <3>1. ASSUME NEW i \in DOMAIN l, NEW j \in DOMAIN l, i < j
          PROVE  w[l[i]] <= w[l[j]]
      BY <3>1, <2>6, <2>9 DEF InOrder
    <3>2. \A i \in DOMAIN l : v[l[i]] = w[l[i]]
      BY <2>8, <2>9 DEF ToSet
    <3>3. QED
      BY <3>1, <3>2 DEF InOrder
  <2>10. QED
    BY <1>2, <2>2, <2>3, <2>8, <2>9, <2>7 DEF Once
<1>3. QED
  BY <1>1, <1>2

LEMMA RemoveOnce ==
  \A s, t : Once(s) =>
    /\ Once(ListRemove(s, t)) /\ ToSet(ListRemove(s, t)) = ToSet(s) \ {t}
    /\ t \notin ToSet(s) => ListRemove(s, t) = s
BY RemoveFromList

LEMMA InsertIntoList ==
  ASSUME NEW s, Once(s), NEW t \in AnyTask, t \notin ToSet(s), NEW after
  PROVE  LET l == ListInsert(s, t, after)
         IN  /\ Once(l) /\ ToSet(l) = ToSet(s) \cup {t}
             /\ \A w, v : /\ InOrder(s, w) /\ \A u \in ToSet(s) : v[u] = w[u]
                          /\ \A u \in ToSet(s) : w[u] \in Int /\ (u \in after <=> w[u] > v[t])
                          /\ v[t] \in Int
                          => InOrder(l, v)
<1> DEFINE before == {i \in DOMAIN s : \A j \in 1 .. i : s[j] \notin after}
           n == Cardinality(before) + 1
           l == (SubSeq(s, 1, n - 1) \o <<t>>) \o SubSeq(s, n, Len(s))
<1>1. DOMAIN s = 1 .. Len(s) /\ Len(s) \in Nat /\ s \in Seq(AnyTask)
  BY DEF Once
<1>2. Cardinality(before) \in 0 .. Len(s) /\ before = 1 .. Cardinality(before)
  <2>1. before \in SUBSET (1 .. Len(s)) /\ \A i \in before : \A j \in 1 .. i : j \in before
    BY <1>1
  <2> HIDE DEF before
  <2>2. QED
    BY <1>1, <2>1, PrefixIs
<1>3. ListInsert(s, t, after) = l
  BY DEF ListInsert, InsertAt
<1>4. n \in 1 .. Len(s) + 1 /\ \A i : i \in before <=> i \in 1 .. n - 1
  <2>1. PICK c : c = Cardinality(before)
    OBVIOUS
  <2>2. c \in 0 .. Len(s) /\ before = 1 .. c /\ n = c + 1
    BY <1>2, <2>1
  <2> HIDE DEF before, n
  <2>3. n - 1 = c /\ n \in 1 .. Len(s) + 1
    BY <1>1, <2>2
  <2>4. QED
    BY <2>2, <2>3
<1>5. /\ \A j \in 1 .. n - 1 : s[j] \notin after
      /\ n <= Len(s) => s[n] \in after
  <2>1. \A j \in 1 .. n - 1 : j \in before /\ j \in 1 .. j
    BY <1>4
  <2>2. ASSUME n <= Len(s), s[n] \notin after PROVE FALSE
    <3>1. n \in 1 .. Len(s) /\ n \notin before
      <4>1. n \in 1 .. Len(s) /\ n \notin 1 .. n - 1
        BY <1>1, <1>4, <2>2
      <4>2. QED
        BY <4>1, <1>4
    <3>2. \A j \in 1 .. n : j = n \/ j \in 1 .. n - 1
      BY <1>4
    <3>3. \A j \in 1 .. n : s[j] \notin after
      BY <2>1, <2>2, <3>2
    <3>4. QED
      BY <1>1, <3>1, <3>3
  <2>3. QED
    BY <2>1, <2>2
<1> HIDE DEF n
<1>6. /\ l \in Seq(AnyTask) /\ Len(l) = Len(s) + 1
      /\ \A j \in 1 .. Len(s) + 1 : l[j] = IF j < n THEN s[j] ELSE IF j = n THEN t ELSE s[j - 1]
  <2> DEFINE x == SubSeq(s, 1, n - 1)
             y == SubSeq(s, n, Len(s))
             z == x \o <<t>>
  <2>1. /\ x \in Seq(AnyTask) /\ Len(x) = n - 1
        /\ \A i \in 1 .. n - 1 : x[i] = s[i]
    BY <1>1, <1>4
  <2>2. /\ y \in Seq(AnyTask) /\ Len(y) = Len(s) - n + 1
        /\ \A i \in 1 .. Len(s) - n + 1 : y[i] = s[i + n - 1]
    BY <1>1, <1>4
  <2>3. l = z \o y
    BY DEF l
  <2> HIDE DEF x, y
  <2>4. /\ z \in Seq(AnyTask) /\ Len(z) = n
        /\ \A i \in 1 .. n : z[i] = IF i < n THEN s[i] ELSE t
    <3>1. z = Append(x, t)
      BY <2>1, AppendIsConcat
    <3>2. /\ Append(x, t) \in Seq(AnyTask) /\ Len(Append(x, t)) = Len(x) + 1
          /\ \A i \in 1 .. Len(x) : Append(x, t)[i] = x[i]
          /\ Append(x, t)[Len(x) + 1] = t
      BY <2>1, AppendProperties
    <3>3. QED
      BY <1>1, <1>4, <2>1, <3>1, <3>2
  <2> HIDE DEF z
  <2>5. /\ l \in Seq(AnyTask) /\ Len(l) = Len(z) + Len(y)
        /\ \A i \in 1 .. Len(z) + Len(y) : l[i] = IF i <= Len(z) THEN z[i] ELSE y[i - Len(z)]
    <3>1. z \in Seq(AnyTask) /\ y \in Seq(AnyTask)
      BY <2>2, <2>4
    <3>2. /\ (z \o y) \in Seq(AnyTask)
          /\ Len(z \o y) = Len(z) + Len(y)
          /\ \A i \in 1 .. Len(z) + Len(y) : (z \o y)[i] =
                   IF i <= Len(z) THEN z[i] ELSE y[i - Len(z)]
      BY <3>1, ConcatProperties, Zenon
    <3>3. QED
      BY <3>2, <2>3, Zenon
  <2>6. Len(z) + Len(y) = Len(s) + 1 /\ Len(z) = n
    BY <1>1, <1>4, <2>2, <2>4
  <2>7. ASSUME NEW j \in 1 .. Len(s) + 1
        PROVE  l[j] = IF j < n THEN s[j] ELSE IF j = n THEN t ELSE s[j - 1]
    <3>1. CASE j <= n
      <4>1. j \in 1 .. n /\ j \in 1 .. Len(z) + Len(y) /\ j <= Len(z)
        BY <3>1, <1>1, <1>4, <2>6
      <4>2. l[j] = z[j]
        BY <4>1, <2>5
      <4>3. QED
        BY <4>1, <4>2, <2>4
    <3>2. CASE ~ (j <= n)
      <4>1. j - n \in 1 .. Len(s) - n + 1 /\ (j - n) + n - 1 = j - 1 /\ ~ (j < n) /\ j # n
        BY <3>2, <1>1, <1>4
      <4>2. QED
        BY <3>2, <4>1, <2>2, <2>5, <2>6
    <3>3. QED
      BY <3>1, <3>2
  <2>8. QED
    BY <2>5, <2>6, <2>7
<1> HIDE DEF l
<1>7. DOMAIN l = 1 .. Len(s) + 1
  BY <1>6
<1> DEFINE down(j) == IF j < n THEN j ELSE j - 1
<1>8. /\ l[n] = t /\ n \in DOMAIN l
      /\ \A j \in DOMAIN l : j # n => down(j) \in DOMAIN s /\ l[j] = s[down(j)]
      /\ \A i, j \in DOMAIN l : i # n /\ j # n /\ i < j => down(i) < down(j)
      /\ \A i, j \in DOMAIN l : i # n /\ j # n /\ i # j => down(i) # down(j)
      /\ \A j \in DOMAIN l : j < n => down(j) \in 1 .. n - 1
      /\ \A j \in DOMAIN l : j > n => n <= down(j) /\ n <= Len(s)
  BY <1>1, <1>4, <1>6, <1>7
<1> HIDE DEF down
<1>9. IsInjective(l)
  <2>1. \A j \in DOMAIN l : j # n => l[j] # t
    BY <1>8 DEF ToSet
  <2>2. \A i, j \in DOMAIN s : s[i] = s[j] => i = j
    BY DEF Once, IsInjective
  <2>3. QED
    BY <2>1, <2>2, <1>8 DEF IsInjective
<1>10. ToSet(l) = ToSet(s) \cup {t}
  <2>1. ASSUME NEW i \in DOMAIN s PROVE \E j \in DOMAIN l : l[j] = s[i]
    <3>1. CASE i < n
      BY <3>1, <1>1, <1>4, <1>6, <1>7
    <3>2. CASE ~ (i < n)
      <4>1. i + 1 \in DOMAIN l /\ ~ (i + 1 < n) /\ i + 1 # n /\ (i + 1) - 1 = i
        BY <3>2, <1>1, <1>4, <1>7
      <4>2. QED
        BY <4>1, <1>6, <1>7
    <3>3. QED
      BY <3>1, <3>2
  <2>2. QED
    BY <1>8, <2>1 DEF ToSet
<1>11. ASSUME NEW w, NEW v, InOrder(s, w), \A u \in ToSet(s) : v[u] = w[u],
              \A u \in ToSet(s) : w[u] \in Int /\ (u \in after <=> w[u] > v[t]),
              v[t] \in Int
       PROVE  InOrder(l, v)
  <2>1. SUFFICES ASSUME NEW i \in DOMAIN l, NEW j \in DOMAIN l, i < j
                 PROVE  v[l[i]] <= v[l[j]]
    BY DEF InOrder
  <2>2. \A a \in DOMAIN s : s[a] \in ToSet(s)
    BY DEF ToSet
  <2>3. CASE i # n /\ j # n
    BY <2>1, <2>2, <2>3, <1>8, <1>11 DEF InOrder
  <2>4. CASE i = n
    <3>1. j # n /\ j > n
      BY <2>1, <2>4, <1>7
    <3>2. n \in DOMAIN s /\ n <= down(j) /\ down(j) \in DOMAIN s
      BY <3>1, <1>1, <1>4, <1>8
    <3>3. w[s[n]] > v[t]
      BY <3>1, <3>2, <1>5, <1>8, <1>11, <2>2
    <3>4. w[s[n]] <= w[s[down(j)]]
      <4>1. n = down(j) \/ n < down(j)
        BY <3>2, <1>1
      <4>2. QED
        BY <4>1, <3>2, <2>2, <1>11 DEF InOrder
    <3>5. QED
      BY <3>1, <3>2, <3>3, <3>4, <2>2, <2>4, <1>8, <1>11
  <2>5. CASE j = n
    <3>1. i # n /\ i < n
      BY <2>1, <2>5, <1>7
    <3>2. down(i) \in DOMAIN s /\ s[down(i)] \notin after
      BY <3>1, <1>5, <1>8
    <3>3. QED
      BY <3>1, <3>2, <2>2, <2>5, <1>8, <1>11
  <2>6. QED
    BY <2>3, <2>4, <2>5
<1>12. QED
  BY <1>3, <1>6, <1>9, <1>10, <1>11 DEF Once

LEMMA AppendToList ==
  ASSUME NEW s, Once(s), NEW t \in AnyTask, t \notin ToSet(s)
  PROVE  LET l == Append(s, t)
         IN  Once(l) /\ ToSet(l) = ToSet(s) \cup {t} /\ Len(l) = Len(s) + 1
<1> DEFINE l == Append(s, t)
<1>1. DOMAIN s = 1 .. Len(s) /\ Len(s) \in Nat /\ s \in Seq(AnyTask)
  BY DEF Once
<1>2. /\ l \in Seq(AnyTask) /\ Len(l) = Len(s) + 1 /\ l[Len(s) + 1] = t
      /\ \A i \in 1 .. Len(s) : l[i] = s[i]
  BY <1>1, AppendProperties
<1> HIDE DEF l
<1>3. DOMAIN l = 1 .. Len(s) + 1
  BY <1>1, <1>2
<1>4. \A i, j \in DOMAIN s : s[i] = s[j] => i = j
  BY DEF Once, IsInjective
<1>5. \A i \in DOMAIN l : i = Len(s) + 1 \/ i \in DOMAIN s
  BY <1>1, <1>3
<1>6. \A i \in DOMAIN s : i \in DOMAIN l /\ l[i] = s[i] /\ s[i] # t
  BY <1>1, <1>2, <1>3 DEF ToSet
<1>7. IsInjective(l)
  BY <1>2, <1>4, <1>5, <1>6 DEF IsInjective
<1>8. ToSet(l) = ToSet(s) \cup {t}
  <2>1. Len(s) + 1 \in DOMAIN l
    BY <1>1, <1>3
  <2>2. QED
    BY <2>1, <1>2, <1>5, <1>6 DEF ToSet
<1>9. QED
  BY <1>2, <1>7, <1>8 DEF Once, l

LEMMA TailOfList ==
  ASSUME NEW s, Once(s), s # <<>>
  PROVE  /\ Head(s) \in AnyTask /\ Head(s) \in ToSet(s)
         /\ Once(Tail(s)) /\ ToSet(Tail(s)) = ToSet(s) \ {Head(s)} /\ Len(Tail(s)) = Len(s) - 1
<1> DEFINE l == Tail(s)
<1>1. DOMAIN s = 1 .. Len(s) /\ Len(s) \in Nat \ {0} /\ s \in Seq(AnyTask) /\ Head(s) = s[1]
  BY DEF Once
<1>2. /\ l \in Seq(AnyTask) /\ Len(l) = Len(s) - 1
      /\ \A i \in 1 .. Len(s) - 1 : l[i] = s[i + 1]
  BY <1>1, HeadTailProperties
<1> HIDE DEF l
<1>3. DOMAIN l = 1 .. Len(s) - 1
  BY <1>1, <1>2
<1>4. \A i, j \in DOMAIN s : s[i] = s[j] => i = j
  BY DEF Once, IsInjective
<1>5. \A i \in DOMAIN l : i + 1 \in DOMAIN s /\ i + 1 # 1 /\ l[i] = s[i + 1]
  BY <1>1, <1>2, <1>3
<1>6. \A i \in DOMAIN s : i # 1 => i - 1 \in DOMAIN l /\ l[i - 1] = s[i]
  <2>1. \A i \in DOMAIN s : i # 1 => i - 1 \in 1 .. Len(s) - 1 /\ (i - 1) + 1 = i
    BY <1>1
  <2>2. QED
    BY <2>1, <1>2, <1>3
<1>7. IsInjective(l)
  <2>1. \A i, j \in DOMAIN l : i + 1 = j + 1 => i = j
    BY <1>3
  <2>2. QED
    BY <2>1, <1>4, <1>5 DEF IsInjective
<1>8. ToSet(l) = ToSet(s) \ {s[1]}
  <2>1. 1 \in DOMAIN s
    BY <1>1
  <2>2. QED
    BY <2>1, <1>4, <1>5, <1>6 DEF ToSet
<1>9. s[1] \in AnyTask /\ s[1] \in ToSet(s)
  BY <1>1 DEF ToSet
<1>10. QED
  BY <1>1, <1>2, <1>7, <1>8, <1>9 DEF Once, l

\* listGET_OWNER_OF_NEXT_ENTRY: the head goes to the end.
LEMMA RotateList ==
  ASSUME NEW s, Once(s), s # <<>>
  PROVE  LET l == Append(Tail(s), Head(s)) IN Once(l) /\ ToSet(l) = ToSet(s)
<1>1. /\ Head(s) \in AnyTask /\ Head(s) \in ToSet(s)
      /\ Once(Tail(s)) /\ ToSet(Tail(s)) = ToSet(s) \ {Head(s)}
  BY TailOfList
<1>2. Head(s) \notin ToSet(Tail(s)) /\ ToSet(s) = (ToSet(s) \ {Head(s)}) \cup {Head(s)}
  BY <1>1
<1>3. QED
  BY <1>1, <1>2, AppendToList, SMTT(30)

\* The first n tasks of a list, and the others.
LEMMA PrefixOfList ==
  ASSUME NEW s, Once(s), NEW n \in 0 .. Len(s)
  PROVE  LET l == SubSeq(s, 1, n)
         IN  /\ l \in Seq(AnyTask) /\ ToSet(l) \subseteq ToSet(s)
             /\ \A i \in DOMAIN s : s[i] \in ToSet(l) <=> i <= n
<1> DEFINE l == SubSeq(s, 1, n)
<1>1. DOMAIN s = 1 .. Len(s) /\ Len(s) \in Nat /\ s \in Seq(AnyTask)
  BY DEF Once
<1>2. l \in Seq(AnyTask) /\ Len(l) = n /\ \A i \in 1 .. n : l[i] = s[i]
  BY <1>1
<1> HIDE DEF l
<1>3. DOMAIN l = 1 .. n
  BY <1>2
<1>4. \A i, j \in DOMAIN s : s[i] = s[j] => i = j
  BY DEF Once, IsInjective
<1>5. \A i \in DOMAIN l : i \in DOMAIN s /\ i <= n
  BY <1>1, <1>3
<1>6. \A i \in DOMAIN s : i <= n => i \in DOMAIN l
  BY <1>1, <1>3
<1>7. QED
  BY <1>2, <1>3, <1>4, <1>5, <1>6 DEF ToSet, l

LEMMA NothingInList ==
  ASSUME NEW s, Once(s)
  PROVE  /\ ToSet(s) \subseteq AnyTask
         /\ s = <<>> <=> ToSet(s) = {}
<1>1. DOMAIN s = 1 .. Len(s) /\ Len(s) \in Nat /\ s \in Seq(AnyTask)
  BY DEF Once
<1>2. s # <<>> => 1 \in DOMAIN s
  BY <1>1
<1>3. QED
  BY <1>1, <1>2, SMTT(30) DEF ToSet

-----------------------------------------------------------------------------
(* The tick count *)

LEMMA Distributes ==
  ASSUME NEW M \in Nat, NEW m \in Int, NEW n \in Int
  PROVE  M * (m + n) = M * m + M * n /\ M * (m - n) = M * m - M * n
  OBVIOUS

LEMMA QuotientIs ==
  ASSUME NEW M \in Nat \ {0}, NEW a \in Int
  PROVE  \E q \in Int, r \in 0 .. M - 1 : a = M * q + r /\ r = a % M
  OBVIOUS

LEMMA RemainderIs ==
  ASSUME NEW M \in Nat \ {0}, NEW q \in Int, NEW r \in 0 .. M - 1, NEW x, x = M * q + r
  PROVE  x % M = r
<1>1. x \in Int
  OBVIOUS
<1>2. PICK d \in Int, u \in 0 .. M - 1 : x = M * d + u /\ u = x % M
  BY <1>1, QuotientIs
<1>3. PICK z \in Int : z = d - q
  OBVIOUS
<1>4. M * z = M * d - M * q
  BY <1>3, Distributes
<1>5. PICK e \in Int : e = M * d
  OBVIOUS
<1>6. PICK f \in Int : f = M * q
  OBVIOUS
<1>7. M * z \in (1 - M) .. (M - 1)
  BY <1>2, <1>4, <1>5, <1>6
<1>8. z = 0
  <2>1. z >= 1 => M * z >= M
    OBVIOUS
  <2>2. z <= -1 => M * z <= -M
    OBVIOUS
  <2>3. QED
    BY <2>1, <2>2, <1>7
<1>9. d = q
  BY <1>3, <1>8
<1>10. e = f
  BY <1>9, <1>5, <1>6
<1>11. x = e + u /\ x = f + r
  BY <1>2, <1>5, <1>6
<1>12. u = r
  BY <1>10, <1>11
<1>13. QED
  BY <1>2, <1>12

LEMMA ModAdd ==
  ASSUME NEW M \in Nat \ {0}, NEW a \in Nat, NEW b \in Nat
  PROVE  ((a % M) + b) % M = (a + b) % M
<1>1. PICK q \in Int, r \in 0 .. M - 1 : a = M * q + r /\ r = a % M
  <2>1. a \in Int
    OBVIOUS
  <2>2. QED
    BY <2>1, QuotientIs
<1>2. PICK p \in Int, s \in 0 .. M - 1 : r + b = M * p + s /\ s = (r + b) % M
  <2>1. r + b \in Int
    OBVIOUS
  <2>2. QED
    BY <2>1, QuotientIs
<1>3. M * (q + p) = M * q + M * p
  BY Distributes
<1>4. a + b = M * (q + p) + s
  <2>1. PICK e \in Int : e = M * q
    OBVIOUS
  <2>2. PICK f \in Int : f = M * p
    OBVIOUS
  <2>3. PICK g \in Int : g = M * (q + p)
    OBVIOUS
  <2>4. a = e + r /\ r + b = f + s /\ g = e + f
    BY <1>1, <1>2, <1>3, <2>1, <2>2, <2>3
  <2>5. a + b = g + s
    BY <2>4
  <2>6. QED
    BY <2>3, <2>5
<1>5. q + p \in Int
  OBVIOUS
<1>6. (a + b) % M = s
  BY <1>4, <1>5, RemainderIs, ZenonT(30)
<1>7. QED
  BY <1>1, <1>2, <1>6

\* Ticks that are counted now or later come to the same.
LEMMA TicksAdd ==
  ASSUME NEW a \in Nat, NEW b \in Nat
  PROVE  /\ Ticks(a) \in Tick /\ Ticks(Ticks(a) + b) = Ticks(a + b)
         /\ a \in Tick => Ticks(a) = a
<1>1. PICK m \in Nat \ {0} : m = MaxDelay + 1
  BY KernelAssumption
<1>2. ((a % m) + b) % m = (a + b) % m
  BY ModAdd
<1>3. a % m \in 0 .. m - 1 /\ (a \in 0 .. m - 1 => a % m = a)
  OBVIOUS
<1>4. MaxDelay = m - 1
  BY <1>1, KernelAssumption
<1>5. QED
  BY <1>1, <1>2, <1>3, <1>4 DEF Ticks, Tick

-----------------------------------------------------------------------------
(* What a section that leaves priorities alone keeps of a kernel *)

Fields ==
  {"current", "running", "ready", "delayed", "overflow", "pending", "suspended",
   "terminating", "event", "priority", "base", "urgency", "wake", "numberOfTasks",
   "tasksDeleted", "tickCount", "nextUnblock", "numOfOverflows", "topReady",
   "suspendDepth", "missedTicks", "missedYield"}

IsKernel(k) ==
  /\ k = [x \in Fields |-> k[x]]
  /\ k.priority = [t \in AnyTask |-> k.priority[t]]
  /\ k.base = [t \in AnyTask |-> k.base[t]]
  /\ IsList(k.delayed) /\ IsList(k.overflow) /\ IsList(k.pending)
  /\ k.missedTicks \in Nat

\* The ticks that are counted, and those that have still to be.
SameTime(k, l) ==
  /\ l.tickCount = k.tickCount /\ l.missedTicks = k.missedTicks
  /\ l.numOfOverflows = k.numOfOverflows

\* The time it is: the tick count with those.
Clock(k) == Ticks(k.tickCount + k.missedTicks)

\* The running task goes on as long as the scheduler is suspended.
Preserves(k, l) ==
  /\ IsKernel(l)
  /\ l.priority = k.priority /\ l.base = k.base
  /\ l.suspendDepth = k.suspendDepth
  /\ k.suspendDepth > 0 => l.current = k.current

LEMMA PreservesIsOrder ==
  ASSUME NEW k, NEW l, NEW m
  PROVE  /\ IsKernel(k) => Preserves(k, k)
         /\ Preserves(k, l) /\ Preserves(l, m) => Preserves(k, m)
  BY DEF Preserves

LEMMA BootPreserves == IsKernel(BootKernel)
<1>1. BootKernel = [x \in Fields |-> BootKernel[x]]
  BY DEF BootKernel, Fields
<1>2. QED
  BY <1>1, ShortLists DEF IsKernel, BootKernel

LEMMA RemoveGenericPreserves ==
  ASSUME NEW k, IsKernel(k), NEW t
  PROVE  /\ Preserves(k, RemoveGeneric(k, t)) /\ RemoveGeneric(k, t).current = k.current
         /\ SameTime(k, RemoveGeneric(k, t))
<1> DEFINE l == RemoveGeneric(k, t)
<1>1. /\ l = [x \in Fields |-> l[x]]
      /\ l.priority = k.priority /\ l.base = k.base /\ l.suspendDepth = k.suspendDepth
      /\ l.current = k.current /\ l.pending = k.pending /\ l.missedTicks = k.missedTicks
      /\ l.tickCount = k.tickCount
      /\ l.numOfOverflows = k.numOfOverflows
      /\ l.delayed = ListRemove(k.delayed, t) /\ l.overflow = ListRemove(k.overflow, t)
  BY DEF IsKernel, RemoveGeneric, Fields
<1> HIDE DEF l
<1>2. IsList(l.delayed) /\ IsList(l.overflow)
  BY <1>1, RemoveIsList DEF IsKernel
<1>3. QED
  BY <1>1, <1>2 DEF SameTime, IsKernel, Preserves, l

LEMMA RemoveEventPreserves ==
  ASSUME NEW k, IsKernel(k), NEW t
  PROVE  /\ Preserves(k, RemoveEvent(k, t)) /\ RemoveEvent(k, t).current = k.current
         /\ SameTime(k, RemoveEvent(k, t))
<1> DEFINE l == RemoveEvent(k, t)
<1>1. /\ l = [x \in Fields |-> l[x]]
      /\ l.priority = k.priority /\ l.base = k.base /\ l.suspendDepth = k.suspendDepth
      /\ l.current = k.current /\ l.pending = ListRemove(k.pending, t)
      /\ l.missedTicks = k.missedTicks /\ l.tickCount = k.tickCount
      /\ l.numOfOverflows = k.numOfOverflows
      /\ l.delayed = k.delayed /\ l.overflow = k.overflow
  BY DEF IsKernel, RemoveEvent, Fields
<1> HIDE DEF l
<1>2. IsList(l.pending)
  BY <1>1, RemoveIsList DEF IsKernel
<1>3. QED
  BY <1>1, <1>2 DEF SameTime, IsKernel, Preserves, l

LEMMA AddTaskPreserves ==
  ASSUME NEW k, IsKernel(k), NEW t
  PROVE  /\ Preserves(k, AddTaskToReadyQueue(k, t)) /\ AddTaskToReadyQueue(k, t).current = k.current
         /\ SameTime(k, AddTaskToReadyQueue(k, t))
<1> DEFINE l == AddTaskToReadyQueue(k, t)
<1>1. /\ l = [x \in Fields |-> l[x]]
      /\ l.priority = k.priority /\ l.base = k.base /\ l.suspendDepth = k.suspendDepth
      /\ l.current = k.current /\ l.pending = k.pending
      /\ l.missedTicks = k.missedTicks /\ l.tickCount = k.tickCount
      /\ l.numOfOverflows = k.numOfOverflows
      /\ l.delayed = k.delayed /\ l.overflow = k.overflow
  BY DEF IsKernel, AddTaskToReadyQueue, Fields
<1> HIDE DEF l
<1>2. QED
  BY <1>1 DEF SameTime, IsKernel, Preserves, l

\* One task becomes ready.
Ready(k, t) == AddTaskToReadyQueue(RemoveGeneric(RemoveEvent(k, t), t), t)

LEMMA ReadyPreserves ==
  ASSUME NEW k, IsKernel(k), NEW t
  PROVE  /\ Preserves(k, Ready(k, t)) /\ Ready(k, t).current = k.current
         /\ SameTime(k, Ready(k, t))
<1> DEFINE l == RemoveEvent(k, t)
           m == RemoveGeneric(l, t)
           n == AddTaskToReadyQueue(m, t)
<1>1. Preserves(k, l) /\ SameTime(k, l) /\ l.current = k.current
  BY RemoveEventPreserves
<1>2. IsKernel(l)
  BY <1>1 DEF Preserves
<1>3. Preserves(l, m) /\ SameTime(l, m) /\ m.current = l.current
  BY <1>2, RemoveGenericPreserves
<1>4. IsKernel(m)
  BY <1>3 DEF Preserves
<1>5. Preserves(m, n) /\ SameTime(m, n) /\ n.current = m.current
  BY <1>4, AddTaskPreserves
<1>6. Ready(k, t) = n
  BY DEF Ready
<1> HIDE DEF l, m, n
<1>7. QED
  BY <1>1, <1>3, <1>5, <1>6 DEF Preserves, SameTime

\* What the tasks of s do to a kernel, one after the other.
LEMMA MakeReadyRuns ==
  ASSUME NEW k, NEW s, IsList(s)
  PROVE  \E h : /\ h[0] = k /\ MakeReady(k, s) = h[Len(s)]
                /\ \A n \in 0 .. Len(s) - 1 : h[n + 1] = Ready(h[n], s[n + 1])
<1> DEFINE Runs(h, n) == h = [i \in 0 .. n |-> IF i = 0 THEN k ELSE Ready(h[i - 1], s[i])]
           N == Len(s)
           after == CHOOSE h : Runs(h, N)
<1>1. MakeReady(k, s) = after[N]
  BY DEF MakeReady, Ready
<1>2. N \in Nat
  BY ListLength
<1> HIDE DEF N
<1>3. \E h : Runs(h, N)
  <2> DEFINE E == {n \in Nat : \E h : Runs(h, n)}
  <2>1. 0 \in E
    <3>1. Runs([i \in 0 .. 0 |-> k], 0)
      OBVIOUS
    <3>2. QED
      BY <3>1
  <2>2. ASSUME NEW n \in E PROVE n + 1 \in E
    <3>1. PICK h : Runs(h, n)
      OBVIOUS
    <3> DEFINE g == [i \in 0 .. n + 1 |-> IF i <= n THEN h[i] ELSE Ready(h[n], s[n + 1])]
    <3>2. Runs(g, n + 1)
      <4>1. ASSUME NEW i \in 0 .. n + 1
            PROVE  g[i] = IF i = 0 THEN k ELSE Ready(g[i - 1], s[i])
        BY <3>1
      <4>2. QED
        BY <4>1
    <3> HIDE DEF g
    <3>3. n + 1 \in Nat /\ \E f : Runs(f, n + 1)
      BY <3>2
    <3>4. QED
      BY <3>3
  <2>3. E = Nat
    <3> HIDE DEF E
    <3>1. E \in SUBSET Nat
      BY DEF E
    <3>2. QED
      BY <2>1, <2>2, <3>1, SetInduction
  <2>4. QED
    BY <1>2, <2>3
<1>4. Runs(after, N)
  BY <1>3
<1> HIDE DEF after
<1>5. after[0] = k /\ \A n \in 0 .. N - 1 : after[n + 1] = Ready(after[n], s[n + 1])
  BY <1>2, <1>4
<1>6. QED
  BY <1>1, <1>5 DEF N

LEMMA MakeReadyPreserves ==
  ASSUME NEW k, IsKernel(k), NEW s, IsList(s)
  PROVE  /\ Preserves(k, MakeReady(k, s)) /\ MakeReady(k, s).current = k.current
         /\ SameTime(k, MakeReady(k, s))
<1>1. PICK N \in Nat : N = Len(s)
  BY ListLength
<1>2. PICK after : /\ after[0] = k /\ MakeReady(k, s) = after[N]
                   /\ \A n \in 0 .. N - 1 : after[n + 1] = Ready(after[n], s[n + 1])
  BY <1>1, MakeReadyRuns
<1> DEFINE Leaves(n) == /\ Preserves(k, after[n]) /\ SameTime(k, after[n])
                        /\ after[n].current = k.current
           S == {n \in Nat : n <= N => Leaves(n)}
<1>3. 0 \in S
  BY <1>2, PreservesIsOrder DEF SameTime
<1>4. ASSUME NEW n \in S PROVE n + 1 \in S
  <2>1. SUFFICES ASSUME n + 1 <= N PROVE Leaves(n + 1)
    OBVIOUS
  <2>2. Leaves(n)
    BY <2>1
  <2>3. after[n + 1] = Ready(after[n], s[n + 1])
    BY <1>2, <2>1
  <2>4. /\ Preserves(after[n], after[n + 1]) /\ SameTime(after[n], after[n + 1])
        /\ after[n + 1].current = after[n].current
    BY <2>2, <2>3, ReadyPreserves DEF Preserves
  <2>5. QED
    BY <2>2, <2>4, PreservesIsOrder DEF SameTime
<1>5. S = Nat
  <2> HIDE DEF S
  <2>1. S \in SUBSET Nat
    BY DEF S
  <2>2. QED
    BY <1>3, <1>4, <2>1, SetInduction
<1>6. QED
  BY <1>2, <1>5

LEMMA SwitchContextPreserves ==
  ASSUME NEW k, IsKernel(k)
  PROVE  Preserves(k, SwitchContext(k)) /\ SameTime(k, SwitchContext(k))
<1> DEFINE l == SwitchContext(k)
<1>1. /\ l = [x \in Fields |-> l[x]]
      /\ l.priority = k.priority /\ l.base = k.base /\ l.suspendDepth = k.suspendDepth
      /\ k.suspendDepth > 0 => l.current = k.current
      /\ l.pending = k.pending /\ l.missedTicks = k.missedTicks
      /\ l.tickCount = k.tickCount
      /\ l.numOfOverflows = k.numOfOverflows
      /\ l.delayed = k.delayed /\ l.overflow = k.overflow
  BY DEF IsKernel, SwitchContext, Fields
<1> HIDE DEF l
<1>2. QED
  BY <1>1 DEF SameTime, IsKernel, Preserves, l

LEMMA YieldIfPreserves ==
  ASSUME NEW k, IsKernel(k), NEW yields
  PROVE  Preserves(k, YieldIf(yields, k)) /\ SameTime(k, YieldIf(yields, k))
BY SwitchContextPreserves, PreservesIsOrder DEF YieldIf, SameTime

LEMMA CheckDelayedPreserves ==
  ASSUME NEW k, IsKernel(k)
  PROVE  Preserves(k, CheckDelayedTasks(k)) /\ SameTime(k, CheckDelayedTasks(k))
<1>1. CASE k.tickCount < k.nextUnblock
  BY <1>1, PreservesIsOrder DEF CheckDelayedTasks, SameTime
<1>2. CASE ~ (k.tickCount < k.nextUnblock)
  <2> DEFINE due == {i \in DOMAIN k.delayed :
                       \A j \in 1 .. i : k.wake[k.delayed[j]] <= k.tickCount}
             s == SubSeq(k.delayed, 1, Cardinality(due))
             l == MakeReady(k, s)
             m == CheckDelayedTasks(k)
  <2>1. Len(k.delayed) \in Nat /\ DOMAIN k.delayed = 1 .. Len(k.delayed)
    BY ListLength DEF IsKernel
  <2>2. Cardinality(due) \in Nat
    <3>1. IsFiniteSet(DOMAIN k.delayed) /\ due \subseteq DOMAIN k.delayed
      BY <2>1, FS_Interval
    <3> HIDE DEF due
    <3>2. QED
      BY <3>1, FS_Subset, FS_CardinalityType
  <2>3. IsList(s)
    <3>1. Cardinality(due) \in Int /\ 1 \in Int
      BY <2>2
    <3> HIDE DEF due
    <3>2. QED
      BY <3>1, SubSeqIsList
  <2>4. m = [l EXCEPT !.nextUnblock =
                        IF l.delayed = <<>> THEN MaxDelay ELSE l.wake[Head(l.delayed)]]
    BY <1>2 DEF CheckDelayedTasks
  <2> HIDE DEF s
  <2>5. Preserves(k, l) /\ SameTime(k, l)
    BY <2>3, MakeReadyPreserves
  <2> HIDE DEF l, m
  <2>6. /\ m = [x \in Fields |-> m[x]]
        /\ m.priority = l.priority /\ m.base = l.base /\ m.suspendDepth = l.suspendDepth
        /\ m.current = l.current /\ m.pending = l.pending
        /\ m.missedTicks = l.missedTicks /\ m.tickCount = l.tickCount
        /\ m.numOfOverflows = l.numOfOverflows
        /\ m.delayed = l.delayed /\ m.overflow = l.overflow
    BY <2>4, <2>5 DEF IsKernel, Preserves, Fields
  <2>7. QED
    BY <2>5, <2>6 DEF SameTime, IsKernel, Preserves, m
<1>3. QED
  BY <1>1, <1>2

\* A tick is to be counted, or is counted.
Later(k, l) ==
  /\ l.tickCount = k.tickCount /\ l.missedTicks = k.missedTicks + 1
  /\ l.numOfOverflows = k.numOfOverflows
Sooner(k, l) ==
  /\ l.tickCount = Ticks(k.tickCount + 1) /\ l.missedTicks = k.missedTicks
  /\ l.tickCount # 0 => l.numOfOverflows = k.numOfOverflows

LEMMA IncrementTickPreserves ==
  ASSUME NEW k, IsKernel(k)
  PROVE  /\ Preserves(k, IncrementTick(k))
         /\ k.suspendDepth > 0 => Later(k, IncrementTick(k))
         /\ ~ (k.suspendDepth > 0) => Sooner(k, IncrementTick(k))
<1>1. CASE k.suspendDepth > 0
  <2> DEFINE m == [k EXCEPT !.missedTicks = @ + 1]
  <2>1. IncrementTick(k) = m
    BY <1>1 DEF IncrementTick
  <2>2. /\ m = [x \in Fields |-> m[x]]
        /\ m.priority = k.priority /\ m.base = k.base /\ m.suspendDepth = k.suspendDepth
        /\ m.current = k.current /\ m.pending = k.pending
        /\ m.missedTicks = k.missedTicks + 1 /\ m.tickCount = k.tickCount
        /\ m.numOfOverflows = k.numOfOverflows
        /\ m.delayed = k.delayed /\ m.overflow = k.overflow
    BY DEF IsKernel, Fields
  <2> HIDE DEF m
  <2>3. QED
    BY <1>1, <2>1, <2>2 DEF IsKernel, Preserves, Later
<1>2. CASE ~ (k.suspendDepth > 0)
  <2> DEFINE l == [k EXCEPT !.tickCount = Ticks(@ + 1)]
             m == [l EXCEPT !.delayed = l.overflow, !.overflow = l.delayed,
                            !.numOfOverflows = (@ + 1) % Wraps,
                            !.nextUnblock = IF l.overflow = <<>> THEN MaxDelay
                                            ELSE l.wake[Head(l.overflow)]]
             n == IF l.tickCount = 0 THEN m ELSE l
  <2>1. IncrementTick(k) = CheckDelayedTasks(n)
    BY <1>2 DEF IncrementTick
  <2>2. /\ l = [x \in Fields |-> l[x]]
        /\ l.priority = k.priority /\ l.base = k.base /\ l.suspendDepth = k.suspendDepth
        /\ l.current = k.current /\ l.pending = k.pending
        /\ l.missedTicks = k.missedTicks /\ l.tickCount = Ticks(k.tickCount + 1)
        /\ l.numOfOverflows = k.numOfOverflows
        /\ l.delayed = k.delayed /\ l.overflow = k.overflow
    BY DEF IsKernel, Fields
  <2> HIDE DEF l
  <2>3. /\ m = [x \in Fields |-> m[x]]
        /\ m.priority = l.priority /\ m.base = l.base /\ m.suspendDepth = l.suspendDepth
        /\ m.current = l.current /\ m.pending = l.pending
        /\ m.missedTicks = l.missedTicks /\ m.tickCount = l.tickCount
        /\ m.delayed = l.overflow /\ m.overflow = l.delayed
    BY <2>2 DEF Fields
  <2> HIDE DEF m
  <2>4. Preserves(k, l) /\ Sooner(k, l)
    BY <2>2 DEF IsKernel, Preserves, Sooner
  <2>5. Preserves(k, m) /\ (l.tickCount = 0 => Sooner(k, m))
    BY <2>2, <2>3 DEF IsKernel, Preserves, Sooner
  <2>6. Preserves(k, n) /\ Sooner(k, n)
    BY <2>4, <2>5
  <2> HIDE DEF n
  <2>7. Preserves(n, CheckDelayedTasks(n)) /\ SameTime(n, CheckDelayedTasks(n))
    BY <2>6, CheckDelayedPreserves DEF Preserves
  <2>8. QED
    BY <1>2, <2>1, <2>6, <2>7, PreservesIsOrder DEF Sooner, SameTime
<1>3. QED
  BY <1>1, <1>2

LEMMA AddCurrentTaskPreserves ==
  ASSUME NEW k, IsKernel(k), NEW time
  PROVE  LET l == AddCurrentTaskToDelayedList(k, time) IN Preserves(k, l) /\ SameTime(k, l)
<1> DEFINE t == k.current
           r == RemoveGeneric(k, t)
           l == [r EXCEPT !.wake[t] = time]
           later == {u \in DOMAIN l.wake : l.wake[u] > time}
           over == [l EXCEPT !.overflow = ListInsert(@, t, later)]
           soon == [l EXCEPT !.delayed = ListInsert(@, t, later),
                             !.nextUnblock = IF time < @ THEN time ELSE @]
<1>1. AddCurrentTaskToDelayedList(k, time) = IF time < l.tickCount THEN over ELSE soon
  BY DEF AddCurrentTaskToDelayedList
<1>2. Preserves(k, r) /\ SameTime(k, r)
  BY RemoveGenericPreserves
<1> HIDE DEF t, r
<1>3. /\ l = [x \in Fields |-> l[x]]
      /\ l.priority = r.priority /\ l.base = r.base /\ l.suspendDepth = r.suspendDepth
      /\ l.current = r.current /\ l.pending = r.pending
      /\ l.missedTicks = r.missedTicks /\ l.tickCount = r.tickCount
      /\ l.numOfOverflows = r.numOfOverflows
      /\ l.delayed = r.delayed /\ l.overflow = r.overflow
  BY <1>2 DEF IsKernel, Preserves, Fields
<1>4. Preserves(k, l) /\ SameTime(k, l)
  <2> HIDE DEF l
  <2>1. QED
    BY <1>2, <1>3 DEF IsKernel, Preserves, SameTime
<1> HIDE DEF l, later
<1>5. /\ over = [x \in Fields |-> over[x]]
      /\ over.priority = l.priority /\ over.base = l.base
      /\ over.suspendDepth = l.suspendDepth /\ over.current = l.current
      /\ over.pending = l.pending /\ over.missedTicks = l.missedTicks
      /\ over.tickCount = l.tickCount
      /\ over.numOfOverflows = l.numOfOverflows
      /\ over.delayed = l.delayed /\ over.overflow = ListInsert(l.overflow, t, later)
  BY <1>4 DEF IsKernel, Preserves, Fields
<1>6. /\ soon = [x \in Fields |-> soon[x]]
      /\ soon.priority = l.priority /\ soon.base = l.base
      /\ soon.suspendDepth = l.suspendDepth /\ soon.current = l.current
      /\ soon.pending = l.pending /\ soon.missedTicks = l.missedTicks
      /\ soon.tickCount = l.tickCount
      /\ soon.numOfOverflows = l.numOfOverflows
      /\ soon.delayed = ListInsert(l.delayed, t, later) /\ soon.overflow = l.overflow
  BY <1>4 DEF IsKernel, Preserves, Fields
<1>7. IsList(ListInsert(l.overflow, t, later)) /\ IsList(ListInsert(l.delayed, t, later))
  BY <1>4, InsertIsList DEF IsKernel, Preserves
<1> HIDE DEF over, soon
<1>8. /\ Preserves(k, over) /\ SameTime(k, over)
      /\ Preserves(k, soon) /\ SameTime(k, soon)
  BY <1>4, <1>5, <1>6, <1>7 DEF IsKernel, Preserves, SameTime
<1>9. QED
  BY <1>1, <1>8

LEMMA MissedTicksRuns ==
  ASSUME NEW k, IsKernel(k)
  PROVE  \E h : /\ h[0] = k /\ MissedTicks(k) = [h[k.missedTicks] EXCEPT !.missedTicks = 0]
                /\ \A n \in 0 .. k.missedTicks - 1 : h[n + 1] = IncrementTick(h[n])
<1> DEFINE Runs(h, n) == h = [i \in 0 .. n |-> IF i = 0 THEN k ELSE IncrementTick(h[i - 1])]
           N == k.missedTicks
           after == CHOOSE h : Runs(h, N)
<1>1. MissedTicks(k) = [after[N] EXCEPT !.missedTicks = 0]
  BY DEF MissedTicks
<1>2. N \in Nat
  BY DEF IsKernel
<1> HIDE DEF N
<1>3. \E h : Runs(h, N)
  <2> DEFINE E == {n \in Nat : \E h : Runs(h, n)}
  <2>1. 0 \in E
    <3>1. Runs([i \in 0 .. 0 |-> k], 0)
      OBVIOUS
    <3>2. QED
      BY <3>1
  <2>2. ASSUME NEW n \in E PROVE n + 1 \in E
    <3>1. PICK h : Runs(h, n)
      OBVIOUS
    <3> DEFINE g == [i \in 0 .. n + 1 |-> IF i <= n THEN h[i] ELSE IncrementTick(h[n])]
    <3>2. Runs(g, n + 1)
      <4>1. ASSUME NEW i \in 0 .. n + 1
            PROVE  g[i] = IF i = 0 THEN k ELSE IncrementTick(g[i - 1])
        BY <3>1
      <4>2. QED
        BY <4>1
    <3> HIDE DEF g
    <3>3. n + 1 \in Nat /\ \E f : Runs(f, n + 1)
      BY <3>2
    <3>4. QED
      BY <3>3
  <2>3. E = Nat
    <3> HIDE DEF E
    <3>1. E \in SUBSET Nat
      BY DEF E
    <3>2. QED
      BY <2>1, <2>2, <3>1, SetInduction
  <2>4. QED
    BY <1>2, <2>3
<1>4. Runs(after, N)
  BY <1>3
<1> HIDE DEF after
<1>5. after[0] = k /\ \A n \in 0 .. N - 1 : after[n + 1] = IncrementTick(after[n])
  BY <1>2, <1>4
<1>6. QED
  BY <1>1, <1>5 DEF N

\* The tick count has not wrapped since, or the wrap has been counted.
SameTurn(k, l, n) == k.tickCount + n <= MaxDelay => l.numOfOverflows = k.numOfOverflows

LEMMA SameTurnNext ==
  ASSUME NEW k, k.tickCount \in Tick, NEW n \in Nat, NEW l, SameTurn(k, l, n),
         l.tickCount = Ticks(k.tickCount + n), NEW m, Sooner(l, m)
  PROVE  SameTurn(k, m, n + 1)
<1>1. SUFFICES ASSUME k.tickCount + (n + 1) <= MaxDelay PROVE m.numOfOverflows = k.numOfOverflows
  BY DEF SameTurn
<1>2. PICK a \in Nat : a = k.tickCount
  BY KernelAssumption DEF Tick
<1>3. a + n \in Tick /\ a + (n + 1) \in Tick /\ a + n \in Nat /\ a + (n + 1) \in Nat
      /\ a + n + 1 = a + (n + 1)
  BY <1>1, <1>2, KernelAssumption DEF Tick
<1>4. l.tickCount = a + n
  BY <1>2, <1>3, TicksAdd
<1>5. m.tickCount = a + (n + 1)
  BY <1>3, <1>4, TicksAdd DEF Sooner
<1>6. m.numOfOverflows = l.numOfOverflows
  BY <1>2, <1>5 DEF Sooner
<1>7. l.numOfOverflows = k.numOfOverflows
  BY <1>2, <1>3 DEF SameTurn, Tick
<1>8. QED
  BY <1>6, <1>7

LEMMA MissedTicksPreserves ==
  ASSUME NEW k, IsKernel(k)
  PROVE  /\ Preserves(k, MissedTicks(k))
         /\ ~ (k.suspendDepth > 0) /\ k.tickCount \in Tick =>
              /\ MissedTicks(k).missedTicks = 0 /\ MissedTicks(k).tickCount = Clock(k)
              /\ SameTurn(k, MissedTicks(k), k.missedTicks)
<1>1. PICK N \in Nat : N = k.missedTicks
  BY DEF IsKernel
<1>2. PICK after : /\ after[0] = k /\ MissedTicks(k) = [after[N] EXCEPT !.missedTicks = 0]
                   /\ \A n \in 0 .. N - 1 : after[n + 1] = IncrementTick(after[n])
  BY <1>1, MissedTicksRuns
<1> DEFINE l == after[N]
           m == [l EXCEPT !.missedTicks = 0]
<1> DEFINE Counts(n) == ~ (k.suspendDepth > 0) /\ k.tickCount \in Tick =>
                          /\ after[n].tickCount = Ticks(k.tickCount + n)
                          /\ SameTurn(k, after[n], n)
           S == {n \in Nat : n <= N => Preserves(k, after[n]) /\ Counts(n)}
<1>3. 0 \in S
  <2>1. after[0] = k
    BY <1>2
  <2>2. k.tickCount \in Tick => Ticks(k.tickCount + 0) = k.tickCount
    <3>1. k.tickCount \in Tick => k.tickCount \in Nat /\ k.tickCount + 0 = k.tickCount
      BY KernelAssumption DEF Tick
    <3>2. QED
      BY <3>1, TicksAdd
  <2>3. QED
    BY <2>1, <2>2, PreservesIsOrder DEF SameTurn
<1>4. ASSUME NEW n \in S PROVE n + 1 \in S
  <2>1. SUFFICES ASSUME n + 1 <= N PROVE Preserves(k, after[n + 1]) /\ Counts(n + 1)
    OBVIOUS
  <2>2. Preserves(k, after[n]) /\ Counts(n)
    BY <1>2, <2>1
  <2>3. after[n + 1] = IncrementTick(after[n])
    BY <1>2, <2>1
  <2>4. Preserves(after[n], after[n + 1])
    BY <2>2, <2>3, IncrementTickPreserves DEF Preserves
  <2>5. ASSUME ~ (k.suspendDepth > 0), k.tickCount \in Tick
        PROVE  /\ after[n + 1].tickCount = Ticks(k.tickCount + (n + 1))
               /\ SameTurn(k, after[n + 1], n + 1)
    <3>1. after[n + 1].tickCount = Ticks(after[n].tickCount + 1)
      BY <2>2, <2>3, <2>5, IncrementTickPreserves DEF Preserves, Sooner
    <3>2. PICK c \in Nat : c = k.tickCount + n
      BY <2>5, KernelAssumption DEF Tick
    <3>3. after[n].tickCount = Ticks(c) /\ c + 1 = k.tickCount + (n + 1)
      BY <2>2, <2>5, <3>2, KernelAssumption DEF Tick
    <3>4. Ticks(Ticks(c) + 1) = Ticks(c + 1)
      BY TicksAdd
    <3>5. SameTurn(k, after[n + 1], n + 1)
      <4>1. Sooner(after[n], after[n + 1])
        BY <2>2, <2>3, <2>5, IncrementTickPreserves DEF Preserves
      <4>2. QED
        BY <2>2, <2>5, <4>1, SameTurnNext
    <3>6. QED
      BY <3>1, <3>3, <3>4, <3>5
  <2>6. QED
    BY <2>2, <2>4, <2>5, PreservesIsOrder
<1>5. S = Nat
  <2> HIDE DEF S
  <2>1. S \in SUBSET Nat
    BY DEF S
  <2>2. QED
    BY <1>3, <1>4, <2>1, SetInduction
<1>6. /\ Preserves(k, l)
      /\ ~ (k.suspendDepth > 0) /\ k.tickCount \in Tick =>
           l.tickCount = Clock(k) /\ SameTurn(k, l, N)
  <2>1. Preserves(k, l) /\ Counts(N)
    BY <1>5
  <2>2. Clock(k) = Ticks(k.tickCount + N)
    BY <1>1 DEF Clock
  <2>3. QED
    BY <2>1, <2>2
<1>7. MissedTicks(k) = m
  BY <1>2
<1> HIDE DEF l
<1>8. /\ m = [x \in Fields |-> m[x]]
      /\ m.priority = l.priority /\ m.base = l.base /\ m.suspendDepth = l.suspendDepth
      /\ m.current = l.current /\ m.pending = l.pending
      /\ m.missedTicks = 0 /\ m.tickCount = l.tickCount
      /\ m.numOfOverflows = l.numOfOverflows
      /\ m.delayed = l.delayed /\ m.overflow = l.overflow
  BY <1>6 DEF IsKernel, Preserves, Fields
<1> HIDE DEF m
<1>9. QED
  BY <1>1, <1>6, <1>8, <1>7 DEF IsKernel, Preserves, SameTurn

LEMMA RemoveFromEventListPreserves ==
  ASSUME NEW k, IsKernel(k), NEW e
  PROVE  Preserves(k, RemoveFromEventList(k, e)) /\ SameTime(k, RemoveFromEventList(k, e))
<1> DEFINE t == Head(k.event[e])
           r == RemoveEvent(k, t)
           m == [r EXCEPT !.pending = Append(@, t)]
<1>1. RemoveFromEventList(k, e) = IF k.suspendDepth > 0 THEN m ELSE MakeReady(k, <<t>>)
  BY DEF RemoveFromEventList
<1> HIDE DEF t
<1>2. Preserves(k, MakeReady(k, <<t>>)) /\ SameTime(k, MakeReady(k, <<t>>))
  BY MakeReadyPreserves, ShortLists
<1>3. Preserves(k, r) /\ SameTime(k, r)
  BY RemoveEventPreserves
<1> HIDE DEF r
<1>4. /\ m = [x \in Fields |-> m[x]]
      /\ m.priority = r.priority /\ m.base = r.base /\ m.suspendDepth = r.suspendDepth
      /\ m.current = r.current /\ m.pending = Append(r.pending, t)
      /\ m.missedTicks = r.missedTicks /\ m.tickCount = r.tickCount
      /\ m.numOfOverflows = r.numOfOverflows
      /\ m.delayed = r.delayed /\ m.overflow = r.overflow
  BY <1>3 DEF IsKernel, Preserves, Fields
<1>5. IsList(Append(r.pending, t))
  BY <1>3, AppendIsList DEF IsKernel, Preserves
<1> HIDE DEF m
<1>6. Preserves(k, m) /\ SameTime(k, m)
  BY <1>3, <1>4, <1>5 DEF IsKernel, Preserves, SameTime
<1>7. QED
  BY <1>1, <1>2, <1>6

LEMMA PlaceOnEventListPreserves ==
  ASSUME NEW k, IsKernel(k), NEW e, NEW ticks
  PROVE  Preserves(k, PlaceOnEventList(k, e, ticks)) /\ SameTime(k, PlaceOnEventList(k, e, ticks))
<1> DEFINE t == k.current
           lessUrgent == {u \in DOMAIN k.urgency : k.urgency[u] < k.urgency[t]}
           l == [k EXCEPT !.event[e] = ListInsert(@, t, lessUrgent)]
           r == RemoveGeneric(l, t)
           m == [r EXCEPT !.suspended = @ \cup {t}]
           n == AddCurrentTaskToDelayedList(l, Ticks(k.tickCount + ticks))
<1>1. PlaceOnEventList(k, e, ticks) = IF ticks = MaxDelay THEN m ELSE n
  BY DEF PlaceOnEventList
<1> HIDE DEF t, lessUrgent
<1>2. /\ l = [x \in Fields |-> l[x]]
      /\ l.priority = k.priority /\ l.base = k.base /\ l.suspendDepth = k.suspendDepth
      /\ l.current = k.current /\ l.pending = k.pending
      /\ l.missedTicks = k.missedTicks /\ l.tickCount = k.tickCount
      /\ l.numOfOverflows = k.numOfOverflows
      /\ l.delayed = k.delayed /\ l.overflow = k.overflow
  BY DEF IsKernel, Fields
<1> HIDE DEF l
<1>3. Preserves(k, l) /\ SameTime(k, l)
  BY <1>2 DEF IsKernel, Preserves, SameTime
<1>4. IsKernel(l)
  BY <1>3 DEF Preserves
<1>5. Preserves(l, r) /\ SameTime(l, r)
  BY <1>4, RemoveGenericPreserves
<1>6. Preserves(l, n) /\ SameTime(l, n)
  BY <1>4, AddCurrentTaskPreserves
<1> HIDE DEF r, n
<1>7. /\ m = [x \in Fields |-> m[x]]
      /\ m.priority = r.priority /\ m.base = r.base /\ m.suspendDepth = r.suspendDepth
      /\ m.current = r.current /\ m.pending = r.pending
      /\ m.missedTicks = r.missedTicks /\ m.tickCount = r.tickCount
      /\ m.numOfOverflows = r.numOfOverflows
      /\ m.delayed = r.delayed /\ m.overflow = r.overflow
  BY <1>5 DEF IsKernel, Preserves, Fields
<1> HIDE DEF m
<1>8. Preserves(l, m) /\ SameTime(l, m)
  BY <1>5, <1>7 DEF IsKernel, Preserves, SameTime
<1>9. QED
  BY <1>1, <1>3, <1>6, <1>8, PreservesIsOrder DEF SameTime

LEMMA SuspendAllPreserves ==
  ASSUME NEW k, IsKernel(k)
  PROVE  LET l == SuspendAll(k)
         IN  /\ IsKernel(l) /\ l.priority = k.priority /\ l.base = k.base
             /\ l.suspendDepth = k.suspendDepth + 1 /\ l.current = k.current
             /\ SameTime(k, l)
<1> DEFINE l == SuspendAll(k)
<1>1. /\ l = [x \in Fields |-> l[x]]
      /\ l.priority = k.priority /\ l.base = k.base /\ l.suspendDepth = k.suspendDepth + 1
      /\ l.current = k.current /\ l.pending = k.pending /\ l.missedTicks = k.missedTicks
      /\ l.tickCount = k.tickCount
      /\ l.numOfOverflows = k.numOfOverflows
      /\ l.delayed = k.delayed /\ l.overflow = k.overflow
  BY DEF IsKernel, SuspendAll, Fields
<1> HIDE DEF l
<1>2. QED
  BY <1>1 DEF IsKernel, SameTime, l

LEMMA ResumeAllPreserves ==
  ASSUME NEW k, IsKernel(k)
  PROVE  LET l == ResumeAll(k)
         IN  /\ IsKernel(l) /\ l.priority = k.priority /\ l.base = k.base
             /\ l.suspendDepth = k.suspendDepth - 1
             /\ k.tickCount \in Tick => l.tickCount \in Tick /\ Clock(l) = Clock(k)
<1> DEFINE l == [k EXCEPT !.suspendDepth = @ - 1]
           r == MakeReady(l, l.pending)
           m == MissedTicks(r)
           n == [m EXCEPT !.missedYield = FALSE]
<1>1. \/ ResumeAll(k) = l
      \/ ~ (l.suspendDepth > 0) /\ (ResumeAll(k) = m \/ ResumeAll(k) = SwitchContext(n))
  BY DEF ResumeAll
<1>2. /\ l = [x \in Fields |-> l[x]]
      /\ l.priority = k.priority /\ l.base = k.base /\ l.suspendDepth = k.suspendDepth - 1
      /\ l.pending = k.pending /\ l.missedTicks = k.missedTicks
      /\ l.tickCount = k.tickCount
      /\ l.numOfOverflows = k.numOfOverflows
      /\ l.delayed = k.delayed /\ l.overflow = k.overflow
  BY DEF IsKernel, Fields
<1> HIDE DEF l
<1>3. IsKernel(l)
  BY <1>2 DEF IsKernel
<1>4. Preserves(l, r) /\ SameTime(l, r)
  BY <1>3, MakeReadyPreserves DEF IsKernel
<1> HIDE DEF r
<1>5. /\ Preserves(r, m)
      /\ ~ (r.suspendDepth > 0) /\ r.tickCount \in Tick =>
           m.missedTicks = 0 /\ m.tickCount = Clock(r)
  BY <1>4, MissedTicksPreserves DEF Preserves
<1>6. Preserves(l, m)
  BY <1>4, <1>5, PreservesIsOrder
<1> HIDE DEF m
<1>7. /\ n = [x \in Fields |-> n[x]]
      /\ n.priority = m.priority /\ n.base = m.base /\ n.suspendDepth = m.suspendDepth
      /\ n.current = m.current /\ n.pending = m.pending
      /\ n.missedTicks = m.missedTicks /\ n.tickCount = m.tickCount
      /\ n.numOfOverflows = m.numOfOverflows
      /\ n.delayed = m.delayed /\ n.overflow = m.overflow
  BY <1>6 DEF IsKernel, Preserves, Fields
<1> HIDE DEF n
<1>8. Preserves(l, n)
  BY <1>6, <1>7 DEF IsKernel, Preserves
<1>9. Preserves(n, SwitchContext(n)) /\ SameTime(n, SwitchContext(n))
  BY <1>8, SwitchContextPreserves DEF Preserves
<1>10. Preserves(l, ResumeAll(k))
  BY <1>1, <1>3, <1>6, <1>8, <1>9, PreservesIsOrder
<1>11. ASSUME k.tickCount \in Tick
       PROVE  ResumeAll(k).tickCount \in Tick /\ Clock(ResumeAll(k)) = Clock(k)
  <2>1. l.tickCount \in Tick /\ Clock(l) = Clock(k)
    BY <1>2, <1>11 DEF Clock
  <2>2. CASE ResumeAll(k) = l
    BY <2>1, <2>2
  <2>3. CASE ~ (l.suspendDepth > 0) /\ (ResumeAll(k) = m \/ ResumeAll(k) = SwitchContext(n))
    <3>1. m.missedTicks = 0 /\ m.tickCount = Clock(k)
      BY <1>4, <1>5, <2>1, <2>3 DEF Preserves, SameTime, Clock
    <3>2. k.tickCount + k.missedTicks \in Nat
      BY <1>11, KernelAssumption DEF IsKernel, Tick
    <3>3. Clock(k) \in Tick
      BY <3>2, TicksAdd DEF Clock
    <3>4. Ticks(Clock(k) + 0) = Clock(k)
      <4>1. Clock(k) \in Nat /\ Clock(k) + 0 = Clock(k)
        BY <3>3, KernelAssumption DEF Tick
      <4>2. QED
        BY <3>3, <4>1, TicksAdd
    <3>5. ResumeAll(k).missedTicks = 0 /\ ResumeAll(k).tickCount = Clock(k)
      BY <1>7, <1>9, <2>3, <3>1 DEF SameTime
    <3>6. QED
      BY <3>3, <3>4, <3>5 DEF Clock
  <2>4. QED
    BY <1>1, <2>2, <2>3
<1>12. QED
  BY <1>2, <1>10, <1>11 DEF Preserves

-----------------------------------------------------------------------------
(* Sections that change priorities *)

Boosted(k) == {t \in AnyTask : k.priority[t] # k.base[t]}

\* What any section keeps, and who may run above its own priority after it.
Goes(k, l, boosted) ==
  /\ IsKernel(l)
  /\ l.suspendDepth = k.suspendDepth
  /\ k.suspendDepth > 0 => l.current = k.current
  /\ Boosted(l) \subseteq boosted

LEMMA PreservesGoes ==
  ASSUME NEW k, NEW l, Preserves(k, l)
  PROVE  Boosted(l) = Boosted(k) /\ Goes(k, l, Boosted(k))
  BY DEF Preserves, Goes, Boosted

LEMMA GoesThenPreserves ==
  ASSUME NEW k, NEW l, NEW m, NEW B, Goes(k, l, B), Preserves(l, m)
  PROVE  Goes(k, m, B)
  BY DEF Preserves, Goes, Boosted

LEMMA ChangePriorityGoes ==
  ASSUME NEW k, IsKernel(k), NEW t \in AnyTask, NEW p
  PROVE  /\ Goes(k, ChangePriority(k, t, p), Boosted(k) \cup {t})
         /\ p = k.base[t] => Goes(k, ChangePriority(k, t, p), Boosted(k) \ {t})
<1> DEFINE l == [k EXCEPT !.priority[t] = p, !.urgency[t] = p]
           r == RemoveGeneric(l, t)
           m == AddTaskToReadyQueue(r, t)
<1>1. ChangePriority(k, t, p) = IF InReady(k, t) THEN m ELSE l
  BY DEF ChangePriority
<1>2. /\ l = [x \in Fields |-> l[x]]
      /\ l.priority = [u \in AnyTask |-> IF u = t THEN p ELSE k.priority[u]]
      /\ l.base = k.base /\ l.suspendDepth = k.suspendDepth
      /\ l.current = k.current /\ l.pending = k.pending
      /\ l.missedTicks = k.missedTicks /\ l.tickCount = k.tickCount
      /\ l.numOfOverflows = k.numOfOverflows
      /\ l.delayed = k.delayed /\ l.overflow = k.overflow
  BY DEF IsKernel, Fields
<1> HIDE DEF l
<1>3. IsKernel(l) /\ \A u \in AnyTask : l.priority[u] = IF u = t THEN p ELSE k.priority[u]
  BY <1>2 DEF IsKernel
<1>4. /\ Goes(k, l, Boosted(k) \cup {t})
      /\ p = k.base[t] => Goes(k, l, Boosted(k) \ {t})
  BY <1>2, <1>3 DEF Goes, Boosted
<1>5. Preserves(l, r)
  BY <1>3, RemoveGenericPreserves
<1> HIDE DEF r
<1>6. Preserves(r, m)
  BY <1>5, AddTaskPreserves DEF Preserves
<1>7. Preserves(l, m)
  BY <1>5, <1>6, PreservesIsOrder
<1> HIDE DEF m
<1>8. /\ Goes(k, m, Boosted(k) \cup {t})
      /\ p = k.base[t] => Goes(k, m, Boosted(k) \ {t})
  BY <1>4, <1>7, GoesThenPreserves
<1>9. QED
  BY <1>1, <1>4, <1>8

\* Only the holder of a mutex gets a priority that is not its own.
LEMMA PriorityInheritGoes ==
  ASSUME NEW k, IsKernel(k), NEW t \in AnyTask
  PROVE  Goes(k, PriorityInherit(k, t), Boosted(k) \cup {t})
<1>1. Goes(k, k, Boosted(k) \cup {t})
  BY DEF Goes
<1>2. QED
  BY <1>1, ChangePriorityGoes DEF PriorityInherit

LEMMA PriorityDisinheritGoes ==
  ASSUME NEW k, IsKernel(k), NEW t \in AnyTask \cup {NoTask}
  PROVE  Goes(k, PriorityDisinherit(k, t), Boosted(k) \ {t})
<1>1. NoTask \notin AnyTask
  BY KernelAssumption DEF AnyTask
<1>2. CASE t = NoTask \/ k.priority[t] = k.base[t]
  <2>1. Boosted(k) \ {t} = Boosted(k)
    BY <1>1, <1>2 DEF Boosted
  <2>2. PriorityDisinherit(k, t) = k
    BY <1>2 DEF PriorityDisinherit
  <2>3. QED
    BY <2>1, <2>2 DEF Goes
<1>3. CASE t # NoTask /\ k.priority[t] # k.base[t]
  BY <1>3, ChangePriorityGoes DEF PriorityDisinherit
<1>4. QED
  BY <1>2, <1>3

LEMMA PrioritySetGoes ==
  ASSUME NEW k, IsKernel(k), NEW t \in AnyTask, NEW p
  PROVE  Goes(k, PrioritySet(k, t, p), Boosted(k)) /\ SameTime(k, PrioritySet(k, t, p))
<1> DEFINE l == [k EXCEPT !.base[t] = p, !.urgency[t] = p,
                          !.priority[t] = IF @ = k.base[t] THEN p ELSE @]
           r == RemoveGeneric(l, t)
           m == AddTaskToReadyQueue(r, t)
           n == IF t \in ToSet(k.ready[k.base[t]]) THEN m ELSE l
           yields == IF p > k.base[t] THEN t # k.current ELSE t = k.current
<1>1. PrioritySet(k, t, p) = IF k.base[t] = p THEN k ELSE YieldIf(yields, n)
  BY DEF PrioritySet
<1>2. /\ l = [x \in Fields |-> l[x]]
      /\ l.priority = [u \in AnyTask |-> IF u = t /\ k.priority[t] = k.base[t]
                                         THEN p ELSE k.priority[u]]
      /\ l.base = [u \in AnyTask |-> IF u = t THEN p ELSE k.base[u]]
      /\ l.suspendDepth = k.suspendDepth
      /\ l.current = k.current /\ l.pending = k.pending
      /\ l.missedTicks = k.missedTicks /\ l.tickCount = k.tickCount
      /\ l.numOfOverflows = k.numOfOverflows
      /\ l.delayed = k.delayed /\ l.overflow = k.overflow
  BY DEF IsKernel, Fields
<1> HIDE DEF l, yields
<1>3. /\ IsKernel(l)
      /\ \A u \in AnyTask : l.priority[u] = IF u = t /\ k.priority[t] = k.base[t]
                                            THEN p ELSE k.priority[u]
      /\ \A u \in AnyTask : l.base[u] = IF u = t THEN p ELSE k.base[u]
  BY <1>2 DEF IsKernel
<1>4. Goes(k, l, Boosted(k)) /\ SameTime(k, l)
  BY <1>2, <1>3 DEF Goes, Boosted, SameTime
<1>5. Preserves(l, r) /\ SameTime(l, r)
  BY <1>3, RemoveGenericPreserves
<1> HIDE DEF r
<1>6. Preserves(r, m) /\ SameTime(r, m)
  BY <1>5, AddTaskPreserves DEF Preserves
<1> HIDE DEF m
<1>7. Preserves(l, n) /\ SameTime(l, n)
  BY <1>3, <1>5, <1>6, PreservesIsOrder DEF SameTime
<1> HIDE DEF n
<1>8. Preserves(n, YieldIf(yields, n)) /\ SameTime(n, YieldIf(yields, n))
  BY <1>7, YieldIfPreserves DEF Preserves
<1>9. Goes(k, YieldIf(yields, n), Boosted(k)) /\ SameTime(k, YieldIf(yields, n))
  BY <1>4, <1>7, <1>8, GoesThenPreserves DEF SameTime
<1>10. Goes(k, k, Boosted(k)) /\ SameTime(k, k)
  BY DEF Goes, SameTime
<1>11. QED
  BY <1>1, <1>9, <1>10

\* A task is created at its own priority, before or after the scheduler starts.
LEMMA CreateGoes ==
  ASSUME NEW k, IsKernel(k), NEW t, NEW p
  PROVE  /\ IsKernel(Create(k, t, p)) /\ SameTime(k, Create(k, t, p))
         /\ k.suspendDepth = 0 => Goes(k, Create(k, t, p), Boosted(k))
<1> DEFINE first == k.current = NoTask
           urgent == first \/ (~k.running /\ k.priority[k.current] <= p)
           l == [k EXCEPT !.numberOfTasks = @ + 1,
                          !.priority[t] = p, !.base[t] = p, !.urgency[t] = p,
                          !.current = IF urgent THEN t ELSE @]
           m == AddTaskToReadyQueue(l, t)
           yields == k.running /\ k.priority[k.current] < p
<1>1. Create(k, t, p) = YieldIf(yields, m)
  BY DEF Create
<1> HIDE DEF urgent, yields
<1>2. /\ l = [x \in Fields |-> l[x]]
      /\ l.priority = [u \in AnyTask |-> IF u = t THEN p ELSE k.priority[u]]
      /\ l.base = [u \in AnyTask |-> IF u = t THEN p ELSE k.base[u]]
      /\ l.suspendDepth = k.suspendDepth /\ l.pending = k.pending
      /\ l.missedTicks = k.missedTicks /\ l.tickCount = k.tickCount
      /\ l.numOfOverflows = k.numOfOverflows
      /\ l.delayed = k.delayed /\ l.overflow = k.overflow
  BY ZenonT(30) DEF IsKernel, Fields
<1> HIDE DEF l
<1>3. /\ IsKernel(l)
      /\ \A u \in AnyTask : l.priority[u] = IF u = t THEN p ELSE k.priority[u]
      /\ \A u \in AnyTask : l.base[u] = IF u = t THEN p ELSE k.base[u]
  BY <1>2 DEF IsKernel
<1>4. SameTime(k, l) /\ (k.suspendDepth = 0 => Goes(k, l, Boosted(k)))
  BY <1>2, <1>3 DEF Goes, Boosted, SameTime
<1>5. Preserves(l, m) /\ SameTime(l, m)
  BY <1>3, AddTaskPreserves
<1> HIDE DEF m
<1>6. /\ Preserves(m, YieldIf(yields, m)) /\ SameTime(m, YieldIf(yields, m))
  BY <1>5, YieldIfPreserves DEF Preserves
<1>7. IsKernel(Create(k, t, p)) /\ SameTime(k, Create(k, t, p))
  BY <1>1, <1>4, <1>5, <1>6 DEF Preserves, SameTime
<1>8. QED
  BY <1>1, <1>4, <1>5, <1>6, <1>7, GoesThenPreserves

LEMMA StartSchedulerGoes ==
  ASSUME NEW k, IsKernel(k), k.suspendDepth = 0
  PROVE  Goes(k, StartScheduler(k), Boosted(k))
<1> DEFINE l == Create(k, Idle, 0)
           m == [l EXCEPT !.running = TRUE, !.tickCount = 0]
<1>1. Goes(k, l, Boosted(k))
  BY CreateGoes
<1> HIDE DEF l
<1>2. /\ m = [x \in Fields |-> m[x]]
      /\ m.priority = l.priority /\ m.base = l.base /\ m.suspendDepth = l.suspendDepth
      /\ m.current = l.current /\ m.pending = l.pending
      /\ m.missedTicks = l.missedTicks /\ m.delayed = l.delayed /\ m.overflow = l.overflow
  BY <1>1 DEF IsKernel, Goes, Fields
<1> HIDE DEF m
<1>3. Preserves(l, m)
  BY <1>1, <1>2 DEF IsKernel, Preserves, Goes
<1>4. QED
  BY <1>1, <1>3, GoesThenPreserves DEF StartScheduler, l, m

-----------------------------------------------------------------------------
(* Who is ready waits for nothing *)

\* t is in one of the ready lists.
Listed(k, t) == \E p \in Priority : t \in ToSet(k.ready[p])

\* The lists hold tasks, and nobody waits for an event who is ready.
Parted(k) ==
  /\ IsKernel(k)
  /\ k.topReady \in Priority
  /\ \A t \in AnyTask : k.priority[t] \in Priority /\ k.base[t] \in Priority
  /\ k.priority[Idle] = 0
  /\ k.ready = [p \in Priority |-> k.ready[p]] /\ \A p \in Priority : Once(k.ready[p])
  /\ k.event = [e \in Event |-> k.event[e]] /\ \A e \in Event : Once(k.event[e])
  /\ k.delayed \in Seq(AnyTask) /\ k.overflow \in Seq(AnyTask) /\ k.pending \in Seq(AnyTask)
  /\ \A e \in Event : \A t \in ToSet(k.event[e]) : ~Listed(k, t)

\* There is always somebody to switch to.
Serving(k) == Parted(k) /\ Idle \in ToSet(k.ready[0])

\* From k to l nobody begins to wait and nobody ceases to be ready; a task that is
\* switched to is ready.
Frees(k, l) ==
  /\ Serving(l)
  /\ \A e \in Event : ToSet(l.event[e]) \subseteq ToSet(k.event[e])
  /\ \A t : Listed(k, t) => Listed(l, t)
  /\ l.current # k.current => Listed(l, l.current)

LEMMA FreesTwice ==
  ASSUME NEW k, NEW l, NEW m, Frees(k, l), Frees(l, m)
  PROVE  Frees(k, m)
BY DEF Frees

LEMMA FreesNobody == \A k : Serving(k) => Frees(k, k)
BY DEF Frees

\* Only counters and times have changed.
OnlyTimes(k, l) ==
  /\ IsKernel(l) /\ l.topReady = k.topReady /\ l.priority = k.priority /\ l.base = k.base
  /\ l.ready = k.ready /\ l.event = k.event /\ l.pending = k.pending
  /\ l.current = k.current

LEMMA OnlyTimesFrees ==
  ASSUME NEW k, NEW l, Serving(k), OnlyTimes(k, l),
         l.delayed \in Seq(AnyTask), l.overflow \in Seq(AnyTask)
  PROVE  Frees(k, l)
BY DEF OnlyTimes, Frees, Serving, Parted, Listed

LEMMA ToSetIs ==
  ASSUME NEW s \in Seq(AnyTask)
  PROVE  /\ DOMAIN s = 1 .. Len(s) /\ Len(s) \in Nat
         /\ \A i \in 1 .. Len(s) : s[i] \in AnyTask /\ s[i] \in ToSet(s)
  BY DEF ToSet

LEMMA SubSeqTyped ==
  ASSUME NEW s \in Seq(AnyTask), NEW m \in Nat \ {0}, NEW n \in Int, n <= Len(s)
  PROVE  SubSeq(s, m, n) \in Seq(AnyTask)
<1>1. \A i \in m .. n : s[i] \in AnyTask
  OBVIOUS
<1>2. QED
  BY <1>1, SubSeqProperties

LEMMA RemoveTyped ==
  ASSUME NEW s \in Seq(AnyTask), NEW t
  PROVE  ListRemove(s, t) \in Seq(AnyTask)
<1>1. CASE t \notin ToSet(s)
  BY <1>1 DEF ListRemove
<1>2. CASE t \in ToSet(s)
  <2> DEFINE n == CHOOSE i \in DOMAIN s : s[i] = t
  <2>1. n \in 1 .. Len(s) /\ Len(s) \in Nat
    BY <1>2, ToSetIs DEF ToSet
  <2>2. ListRemove(s, t) = SubSeq(s, 1, n - 1) \o SubSeq(s, n + 1, Len(s))
    BY <1>2 DEF ListRemove, RemoveAt
  <2> HIDE DEF n
  <2>3. SubSeq(s, 1, n - 1) \in Seq(AnyTask) /\ SubSeq(s, n + 1, Len(s)) \in Seq(AnyTask)
    <3>1. n - 1 \in Int /\ n - 1 <= Len(s) /\ n + 1 \in Nat \ {0} /\ Len(s) \in Int
          /\ 1 \in Nat \ {0} /\ Len(s) <= Len(s)
      BY <2>1
    <3>2. QED
      BY <3>1, SubSeqTyped
  <2>4. QED
    BY <2>2, <2>3, ConcatProperties
<1>3. QED
  BY <1>1, <1>2

LEMMA InsertTyped ==
  ASSUME NEW s \in Seq(AnyTask), NEW t \in AnyTask, NEW after
  PROVE  ListInsert(s, t, after) \in Seq(AnyTask)
<1> DEFINE before == {i \in DOMAIN s : \A j \in 1 .. i : s[j] \notin after}
           n == Cardinality(before) + 1
<1>1. Cardinality(before) \in 0 .. Len(s)
  <2>1. before \in SUBSET (1 .. Len(s)) /\ (\A i \in before : \A j \in 1 .. i : j \in before)
        /\ Len(s) \in Nat
    BY ToSetIs
  <2> HIDE DEF before
  <2>2. QED
    BY <2>1, PrefixIs
<1>2. ListInsert(s, t, after) = SubSeq(s, 1, n - 1) \o <<t>> \o SubSeq(s, n, Len(s))
  BY DEF ListInsert, InsertAt
<1> HIDE DEF before
<1>3. n \in Nat \ {0} /\ n - 1 \in Int /\ n - 1 <= Len(s) /\ Len(s) \in Int /\ 1 \in Nat \ {0}
  BY <1>1, ToSetIs
<1> HIDE DEF n
<1>4. SubSeq(s, 1, n - 1) \in Seq(AnyTask) /\ SubSeq(s, n, Len(s)) \in Seq(AnyTask)
  BY <1>3, SubSeqTyped
<1>5. <<t>> \in Seq(AnyTask)
  OBVIOUS
<1>6. SubSeq(s, 1, n - 1) \o <<t>> \in Seq(AnyTask)
  BY <1>4, <1>5, ConcatProperties
<1>7. QED
  BY <1>2, <1>4, <1>6, ConcatProperties

LEMMA RemoveGenericParts ==
  ASSUME NEW k, Parted(k), NEW t
  PROVE  LET l == RemoveGeneric(k, t)
         IN  /\ Parted(l) /\ l.event = k.event /\ l.current = k.current
             /\ \A p \in Priority : ToSet(l.ready[p]) = ToSet(k.ready[p]) \ {t}
<1> DEFINE l == RemoveGeneric(k, t)
<1>1. /\ l.event = k.event /\ l.current = k.current /\ l.topReady = k.topReady
      /\ l.priority = k.priority /\ l.base = k.base /\ l.pending = k.pending
      /\ l.ready = [p \in Priority |-> ListRemove(k.ready[p], t)]
      /\ l.delayed = ListRemove(k.delayed, t) /\ l.overflow = ListRemove(k.overflow, t)
  BY DEF Parted, IsKernel, RemoveGeneric, Fields
<1>2. IsKernel(l)
  BY RemoveGenericPreserves DEF Parted, Preserves
<1> HIDE DEF l
<1>3. \A p \in Priority : Once(l.ready[p]) /\ ToSet(l.ready[p]) = ToSet(k.ready[p]) \ {t}
  BY <1>1, RemoveOnce DEF Parted
<1>4. l.delayed \in Seq(AnyTask) /\ l.overflow \in Seq(AnyTask)
  BY <1>1, RemoveTyped DEF Parted
<1>5. l.ready = [p \in Priority |-> l.ready[p]]
  BY <1>1
<1>6. \A u : Listed(l, u) => Listed(k, u)
  BY <1>3 DEF Listed
<1>7. Parted(l)
  BY <1>1, <1>2, <1>3, <1>4, <1>5, <1>6 DEF Parted
<1>8. QED
  BY <1>1, <1>3, <1>7 DEF l

LEMMA RemoveEventParts ==
  ASSUME NEW k, Parted(k), NEW t
  PROVE  LET l == RemoveEvent(k, t)
         IN  /\ Parted(l) /\ l.ready = k.ready /\ l.current = k.current
             /\ \A e \in Event : ToSet(l.event[e]) = ToSet(k.event[e]) \ {t}
<1> DEFINE l == RemoveEvent(k, t)
<1>1. /\ l.ready = k.ready /\ l.current = k.current /\ l.topReady = k.topReady
      /\ l.priority = k.priority /\ l.base = k.base
      /\ l.event = [e \in Event |-> ListRemove(k.event[e], t)]
      /\ l.delayed = k.delayed /\ l.overflow = k.overflow /\ l.pending = ListRemove(k.pending, t)
  BY DEF Parted, IsKernel, RemoveEvent, Fields
<1>2. IsKernel(l)
  BY RemoveEventPreserves DEF Parted, Preserves
<1> HIDE DEF l
<1>3. \A e \in Event : Once(l.event[e]) /\ ToSet(l.event[e]) = ToSet(k.event[e]) \ {t}
  BY <1>1, RemoveOnce DEF Parted
<1>4. l.pending \in Seq(AnyTask)
  BY <1>1, RemoveTyped DEF Parted
<1>5. l.event = [e \in Event |-> l.event[e]]
  BY <1>1
<1>6. Parted(l)
  BY <1>1, <1>2, <1>3, <1>4, <1>5 DEF Parted, Listed
<1>7. QED
  BY <1>1, <1>3, <1>6 DEF l

LEMMA AddTaskParts ==
  ASSUME NEW k, Parted(k), NEW t \in AnyTask, ~Listed(k, t),
         \A e \in Event : t \notin ToSet(k.event[e])
  PROVE  LET l == AddTaskToReadyQueue(k, t)
         IN  /\ Parted(l) /\ l.event = k.event /\ l.current = k.current
             /\ ToSet(l.ready[k.priority[t]]) = ToSet(k.ready[k.priority[t]]) \cup {t}
             /\ \A p \in Priority \ {k.priority[t]} : l.ready[p] = k.ready[p]
<1> DEFINE l == AddTaskToReadyQueue(k, t)
           p == k.priority[t]
<1>1. /\ l.event = k.event /\ l.current = k.current /\ l.priority = k.priority
      /\ l.base = k.base /\ l.delayed = k.delayed /\ l.overflow = k.overflow
      /\ l.pending = k.pending
      /\ l.topReady = IF p > k.topReady THEN p ELSE k.topReady
      /\ l.ready = [k.ready EXCEPT ![p] = Append(@, t)]
  BY DEF Parted, IsKernel, AddTaskToReadyQueue, Fields
<1>2. IsKernel(l)
  BY AddTaskPreserves DEF Parted, Preserves
<1>3. p \in Priority
  BY DEF Parted
<1>4. Once(k.ready[p]) /\ t \notin ToSet(k.ready[p])
  BY <1>3 DEF Parted, Listed
<1> HIDE DEF l
<1>5. /\ l.ready = [q \in Priority |-> l.ready[q]]
      /\ l.ready[p] = Append(k.ready[p], t)
      /\ \A q \in Priority \ {p} : l.ready[q] = k.ready[q]
  BY <1>1, <1>3 DEF Parted
<1>6. Once(l.ready[p]) /\ ToSet(l.ready[p]) = ToSet(k.ready[p]) \cup {t}
  <2>1. PICK s : s = k.ready[p]
    OBVIOUS
  <2>2. Once(Append(s, t)) /\ ToSet(Append(s, t)) = ToSet(s) \cup {t}
    BY <1>4, <2>1, AppendToList
  <2>3. QED
    BY <1>5, <2>1, <2>2
<1>7. l.topReady \in Priority
  BY <1>1, <1>3 DEF Parted
<1> HIDE DEF p
<1>8. \A q \in Priority : Once(l.ready[q])
  BY <1>5, <1>6 DEF Parted
<1>9. \A u : Listed(l, u) => Listed(k, u) \/ u = t
  BY <1>3, <1>5, <1>6 DEF Listed
<1>10. Parted(l)
  <2>1. \A e \in Event : \A u \in ToSet(l.event[e]) : ~Listed(l, u)
    BY <1>1, <1>9 DEF Parted
  <2>2. \A e \in Event : Once(l.event[e])
    BY <1>1 DEF Parted
  <2>3. l.event = [e \in Event |-> l.event[e]]
    BY <1>1 DEF Parted
  <2>4. \A u \in AnyTask : l.priority[u] \in Priority /\ l.base[u] \in Priority
    BY <1>1 DEF Parted
  <2>5. l.priority[Idle] = 0 /\ l.delayed \in Seq(AnyTask) /\ l.overflow \in Seq(AnyTask)
        /\ l.pending \in Seq(AnyTask)
    BY <1>1 DEF Parted
  <2>6. QED
    BY <1>2, <1>5, <1>7, <1>8, <2>1, <2>2, <2>3, <2>4, <2>5 DEF Parted
<1>11. QED
  BY <1>1, <1>5, <1>6, <1>10 DEF l, p

LEMMA ReadyFrees ==
  ASSUME NEW k, Serving(k), NEW t \in AnyTask
  PROVE  LET l == Ready(k, t)
         IN  /\ Frees(k, l) /\ l.current = k.current /\ Listed(l, t)
             /\ \A e \in Event : t \notin ToSet(l.event[e])
<1> DEFINE l == RemoveEvent(k, t)
           m == RemoveGeneric(l, t)
           n == AddTaskToReadyQueue(m, t)
<1>1. /\ Parted(l) /\ l.ready = k.ready /\ l.current = k.current
      /\ \A e \in Event : ToSet(l.event[e]) = ToSet(k.event[e]) \ {t}
  BY RemoveEventParts DEF Serving
<1> HIDE DEF l
<1>2. /\ Parted(m) /\ m.event = l.event /\ m.current = l.current
      /\ \A p \in Priority : ToSet(m.ready[p]) = ToSet(l.ready[p]) \ {t}
  BY <1>1, RemoveGenericParts
<1> HIDE DEF m
<1>3. ~Listed(m, t) /\ \A e \in Event : t \notin ToSet(m.event[e])
  BY <1>1, <1>2 DEF Listed
<1>4. /\ Parted(n) /\ n.event = m.event /\ n.current = m.current
      /\ ToSet(n.ready[m.priority[t]]) = ToSet(m.ready[m.priority[t]]) \cup {t}
      /\ \A p \in Priority \ {m.priority[t]} : n.ready[p] = m.ready[p]
  BY <1>2, <1>3, AddTaskParts
<1>5. Ready(k, t) = n
  BY DEF Ready, l, m
<1> HIDE DEF n
<1>6. m.priority[t] \in Priority
  BY <1>2 DEF Parted
<1>7. Listed(n, t)
  BY <1>4, <1>6 DEF Listed
<1>8. ASSUME NEW u, u # t, NEW p \in Priority, u \in ToSet(k.ready[p])
      PROVE  u \in ToSet(n.ready[p])
  BY <1>1, <1>2, <1>4, <1>8
<1>9. \A u : Listed(k, u) => Listed(n, u)
  BY <1>7, <1>8 DEF Listed
<1>10. Idle \in ToSet(n.ready[0])
  <2>1. 0 \in Priority /\ Idle \in ToSet(k.ready[0])
    BY KernelAssumption DEF Priority, Serving
  <2>2. t = Idle => m.priority[t] = 0
    BY <1>2 DEF Parted
  <2>3. QED
    BY <1>4, <1>8, <2>1, <2>2
<1>11. \A e \in Event : ToSet(n.event[e]) = ToSet(k.event[e]) \ {t}
  BY <1>1, <1>2, <1>4
<1>12. Frees(k, n) /\ n.current = k.current
  BY <1>1, <1>2, <1>4, <1>9, <1>10, <1>11 DEF Frees, Serving
<1>13. QED
  BY <1>5, <1>7, <1>11, <1>12

LEMMA MakeReadyFrees ==
  ASSUME NEW k, Serving(k), NEW s \in Seq(AnyTask)
  PROVE  LET l == MakeReady(k, s)
         IN  /\ Frees(k, l) /\ l.current = k.current
             /\ \A i \in 1 .. Len(s) : Listed(l, s[i])
<1>1. PICK N \in Nat : N = Len(s) /\ DOMAIN s = 1 .. N
  BY ToSetIs
<1>2. PICK after : /\ after[0] = k /\ MakeReady(k, s) = after[N]
                   /\ \A n \in 0 .. N - 1 : after[n + 1] = Ready(after[n], s[n + 1])
  <2>1. IsList(s)
    BY DEF IsList
  <2>2. QED
    BY <1>1, <2>1, MakeReadyRuns
<1> DEFINE Done(n) == /\ Frees(k, after[n]) /\ after[n].current = k.current
                      /\ \A i \in 1 .. n : Listed(after[n], s[i])
           S == {n \in Nat : n <= N => Done(n)}
<1>3. 0 \in S
  BY <1>2, FreesNobody
<1>4. ASSUME NEW n \in S PROVE n + 1 \in S
  <2>1. SUFFICES ASSUME n + 1 <= N PROVE Done(n + 1)
    OBVIOUS
  <2>2. Done(n) /\ n \in 0 .. N - 1 /\ n + 1 \in 1 .. N
    BY <2>1
  <2>3. s[n + 1] \in AnyTask
    BY <1>1, <2>2
  <2>4. after[n + 1] = Ready(after[n], s[n + 1])
    BY <1>2, <2>2
  <2>5. /\ Frees(after[n], after[n + 1]) /\ after[n + 1].current = after[n].current
        /\ Listed(after[n + 1], s[n + 1])
    <3>1. Serving(after[n])
      BY <2>2 DEF Frees
    <3>2. QED
      BY <2>3, <2>4, <3>1, ReadyFrees
  <2>6. \A i \in 1 .. n + 1 : i \in 1 .. n \/ i = n + 1
    BY <2>2
  <2>7. \A i \in 1 .. n + 1 : Listed(after[n + 1], s[i])
    <3>1. \A i \in 1 .. n : Listed(after[n], s[i])
      BY <2>2
    <3>2. QED
      BY <2>5, <2>6, <3>1 DEF Frees
  <2>8. Frees(k, after[n + 1]) /\ after[n + 1].current = k.current
    BY <2>2, <2>5, FreesTwice
  <2>9. QED
    BY <2>7, <2>8
<1>5. S = Nat
  <2> HIDE DEF S
  <2>1. S \in SUBSET Nat
    BY DEF S
  <2>2. QED
    BY <1>3, <1>4, <2>1, SetInduction
<1>6. Done(N)
  BY <1>5
<1>7. QED
  BY <1>1, <1>2, <1>6

LEMMA SwitchContextFrees ==
  ASSUME NEW k, Serving(k)
  PROVE  LET l == SwitchContext(k)
         IN  /\ Frees(k, l) /\ l.event = k.event
             /\ ~(k.suspendDepth > 0) => Listed(l, l.current)
<1> DEFINE l == SwitchContext(k)
<1>1. CASE k.suspendDepth > 0
  <2>1. /\ l.topReady = k.topReady /\ l.priority = k.priority /\ l.base = k.base
        /\ l.ready = k.ready /\ l.event = k.event /\ l.pending = k.pending
        /\ l.current = k.current /\ l.delayed = k.delayed /\ l.overflow = k.overflow
    BY <1>1 DEF Serving, Parted, IsKernel, SwitchContext, Fields
  <2>2. IsKernel(l)
    BY SwitchContextPreserves DEF Serving, Parted, Preserves
  <2> HIDE DEF l
  <2>3. Frees(k, l)
    BY <2>1, <2>2, OnlyTimesFrees DEF OnlyTimes, Serving, Parted
  <2>4. QED
    BY <1>1, <2>1, <2>3 DEF l
<1>2. CASE ~(k.suspendDepth > 0)
  <2> DEFINE S == {p \in 0 .. k.topReady : k.ready[p] # <<>>}
             top == Max(S)
  <2>1. k.topReady \in Nat /\ \A p \in 0 .. k.topReady : p \in Priority
    BY KernelAssumption DEF Serving, Parted, Priority
  <2>2. top \in S
    <3>1. 0 \in S
      BY <2>1, EmptyOnce DEF Serving
    <3>2. S \in SUBSET (0 .. k.topReady)
      OBVIOUS
    <3> HIDE DEF S
    <3>3. QED
      BY <2>1, <3>1, <3>2, MaxIsGreatest
  <2>3. /\ l.topReady = top /\ l.current = Head(k.ready[top])
        /\ l.ready = [k.ready EXCEPT ![top] = Append(Tail(@), Head(@))]
        /\ l.priority = k.priority /\ l.base = k.base /\ l.event = k.event
        /\ l.pending = k.pending /\ l.delayed = k.delayed /\ l.overflow = k.overflow
    BY <1>2 DEF Serving, Parted, IsKernel, SwitchContext, Fields
  <2>4. IsKernel(l)
    BY SwitchContextPreserves DEF Serving, Parted, Preserves
  <2> HIDE DEF l
  <2>5. top \in Priority /\ k.ready[top] # <<>> /\ Once(k.ready[top])
    BY <2>1, <2>2 DEF Serving, Parted
  <2> HIDE DEF top
  <2>6. /\ l.ready = [p \in Priority |-> l.ready[p]]
        /\ l.ready[top] = Append(Tail(k.ready[top]), Head(k.ready[top]))
        /\ \A p \in Priority \ {top} : l.ready[p] = k.ready[p]
    BY <2>3, <2>5 DEF Serving, Parted
  <2>7. \A p \in Priority : Once(l.ready[p]) /\ ToSet(l.ready[p]) = ToSet(k.ready[p])
    <3>1. PICK s : s = k.ready[top]
      OBVIOUS
    <3>2. Once(Append(Tail(s), Head(s))) /\ ToSet(Append(Tail(s), Head(s))) = ToSet(s)
      BY <2>5, <3>1, RotateList
    <3>3. QED
      BY <2>6, <3>1, <3>2 DEF Serving, Parted
  <2>8. \A u : Listed(l, u) <=> Listed(k, u)
    BY <2>7 DEF Listed
  <2>9. Listed(l, l.current)
    <3>1. Head(k.ready[top]) \in ToSet(k.ready[top])
      BY <2>5, TailOfList
    <3>2. Listed(k, l.current)
      BY <2>3, <2>5, <3>1 DEF Listed
    <3>3. QED
      BY <2>8, <3>2
  <2>10. Parted(l)
    <3>1. \A e \in Event : \A u \in ToSet(l.event[e]) : ~Listed(l, u)
      BY <2>3, <2>8 DEF Serving, Parted
    <3>2. QED
      BY <2>3, <2>4, <2>5, <2>6, <2>7, <3>1 DEF Serving, Parted
  <2>11. Idle \in ToSet(l.ready[0])
    BY <2>7, KernelAssumption DEF Serving, Priority
  <2>12. Frees(k, l)
    BY <2>3, <2>8, <2>9, <2>10, <2>11 DEF Frees, Serving
  <2>13. QED
    BY <2>3, <2>9, <2>12 DEF l
<1>3. QED
  BY <1>1, <1>2

LEMMA YieldIfFrees ==
  ASSUME NEW k, Serving(k), NEW yields
  PROVE  Frees(k, YieldIf(yields, k)) /\ YieldIf(yields, k).event = k.event
BY SwitchContextFrees, FreesNobody DEF YieldIf

LEMMA CheckDelayedFrees ==
  ASSUME NEW k, Serving(k)
  PROVE  Frees(k, CheckDelayedTasks(k))
<1>1. CASE k.tickCount < k.nextUnblock
  BY <1>1, FreesNobody DEF CheckDelayedTasks
<1>2. CASE ~ (k.tickCount < k.nextUnblock)
  <2> DEFINE due == {i \in DOMAIN k.delayed :
                       \A j \in 1 .. i : k.wake[k.delayed[j]] <= k.tickCount}
             s == SubSeq(k.delayed, 1, Cardinality(due))
             l == MakeReady(k, s)
             m == CheckDelayedTasks(k)
  <2>1. Cardinality(due) \in 0 .. Len(k.delayed) /\ k.delayed \in Seq(AnyTask)
    <3>1. /\ due \in SUBSET (1 .. Len(k.delayed))
          /\ \A i \in due : \A j \in 1 .. i : j \in due
          /\ Len(k.delayed) \in Nat /\ k.delayed \in Seq(AnyTask)
      <4>1. k.delayed \in Seq(AnyTask)
        BY DEF Serving, Parted
      <4>2. DOMAIN k.delayed = 1 .. Len(k.delayed) /\ Len(k.delayed) \in Nat
        BY <4>1, ToSetIs
      <4>3. ASSUME NEW i \in due, NEW j \in 1 .. i PROVE j \in due
        <5>1. i \in 1 .. Len(k.delayed) /\ j \in 1 .. Len(k.delayed)
          BY <4>2
        <5>2. \A h \in 1 .. j : h \in 1 .. i
          BY <5>1
        <5>3. QED
          BY <4>2, <5>1, <5>2
      <4>4. QED
        BY <4>1, <4>2, <4>3
    <3> HIDE DEF due
    <3>2. QED
      BY <3>1, PrefixIs
  <2>2. s \in Seq(AnyTask)
    <3>1. Cardinality(due) \in Int /\ Cardinality(due) <= Len(k.delayed) /\ 1 \in Nat \ {0}
      BY <2>1, ToSetIs
    <3> HIDE DEF due
    <3>2. QED
      BY <2>1, <3>1, SubSeqTyped
  <2>3. m = [l EXCEPT !.nextUnblock =
                        IF l.delayed = <<>> THEN MaxDelay ELSE l.wake[Head(l.delayed)]]
    BY <1>2 DEF CheckDelayedTasks
  <2> HIDE DEF s
  <2>4. Frees(k, l)
    BY <2>2, MakeReadyFrees
  <2>5. IsKernel(l)
    BY <2>4 DEF Frees, Serving, Parted
  <2> HIDE DEF l
  <2>6. /\ m.topReady = l.topReady /\ m.priority = l.priority /\ m.base = l.base
        /\ m.ready = l.ready /\ m.event = l.event /\ m.pending = l.pending
        /\ m.current = l.current /\ m.delayed = l.delayed /\ m.overflow = l.overflow
    BY <2>3, <2>5 DEF IsKernel, Fields
  <2>7. IsKernel(m)
    BY CheckDelayedPreserves DEF Serving, Parted, Preserves
  <2> HIDE DEF m
  <2>8. Frees(l, m)
    BY <2>4, <2>6, <2>7, OnlyTimesFrees DEF OnlyTimes, Frees, Serving, Parted
  <2>9. QED
    BY <2>4, <2>8, FreesTwice DEF m
<1>3. QED
  BY <1>1, <1>2

LEMMA IncrementTickFrees ==
  ASSUME NEW k, Serving(k)
  PROVE  Frees(k, IncrementTick(k))
<1>1. CASE k.suspendDepth > 0
  <2> DEFINE l == IncrementTick(k)
  <2>1. /\ l.topReady = k.topReady /\ l.priority = k.priority /\ l.base = k.base
        /\ l.ready = k.ready /\ l.event = k.event /\ l.pending = k.pending
        /\ l.current = k.current /\ l.delayed = k.delayed /\ l.overflow = k.overflow
    BY <1>1 DEF Serving, Parted, IsKernel, IncrementTick, Fields
  <2>2. IsKernel(l)
    BY IncrementTickPreserves DEF Serving, Parted, Preserves
  <2> HIDE DEF l
  <2>3. Frees(k, l)
    BY <2>1, <2>2, OnlyTimesFrees DEF OnlyTimes, Serving, Parted
  <2>4. QED
    BY <2>3 DEF l
<1>2. CASE ~ (k.suspendDepth > 0)
  <2> DEFINE l == [k EXCEPT !.tickCount = Ticks(@ + 1)]
             m == [l EXCEPT !.delayed = l.overflow, !.overflow = l.delayed,
                            !.numOfOverflows = (@ + 1) % Wraps,
                            !.nextUnblock = IF l.overflow = <<>> THEN MaxDelay
                                            ELSE l.wake[Head(l.overflow)]]
             n == IF l.tickCount = 0 THEN m ELSE l
  <2>1. IncrementTick(k) = CheckDelayedTasks(n)
    BY <1>2 DEF IncrementTick
  <2>2. /\ l = [x \in Fields |-> l[x]] /\ l.missedTicks = k.missedTicks
        /\ l.topReady = k.topReady /\ l.priority = k.priority /\ l.base = k.base
        /\ l.ready = k.ready /\ l.event = k.event /\ l.pending = k.pending
        /\ l.current = k.current /\ l.delayed = k.delayed /\ l.overflow = k.overflow
    BY DEF Serving, Parted, IsKernel, Fields
  <2> HIDE DEF l
  <2>3. IsKernel(l)
    BY <2>2 DEF Serving, Parted, IsKernel
  <2>4. Frees(k, l)
    BY <2>2, <2>3, OnlyTimesFrees DEF OnlyTimes, Serving, Parted
  <2>5. /\ m = [x \in Fields |-> m[x]] /\ m.missedTicks = l.missedTicks
        /\ m.topReady = l.topReady /\ m.priority = l.priority /\ m.base = l.base
        /\ m.ready = l.ready /\ m.event = l.event /\ m.pending = l.pending
        /\ m.current = l.current /\ m.delayed = l.overflow /\ m.overflow = l.delayed
    BY <2>2 DEF Fields
  <2> HIDE DEF m
  <2>6. IsKernel(m)
    BY <2>3, <2>5 DEF IsKernel
  <2>7. Frees(l, m)
    BY <2>4, <2>5, <2>6, OnlyTimesFrees DEF OnlyTimes, Frees, Serving, Parted
  <2>8. Frees(k, n)
    BY <2>4, <2>7, FreesTwice
  <2> HIDE DEF n
  <2>9. Frees(n, CheckDelayedTasks(n))
    BY <2>8, CheckDelayedFrees DEF Frees
  <2>10. QED
    BY <2>1, <2>8, <2>9, FreesTwice
<1>3. QED
  BY <1>1, <1>2

LEMMA MissedTicksFrees ==
  ASSUME NEW k, Serving(k)
  PROVE  Frees(k, MissedTicks(k))
<1>1. PICK N \in Nat : N = k.missedTicks
  BY DEF Serving, Parted, IsKernel
<1>2. PICK after : /\ after[0] = k /\ MissedTicks(k) = [after[N] EXCEPT !.missedTicks = 0]
                   /\ \A n \in 0 .. N - 1 : after[n + 1] = IncrementTick(after[n])
  BY <1>1, MissedTicksRuns DEF Serving, Parted
<1> DEFINE S == {n \in Nat : n <= N => Frees(k, after[n])}
<1>3. 0 \in S
  BY <1>2, FreesNobody
<1>4. ASSUME NEW n \in S PROVE n + 1 \in S
  <2>1. SUFFICES ASSUME n + 1 <= N PROVE Frees(k, after[n + 1])
    OBVIOUS
  <2>2. Frees(k, after[n])
    BY <2>1
  <2>3. after[n + 1] = IncrementTick(after[n])
    BY <1>2, <2>1
  <2>4. Frees(after[n], after[n + 1])
    BY <2>2, <2>3, IncrementTickFrees DEF Frees
  <2>5. QED
    BY <2>2, <2>4, FreesTwice
<1>5. S = Nat
  <2> HIDE DEF S
  <2>1. S \in SUBSET Nat
    BY DEF S
  <2>2. QED
    BY <1>3, <1>4, <2>1, SetInduction
<1> DEFINE l == after[N]
           m == MissedTicks(k)
<1>6. Frees(k, l)
  BY <1>5
<1>7. m = [l EXCEPT !.missedTicks = 0]
  BY <1>2
<1> HIDE DEF l
<1>8. /\ m.topReady = l.topReady /\ m.priority = l.priority /\ m.base = l.base
      /\ m.ready = l.ready /\ m.event = l.event /\ m.pending = l.pending
      /\ m.current = l.current /\ m.delayed = l.delayed /\ m.overflow = l.overflow
  BY <1>6, <1>7 DEF Frees, Serving, Parted, IsKernel, Fields
<1>9. IsKernel(m)
  BY MissedTicksPreserves DEF Serving, Parted, Preserves
<1> HIDE DEF m
<1>10. Frees(l, m)
  BY <1>6, <1>8, <1>9, OnlyTimesFrees DEF OnlyTimes, Frees, Serving, Parted
<1>11. QED
  BY <1>6, <1>10, FreesTwice DEF m

LEMMA SuspendAllFrees ==
  ASSUME NEW k, Serving(k)
  PROVE  Frees(k, SuspendAll(k)) /\ SuspendAll(k).event = k.event
<1> DEFINE l == SuspendAll(k)
<1>1. /\ l.topReady = k.topReady /\ l.priority = k.priority /\ l.base = k.base
      /\ l.ready = k.ready /\ l.event = k.event /\ l.pending = k.pending
      /\ l.current = k.current /\ l.delayed = k.delayed /\ l.overflow = k.overflow
  BY DEF Serving, Parted, IsKernel, SuspendAll, Fields
<1>2. IsKernel(l)
  BY SuspendAllPreserves DEF Serving, Parted
<1> HIDE DEF l
<1>3. Frees(k, l)
  BY <1>1, <1>2, OnlyTimesFrees DEF OnlyTimes, Serving, Parted
<1>4. QED
  BY <1>1, <1>3 DEF l

LEMMA ResumeAllFrees ==
  ASSUME NEW k, Serving(k)
  PROVE  /\ Frees(k, ResumeAll(k))
         /\ AlreadyYields(k) => Listed(ResumeAll(k), ResumeAll(k).current)
<1> DEFINE l == [k EXCEPT !.suspendDepth = @ - 1]
           r == MakeReady(l, l.pending)
           m == MissedTicks(r)
           n == [m EXCEPT !.missedYield = FALSE]
<1>1. /\ l = [x \in Fields |-> l[x]] /\ l.missedTicks = k.missedTicks
      /\ l.suspendDepth = k.suspendDepth - 1 /\ l.numberOfTasks = k.numberOfTasks
      /\ l.topReady = k.topReady /\ l.priority = k.priority /\ l.base = k.base
      /\ l.ready = k.ready /\ l.event = k.event /\ l.pending = k.pending
      /\ l.current = k.current /\ l.delayed = k.delayed /\ l.overflow = k.overflow
  BY DEF Serving, Parted, IsKernel, Fields
<1>2. ResumeAll(k) = IF l.suspendDepth > 0 \/ l.numberOfTasks = 0 THEN l
                     ELSE IF AlreadyYields(k) THEN SwitchContext(n) ELSE m
  BY DEF ResumeAll
<1> HIDE DEF l
<1>3. IsKernel(l)
  BY <1>1 DEF Serving, Parted, IsKernel
<1>4. Frees(k, l)
  BY <1>1, <1>3, OnlyTimesFrees DEF OnlyTimes, Serving, Parted
<1>5. Frees(l, r)
  <2>1. Serving(l) /\ l.pending \in Seq(AnyTask)
    BY <1>4 DEF Frees, Serving, Parted
  <2>2. QED
    BY <2>1, MakeReadyFrees
<1> HIDE DEF r
<1>6. Frees(r, m)
  BY <1>5, MissedTicksFrees DEF Frees
<1>7. Preserves(l, m)
  <2>1. Preserves(l, r)
    BY <1>3, MakeReadyPreserves DEF IsKernel, r
  <2>2. Preserves(r, m)
    BY <2>1, MissedTicksPreserves DEF Preserves
  <2>3. QED
    BY <2>1, <2>2, PreservesIsOrder
<1> HIDE DEF m
<1>8. Frees(k, m)
  BY <1>4, <1>5, <1>6, FreesTwice
<1>9. /\ n = [x \in Fields |-> n[x]] /\ n.missedTicks = m.missedTicks
      /\ n.suspendDepth = m.suspendDepth
      /\ n.topReady = m.topReady /\ n.priority = m.priority /\ n.base = m.base
      /\ n.ready = m.ready /\ n.event = m.event /\ n.pending = m.pending
      /\ n.current = m.current /\ n.delayed = m.delayed /\ n.overflow = m.overflow
  BY <1>8 DEF Frees, Serving, Parted, IsKernel, Fields
<1> HIDE DEF n
<1>10. IsKernel(n)
  BY <1>8, <1>9 DEF Frees, Serving, Parted, IsKernel
<1>11. Frees(m, n)
  BY <1>8, <1>9, <1>10, OnlyTimesFrees DEF OnlyTimes, Frees, Serving, Parted
<1>12. Frees(k, n)
  BY <1>8, <1>11, FreesTwice
<1>13. /\ Frees(n, SwitchContext(n))
       /\ ~(n.suspendDepth > 0) => Listed(SwitchContext(n), SwitchContext(n).current)
  BY <1>12, SwitchContextFrees DEF Frees
<1>14. Frees(k, SwitchContext(n))
  BY <1>12, <1>13, FreesTwice
<1>15. Frees(k, ResumeAll(k))
  BY <1>2, <1>4, <1>8, <1>14
<1>16. ASSUME AlreadyYields(k)
       PROVE  Listed(ResumeAll(k), ResumeAll(k).current)
  <2>1. l.suspendDepth = 0 /\ l.numberOfTasks # 0
    BY <1>1, <1>16 DEF AlreadyYields
  <2>2. n.suspendDepth = 0
    BY <1>7, <1>9, <2>1 DEF Preserves
  <2>3. QED
    BY <1>2, <1>13, <1>16, <2>1, <2>2
<1>17. QED
  BY <1>15, <1>16

\* The first task of an event list waits no longer.
LEMMA RemoveFromEventListFrees ==
  ASSUME NEW k, Serving(k), NEW e \in Event, k.event[e] # <<>>
  PROVE  LET l == RemoveFromEventList(k, e)
         IN  Frees(k, l) /\ Head(k.event[e]) \notin ToSet(l.event[e])
<1> DEFINE r == RemoveEvent(k, Head(k.event[e]))
           m == [r EXCEPT !.pending = Append(@, Head(k.event[e]))]
<1>1. RemoveFromEventList(k, e) =
        IF k.suspendDepth > 0 THEN m ELSE MakeReady(k, <<Head(k.event[e])>>)
  BY DEF RemoveFromEventList
<1>2. PICK t \in AnyTask : t = Head(k.event[e])
  BY TailOfList DEF Serving, Parted
<1>3. CASE ~(k.suspendDepth > 0)
  <2>1. PICK s \in Seq(AnyTask) : s = <<t>> /\ Len(s) = 1 /\ s[1] = t
    <3>1. <<t>> \in Seq(AnyTask) /\ Len(<<t>>) = 1 /\ <<t>>[1] = t
      OBVIOUS
    <3>2. QED
      BY <3>1
  <2>2. Frees(k, MakeReady(k, s)) /\ \A i \in 1 .. Len(s) : Listed(MakeReady(k, s), s[i])
    BY <2>1, MakeReadyFrees
  <2>3. Listed(MakeReady(k, s), t)
    BY <2>1, <2>2
  <2>4. t \notin ToSet(MakeReady(k, s).event[e])
    BY <2>2, <2>3 DEF Frees, Serving, Parted
  <2>5. QED
    BY <1>1, <1>2, <1>3, <2>1, <2>2, <2>4
<1>4. CASE k.suspendDepth > 0
  <2>1. /\ Parted(r) /\ r.ready = k.ready /\ r.current = k.current
        /\ \A f \in Event : ToSet(r.event[f]) = ToSet(k.event[f]) \ {t}
    <3>1. r = RemoveEvent(k, t)
      BY <1>2
    <3>2. Parted(k)
      BY DEF Serving
    <3> HIDE DEF r
    <3>3. QED
      BY <3>1, <3>2, RemoveEventParts
  <2> HIDE DEF r
  <2>2. /\ m = [x \in Fields |-> m[x]] /\ m.missedTicks = r.missedTicks
        /\ m.topReady = r.topReady /\ m.priority = r.priority /\ m.base = r.base
        /\ m.ready = r.ready /\ m.event = r.event
        /\ m.pending = Append(r.pending, t)
        /\ m.current = r.current /\ m.delayed = r.delayed /\ m.overflow = r.overflow
    BY <1>2, <2>1 DEF Parted, IsKernel, Fields
  <2> HIDE DEF m
  <2>3. Append(r.pending, t) \in Seq(AnyTask) /\ IsList(Append(r.pending, t))
    BY <2>1, AppendIsList DEF Parted, IsKernel
  <2>4. IsKernel(m)
    BY <2>1, <2>2, <2>3 DEF Parted, IsKernel
  <2>5. Parted(m)
    BY <2>1, <2>2, <2>3, <2>4 DEF Parted, Listed
  <2>6. Frees(k, m)
    BY <2>1, <2>2, <2>5 DEF Frees, Serving, Listed
  <2>7. QED
    BY <1>1, <1>2, <1>4, <2>1, <2>2, <2>6
<1>5. QED
  BY <1>3, <1>4

\* A ready task goes to the end of the ready list of its priority.
LEMMA ReinsertFrees ==
  ASSUME NEW k, Serving(k), NEW t \in Task, Listed(k, t)
  PROVE  LET l == AddTaskToReadyQueue(RemoveGeneric(k, t), t)
         IN  Frees(k, l) /\ l.event = k.event /\ l.current = k.current
<1> DEFINE m == RemoveGeneric(k, t)
           n == AddTaskToReadyQueue(m, t)
<1>1. t \in AnyTask /\ t # Idle /\ \A e \in Event : t \notin ToSet(k.event[e])
  BY KernelAssumption DEF AnyTask, Serving, Parted
<1>2. /\ Parted(m) /\ m.event = k.event /\ m.current = k.current
      /\ \A p \in Priority : ToSet(m.ready[p]) = ToSet(k.ready[p]) \ {t}
  BY RemoveGenericParts DEF Serving
<1> HIDE DEF m
<1>3. ~Listed(m, t)
  BY <1>2 DEF Listed
<1>4. /\ Parted(n) /\ n.event = m.event /\ n.current = m.current
      /\ ToSet(n.ready[m.priority[t]]) = ToSet(m.ready[m.priority[t]]) \cup {t}
      /\ \A p \in Priority \ {m.priority[t]} : n.ready[p] = m.ready[p]
  BY <1>1, <1>2, <1>3, AddTaskParts
<1> HIDE DEF n
<1>5. m.priority[t] \in Priority
  BY <1>1, <1>2 DEF Parted
<1>6. Listed(n, t)
  BY <1>4, <1>5 DEF Listed
<1>7. ASSUME NEW u, u # t, NEW p \in Priority, u \in ToSet(k.ready[p])
      PROVE  u \in ToSet(n.ready[p])
  BY <1>2, <1>4, <1>7
<1>8. \A u : Listed(k, u) => Listed(n, u)
  BY <1>6, <1>7 DEF Listed
<1>9. Idle \in ToSet(n.ready[0])
  BY <1>1, <1>7, KernelAssumption DEF Priority, Serving
<1>10. QED
  BY <1>2, <1>4, <1>8, <1>9 DEF Frees, Serving, m, n

LEMMA ChangePriorityFrees ==
  ASSUME NEW k, Serving(k), NEW t \in Task, NEW p \in Priority
  PROVE  LET l == ChangePriority(k, t, p)
         IN  Frees(k, l) /\ l.event = k.event /\ l.current = k.current
<1> DEFINE l == [k EXCEPT !.priority[t] = p, !.urgency[t] = p]
           n == AddTaskToReadyQueue(RemoveGeneric(l, t), t)
<1>1. ChangePriority(k, t, p) = IF InReady(k, t) THEN n ELSE l
  BY DEF ChangePriority
<1>2. /\ l = [x \in Fields |-> l[x]]
      /\ l.priority = [u \in AnyTask |-> IF u = t THEN p ELSE k.priority[u]]
      /\ l.base = k.base /\ l.topReady = k.topReady /\ l.missedTicks = k.missedTicks
      /\ l.ready = k.ready /\ l.event = k.event /\ l.pending = k.pending
      /\ l.current = k.current /\ l.delayed = k.delayed /\ l.overflow = k.overflow
  BY DEF Serving, Parted, IsKernel, Fields
<1> HIDE DEF l
<1>3. IsKernel(l)
  BY <1>2 DEF Serving, Parted, IsKernel
<1>4. t # Idle /\ t \in AnyTask /\ Idle \in AnyTask
  BY KernelAssumption DEF AnyTask
<1>5. /\ \A u \in AnyTask : l.priority[u] \in Priority
      /\ l.priority[Idle] = 0
  BY <1>2, <1>4 DEF Serving, Parted
<1>6. Frees(k, l)
  BY <1>2, <1>3, <1>5 DEF Frees, Serving, Parted, Listed
<1>7. ASSUME InReady(k, t)
      PROVE  Frees(k, n) /\ n.event = k.event /\ n.current = k.current
  <2>1. Listed(l, t)
    BY <1>2, <1>4, <1>7 DEF InReady, Listed, Serving, Parted
  <2>2. Serving(l)
    BY <1>6 DEF Frees
  <2>3. Frees(l, n) /\ n.event = l.event /\ n.current = l.current
    BY <2>1, <2>2, ReinsertFrees
  <2> HIDE DEF n
  <2>4. QED
    BY <1>2, <1>6, <2>3, FreesTwice
<1> HIDE DEF n
<1>8. QED
  BY <1>1, <1>2, <1>6, <1>7

LEMMA PriorityInheritFrees ==
  ASSUME NEW k, Serving(k), NEW t \in Task, k.current \in AnyTask
  PROVE  LET l == PriorityInherit(k, t)
         IN  Frees(k, l) /\ l.event = k.event /\ l.current = k.current
<1>1. k.priority[k.current] \in Priority
  BY DEF Serving, Parted
<1>2. QED
  BY <1>1, ChangePriorityFrees, FreesNobody DEF PriorityInherit

LEMMA PriorityDisinheritFrees ==
  ASSUME NEW k, Serving(k), NEW t \in Task \cup {NoTask}
  PROVE  LET l == PriorityDisinherit(k, t)
         IN  Frees(k, l) /\ l.event = k.event /\ l.current = k.current
<1>1. t \in Task => k.base[t] \in Priority
  BY DEF Serving, Parted, AnyTask
<1>2. QED
  BY <1>1, ChangePriorityFrees, FreesNobody DEF PriorityDisinherit

LEMMA PrioritySetFrees ==
  ASSUME NEW k, Serving(k), NEW t \in Task, NEW p \in Priority
  PROVE  Frees(k, PrioritySet(k, t, p)) /\ PrioritySet(k, t, p).event = k.event
<1> DEFINE l == [k EXCEPT !.base[t] = p, !.urgency[t] = p,
                          !.priority[t] = IF @ = k.base[t] THEN p ELSE @]
           n == AddTaskToReadyQueue(RemoveGeneric(l, t), t)
           m == IF t \in ToSet(k.ready[k.base[t]]) THEN n ELSE l
           yields == IF p > k.base[t] THEN t # k.current ELSE t = k.current
<1>1. PrioritySet(k, t, p) = IF k.base[t] = p THEN k ELSE YieldIf(yields, m)
  BY DEF PrioritySet
<1>2. /\ l = [x \in Fields |-> l[x]]
      /\ l.priority = [u \in AnyTask |-> IF u = t /\ k.priority[t] = k.base[t]
                                         THEN p ELSE k.priority[u]]
      /\ l.base = [u \in AnyTask |-> IF u = t THEN p ELSE k.base[u]]
      /\ l.topReady = k.topReady /\ l.missedTicks = k.missedTicks
      /\ l.ready = k.ready /\ l.event = k.event /\ l.pending = k.pending
      /\ l.current = k.current /\ l.delayed = k.delayed /\ l.overflow = k.overflow
  BY DEF Serving, Parted, IsKernel, Fields
<1> HIDE DEF l, yields
<1>3. IsKernel(l)
  BY <1>2 DEF Serving, Parted, IsKernel
<1>4. t # Idle /\ t \in AnyTask /\ Idle \in AnyTask
  BY KernelAssumption DEF AnyTask
<1>5. /\ \A u \in AnyTask : l.priority[u] \in Priority /\ l.base[u] \in Priority
      /\ l.priority[Idle] = 0
  BY <1>2, <1>4 DEF Serving, Parted
<1>6. Frees(k, l)
  BY <1>2, <1>3, <1>5 DEF Frees, Serving, Parted, Listed
<1>7. Frees(k, m) /\ m.event = k.event
  <2>1. ASSUME t \in ToSet(k.ready[k.base[t]])
        PROVE  Frees(k, n) /\ n.event = k.event
    <3>1. Listed(l, t)
      BY <1>2, <1>4, <2>1 DEF Listed, Serving, Parted
    <3>2. Serving(l)
      BY <1>6 DEF Frees
    <3>3. Frees(l, n) /\ n.event = l.event
      BY <3>1, <3>2, ReinsertFrees
    <3> HIDE DEF n
    <3>4. QED
      BY <1>2, <1>6, <3>3, FreesTwice
  <2> HIDE DEF n
  <2>2. QED
    BY <1>2, <1>6, <2>1
<1> HIDE DEF m
<1>8. Frees(m, YieldIf(yields, m)) /\ YieldIf(yields, m).event = m.event
  BY <1>7, YieldIfFrees DEF Frees
<1>9. Frees(k, YieldIf(yields, m))
  BY <1>7, <1>8, FreesTwice
<1>10. QED
  BY <1>1, <1>7, <1>8, <1>9, FreesNobody

\* The running task begins to wait for e, and is the only one.
LEMMA PlaceOnEventListServes ==
  ASSUME NEW k, Serving(k), k.current \in Task, NEW e \in Event, NEW ticks,
         \A f \in Event : k.current \notin ToSet(k.event[f])
  PROVE  LET l == PlaceOnEventList(k, e, ticks)
         IN  /\ Serving(l) /\ l.current = k.current
             /\ ToSet(l.event[e]) = ToSet(k.event[e]) \cup {k.current}
             /\ \A f \in Event \ {e} : l.event[f] = k.event[f]
<1> DEFINE t == k.current
           z == PlaceOnEventList(k, e, ticks)
           lessUrgent == {u \in DOMAIN k.urgency : k.urgency[u] < k.urgency[t]}
           l == [k EXCEPT !.event[e] = ListInsert(@, t, lessUrgent)]
           r == RemoveGeneric(l, t)
           m == [r EXCEPT !.suspended = @ \cup {t}]
           time == Ticks(k.tickCount + ticks)
           s == [r EXCEPT !.wake[t] = time]
           later == {u \in DOMAIN s.wake : s.wake[u] > time}
           over == [s EXCEPT !.overflow = ListInsert(@, t, later)]
           soon == [s EXCEPT !.delayed = ListInsert(@, t, later),
                             !.nextUnblock = IF time < @ THEN time ELSE @]
<1>1. t \in AnyTask /\ t # Idle
  BY KernelAssumption DEF AnyTask
<1>2. /\ l = [x \in Fields |-> l[x]]
      /\ l.priority = k.priority /\ l.base = k.base /\ l.topReady = k.topReady
      /\ l.ready = k.ready /\ l.pending = k.pending /\ l.current = k.current
      /\ l.delayed = k.delayed /\ l.overflow = k.overflow
      /\ l.event = [k.event EXCEPT ![e] = ListInsert(@, t, lessUrgent)]
  BY DEF Serving, Parted, IsKernel, Fields
<1>3. z = IF ticks = MaxDelay THEN m ELSE IF time < s.tickCount THEN over ELSE soon
  BY <1>2, SMTT(60) DEF PlaceOnEventList, AddCurrentTaskToDelayedList
<1> HIDE DEF lessUrgent, l, time
<1>4. /\ r = [x \in Fields |-> r[x]]
      /\ r.priority = l.priority /\ r.base = l.base /\ r.topReady = l.topReady
      /\ r.event = l.event /\ r.pending = l.pending /\ r.current = l.current
      /\ r.ready = [p \in Priority |-> ListRemove(l.ready[p], t)]
      /\ r.delayed = ListRemove(l.delayed, t) /\ r.overflow = ListRemove(l.overflow, t)
  BY <1>2, ZenonT(30) DEF RemoveGeneric, Fields
<1> HIDE DEF r
<1>5. /\ s = [x \in Fields |-> s[x]]
      /\ s.priority = r.priority /\ s.base = r.base /\ s.topReady = r.topReady
      /\ s.event = r.event /\ s.pending = r.pending /\ s.current = r.current
      /\ s.ready = r.ready /\ s.delayed = r.delayed /\ s.overflow = r.overflow
  BY <1>4 DEF Fields
<1> HIDE DEF s, later
<1>6. /\ z.priority = r.priority /\ z.base = r.base /\ z.topReady = r.topReady
      /\ z.event = r.event /\ z.pending = r.pending /\ z.current = r.current
      /\ z.ready = r.ready
      /\ z.delayed \in {r.delayed, ListInsert(r.delayed, t, later)}
      /\ z.overflow \in {r.overflow, ListInsert(r.overflow, t, later)}
  <2>1. CASE z = m
    BY <1>4, <2>1 DEF Fields
  <2>2. CASE z = over
    BY <1>5, <2>2 DEF Fields
  <2>3. CASE z = soon
    BY <1>5, <2>3 DEF Fields
  <2>4. QED
    BY <1>3, <2>1, <2>2, <2>3
<1>7. IsKernel(z)
  BY PlaceOnEventListPreserves DEF Serving, Parted, Preserves
<1> HIDE DEF z, m, over, soon
<1>8. r.delayed \in Seq(AnyTask) /\ r.overflow \in Seq(AnyTask)
  BY <1>2, <1>4, RemoveTyped DEF Serving, Parted
<1>9. z.delayed \in Seq(AnyTask) /\ z.overflow \in Seq(AnyTask)
  BY <1>1, <1>6, <1>8, InsertTyped
<1>10. \A p \in Priority : Once(z.ready[p]) /\ ToSet(z.ready[p]) = ToSet(k.ready[p]) \ {t}
  BY <1>2, <1>4, <1>6, RemoveOnce DEF Serving, Parted
<1>11. z.ready = [p \in Priority |-> z.ready[p]]
  BY <1>4, <1>6
<1>12. /\ z.event = [f \in Event |-> z.event[f]]
       /\ z.event[e] = ListInsert(k.event[e], t, lessUrgent)
       /\ \A f \in Event \ {e} : z.event[f] = k.event[f]
  BY <1>2, <1>4, <1>6 DEF Serving, Parted
<1>13. Once(z.event[e]) /\ ToSet(z.event[e]) = ToSet(k.event[e]) \cup {t}
  <2>1. Once(k.event[e]) /\ t \notin ToSet(k.event[e])
    BY DEF Serving, Parted
  <2>2. PICK q : q = k.event[e]
    OBVIOUS
  <2>3. /\ Once(ListInsert(q, t, lessUrgent))
        /\ ToSet(ListInsert(q, t, lessUrgent)) = ToSet(q) \cup {t}
    <3> HIDE DEF t
    <3>1. QED
      BY <1>1, <2>1, <2>2, InsertIntoList
  <2>4. QED
    BY <1>12, <2>2, <2>3
<1>14. \A f \in Event : \A u \in ToSet(z.event[f]) : ~Listed(z, u)
  <2>1. \A u : Listed(z, u) => Listed(k, u) /\ u # t
    BY <1>10 DEF Listed
  <2>2. \A f \in Event : \A u \in ToSet(z.event[f]) : u \in ToSet(k.event[f]) \/ u = t
    BY <1>12, <1>13
  <2>3. QED
    BY <2>1, <2>2 DEF Serving, Parted
<1>15. \A f \in Event : Once(z.event[f])
  BY <1>12, <1>13 DEF Serving, Parted
<1>16. Parted(z)
  BY <1>2, <1>4, <1>6, <1>7, <1>9, <1>10, <1>11, <1>12, <1>14, <1>15 DEF Serving, Parted
<1>17. Idle \in ToSet(z.ready[0])
  BY <1>1, <1>10, KernelAssumption DEF Serving, Priority
<1>18. QED
  BY <1>2, <1>4, <1>6, <1>12, <1>13, <1>16, <1>17 DEF Serving, z

\* Before the scheduler starts: nobody waits, and the tasks created so far are ready.
Booting(k) == Parted(k) /\ k.running = FALSE /\ \A e \in Event : k.event[e] = <<>>

LEMMA BootIsBooting == Booting(BootKernel) /\ \A t : ~Listed(BootKernel, t)
<1> DEFINE k == BootKernel
<1>1. IsKernel(k)
  BY BootPreserves
<1>2. /\ k.topReady = 0 /\ k.running = FALSE
      /\ k.priority = [t \in AnyTask |-> 0] /\ k.base = [t \in AnyTask |-> 0]
      /\ k.ready = [p \in Priority |-> <<>>] /\ k.event = [e \in Event |-> <<>>]
      /\ k.delayed = <<>> /\ k.overflow = <<>> /\ k.pending = <<>>
  BY DEF BootKernel
<1> HIDE DEF k
<1>3. 0 \in Priority /\ Idle \in AnyTask /\ <<>> \in Seq(AnyTask)
  BY KernelAssumption DEF Priority, AnyTask
<1>4. \A t : ~Listed(k, t)
  BY <1>2, EmptyOnce DEF Listed
<1>5. \A e \in Event : Once(k.event[e]) /\ ToSet(k.event[e]) = {}
  BY <1>2, EmptyOnce
<1>6. \A p \in Priority : Once(k.ready[p])
  BY <1>2, EmptyOnce
<1>7. Parted(k)
  BY <1>1, <1>2, <1>3, <1>5, <1>6 DEF Parted
<1>8. QED
  BY <1>2, <1>4, <1>7 DEF Booting, k

LEMMA CreateBoots ==
  ASSUME NEW k, Booting(k), NEW t \in AnyTask, ~Listed(k, t),
         NEW p \in Priority, t = Idle => p = 0
  PROVE  LET l == Create(k, t, p)
         IN  /\ Booting(l) /\ t \in ToSet(l.ready[p])
             /\ \A u : Listed(l, u) => Listed(k, u) \/ u = t
<1> DEFINE first == k.current = NoTask
           urgent == first \/ (~k.running /\ k.priority[k.current] <= p)
           l == [k EXCEPT !.numberOfTasks = @ + 1,
                          !.priority[t] = p, !.base[t] = p, !.urgency[t] = p,
                          !.current = IF urgent THEN t ELSE @]
           m == AddTaskToReadyQueue(l, t)
<1>1. Create(k, t, p) = m
  BY DEF Create, YieldIf, Booting
<1> HIDE DEF urgent
<1>2. /\ l = [x \in Fields |-> l[x]]
      /\ l.priority = [u \in AnyTask |-> IF u = t THEN p ELSE k.priority[u]]
      /\ l.base = [u \in AnyTask |-> IF u = t THEN p ELSE k.base[u]]
      /\ l.topReady = k.topReady /\ l.missedTicks = k.missedTicks
      /\ l.ready = k.ready /\ l.event = k.event /\ l.pending = k.pending
      /\ l.delayed = k.delayed /\ l.overflow = k.overflow /\ l.running = k.running
  BY ZenonT(30) DEF Booting, Parted, IsKernel, Fields
<1> HIDE DEF l
<1>3. IsKernel(l)
  BY <1>2 DEF Booting, Parted, IsKernel
<1>4. Idle \in AnyTask
  BY DEF AnyTask
<1>5. /\ \A u \in AnyTask : l.priority[u] \in Priority /\ l.base[u] \in Priority
      /\ l.priority[Idle] = 0 /\ l.priority[t] = p
  BY <1>2, <1>4 DEF Booting, Parted
<1>6. Parted(l) /\ ~Listed(l, t) /\ \A e \in Event : t \notin ToSet(l.event[e])
  BY <1>2, <1>3, <1>5, EmptyOnce DEF Booting, Parted, Listed
<1>7. /\ Parted(m) /\ m.event = l.event
      /\ ToSet(m.ready[p]) = ToSet(l.ready[p]) \cup {t}
      /\ \A o \in Priority \ {p} : m.ready[o] = l.ready[o]
  BY <1>5, <1>6, AddTaskParts
<1>8. m.running = FALSE
  BY <1>2, <1>3 DEF AddTaskToReadyQueue, IsKernel, Fields, Booting
<1> HIDE DEF m
<1>9. Booting(m)
  BY <1>2, <1>7, <1>8 DEF Booting
<1>10. \A u : Listed(m, u) => Listed(k, u) \/ u = t
  BY <1>2, <1>7 DEF Listed
<1>11. QED
  BY <1>1, <1>7, <1>9, <1>10

LEMMA StartSchedulerServes ==
  ASSUME NEW k, Booting(k), ~Listed(k, Idle)
  PROVE  LET l == StartScheduler(k)
         IN  Serving(l) /\ \A e \in Event : l.event[e] = <<>>
<1> DEFINE l == Create(k, Idle, 0)
           m == [l EXCEPT !.running = TRUE, !.tickCount = 0]
<1>1. 0 \in Priority /\ Idle \in AnyTask
  BY KernelAssumption DEF Priority, AnyTask
<1>2. Booting(l) /\ Idle \in ToSet(l.ready[0])
  BY <1>1, CreateBoots
<1> HIDE DEF l
<1>3. /\ m = [x \in Fields |-> m[x]] /\ m.missedTicks = l.missedTicks
      /\ m.topReady = l.topReady /\ m.priority = l.priority /\ m.base = l.base
      /\ m.ready = l.ready /\ m.event = l.event /\ m.pending = l.pending
      /\ m.current = l.current /\ m.delayed = l.delayed /\ m.overflow = l.overflow
  BY <1>2 DEF Booting, Parted, IsKernel, Fields
<1> HIDE DEF m
<1>4. IsKernel(m)
  BY <1>2, <1>3 DEF Booting, Parted, IsKernel
<1>5. Serving(m)
  BY <1>2, <1>3, <1>4 DEF Booting, Serving, Parted, Listed
<1>6. QED
  BY <1>2, <1>3, <1>5 DEF Booting, StartScheduler, l, m

-----------------------------------------------------------------------------
(* Where the tasks of a kernel are *)

ReadyTasks(k) == {t \in AnyTask : InReady(k, t)}
Asleep(k) == Blocked(k) \cup k.suspended
Present(k) == ReadyTasks(k) \cup Blocked(k)

\* No task is in two places.
Apart(k) ==
  \A t \in AnyTask :
    /\ InReady(k, t) => t \notin Asleep(k) /\ t \notin ToSet(k.terminating)
    /\ t \in ToSet(k.delayed) => t \notin ToSet(k.overflow) /\ t \notin k.suspended
                                 /\ t \notin ToSet(k.terminating)
    /\ t \in ToSet(k.overflow) => t \notin k.suspended /\ t \notin ToSet(k.terminating)
    /\ t \in k.suspended => t \notin ToSet(k.terminating)

ReadyListsInv(k) ==
  /\ k.ready = [p \in Priority |-> k.ready[p]]
  /\ \A p \in Priority : Once(k.ready[p])
  /\ \A p \in Priority : \A t \in ToSet(k.ready[p]) : k.priority[t] = p /\ p <= k.topReady

\* The lists are well formed, whatever the counters say.
Tidy(k) ==
  /\ IsKernel(k)
  /\ k.priority \in [AnyTask -> Priority] /\ k.wake \in [AnyTask -> Tick]
  /\ k.topReady \in Priority
  /\ ReadyListsInv(k)
  /\ Once(k.delayed) /\ Once(k.overflow) /\ Once(k.pending) /\ Once(k.terminating)
  /\ k.suspended \subseteq AnyTask
  /\ InOrder(k.delayed, k.wake) /\ InOrder(k.overflow, k.wake)
  /\ Apart(k)

\* What a move of tasks between lists leaves alone.
Untouched(k, l) ==
  /\ l.current = k.current /\ l.running = k.running
  /\ l.priority = k.priority /\ l.base = k.base
  /\ l.numberOfTasks = k.numberOfTasks /\ l.tasksDeleted = k.tasksDeleted
  /\ l.suspendDepth = k.suspendDepth /\ l.missedYield = k.missedYield
Rest(k, l) == Untouched(k, l) /\ SameTime(k, l)

\* t is in none of the scheduler's lists any more.
TakenOut(k, l, t) ==
  /\ ReadyTasks(l) = ReadyTasks(k) \ {t}
  /\ ToSet(l.delayed) = ToSet(k.delayed) \ {t} /\ ToSet(l.overflow) = ToSet(k.overflow) \ {t}
  /\ l.suspended = k.suspended \ {t}
  /\ t \notin ToSet(k.terminating) => l.terminating = k.terminating
  /\ t \notin ToSet(l.terminating)
  /\ l.wake = [k.wake EXCEPT ![t] = 0] /\ l.nextUnblock = k.nextUnblock

LEMMA ReadyTask ==
  ASSUME NEW k, ReadyListsInv(k), k.priority \in [AnyTask -> Priority]
  PROVE  /\ \A p \in Priority : \A t \in ToSet(k.ready[p]) : t \in AnyTask /\ InReady(k, t)
         /\ \A t \in AnyTask : InReady(k, t) => k.priority[t] <= k.topReady
BY NothingInList DEF ReadyListsInv, InReady

LEMMA RemoveGenericMoves ==
  ASSUME NEW k, Tidy(k), NEW t \in AnyTask
  PROVE  LET l == RemoveGeneric(k, t)
         IN  /\ Tidy(l) /\ Rest(k, l) /\ TakenOut(k, l, t)
             /\ l.pending = k.pending /\ l.topReady = k.topReady
<1> DEFINE l == RemoveGeneric(k, t)
<1>1. /\ l = [x \in Fields |-> l[x]]
      /\ l.ready = [p \in Priority |-> ListRemove(k.ready[p], t)]
      /\ l.delayed = ListRemove(k.delayed, t) /\ l.overflow = ListRemove(k.overflow, t)
      /\ l.suspended = k.suspended \ {t} /\ l.terminating = ListRemove(k.terminating, t)
      /\ l.wake = [k.wake EXCEPT ![t] = 0]
  BY DEF Tidy, IsKernel, RemoveGeneric, Fields
<1>2. /\ Rest(k, l) /\ l.pending = k.pending /\ l.topReady = k.topReady
      /\ l.nextUnblock = k.nextUnblock
  BY DEF Tidy, IsKernel, RemoveGeneric, Fields, Rest, Untouched, SameTime
<1>3. IsKernel(l)
  BY RemoveGenericPreserves DEF Tidy, Preserves
<1> HIDE DEF l
<1>4. \A p \in Priority : Once(l.ready[p]) /\ ToSet(l.ready[p]) = ToSet(k.ready[p]) \ {t}
  BY <1>1, RemoveOnce DEF Tidy, ReadyListsInv
<1>5. /\ Once(l.delayed) /\ ToSet(l.delayed) = ToSet(k.delayed) \ {t}
      /\ Once(l.overflow) /\ ToSet(l.overflow) = ToSet(k.overflow) \ {t}
      /\ Once(l.terminating) /\ ToSet(l.terminating) = ToSet(k.terminating) \ {t}
      /\ t \notin ToSet(k.terminating) => l.terminating = k.terminating
  BY <1>1, RemoveOnce DEF Tidy
<1>6. l.wake \in [AnyTask -> Tick] /\ \A u \in AnyTask \ {t} : l.wake[u] = k.wake[u]
  BY <1>1, KernelAssumption DEF Tidy, Tick
<1>7. InOrder(l.delayed, l.wake) /\ InOrder(l.overflow, l.wake)
  <2>1. ToSet(k.delayed) \subseteq AnyTask /\ ToSet(k.overflow) \subseteq AnyTask
    BY NothingInList DEF Tidy
  <2>2. QED
    BY <1>1, <1>6, <2>1, RemoveFromList DEF Tidy
<1>8. ReadyListsInv(l)
  <2>1. l.ready = [p \in Priority |-> l.ready[p]]
    BY <1>1
  <2>2. \A p \in Priority : \A u \in ToSet(l.ready[p]) : l.priority[u] = p /\ p <= l.topReady
    BY <1>2, <1>4 DEF Tidy, ReadyListsInv, Rest, Untouched
  <2>3. QED
    BY <1>4, <2>1, <2>2 DEF ReadyListsInv
<1>9. \A u \in AnyTask : InReady(l, u) <=> InReady(k, u) /\ u # t
  BY <1>2, <1>4 DEF Tidy, InReady, Rest, Untouched
<1>10. TakenOut(k, l, t)
  BY <1>1, <1>2, <1>5, <1>9 DEF TakenOut, ReadyTasks
<1>11. Apart(l)
  BY <1>1, <1>5, <1>9 DEF Tidy, Apart, Asleep, Blocked
<1>12. Tidy(l)
  BY <1>1, <1>2, <1>3, <1>5, <1>6, <1>7, <1>8, <1>11 DEF Tidy, Rest, Untouched
<1>13. QED
  BY <1>2, <1>10, <1>12 DEF l

LEMMA RemoveEventMoves ==
  ASSUME NEW k, Tidy(k), NEW t \in AnyTask
  PROVE  LET l == RemoveEvent(k, t)
         IN  /\ Tidy(l) /\ Rest(k, l) /\ ToSet(l.pending) = ToSet(k.pending) \ {t}
             /\ l.ready = k.ready /\ l.topReady = k.topReady /\ l.delayed = k.delayed
             /\ l.overflow = k.overflow /\ l.suspended = k.suspended
             /\ l.terminating = k.terminating /\ l.wake = k.wake
             /\ l.nextUnblock = k.nextUnblock
<1> DEFINE l == RemoveEvent(k, t)
<1>1. /\ Rest(k, l) /\ l.ready = k.ready /\ l.topReady = k.topReady /\ l.delayed = k.delayed
      /\ l.overflow = k.overflow /\ l.suspended = k.suspended
      /\ l.terminating = k.terminating /\ l.wake = k.wake
      /\ l.nextUnblock = k.nextUnblock /\ l.pending = ListRemove(k.pending, t)
  BY DEF Tidy, IsKernel, RemoveEvent, Fields, Rest, Untouched, SameTime
<1>2. IsKernel(l)
  BY RemoveEventPreserves DEF Tidy, Preserves
<1> HIDE DEF l
<1>3. Once(l.pending) /\ ToSet(l.pending) = ToSet(k.pending) \ {t}
  BY <1>1, RemoveFromList DEF Tidy
<1>4. Tidy(l)
  BY <1>1, <1>2, <1>3 DEF Tidy, Rest, Untouched, ReadyListsInv, Apart, InReady, Asleep, Blocked
<1>5. QED
  BY <1>1, <1>3, <1>4 DEF l

\* The tasks of S, asleep or ready before, are ready now.
MadeReady(k, l, S) ==
  /\ Tidy(l) /\ Rest(k, l)
  /\ ReadyTasks(l) = ReadyTasks(k) \cup S
  /\ ToSet(l.delayed) = ToSet(k.delayed) \ S /\ ToSet(l.overflow) = ToSet(k.overflow) \ S
  /\ l.suspended = k.suspended \ S /\ l.terminating = k.terminating
  /\ ToSet(l.pending) = ToSet(k.pending) \ S
  /\ \A u \in AnyTask \ S : l.wake[u] = k.wake[u]
  /\ l.nextUnblock = k.nextUnblock

LEMMA AddTaskMoves ==
  ASSUME NEW k, Tidy(k), NEW t \in AnyTask,
         t \notin ReadyTasks(k), t \notin Asleep(k), t \notin ToSet(k.terminating)
  PROVE  LET l == AddTaskToReadyQueue(k, t)
         IN  /\ Tidy(l) /\ Rest(k, l)
             /\ ReadyTasks(l) = ReadyTasks(k) \cup {t}
             /\ l.delayed = k.delayed /\ l.overflow = k.overflow /\ l.suspended = k.suspended
             /\ l.terminating = k.terminating /\ l.pending = k.pending /\ l.wake = k.wake
             /\ l.nextUnblock = k.nextUnblock
<1> DEFINE l == AddTaskToReadyQueue(k, t)
           p == k.priority[t]
<1>1. /\ Rest(k, l) /\ l.delayed = k.delayed /\ l.overflow = k.overflow
      /\ l.suspended = k.suspended /\ l.terminating = k.terminating
      /\ l.pending = k.pending /\ l.wake = k.wake /\ l.nextUnblock = k.nextUnblock
      /\ l.topReady = IF p > k.topReady THEN p ELSE k.topReady
      /\ l.ready = [k.ready EXCEPT ![p] = Append(@, t)]
  BY DEF Tidy, IsKernel, AddTaskToReadyQueue, Fields, Rest, Untouched, SameTime
<1>2. IsKernel(l)
  BY AddTaskPreserves DEF Tidy, Preserves
<1>3. p \in Priority
  BY DEF Tidy
<1>4. Once(k.ready[p]) /\ t \notin ToSet(k.ready[p])
  BY <1>3 DEF Tidy, ReadyListsInv, ReadyTasks, InReady
<1> HIDE DEF l
<1>5. /\ l.ready = [q \in Priority |-> l.ready[q]]
      /\ l.ready[p] = Append(k.ready[p], t)
      /\ \A q \in Priority \ {p} : l.ready[q] = k.ready[q]
  BY <1>1, <1>3 DEF Tidy, ReadyListsInv
<1>6. Once(l.ready[p]) /\ ToSet(l.ready[p]) = ToSet(k.ready[p]) \cup {t}
  <2>1. PICK s : s = k.ready[p]
    OBVIOUS
  <2>2. Once(Append(s, t)) /\ ToSet(Append(s, t)) = ToSet(s) \cup {t}
    BY <1>4, <2>1, AppendToList
  <2>3. QED
    BY <1>5, <2>1, <2>2
<1>7. l.topReady \in Priority /\ p <= l.topReady /\ k.topReady <= l.topReady
  BY <1>1, <1>3, KernelAssumption DEF Tidy, Priority
<1> HIDE DEF p
<1>8. ReadyListsInv(l)
  <2>1. \A q \in Priority : Once(l.ready[q])
    BY <1>5, <1>6 DEF Tidy, ReadyListsInv
  <2>2. ASSUME NEW q \in Priority, NEW u \in ToSet(l.ready[q])
        PROVE  l.priority[u] = q /\ q <= l.topReady
    <3>1. CASE u \in ToSet(k.ready[q])
      <4>1. k.priority[u] = q /\ q <= k.topReady
        BY <3>1 DEF Tidy, ReadyListsInv
      <4>2. q \in Int /\ k.topReady \in Int /\ l.topReady \in Int
        BY <1>7, KernelAssumption DEF Priority, Tidy
      <4>3. QED
        BY <4>1, <4>2, <1>1, <1>7 DEF Rest, Untouched
    <3>2. CASE u \notin ToSet(k.ready[q])
      BY <3>2, <1>1, <1>5, <1>6, <1>7, SMTT(60) DEF p, Rest, Untouched
    <3>3. QED
      BY <3>1, <3>2
  <2>3. QED
    BY <1>5, <2>1, <2>2 DEF ReadyListsInv
<1>9. \A u \in AnyTask : InReady(l, u) <=> InReady(k, u) \/ u = t
  BY <1>1, <1>5, <1>6, SMTT(60) DEF Tidy, InReady, Rest, Untouched, p
<1>10. ReadyTasks(l) = ReadyTasks(k) \cup {t}
  BY <1>9 DEF ReadyTasks
<1>11. Apart(l)
  BY <1>1, <1>9 DEF Tidy, Apart, Asleep, Blocked
<1>12. Tidy(l)
  BY <1>1, <1>2, <1>7, <1>8, <1>11 DEF Tidy, Rest, Untouched
<1>13. QED
  BY <1>1, <1>10, <1>12 DEF l

LEMMA ReadyMoves ==
  ASSUME NEW k, Tidy(k), NEW t \in AnyTask, t \notin ToSet(k.terminating)
  PROVE  MadeReady(k, Ready(k, t), {t})
<1> DEFINE l == RemoveEvent(k, t)
           m == RemoveGeneric(l, t)
           n == AddTaskToReadyQueue(m, t)
<1>1. /\ Tidy(l) /\ Rest(k, l) /\ ToSet(l.pending) = ToSet(k.pending) \ {t}
      /\ l.ready = k.ready /\ l.delayed = k.delayed
      /\ l.overflow = k.overflow /\ l.suspended = k.suspended
      /\ l.terminating = k.terminating /\ l.wake = k.wake /\ l.nextUnblock = k.nextUnblock
  BY RemoveEventMoves
<1> HIDE DEF l
<1>2. ReadyTasks(l) = ReadyTasks(k)
  BY <1>1 DEF ReadyTasks, InReady, Rest, Untouched
<1>3. Tidy(m) /\ Rest(l, m) /\ TakenOut(l, m, t) /\ m.pending = l.pending
  BY <1>1, RemoveGenericMoves
<1> HIDE DEF m
<1>4. t \notin ReadyTasks(m) /\ t \notin Asleep(m) /\ t \notin ToSet(m.terminating)
  BY <1>3 DEF TakenOut, Asleep, Blocked
<1>5. /\ Tidy(n) /\ Rest(m, n)
      /\ ReadyTasks(n) = ReadyTasks(m) \cup {t}
      /\ n.delayed = m.delayed /\ n.overflow = m.overflow /\ n.suspended = m.suspended
      /\ n.terminating = m.terminating /\ n.pending = m.pending /\ n.wake = m.wake
      /\ n.nextUnblock = m.nextUnblock
  BY <1>3, <1>4, AddTaskMoves
<1>6. Ready(k, t) = n
  BY DEF Ready, l, m
<1> HIDE DEF n
<1>7. m.terminating = k.terminating /\ \A u \in AnyTask \ {t} : m.wake[u] = k.wake[u]
  BY <1>1, <1>3 DEF TakenOut, Tidy
<1>8. Rest(k, n)
  BY <1>1, <1>3, <1>5 DEF Rest, Untouched, SameTime
<1>9. MadeReady(k, n, {t})
  BY <1>1, <1>2, <1>3, <1>5, <1>7, <1>8 DEF MadeReady, TakenOut
<1>10. QED
  BY <1>6, <1>9

LEMMA MadeReadyTwice ==
  ASSUME NEW k, NEW l, NEW m, NEW S, NEW T, MadeReady(k, l, S), MadeReady(l, m, T)
  PROVE  MadeReady(k, m, S \cup T)
<1>1. Rest(k, m)
  BY DEF MadeReady, Rest, Untouched, SameTime
<1>2. QED
  BY <1>1 DEF MadeReady

LEMMA MakeReadyMoves ==
  ASSUME NEW k, Tidy(k), NEW s \in Seq(AnyTask), ToSet(s) \cap ToSet(k.terminating) = {}
  PROVE  MadeReady(k, MakeReady(k, s), ToSet(s))
<1>1. PICK N \in Nat : N = Len(s) /\ DOMAIN s = 1 .. N
  OBVIOUS
<1>2. PICK after : /\ after[0] = k /\ MakeReady(k, s) = after[N]
                   /\ \A n \in 0 .. N - 1 : after[n + 1] = Ready(after[n], s[n + 1])
  <2>1. IsList(s)
    BY DEF IsList
  <2>2. QED
    BY <1>1, <2>1, MakeReadyRuns
<1> DEFINE First(n) == {s[i] : i \in 1 .. n}
           S == {n \in Nat : n <= N => MadeReady(k, after[n], First(n))}
<1>3. 0 \in S
  <2>1. First(0) = {}
    OBVIOUS
  <2> HIDE DEF First
  <2>2. MadeReady(k, k, {})
    BY DEF MadeReady, Rest, Untouched, SameTime
  <2>3. QED
    BY <1>2, <2>1, <2>2
<1>4. ASSUME NEW n \in S PROVE n + 1 \in S
  <2>1. SUFFICES ASSUME n + 1 <= N PROVE MadeReady(k, after[n + 1], First(n + 1))
    OBVIOUS
  <2>2. MadeReady(k, after[n], First(n)) /\ n \in 0 .. N - 1 /\ n + 1 \in DOMAIN s
    <3>1. n \in Nat /\ n \in 0 .. N - 1 /\ n + 1 \in DOMAIN s
      BY <1>1, <2>1
    <3> HIDE DEF First
    <3>2. MadeReady(k, after[n], First(n))
      BY <3>1
    <3>3. QED
      BY <3>1, <3>2
  <2>3. First(n + 1) = First(n) \cup {s[n + 1]}
    OBVIOUS
  <2> HIDE DEF First
  <2>4. s[n + 1] \in AnyTask /\ s[n + 1] \in ToSet(s)
    BY <1>1, <2>2 DEF ToSet
  <2>5. MadeReady(after[n], after[n + 1], {s[n + 1]})
    <3>1. Tidy(after[n]) /\ s[n + 1] \notin ToSet(after[n].terminating)
      BY <2>2, <2>4 DEF MadeReady
    <3>2. MadeReady(after[n], Ready(after[n], s[n + 1]), {s[n + 1]})
      BY <2>4, <3>1, ReadyMoves
    <3>3. QED
      BY <1>2, <2>2, <3>2
  <2>6. QED
    BY <2>2, <2>3, <2>5, MadeReadyTwice
<1>5. S = Nat
  <2> HIDE DEF S
  <2>1. S \in SUBSET Nat
    BY DEF S
  <2>2. QED
    BY <1>3, <1>4, <2>1, SetInduction
<1>6. ToSet(s) = First(N)
  BY <1>1 DEF ToSet
<1>7. QED
  <2> HIDE DEF First
  <2>1. QED
    BY <1>2, <1>5, <1>6

\* The most urgent of the ready tasks runs.
LEMMA SwitchContextMoves ==
  ASSUME NEW k, Tidy(k), ~ (k.suspendDepth > 0), ReadyTasks(k) # {}
  PROVE  LET l == SwitchContext(k)
         IN  /\ Tidy(l) /\ Rest([k EXCEPT !.current = l.current], l)
             /\ l.current \in ReadyTasks(k)
             /\ \A t \in ReadyTasks(k) : k.priority[t] <= k.priority[l.current]
             /\ ReadyTasks(l) = ReadyTasks(k)
             /\ l.delayed = k.delayed /\ l.overflow = k.overflow /\ l.suspended = k.suspended
             /\ l.terminating = k.terminating /\ l.pending = k.pending /\ l.wake = k.wake
             /\ l.nextUnblock = k.nextUnblock
<1> DEFINE S == {p \in 0 .. k.topReady : k.ready[p] # <<>>}
           top == Max(S)
           l == SwitchContext(k)
<1>1. k.topReady \in Nat /\ \A p \in 0 .. k.topReady : p \in Priority
  BY KernelAssumption DEF Tidy, Priority
<1>2. S \in SUBSET (0 .. k.topReady)
  OBVIOUS
<1>3. \A t \in ReadyTasks(k) : k.priority[t] \in S
  <2>1. SUFFICES ASSUME NEW t \in AnyTask, InReady(k, t) PROVE k.priority[t] \in S
    BY DEF ReadyTasks
  <2>2. k.priority[t] \in Priority /\ k.priority[t] <= k.topReady
    BY <2>1, ReadyTask DEF Tidy
  <2>3. k.ready[k.priority[t]] # <<>>
    BY <2>1, EmptyOnce DEF InReady
  <2>4. QED
    BY <1>1, <2>2, <2>3, KernelAssumption DEF Priority
<1>4. top \in S /\ \A p \in S : p <= top
  <2> HIDE DEF S
  <2>1. S # {}
    BY <1>3
  <2>2. QED
    BY <1>1, <1>2, <2>1, MaxIsGreatest
<1>5. /\ Rest([k EXCEPT !.current = l.current], l)
      /\ l.delayed = k.delayed /\ l.overflow = k.overflow /\ l.suspended = k.suspended
      /\ l.terminating = k.terminating /\ l.pending = k.pending /\ l.wake = k.wake
      /\ l.nextUnblock = k.nextUnblock
      /\ l.topReady = top /\ l.current = Head(k.ready[top])
      /\ l.ready = [k.ready EXCEPT ![top] = Append(Tail(@), Head(@))]
  BY DEF Tidy, IsKernel, SwitchContext, Fields, Rest, Untouched, SameTime
<1>6. IsKernel(l) /\ l.priority = k.priority
  BY SwitchContextPreserves DEF Tidy, Preserves
<1> HIDE DEF l
<1>7. top \in Priority /\ k.ready[top] # <<>> /\ Once(k.ready[top])
  BY <1>1, <1>4 DEF Tidy, ReadyListsInv
<1> HIDE DEF top
<1>8. /\ l.ready = [q \in Priority |-> l.ready[q]]
      /\ l.ready[top] = Append(Tail(k.ready[top]), Head(k.ready[top]))
      /\ \A q \in Priority \ {top} : l.ready[q] = k.ready[q]
  BY <1>5, <1>7 DEF Tidy, ReadyListsInv
<1>9. \A q \in Priority : Once(l.ready[q]) /\ ToSet(l.ready[q]) = ToSet(k.ready[q])
  <2>1. PICK s : s = k.ready[top]
    OBVIOUS
  <2>2. Once(Append(Tail(s), Head(s))) /\ ToSet(Append(Tail(s), Head(s))) = ToSet(s)
    BY <1>7, <2>1, RotateList
  <2>3. QED
    BY <1>8, <2>1, <2>2 DEF Tidy, ReadyListsInv
<1>10. ReadyListsInv(l)
  <2>1. ASSUME NEW q \in Priority, NEW u \in ToSet(l.ready[q])
        PROVE  l.priority[u] = q /\ q <= l.topReady
    <3>1. u \in ToSet(k.ready[q])
      BY <1>9
    <3>2. k.priority[u] = q /\ u \in AnyTask /\ InReady(k, u)
      BY <3>1, ReadyTask DEF Tidy, ReadyListsInv
    <3>3. k.priority[u] \in S
      BY <1>3, <3>2 DEF ReadyTasks
    <3>4. QED
      BY <1>4, <1>5, <1>6, <3>2, <3>3
  <2>2. QED
    BY <1>8, <1>9, <2>1 DEF ReadyListsInv
<1>11. \A u \in AnyTask : InReady(l, u) <=> InReady(k, u)
  BY <1>6, <1>9 DEF Tidy, InReady
<1>12. ReadyTasks(l) = ReadyTasks(k)
  BY <1>11 DEF ReadyTasks
<1>13. l.current \in ReadyTasks(k) /\ k.priority[l.current] = top
  <2>1. Head(k.ready[top]) \in ToSet(k.ready[top])
    BY <1>7, TailOfList
  <2>2. l.current \in AnyTask /\ InReady(k, l.current)
    BY <1>5, <1>7, <2>1, ReadyTask DEF Tidy
  <2>3. k.priority[l.current] = top
    BY <1>5, <1>7, <2>1 DEF Tidy, ReadyListsInv
  <2>4. QED
    BY <2>2, <2>3 DEF ReadyTasks
<1>14. Apart(l)
  BY <1>5, <1>11 DEF Tidy, Apart, Asleep, Blocked
<1>15. Tidy(l)
  BY <1>5, <1>6, <1>7, <1>10, <1>14 DEF Tidy
<1>16. QED
  BY <1>3, <1>4, <1>5, <1>12, <1>13, <1>15 DEF l

\* The lists are what they were.
SameLists(k, l) ==
  /\ l = [x \in Fields |-> l[x]]
  /\ l.ready = k.ready /\ l.topReady = k.topReady /\ l.delayed = k.delayed
  /\ l.overflow = k.overflow /\ l.pending = k.pending /\ l.suspended = k.suspended
  /\ l.terminating = k.terminating /\ l.wake = k.wake
  /\ l.priority = k.priority /\ l.base = k.base /\ l.missedTicks \in Nat

LEMMA SameListsTidy ==
  ASSUME NEW k, Tidy(k), NEW l, SameLists(k, l)
  PROVE  Tidy(l) /\ ReadyTasks(l) = ReadyTasks(k)
<1>1. IsKernel(l)
  BY DEF Tidy, IsKernel, SameLists
<1>2. ReadyListsInv(l)
  <2>1. ReadyListsInv(k)
    BY DEF Tidy
  <2>2. QED
    BY <2>1 DEF SameLists, ReadyListsInv
<1>3. Apart(l) /\ ReadyTasks(l) = ReadyTasks(k)
  BY DEF Tidy, SameLists, Apart, InReady, Asleep, Blocked, ReadyTasks
<1>4. QED
  BY <1>1, <1>2, <1>3 DEF Tidy, SameLists

LEMMA HeadIsFirst ==
  ASSUME NEW s, Once(s), s # <<>>, NEW w \in [AnyTask -> Tick], InOrder(s, w)
  PROVE  /\ Head(s) \in AnyTask
         /\ \A t \in ToSet(s) : w[Head(s)] <= w[t]
<1>1. PICK q \in Nat \ {0} : DOMAIN s = 1 .. q /\ Head(s) = s[1]
  BY DEF Once
<1>2. \A t \in ToSet(s) : \E i \in 1 .. q : t = s[i]
  BY <1>1 DEF ToSet
<1>3. Head(s) \in AnyTask /\ w[s[1]] \in Nat
  <2>1. Head(s) \in AnyTask
    BY TailOfList
  <2>2. QED
    BY <1>1, <2>1, KernelAssumption DEF Tick
<1>4. ASSUME NEW i \in 1 .. q PROVE w[s[1]] <= w[s[i]]
  <2>1. i = 1 \/ 1 < i
    OBVIOUS
  <2>2. QED
    BY <1>1, <1>3, <2>1 DEF InOrder
<1>5. QED
  BY <1>1, <1>2, <1>3, <1>4

-----------------------------------------------------------------------------
(* When the tasks of the delayed lists wake *)

Turn == MaxDelay + 1

\* The ticks a task has still to wait for.
Left(k, t) ==
  IF t \in ToSet(k.delayed) THEN k.wake[t] - k.tickCount
  ELSE IF t \in ToSet(k.overflow) THEN k.wake[t] + Turn - k.tickCount
  ELSE 0

\* Wake times lie ahead, in this turn of the tick count or in the next, and
\* nobody wakes before xNextTaskUnblockTime.
Ahead(k) ==
  /\ k.tickCount \in Tick /\ k.nextUnblock \in Tick
  /\ \A t \in ToSet(k.delayed) : k.tickCount < k.wake[t] /\ k.nextUnblock <= k.wake[t]
  /\ \A t \in ToSet(k.overflow) : k.wake[t] < k.tickCount

Kept(k) == Tidy(k) /\ Ahead(k) /\ ToSet(k.pending) \subseteq k.suspended

\* The tasks of W wake up.
AreWoken(k, l, W) ==
  /\ W \subseteq Asleep(k)
  /\ ReadyTasks(l) = ReadyTasks(k) \cup W
  /\ Blocked(l) = Blocked(k) \ W /\ l.suspended = k.suspended \ W
  /\ l.terminating = k.terminating /\ ToSet(l.pending) = ToSet(k.pending) \ W

\* n ticks pass.
Passed(k, l, n) ==
  \A t \in AnyTask : Left(l, t) = IF Left(k, t) > n THEN Left(k, t) - n ELSE 0

LEMMA LeftIs ==
  ASSUME NEW k, Tidy(k), Ahead(k), NEW t \in AnyTask
  PROVE  Left(k, t) \in Nat /\ (t \in Blocked(k) <=> Left(k, t) > 0)
<1>1. k.wake[t] \in Tick /\ k.tickCount \in Tick
  BY DEF Tidy, Ahead
<1>2. QED
  BY <1>1, KernelAssumption DEF Ahead, Left, Blocked, Tick, Turn

LEMMA TimeLeft ==
  ASSUME NEW k, Kept(k), NEW t \in AnyTask
  PROVE  Left(k, t) \in Nat /\ (t \in Blocked(k) <=> Left(k, t) > 0)
  BY LeftIs DEF Kept

\* Whoever is ready or waits for a time stays so.
LEMMA StillPresent ==
  ASSUME NEW k, Kept(k), NEW l, Kept(l), ReadyTasks(k) \subseteq ReadyTasks(l),
         \A t \in AnyTask : Left(l, t) = Left(k, t)
  PROVE  Present(k) \subseteq Present(l)
<1>1. Blocked(k) \subseteq AnyTask
  BY NothingInList DEF Kept, Tidy, Blocked
<1>2. \A t \in AnyTask : t \in Blocked(k) => t \in Blocked(l)
  BY TimeLeft
<1>3. QED
  BY <1>1, <1>2 DEF Present

LEMMA WakesTwice ==
  ASSUME NEW k, NEW l, NEW m, NEW V, NEW W, AreWoken(k, l, V), AreWoken(l, m, W)
  PROVE  AreWoken(k, m, V \cup W)
BY DEF AreWoken, Asleep

\* The count has just been incremented: the tasks that are due are in the list.
Due(k) ==
  /\ Tidy(k) /\ k.tickCount \in Tick /\ k.nextUnblock \in Tick
  /\ \A t \in ToSet(k.delayed) : k.tickCount <= k.wake[t] /\ k.nextUnblock <= k.wake[t]
  /\ \A t \in ToSet(k.overflow) : k.wake[t] < k.tickCount
  /\ ToSet(k.pending) \subseteq k.suspended

\* The tasks that are due are a prefix of the list.
LEMMA CheckDelayedMoves ==
  ASSUME NEW k, Due(k)
  PROVE  LET l == CheckDelayedTasks(k)
             W == {t \in ToSet(k.delayed) : k.wake[t] = k.tickCount}
         IN  /\ Kept(l) /\ Rest(k, l) /\ AreWoken(k, l, W)
             /\ ToSet(l.delayed) = ToSet(k.delayed) \ W /\ ToSet(l.overflow) = ToSet(k.overflow)
             /\ \A t \in AnyTask \ W : l.wake[t] = k.wake[t]
<1> DEFINE W == {t \in ToSet(k.delayed) : k.wake[t] = k.tickCount}
<1> USE DEF Due
<1>1. /\ \A t \in ToSet(k.delayed) : t \in AnyTask /\ k.wake[t] \in Nat
      /\ k.tickCount \in Nat /\ k.nextUnblock \in Nat
  BY NothingInList, KernelAssumption DEF Tidy, Tick
<1>2. CASE k.tickCount < k.nextUnblock
  <2>1. CheckDelayedTasks(k) = k
    BY <1>2 DEF CheckDelayedTasks
  <2>2. \A t \in ToSet(k.delayed) : k.tickCount < k.wake[t]
    BY <1>1, <1>2
  <2>3. W = {}
    BY <1>1, <2>2
  <2>4. Kept(k) /\ Rest(k, k) /\ AreWoken(k, k, {})
    BY <2>2 DEF Kept, Ahead, Rest, Untouched, SameTime, AreWoken
  <2>5. QED
    BY <2>1, <2>3, <2>4
<1>3. CASE ~ (k.tickCount < k.nextUnblock)
  <2> DEFINE due == {i \in DOMAIN k.delayed : \A j \in 1 .. i : k.wake[k.delayed[j]] <= k.tickCount}
             s == SubSeq(k.delayed, 1, Cardinality(due))
             l == MakeReady(k, s)
             m == [l EXCEPT !.nextUnblock =
                              IF l.delayed = <<>> THEN MaxDelay ELSE l.wake[Head(l.delayed)]]
  <2>1. CheckDelayedTasks(k) = m
    BY <1>3 DEF CheckDelayedTasks
  <2>2. PICK n \in Nat : n = Len(k.delayed) /\ DOMAIN k.delayed = 1 .. n
    BY DEF Tidy, Once
  <2>3. Cardinality(due) \in 0 .. n /\ due = 1 .. Cardinality(due)
    <3>1. due \in SUBSET (1 .. n) /\ \A i \in due : \A j \in 1 .. i : j \in due
      BY <2>2
    <3> HIDE DEF due
    <3>2. QED
      BY <2>2, <3>1, PrefixIs
  <2>4. \A i \in 1 .. n : i \in due <=> k.wake[k.delayed[i]] = k.tickCount
    <3>1. \A i \in 1 .. n : k.delayed[i] \in ToSet(k.delayed)
      BY <2>2 DEF ToSet
    <3>2. ASSUME NEW i \in 1 .. n, i \in due PROVE k.wake[k.delayed[i]] = k.tickCount
      <4>1. k.wake[k.delayed[i]] <= k.tickCount /\ k.tickCount <= k.wake[k.delayed[i]]
        BY <3>1, <3>2
      <4>2. QED
        BY <1>1, <3>1, <4>1
    <3>3. ASSUME NEW i \in 1 .. n, k.wake[k.delayed[i]] = k.tickCount PROVE i \in due
      <4>1. ASSUME NEW j \in 1 .. i PROVE k.wake[k.delayed[j]] <= k.tickCount
        <5>1. j \in 1 .. n /\ (j = i \/ j < i)
          OBVIOUS
        <5>2. QED
          BY <1>1, <2>2, <3>1, <3>3, <5>1 DEF Tidy, InOrder
      <4>2. QED
        BY <2>2, <4>1
    <3>4. QED
      BY <3>2, <3>3
  <2>5. PICK c \in 0 .. n : c = Cardinality(due) /\ due = 1 .. c
    BY <2>3
  <2>6. s = SubSeq(k.delayed, 1, c)
    BY <2>5
  <2> HIDE DEF due, s
  <2>7. /\ s \in Seq(AnyTask) /\ ToSet(s) \subseteq ToSet(k.delayed)
        /\ \A i \in 1 .. n : k.delayed[i] \in ToSet(s) <=> i <= c
    <3>1. Once(k.delayed)
      BY DEF Tidy
    <3>2. QED
      BY <2>2, <2>6, <3>1, PrefixOfList
  <2>8. ToSet(s) = W
    <3>1. \A i \in 1 .. n : k.delayed[i] \in ToSet(s) <=> k.wake[k.delayed[i]] = k.tickCount
      <4>1. ASSUME NEW i \in 1 .. n PROVE i \in due <=> i <= c
        <5>1. i \in 1 .. c <=> i <= c
          OBVIOUS
        <5>2. QED
          BY <5>1, <2>5
      <4>2. QED
        BY <2>4, <2>7, <4>1
    <3>2. \A t : t \in ToSet(k.delayed) <=> \E i \in 1 .. n : t = k.delayed[i]
      BY <2>2 DEF ToSet
    <3>3. QED
      BY <2>7, <3>1, <3>2
  <2>9. MadeReady(k, l, W)
    <3>1. ToSet(s) \cap ToSet(k.terminating) = {}
      BY <1>1, <2>7 DEF Tidy, Apart
    <3>2. QED
      BY <2>7, <2>8, <3>1, MakeReadyMoves, ZenonT(30)
  <2> HIDE DEF l
  <2>10. /\ SameLists(l, m) /\ Rest(l, m)
         /\ m.nextUnblock = IF l.delayed = <<>> THEN MaxDelay ELSE l.wake[Head(l.delayed)]
    BY <2>9 DEF MadeReady, Tidy, IsKernel, Fields, Rest, Untouched, SameTime, SameLists
  <2> HIDE DEF m
  <2>11. Tidy(m) /\ ReadyTasks(m) = ReadyTasks(l)
    BY <2>9, <2>10, SameListsTidy DEF MadeReady
  <2>12. /\ m.delayed = l.delayed /\ m.overflow = l.overflow /\ m.pending = l.pending
         /\ m.suspended = l.suspended /\ m.terminating = l.terminating /\ m.wake = l.wake
    BY <2>10 DEF SameLists
  <2>13. W \subseteq ToSet(k.delayed) /\ W \cap ToSet(k.overflow) = {} /\ W \cap k.suspended = {}
    BY <1>1 DEF Tidy, Apart
  <2> HIDE DEF W
  <2>14. /\ ToSet(m.delayed) = ToSet(k.delayed) \ W /\ ToSet(m.overflow) = ToSet(k.overflow)
         /\ m.suspended = k.suspended /\ m.terminating = k.terminating
         /\ ToSet(m.pending) = ToSet(k.pending) \ W /\ ReadyTasks(m) = ReadyTasks(k) \cup W
         /\ \A t \in AnyTask \ W : m.wake[t] = k.wake[t]
    <3>1. /\ ReadyTasks(l) = ReadyTasks(k) \cup W
          /\ ToSet(l.delayed) = ToSet(k.delayed) \ W /\ ToSet(l.overflow) = ToSet(k.overflow) \ W
          /\ l.suspended = k.suspended \ W /\ l.terminating = k.terminating
          /\ ToSet(l.pending) = ToSet(k.pending) \ W
          /\ \A u \in AnyTask \ W : l.wake[u] = k.wake[u]
      BY <2>9 DEF MadeReady
    <3>2. ToSet(k.overflow) \ W = ToSet(k.overflow) /\ k.suspended \ W = k.suspended
      BY <2>13
    <3>3. QED
      BY <2>11, <2>12, <3>1, <3>2
  <2>15. AreWoken(k, m, W)
    BY <2>13, <2>14 DEF AreWoken, Asleep, Blocked
  <2>16. Rest(k, m)
    BY <2>9, <2>10 DEF MadeReady, Rest, Untouched, SameTime
  <2>17. m.nextUnblock \in Tick /\ \A t \in ToSet(m.delayed) : m.nextUnblock <= m.wake[t]
    <3>1. CASE m.delayed = <<>>
      BY <3>1, <2>10, <2>12, EmptyOnce, KernelAssumption DEF Tick
    <3>2. CASE m.delayed # <<>>
      <4>1. /\ Once(m.delayed) /\ InOrder(m.delayed, m.wake) /\ m.wake \in [AnyTask -> Tick]
        BY <2>11 DEF Tidy
      <4>2. /\ Head(m.delayed) \in AnyTask
            /\ \A t \in ToSet(m.delayed) : m.wake[Head(m.delayed)] <= m.wake[t]
        BY <3>2, <4>1, HeadIsFirst
      <4>3. m.nextUnblock = m.wake[Head(m.delayed)]
        BY <2>10, <2>12, <3>2
      <4>4. QED
        BY <4>1, <4>2, <4>3
    <3>3. QED
      BY <3>1, <3>2
  <2>18. \A t \in ToSet(m.delayed) : m.tickCount < m.wake[t]
    <3>1. ASSUME NEW t \in ToSet(m.delayed) PROVE m.tickCount < m.wake[t]
      <4>1. t \in ToSet(k.delayed) /\ t \in AnyTask /\ t \notin W
        BY <1>1, <2>14
      <4>2. k.wake[t] # k.tickCount /\ k.tickCount <= k.wake[t] /\ m.wake[t] = k.wake[t]
        BY <2>14, <4>1 DEF W
      <4>3. QED
        BY <1>1, <2>16, <4>1, <4>2 DEF Rest, SameTime
    <3>2. QED
      BY <3>1
  <2>19. \A t \in ToSet(m.overflow) : m.wake[t] < m.tickCount
    <3>1. \A t \in ToSet(m.overflow) : t \in AnyTask /\ t \notin W /\ t \in ToSet(k.overflow)
      BY <2>11, <2>13, <2>14, NothingInList DEF Tidy
    <3>2. QED
      BY <2>14, <2>16, <3>1 DEF Rest, SameTime
  <2>20. Kept(m)
    <3>1. m.tickCount \in Tick
      BY <2>16 DEF Rest, SameTime
    <3>2. QED
      BY <2>11, <2>14, <2>17, <2>18, <2>19, <3>1 DEF Kept, Ahead
  <2>21. QED
    BY <2>1, <2>14, <2>15, <2>16, <2>20 DEF W
<1>4. QED
  BY <1>2, <1>3

LEMMA NextTick ==
  ASSUME NEW n \in Tick
  PROVE  Ticks(n + 1) = IF n = MaxDelay THEN 0 ELSE n + 1
<1>1. CASE n # MaxDelay
  <2>1. n + 1 \in Nat /\ n + 1 \in Tick
    BY <1>1, KernelAssumption DEF Tick
  <2>2. QED
    BY <1>1, <2>1, TicksAdd
<1>2. CASE n = MaxDelay
  <2>1. PICK m \in Nat \ {0} : m = MaxDelay + 1
    BY KernelAssumption
  <2>2. m % m = 0
    BY RemainderIs
  <2>3. QED
    BY <1>2, <2>1, <2>2 DEF Ticks
<1>3. QED
  BY <1>1, <1>2

\* The two delayed lists change places when the count wraps, and every sleeping
\* task is one tick nearer to its wake time.
LEMMA IncrementTickMoves ==
  ASSUME NEW k, Kept(k), ~ (k.suspendDepth > 0)
  PROVE  LET l == IncrementTick(k)
         IN  /\ Kept(l) /\ Untouched(k, l) /\ Sooner(k, l) /\ Passed(k, l, 1)
             /\ \E W \in SUBSET Blocked(k) : AreWoken(k, l, W)
<1> DEFINE l == [k EXCEPT !.tickCount = Ticks(@ + 1)]
           m == [l EXCEPT !.delayed = l.overflow, !.overflow = l.delayed,
                          !.numOfOverflows = (@ + 1) % Wraps,
                          !.nextUnblock = IF l.overflow = <<>> THEN MaxDelay
                                          ELSE l.wake[Head(l.overflow)]]
           n == IF l.tickCount = 0 THEN m ELSE l
           c == CheckDelayedTasks(n)
           W == {t \in ToSet(n.delayed) : n.wake[t] = n.tickCount}
<1>1. IncrementTick(k) = c
  BY DEF IncrementTick
<1>2. Tidy(k) /\ Ahead(k) /\ ToSet(k.pending) \subseteq k.suspended
  BY DEF Kept
<1>3. /\ SameLists(k, l) /\ Untouched(k, l) /\ Sooner(k, l) /\ l.nextUnblock = k.nextUnblock
  BY <1>2 DEF Tidy, IsKernel, Fields, SameLists, Untouched, Sooner
<1> HIDE DEF l
<1>4. Tidy(l) /\ ReadyTasks(l) = ReadyTasks(k)
  BY <1>2, <1>3, SameListsTidy
<1>5. k.tickCount \in Tick /\ k.tickCount \in Nat /\ k.tickCount <= MaxDelay /\ MaxDelay \in Nat
  BY <1>2, KernelAssumption DEF Ahead, Tick
<1>6. l.tickCount = IF k.tickCount = MaxDelay THEN 0 ELSE k.tickCount + 1
  BY <1>3, <1>5, NextTick DEF Sooner
<1>7. \A t \in AnyTask : k.wake[t] \in Nat /\ k.wake[t] <= MaxDelay
  BY <1>2, <1>5 DEF Tidy, Tick
<1>8. ToSet(k.delayed) \subseteq AnyTask /\ ToSet(k.overflow) \subseteq AnyTask
  BY <1>2, NothingInList DEF Tidy
<1>9. CASE k.tickCount # MaxDelay
  <2>1. n = l /\ l.tickCount = k.tickCount + 1
    BY <1>5, <1>6, <1>9
  <2> HIDE DEF n
  <2>2. Due(n)
    <3>1. /\ l.tickCount \in Tick /\ l.nextUnblock \in Tick
      BY <1>2, <1>3, <1>5, <1>9, <2>1 DEF Ahead, Tick
    <3>2. \A t \in ToSet(k.delayed) : k.tickCount + 1 <= k.wake[t] /\ k.nextUnblock <= k.wake[t]
      BY <1>2, <1>5, <1>7, <1>8 DEF Ahead
    <3>3. \A t \in ToSet(k.overflow) : k.wake[t] < k.tickCount + 1
      BY <1>2, <1>5, <1>7, <1>8 DEF Ahead
    <3>4. QED
      BY <1>2, <1>3, <1>4, <2>1, <3>1, <3>2, <3>3 DEF Due, SameLists
  <2>3. /\ Kept(c) /\ Rest(n, c) /\ AreWoken(n, c, W)
        /\ ToSet(c.delayed) = ToSet(n.delayed) \ W /\ ToSet(c.overflow) = ToSet(n.overflow)
        /\ \A t \in AnyTask \ W : c.wake[t] = n.wake[t]
    BY <2>2, CheckDelayedMoves
  <2> HIDE DEF c
  <2>4. Untouched(k, c) /\ Sooner(k, c)
    BY <1>3, <2>1, <2>3 DEF Rest, Untouched, SameTime, Sooner
  <2>5. /\ n.delayed = k.delayed /\ n.overflow = k.overflow /\ n.wake = k.wake
        /\ c.tickCount = k.tickCount + 1
    BY <1>3, <2>1, <2>3 DEF SameLists, Rest, SameTime
  <2>6. ASSUME NEW t \in AnyTask
        PROVE  Left(c, t) = IF Left(k, t) > 1 THEN Left(k, t) - 1 ELSE 0
    <3>1. k.wake[t] \in Nat /\ k.wake[t] <= MaxDelay
      BY <1>7
    <3>2. CASE t \in ToSet(k.delayed)
      <4>1. t \notin ToSet(k.overflow) /\ k.tickCount < k.wake[t]
        BY <1>2, <3>2 DEF Tidy, Apart, Ahead
      <4>2. t \in W <=> k.wake[t] = k.tickCount + 1
        BY <2>1, <2>5, <3>2
      <4>3. Left(k, t) = k.wake[t] - k.tickCount
        BY <3>2 DEF Left
      <4>4. CASE t \in W
        BY <4>1, <4>2, <4>3, <4>4, <1>5, <2>3, <2>5, <3>1, <3>2 DEF Left
      <4>5. CASE t \notin W
        <5>1. Left(c, t) = k.wake[t] - (k.tickCount + 1)
          BY <4>5, <2>3, <2>5, <3>2 DEF Left
        <5>2. QED
          BY <4>1, <4>2, <4>3, <4>5, <5>1, <1>5, <3>1
      <4>6. QED
        BY <4>4, <4>5
    <3>3. CASE t \in ToSet(k.overflow)
      <4>1. t \notin ToSet(k.delayed) /\ t \notin W
        BY <1>2, <2>5, <3>3 DEF Tidy, Apart
      <4>2. Left(k, t) = k.wake[t] + Turn - k.tickCount
        BY <3>3, <4>1 DEF Left
      <4>3. Left(c, t) = k.wake[t] + Turn - (k.tickCount + 1)
        BY <2>3, <2>5, <3>3, <4>1 DEF Left
      <4>4. QED
        BY <4>2, <4>3, <1>5, <1>9, <3>1 DEF Turn
    <3>4. CASE t \notin ToSet(k.delayed) /\ t \notin ToSet(k.overflow)
      BY <3>4, <2>3, <2>5 DEF Left
    <3>5. QED
      BY <3>2, <3>3, <3>4
  <2>7. W \subseteq Blocked(k) /\ AreWoken(k, c, W)
    <3>1. /\ ReadyTasks(n) = ReadyTasks(k) /\ n.suspended = k.suspended
          /\ n.terminating = k.terminating /\ n.pending = k.pending
      BY <1>3, <1>4, <2>1 DEF SameLists
    <3>2. W \subseteq ToSet(k.delayed)
      BY <2>5
    <3> HIDE DEF W
    <3>3. QED
      BY <2>3, <2>5, <3>1, <3>2 DEF AreWoken, Asleep, Blocked
  <2> HIDE DEF W
  <2>8. QED
    BY <1>1, <2>3, <2>4, <2>6, <2>7 DEF Passed
<1>10. CASE k.tickCount = MaxDelay
  <2>1. n = m /\ l.tickCount = 0
    BY <1>6, <1>10
  <2>2. /\ m = [x \in Fields |-> m[x]] /\ Untouched(l, m)
        /\ m.tickCount = l.tickCount /\ m.missedTicks = l.missedTicks
        /\ m.ready = l.ready /\ m.topReady = l.topReady /\ m.delayed = l.overflow
        /\ m.overflow = l.delayed /\ m.pending = l.pending /\ m.suspended = l.suspended
        /\ m.terminating = l.terminating /\ m.wake = l.wake
        /\ m.nextUnblock = IF l.overflow = <<>> THEN MaxDelay ELSE l.wake[Head(l.overflow)]
    BY <1>3 DEF SameLists, Fields, Untouched
  <2> HIDE DEF n, m
  <2>3. Tidy(m) /\ ReadyTasks(m) = ReadyTasks(k)
    <3>1. m.priority = l.priority /\ m.base = l.base /\ m.missedTicks = l.missedTicks
      BY <2>2 DEF Untouched
    <3>2. IsKernel(m)
      BY <1>4, <2>2, <3>1 DEF Tidy, IsKernel
    <3>3. ReadyListsInv(m)
      <4>1. ReadyListsInv(l)
        BY <1>4 DEF Tidy
      <4>2. m.ready = l.ready /\ m.priority = l.priority /\ m.topReady = l.topReady
        BY <2>2, <3>1
      <4>3. QED
        BY <4>1, <4>2 DEF ReadyListsInv
    <3>4. Apart(m) /\ ReadyTasks(m) = ReadyTasks(l)
      BY <1>4, <2>2, <3>1 DEF Tidy, Apart, InReady, Asleep, Blocked, ReadyTasks
    <3>5. QED
      BY <1>4, <2>2, <3>1, <3>2, <3>3, <3>4 DEF Tidy
  <2>4. /\ m.delayed = k.overflow /\ m.overflow = k.delayed /\ m.wake = k.wake
        /\ m.pending = k.pending /\ m.suspended = k.suspended
        /\ m.terminating = k.terminating /\ m.tickCount = 0
    BY <1>3, <2>1, <2>2 DEF SameLists
  <2>5. ToSet(k.delayed) = {}
    BY <1>2, <1>5, <1>7, <1>8, <1>10 DEF Ahead
  <2>6. Due(m)
    <3>1. m.nextUnblock \in Tick /\ \A t \in ToSet(m.delayed) : m.nextUnblock <= m.wake[t]
      <4>1. CASE m.delayed = <<>>
        BY <4>1, <1>3, <2>2, EmptyOnce, KernelAssumption DEF SameLists, Tick
      <4>2. CASE m.delayed # <<>>
        <5>1. Once(m.delayed) /\ InOrder(m.delayed, m.wake) /\ m.wake \in [AnyTask -> Tick]
          BY <2>3 DEF Tidy
        <5>2. /\ Head(m.delayed) \in AnyTask
              /\ \A t \in ToSet(m.delayed) : m.wake[Head(m.delayed)] <= m.wake[t]
          BY <4>2, <5>1, HeadIsFirst
        <5>3. m.nextUnblock = m.wake[Head(m.delayed)]
          BY <2>2, <4>2
        <5>4. QED
          BY <5>1, <5>2, <5>3
      <4>3. QED
        BY <4>1, <4>2
    <3>2. \A t \in ToSet(m.delayed) : m.tickCount <= m.wake[t]
      BY <1>7, <1>8, <2>4
    <3>3. m.tickCount \in Tick
      BY <2>4, <1>5 DEF Tick
    <3>4. QED
      BY <1>2, <2>3, <2>4, <2>5, <3>1, <3>2, <3>3 DEF Due
  <2>7. /\ Kept(c) /\ Rest(n, c) /\ AreWoken(n, c, W)
        /\ ToSet(c.delayed) = ToSet(n.delayed) \ W /\ ToSet(c.overflow) = ToSet(n.overflow)
        /\ \A t \in AnyTask \ W : c.wake[t] = n.wake[t]
    BY <2>1, <2>6, CheckDelayedMoves
  <2> HIDE DEF c
  <2>8. Untouched(k, c) /\ Sooner(k, c)
    BY <1>3, <2>1, <2>2, <2>7 DEF Rest, Untouched, SameTime, Sooner
  <2>9. c.tickCount = 0
    BY <2>1, <2>4, <2>7 DEF Rest, SameTime
  <2>10. ASSUME NEW t \in AnyTask
         PROVE  Left(c, t) = IF Left(k, t) > 1 THEN Left(k, t) - 1 ELSE 0
    <3>1. k.wake[t] \in Nat /\ k.wake[t] <= MaxDelay
      BY <1>7
    <3>2. CASE t \in ToSet(k.overflow)
      <4>1. Left(k, t) = k.wake[t] + 1
        BY <3>1, <3>2, <2>5, <1>5, <1>10 DEF Left, Turn
      <4>2. t \in W <=> k.wake[t] = 0
        BY <2>1, <2>4, <3>2
      <4>3. CASE t \in W
        BY <4>1, <4>2, <4>3, <2>1, <2>4, <2>5, <2>7 DEF Left
      <4>4. CASE t \notin W
        <5>1. Left(c, t) = k.wake[t] - 0
          BY <4>4, <2>1, <2>4, <2>7, <2>9, <3>2 DEF Left
        <5>2. QED
          BY <4>1, <4>2, <4>4, <5>1, <3>1
      <4>5. QED
        BY <4>3, <4>4
    <3>3. CASE t \notin ToSet(k.overflow)
      BY <3>3, <2>1, <2>4, <2>5, <2>7 DEF Left
    <3>4. QED
      BY <3>2, <3>3
  <2>11. W \subseteq Blocked(k) /\ AreWoken(k, c, W)
    <3>1. W \subseteq ToSet(k.overflow)
      BY <2>1, <2>4
    <3> HIDE DEF W
    <3>2. QED
      BY <2>1, <2>3, <2>4, <2>7, <3>1 DEF AreWoken, Asleep, Blocked
  <2> HIDE DEF W
  <2>12. QED
    BY <1>1, <2>7, <2>8, <2>10, <2>11 DEF Passed
<1>11. QED
  BY <1>9, <1>10

LEMMA PassedTwice ==
  ASSUME NEW k, Kept(k), NEW l, NEW m, NEW n \in Nat, Passed(k, l, n), Passed(l, m, 1)
  PROVE  Passed(k, m, n + 1)
<1>1. SUFFICES ASSUME NEW t \in AnyTask
               PROVE  Left(m, t) = IF Left(k, t) > n + 1 THEN Left(k, t) - (n + 1) ELSE 0
  BY DEF Passed
<1>2. PICK a \in Nat : a = Left(k, t)
  BY TimeLeft
<1>3. Left(l, t) = IF a > n THEN a - n ELSE 0
  BY <1>2 DEF Passed
<1>4. Left(m, t) = IF Left(l, t) > 1 THEN Left(l, t) - 1 ELSE 0
  BY DEF Passed
<1>5. QED
  BY <1>2, <1>3, <1>4

LEMMA NoneWakes ==
  ASSUME NEW k, NEW l, SameLists(k, l), Tidy(k), Ahead(k),
         l.tickCount = k.tickCount, l.nextUnblock = k.nextUnblock
  PROVE  AreWoken(k, l, {}) /\ Ahead(l) /\ \A t \in AnyTask : Left(l, t) = Left(k, t)
<1>1. ReadyTasks(l) = ReadyTasks(k)
  BY SameListsTidy
<1>2. QED
  BY <1>1 DEF SameLists, AreWoken, Blocked, Ahead, Left

LEMMA MissedTicksMoves ==
  ASSUME NEW k, Kept(k), ~ (k.suspendDepth > 0)
  PROVE  LET l == MissedTicks(k)
         IN  /\ Kept(l) /\ Untouched(k, l) /\ l.missedTicks = 0 /\ Passed(k, l, k.missedTicks)
             /\ l.tickCount = Clock(k)
             /\ k.missedTicks = 0 => ReadyTasks(l) = ReadyTasks(k)
             /\ \E W \in SUBSET Blocked(k) : AreWoken(k, l, W)
<1>1. PICK N \in Nat : N = k.missedTicks
  BY DEF Kept, Tidy, IsKernel
<1>2. PICK h : /\ h[0] = k /\ MissedTicks(k) = [h[N] EXCEPT !.missedTicks = 0]
               /\ \A n \in 0 .. N - 1 : h[n + 1] = IncrementTick(h[n])
  <2>1. IsKernel(k)
    BY DEF Kept, Tidy
  <2>2. QED
    BY <1>1, <2>1, MissedTicksRuns
<1> DEFINE After(n) == /\ Kept(h[n]) /\ Untouched(k, h[n]) /\ Passed(k, h[n], n)
                       /\ \E W \in SUBSET Blocked(k) : AreWoken(k, h[n], W)
           S == {n \in Nat : n <= N => After(n)}
<1>3. 0 \in S
  <2>1. Passed(k, k, 0) /\ AreWoken(k, k, {}) /\ Untouched(k, k)
    BY TimeLeft DEF Passed, AreWoken, Untouched
  <2>2. After(0)
    BY <1>2, <2>1
  <2>3. QED
    BY <2>2
<1>4. ASSUME NEW n \in S PROVE n + 1 \in S
  <2>1. SUFFICES ASSUME n + 1 <= N PROVE After(n + 1)
    OBVIOUS
  <2>2. n \in Nat /\ n \in 0 .. N - 1 /\ After(n)
    <3>1. n \in Nat /\ (n <= N => After(n))
      OBVIOUS
    <3> HIDE DEF After
    <3>2. n \in 0 .. N - 1 /\ n <= N
      BY <2>1, <3>1
    <3>3. QED
      BY <3>1, <3>2
  <2>3. h[n + 1] = IncrementTick(h[n])
    BY <1>2, <2>2
  <2>4. ~ (h[n].suspendDepth > 0)
    BY <2>2 DEF Untouched
  <2>5. /\ Kept(h[n + 1]) /\ Untouched(h[n], h[n + 1]) /\ Passed(h[n], h[n + 1], 1)
        /\ \E W \in SUBSET Blocked(h[n]) : AreWoken(h[n], h[n + 1], W)
    BY <2>2, <2>3, <2>4, IncrementTickMoves
  <2>6. Passed(k, h[n + 1], n + 1)
    BY <2>2, <2>5, PassedTwice
  <2>7. \E W \in SUBSET Blocked(k) : AreWoken(k, h[n + 1], W)
    <3>1. PICK V \in SUBSET Blocked(k) : AreWoken(k, h[n], V)
      BY <2>2
    <3>2. PICK W \in SUBSET Blocked(h[n]) : AreWoken(h[n], h[n + 1], W)
      BY <2>5
    <3>3. W \subseteq Blocked(k)
      BY <3>1, <3>2 DEF AreWoken
    <3>4. QED
      BY <3>1, <3>2, <3>3, WakesTwice
  <2>8. Untouched(k, h[n + 1])
    BY <2>2, <2>5 DEF Untouched
  <2>9. QED
    BY <2>5, <2>6, <2>7, <2>8
<1>5. After(N)
  <2>1. S = Nat
    <3> HIDE DEF S
    <3>1. S \in SUBSET Nat
      BY DEF S
    <3>2. QED
      BY <1>3, <1>4, <3>1, SetInduction
  <2> HIDE DEF After
  <2>2. QED
    BY <2>1
<1> DEFINE a == h[N]
           l == [a EXCEPT !.missedTicks = 0]
<1>6. MissedTicks(k) = l
  BY <1>2
<1>7. Tidy(a) /\ Ahead(a) /\ ToSet(a.pending) \subseteq a.suspended
  BY <1>5 DEF Kept
<1> HIDE DEF a
<1>8. /\ SameLists(a, l) /\ Untouched(a, l) /\ l.missedTicks = 0 /\ l.tickCount = a.tickCount
      /\ l.nextUnblock = a.nextUnblock
  BY <1>7 DEF Tidy, IsKernel, Fields, SameLists, Untouched
<1> HIDE DEF l
<1>9. /\ Tidy(l) /\ ReadyTasks(l) = ReadyTasks(a)
      /\ AreWoken(a, l, {}) /\ Ahead(l) /\ \A t \in AnyTask : Left(l, t) = Left(a, t)
  BY <1>7, <1>8, SameListsTidy, NoneWakes
<1>10. Kept(l)
  BY <1>7, <1>8, <1>9 DEF Kept, SameLists
<1>11. Untouched(k, l)
  BY <1>5, <1>8 DEF Untouched, a
<1>12. Passed(k, l, N)
  BY <1>5, <1>9 DEF Passed, a
<1>13. \E W \in SUBSET Blocked(k) : AreWoken(k, l, W)
  <2>1. PICK W \in SUBSET Blocked(k) : AreWoken(k, a, W)
    BY <1>5 DEF a
  <2>2. AreWoken(k, l, W \cup {}) /\ W \cup {} = W
    BY <1>9, <2>1, WakesTwice
  <2>3. QED
    BY <2>2
<1>14. N = 0 => ReadyTasks(l) = ReadyTasks(k)
  BY <1>2, <1>9 DEF a
<1>15. l.tickCount = Clock(k)
  BY <1>6, MissedTicksPreserves DEF Kept, Tidy, Ahead
<1>16. QED
  BY <1>1, <1>6, <1>8, <1>10, <1>11, <1>12, <1>13, <1>14, <1>15

\* The tasks that were resumed meanwhile become ready: none of them slept.
LEMMA PendingMoves ==
  ASSUME NEW k, Kept(k)
  PROVE  LET l == MakeReady(k, k.pending)
         IN  /\ Kept(l) /\ Rest(k, l) /\ l.pending = <<>> /\ AreWoken(k, l, ToSet(k.pending))
             /\ \A t \in AnyTask : Left(l, t) = Left(k, t)
<1> DEFINE l == MakeReady(k, k.pending)
           W == ToSet(k.pending)
<1>1. Tidy(k) /\ Ahead(k) /\ W \subseteq k.suspended
  BY DEF Kept
<1>2. k.pending \in Seq(AnyTask) /\ W \subseteq AnyTask
  BY <1>1, NothingInList DEF Tidy, Once
<1>3. \A t \in W : /\ t \notin ToSet(k.delayed) /\ t \notin ToSet(k.overflow)
                   /\ t \notin ToSet(k.terminating)
  BY <1>1, <1>2 DEF Tidy, Apart
<1>4. MadeReady(k, l, W)
  <2>1. W \cap ToSet(k.terminating) = {}
    BY <1>3
  <2>2. QED
    BY <1>1, <1>2, <2>1, MakeReadyMoves
<1> HIDE DEF l
<1>5. /\ ToSet(l.delayed) = ToSet(k.delayed) /\ ToSet(l.overflow) = ToSet(k.overflow)
      /\ l.suspended = k.suspended \ W /\ l.terminating = k.terminating
      /\ ToSet(l.pending) = {} /\ ReadyTasks(l) = ReadyTasks(k) \cup W
      /\ l.nextUnblock = k.nextUnblock /\ l.tickCount = k.tickCount
      /\ l.numOfOverflows = k.numOfOverflows
  <2> HIDE DEF W
  <2>1. ToSet(k.delayed) \ W = ToSet(k.delayed) /\ ToSet(k.overflow) \ W = ToSet(k.overflow)
    BY <1>3
  <2>2. QED
    BY <1>4, <2>1 DEF MadeReady, Rest, SameTime, W
<1>6. \A t \in AnyTask : t \in Blocked(k) => l.wake[t] = k.wake[t]
  BY <1>3, <1>4 DEF MadeReady, Blocked
<1> HIDE DEF W
<1>7. Tidy(l) /\ Rest(k, l)
  BY <1>4 DEF MadeReady
<1>8. l.pending = <<>>
  BY <1>5, <1>7, NothingInList DEF Tidy
<1>9. Ahead(l)
  <2>1. \A t \in Blocked(k) : t \in AnyTask
    BY <1>1, NothingInList DEF Tidy, Blocked
  <2>2. QED
    BY <1>1, <1>5, <1>6, <2>1 DEF Ahead, Blocked
<1>10. \A t \in AnyTask : Left(l, t) = Left(k, t)
  BY <1>5, <1>6 DEF Left, Blocked
<1>11. AreWoken(k, l, W)
  <2>1. ToSet(l.pending) = ToSet(k.pending) \ W
    BY <1>5 DEF W
  <2>2. QED
    BY <1>1, <1>3, <1>5, <2>1 DEF AreWoken, Asleep, Blocked
<1>12. QED
  BY <1>5, <1>7, <1>8, <1>9, <1>10, <1>11 DEF Kept, l, W

\* Nobody ready is more urgent than t.
Foremost(k, t) == \A u \in ReadyTasks(k) : k.priority[u] <= k.priority[t]

\* The last xTaskResumeAll ends the suspension.
Unsuspended(k, l) ==
  /\ Kept(l) /\ l.running = k.running /\ l.priority = k.priority /\ l.base = k.base
  /\ l.numberOfTasks = k.numberOfTasks /\ l.tasksDeleted = k.tasksDeleted
  /\ l.suspendDepth = 0 /\ l.missedTicks = 0 /\ l.pending = <<>> /\ ~l.missedYield
  /\ l.tickCount = Clock(k) /\ Passed(k, l, k.missedTicks) /\ \E W : AreWoken(k, l, W)
  /\ \/ AlreadyYields(k) /\ l.current \in ReadyTasks(l) /\ Foremost(l, l.current)
     \/ /\ ~AlreadyYields(k) /\ l.current = k.current /\ ~k.missedYield
        /\ \A t \in ReadyTasks(l) \ ReadyTasks(k) : ~ (k.priority[t] >= k.priority[k.current])

LEMMA ResumeAllMoves ==
  ASSUME NEW k, Kept(k), k.suspendDepth = 1, k.numberOfTasks \in Nat \ {0}, ReadyTasks(k) # {}
  PROVE  Unsuspended(k, ResumeAll(k))
<1> DEFINE l == [k EXCEPT !.suspendDepth = @ - 1]
           r == MakeReady(l, l.pending)
           m == MissedTicks(r)
           n == [m EXCEPT !.missedYield = FALSE]
<1>1. Tidy(k) /\ Ahead(k) /\ ToSet(k.pending) \subseteq k.suspended
  BY DEF Kept
<1>2. /\ SameLists(k, l) /\ SameTime(k, l) /\ l.nextUnblock = k.nextUnblock
      /\ l.current = k.current /\ l.running = k.running
      /\ l.numberOfTasks = k.numberOfTasks /\ l.tasksDeleted = k.tasksDeleted
      /\ l.suspendDepth = 0 /\ l.missedYield = k.missedYield
  BY <1>1 DEF Tidy, IsKernel, Fields, SameLists, SameTime
<1>3. ResumeAll(k) = IF AlreadyYields(k) THEN SwitchContext(n) ELSE m
  BY <1>2 DEF ResumeAll
<1> HIDE DEF l
<1>4. /\ Tidy(l) /\ AreWoken(k, l, {}) /\ Ahead(l) /\ \A t \in AnyTask : Left(l, t) = Left(k, t)
      /\ ToSet(l.pending) \subseteq l.suspended /\ l.pending = k.pending
  BY <1>1, <1>2, SameListsTidy, NoneWakes DEF SameTime, SameLists
<1>5. /\ Kept(r) /\ Rest(l, r) /\ r.pending = <<>> /\ AreWoken(l, r, ToSet(l.pending))
      /\ \A t \in AnyTask : Left(r, t) = Left(l, t)
  BY <1>4, PendingMoves DEF Kept
<1> HIDE DEF r
<1>6. ~ (r.suspendDepth > 0)
  BY <1>2, <1>5 DEF Rest, Untouched
<1>7. /\ Kept(m) /\ Untouched(r, m) /\ m.missedTicks = 0 /\ Passed(r, m, r.missedTicks)
      /\ m.tickCount = Clock(r)
      /\ r.missedTicks = 0 => ReadyTasks(m) = ReadyTasks(r)
      /\ \E W \in SUBSET Blocked(r) : AreWoken(r, m, W)
  BY <1>5, <1>6, MissedTicksMoves
<1> HIDE DEF m
<1>8. r.missedTicks = k.missedTicks /\ r.tickCount = k.tickCount
  BY <1>2, <1>5 DEF Rest, SameTime
<1>9. m.tickCount = Clock(k) /\ Passed(k, m, k.missedTicks)
  BY <1>4, <1>5, <1>7, <1>8 DEF Clock, Passed
<1>10. /\ m.running = k.running /\ m.priority = k.priority /\ m.base = k.base
       /\ m.current = k.current /\ m.missedYield = k.missedYield
       /\ m.numberOfTasks = k.numberOfTasks /\ m.tasksDeleted = k.tasksDeleted
       /\ m.suspendDepth = 0
  BY <1>2, <1>5, <1>7 DEF Rest, Untouched, SameLists
<1>11. m.pending = <<>> /\ \E W : AreWoken(k, m, W)
  <2>1. PICK W : AreWoken(r, m, W)
    BY <1>7
  <2>2. ToSet(m.pending) = {} \ W
    BY <1>5, <2>1, EmptyOnce DEF AreWoken
  <2>3. m.pending = <<>>
    BY <1>7, <2>2, NothingInList DEF Kept, Tidy
  <2>4. AreWoken(k, r, {} \cup ToSet(l.pending))
    BY <1>4, <1>5, WakesTwice
  <2>5. AreWoken(k, m, ({} \cup ToSet(l.pending)) \cup W)
    BY <2>1, <2>4, WakesTwice
  <2>6. QED
    BY <2>3, <2>5
<1>12. CASE AlreadyYields(k)
  <2> DEFINE q == SwitchContext(n)
  <2>1. /\ SameLists(m, n) /\ n.tickCount = m.tickCount /\ n.nextUnblock = m.nextUnblock
        /\ n.numOfOverflows = m.numOfOverflows
        /\ n.running = m.running /\ n.numberOfTasks = m.numberOfTasks
        /\ n.tasksDeleted = m.tasksDeleted /\ n.suspendDepth = m.suspendDepth
        /\ n.missedTicks = m.missedTicks /\ ~n.missedYield
    BY <1>7 DEF Kept, Tidy, IsKernel, Fields, SameLists
  <2> HIDE DEF n
  <2>2. /\ Tidy(n) /\ ReadyTasks(n) = ReadyTasks(m) /\ AreWoken(m, n, {}) /\ Ahead(n)
        /\ \A t \in AnyTask : Left(n, t) = Left(m, t)
    BY <1>7, <2>1, SameListsTidy, NoneWakes DEF Kept
  <2>3. ReadyTasks(n) # {}
    BY <1>11, <2>2 DEF AreWoken
  <2>4. /\ Tidy(q) /\ Rest([n EXCEPT !.current = q.current], q)
        /\ q.current \in ReadyTasks(n)
        /\ \A t \in ReadyTasks(n) : n.priority[t] <= n.priority[q.current]
        /\ ReadyTasks(q) = ReadyTasks(n)
        /\ q.delayed = n.delayed /\ q.overflow = n.overflow /\ q.suspended = n.suspended
        /\ q.terminating = n.terminating /\ q.pending = n.pending /\ q.wake = n.wake
        /\ q.nextUnblock = n.nextUnblock
    <3>1. ~ (n.suspendDepth > 0)
      BY <1>10, <2>1
    <3>2. QED
      BY <2>2, <2>3, <3>1, SwitchContextMoves
  <2> HIDE DEF q
  <2>5. /\ q.running = n.running /\ q.priority = n.priority /\ q.base = n.base
        /\ q.numberOfTasks = n.numberOfTasks /\ q.tasksDeleted = n.tasksDeleted
        /\ q.suspendDepth = n.suspendDepth /\ q.missedYield = n.missedYield
        /\ q.tickCount = n.tickCount /\ q.missedTicks = n.missedTicks
        /\ q.numOfOverflows = n.numOfOverflows
    BY <2>2, <2>4 DEF Rest, Untouched, SameTime, Tidy, IsKernel, Fields
  <2>6. Kept(q)
    BY <1>7, <2>1, <2>2, <2>4, <2>5 DEF Kept, Ahead, SameLists
  <2>7. Passed(k, q, k.missedTicks)
    BY <1>9, <2>2, <2>4, <2>5 DEF Passed, Left
  <2>8. \E W : AreWoken(k, q, W)
    BY <1>11, <2>1, <2>2, <2>4, ZenonT(30) DEF AreWoken, Blocked, SameLists
  <2>9. Foremost(q, q.current) /\ q.current \in ReadyTasks(q)
    BY <2>4, <2>5 DEF Foremost
  <2>10. q.pending = <<>>
    BY <1>11, <2>1, <2>4 DEF SameLists
  <2>11. Unsuspended(k, q)
    BY <1>7, <1>9, <1>10, <1>12, <2>1, <2>5, <2>6, <2>7, <2>8, <2>9, <2>10
       DEF Unsuspended, SameLists
  <2>12. QED
    BY <1>3, <1>12, <2>11 DEF q
<1>13. CASE ~AlreadyYields(k)
  <2>1. k.missedTicks = 0 /\ ~k.missedYield
    BY <1>1, <1>13 DEF AlreadyYields, Tidy, IsKernel
  <2>2. \A t \in ToSet(k.pending) : ~ (k.priority[t] >= k.priority[k.current])
    BY <1>13 DEF AlreadyYields
  <2>3. ReadyTasks(m) = ReadyTasks(k) \cup ToSet(k.pending)
    BY <1>4, <1>5, <1>7, <1>8, <2>1 DEF AreWoken
  <2>4. Unsuspended(k, m)
    BY <1>7, <1>9, <1>10, <1>11, <1>13, <2>1, <2>2, <2>3 DEF Unsuspended
  <2>5. QED
    BY <1>3, <1>13, <2>4
<1>14. QED
  BY <1>12, <1>13

\* The running task goes to sleep until the tick count is time.
LEMMA AddCurrentTaskMoves ==
  ASSUME NEW k, Tidy(k), Ahead(k), k.current \in ReadyTasks(k),
         NEW time \in Tick, time # k.tickCount
  PROVE  LET l == AddCurrentTaskToDelayedList(k, time)
             t == k.current
         IN  /\ Tidy(l) /\ Ahead(l) /\ Rest(k, l) /\ ReadyTasks(l) = ReadyTasks(k) \ {t}
             /\ l.suspended = k.suspended /\ l.terminating = k.terminating
             /\ l.pending = k.pending /\ Blocked(l) = Blocked(k) \cup {t}
             /\ \A u \in AnyTask \ {t} : Left(l, u) = Left(k, u)
             /\ Left(l, t) = IF time > k.tickCount THEN time - k.tickCount
                             ELSE time + Turn - k.tickCount
<1> DEFINE t == k.current
           r == RemoveGeneric(k, t)
           l == [r EXCEPT !.wake[t] = time]
           later == {u \in DOMAIN l.wake : l.wake[u] > time}
           over == [l EXCEPT !.overflow = ListInsert(@, t, later)]
           soon == [l EXCEPT !.delayed = ListInsert(@, t, later),
                             !.nextUnblock = IF time < @ THEN time ELSE @]
           q == AddCurrentTaskToDelayedList(k, time)
<1>1. q = IF time < l.tickCount THEN over ELSE soon
  BY DEF AddCurrentTaskToDelayedList
<1>2. t \in AnyTask /\ t \in ReadyTasks(k) /\ Tidy(k) /\ Ahead(k)
  BY DEF ReadyTasks
<1> HIDE DEF t
<1>3. Tidy(r) /\ Rest(k, r) /\ TakenOut(k, r, t) /\ r.pending = k.pending /\ r.topReady = k.topReady
  BY <1>2, RemoveGenericMoves
<1> HIDE DEF r
<1>4. /\ l = [x \in Fields |-> l[x]] /\ Rest(r, l) /\ l.ready = r.ready /\ l.topReady = r.topReady
      /\ l.delayed = r.delayed /\ l.overflow = r.overflow /\ l.pending = r.pending
      /\ l.suspended = r.suspended /\ l.terminating = r.terminating
      /\ l.nextUnblock = r.nextUnblock /\ l.wake = [r.wake EXCEPT ![t] = time]
  BY <1>3 DEF Tidy, IsKernel, Fields, Rest, Untouched, SameTime
<1> HIDE DEF l
<1>5. /\ l.wake \in [AnyTask -> Tick] /\ l.wake[t] = time
      /\ \A u \in AnyTask \ {t} : l.wake[u] = k.wake[u]
  BY <1>2, <1>3, <1>4 DEF Tidy, TakenOut
<1>6. t \notin Asleep(k) /\ t \notin ToSet(k.terminating)
  BY <1>2 DEF Tidy, Apart, ReadyTasks
<1>7. /\ ToSet(l.delayed) = ToSet(k.delayed) /\ ToSet(l.overflow) = ToSet(k.overflow)
      /\ l.suspended = k.suspended /\ l.terminating = k.terminating
      /\ l.pending = k.pending /\ l.nextUnblock = k.nextUnblock /\ l.tickCount = k.tickCount
      /\ l.numOfOverflows = k.numOfOverflows
  <2>1. /\ ToSet(k.delayed) \ {t} = ToSet(k.delayed) /\ ToSet(k.overflow) \ {t} = ToSet(k.overflow)
        /\ k.suspended \ {t} = k.suspended
    BY <1>6 DEF Asleep, Blocked
  <2>2. QED
    BY <1>3, <1>4, <1>6, <2>1 DEF TakenOut, Rest, SameTime
<1>8. /\ Once(l.delayed) /\ InOrder(l.delayed, l.wake)
      /\ Once(l.overflow) /\ InOrder(l.overflow, l.wake)
      /\ t \notin ToSet(l.delayed) /\ t \notin ToSet(l.overflow)
  <2>1. t \notin ToSet(l.delayed) /\ t \notin ToSet(l.overflow)
    BY <1>6, <1>7 DEF Asleep, Blocked
  <2>2. \A s : Once(s) /\ t \notin ToSet(s) /\ InOrder(s, r.wake) => InOrder(s, l.wake)
    <3>1. \A s : Once(s) => \A i \in DOMAIN s : s[i] \in ToSet(s) /\ s[i] \in AnyTask
      BY NothingInList DEF ToSet
    <3>2. \A u \in AnyTask \ {t} : l.wake[u] = r.wake[u]
      BY <1>3, <1>4 DEF Tidy
    <3>3. QED
      BY <3>1, <3>2 DEF InOrder
  <2>3. QED
    BY <1>3, <1>4, <2>1, <2>2 DEF Tidy
<1>9. /\ time \in Nat /\ time <= MaxDelay /\ k.tickCount \in Nat /\ k.nextUnblock \in Nat
      /\ \A u \in AnyTask : l.wake[u] \in Nat
  BY <1>2, <1>5, KernelAssumption DEF Ahead, Tick
<1>10. \A s : Once(s) /\ t \notin ToSet(s) /\ InOrder(s, l.wake) =>
         LET n == ListInsert(s, t, later)
         IN  Once(n) /\ ToSet(n) = ToSet(s) \cup {t} /\ InOrder(n, l.wake)
  <2>1. SUFFICES ASSUME NEW s, Once(s), t \notin ToSet(s), InOrder(s, l.wake)
                 PROVE  LET n == ListInsert(s, t, later)
                        IN  Once(n) /\ ToSet(n) = ToSet(s) \cup {t} /\ InOrder(n, l.wake)
    OBVIOUS
  <2>2. /\ \A u \in ToSet(s) : l.wake[u] \in Int /\ (u \in later <=> l.wake[u] > l.wake[t])
        /\ l.wake[t] \in Int
    <3>1. \A u \in ToSet(s) : u \in AnyTask
      BY <2>1, NothingInList
    <3>2. QED
      BY <1>5, <1>9, <3>1
  <2> HIDE DEF later
  <2>3. QED
    BY <1>2, <2>1, <2>2, InsertIntoList
<1> HIDE DEF later
<1>11. Apart(l) /\ ReadyTasks(l) = ReadyTasks(k) \ {t} /\ ReadyListsInv(l) /\ IsKernel(l)
  <2>1. l.priority = r.priority /\ l.base = r.base /\ l.missedTicks = r.missedTicks
    BY <1>4 DEF Rest, Untouched, SameTime
  <2>2. IsKernel(l)
    BY <1>3, <1>4, <2>1 DEF Tidy, IsKernel
  <2>3. ReadyListsInv(l)
    <3>1. ReadyListsInv(r)
      BY <1>3 DEF Tidy
    <3>2. QED
      BY <1>4, <2>1, <3>1 DEF ReadyListsInv
  <2>4. Apart(l) /\ ReadyTasks(l) = ReadyTasks(r)
    BY <1>3, <1>4, <2>1 DEF Tidy, Apart, InReady, Asleep, Blocked, ReadyTasks
  <2>5. QED
    BY <1>3, <2>2, <2>3, <2>4 DEF TakenOut
<1> DEFINE D == IF time < k.tickCount THEN {} ELSE {t}
           O == IF time < k.tickCount THEN {t} ELSE {}
<1>12. /\ q = [x \in Fields |-> q[x]] /\ Rest(l, q) /\ q.ready = l.ready
       /\ q.topReady = l.topReady /\ q.pending = l.pending /\ q.suspended = l.suspended
       /\ q.terminating = l.terminating /\ q.wake = l.wake
       /\ q.nextUnblock \in Tick /\ q.nextUnblock <= k.nextUnblock
       /\ t \in D => q.nextUnblock <= time
       /\ Once(q.delayed) /\ InOrder(q.delayed, l.wake)
       /\ Once(q.overflow) /\ InOrder(q.overflow, l.wake)
       /\ ToSet(q.delayed) = ToSet(k.delayed) \cup D
       /\ ToSet(q.overflow) = ToSet(k.overflow) \cup O
  <2>1. CASE time < k.tickCount
    <3>1. /\ over = [x \in Fields |-> over[x]] /\ Rest(l, over) /\ over.ready = l.ready
          /\ over.topReady = l.topReady /\ over.pending = l.pending
          /\ over.suspended = l.suspended /\ over.terminating = l.terminating
          /\ over.wake = l.wake /\ over.nextUnblock = l.nextUnblock
          /\ over.delayed = l.delayed /\ over.overflow = ListInsert(l.overflow, t, later)
      BY <1>11 DEF IsKernel, Fields, Rest, Untouched, SameTime
    <3>2. q = over
      BY <1>1, <1>7, <2>1
    <3> HIDE DEF over, q
    <3>3. /\ Once(q.overflow) /\ ToSet(q.overflow) = ToSet(l.overflow) \cup {t}
          /\ InOrder(q.overflow, l.wake)
      BY <1>8, <1>10, <3>1, <3>2
    <3>4. q.nextUnblock = k.nextUnblock /\ q.nextUnblock \in Tick
      BY <1>2, <1>7, <3>1, <3>2 DEF Ahead
    <3>5. D = {} /\ O = {t}
      BY <2>1
    <3> HIDE DEF D, O
    <3>6. QED
      BY <1>7, <1>8, <1>9, <3>1, <3>2, <3>3, <3>4, <3>5
  <2>2. CASE ~ (time < k.tickCount)
    <3>1. /\ soon = [x \in Fields |-> soon[x]] /\ Rest(l, soon) /\ soon.ready = l.ready
          /\ soon.topReady = l.topReady /\ soon.pending = l.pending
          /\ soon.suspended = l.suspended /\ soon.terminating = l.terminating
          /\ soon.wake = l.wake
          /\ soon.nextUnblock = IF time < l.nextUnblock THEN time ELSE l.nextUnblock
          /\ soon.delayed = ListInsert(l.delayed, t, later) /\ soon.overflow = l.overflow
      BY <1>11 DEF IsKernel, Fields, Rest, Untouched, SameTime
    <3>2. q = soon
      BY <1>1, <1>7, <2>2
    <3> HIDE DEF soon, q
    <3>3. /\ Once(q.delayed) /\ ToSet(q.delayed) = ToSet(l.delayed) \cup {t}
          /\ InOrder(q.delayed, l.wake)
      BY <1>8, <1>10, <3>1, <3>2
    <3>4. /\ q.nextUnblock \in Tick /\ q.nextUnblock <= k.nextUnblock
          /\ q.nextUnblock <= time
      BY <1>2, <1>7, <1>9, <3>1, <3>2 DEF Ahead
    <3>5. D = {t} /\ O = {}
      BY <2>2
    <3> HIDE DEF D, O
    <3>6. QED
      BY <1>7, <1>8, <1>9, <3>1, <3>2, <3>3, <3>4, <3>5
  <2>3. QED
    BY <2>1, <2>2
<1>13. /\ q.priority = l.priority /\ q.base = l.base /\ q.missedTicks = l.missedTicks
       /\ q.tickCount = k.tickCount /\ q.suspended = k.suspended
       /\ q.numOfOverflows = k.numOfOverflows
       /\ q.terminating = k.terminating /\ q.pending = k.pending
  BY <1>7, <1>12 DEF Rest, Untouched, SameTime
<1>14. Rest(k, q)
  BY <1>3, <1>4, <1>12 DEF Rest, Untouched, SameTime
<1> HIDE DEF q, D, O
<1>15. Blocked(q) = Blocked(k) \cup {t}
  BY <1>12 DEF Blocked, D, O
<1>16. Tidy(q) /\ ReadyTasks(q) = ReadyTasks(k) \ {t}
  <2>1. IsKernel(q)
    <3>1. IsList(q.delayed) /\ IsList(q.overflow)
      BY <1>12 DEF Once, IsList
    <3>2. QED
      BY <1>11, <1>12, <1>13, <3>1 DEF IsKernel
  <2>2. ReadyListsInv(q)
    BY <1>11, <1>12, <1>13 DEF ReadyListsInv
  <2>3. \A u \in AnyTask : InReady(q, u) <=> InReady(l, u)
    BY <1>12, <1>13 DEF InReady
  <2>4. ReadyTasks(q) = ReadyTasks(k) \ {t}
    BY <1>11, <2>3 DEF ReadyTasks
  <2>5. Apart(q)
    <3>1. D \cap O = {} /\ D \subseteq {t} /\ O \subseteq {t}
      BY DEF D, O
    <3>2. \A u \in AnyTask : InReady(q, u) => u \in ReadyTasks(k) /\ u # t
      BY <2>4 DEF ReadyTasks
    <3>3. QED
      BY <1>2, <1>6, <1>12, <1>13, <3>1, <3>2 DEF Tidy, Apart, Asleep, Blocked, ReadyTasks
  <2>6. /\ q.priority = k.priority /\ q.suspended \subseteq AnyTask /\ Once(q.pending)
        /\ Once(q.terminating) /\ q.topReady \in Priority
    BY <1>2, <1>3, <1>4, <1>12, <1>13, <1>14 DEF Tidy, Rest, Untouched
  <2>7. QED
    BY <1>2, <1>5, <1>12, <2>1, <2>2, <2>4, <2>5, <2>6 DEF Tidy
<1>17. ToSet(k.delayed) \subseteq AnyTask \ {t} /\ ToSet(k.overflow) \subseteq AnyTask \ {t}
  BY <1>2, <1>6, NothingInList DEF Tidy, Asleep, Blocked
<1>18. Ahead(q)
  <2>1. \A u \in ToSet(q.delayed) : q.tickCount < q.wake[u] /\ q.nextUnblock <= q.wake[u]
    <3>1. ASSUME NEW u \in ToSet(k.delayed)
          PROVE  k.tickCount < q.wake[u] /\ q.nextUnblock <= q.wake[u]
      <4>1. q.wake[u] = k.wake[u] /\ k.wake[u] \in Nat /\ k.tickCount < k.wake[u]
            /\ k.nextUnblock <= k.wake[u]
        BY <1>2, <1>5, <1>9, <1>12, <1>17 DEF Ahead
      <4>2. q.nextUnblock \in Nat
        BY <1>12, KernelAssumption DEF Tick
      <4>3. QED
        BY <1>9, <1>12, <4>1, <4>2
    <3>2. t \in D => k.tickCount < q.wake[t] /\ q.nextUnblock <= q.wake[t]
      BY <1>5, <1>9, <1>12 DEF D
    <3>3. D \subseteq {t}
      BY DEF D
    <3>4. QED
      BY <1>12, <1>13, <3>1, <3>2, <3>3
  <2>2. \A u \in ToSet(q.overflow) : q.wake[u] < q.tickCount
    <3>1. \A u \in ToSet(k.overflow) : q.wake[u] < k.tickCount
      BY <1>2, <1>5, <1>12, <1>17 DEF Ahead
    <3>2. O \subseteq {t} /\ (t \in O => q.wake[t] < k.tickCount)
      BY <1>5, <1>12 DEF O
    <3>3. QED
      BY <1>12, <1>13, <3>1, <3>2
  <2>3. QED
    BY <1>2, <1>12, <1>13, <2>1, <2>2 DEF Ahead
<1>19. ASSUME NEW u \in AnyTask \ {t} PROVE Left(q, u) = Left(k, u)
  <2>1. /\ u \in ToSet(q.delayed) <=> u \in ToSet(k.delayed)
        /\ u \in ToSet(q.overflow) <=> u \in ToSet(k.overflow)
    BY <1>12 DEF D, O
  <2>2. q.wake[u] = k.wake[u]
    BY <1>5, <1>12
  <2>3. QED
    BY <1>13, <2>1, <2>2 DEF Left
<1>20. Left(q, t) = IF time > k.tickCount THEN time - k.tickCount ELSE time + Turn - k.tickCount
  <2>1. t \notin ToSet(k.delayed) /\ t \notin ToSet(k.overflow)
    BY <1>17
  <2>2. q.wake[t] = time
    BY <1>5, <1>12
  <2>3. CASE time < k.tickCount
    <3>1. t \notin ToSet(q.delayed) /\ t \in ToSet(q.overflow) /\ ~ (time > k.tickCount)
      BY <1>9, <1>12, <2>1, <2>3 DEF D, O
    <3>2. QED
      BY <1>13, <2>2, <3>1 DEF Left
  <2>4. CASE ~ (time < k.tickCount)
    <3>1. t \in ToSet(q.delayed) /\ time > k.tickCount
      BY <1>9, <1>12, <2>4 DEF D
    <3>2. QED
      BY <1>13, <2>2, <3>1 DEF Left
  <2>5. QED
    BY <2>3, <2>4
<1>21. QED
  BY <1>13, <1>14, <1>15, <1>16, <1>18, <1>19, <1>20 DEF q, t

-----------------------------------------------------------------------------
(* The tick count *)

InTime(k) == IsKernel(k) /\ k.tickCount \in Tick

\* What leaves the time alone.
LEMMA SectionKeepsTime ==
  ASSUME NEW k, InTime(k), NEW l, IsKernel(l), SameTime(k, l)
  PROVE  InTime(l) /\ Clock(l) = Clock(k)
BY DEF InTime, SameTime, Clock

\* A section that moves a task between lists that say nothing of the time.
Moved(k, l) ==
  /\ l = [x \in Fields |-> l[x]]
  /\ l.priority = [t \in AnyTask |-> l.priority[t]]
  /\ l.base = [t \in AnyTask |-> l.base[t]]
  /\ l.delayed = k.delayed /\ l.overflow = k.overflow /\ IsList(l.pending)
  /\ SameTime(k, l)

LEMMA MovedIsKernel ==
  ASSUME NEW k, IsKernel(k), NEW l, Moved(k, l)
  PROVE  IsKernel(l) /\ SameTime(k, l)
BY DEF IsKernel, Moved, SameTime

LEMMA DeleteTime ==
  ASSUME NEW k, IsKernel(k), NEW t
  PROVE  IsKernel(Delete(k, t)) /\ SameTime(k, Delete(k, t))
<1> DEFINE r == RemoveEvent(k, t)
           s == RemoveGeneric(r, t)
           l == [s EXCEPT !.terminating = Append(@, t), !.tasksDeleted = @ + 1]
<1>1. IsKernel(r) /\ SameTime(k, r)
  BY RemoveEventPreserves DEF Preserves
<1> HIDE DEF r
<1>2. IsKernel(s) /\ SameTime(r, s)
  BY <1>1, RemoveGenericPreserves DEF Preserves
<1> HIDE DEF s
<1>3. Moved(s, l)
  BY <1>2 DEF Moved, IsKernel, SameTime, Fields
<1>4. Delete(k, t) = l
  BY DEF Delete, r, s
<1> HIDE DEF l
<1>5. QED
  BY <1>1, <1>2, <1>3, <1>4, MovedIsKernel DEF SameTime

LEMMA SuspendTime ==
  ASSUME NEW k, IsKernel(k), NEW t
  PROVE  IsKernel(Suspend(k, t)) /\ SameTime(k, Suspend(k, t))
<1> DEFINE r == RemoveEvent(k, t)
           s == RemoveGeneric(r, t)
           l == [s EXCEPT !.suspended = @ \cup {t}]
<1>1. IsKernel(r) /\ SameTime(k, r)
  BY RemoveEventPreserves DEF Preserves
<1> HIDE DEF r
<1>2. IsKernel(s) /\ SameTime(r, s)
  BY <1>1, RemoveGenericPreserves DEF Preserves
<1> HIDE DEF s
<1>3. Moved(s, l)
  BY <1>2 DEF Moved, IsKernel, SameTime, Fields
<1>4. Suspend(k, t) = l
  BY DEF Suspend, r, s
<1> HIDE DEF l
<1>5. QED
  BY <1>1, <1>2, <1>3, <1>4, MovedIsKernel DEF SameTime

LEMMA ResumeTime ==
  ASSUME NEW k, IsKernel(k), NEW t
  PROVE  /\ IsKernel(Resume(k, t)) /\ SameTime(k, Resume(k, t))
         /\ IsKernel(ResumeFromISR(k, t)) /\ SameTime(k, ResumeFromISR(k, t))
<1> DEFINE m == MakeReady(k, <<t>>)
           n == [k EXCEPT !.pending = Append(@, t)]
           yields == k.priority[t] >= k.priority[k.current]
<1>1. IsKernel(m) /\ SameTime(k, m)
  BY MakeReadyPreserves, ShortLists DEF Preserves
<1>2. Resume(k, t) \in {k, YieldIf(yields, m)}
  BY DEF Resume
<1>3. ResumeFromISR(k, t) \in {k, n, YieldIf(yields, m)}
  BY DEF ResumeFromISR
<1> HIDE DEF m, yields
<1>4. IsKernel(YieldIf(yields, m)) /\ SameTime(m, YieldIf(yields, m))
  BY <1>1, YieldIfPreserves DEF Preserves
<1>5. Moved(k, n)
  <2>1. IsList(Append(k.pending, t))
    BY AppendIsList DEF IsKernel
  <2>2. /\ n = [x \in Fields |-> n[x]]
        /\ n.priority = k.priority /\ n.base = k.base /\ n.delayed = k.delayed
        /\ n.overflow = k.overflow /\ n.tickCount = k.tickCount
        /\ n.numOfOverflows = k.numOfOverflows
        /\ n.missedTicks = k.missedTicks /\ n.pending = Append(k.pending, t)
    BY DEF IsKernel, Fields
  <2> HIDE DEF n
  <2>3. QED
    BY <2>1, <2>2 DEF IsKernel, Moved, SameTime
<1> HIDE DEF n
<1>6. IsKernel(n) /\ SameTime(k, n)
  BY <1>5, MovedIsKernel
<1>7. QED
  BY <1>1, <1>2, <1>3, <1>4, <1>6 DEF SameTime

LEMMA ReapTime ==
  ASSUME NEW k, IsKernel(k)
  PROVE  IsKernel(Reap(k)) /\ SameTime(k, Reap(k))
<1>1. Moved(k, Reap(k))
  BY ZenonT(30) DEF Reap, Moved, IsKernel, SameTime, Fields
<1>2. QED
  BY <1>1, MovedIsKernel

\* One tick more: the time goes on by one, or is to be made up for.
LEMMA TickTime ==
  ASSUME NEW k, InTime(k)
  PROVE  LET l == SwitchContext(IncrementTick(k))
         IN  InTime(l) /\ Clock(l) = Ticks(Clock(k) + 1)
<1> DEFINE m == IncrementTick(k)
           l == SwitchContext(m)
<1>1. /\ IsKernel(m)
      /\ k.suspendDepth > 0 => Later(k, m)
      /\ ~ (k.suspendDepth > 0) => Sooner(k, m)
  BY IncrementTickPreserves DEF InTime, Preserves
<1> HIDE DEF m
<1>2. IsKernel(l) /\ SameTime(m, l)
  BY <1>1, SwitchContextPreserves DEF Preserves
<1> HIDE DEF l
<1>3. k.tickCount \in Nat /\ k.tickCount \in Tick /\ k.missedTicks \in Nat
  BY KernelAssumption DEF InTime, IsKernel, Tick
<1>4. /\ Ticks(k.tickCount + 1) \in Tick
      /\ Ticks(Ticks(k.tickCount + 1) + k.missedTicks) = Ticks((k.tickCount + 1) + k.missedTicks)
  BY <1>3, TicksAdd
<1>5. Ticks(Clock(k) + 1) = Ticks((k.tickCount + k.missedTicks) + 1)
  BY <1>3, TicksAdd, SMTT(30) DEF Clock
<1>6. /\ (k.tickCount + 1) + k.missedTicks = (k.tickCount + k.missedTicks) + 1
      /\ k.tickCount + (k.missedTicks + 1) = (k.tickCount + k.missedTicks) + 1
  BY <1>3
<1>7. InTime(l) /\ Clock(l) = Ticks(Clock(k) + 1)
  <2>1. CASE k.suspendDepth > 0
    BY <1>1, <1>2, <1>3, <1>5, <1>6, <2>1 DEF InTime, Clock, SameTime, Later
  <2>2. CASE ~ (k.suspendDepth > 0)
    BY <1>1, <1>2, <1>4, <1>5, <1>6, <2>2 DEF InTime, Clock, SameTime, Sooner
  <2>3. QED
    BY <2>1, <2>2
<1>8. QED
  BY <1>7 DEF l, m

\* What a step does to the time.
Onwards(k, l) ==
  /\ InTime(l)
  /\ k.running => Clock(l) \in {Clock(k), Ticks(Clock(k) + 1)}

LEMMA SameTimeIsOnwards ==
  ASSUME NEW k, InTime(k), NEW l, IsKernel(l), SameTime(k, l)
  PROVE  Onwards(k, l)
BY SectionKeepsTime DEF Onwards

LEMMA SwitchTime ==
  ASSUME NEW k, IsKernel(k)
  PROVE  /\ IsKernel(SwitchContext(k)) /\ SameTime(k, SwitchContext(k))
         /\ \A yields : IsKernel(YieldIf(yields, k)) /\ SameTime(k, YieldIf(yields, k))
BY SwitchContextPreserves, YieldIfPreserves DEF Preserves

LEMMA DelayTime ==
  ASSUME NEW k, IsKernel(k), NEW time
  PROVE  LET s == SuspendAll(k)
             l == AddCurrentTaskToDelayedList(s, time)
         IN  IsKernel(s) /\ SameTime(k, s) /\ IsKernel(l) /\ SameTime(k, l)
<1> DEFINE s == SuspendAll(k)
           l == AddCurrentTaskToDelayedList(s, time)
<1>1. IsKernel(s) /\ SameTime(k, s)
  BY SuspendAllPreserves
<1> HIDE DEF s
<1>2. IsKernel(l) /\ SameTime(s, l)
  BY <1>1, AddCurrentTaskPreserves DEF Preserves
<1> HIDE DEF l
<1>3. QED
  BY <1>1, <1>2 DEF SameTime, s, l

-----------------------------------------------------------------------------
(* The lists, the counters and the running task *)

All(k) == ReadyTasks(k) \cup Asleep(k) \cup ToSet(k.terminating)

\* The counters agree with the lists, and nothing is put off unless the
\* scheduler is suspended.
CountsAgree(k) ==
  /\ k.base = k.priority
  /\ k.numberOfTasks = Cardinality(All(k)) /\ k.tasksDeleted = Len(k.terminating)
  /\ k.suspendDepth \in Nat
  /\ ~ (k.suspendDepth > 0) => k.missedTicks = 0 /\ k.pending = <<>> /\ ~k.missedYield

\* The idle task is always ready once the scheduler runs.
Started(k) ==
  /\ k.running => Idle \in ReadyTasks(k) /\ k.priority[Idle] = 0
  /\ ~k.running => Idle \notin All(k) /\ k.suspendDepth = 0 /\ k.tickCount = 0

\* The running task is the most urgent one, or a yield is still to be made up for.
Chosen(k) ==
  /\ k.running => k.current \in AnyTask
  /\ ~k.running => k.current \in ReadyTasks(k) \cup {NoTask}
  /\ k.current = NoTask => ReadyTasks(k) = {}
  /\ k.current # NoTask => k.missedYield \/ Foremost(k, k.current)

Sound(k) == Kept(k) /\ CountsAgree(k)
Good(k) == Sound(k) /\ Started(k) /\ Chosen(k)

LEMMA AllIsFinite ==
  ASSUME NEW k, Tidy(k)
  PROVE  All(k) \subseteq AnyTask /\ IsFiniteSet(All(k)) /\ IsFiniteSet(AnyTask)
<1>1. IsFiniteSet(AnyTask)
  BY KernelAssumption, FS_AddElement, FS_Singleton, FS_Union DEF AnyTask
<1>2. All(k) \subseteq AnyTask
  <2>1. /\ ToSet(k.delayed) \subseteq AnyTask /\ ToSet(k.overflow) \subseteq AnyTask
        /\ ToSet(k.terminating) \subseteq AnyTask
    BY NothingInList DEF Tidy
  <2>2. QED
    BY <2>1 DEF All, Asleep, Blocked, ReadyTasks, Tidy
<1>3. QED
  BY <1>1, <1>2, FS_Subset

\* Nothing moves from list to list.
LEMMA SamePlaces ==
  ASSUME NEW k, NEW l, ReadyTasks(l) = ReadyTasks(k), Blocked(l) = Blocked(k),
         l.suspended = k.suspended, l.terminating = k.terminating
  PROVE  Asleep(l) = Asleep(k) /\ All(l) = All(k)
BY DEF Asleep, All

-----------------------------------------------------------------------------
(* Sections that only choose who runs *)

\* The places and the times are what they were.
Stays(k, l) ==
  /\ ReadyTasks(l) = ReadyTasks(k) /\ Blocked(l) = Blocked(k) /\ l.suspended = k.suspended
  /\ l.terminating = k.terminating /\ l.pending = k.pending
  /\ l.running = k.running /\ l.priority = k.priority /\ SameTime(k, l)
  /\ \A t \in AnyTask : Left(l, t) = Left(k, t)

\* The current task changes only where the scheduler may switch, to a ready one.
Switched(k, l) ==
  /\ l.suspendDepth = k.suspendDepth
  /\ l.current # k.current => ~ (k.suspendDepth > 0) /\ l.current \in ReadyTasks(l)

LEMMA SwitchContextIs ==
  ASSUME NEW k, Sound(k), ReadyTasks(k) # {}
  PROVE  LET l == SwitchContext(k)
         IN  /\ Sound(l) /\ Stays(k, l) /\ Switched(k, l)
             /\ (l.current = k.current /\ l.missedYield) \/ Foremost(l, l.current)
             /\ ~ (k.suspendDepth > 0) => l.current \in ReadyTasks(l) /\ Foremost(l, l.current)
<1> DEFINE l == SwitchContext(k)
<1>1. Tidy(k) /\ Ahead(k) /\ CountsAgree(k)
  BY DEF Sound, Kept
<1>2. CASE k.suspendDepth > 0
  <2>1. /\ SameLists(k, l) /\ SameTime(k, l) /\ l.nextUnblock = k.nextUnblock
        /\ l.current = k.current /\ l.running = k.running /\ l.missedYield
        /\ l.numberOfTasks = k.numberOfTasks /\ l.tasksDeleted = k.tasksDeleted
        /\ l.suspendDepth = k.suspendDepth
    BY <1>1, <1>2 DEF SwitchContext, Tidy, IsKernel, Fields, SameLists, SameTime
  <2> HIDE DEF l
  <2>2. /\ Tidy(l) /\ ReadyTasks(l) = ReadyTasks(k) /\ Ahead(l)
        /\ \A t \in AnyTask : Left(l, t) = Left(k, t)
    BY <1>1, <2>1, SameListsTidy, NoneWakes DEF SameTime
  <2>3. Stays(k, l) /\ Switched(k, l)
    BY <2>1, <2>2 DEF Stays, Switched, Blocked, SameLists
  <2>4. Sound(l)
    BY <1>1, <1>2, <2>1, <2>2, <2>3, SamePlaces DEF Sound, Kept, CountsAgree, SameLists, Stays
  <2>5. QED
    BY <1>2, <2>1, <2>3, <2>4 DEF l
<1>3. CASE ~ (k.suspendDepth > 0)
  <2>1. /\ Tidy(l) /\ Rest([k EXCEPT !.current = l.current], l)
        /\ l.current \in ReadyTasks(k)
        /\ \A t \in ReadyTasks(k) : k.priority[t] <= k.priority[l.current]
        /\ ReadyTasks(l) = ReadyTasks(k)
        /\ l.delayed = k.delayed /\ l.overflow = k.overflow /\ l.suspended = k.suspended
        /\ l.terminating = k.terminating /\ l.pending = k.pending /\ l.wake = k.wake
        /\ l.nextUnblock = k.nextUnblock
    BY <1>1, <1>3, SwitchContextMoves
  <2> HIDE DEF l
  <2>2. /\ l.running = k.running /\ l.priority = k.priority /\ l.base = k.base
        /\ l.numberOfTasks = k.numberOfTasks /\ l.tasksDeleted = k.tasksDeleted
        /\ l.suspendDepth = k.suspendDepth /\ l.missedYield = k.missedYield
        /\ l.tickCount = k.tickCount /\ l.missedTicks = k.missedTicks
        /\ l.numOfOverflows = k.numOfOverflows
    BY <1>1, <2>1 DEF Rest, Untouched, SameTime, Tidy, IsKernel, Fields
  <2>3. Stays(k, l) /\ Switched(k, l)
    BY <1>3, <2>1, <2>2 DEF Stays, Switched, Blocked, SameTime, Left
  <2>4. Foremost(l, l.current)
    BY <2>1, <2>2 DEF Foremost
  <2>5. Ahead(l)
    BY <1>1, <2>1, <2>2 DEF Ahead
  <2>6. All(l) = All(k)
    BY <2>3, SamePlaces DEF Stays
  <2>7. Sound(l)
    BY <1>1, <1>3, <2>1, <2>2, <2>5, <2>6 DEF Sound, Kept, CountsAgree
  <2>8. QED
    BY <1>3, <2>1, <2>3, <2>4, <2>7 DEF l
<1>4. QED
  BY <1>2, <1>3

\* A section ends with a switch unless nobody has become more urgent.
LEMMA YieldIfIs ==
  ASSUME NEW k, Sound(k), Started(k), k.running, k.current \in AnyTask,
         NEW yields \in BOOLEAN, yields \/ k.missedYield \/ Foremost(k, k.current)
  PROVE  LET l == YieldIf(yields, k)
         IN  Good(l) /\ Stays(k, l) /\ Switched(k, l)
<1> DEFINE l == YieldIf(yields, k)
<1>1. k.current # NoTask
  BY KernelAssumption DEF AnyTask
<1>2. CASE ~yields
  <2>1. l = k
    BY <1>2 DEF YieldIf
  <2> HIDE DEF l
  <2>2. Chosen(k)
    BY <1>1, <1>2 DEF Chosen
  <2>3. Stays(k, k) /\ Switched(k, k) /\ Good(k)
    BY <2>2 DEF Stays, Switched, Good, SameTime
  <2>4. QED
    BY <2>1, <2>3 DEF l
<1>3. CASE yields
  <2>1. l = SwitchContext(k)
    BY <1>3 DEF YieldIf
  <2> HIDE DEF l
  <2>2. ReadyTasks(k) # {}
    BY DEF Started
  <2>3. /\ Sound(l) /\ Stays(k, l) /\ Switched(k, l)
        /\ (l.current = k.current /\ l.missedYield) \/ Foremost(l, l.current)
    BY <2>1, <2>2, SwitchContextIs
  <2>4. All(l) = All(k)
    BY <2>3, SamePlaces DEF Stays
  <2>5. Started(l)
    BY <2>3, <2>4 DEF Started, Stays, Switched
  <2>6. l.current \in AnyTask
    BY <2>3 DEF Switched, ReadyTasks
  <2>7. Chosen(l)
    BY <2>3, <2>6, KernelAssumption DEF Chosen, Stays, AnyTask
  <2>8. QED
    BY <2>3, <2>5, <2>7 DEF l, Good
<1>4. QED
  BY <1>2, <1>3

-----------------------------------------------------------------------------
(* Sections that give a task a priority *)

\* The lists are what they were, or shorter by a task that is to be freed.
SameQueues(k, l) ==
  /\ l = [x \in Fields |-> l[x]]
  /\ l.ready = k.ready /\ l.topReady = k.topReady /\ l.delayed = k.delayed
  /\ l.overflow = k.overflow /\ l.pending = k.pending /\ l.suspended = k.suspended
  /\ l.wake = k.wake /\ l.missedTicks \in Nat
  /\ Once(l.terminating) /\ ToSet(l.terminating) \subseteq ToSet(k.terminating)

LEMMA AssignedMoves ==
  ASSUME NEW k, Tidy(k), NEW t \in AnyTask, t \notin ReadyTasks(k), NEW p \in Priority,
         NEW l, SameQueues(k, l), l.priority = [k.priority EXCEPT ![t] = p],
         l.base = [u \in AnyTask |-> l.base[u]]
  PROVE  Tidy(l) /\ ReadyTasks(l) = ReadyTasks(k)
<1>1. \A q \in Priority : t \notin ToSet(k.ready[q])
  BY ReadyTask DEF Tidy, ReadyTasks
<1>2. \A u \in AnyTask \ {t} : l.priority[u] = k.priority[u]
  BY DEF Tidy
<1>3. l.priority \in [AnyTask -> Priority]
  BY DEF Tidy
<1>4. ReadyListsInv(l)
  <2>1. ASSUME NEW q \in Priority, NEW u \in ToSet(k.ready[q])
        PROVE  l.priority[u] = q /\ q <= k.topReady
    <3>1. u \in AnyTask /\ u # t
      BY <1>1, ReadyTask DEF Tidy
    <3>2. QED
      BY <1>2, <3>1 DEF Tidy, ReadyListsInv
  <2>2. QED
    BY <2>1 DEF Tidy, ReadyListsInv, SameQueues
<1>5. \A u \in AnyTask : InReady(l, u) <=> InReady(k, u)
  <2>1. l.priority[t] \in Priority /\ k.priority[t] \in Priority
    BY <1>3 DEF Tidy
  <2>2. QED
    BY <1>1, <1>2, <2>1 DEF InReady, SameQueues
<1>6. Apart(l)
  BY <1>5 DEF Tidy, Apart, Asleep, Blocked, SameQueues
<1>7. IsKernel(l)
  BY <1>3 DEF Tidy, IsKernel, SameQueues
<1>8. Tidy(l)
  BY <1>3, <1>4, <1>6, <1>7 DEF Tidy, SameQueues
<1>9. QED
  BY <1>5, <1>8 DEF ReadyTasks

\* What a call that does not block leaves as it was.
Called(k, l) ==
  /\ Good(l) /\ l.running = k.running /\ Switched(k, l)
  /\ ReadyTasks(k) \subseteq ReadyTasks(l)
  /\ ToSet(k.terminating) \subseteq ToSet(l.terminating)

\* Nobody waits longer or shorter, and no time passes.
SameWaits(k, l) == SameTime(k, l) /\ \A t \in AnyTask : Left(l, t) = Left(k, t)

\* A new task is ready.  Before the scheduler runs it may become the running one.
LEMMA CreateMoves ==
  ASSUME NEW k, Good(k), NEW t \in AnyTask, t \notin All(k), NEW p \in Priority
  PROVE  LET l == [k EXCEPT !.numberOfTasks = @ + 1,
                            !.priority[t] = p, !.base[t] = p, !.urgency[t] = p,
                            !.current = IF \/ k.current = NoTask
                                           \/ ~k.running /\ k.priority[k.current] <= p
                                        THEN t ELSE @]
             m == AddTaskToReadyQueue(l, t)
         IN  /\ Sound(m) /\ SameWaits(k, m) /\ m.running = k.running
             /\ m.suspendDepth = k.suspendDepth /\ m.missedYield = k.missedYield
             /\ m.terminating = k.terminating /\ m.pending = k.pending
             /\ ReadyTasks(m) = ReadyTasks(k) \cup {t} /\ All(m) = All(k) \cup {t}
             /\ m.priority = [k.priority EXCEPT ![t] = p]
             /\ m.current = IF \/ k.current = NoTask
                               \/ ~k.running /\ k.priority[k.current] <= p
                            THEN t ELSE k.current
<1> DEFINE first == \/ k.current = NoTask
                    \/ ~k.running /\ k.priority[k.current] <= p
           l == [k EXCEPT !.numberOfTasks = @ + 1,
                          !.priority[t] = p, !.base[t] = p, !.urgency[t] = p,
                          !.current = IF first THEN t ELSE @]
           m == AddTaskToReadyQueue(l, t)
           c == IF first THEN t ELSE k.current
<1>1. Tidy(k) /\ Ahead(k) /\ CountsAgree(k) /\ ToSet(k.pending) \subseteq k.suspended
  BY DEF Good, Sound, Kept
<1>2. /\ l = [x \in Fields |-> l[x]]
      /\ l.ready = k.ready /\ l.topReady = k.topReady /\ l.delayed = k.delayed
      /\ l.overflow = k.overflow /\ l.pending = k.pending /\ l.suspended = k.suspended
      /\ l.wake = k.wake /\ l.missedTicks = k.missedTicks /\ l.terminating = k.terminating
      /\ l.priority = [k.priority EXCEPT ![t] = p] /\ l.base = [k.base EXCEPT ![t] = p]
      /\ l.current = c /\ l.running = k.running
      /\ l.suspendDepth = k.suspendDepth /\ l.missedYield = k.missedYield
      /\ l.tickCount = k.tickCount /\ l.nextUnblock = k.nextUnblock
      /\ l.numOfOverflows = k.numOfOverflows
      /\ l.numberOfTasks = k.numberOfTasks + 1 /\ l.tasksDeleted = k.tasksDeleted
  BY <1>1, ZenonT(30) DEF Tidy, IsKernel, Fields
<1> HIDE DEF l, c
<1>3. t \notin ReadyTasks(k) /\ t \notin Asleep(k) /\ t \notin ToSet(k.terminating)
  BY DEF All
<1>4. SameQueues(k, l)
  BY <1>1, <1>2 DEF SameQueues, Tidy, IsKernel
<1>5. Tidy(l) /\ ReadyTasks(l) = ReadyTasks(k)
  <2>1. l.base = [u \in AnyTask |-> l.base[u]]
    BY <1>1, <1>2 DEF Tidy, IsKernel
  <2>2. QED
    BY <1>1, <1>2, <1>3, <1>4, <2>1, AssignedMoves
<1>6. /\ Tidy(m) /\ Rest(l, m)
      /\ ReadyTasks(m) = ReadyTasks(l) \cup {t}
      /\ m.delayed = l.delayed /\ m.overflow = l.overflow /\ m.suspended = l.suspended
      /\ m.terminating = l.terminating /\ m.pending = l.pending /\ m.wake = l.wake
      /\ m.nextUnblock = l.nextUnblock
  <2>1. t \notin ReadyTasks(l) /\ t \notin Asleep(l) /\ t \notin ToSet(l.terminating)
    BY <1>2, <1>3, <1>5 DEF Asleep, Blocked
  <2>2. QED
    BY <1>5, <2>1, AddTaskMoves
<1> HIDE DEF m
<1>7. /\ m.current = c /\ m.running = k.running /\ m.priority = l.priority /\ m.base = l.base
      /\ m.numberOfTasks = k.numberOfTasks + 1 /\ m.tasksDeleted = k.tasksDeleted
      /\ m.suspendDepth = k.suspendDepth /\ m.missedYield = k.missedYield
      /\ m.tickCount = k.tickCount /\ m.missedTicks = k.missedTicks
      /\ m.numOfOverflows = k.numOfOverflows
  BY <1>2, <1>6 DEF Rest, Untouched, SameTime
<1>8. ReadyTasks(m) = ReadyTasks(k) \cup {t} /\ All(m) = All(k) \cup {t}
  BY <1>2, <1>5, <1>6 DEF All, Asleep, Blocked
<1>9. Kept(m) /\ SameWaits(k, m)
  BY <1>1, <1>2, <1>6, <1>7 DEF Kept, Ahead, SameWaits, SameTime, Left
<1>10. m.numberOfTasks = Cardinality(All(m))
  <2>1. Cardinality(All(k) \cup {t}) = Cardinality(All(k)) + 1
    BY <1>1, AllIsFinite, FS_AddElement
  <2>2. QED
    BY <1>1, <1>7, <1>8, <2>1 DEF CountsAgree
<1>11. m.base = m.priority
  BY <1>1, <1>2, <1>7 DEF CountsAgree
<1>12. CountsAgree(m)
  BY <1>1, <1>2, <1>6, <1>7, <1>10, <1>11 DEF CountsAgree
<1>13. QED
  BY <1>2, <1>6, <1>7, <1>8, <1>9, <1>12 DEF Sound, l, m, c

LEMMA CreateIs ==
  ASSUME NEW k, Good(k), k.running, k.current \in ReadyTasks(k),
         NEW t \in AnyTask, t \notin All(k), NEW p \in Priority
  PROVE  LET l == Create(k, t, p) IN Called(k, l) /\ SameWaits(k, l)
<1> DEFINE l == [k EXCEPT !.numberOfTasks = @ + 1,
                          !.priority[t] = p, !.base[t] = p, !.urgency[t] = p,
                          !.current = IF \/ k.current = NoTask
                                         \/ ~k.running /\ k.priority[k.current] <= p
                                      THEN t ELSE @]
           m == AddTaskToReadyQueue(l, t)
           yields == k.running /\ k.priority[k.current] < p
           n == YieldIf(yields, m)
<1>1. Create(k, t, p) = n
  BY DEF Create
<1>2. k.current # NoTask /\ k.current # t /\ k.current \in AnyTask
  BY KernelAssumption DEF AnyTask, ReadyTasks, All
<1>3. /\ Sound(m) /\ SameWaits(k, m) /\ m.running = k.running
      /\ m.suspendDepth = k.suspendDepth /\ m.missedYield = k.missedYield
      /\ m.terminating = k.terminating /\ m.pending = k.pending
      /\ ReadyTasks(m) = ReadyTasks(k) \cup {t} /\ All(m) = All(k) \cup {t}
      /\ m.priority = [k.priority EXCEPT ![t] = p] /\ m.current = k.current
  <2>1. /\ Sound(m) /\ SameWaits(k, m) /\ m.running = k.running
        /\ m.suspendDepth = k.suspendDepth /\ m.missedYield = k.missedYield
        /\ m.terminating = k.terminating /\ m.pending = k.pending
        /\ ReadyTasks(m) = ReadyTasks(k) \cup {t} /\ All(m) = All(k) \cup {t}
        /\ m.priority = [k.priority EXCEPT ![t] = p]
        /\ m.current = IF \/ k.current = NoTask
                          \/ ~k.running /\ k.priority[k.current] <= p
                       THEN t ELSE k.current
    BY CreateMoves
  <2> HIDE DEF m
  <2>2. QED
    BY <1>2, <2>1
<1> HIDE DEF m
<1>4. k.priority \in [AnyTask -> Priority] /\ Started(k)
  BY DEF Good, Sound, Kept, Tidy
<1>5. /\ m.priority[t] = p /\ p \in Int
      /\ \A u \in ReadyTasks(k) : m.priority[u] = k.priority[u] /\ k.priority[u] \in Int
  BY <1>3, <1>4 DEF Priority, ReadyTasks, All
<1>6. Started(m)
  BY <1>3, <1>4, <1>5 DEF Started, All
<1>7. yields \/ m.missedYield \/ Foremost(m, m.current)
  <2>1. CASE k.missedYield
    BY <1>3, <2>1
  <2>2. CASE ~k.missedYield /\ ~yields
    <3>1. Foremost(k, k.current) /\ p <= k.priority[k.current]
      BY <1>2, <1>5, <2>2 DEF Good, Chosen
    <3>2. QED
      BY <1>3, <1>5, <3>1 DEF Foremost
  <2>3. QED
    BY <2>1, <2>2
<1>8. yields \in BOOLEAN
  BY <1>5, <1>2
<1> HIDE DEF yields
<1>9. Good(n) /\ Stays(m, n) /\ Switched(m, n)
  BY <1>2, <1>3, <1>6, <1>7, <1>8, YieldIfIs
<1> HIDE DEF n
<1>10. Called(k, n) /\ SameWaits(k, n)
  BY <1>3, <1>9 DEF Called, SameWaits, SameTime, Stays, Switched
<1>11. QED
  BY <1>1, <1>10

\* main creates a task: the most urgent one is to run first.
LEMMA MainCreateIs ==
  ASSUME NEW k, Good(k), ~k.running, NEW t \in AnyTask, t \notin All(k), NEW p \in Priority
  PROVE  LET l == Create(k, t, p)
         IN  /\ Sound(l) /\ Chosen(l) /\ SameWaits(k, l) /\ ~l.running
             /\ l.suspendDepth = k.suspendDepth
             /\ All(l) = All(k) \cup {t} /\ t \in ReadyTasks(l) /\ l.priority[t] = p
             /\ ReadyTasks(l) = ReadyTasks(k) \cup {t}
             /\ l.priority = [k.priority EXCEPT ![t] = p]
<1> DEFINE first == \/ k.current = NoTask
                    \/ ~k.running /\ k.priority[k.current] <= p
           l == [k EXCEPT !.numberOfTasks = @ + 1,
                          !.priority[t] = p, !.base[t] = p, !.urgency[t] = p,
                          !.current = IF first THEN t ELSE @]
           m == AddTaskToReadyQueue(l, t)
<1>1. Create(k, t, p) = m
  BY DEF Create, YieldIf
<1>2. /\ Sound(m) /\ SameWaits(k, m) /\ m.running = k.running
      /\ m.suspendDepth = k.suspendDepth /\ m.missedYield = k.missedYield
      /\ m.terminating = k.terminating /\ m.pending = k.pending
      /\ ReadyTasks(m) = ReadyTasks(k) \cup {t} /\ All(m) = All(k) \cup {t}
      /\ m.priority = [k.priority EXCEPT ![t] = p]
      /\ m.current = IF first THEN t ELSE k.current
  BY CreateMoves
<1> HIDE DEF m
<1>3. /\ k.priority \in [AnyTask -> Priority] /\ Chosen(k)
      /\ k.suspendDepth = 0 /\ ~k.missedYield
  BY DEF Good, Sound, Kept, Tidy, Started, CountsAgree
<1>4. /\ m.priority[t] = p /\ p \in Int /\ t # NoTask
      /\ \A u \in ReadyTasks(k) : m.priority[u] = k.priority[u] /\ k.priority[u] \in Int
  BY <1>2, <1>3, KernelAssumption DEF Priority, ReadyTasks, All, AnyTask
<1>5. Foremost(m, m.current) /\ m.current \in ReadyTasks(m)
  <2>1. CASE k.current = NoTask
    BY <1>2, <1>3, <1>4, <2>1 DEF Chosen, Foremost
  <2>2. CASE k.current # NoTask
    <3>1. k.current \in ReadyTasks(k) /\ Foremost(k, k.current)
      BY <1>3, <2>2 DEF Chosen
    <3>2. k.priority[k.current] \in Int
      BY <1>4, <3>1
    <3>3. CASE k.priority[k.current] <= p
      BY <1>2, <1>4, <3>1, <3>2, <3>3 DEF Foremost
    <3>4. CASE ~ (k.priority[k.current] <= p)
      <4>1. m.current = k.current
        BY <1>2, <2>2, <3>4
      <4>2. QED
        BY <1>2, <1>4, <3>1, <3>2, <3>4, <4>1 DEF Foremost
    <3>5. QED
      BY <3>3, <3>4
  <2>3. QED
    BY <2>1, <2>2
<1>6. Chosen(m)
  BY <1>2, <1>4, <1>5 DEF Chosen
<1>7. QED
  BY <1>1, <1>2, <1>4, <1>6

\* xTaskCreate before the scheduler is started.
LEMMA BootCreates ==
  ASSUME NEW k, Good(k), ~k.running, NEW t \in Task, t \notin All(k), NEW p \in Priority
  PROVE  LET l == Create(k, t, p)
         IN  /\ Good(l) /\ ~l.running /\ l.suspendDepth = 0
             /\ All(l) = All(k) \cup {t} /\ ReadyTasks(l) = ReadyTasks(k) \cup {t}
             /\ l.priority = [k.priority EXCEPT ![t] = p]
<1>1. PICK l : l = Create(k, t, p)
  OBVIOUS
<1>2. t \in AnyTask /\ t # Idle
  BY KernelAssumption DEF AnyTask
<1>3. /\ Sound(l) /\ Chosen(l) /\ SameWaits(k, l) /\ ~l.running
      /\ l.suspendDepth = k.suspendDepth /\ All(l) = All(k) \cup {t}
      /\ ReadyTasks(l) = ReadyTasks(k) \cup {t}
      /\ l.priority = [k.priority EXCEPT ![t] = p]
  BY <1>1, <1>2, MainCreateIs
<1>4. l.tickCount = k.tickCount
  BY <1>3 DEF SameWaits, SameTime
<1>5. Idle \notin All(k) /\ k.suspendDepth = 0 /\ k.tickCount = 0
  BY DEF Good, Started
<1>6. Good(l)
  BY <1>2, <1>3, <1>4, <1>5 DEF Good, Started
<1>7. QED
  BY <1>1, <1>3, <1>5, <1>6

LEMMA StartIs ==
  ASSUME NEW k, Good(k), ~k.running
  PROVE  LET l == StartScheduler(k)
         IN  /\ Good(l) /\ SameWaits(k, l) /\ l.running /\ l.suspendDepth = 0
             /\ l.current \in ReadyTasks(l) /\ ReadyTasks(l) = ReadyTasks(k) \cup {Idle}
             /\ All(l) = All(k) \cup {Idle}
             /\ l.priority = [k.priority EXCEPT ![Idle] = 0]
<1> DEFINE m == Create(k, Idle, 0)
           l == [m EXCEPT !.running = TRUE, !.tickCount = 0]
<1>1. Idle \in AnyTask /\ Idle \notin All(k) /\ 0 \in Priority
      /\ k.suspendDepth = 0 /\ k.tickCount = 0
  BY KernelAssumption DEF Good, Started, AnyTask, Priority
<1>2. /\ Sound(m) /\ Chosen(m) /\ SameWaits(k, m) /\ ~m.running
      /\ m.suspendDepth = k.suspendDepth
      /\ All(m) = All(k) \cup {Idle} /\ Idle \in ReadyTasks(m) /\ m.priority[Idle] = 0
      /\ ReadyTasks(m) = ReadyTasks(k) \cup {Idle} /\ m.priority = [k.priority EXCEPT ![Idle] = 0]
  BY <1>1, MainCreateIs
<1>3. StartScheduler(k) = l
  BY DEF StartScheduler
<1> HIDE DEF m
<1>4. m.tickCount = 0
  BY <1>1, <1>2 DEF SameWaits, SameTime
<1>5. /\ SameLists(m, l) /\ SameTime(m, l) /\ l.nextUnblock = m.nextUnblock
      /\ l.current = m.current /\ l.running /\ l.missedYield = m.missedYield
      /\ l.numberOfTasks = m.numberOfTasks /\ l.tasksDeleted = m.tasksDeleted
      /\ l.suspendDepth = m.suspendDepth
  BY <1>2, <1>4 DEF Sound, Kept, Tidy, IsKernel, Fields, SameLists, SameTime
<1> HIDE DEF l
<1>6. /\ Tidy(l) /\ ReadyTasks(l) = ReadyTasks(m) /\ Ahead(l)
      /\ \A t \in AnyTask : Left(l, t) = Left(m, t)
  BY <1>2, <1>5, SameListsTidy, NoneWakes DEF SameTime, Sound, Kept
<1>7. All(l) = All(m)
  BY <1>5, <1>6, SamePlaces DEF SameLists, Blocked
<1>8. Sound(l)
  BY <1>2, <1>5, <1>6, <1>7 DEF Sound, Kept, CountsAgree, SameLists, SameTime
<1>9. Started(l)
  BY <1>2, <1>5, <1>6 DEF Started, SameLists
<1>10. Chosen(l) /\ l.current \in ReadyTasks(l)
  BY <1>2, <1>5, <1>6 DEF Chosen, ReadyTasks, Foremost, SameLists
<1>11. SameWaits(k, l)
  BY <1>2, <1>5, <1>6 DEF SameWaits, SameTime
<1>12. QED
  BY <1>1, <1>2, <1>3, <1>5, <1>6, <1>7, <1>8, <1>9, <1>10, <1>11 DEF Good, SameLists

-----------------------------------------------------------------------------
(* vTaskDelete and vTaskSuspend *)

\* t is neither ready nor asleep any more.
Out(k, r, t) ==
  /\ Tidy(r) /\ Rest(k, r) /\ TakenOut(k, r, t)
  /\ r.terminating = k.terminating /\ ToSet(r.pending) = ToSet(k.pending) \ {t}

LEMMA RemovedIsOut ==
  ASSUME NEW k, Tidy(k), NEW t \in AnyTask, t \notin ToSet(k.terminating)
  PROVE  Out(k, RemoveGeneric(RemoveEvent(k, t), t), t)
<1> DEFINE e == RemoveEvent(k, t)
           r == RemoveGeneric(e, t)
<1>1. /\ Tidy(e) /\ Rest(k, e) /\ ToSet(e.pending) = ToSet(k.pending) \ {t}
      /\ e.ready = k.ready /\ e.topReady = k.topReady /\ e.delayed = k.delayed
      /\ e.overflow = k.overflow /\ e.suspended = k.suspended
      /\ e.terminating = k.terminating /\ e.wake = k.wake
      /\ e.nextUnblock = k.nextUnblock
  BY RemoveEventMoves
<1> HIDE DEF e
<1>2. Tidy(r) /\ Rest(e, r) /\ TakenOut(e, r, t) /\ r.pending = e.pending
  BY <1>1, RemoveGenericMoves
<1> HIDE DEF r
<1>3. ReadyTasks(e) = ReadyTasks(k)
  BY <1>1 DEF ReadyTasks, InReady, Rest, Untouched
<1>4. Out(k, r, t)
  BY <1>1, <1>2, <1>3 DEF Out, Rest, Untouched, SameTime, TakenOut
<1>5. QED
  BY <1>4 DEF e, r

\* t waits for nothing and is not ready, but it is still a task.
Aside(k, l, t) ==
  /\ Sound(l) /\ Started(l)
  /\ l.current = k.current /\ l.running = k.running /\ l.suspendDepth = k.suspendDepth
  /\ l.priority = k.priority /\ l.missedYield = k.missedYield
  /\ ReadyTasks(l) = ReadyTasks(k) \ {t} /\ All(l) = All(k)
  /\ ToSet(k.terminating) \subseteq ToSet(l.terminating)
  /\ SameTime(k, l)
  /\ Left(l, t) = 0 /\ \A u \in AnyTask \ {t} : Left(l, u) = Left(k, u)

LEMMA LaidAside ==
  ASSUME NEW k, Good(k), NEW t \in AnyTask, t # Idle, t \in All(k), t \notin ToSet(k.terminating),
         NEW r, Out(k, r, t), NEW l, l = [x \in Fields |-> l[x]],
         Untouched([r EXCEPT !.tasksDeleted = l.tasksDeleted], l), SameTime(r, l),
         l.ready = r.ready, l.topReady = r.topReady, l.delayed = r.delayed,
         l.overflow = r.overflow, l.pending = r.pending, l.wake = r.wake,
         l.nextUnblock = r.nextUnblock,
         \/ /\ l.suspended = r.suspended \cup {t} /\ l.terminating = r.terminating
            /\ l.tasksDeleted = r.tasksDeleted
         \/ /\ l.suspended = r.suspended /\ l.terminating = Append(r.terminating, t)
            /\ l.tasksDeleted = r.tasksDeleted + 1
  PROVE  Aside(k, l, t)
<1>1. /\ Tidy(k) /\ Ahead(k) /\ CountsAgree(k) /\ Started(k)
      /\ ToSet(k.pending) \subseteq k.suspended
  BY DEF Good, Sound, Kept
<1>2. /\ l.current = k.current /\ l.running = k.running /\ l.suspendDepth = k.suspendDepth
      /\ l.priority = k.priority /\ l.base = k.base /\ l.missedYield = k.missedYield
      /\ l.numberOfTasks = k.numberOfTasks /\ r.tasksDeleted = k.tasksDeleted
      /\ l.tickCount = k.tickCount /\ l.missedTicks = k.missedTicks
      /\ l.numOfOverflows = k.numOfOverflows
      /\ r.priority = k.priority /\ r.base = k.base
  BY DEF Out, Rest, Untouched, SameTime, Tidy, IsKernel, Fields
<1>3. /\ Tidy(r) /\ r.terminating = k.terminating /\ ToSet(r.pending) = ToSet(k.pending) \ {t}
      /\ ReadyTasks(r) = ReadyTasks(k) \ {t}
      /\ ToSet(r.delayed) = ToSet(k.delayed) \ {t} /\ ToSet(r.overflow) = ToSet(k.overflow) \ {t}
      /\ r.suspended = k.suspended \ {t}
      /\ r.nextUnblock = k.nextUnblock
      /\ \A u \in AnyTask \ {t} : r.wake[u] = k.wake[u]
  BY <1>1 DEF Out, TakenOut, Tidy
<1>4. \A u \in AnyTask : InReady(l, u) <=> InReady(r, u)
  BY <1>2 DEF InReady
<1>5. ReadyTasks(l) = ReadyTasks(k) \ {t}
  BY <1>3, <1>4 DEF ReadyTasks
<1>6. /\ Once(l.terminating) /\ ToSet(k.terminating) \subseteq ToSet(l.terminating)
      /\ l.tasksDeleted = Len(l.terminating)
      /\ \/ l.suspended = r.suspended \cup {t} /\ ToSet(l.terminating) = ToSet(k.terminating)
         \/ l.suspended = r.suspended /\ ToSet(l.terminating) = ToSet(k.terminating) \cup {t}
  <2>1. Once(r.terminating) /\ t \notin ToSet(r.terminating)
    BY <1>3 DEF Tidy
  <2>2. PICK s : s = r.terminating
    OBVIOUS
  <2>3. LET a == Append(s, t)
        IN  Once(a) /\ ToSet(a) = ToSet(s) \cup {t} /\ Len(a) = Len(s) + 1
    BY <2>1, <2>2, AppendToList
  <2>4. k.tasksDeleted = Len(k.terminating)
    BY <1>1 DEF CountsAgree
  <2>5. QED
    BY <1>2, <1>3, <2>1, <2>2, <2>3, <2>4
<1>7. Apart(l)
  <2>1. ASSUME NEW u \in AnyTask, u # t
        PROVE  /\ InReady(l, u) => u \notin Asleep(l) /\ u \notin ToSet(l.terminating)
               /\ u \in ToSet(l.delayed) => u \notin ToSet(l.overflow) /\ u \notin l.suspended
                                            /\ u \notin ToSet(l.terminating)
               /\ u \in ToSet(l.overflow) => u \notin l.suspended /\ u \notin ToSet(l.terminating)
               /\ u \in l.suspended => u \notin ToSet(l.terminating)
    <3>1. /\ InReady(r, u) => u \notin Asleep(r) /\ u \notin ToSet(r.terminating)
          /\ u \in ToSet(r.delayed) => u \notin ToSet(r.overflow) /\ u \notin r.suspended
                                       /\ u \notin ToSet(r.terminating)
          /\ u \in ToSet(r.overflow) => u \notin r.suspended /\ u \notin ToSet(r.terminating)
          /\ u \in r.suspended => u \notin ToSet(r.terminating)
      BY <1>3 DEF Tidy, Apart
    <3>2. /\ u \in l.suspended <=> u \in r.suspended
          /\ u \in ToSet(l.terminating) <=> u \in ToSet(r.terminating)
      BY <1>3, <1>6, <2>1
    <3>3. QED
      BY <1>4, <3>1, <3>2 DEF Asleep, Blocked
  <2>2. t \notin ReadyTasks(l) /\ t \notin ToSet(l.delayed) /\ t \notin ToSet(l.overflow)
        /\ (t \in l.suspended => t \notin ToSet(l.terminating))
    BY <1>3, <1>5, <1>6
  <2>3. ~InReady(l, t)
    BY <2>2 DEF ReadyTasks
  <2>4. QED
    BY <2>1, <2>2, <2>3 DEF Apart
<1>8. ReadyListsInv(l)
  <2>1. ReadyListsInv(r) /\ l.priority = r.priority
    BY <1>2, <1>3 DEF Tidy
  <2>2. QED
    BY <2>1, ZenonT(30) DEF ReadyListsInv
<1>9. IsKernel(l)
  BY <1>1, <1>2, <1>3 DEF Tidy, IsKernel
<1>10. Tidy(l)
  BY <1>2, <1>3, <1>6, <1>7, <1>8, <1>9 DEF Tidy
<1>11. Ahead(l)
  <2>1. ToSet(k.delayed) \subseteq AnyTask /\ ToSet(k.overflow) \subseteq AnyTask
    BY <1>1, NothingInList DEF Tidy
  <2>2. QED
    BY <1>1, <1>2, <1>3, <2>1 DEF Ahead
<1>12. ToSet(l.pending) \subseteq l.suspended
  BY <1>1, <1>3, <1>6
<1>13. All(l) = All(k)
  BY <1>3, <1>5, <1>6 DEF All, Asleep, Blocked
<1>14. ~ (k.suspendDepth > 0) => l.pending = <<>>
  <2>1. SUFFICES ASSUME k.pending = <<>> PROVE l.pending = <<>>
    BY <1>1 DEF CountsAgree
  <2>2. ToSet(l.pending) = {}
    BY <1>3, <2>1, EmptyOnce
  <2>3. QED
    BY <1>10, <2>2, NothingInList DEF Tidy
<1>15. CountsAgree(l)
  BY <1>1, <1>2, <1>6, <1>13, <1>14 DEF CountsAgree
<1>16. Started(l)
  BY <1>1, <1>2, <1>5, <1>13 DEF Started
<1>17. Left(l, t) = 0 /\ \A u \in AnyTask \ {t} : Left(l, u) = Left(k, u)
  BY <1>2, <1>3 DEF Left
<1>18. QED
  BY <1>2, <1>5, <1>6, <1>10, <1>11, <1>12, <1>13, <1>15, <1>16, <1>17
  DEF Aside, Sound, Kept, SameTime

LEMMA SuspendMoves ==
  ASSUME NEW k, Good(k), NEW t \in AnyTask, t # Idle, t \in All(k), t \notin ToSet(k.terminating)
  PROVE  Aside(k, Suspend(k, t), t) /\ Aside(k, Delete(k, t), t)
<1> DEFINE r == RemoveGeneric(RemoveEvent(k, t), t)
           l == [r EXCEPT !.suspended = @ \cup {t}]
           m == [r EXCEPT !.terminating = Append(@, t), !.tasksDeleted = @ + 1]
<1>1. Out(k, r, t)
  BY RemovedIsOut DEF Good, Sound, Kept
<1>2. Suspend(k, t) = l /\ Delete(k, t) = m
  BY DEF Suspend, Delete
<1> HIDE DEF r
<1>3. r = [x \in Fields |-> r[x]]
  BY <1>1 DEF Out, Tidy, IsKernel
<1>4. Aside(k, l, t)
  <2>1. /\ l = [x \in Fields |-> l[x]]
        /\ Untouched([r EXCEPT !.tasksDeleted = l.tasksDeleted], l) /\ SameTime(r, l)
        /\ l.ready = r.ready /\ l.topReady = r.topReady /\ l.delayed = r.delayed
        /\ l.overflow = r.overflow /\ l.pending = r.pending /\ l.wake = r.wake
        /\ l.nextUnblock = r.nextUnblock
        /\ l.suspended = r.suspended \cup {t} /\ l.terminating = r.terminating
        /\ l.tasksDeleted = r.tasksDeleted
    BY <1>3 DEF Fields, Untouched, SameTime
  <2> HIDE DEF l
  <2>2. QED
    BY <1>1, <2>1, LaidAside
<1>5. Aside(k, m, t)
  <2>1. /\ m = [x \in Fields |-> m[x]]
        /\ Untouched([r EXCEPT !.tasksDeleted = m.tasksDeleted], m) /\ SameTime(r, m)
        /\ m.ready = r.ready /\ m.topReady = r.topReady /\ m.delayed = r.delayed
        /\ m.overflow = r.overflow /\ m.pending = r.pending /\ m.wake = r.wake
        /\ m.nextUnblock = r.nextUnblock
        /\ m.suspended = r.suspended /\ m.terminating = Append(r.terminating, t)
        /\ m.tasksDeleted = r.tasksDeleted + 1
    BY <1>3 DEF Fields, Untouched, SameTime
  <2> HIDE DEF m
  <2>2. QED
    BY <1>1, <2>1, LaidAside
<1>6. QED
  BY <1>2, <1>4, <1>5

\* The running task, or another, is laid aside: the CPU stays where it is.
LEMMA AsideIsGood ==
  ASSUME NEW k, Good(k), NEW t, NEW l, Aside(k, l, t), k.running \/ t # k.current
  PROVE  Good(l)
<1>1. Chosen(k) /\ (k.current = NoTask => ReadyTasks(k) = {})
  BY DEF Good, Chosen
<1>2. Foremost(k, k.current) => Foremost(l, l.current)
  BY DEF Aside, Foremost
<1>3. Chosen(l)
  BY <1>1, <1>2 DEF Aside, Chosen
<1>4. QED
  BY <1>3 DEF Aside, Good

\* main lays a task aside; if it was to run first, another one is.
LEMMA MainSuspendIs ==
  ASSUME NEW k, Good(k), ~k.running, NEW t \in AnyTask, t # Idle,
         t \in All(k), t \notin ToSet(k.terminating), NEW l, Aside(k, l, t), t = k.current
  PROVE  \A m : \/ l.numberOfTasks = 1 /\ m = [l EXCEPT !.current = NoTask]
                \/ ReadyTasks(l) # {} /\ m = SwitchContext(l)
                => Good(m) /\ m.running = k.running /\ SameWaits(l, m)
<1>1. /\ Tidy(l) /\ Ahead(l) /\ CountsAgree(l) /\ Sound(l) /\ Started(l)
      /\ l.running = k.running /\ ReadyTasks(l) = ReadyTasks(k) \ {t} /\ All(l) = All(k)
  BY DEF Aside, Sound, Kept
<1>2. ASSUME l.numberOfTasks = 1
      PROVE  LET m == [l EXCEPT !.current = NoTask]
             IN  Good(m) /\ m.running = k.running /\ SameWaits(l, m)
  <2> DEFINE m == [l EXCEPT !.current = NoTask]
  <2>1. /\ SameLists(l, m) /\ SameTime(l, m) /\ m.nextUnblock = l.nextUnblock
        /\ m.current = NoTask /\ m.running = l.running /\ m.missedYield = l.missedYield
        /\ m.numberOfTasks = l.numberOfTasks /\ m.tasksDeleted = l.tasksDeleted
        /\ m.suspendDepth = l.suspendDepth
    BY <1>1 DEF Tidy, IsKernel, Fields, SameLists, SameTime
  <2> HIDE DEF m
  <2>2. /\ Tidy(m) /\ ReadyTasks(m) = ReadyTasks(l) /\ Ahead(m)
        /\ \A u \in AnyTask : Left(m, u) = Left(l, u)
    BY <1>1, <2>1, SameListsTidy, NoneWakes DEF SameTime
  <2>3. All(m) = All(l)
    BY <2>1, <2>2, SamePlaces DEF SameLists, Blocked
  <2>4. ReadyTasks(m) = {}
    <3>1. IsFiniteSet(All(l)) /\ Cardinality(All(l)) = 1
      BY <1>1, <1>2, AllIsFinite DEF CountsAgree
    <3>2. PICK u : All(l) = {u}
      BY <3>1, FS_Singleton
    <3>3. t \in {u} /\ ReadyTasks(l) \subseteq {u}
      BY <1>1, <3>2 DEF All
    <3>4. QED
      BY <1>1, <2>2, <3>3
  <2>5. Kept(m) /\ CountsAgree(m)
    BY <1>1, <2>1, <2>2, <2>3 DEF Kept, CountsAgree, SameLists, SameTime, Sound
  <2>6. Started(m) /\ Chosen(m)
    BY <1>1, <2>1, <2>2, <2>3, <2>4 DEF Started, Chosen, SameTime
  <2>7. QED
    BY <1>1, <2>1, <2>2, <2>5, <2>6 DEF Good, Sound, SameWaits, m
<1>3. ASSUME ReadyTasks(l) # {}
      PROVE  LET m == SwitchContext(l)
             IN  Good(m) /\ m.running = k.running /\ SameWaits(l, m)
  <2> DEFINE m == SwitchContext(l)
  <2>1. /\ Sound(m) /\ Stays(l, m) /\ Switched(l, m)
        /\ ~ (l.suspendDepth > 0) => m.current \in ReadyTasks(m) /\ Foremost(m, m.current)
    BY <1>1, <1>3, SwitchContextIs
  <2> HIDE DEF m
  <2>2. m.current \in ReadyTasks(m) /\ Foremost(m, m.current) /\ m.current # NoTask
    BY <1>1, <2>1, KernelAssumption DEF Started, ReadyTasks, AnyTask
  <2>3. Started(m) /\ Chosen(m)
    BY <1>1, <2>1, <2>2, SamePlaces DEF Started, Chosen, Stays, Switched, SameTime
  <2>4. QED
    BY <1>1, <2>1, <2>3 DEF Good, Stays, SameWaits, m
<1>4. QED
  BY <1>2, <1>3

-----------------------------------------------------------------------------
(* vTaskResume and xTaskResumeFromISR *)

\* A suspended task is ready again: it was not waiting for a tick.
LEMMA WakeIs ==
  ASSUME NEW k, Good(k), k.running, NEW t \in AnyTask, t \in k.suspended,
         t \notin ToSet(k.pending)
  PROVE  LET l == YieldIf(k.priority[t] >= k.priority[k.current], MakeReady(k, <<t>>))
         IN  Called(k, l) /\ SameWaits(k, l)
<1> DEFINE yields == k.priority[t] >= k.priority[k.current]
           m == MakeReady(k, <<t>>)
           l == YieldIf(yields, m)
<1>1. /\ Tidy(k) /\ Ahead(k) /\ CountsAgree(k) /\ Started(k) /\ Chosen(k)
      /\ ToSet(k.pending) \subseteq k.suspended
      /\ k.priority \in [AnyTask -> Priority] /\ k.current \in AnyTask
  BY DEF Good, Sound, Kept, Tidy, Chosen
<1>2. t \notin ToSet(k.delayed) /\ t \notin ToSet(k.overflow) /\ t \notin ToSet(k.terminating)
  BY <1>1 DEF Tidy, Apart
<1>3. MadeReady(k, m, {t})
  <2>1. <<t>> \in Seq(AnyTask) /\ ToSet(<<t>>) = {t}
    BY DEF ToSet
  <2>2. ToSet(<<t>>) \cap ToSet(k.terminating) = {}
    BY <1>2, <2>1
  <2>3. MadeReady(k, m, ToSet(<<t>>))
    BY <1>1, <2>1, <2>2, MakeReadyMoves
  <2>4. QED
    BY <2>1, <2>3
<1> HIDE DEF m
<1>4. /\ m.current = k.current /\ m.running = k.running /\ m.priority = k.priority
      /\ m.base = k.base
      /\ m.numberOfTasks = k.numberOfTasks /\ m.tasksDeleted = k.tasksDeleted
      /\ m.suspendDepth = k.suspendDepth /\ m.missedYield = k.missedYield
      /\ m.tickCount = k.tickCount /\ m.missedTicks = k.missedTicks
      /\ m.numOfOverflows = k.numOfOverflows
      /\ m.terminating = k.terminating /\ m.nextUnblock = k.nextUnblock
      /\ \A u \in AnyTask \ {t} : m.wake[u] = k.wake[u]
      /\ ReadyTasks(m) = ReadyTasks(k) \cup {t} /\ m.suspended = k.suspended \ {t} /\ Tidy(m)
  BY <1>3 DEF MadeReady, Rest, Untouched, SameTime
<1>5. /\ ToSet(m.delayed) = ToSet(k.delayed) /\ ToSet(m.overflow) = ToSet(k.overflow)
      /\ ToSet(m.pending) = ToSet(k.pending)
  BY <1>2, <1>3 DEF MadeReady
<1>6. /\ ToSet(k.delayed) \subseteq AnyTask /\ ToSet(k.overflow) \subseteq AnyTask
  BY <1>1, NothingInList DEF Tidy
<1>7. Ahead(m) /\ \A u \in AnyTask : Left(m, u) = Left(k, u)
  BY <1>1, <1>2, <1>4, <1>5, <1>6 DEF Ahead, Left
<1>8. All(m) = All(k)
  BY <1>4, <1>5 DEF All, Asleep, Blocked
<1>9. ~ (k.suspendDepth > 0) => m.pending = <<>>
  BY <1>1, <1>4, <1>5, NothingInList DEF CountsAgree, Tidy
<1>10. Sound(m)
  BY <1>1, <1>4, <1>5, <1>7, <1>8, <1>9 DEF Sound, Kept, CountsAgree
<1>11. Started(m)
  BY <1>1, <1>4, <1>8 DEF Started
<1>12. k.priority[t] \in Int /\ k.priority[k.current] \in Int
  BY <1>1 DEF Priority
<1>13. yields \/ m.missedYield \/ Foremost(m, m.current)
  <2>1. k.missedYield \/ Foremost(k, k.current)
    BY <1>1, KernelAssumption DEF Chosen, AnyTask
  <2>2. QED
    BY <1>4, <1>12, <2>1 DEF Foremost
<1>14. yields \in BOOLEAN
  BY <1>12
<1> HIDE DEF yields
<1>15. Good(l) /\ Stays(m, l) /\ Switched(m, l)
  BY <1>1, <1>4, <1>10, <1>11, <1>13, <1>14, YieldIfIs
<1> HIDE DEF l
<1>16. Called(k, l) /\ SameWaits(k, l)
  BY <1>4, <1>7, <1>15 DEF Called, SameWaits, SameTime, Stays, Switched
<1>17. QED
  BY <1>16 DEF l, m, yields

LEMMA NothingCalled ==
  ASSUME NEW k, Good(k)
  PROVE  Called(k, k) /\ SameWaits(k, k)
BY DEF Called, SameWaits, SameTime, Switched

LEMMA ResumeIs ==
  ASSUME NEW k, Good(k), k.running, NEW t \in AnyTask
  PROVE  /\ Called(k, Resume(k, t)) /\ SameWaits(k, Resume(k, t))
         /\ Called(k, ResumeFromISR(k, t)) /\ SameWaits(k, ResumeFromISR(k, t))
<1> DEFINE l == YieldIf(k.priority[t] >= k.priority[k.current], MakeReady(k, <<t>>))
           m == [k EXCEPT !.pending = Append(@, t)]
<1>1. /\ ~IsTaskSuspended(k, t) => Resume(k, t) = k /\ ResumeFromISR(k, t) = k
      /\ IsTaskSuspended(k, t) =>
           /\ Resume(k, t) \in {k, l}
           /\ \/ ResumeFromISR(k, t) = l
              \/ k.suspendDepth > 0 /\ ResumeFromISR(k, t) = m
  BY DEF Resume, ResumeFromISR
<1>2. ASSUME IsTaskSuspended(k, t) PROVE Called(k, l) /\ SameWaits(k, l)
  BY <1>2, WakeIs DEF IsTaskSuspended
<1> HIDE DEF l
<1>3. ASSUME IsTaskSuspended(k, t), k.suspendDepth > 0
      PROVE  Called(k, m) /\ SameWaits(k, m)
  <2>1. /\ Tidy(k) /\ Ahead(k) /\ CountsAgree(k) /\ Started(k) /\ Chosen(k)
        /\ ToSet(k.pending) \subseteq k.suspended
        /\ k.missedTicks \in Nat
    BY DEF Good, Sound, Kept, Tidy, IsKernel
  <2>2. /\ m = [x \in Fields |-> m[x]]
        /\ m.ready = k.ready /\ m.topReady = k.topReady /\ m.delayed = k.delayed
        /\ m.overflow = k.overflow /\ m.pending = Append(k.pending, t)
        /\ m.suspended = k.suspended
        /\ m.terminating = k.terminating /\ m.wake = k.wake
        /\ m.priority = k.priority /\ m.base = k.base
        /\ m.current = k.current /\ m.running = k.running
        /\ m.numberOfTasks = k.numberOfTasks /\ m.tasksDeleted = k.tasksDeleted
        /\ m.suspendDepth = k.suspendDepth /\ m.missedYield = k.missedYield
        /\ m.tickCount = k.tickCount /\ m.missedTicks = k.missedTicks
        /\ m.numOfOverflows = k.numOfOverflows
        /\ m.nextUnblock = k.nextUnblock
    BY <2>1 DEF Tidy, IsKernel, Fields
  <2> HIDE DEF m
  <2>3. Once(m.pending) /\ ToSet(m.pending) = ToSet(k.pending) \cup {t}
    <3>1. PICK s : s = k.pending
      OBVIOUS
    <3>2. LET a == Append(s, t) IN Once(a) /\ ToSet(a) = ToSet(s) \cup {t}
      BY <1>3, <2>1, <3>1, AppendToList DEF IsTaskSuspended, Tidy
    <3>3. QED
      BY <2>2, <3>1, <3>2
  <2>4. IsList(m.pending)
    BY <2>3 DEF Once, IsList
  <2>5. ReadyTasks(m) = ReadyTasks(k)
    BY <2>2 DEF ReadyTasks, InReady
  <2>6. IsKernel(m)
    BY <2>1, <2>2, <2>4 DEF Tidy, IsKernel
  <2>7. ReadyListsInv(m) /\ Apart(m)
    <3>1. ReadyListsInv(m)
      <4>1. /\ m.ready = k.ready /\ m.priority = k.priority /\ m.topReady = k.topReady
            /\ ReadyListsInv(k)
        BY <2>1, <2>2 DEF Tidy
      <4>2. QED
        BY <4>1 DEF ReadyListsInv
    <3>2. \A u \in AnyTask : InReady(m, u) <=> InReady(k, u)
      BY <2>2 DEF InReady
    <3>3. Asleep(m) = Asleep(k)
      BY <2>2 DEF Asleep, Blocked
    <3>4. QED
      BY <2>1, <2>2, <3>1, <3>2, <3>3 DEF Tidy, Apart
  <2>8. Tidy(m)
    BY <2>1, <2>2, <2>3, <2>6, <2>7 DEF Tidy
  <2>9. Ahead(m) /\ \A u \in AnyTask : Left(m, u) = Left(k, u)
    BY <2>1, <2>2 DEF Ahead, Left
  <2>10. ToSet(m.pending) \subseteq m.suspended
    BY <1>3, <2>1, <2>2, <2>3 DEF IsTaskSuspended
  <2>11. All(m) = All(k)
    BY <2>2, <2>5, SamePlaces DEF Blocked
  <2>12. Sound(m)
    BY <1>3, <2>1, <2>2, <2>8, <2>9, <2>10, <2>11 DEF Sound, Kept, CountsAgree
  <2>13. Started(m) /\ Chosen(m)
    BY <2>1, <2>2, <2>5, <2>11 DEF Started, Chosen, Foremost
  <2>14. QED
    BY <2>2, <2>5, <2>9, <2>12, <2>13 DEF Called, SameWaits, SameTime, Switched, Good
<1> HIDE DEF m
<1>4. Called(k, k) /\ SameWaits(k, k)
  BY NothingCalled
<1>5. QED
  BY <1>1, <1>2, <1>3, <1>4

-----------------------------------------------------------------------------
(* vTaskSuspendAll, xTaskResumeAll and the tick *)

LEMMA SuspendAllIs ==
  ASSUME NEW k, Good(k), k.running
  PROVE  LET l == SuspendAll(k)
         IN  /\ Good(l) /\ SameWaits(k, l) /\ ReadyTasks(l) = ReadyTasks(k)
             /\ l.running = k.running /\ l.current = k.current
             /\ l.terminating = k.terminating /\ l.pending = k.pending
             /\ l.suspendDepth = k.suspendDepth + 1 /\ k.suspendDepth \in Nat
<1> DEFINE l == SuspendAll(k)
<1>1. /\ Tidy(k) /\ Ahead(k) /\ CountsAgree(k) /\ Started(k) /\ Chosen(k)
      /\ ToSet(k.pending) \subseteq k.suspended
  BY DEF Good, Sound, Kept
<1>2. /\ SameLists(k, l) /\ SameTime(k, l) /\ l.nextUnblock = k.nextUnblock
      /\ l.current = k.current /\ l.running = k.running /\ l.missedYield = k.missedYield
      /\ l.numberOfTasks = k.numberOfTasks /\ l.tasksDeleted = k.tasksDeleted
      /\ l.suspendDepth = k.suspendDepth + 1
  BY <1>1 DEF SuspendAll, Tidy, IsKernel, Fields, SameLists, SameTime
<1> HIDE DEF l
<1>3. /\ Tidy(l) /\ ReadyTasks(l) = ReadyTasks(k) /\ Ahead(l)
      /\ \A t \in AnyTask : Left(l, t) = Left(k, t)
  BY <1>1, <1>2, SameListsTidy, NoneWakes DEF SameTime
<1>4. All(l) = All(k)
  BY <1>2, <1>3, SamePlaces DEF SameLists, Blocked
<1>5. Sound(l)
  <2>1. /\ l.base = l.priority /\ l.tasksDeleted = Len(l.terminating)
        /\ l.numberOfTasks = Cardinality(All(l))
        /\ l.suspendDepth \in Nat /\ l.suspendDepth > 0
    BY <1>1, <1>2, <1>4 DEF CountsAgree, SameLists
  <2>2. CountsAgree(l)
    BY <2>1 DEF CountsAgree
  <2>3. QED
    BY <1>1, <1>2, <1>3, <2>2 DEF Sound, Kept, SameLists
<1>6. Started(l) /\ Chosen(l)
  BY <1>1, <1>2, <1>3 DEF Started, Chosen, Foremost, SameLists
<1>7. QED
  BY <1>1, <1>2, <1>3, <1>5, <1>6 DEF l, Good, SameWaits, SameLists, CountsAgree

LEMMA WakesKeepsAll ==
  ASSUME NEW k, NEW l, NEW W, AreWoken(k, l, W)
  PROVE  All(l) = All(k) /\ ReadyTasks(k) \subseteq ReadyTasks(l)
BY DEF AreWoken, All, Asleep

\* The most urgent task runs after the last xTaskResumeAll, and the ticks that
\* were missed have passed.
LEMMA ResumeAllIs ==
  ASSUME NEW k, Good(k), k.running, k.suspendDepth > 0
  PROVE  LET l == ResumeAll(k)
         IN  /\ Good(l) /\ l.running = k.running
             /\ ReadyTasks(k) \subseteq ReadyTasks(l) /\ l.terminating = k.terminating
             /\ Present(k) \subseteq Present(l) /\ l.suspendDepth = k.suspendDepth - 1
             /\ l.current # k.current \/ (k.suspendDepth = 1 /\ AlreadyYields(k)) =>
                  k.suspendDepth = 1 /\ l.current \in ReadyTasks(l)
             /\ \/ k.suspendDepth # 1 /\ SameWaits(k, l)
                \/ /\ k.suspendDepth = 1 /\ l.tickCount = Clock(k) /\ l.missedTicks = 0
                   /\ Passed(k, l, k.missedTicks)
<1> DEFINE l == ResumeAll(k)
<1>1. /\ Tidy(k) /\ Ahead(k) /\ Kept(k) /\ CountsAgree(k) /\ Started(k) /\ Chosen(k)
      /\ ToSet(k.pending) \subseteq k.suspended
      /\ k.priority \in [AnyTask -> Priority] /\ k.current \in AnyTask
  BY DEF Good, Sound, Kept, Tidy, Chosen
<1>2. ReadyTasks(k) # {} /\ k.numberOfTasks \in Nat \ {0} /\ Idle \in ReadyTasks(k)
  <2>1. Idle \in ReadyTasks(k) /\ Idle \in All(k)
    BY <1>1 DEF Started, All
  <2>2. IsFiniteSet(All(k)) /\ All(k) # {}
    BY <1>1, <2>1, AllIsFinite
  <2>3. Cardinality(All(k)) \in Nat \ {0}
    BY <2>2, FS_CardinalityType, FS_EmptySet
  <2>4. QED
    BY <1>1, <2>1, <2>3 DEF CountsAgree
<1>3. CASE k.suspendDepth # 1
  <2>1. k.suspendDepth - 1 > 0 /\ k.suspendDepth \in Nat
    BY <1>1, <1>3 DEF CountsAgree
  <2>2. l = [k EXCEPT !.suspendDepth = @ - 1]
    BY <1>1, <2>1 DEF ResumeAll, Tidy, IsKernel, Fields
  <2> HIDE DEF l
  <2>3. /\ SameLists(k, l) /\ SameTime(k, l) /\ l.nextUnblock = k.nextUnblock
        /\ l.current = k.current /\ l.running = k.running /\ l.missedYield = k.missedYield
        /\ l.numberOfTasks = k.numberOfTasks /\ l.tasksDeleted = k.tasksDeleted
        /\ l.suspendDepth = k.suspendDepth - 1
    BY <1>1, <2>2 DEF Tidy, IsKernel, Fields, SameLists, SameTime
  <2>4. /\ Tidy(l) /\ ReadyTasks(l) = ReadyTasks(k) /\ Ahead(l)
        /\ \A t \in AnyTask : Left(l, t) = Left(k, t)
    BY <1>1, <2>3, SameListsTidy, NoneWakes DEF SameTime
  <2>5. All(l) = All(k)
    BY <2>3, <2>4, SamePlaces DEF SameLists, Blocked
  <2>6. CountsAgree(l)
    BY <1>1, <2>1, <2>3, <2>5 DEF CountsAgree, SameLists
  <2>7. Sound(l)
    BY <1>1, <2>3, <2>4, <2>6 DEF Sound, Kept, SameLists
  <2>8. Started(l) /\ Chosen(l)
    BY <1>1, <2>3, <2>4 DEF Started, Chosen, Foremost, SameLists
  <2>9. Present(l) = Present(k)
    BY <2>3, <2>4 DEF SameLists, Present, Blocked
  <2>10. QED
    BY <1>3, <2>3, <2>4, <2>7, <2>8, <2>9 DEF l, Good, SameWaits, SameLists
<1>4. CASE k.suspendDepth = 1
  <2>1. Unsuspended(k, l)
    BY <1>1, <1>2, <1>4, ResumeAllMoves
  <2> HIDE DEF l
  <2>2. PICK W : AreWoken(k, l, W)
    BY <2>1 DEF Unsuspended
  <2>3. All(l) = All(k) /\ ReadyTasks(k) \subseteq ReadyTasks(l) /\ l.terminating = k.terminating
    BY <2>2, WakesKeepsAll DEF AreWoken
  <2>4. CountsAgree(l) /\ Kept(l)
    BY <1>1, <2>1, <2>3 DEF Unsuspended, CountsAgree
  <2>5. Started(l)
    BY <1>1, <1>2, <2>1, <2>3 DEF Unsuspended, Started
  <2>6. \/ l.current \in ReadyTasks(l) /\ Foremost(l, l.current)
        \/ l.current = k.current /\ Foremost(l, l.current)
    <3>1. CASE l.current = k.current /\ ~k.missedYield
               /\ \A t \in ReadyTasks(l) \ ReadyTasks(k) :
                    ~ (k.priority[t] >= k.priority[k.current])
      <4>1. Foremost(k, k.current)
        BY <1>1, <3>1, KernelAssumption DEF Chosen, AnyTask
      <4>2. \A t \in AnyTask : k.priority[t] \in Int
        BY <1>1 DEF Priority
      <4>3. l.priority = k.priority /\ ReadyTasks(l) \subseteq AnyTask
        BY <2>1 DEF Unsuspended, ReadyTasks
      <4>4. QED
        BY <1>1, <3>1, <4>1, <4>2, <4>3 DEF Foremost
    <3>2. QED
      BY <2>1, <3>1 DEF Unsuspended
  <2>7. l.current \in AnyTask
    BY <1>1, <2>6 DEF ReadyTasks
  <2>8. Chosen(l)
    BY <2>1, <2>6, <2>7, KernelAssumption DEF Unsuspended, Chosen, AnyTask
  <2>9. Present(k) \subseteq Present(l)
    BY <2>2 DEF AreWoken, Present
  <2>10. QED
    BY <1>4, <2>1, <2>3, <2>4, <2>5, <2>6, <2>8, <2>9 DEF l, Good, Sound, Unsuspended
<1>5. QED
  BY <1>3, <1>4

LEMMA TickIs ==
  ASSUME NEW k, Good(k), k.running
  PROVE  LET l == SwitchContext(IncrementTick(k))
         IN  /\ Called(k, l) /\ l.terminating = k.terminating
             /\ Present(k) \subseteq Present(l)
             /\ \/ /\ k.suspendDepth > 0 /\ Later(k, l)
                   /\ \A t \in AnyTask : Left(l, t) = Left(k, t)
                \/ ~ (k.suspendDepth > 0) /\ Sooner(k, l) /\ Passed(k, l, 1)
<1> DEFINE m == IncrementTick(k)
           l == SwitchContext(m)
<1>1. /\ Tidy(k) /\ Ahead(k) /\ Kept(k) /\ CountsAgree(k) /\ Started(k) /\ Chosen(k)
      /\ ToSet(k.pending) \subseteq k.suspended /\ k.current \in AnyTask
  BY DEF Good, Sound, Kept, Chosen
<1>2. /\ Sound(m) /\ Started(m) /\ m.current = k.current /\ m.running = k.running
      /\ m.suspendDepth = k.suspendDepth /\ ReadyTasks(k) \subseteq ReadyTasks(m)
      /\ m.terminating = k.terminating /\ Present(k) \subseteq Present(m)
      /\ \/ /\ k.suspendDepth > 0 /\ Later(k, m)
            /\ \A t \in AnyTask : Left(m, t) = Left(k, t)
         \/ ~ (k.suspendDepth > 0) /\ Sooner(k, m) /\ Passed(k, m, 1)
  <2>1. CASE k.suspendDepth > 0
    <3>1. m = [k EXCEPT !.missedTicks = @ + 1]
      BY <2>1 DEF IncrementTick
    <3> HIDE DEF m
    <3>2. k = [x \in Fields |-> k[x]] /\ k.missedTicks \in Nat
      BY <1>1 DEF Tidy, IsKernel
    <3>3. /\ m = [x \in Fields |-> m[x]]
          /\ m.ready = k.ready /\ m.topReady = k.topReady /\ m.delayed = k.delayed
          /\ m.overflow = k.overflow /\ m.pending = k.pending /\ m.suspended = k.suspended
          /\ m.terminating = k.terminating /\ m.wake = k.wake
          /\ m.priority = k.priority /\ m.base = k.base
          /\ m.missedTicks = k.missedTicks + 1 /\ m.tickCount = k.tickCount
          /\ m.numOfOverflows = k.numOfOverflows
          /\ m.nextUnblock = k.nextUnblock
          /\ m.current = k.current /\ m.running = k.running
          /\ m.numberOfTasks = k.numberOfTasks /\ m.tasksDeleted = k.tasksDeleted
          /\ m.suspendDepth = k.suspendDepth
      BY <3>1, <3>2 DEF Fields
    <3>4. /\ SameLists(k, m) /\ Later(k, m) /\ m.nextUnblock = k.nextUnblock
          /\ m.current = k.current /\ m.running = k.running
          /\ m.numberOfTasks = k.numberOfTasks /\ m.tasksDeleted = k.tasksDeleted
          /\ m.suspendDepth = k.suspendDepth
      <4>1. m.missedTicks \in Nat
        BY <3>2, <3>3
      <4>2. SameLists(k, m)
        BY <3>3, <4>1 DEF SameLists
      <4>3. Later(k, m)
        BY <3>3 DEF Later
      <4>4. QED
        BY <3>3, <4>2, <4>3
    <3>5. /\ Tidy(m) /\ ReadyTasks(m) = ReadyTasks(k) /\ Ahead(m)
          /\ \A t \in AnyTask : Left(m, t) = Left(k, t)
      BY <1>1, <3>4, SameListsTidy, NoneWakes DEF Later
    <3>6. All(m) = All(k)
      BY <3>4, <3>5, SamePlaces DEF SameLists, Blocked
    <3>7. Sound(m)
      BY <1>1, <2>1, <3>4, <3>5, <3>6 DEF Sound, Kept, CountsAgree, SameLists
    <3>8. Started(m)
      BY <1>1, <3>4, <3>5 DEF Started, SameLists
    <3>9. Present(m) = Present(k)
      BY <3>4, <3>5 DEF SameLists, Present, Blocked
    <3>10. QED
      BY <2>1, <3>4, <3>5, <3>7, <3>8, <3>9 DEF SameLists
  <2>2. CASE ~ (k.suspendDepth > 0)
    <3>1. /\ Kept(m) /\ Untouched(k, m) /\ Sooner(k, m) /\ Passed(k, m, 1)
          /\ \E W \in SUBSET Blocked(k) : AreWoken(k, m, W)
      BY <1>1, <2>2, IncrementTickMoves
    <3> HIDE DEF m
    <3>2. PICK W : AreWoken(k, m, W)
      BY <3>1
    <3>3. /\ All(m) = All(k) /\ ReadyTasks(k) \subseteq ReadyTasks(m)
          /\ m.terminating = k.terminating /\ Present(k) \subseteq Present(m)
      BY <3>2, WakesKeepsAll DEF AreWoken, Present
    <3>4. m.pending = <<>>
      <4>1. ToSet(m.pending) = {}
        BY <1>1, <2>2, <3>2, EmptyOnce DEF CountsAgree, AreWoken
      <4>2. QED
        BY <3>1, <4>1, NothingInList DEF Kept, Tidy
    <3>5. CountsAgree(m)
      BY <1>1, <2>2, <3>1, <3>3, <3>4 DEF CountsAgree, Untouched, Sooner
    <3>6. Started(m)
      BY <1>1, <3>1, <3>3 DEF Started, Untouched
    <3>7. QED
      BY <2>2, <3>1, <3>3, <3>5, <3>6 DEF Sound, Untouched
  <2>3. QED
    BY <2>1, <2>2
<1> HIDE DEF m
<1>3. l = YieldIf(TRUE, m)
  BY DEF YieldIf
<1> HIDE DEF l
<1>4. Good(l) /\ Stays(m, l) /\ Switched(m, l)
  BY <1>1, <1>2, <1>3, YieldIfIs
<1>5. Called(k, l) /\ l.terminating = k.terminating /\ Present(k) \subseteq Present(l)
  BY <1>2, <1>4 DEF Called, Stays, Switched, Present
<1>6. \/ /\ k.suspendDepth > 0 /\ Later(k, l)
         /\ \A t \in AnyTask : Left(l, t) = Left(k, t)
      \/ ~ (k.suspendDepth > 0) /\ Sooner(k, l) /\ Passed(k, l, 1)
  BY <1>2, <1>4 DEF Later, Sooner, Passed, Stays, SameTime
<1>7. QED
  BY <1>5, <1>6 DEF l, m

-----------------------------------------------------------------------------
(* The other calls *)

\* The memory of a task is freed.
LEMMA ReapIs ==
  ASSUME NEW k, Good(k), k.running, k.current \in ReadyTasks(k), k.terminating # <<>>
  PROVE  LET l == Reap(k)
         IN  /\ Good(l) /\ SameWaits(k, l) /\ ReadyTasks(l) = ReadyTasks(k)
             /\ l.running = k.running /\ l.current = k.current
             /\ l.suspendDepth = k.suspendDepth
<1> DEFINE t == Head(k.terminating)
           l == Reap(k)
<1>1. /\ Tidy(k) /\ Ahead(k) /\ CountsAgree(k) /\ Started(k) /\ Chosen(k)
      /\ ToSet(k.pending) \subseteq k.suspended
      /\ k = [x \in Fields |-> k[x]] /\ k.missedTicks \in Nat
      /\ k.base = k.priority /\ k.priority \in [AnyTask -> Priority]
  BY DEF Good, Sound, Kept, Tidy, IsKernel, CountsAgree
<1>2. /\ l = [x \in Fields |-> l[x]]
      /\ l.ready = k.ready /\ l.topReady = k.topReady /\ l.delayed = k.delayed
      /\ l.overflow = k.overflow /\ l.pending = k.pending /\ l.suspended = k.suspended
      /\ l.terminating = Tail(k.terminating) /\ l.wake = k.wake
      /\ l.priority = [k.priority EXCEPT ![t] = 0] /\ l.base = [k.base EXCEPT ![t] = 0]
      /\ l.missedTicks = k.missedTicks /\ l.tickCount = k.tickCount
      /\ l.numOfOverflows = k.numOfOverflows
      /\ l.nextUnblock = k.nextUnblock
      /\ l.current = k.current /\ l.running = k.running
      /\ l.numberOfTasks = k.numberOfTasks - 1 /\ l.tasksDeleted = k.tasksDeleted - 1
      /\ l.suspendDepth = k.suspendDepth /\ l.missedYield = k.missedYield
  BY <1>1, ZenonT(30) DEF Reap, Fields
<1> HIDE DEF l
<1>3. /\ t \in AnyTask /\ t \in ToSet(k.terminating)
      /\ Once(l.terminating) /\ ToSet(l.terminating) = ToSet(k.terminating) \ {t}
      /\ Len(l.terminating) = Len(k.terminating) - 1
  <2>1. PICK s : s = k.terminating
    OBVIOUS
  <2>2. Once(s) /\ s # <<>>
    BY <1>1, <2>1 DEF Tidy
  <2>3. /\ Head(s) \in AnyTask /\ Head(s) \in ToSet(s)
        /\ Once(Tail(s)) /\ ToSet(Tail(s)) = ToSet(s) \ {Head(s)} /\ Len(Tail(s)) = Len(s) - 1
    BY <2>2, TailOfList
  <2>4. QED
    BY <1>2, <2>1, <2>3
<1> HIDE DEF t
<1>4. t \notin ReadyTasks(k) /\ t \notin Asleep(k)
  BY <1>1, <1>3 DEF Tidy, Apart, ReadyTasks, Asleep, Blocked
<1>5. SameQueues(k, l)
  BY <1>1, <1>2, <1>3 DEF SameQueues
<1>6. Tidy(l) /\ ReadyTasks(l) = ReadyTasks(k)
  <2>1. 0 \in Priority
    BY KernelAssumption DEF Priority
  <2>2. /\ l.priority = [k.priority EXCEPT ![t] = 0] /\ l.base = [k.base EXCEPT ![t] = 0]
        /\ Tidy(k)
    BY <1>1, <1>2
  <2>3. l.base = [u \in AnyTask |-> l.base[u]]
    BY <1>1, <1>2
  <2>4. QED
    BY <1>3, <1>4, <1>5, <2>1, <2>2, <2>3, AssignedMoves
<1>7. All(l) = All(k) \ {t} /\ t \in All(k)
  BY <1>2, <1>3, <1>4, <1>6 DEF All, Asleep, Blocked
<1>8. l.numberOfTasks = Cardinality(All(l))
  <2>1. IsFiniteSet(All(k)) /\ Cardinality(All(k)) = k.numberOfTasks
    BY <1>1, AllIsFinite DEF CountsAgree
  <2>2. Cardinality(All(k) \ {t}) = Cardinality(All(k)) - 1
    BY <1>7, <2>1, FS_RemoveElement
  <2>3. QED
    BY <1>2, <1>7, <2>1, <2>2
<1>9. CountsAgree(l)
  BY <1>1, <1>2, <1>3, <1>8 DEF CountsAgree
<1>10. Ahead(l) /\ \A u \in AnyTask : Left(l, u) = Left(k, u)
  BY <1>1, <1>2 DEF Ahead, Left
<1>11. \A u \in ReadyTasks(k) : l.priority[u] = k.priority[u]
  BY <1>1, <1>2, <1>4 DEF ReadyTasks
<1>12. Started(l)
  BY <1>1, <1>2, <1>6, <1>11 DEF Started
<1>13. Chosen(l)
  <2>1. Foremost(k, k.current) => Foremost(l, k.current)
    BY <1>6, <1>11 DEF Foremost
  <2>2. l.running = k.running /\ l.current = k.current /\ l.missedYield = k.missedYield
    BY <1>2
  <2>3. QED
    BY <1>1, <1>6, <2>1, <2>2 DEF Chosen
<1>14. QED
  BY <1>1, <1>2, <1>6, <1>9, <1>10, <1>12, <1>13
     DEF Good, Sound, Kept, SameWaits, SameTime, l

\* vTaskPrioritySet up to its yield.
Assigned(k, t, p) ==
  LET l == [k EXCEPT !.base[t] = p, !.urgency[t] = p,
                     !.priority[t] = IF @ = k.base[t] THEN p ELSE @]
  IN  IF t \in ToSet(k.ready[k.base[t]])
      THEN AddTaskToReadyQueue(RemoveGeneric(l, t), t) ELSE l

\* A priority, and the base priorities, are assigned: the lists are what they were.
Assigns(k, l, t, p) ==
  /\ SameQueues(k, l) /\ Rest([k EXCEPT !.priority = l.priority, !.base = l.base], l)
  /\ l.terminating = k.terminating /\ l.nextUnblock = k.nextUnblock
  /\ l.priority = [k.priority EXCEPT ![t] = p]
  /\ l.base = [u \in AnyTask |-> l.base[u]]

\* A ready task goes to the end of the list of its new priority.
LEMMA AssignsMoves ==
  ASSUME NEW k, Tidy(k), Ahead(k), NEW t \in AnyTask, NEW p \in Priority,
         NEW l, Assigns(k, l, t, p)
  PROVE  LET m == IF t \in ReadyTasks(k) THEN AddTaskToReadyQueue(RemoveGeneric(l, t), t) ELSE l
         IN  /\ Tidy(m) /\ Ahead(m) /\ Rest(l, m) /\ SameTime(k, m)
             /\ ReadyTasks(m) = ReadyTasks(k) /\ Blocked(m) = Blocked(k)
             /\ m.suspended = k.suspended /\ m.terminating = k.terminating
             /\ m.pending = k.pending /\ \A u \in AnyTask : Left(m, u) = Left(k, u)
<1> DEFINE r == RemoveGeneric(k, t)
           s == RemoveGeneric(l, t)
           a == AddTaskToReadyQueue(s, t)
           m == IF t \in ReadyTasks(k) THEN a ELSE l
<1>1. k = [x \in Fields |-> k[x]] /\ k.missedTicks \in Nat /\ k.wake \in [AnyTask -> Tick]
  BY DEF Tidy, IsKernel
<1>2. /\ l = [x \in Fields |-> l[x]] /\ SameTime(k, l)
      /\ l.ready = k.ready /\ l.topReady = k.topReady /\ l.delayed = k.delayed
      /\ l.overflow = k.overflow /\ l.pending = k.pending /\ l.suspended = k.suspended
      /\ l.terminating = k.terminating /\ l.wake = k.wake /\ l.nextUnblock = k.nextUnblock
      /\ l.current = k.current /\ l.running = k.running
      /\ l.numberOfTasks = k.numberOfTasks /\ l.tasksDeleted = k.tasksDeleted
      /\ l.suspendDepth = k.suspendDepth /\ l.missedYield = k.missedYield
  BY <1>1 DEF Assigns, SameQueues, Rest, Untouched, SameTime, Fields
<1>3. /\ Tidy(m) /\ ReadyTasks(m) = ReadyTasks(k) /\ Rest(l, m)
      /\ m.nextUnblock = k.nextUnblock
      /\ ToSet(m.delayed) = ToSet(k.delayed) /\ ToSet(m.overflow) = ToSet(k.overflow)
      /\ m.suspended = k.suspended /\ m.terminating = k.terminating /\ m.pending = k.pending
      /\ \A u \in AnyTask \ {t} : m.wake[u] = k.wake[u]
      /\ t \in Blocked(k) => m.wake[t] = k.wake[t]
  <2>1. CASE t \notin ReadyTasks(k)
    <3>1. m = l
      BY <2>1
    <3> HIDE DEF m
    <3>2. Tidy(l) /\ ReadyTasks(l) = ReadyTasks(k)
      BY <2>1, AssignedMoves DEF Assigns
    <3>3. QED
      BY <1>2, <3>1, <3>2 DEF Rest, Untouched, SameTime
  <2>2. CASE t \in ReadyTasks(k)
    <3>1. m = a
      BY <2>2
    <3> HIDE DEF m
    <3>2. /\ Tidy(r) /\ Rest(k, r) /\ TakenOut(k, r, t)
          /\ r.pending = k.pending /\ r.topReady = k.topReady
      BY RemoveGenericMoves
    <3>3. t \notin Asleep(k) /\ t \notin ToSet(k.terminating)
      BY <2>2 DEF Tidy, Apart, ReadyTasks
    <3>4. /\ s = [x \in Fields |-> s[x]] /\ Rest(l, s)
          /\ s.ready = r.ready /\ s.topReady = r.topReady /\ s.delayed = r.delayed
          /\ s.overflow = r.overflow /\ s.pending = r.pending /\ s.suspended = r.suspended
          /\ s.terminating = r.terminating /\ s.wake = r.wake
          /\ s.nextUnblock = l.nextUnblock
      BY <1>1, <1>2, ZenonT(30) DEF RemoveGeneric, Fields, Rest, Untouched, SameTime
    <3> HIDE DEF r, s
    <3>5. t \notin ReadyTasks(r) /\ t \notin Asleep(r) /\ t \notin ToSet(r.terminating)
      BY <3>2, <3>3 DEF TakenOut, Asleep, Blocked
    <3>6. /\ r.priority = k.priority
          /\ ReadyTasks(r) = ReadyTasks(k) \ {t}
          /\ ToSet(r.delayed) = ToSet(k.delayed) /\ ToSet(r.overflow) = ToSet(k.overflow)
          /\ r.suspended = k.suspended /\ r.terminating = k.terminating
          /\ \A u \in AnyTask \ {t} : r.wake[u] = k.wake[u]
      BY <1>1, <3>2, <3>3 DEF Rest, Untouched, TakenOut, Asleep, Blocked
    <3>7. /\ s.priority = [r.priority EXCEPT ![t] = p] /\ s.base = [u \in AnyTask |-> s.base[u]]
          /\ s.missedTicks = k.missedTicks
      BY <1>2, <3>4, <3>6 DEF Assigns, Rest, Untouched, SameTime
    <3>8. SameQueues(r, s)
      BY <1>1, <3>2, <3>4, <3>7 DEF SameQueues, Tidy
    <3>9. Tidy(s) /\ ReadyTasks(s) = ReadyTasks(r)
      BY <3>2, <3>5, <3>7, <3>8, AssignedMoves
    <3>10. t \notin ReadyTasks(s) /\ t \notin Asleep(s) /\ t \notin ToSet(s.terminating)
      BY <3>4, <3>5, <3>9 DEF Asleep, Blocked
    <3>11. /\ Tidy(a) /\ Rest(s, a)
           /\ ReadyTasks(a) = ReadyTasks(s) \cup {t}
           /\ a.delayed = s.delayed /\ a.overflow = s.overflow /\ a.suspended = s.suspended
           /\ a.terminating = s.terminating /\ a.pending = s.pending /\ a.wake = s.wake
           /\ a.nextUnblock = s.nextUnblock
      BY <3>9, <3>10, AddTaskMoves
    <3> HIDE DEF a
    <3>12. ReadyTasks(a) = ReadyTasks(k) /\ t \notin Blocked(k)
      BY <2>2, <3>3, <3>6, <3>9, <3>11 DEF Asleep
    <3>13. Rest(l, a)
      BY <3>4, <3>11 DEF Rest, Untouched, SameTime
    <3>14. QED
      BY <1>2, <3>1, <3>2, <3>4, <3>6, <3>11, <3>12, <3>13
  <2>3. QED
    BY <2>1, <2>2
<1>4. SameTime(k, m) /\ m.tickCount = k.tickCount
  BY <1>2, <1>3 DEF Rest, SameTime
<1> HIDE DEF m
<1>5. /\ ToSet(k.delayed) \subseteq AnyTask /\ ToSet(k.overflow) \subseteq AnyTask
  BY NothingInList DEF Tidy
<1>6. \A u \in ToSet(k.delayed) \cup ToSet(k.overflow) : m.wake[u] = k.wake[u]
  BY <1>3, <1>5 DEF Blocked
<1>7. Ahead(m) /\ \A u \in AnyTask : Left(m, u) = Left(k, u)
  BY <1>3, <1>4, <1>6 DEF Ahead, Left
<1>8. QED
  BY <1>3, <1>4, <1>7 DEF Blocked, m, a, s

\* The task keeps its place, at its new priority.
LEMMA PriorityMoves ==
  ASSUME NEW k, Good(k), NEW t \in AnyTask, NEW p \in Priority
  PROVE  LET m == Assigned(k, t, p)
         IN  /\ Sound(m) /\ SameWaits(k, m)
             /\ m.current = k.current /\ m.running = k.running
             /\ m.suspendDepth = k.suspendDepth /\ m.missedYield = k.missedYield
             /\ m.terminating = k.terminating
             /\ m.priority = [k.priority EXCEPT ![t] = p]
             /\ ReadyTasks(m) = ReadyTasks(k) /\ All(m) = All(k)
<1> DEFINE l == [k EXCEPT !.base[t] = p, !.urgency[t] = p,
                          !.priority[t] = IF @ = k.base[t] THEN p ELSE @]
           m == IF t \in ReadyTasks(k) THEN AddTaskToReadyQueue(RemoveGeneric(l, t), t) ELSE l
<1>1. /\ Tidy(k) /\ Ahead(k) /\ CountsAgree(k) /\ ToSet(k.pending) \subseteq k.suspended
      /\ k = [x \in Fields |-> k[x]] /\ k.missedTicks \in Nat
      /\ k.base = k.priority /\ k.priority \in [AnyTask -> Priority]
  BY DEF Good, Sound, Kept, Tidy, IsKernel, CountsAgree
<1>2. /\ l = [x \in Fields |-> l[x]] /\ l.wake = k.wake
      /\ l.ready = k.ready /\ l.topReady = k.topReady /\ l.delayed = k.delayed
      /\ l.overflow = k.overflow /\ l.pending = k.pending /\ l.suspended = k.suspended
      /\ l.terminating = k.terminating /\ l.nextUnblock = k.nextUnblock
      /\ l.priority = [k.priority EXCEPT ![t] = p] /\ l.base = [k.base EXCEPT ![t] = p]
      /\ Rest([k EXCEPT !.priority = l.priority, !.base = l.base], l)
  BY <1>1 DEF Fields, Rest, Untouched, SameTime
<1>3. t \in ToSet(k.ready[k.base[t]]) <=> t \in ReadyTasks(k)
  BY <1>1 DEF ReadyTasks, InReady
<1>4. Assigned(k, t, p) = m
  BY <1>3 DEF Assigned
<1> HIDE DEF l
<1>5. /\ l.current = k.current /\ l.running = k.running /\ SameTime(k, l)
      /\ l.suspendDepth = k.suspendDepth /\ l.missedYield = k.missedYield
      /\ l.numberOfTasks = k.numberOfTasks /\ l.tasksDeleted = k.tasksDeleted
  BY <1>1, <1>2 DEF Rest, Untouched, SameTime, Fields
<1>6. Assigns(k, l, t, p)
  <2>1. SameQueues(k, l)
    BY <1>1, <1>2, <1>5 DEF SameQueues, Tidy, SameTime
  <2>2. QED
    BY <1>1, <1>2, <2>1 DEF Assigns
<1>7. /\ Tidy(m) /\ Ahead(m) /\ Rest(l, m) /\ SameTime(k, m)
      /\ ReadyTasks(m) = ReadyTasks(k) /\ Blocked(m) = Blocked(k)
      /\ m.suspended = k.suspended /\ m.terminating = k.terminating
      /\ m.pending = k.pending /\ \A u \in AnyTask : Left(m, u) = Left(k, u)
  BY <1>1, <1>6, AssignsMoves
<1> HIDE DEF m
<1>8. /\ m.current = k.current /\ m.running = k.running
      /\ m.priority = [k.priority EXCEPT ![t] = p] /\ m.base = [k.base EXCEPT ![t] = p]
      /\ m.suspendDepth = k.suspendDepth /\ m.missedYield = k.missedYield
      /\ m.numberOfTasks = k.numberOfTasks /\ m.tasksDeleted = k.tasksDeleted
      /\ m.missedTicks = k.missedTicks
  BY <1>2, <1>5, <1>7 DEF Rest, Untouched, SameTime
<1>9. All(m) = All(k)
  BY <1>7, SamePlaces
<1>10. CountsAgree(m)
  BY <1>1, <1>7, <1>8, <1>9 DEF CountsAgree
<1>11. QED
  BY <1>1, <1>4, <1>7, <1>8, <1>9, <1>10 DEF Sound, Kept, SameWaits

LEMMA PrioritySetIs ==
  ASSUME NEW k, Good(k), k.running, NEW t \in AnyTask, t # Idle, NEW p \in Priority
  PROVE  LET l == PrioritySet(k, t, p) IN Called(k, l) /\ SameWaits(k, l)
<1> DEFINE m == Assigned(k, t, p)
           yields == IF p > k.base[t] THEN t # k.current ELSE t = k.current
           n == YieldIf(yields, m)
<1>1. /\ CountsAgree(k) /\ Started(k) /\ Chosen(k)
      /\ k.base = k.priority /\ k.priority \in [AnyTask -> Priority] /\ k.current \in AnyTask
  BY DEF Good, Sound, Kept, Tidy, CountsAgree, Chosen
<1>2. CASE k.base[t] = p
  BY <1>2, NothingCalled DEF PrioritySet
<1>3. CASE k.base[t] # p
  <2>1. PrioritySet(k, t, p) = n
    BY <1>3 DEF PrioritySet, Assigned
  <2>2. /\ Sound(m) /\ SameWaits(k, m)
        /\ m.current = k.current /\ m.running = k.running
        /\ m.suspendDepth = k.suspendDepth /\ m.missedYield = k.missedYield
        /\ m.terminating = k.terminating
        /\ m.priority = [k.priority EXCEPT ![t] = p]
        /\ ReadyTasks(m) = ReadyTasks(k) /\ All(m) = All(k)
    BY PriorityMoves
  <2> HIDE DEF m
  <2>3. /\ m.priority[t] = p /\ p \in Int
        /\ \A u \in AnyTask \ {t} : m.priority[u] = k.priority[u]
        /\ \A u \in AnyTask : k.priority[u] \in Int
    BY <1>1, <2>2 DEF Priority
  <2>4. Started(m)
    BY <1>1, <2>2, <2>3, KernelAssumption DEF Started, AnyTask
  <2>5. yields \/ m.missedYield \/ Foremost(m, m.current)
    <3>1. CASE k.missedYield \/ yields
      BY <2>2, <3>1
    <3>2. CASE ~k.missedYield /\ ~yields
      <4>1. Foremost(k, k.current)
        BY <1>1, <3>2, KernelAssumption DEF Chosen, AnyTask
      <4>2. \/ p > k.priority[t] /\ t = k.current
            \/ ~ (p > k.priority[t]) /\ t # k.current
        BY <1>1, <3>2
      <4>3. ReadyTasks(k) \subseteq AnyTask
        BY DEF ReadyTasks
      <4>4. QED
        BY <1>1, <2>2, <2>3, <4>1, <4>2, <4>3 DEF Foremost
    <3>3. QED
      BY <3>1, <3>2
  <2>6. yields \in BOOLEAN
    OBVIOUS
  <2> HIDE DEF yields
  <2>7. Good(n) /\ Stays(m, n) /\ Switched(m, n)
    BY <1>1, <2>2, <2>4, <2>5, <2>6, YieldIfIs
  <2> HIDE DEF n
  <2>8. Called(k, n) /\ SameWaits(k, n)
    BY <2>2, <2>7 DEF Called, SameWaits, SameTime, Stays, Switched
  <2>9. QED
    BY <2>1, <2>8
<1>4. QED
  BY <1>2, <1>3

\* The running task goes to sleep, with the scheduler suspended.
LEMMA DelayIs ==
  ASSUME NEW k, Good(k), k.running, k.suspendDepth = 0,
         k.current \in ReadyTasks(k), k.current # Idle,
         NEW time \in Tick, time # k.tickCount
  PROVE  LET l == AddCurrentTaskToDelayedList(SuspendAll(k), time)
             t == k.current
         IN  /\ Good(l) /\ l.running = k.running /\ l.current = k.current
             /\ l.suspendDepth = 1 /\ l.terminating = k.terminating /\ SameTime(k, l)
             /\ Present(k) \subseteq Present(l)
             /\ \A u \in AnyTask \ {t} : Left(l, u) = Left(k, u)
             /\ Left(l, t) = IF time > k.tickCount THEN time - k.tickCount
                             ELSE time + Turn - k.tickCount
<1> DEFINE s == SuspendAll(k)
           l == AddCurrentTaskToDelayedList(s, time)
<1>1. /\ Good(s) /\ SameWaits(k, s) /\ ReadyTasks(s) = ReadyTasks(k)
      /\ s.running = k.running /\ s.current = k.current
      /\ s.terminating = k.terminating /\ s.suspendDepth = k.suspendDepth + 1
  BY SuspendAllIs
<1> HIDE DEF s
<1>2. /\ Kept(s) /\ CountsAgree(s) /\ Started(s) /\ Chosen(s)
      /\ s.tickCount = k.tickCount /\ s.missedTicks = k.missedTicks
      /\ s.numOfOverflows = k.numOfOverflows
      /\ \A u \in AnyTask : Left(s, u) = Left(k, u)
  BY <1>1 DEF Good, Sound, SameWaits, SameTime
<1>3. /\ Tidy(l) /\ Ahead(l) /\ Rest(s, l) /\ ReadyTasks(l) = ReadyTasks(s) \ {s.current}
      /\ l.suspended = s.suspended /\ l.terminating = s.terminating
      /\ l.pending = s.pending /\ Blocked(l) = Blocked(s) \cup {s.current}
      /\ \A u \in AnyTask \ {s.current} : Left(l, u) = Left(s, u)
      /\ Left(l, s.current) = IF time > s.tickCount THEN time - s.tickCount
                              ELSE time + Turn - s.tickCount
  <2>1. s.current \in ReadyTasks(s) /\ time # s.tickCount
    BY <1>1, <1>2
  <2>2. QED
    BY <1>2, <2>1, AddCurrentTaskMoves DEF Kept
<1> HIDE DEF l
<1>4. /\ l.current = s.current /\ l.running = s.running /\ l.priority = s.priority
      /\ l.base = s.base
      /\ l.numberOfTasks = s.numberOfTasks /\ l.tasksDeleted = s.tasksDeleted
      /\ l.suspendDepth = s.suspendDepth /\ l.missedYield = s.missedYield
      /\ l.tickCount = s.tickCount /\ l.missedTicks = s.missedTicks
      /\ l.numOfOverflows = s.numOfOverflows
  BY <1>3 DEF Rest, Untouched, SameTime
<1>5. All(l) = All(s)
  BY <1>1, <1>3 DEF All, Asleep
<1>6. CountsAgree(l)
  BY <1>1, <1>2, <1>3, <1>4, <1>5 DEF CountsAgree
<1>7. Started(l)
  BY <1>1, <1>2, <1>3, <1>4 DEF Started
<1>8. Chosen(l)
  BY <1>1, <1>2, <1>3, <1>4 DEF Chosen, Foremost
<1>9. Good(l)
  BY <1>2, <1>3, <1>6, <1>7, <1>8 DEF Good, Sound, Kept
<1>10. Present(k) \subseteq Present(l)
  <2>1. Kept(k) /\ \A u \in AnyTask : Left(s, u) = Left(k, u)
    BY <1>2 DEF Good, Sound
  <2>2. Present(k) \subseteq Present(s)
    BY <1>1, <1>2, <2>1, StillPresent
  <2>3. Present(s) \subseteq Present(l)
    BY <1>3 DEF Present
  <2>4. QED
    BY <2>2, <2>3
<1>11. QED
  BY <1>1, <1>2, <1>3, <1>4, <1>9, <1>10 DEF SameTime, l, s

\* What YieldIfIs says of a call that does nothing else.
LEMMA YieldIs ==
  ASSUME NEW k, Good(k), k.running, NEW yields \in BOOLEAN
  PROVE  LET l == YieldIf(yields, k)
         IN  /\ Called(k, l) /\ SameWaits(k, l)
             /\ yields /\ k.suspendDepth = 0 => l.current \in ReadyTasks(l)
<1> DEFINE l == YieldIf(yields, k)
<1>1. /\ Sound(k) /\ Started(k) /\ k.current \in AnyTask /\ ReadyTasks(k) # {}
      /\ k.missedYield \/ Foremost(k, k.current)
  BY KernelAssumption DEF Good, Chosen, AnyTask, Started
<1>2. Good(l) /\ Stays(k, l) /\ Switched(k, l)
  BY <1>1, YieldIfIs
<1>3. yields /\ k.suspendDepth = 0 => l.current \in ReadyTasks(l)
  BY <1>1, SwitchContextIs DEF YieldIf
<1> HIDE DEF l
<1>4. Called(k, l) /\ SameWaits(k, l)
  BY <1>2 DEF Called, SameWaits, Stays
<1>5. QED
  BY <1>3, <1>4 DEF l

-----------------------------------------------------------------------------
(* Before main *)

LEMMA BootIsGood ==
  /\ Good(BootKernel) /\ ~BootKernel.running
  /\ ReadyTasks(BootKernel) = {} /\ All(BootKernel) = {}
<1> DEFINE k == BootKernel
<1>1. IsKernel(k)
  BY BootPreserves
<1>2. /\ k.ready = [p \in Priority |-> <<>>] /\ k.delayed = <<>> /\ k.overflow = <<>>
      /\ k.pending = <<>> /\ k.suspended = {} /\ k.terminating = <<>>
      /\ k.priority = [t \in AnyTask |-> 0] /\ k.base = [t \in AnyTask |-> 0]
      /\ k.wake = [t \in AnyTask |-> 0] /\ k.topReady = 0
      /\ k.tickCount = 0 /\ k.nextUnblock = MaxDelay /\ k.suspendDepth = 0
      /\ k.missedTicks = 0 /\ ~k.missedYield /\ ~k.running /\ k.current = NoTask
      /\ k.numberOfTasks = 0 /\ k.tasksDeleted = 0
  BY DEF BootKernel
<1> HIDE DEF k
<1>3. 0 \in Priority /\ 0 \in Tick /\ MaxDelay \in Tick
  BY KernelAssumption DEF Priority, Tick
<1>4. /\ k.priority \in [AnyTask -> Priority] /\ k.wake \in [AnyTask -> Tick]
      /\ k.base = k.priority
  BY <1>2, <1>3
<1>5. \A t \in AnyTask : ~InReady(k, t)
  BY <1>2, <1>3, <1>4, EmptyOnce DEF InReady
<1>6. ReadyTasks(k) = {} /\ Asleep(k) = {} /\ ToSet(k.terminating) = {} /\ All(k) = {}
  BY <1>2, <1>5, EmptyOnce DEF ReadyTasks, Asleep, Blocked, All
<1>7. ReadyListsInv(k)
  BY <1>2, EmptyOnce DEF ReadyListsInv
<1>8. Apart(k)
  BY <1>2, <1>5, EmptyOnce DEF Apart
<1>9. Tidy(k)
  BY <1>1, <1>2, <1>3, <1>4, <1>7, <1>8, EmptyOnce DEF Tidy
<1>10. Kept(k)
  BY <1>2, <1>3, <1>9, EmptyOnce DEF Kept, Ahead
<1>11. CountsAgree(k)
  BY <1>2, <1>4, <1>6, FS_EmptySet DEF CountsAgree
<1>12. Started(k) /\ Chosen(k)
  BY <1>2, <1>6 DEF Started, Chosen
<1>13. QED
  BY <1>2, <1>6, <1>10, <1>11, <1>12 DEF Good, Sound, k

-----------------------------------------------------------------------------
(* Ticks that pass *)

\* n ticks are counted.
Lapse(k, l, n) == l.tickCount = Ticks(k.tickCount + n) /\ Passed(k, l, n)

LEMMA MinOfTwo ==
  ASSUME NEW a \in Int, NEW b \in Int
  PROVE  Min({a, b}) = IF a <= b THEN a ELSE b
<1>1. PICK m \in {a, b} : m = IF a <= b THEN a ELSE b
  OBVIOUS
<1>2. \A x \in {a, b} : m <= x
  BY <1>1
<1>3. \A y \in {a, b} : (\A x \in {a, b} : y <= x) => y = m
  BY <1>1
<1>4. Min({a, b}) = m
  BY <1>2, <1>3 DEF Min
<1>5. QED
  BY <1>1, <1>4

\* The tick count after n ticks, and the number of ticks from one count to another.
LEMMA TickCounts ==
  ASSUME NEW a \in Tick, NEW n \in 0 .. MaxDelay
  PROVE  /\ Ticks(a + n) = IF a + n <= MaxDelay THEN a + n ELSE a + n - Turn
         /\ Ticks(Ticks(a + n) - a) = n
<1>1. PICK m \in Nat \ {0} : m = MaxDelay + 1 /\ m = Turn /\ MaxDelay = m - 1
  BY KernelAssumption DEF Turn
<1>2. a \in 0 .. m - 1 /\ n \in 0 .. m - 1
  BY <1>1 DEF Tick
<1>3. \A x \in Int : Ticks(x) = x % m
  BY <1>1 DEF Ticks
<1>4. \A r \in 0 .. m - 1 : r % m = r /\ (r + m) % m = r /\ (r - m) % m = r
  <2>1. SUFFICES ASSUME NEW r \in 0 .. m - 1
                 PROVE  r % m = r /\ (r + m) % m = r /\ (r - m) % m = r
    OBVIOUS
  <2>2. /\ 0 \in Int /\ 1 \in Int /\ -1 \in Int
        /\ r = m * 0 + r /\ r + m = m * 1 + r /\ r - m = m * (-1) + r
    OBVIOUS
  <2>3. QED
    BY <2>2, RemainderIs
<1>5. CASE a + n <= MaxDelay
  <2>1. PICK r \in 0 .. m - 1 : r = a + n
    BY <1>1, <1>2, <1>5
  <2>2. Ticks(a + n) = r
    BY <1>3, <1>4, <2>1
  <2>3. Ticks(a + n) - a = n
    BY <1>2, <2>1, <2>2
  <2>4. Ticks(n) = n
    BY <1>2, <1>3, <1>4
  <2>5. QED
    BY <1>5, <2>1, <2>2, <2>3, <2>4
<1>6. CASE ~ (a + n <= MaxDelay)
  <2>1. PICK r \in 0 .. m - 1 : a + n = r + m
    <3>1. a + n - m \in 0 .. m - 1 /\ a + n = (a + n - m) + m
      BY <1>1, <1>2, <1>6
    <3>2. QED
      BY <3>1
  <2>2. Ticks(a + n) = r
    BY <1>2, <1>3, <1>4, <2>1, SMTT(30)
  <2>3. Ticks(a + n) - a = n - m /\ r = a + n - Turn
    BY <1>1, <1>2, <2>1, <2>2
  <2>4. Ticks(n - m) = n
    BY <1>2, <1>3, <1>4
  <2>5. QED
    BY <1>6, <2>2, <2>3, <2>4
<1>7. QED
  BY <1>5, <1>6


-----------------------------------------------------------------------------
(* The sections that queues, semaphores and mutexes are made of.  Priorities  *)
(* may be inherited, and a task that waits for nothing in particular is among *)
(* the suspended ones (portMAX_DELAY), so much of Good is not to be had.      *)

\* Every task is at one place at most, nothing that was due is still to be done, and
\* nothing is put off unless the scheduler is suspended.
Orderly(k) ==
  /\ Tidy(k) /\ Ahead(k) /\ k.terminating = <<>> /\ Idle \in ReadyTasks(k)
  /\ k.numberOfTasks \in Nat \ {0}
  /\ ~ (k.suspendDepth > 0) => k.pending = <<>> /\ k.missedTicks = 0

\* Nobody begins to wait, and whoever is still waiting for a time has as long to wait;
\* the task that is switched to is ready.
Nearer(k, l, n) == \A t \in AnyTask : Left(l, t) = 0 \/ Left(l, t) = Left(k, t) - n
Onto(k, l) == l.current = k.current \/ l.current \in ReadyTasks(l)

\* No time passes from k to l.
Eases(k, l) ==
  /\ Orderly(l) /\ SameTime(k, l)
  /\ ReadyTasks(k) \subseteq ReadyTasks(l) /\ Nearer(k, l, 0) /\ Onto(k, l)

\* n ticks are counted from k to l.
Elapses(k, l, n) ==
  /\ Orderly(l) /\ l.tickCount = Ticks(k.tickCount + n) /\ SameTurn(k, l, n)
  /\ ReadyTasks(k) \subseteq ReadyTasks(l) /\ Nearer(k, l, n) /\ Onto(k, l)

LEMMA EasesNobody ==
  ASSUME NEW k, Orderly(k)
  PROVE  Eases(k, k)
<1>1. \A t \in AnyTask : Left(k, t) \in Nat
  BY LeftIs DEF Orderly
<1>2. QED
  BY <1>1 DEF Eases, Nearer, Onto, SameTime

LEMMA ElapsesThenEases ==
  ASSUME NEW k, NEW l, NEW m, NEW n \in Nat, Orderly(k), Elapses(k, l, n), Eases(l, m)
  PROVE  Elapses(k, m, n)
<1>1. \A t \in AnyTask : Left(k, t) \in Nat /\ Left(l, t) \in Nat /\ Left(m, t) \in Nat
  BY LeftIs DEF Orderly, Elapses, Eases
<1>2. Nearer(k, m, n)
  BY <1>1 DEF Elapses, Eases, Nearer
<1>3. QED
  BY <1>2 DEF Elapses, Eases, Onto, SameTime, SameTurn

LEMMA EasesElapses ==
  ASSUME NEW k, Orderly(k), NEW l, Eases(k, l)
  PROVE  Elapses(k, l, 0)
<1>1. k.tickCount \in Tick /\ k.tickCount \in Nat
  BY DEF Orderly, Ahead, Tick
<1>2. Ticks(k.tickCount + 0) = k.tickCount
  BY <1>1, TicksAdd
<1>3. QED
  BY <1>2 DEF Eases, Elapses, SameTime, SameTurn

LEMMA EasesTwice ==
  ASSUME NEW k, NEW l, NEW m, Orderly(k), Eases(k, l), Eases(l, m)
  PROVE  Eases(k, m)
<1>1. \A t \in AnyTask : Left(k, t) \in Nat /\ Left(l, t) \in Nat /\ Left(m, t) \in Nat
  BY LeftIs DEF Orderly, Eases
<1>2. Nearer(k, m, 0)
  BY <1>1 DEF Eases, Nearer
<1>3. QED
  BY <1>2 DEF Eases, Onto, SameTime

\* The lists are what they were.
LEMMA SameListsEase ==
  ASSUME NEW k, Orderly(k), NEW l, SameLists(k, l), SameTime(k, l),
         l.nextUnblock = k.nextUnblock, l.numberOfTasks = k.numberOfTasks,
         l.suspendDepth > 0 \/ ~ (k.suspendDepth > 0), l.current = k.current
  PROVE  Eases(k, l) /\ ReadyTasks(l) = ReadyTasks(k)
<1>1. Tidy(k) /\ Ahead(k)
  BY DEF Orderly
<1>2. Tidy(l) /\ ReadyTasks(l) = ReadyTasks(k)
  BY <1>1, SameListsTidy
<1>3. Ahead(l) /\ \A t \in AnyTask : Left(l, t) = Left(k, t)
  BY <1>1, NoneWakes DEF SameTime
<1>4. \A t \in AnyTask : Left(k, t) \in Nat
  BY <1>1, LeftIs
<1>5. l.terminating = k.terminating /\ l.pending = k.pending
  BY DEF SameLists
<1>6. Orderly(l)
  BY <1>2, <1>3, <1>5 DEF Orderly, SameTime
<1>7. QED
  BY <1>2, <1>3, <1>4, <1>6 DEF Eases, Nearer, Onto

LEMMA SwitchEases ==
  ASSUME NEW k, Orderly(k)
  PROVE  LET l == SwitchContext(k)
         IN  /\ Eases(k, l) /\ l.suspendDepth = k.suspendDepth
             /\ ~ (k.suspendDepth > 0) => l.current \in ReadyTasks(l)
<1> DEFINE l == SwitchContext(k)
<1>1. Tidy(k) /\ Ahead(k) /\ k.terminating = <<>> /\ Idle \in ReadyTasks(k)
      /\ k.numberOfTasks \in Nat \ {0}
  BY DEF Orderly
<1>2. CASE k.suspendDepth > 0
  <2>1. /\ SameLists(k, l) /\ SameTime(k, l) /\ l.nextUnblock = k.nextUnblock
        /\ l.current = k.current /\ l.numberOfTasks = k.numberOfTasks
        /\ l.suspendDepth = k.suspendDepth
    BY <1>1, <1>2 DEF SwitchContext, Tidy, IsKernel, Fields, SameLists, SameTime
  <2> HIDE DEF l
  <2>2. Eases(k, l)
    BY <1>2, <2>1, SameListsEase
  <2>3. QED
    BY <1>2, <2>1, <2>2 DEF l
<1>3. CASE ~ (k.suspendDepth > 0)
  <2>1. /\ Tidy(l) /\ Rest([k EXCEPT !.current = l.current], l)
        /\ l.current \in ReadyTasks(k) /\ ReadyTasks(l) = ReadyTasks(k)
        /\ l.delayed = k.delayed /\ l.overflow = k.overflow
        /\ l.terminating = k.terminating /\ l.pending = k.pending /\ l.wake = k.wake
        /\ l.nextUnblock = k.nextUnblock
    BY <1>1, <1>3, SwitchContextMoves
  <2> HIDE DEF l
  <2>2. /\ l.numberOfTasks = k.numberOfTasks /\ l.suspendDepth = k.suspendDepth
        /\ SameTime(k, l)
    BY <1>1, <2>1 DEF Rest, Untouched, SameTime, Tidy, IsKernel, Fields
  <2>3. Ahead(l) /\ \A t \in AnyTask : Left(l, t) = Left(k, t)
    BY <1>1, <2>1, <2>2 DEF Ahead, Left, SameTime
  <2>4. \A t \in AnyTask : Left(k, t) \in Nat
    BY <1>1, LeftIs
  <2>5. Orderly(l)
    BY <1>1, <2>1, <2>2, <2>3 DEF Orderly, SameTime
  <2>6. Eases(k, l)
    BY <2>1, <2>2, <2>3, <2>4, <2>5 DEF Eases, Nearer, Onto
  <2>7. QED
    BY <2>1, <2>2, <2>6 DEF l
<1>4. QED
  BY <1>2, <1>3

LEMMA YieldIfEases ==
  ASSUME NEW k, Orderly(k), NEW yields
  PROVE  Eases(k, YieldIf(yields, k))
<1>1. YieldIf(yields, k) = k \/ YieldIf(yields, k) = SwitchContext(k)
  BY DEF YieldIf
<1>2. QED
  BY <1>1, EasesNobody, SwitchEases

\* Tasks become ready.
LEMMA MadeReadyEases ==
  ASSUME NEW k, Orderly(k), NEW S, NEW l, MadeReady(k, l, S)
  PROVE  Eases(k, l)
<1>1. /\ Tidy(k) /\ Ahead(k) /\ k.terminating = <<>> /\ Idle \in ReadyTasks(k)
      /\ k.numberOfTasks \in Nat \ {0}
      /\ ~ (k.suspendDepth > 0) => k.pending = <<>> /\ k.missedTicks = 0
  BY DEF Orderly
<1>2. /\ Tidy(l) /\ ReadyTasks(l) = ReadyTasks(k) \cup S
      /\ ToSet(l.delayed) = ToSet(k.delayed) \ S /\ ToSet(l.overflow) = ToSet(k.overflow) \ S
      /\ l.terminating = k.terminating /\ ToSet(l.pending) = ToSet(k.pending) \ S
      /\ \A u \in AnyTask \ S : l.wake[u] = k.wake[u]
      /\ l.nextUnblock = k.nextUnblock /\ l.current = k.current
      /\ l.numberOfTasks = k.numberOfTasks /\ l.suspendDepth = k.suspendDepth
      /\ SameTime(k, l)
  BY DEF MadeReady, Rest, Untouched
<1>3. ToSet(k.delayed) \subseteq AnyTask /\ ToSet(k.overflow) \subseteq AnyTask
  BY <1>1, NothingInList DEF Tidy
<1>4. Ahead(l)
  BY <1>1, <1>2, <1>3 DEF Ahead, SameTime
<1>5. \A t \in AnyTask : Left(l, t) = 0 \/ Left(l, t) = Left(k, t)
  BY <1>2 DEF Left, SameTime
<1>6. \A t \in AnyTask : Left(k, t) \in Nat
  BY <1>1, LeftIs
<1>7. ~ (l.suspendDepth > 0) => l.pending = <<>>
  <2>1. SUFFICES ASSUME k.pending = <<>> PROVE l.pending = <<>>
    BY <1>1, <1>2
  <2>2. ToSet(l.pending) = {}
    BY <1>2, <2>1, EmptyOnce
  <2>3. QED
    BY <1>2, <2>2, NothingInList DEF Tidy
<1>8. Orderly(l)
  BY <1>1, <1>2, <1>4, <1>7 DEF Orderly, SameTime
<1>9. QED
  BY <1>2, <1>5, <1>6, <1>8 DEF Eases, Nearer, Onto

\* The first task of an event list becomes ready, or will when the scheduler resumes.
LEMMA RemoveFromEventListEases ==
  ASSUME NEW k, Orderly(k), Serving(k), NEW e \in Event, k.event[e] # <<>>
  PROVE  LET l == RemoveFromEventList(k, e)
         IN  /\ Eases(k, l) /\ l.current = k.current /\ l.suspendDepth = k.suspendDepth
             /\ l = [x \in Fields |-> l[x]]
<1> DEFINE t == Head(k.event[e])
           l == RemoveFromEventList(k, e)
<1>1. t \in AnyTask /\ <<t>> \in Seq(AnyTask) /\ ToSet(<<t>>) = {t}
  <2>1. PICK s : s = k.event[e]
    OBVIOUS
  <2>2. Once(s) /\ s # <<>>
    BY <2>1 DEF Serving, Parted
  <2>3. Head(s) \in AnyTask
    BY <2>2, TailOfList
  <2>4. QED
    BY <2>1, <2>3 DEF ToSet
<1>2. Tidy(k) /\ Ahead(k) /\ k.terminating = <<>> /\ ToSet(k.terminating) = {}
  BY EmptyOnce DEF Orderly
<1> HIDE DEF t
<1>3. CASE ~ (k.suspendDepth > 0)
  <2>1. l = MakeReady(k, <<t>>)
    BY <1>3 DEF RemoveFromEventList, t
  <2> HIDE DEF l
  <2>2. MadeReady(k, l, {t})
    BY <1>1, <1>2, <2>1, MakeReadyMoves
  <2>3. Eases(k, l)
    BY <2>2, MadeReadyEases
  <2>4. QED
    BY <2>2, <2>3 DEF MadeReady, Rest, Untouched, Tidy, IsKernel, l
<1>4. CASE k.suspendDepth > 0
  <2> DEFINE r == RemoveEvent(k, t)
  <2>1. /\ Tidy(r) /\ Rest(k, r) /\ ToSet(r.pending) = ToSet(k.pending) \ {t}
        /\ r.ready = k.ready /\ r.topReady = k.topReady /\ r.delayed = k.delayed
        /\ r.overflow = k.overflow /\ r.suspended = k.suspended
        /\ r.terminating = k.terminating /\ r.wake = k.wake
        /\ r.nextUnblock = k.nextUnblock
    BY <1>1, <1>2, RemoveEventMoves
  <2>2. l = [r EXCEPT !.pending = Append(@, t)]
    BY <1>4 DEF RemoveFromEventList, t
  <2> HIDE DEF r, l
  <2>3. /\ l = [x \in Fields |-> l[x]] /\ l.pending = Append(r.pending, t)
        /\ l.ready = r.ready /\ l.topReady = r.topReady /\ l.delayed = r.delayed
        /\ l.overflow = r.overflow /\ l.suspended = r.suspended
        /\ l.terminating = r.terminating /\ l.wake = r.wake
        /\ l.priority = r.priority /\ l.base = r.base
        /\ l.missedTicks = r.missedTicks /\ l.nextUnblock = r.nextUnblock
        /\ l.current = r.current /\ l.suspendDepth = r.suspendDepth
        /\ l.numberOfTasks = r.numberOfTasks /\ SameTime(r, l)
    BY <2>1, <2>2 DEF Tidy, IsKernel, Fields, SameTime
  <2>4. Once(l.pending)
    <3>1. PICK s : s = r.pending
      OBVIOUS
    <3>2. Once(s) /\ t \notin ToSet(s)
      BY <2>1, <3>1 DEF Tidy
    <3>3. Once(Append(s, t))
      BY <1>1, <3>2, AppendToList
    <3>4. QED
      BY <2>3, <3>1, <3>3
  <2>5. IsKernel(l)
    <3>1. IsList(l.pending)
      BY <2>4 DEF Once, IsList
    <3>2. QED
      BY <2>1, <2>3, <3>1 DEF Tidy, IsKernel
  <2>6. ReadyListsInv(l)
    <3>1. ReadyListsInv(r)
      BY <2>1 DEF Tidy
    <3>2. l.ready = r.ready /\ l.priority = r.priority /\ l.topReady = r.topReady
      BY <2>3
    <3>3. QED
      BY <3>1, <3>2 DEF ReadyListsInv
  <2>7. Apart(l) /\ ReadyTasks(l) = ReadyTasks(k)
    <3>1. /\ \A u \in AnyTask : InReady(l, u) <=> InReady(k, u)
          /\ Asleep(l) = Asleep(k) /\ l.terminating = k.terminating
          /\ l.delayed = k.delayed /\ l.overflow = k.overflow /\ l.suspended = k.suspended
      BY <2>1, <2>3 DEF InReady, Asleep, Blocked, Rest, Untouched
    <3>2. Apart(k)
      BY <1>2 DEF Tidy
    <3>3. QED
      BY <3>1, <3>2 DEF Apart, ReadyTasks
  <2>8. Tidy(l)
    BY <2>1, <2>3, <2>4, <2>5, <2>6, <2>7 DEF Tidy
  <2>9. /\ SameTime(k, l) /\ l.numberOfTasks = k.numberOfTasks
        /\ l.suspendDepth = k.suspendDepth /\ l.current = k.current
        /\ l.terminating = k.terminating
    BY <2>1, <2>3 DEF Rest, Untouched, SameTime
  <2>10. Ahead(l) /\ \A u \in AnyTask : Left(l, u) = Left(k, u)
    BY <1>2, <2>1, <2>3, <2>9 DEF Ahead, Left, SameTime
  <2>11. Orderly(l)
    BY <1>4, <2>7, <2>8, <2>9, <2>10 DEF Orderly
  <2>12. \A u \in AnyTask : Left(k, u) \in Nat
    BY <1>2, LeftIs
  <2>13. Eases(k, l)
    BY <2>7, <2>9, <2>10, <2>11, <2>12 DEF Eases, Nearer, Onto
  <2>14. QED
    BY <2>3, <2>9, <2>13 DEF l
<1>5. QED
  BY <1>3, <1>4

\* A task gets another priority, and keeps its place.
LEMMA AssignsEases ==
  ASSUME NEW k, Orderly(k), NEW t \in AnyTask, NEW p \in Priority,
         NEW l, Assigns(k, l, t, p)
  PROVE  LET m == IF t \in ReadyTasks(k) THEN AddTaskToReadyQueue(RemoveGeneric(l, t), t) ELSE l
         IN  /\ Eases(k, m) /\ m.current = k.current /\ m.suspendDepth = k.suspendDepth
             /\ ReadyTasks(m) = ReadyTasks(k)
<1> DEFINE m == IF t \in ReadyTasks(k) THEN AddTaskToReadyQueue(RemoveGeneric(l, t), t) ELSE l
<1>1. Tidy(k) /\ Ahead(k)
  BY DEF Orderly
<1>2. /\ Tidy(m) /\ Ahead(m) /\ Rest(l, m) /\ SameTime(k, m)
      /\ ReadyTasks(m) = ReadyTasks(k) /\ m.terminating = k.terminating
      /\ m.pending = k.pending /\ \A u \in AnyTask : Left(m, u) = Left(k, u)
  BY <1>1, AssignsMoves
<1> HIDE DEF m
<1>3. /\ m.current = k.current /\ m.suspendDepth = k.suspendDepth
      /\ m.numberOfTasks = k.numberOfTasks
  <2>1. k = [x \in Fields |-> k[x]]
    BY <1>1 DEF Tidy, IsKernel
  <2>2. QED
    BY <1>2, <2>1 DEF Assigns, Rest, Untouched, Fields
<1>4. \A u \in AnyTask : Left(k, u) \in Nat
  BY <1>1, LeftIs
<1>5. Orderly(m)
  BY <1>2, <1>3 DEF Orderly, SameTime
<1>6. QED
  BY <1>2, <1>3, <1>4, <1>5 DEF Eases, Nearer, Onto, m

LEMMA ChangePriorityEases ==
  ASSUME NEW k, Orderly(k), NEW t \in AnyTask, NEW p \in Priority
  PROVE  LET l == ChangePriority(k, t, p)
         IN  /\ Eases(k, l) /\ l.current = k.current /\ l.suspendDepth = k.suspendDepth
             /\ ReadyTasks(l) = ReadyTasks(k)
<1> DEFINE l == [k EXCEPT !.priority[t] = p, !.urgency[t] = p]
<1>1. Tidy(k) /\ k = [x \in Fields |-> k[x]] /\ k.missedTicks \in Nat
      /\ k.priority \in [AnyTask -> Priority] /\ k.base = [u \in AnyTask |-> k.base[u]]
      /\ Once(k.terminating)
  BY DEF Orderly, Tidy, IsKernel
<1>2. /\ l = [x \in Fields |-> l[x]] /\ l.wake = k.wake
      /\ l.ready = k.ready /\ l.topReady = k.topReady /\ l.delayed = k.delayed
      /\ l.overflow = k.overflow /\ l.pending = k.pending /\ l.suspended = k.suspended
      /\ l.terminating = k.terminating /\ l.nextUnblock = k.nextUnblock
      /\ l.priority = [k.priority EXCEPT ![t] = p] /\ l.base = k.base
      /\ l.missedTicks = k.missedTicks
      /\ Rest([k EXCEPT !.priority = l.priority, !.base = l.base], l)
  BY <1>1 DEF Fields, Rest, Untouched, SameTime
<1>3. ChangePriority(k, t, p)
        = IF t \in ReadyTasks(k) THEN AddTaskToReadyQueue(RemoveGeneric(l, t), t) ELSE l
  BY DEF ChangePriority, ReadyTasks
<1> HIDE DEF l
<1>4. Assigns(k, l, t, p)
  <2>1. SameQueues(k, l)
    BY <1>1, <1>2 DEF SameQueues
  <2>2. QED
    BY <1>1, <1>2, <2>1 DEF Assigns
<1>5. QED
  BY <1>3, <1>4, AssignsEases

LEMMA PriorityInheritEases ==
  ASSUME NEW k, Orderly(k), NEW t \in AnyTask, k.current \in AnyTask
  PROVE  LET l == PriorityInherit(k, t)
         IN  /\ Eases(k, l) /\ l.current = k.current /\ l.suspendDepth = k.suspendDepth
             /\ ReadyTasks(l) = ReadyTasks(k)
<1>1. k.priority[k.current] \in Priority
  BY DEF Orderly, Tidy
<1>2. PriorityInherit(k, t) \in {k, ChangePriority(k, t, k.priority[k.current])}
  BY DEF PriorityInherit
<1>3. QED
  BY <1>1, <1>2, ChangePriorityEases, EasesNobody

LEMMA PriorityDisinheritEases ==
  ASSUME NEW k, Orderly(k), Serving(k), NEW t \in AnyTask \cup {NoTask}
  PROVE  LET l == PriorityDisinherit(k, t) IN Eases(k, l) /\ l.current = k.current
<1>1. t \in AnyTask => k.base[t] \in Priority
  BY DEF Serving, Parted
<1>2. \/ PriorityDisinherit(k, t) = k
      \/ t \in AnyTask /\ PriorityDisinherit(k, t) = ChangePriority(k, t, k.base[t])
  BY DEF PriorityDisinherit
<1>3. QED
  BY <1>1, <1>2, ChangePriorityEases, EasesNobody

\* The base priorities, which only a yield is decided by, are assigned.
LEMMA BaseEases ==
  ASSUME NEW k, Orderly(k), NEW t \in AnyTask, NEW p, NEW l,
         l = [k EXCEPT !.base[t] = p, !.urgency[t] = p, !.priority[t] = @]
  PROVE  Eases(k, l) /\ l.current = k.current
<1>1. /\ Tidy(k) /\ Ahead(k) /\ k = [x \in Fields |-> k[x]] /\ k.missedTicks \in Nat
      /\ IsList(k.delayed) /\ IsList(k.overflow) /\ IsList(k.pending)
      /\ k.priority \in [AnyTask -> Priority] /\ k.base = [u \in AnyTask |-> k.base[u]]
  BY DEF Orderly, Tidy, IsKernel
<1>2. /\ l = [x \in Fields |-> l[x]] /\ l.wake = k.wake
      /\ l.ready = k.ready /\ l.topReady = k.topReady /\ l.delayed = k.delayed
      /\ l.overflow = k.overflow /\ l.pending = k.pending /\ l.suspended = k.suspended
      /\ l.terminating = k.terminating /\ l.nextUnblock = k.nextUnblock
      /\ l.priority = k.priority /\ l.base = [k.base EXCEPT ![t] = p]
      /\ l.current = k.current /\ l.suspendDepth = k.suspendDepth
      /\ l.numberOfTasks = k.numberOfTasks /\ SameTime(k, l)
  BY <1>1 DEF Fields, SameTime
<1>3. IsKernel(l)
  <2>1. /\ l = [x \in Fields |-> l[x]] /\ l.priority = [u \in AnyTask |-> l.priority[u]]
        /\ IsList(l.delayed) /\ IsList(l.overflow) /\ IsList(l.pending)
        /\ l.missedTicks \in Nat
    BY <1>1, <1>2 DEF SameTime
  <2>2. l.base = [u \in AnyTask |-> l.base[u]]
    <3>1. PICK b : b = k.base
      OBVIOUS
    <3>2. b = [u \in AnyTask |-> b[u]] /\ l.base = [b EXCEPT ![t] = p]
      BY <1>1, <1>2, <3>1
    <3>3. QED
      BY <3>2
  <2>3. QED
    BY <2>1, <2>2 DEF IsKernel
<1>4. ReadyListsInv(l)
  <2>1. ReadyListsInv(k)
    BY <1>1 DEF Tidy
  <2>2. l.ready = k.ready /\ l.priority = k.priority /\ l.topReady = k.topReady
    BY <1>2
  <2>3. QED
    BY <2>1, <2>2 DEF ReadyListsInv
<1>5. Apart(l) /\ ReadyTasks(l) = ReadyTasks(k)
  <2>1. /\ \A u \in AnyTask : InReady(l, u) <=> InReady(k, u)
        /\ Asleep(l) = Asleep(k)
    BY <1>2 DEF InReady, Asleep, Blocked
  <2>2. Apart(k)
    BY <1>1 DEF Tidy
  <2>3. QED
    BY <1>2, <2>1, <2>2 DEF Apart, ReadyTasks
<1>6. Tidy(l)
  BY <1>1, <1>2, <1>3, <1>4, <1>5 DEF Tidy
<1>7. Ahead(l) /\ \A u \in AnyTask : Left(l, u) = Left(k, u)
  BY <1>1, <1>2 DEF Ahead, Left, SameTime
<1>8. \A u \in AnyTask : Left(k, u) \in Nat
  BY <1>1, LeftIs
<1>9. Orderly(l)
  BY <1>2, <1>5, <1>6, <1>7 DEF Orderly, SameTime
<1>10. QED
  BY <1>2, <1>5, <1>7, <1>8, <1>9 DEF Eases, Nearer, Onto

LEMMA PrioritySetEases ==
  ASSUME NEW k, Orderly(k), Serving(k), NEW t \in AnyTask, NEW p \in Priority
  PROVE  Eases(k, PrioritySet(k, t, p))
<1> DEFINE l == [k EXCEPT !.base[t] = p, !.urgency[t] = p,
                          !.priority[t] = IF @ = k.base[t] THEN p ELSE @]
           m == Assigned(k, t, p)
<1>1. /\ Tidy(k) /\ k = [x \in Fields |-> k[x]] /\ k.missedTicks \in Nat
      /\ k.priority \in [AnyTask -> Priority] /\ k.base = [u \in AnyTask |-> k.base[u]]
      /\ ReadyListsInv(k) /\ Once(k.terminating) /\ k.base[t] \in Priority
  BY DEF Orderly, Tidy, IsKernel, Serving, Parted
<1>2. Eases(k, m)
  <2>1. CASE k.priority[t] = k.base[t]
    <3>1. /\ l = [x \in Fields |-> l[x]] /\ l.wake = k.wake
          /\ l.ready = k.ready /\ l.topReady = k.topReady /\ l.delayed = k.delayed
          /\ l.overflow = k.overflow /\ l.pending = k.pending /\ l.suspended = k.suspended
          /\ l.terminating = k.terminating /\ l.nextUnblock = k.nextUnblock
          /\ l.priority = [k.priority EXCEPT ![t] = p] /\ l.base = [k.base EXCEPT ![t] = p]
          /\ l.missedTicks = k.missedTicks
          /\ Rest([k EXCEPT !.priority = l.priority, !.base = l.base], l)
      BY <1>1, <2>1 DEF Fields, Rest, Untouched, SameTime
    <3>2. m = IF t \in ReadyTasks(k) THEN AddTaskToReadyQueue(RemoveGeneric(l, t), t) ELSE l
      BY <2>1 DEF Assigned, ReadyTasks, InReady
    <3> HIDE DEF l, m
    <3>3. l.base = [u \in AnyTask |-> l.base[u]]
      <4>1. PICK b : b = k.base
        OBVIOUS
      <4>2. b = [u \in AnyTask |-> b[u]] /\ l.base = [b EXCEPT ![t] = p]
        BY <1>1, <3>1, <4>1
      <4>3. QED
        BY <4>2
    <3>4. SameQueues(k, l)
      BY <1>1, <3>1 DEF SameQueues
    <3>5. Assigns(k, l, t, p)
      BY <3>1, <3>3, <3>4 DEF Assigns
    <3>6. QED
      BY <3>2, <3>5, AssignsEases
  <2>2. CASE k.priority[t] # k.base[t]
    <3>1. t \notin ToSet(k.ready[k.base[t]])
      BY <1>1, <2>2 DEF ReadyListsInv
    <3>2. m = [k EXCEPT !.base[t] = p, !.urgency[t] = p, !.priority[t] = @]
      BY <2>2, <3>1 DEF Assigned
    <3> HIDE DEF m
    <3>3. QED
      BY <3>2, BaseEases
  <2>3. QED
    BY <2>1, <2>2
<1>3. \/ PrioritySet(k, t, p) = k
      \/ \E yields : PrioritySet(k, t, p) = YieldIf(yields, m)
  BY DEF PrioritySet, Assigned
<1> HIDE DEF m
<1>4. \A yields : Eases(k, YieldIf(yields, m))
  <2>1. Orderly(m)
    BY <1>2 DEF Eases
  <2>2. QED
    BY <1>2, <2>1, YieldIfEases, EasesTwice
<1>5. QED
  BY <1>3, <1>4, EasesNobody

\* The running task begins to wait, for ticks at most unless they are portMAX_DELAY.
Sleeps(k, l, ticks) ==
  LET t == k.current
  IN  /\ Orderly(l) /\ SameTime(k, l)
      /\ l.current = t /\ l.suspendDepth = k.suspendDepth
      /\ ReadyTasks(l) = ReadyTasks(k) \ {t}
      /\ \A u \in AnyTask \ {t} : Left(l, u) = Left(k, u)
      /\ Left(l, t) = IF ticks = MaxDelay THEN 0 ELSE ticks

LEMMA PlaceSleeps ==
  ASSUME NEW k, Orderly(k), k.current \in Task, k.current \in ReadyTasks(k),
         NEW e \in Event, NEW ticks \in 1 .. MaxDelay
  PROVE  Sleeps(k, PlaceOnEventList(k, e, ticks), ticks)
<1> DEFINE t == k.current
           lessUrgent == {u \in DOMAIN k.urgency : k.urgency[u] < k.urgency[t]}
           l == [k EXCEPT !.event[e] = ListInsert(@, t, lessUrgent)]
           r == RemoveGeneric(l, t)
           m == [r EXCEPT !.suspended = @ \cup {t}]
           d == AddCurrentTaskToDelayedList(l, Ticks(k.tickCount + ticks))
<1>1. /\ Tidy(k) /\ Ahead(k) /\ k.terminating = <<>> /\ ToSet(k.terminating) = {}
      /\ k = [x \in Fields |-> k[x]] /\ k.missedTicks \in Nat /\ t \in AnyTask /\ t # Idle
      /\ k.tickCount \in Tick
  BY EmptyOnce, KernelAssumption DEF Orderly, Tidy, IsKernel, AnyTask, Ahead
<1>2. /\ SameLists(k, l) /\ SameTime(k, l) /\ l.nextUnblock = k.nextUnblock
      /\ l.numberOfTasks = k.numberOfTasks /\ l.suspendDepth = k.suspendDepth
      /\ l.current = t
  <2> HIDE DEF lessUrgent
  <2>1. QED
    BY <1>1 DEF SameLists, Fields, SameTime, Tidy
<1> HIDE DEF l
<1>3. Eases(k, l) /\ ReadyTasks(l) = ReadyTasks(k)
  BY <1>2, SameListsEase
<1>4. Tidy(l) /\ Ahead(l) /\ \A u \in AnyTask : Left(l, u) = Left(k, u)
  BY <1>1, <1>2, NoneWakes, SameListsTidy DEF SameTime
<1>5. CASE ticks = MaxDelay
  <2>1. PlaceOnEventList(k, e, ticks) = m
    BY <1>5 DEF PlaceOnEventList, l
  <2>2. /\ Tidy(r) /\ Rest(l, r) /\ TakenOut(l, r, t) /\ r.pending = l.pending
    BY <1>1, <1>4, RemoveGenericMoves
  <2> HIDE DEF r
  <2>3. /\ m = [x \in Fields |-> m[x]] /\ m.pending = r.pending
        /\ m.ready = r.ready /\ m.topReady = r.topReady /\ m.delayed = r.delayed
        /\ m.overflow = r.overflow /\ m.suspended = r.suspended \cup {t}
        /\ m.terminating = r.terminating /\ m.wake = r.wake
        /\ m.priority = r.priority /\ m.base = r.base
        /\ m.missedTicks = r.missedTicks /\ m.nextUnblock = r.nextUnblock
        /\ m.current = r.current /\ m.suspendDepth = r.suspendDepth
        /\ m.numberOfTasks = r.numberOfTasks /\ SameTime(r, m)
    BY <2>2 DEF Tidy, IsKernel, Fields, SameTime
  <2> HIDE DEF m
  <2>4. IsKernel(m)
    BY <2>2, <2>3 DEF Tidy, IsKernel
  <2>5. ReadyListsInv(m)
    <3>1. ReadyListsInv(r)
      BY <2>2 DEF Tidy
    <3>2. m.ready = r.ready /\ m.priority = r.priority /\ m.topReady = r.topReady
      BY <2>3
    <3>3. QED
      BY <3>1, <3>2 DEF ReadyListsInv
  <2>6. /\ r.terminating = <<>> /\ ToSet(r.terminating) = {}
        /\ t \notin ToSet(r.delayed) /\ t \notin ToSet(r.overflow)
        /\ t \notin ReadyTasks(r) /\ ReadyTasks(r) = ReadyTasks(k) \ {t}
        /\ ToSet(r.delayed) = ToSet(l.delayed) \ {t}
        /\ ToSet(r.overflow) = ToSet(l.overflow) \ {t}
        /\ r.wake = [l.wake EXCEPT ![t] = 0] /\ r.nextUnblock = l.nextUnblock
    BY <1>1, <1>2, <1>3, <2>2 DEF TakenOut, SameLists
  <2>7. ReadyTasks(m) = ReadyTasks(r) /\ Apart(m)
    <3>1. /\ \A u \in AnyTask : InReady(m, u) <=> InReady(r, u)
          /\ Asleep(m) = Asleep(r) \cup {t} /\ ~InReady(r, t)
      BY <1>1, <2>3, <2>6 DEF InReady, Asleep, Blocked, ReadyTasks
    <3>2. Apart(r)
      BY <2>2 DEF Tidy
    <3>3. QED
      BY <2>3, <2>6, <3>1, <3>2 DEF Apart, ReadyTasks
  <2>8. Tidy(m)
    BY <1>1, <2>2, <2>3, <2>4, <2>5, <2>7 DEF Tidy
  <2>9. SameTime(l, m) /\ m.current = t /\ m.suspendDepth = k.suspendDepth
        /\ m.numberOfTasks = k.numberOfTasks /\ m.pending = k.pending
    BY <1>2, <2>2, <2>3 DEF Rest, Untouched, SameTime, SameLists
  <2>10. \A u \in ToSet(l.delayed) \cup ToSet(l.overflow) : u \in AnyTask
    BY <1>4, NothingInList DEF Tidy
  <2>11. \A u \in AnyTask \ {t} : r.wake[u] = l.wake[u]
    BY <2>6
  <2>12. Ahead(m)
    <3>1. /\ m.tickCount = l.tickCount /\ m.nextUnblock = l.nextUnblock
          /\ ToSet(m.delayed) = ToSet(l.delayed) \ {t}
          /\ ToSet(m.overflow) = ToSet(l.overflow) \ {t}
      BY <2>3, <2>6, <2>9 DEF SameTime
    <3>2. \A u \in (ToSet(l.delayed) \cup ToSet(l.overflow)) \ {t} : m.wake[u] = l.wake[u]
      BY <2>3, <2>10, <2>11
    <3>3. QED
      BY <1>4, <3>1, <3>2 DEF Ahead
  <2>13. \A u \in AnyTask \ {t} : Left(m, u) = Left(l, u)
    BY <2>3, <2>6, <2>9, <2>11, ZenonT(60) DEF Left, SameTime
  <2>14. Left(m, t) = 0
    BY <2>3, <2>6 DEF Left
  <2>15. Orderly(m)
    BY <1>1, <1>2, <2>3, <2>6, <2>7, <2>8, <2>9, <2>12 DEF Orderly, SameTime
  <2>16. Sleeps(k, m, ticks)
    BY <1>2, <1>4, <1>5, <2>6, <2>7, <2>9, <2>13, <2>14, <2>15 DEF Sleeps, SameTime
  <2>17. QED
    BY <2>1, <2>16
<1>6. CASE ticks # MaxDelay
  <2>1. PlaceOnEventList(k, e, ticks) = d
    BY <1>6 DEF PlaceOnEventList, l
  <2>2. PICK time : time = Ticks(k.tickCount + ticks)
    OBVIOUS
  <2>3. /\ time = IF k.tickCount + ticks <= MaxDelay THEN k.tickCount + ticks
                  ELSE k.tickCount + ticks - Turn
        /\ ticks \in 0 .. MaxDelay /\ k.tickCount \in 0 .. MaxDelay /\ Turn = MaxDelay + 1
    BY <1>1, <2>2, TickCounts DEF Tick, Turn
  <2>4. time \in Tick /\ time # k.tickCount
        /\ ticks = IF time > k.tickCount THEN time - k.tickCount ELSE time + Turn - k.tickCount
    BY <2>3, KernelAssumption DEF Tick
  <2>5. l.current \in ReadyTasks(l) /\ l.tickCount = k.tickCount
    BY <1>2, <1>3 DEF SameTime
  <2>6. /\ Tidy(d) /\ Ahead(d) /\ Rest(l, d) /\ ReadyTasks(d) = ReadyTasks(l) \ {t}
        /\ d.terminating = l.terminating /\ d.pending = l.pending
        /\ \A u \in AnyTask \ {t} : Left(d, u) = Left(l, u)
        /\ Left(d, t) = ticks
    <3>1. d = AddCurrentTaskToDelayedList(l, time)
      BY <2>2
    <3> HIDE DEF d
    <3>2. QED
      BY <1>2, <1>4, <2>4, <2>5, <3>1, AddCurrentTaskMoves
  <2> HIDE DEF d
  <2>7. /\ SameTime(k, d) /\ d.current = t /\ d.suspendDepth = k.suspendDepth
        /\ d.numberOfTasks = k.numberOfTasks /\ d.terminating = <<>> /\ d.pending = k.pending
    BY <1>1, <1>2, <2>6 DEF Rest, Untouched, SameTime, SameLists
  <2>8. Idle \in ReadyTasks(d)
    BY <1>1, <1>3, <2>6 DEF Orderly
  <2>9. Orderly(d)
    BY <2>6, <2>7, <2>8 DEF Orderly, SameTime
  <2>10. Sleeps(k, d, ticks)
    BY <1>3, <1>4, <1>6, <2>6, <2>7, <2>9 DEF Sleeps
  <2>11. QED
    BY <2>1, <2>10
<1>7. QED
  BY <1>5, <1>6

LEMMA SuspendAllEases ==
  ASSUME NEW k, Orderly(k), k.suspendDepth \in Nat
  PROVE  Eases(k, SuspendAll(k))
<1> DEFINE l == SuspendAll(k)
<1>1. /\ k = [x \in Fields |-> k[x]] /\ k.missedTicks \in Nat
  BY DEF Orderly, Tidy, IsKernel
<1>2. /\ SameLists(k, l) /\ SameTime(k, l) /\ l.nextUnblock = k.nextUnblock
      /\ l.numberOfTasks = k.numberOfTasks /\ l.suspendDepth = k.suspendDepth + 1
      /\ l.current = k.current
  BY <1>1 DEF SuspendAll, SameLists, Fields, SameTime
<1> HIDE DEF l
<1>3. l.suspendDepth > 0
  BY <1>2
<1>4. QED
  BY <1>2, <1>3, SameListsEase DEF l

\* A tick that is counted when it comes brings everybody one tick nearer.
LEMMA TickElapses ==
  ASSUME NEW k, Orderly(k), k.suspendDepth \in Nat
  PROVE  LET l == SwitchContext(IncrementTick(k))
         IN  \/ k.suspendDepth > 0 /\ Elapses(k, l, 0) /\ l.missedTicks = k.missedTicks + 1
             \/ k.suspendDepth = 0 /\ Elapses(k, l, 1) /\ l.missedTicks = 0
<1> DEFINE m == IncrementTick(k)
           l == SwitchContext(m)
<1>1. /\ Tidy(k) /\ Ahead(k) /\ k = [x \in Fields |-> k[x]] /\ k.missedTicks \in Nat
      /\ k.tickCount \in Tick /\ k.tickCount \in 0 .. MaxDelay
  BY DEF Orderly, Tidy, IsKernel, Ahead, Tick
<1>2. CASE k.suspendDepth > 0
  <2>1. /\ SameLists(k, m) /\ m.tickCount = k.tickCount /\ m.numOfOverflows = k.numOfOverflows
        /\ m.missedTicks = k.missedTicks + 1
        /\ m.nextUnblock = k.nextUnblock /\ m.current = k.current
        /\ m.numberOfTasks = k.numberOfTasks /\ m.suspendDepth = k.suspendDepth
    BY <1>1, <1>2, SMTT(60) DEF IncrementTick, SameLists, Fields
  <2> HIDE DEF m
  <2>2. /\ Tidy(m) /\ ReadyTasks(m) = ReadyTasks(k) /\ Ahead(m)
        /\ \A t \in AnyTask : Left(m, t) = Left(k, t)
    BY <1>1, <2>1, SameListsTidy, NoneWakes
  <2>3. Orderly(m)
    BY <1>2, <2>1, <2>2 DEF Orderly, SameLists
  <2>4. m.tickCount = Ticks(k.tickCount + 0) /\ SameTurn(k, m, 0)
    BY <1>1, <2>1, TicksAdd DEF SameTurn
  <2>5. \A t \in AnyTask : Left(k, t) \in Nat
    BY <1>1, LeftIs
  <2>6. Elapses(k, m, 0)
    BY <2>1, <2>2, <2>3, <2>4, <2>5 DEF Elapses, Nearer, Onto
  <2>7. Eases(m, l)
    BY <2>3, SwitchEases
  <2>8. Elapses(k, l, 0) /\ l.missedTicks = k.missedTicks + 1
    BY <2>1, <2>6, <2>7, ElapsesThenEases DEF Eases, SameTime
  <2>9. QED
    BY <1>2, <2>8 DEF m
<1>3. CASE k.suspendDepth = 0
  <2>1. /\ k.pending = <<>> /\ ToSet(k.pending) = {} /\ k.missedTicks = 0
        /\ ~ (k.suspendDepth > 0)
    BY <1>3, EmptyOnce DEF Orderly
  <2>2. Kept(k)
    BY <1>1, <2>1 DEF Kept
  <2>3. /\ Kept(m) /\ Untouched(k, m) /\ Sooner(k, m) /\ Passed(k, m, 1)
        /\ \E W \in SUBSET Blocked(k) : AreWoken(k, m, W)
    BY <2>1, <2>2, IncrementTickMoves
  <2> HIDE DEF m
  <2>4. /\ ReadyTasks(k) \subseteq ReadyTasks(m) /\ m.terminating = k.terminating
        /\ m.pending = <<>>
    <3>1. PICK W : AreWoken(k, m, W)
      BY <2>3
    <3>2. ToSet(m.pending) = {}
      BY <2>1, <3>1 DEF AreWoken
    <3>3. m.pending = <<>>
      BY <2>3, <3>2, NothingInList DEF Kept, Tidy
    <3>4. QED
      BY <3>1, <3>3 DEF AreWoken
  <2>5. /\ m.numberOfTasks = k.numberOfTasks /\ m.current = k.current
        /\ m.suspendDepth = k.suspendDepth /\ m.missedTicks = 0
        /\ m.tickCount = Ticks(k.tickCount + 1)
    BY <2>1, <2>3 DEF Untouched, Sooner
  <2>6. Orderly(m)
    BY <2>3, <2>4, <2>5 DEF Orderly, Kept
  <2>7. SameTurn(k, m, 1)
    <3>1. SUFFICES ASSUME k.tickCount + 1 <= MaxDelay
                   PROVE  m.numOfOverflows = k.numOfOverflows
      BY DEF SameTurn
    <3>2. m.tickCount = k.tickCount + 1
      BY <1>1, <2>5, <3>1, NextTick
    <3>3. QED
      BY <1>1, <2>3, <3>2 DEF Sooner
  <2>8. \A t \in AnyTask : Left(k, t) \in Nat
    BY <1>1, LeftIs
  <2>9. Nearer(k, m, 1)
    BY <2>3, <2>8 DEF Nearer, Passed
  <2>10. Elapses(k, m, 1)
    BY <2>4, <2>5, <2>6, <2>7, <2>9 DEF Elapses, Onto
  <2>11. Eases(m, l)
    BY <2>6, SwitchEases
  <2>12. Elapses(k, l, 1) /\ l.missedTicks = 0
    BY <2>5, <2>10, <2>11, ElapsesThenEases DEF Eases, SameTime
  <2>13. QED
    BY <1>3, <2>12 DEF m
<1>4. QED
  BY <1>2, <1>3

\* The ticks that came meanwhile are counted when the scheduler resumes.
LEMMA ResumeAllElapses ==
  ASSUME NEW k, Orderly(k), k.suspendDepth = 1
  PROVE  LET l == ResumeAll(k)
         IN  /\ Elapses(k, l, k.missedTicks) /\ l.missedTicks = 0
             /\ AlreadyYields(k) => l.current \in ReadyTasks(l)
<1> DEFINE l == [k EXCEPT !.suspendDepth = @ - 1]
           r == MakeReady(l, l.pending)
           m == MissedTicks(r)
           n == [m EXCEPT !.missedYield = FALSE]
           q == SwitchContext(n)
<1>1. /\ Tidy(k) /\ Ahead(k) /\ k = [x \in Fields |-> k[x]] /\ k.missedTicks \in Nat
      /\ k.terminating = <<>> /\ ToSet(k.terminating) = {} /\ Idle \in ReadyTasks(k)
      /\ k.numberOfTasks \in Nat \ {0}
      /\ k.tickCount \in Tick
  BY EmptyOnce DEF Orderly, Tidy, IsKernel, Ahead
<1>2. /\ SameLists(k, l) /\ SameTime(k, l) /\ l.nextUnblock = k.nextUnblock
      /\ l.numberOfTasks = k.numberOfTasks /\ l.suspendDepth = 0
      /\ l.current = k.current
  BY <1>1 DEF SameLists, Fields, SameTime
<1>3. ResumeAll(k) = IF AlreadyYields(k) THEN q ELSE m
  <2>1. ~ (l.suspendDepth > 0 \/ l.numberOfTasks = 0)
    BY <1>1, <1>2
  <2> HIDE DEF l
  <2>2. ResumeAll(k) = IF l.suspendDepth > 0 \/ l.numberOfTasks = 0 THEN l
                       ELSE IF AlreadyYields(k) THEN q ELSE m
    BY DEF ResumeAll, l
  <2>3. QED
    BY <2>1, <2>2
<1> HIDE DEF l
<1>4. /\ Tidy(l) /\ ReadyTasks(l) = ReadyTasks(k) /\ Ahead(l)
      /\ \A t \in AnyTask : Left(l, t) = Left(k, t)
  BY <1>1, <1>2, SameListsTidy, NoneWakes DEF SameTime
<1>5. MadeReady(l, r, ToSet(l.pending))
  <2>1. l.pending \in Seq(AnyTask) /\ ToSet(l.pending) \cap ToSet(l.terminating) = {}
    BY <1>1, <1>2, <1>4 DEF Tidy, Once, SameLists
  <2>2. QED
    BY <1>4, <2>1, MakeReadyMoves
<1> HIDE DEF r
<1>6. /\ Tidy(r) /\ ReadyTasks(k) \subseteq ReadyTasks(r) /\ ToSet(r.pending) = {}
      /\ ToSet(r.delayed) \subseteq ToSet(l.delayed)
      /\ ToSet(r.overflow) \subseteq ToSet(l.overflow)
      /\ r.terminating = k.terminating /\ r.numberOfTasks = k.numberOfTasks
      /\ \A u \in Blocked(r) : u \in AnyTask /\ r.wake[u] = l.wake[u]
      /\ r.nextUnblock = l.nextUnblock /\ r.current = k.current /\ r.suspendDepth = 0
      /\ SameTime(k, r) /\ SameTime(l, r)
  <2>1. \A u \in Blocked(r) : u \in AnyTask
    BY <1>5, NothingInList DEF MadeReady, Tidy, Blocked
  <2>2. QED
    BY <1>2, <1>4, <1>5, <2>1 DEF MadeReady, Rest, Untouched, SameTime, SameLists, Blocked
<1>7. Ahead(r) /\ \A t \in AnyTask : Left(r, t) \in {0, Left(k, t)}
  <2>1. Ahead(r)
    BY <1>4, <1>6 DEF Ahead, Blocked, SameTime
  <2>2. \A t \in AnyTask : Left(r, t) \in {0, Left(l, t)}
    <3>1. /\ ToSet(r.delayed) = ToSet(l.delayed) \ ToSet(l.pending)
          /\ ToSet(r.overflow) = ToSet(l.overflow) \ ToSet(l.pending)
      BY <1>5 DEF MadeReady
    <3>2. QED
      BY <1>6, <3>1 DEF Left, Blocked, SameTime
  <2>3. QED
    BY <1>4, <2>1, <2>2
<1>8. r.pending = <<>>
  BY <1>6, NothingInList DEF Tidy
<1>9. Kept(r) /\ ~ (r.suspendDepth > 0)
  BY <1>6, <1>7 DEF Kept
<1>10. /\ Kept(m) /\ Untouched(r, m) /\ m.missedTicks = 0 /\ Passed(r, m, r.missedTicks)
       /\ m.tickCount = Clock(r)
       /\ \E W \in SUBSET Blocked(r) : AreWoken(r, m, W)
  BY <1>9, MissedTicksMoves
<1>11. SameTurn(r, m, r.missedTicks)
  BY <1>6, <1>7, <1>9, MissedTicksPreserves DEF Tidy, Ahead
<1> HIDE DEF m
<1>12. /\ ReadyTasks(r) \subseteq ReadyTasks(m) /\ m.terminating = <<>> /\ m.pending = <<>>
  <2>1. PICK W : AreWoken(r, m, W)
    BY <1>10
  <2>2. ToSet(m.pending) = {}
    BY <1>6, <2>1 DEF AreWoken
  <2>3. m.pending = <<>>
    BY <1>10, <2>2, NothingInList DEF Kept, Tidy
  <2>4. QED
    BY <1>1, <1>6, <2>1, <2>3 DEF AreWoken
<1>13. Orderly(m)
  BY <1>1, <1>6, <1>10, <1>12 DEF Orderly, Kept, Untouched
<1>14. Elapses(k, m, k.missedTicks)
  <2>1. r.missedTicks = k.missedTicks /\ r.tickCount = k.tickCount
        /\ r.numOfOverflows = k.numOfOverflows
    BY <1>6 DEF SameTime
  <2>2. m.tickCount = Ticks(k.tickCount + k.missedTicks)
    BY <1>10, <2>1 DEF Clock
  <2>3. SameTurn(k, m, k.missedTicks)
    BY <1>11, <2>1 DEF SameTurn
  <2>4. Nearer(k, m, k.missedTicks)
    <3>1. \A t \in AnyTask : Left(r, t) \in Nat /\ Left(k, t) \in Nat
      BY <1>1, <1>6, <1>7, LeftIs
    <3>2. SUFFICES ASSUME NEW t \in AnyTask
                   PROVE  Left(m, t) = 0 \/ Left(m, t) = Left(k, t) - k.missedTicks
      BY DEF Nearer
    <3>3. PICK a \in Nat, b \in Nat, c \in Nat :
            a = Left(k, t) /\ b = Left(r, t) /\ c = k.missedTicks
      BY <1>1, <3>1
    <3>4. b = 0 \/ b = a
      BY <1>7, <3>3
    <3>5. Left(m, t) = IF b > c THEN b - c ELSE 0
      BY <1>10, <2>1, <3>3 DEF Passed
    <3>6. QED
      BY <3>3, <3>4, <3>5
  <2>5. m.current = k.current
    BY <1>6, <1>10 DEF Untouched
  <2>6. QED
    BY <1>6, <1>12, <1>13, <2>2, <2>3, <2>4, <2>5 DEF Elapses, Onto
<1>15. CASE ~AlreadyYields(k)
  BY <1>3, <1>10, <1>14, <1>15
<1>16. CASE AlreadyYields(k)
  <2>1. m.suspendDepth = 0 /\ m = [x \in Fields |-> m[x]] /\ m.missedTicks \in Nat
    BY <1>6, <1>10, <1>13 DEF Untouched, Orderly, Tidy, IsKernel
  <2>2. /\ SameLists(m, n) /\ SameTime(m, n) /\ n.nextUnblock = m.nextUnblock
        /\ n.numberOfTasks = m.numberOfTasks /\ n.suspendDepth = m.suspendDepth
        /\ n.current = m.current
    BY <2>1 DEF Fields, SameLists, SameTime
  <2> HIDE DEF n
  <2>3. Eases(m, n) /\ ~ (n.suspendDepth > 0)
    BY <1>13, <2>1, <2>2, SameListsEase
  <2>4. Orderly(n)
    BY <2>3 DEF Eases
  <2>5. Eases(n, q) /\ q.current \in ReadyTasks(q)
    BY <2>3, <2>4, SwitchEases
  <2>6. Eases(m, q)
    BY <1>13, <2>3, <2>5, EasesTwice
  <2>7. Elapses(k, q, k.missedTicks) /\ q.missedTicks = 0
    <3>1. Orderly(k) /\ k.missedTicks \in Nat
      BY <1>1
    <3>2. QED
      BY <1>10, <1>14, <2>6, <3>1, ElapsesThenEases DEF Eases, SameTime
  <2>8. QED
    BY <1>3, <1>16, <2>5, <2>7 DEF n
<1>17. QED
  BY <1>15, <1>16

\* As the scheduler starts everybody is ready.
LEMMA StartsOrderly ==
  ASSUME NEW k, Good(k), k.running, k.suspendDepth = 0, All(k) \subseteq ReadyTasks(k)
  PROVE  Orderly(k) /\ Blocked(k) = {} /\ k.missedTicks = 0
<1>1. /\ Tidy(k) /\ Ahead(k) /\ Started(k) /\ k.numberOfTasks = Cardinality(All(k))
      /\ k.pending = <<>> /\ k.missedTicks = 0
  BY DEF Good, Sound, Kept, CountsAgree
<1>2. Idle \in All(k) /\ Idle \in ReadyTasks(k)
  BY <1>1 DEF Started, All
<1>3. k.numberOfTasks \in Nat \ {0}
  <2>1. IsFiniteSet(All(k))
    BY <1>1, AllIsFinite
  <2>2. Cardinality(All(k)) \in Nat /\ Cardinality(All(k)) # 0
    BY <1>2, <2>1, FS_CardinalityType, FS_EmptySet
  <2>3. QED
    BY <1>1, <2>2
<1>4. \A t \in ReadyTasks(k) : t \notin Blocked(k) /\ t \notin ToSet(k.terminating)
  BY <1>1 DEF Tidy, Apart, ReadyTasks, Asleep
<1>5. ToSet(k.terminating) = {} /\ Blocked(k) = {}
  BY <1>4 DEF All, Asleep
<1>6. k.terminating = <<>>
  BY <1>1, <1>5, NothingInList DEF Tidy
<1>7. QED
  BY <1>1, <1>2, <1>3, <1>5, <1>6 DEF Orderly

-----------------------------------------------------------------------------
(* The most urgent goes first: ready lists and event lists by priority *)

\* A ready list holds tasks of its priority, none of them above the top one, and the
\* event items follow the priorities.
Level(k) ==
  /\ k.urgency = k.priority
  /\ \A p \in Priority : \A t \in ToSet(k.ready[p]) : k.priority[t] = p /\ p <= k.topReady
Ranked(k) == Serving(k) /\ Level(k)

\* Nobody who is ready is more urgent than the running task.
Leads(k) ==
  /\ Listed(k, k.current)
  /\ \A t : Listed(k, t) => k.priority[t] <= k.priority[k.current]

\* From k to l nobody begins to wait or ceases to be ready, and whoever waits on is in
\* the order he was in.
Calm(k, l) ==
  /\ Frees(k, l) /\ Level(l)
  /\ \A w : \A e \in Event : InOrder(k.event[e], w) => InOrder(l.event[e], w)
Quiet(k, l) == Calm(k, l) /\ l.current = k.current

LEMMA CalmTwice ==
  ASSUME NEW k, NEW l, NEW m, Calm(k, l), Calm(l, m)
  PROVE  Calm(k, m)
<1>1. Frees(k, m)
  BY FreesTwice DEF Calm
<1>2. QED
  BY <1>1 DEF Calm

LEMMA QuietTwice ==
  ASSUME NEW k, NEW l, NEW m, Quiet(k, l), Quiet(l, m)
  PROVE  Quiet(k, m)
BY CalmTwice DEF Quiet

LEMMA CalmRanks == \A k, l : Calm(k, l) => Ranked(l)
BY DEF Calm, Frees, Ranked

LEMMA QuietNobody == \A k : Ranked(k) => Quiet(k, k)
BY FreesNobody DEF Quiet, Calm, Ranked

LEMMA OnlyTimesQuiet ==
  ASSUME NEW k, NEW l, Ranked(k), OnlyTimes(k, l), l.urgency = k.urgency,
         l.delayed \in Seq(AnyTask), l.overflow \in Seq(AnyTask)
  PROVE  Quiet(k, l)
<1>1. Frees(k, l)
  BY OnlyTimesFrees DEF Ranked
<1>2. QED
  BY <1>1 DEF Ranked, Level, OnlyTimes, Quiet, Calm

\* A task leaves the ready list it may not belong into.
LEMMA RemoveGenericLevels ==
  ASSUME NEW k, Parted(k), NEW t, k.urgency = k.priority,
         \A p \in Priority : \A u \in ToSet(k.ready[p]) \ {t} :
           k.priority[u] = p /\ p <= k.topReady
  PROVE  Level(RemoveGeneric(k, t)) /\ RemoveGeneric(k, t).priority = k.priority
<1> DEFINE l == RemoveGeneric(k, t)
<1>1. \A p \in Priority : ToSet(l.ready[p]) = ToSet(k.ready[p]) \ {t}
  BY RemoveGenericParts
<1>2. l.urgency = k.urgency /\ l.priority = k.priority /\ l.topReady = k.topReady
  BY DEF Parted, IsKernel, RemoveGeneric, Fields
<1> HIDE DEF l
<1>3. Level(l)
  BY <1>1, <1>2 DEF Level
<1>4. QED
  BY <1>2, <1>3 DEF l

\* It enters that of its priority.
LEMMA AddTaskLevels ==
  ASSUME NEW k, Parted(k), Level(k), NEW t \in AnyTask, ~Listed(k, t),
         \A e \in Event : t \notin ToSet(k.event[e])
  PROVE  Level(AddTaskToReadyQueue(k, t)) /\ AddTaskToReadyQueue(k, t).priority = k.priority
<1> DEFINE l == AddTaskToReadyQueue(k, t)
           p == k.priority[t]
<1>1. /\ Parted(l)
      /\ ToSet(l.ready[p]) = ToSet(k.ready[p]) \cup {t}
      /\ \A q \in Priority \ {p} : l.ready[q] = k.ready[q]
  BY AddTaskParts
<1>2. /\ l.urgency = k.urgency /\ l.priority = k.priority
      /\ l.topReady = IF p > k.topReady THEN p ELSE k.topReady
  BY DEF Parted, IsKernel, AddTaskToReadyQueue, Fields
<1> HIDE DEF l
<1>3. p \in Int /\ k.topReady \in Int /\ p <= l.topReady /\ k.topReady <= l.topReady
      /\ l.topReady \in Int
  BY <1>2, KernelAssumption DEF Parted, Priority
<1> HIDE DEF p
<1>4. ASSUME NEW q \in Priority, NEW u \in ToSet(l.ready[q])
      PROVE  l.priority[u] = q /\ q <= l.topReady
  <2>1. CASE u \in ToSet(k.ready[q])
    <3>1. k.priority[u] = q /\ q <= k.topReady /\ q \in Int
      BY <2>1, KernelAssumption DEF Level, Priority
    <3>2. QED
      BY <1>2, <1>3, <3>1
  <2>2. CASE u \notin ToSet(k.ready[q])
    <3>1. u = t /\ q = p
      BY <1>1, <1>4, <2>2
    <3>2. QED
      BY <1>2, <1>3, <3>1 DEF p
  <2>3. QED
    BY <2>1, <2>2
<1>5. Level(l)
  BY <1>2, <1>4 DEF Level
<1>6. QED
  BY <1>2, <1>5 DEF l

LEMMA ReadyCalms ==
  ASSUME NEW k, Ranked(k), NEW t \in AnyTask
  PROVE  Quiet(k, Ready(k, t))
<1> DEFINE l == RemoveEvent(k, t)
           m == RemoveGeneric(l, t)
           n == AddTaskToReadyQueue(m, t)
<1>1. /\ Parted(l) /\ l.ready = k.ready
      /\ \A e \in Event : ToSet(l.event[e]) = ToSet(k.event[e]) \ {t}
  BY RemoveEventParts DEF Ranked, Serving
<1>2. /\ l.urgency = k.urgency /\ l.priority = k.priority /\ l.topReady = k.topReady
      /\ l.event = [e \in Event |-> ListRemove(k.event[e], t)]
  BY DEF Ranked, Serving, Parted, IsKernel, RemoveEvent, Fields
<1> HIDE DEF l
<1>3. Level(l)
  BY <1>1, <1>2 DEF Ranked, Level
<1>4. Level(m)
  BY <1>1, <1>3, RemoveGenericLevels DEF Level
<1>5. /\ Parted(m) /\ m.event = l.event
      /\ \A p \in Priority : ToSet(m.ready[p]) = ToSet(l.ready[p]) \ {t}
  BY <1>1, RemoveGenericParts
<1> HIDE DEF m
<1>6. ~Listed(m, t) /\ \A e \in Event : t \notin ToSet(m.event[e])
  BY <1>1, <1>5 DEF Listed
<1>7. Level(n) /\ n.event = m.event
  BY <1>4, <1>5, <1>6, AddTaskLevels, AddTaskParts
<1>8. Ready(k, t) = n
  BY DEF Ready, l, m
<1> HIDE DEF n
<1>9. Frees(k, n) /\ n.current = k.current
  BY <1>8, ReadyFrees DEF Ranked
<1>10. ASSUME NEW w, NEW e \in Event, InOrder(k.event[e], w)
       PROVE  InOrder(n.event[e], w)
  <2>1. PICK s : s = k.event[e]
    OBVIOUS
  <2>2. Once(s) /\ n.event[e] = ListRemove(s, t)
    BY <1>2, <1>5, <1>7, <2>1 DEF Ranked, Serving, Parted
  <2>3. InOrder(ListRemove(s, t), w)
    BY <1>10, <2>1, <2>2, RemoveFromList
  <2>4. QED
    BY <2>2, <2>3
<1>11. QED
  BY <1>7, <1>8, <1>9, <1>10 DEF Quiet, Calm

LEMMA MakeReadyCalms ==
  ASSUME NEW k, Ranked(k), NEW s \in Seq(AnyTask)
  PROVE  Quiet(k, MakeReady(k, s))
<1>1. PICK N \in Nat : N = Len(s) /\ DOMAIN s = 1 .. N
  BY ToSetIs
<1>2. PICK after : /\ after[0] = k /\ MakeReady(k, s) = after[N]
                   /\ \A n \in 0 .. N - 1 : after[n + 1] = Ready(after[n], s[n + 1])
  <2>1. IsList(s)
    BY DEF IsList
  <2>2. QED
    BY <1>1, <2>1, MakeReadyRuns
<1> DEFINE S == {n \in Nat : n <= N => Quiet(k, after[n])}
<1>3. 0 \in S
  BY <1>2, QuietNobody
<1>4. ASSUME NEW n \in S PROVE n + 1 \in S
  <2>1. SUFFICES ASSUME n + 1 <= N PROVE Quiet(k, after[n + 1])
    OBVIOUS
  <2>2. PICK l, m : l = after[n] /\ m = after[n + 1]
    OBVIOUS
  <2>3. PICK t \in AnyTask : t = s[n + 1]
    BY <1>1, <2>1
  <2>4. Quiet(k, l) /\ m = Ready(l, t)
    BY <1>2, <2>1, <2>2, <2>3
  <2>5. Quiet(l, m)
    BY <2>4, ReadyCalms, CalmRanks DEF Quiet
  <2>6. QED
    BY <2>2, <2>4, <2>5, QuietTwice
<1>5. S = Nat
  <2> HIDE DEF S
  <2>1. S \in SUBSET Nat
    BY DEF S
  <2>2. QED
    BY <1>3, <1>4, <2>1, SetInduction
<1>6. Quiet(k, after[N])
  BY <1>5
<1>7. QED
  BY <1>2, <1>6

LEMMA SwitchContextCalms ==
  ASSUME NEW k, Ranked(k)
  PROVE  LET l == SwitchContext(k)
         IN  /\ Calm(k, l)
             /\ IF k.suspendDepth > 0 THEN l.current = k.current ELSE Leads(l)
<1> DEFINE l == SwitchContext(k)
<1>1. Frees(k, l) /\ l.event = k.event
  BY SwitchContextFrees DEF Ranked
<1>2. CASE k.suspendDepth > 0
  <2>1. /\ l.topReady = k.topReady /\ l.priority = k.priority /\ l.urgency = k.urgency
        /\ l.ready = k.ready /\ l.current = k.current
    BY <1>2 DEF Ranked, Serving, Parted, IsKernel, SwitchContext, Fields
  <2> HIDE DEF l
  <2>2. Calm(k, l)
    BY <1>1, <2>1 DEF Calm, Ranked, Level
  <2>3. QED
    BY <1>2, <2>1, <2>2 DEF l
<1>3. CASE ~(k.suspendDepth > 0)
  <2> DEFINE S == {p \in 0 .. k.topReady : k.ready[p] # <<>>}
             top == Max(S)
  <2>1. k.topReady \in Nat /\ \A p \in 0 .. k.topReady : p \in Priority
    BY KernelAssumption DEF Ranked, Serving, Parted, Priority
  <2>2. top \in S /\ \A p \in S : p <= top
    <3>1. 0 \in S
      BY <2>1, EmptyOnce DEF Ranked, Serving
    <3>2. S \in SUBSET (0 .. k.topReady)
      OBVIOUS
    <3> HIDE DEF S
    <3>3. QED
      BY <2>1, <3>1, <3>2, MaxIsGreatest
  <2>3. /\ l.topReady = top /\ l.current = Head(k.ready[top])
        /\ l.ready = [k.ready EXCEPT ![top] = Append(Tail(@), Head(@))]
        /\ l.priority = k.priority /\ l.urgency = k.urgency
    BY <1>3 DEF Ranked, Serving, Parted, IsKernel, SwitchContext, Fields
  <2> HIDE DEF l
  <2>4. /\ top \in Priority /\ k.ready[top] # <<>> /\ Once(k.ready[top])
        /\ \A p \in 0 .. k.topReady : k.ready[p] # <<>> => p <= top
    BY <2>1, <2>2 DEF Ranked, Serving, Parted
  <2> HIDE DEF top
  <2>5. /\ l.ready[top] = Append(Tail(k.ready[top]), Head(k.ready[top]))
        /\ \A p \in Priority \ {top} : l.ready[p] = k.ready[p]
    BY <2>3, <2>4 DEF Ranked, Serving, Parted
  <2>6. \A p \in Priority : ToSet(l.ready[p]) = ToSet(k.ready[p])
    <3>1. PICK s : s = k.ready[top]
      OBVIOUS
    <3>2. ToSet(Append(Tail(s), Head(s))) = ToSet(s)
      BY <2>4, <3>1, RotateList
    <3>3. QED
      BY <2>5, <3>1, <3>2
  <2>7. ASSUME NEW p \in Priority, NEW t \in ToSet(l.ready[p])
        PROVE  l.priority[t] = p /\ p <= top
    <3>1. t \in ToSet(k.ready[p])
      BY <2>6
    <3>2. k.priority[t] = p /\ p <= k.topReady /\ p \in Nat
      BY <3>1 DEF Ranked, Level, Priority
    <3>3. k.ready[p] # <<>>
      BY <3>1, EmptyOnce
    <3>4. QED
      BY <2>1, <2>3, <2>4, <3>2, <3>3
  <2>8. Level(l)
    BY <2>3, <2>7 DEF Ranked, Level
  <2>9. l.current \in ToSet(l.ready[top])
    <3>1. Head(k.ready[top]) \in ToSet(k.ready[top])
      BY <2>4, TailOfList
    <3>2. QED
      BY <2>3, <2>4, <2>6, <3>1
  <2>10. Leads(l)
    <3>1. l.priority[l.current] = top /\ Listed(l, l.current)
      BY <2>4, <2>7, <2>9 DEF Listed
    <3>2. QED
      BY <2>7, <3>1 DEF Leads, Listed
  <2>11. Calm(k, l)
    BY <1>1, <2>8 DEF Calm, l
  <2>12. QED
    BY <1>3, <2>10, <2>11 DEF l
<1>4. QED
  BY <1>2, <1>3

LEMMA CheckDelayedCalms ==
  ASSUME NEW k, Ranked(k)
  PROVE  Quiet(k, CheckDelayedTasks(k))
<1>1. CASE k.tickCount < k.nextUnblock
  BY <1>1, QuietNobody DEF CheckDelayedTasks
<1>2. CASE ~ (k.tickCount < k.nextUnblock)
  <2> DEFINE due == {i \in DOMAIN k.delayed :
                       \A j \in 1 .. i : k.wake[k.delayed[j]] <= k.tickCount}
             s == SubSeq(k.delayed, 1, Cardinality(due))
             l == MakeReady(k, s)
             m == CheckDelayedTasks(k)
  <2>1. Cardinality(due) \in 0 .. Len(k.delayed) /\ k.delayed \in Seq(AnyTask)
    <3>1. /\ due \in SUBSET (1 .. Len(k.delayed))
          /\ \A i \in due : \A j \in 1 .. i : j \in due
          /\ Len(k.delayed) \in Nat /\ k.delayed \in Seq(AnyTask)
      <4>1. k.delayed \in Seq(AnyTask)
        BY DEF Ranked, Serving, Parted
      <4>2. DOMAIN k.delayed = 1 .. Len(k.delayed) /\ Len(k.delayed) \in Nat
        BY <4>1, ToSetIs
      <4>3. ASSUME NEW i \in due, NEW j \in 1 .. i PROVE j \in due
        <5>1. i \in 1 .. Len(k.delayed) /\ j \in 1 .. Len(k.delayed)
          BY <4>2
        <5>2. \A h \in 1 .. j : h \in 1 .. i
          BY <5>1
        <5>3. QED
          BY <4>2, <5>1, <5>2
      <4>4. QED
        BY <4>1, <4>2, <4>3
    <3> HIDE DEF due
    <3>2. QED
      BY <3>1, PrefixIs
  <2>2. s \in Seq(AnyTask)
    <3>1. Cardinality(due) \in Int /\ Cardinality(due) <= Len(k.delayed) /\ 1 \in Nat \ {0}
      BY <2>1, ToSetIs
    <3> HIDE DEF due
    <3>2. QED
      BY <2>1, <3>1, SubSeqTyped
  <2>3. m = [l EXCEPT !.nextUnblock =
                        IF l.delayed = <<>> THEN MaxDelay ELSE l.wake[Head(l.delayed)]]
    BY <1>2 DEF CheckDelayedTasks
  <2> HIDE DEF s
  <2>4. Quiet(k, l)
    BY <2>2, MakeReadyCalms
  <2>5. Ranked(l) /\ IsKernel(l)
    BY <2>4, CalmRanks DEF Quiet, Ranked, Serving, Parted
  <2> HIDE DEF l
  <2>6. /\ m.topReady = l.topReady /\ m.priority = l.priority /\ m.base = l.base
        /\ m.ready = l.ready /\ m.event = l.event /\ m.pending = l.pending
        /\ m.current = l.current /\ m.delayed = l.delayed /\ m.overflow = l.overflow
        /\ m.urgency = l.urgency
    BY <2>3, <2>5 DEF IsKernel, Fields
  <2>7. IsKernel(m)
    BY CheckDelayedPreserves DEF Ranked, Serving, Parted, Preserves
  <2> HIDE DEF m
  <2>8. OnlyTimes(l, m) /\ m.delayed \in Seq(AnyTask) /\ m.overflow \in Seq(AnyTask)
    BY <2>5, <2>6, <2>7 DEF OnlyTimes, Ranked, Serving, Parted
  <2>9. Quiet(l, m)
    BY <2>5, <2>6, <2>8, OnlyTimesQuiet
  <2>10. QED
    BY <2>4, <2>9, QuietTwice DEF m
<1>3. QED
  BY <1>1, <1>2

LEMMA IncrementTickCalms ==
  ASSUME NEW k, Ranked(k)
  PROVE  Quiet(k, IncrementTick(k))
<1>1. CASE k.suspendDepth > 0
  <2> DEFINE l == IncrementTick(k)
  <2>1. /\ l.topReady = k.topReady /\ l.priority = k.priority /\ l.base = k.base
        /\ l.ready = k.ready /\ l.event = k.event /\ l.pending = k.pending
        /\ l.current = k.current /\ l.delayed = k.delayed /\ l.overflow = k.overflow
        /\ l.urgency = k.urgency
    BY <1>1 DEF Ranked, Serving, Parted, IsKernel, IncrementTick, Fields
  <2>2. IsKernel(l)
    BY IncrementTickPreserves DEF Ranked, Serving, Parted, Preserves
  <2> HIDE DEF l
  <2>3. OnlyTimes(k, l) /\ l.delayed \in Seq(AnyTask) /\ l.overflow \in Seq(AnyTask)
    BY <2>1, <2>2 DEF OnlyTimes, Ranked, Serving, Parted
  <2>4. QED
    BY <2>1, <2>3, OnlyTimesQuiet DEF l
<1>2. CASE ~ (k.suspendDepth > 0)
  <2> DEFINE l == [k EXCEPT !.tickCount = Ticks(@ + 1)]
             m == [l EXCEPT !.delayed = l.overflow, !.overflow = l.delayed,
                            !.numOfOverflows = (@ + 1) % Wraps,
                            !.nextUnblock = IF l.overflow = <<>> THEN MaxDelay
                                            ELSE l.wake[Head(l.overflow)]]
             n == IF l.tickCount = 0 THEN m ELSE l
  <2>1. IncrementTick(k) = CheckDelayedTasks(n)
    BY <1>2 DEF IncrementTick
  <2>2. /\ l = [x \in Fields |-> l[x]] /\ l.missedTicks = k.missedTicks
        /\ l.topReady = k.topReady /\ l.priority = k.priority /\ l.base = k.base
        /\ l.ready = k.ready /\ l.event = k.event /\ l.pending = k.pending
        /\ l.current = k.current /\ l.delayed = k.delayed /\ l.overflow = k.overflow
        /\ l.urgency = k.urgency
    BY DEF Ranked, Serving, Parted, IsKernel, Fields
  <2> HIDE DEF l
  <2>3. IsKernel(l)
    BY <2>2 DEF Ranked, Serving, Parted, IsKernel
  <2>4. OnlyTimes(k, l) /\ l.delayed \in Seq(AnyTask) /\ l.overflow \in Seq(AnyTask)
    BY <2>2, <2>3 DEF OnlyTimes, Ranked, Serving, Parted
  <2>5. Quiet(k, l)
    BY <2>2, <2>4, OnlyTimesQuiet
  <2>6. Ranked(l)
    BY <2>5, CalmRanks DEF Quiet
  <2>7. /\ m = [x \in Fields |-> m[x]] /\ m.missedTicks = l.missedTicks
        /\ m.topReady = l.topReady /\ m.priority = l.priority /\ m.base = l.base
        /\ m.ready = l.ready /\ m.event = l.event /\ m.pending = l.pending
        /\ m.current = l.current /\ m.delayed = l.overflow /\ m.overflow = l.delayed
        /\ m.urgency = l.urgency
    BY <2>2, <2>3 DEF IsKernel, Fields
  <2> HIDE DEF m
  <2>8. IsKernel(m)
    BY <2>3, <2>7 DEF IsKernel
  <2>9. OnlyTimes(l, m) /\ m.delayed \in Seq(AnyTask) /\ m.overflow \in Seq(AnyTask)
    BY <2>4, <2>7, <2>8 DEF OnlyTimes
  <2>10. Quiet(l, m)
    BY <2>6, <2>7, <2>9, OnlyTimesQuiet
  <2>11. Quiet(k, n)
    BY <2>5, <2>10, QuietTwice
  <2> HIDE DEF n
  <2>12. Quiet(n, CheckDelayedTasks(n))
    BY <2>11, CheckDelayedCalms, CalmRanks DEF Quiet
  <2>13. QED
    BY <2>1, <2>11, <2>12, QuietTwice
<1>3. QED
  BY <1>1, <1>2

LEMMA MissedTicksCalm ==
  ASSUME NEW k, Ranked(k)
  PROVE  Quiet(k, MissedTicks(k))
<1>1. PICK N \in Nat : N = k.missedTicks
  BY DEF Ranked, Serving, Parted, IsKernel
<1>2. PICK after : /\ after[0] = k /\ MissedTicks(k) = [after[N] EXCEPT !.missedTicks = 0]
                   /\ \A n \in 0 .. N - 1 : after[n + 1] = IncrementTick(after[n])
  BY <1>1, MissedTicksRuns DEF Ranked, Serving, Parted
<1> DEFINE S == {n \in Nat : n <= N => Quiet(k, after[n])}
<1>3. 0 \in S
  BY <1>2, QuietNobody
<1>4. ASSUME NEW n \in S PROVE n + 1 \in S
  <2>1. SUFFICES ASSUME n + 1 <= N PROVE Quiet(k, after[n + 1])
    OBVIOUS
  <2>2. PICK l, m : l = after[n] /\ m = after[n + 1]
    OBVIOUS
  <2>3. Quiet(k, l) /\ m = IncrementTick(l)
    BY <1>2, <2>1, <2>2
  <2>4. Quiet(l, m)
    BY <2>3, IncrementTickCalms, CalmRanks DEF Quiet
  <2>5. QED
    BY <2>2, <2>3, <2>4, QuietTwice
<1>5. S = Nat
  <2> HIDE DEF S
  <2>1. S \in SUBSET Nat
    BY DEF S
  <2>2. QED
    BY <1>3, <1>4, <2>1, SetInduction
<1> DEFINE l == after[N]
           m == MissedTicks(k)
<1>6. Quiet(k, l)
  BY <1>5
<1>7. m = [l EXCEPT !.missedTicks = 0]
  BY <1>2
<1> HIDE DEF l
<1>8. Ranked(l)
  BY <1>6, CalmRanks DEF Quiet
<1>9. /\ m.topReady = l.topReady /\ m.priority = l.priority /\ m.base = l.base
      /\ m.ready = l.ready /\ m.event = l.event /\ m.pending = l.pending
      /\ m.current = l.current /\ m.delayed = l.delayed /\ m.overflow = l.overflow
      /\ m.urgency = l.urgency
  BY <1>7, <1>8 DEF Ranked, Serving, Parted, IsKernel, Fields
<1>10. IsKernel(m)
  BY MissedTicksPreserves DEF Ranked, Serving, Parted, Preserves
<1> HIDE DEF m
<1>11. OnlyTimes(l, m) /\ m.delayed \in Seq(AnyTask) /\ m.overflow \in Seq(AnyTask)
  BY <1>8, <1>9, <1>10 DEF OnlyTimes, Ranked, Serving, Parted
<1>12. Quiet(l, m)
  BY <1>8, <1>9, <1>11, OnlyTimesQuiet
<1>13. QED
  BY <1>6, <1>12, QuietTwice DEF m

LEMMA SuspendAllCalms ==
  ASSUME NEW k, Ranked(k)
  PROVE  Quiet(k, SuspendAll(k))
<1> DEFINE l == SuspendAll(k)
<1>1. /\ l.topReady = k.topReady /\ l.priority = k.priority /\ l.base = k.base
      /\ l.ready = k.ready /\ l.event = k.event /\ l.pending = k.pending
      /\ l.current = k.current /\ l.delayed = k.delayed /\ l.overflow = k.overflow
      /\ l.urgency = k.urgency
  BY DEF Ranked, Serving, Parted, IsKernel, SuspendAll, Fields
<1>2. IsKernel(l)
  BY SuspendAllPreserves DEF Ranked, Serving, Parted
<1> HIDE DEF l
<1>3. OnlyTimes(k, l) /\ l.delayed \in Seq(AnyTask) /\ l.overflow \in Seq(AnyTask)
  BY <1>1, <1>2 DEF OnlyTimes, Ranked, Serving, Parted
<1>4. QED
  BY <1>1, <1>3, OnlyTimesQuiet DEF l

LEMMA ResumeAllCalms ==
  ASSUME NEW k, Ranked(k)
  PROVE  LET l == ResumeAll(k)
         IN  /\ Calm(k, l)
             /\ IF AlreadyYields(k) THEN Leads(l) ELSE l.current = k.current
<1> DEFINE l == [k EXCEPT !.suspendDepth = @ - 1]
           r == MakeReady(l, l.pending)
           m == MissedTicks(r)
           n == [m EXCEPT !.missedYield = FALSE]
<1>1. /\ l = [x \in Fields |-> l[x]] /\ l.missedTicks = k.missedTicks
      /\ l.suspendDepth = k.suspendDepth - 1 /\ l.numberOfTasks = k.numberOfTasks
      /\ l.topReady = k.topReady /\ l.priority = k.priority /\ l.base = k.base
      /\ l.ready = k.ready /\ l.event = k.event /\ l.pending = k.pending
      /\ l.current = k.current /\ l.delayed = k.delayed /\ l.overflow = k.overflow
      /\ l.urgency = k.urgency
  BY DEF Ranked, Serving, Parted, IsKernel, Fields
<1>2. ResumeAll(k) = IF l.suspendDepth > 0 \/ l.numberOfTasks = 0 THEN l
                     ELSE IF AlreadyYields(k) THEN SwitchContext(n) ELSE m
  BY DEF ResumeAll
<1> HIDE DEF l
<1>3. IsKernel(l)
  BY <1>1 DEF Ranked, Serving, Parted, IsKernel
<1>4. Quiet(k, l)
  <2>1. OnlyTimes(k, l) /\ l.delayed \in Seq(AnyTask) /\ l.overflow \in Seq(AnyTask)
    BY <1>1, <1>3 DEF OnlyTimes, Ranked, Serving, Parted
  <2>2. QED
    BY <1>1, <2>1, OnlyTimesQuiet
<1>5. Ranked(l)
  BY <1>4, CalmRanks DEF Quiet
<1>6. Quiet(l, r)
  <2>1. l.pending \in Seq(AnyTask)
    BY <1>5 DEF Ranked, Serving, Parted
  <2>2. QED
    BY <1>5, <2>1, MakeReadyCalms
<1> HIDE DEF r
<1>7. Quiet(r, m)
  BY <1>6, MissedTicksCalm, CalmRanks DEF Quiet
<1>8. Preserves(l, m)
  <2>1. Preserves(l, r)
    BY <1>3, MakeReadyPreserves DEF IsKernel, r
  <2>2. Preserves(r, m)
    BY <2>1, MissedTicksPreserves DEF Preserves
  <2>3. QED
    BY <2>1, <2>2, PreservesIsOrder
<1> HIDE DEF m
<1>9. Quiet(k, m)
  BY <1>4, <1>6, <1>7, QuietTwice
<1>10. Ranked(m)
  BY <1>9, CalmRanks DEF Quiet
<1>11. /\ n = [x \in Fields |-> n[x]] /\ n.missedTicks = m.missedTicks
       /\ n.suspendDepth = m.suspendDepth
       /\ n.topReady = m.topReady /\ n.priority = m.priority /\ n.base = m.base
       /\ n.ready = m.ready /\ n.event = m.event /\ n.pending = m.pending
       /\ n.current = m.current /\ n.delayed = m.delayed /\ n.overflow = m.overflow
       /\ n.urgency = m.urgency
  BY <1>10 DEF Ranked, Serving, Parted, IsKernel, Fields
<1> HIDE DEF n
<1>12. IsKernel(n)
  BY <1>10, <1>11 DEF Ranked, Serving, Parted, IsKernel
<1>13. Quiet(m, n)
  <2>1. OnlyTimes(m, n) /\ n.delayed \in Seq(AnyTask) /\ n.overflow \in Seq(AnyTask)
    BY <1>10, <1>11, <1>12 DEF OnlyTimes, Ranked, Serving, Parted
  <2>2. QED
    BY <1>10, <1>11, <2>1, OnlyTimesQuiet
<1>14. Quiet(k, n)
  BY <1>9, <1>13, QuietTwice
<1>15. PICK o : o = SwitchContext(n)
  OBVIOUS
<1>16. /\ Calm(n, o)
       /\ IF n.suspendDepth > 0 THEN o.current = n.current ELSE Leads(o)
  <2>1. Ranked(n)
    BY <1>14, CalmRanks DEF Quiet
  <2>2. QED
    BY <1>15, <2>1, SwitchContextCalms
<1>17. Calm(k, o)
  BY <1>14, <1>16, CalmTwice DEF Quiet
<1>18. AlreadyYields(k) => /\ ~(l.suspendDepth > 0 \/ l.numberOfTasks = 0)
                           /\ ~(n.suspendDepth > 0)
  <2>1. SUFFICES ASSUME AlreadyYields(k)
                 PROVE  /\ ~(l.suspendDepth > 0 \/ l.numberOfTasks = 0)
                        /\ ~(n.suspendDepth > 0)
    OBVIOUS
  <2>2. l.suspendDepth = 0 /\ l.numberOfTasks # 0
    BY <1>1, <2>1 DEF AlreadyYields
  <2>3. n.suspendDepth = 0
    BY <1>8, <1>11, <2>2 DEF Preserves
  <2>4. QED
    BY <2>2, <2>3
<1>19. PICK z : z = ResumeAll(k)
  OBVIOUS
<1>20. Calm(k, z) /\ IF AlreadyYields(k) THEN Leads(z) ELSE z.current = k.current
  BY <1>2, <1>4, <1>9, <1>15, <1>16, <1>17, <1>18, <1>19 DEF Quiet
<1>21. QED
  BY <1>19, <1>20

LEMMA RemoveFromEventListCalms ==
  ASSUME NEW k, Ranked(k), NEW e \in Event, k.event[e] # <<>>
  PROVE  Quiet(k, RemoveFromEventList(k, e))
<1> DEFINE r == RemoveEvent(k, Head(k.event[e]))
           m == [r EXCEPT !.pending = Append(@, Head(k.event[e]))]
<1>1. RemoveFromEventList(k, e) =
        IF k.suspendDepth > 0 THEN m ELSE MakeReady(k, <<Head(k.event[e])>>)
  BY DEF RemoveFromEventList
<1>2. PICK t \in AnyTask : t = Head(k.event[e])
  BY TailOfList DEF Ranked, Serving, Parted
<1>3. CASE ~(k.suspendDepth > 0)
  <2>1. PICK s \in Seq(AnyTask) : s = <<t>>
    <3>1. <<t>> \in Seq(AnyTask)
      OBVIOUS
    <3>2. QED
      BY <3>1
  <2>2. Quiet(k, MakeReady(k, s))
    BY MakeReadyCalms
  <2>3. QED
    BY <1>1, <1>2, <1>3, <2>1, <2>2
<1>4. CASE k.suspendDepth > 0
  <2>1. PICK z : z = RemoveFromEventList(k, e)
    OBVIOUS
  <2>2. Frees(k, z)
    BY <2>1, RemoveFromEventListFrees DEF Ranked
  <2>3. /\ z.urgency = k.urgency /\ z.priority = k.priority /\ z.topReady = k.topReady
        /\ z.ready = k.ready /\ z.current = k.current
        /\ z.event = [f \in Event |-> ListRemove(k.event[f], t)]
    BY <1>1, <1>2, <1>4, <2>1 DEF Ranked, Serving, Parted, IsKernel, RemoveEvent, Fields
  <2>4. Level(z)
    BY <2>3 DEF Ranked, Level
  <2>5. ASSUME NEW w, NEW f \in Event, InOrder(k.event[f], w)
        PROVE  InOrder(z.event[f], w)
    <3>1. PICK s : s = k.event[f]
      OBVIOUS
    <3>2. Once(s) /\ z.event[f] = ListRemove(s, t)
      BY <2>3, <3>1 DEF Ranked, Serving, Parted
    <3>3. InOrder(ListRemove(s, t), w)
      BY <2>5, <3>1, <3>2, RemoveFromList
    <3>4. QED
      BY <3>2, <3>3
  <2>6. Quiet(k, z)
    BY <2>2, <2>3, <2>4, <2>5 DEF Quiet, Calm
  <2>7. QED
    BY <2>1, <2>6
<1>5. QED
  BY <1>3, <1>4

LEMMA OnceHolds ==
  ASSUME NEW s, Once(s), NEW u \in ToSet(s)
  PROVE  u \in AnyTask
<1>1. s \in Seq(AnyTask)
  BY DEF Once
<1>2. QED
  BY <1>1, ToSetIs DEF ToSet

\* The list of e follows the priorities.
Mirror(k) == [t \in AnyTask |-> MaxPriority - k.priority[t]]
InLine(k, e) == InOrder(k.event[e], Mirror(k))

LEMMA ChangePriorityCalms ==
  ASSUME NEW k, Ranked(k), NEW t \in Task, NEW p \in Priority
  PROVE  LET l == ChangePriority(k, t, p)
         IN  /\ Quiet(k, l) /\ l.event = k.event
             /\ l.priority = [k.priority EXCEPT ![t] = p]
<1> DEFINE l == [k EXCEPT !.priority[t] = p, !.urgency[t] = p]
           m == RemoveGeneric(l, t)
           n == AddTaskToReadyQueue(m, t)
           z == ChangePriority(k, t, p)
<1>1. z = IF InReady(k, t) THEN n ELSE l
  BY DEF ChangePriority
<1>2. /\ l = [x \in Fields |-> l[x]]
      /\ l.priority = [k.priority EXCEPT ![t] = p] /\ l.urgency = [k.urgency EXCEPT ![t] = p]
      /\ l.priority = [u \in AnyTask |-> IF u = t THEN p ELSE k.priority[u]]
      /\ l.base = k.base /\ l.topReady = k.topReady /\ l.missedTicks = k.missedTicks
      /\ l.ready = k.ready /\ l.event = k.event /\ l.pending = k.pending
      /\ l.current = k.current /\ l.delayed = k.delayed /\ l.overflow = k.overflow
  BY DEF Ranked, Serving, Parted, IsKernel, Fields
<1> HIDE DEF l
<1>3. IsKernel(l)
  BY <1>2 DEF Ranked, Serving, Parted, IsKernel
<1>4. t # Idle /\ t \in AnyTask /\ Idle \in AnyTask
  BY KernelAssumption DEF AnyTask
<1>5. /\ \A u \in AnyTask : l.priority[u] \in Priority
      /\ l.priority[Idle] = 0 /\ l.priority[t] = p
  BY <1>2, <1>4 DEF Ranked, Serving, Parted
<1>6. Parted(l)
  BY <1>2, <1>3, <1>5 DEF Ranked, Serving, Parted, Listed
<1>7. l.urgency = l.priority
  BY <1>2 DEF Ranked, Level
<1>8. \A o \in Priority : \A u \in ToSet(l.ready[o]) \ {t} : l.priority[u] = o /\ o <= l.topReady
  <2>1. SUFFICES ASSUME NEW o \in Priority, NEW u \in ToSet(l.ready[o]) \ {t}
                 PROVE  l.priority[u] = o /\ o <= l.topReady
    OBVIOUS
  <2>2. k.priority[u] = o /\ o <= k.topReady
    BY <1>2 DEF Ranked, Level
  <2>3. u \in AnyTask
    <3>1. PICK s : s = l.ready[o]
      OBVIOUS
    <3>2. Once(s) /\ u \in ToSet(s)
      BY <1>6, <2>1, <3>1 DEF Parted
    <3>3. QED
      BY <3>2, OnceHolds
  <2>4. QED
    BY <1>2, <2>2, <2>3
<1>9. Frees(k, z) /\ z.event = k.event /\ z.current = k.current
  BY ChangePriorityFrees DEF Ranked
<1>10. Level(z) /\ z.priority = l.priority
  <2>1. CASE InReady(k, t)
    <3>1. Level(m) /\ m.priority = l.priority
      BY <1>6, <1>7, <1>8, RemoveGenericLevels
    <3>2. /\ Parted(m) /\ m.event = l.event
          /\ \A o \in Priority : ToSet(m.ready[o]) = ToSet(l.ready[o]) \ {t}
      BY <1>6, RemoveGenericParts
    <3> HIDE DEF m
    <3>3. Listed(k, t)
      BY <1>4, <2>1 DEF InReady, Listed, Ranked, Serving, Parted
    <3>4. ~Listed(m, t) /\ \A e \in Event : t \notin ToSet(m.event[e])
      <4>1. ~Listed(m, t)
        BY <3>2 DEF Listed
      <4>2. \A e \in Event : t \notin ToSet(k.event[e])
        BY <3>3 DEF Ranked, Serving, Parted
      <4>3. QED
        BY <1>2, <3>2, <4>1, <4>2
    <3>5. Level(n) /\ n.priority = m.priority
      BY <1>4, <3>1, <3>2, <3>4, AddTaskLevels
    <3>6. QED
      BY <1>1, <2>1, <3>1, <3>5
  <2>2. CASE ~InReady(k, t)
    <3>1. ~Listed(k, t)
      BY <2>2 DEF InReady, Listed, Ranked, Level
    <3>2. \A o \in Priority : t \notin ToSet(l.ready[o])
      BY <1>2, <3>1 DEF Listed
    <3>3. Level(l)
      BY <1>7, <1>8, <3>2 DEF Level
    <3>4. QED
      BY <1>1, <2>2, <3>3
  <2>3. QED
    BY <2>1, <2>2
<1> HIDE DEF z
<1>11. Quiet(k, z)
  BY <1>9, <1>10 DEF Quiet, Calm
<1>12. QED
  BY <1>2, <1>9, <1>10, <1>11 DEF z

LEMMA PriorityInheritCalms ==
  ASSUME NEW k, Ranked(k), NEW t \in Task, k.current \in AnyTask
  PROVE  LET l == PriorityInherit(k, t)
         IN  /\ Quiet(k, l) /\ l.event = k.event
             /\ l.priority[t] >= k.priority[k.current] /\ l.priority[t] >= k.priority[t]
             /\ \A u \in AnyTask \ {t} : l.priority[u] = k.priority[u]
<1>1. k.priority[k.current] \in Priority /\ k.priority[t] \in Priority
      /\ k.priority = [u \in AnyTask |-> k.priority[u]] /\ t \in AnyTask
  BY DEF Ranked, Serving, Parted, IsKernel, AnyTask
<1>2. PICK p \in Priority : p = k.priority[k.current]
  BY <1>1
<1>3. p \in Int /\ k.priority[t] \in Int
  BY <1>1, KernelAssumption DEF Priority
<1>4. CASE k.priority[t] < p
  <2>1. PICK l : l = ChangePriority(k, t, p)
    OBVIOUS
  <2>2. Quiet(k, l) /\ l.event = k.event /\ l.priority = [k.priority EXCEPT ![t] = p]
    BY <2>1, ChangePriorityCalms
  <2>3. l.priority[t] = p /\ \A u \in AnyTask \ {t} : l.priority[u] = k.priority[u]
    BY <1>1, <2>2
  <2>4. PriorityInherit(k, t) = l
    BY <1>2, <1>4, <2>1 DEF PriorityInherit
  <2>5. l.priority[t] >= p /\ l.priority[t] >= k.priority[t]
    BY <1>3, <1>4, <2>3
  <2>6. QED
    BY <1>2, <2>2, <2>3, <2>4, <2>5
<1>5. CASE ~(k.priority[t] < p)
  <2>1. PriorityInherit(k, t) = k
    BY <1>2, <1>5 DEF PriorityInherit
  <2>2. QED
    BY <1>2, <1>3, <1>5, <2>1, QuietNobody
<1>6. QED
  BY <1>4, <1>5

LEMMA PriorityDisinheritCalms ==
  ASSUME NEW k, Ranked(k), NEW t \in Task \cup {NoTask}
  PROVE  LET l == PriorityDisinherit(k, t)
         IN  /\ Quiet(k, l) /\ l.event = k.event
             /\ \A u \in AnyTask \ {t} : l.priority[u] = k.priority[u]
             /\ t = NoTask => l = k
<1>1. CASE t # NoTask /\ k.priority[t] # k.base[t]
  <2>1. PICK p \in Priority : p = k.base[t]
    BY <1>1 DEF Ranked, Serving, Parted, AnyTask
  <2>2. PICK l : l = ChangePriority(k, t, p)
    OBVIOUS
  <2>3. Quiet(k, l) /\ l.event = k.event /\ l.priority = [k.priority EXCEPT ![t] = p]
    BY <1>1, <2>2, ChangePriorityCalms
  <2>4. k.priority = [u \in AnyTask |-> k.priority[u]]
    BY DEF Ranked, Serving, Parted, IsKernel
  <2>5. \A u \in AnyTask \ {t} : l.priority[u] = k.priority[u]
    BY <2>3, <2>4
  <2>6. PriorityDisinherit(k, t) = l
    BY <1>1, <2>1, <2>2 DEF PriorityDisinherit
  <2>7. QED
    BY <1>1, <2>3, <2>5, <2>6
<1>2. CASE ~(t # NoTask /\ k.priority[t] # k.base[t])
  BY <1>2, QuietNobody DEF PriorityDisinherit
<1>3. QED
  BY <1>1, <1>2

\* The running task takes its place among those who wait for e.
LEMMA PlaceOnEventListRanks ==
  ASSUME NEW k, Ranked(k), k.current \in Task, NEW e \in Event, NEW ticks,
         \A f \in Event : k.current \notin ToSet(k.event[f])
  PROVE  LET l == PlaceOnEventList(k, e, ticks)
         IN  /\ Ranked(l) /\ l.priority = k.priority
             /\ InLine(k, e) => InLine(l, e)
             /\ \A u : u # k.current /\ Listed(k, u) => Listed(l, u)
<1> DEFINE t == k.current
           z == PlaceOnEventList(k, e, ticks)
           lessUrgent == {u \in DOMAIN k.urgency : k.urgency[u] < k.urgency[t]}
           l == [k EXCEPT !.event[e] = ListInsert(@, t, lessUrgent)]
           r == RemoveGeneric(l, t)
           m == [r EXCEPT !.suspended = @ \cup {t}]
           time == Ticks(k.tickCount + ticks)
           s == [r EXCEPT !.wake[t] = time]
           later == {u \in DOMAIN s.wake : s.wake[u] > time}
           over == [s EXCEPT !.overflow = ListInsert(@, t, later)]
           soon == [s EXCEPT !.delayed = ListInsert(@, t, later),
                             !.nextUnblock = IF time < @ THEN time ELSE @]
<1>1. t \in AnyTask /\ t # Idle
  BY KernelAssumption DEF AnyTask
<1>2. /\ l = [x \in Fields |-> l[x]]
      /\ l.priority = k.priority /\ l.urgency = k.urgency /\ l.topReady = k.topReady
      /\ l.ready = k.ready
      /\ l.event = [k.event EXCEPT ![e] = ListInsert(@, t, lessUrgent)]
  BY DEF Ranked, Serving, Parted, IsKernel, Fields
<1>3. z = IF ticks = MaxDelay THEN m ELSE IF time < s.tickCount THEN over ELSE soon
  <2>1. l.tickCount = k.tickCount
    BY DEF Ranked, Serving, Parted, IsKernel, Fields
  <2>2. QED
    BY <1>2, <2>1, SMTT(60) DEF PlaceOnEventList, AddCurrentTaskToDelayedList
<1> HIDE DEF lessUrgent, l, time
<1>4. /\ r = [x \in Fields |-> r[x]]
      /\ r.priority = l.priority /\ r.urgency = l.urgency /\ r.topReady = l.topReady
      /\ r.event = l.event /\ r.ready = [p \in Priority |-> ListRemove(l.ready[p], t)]
  BY <1>2, ZenonT(30) DEF RemoveGeneric, Fields
<1> HIDE DEF r
<1>5. /\ s = [x \in Fields |-> s[x]]
      /\ s.priority = r.priority /\ s.urgency = r.urgency /\ s.topReady = r.topReady
      /\ s.event = r.event /\ s.ready = r.ready
  BY <1>4 DEF Fields
<1> HIDE DEF s, later
<1>6. /\ z.priority = r.priority /\ z.urgency = r.urgency /\ z.topReady = r.topReady
      /\ z.event = r.event /\ z.ready = r.ready
  <2>1. CASE z = m
    BY <1>4, <2>1 DEF Fields
  <2>2. CASE z = over
    BY <1>5, <2>2 DEF Fields
  <2>3. CASE z = soon
    BY <1>5, <2>3 DEF Fields
  <2>4. QED
    BY <1>3, <2>1, <2>2, <2>3
<1>7. Serving(z)
  BY PlaceOnEventListServes DEF Ranked
<1> HIDE DEF z, m, over, soon
<1>8. \A p \in Priority : ToSet(z.ready[p]) = ToSet(k.ready[p]) \ {t}
  BY <1>2, <1>4, <1>6, RemoveOnce DEF Ranked, Serving, Parted
<1>9. Level(z)
  BY <1>2, <1>4, <1>6, <1>8 DEF Ranked, Level
<1>10. z.priority = k.priority /\ Mirror(z) = Mirror(k)
  BY <1>2, <1>4, <1>6 DEF Mirror
<1>11. \A u : u # t /\ Listed(k, u) => Listed(z, u)
  BY <1>8 DEF Listed
<1>12. ASSUME InLine(k, e) PROVE InLine(z, e)
  <2>1. PICK q : q = k.event[e]
    OBVIOUS
  <2>2. PICK w : w = Mirror(k)
    OBVIOUS
  <2>3. Once(q) /\ t \notin ToSet(q) /\ z.event[e] = ListInsert(q, t, lessUrgent)
    BY <1>2, <1>4, <1>6, <2>1 DEF Ranked, Serving, Parted
  <2>4. \A u \in ToSet(q) : u \in AnyTask
    BY <2>3, OnceHolds
  <2>5. \A u \in AnyTask : k.priority[u] \in Int /\ MaxPriority \in Int
    BY KernelAssumption DEF Ranked, Serving, Parted, Priority
  <2>6. \A u \in AnyTask : w[u] = MaxPriority - k.priority[u] /\ w[u] \in Int
    BY <2>2, <2>5 DEF Mirror
  <2>7. \A u \in AnyTask : u \in lessUrgent <=> k.priority[u] < k.priority[t]
    <3>1. k.urgency = k.priority /\ DOMAIN k.priority = AnyTask
      BY DEF Ranked, Level, Serving, Parted, IsKernel
    <3>2. QED
      BY <3>1 DEF lessUrgent
  <2>8. \A u \in AnyTask : u \in lessUrgent <=> w[u] > w[t]
    BY <1>1, <2>5, <2>6, <2>7
  <2>9. InOrder(q, w)
    BY <1>12, <2>1, <2>2 DEF InLine
  <2>10. InOrder(ListInsert(q, t, lessUrgent), w)
    <3> HIDE DEF t
    <3>1. /\ \A u \in ToSet(q) : w[u] = w[u]
          /\ \A u \in ToSet(q) : w[u] \in Int /\ (u \in lessUrgent <=> w[u] > w[t])
          /\ w[t] \in Int
      BY <1>1, <2>4, <2>6, <2>8
    <3>2. QED
      BY <1>1, <2>3, <2>9, <3>1, InsertIntoList
  <2>11. QED
    BY <1>10, <2>2, <2>3, <2>10 DEF InLine
<1>13. QED
  BY <1>7, <1>9, <1>10, <1>11, <1>12 DEF Ranked, z

\* Before the scheduler starts.
LEMMA BootIsLevel == Level(BootKernel)
<1>1. \A p \in Priority : ToSet(BootKernel.ready[p]) = {}
  BY EmptyOnce DEF BootKernel
<1>2. BootKernel.urgency = BootKernel.priority
  BY DEF BootKernel
<1>3. QED
  BY <1>1, <1>2 DEF Level

LEMMA CreateLevels ==
  ASSUME NEW k, Booting(k), Level(k), NEW t \in AnyTask, ~Listed(k, t),
         NEW p \in Priority, t = Idle => p = 0
  PROVE  Level(Create(k, t, p))
<1> DEFINE first == k.current = NoTask
           urgent == first \/ (~k.running /\ k.priority[k.current] <= p)
           l == [k EXCEPT !.numberOfTasks = @ + 1,
                          !.priority[t] = p, !.base[t] = p, !.urgency[t] = p,
                          !.current = IF urgent THEN t ELSE @]
           m == AddTaskToReadyQueue(l, t)
<1>1. Create(k, t, p) = m
  BY DEF Create, YieldIf, Booting
<1> HIDE DEF urgent
<1>2. /\ l = [x \in Fields |-> l[x]]
      /\ l.priority = [u \in AnyTask |-> IF u = t THEN p ELSE k.priority[u]]
      /\ l.base = [u \in AnyTask |-> IF u = t THEN p ELSE k.base[u]]
      /\ l.topReady = k.topReady /\ l.missedTicks = k.missedTicks
      /\ l.ready = k.ready /\ l.event = k.event /\ l.pending = k.pending
      /\ l.delayed = k.delayed /\ l.overflow = k.overflow /\ l.running = k.running
  BY ZenonT(30) DEF Booting, Parted, IsKernel, Fields
<1>3. l.priority = [k.priority EXCEPT ![t] = p] /\ l.urgency = [k.urgency EXCEPT ![t] = p]
  BY ZenonT(30) DEF Booting, Parted, IsKernel, Fields
<1> HIDE DEF l
<1>4. IsKernel(l)
  BY <1>2 DEF Booting, Parted, IsKernel
<1>5. Idle \in AnyTask
  BY DEF AnyTask
<1>6. /\ \A u \in AnyTask : l.priority[u] \in Priority /\ l.base[u] \in Priority
      /\ l.priority[Idle] = 0 /\ l.priority[t] = p
  BY <1>2, <1>5 DEF Booting, Parted
<1>7. Parted(l) /\ ~Listed(l, t) /\ \A e \in Event : t \notin ToSet(l.event[e])
  BY <1>2, <1>4, <1>6, EmptyOnce DEF Booting, Parted, Listed
<1>8. ASSUME NEW o \in Priority, NEW u \in ToSet(l.ready[o])
      PROVE  l.priority[u] = o /\ o <= l.topReady
  <2>1. k.priority[u] = o /\ o <= k.topReady
    BY <1>2 DEF Level
  <2>2. u \in AnyTask /\ u # t
    <3>1. PICK s : s = l.ready[o]
      OBVIOUS
    <3>2. Once(s) /\ u \in ToSet(s)
      BY <1>7, <1>8, <3>1 DEF Parted
    <3>3. QED
      BY <1>7, <1>8, <3>2, OnceHolds DEF Listed
  <2>3. QED
    BY <1>2, <2>1, <2>2
<1>9. Level(l)
  BY <1>3, <1>8 DEF Level
<1>10. Level(m)
  BY <1>7, <1>9, AddTaskLevels
<1>11. QED
  BY <1>1, <1>10

LEMMA StartSchedulerRanks ==
  ASSUME NEW k, Booting(k), Level(k), ~Listed(k, Idle)
  PROVE  Ranked(StartScheduler(k))
<1> DEFINE l == Create(k, Idle, 0)
           m == [l EXCEPT !.running = TRUE, !.tickCount = 0]
<1>1. 0 \in Priority /\ Idle \in AnyTask
  BY KernelAssumption DEF Priority, AnyTask
<1>2. Booting(l) /\ Level(l)
  BY <1>1, CreateBoots, CreateLevels
<1> HIDE DEF l
<1>3. /\ m.topReady = l.topReady /\ m.priority = l.priority /\ m.urgency = l.urgency
      /\ m.ready = l.ready
  BY <1>2 DEF Booting, Parted, IsKernel, Fields
<1>4. Level(m)
  BY <1>2, <1>3 DEF Level
<1>5. Serving(StartScheduler(k))
  BY StartSchedulerServes
<1>6. QED
  BY <1>4, <1>5 DEF Ranked, StartScheduler, l, m
=============================================================================
