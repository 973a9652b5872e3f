----------------------------- MODULE ArrayList -----------------------------
(***************************************************************************)
(* Ex1b/array.c: a growing array that is passed by value, so that copies   *)
(* share its buffer until one of them grows.                               *)
(*                                                                         *)
(* The callers modelled keep to what the functions do not look at: no pop  *)
(* from an empty array, no reservation below the capacity, no capacity     *)
(* that a factor leaves as it is (1 * 1.5 is 1), and no use of a copy      *)
(* whose elements another one has freed or written over (fresh says which  *)
(* variables are left).                                                    *)
(***************************************************************************)
EXTENDS SmallParameters, SequencesExt

VARIABLES
  array,        \* the struct in each variable
  memory,       \* the buffers malloc has handed out, <<>> when free
  fresh,        \* the variables whose elements are still there
  content       \* history: the elements each should have

arrays == <<array, memory, fresh, content>>

Buffer == 1 .. Cardinality(Name) + 1

NoArray == [data |-> 1, front |-> 0, back |-> 0, capacity |-> 0]

Init ==
  /\ array = [n \in Name |-> NoArray]
  /\ memory = [b \in Buffer |-> <<>>]
  /\ fresh = {}
  /\ content = [n \in Name |-> <<>>]

-----------------------------------------------------------------------------
(* What is read *)

Empty(a) == a.back <= a.front
FrontOf(a) == memory[a.data][a.front + 1]
BackOf(a) == memory[a.data][a.back]

WithoutFront(a) == [a EXCEPT !.front = @ + 1]
WithoutBack(a) == [a EXCEPT !.back = @ - 1]

\* What array_foreach calls fn for: the front after each of its pops.
Foreach(a) ==
  [i \in 1 .. a.back - a.front |-> FrontOf([a EXCEPT !.front = @ + (i - 1)])]

\* array_foreachReverse, the same with the back.
ForeachReverse(a) ==
  [i \in 1 .. a.back - a.front |-> BackOf([a EXCEPT !.back = @ - (i - 1)])]

-----------------------------------------------------------------------------
(* The calls *)

Sharing(n) == {m \in fresh : array[m].data = array[n].data}

\* The variables of keep, and n with a new value; the others are given up.
Assign(keep, n, a, s) ==
  /\ array' = [m \in Name |-> IF m = n THEN a ELSE IF m \in keep THEN array[m] ELSE NoArray]
  /\ content' = [m \in Name |-> IF m = n THEN s ELSE IF m \in keep THEN content[m] ELSE <<>>]
  /\ fresh' = keep \cup {n}

GiveUp(given) ==
  /\ array' = [m \in Name |-> IF m \in given THEN NoArray ELSE array[m]]
  /\ content' = [m \in Name |-> IF m \in given THEN <<>> ELSE content[m]]
  /\ fresh' = fresh \ given

\* malloc
Allocated == CHOOSE b \in Buffer : memory[b] = <<>>

New(n, capacity) ==
  /\ n \notin fresh
  /\ memory' = [memory EXCEPT ![Allocated] = [i \in 1 .. capacity |-> Junk]]
  /\ Assign(fresh, n,
            [data |-> Allocated, front |-> 0, back |-> 0, capacity |-> capacity], <<>>)

Destroy(n) ==
  /\ n \in fresh
  /\ memory' = [memory EXCEPT ![array[n].data] = <<>>]
  /\ GiveUp(Sharing(n))

\* array_save, and every call that takes its array by value.
Save(n, m) ==
  /\ n \in fresh /\ m \notin fresh
  /\ Assign(fresh, m, array[n], content[n])
  /\ UNCHANGED memory

PopFront(n) ==
  /\ n \in fresh /\ ~Empty(array[n])
  /\ Assign(fresh, n, WithoutFront(array[n]), Tail(content[n]))
  /\ UNCHANGED memory

PopBack(n) ==
  /\ n \in fresh /\ ~Empty(array[n])
  /\ Assign(fresh, n, WithoutBack(array[n]), Front(content[n]))
  /\ UNCHANGED memory

\* A faulty variant: only the elements are copied, to where they were.
Copy_length(a, capacity) ==
  [i \in 1 .. capacity |-> IF i <= a.back - a.front THEN memory[a.data][i] ELSE Junk]

\* memcpy of the whole old buffer, whatever of it is in use.
Copy(a, capacity) ==
  [i \in 1 .. capacity |-> IF i <= a.capacity THEN memory[a.data][i] ELSE Junk]

\* array_reserve: the new buffer, and what is left of the old one.
Moved(a, capacity) ==
  [memory EXCEPT ![Allocated] = Copy(a, capacity), ![a.data] = <<>>]

InNewBuffer(a, capacity) == [a EXCEPT !.data = Allocated, !.capacity = capacity]

\* Who has another copy of the array cannot use it any more.
Reserve(n, capacity) ==
  /\ n \in fresh /\ capacity >= array[n].capacity
  /\ memory' = Moved(array[n], capacity)
  /\ Assign(fresh \ Sharing(n), n, InNewBuffer(array[n], capacity), content[n])

\* The store at the old back, and the back after it.
Stored(mem, a, value) == [mem EXCEPT ![a.data][a.back + 1] = value]
Longer(a) == [a EXCEPT !.back = @ + 1]

\* Who shares the buffer and reaches further loses the element written over.
InsertInPlace(n, value) ==
  /\ n \in fresh /\ array[n].back < array[n].capacity
  /\ memory' = Stored(memory, array[n], value)
  /\ Assign(fresh \ {m \in Sharing(n) : array[m].back > array[n].back},
            n, Longer(array[n]), Append(content[n], value))

\* The product of capacity and factor, truncated.
Grown(capacity, factor) == (capacity * factor) \div 2

InsertGrown(n, value, factor) ==
  LET capacity == Grown(array[n].capacity, factor)
      a == InNewBuffer(array[n], capacity)
  IN  /\ n \in fresh /\ array[n].back >= array[n].capacity
      /\ capacity <= MaxCapacity
      /\ memory' = Stored(Moved(array[n], capacity), a, value)
      /\ Assign(fresh \ Sharing(n), n, Longer(a), Append(content[n], value))

InsertBack(n, value, factor) == InsertInPlace(n, value) \/ InsertGrown(n, value, factor)

Next ==
  \E n \in Name :
    \/ \E c \in Capacity : New(n, c) \/ Reserve(n, c)
    \/ Destroy(n) \/ PopFront(n) \/ PopBack(n)
    \/ \E m \in Name \ {n} : Save(n, m)
    \/ \E v \in Value, f \in Factor : InsertBack(n, v, f)

Spec == Init /\ [][Next]_arrays

-----------------------------------------------------------------------------

\* An array and each of its copies is a sequence in both directions, inside a
\* buffer that is still its own (array.c:86-90, 96-106): growing keeps what has
\* been popped in front, and what one copy does to the buffer costs no other
\* copy an element but the one that is written over.
IsSequence ==
  \A n \in fresh :
    /\ Len(memory[array[n].data]) = array[n].capacity
    /\ array[n].back <= array[n].capacity
    /\ Foreach(array[n]) = content[n]
    /\ ForeachReverse(array[n]) = Reverse(content[n])
=============================================================================
