---------------------------- MODULE BoundedQueue ----------------------------
(***************************************************************************)
(* What queue.c promises about the items of its queues, whoever calls it   *)
(* from wherever: each is a sequence of at most Length items that grows at *)
(* either end and shrinks at its front, one item at a time.                *)
(***************************************************************************)
EXTENDS Naturals, Sequences

CONSTANTS Queue, Item, Length

VARIABLE items

Init ==
  \A q \in Queue : items[q] \in Seq(Item[q]) /\ Len(items[q]) <= Length[q]

Send(q) ==
  /\ Len(items[q]) < Length[q]
  /\ \E x \in Item[q] : \/ items' = [items EXCEPT ![q] = Append(@, x)]
                     \/ items' = [items EXCEPT ![q] = <<x>> \o @]

Receive(q) ==
  /\ items[q] # <<>>
  /\ items' = [items EXCEPT ![q] = Tail(@)]

Next == \E q \in Queue : Send(q) \/ Receive(q)

Spec == Init /\ [][Next]_items
=============================================================================
