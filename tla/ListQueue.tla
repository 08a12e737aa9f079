------------------------------ MODULE ListQueue ------------------------------
(***************************************************************************)
(* What the ready-queue list promises its users: a sequence of values with *)
(* push_back, push_front, pop_front, pop_back and remove-every-occurrence. *)
(* A pop on an empty list changes nothing.  LinkedList, the node and       *)
(* pointer level of src/P6/linked_list.H, implements Spec, which has no    *)
(* pop_back; LinkedListP5, the draft of src/P5, implements DequeSpec       *)
(* without remove.                                                         *)
(***************************************************************************)
EXTENDS Integers, Sequences, SequencesExt

CONSTANTS
  Data,     \* the values stored (thread pointers in the scheduler)
  Capacity  \* model bound: most values held at once

VARIABLE q

Init == q = << >>

PushBack(d) == Len(q) < Capacity /\ q' = Append(q, d)

PushFront(d) == Len(q) < Capacity /\ q' = <<d>> \o q

PopFront == q' = IF q = << >> THEN q ELSE Tail(q)

PopBack == q' = IF q = << >> THEN q ELSE SubSeq(q, 1, Len(q) - 1)

RemoveAll(v) == q' = SelectSeq(q, LAMBDA x : x # v)

Next ==
  \/ \E d \in Data : PushBack(d) \/ PushFront(d) \/ RemoveAll(d)
  \/ PopFront

Spec == Init /\ [][Next]_q

\* A list that also pops at the back (the P5 draft; the P6 list's pop_back
\* is never instantiated).
DequeNext == Next \/ PopBack
DequeSpec == Init /\ [][DequeNext]_q

=============================================================================
