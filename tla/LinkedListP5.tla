----------------------------- MODULE LinkedListP5 -----------------------------
(***************************************************************************)
(* The draft doubly linked list of src/P5/linked_list.C and src/P5/node.C, *)
(* which the P6 header replaces.  As in LinkedList, a node lives at an     *)
(* address of Addrs, "node" is the heap (a deleted node keeps its last     *)
(* contents) and "alloc" the addresses new has handed out and delete has   *)
(* not taken back.                                                         *)
(*                                                                         *)
(* Unlike P6 the draft initialises no pointer: the constructor sets only   *)
(* size, and Node(T) only data and the hasNext/hasPrev flags, which no     *)
(* operation reads and the model omits.  A pointer no statement has        *)
(* written holds GARBAGE, one value for whatever the memory held.  Nothing *)
(* dereferences it while the list is well formed: an operation that did   *)
(* would leave the heap's domain and stop TLC.                             *)
(* The draft's push_back links the new node in before head and push_front *)
(* after tail, the other way round from P6.  get(i) initialises a Node     *)
(* from a pointer and does not compile once instantiated; nothing calls    *)
(* it, and it is not modelled.                                             *)
(***************************************************************************)
EXTENDS Integers, Sequences, FiniteSets

CONSTANTS
  Addrs,   \* addresses new may return for a node
  Data,    \* the values stored
  NULL,    \* a value no node holds: the data of a node never written
  GARBAGE  \* the contents of a pointer nothing has written

VARIABLES head, tail, size, node, alloc

draftVars == <<head, tail, size, node, alloc>>

\* Node(T _data): data set, next and prev unwritten.
NewNode(d) == [data |-> d, next |-> GARBAGE, prev |-> GARBAGE]

\* n->set_next(x) and n->set_prev(x) on the heap h.
SetNext(h, n, x) == [h EXCEPT ![n].next = x]
SetPrev(h, n, x) == [h EXCEPT ![n].prev = x]

\* LinkedList(): size = 0; head and tail stay unwritten.
Init ==
  /\ head = GARBAGE
  /\ tail = GARBAGE
  /\ size = 0
  /\ node = [a \in Addrs |-> NewNode(NULL)]
  /\ alloc = {}

\* Mutant of PushBack: the old head's prev is not set to the new node.
PushBackNoPrev(a, d) ==
  LET h == [node EXCEPT ![a] = NewNode(d)] IN
  /\ IF size = 0
     THEN head' = a /\ tail' = a /\ node' = h
     ELSE /\ node' = SetNext(h, a, head)
          /\ head' = a /\ UNCHANGED tail
  /\ size' = size + 1
  /\ alloc' = alloc \cup {a}

\* push_back(_data) with the new node at address a: the first node becomes
\* head and tail, any other is linked in before head.
PushBack(a, d) ==
  LET h == [node EXCEPT ![a] = NewNode(d)] IN
  /\ IF size = 0
     THEN head' = a /\ tail' = a /\ node' = h
     ELSE /\ node' = SetPrev(SetNext(h, a, head), head, a)
          /\ head' = a /\ UNCHANGED tail
  /\ size' = size + 1
  /\ alloc' = alloc \cup {a}

\* push_front(_data) with the new node at address a: linked in after tail.
PushFront(a, d) ==
  LET h == [node EXCEPT ![a] = NewNode(d)] IN
  /\ IF size = 0
     THEN head' = a /\ tail' = a /\ node' = h
     ELSE /\ node' = SetNext(SetPrev(h, a, tail), tail, a)
          /\ tail' = a /\ UNCHANGED head
  /\ size' = size + 1
  /\ alloc' = alloc \cup {a}

\* pop_front(): on a non-empty list head moves to head->next, which is
\* unwritten when head was the only node; the new head keeps its prev.
PopFront ==
  IF size # 0
  THEN /\ head' = node[head].next
       /\ alloc' = alloc \ {head}
       /\ size' = size - 1
       /\ UNCHANGED <<tail, node>>
  ELSE UNCHANGED draftVars

\* pop_back(): the same at the tail, through tail->prev.
PopBack ==
  IF size # 0
  THEN /\ tail' = node[tail].prev
       /\ alloc' = alloc \ {tail}
       /\ size' = size - 1
       /\ UNCHANGED <<head, node>>
  ELSE UNCHANGED draftVars

\* front() and back(): the data of head and tail, with no test for an
\* empty list.
Front == node[head].data
Back == node[tail].data

\* new needs a free address.
Next ==
  \/ \E a \in Addrs \ alloc, d \in Data : PushBack(a, d) \/ PushFront(a, d)
  \/ PopFront
  \/ PopBack

Spec == Init /\ [][Next]_draftVars

(***************************************************************************)
(* Properties                                                              *)
(***************************************************************************)

\* The first k pointers met following next from n; a pointer that is no
\* address repeats, so that the walk never dereferences it.
RECURSIVE ChainFrom(_, _)
ChainFrom(n, k) ==
  IF k = 0 THEN << >>
  ELSE <<n>> \o ChainFrom(IF n \in Addrs THEN node[n].next ELSE n, k - 1)

\* The data behind a pointer, or GARBAGE behind one to no live node.
DataAt(n) == IF n \in alloc THEN node[n].data ELSE GARBAGE

\* The values of the size nodes from head, in list order.
Contents == LET c == ChainFrom(head, size) IN [i \in 1 .. size |-> DataAt(c[i])]

\* The draft implements a double-ended queue of capacity |Addrs| whose ends
\* are named the other way round from P6: its push_back adds at the front
\* and push_front at the back, pop_front and pop_back take the first and
\* the last value, and front() and back() read them.  pop_front and
\* pop_back leave the new end's outward pointer at the deleted node, and
\* pop_front of the last node leaves head unwritten; the property fails if
\* a later operation follows one of them while it is still in use.
Deque == INSTANCE ListQueue WITH q <- Contents, Capacity <- Cardinality(Addrs)
EndsRead ==
  size > 0 => /\ head \in alloc /\ Front = Head(Contents)
              /\ tail \in alloc /\ Back = Contents[size]
DequeSpec ==
  /\ [][/\ \A a \in Addrs \ alloc, d \in Data :
            PushBack(a, d) => Deque!PushFront(d)
        /\ PopBack => Deque!PopBack
        /\ EndsRead']_draftVars
  /\ Deque!DequeSpec

=============================================================================
