------------------------------ MODULE LinkedList ------------------------------
(***************************************************************************)
(* The doubly linked list of src/P6/linked_list.H and src/P6/node.H, the  *)
(* scheduler's ready queue, at the level of its nodes and pointers.  A    *)
(* node lives at an address of Addrs; "node" is the heap (a deleted node  *)
(* keeps its last contents, as freed memory does), "alloc" the addresses  *)
(* new has handed out and delete has not taken back.                      *)
(*                                                                         *)
(* Each operation is a function from one list state to the next, so that  *)
(* remove(T)'s loop over remove(Node * ) is a recursive operator; front,   *)
(* back and size are queries of a state.  pop_back and get are not       *)
(* modelled: pop_back compares the member function size with 1 and get    *)
(* initialises a Node from a pointer, so neither compiles once            *)
(* instantiated, and the kernel never calls them.                          *)
(***************************************************************************)
EXTENDS Integers, Sequences, FiniteSets

CONSTANTS
  Addrs,  \* addresses new may return for a node
  Data,   \* the values stored
  NULL    \* the null pointer, and front()'s NULL result

VARIABLES head, tail, len, node, alloc

listVars == <<head, tail, len, node, alloc>>

\* new Node<T>(_data): prev and next NULL.
NewNode(d) == [prev |-> NULL, next |-> NULL, data |-> d]

\* The LinkedList() constructor; the heap holds no node yet.
Init ==
  /\ head = NULL
  /\ tail = NULL
  /\ len = 0
  /\ node = [a \in Addrs |-> NewNode(NULL)]
  /\ alloc = {}

ListState == [head |-> head, tail |-> tail, len |-> len, node |-> node, alloc |-> alloc]

SetList(l) ==
  /\ head' = l.head /\ tail' = l.tail /\ len' = l.len
  /\ node' = l.node /\ alloc' = l.alloc

\* push_back(_data) with the new node at address a.
PushBackOn(l, a, d) ==
  LET n == [l.node EXCEPT ![a] = NewNode(d)] IN
  IF l.len = 0
  THEN [l EXCEPT !.head = a, !.tail = a, !.node = n, !.len = 1, !.alloc = @ \cup {a}]
  ELSE [l EXCEPT !.node = [n EXCEPT ![a].prev = l.tail, ![l.tail].next = a],
                 !.tail = a, !.len = @ + 1, !.alloc = @ \cup {a}]

\* push_front(_data) with the new node at address a.
PushFrontOn(l, a, d) ==
  LET n == [l.node EXCEPT ![a] = NewNode(d)] IN
  IF l.len = 0
  THEN [l EXCEPT !.head = a, !.tail = a, !.node = n, !.len = 1, !.alloc = @ \cup {a}]
  ELSE [l EXCEPT !.node = [n EXCEPT ![a].next = l.head, ![l.head].prev = a],
                 !.head = a, !.len = @ + 1, !.alloc = @ \cup {a}]

\* Mutant of PopFrontOn: the new head keeps its prev pointer.
PopFrontNoPrevReset(l) ==
  IF l.len = 0 THEN l
  ELSE IF l.len = 1
  THEN [l EXCEPT !.head = NULL, !.tail = NULL, !.alloc = @ \ {l.head}, !.len = 0]
  ELSE [l EXCEPT !.head = l.node[l.head].next, !.alloc = @ \ {l.head}, !.len = @ - 1]

\* pop_front(): nothing on an empty list; the one node; else unlink head.
PopFrontOn(l) ==
  IF l.len = 0 THEN l
  ELSE IF l.len = 1
  THEN [l EXCEPT !.head = NULL, !.tail = NULL, !.alloc = @ \ {l.head}, !.len = 0]
  ELSE LET h == l.node[l.head].next IN
       [l EXCEPT !.head = h, !.node = [@ EXCEPT ![h].prev = NULL],
                 !.alloc = @ \ {l.head}, !.len = @ - 1]

\* front(): head's data, or NULL on an empty list.
Front(l) == IF l.head # NULL THEN l.node[l.head].data ELSE NULL

\* remove(Node * x): unlink x as the only node, the head, the tail or an
\* inner node, then delete it.
RemoveNodeOn(l, x) ==
  LET nx == l.node[x]
      linked ==
        CASE x = l.head /\ x = l.tail -> [l EXCEPT !.head = NULL, !.tail = NULL]
          [] x = l.head -> [l EXCEPT !.head = nx.next,
                                     !.node = [@ EXCEPT ![nx.next].prev = NULL]]
          [] x = l.tail -> [l EXCEPT !.tail = nx.prev,
                                     !.node = [@ EXCEPT ![nx.prev].next = NULL]]
          [] OTHER -> [l EXCEPT !.node = [@ EXCEPT ![nx.prev].next = nx.next,
                                                   ![nx.next].prev = nx.prev]]
  IN [linked EXCEPT !.alloc = @ \ {x}, !.len = @ - 1]

\* Mutant of RemoveFrom: the loop stops after the first match.
RECURSIVE RemoveFirstOnly(_, _, _, _)
RemoveFirstOnly(l, cur, v, k) ==
  IF cur = NULL \/ k = 0 THEN l
  ELSE IF l.node[cur].data = v THEN RemoveNodeOn(l, cur)
  ELSE RemoveFirstOnly(l, l.node[cur].next, v, k - 1)

\* remove(T _val) from node cur on: cur->next is read before remove(d)
\* deletes the node.  k, the nodes left to visit, only bounds the walk.
RECURSIVE RemoveFrom(_, _, _, _)
RemoveFrom(l, cur, v, k) ==
  IF cur = NULL \/ k = 0 THEN l
  ELSE IF l.node[cur].data = v
       THEN RemoveFrom(RemoveNodeOn(l, cur), l.node[cur].next, v, k - 1)
       ELSE RemoveFrom(l, l.node[cur].next, v, k - 1)

RemoveValueOn(l, v) == RemoveFrom(l, l.head, v, Cardinality(Addrs))

\* The client calls: new needs a free address.
PushBack(d) == \E a \in Addrs \ alloc : SetList(PushBackOn(ListState, a, d))
PushFront(d) == \E a \in Addrs \ alloc : SetList(PushFrontOn(ListState, a, d))
PopFront == SetList(PopFrontOn(ListState))
RemoveValue(v) == SetList(RemoveValueOn(ListState, v))

Next ==
  \/ \E d \in Data : PushBack(d) \/ PushFront(d) \/ RemoveValue(d)
  \/ PopFront

Spec == Init /\ [][Next]_listVars

(***************************************************************************)
(* Properties                                                              *)
(***************************************************************************)

\* The addresses met following next from n, at most k of them.
RECURSIVE Chain(_, _)
Chain(n, k) == IF n = NULL \/ k = 0 THEN << >> ELSE <<n>> \o Chain(node[n].next, k - 1)

Nodes == Chain(head, Cardinality(Addrs) + 1)

\* push_back, push_front, pop_front and remove keep the links consistent:
\* following next from head meets len distinct live nodes and ends at
\* tail, each node's prev is its predecessor, and every live node is on
\* the list.  A missed prev or next update, or a len off by one, breaks it
\* only after a later operation walks the stale pointer.
WellLinked ==
  LET s == Nodes IN
  /\ Len(s) = len
  /\ {s[i] : i \in 1 .. Len(s)} = alloc
  /\ Cardinality(alloc) = len
  /\ len = 0 => head = NULL /\ tail = NULL
  /\ len > 0 => /\ s[len] = tail /\ node[tail].next = NULL
                /\ node[head].prev = NULL
                /\ \A i \in 1 .. len - 1 : node[s[i+1]].prev = s[i]

\* The values along the list, head first.
Contents == [i \in 1 .. Len(Nodes) |-> node[Nodes[i]].data]

\* The list implements the FIFO queue of ListQueue: push_back appends,
\* pop_front takes the oldest value, remove(T) drops every occurrence.
Queue == INSTANCE ListQueue WITH q <- Contents, Capacity <- Cardinality(Addrs)
ListQueueSpec == Queue!Spec

=============================================================================
