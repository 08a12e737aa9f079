---------------------------- MODULE MCLinkedList ----------------------------
(***************************************************************************)
(* The P6 list and the P5 draft list checked in one run.  The two lists do *)
(* not interact: each behaviour picks one of them at the start ("which")   *)
(* and operates on it alone, so the states are those of the two lists'    *)
(* own specifications side by side, not their product.                     *)
(***************************************************************************)
EXTENDS LinkedList

VARIABLES head5, tail5, size5, node5, alloc5, which

\* The draft's unwritten pointers.
MCGarbage == "garbage"

Draft == INSTANCE LinkedListP5 WITH
           head <- head5, tail <- tail5, size <- size5, node <- node5,
           alloc <- alloc5, GARBAGE <- MCGarbage

draftVars == <<head5, tail5, size5, node5, alloc5>>
allVars == <<listVars, draftVars, which>>

\* Three node addresses: enough for an inner node, so remove(Node * ) takes
\* all four of its branches, and for a draft list whose ends are distinct
\* from its middle.
MCAddrs == {"a1", "a2", "a3"}

\* Two thread pointers, so a value can occur twice on the list.
MCData == {"t1", "t2"}

MCInit ==
  /\ which \in {"P6", "P5"}
  /\ Init
  /\ Draft!Init

MCNext ==
  /\ \/ which = "P6" /\ Next /\ UNCHANGED draftVars
     \/ which = "P5" /\ Draft!Next /\ UNCHANGED listVars
  /\ UNCHANGED which

MCSpec == MCInit /\ [][MCNext]_allVars

\* The draft list is a double-ended queue with its ends' names swapped
\* (see LinkedListP5!DequeSpec).
DraftDequeSpec == Draft!DequeSpec
=============================================================================
