------------------------------ MODULE Scheduler ------------------------------
(***************************************************************************)
(* The cooperative scheduler of src/P5/scheduler.C.  ready_queue is a      *)
(* LinkedList<Thread * >; the list implements ListQueue (LinkedList's      *)
(* ListQueueSpec), so the queue is a sequence here.  "running" is the     *)
(* thread on the CPU: Thread::CurrentThread().  Only the running thread   *)
(* calls the scheduler, and control changes thread only in yield's        *)
(* dispatch_to.                                                            *)
(***************************************************************************)
EXTENDS Integers, Sequences, SequencesExt

CONSTANTS
  Threads,  \* the threads
  NULL      \* front()'s result on an empty list

VARIABLES running, ready

schedVars == <<running, ready>>

\* ready_queue.front(): the head's data, or NULL on an empty list.
QFront(q) == IF q # << >> THEN Head(q) ELSE NULL

\* ready_queue.pop_front(): nothing on an empty list.
QPopFront(q) == IF q # << >> THEN Tail(q) ELSE q

\* Mutant of QPushBack: the P5 draft's push_back, which links the new node
\* in at the head.
QPushFrontDraft(q, t) == <<t>> \o q

\* ready_queue.push_back(t).
QPushBack(q, t) == Append(q, t)

\* add(t) and resume(t) on queue q: push_back.
Add(q, t) == QPushBack(q, t)
Resume(q, t) == QPushBack(q, t)

\* terminate(t) on queue q: remove(t) drops every occurrence of t.
Terminate(q, t) == SelectSeq(q, LAMBDA x : x # t)

\* Mutant of Yield: dispatch_to is called without the NULL test.
YieldNoNullCheck(r, q) ==
  /\ ready' = QPopFront(q)
  /\ running' = QFront(q)

\* yield() called by thread r on queue q: take the front, pop it, and
\* dispatch to it unless it was NULL, in which case r goes on running.
Yield(r, q) ==
  LET next == QFront(q) IN
  /\ ready' = QPopFront(q)
  /\ running' = IF next # NULL THEN next ELSE r

\* The Scheduler() constructor builds an empty queue; the kernel then adds
\* every thread but the one it runs first.
Init ==
  /\ running \in Threads
  /\ \E s \in [1 .. Cardinality(Threads) - 1 -> Threads] :
       /\ ToSet(s) = Threads \ {running}
       /\ ready = s

=============================================================================
