----------------------------- MODULE BlockingDisk -----------------------------
(***************************************************************************)
(* Threads doing disk I/O through src/P6/blocking_disk.C on the scheduler  *)
(* of src/P5/scheduler.C.  read and write issue the command to the one    *)
(* controller, then wait_until_ready loops: while the controller is busy, *)
(* add(current) and yield.  Once it is ready the 256-word port transfer   *)
(* runs with no yield in it, so it is one step that moves the block the   *)
(* controller holds.  The controller (SimpleDisk, outside src/) finishes  *)
(* a command at some later time, concurrently with the threads.           *)
(*                                                                         *)
(* The thread bodies are the clients spec 4.4 and 4.5 describe: a thread  *)
(* does any number of disk operations, may pass the CPU (resume(self);    *)
(* yield), may terminate another thread (spec 6, scenario 6), and ends    *)
(* with terminate(self); yield.                                            *)
(***************************************************************************)
EXTENDS Integers, Sequences, SequencesExt, FiniteSets

CONSTANTS
  Threads,  \* the threads
  Blocks,   \* block numbers the threads access
  NULL      \* front()'s NULL

VARIABLES
  running,  \* Thread::CurrentThread()
  ready,    \* the scheduler's ready queue
  pc,       \* "run" (thread body), "wait" (in wait_until_ready), "done"
  disk,     \* the controller: busy flag and the command it holds
  want,     \* want[t]: the command t issued last
  got,      \* got[t]: the command whose data t's last transfer moved
  laps      \* laps[t]: parity of the passes t's body has made

vars == <<running, ready, pc, disk, want, got, laps>>

S == INSTANCE Scheduler

Ops == {"READ", "WRITE"}
Command == [op : Ops, block : Blocks]

Init ==
  /\ S!Init
  /\ pc = [t \in Threads |-> "run"]
  /\ disk = [busy |-> FALSE, cmd |-> NULL]
  /\ want = [t \in Threads |-> NULL]
  /\ got = [t \in Threads |-> NULL]
  /\ laps = [t \in Threads |-> 0]

\* read(_block_no, _buf) and write(_block_no, _buf), up to the wait:
\* issue_operation hands the command to the controller, which goes busy.
Issue(r, op, b) ==
  /\ pc[r] = "run"
  /\ disk' = [busy |-> TRUE, cmd |-> [op |-> op, block |-> b]]
  /\ want' = [want EXCEPT ![r] = [op |-> op, block |-> b]]
  /\ pc' = [pc EXCEPT ![r] = "wait"]
  /\ UNCHANGED <<running, ready, got, laps>>

\* Mutant of WaitUntilReady: the busy branch yields without add(current).
WaitUntilReadyNoAdd(r) ==
  /\ pc[r] = "wait"
  /\ \/ /\ ~disk.busy
        /\ got' = [got EXCEPT ![r] = disk.cmd]
        /\ pc' = [pc EXCEPT ![r] = "run"]
        /\ UNCHANGED <<running, ready>>
     \/ /\ disk.busy
        /\ S!Yield(r, ready)
        /\ UNCHANGED <<pc, got>>
  /\ UNCHANGED <<disk, want, laps>>

WaitUntilReady(r) ==
  /\ pc[r] = "wait"
  /\ \/ /\ ~disk.busy
        /\ got' = [got EXCEPT ![r] = disk.cmd]
        /\ pc' = [pc EXCEPT ![r] = "run"]
        /\ UNCHANGED <<running, ready>>
     \/ /\ disk.busy
        /\ S!Yield(r, S!Add(ready, r))
        /\ UNCHANGED <<pc, got>>
  /\ UNCHANGED <<disk, want, laps>>

\* The thread body passes the CPU: resume(self); yield.  A body may pass
\* in a loop for ever; laps makes each pass a step even when yield
\* dispatches back to the same thread.
Pass(r) ==
  /\ pc[r] = "run"
  /\ S!Yield(r, S!Resume(ready, r))
  /\ laps' = [laps EXCEPT ![r] = 1 - @]
  /\ UNCHANGED <<pc, disk, want, got>>

\* The thread body terminates thread t, which stops for good.
Kill(r, t) ==
  /\ pc[r] = "run"
  /\ t # r
  /\ pc[t] # "done"
  /\ ready' = S!Terminate(ready, t)
  /\ pc' = [pc EXCEPT ![t] = "done"]
  /\ UNCHANGED <<running, disk, want, got, laps>>

\* The thread body ends: terminate(self); yield.
Finish(r) ==
  /\ pc[r] = "run"
  /\ pc' = [pc EXCEPT ![r] = "done"]
  /\ S!Yield(r, S!Terminate(ready, r))
  /\ UNCHANGED <<disk, want, got, laps>>

\* A step of the thread on the CPU.
RunStep(r) ==
  \/ \E op \in Ops, b \in Blocks : Issue(r, op, b)
  \/ WaitUntilReady(r)
  \/ Pass(r)
  \/ \E t \in Threads : Kill(r, t)
  \/ Finish(r)

\* The controller completes its command.
DiskReady ==
  /\ disk.busy
  /\ disk' = [disk EXCEPT !.busy = FALSE]
  /\ UNCHANGED <<running, ready, pc, want, got, laps>>

\* Every thread has finished: the last one's yield found the queue empty
\* and returned to it, and the kernel has nothing left to run.
AllDone == pc[running] = "done" /\ UNCHANGED vars

Next == RunStep(running) \/ DiskReady \/ AllDone

\* The CPU keeps executing the running thread, and the controller keeps
\* working on a command it holds.
Fairness == WF_vars(RunStep(running)) /\ WF_vars(DiskReady)

Spec == Init /\ [][Next]_vars /\ Fairness

(***************************************************************************)
(* Properties                                                              *)
(***************************************************************************)

TypeOK ==
  /\ running \in Threads
  /\ ready \in Seq(Threads)
  /\ pc \in [Threads -> {"run", "wait", "done"}]
  /\ disk \in [busy : BOOLEAN, cmd : Command \cup {NULL}]
  /\ want \in [Threads -> Command \cup {NULL}]
  /\ got \in [Threads -> Command \cup {NULL}]
  /\ laps \in [Threads -> {0, 1}]

\* wait_until_ready, pass and terminate lose no thread and queue none
\* twice: a thread that has not ended is on the CPU or in the ready queue
\* exactly once, the running thread is not queued, and an ended thread is
\* never queued again.
NoThreadLost ==
  \A t \in Threads :
    LET n == Cardinality({i \in 1 .. Len(ready) : ready[i] = t}) IN
    IF pc[t] = "done" \/ t = running THEN n = 0 ELSE n = 1

\* Every read or write moves the data of the command its own thread
\* issued: the controller holds that command when the thread's wait ends.
TransferMatchesCommand ==
  \A t \in Threads : pc[t] = "run" /\ got[t] # NULL => got[t] = want[t]

YieldsForever == []<><<ready' # ready \/ running' # running \/ laps' # laps>>_vars

\* As long as yield keeps running, every thread that has not ended gets
\* the CPU again: add, resume and the passes of the other threads keep
\* the ready queue FIFO, so each yield brings the thread nearer the front
\* however the others loop.
RunsAgain ==
  YieldsForever =>
    \A t \in Threads : (pc[t] # "done" /\ t # running) ~> (t = running \/ pc[t] = "done")

=============================================================================
