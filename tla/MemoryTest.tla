----------------------------- MODULE MemoryTest -----------------------------
(***************************************************************************)
(* main() of src/P2/kernel.C: it builds the kernel pool, runs              *)
(* test_memory(&kernel_mem_pool, 32) and then exhaustive_memory_test(),   *)
(* which builds mem_pool and mem_pool2 on its stack and drives them        *)
(* through a fixed script.  Every release goes through the static         *)
(* ContFramePool::release_frames, which finds the owning pool in the       *)
(* registry pools[0 .. npools-1] that the constructors fill.               *)
(*                                                                         *)
(* Each pool is a ContFramePool state [bitmap, nFree, halted]; "registry"  *)
(* is the sequence of pools constructed so far.  The test's local          *)
(* variables (a, b, c, d, adds1[], adds2[]) are the function "vals" from   *)
(* slot names to the frame numbers get_frames returned.                    *)
(***************************************************************************)
EXTENDS Integers, Sequences, SequencesExt, FiniteSets

CONSTANTS
  KernStart, KernSize,  \* KERNEL_POOL_START_FRAME, KERNEL_POOL_SIZE
  MemStart, Mem2Start,  \* mem_pool's and mem_pool2's base frames
  MemSize,              \* _n_frames of both (1024)
  TestAllocs,           \* test_memory's _allocs_to_go (32)
  SizeA, SizeB, SizeC, SizeD, \* the get_frames sizes of a, b, c and d
  N1,                   \* length of adds1 (1023)
  N7, Run7              \* length of adds2 (146) and its run size (7)

KERN == "kern"
MEM1 == "mem1"
MEM2 == "mem2"
PoolIds == {KERN, MEM1, MEM2}

VARIABLES
  pools,     \* pool id -> [bitmap, nFree, halted]
  registry,  \* pools[0 .. npools-1], as a sequence of pool ids
  pc,        \* "tm" (test_memory), "ex" (exhaustive test), "done", "failed"
  depth,     \* _allocs_to_go of test_memory's next call
  stack,     \* test_memory's frames in progress: [allocs, frame, n]
  clobbered, \* stack positions whose value_array a later call overwrote
  step,      \* <<statement, loop index>> in the exhaustive test's script
  vals,      \* the exhaustive test's locals: slot -> frame number
  held       \* the runs the kernel holds: [pool, start, n]

vars == <<pools, registry, pc, depth, stack, clobbered, step, vals, held>>

\* The three pools as main and exhaustive_memory_test construct them: each
\* keeps its bitmap in its first frame (_info_frame_no = 0, 0 info frames).
Kern == INSTANCE ContFramePool
          WITH BaseFrame <- KernStart, NRequested <- KernSize,
               InternalBitmap <- TRUE, NInfoFrames <- 0, MaxRequest <- 1,
               ReleaseOrder <- "LIFO", HoleCalls <- {}, FreeCountFloor <- 0,
               MaxHeld <- 0, Registered <- << >>, bitmap <- pools[KERN].bitmap,
               nFreeFrames <- pools[KERN].nFree, halted <- pools[KERN].halted,
               held <- << >>, hole <- << >>, started <- TRUE
Mem1 == INSTANCE ContFramePool
          WITH BaseFrame <- MemStart, NRequested <- MemSize,
               InternalBitmap <- TRUE, NInfoFrames <- 0, MaxRequest <- 1,
               ReleaseOrder <- "LIFO", HoleCalls <- {}, FreeCountFloor <- 0,
               MaxHeld <- 0, Registered <- << >>, bitmap <- pools[MEM1].bitmap,
               nFreeFrames <- pools[MEM1].nFree, halted <- pools[MEM1].halted,
               held <- << >>, hole <- << >>, started <- TRUE
Mem2 == INSTANCE ContFramePool
          WITH BaseFrame <- Mem2Start, NRequested <- MemSize,
               InternalBitmap <- TRUE, NInfoFrames <- 0, MaxRequest <- 1,
               ReleaseOrder <- "LIFO", HoleCalls <- {}, FreeCountFloor <- 0,
               MaxHeld <- 0, Registered <- << >>, bitmap <- pools[MEM2].bitmap,
               nFreeFrames <- pools[MEM2].nFree, halted <- pools[MEM2].halted,
               held <- << >>, hole <- << >>, started <- TRUE

\* base_frame_no and _n_frames of each pool.
Base == [p \in PoolIds |-> CASE p = KERN -> KernStart
                             [] p = MEM1 -> MemStart
                             [] p = MEM2 -> Mem2Start]
Size == [p \in PoolIds |-> IF p = KERN THEN KernSize ELSE MemSize]

\* A pool as its constructor leaves it.
Boot(p) == [bitmap |-> CASE p = KERN -> Kern!InitBitmap
                         [] p = MEM1 -> Mem1!InitBitmap
                         [] p = MEM2 -> Mem2!InitBitmap,
            nFree |-> Size[p], halted |-> FALSE]

\* pool->get_frames(n) and pool->release_frame(f) on pool p's state.
GetOn(p, n) == CASE p = KERN -> Kern!GetFramesOn(pools[p], n)
                 [] p = MEM1 -> Mem1!GetFramesOn(pools[p], n)
                 [] p = MEM2 -> Mem2!GetFramesOn(pools[p], n)
ReleaseOn(p, f) == CASE p = KERN -> Kern!ReleaseFrameOn(pools[p], f - Base[p])
                     [] p = MEM1 -> Mem1!ReleaseFrameOn(pools[p], f - Base[p])
                     [] p = MEM2 -> Mem2!ReleaseFrameOn(pools[p], f - Base[p])

\* Mutant of Register: pools[npools] = this without npools++, so each new
\* pool takes the last one's place.
RegisterOverwrite(p) ==
  registry' = IF registry = << >> THEN << p >>
              ELSE [registry EXCEPT ![Len(registry)] = p]

\* The constructor's pools[npools] = this; npools++.
Register(p) == registry' = Append(registry, p)

\* The static release_frames(f): the first registered pool with
\* base_frame_no <= f < base_frame_no + nframes gets release_frame(f); a
\* frame no pool owns is ignored.
OwnerIn(reg, f) ==
  LET owners == {i \in 1 .. Len(reg) :
                   Base[reg[i]] <= f /\ f < Base[reg[i]] + Kern!RoundFrames(Size[reg[i]])}
  IN IF owners = {} THEN 0 ELSE Min(owners)

ReleaseFrames(f) ==
  LET i == OwnerIn(registry, f) IN
  pools' = IF i = 0 THEN pools ELSE [pools EXCEPT ![registry[i]] = ReleaseOn(registry[i], f)]

halted == \E p \in PoolIds : pools[p].halted

RunOf(r) == r.start .. r.start + r.n - 1

(***************************************************************************)
(* test_memory(_pool, _allocs_to_go): get_frames(_allocs_to_go % 4 + 1),  *)
(* fill the run with _allocs_to_go, recurse with _allocs_to_go - 1, check *)
(* the run still holds _allocs_to_go, release_frames(frame).  A failed    *)
(* check prints "MEMORY TEST FAILED" and spins.                           *)
(***************************************************************************)

\* A call with _allocs_to_go > 0, up to its recursive call: the run it
\* fills overwrites the value_array of every call in progress it meets.
TMCall ==
  LET n == (depth % 4) + 1
      c == GetOn(KERN, n)
      r == [pool |-> KERN, start |-> c.ret, n |-> n]
  IN
  /\ pc = "tm" /\ depth > 0
  /\ pools' = [pools EXCEPT ![KERN] = c.pool]
  /\ stack' = Append(stack, [allocs |-> depth, frame |-> c.ret, n |-> n])
  /\ clobbered' = clobbered \cup {k \in 1 .. Len(stack) :
                    RunOf([start |-> stack[k].frame, n |-> stack[k].n]) \cap RunOf(r) # {}}
  /\ held' = IF c.ret = 0 THEN held ELSE held \cup {r}
  /\ depth' = depth - 1
  /\ UNCHANGED <<registry, pc, step, vals>>

\* The innermost call in progress returns from its recursive call: it
\* checks its run and releases it, or finds it overwritten and spins.
TMReturn ==
  LET top == stack[Len(stack)] IN
  /\ pc = "tm" /\ depth = 0 /\ stack # << >>
  /\ IF Len(stack) \in clobbered
     THEN /\ pc' = "failed"
          /\ UNCHANGED <<pools, stack, clobbered, held>>
     ELSE /\ ReleaseFrames(top.frame)
          /\ stack' = Front(stack)
          /\ held' = {h \in held : h.start # top.frame}
          /\ UNCHANGED <<pc, clobbered>>
  /\ UNCHANGED <<registry, depth, step, vals>>

\* test_memory(&kernel_mem_pool, 32) has returned; exhaustive_memory_test
\* begins.
TMDone ==
  /\ pc = "tm" /\ depth = 0 /\ stack = << >>
  /\ pc' = "ex"
  /\ UNCHANGED <<pools, registry, depth, stack, clobbered, step, vals, held>>

(***************************************************************************)
(* exhaustive_memory_test() as a script: each statement constructs a pool *)
(* or runs get_frames or release_frames over a list of slots, one slot a  *)
(* step, as its loops do.                                                  *)
(***************************************************************************)
Slot(name, i) == <<name, i>>
Adds1 == [i \in 1 .. N1 |-> Slot("adds1", i - 1)]
Adds2 == [i \in 1 .. N7 |-> Slot("adds2", i - 1)]
\* for (i = 0; i < len; i += 2)
Evens(sl) == [j \in 1 .. (Len(sl) + 1) \div 2 |-> sl[2 * j - 1]]

New(p, name) == [op |-> "new", pool |-> p, n |-> 0, slots |-> << Slot(name, 0) >>]
Get(p, n, sl) == [op |-> "get", pool |-> p, n |-> n, slots |-> sl]
Rel(sl) == [op |-> "rel", pool |-> KERN, n |-> 0, slots |-> sl]

Script ==
  << New(MEM1, "mem_pool"),
     Get(MEM1, SizeA, << Slot("a", 0) >>),
     Get(MEM1, SizeB, << Slot("b", 0) >>),
     Get(MEM1, SizeC, << Slot("c", 0) >>),
     New(MEM2, "mem_pool2"),
     Get(MEM2, SizeD, << Slot("d", 0) >>),
     Rel(<< Slot("a", 0), Slot("d", 0), Slot("b", 0), Slot("c", 0) >>),
     Get(MEM1, 1, Adds1), Rel(Evens(Adds1)), Get(MEM1, 1, Evens(Adds1)), Rel(Adds1),
     Get(MEM1, Run7, Adds2), Rel(Evens(Adds2)), Get(MEM1, Run7, Evens(Adds2)), Rel(Adds2) >>

Slots == UNION {ToSet(Script[k].slots) : k \in 1 .. Len(Script)}

Stmt == Script[step[1]]
Current == Stmt.slots[step[2]]
Advance == step' = IF step[2] < Len(Stmt.slots) THEN <<step[1], step[2] + 1>>
                                                ELSE <<step[1] + 1, 1>>

\* ContFramePool mem_pool(...): the constructor initialises the pool's
\* bitmap and counter and registers it.
ExNew(p) ==
  /\ pools' = [pools EXCEPT ![p] = Boot(p)]
  /\ Register(p)
  /\ UNCHANGED <<vals, held>>

\* slot = pool.get_frames(n).
ExGet(p, n) ==
  LET c == GetOn(p, n) IN
  /\ pools' = [pools EXCEPT ![p] = c.pool]
  /\ vals' = [vals EXCEPT ![Current] = c.ret]
  /\ held' = IF c.ret = 0 THEN held ELSE held \cup {[pool |-> p, start |-> c.ret, n |-> n]}
  /\ UNCHANGED registry

\* ContFramePool::release_frames(slot).
ExRel ==
  /\ ReleaseFrames(vals[Current])
  /\ held' = {h \in held : h.start # vals[Current]}
  /\ UNCHANGED <<registry, vals>>

ExStep ==
  /\ pc = "ex" /\ step[1] <= Len(Script)
  /\ \/ Stmt.op = "new" /\ ExNew(Stmt.pool)
     \/ Stmt.op = "get" /\ ExGet(Stmt.pool, Stmt.n)
     \/ Stmt.op = "rel" /\ ExRel
  /\ Advance
  /\ UNCHANGED <<pc, depth, stack, clobbered>>

\* The test's last statement has run; main loops for ever.
ExDone ==
  /\ pc = "ex" /\ step[1] > Len(Script)
  /\ pc' = "done"
  /\ UNCHANGED <<pools, registry, depth, stack, clobbered, step, vals, held>>

\* main constructs kernel_mem_pool, which registers itself, and calls
\* test_memory(&kernel_mem_pool, TestAllocs).  The other pools' memory is
\* not a pool until their constructors run; they are given their
\* constructed value here and reinitialised by ExNew.
Init ==
  /\ pools = [p \in PoolIds |-> Boot(p)]
  /\ registry = << KERN >>
  /\ pc = "tm"
  /\ depth = TestAllocs
  /\ stack = << >>
  /\ clobbered = {}
  /\ step = <<1, 1>>
  /\ vals = [s \in Slots |-> 0]
  /\ held = {}

\* A failed assert stops the kernel; after the test, or after a failed
\* check, main spins.
Idle == (halted \/ pc \in {"done", "failed"}) /\ UNCHANGED vars

Run == ~halted /\ (TMCall \/ TMReturn \/ TMDone \/ ExStep \/ ExDone)

\* Next takes only the steps of main that change the state, so that a
\* state where main could only repeat itself has no successor and is
\* reported as a deadlock.
Next == <<Run>>_vars \/ Idle

Spec == Init /\ [][Next]_vars

\* main is running: no assert has stopped the kernel and neither test has
\* ended or spun in "MEMORY TEST FAILED".  With deadlock checked, Running
\* is exactly ENABLED <<Run>>_vars: every Run action needs it, and a
\* Running state with no Run step that changes the state has no successor.
Running == ~halted /\ pc \in {"tm", "ex"}

\* main runs alone on the one CPU, so while it can take a step it does:
\* weak fairness of Run, WF_vars(Run), with its ENABLED written as Running
\* (TLC's evaluation of ENABLED through the pools' scans is far slower).
FairSpec == Spec /\ (<>[]Running => []<><<Run>>_vars)

(***************************************************************************)
(* Properties                                                              *)
(***************************************************************************)

\* The runs main's tests hold never share a frame, within a pool or across
\* them: the scan, which counts FREE frames that need not be adjacent,
\* never hands out a frame of a held run, through test_memory's recursion
\* and the exhaustive test's every-other release and reallocation.
\* (Two runs overlap exactly when they share a start or one starts inside
\* the other.)
TestRunsDisjoint ==
  LET starts == {h.start : h \in held}
      inner  == UNION {RunOf(h) \ {h.start} : h \in held}
  IN Cardinality(starts) = Cardinality(held) /\ starts \cap inner = {}

\* The registry routes every run the kernel holds back to the pool that
\* handed it out: release_frames' first match on base_frame_no and the
\* rounded nframes, over the pools in construction order, is that pool.
ReleaseFindsOwner ==
  \A h \in held :
    LET i == OwnerIn(registry, h.start) IN i # 0 /\ registry[i] = h.pool



\* main runs to its end: test_memory's 32 nested calls return and every
\* statement and loop of exhaustive_memory_test completes, reaching
\* "Successfully completed exhaustive memory test".  No assert stops the
\* kernel, no check of test_memory spins in "MEMORY TEST FAILED", and no
\* loop runs for ever.
MainCompletes == <>(pc = "done")

====
