---------------------------- MODULE PageTableP3 ----------------------------
(***************************************************************************)
(* The P3 page table of src/P3/page_table.C: a two-level x86 table with no *)
(* recursive entry.  The directory and every inner table come from the     *)
(* kernel pool, data pages from the process pool.  Directory entry 0 maps *)
(* the shared low region and never faults; entries 1 .. Entries-1 are      *)
(* filled on demand by handle_fault, which checks no address and no       *)
(* get_frames result.  Pools are ContFramePool states; an entry is a frame *)
(* number or NotPresent; "tables" maps a frame to the inner table in it.   *)
(* Faults happen once the boot code has loaded the table and enabled      *)
(* paging.                                                                 *)
(***************************************************************************)
EXTENDS Integers, FiniteSets

CONSTANTS
  Entries,    \* ENTRIES_PER_PAGE
  PageSize,   \* PAGE_SIZE, in the model's address unit
  KernBase,   \* base_frame_no of the kernel pool (bitmap in its first frame)
  KernFrames, \* _n_frames of the kernel pool
  ProcBase,   \* base_frame_no of the process pool (external bitmap)
  ProcFrames  \* _n_frames of the process pool

ASSUME Entries \in Nat /\ Entries >= 2 /\ PageSize \in Nat \ {0}

VARIABLES
  kern,   \* the kernel pool: [bitmap, nFree, halted]
  proc,   \* the process pool: [bitmap, nFree, halted]
  pde,    \* directory index in FaultDirs -> entry
  tables, \* frame -> the inner table stored in it
  loaded,        \* current_page_table = this (load() has run)
  pagingEnabled  \* paging_enabled = 1 (enable_paging() has run)

regs == <<loaded, pagingEnabled>>
p3Vars == <<kern, proc, pde, tables, regs>>

\* The two pools as main builds them: the kernel pool keeps its bitmap in
\* its first frame, the process pool in an info frame of its own.
Kern == INSTANCE ContFramePool
          WITH BaseFrame <- KernBase, NRequested <- KernFrames,
               InternalBitmap <- TRUE, NInfoFrames <- 0, MaxRequest <- 1,
               ReleaseOrder <- "ANY", HoleCalls <- {}, FreeCountFloor <- 0,
               MaxHeld <- 0, Registered <- << >>, bitmap <- kern.bitmap,
               nFreeFrames <- kern.nFree, halted <- kern.halted,
               held <- << >>, hole <- << >>, started <- TRUE
Proc == INSTANCE ContFramePool
          WITH BaseFrame <- ProcBase, NRequested <- ProcFrames,
               InternalBitmap <- FALSE, NInfoFrames <- 1, MaxRequest <- 1,
               ReleaseOrder <- "ANY", HoleCalls <- {}, FreeCountFloor <- 0,
               MaxHeld <- 0, Registered <- << >>, bitmap <- proc.bitmap,
               nFreeFrames <- proc.nFree, halted <- proc.halted,
               held <- << >>, hole <- << >>, started <- TRUE

NotPresent == -1
Present(e) == e # NotPresent

Tix == 0 .. Entries - 1
FaultDirs == 1 .. Entries - 1
\* get_frames returns 0 or a frame of its pool.
TableFrames == {0} \cup Kern!PoolFrames
PageFrames == {0} \cup Proc!PoolFrames

\* fault_addr >> 22 and (fault_addr >> 12) & 0x3FF.
PDI(a) == a \div (PageSize * Entries)
PTI(a) == (a \div PageSize) % Entries

\* A pool as its constructor leaves it.
KernBoot == [bitmap |-> Kern!InitBitmap, nFree |-> KernFrames, halted |-> FALSE]
ProcBoot == [bitmap |-> Proc!InitBitmap, nFree |-> ProcFrames, halted |-> Proc!BitmapTooSmall]

\* The constructor: the directory and the first inner table (identity map
\* of the shared region) from the kernel pool; entries 1.. not present.
DirAlloc == Kern!GetFramesOn(KernBoot, 1)
Table0Alloc == Kern!GetFramesOn(DirAlloc.pool, 1)

\* The statics before load and enable_paging: current_page_table is NULL
\* and paging_enabled is 0.
BootStatics == loaded = FALSE /\ pagingEnabled = FALSE

Init ==
  /\ BootStatics
  /\ kern = Table0Alloc.pool
  /\ proc = ProcBoot
  /\ pde = [d \in FaultDirs |-> NotPresent]
  /\ tables = [f \in TableFrames |-> [t \in Tix |-> NotPresent]]

halted == kern.halted \/ proc.halted

\* load(): write_cr3(page_directory) and current_page_table = this.
Load ==
  /\ loaded' = TRUE
  /\ UNCHANGED <<kern, proc, pde, tables, pagingEnabled>>

\* enable_paging(): set CR0's paging bit and paging_enabled = 1.
EnablePaging ==
  /\ pagingEnabled' = TRUE
  /\ UNCHANGED <<kern, proc, pde, tables, loaded>>

\* Only a loaded table with paging on makes an access fault into it.
Translating == loaded /\ pagingEnabled

\* The kernel's boot order: load(), then enable_paging(), each once.
Boot ==
  \/ ~loaded /\ Load
  \/ loaded /\ ~pagingEnabled /\ EnablePaging

Mapped(d, t) == Present(pde[d]) /\ Present(tables[pde[d]][t])

\* handle_fault for address a: a missing directory entry gets a kernel
\* frame and its table is filled with 2 (not present); then the page gets
\* a process frame.  Neither get_frames result is checked; a failed assert
\* stops the kernel where it is.
HandleFault(a) ==
  LET d == PDI(a)
      t == PTI(a)
      newTable == ~Present(pde[d])
      c1 == IF newTable THEN Kern!GetFramesOn(kern, 1)
                        ELSE [pool |-> kern, ret |-> pde[d]]
      tables1 == IF newTable
                 THEN [tables EXCEPT ![c1.ret] = [i \in Tix |-> NotPresent]]
                 ELSE tables
      c2 == Proc!GetFramesOn(proc, 1)
  IN
  /\ ~halted
  /\ Translating
  /\ d \in FaultDirs
  /\ ~Mapped(d, t)
  /\ kern' = c1.pool
  /\ \/ /\ c1.pool.halted
        /\ UNCHANGED <<proc, pde, tables>>
     \/ /\ ~c1.pool.halted
        /\ pde' = [pde EXCEPT ![d] = c1.ret]
        /\ proc' = c2.pool
        /\ tables' = IF c2.pool.halted THEN tables1
                     ELSE [tables1 EXCEPT ![c1.ret][t] = c2.ret]
  /\ UNCHANGED regs

FaultAddrs == {(d * Entries + t) * PageSize : d \in FaultDirs, t \in Tix}

Halted == halted /\ UNCHANGED p3Vars

Next ==
  \/ Boot
  \/ \E a \in FaultAddrs : HandleFault(a)
  \/ Halted

Spec == Init /\ [][Next]_p3Vars

(***************************************************************************)
(* Properties                                                              *)
(***************************************************************************)

PresentDirs == {d \in FaultDirs : Present(pde[d])}
MappedPages == {dt \in FaultDirs \X Tix : Mapped(dt[1], dt[2])}

\* The frames the table structure holds: [pool, frame, at], "at" naming
\* the holder (directory, first table, inner table of d, page (d, t)).
Holdings ==
  {[pool |-> "kern", frame |-> DirAlloc.ret, at |-> <<"dir", 0, 0>>],
   [pool |-> "kern", frame |-> Table0Alloc.ret, at |-> <<"table0", 0, 0>>]}
    \cup {[pool |-> "kern", frame |-> pde[d], at |-> <<"table", d, 0>>] : d \in PresentDirs}
    \cup {[pool |-> "proc", frame |-> tables[pde[dt[1]]][dt[2]], at |-> <<"page", dt[1], dt[2]>>] :
            dt \in MappedPages}

PoolHasHead(pool, f) ==
  IF pool = "kern"
  THEN f \in Kern!PoolFrames /\ kern.bitmap[f - KernBase] = Kern!HEAD
  ELSE f \in Proc!PoolFrames /\ proc.bitmap[f - ProcBase] = Proc!HEAD

\* handle_fault keeps the table and the two pools in step: the directory,
\* every inner table and every mapped page sit in distinct frames, each a
\* run head its pool handed out.  It fails if a failed get_frames (0) is
\* installed as an inner table or a page.
MappingsExclusive ==
  \A h1, h2 \in Holdings :
    /\ PoolHasHead(h1.pool, h1.frame)
    /\ h1.at # h2.at => h1.frame # h2.frame

=============================================================================
