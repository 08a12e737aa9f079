--------------------------- MODULE VirtualMemory ---------------------------
(***************************************************************************)
(* The P4 memory system end to end: VM pools (VMPool) registered with one *)
(* page table (PageTable) that takes frames from the process pool          *)
(* (ContFramePool).  The kernel allocates regions, writes to their pages, *)
(* and releases them.  Allocation touches no page-table state; the first  *)
(* write to a page faults, and handle_fault asks every registered pool    *)
(* whether the address is legitimate before it maps a frame.              *)
(***************************************************************************)
EXTENDS Integers, Sequences, SequencesExt, FiniteSets

CONSTANTS
  Entries, PageSize, ProcBase, ProcFrames, ProcInternalBitmap, \* as in PageTable
  VMPoolIds, VMBase, VMSizeArg, Sizes, MaxHeld       \* as in VMPool

VARIABLES
  bitmap, nFreeFrames, pde, tables, vmPools, \* PageTable and its process pool
  loaded, pagingEnabled,                     \* PageTable's CR3 and CR0 state
  regions, constructed, held,                \* VMPool and the kernel's regions
  halted                                     \* the kernel stopped

vars == <<bitmap, nFreeFrames, pde, tables, vmPools, loaded, pagingEnabled,
         regions, constructed, held, halted>>
ptOnly == <<bitmap, nFreeFrames, pde, tables, vmPools, loaded, pagingEnabled>>
vmOnly == <<regions, constructed, held>>

\* 2^32 = 1024 directory entries * 1024 table entries * 4 KB.
AddrSpace == Entries * Entries * PageSize

PT == INSTANCE PageTable WITH Legitimate <- LAMBDA p, a : FALSE
VM == INSTANCE VMPool WITH Word <- AddrSpace

\* is_legitimate of each pool, over the fault addresses, in this state.
LegitAddrs == [p \in VMPoolIds |-> {a \in PT!FaultAddrs : VM!IsLegitimate(p, a)}]

Init == PT!Init /\ VM!Init

\* The VMPool constructor: the alignment assert (on an indeterminate
\* value), register_pool, then the write of allocated_list[0], which
\* faults on the window's first page.  is_legitimate answers true for this
\* pool because its list is still empty.  If the fault stops the kernel,
\* the record is never written.  The kernel builds its pools after
\* pt.load() and enable_paging() (spec 6), so the write goes through the
\* page table.
ConstructPool(p) ==
  LET pools == Append(vmPools, p)
      base == VMBase[p]
  IN
  /\ ~halted
  /\ PT!Translating
  /\ p \notin constructed
  /\ \/ /\ halted' = TRUE
        /\ UNCHANGED <<ptOnly, vmOnly>>
     \/ /\ vmPools' = pools
        /\ PT!Access(base, PT!CheckAddress(pools, base, LegitAddrs))
        /\ IF halted' THEN UNCHANGED <<regions, constructed>> ELSE VM!WriteListHead(p)
        /\ UNCHANGED held

Allocate(p, s) == VM!Allocate(p, s) /\ UNCHANGED ptOnly

Release(p, k) == VM!Release(p, k) /\ UNCHANGED ptOnly

\* The pages of [start, start + req) that the kernel writes, among those of
\* the demand-filled directory entries (the shared region of entry 0 is
\* always mapped, and no VM pool lies in the self-mapped last entry).
RegionPages(r) ==
  {VM!U(r.start + i * PageSize) : i \in 0 .. (r.req + PageSize - 1) \div PageSize - 1}
    \cap PT!FaultAddrs

\* The kernel writes to address a of a region it holds.
Touch(a) ==
  /\ PT!Access(a, PT!CheckAddress(vmPools, a, LegitAddrs))
  /\ UNCHANGED <<vmPools, regions, constructed, held>>

Halted == halted /\ UNCHANGED vars

Next ==
  \/ PT!Boot /\ UNCHANGED vmOnly
  \/ \E p \in VMPoolIds : ConstructPool(p)
  \/ \E p \in VMPoolIds, s \in Sizes : Allocate(p, s)
  \/ \E p \in VMPoolIds : \E k \in 1 .. Len(held[p]) : Release(p, k)
  \/ \E p \in VMPoolIds : \E k \in 1 .. Len(held[p]) :
       \E a \in RegionPages(held[p][k]) : Touch(a)
  \/ Halted

Spec == Init /\ [][Next]_vars

(***************************************************************************)
(* Properties                                                              *)
(***************************************************************************)

\* The page table's and the VM pools' type invariants.
TypeOK == PT!TypeOK /\ VM!TypeOK

\* VMPool's RegionsWellFormed: each list is sorted, non-overlapping and
\* inside its window.
RegionsWellFormed == VM!RegionsWellFormed

\* VMPool's AllocationCoversRequest: allocate(s) returns a region of at
\* least s bytes or stops the kernel.
AllocationCoversRequest == VM!AllocationCoversRequest

\* Every page the kernel may write in a region it holds passes
\* check_address, so the write never aborts the kernel: allocate records
\* the region in its pool's list, the constructor registered that pool
\* with the page table before, and check_address accepts an address that
\* any registered pool, not only the last one, calls legitimate.
HeldPagesLegitimate ==
  \A p \in VMPoolIds : \A k \in 1 .. Len(held[p]) :
    \A a \in RegionPages(held[p][k]) : PT!CheckAddress(vmPools, a, LegitAddrs)

\* Address a is inside a region the kernel holds, or is a pool's list page.
InUse(a) ==
  \E p \in constructed :
    \/ VMBase[p] <= a /\ a < VMBase[p] + PageSize
    \/ \E k \in 1 .. Len(held[p]) :
         held[p][k].start <= a /\ a < held[p][k].start + VM!RoundUp(held[p][k].req)

\* After release, the pages of a region are unmapped and their frames go
\* back to the process pool (spec 2 and 4.3: the VM pool has the page table
\* tear the mappings down): every mapped page is in use.
ReleasedPagesUnmapped ==
  \A dt \in PT!MappedPages : InUse(PT!PageAddr(dt[1], dt[2]))

=============================================================================
