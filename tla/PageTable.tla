----------------------------- MODULE PageTable -----------------------------
(***************************************************************************)
(* The P4 page table of src/P4/page_table.C: a two-level x86 table whose   *)
(* last directory entry points at the directory itself, so that the fault *)
(* handler reaches every PDE and PTE through fixed virtual addresses.      *)
(*                                                                         *)
(* Directory entry 0 maps the shared low region and never faults; the last *)
(* entry is the recursive self-map.  Entries 1 .. Entries-2 are filled on *)
(* demand by handle_fault, which takes one frame from the process pool for *)
(* a missing inner table and one for a missing page, and emptied page by  *)
(* page by free_page.  An entry is a frame number (present) or NotPresent *)
(* (the word 2: r/w, not present).  Inner tables live in frames: "tables" *)
(* maps a frame to the entries written in it, so two PDEs that hold the   *)
(* same frame share one inner table, as they would in memory.              *)
(***************************************************************************)
EXTENDS Integers, Sequences, SequencesExt, FiniteSets

CONSTANTS
  Entries,            \* ENTRIES_PER_PAGE, for the directory and each inner table
  PageSize,           \* PAGE_SIZE, in the model's address unit
  ProcBase,           \* base_frame_no of the process pool
  ProcFrames,         \* _n_frames of the process pool
  ProcInternalBitmap, \* TRUE iff the process pool keeps its bitmap in its first frame
  VMPoolIds,          \* the VM pools that may register with this table
  Legitimate(_, _)    \* Legitimate(p, a): VM pool p's is_legitimate(a)

ASSUME Entries \in Nat /\ Entries >= 3 /\ PageSize \in Nat \ {0}

VARIABLES
  bitmap, nFreeFrames, \* the process pool (ContFramePool)
  halted,              \* an assert failed or abort() was called
  pde,                 \* directory index in FaultDirs -> entry
  tables,              \* frame -> the inner table stored in it
  vmPools,             \* vmPools[0 .. num_vmPools-1] as a sequence
  loaded,              \* current_page_table = this (CR3 holds this directory)
  pagingEnabled        \* paging_enabled (CR0's paging bit)

regs == <<loaded, pagingEnabled>>
ptVars == <<bitmap, nFreeFrames, halted, pde, tables, vmPools, loaded, pagingEnabled>>

Proc == INSTANCE ContFramePool
          WITH BaseFrame <- ProcBase, NRequested <- ProcFrames,
               InternalBitmap <- ProcInternalBitmap,
               NInfoFrames <- IF ProcInternalBitmap THEN 0 ELSE 1,
               MaxRequest <- 1, ReleaseOrder <- "ANY", HoleCalls <- {},
               FreeCountFloor <- 0, MaxHeld <- 0,
               \* the kernel pool, registered first, owns no frame of the
               \* process pool, so release_frames reaches this pool alone
               Registered <- << >>,
               held <- << >>, hole <- << >>, started <- TRUE

NotPresent == -1
Present(e) == e # NotPresent

Tix == 0 .. Entries - 1
FaultDirs == 1 .. Entries - 2
\* Frames an entry may hold: get_frames returns 0 or a frame of the pool.
EntryFrames == {0} \cup Proc!PoolFrames

\* get_first_10_bits and get_middle_10_bits of a virtual address, and the
\* same split of a page number in free_page (>> 10 and & 0x3FF).
PDI(a) == a \div (PageSize * Entries)
PTI(a) == (a \div PageSize) % Entries
PageAddr(d, t) == (d * Entries + t) * PageSize

\* The constructor: one frame for the directory, one for the first inner
\* table (identity map of the shared region), both from the process pool.
BootPool == [bitmap |-> Proc!InitBitmap, nFree |-> ProcFrames, halted |-> FALSE]
DirAlloc == Proc!GetFramesOn(BootPool, 1)
Table0Alloc == Proc!GetFramesOn(DirAlloc.pool, 1)
DirectoryFrame == DirAlloc.ret
Table0Frame == Table0Alloc.ret

\* The statics before load and enable_paging: current_page_table is NULL
\* and paging_enabled is 0.
BootStatics == loaded = FALSE /\ pagingEnabled = FALSE

Init ==
  /\ bitmap = Table0Alloc.pool.bitmap
  /\ nFreeFrames = Table0Alloc.pool.nFree
  /\ halted = Table0Alloc.pool.halted
  /\ pde = [d \in FaultDirs |-> NotPresent]
  /\ tables = [f \in EntryFrames |-> [t \in Tix |-> NotPresent]]
  /\ vmPools = << >>
  /\ BootStatics

\* load(): write_cr3(page_directory) and current_page_table = this.
Load ==
  /\ loaded' = TRUE
  /\ UNCHANGED <<bitmap, nFreeFrames, halted, pde, tables, vmPools, pagingEnabled>>

\* enable_paging(): set CR0's paging bit and paging_enabled = 1.
EnablePaging ==
  /\ pagingEnabled' = TRUE
  /\ UNCHANGED <<bitmap, nFreeFrames, halted, pde, tables, vmPools, loaded>>

\* The MMU translates through this table: it is loaded and paging is on.
\* Only then does an access fault, and only then do the recursive
\* addresses handle_fault and free_page write through reach this table.
Translating == loaded /\ pagingEnabled

\* The kernel's boot order (spec 6): pt.load(), then enable_paging(),
\* each once.
Boot ==
  \/ ~loaded /\ Load
  \/ loaded /\ ~pagingEnabled /\ EnablePaging

\* The MMU finds a present PDE and a present PTE for page (d, t).
Mapped(d, t) == Present(pde[d]) /\ Present(tables[pde[d]][t])
PTE(d, t) == tables[pde[d]][t]

\* check_address over the registered pools: some pool says a is legitimate;
\* legit[p] is the set of fault addresses p's is_legitimate accepts.
\* Mutant of CheckAddress: valid = vmPools[i]->is_legitimate(address) in
\* the loop, so that the last registered pool's answer wins.
CheckAddressLastWins(pools, a, legit) ==
  Len(pools) > 0 /\ a \in legit[pools[Len(pools)]]

CheckAddress(pools, a, legit) == \E i \in 1 .. Len(pools) : a \in legit[pools[i]]

RegisterPool(p) ==
  /\ vmPools' = Append(vmPools, p)
  /\ UNCHANGED <<bitmap, nFreeFrames, halted, pde, tables, loaded, pagingEnabled>>

\* Mutant of EmptyTable: the loop runs to i <= ENTRIES_PER_PAGE.
EmptyTablePastEnd == [i \in 0 .. Entries |-> NotPresent]

\* The new inner table after handle_fault's loop writes 2 to every entry.
EmptyTable == [i \in Tix |-> NotPresent]

\* Mutant of NewTableNeeded: the PDE's present bit is not tested.
NewTableAlways(d) == TRUE

\* if(!(*pde_addr & 1)): the directory entry is not present.
NewTableNeeded(d) == ~Present(pde[d])

\* handle_fault for a fault at address a; legit is check_address's answer.
\* The result of get_frames is used unchecked: 0 becomes a present entry.
\* If a get_frames assert fails the kernel stops where it was.  The PTE
\* test (!(*pte_addr & 1)) always holds here: the MMU faulted, and a new
\* inner table has just been emptied.
HandleFault(a, legit) ==
  LET d == PDI(a)
      t == PTI(a)
      newTable == NewTableNeeded(d)
      c1 == IF newTable THEN Proc!GetFramesOn(Proc!PoolState, 1)
                        ELSE [pool |-> Proc!PoolState, ret |-> pde[d]]
      tables1 == IF newTable THEN [tables EXCEPT ![c1.ret] = EmptyTable]
                             ELSE tables
      c2 == Proc!GetFramesOn(c1.pool, 1)
  IN
  /\ ~halted
  /\ Translating
  /\ d \in FaultDirs
  /\ ~Mapped(d, t)
  /\ UNCHANGED regs
  /\ \/ /\ ~legit
        /\ halted' = TRUE
        /\ UNCHANGED <<bitmap, nFreeFrames, pde, tables>>
     \/ /\ legit
        /\ c1.pool.halted
        /\ Proc!SetPool(c1.pool)
        /\ UNCHANGED <<pde, tables>>
     \/ /\ legit
        /\ ~c1.pool.halted
        /\ pde' = [pde EXCEPT ![d] = c1.ret]
        /\ Proc!SetPool(c2.pool)
        /\ tables' = IF c2.pool.halted THEN tables1
                     ELSE [tables1 EXCEPT ![c1.ret][t] = c2.ret]

\* Mutant of ClearPTE: the PTE is left present.
ClearPTEMissing(tbls, f, t) == tbls

\* *pte_addr = 2 on the inner table in frame f.
ClearPTE(tbls, f, t) == [tbls EXCEPT ![f][t] = NotPresent]

\* free_page(pg): if PDE and PTE are present, return the frame to the pool
\* through release_frames and clear the PTE; otherwise only warn.
FreePage(pg) ==
  LET d == pg \div Entries
      t == pg % Entries
      p == Proc!ReleaseFramesOn(Proc!PoolState, PTE(d, t))
  IN
  /\ ~halted
  /\ Translating
  /\ d \in FaultDirs
  /\ UNCHANGED regs
  /\ \/ /\ Mapped(d, t)
        /\ Proc!SetPool(p)
        /\ tables' = IF p.halted THEN tables ELSE ClearPTE(tables, pde[d], t)
     \/ /\ ~Mapped(d, t)
        /\ UNCHANGED <<bitmap, nFreeFrames, halted, tables>>
  /\ UNCHANGED pde

\* A memory access to address a: no change if the MMU finds the page
\* mapped, handle_fault otherwise.
Access(a, legit) ==
  \/ /\ ~halted
     /\ Translating
     /\ Mapped(PDI(a), PTI(a))
     /\ UNCHANGED <<bitmap, nFreeFrames, halted, pde, tables, loaded, pagingEnabled>>
  \/ HandleFault(a, legit)

FaultPages == {d * Entries + t : d \in FaultDirs, t \in Tix}
FaultAddrs == {pg * PageSize : pg \in FaultPages}

\* What the Legitimate constant accepts, per pool.
LegitAddrs == [p \in VMPoolIds |-> {a \in FaultAddrs : Legitimate(p, a)}]

Halted == halted /\ UNCHANGED ptVars

\* The table on its own: pools register once each, any page of the
\* demand-filled directory entries is touched or freed.
Next ==
  \/ Boot
  \/ \E p \in VMPoolIds \ ToSet(vmPools) : RegisterPool(p)
  \/ \E a \in FaultAddrs : HandleFault(a, CheckAddress(vmPools, a, LegitAddrs)) /\ UNCHANGED vmPools
  \/ \E pg \in FaultPages : FreePage(pg) /\ UNCHANGED vmPools
  \/ Halted

Spec == Init /\ [][Next]_ptVars

(***************************************************************************)
(* Properties                                                              *)
(***************************************************************************)

\* Every entry holds 0, a pool frame or NotPresent, and every inner table
\* has ENTRIES_PER_PAGE entries.
TypeOK ==
  /\ bitmap \in [Proc!Frames -> Proc!FrameState]
  /\ halted \in BOOLEAN
  /\ pde \in [FaultDirs -> EntryFrames \cup {NotPresent}]
  /\ tables \in [EntryFrames -> [Tix -> EntryFrames \cup {NotPresent}]]
  /\ vmPools \in Seq(VMPoolIds)
  /\ loaded \in BOOLEAN /\ pagingEnabled \in BOOLEAN

PresentDirs == {d \in FaultDirs : Present(pde[d])}
MappedPages == {dt \in FaultDirs \X Tix : Mapped(dt[1], dt[2])}

\* Everything in the table structure that holds a frame: the directory,
\* the first inner table, the demand-built inner tables, the mapped pages.
Owners ==
  {<<"dir", 0, 0>>, <<"table0", 0, 0>>}
    \cup {<<"table", d, 0>> : d \in PresentDirs}
    \cup {<<"page", dt[1], dt[2]>> : dt \in MappedPages}

FrameOf(o) ==
  CASE o[1] = "dir"    -> DirectoryFrame
    [] o[1] = "table0" -> Table0Frame
    [] o[1] = "table"  -> pde[o[2]]
    [] OTHER           -> PTE(o[2], o[3])

\* handle_fault and free_page keep the process pool and the table in step:
\* every frame the table refers to (directory, inner tables, pages) is a
\* run head the pool has handed out, and no two of them share a frame.  It
\* fails if handle_fault installs a failed get_frames (0) or free_page
\* returns a frame it leaves mapped.
MappingsExclusive ==
  LET os == Owners IN
  /\ Cardinality({FrameOf(o) : o \in os}) = Cardinality(os)
  /\ \A o \in os : /\ FrameOf(o) \in Proc!PoolFrames
                   /\ bitmap[FrameOf(o) - ProcBase] = Proc!HEAD

\* No frame handle_fault takes from the process pool is lost: every frame
\* the pool does not count FREE is its own bitmap frame or is referred to
\* by the table.  It fails if a fault replaces an inner table that was
\* already present or free_page clears a PTE without releasing its frame.
NoLeakedFrames ==
  LET referred == {FrameOf(o) : o \in Owners} IN
  \A i \in Proc!Frames :
    bitmap[i] # Proc!FREE =>
      i \in Proc!ReservedFrames \/ Proc!Abs(i) \in referred

=============================================================================
