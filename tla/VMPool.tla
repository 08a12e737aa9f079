------------------------------- MODULE VMPool -------------------------------
(***************************************************************************)
(* The virtual-memory pools of src/P4/vm_pool.C, with the kernel code that *)
(* allocates and releases regions in them.                                 *)
(*                                                                         *)
(* A pool owns the window [base_address, base_address + size) and keeps    *)
(* allocated_list[0 .. num_allocated-1], an array of (start, size)         *)
(* records in the window's first page; record 0 describes that page.  The *)
(* list is modelled as a sequence.  Addresses and sizes are unsigned long: *)
(* arithmetic on them is modulo Word.  A failed assert stops the kernel.   *)
(***************************************************************************)
EXTENDS Integers, Sequences, SequencesExt, FiniteSets

CONSTANTS
  Word,        \* 2^32: unsigned long arithmetic is modulo Word
  PageSize,    \* 4 KB, in the model's address unit
  VMPoolIds,   \* the pools
  VMBase,      \* VMBase[p]: _base_address passed to p's constructor
  VMSizeArg,   \* VMSizeArg[p]: _size passed to p's constructor
  Sizes,       \* the _size values the kernel passes to allocate
  MaxHeld      \* model bound: most regions held in one pool at once

ASSUME Word \in Nat \ {0} /\ PageSize \in Nat \ {0}
ASSUME \A p \in VMPoolIds : VMBase[p] % PageSize = 0

VARIABLES
  regions,     \* regions[p]: p's allocated_list as a sequence of [start, size]
  constructed, \* the pools whose constructor has run
  held,        \* held[p]: [start, req] for each region allocate(req) returned
  halted       \* an assert failed and the kernel stopped

vmVars == <<regions, constructed, held, halted>>

U(x) == x % Word

\* Mutant of RoundUp: the size is not rounded to whole pages.
RoundUpNone(s) == s

\* ((_size - 1) / (4 KB) + 1) * 4 KB on unsigned long: 0 and sizes within
\* a page of Word wrap round to 0.
RoundUp(s) == U((U(s - 1) \div PageSize + 1) * PageSize)

WinSize(p) == RoundUp(VMSizeArg[p])

Init ==
  /\ regions = [p \in VMPoolIds |-> << >>]
  /\ constructed = {}
  /\ held = [p \in VMPoolIds |-> << >>]
  /\ halted = FALSE

\* allocated_list[0] = infoFrame; num_allocated = 1.
WriteListHead(p) ==
  /\ regions' = [regions EXCEPT ![p] = << [start |-> VMBase[p], size |-> PageSize] >>]
  /\ constructed' = constructed \cup {p}

\* The constructor, without register_pool (PageTable's part): record 0 is
\* the list's own page.  Its alignment assert reads the member base_address
\* before it is assigned, an indeterminate value, so it may pass or fail.
ConstructPool(p) ==
  /\ ~halted
  /\ p \notin constructed
  /\ \/ /\ halted' = TRUE
        /\ UNCHANGED <<regions, constructed>>
     \/ /\ WriteListHead(p)
        /\ UNCHANGED halted
  /\ UNCHANGED held

\* Mutant of Gap: the size of record i is not subtracted.
GapNoSize(L, i) == U(L[i+1].start - L[i].start)

\* The room between record i and record i+1.
Gap(L, i) == U(L[i+1].start - L[i].start - L[i].size)

RegionEnd(r) == U(r.start + r.size)

\* insert_item(info, i+1) with the code's 0-based i: after record i.
InsertIndex(i) == i + 1

\* insert_item(x, index): shift records index.. right by one, write x.
InsertItem(L, index, x) == InsertAt(L, index, x)

\* allocate(s): the first interior gap that fits, else the tail of the
\* window, else assert(false).  insert_item has no capacity check.
Allocate(p, s) ==
  LET L == regions[p]
      n == Len(L)
      sz == RoundUp(s)
      fits == {i \in 1 .. n - 1 : Gap(L, i) >= sz}
      tail == U(VMBase[p] + WinSize(p) - L[n].start - L[n].size)
      Give(i, idx) ==
        /\ regions' = [regions EXCEPT ![p] = InsertItem(L, idx, [start |-> RegionEnd(L[i]), size |-> sz])]
        /\ held' = [held EXCEPT ![p] = Append(@, [start |-> RegionEnd(L[i]), req |-> s])]
        /\ UNCHANGED halted
  IN
  /\ ~halted
  /\ p \in constructed
  /\ Len(held[p]) < MaxHeld
  /\ \/ /\ fits # {}
        /\ Give(Min(fits), InsertIndex(Min(fits)))
     \/ /\ fits = {}
        /\ tail >= sz
        /\ Give(n, n + 1)
     \/ /\ fits = {}
        /\ tail < sz
        /\ halted' = TRUE
        /\ UNCHANGED <<regions, held>>
  /\ UNCHANGED constructed

\* release(start): the search loop's "region_num == i" compares and
\* discards, so region_num stays 0, the error is printed and release
\* returns.  The page-freeing loop and remove_item are never reached.
Release(p, k) ==
  /\ ~halted
  /\ held' = [held EXCEPT ![p] = RemoveAt(@, k)]
  /\ UNCHANGED <<regions, constructed, halted>>

\* is_legitimate(a): true while the list is empty (the constructor's own
\* first write), else a lies in some record.
IsLegitimate(p, a) ==
  \/ regions[p] = << >>
  \/ \E i \in 1 .. Len(regions[p]) :
       regions[p][i].start <= a /\ a < RegionEnd(regions[p][i])

Halted == halted /\ UNCHANGED vmVars

Next ==
  \/ \E p \in VMPoolIds : ConstructPool(p)
  \/ \E p \in VMPoolIds, s \in Sizes : Allocate(p, s)
  \/ \E p \in VMPoolIds : \E k \in 1 .. Len(held[p]) : Release(p, k)
  \/ Halted

Spec == Init /\ [][Next]_vmVars

(***************************************************************************)
(* Properties                                                              *)
(***************************************************************************)

\* The page-aligned addresses 0 .. Word - 1.
Aligned == {k * PageSize : k \in 0 .. (Word - 1) \div PageSize}

\* Records are (page-aligned start, whole-page size) pairs, as spec 3
\* describes a region record, and the kernel holds what allocate returned.
TypeOK ==
  /\ regions \in [VMPoolIds -> Seq([start : Aligned, size : Aligned])]
  /\ constructed \subseteq VMPoolIds
  /\ held \in [VMPoolIds -> Seq([start : 0 .. Word - 1, req : Sizes])]
  /\ halted \in BOOLEAN

\* allocate and insert_item keep each constructed pool's list well formed:
\* record 0 describes the list's page, records are sorted by start and do
\* not overlap, and the last one ends inside the window.  It needs the gap
\* test, the insertion index and the tail test of allocate to agree.
RegionsWellFormed ==
  \A p \in constructed :
    LET L == regions[p] IN
    /\ L[1] = [start |-> VMBase[p], size |-> PageSize]
    /\ \A i \in 1 .. Len(L) - 1 : L[i].start + L[i].size <= L[i+1].start
    /\ L[Len(L)].start + L[Len(L)].size <= VMBase[p] + WinSize(p)

\* allocate(s) either stops the kernel or returns a region of at least s
\* bytes (spec 4.3: fails hard if nothing fits).
AllocationCoversRequest ==
  \A p \in VMPoolIds : \A k \in 1 .. Len(held[p]) :
    \E i \in 1 .. Len(regions[p]) :
      /\ regions[p][i].start = held[p][k].start
      /\ regions[p][i].size >= held[p][k].req

=============================================================================
