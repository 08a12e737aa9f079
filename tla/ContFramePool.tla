--------------------------- MODULE ContFramePool ---------------------------
(***************************************************************************)
(* The contiguous frame pool of src/P2/cont_frame_pool.C, together with    *)
(* the clients that call it.                                               *)
(*                                                                         *)
(* A pool manages the frames 0 .. nframes-1 (relative to base_frame_no)   *)
(* with two bits per frame: FREE = 11, HEAD = 10 (first frame of an       *)
(* allocated run), USED = 00 (rest of a run), INACC = 01 (first frame of a *)
(* hole marked by mark_inaccessible).  The model keeps the four states and *)
(* derives the two bits from them where the code tests single bits.       *)
(*                                                                         *)
(* The clients (the kernel's test_memory and the page table's fault        *)
(* handler) call get_frames(n) and later release_frames(first_frame) with *)
(* a frame they were given.  "held" is the clients' record of the runs     *)
(* they were given and have not yet released.  An assert that fails halts *)
(* the kernel: "halted" is then set and nothing else happens.              *)
(***************************************************************************)
EXTENDS Integers, Sequences, SequencesExt, FiniteSets

CONSTANTS
  BaseFrame,      \* _base_frame_no passed to the constructor
  NRequested,     \* _n_frames passed to the constructor
  InternalBitmap, \* TRUE iff _info_frame_no = 0: the bitmap lives in frame 0
  NInfoFrames,    \* _n_info_frames passed to the constructor
  MaxRequest,     \* largest _n_frames a client passes to get_frames
  ReleaseOrder,   \* "LIFO": clients release their newest run first; "ANY"
  HoleCalls,      \* <<base, n>> pairs the boot code may pass to mark_inaccessible
  FreeCountFloor, \* model bound: lowest value nFreeFrames may be driven to
  MaxHeld,        \* model bound: most runs the clients hold at once
  Registered      \* [base, n] of the pools in pools[0 .. npools-1] when the
                  \* constructor runs: the registry before this pool joins

ASSUME BaseFrame \in Nat /\ NRequested \in Nat \ {0}
ASSUME InternalBitmap \in BOOLEAN /\ NInfoFrames \in Nat
ASSUME MaxRequest \in Nat /\ ReleaseOrder \in {"LIFO", "ANY"}
ASSUME FreeCountFloor \in Int /\ FreeCountFloor <= 0 /\ MaxHeld \in Nat
ASSUME Registered \in Seq([base : Nat, n : Nat]) /\ Len(Registered) < 8

VARIABLES
  bitmap,      \* relative frame number -> frame state
  nFreeFrames, \* the pool's free counter; a negative value stands for the
               \* unsigned value it wrapped around to
  held,        \* sequence of [start, n] runs the clients hold, start being
               \* the absolute frame number get_frames returned
  hole,        \* <<base, n>> of the mark_inaccessible call made, or << >>
  started,     \* TRUE once a client has called get_frames
  halted       \* an assert failed and the kernel stopped

vars == <<bitmap, nFreeFrames, held, hole, started, halted>>

FREE == "FREE"
HEAD == "HEAD"
USED == "USED"
INACC == "INACC"
FrameState == {FREE, HEAD, USED, INACC}

\* The two bits of each state, as the code's masks 0x80 >> 2b and
\* 0x80 >> 2b+1 read them.
HiBit(s) == IF s \in {FREE, HEAD} THEN 1 ELSE 0
LoBit(s) == IF s \in {FREE, INACC} THEN 1 ELSE 0

\* FRAME_SIZE (cont_frame_pool.H, not in the repository): 4 KB.
FrameSize == 4096

\* The constructor rounds nframes up to a multiple of 4.
RoundFrames(n) == IF n % 4 # 0 THEN n + 4 - (n % 4) ELSE n
NFrames == RoundFrames(NRequested)
Frames == 0 .. NFrames - 1

\* Absolute frame number of relative frame i, and the frames the registry
\* attributes to this pool (base_frame_no .. base_frame_no + nframes - 1).
Abs(i) == BaseFrame + i
PoolFrames == Abs(0) .. Abs(NFrames - 1)

\* Frames the constructor takes for an internal bitmap.  Its inner loop
\* writes only bitmap[0], and its condition (j < 4*i + j < n) holds for
\* every j when n > 0: frame 0 becomes HEAD and frames 1..3 USED as soon as
\* _n_info_frames > 0, whatever its value.
ReservedHead == IF InternalBitmap THEN {0} ELSE {}
ReservedUsed == IF InternalBitmap /\ NInfoFrames > 0 THEN 1 .. 3 ELSE {}
ReservedFrames == ReservedHead \cup ReservedUsed

InitBitmap == [i \in Frames |-> IF i \in ReservedHead THEN HEAD
                               ELSE IF i \in ReservedUsed THEN USED
                               ELSE FREE]

\* The constructor's last check: an external bitmap must have 2 bits for
\* each of the nframes frames, or assert stops the kernel at boot.
BitmapTooSmall == ~InternalBitmap /\ NInfoFrames * FrameSize * 4 < NFrames

Init ==
  /\ bitmap = InitBitmap
  /\ nFreeFrames = NRequested
  /\ held = << >>
  /\ hole = << >>
  /\ started = FALSE
  /\ halted = BitmapTooSmall

RunFrames(r) == r.start .. r.start + r.n - 1

(***************************************************************************)
(* get_frames(n)                                                           *)
(***************************************************************************)

\* bitmap[c] == 0x0: the four frames of byte c are all USED.
ByteAllUsed(bm, c) == \A b \in 0 .. 3 : bm[4 * c + b] = USED

\* Mutant of RunStart: the run is reported one frame too early.
RunStartOffByOne(i, count) == i - count

\* Start of the run the scan reports once count reaches n at frame i.
RunStart(i, count) == i - count + 1

\* count after the scan's increments at the FREE frames among frames
\* 4c .. 4c+b of byte c.
FreeUpTo(bm, c, b) == Cardinality({k \in 0 .. b : bm[4 * c + k] = FREE})

\* Mutant of ScanByte: the run is taken once count reaches at least n.
ScanByteAtLeast(bm, n, c, count) ==
  IF ByteAllUsed(bm, c) THEN [at |-> -1, count |-> 0]
  ELSE LET hits == {b \in 0 .. 3 : bm[4 * c + b] = FREE /\ count + FreeUpTo(bm, c, b) >= n}
           b0   == Min(hits)
       IN IF hits # {}
          THEN [at |-> RunStart(4 * c + b0, count + FreeUpTo(bm, c, b0)), count |-> count]
          ELSE [at |-> -1, count |-> count + FreeUpTo(bm, c, 3)]

\* One byte c of get_frames' loop, entered with the count so far: count
\* goes up at every FREE frame and is reset when the whole byte is USED
\* (the loop then skips i += 3 and i++).  The loop enters a byte only at
\* its first frame.  "at" is the relative start of the run found, or -1.
ScanByte(bm, n, c, count) ==
  IF ByteAllUsed(bm, c) THEN [at |-> -1, count |-> 0]
  ELSE LET hits == {b \in 0 .. 3 : bm[4 * c + b] = FREE /\ count + FreeUpTo(bm, c, b) = n}
           b0   == Min(hits)
       IN IF hits # {}
          THEN [at |-> RunStart(4 * c + b0, count + FreeUpTo(bm, c, b0)), count |-> count]
          ELSE [at |-> -1, count |-> count + FreeUpTo(bm, c, 3)]

\* The loop over bytes lo .. hi, as a fold of ScanByte taken in halves (the
\* same left-to-right order; the halving only keeps the recursion shallow).
RECURSIVE ScanBytes(_, _, _, _, _)
ScanBytes(bm, n, lo, hi, count) ==
  IF lo = hi THEN ScanByte(bm, n, lo, count)
  ELSE LET left == ScanBytes(bm, n, lo, (lo + hi) \div 2, count) IN
       IF left.at # -1 THEN left
       ELSE ScanBytes(bm, n, (lo + hi) \div 2 + 1, hi, left.count)

\* The scan of get_frames: the relative start frame of the run it finds,
\* or -1 when the loop ends.
Scan(bm, n) == ScanBytes(bm, n, 0, NFrames \div 4 - 1, 0).at

\* Mutant of MarkRun: the HEAD bits of the first frame are not written.
MarkRunNoHead(bm, start, n) ==
  [i \in Frames |-> IF start <= i /\ i < start + n THEN USED ELSE bm[i]]

\* Mutant of MarkRun: one USED frame too many is written.
MarkRunOneMore(bm, start, n) ==
  [i \in Frames |-> IF i = start THEN HEAD
                    ELSE IF start < i /\ i <= start + n THEN USED
                    ELSE bm[i]]

\* The run start .. start+n-1 written as HEAD followed by n-1 USED.
MarkRun(bm, start, n) ==
  [i \in Frames |-> IF i = start THEN HEAD
                    ELSE IF start < i /\ i < start + n THEN USED
                    ELSE bm[i]]

\* The pool's state as a record, so that a caller can chain several calls
\* in one step (handle_fault makes two).
PoolState == [bitmap |-> bitmap, nFree |-> nFreeFrames, halted |-> halted]

SetPool(p) ==
  /\ bitmap' = p.bitmap
  /\ nFreeFrames' = p.nFree
  /\ halted' = p.halted

\* get_frames(n) on pool state p: the new state and the value returned
\* (base_frame_no + start, or 0 when no run is found).  When
\* assert(nFreeFrames > 0) fails the kernel halts.
GetFramesOn(p, n) ==
  LET s == Scan(p.bitmap, n) IN
  IF p.nFree = 0 THEN [pool |-> [p EXCEPT !.halted = TRUE], ret |-> 0]
  ELSE IF s = -1 THEN [pool |-> p, ret |-> 0]
  ELSE [pool |-> [p EXCEPT !.bitmap = MarkRun(@, s, n), !.nFree = @ - n],
        ret  |-> Abs(s)]

\* A client asks for n frames and keeps the run when the result is not 0.
GetFrames(n) ==
  /\ ~halted
  /\ Len(held) < MaxHeld
  /\ LET c == GetFramesOn(PoolState, n) IN
     /\ SetPool(c.pool)
     /\ held' = IF c.ret = 0 THEN held ELSE Append(held, [start |-> c.ret, n |-> n])
     /\ c.pool.nFree >= FreeCountFloor
  /\ started' = TRUE
  /\ UNCHANGED hole

(***************************************************************************)
(* release_frames(first_frame): the static entry looks the frame up in    *)
(* the registry and calls release_frame on the pool that owns it.          *)
(***************************************************************************)

\* Frames after h with either bit set (HEAD, FREE or INACC).
Stops(bm, h) == {j \in h + 1 .. NFrames - 1 : HiBit(bm[j]) = 1 \/ LoBit(bm[j]) = 1}

\* Mutant of RunTail: the loop stops at nframes - 1.
RunTailStopEarly(bm, h) == h + 1 .. Min(Stops(bm, h) \cup {NFrames - 1}) - 1

\* Frames after h that the release loop frees: it stops at the first frame
\* with either bit set or at nframes.
RunTail(bm, h) == h + 1 .. Min(Stops(bm, h) \cup {NFrames}) - 1

\* Mutant of FreeRun: only the HEAD frame is set FREE.
FreeRunHeadOnly(bm, h) ==
  [i \in Frames |-> IF i = h THEN FREE ELSE bm[i]]

FreeRun(bm, h) ==
  LET tail == RunTail(bm, h) IN
  [i \in Frames |-> IF i = h \/ i \in tail THEN FREE ELSE bm[i]]

\* Mutant of ReleaseFrameOn: the HEAD frame is not counted back.
ReleaseFrameOnTailCount(p, h) ==
  IF p.bitmap[h] # HEAD
  THEN [p EXCEPT !.halted = TRUE]
  ELSE [p EXCEPT !.bitmap = FreeRun(@, h),
                 !.nFree = @ + Cardinality(RunTail(p.bitmap, h))]

\* release_frame on relative frame h: assert that h is a HEAD, then free
\* h and the USED frames that follow it.
ReleaseFrameOn(p, h) ==
  IF p.bitmap[h] # HEAD
  THEN [p EXCEPT !.halted = TRUE]
  ELSE [p EXCEPT !.bitmap = FreeRun(@, h),
                 !.nFree = @ + 1 + Cardinality(RunTail(p.bitmap, h))]

\* pools[0 .. npools-1] once the constructor has added this pool.
Registry == Registered \o << [base |-> BaseFrame, n |-> NRequested] >>
Me == Len(Registry)

\* The static release_frames: the index of the first registered pool with
\* base_frame_no <= f < base_frame_no + nframes (nframes rounded up), or 0
\* when no pool owns f and the call does nothing.
Owner(f) ==
  LET owners == {i \in 1 .. Len(Registry) :
                   Registry[i].base <= f /\ f < Registry[i].base + RoundFrames(Registry[i].n)}
  IN IF owners = {} THEN 0 ELSE Min(owners)

\* release_frames(f) on this pool's state p: it reaches this pool's
\* release_frame only when this pool is the first owner of f.
ReleaseFramesOn(p, f) ==
  IF Owner(f) = Me THEN ReleaseFrameOn(p, f - BaseFrame) ELSE p

\* Which of their runs the clients may release next.
Releasable == IF ReleaseOrder = "LIFO" THEN {Len(held)} \ {0}
                                       ELSE 1 .. Len(held)

\* A client releases run k.  When an earlier pool claims its frame, that
\* pool's release_frame runs on a bitmap this model does not hold, and its
\* HEAD assert may stop the kernel.
ReleaseFrames(k) ==
  LET f == held[k].start
      p == ReleaseFramesOn(PoolState, f)
  IN
  /\ ~halted
  /\ \E otherAbort \in IF Owner(f) \in {0, Me} THEN {FALSE} ELSE BOOLEAN :
       SetPool([p EXCEPT !.halted = @ \/ otherAbort])
  /\ held' = RemoveAt(held, k)
  /\ UNCHANGED <<hole, started>>

(***************************************************************************)
(* mark_inaccessible(base, n), called by the boot code before any          *)
(* get_frames.  Its loop runs to _base_frame_no - base_frame_no + nframes  *)
(* instead of base + n: it marks every frame up to the pool's end and then *)
(* reads b more bitmap slots past the pool, which nothing initialised: the *)
(* assert there may pass or fail.                                          *)
(***************************************************************************)
MarkInaccessible(base, n) ==
  LET b    == base - BaseFrame
      bad  == {i \in b .. NFrames - 1 : LoBit(bitmap[i]) = 0}
      stop == IF bad = {} THEN NFrames ELSE Min(bad)
      bm   == [i \in Frames |-> IF i = b /\ b < stop THEN INACC
                                ELSE IF b < i /\ i < stop THEN USED
                                ELSE bitmap[i]]
  IN
  /\ ~halted /\ ~started /\ hole = << >>
  /\ hole' = <<base, n>>
  /\ UNCHANGED <<held, started>>
  /\ \/ /\ b < 0 \/ b + n > NFrames          \* bounds assert
        /\ halted' = TRUE
        /\ UNCHANGED <<bitmap, nFreeFrames>>
     \/ /\ 0 <= b /\ b + n <= NFrames
        /\ bad # {}                        \* a frame in the pool is not free
        /\ bitmap' = bm
        /\ nFreeFrames' = nFreeFrames - (stop - b)
        /\ halted' = TRUE
     \/ /\ 0 <= b /\ b + n <= NFrames
        /\ bad = {}
        /\ bitmap' = bm
        /\ \E pastPoolOk \in IF b = 0 THEN {TRUE} ELSE BOOLEAN :
             \/ pastPoolOk /\ nFreeFrames' = nFreeFrames - NFrames
                           /\ UNCHANGED halted
             \/ ~pastPoolOk /\ nFreeFrames' = nFreeFrames - (NFrames - b)
                            /\ halted' = TRUE

\* The kernel spins after an abort.
Halted == halted /\ UNCHANGED vars

Next ==
  \/ \E n \in 0 .. MaxRequest : GetFrames(n)
  \/ \E k \in Releasable : ReleaseFrames(k)
  \/ \E c \in HoleCalls : MarkInaccessible(c[1], c[2])
  \/ Halted

Spec == Init /\ [][Next]_vars

(***************************************************************************)
(* Properties                                                              *)
(***************************************************************************)

TypeOK ==
  /\ bitmap \in [Frames -> FrameState]
  /\ nFreeFrames \in Int
  /\ held \in Seq([start : PoolFrames, n : 1 .. MaxRequest])
  /\ hole \in {<< >>} \cup (Nat \X Nat)
  /\ started \in BOOLEAN /\ halted \in BOOLEAN

\* No two runs that clients hold share a frame: get_frames never hands out
\* a frame that is part of a run not yet released (spec: no two HEAD frames
\* share a run).
HeldRunsDisjoint ==
  \A k, l \in 1 .. Len(held) :
    k # l => RunFrames(held[k]) \cap RunFrames(held[l]) = {}

\* No USED frame starts the pool or follows a FREE frame: every stretch of
\* USED frames hangs off a HEAD or INACC frame, so release_frame's forward
\* walk from a HEAD frees exactly one run.
HeadStructure ==
  \A i \in Frames : bitmap[i] = USED => i > 0 /\ bitmap[i - 1] # FREE

HoleFrames == IF hole = << >> THEN {} ELSE hole[1] .. hole[1] + hole[2] - 1

\* Every frame that is not FREE is accounted for: it holds the bitmap, lies
\* in the hole given to mark_inaccessible, or belongs to a run a client
\* holds.  A frame outside all three is lost to allocation for good.
NoLeakedFrames ==
  \A i \in Frames :
    bitmap[i] # FREE =>
      \/ i \in ReservedFrames
      \/ Abs(i) \in HoleFrames
      \/ \E k \in 1 .. Len(held) : Abs(i) \in RunFrames(held[k])

\* nFreeFrames differs from the number of FREE frames by what the
\* constructor got wrong (it counts the bitmap frame and not the rounding)
\* and by nothing more: every get_frames and release_frame moves the
\* counter by exactly the frames it marks.  A drift would let the unsigned
\* counter wrap, or assert(nFreeFrames > 0) fire while frames are free.
FreeCountExact ==
  LET FreeIn(bm) == Cardinality({i \in Frames : bm[i] = FREE}) IN
  nFreeFrames - FreeIn(bitmap) = NRequested - FreeIn(InitBitmap)

\* The pool implements first-fit allocation of contiguous runs: the frames
\* that are not FREE and the runs the clients hold behave as FrameAllocator
\* says.  Checked where clients release newest-first, as test_memory does.
Allocator == INSTANCE FrameAllocator WITH
               Frames <- PoolFrames,
               inUse <- {Abs(i) : i \in {j \in Frames : bitmap[j] # FREE}},
               Reserved <- {Abs(i) : i \in ReservedFrames}
FrameAllocatorSpec == Allocator!Spec

=============================================================================
