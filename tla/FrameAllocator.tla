--------------------------- MODULE FrameAllocator ---------------------------
(***************************************************************************)
(* What a contiguous frame pool promises its clients (spec.md 4.1):        *)
(* allocate(n) hands out the lowest-numbered window of n consecutive free  *)
(* frames, or fails and changes nothing; release(first) returns exactly    *)
(* the run that began there.  The pool is a set of frames in use; it says *)
(* nothing about how the pool records them.                                *)
(***************************************************************************)
EXTENDS Integers, Sequences, SequencesExt, FiniteSets

CONSTANTS
  Frames,     \* the frames the pool manages
  Reserved,   \* frames the pool keeps for itself from the start
  MaxRequest, \* largest run a client asks for
  MaxHeld     \* most runs the clients hold at once

VARIABLES
  inUse,      \* frames that are not free
  held        \* sequence of [start, n] runs the clients hold

Window(s, n) == s .. s + n - 1

Fits(s, n) == Window(s, n) \subseteq Frames \ inUse

Init ==
  /\ inUse = Reserved
  /\ held = << >>

\* First fit: the lowest start of a free window wins.
Allocate(n) ==
  /\ Len(held) < MaxHeld
  /\ LET starts == {s \in Frames : Fits(s, n)} IN
     \/ /\ starts # {}
        /\ inUse' = inUse \cup Window(Min(starts), n)
        /\ held' = Append(held, [start |-> Min(starts), n |-> n])
     \/ /\ starts = {}
        /\ UNCHANGED <<inUse, held>>

Release(k) ==
  /\ inUse' = inUse \ Window(held[k].start, held[k].n)
  /\ held' = RemoveAt(held, k)

Next ==
  \/ \E n \in 1 .. MaxRequest : Allocate(n)
  \/ \E k \in 1 .. Len(held) : Release(k)

Spec == Init /\ [][Next]_<<inUse, held>>

=============================================================================
