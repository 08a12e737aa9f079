------------------------- MODULE MCContFramePool -------------------------
(***************************************************************************)
(* Model-checking instance of ContFramePool.  The .cfg files pick the pool *)
(* geometry and the clients' release discipline.                           *)
(***************************************************************************)
EXTENDS ContFramePool

\* A hole over the pool's last two frames, where the loop's bound (the
\* pool's end) and the hole's end coincide.
MCTailHole == {<<BaseFrame + 6, 2>>}

\* Bound on how far nFreeFrames may drift below zero (it is unsigned in
\* the code and wraps there) in the runs where it can drift.
MCFreeCountFloor == -3

\* The registry exhaustive_memory_test's mem_pool joins in src/P2/kernel.C:
\* the kernel pool, whose frames end where mem_pool's begin (512 + 512 =
\* 1024), scaled to a 4-frame pool ending at BaseFrame.
MCKernelPoolFirst == << [base |-> BaseFrame - 4, n |-> 4] >>

\* No pool registered before this one.
MCNoOtherPools == << >>

=============================================================================
