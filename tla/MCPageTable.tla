---------------------------- MODULE MCPageTable ----------------------------
EXTENDS PageTable

\* Two VM pools: pool "p1" owns the whole of directory entry 1, pool "p2"
\* the first two pages of directory entry 2.  The other pages of entry 2
\* belong to no pool, so a fault there aborts.
MCLegitimate(p, a) ==
  IF p = "p1" THEN PDI(a) = 1
              ELSE PDI(a) = 2 /\ PTI(a) < 2

MCVMPoolIds == {"p1", "p2"}
=============================================================================
