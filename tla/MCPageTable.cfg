\* The P4 table with 4 entries per table (directory entries 1 and 2 are
\* filled on demand, 8 pages in all) over an 8-frame process pool whose
\* bitmap is in an external info frame, as the kernel builds it.  The
\* directory and the first table take 2 frames, so the pool runs out
\* before every page is mapped.
CONSTANTS
  Entries = 4
  PageSize = 16
  ProcBase = 8
  ProcFrames = 8
  ProcInternalBitmap = FALSE
  VMPoolIds <- MCVMPoolIds
  Legitimate <- MCLegitimate
SPECIFICATION Spec
INVARIANT TypeOK
INVARIANT MappingsExclusive
INVARIANT NoLeakedFrames
