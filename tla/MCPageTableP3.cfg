\* The P3 table with 4 entries per table (directory entries 1 .. 3 fault,
\* 12 pages) over a 4-frame kernel pool with its bitmap in its first frame,
\* as main builds the kernel pool, and an 8-frame process pool.  The
\* directory and the first table take 2 kernel frames and one inner table
\* the last; the pool's count is one too high, so the next inner table is
\* get_frames' 0.
CONSTANTS
  Entries = 4
  PageSize = 16
  KernBase = 4
  KernFrames = 4
  ProcBase = 8
  ProcFrames = 8
SPECIFICATION Spec
INVARIANT MappingsExclusive
