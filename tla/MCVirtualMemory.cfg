\* Two VM pools over one page table with 4 entries per table and 16-unit
\* pages, an 8-frame process pool with an external bitmap.  The windows
\* have 6 pages; with the directory, 2 inner tables and the list pages the
\* pool runs out before every page is touched.
CONSTANTS
  Entries = 4
  PageSize = 16
  ProcBase = 8
  ProcFrames = 8
  ProcInternalBitmap = FALSE
  VMPoolIds <- MCVMPoolIds
  VMBase <- MCVMBase
  VMSizeArg <- MCVMSizeArg
  Sizes <- MCSizes
  MaxHeld = 2
SPECIFICATION Spec
CONSTRAINT RecordsBound
INVARIANT TypeOK
INVARIANT RegionsWellFormed
INVARIANT HeldPagesLegitimate
