\* The kernel allocates a region in the code pool, writes to it and
\* releases it: its page stays mapped and its frame stays allocated.
CONSTANTS
  Entries = 4
  PageSize = 16
  ProcBase = 8
  ProcFrames = 8
  ProcInternalBitmap = FALSE
  VMPoolIds <- MCVMPoolIds
  VMBase <- MCVMBase
  VMSizeArg <- MCVMSizeArg
  Sizes <- MCSizes
  MaxHeld = 2
SPECIFICATION Spec
CONSTRAINT RecordsBound
INVARIANT ReleasedPagesUnmapped
