\* allocate(Word - 1) in a pool whose window is far smaller: the rounding
\* wraps to 0 and allocate returns a region of 0 bytes instead of failing.
CONSTANTS
  Entries = 4
  PageSize = 16
  ProcBase = 8
  ProcFrames = 8
  ProcInternalBitmap = FALSE
  VMPoolIds <- MCVMPoolIds
  VMBase <- MCVMBase
  VMSizeArg <- MCVMSizeArg
  Sizes <- MCWrapSizes
  MaxHeld = 2
SPECIFICATION Spec
CONSTRAINT RecordsBound
INVARIANT AllocationCoversRequest
