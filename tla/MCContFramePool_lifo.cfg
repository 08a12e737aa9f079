\* Kernel pool as built in src/P2/kernel.C (internal bitmap, _n_info_frames
\* = 0), used by clients that release newest-first like test_memory.
CONSTANTS
  BaseFrame = 4
  NRequested = 8
  InternalBitmap = TRUE
  NInfoFrames = 0
  MaxRequest = 5
  ReleaseOrder = "LIFO"
  HoleCalls = {}
  FreeCountFloor = 0
  MaxHeld = 8
  Registered <- MCKernelPoolFirst
SPECIFICATION Spec
INVARIANT TypeOK
PROPERTY FrameAllocatorSpec
INVARIANT FreeCountExact
