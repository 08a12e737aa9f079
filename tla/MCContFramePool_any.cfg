\* Kernel pool with an internal bitmap, a boot-time hole over its last two
\* frames, and clients that release their runs in any order (the page
\* table frees pages in whatever order VM regions are released).
CONSTANTS
  BaseFrame = 4
  NRequested = 8
  InternalBitmap = TRUE
  NInfoFrames = 0
  MaxRequest = 3
  ReleaseOrder = "ANY"
  HoleCalls <- MCTailHole
  FreeCountFloor <- MCFreeCountFloor
  MaxHeld = 3
  Registered <- MCKernelPoolFirst
SPECIFICATION Spec
INVARIANT HeadStructure
INVARIANT NoLeakedFrames
