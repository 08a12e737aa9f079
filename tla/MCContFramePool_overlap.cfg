\* Kernel pool used by clients that release in any order: get_frames can
\* hand out a run that overlaps one still held.
CONSTANTS
  BaseFrame = 4
  NRequested = 8
  InternalBitmap = TRUE
  NInfoFrames = 0
  MaxRequest = 3
  ReleaseOrder = "ANY"
  HoleCalls = {}
  FreeCountFloor <- MCFreeCountFloor
  MaxHeld = 3
  Registered <- MCNoOtherPools
SPECIFICATION Spec
INVARIANT HeldRunsDisjoint
