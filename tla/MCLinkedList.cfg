\* The P6 list and the P5 draft list, each with three node addresses and
\* two values: every branch of push_back, push_front, pop_front and
\* remove, and of the draft's pushes and pops, with repeated values.
CONSTANTS
  Addrs <- MCAddrs
  Data <- MCData
  NULL = NULL
SPECIFICATION MCSpec
INVARIANT WellLinked
PROPERTY ListQueueSpec
PROPERTY DraftDequeSpec
