\* main(): test_memory(&kernel_mem_pool, 32), then exhaustive_memory_test
\* with its 13-, 10- and 1000-frame runs, 1023 single frames and 146 runs
\* of 7 frames in a 1024-frame pool.
CONSTANTS
  KernStart <- MCKernStart
  KernSize <- MCKernSize
  MemStart <- MCMemStart
  Mem2Start <- MCMem2Start
  MemSize = 1024
  TestAllocs = 32
  SizeA = 13
  SizeB = 10
  SizeC = 1000
  SizeD = 1000
  N1 = 1023
  N7 = 146
  Run7 = 7
SPECIFICATION FairSpec
INVARIANT TestRunsDisjoint
INVARIANT ReleaseFindsOwner
PROPERTY MainCompletes
