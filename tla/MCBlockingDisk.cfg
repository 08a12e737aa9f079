\* Three threads, two blocks, any number of disk operations: a thread's
\* wait can overlap other threads' commands, and threads pass, terminate each
\* other and end in every order.
CONSTANTS
  Threads <- MCThreads
  Blocks <- MCBlocks
  NULL = NULL
SPECIFICATION Spec
INVARIANT TypeOK
INVARIANT NoThreadLost
 
PROPERTY RunsAgain
