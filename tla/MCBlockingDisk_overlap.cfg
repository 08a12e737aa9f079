\* Two threads issue commands to the one controller: the first one's
\* wait ends after the second has replaced its command.
CONSTANTS
  Threads <- MCThreads
  Blocks <- MCBlocks
  NULL = NULL
SPECIFICATION Spec
INVARIANT TransferMatchesCommand
