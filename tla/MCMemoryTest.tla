---------------------------- MODULE MCMemoryTest ----------------------------
(***************************************************************************)
(* main() of src/P2/kernel.C at its own sizes: no scaling, since the test  *)
(* is one deterministic run.                                               *)
(***************************************************************************)
EXTENDS MemoryTest

\* (2 MB) / (4 KB): the kernel pool's start frame and size.
MCKernStart == 512
MCKernSize == 512
\* (4 MB) / (4 KB) and (8 MB) / (4 KB): mem_pool's and mem_pool2's bases.
MCMemStart == 1024
MCMem2Start == 2048

=============================================================================
