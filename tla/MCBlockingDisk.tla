---------------------------- MODULE MCBlockingDisk ----------------------------
EXTENDS BlockingDisk

\* Three threads: one on the CPU, one waiting for the disk, one passing.
MCThreads == {"T1", "T2", "T3"}

\* One block: a read and a write of it are two different commands.
MCBlocks == {1}
=============================================================================
