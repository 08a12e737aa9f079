-------------------------- MODULE MCVirtualMemory --------------------------
EXTENDS VirtualMemory

\* The code pool's window is directory entry 1 (4 pages at 64); the heap
\* pool's is the first 2 pages of entry 2 (at 128).
MCVMPoolIds == {"code", "heap"}
MCVMBase == [p \in MCVMPoolIds |-> IF p = "code" THEN 64 ELSE 128]
MCVMSizeArg == [p \in MCVMPoolIds |-> IF p = "code" THEN 64 ELSE 32]
\* Requests of 0 bytes, under a page and over a page.
MCSizes == {0, 1, 17}
\* One-page requests and one of Word - 1 bytes.
MCWrapSizes == {1, 255}

\* Model bound: release never removes a record, so 0-byte regions would
\* grow the lists without end; explore lists of at most 4 records.
MaxRecords == 4
RecordsBound == \A p \in VMPoolIds : Len(regions[p]) <= MaxRecords
=============================================================================
