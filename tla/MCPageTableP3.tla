--------------------------- MODULE MCPageTableP3 ---------------------------
EXTENDS PageTableP3
=============================================================================
