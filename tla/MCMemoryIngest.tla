--------------------------- MODULE MCMemoryIngest ---------------------------
EXTENDS MemoryIngest
=============================================================================
