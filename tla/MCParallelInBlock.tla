------------------------- MODULE MCParallelInBlock --------------------------
EXTENDS ParallelInBlock
=============================================================================
