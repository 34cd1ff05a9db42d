------------------------- MODULE MC_CheckpointEngine -------------------------
EXTENDS CheckpointEngine

CONSTANTS s1


=============================================================================
