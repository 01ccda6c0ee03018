---------------------------- MODULE MCChunkStore ----------------------------
(* Model values for ChunkStore: two keys, and two takes of different lengths; *)
(* two of the same length the module does not tell apart.                     *)
EXTENDS ChunkStore
CONSTANTS k1, k2, short, long
MCKeys == {k1, k2}
MCTakes == {short, long}
MCMeasure == [t \in MCTakes |-> IF t = long THEN 2 ELSE 1]
=============================================================================
