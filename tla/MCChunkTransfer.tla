-------------------------- MODULE MCChunkTransfer --------------------------
(* TLC instances of ChunkTransfer. The fault sets of the runs.             *)
EXTENDS ChunkTransfer

ChunkLoss  == {"loseChunk"}
=============================================================================
