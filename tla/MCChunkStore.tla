---------------------------- MODULE MCChunkStore ----------------------------
(* Model-checking instances of ChunkStore: two threads that may both work on *)
(* every chunk, and payloads of two lengths.                                 *)
EXTENDS ChunkStore, TLC

CONSTANTS t1, t2, c1, c2, d1, d2

MCBytes == (d1 :> 1) @@ (d2 :> 2)

\* Every chunk has one payload: retries and repair copies bring that one.
Agreed == {<<c1, d1>>, <<c2, d2>>}

\* Callers that do not agree.
Anything == Chunk \X Data

=============================================================================
