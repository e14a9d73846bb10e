--------------------------- MODULE MCChunkedLife ---------------------------
(* Instances of ChunkedLife for TLC. *)
EXTENDS ChunkedLife

CONSTANT Reach

\* Chunk positions and spots around the corner of four chunks at the origin.
MCChunkIDs == (-Reach .. Reach - 1) \X (-Reach .. Reach - 1)
MCCorner == (-1 .. 0) \X (-1 .. 0) \cup {<<1, 0>>, <<-1, -2>>}
=============================================================================
