----------------------------- MODULE MCRegistry -----------------------------
(* Instances of Registry for TLC. *)
EXTENDS Registry, TLC

CONSTANTS Interior, Edge

\* Every modelled position neighbours every other one; the cell Edge lies within
\* reach of all of them, the cell Interior of none.
MCNeighbours == [id \in ChunkIDs |-> ChunkIDs \ {id}]
MCEdgeCells  == [e \in ChunkIDs |-> [n \in ChunkIDs |-> Cells \cap {Edge}]]

MCSymmetry == Permutations(Objects) \cup Permutations(Players)
=============================================================================
