----------------------------- MODULE MCViewport -----------------------------
(* Instances of Viewport for TLC: two chunks far from each other's cells. *)
EXTENDS Viewport

\* A block, drawn in a corner of the editor; and one of its cells.
Block == [type |-> "PLACE_CUSTOM", cells |-> Normalised({1, 2} \X {1, 2})]
Cell  == [type |-> "SPAWN", cells |-> <<<<0, 0>>>>]
BlockAndCell == {Block, Cell}

OnePlace   == {<<3, 4>>}
FastShifts == {-16, 16}
Places     == {0, 16}
=============================================================================
