-------------------------------- MODULE Life --------------------------------
(***************************************************************************)
(* Conway's Game of Life on the unbounded board, with players who bring    *)
(* cells to life: what the chunks, halos and ticks of the server are to    *)
(* amount to.                                                              *)
(***************************************************************************)
EXTENDS Integers, FiniteSets

CONSTANT Spots  \* where players place cells

VARIABLE board  \* the live cells

\* The eight cells around c.
Moore(c) == ((c[1] - 1 .. c[1] + 1) \X (c[2] - 1 .. c[2] + 1)) \ {c}

Lives(b, c) ==
  LET n == Cardinality(Moore(c) \cap b) IN n = 3 \/ (n = 2 /\ c \in b)

\* Only a cell with a live neighbour can be alive next.
Generation(b) == {c \in UNION {Moore(d) : d \in b} : Lives(b, c)}

Init == board = {}

Place(c) == board' = board \cup {c}

Step == board' = Generation(board)

Next == Step \/ \E c \in Spots : Place(c)

Spec == Init /\ [][Next]_board
=============================================================================
