------------------------------- MODULE Codec --------------------------------
(***************************************************************************)
(* How cells are written down: the editor's list of offsets (app.js), its  *)
(* validation (gateway/shapes.go), the int64 coordinates of a placement    *)
(* (gateway/router.go), and the uint16 offsets of a chunk's cells on the   *)
(* wire and in Redis (simulation/chunk.go), which the browser reads        *)
(* (app.js).  A row is the set of the positions of its bits.               *)
(***************************************************************************)
EXTENDS Integers, Sequences, FiniteSets, SequencesExt

CONSTANTS
  ChunkSize,
  OffsetRange,    \* 2^16: an offset is a uint16
  IntMax,         \* 2^63: a coordinate is an int64
  MaxCustomDim,
  MaxCustomCells,
  GridSize        \* GRID_W and GRID_H of the editor

ASSUME CodecAssumption ==
  /\ ChunkSize \in Nat \ {0}
  /\ OffsetRange \in Nat /\ ChunkSize * ChunkSize <= OffsetRange
  /\ IntMax \in Nat \ {0} /\ MaxCustomDim \in Nat /\ MaxCustomDim < IntMax
  /\ MaxCustomCells \in Nat /\ GridSize \in Nat \ {0}
  /\ GridSize <= MaxCustomDim + 1 /\ GridSize * GridSize <= MaxCustomCells

Positions == 0..ChunkSize-1
Local == Positions \X Positions
Least(S) == CHOOSE n \in S : \A m \in S : n <= m

\* The elements of s at the positions in I, in their order.
Rank(i, I) == Cardinality({j \in I : j <= i})
Picked(s, I) == [n \in 1..Cardinality(I) |-> s[CHOOSE i \in I : Rank(i, I) = n]]

-----------------------------------------------------------------------------
(* Custom pieces.                                                          *)

\* What a player can draw.
Drawings == (SUBSET ((0..GridSize-1) \X (0..GridSize-1))) \ {{}}

\* The grid is read row by row; offsets are relative to the bounding box's top left.
Normalised(drawing) ==
  LET grid == [i \in 1..GridSize * GridSize |-> <<(i - 1) % GridSize, (i - 1) \div GridSize>>]
      rawCells == Picked(grid, {i \in DOMAIN grid : grid[i] \in drawing})
      minX == Least({c[1] : c \in drawing})
      minY == Least({c[2] : c \in drawing})
  IN  [i \in DOMAIN rawCells |-> <<rawCells[i][1] - minX, rawCells[i][2] - minY>>]

OutOfBounds(c) == \E i \in 1..2 : c[i] < 0 \/ c[i] > MaxCustomDim
Refused(why) == [error |-> why, out |-> <<>>]

\* Mutant: cells are told apart by the sum of their offsets.
ValidatePacked(cells) ==
  LET Key(c) == c[1] + c[2]
      kept == {i \in DOMAIN cells : \A j \in 1..i-1 : Key(cells[j]) # Key(cells[i])}
  IN  IF cells = <<>> THEN Refused("EMPTY_PIECE")
      ELSE IF \E i \in DOMAIN cells : OutOfBounds(cells[i]) THEN Refused("OUT_OF_BOUNDS")
      ELSE IF Cardinality(kept) > MaxCustomCells THEN Refused("TOO_MANY_CELLS")
      ELSE [error |-> "", out |-> Picked(cells, kept)]

\* The first violation, or the cells without duplicates.
ValidateCustomCells(cells) ==
  LET kept == {i \in DOMAIN cells : \A j \in 1..i-1 : cells[j] # cells[i]}
  IN  IF cells = <<>> THEN Refused("EMPTY_PIECE")
      ELSE IF \E i \in DOMAIN cells : OutOfBounds(cells[i]) THEN Refused("OUT_OF_BOUNDS")
      ELSE IF Cardinality(kept) > MaxCustomCells THEN Refused("TOO_MANY_CELLS")
      ELSE [error |-> "", out |-> Picked(cells, kept)]

\* A sum of two int64 wraps.
Wrapped(n) == ((n + IntMax) % (2 * IntMax)) - IntMax
CellAt(root, c) == <<Wrapped(root[1] + c[1]), Wrapped(root[2] + c[2])>>

-----------------------------------------------------------------------------
(* The cells of a chunk.                                                   *)

Rows(locals) == [y \in Positions |-> {c[1] : c \in {d \in locals : d[2] = y}}]

\* Offsets are uint16; their order, row after row, tells nothing.
RowsToOffsets(rows) ==
  UNION {{((y * ChunkSize) + x) % OffsetRange : x \in rows[y]} : y \in Positions}

\* Offsets beyond the last row are ignored.
OffsetsToRows(offsets) ==
  [y \in Positions |-> {o % ChunkSize : o \in {p \in offsets : p \div ChunkSize = y}}]

\* Mutant: an offset counts column after column.
DecodedColumns(id, offsets) ==
  {<<(id[1] * ChunkSize) + (o \div ChunkSize), (id[2] * ChunkSize) + (o % ChunkSize)>> :
     o \in offsets}

\* What reconcileChunk adds, for the chunk at id.
Decoded(id, offsets) ==
  {<<(id[1] * ChunkSize) + (o % ChunkSize), (id[2] * ChunkSize) + (o \div ChunkSize)>> :
     o \in offsets}
=============================================================================
