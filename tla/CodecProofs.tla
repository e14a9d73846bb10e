---------------------------- MODULE CodecProofs ----------------------------
(***************************************************************************)
(* The cells of a chunk survive being written as offsets, for every chunk  *)
(* size whose offsets are uint16; the cells of a piece survive being added *)
(* to its root, for every width of the coordinates; and the server takes   *)
(* what is drawn in the editor as it is, for every size of its grid.       *)
(***************************************************************************)
EXTENDS Codec, FiniteSetTheorems, SequenceTheorems, WellFoundedInduction, TLAPS

USE CodecAssumption

-----------------------------------------------------------------------------
(* Offsets.                                                                 *)

Offset(x, y) == (y * ChunkSize) + x

\* The two coordinates can be read off an offset, and it fits into 16 bits.
LEMMA OffsetDivides ==
  ASSUME NEW x \in Positions, NEW y \in Positions
  PROVE  /\ Offset(x, y) \in 0 .. OffsetRange - 1
         /\ Offset(x, y) % OffsetRange = Offset(x, y)
         /\ Offset(x, y) \div ChunkSize = y
         /\ Offset(x, y) % ChunkSize = x
<1> DEFINE o == Offset(x, y)
           p == y * ChunkSize
<1>1. /\ x \in Nat /\ x < ChunkSize /\ y \in Nat /\ y < ChunkSize
  BY DEF Positions
<1>2. p \in Nat
  BY <1>1
<1>3. (y + 1) * ChunkSize = p + ChunkSize
  BY <1>1
<1>4. (y + 1) * ChunkSize <= ChunkSize * ChunkSize
  BY <1>1
<1>5. o = p + x /\ o \in Nat
  BY <1>1, <1>2 DEF Offset
<1>6. o < OffsetRange
  BY <1>1, <1>2, <1>3, <1>4, <1>5
<1>7. o % OffsetRange = o
  BY <1>5, <1>6
<1>8. o \div ChunkSize = y
  BY <1>1, <1>2, <1>5
<1>9. o = ChunkSize * y + x
  BY <1>1, <1>5
<1> HIDE DEF o
<1>10. o = ChunkSize * (o \div ChunkSize) + (o % ChunkSize)
  BY <1>5
<1>11. o % ChunkSize = x
  BY <1>1, <1>5, <1>8, <1>9, <1>10
<1>12. QED
  BY <1>5, <1>6, <1>7, <1>8, <1>11 DEF o

\* RowsToOffsets loses no bit to the conversion to uint16 (simulation/chunk.go:107).
LEMMA OffsetsOfRows ==
  ASSUME NEW rows \in [Positions -> SUBSET Positions]
  PROVE  \A o : o \in RowsToOffsets(rows) <=>
                \E y \in Positions : \E x \in rows[y] : o = Offset(x, y)
<1>1. \A y \in Positions : rows[y] \subseteq Positions
  OBVIOUS
<1>2. \A y \in Positions : \A x \in rows[y] :
        ((y * ChunkSize) + x) % OffsetRange = Offset(x, y)
  BY <1>1, OffsetDivides DEF Offset
<1>3. QED
  BY <1>2 DEF RowsToOffsets

\* What a chunk is saved as in Redis gives the chunk back (storage/redis.go): every row,
\* and every bit of it, is where it was.
THEOREM StoredChunksReturn ==
  ASSUME NEW rows \in [Positions -> SUBSET Positions]
  PROVE  OffsetsToRows(RowsToOffsets(rows)) = rows
<1> DEFINE back == OffsetsToRows(RowsToOffsets(rows))
           row(y) == {o % ChunkSize : o \in {p \in RowsToOffsets(rows) : p \div ChunkSize = y}}
<1>1. ASSUME NEW y \in Positions
      PROVE  row(y) = rows[y]
  <2>1. ASSUME NEW x \in rows[y]
        PROVE  x \in row(y)
    <3>1. x \in Positions
      BY <1>1
    <3>2. Offset(x, y) \in RowsToOffsets(rows)
      BY <1>1, OffsetsOfRows
    <3>3. QED
      BY <1>1, <3>1, <3>2, OffsetDivides
  <2>2. ASSUME NEW x \in row(y)
        PROVE  x \in rows[y]
    <3>1. PICK o \in RowsToOffsets(rows) : o \div ChunkSize = y /\ x = o % ChunkSize
      BY <2>2
    <3>2. PICK z \in Positions : \E w \in rows[z] : o = Offset(w, z)
      BY OffsetsOfRows
    <3>3. PICK w \in rows[z] : o = Offset(w, z)
      BY <3>2
    <3>4. w \in Positions
      BY <3>3
    <3>5. z = y /\ w = x
      BY <3>1, <3>3, <3>4, OffsetDivides
    <3>6. QED
      BY <3>3, <3>5
  <2>3. QED
    BY <2>1, <2>2
<1>2. back = [y \in Positions |-> row(y)]
  BY DEF OffsetsToRows
<1>3. QED
  BY <1>1, <1>2

\* What the browser reads in a CHUNK_STATE are the world coordinates of the chunk's cells
\* (reconcileChunk, app.js:461-468).
THEOREM BrowserReadsTheChunk ==
  ASSUME NEW id \in Int \X Int, NEW locals \in SUBSET Local
  PROVE  Decoded(id, RowsToOffsets(Rows(locals))) =
           {<<(id[1] * ChunkSize) + c[1], (id[2] * ChunkSize) + c[2]>> : c \in locals}
<1> DEFINE rows == Rows(locals)
           world(c) == <<(id[1] * ChunkSize) + c[1], (id[2] * ChunkSize) + c[2]>>
<1>1. /\ rows \in [Positions -> SUBSET Positions]
      /\ \A y \in Positions : \A x : x \in rows[y] <=> <<x, y>> \in locals
  <2>1. \A c \in locals : c = <<c[1], c[2]>> /\ c[1] \in Positions /\ c[2] \in Positions
    BY DEF Local
  <2>2. \A y \in Positions : \A x : x \in {c[1] : c \in {d \in locals : d[2] = y}} <=> <<x, y>> \in locals
    BY <2>1
  <2>3. \A y \in Positions : {c[1] : c \in {d \in locals : d[2] = y}} \subseteq Positions
    BY <2>1
  <2>4. QED
    BY <2>2, <2>3 DEF Rows
<1> HIDE DEF rows
<1>2. ASSUME NEW x \in Positions, NEW y \in Positions
      PROVE  <<(id[1] * ChunkSize) + (Offset(x, y) % ChunkSize),
               (id[2] * ChunkSize) + (Offset(x, y) \div ChunkSize)>> = world(<<x, y>>)
  BY <1>2, OffsetDivides
<1>3. ASSUME NEW c \in locals
      PROVE  world(c) \in Decoded(id, RowsToOffsets(rows))
  <2>1. c = <<c[1], c[2]>> /\ c[1] \in Positions /\ c[2] \in Positions
    BY DEF Local
  <2>2. c[1] \in rows[c[2]]
    BY <1>1, <2>1
  <2>3. Offset(c[1], c[2]) \in RowsToOffsets(rows)
    BY <1>1, <2>1, <2>2, OffsetsOfRows
  <2>4. world(<<c[1], c[2]>>) \in Decoded(id, RowsToOffsets(rows))
    BY <1>2, <2>1, <2>3 DEF Decoded
  <2>5. QED
    BY <2>1, <2>4
<1>4. ASSUME NEW w \in Decoded(id, RowsToOffsets(rows))
      PROVE  \E c \in locals : w = world(c)
  <2>1. PICK o \in RowsToOffsets(rows) :
          w = <<(id[1] * ChunkSize) + (o % ChunkSize), (id[2] * ChunkSize) + (o \div ChunkSize)>>
    BY <1>4 DEF Decoded
  <2>2. PICK y \in Positions : \E x \in rows[y] : o = Offset(x, y)
    BY <1>1, OffsetsOfRows
  <2>3. PICK x \in rows[y] : o = Offset(x, y)
    BY <2>2
  <2>4. x \in Positions /\ <<x, y>> \in locals
    BY <1>1, <2>3
  <2>5. QED
    BY <1>2, <2>1, <2>3, <2>4
<1>5. QED
  BY <1>3, <1>4 DEF rows

-----------------------------------------------------------------------------
(* Coordinates that wrap.                                                   *)

\* Two sums that differ by less than the width wrap to different coordinates.
LEMMA WrapKeepsApart ==
  ASSUME NEW m \in Int, NEW n \in Int, m - n \in -MaxCustomDim .. MaxCustomDim, m # n
  PROVE  Wrapped(m) # Wrapped(n)
<1> DEFINE w == 2 * IntMax
           a == m + IntMax
           b == n + IntMax
<1>1. w \in Nat \ {0} /\ a \in Int /\ b \in Int
  OBVIOUS
<1>2. a - b \in 1 - w .. w - 1 /\ a # b
  OBVIOUS
<1>3. /\ a = w * (a \div w) + (a % w) /\ a \div w \in Int
      /\ b = w * (b \div w) + (b % w) /\ b \div w \in Int
      /\ a % w \in Int /\ b % w \in Int
  BY <1>1
<1> DEFINE k == (a \div w) - (b \div w)
<1>4. SUFFICES ASSUME a % w = b % w
               PROVE  FALSE
  BY <1>3 DEF Wrapped
<1> HIDE DEF w, a, b
<1>5. k \in Int /\ w * (a \div w) = w * (b \div w) + w * k
  BY <1>1, <1>3
<1>6. a - b = w * k
  BY <1>1, <1>3, <1>4, <1>5
<1> HIDE DEF k
<1>7. k >= 1 => w * k >= w
  BY <1>1, <1>5
<1>8. k <= -1 => w * k <= -w
  BY <1>1, <1>5
<1>9. k = 0 => w * k = 0
  BY <1>1
<1>10. QED
  BY <1>1, <1>2, <1>5, <1>6, <1>7, <1>8, <1>9

\* A sum that is in range is the coordinate (router.go:133).
LEMMA InRange ==
  ASSUME NEW n \in -IntMax .. IntMax - 1
  PROVE  Wrapped(n) = n
<1>1. n + IntMax \in 0 .. (2 * IntMax) - 1
  OBVIOUS
<1>2. (n + IntMax) % (2 * IntMax) = n + IntMax
  BY <1>1
<1>3. QED
  BY <1>2 DEF Wrapped

\* No two cells of a valid piece land on one cell of the board, though its root be at the
\* end of int64: a piece is placed with as many cells as were charged (router.go:119-134).
THEOREM PiecesStayWhole ==
  ASSUME NEW root \in Int \X Int, NEW c \in Int \X Int, NEW d \in Int \X Int,
         ~OutOfBounds(c), ~OutOfBounds(d), c # d
  PROVE  CellAt(root, c) # CellAt(root, d)
<1>1. \A i \in 1 .. 2 : c[i] \in 0 .. MaxCustomDim /\ d[i] \in 0 .. MaxCustomDim
  BY DEF OutOfBounds
<1>2. c[1] \in 0 .. MaxCustomDim /\ d[1] \in 0 .. MaxCustomDim
  BY <1>1
<1>3. c[2] \in 0 .. MaxCustomDim /\ d[2] \in 0 .. MaxCustomDim
  BY <1>1
<1>4. c[1] # d[1] \/ c[2] # d[2]
  OBVIOUS
<1>5. CASE c[1] # d[1]
  <2>1. Wrapped(root[1] + c[1]) # Wrapped(root[1] + d[1])
    BY <1>2, <1>5, WrapKeepsApart
  <2>2. QED
    BY <2>1 DEF CellAt
<1>6. CASE c[2] # d[2]
  <2>1. Wrapped(root[2] + c[2]) # Wrapped(root[2] + d[2])
    BY <1>3, <1>6, WrapKeepsApart
  <2>2. QED
    BY <2>1 DEF CellAt
<1>7. QED
  BY <1>4, <1>5, <1>6

-----------------------------------------------------------------------------
(* Picking elements of a sequence in their order.                           *)

\* Without induction: the intervals up to the numbers of S, ordered by inclusion, have a
\* smallest one.
LEMMA LeastExists ==
  ASSUME NEW S \in SUBSET Nat, S # {}
  PROVE  Least(S) \in S /\ \A m \in S : Least(S) <= m
<1> DEFINE T == {1 .. n : n \in S}
<1>1. IsWellFoundedOn(StrictSubsetOrdering(Nat), FiniteSubsetsOf(Nat))
  BY FS_StrictSubsetOrderingWellFounded
<1>2. T \subseteq FiniteSubsetsOf(Nat)
  <2>1. \A n \in S : IsFiniteSet(1 .. n)
    BY FS_Interval
  <2>2. \A n \in S : 1 .. n \in SUBSET Nat
    OBVIOUS
  <2>3. QED
    BY <2>1, <2>2 DEF FiniteSubsetsOf
<1>3. T # {}
  OBVIOUS
<1> HIDE DEF T
<1>4. PICK t \in T : \A u \in T : ~(<<u, t>> \in StrictSubsetOrdering(Nat))
  BY <1>1, <1>2, <1>3, WFMin
<1>5. PICK n \in S : t = 1 .. n
  BY <1>4 DEF T
<1>6. ASSUME NEW m \in S
      PROVE  n <= m
  <2>1. <<1 .. m, 1 .. n>> \notin StrictSubsetOrdering(Nat)
    BY <1>4, <1>5 DEF T
  <2>2. ~(1 .. m \subseteq 1 .. n) \/ 1 .. m = 1 .. n
    BY <2>1 DEF StrictSubsetOrdering
  <2>3. QED
    BY <2>2
<1>7. \E l \in S : \A m \in S : l <= m
  BY <1>6
<1>8. QED
  BY <1>7 DEF Least

LEMMA FirstNumbers ==
  ASSUME NEW N \in Nat
  PROVE  IsFiniteSet(1 .. N) /\ Cardinality(1 .. N) = N
BY FS_Interval

LEMMA PositionsAreFinite ==
  ASSUME NEW N \in Nat, NEW I \in SUBSET (1 .. N)
  PROVE  I \in SUBSET Nat /\ IsFiniteSet(I) /\ Cardinality(I) \in Nat /\ Cardinality(I) <= N
<1>1. IsFiniteSet(1 .. N) /\ Cardinality(1 .. N) = N
  BY FirstNumbers
<1>2. IsFiniteSet(I) /\ Cardinality(I) \in Nat /\ Cardinality(I) <= N
  BY <1>1, FS_Subset, FS_CardinalityType
<1>3. I \in SUBSET Nat
  OBVIOUS
<1>4. QED
  BY <1>2, <1>3

\* Every rank up to the number of positions is the rank of one of them: ranks grow with
\* the positions, and there are as many as positions.
LEMMA RankIsOnto ==
  ASSUME NEW I \in SUBSET Nat, IsFiniteSet(I)
  PROVE  /\ Cardinality(I) \in Nat
         /\ \A i, j \in I : Rank(i, I) = Rank(j, I) => i = j
         /\ \A n \in 1 .. Cardinality(I) : \E i \in I : Rank(i, I) = n
<1> DEFINE upto(i) == {j \in I : j <= i}
<1>1. Cardinality(I) \in Nat
  BY FS_CardinalityType
<1>2. ASSUME NEW i \in I
      PROVE  IsFiniteSet(upto(i)) /\ Rank(i, I) \in 1 .. Cardinality(I)
  <2>1. /\ IsFiniteSet(upto(i)) /\ Cardinality(upto(i)) <= Cardinality(I)
        /\ Cardinality(upto(i)) \in Nat
    BY <1>1, FS_Subset, FS_CardinalityType
  <2>2. i \in upto(i)
    OBVIOUS
  <2>3. Cardinality(upto(i)) # 0
    BY <2>1, <2>2, FS_EmptySet
  <2>4. QED
    BY <1>1, <2>1, <2>3 DEF Rank
<1>3. ASSUME NEW i \in I, NEW j \in I, i < j
      PROVE  Rank(i, I) # Rank(j, I)
  <2>1. upto(i) \subseteq upto(j) /\ j \notin upto(i) /\ j \in upto(j)
    <3>1. \A k \in I : k \in Nat
      OBVIOUS
    <3>2. \A k \in I : k <= i => k <= j
      BY <1>3, <3>1
    <3>3. ~(j <= i) /\ j <= j
      BY <1>3, <3>1
    <3>4. QED
      BY <3>2, <3>3
  <2>2. Cardinality(upto(i)) # Cardinality(upto(j))
    <3>1. IsFiniteSet(upto(j)) /\ upto(i) \in SUBSET upto(j) /\ upto(i) # upto(j)
      BY <1>2, <2>1
    <3> HIDE DEF upto
    <3>2. QED
      BY <3>1, FS_Subset
  <2>3. QED
    BY <2>2 DEF Rank
<1>4. \A i, j \in I : Rank(i, I) = Rank(j, I) => i = j
  BY <1>3
<1> DEFINE f == [i \in I |-> Rank(i, I)]
           K == 1 .. Cardinality(I)
<1>5. f \in Injection(I, K)
  <2>1. f \in [I -> K]
    BY <1>2
  <2>2. \A i, j \in I : f[i] = f[j] => i = j
    BY <1>4
  <2> HIDE DEF f, K
  <2>3. QED
    BY <2>1, <2>2 DEF Injection, IsInjective
<1>6. IsFiniteSet(K) /\ Cardinality(K) = Cardinality(I)
  BY <1>1, FS_Interval
<1>7. f \in Surjection(I, K)
  <2> HIDE DEF f, K
  <2>1. QED
    BY <1>5, <1>6, FS_Injection
<1>8. \A n \in K : \E i \in I : f[i] = n
  <2> HIDE DEF f, K
  <2>1. QED
    BY <1>7 DEF Surjection
<1>9. QED
  BY <1>1, <1>4, <1>8

\* The positions of I in their order.
Ordered(I) == [n \in 1 .. Cardinality(I) |-> CHOOSE i \in I : Rank(i, I) = n]

\* Picked takes each of the positions once.
LEMMA PickedIsOrdered ==
  ASSUME NEW I \in SUBSET Nat, IsFiniteSet(I), NEW s
  PROVE  /\ Ordered(I) \in [1 .. Cardinality(I) -> I]
         /\ \A n \in 1 .. Cardinality(I) : Rank(Ordered(I)[n], I) = n
         /\ Picked(s, I) = [n \in 1 .. Cardinality(I) |-> s[Ordered(I)[n]]]
<1> DEFINE K == 1 .. Cardinality(I)
           at(n) == CHOOSE i \in I : Rank(i, I) = n
<1>1. \A n \in K : at(n) \in I /\ Rank(at(n), I) = n
  BY RankIsOnto
<1>2. Picked(s, I) = [n \in K |-> s[at(n)]] /\ Ordered(I) = [n \in K |-> at(n)]
  BY DEF Picked, Ordered
<1> HIDE DEF at
<1>3. Ordered(I) \in [K -> I] /\ \A n \in K : Ordered(I)[n] = at(n)
  BY <1>1, <1>2
<1>4. QED
  BY <1>1, <1>2, <1>3

\* Picked, when every position is picked.
LEMMA AllInOrder ==
  ASSUME NEW N \in Nat, NEW s
  PROVE  Picked(s, 1 .. N) = [n \in 1 .. N |-> s[n]]
<1>1. Cardinality(1 .. N) = N
  BY FirstNumbers
<1>2. ASSUME NEW i \in 1 .. N
      PROVE  Rank(i, 1 .. N) = i
  <2>1. {j \in 1 .. N : j <= i} = 1 .. i
    OBVIOUS
  <2>2. Cardinality(1 .. i) = i
    BY FirstNumbers
  <2>3. QED
    BY <2>1, <2>2 DEF Rank
<1> DEFINE at(n) == CHOOSE i \in 1 .. N : Rank(i, 1 .. N) = n
<1>3. ASSUME NEW n \in 1 .. N
      PROVE  at(n) = n
  BY <1>2
<1>4. Picked(s, 1 .. N) = [n \in 1 .. N |-> s[at(n)]]
  BY <1>1 DEF Picked
<1> HIDE DEF at
<1>5. QED
  BY <1>3, <1>4

LEMMA PickedWhole ==
  ASSUME NEW s \in Seq(Int \X Int)
  PROVE  Picked(s, 1 .. Len(s)) = s
<1> DEFINE t == Picked(s, 1 .. Len(s))
<1>1. t = [n \in 1 .. Len(s) |-> s[n]]
  BY AllInOrder, LenProperties
<1> HIDE DEF t
<1>2. s \in [1 .. Len(s) -> Int \X Int]
  BY LenProperties
<1>3. s = [n \in 1 .. Len(s) |-> s[n]]
  BY <1>2
<1>4. t = s
  BY <1>1, <1>3
<1>5. QED
  BY <1>4 DEF t

-----------------------------------------------------------------------------
(* What the editor draws.                                                   *)

Grid == [i \in 1 .. GridSize * GridSize |-> <<(i - 1) % GridSize, (i - 1) \div GridSize>>]

\* The grid is read cell by cell, and each cell once.
LEMMA GridCells ==
  /\ GridSize * GridSize \in Nat
  /\ \A i \in 1 .. GridSize * GridSize :
       /\ Grid[i][1] \in 0 .. GridSize - 1 /\ Grid[i][2] \in 0 .. GridSize - 1
       /\ i = GridSize * Grid[i][2] + Grid[i][1] + 1
       /\ Grid[i] = <<Grid[i][1], Grid[i][2]>>
  /\ \A x, y \in 0 .. GridSize - 1 :
       \E i \in 1 .. GridSize * GridSize : Grid[i] = <<x, y>>
<1> DEFINE G == GridSize
           N == G * G
<1>1. G \in Nat \ {0} /\ N \in Nat
  OBVIOUS
<1>2. ASSUME NEW i \in 1 .. N
      PROVE  /\ (i - 1) % G \in 0 .. G - 1 /\ (i - 1) \div G \in 0 .. G - 1
             /\ i = G * ((i - 1) \div G) + ((i - 1) % G) + 1
  <2> DEFINE m == i - 1
             q == m \div G
             r == m % G
  <2>1. m \in Nat /\ m < N
    BY <1>1
  <2> HIDE DEF m
  <2>2. q \in Nat /\ r \in 0 .. G - 1 /\ m = G * q + r
    BY <1>1, <2>1
  <2> HIDE DEF q, r
  <2>3. q >= G => G * q >= G * G
    BY <1>1, <2>2
  <2>4. q < G
    BY <1>1, <2>1, <2>2, <2>3
  <2>5. i = m + 1
    BY <1>1 DEF m
  <2>6. i = G * q + r + 1
    BY <2>2, <2>5, <1>1
  <2>7. QED
    BY <2>2, <2>4, <2>6, <1>1 DEF m, q, r
<1>3. ASSUME NEW i \in 1 .. N
      PROVE  Grid[i] = <<(i - 1) % G, (i - 1) \div G>>
  BY DEF Grid
<1>4. ASSUME NEW x \in 0 .. G - 1, NEW y \in 0 .. G - 1
      PROVE  \E i \in 1 .. N : Grid[i] = <<x, y>>
  <2> DEFINE m == G * y + x
  <2>1. x \in Nat /\ y \in Nat /\ x < G /\ y + 1 <= G
    BY <1>1
  <2>2. G * y \in Nat /\ G * (y + 1) = G * y + G /\ G * (y + 1) <= G * G
    BY <1>1, <2>1
  <2>3. m \in Nat /\ m < N
    BY <1>1, <2>1, <2>2
  <2>4. m \div G = y /\ m % G = x
    <3>1. m = G * (m \div G) + (m % G) /\ m \div G \in Int /\ m % G \in 0 .. G - 1
      BY <1>1, <2>3
    <3> DEFINE q == m \div G
               r == m % G
    <3> HIDE DEF q, r
    <3>2. G * y + x = G * q + r /\ q \in Int /\ r \in 0 .. G - 1
      BY <3>1 DEF q, r, m
    <3> HIDE DEF m
    <3> DEFINE k == y - q
    <3>3. k \in Int /\ G * y = G * q + G * k
      BY <1>1, <2>1, <3>2
    <3> HIDE DEF k
    <3>4. G * q \in Int /\ G * k \in Int
      BY <1>1, <3>2, <3>3
    <3>5. G * k = r - x
      BY <1>1, <2>1, <3>2, <3>3, <3>4
    <3>6. k >= 1 => G * k >= G
      BY <1>1, <3>3
    <3>7. k <= -1 => G * k <= -G
      BY <1>1, <3>3
    <3>8. k = 0
      BY <1>1, <2>1, <3>2, <3>3, <3>5, <3>6, <3>7
    <3>9. y = q
      BY <2>1, <3>2, <3>8 DEF k
    <3>10. x = r
      BY <1>1, <2>1, <3>2, <3>5, <3>8
    <3>11. QED
      BY <3>9, <3>10 DEF q, r
  <2>5. m + 1 \in 1 .. N /\ (m + 1) - 1 = m
    BY <1>1, <2>3
  <2>6. Grid[m + 1] = <<x, y>>
    BY <1>3, <2>4, <2>5
  <2>7. QED
    BY <2>5, <2>6
<1>5. ASSUME NEW i \in 1 .. N
      PROVE  /\ Grid[i][1] \in 0 .. G - 1 /\ Grid[i][2] \in 0 .. G - 1
             /\ i = G * Grid[i][2] + Grid[i][1] + 1
             /\ Grid[i] = <<Grid[i][1], Grid[i][2]>>
  <2>1. Grid[i][1] = (i - 1) % G /\ Grid[i][2] = (i - 1) \div G
    BY <1>3
  <2>2. QED
    BY <1>2, <1>3, <2>1
<1> HIDE DEF N
<1>6. QED
  BY <1>1, <1>4, <1>5 DEF N

Drawn(drawing) == {i \in 1 .. GridSize * GridSize : Grid[i] \in drawing}
Left(drawing) == Least({c[1] : c \in drawing})
Top(drawing) == Least({c[2] : c \in drawing})

LEMMA DrawingHasCorner ==
  ASSUME NEW drawing \in Drawings
  PROVE  /\ Left(drawing) \in Nat /\ Top(drawing) \in Nat
         /\ \A c \in drawing : Left(drawing) <= c[1] /\ Top(drawing) <= c[2]
<1> DEFINE X == {c[1] : c \in drawing}
           Y == {c[2] : c \in drawing}
<1>1. drawing # {} /\ \A c \in drawing : c[1] \in Nat /\ c[2] \in Nat
  BY DEF Drawings
<1>2. X \in SUBSET Nat /\ X # {} /\ Y \in SUBSET Nat /\ Y # {}
  BY <1>1
<1>3. \A c \in drawing : c[1] \in X /\ c[2] \in Y
  OBVIOUS
<1>4. Left(drawing) = Least(X) /\ Top(drawing) = Least(Y)
  BY DEF Left, Top
<1> HIDE DEF X, Y
<1>5. Least(X) \in X /\ \A m \in X : Least(X) <= m
  BY <1>2, LeastExists
<1>6. Least(Y) \in Y /\ \A m \in Y : Least(Y) <= m
  BY <1>2, LeastExists
<1>7. QED
  BY <1>2, <1>3, <1>4, <1>5, <1>6

\* What the editor sends has the cells of the drawing, each once, within the grid.
LEMMA NormalisedCells ==
  ASSUME NEW drawing \in Drawings
  PROVE  LET I == Drawn(drawing)
             n == Cardinality(I)
             s == Normalised(drawing)
         IN  /\ n \in Nat \ {0} /\ n <= GridSize * GridSize
             /\ s \in [1 .. n -> (0 .. GridSize - 1) \X (0 .. GridSize - 1)]
             /\ \A i, j \in 1 .. n : i # j => s[i] # s[j]
<1> DEFINE I == Drawn(drawing)
           n == Cardinality(I)
           N == GridSize * GridSize
           D == 0 .. GridSize - 1
           l == Left(drawing)
           t == Top(drawing)
           raw == Picked(Grid, I)
           at(k) == Ordered(I)[k]
<1>1. N \in Nat /\ I \in SUBSET (1 .. N) /\ \A i \in I : Grid[i] \in drawing
  BY GridCells DEF Drawn
<1>2. I \in SUBSET Nat /\ IsFiniteSet(I) /\ n \in Nat /\ n <= N
  BY <1>1, PositionsAreFinite
<1>3. n # 0
  <2>1. PICK c \in drawing : c \in D \X D
    BY DEF Drawings
  <2>2. c[1] \in D /\ c[2] \in D /\ c = <<c[1], c[2]>>
    BY <2>1
  <2>3. \E i \in 1 .. N : Grid[i] = <<c[1], c[2]>>
    BY <2>2, GridCells
  <2>4. I # {}
    BY <2>2, <2>3 DEF Drawn
  <2> HIDE DEF I
  <2>5. QED
    BY <1>2, <2>4, FS_EmptySet
<1>4. Normalised(drawing) = [i \in DOMAIN raw |-> <<raw[i][1] - l, raw[i][2] - t>>]
  <2>1. DOMAIN Grid = 1 .. N
    BY DEF Grid
  <2>2. I = {i \in DOMAIN Grid : Grid[i] \in drawing}
    BY <2>1 DEF Drawn
  <2>3. QED
    BY <2>2 DEF Normalised, Grid, Left, Top
<1>5. l \in Nat /\ t \in Nat /\ \A c \in drawing : l <= c[1] /\ t <= c[2]
  BY DrawingHasCorner
<1> HIDE DEF I, N
<1>6. /\ Ordered(I) \in [1 .. n -> I]
      /\ \A k \in 1 .. n : Rank(at(k), I) = k
      /\ raw = [k \in 1 .. n |-> Grid[at(k)]]
  BY <1>2, PickedIsOrdered
<1> HIDE DEF n, raw, l, t
<1>7. DOMAIN raw = 1 .. n /\ \A k \in 1 .. n : raw[k] = Grid[at(k)] /\ at(k) \in I
  BY <1>6
<1>8. ASSUME NEW k \in 1 .. n
      PROVE  /\ raw[k] \in drawing /\ raw[k][1] \in D /\ raw[k][2] \in D
             /\ at(k) = GridSize * raw[k][2] + raw[k][1] + 1
  <2> HIDE DEF at
  <2>1. at(k) \in 1 .. N /\ raw[k] = Grid[at(k)] /\ raw[k] \in drawing
    BY <1>1, <1>7
  <2> HIDE DEF D
  <2>2. \A i \in 1 .. N : /\ Grid[i][1] \in D /\ Grid[i][2] \in D
                         /\ i = GridSize * Grid[i][2] + Grid[i][1] + 1
    BY GridCells DEF N, D
  <2>3. QED
    BY <2>1, <2>2
<1> HIDE DEF at
<1> DEFINE s == Normalised(drawing)
<1>9. s = [k \in 1 .. n |-> <<raw[k][1] - l, raw[k][2] - t>>]
  BY <1>4, <1>7
<1>10. ASSUME NEW k \in 1 .. n
       PROVE  raw[k][1] - l \in D /\ raw[k][2] - t \in D
  BY <1>5, <1>8
<1>11. s \in [1 .. n -> D \X D]
  BY <1>9, <1>10
<1>12. ASSUME NEW i \in 1 .. n, NEW j \in 1 .. n, s[i] = s[j]
       PROVE  i = j
  <2>1. raw[i][1] - l = raw[j][1] - l /\ raw[i][2] - t = raw[j][2] - t
    BY <1>9, <1>12
  <2>2. raw[i][1] = raw[j][1] /\ raw[i][2] = raw[j][2]
    BY <1>5, <1>8, <2>1
  <2>3. at(i) = at(j)
    BY <1>8, <2>2
  <2>4. QED
    BY <1>6, <2>3
<1>13. QED
  BY <1>2, <1>3, <1>11, <1>12 DEF I, n, N

\* What the editor lets a player draw is accepted as it was drawn, for every grid whose
\* cells are within the limits of the server: no refusal, and nothing taken out
\* (app.js:1114-1142, shapes.go:181-208).
THEOREM DrawnPiecesAreValid ==
  ASSUME NEW drawing \in Drawings
  PROVE  LET drawn == Normalised(drawing)
         IN  ValidateCustomCells(drawn) = [error |-> "", out |-> drawn]
<1> DEFINE n == Cardinality(Drawn(drawing))
           s == Normalised(drawing)
           D == 0 .. GridSize - 1
           kept == {i \in DOMAIN s : \A j \in 1 .. i - 1 : s[j] # s[i]}
<1>1. /\ n \in Nat \ {0} /\ n <= GridSize * GridSize /\ s \in [1 .. n -> D \X D]
      /\ \A i, j \in 1 .. n : i # j => s[i] # s[j]
  BY NormalisedCells
<1> HIDE DEF n, s
<1>2. DOMAIN s = 1 .. n /\ s # <<>>
  BY <1>1
<1>3. \A i \in DOMAIN s : ~OutOfBounds(s[i])
  <2>1. ASSUME NEW i \in 1 .. n
        PROVE  s[i][1] \in D /\ s[i][2] \in D
    BY <1>1
  <2>2. \A i \in 1 .. n : \A k \in 1 .. 2 : s[i][k] \in D
    BY <2>1
  <2>3. QED
    BY <1>2, <2>2 DEF OutOfBounds
<1>4. kept = 1 .. n
  <2>1. ASSUME NEW i \in 1 .. n, NEW j \in 1 .. i - 1
        PROVE  s[j] # s[i]
    BY <1>1
  <2>2. QED
    BY <1>2, <2>1
<1>5. Cardinality(1 .. n) = n /\ n <= MaxCustomCells
  <2>1. Cardinality(1 .. n) = n
    BY <1>1, FirstNumbers
  <2>2. GridSize * GridSize \in Nat
    OBVIOUS
  <2>3. QED
    BY <1>1, <2>1, <2>2
<1>6. Picked(s, 1 .. n) = s
  <2>1. Picked(s, 1 .. n) = [k \in 1 .. n |-> s[k]]
    BY <1>1, AllInOrder
  <2>2. s = [k \in 1 .. n |-> s[k]]
    BY <1>1
  <2>3. QED
    BY <2>1, <2>2
<1>7. ValidateCustomCells(s) = [error |-> "", out |-> Picked(s, kept)]
  <2> HIDE DEF kept
  <2>1. ~(Cardinality(kept) > MaxCustomCells)
    BY <1>1, <1>4, <1>5
  <2>2. QED
    BY <1>2, <1>3, <2>1 DEF ValidateCustomCells, kept
<1>8. QED
  BY <1>4, <1>6, <1>7 DEF s

\* The server adds no cell to a piece.
LEMMA ValidCellsAreSent ==
  ASSUME NEW S, NEW cells \in Seq(S)
  PROVE  \A c \in ToSet(ValidateCustomCells(cells).out) : c \in ToSet(cells)
<1> DEFINE kept == {i \in DOMAIN cells : \A j \in 1 .. i - 1 : cells[j] # cells[i]}
           out == ValidateCustomCells(cells).out
<1>1. Len(cells) \in Nat /\ kept \in SUBSET (1 .. Len(cells)) /\ DOMAIN cells = 1 .. Len(cells)
  BY LenProperties
<1>2. kept \in SUBSET Nat /\ IsFiniteSet(kept)
  BY <1>1, PositionsAreFinite
<1>3. out = <<>> \/ out = Picked(cells, kept)
  BY DEF ValidateCustomCells, Refused
<1> HIDE DEF kept, out
<1>4. /\ Ordered(kept) \in [1 .. Cardinality(kept) -> kept]
      /\ Picked(cells, kept) = [n \in 1 .. Cardinality(kept) |-> cells[Ordered(kept)[n]]]
  BY <1>2, PickedIsOrdered
<1>5. \A c \in ToSet(out) : c \in ToSet(cells)
  <2>1. CASE out = <<>>
    BY <2>1 DEF ToSet
  <2>2. CASE out = Picked(cells, kept)
    <3>1. /\ DOMAIN out = 1 .. Cardinality(kept)
          /\ \A n \in 1 .. Cardinality(kept) :
               Ordered(kept)[n] \in kept /\ out[n] = cells[Ordered(kept)[n]]
      BY <1>4, <2>2
    <3>2. \A n \in DOMAIN out : \E i \in DOMAIN cells : out[n] = cells[i]
      BY <1>1, <3>1
    <3>3. QED
      BY <3>2 DEF ToSet
  <2>3. QED
    BY <1>3, <2>1, <2>2
<1>6. QED
  BY <1>5 DEF out
=============================================================================
