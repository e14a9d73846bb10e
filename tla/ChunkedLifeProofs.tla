------------------------- MODULE ChunkedLifeProofs -------------------------
(***************************************************************************)
(* ChunkedLife implements Life for every chunk size of at least 3 and      *)
(* every set of chunk positions and spots.                                 *)
(***************************************************************************)
EXTENDS ChunkedLife, FiniteSetTheorems, FunctionTheorems, TLAPS

USE ChunkAssumption

-----------------------------------------------------------------------------
(* Coordinates.                                                             *)

\* worldToChunkLocal is floor division, negative coordinates included.
LEMMA FloorDivision ==
  ASSUME NEW a \in Int
  PROVE  /\ ChunkOf(a) \in Int
         /\ LocalOf(a) \in 0 .. ChunkSize - 1
         /\ ChunkOf(a) * ChunkSize + LocalOf(a) = a
<1>1. /\ Quotient(a) \in Int /\ Remainder(a) \in Int
      /\ a = ChunkSize * Quotient(a) + Remainder(a)
      /\ a >= 0 => Remainder(a) \in 0 .. ChunkSize - 1
      /\ a < 0 => Remainder(a) \in 1 - ChunkSize .. 0
  <2>1. CASE a >= 0
    BY <2>1 DEF Quotient, Remainder
  <2>2. CASE a < 0
    <3> DEFINE q == (-a) \div ChunkSize
    <3>1. q \in Int /\ -a - ChunkSize * q \in 0 .. ChunkSize - 1
      BY <2>2
    <3>2. Quotient(a) = -q
      BY <2>2 DEF Quotient
    <3> HIDE DEF q
    <3>3. ChunkSize * (-q) = -(ChunkSize * q)
      BY <3>1
    <3>4. QED
      BY <2>2, <3>1, <3>2, <3>3 DEF Remainder
  <2>3. QED
    BY <2>1, <2>2
<1>2. (Quotient(a) - 1) * ChunkSize = ChunkSize * Quotient(a) - ChunkSize
  BY <1>1
<1>3. Quotient(a) * ChunkSize = ChunkSize * Quotient(a)
  BY <1>1
<1>4. QED
  BY <1>1, <1>2, <1>3 DEF ChunkOf, LocalOf

\* Two cells of a row that are at most one apart are in the same chunk or on the
\* two sides of a border.
LEMMA AcrossTheBorder ==
  ASSUME NEW i \in Int, NEW j \in Int,
         NEW x \in 0 .. ChunkSize - 1, NEW y \in 0 .. ChunkSize - 1,
         (j * ChunkSize + y) - (i * ChunkSize + x) \in -1 .. 1
  PROVE  /\ i - j \in -1 .. 1
         /\ i - j = -1 => y = 0
         /\ i - j = 1 => y = ChunkSize - 1
<1> DEFINE k == i - j
<1>1. k \in Int /\ i = j + k
  OBVIOUS
<1> HIDE DEF k
<1>2. i * ChunkSize = j * ChunkSize + k * ChunkSize
  BY <1>1
<1>3. k * ChunkSize + x - y \in -1 .. 1
  BY <1>1, <1>2
<1>4. k >= 2 => k * ChunkSize >= 2 * ChunkSize
  BY <1>1
<1>5. k <= -2 => k * ChunkSize <= -2 * ChunkSize
  BY <1>1
<1>6. k \in -1 .. 1
  BY <1>1, <1>3, <1>4, <1>5
<1>7. k = -1 => k * ChunkSize = -ChunkSize
  OBVIOUS
<1>8. k = 1 => k * ChunkSize = ChunkSize
  OBVIOUS
<1>9. QED
  BY <1>1, <1>3, <1>6, <1>7, <1>8 DEF k

\* The chunk of a world coordinate, and where in it.
Chunk(v)  == <<ChunkOf(v[1]), ChunkOf(v[2])>>
Inside(v) == <<LocalOf(v[1]), LocalOf(v[2])>>

\* Every world coordinate has a place in a chunk.
LEMMA WorldToChunk ==
  ASSUME NEW v \in Int \X Int
  PROVE  Chunk(v) \in Int \X Int /\ Inside(v) \in Local /\ ToWorld(Chunk(v), Inside(v)) = v
<1>1. v[1] \in Int /\ v[2] \in Int /\ v = <<v[1], v[2]>>
  OBVIOUS
<1>2. QED
  BY <1>1, FloorDivision DEF Chunk, Inside, Local, ToWorld

\* One coordinate is in one place only.
LEMMA OnePlace ==
  ASSUME NEW i \in Int, NEW x \in 0 .. ChunkSize - 1
  PROVE  ChunkOf(i * ChunkSize + x) = i /\ LocalOf(i * ChunkSize + x) = x
<1> DEFINE a == i * ChunkSize + x
           j == ChunkOf(a)
           y == LocalOf(a)
<1>1. a \in Int
  OBVIOUS
<1>2. j \in Int /\ y \in 0 .. ChunkSize - 1 /\ j * ChunkSize + y = a
  BY <1>1, FloorDivision
<1> HIDE DEF j, y
<1>3. (j * ChunkSize + y) - (i * ChunkSize + x) \in -1 .. 1
  BY <1>2
<1>4. i - j \in -1 .. 1
  BY <1>2, <1>3, AcrossTheBorder
<1>5. i = j \/ i = j + 1 \/ i = j - 1
  BY <1>2, <1>4
<1>6. (j + 1) * ChunkSize = j * ChunkSize + ChunkSize /\ (j - 1) * ChunkSize = j * ChunkSize - ChunkSize
  BY <1>2
<1>7. i = j
  BY <1>2, <1>5, <1>6
<1>8. x = y
  BY <1>2, <1>7
<1>9. QED
  BY <1>7, <1>8 DEF j, y

\* Every place in a chunk is one world coordinate, which leads back to it.
LEMMA ChunkToWorld ==
  ASSUME NEW id \in Int \X Int, NEW c \in Local
  PROVE  ToWorld(id, c) \in Int \X Int /\ Chunk(ToWorld(id, c)) = id /\ Inside(ToWorld(id, c)) = c
<1>1. /\ id[1] \in Int /\ id[2] \in Int /\ id = <<id[1], id[2]>>
      /\ c[1] \in 0 .. ChunkSize - 1 /\ c[2] \in 0 .. ChunkSize - 1 /\ c = <<c[1], c[2]>>
  BY DEF Local
<1>2. QED
  BY <1>1, OnePlace DEF Chunk, Inside, ToWorld

-----------------------------------------------------------------------------
(* The world, and the halos.                                                *)

\* The cells of the world are those in the rows of their chunks.
LEMMA WorldIsTheRows ==
  ASSUME NEW r \in [ChunkIDs -> SUBSET Local]
  PROVE  /\ Cells(r) \subseteq Int \X Int
         /\ \A v \in Int \X Int : v \in Cells(r) <=> Chunk(v) \in ChunkIDs /\ Inside(v) \in r[Chunk(v)]
         /\ \A id \in ChunkIDs, c \in Local : ToWorld(id, c) \in Cells(r) <=> c \in r[id]
<1>1. \A v : v \in Cells(r) <=> \E id \in ChunkIDs : \E c \in r[id] : v = ToWorld(id, c)
  <2>1. ASSUME NEW v \in Cells(r)
        PROVE  \E id \in ChunkIDs : \E c \in r[id] : v = ToWorld(id, c)
    <3>1. PICK id \in ChunkIDs : \E g \in {id} \X r[id] : v = ToWorld(g[1], g[2])
      BY <2>1 DEF Cells
    <3>2. QED
      BY <3>1
  <2>2. ASSUME NEW id \in ChunkIDs, NEW c \in r[id]
        PROVE  ToWorld(id, c) \in Cells(r)
    <3> DEFINE g == <<id, c>>
    <3>1. g \in UNION {{e} \X r[e] : e \in ChunkIDs}
      OBVIOUS
    <3>2. ToWorld(g[1], g[2]) \in Cells(r)
      BY <3>1 DEF Cells
    <3>3. QED
      BY <3>2
  <2>3. QED
    BY <2>1, <2>2
<1>2. \A id \in ChunkIDs : id \in Int \X Int /\ r[id] \subseteq Local
  OBVIOUS
<1>3. Cells(r) \subseteq Int \X Int
  BY <1>1, <1>2, ChunkToWorld
<1>4. ASSUME NEW v \in Int \X Int
      PROVE  v \in Cells(r) <=> Chunk(v) \in ChunkIDs /\ Inside(v) \in r[Chunk(v)]
  BY <1>1, <1>2, ChunkToWorld, WorldToChunk
<1>5. ASSUME NEW id \in ChunkIDs, NEW c \in Local
      PROVE  ToWorld(id, c) \in Cells(r) <=> c \in r[id]
  BY <1>2, <1>4, ChunkToWorld
<1>6. QED
  BY <1>3, <1>4, <1>5

Around(v) == BoardOfLife!Moore(v)

\* The rules count with the FiniteSets of Life, which is that of ChunkedLife.
LEMMA RulesCount ==
  ASSUME NEW b, NEW v
  PROVE  BoardOfLife!Lives(b, v)
           <=> \/ Cardinality(Around(v) \cap b) = 3
               \/ Cardinality(Around(v) \cap b) = 2 /\ v \in b
<1>1. \A S : BoardOfLife!Cardinality(S) = Cardinality(S)
  BY DEF BoardOfLife!Cardinality, Cardinality
<1>2. QED
  BY <1>1 DEF BoardOfLife!Lives, Around

\* The eight cells around one are known by their coordinates.
LEMMA AroundByCoordinates ==
  ASSUME NEW v \in Int \X Int, NEW w \in Int \X Int
  PROVE  w \in Around(v) <=> w # v /\ w[1] - v[1] \in -1 .. 1 /\ w[2] - v[2] \in -1 .. 1
BY DEF Around, BoardOfLife!Moore

\* In the padded space of a chunk, a cell of it or of another chunk adds to the
\* counts of the eight cells around it in the world.
LEMMA PaddedSpaceIsWorld ==
  ASSUME NEW id \in Int \X Int, NEW n \in Int \X Int, NEW c \in Local, NEW d \in Local
  PROVE  Touches(Pad(id, n, d), <<c[1] + 1, c[2] + 1>>) <=> ToWorld(n, d) \in Around(ToWorld(id, c))
<1>1. /\ id[1] \in Int /\ id[2] \in Int /\ n[1] \in Int /\ n[2] \in Int
      /\ c[1] \in Int /\ c[2] \in Int /\ d[1] \in Int /\ d[2] \in Int
  BY DEF Local
<1>2. ASSUME NEW i \in Int, NEW j \in Int
      PROVE  (j - i) * ChunkSize = j * ChunkSize - i * ChunkSize
  OBVIOUS
<1>3. /\ ToWorld(id, c) \in Int \X Int /\ ToWorld(n, d) \in Int \X Int
      /\ ToWorld(id, c)[1] = id[1] * ChunkSize + c[1] /\ ToWorld(id, c)[2] = id[2] * ChunkSize + c[2]
      /\ ToWorld(n, d)[1] = n[1] * ChunkSize + d[1] /\ ToWorld(n, d)[2] = n[2] * ChunkSize + d[2]
  BY <1>1 DEF ToWorld
<1>4. /\ (c[1] + 1) - Pad(id, n, d)[1] = ToWorld(id, c)[1] - ToWorld(n, d)[1]
      /\ (c[2] + 1) - Pad(id, n, d)[2] = ToWorld(id, c)[2] - ToWorld(n, d)[2]
  BY <1>1, <1>2, <1>3 DEF Pad
<1>5. Pad(id, n, d)[1] \in Int /\ Pad(id, n, d)[2] \in Int
  BY <1>1 DEF Pad
<1>6. QED
  BY <1>1, <1>3, <1>4, <1>5, AroundByCoordinates DEF Touches, Pad

\* A cell with a neighbour in another chunk is near the edge towards that chunk.
LEMMA NeighboursAreNear ==
  ASSUME NEW id \in Int \X Int, NEW n \in Int \X Int, NEW c \in Local, NEW d \in Local,
         id # n, ToWorld(n, d) \in Around(ToWorld(id, c))
  PROVE  \E o \in neighbourOffsets : Plus(n, o) = id /\ NearSide(d[1], o[1]) /\ NearSide(d[2], o[2])
<1>1. /\ id[1] \in Int /\ id[2] \in Int /\ id = <<id[1], id[2]>>
      /\ n[1] \in Int /\ n[2] \in Int /\ n = <<n[1], n[2]>>
      /\ c[1] \in 0 .. ChunkSize - 1 /\ c[2] \in 0 .. ChunkSize - 1
      /\ d[1] \in 0 .. ChunkSize - 1 /\ d[2] \in 0 .. ChunkSize - 1
  BY DEF Local
<1>2. /\ (n[1] * ChunkSize + d[1]) - (id[1] * ChunkSize + c[1]) \in -1 .. 1
      /\ (n[2] * ChunkSize + d[2]) - (id[2] * ChunkSize + c[2]) \in -1 .. 1
  <2>1. ToWorld(n, d) \in Int \X Int /\ ToWorld(id, c) \in Int \X Int
    BY ChunkToWorld
  <2>2. /\ ToWorld(n, d)[1] - ToWorld(id, c)[1] \in -1 .. 1
        /\ ToWorld(n, d)[2] - ToWorld(id, c)[2] \in -1 .. 1
    BY <2>1, AroundByCoordinates
  <2>3. QED
    BY <2>2 DEF ToWorld
<1>3. /\ id[1] - n[1] \in -1 .. 1 /\ NearSide(d[1], id[1] - n[1])
      /\ id[2] - n[2] \in -1 .. 1 /\ NearSide(d[2], id[2] - n[2])
  <2>1. ASSUME NEW i \in Int, NEW j \in Int,
               NEW x \in 0 .. ChunkSize - 1, NEW y \in 0 .. ChunkSize - 1,
               (j * ChunkSize + y) - (i * ChunkSize + x) \in -1 .. 1
        PROVE  i - j \in -1 .. 1 /\ NearSide(y, i - j)
    <3>1. i - j \in -1 .. 1 /\ (i - j = -1 => y = 0) /\ (i - j = 1 => y = ChunkSize - 1)
      BY <2>1, AcrossTheBorder
    <3>2. QED
      BY <3>1 DEF NearSide, near
  <2>2. QED
    BY <1>1, <1>2, <2>1
<1> DEFINE o == <<id[1] - n[1], id[2] - n[2]>>
<1>4. o \in neighbourOffsets
  BY <1>1, <1>3 DEF neighbourOffsets
<1>5. Plus(n, o) = id
  BY <1>1 DEF Plus
<1>6. QED
  BY <1>3, <1>4, <1>5

-----------------------------------------------------------------------------
(* One job.                                                                 *)

\* The rows that a chunk of world b has after one generation.
Share(b, id) == {c \in Local : BoardOfLife!Lives(b, ToWorld(id, c))}

\* The job of id has the rows of every chunk that reaches into it.
Complete(id) ==
  \A n \in ChunkIDs, c \in Local : \A d \in chunkRows[n] :
    ToWorld(n, d) \in Around(ToWorld(id, c)) => n \in {id} \cup halos[id]

LEMMA AroundIsFinite ==
  ASSUME NEW v \in Int \X Int
  PROVE  IsFiniteSet(Around(v))
<1> DEFINE a == v[1] - 1 .. v[1] + 1
           b == v[2] - 1 .. v[2] + 1
<1>1. v[1] \in Int /\ v[2] \in Int
  OBVIOUS
<1>2. IsFiniteSet(a) /\ IsFiniteSet(b)
  BY <1>1, FS_Interval
<1>3. IsFiniteSet(a \X b)
  BY <1>2, FS_Product
<1>4. Around(v) \in SUBSET (a \X b)
  BY DEF Around, BoardOfLife!Moore
<1>5. QED
  BY <1>3, <1>4, FS_Subset

\* addToScratch counts the live neighbours of a cell on the unbounded board, each
\* of them once, wherever the chunk borders are.
LEMMA CountedAreNeighbours ==
  ASSUME TypeOK, counts = Zeroed,
         NEW id \in ChunkIDs, Complete(id), NEW c \in Local
  PROVE  Counted(id, <<c[1] + 1, c[2] + 1>>)
           = Cardinality(Around(ToWorld(id, c)) \cap Cells(chunkRows))
<1> DEFINE w == ToWorld(id, c)
           p == <<c[1] + 1, c[2] + 1>>
           N == Around(w) \cap Cells(chunkRows)
           G == {g \in Given(id) : Touches(Pad(id, g[1], g[2]), p)}
           f == [v \in N |-> <<Chunk(v), Inside(v)>>]
<1>1. /\ chunkRows \in [ChunkIDs -> SUBSET Local] /\ halos[id] \subseteq ChunkIDs
      /\ id \in Int \X Int /\ w \in Int \X Int
  BY ChunkToWorld DEF TypeOK
<1>2. N \subseteq Int \X Int
  BY <1>1, WorldIsTheRows
<1>3. ASSUME NEW g
      PROVE  g \in Given(id) <=> \E n \in {id} \cup halos[id] : \E d \in chunkRows[n] : g = <<n, d>>
  BY DEF Given
<1> HIDE DEF w, p
<1>4. ASSUME NEW v \in N
      PROVE  f[v] \in G
  <2>1. /\ v \in Int \X Int /\ Chunk(v) \in ChunkIDs /\ Inside(v) \in chunkRows[Chunk(v)]
        /\ Inside(v) \in Local /\ ToWorld(Chunk(v), Inside(v)) = v
    BY <1>1, <1>2, WorldIsTheRows, WorldToChunk
  <2>2. Chunk(v) \in {id} \cup halos[id]
    BY <2>1 DEF Complete, w
  <2>3. Touches(Pad(id, Chunk(v), Inside(v)), p)
    BY <1>1, <2>1, PaddedSpaceIsWorld DEF p, w
  <2>4. QED
    BY <1>3, <2>1, <2>2, <2>3
<1>5. ASSUME NEW u \in N, NEW v \in N, f[u] = f[v]
      PROVE  u = v
  BY <1>2, <1>5, WorldToChunk
<1>6. ASSUME NEW g \in G
      PROVE  \E v \in N : f[v] = g
  <2>1. PICK n \in {id} \cup halos[id] : \E d \in chunkRows[n] : g = <<n, d>>
    BY <1>3
  <2>2. PICK d \in chunkRows[n] : g = <<n, d>>
    BY <2>1
  <2>3. n \in ChunkIDs /\ n \in Int \X Int /\ d \in Local
    BY <1>1, <2>1, <2>2
  <2>4. ToWorld(n, d) \in N
    BY <1>1, <2>2, <2>3, PaddedSpaceIsWorld, WorldIsTheRows DEF p, w
  <2>5. f[ToWorld(n, d)] = g
    BY <2>2, <2>3, <2>4, ChunkToWorld
  <2>6. QED
    BY <2>4, <2>5
<1>7. f \in Bijection(N, G)
  <2>1. f \in [N -> G]
    BY <1>4
  <2> HIDE DEF f, N, G
  <2>2. QED
    BY <2>1, <1>5, <1>6, Fun_IsBij
<1>8. IsFiniteSet(N)
  <2>1. IsFiniteSet(Around(w))
    BY <1>1, AroundIsFinite
  <2>2. QED
    BY <2>1, FS_Intersection
<1>9. Cardinality(G) = Cardinality(N) /\ Cardinality(N) \in Nat
  <2> HIDE DEF f, N, G
  <2>1. QED
    BY <1>7, <1>8, FS_Bijection, FS_CardinalityType DEF ExistsBijection
<1>10. Counted(id, p) = counts[p] + Cardinality(G)
  BY DEF Counted
<1>11. counts[p] = 0
  BY DEF Zeroed, Padded, Local, p
<1>12. QED
  BY <1>9, <1>10, <1>11 DEF p, w

\* TickBitset is the rules of Life in the chunk.
LEMMA JobIsGeneration ==
  ASSUME TypeOK, counts = Zeroed, NEW id \in ChunkIDs, Complete(id)
  PROVE  TickBitset(id) = Share(Cells(chunkRows), id)
<1>1. ASSUME NEW c \in Local
      PROVE  c \in TickBitset(id) <=> c \in Share(Cells(chunkRows), id)
  <2> DEFINE k == Counted(id, <<c[1] + 1, c[2] + 1>>)
             w == ToWorld(id, c)
  <2>1. k = Cardinality(Around(w) \cap Cells(chunkRows))
    BY CountedAreNeighbours
  <2>2. c \in chunkRows[id] <=> w \in Cells(chunkRows)
    BY WorldIsTheRows DEF TypeOK
  <2>3. c \in TickBitset(id) <=> k = 3 \/ (k = 2 /\ c \in chunkRows[id])
    BY DEF TickBitset
  <2> HIDE DEF k
  <2>4. QED
    BY <2>1, <2>2, <2>3, RulesCount DEF Share
<1>2. QED
  BY <1>1 DEF TickBitset, Share

\* Only a cell with a live neighbour is alive next.
LEMMA LifeIsBornFromLife ==
  ASSUME NEW b, NEW v, BoardOfLife!Lives(b, v)
  PROVE  Around(v) \cap b # {}
BY RulesCount, FS_EmptySet

-----------------------------------------------------------------------------
(* The invariant.                                                           *)

\* No live cell is in a chunk that will not be ticked again.
LiveIsRegistered == \A id \in ChunkIDs : rows[id] # {} => id \in registered

\* While TickAll runs, a chunk whose job is done has its share of the next
\* generation, and so has every chunk without a job.
DoneIsNext ==
  running => \A id \in ChunkIDs \ jobs : rows[id] = Share(Cells(chunkRows), id)

\* The next generation is on the positions that are modelled.
Room ==
  running => \A v \in Int \X Int : Around(v) \cap Cells(chunkRows) # {} => Chunk(v) \in ChunkIDs

LifeInvariant ==
  /\ TypeOK
  /\ counts = Zeroed
  /\ ~running => jobs = {}
  /\ LiveIsRegistered
  /\ running => \A id \in ChunkIDs : Complete(id)
  /\ DoneIsNext
  /\ Room

\* Nothing is alive, and no tick has begun.
LEMMA InitEstablishes == Init => LifeInvariant
<1> SUFFICES ASSUME Init PROVE LifeInvariant
  OBVIOUS
<1>1. TypeOK
  <2>1. counts \in [Padded -> Nat]
    BY DEF Init, Zeroed
  <2>2. ticks \in 0 .. MaxTicks
    BY DEF Init
  <2>3. running \in BOOLEAN
    BY Zenon DEF Init
  <2>4. QED
    BY <2>1, <2>2, <2>3 DEF Init, TypeOK
<1>2. LiveIsRegistered
  BY DEF Init, LiveIsRegistered
<1>3. QED
  BY <1>1, <1>2 DEF Init, LifeInvariant, DoneIsNext, Room

\* A placed cell is in a chunk, which is then registered.
LEMMA PlacePreserves ==
  ASSUME LifeInvariant, NEW w \in Spots, Place(w)
  PROVE  LifeInvariant'
<1> DEFINE id == <<ChunkOf(w[1]), ChunkOf(w[2])>>
           c  == <<LocalOf(w[1]), LocalOf(w[2])>>
<1>1. c \in Local
  BY WorldToChunk DEF Inside
<1>2. /\ ~running /\ id \in ChunkIDs
      /\ registered' = registered \cup {id}
      /\ rows' = [rows EXCEPT ![id] = @ \cup {c}]
      /\ UNCHANGED <<running, jobs, chunkRows, halos, counts, ticks>>
  BY DEF Place
<1> HIDE DEF id, c
<1>3. TypeOK'
  BY <1>1, <1>2 DEF LifeInvariant, TypeOK
<1>4. LiveIsRegistered'
  BY <1>2 DEF LifeInvariant, TypeOK, LiveIsRegistered
<1>5. QED
  BY <1>2, <1>3, <1>4 DEF LifeInvariant, DoneIsNext, Room

\* Whoever reaches into another chunk is in its halos, and that chunk is woken.
LEMMA FanOutReaches ==
  ASSUME TypeOK, LiveIsRegistered,
         NEW n \in ChunkIDs, NEW d \in rows[n], NEW id \in Int \X Int, NEW c \in Local,
         id # n, ToWorld(n, d) \in Around(ToWorld(id, c))
  PROVE  /\ n \in halosByChunk(id)
         /\ WithinGrid => id \in ChunkIDs
<1>1. n \in Int \X Int /\ d \in Local /\ n \in registered
  BY DEF TypeOK, LiveIsRegistered
<1>2. PICK o \in neighbourOffsets : Plus(n, o) = id /\ NearSide(d[1], o[1]) /\ NearSide(d[2], o[2])
  BY <1>1, NeighboursAreNear
<1>3. hasCellsNearEdge(rows[n], o)
  BY <1>2 DEF hasCellsNearEdge
<1>4. QED
  BY <1>1, <1>2, <1>3 DEF halosByChunk, WithinGrid

LEMMA FanOutPreserves ==
  ASSUME LifeInvariant, FanOut
  PROVE  LifeInvariant'
<1>1. /\ ~running /\ ticks < MaxTicks /\ WithinGrid /\ running' = TRUE
      /\ registered' = registered \cup {id \in ChunkIDs : halosByChunk(id) # {}}
      /\ jobs' = registered'
      /\ chunkRows' = rows
      /\ halos' = [id \in ChunkIDs |-> halosByChunk(id)]
      /\ ticks' = ticks + 1
      /\ rows' = rows /\ counts' = counts
  BY DEF FanOut
<1>2. TypeOK /\ LiveIsRegistered /\ counts = Zeroed
  BY DEF LifeInvariant
<1>3. TypeOK'
  <2>1. \A id \in ChunkIDs : halosByChunk(id) \subseteq ChunkIDs
    BY <1>2 DEF halosByChunk, TypeOK
  <2>2. QED
    BY <1>1, <1>2, <2>1 DEF TypeOK
<1>4. LiveIsRegistered'
  BY <1>1, <1>2 DEF LiveIsRegistered
<1>5. ASSUME NEW id \in ChunkIDs
      PROVE  Complete(id)'
  BY <1>1, <1>2, FanOutReaches DEF Complete
<1>6. DoneIsNext'
  <2> SUFFICES ASSUME NEW id \in ChunkIDs \ jobs'
               PROVE  rows[id] = Share(Cells(rows), id)
    BY <1>1 DEF DoneIsNext
  <2>1. rows[id] = {} /\ halosByChunk(id) = {}
    BY <1>1, <1>2 DEF LiveIsRegistered
  <2>2. ASSUME NEW c \in Share(Cells(rows), id)
        PROVE  FALSE
    <3>1. c \in Local /\ BoardOfLife!Lives(Cells(rows), ToWorld(id, c))
      BY <2>2 DEF Share
    <3>2. PICK u \in Cells(rows) : u \in Around(ToWorld(id, c))
      BY <3>1, LifeIsBornFromLife
    <3>3. /\ Chunk(u) \in ChunkIDs /\ Inside(u) \in rows[Chunk(u)]
          /\ ToWorld(Chunk(u), Inside(u)) = u
      BY <1>2, WorldIsTheRows, WorldToChunk DEF TypeOK
    <3>4. Chunk(u) # id
      BY <2>1, <3>3
    <3>5. Chunk(u) \in halosByChunk(id)
      BY <1>2, <3>1, <3>2, <3>3, <3>4, FanOutReaches
    <3>6. QED
      BY <2>1, <3>5
  <2>3. QED
    BY <2>1, <2>2
<1>7. Room'
  <2> SUFFICES ASSUME NEW v \in Int \X Int, NEW u \in Around(v) \cap Cells(rows)
               PROVE  Chunk(v) \in ChunkIDs
    BY <1>1 DEF Room
  <2>1. /\ Chunk(v) \in Int \X Int /\ Inside(v) \in Local
        /\ ToWorld(Chunk(v), Inside(v)) = v
    BY WorldToChunk
  <2>2. /\ Chunk(u) \in ChunkIDs /\ Inside(u) \in rows[Chunk(u)]
        /\ ToWorld(Chunk(u), Inside(u)) = u
    BY <1>2, WorldIsTheRows, WorldToChunk DEF TypeOK
  <2>3. CASE Chunk(u) = Chunk(v)
    BY <2>2, <2>3
  <2>4. CASE Chunk(u) # Chunk(v)
    BY <1>1, <1>2, <2>1, <2>2, <2>4, FanOutReaches
  <2>5. QED
    BY <2>3, <2>4
<1>8. QED
  BY <1>1, <1>2, <1>3, <1>4, <1>5, <1>6, <1>7 DEF LifeInvariant

\* A job gives its chunk its share of the next generation; only an empty chunk is
\* evicted.
LEMMA TickChunkPreserves ==
  ASSUME LifeInvariant, NEW id \in ChunkIDs, TickChunk(id)
  PROVE  LifeInvariant'
<1>1. /\ id \in jobs /\ jobs' = jobs \ {id}
      /\ rows' = [rows EXCEPT ![id] = TickBitset(id)]
      /\ counts' = Zeroed
      /\ registered' = registered \/ (rows'[id] = {} /\ registered' = registered \ {id})
      /\ running' = running /\ chunkRows' = chunkRows /\ halos' = halos /\ ticks' = ticks
  BY DEF TickChunk
<1>2. TypeOK /\ LiveIsRegistered /\ counts = Zeroed /\ running
  BY <1>1 DEF LifeInvariant
<1>3. TickBitset(id) \subseteq Local
  BY DEF TickBitset
<1>4. TypeOK'
  <2>1. rows' \in [ChunkIDs -> SUBSET Local]
    BY <1>1, <1>2, <1>3 DEF TypeOK
  <2>2. counts' \in [Padded -> Nat]
    BY <1>1 DEF Zeroed
  <2>3. QED
    BY <1>1, <1>2, <2>1, <2>2 DEF TypeOK
<1>5. LiveIsRegistered'
  BY <1>1, <1>2 DEF LiveIsRegistered, TypeOK
<1>6. rows'[id] = Share(Cells(chunkRows), id)
  BY <1>1, <1>2, JobIsGeneration DEF LifeInvariant, TypeOK
<1>7. ASSUME NEW e \in ChunkIDs \ jobs'
      PROVE  rows'[e] = Share(Cells(chunkRows), e)
  BY <1>1, <1>2, <1>6 DEF LifeInvariant, DoneIsNext, TypeOK
<1>8. DoneIsNext'
  BY <1>1, <1>7 DEF DoneIsNext
<1>9. Room' /\ \A e \in ChunkIDs : Complete(e)'
  BY <1>1, <1>2 DEF LifeInvariant, Room, Complete
<1>10. QED
  BY <1>1, <1>2, <1>4, <1>5, <1>8, <1>9 DEF LifeInvariant

LEMMA TickEndPreserves ==
  ASSUME LifeInvariant, TickEnd
  PROVE  LifeInvariant'
BY DEF TickEnd, LifeInvariant, TypeOK, LiveIsRegistered, DoneIsNext, Room

\* The types, the idle scratch buffer, and what a job in flight has and has done.
THEOREM ChunksInvariance == Spec => []LifeInvariant
<1>1. LifeInvariant /\ [Next]_vars => LifeInvariant'
  <2> SUFFICES ASSUME LifeInvariant, [Next]_vars PROVE LifeInvariant'
    OBVIOUS
  <2>1. CASE \E w \in Spots : Place(w)
    BY <2>1, PlacePreserves
  <2>2. CASE FanOut
    BY <2>2, FanOutPreserves
  <2>3. CASE \E id \in ChunkIDs : TickChunk(id)
    BY <2>3, TickChunkPreserves
  <2>4. CASE TickEnd
    BY <2>4, TickEndPreserves
  <2>5. CASE UNCHANGED vars
    BY <2>5 DEF vars, LifeInvariant, TypeOK, LiveIsRegistered, DoneIsNext, Room, Complete
  <2>6. QED
    BY <2>1, <2>2, <2>3, <2>4, <2>5 DEF Next
<1>2. QED
  BY InitEstablishes, <1>1, PTL DEF Spec

\* Every variable keeps its type, and every local cell its place in a chunk.
THEOREM TypeCorrect == Spec => []TypeOK
<1>1. LifeInvariant => TypeOK
  BY DEF LifeInvariant
<1>2. QED
  BY <1>1, ChunksInvariance, PTL

-----------------------------------------------------------------------------
(* The refinement.                                                          *)

\* Placing a cell in a chunk places it on the board.
LEMMA PlaceOnBoard ==
  ASSUME LifeInvariant, NEW w \in Spots, Place(w)
  PROVE  World' = World \cup {w}
<1>1. ~running /\ ~running' /\ rows' = [rows EXCEPT ![Chunk(w)] = @ \cup {Inside(w)}]
      /\ Chunk(w) \in ChunkIDs
  BY DEF Place, Chunk, Inside
<1>2. w \in Int \X Int /\ Inside(w) \in Local /\ ToWorld(Chunk(w), Inside(w)) = w
  BY WorldToChunk
<1>3. rows \in [ChunkIDs -> SUBSET Local] /\ rows' \in [ChunkIDs -> SUBSET Local]
  BY PlacePreserves DEF LifeInvariant, TypeOK
<1>4. ASSUME NEW v \in Int \X Int
      PROVE  v \in Cells(rows') <=> v \in Cells(rows) \/ v = w
  <2>1. /\ v \in Cells(rows') <=> Chunk(v) \in ChunkIDs /\ Inside(v) \in rows'[Chunk(v)]
        /\ v \in Cells(rows) <=> Chunk(v) \in ChunkIDs /\ Inside(v) \in rows[Chunk(v)]
    BY <1>3, WorldIsTheRows
  <2>2. v = w <=> Chunk(v) = Chunk(w) /\ Inside(v) = Inside(w)
    BY <1>2, WorldToChunk
  <2>3. Chunk(v) \in ChunkIDs
          => (Inside(v) \in rows'[Chunk(v)]
                <=> Inside(v) \in rows[Chunk(v)] \/ (Chunk(v) = Chunk(w) /\ Inside(v) = Inside(w)))
    BY <1>1, <1>3
  <2>4. QED
    BY <1>1, <2>1, <2>2, <2>3
<1>5. Cells(rows) \subseteq Int \X Int /\ Cells(rows') \subseteq Int \X Int
  BY <1>3, WorldIsTheRows
<1>6. Cells(rows') = Cells(rows) \cup {w}
  BY <1>2, <1>4, <1>5
<1>7. QED
  BY <1>1, <1>6 DEF World

\* When the last job is done, the chunks hold the next generation of the board that
\* the tick began with.
LEMMA TickEndIsGeneration ==
  ASSUME LifeInvariant, TickEnd
  PROVE  World' = BoardOfLife!Generation(World)
<1>1. World = Cells(chunkRows) /\ World' = Cells(rows)
  BY DEF TickEnd, World
<1>2. /\ rows \in [ChunkIDs -> SUBSET Local] /\ chunkRows \in [ChunkIDs -> SUBSET Local]
      /\ \A id \in ChunkIDs : rows[id] = Share(World, id)
      /\ \A v \in Int \X Int : Around(v) \cap World # {} => Chunk(v) \in ChunkIDs
  BY <1>1 DEF TickEnd, LifeInvariant, TypeOK, DoneIsNext, Room
<1>3. World \subseteq Int \X Int /\ World' \subseteq Int \X Int
  BY <1>1, <1>2, WorldIsTheRows
<1>4. BoardOfLife!Generation(World) \subseteq Int \X Int
  <2>1. \A d \in World : BoardOfLife!Moore(d) \subseteq Int \X Int
    BY <1>3 DEF BoardOfLife!Moore
  <2>2. QED
    BY <2>1 DEF BoardOfLife!Generation
<1>5. ASSUME NEW v \in Int \X Int
      PROVE  v \in World' <=> v \in BoardOfLife!Generation(World)
  <2>1. v \in World' <=> Chunk(v) \in ChunkIDs /\ Inside(v) \in Share(World, Chunk(v))
    BY <1>1, <1>2, WorldIsTheRows
  <2>2. Inside(v) \in Share(World, Chunk(v)) <=> BoardOfLife!Lives(World, v)
    BY WorldToChunk DEF Share
  <2>3. BoardOfLife!Lives(World, v) => \E d \in World : d \in Around(v)
    BY LifeIsBornFromLife
  <2>4. \A d \in World : d \in Around(v) <=> v \in Around(d)
    BY <1>3, AroundByCoordinates
  <2>5. v \in BoardOfLife!Generation(World)
          <=> BoardOfLife!Lives(World, v) /\ \E d \in World : v \in Around(d)
    BY DEF BoardOfLife!Generation, Around
  <2>6. QED
    BY <1>2, <2>1, <2>2, <2>3, <2>4, <2>5
<1>6. QED
  BY <1>3, <1>4, <1>5

\* Whatever the size of a chunk, a tick of the chunks is one generation of Life on
\* the unbounded board, and nothing else but players changes the board.
THEOREM ChunksPlayLife == Spec => PlaysLife
<1>1. Init => BoardOfLife!Init
  BY DEF Init, BoardOfLife!Init, World, Cells
<1>2. LifeInvariant /\ [Next]_vars => [BoardOfLife!Next]_World
  <2> SUFFICES ASSUME LifeInvariant, [Next]_vars PROVE [BoardOfLife!Next]_World
    OBVIOUS
  <2>1. ASSUME NEW w \in Spots, Place(w) PROVE BoardOfLife!Next
    BY <2>1, PlaceOnBoard DEF BoardOfLife!Next, BoardOfLife!Place
  <2>2. CASE FanOut
    BY <2>2 DEF FanOut, World
  <2>3. ASSUME NEW id \in ChunkIDs, TickChunk(id) PROVE UNCHANGED World
    BY <2>3 DEF TickChunk, LifeInvariant, World
  <2>4. CASE TickEnd
    BY <2>4, TickEndIsGeneration DEF BoardOfLife!Next, BoardOfLife!Step
  <2>5. CASE UNCHANGED vars
    BY <2>5 DEF vars, World
  <2>6. QED
    BY <2>1, <2>2, <2>3, <2>4, <2>5 DEF Next
<1>3. QED
  BY <1>1, <1>2, ChunksInvariance, PTL DEF Spec, PlaysLife, BoardOfLife!Spec
=============================================================================
