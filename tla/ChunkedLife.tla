---------------------------- MODULE ChunkedLife ----------------------------
(***************************************************************************)
(* The board in chunks: TickBitset and hasCellsNearEdge of                 *)
(* simulation/engine.go, the halo exchange of TickAll in                   *)
(* simulation/registry.go, and the coordinates of gateway/router.go.       *)
(*                                                                         *)
(* Here players place cells between two ticks only; what happens when they *)
(* do not wait is the subject of Registry.  Rows are sets of local cells   *)
(* <<x, y>>; a position that is not registered has the rows that are in    *)
(* Redis, and those are empty, for only empty chunks are evicted.          *)
(***************************************************************************)
EXTENDS Integers, FiniteSets

CONSTANTS
  ChunkSize,  \* 64 in the code
  ChunkIDs,   \* bound: the chunk positions that are modelled
  Spots,      \* world coordinates where players place cells
  MaxTicks    \* bound on the number of ticks

ASSUME ChunkAssumption ==
  /\ ChunkSize \in Nat /\ ChunkSize >= 3
  /\ ChunkIDs \subseteq Int \X Int
  /\ Spots \subseteq Int \X Int
  /\ MaxTicks \in Nat

VARIABLES
  registered,  \* the positions in Registry.chunks
  rows,        \* the rows of each position
  running,     \* whether TickAll is between its fan-out and the end of wg.Wait
  jobs,        \* positions whose tickJob is not done yet
  chunkRows,   \* tickJob.chunkRows of each position
  halos,       \* tickJob.halos of each position: the positions it has rows of
  counts,      \* the worker's TickScratch
  ticks

vars == <<registered, rows, running, jobs, chunkRows, halos, counts, ticks>>

Local  == (0 .. ChunkSize - 1) \X (0 .. ChunkSize - 1)
Padded == (0 .. ChunkSize + 1) \X (0 .. ChunkSize + 1)
Zeroed == [p \in Padded |-> 0]

Init ==
  /\ registered = {}
  /\ rows = [id \in ChunkIDs |-> {}]
  /\ running = FALSE
  /\ jobs = {}
  /\ chunkRows = [id \in ChunkIDs |-> {}]
  /\ halos = [id \in ChunkIDs |-> {}]
  /\ counts = Zeroed
  /\ ticks = 0

-----------------------------------------------------------------------------
(* worldToChunkLocal.                                                       *)

\* Go's / and %: the quotient is truncated towards zero.
Quotient(a)  == IF a >= 0 THEN a \div ChunkSize ELSE -((-a) \div ChunkSize)
Remainder(a) == a - ChunkSize * Quotient(a)

ChunkOf(a) == IF a < 0 /\ Remainder(a) # 0 THEN Quotient(a) - 1 ELSE Quotient(a)

\* Mutant: the remainder of a negative coordinate stays negative.
LocalTruncated(a) == Remainder(a)

LocalOf(a) == IF a < 0 /\ Remainder(a) # 0 THEN Remainder(a) + ChunkSize ELSE Remainder(a)

ToWorld(id, c) == <<id[1] * ChunkSize + c[1], id[2] * ChunkSize + c[2]>>

-----------------------------------------------------------------------------
(* Halos.                                                                   *)

neighbourOffsets == ((-1 .. 1) \X (-1 .. 1)) \ {<<0, 0>>}

near == 2

\* Is a coordinate of a row or column within reach of the neighbour on side d?
NearSide(i, d) ==
  /\ d = -1 => i <= near
  /\ d = 1 => i >= ChunkSize - 1 - near

hasCellsNearEdge(r, d) == \E c \in r : NearSide(c[1], d[1]) /\ NearSide(c[2], d[2])

Plus(id, d) == <<id[1] + d[1], id[2] + d[2]>>

\* The positions whose rows TickAll gives to id.
halosByChunk(id) ==
  {e \in registered : \E d \in neighbourOffsets : Plus(e, d) = id /\ hasCellsNearEdge(rows[e], d)}

-----------------------------------------------------------------------------
(* TickBitset.                                                              *)

\* A cell of chunk n in the padded space of chunk id.
Pad(id, n, c) == <<1 + (n[1] - id[1]) * ChunkSize + c[1], 1 + (n[2] - id[2]) * ChunkSize + c[2]>>

Touches(a, p) == a # p /\ p[1] - a[1] \in -1 .. 1 /\ p[2] - a[2] \in -1 .. 1

\* The live cells a job has been given, each with its chunk.
Given(id) == UNION {{n} \X chunkRows[n] : n \in {id} \cup halos[id]}

\* addToScratch for the chunk's own rows and for each of its halos.
Counted(id, p) == counts[p] + Cardinality({g \in Given(id) : Touches(Pad(id, g[1], g[2]), p)})

TickBitset(id) ==
  {c \in Local : LET count == Counted(id, <<c[1] + 1, c[2] + 1>>)
                 IN count = 3 \/ (count = 2 /\ c \in chunkRows[id])}

-----------------------------------------------------------------------------
\* spawnWorldCell: GetOrCreate of the chunk and AddCell, between two ticks.
Place(w) ==
  LET id == <<ChunkOf(w[1]), ChunkOf(w[2])>>
      c  == <<LocalOf(w[1]), LocalOf(w[2])>>
  IN
  /\ ~running /\ id \in ChunkIDs
  /\ registered' = registered \cup {id}
  /\ rows' = [rows EXCEPT ![id] = @ \cup {c}]
  /\ UNCHANGED <<running, jobs, chunkRows, halos, counts, ticks>>

\* The board has not reached the end of what is modelled.
WithinGrid ==
  \A e \in registered, d \in neighbourOffsets :
    hasCellsNearEdge(rows[e], d) => Plus(e, d) \in ChunkIDs

\* Mutant: a neighbour that is not registered is not woken.
FanOutUnwoken ==
  /\ ~running /\ ticks < MaxTicks /\ WithinGrid
  /\ running' = TRUE
  /\ jobs' = registered
  /\ chunkRows' = rows
  /\ halos' = [id \in ChunkIDs |-> halosByChunk(id)]
  /\ ticks' = ticks + 1
  /\ UNCHANGED <<registered, rows, counts>>

\* TickAll up to its fan-out: the rows are read, neighbours that others may spill
\* into are woken, and every registered chunk gets a job.
FanOut ==
  /\ ~running /\ ticks < MaxTicks /\ WithinGrid
  /\ running' = TRUE
  /\ registered' = registered \cup {id \in ChunkIDs : halosByChunk(id) # {}}
  /\ jobs' = registered'
  /\ chunkRows' = rows
  /\ halos' = [id \in ChunkIDs |-> halosByChunk(id)]
  /\ ticks' = ticks + 1
  /\ UNCHANGED <<rows, counts>>

\* processJob: TickBitset zeroes the scratch buffer for the next job.  A chunk that
\* is empty now may have been so for long enough to be evicted.
TickChunk(id) ==
  /\ id \in jobs
  /\ jobs' = jobs \ {id}
  /\ rows' = [rows EXCEPT ![id] = TickBitset(id)]
  /\ counts' = Zeroed
  /\ \/ UNCHANGED registered
     \/ rows'[id] = {} /\ registered' = registered \ {id}
  /\ UNCHANGED <<running, chunkRows, halos, ticks>>

\* wg.Wait returns.
TickEnd ==
  /\ running /\ jobs = {}
  /\ running' = FALSE
  /\ UNCHANGED <<registered, rows, jobs, chunkRows, halos, counts, ticks>>

Next ==
  \/ \E w \in Spots : Place(w)
  \/ FanOut
  \/ \E id \in ChunkIDs : TickChunk(id)
  \/ TickEnd

Spec == Init /\ [][Next]_vars

-----------------------------------------------------------------------------
TypeOK ==
  /\ registered \in SUBSET ChunkIDs
  /\ rows \in [ChunkIDs -> SUBSET Local]
  /\ running \in BOOLEAN
  /\ jobs \in SUBSET registered
  /\ chunkRows \in [ChunkIDs -> SUBSET Local]
  /\ halos \in [ChunkIDs -> SUBSET ChunkIDs]
  /\ counts \in [Padded -> Nat]
  /\ ticks \in 0 .. MaxTicks

Cells(r) == {ToWorld(g[1], g[2]) : g \in UNION {{id} \X r[id] : id \in ChunkIDs}}

\* The world while TickAll runs is the one it started from.
World == Cells(IF running THEN chunkRows ELSE rows)

BoardOfLife == INSTANCE Life WITH board <- World

\* Whatever the chunk borders, the order of the jobs and the chunks that sleep, a
\* tick is one generation of the unbounded board, and a placed cell is on it.
PlaysLife == BoardOfLife!Spec
=============================================================================
