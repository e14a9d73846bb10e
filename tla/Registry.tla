------------------------------ MODULE Registry ------------------------------
(***************************************************************************)
(* The chunk registry of the game server (simulation/registry.go), with    *)
(* the chunk lock of simulation/chunk.go, the Redis engine it hydrates     *)
(* from and hibernates to (storage/redis.go), and the tick loop of         *)
(* main.go.                                                                *)
(*                                                                         *)
(* Goroutines: one per connected player (it runs the handlers that call    *)
(* GetOrCreate and ProcessSpawn), the tick loop (TickAll), and a pool of   *)
(* workers (processJob).  What happens under one lock is one step; between *)
(* two steps of a goroutine any other goroutine may run.                   *)
(*                                                                         *)
(* Rows are sets of live cells.  Which cells live next is the business of  *)
(* the rules engine: here the next generation of a chunk is any set of     *)
(* cells, except that nothing is born where neither the chunk nor its      *)
(* halos hold a cell.                                                      *)
(***************************************************************************)
EXTENDS Integers, FiniteSets

CONSTANTS
  ChunkIDs,              \* the part of the chunk grid that is modelled
  Neighbours,            \* Neighbours[id]: the surrounding positions
  Cells,                 \* cell positions inside a chunk
  EdgeCells,             \* EdgeCells[e][n]: cells of e that hasCellsNearEdge sees on n's side
  Objects,               \* addresses of chunkState objects
  Players,               \* connection goroutines
  Ticker,                \* the tick loop goroutine
  NumWorkers,            \* runtime.NumCPU()
  hibernationThreshold,
  StorageFaults,         \* whether a Redis command may fail
  Nil

Goroutines == Players \cup {Ticker}

ASSUME ConstantsAssumption ==
  /\ Neighbours \in [ChunkIDs -> SUBSET ChunkIDs]
  /\ EdgeCells \in [ChunkIDs -> [ChunkIDs -> SUBSET Cells]]
  /\ IsFiniteSet(ChunkIDs)
  /\ Ticker \notin Players
  /\ NumWorkers \in Nat \ {0}
  /\ hibernationThreshold \in Nat \ {0}
  /\ StorageFaults \in BOOLEAN
  /\ Nil \notin ChunkIDs \cup Cells \cup Objects
  /\ \A s \in SUBSET Cells : s # Nil

VARIABLES
  chunks,      \* Registry.chunks: position -> object, Nil where there is no entry
  rows,        \* chunk.rows of each object
  idleTicks,   \* chunkState.idleTicks of each object
  ActiveChunkActors,  \* the gauge of metrics.go
  stored,      \* what LoadChunk returns: an absent key is an empty chunk
  watched,     \* positions for which cfg.HasSubscribers answers true
  call,        \* per goroutine, its GetOrCreate (and ProcessSpawn) in progress
  phase,       \* where TickAll is
  unread,      \* positions still to visit in a range loop over r.chunks
  rowsByID,    \* rows captured by the first loop of TickAll, Nil if absent
  toWake,      \* neighbours TickAll has still to GetOrCreate
  job,         \* per position, its tickJob of this tick
  settled      \* history: spawns acknowledged entirely between two ticks

registryVars == <<chunks, rows, idleTicks, ActiveChunkActors>>
tickVars     == <<phase, unread, rowsByID, toWake, job>>
vars == <<registryVars, stored, watched, call, tickVars, settled>>

NoCall == [pc |-> "idle", id |-> Nil, cell |-> Nil, loaded |-> {},
           handle |-> Nil, quiet |-> FALSE]
NoJob  == [stage |-> "none", state |-> Nil, rows |-> {}]

Registered == {id \in ChunkIDs : chunks[id] # Nil}

\* r.mu.RLock is held across both range loops of TickAll.
RLocked == phase \in {"snapshot", "reread"}

\* Addresses that no live pointer holds: the allocator may return any of them.
Unused == {o \in Objects : /\ \A id \in ChunkIDs : chunks[id] # o /\ job[id].state # o
                           /\ \A g \in Goroutines : call[g].handle # o}

\* The positions that wake n and give it their rows as halo.
HaloSources(n) ==
  {e \in ChunkIDs : /\ n \in Neighbours[e]
                    /\ rowsByID[e] # Nil
                    /\ rowsByID[e] \cap EdgeCells[e][n] # {}}

\* What a viewer or a restart would see of a position.
World(id) == IF chunks[id] # Nil THEN rows[chunks[id]] ELSE stored[id]

Init ==
  /\ chunks = [id \in ChunkIDs |-> Nil]
  /\ rows = [o \in Objects |-> {}]
  /\ idleTicks = [o \in Objects |-> 0]
  /\ ActiveChunkActors = 0
  /\ stored = [id \in ChunkIDs |-> {}]
  /\ watched = {}
  /\ call = [g \in Goroutines |-> NoCall]
  /\ phase = "idle"
  /\ unread = {}
  /\ rowsByID = [id \in ChunkIDs |-> Nil]
  /\ toWake = {}
  /\ job = [id \in ChunkIDs |-> NoJob]
  /\ settled = {}

-----------------------------------------------------------------------------
(* GetOrCreate, ProcessSpawn and PeekChunk, run by any goroutine g.         *)

\* What cfg.Load may give: a failed load leaves a blank chunk (and nothing to peek).
LoadResults(id) == {stored[id]} \cup (IF StorageFaults THEN {{}} ELSE {})

Begin(g, id, c) ==
  /\ call[g] = NoCall
  /\ call' = [call EXCEPT ![g] = [NoCall EXCEPT !.pc = "lookup", !.id = id,
                                                !.cell = c, !.quiet = (phase = "idle")]]

\* spawnWorldCell of the gateway: GetOrCreate, then ProcessSpawn of cell c.
Spawn(p, id, c) ==
  /\ Begin(p, id, c)
  /\ UNCHANGED <<registryVars, stored, watched, tickVars, settled>>

\* The SUBSCRIBE handler, for one chunk: PeekChunk looks for an entry ...
Peek(p, id) ==
  /\ call[p] = NoCall
  /\ call' = [call EXCEPT ![p] = [NoCall EXCEPT !.id = id, !.handle = chunks[id],
                 !.pc = IF chunks[id] # Nil THEN "snapshot" ELSE "peekload"]]
  /\ UNCHANGED <<registryVars, stored, watched, tickVars, settled>>

\* ... reads the chunk, or Redis, outside the registry lock, and the handler
\* starts the chunk if that showed cells.
Peeked(p) ==
  LET c == call[p]
      cells == IF c.pc = "snapshot" THEN {rows[c.handle]} ELSE LoadResults(c.id)
  IN
  /\ c.pc \in {"snapshot", "peekload"}
  /\ \E r \in cells :
       call' = [call EXCEPT ![p] =
         IF r = {} THEN NoCall ELSE [NoCall EXCEPT !.pc = "lookup", !.id = c.id]]
  /\ UNCHANGED <<registryVars, stored, watched, tickVars, settled>>

\* GetOrCreate returns a handle on o; only a spawn goes on to use it.
Return(g, o) ==
  call' = [call EXCEPT ![g] = IF @.cell = Nil THEN NoCall
                              ELSE [@ EXCEPT !.pc = "add", !.handle = o]]

Lookup(g) ==
  /\ call[g].pc = "lookup"
  /\ LET o == chunks[call[g].id] IN
       IF o # Nil THEN Return(g, o)
       ELSE call' = [call EXCEPT ![g].pc = "load"]
  /\ UNCHANGED <<registryVars, stored, watched, tickVars, settled>>

\* Mutant: a failed load starts the call again.
LoadRetries(g) ==
  /\ call[g].pc = "load"
  /\ \/ call' = [call EXCEPT ![g].pc = "insert", ![g].loaded = stored[call[g].id]]
     \/ StorageFaults /\ call' = [call EXCEPT ![g].pc = "lookup"]
  /\ UNCHANGED <<registryVars, stored, watched, tickVars, settled>>

\* cfg.Load, outside any lock.
Load(g) ==
  /\ call[g].pc = "load"
  /\ \E r \in LoadResults(call[g].id) :
       call' = [call EXCEPT ![g].pc = "insert", ![g].loaded = r]
  /\ UNCHANGED <<registryVars, stored, watched, tickVars, settled>>

AddEntry(g, o) ==
  /\ chunks' = [chunks EXCEPT ![call[g].id] = o]
  /\ rows' = [rows EXCEPT ![o] = call[g].loaded]
  /\ idleTicks' = [idleTicks EXCEPT ![o] = 0]
  /\ ActiveChunkActors' = ActiveChunkActors + 1
  /\ Return(g, o)

\* Mutant: no re-check after the load.
InsertWithoutRecheck(g) ==
  /\ call[g].pc = "insert"
  /\ ~RLocked
  /\ \E o \in Unused : AddEntry(g, o)
  /\ UNCHANGED <<stored, watched, tickVars, settled>>

\* Mutant: the gauge is incremented although another goroutine's entry is used.
InsertCountsCalls(g) ==
  /\ call[g].pc = "insert"
  /\ ~RLocked
  /\ \/ /\ chunks[call[g].id] # Nil
        /\ Return(g, chunks[call[g].id])
        /\ ActiveChunkActors' = ActiveChunkActors + 1
        /\ UNCHANGED <<chunks, rows, idleTicks>>
     \/ /\ chunks[call[g].id] = Nil
        /\ \E o \in Unused : AddEntry(g, o)
  /\ UNCHANGED <<stored, watched, tickVars, settled>>

\* The write-locked half of GetOrCreate, with its re-check.
Insert(g) ==
  /\ call[g].pc = "insert"
  /\ ~RLocked
  /\ \/ /\ chunks[call[g].id] # Nil
        /\ Return(g, chunks[call[g].id])
        /\ UNCHANGED registryVars
     \/ /\ chunks[call[g].id] = Nil
        /\ \E o \in Unused : AddEntry(g, o)
  /\ UNCHANGED <<stored, watched, tickVars, settled>>

\* ProcessSpawn: AddCell under chunk.mu, after which the player is acknowledged.
AddCell(p) ==
  LET c == call[p] IN
  /\ c.pc = "add"
  /\ rows' = [rows EXCEPT ![c.handle] = @ \cup {c.cell}]
  /\ settled' = IF c.quiet THEN settled \cup {<<c.id, c.cell>>} ELSE settled
  /\ call' = [call EXCEPT ![p] = NoCall]
  /\ UNCHANGED <<chunks, idleTicks, ActiveChunkActors, stored, watched, tickVars>>

-----------------------------------------------------------------------------
(* TickAll, run by the tick loop.                                           *)

TickStart ==
  /\ phase = "idle"
  /\ phase' = "snapshot"
  /\ unread' = Registered
  /\ call' = [g \in Goroutines |-> [call[g] EXCEPT !.quiet = FALSE]]
  /\ UNCHANGED <<registryVars, stored, watched, rowsByID, toWake, job, settled>>

\* First loop: chunk.Rows() of one entry, under its chunk lock.
SnapshotChunk(id) ==
  /\ phase = "snapshot" /\ id \in unread
  /\ rowsByID' = [rowsByID EXCEPT ![id] = rows[chunks[id]]]
  /\ unread' = unread \ {id}
  /\ UNCHANGED <<registryVars, stored, watched, call, phase, toWake, job, settled>>

SnapshotDone ==
  /\ phase = "snapshot" /\ unread = {}
  /\ phase' = "halo"
  /\ toWake' = {n \in ChunkIDs : HaloSources(n) # {}}
  /\ UNCHANGED <<registryVars, stored, watched, call, unread, rowsByID, job, settled>>

\* "Wake the neighbour if needed so it is ticked this round."
Wake(n) ==
  /\ phase = "halo" /\ n \in toWake
  /\ Begin(Ticker, n, Nil)
  /\ toWake' = toWake \ {n}
  /\ UNCHANGED <<registryVars, stored, watched, phase, unread, rowsByID, job, settled>>

\* Mutant: the entries are read again while neighbours are still being woken.
RereadEarly ==
  /\ phase = "halo" /\ toWake = {}
  /\ phase' = "reread"
  /\ unread' = Registered
  /\ UNCHANGED <<registryVars, stored, watched, call, rowsByID, toWake, job, settled>>

RereadStart ==
  /\ phase = "halo" /\ toWake = {} /\ call[Ticker] = NoCall
  /\ phase' = "reread"
  /\ unread' = Registered
  /\ UNCHANGED <<registryVars, stored, watched, call, rowsByID, toWake, job, settled>>

\* Second loop: one tickJob per entry, with its captured rows or its rows of now.
RereadChunk(id) ==
  /\ phase = "reread" /\ id \in unread
  /\ job' = [job EXCEPT ![id] =
       [stage |-> "queued", state |-> chunks[id],
        rows |-> IF rowsByID[id] # Nil THEN rowsByID[id] ELSE rows[chunks[id]]]]
  /\ unread' = unread \ {id}
  /\ UNCHANGED <<registryVars, stored, watched, call, phase, rowsByID, toWake, settled>>

FanOut ==
  /\ phase = "reread" /\ unread = {}
  /\ phase' = "run"
  /\ UNCHANGED <<registryVars, stored, watched, call, unread, rowsByID, toWake, job, settled>>

\* Mutant: the next tick does not wait for jobs that workers have taken.
TickEndsEarly ==
  /\ phase = "run"
  /\ \A id \in ChunkIDs : job[id].stage # "queued"
  /\ phase' = "idle"
  /\ rowsByID' = [id \in ChunkIDs |-> Nil]
  /\ job' = [id \in ChunkIDs |-> IF job[id].stage = "done" THEN NoJob ELSE job[id]]
  /\ settled' = {}
  /\ UNCHANGED <<registryVars, stored, watched, call, unread, toWake>>

\* Mutant: wg.Add counts positions that no job is sent for.
TickWaitsForAll ==
  /\ phase = "run"
  /\ \A id \in ChunkIDs : job[id].stage = "done"
  /\ phase' = "idle"
  /\ rowsByID' = [id \in ChunkIDs |-> Nil]
  /\ job' = [id \in ChunkIDs |-> NoJob]
  /\ settled' = {}
  /\ UNCHANGED <<registryVars, stored, watched, call, unread, toWake>>

\* wg.Wait() returns.
TickEnd ==
  /\ phase = "run"
  /\ \A id \in ChunkIDs : job[id].stage \in {"none", "done"}
  /\ phase' = "idle"
  /\ rowsByID' = [id \in ChunkIDs |-> Nil]
  /\ job' = [id \in ChunkIDs |-> NoJob]
  /\ settled' = {}
  /\ UNCHANGED <<registryVars, stored, watched, call, unread, toWake>>

-----------------------------------------------------------------------------
(* processJob, run by a worker for the job of position id.                  *)

InWorker == {id \in ChunkIDs : job[id].stage \in {"ticked", "empty", "hibernate", "evict"}}

NextGeneration(id) ==
  IF job[id].rows = {} /\ HaloSources(id) = {} THEN {{}} ELSE SUBSET Cells

To(id, s) == job' = [job EXCEPT ![id].stage = s]

\* A free worker takes the job: TickBitset on the captured rows, then SetRows.
TickChunk(id) ==
  /\ phase = "run" /\ job[id].stage = "queued"
  /\ Cardinality(InWorker) < NumWorkers
  /\ \E next \in NextGeneration(id) : rows' = [rows EXCEPT ![job[id].state] = next]
  /\ To(id, "ticked")
  /\ UNCHANGED <<chunks, idleTicks, ActiveChunkActors, stored, watched, call,
                 phase, unread, rowsByID, toWake, settled>>

\* Mutant: every tick resets the idle count.
CheckEmptyResets(id) ==
  LET o == job[id].state IN
  /\ job[id].stage = "ticked"
  /\ To(id, IF rows[o] = {} THEN "empty" ELSE "done")
  /\ idleTicks' = [idleTicks EXCEPT ![o] = 0]
  /\ UNCHANGED <<chunks, rows, ActiveChunkActors, stored, watched, call,
                 phase, unread, rowsByID, toWake, settled>>

\* PopCount: a live chunk is not idle, whatever HasSubscribers says.
CheckEmpty(id) ==
  LET o == job[id].state IN
  /\ job[id].stage = "ticked"
  /\ \/ rows[o] = {} /\ To(id, "empty") /\ UNCHANGED idleTicks
     \/ rows[o] # {} /\ To(id, "done") /\ idleTicks' = [idleTicks EXCEPT ![o] = 0]
  /\ UNCHANGED <<chunks, rows, ActiveChunkActors, stored, watched, call,
                 phase, unread, rowsByID, toWake, settled>>

\* Mutant: one idle tick too many before hibernation.
HibernatesLate(id) ==
  LET o == job[id].state
      idle == IF id \in watched THEN 0 ELSE idleTicks[o] + 1
  IN
  /\ job[id].stage = "empty"
  /\ idleTicks' = [idleTicks EXCEPT ![o] = idle]
  /\ To(id, IF idle > hibernationThreshold THEN "hibernate" ELSE "done")
  /\ UNCHANGED <<chunks, rows, ActiveChunkActors, stored, watched, call,
                 phase, unread, rowsByID, toWake, settled>>

\* HasSubscribers, then the idle count of an empty chunk.
CheckSubscribers(id) ==
  LET o == job[id].state
      idle == IF id \in watched THEN 0 ELSE idleTicks[o] + 1
  IN
  /\ job[id].stage = "empty"
  /\ idleTicks' = [idleTicks EXCEPT ![o] = idle]
  /\ To(id, IF idle >= hibernationThreshold THEN "hibernate" ELSE "done")
  /\ UNCHANGED <<chunks, rows, ActiveChunkActors, stored, watched, call,
                 phase, unread, rowsByID, toWake, settled>>

\* Mutant: what is saved are the rows that the tick has read.
PersistCaptured(id) ==
  /\ job[id].stage = "hibernate"
  /\ \/ stored' = [stored EXCEPT ![id] = job[id].rows]
     \/ StorageFaults /\ UNCHANGED stored
  /\ To(id, "evict")
  /\ UNCHANGED <<registryVars, watched, call, phase, unread, rowsByID, toWake, settled>>

\* cfg.Persist: SaveChunk of the rows of now; an error is only logged.
Persist(id) ==
  /\ job[id].stage = "hibernate"
  /\ \/ stored' = [stored EXCEPT ![id] = rows[job[id].state]]
     \/ StorageFaults /\ UNCHANGED stored
  /\ To(id, "evict")
  /\ UNCHANGED <<registryVars, watched, call, phase, unread, rowsByID, toWake, settled>>

\* evict: deletes whatever is registered at id.
Evict(id) ==
  /\ job[id].stage = "evict"
  /\ ~RLocked
  /\ chunks' = [chunks EXCEPT ![id] = Nil]
  /\ ActiveChunkActors' = ActiveChunkActors - 1
  /\ To(id, "done")
  /\ UNCHANGED <<rows, idleTicks, stored, watched, call, phase, unread, rowsByID,
                 toWake, settled>>

-----------------------------------------------------------------------------
(* The environment.                                                         *)

\* PubSub gains its first, or loses its last, subscriber of id.
ToggleWatch(id) ==
  /\ watched' = IF id \in watched THEN watched \ {id} ELSE watched \cup {id}
  /\ UNCHANGED <<registryVars, stored, call, tickVars, settled>>

\* The process is restarted: Redis is all that survives.
Restart ==
  /\ chunks' = [id \in ChunkIDs |-> Nil]
  /\ rows' = [o \in Objects |-> {}]
  /\ idleTicks' = [o \in Objects |-> 0]
  /\ ActiveChunkActors' = 0
  /\ watched' = {}
  /\ call' = [g \in Goroutines |-> NoCall]
  /\ phase' = "idle"
  /\ unread' = {}
  /\ rowsByID' = [id \in ChunkIDs |-> Nil]
  /\ toWake' = {}
  /\ job' = [id \in ChunkIDs |-> NoJob]
  /\ settled' = {}
  /\ UNCHANGED stored

Caller(g) == Lookup(g) \/ Load(g) \/ Insert(g)

Player(p) == Peeked(p) \/ AddCell(p)

TickLoop ==
  \/ TickStart \/ SnapshotDone \/ RereadStart \/ FanOut \/ TickEnd
  \/ \E id \in ChunkIDs : SnapshotChunk(id) \/ Wake(id) \/ RereadChunk(id)

Worker(id) ==
  TickChunk(id) \/ CheckEmpty(id) \/ CheckSubscribers(id) \/ Persist(id) \/ Evict(id)

Next ==
  \/ \E p \in Players, id \in ChunkIDs : Peek(p, id) \/ \E c \in Cells : Spawn(p, id, c)
  \/ \E g \in Goroutines : Caller(g)
  \/ \E p \in Players : Player(p)
  \/ TickLoop
  \/ \E id \in ChunkIDs : Worker(id) \/ ToggleWatch(id)
  \/ Restart

Spec == Init /\ [][Next]_vars

\* The runtime schedules every goroutine that can run; the tick loop is woken by
\* a time.Ticker; and a goroutine waiting for the write lock of a sync.RWMutex
\* is not overtaken for ever by readers.
Fairness ==
  /\ WF_vars(TickLoop)
  /\ \A id \in ChunkIDs : WF_vars(Worker(id))
  /\ \A g \in Goroutines : WF_vars(Caller(g)) /\ SF_vars(Insert(g))
  /\ \A p \in Players : WF_vars(Player(p))

FairSpec == Spec /\ Fairness

-----------------------------------------------------------------------------
CallRecords ==
  [pc     : {"idle", "snapshot", "peekload", "lookup", "load", "insert", "add"},
   id     : ChunkIDs \cup {Nil},
   cell   : Cells \cup {Nil},
   loaded : SUBSET Cells,
   handle : Objects \cup {Nil},
   quiet  : BOOLEAN]

Busy == {"queued", "ticked", "empty", "hibernate", "evict"}

JobRecords == [stage : Busy \cup {"none", "done"}, state : Objects \cup {Nil},
               rows : SUBSET Cells]

TypeOK ==
  /\ chunks \in [ChunkIDs -> Objects \cup {Nil}]
  /\ rows \in [Objects -> SUBSET Cells]
  /\ idleTicks \in [Objects -> 0 .. hibernationThreshold]
  /\ ActiveChunkActors \in Int
  /\ stored \in [ChunkIDs -> SUBSET Cells]
  /\ watched \in SUBSET ChunkIDs
  /\ call \in [Goroutines -> CallRecords]
  /\ phase \in {"idle", "snapshot", "halo", "reread", "run"}
  /\ unread \in SUBSET ChunkIDs
  /\ rowsByID \in [ChunkIDs -> (SUBSET Cells) \cup {Nil}]
  /\ toWake \in SUBSET ChunkIDs
  /\ job \in [ChunkIDs -> JobRecords]
  /\ settled \in SUBSET (ChunkIDs \X Cells)

\* While a worker has the job of a position, the registry's entry there is the
\* object the job was made for: processJob's delete hits no other chunk, and
\* GetOrCreate hands out no second chunk for the position.
JobOwnsEntry ==
  \A id \in ChunkIDs : job[id].stage \in Busy => chunks[id] = job[id].state

\* The golive_active_chunk_actors gauge, moved by GetOrCreate and evict one at a
\* time and never set, is the number of entries of the registry.
GaugeMatches == ActiveChunkActors = Cardinality(Registered)

\* A generation is computed for every chunk that was read by the first loop and
\* for every neighbour that one of those chunks could spill into: none is left a
\* generation behind when TickAll fans out.
TickCoversWorld ==
  phase = "run" =>
    \A id \in ChunkIDs :
      rowsByID[id] # Nil \/ HaloSources(id) # {} => job[id].stage # "none"

\* A spawn that begins and is acknowledged between two ticks is part of the
\* next generation: it is in the registered chunk until the first loop of
\* TickAll reads it, and in the rows read from then on.
QuietSpawnsCount ==
  \A id \in ChunkIDs, c \in Cells : <<id, c>> \in settled =>
    IF phase = "idle" \/ (phase = "snapshot" /\ id \in unread)
      THEN chunks[id] # Nil /\ c \in rows[chunks[id]]
      ELSE rowsByID[id] # Nil /\ c \in rowsByID[id]

\* From the first loop of TickAll to its fan-out no entry goes away and no cell
\* is taken from a chunk: what the tick read stays a lower bound of the world it
\* is about to replace, although no lock is held for most of that time.
CaptureStable ==
  [][ (phase \notin {"idle", "run"} /\ phase' # "idle") =>
        \A id \in Registered : /\ chunks'[id] = chunks[id]
                               /\ rows[chunks[id]] \subseteq rows'[chunks[id]] ]_vars

\* The dead do not come back: an eviction, which leaves a position to what Redis has of it,
\* may take cells away (EvictedIsSaved) but brings none back, if saving does not fail
\* (registry.go:302-311).
DeadStayDead == [][\A id \in ChunkIDs : Evict(id) => World(id)' \subseteq World(id)]_vars

\* "The simulation ... will never freeze": TickAll always returns.
TickTerminates == phase # "idle" ~> phase = "idle"

\* No chunk stays in memory for ever with no cells and no viewer.
IdleChunkHibernates ==
  \A id \in ChunkIDs :
    []<> ~(id \in Registered /\ rows[chunks[id]] = {} /\ id \notin watched)

\* A handler's calls of the registry return, whatever the tick loop is doing.
CallReturns == \A p \in Players : call[p] # NoCall ~> call[p] = NoCall

-----------------------------------------------------------------------------
(* What comments and documents of the repository say, and the code does not.  *)

\* chunk.go: Rows is taken under the lock "so the caller never races with
\* AddCell".  The rows a job computes from would then still be the chunk's rows
\* when the job's result replaces them.
NoWriteRace ==
  \A id \in ChunkIDs :
    phase = "run" /\ job[id].stage = "queued" => rows[job[id].state] = job[id].rows

\* registry.go: a chunk hibernates when it is empty "with no pending work", and
\* hibernate "persists the chunk": what evict throws away is in Redis.
EvictedIsSaved ==
  \A id \in ChunkIDs : job[id].stage = "evict" => rows[job[id].state] = stored[id]

\* DEPLOYMENT.md: "The entire simulation state can be reconstructed from Redis on
\* a restart": the world after a restart is the world before it.
RestartKeepsWorld ==
  [][ Restart => \A id \in ChunkIDs : World(id)' = World(id) ]_vars
=============================================================================
