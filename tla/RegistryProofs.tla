--------------------------- MODULE RegistryProofs ---------------------------
(***************************************************************************)
(* What Registry promises for every set of positions, cells, objects and   *)
(* players, and every number of workers.                                   *)
(***************************************************************************)
EXTENDS Registry, FiniteSetTheorems, TLAPS

USE ConstantsAssumption

\* A call in progress is for some position, and a handle it uses is an object.
CallSound(c) ==
  /\ c.pc # "idle" => c.id \in ChunkIDs
  /\ c.pc \in {"snapshot", "add"} => c.handle \in Objects
  /\ c.pc = "add" => c.cell \in Cells

CallsSound == \A g \in Goroutines : CallSound(call[g])

\* The barrier: a job exists only from the second loop of TickAll to the end of
\* the tick, and no worker has it before the fan-out.
Barrier ==
  /\ phase \in {"idle", "snapshot", "halo"} => \A id \in ChunkIDs : job[id] = NoJob
  /\ phase = "reread" => \A id \in ChunkIDs : job[id].stage \in {"none", "queued"}

\* A range loop over r.chunks, under RLock, meets entries that are still there.
LoopsOverEntries == RLocked => unread \subseteq Registered

EntriesDistinct ==
  \A i, j \in ChunkIDs : chunks[i] # Nil /\ chunks[i] = chunks[j] => i = j

\* The idle count of an entry is below the threshold, unless the entry is going.
IdleBelowThreshold ==
  \A id \in Registered :
    \/ idleTicks[chunks[id]] < hibernationThreshold
    \/ job[id].stage \in {"hibernate", "evict"}

BusyHasObject == \A id \in ChunkIDs : job[id].stage \in Busy => job[id].state # Nil

EntryInv ==
  /\ TypeOK
  /\ CallsSound
  /\ Barrier
  /\ LoopsOverEntries
  /\ EntriesDistinct
  /\ IdleBelowThreshold
  /\ BusyHasObject
  /\ JobOwnsEntry

\* A call that began between two ticks and has its handle: no tick has begun since,
\* so the handle is still that of the registered chunk.
QuietHandles ==
  \A g \in Goroutines :
    call[g].quiet => /\ phase = "idle"
                     /\ call[g].pc = "add" => chunks[call[g].id] = call[g].handle

QuietInv == QuietHandles /\ QuietSpawnsCount

\* What TickAll read is registered until the fan-out; a neighbour to wake is
\* registered, about to be, or still on the list; and the second loop visits all.
CoverInv ==
  /\ phase = "idle" => \A id \in ChunkIDs : rowsByID[id] = Nil
  /\ phase \in {"snapshot", "halo", "reread"} =>
       \A id \in ChunkIDs : rowsByID[id] # Nil => chunks[id] # Nil
  /\ phase = "halo" =>
       \A n \in ChunkIDs : HaloSources(n) # {} =>
         n \in toWake \/ chunks[n] # Nil \/ (call[Ticker].pc # "idle" /\ call[Ticker].id = n)
  /\ phase = "reread" =>
       \A n \in ChunkIDs : HaloSources(n) # {} => chunks[n] # Nil
  /\ phase = "reread" =>
       \A n \in ChunkIDs : chunks[n] # Nil => n \in unread \/ job[n].stage # "none"
  /\ TickCoversWorld
-----------------------------------------------------------------------------
(* EntryInv is inductive.                                                    *)

\* NewRegistry starts with no entry, no job and no call.
LEMMA EntryInit == Init => EntryInv
<1> SUFFICES ASSUME Init PROVE EntryInv
  OBVIOUS
<1>1. TypeOK
  BY DEF Init, TypeOK, NoCall, NoJob, CallRecords, JobRecords
<1>2. CallsSound /\ Barrier /\ LoopsOverEntries /\ EntriesDistinct
  BY DEF Init, CallsSound, CallSound, NoCall, Barrier, LoopsOverEntries, RLocked, EntriesDistinct
<1>3. IdleBelowThreshold /\ BusyHasObject /\ JobOwnsEntry
  BY DEF Init, IdleBelowThreshold, Registered, BusyHasObject, JobOwnsEntry, NoJob, Busy
<1>4. QED
  BY <1>1, <1>2, <1>3 DEF EntryInv

\* A step of one goroutine that changes only its own call.
LEMMA OneCall ==
  ASSUME EntryInv, NEW g \in Goroutines, NEW c \in CallRecords, CallSound(c),
         call' = [call EXCEPT ![g] = c],
         UNCHANGED <<registryVars, stored, watched, tickVars, settled>>
  PROVE  EntryInv'
<1>1. TypeOK' /\ CallsSound'
  BY DEF EntryInv, TypeOK, CallsSound, registryVars, tickVars
<1>2. QED
  BY <1>1 DEF EntryInv, Barrier, LoopsOverEntries, EntriesDistinct, IdleBelowThreshold,
              BusyHasObject, JobOwnsEntry, Registered, RLocked, registryVars, tickVars

\* PeekChunk's lookup hands a chunkState to one goroutine and changes nothing else.
LEMMA EntryPeek ==
  ASSUME EntryInv, NEW p \in Players, NEW id \in ChunkIDs, Peek(p, id)
  PROVE  EntryInv'
<1> DEFINE c == [NoCall EXCEPT !.id = id, !.handle = chunks[id],
                   !.pc = IF chunks[id] # Nil THEN "snapshot" ELSE "peekload"]
<1>1. c \in CallRecords /\ CallSound(c)
  BY DEF EntryInv, TypeOK, CallRecords, NoCall, CallSound
<1>2. QED
  BY <1>1, OneCall DEF Peek, Goroutines

\* The read of a peeked chunk leaves the registry alone.
LEMMA EntryPeeked ==
  ASSUME EntryInv, NEW p \in Players, Peeked(p)
  PROVE  EntryInv'
<1>1. PICK r : call' = [call EXCEPT ![p] =
                IF r = {} THEN NoCall ELSE [NoCall EXCEPT !.pc = "lookup", !.id = call[p].id]]
  BY DEF Peeked
<1> DEFINE c == IF r = {} THEN NoCall ELSE [NoCall EXCEPT !.pc = "lookup", !.id = call[p].id]
<1>2. c \in CallRecords /\ CallSound(c)
  BY DEF EntryInv, TypeOK, CallsSound, CallSound, CallRecords, NoCall, Peeked, Goroutines
<1>3. QED
  BY <1>1, <1>2, OneCall DEF Peeked, Goroutines

\* The record Begin starts a call with.
LEMMA BeginRecord ==
  ASSUME NEW id \in ChunkIDs, NEW cell \in Cells \cup {Nil}, NEW q \in BOOLEAN
  PROVE  LET c == [NoCall EXCEPT !.pc = "lookup", !.id = id, !.cell = cell, !.quiet = q]
         IN  c \in CallRecords /\ CallSound(c)
BY DEF CallRecords, NoCall, CallSound

\* A handler that starts a spawn has no handle yet.
LEMMA EntrySpawn ==
  ASSUME EntryInv, NEW p \in Players, NEW id \in ChunkIDs, NEW cell \in Cells,
         Spawn(p, id, cell)
  PROVE  EntryInv'
<1>1. (phase = "idle") \in BOOLEAN
  OBVIOUS
<1>2. QED
  BY <1>1, OneCall, BeginRecord DEF Spawn, Begin, Goroutines

\* The record with which GetOrCreate returns object o to a caller with record c.
LEMMA ReturnRecord ==
  ASSUME NEW c \in CallRecords, CallSound(c), c.pc # "idle", NEW o \in Objects
  PROVE  LET d == IF c.cell = Nil THEN NoCall ELSE [c EXCEPT !.pc = "add", !.handle = o]
         IN  d \in CallRecords /\ CallSound(d)
BY DEF CallRecords, NoCall, CallSound

\* The read-locked half of GetOrCreate only hands out entries that are there.
LEMMA EntryLookup ==
  ASSUME EntryInv, NEW g \in Goroutines, Lookup(g)
  PROVE  EntryInv'
<1> DEFINE o == chunks[call[g].id]
<1>1. call[g] \in CallRecords /\ CallSound(call[g]) /\ call[g].pc = "lookup"
  BY DEF EntryInv, TypeOK, CallsSound, Lookup
<1>2. o \in Objects \cup {Nil}
  BY <1>1 DEF EntryInv, TypeOK, CallSound
<1>3. CASE o # Nil
  BY <1>1, <1>2, <1>3, ReturnRecord, OneCall DEF Lookup, Return
<1>4. CASE o = Nil
  <2>1. [call[g] EXCEPT !.pc = "load"] \in CallRecords
        /\ CallSound([call[g] EXCEPT !.pc = "load"])
    BY <1>1 DEF CallRecords, CallSound
  <2>2. QED
    BY <1>4, <2>1, OneCall DEF Lookup
<1>5. QED
  BY <1>3, <1>4

\* cfg.Load runs outside the locks and only fills the call's own chunk.
LEMMA EntryLoad ==
  ASSUME EntryInv, NEW g \in Goroutines, Load(g)
  PROVE  EntryInv'
<1>1. PICK r \in LoadResults(call[g].id) :
        call' = [call EXCEPT ![g].pc = "insert", ![g].loaded = r]
  BY DEF Load
<1> DEFINE c == [call[g] EXCEPT !.pc = "insert", !.loaded = r]
<1>2. call[g] \in CallRecords /\ CallSound(call[g]) /\ call[g].pc = "load"
  BY DEF EntryInv, TypeOK, CallsSound, Load
<1>3. r \in SUBSET Cells
  BY <1>2 DEF LoadResults, EntryInv, TypeOK, CallSound
<1>4. c \in CallRecords /\ CallSound(c)
  BY <1>2, <1>3 DEF CallRecords, CallSound
<1>5. call' = [call EXCEPT ![g] = c]
  BY <1>1 DEF EntryInv, TypeOK
<1>6. QED
  BY <1>4, <1>5, OneCall DEF Load

\* The re-check of GetOrCreate keeps the entries distinct and those with a job in place.
LEMMA EntryInsert ==
  ASSUME EntryInv, NEW g \in Goroutines, Insert(g)
  PROVE  EntryInv'
<1> DEFINE id == call[g].id
<1>1. /\ call[g] \in CallRecords /\ CallSound(call[g]) /\ call[g].pc = "insert"
      /\ id \in ChunkIDs /\ ~RLocked
  BY DEF EntryInv, TypeOK, CallsSound, CallSound, Insert
<1>2. CASE chunks[id] # Nil
  <2>1. chunks[id] \in Objects
    BY <1>1, <1>2 DEF EntryInv, TypeOK
  <2>2. QED
    BY <1>1, <1>2, <2>1, ReturnRecord, OneCall DEF Insert, Return
<1>3. ASSUME chunks[id] = Nil, NEW o \in Unused, AddEntry(g, o),
             UNCHANGED <<stored, watched, tickVars, settled>>
      PROVE  EntryInv'
  <2>1. /\ o \in Objects
        /\ \A i \in ChunkIDs : chunks[i] # o /\ job[i].state # o
    BY <1>3 DEF Unused
  <2> DEFINE c == IF call[g].cell = Nil THEN NoCall
                  ELSE [call[g] EXCEPT !.pc = "add", !.handle = o]
  <2>2. c \in CallRecords /\ CallSound(c)
    BY <1>1, <2>1, ReturnRecord
  <2>3. call' = [call EXCEPT ![g] = c]
    BY <1>3 DEF AddEntry, Return
  <2>4. TypeOK' /\ CallsSound'
    BY <1>1, <1>3, <2>1, <2>2, <2>3
    DEF EntryInv, TypeOK, CallsSound, AddEntry, tickVars, CallRecords
  <2>5. /\ chunks' = [chunks EXCEPT ![id] = o]
        /\ idleTicks' = [idleTicks EXCEPT ![o] = 0]
        /\ UNCHANGED <<phase, unread, job>>
    BY <1>3 DEF AddEntry, tickVars
  <2>6. Barrier' /\ LoopsOverEntries' /\ BusyHasObject'
    BY <1>1, <2>5 DEF EntryInv, Barrier, LoopsOverEntries, RLocked, BusyHasObject
  <2>7. EntriesDistinct'
    BY <1>1, <2>1, <2>5 DEF EntryInv, EntriesDistinct, TypeOK
  <2>8. IdleBelowThreshold'
    BY <1>1, <2>1, <2>5 DEF EntryInv, IdleBelowThreshold, Registered, TypeOK
  <2>9. JobOwnsEntry'
    BY <1>1, <1>3, <2>1, <2>5 DEF EntryInv, JobOwnsEntry, BusyHasObject, TypeOK
  <2>10. QED
    BY <2>4, <2>6, <2>7, <2>8, <2>9 DEF EntryInv
<1>4. QED
  BY <1>2, <1>3 DEF Insert

\* AddCell changes the rows of one object only.
LEMMA EntryAddCell ==
  ASSUME EntryInv, NEW p \in Players, AddCell(p)
  PROVE  EntryInv'
<1>1. call[p] \in CallRecords /\ CallSound(call[p]) /\ call[p].pc = "add"
  BY DEF EntryInv, TypeOK, CallsSound, Goroutines, AddCell
<1>2. NoCall \in CallRecords /\ CallSound(NoCall)
  BY DEF NoCall, CallRecords, CallSound
<1>3. call[p].handle \in Objects /\ call[p].cell \in Cells /\ call[p].id \in ChunkIDs
  BY <1>1 DEF CallSound
<1>4. TypeOK' /\ CallsSound'
  BY <1>2, <1>3 DEF EntryInv, TypeOK, CallsSound, AddCell, tickVars, Goroutines
<1>5. QED
  BY <1>4 DEF EntryInv, Barrier, LoopsOverEntries, EntriesDistinct, IdleBelowThreshold,
              BusyHasObject, JobOwnsEntry, Registered, RLocked, AddCell, tickVars

\* The steps of TickAll before the fan-out.
LEMMA EntryTickStart ==
  ASSUME EntryInv, TickStart
  PROVE  EntryInv'
<1> DEFINE Loud(g) == [call[g] EXCEPT !.quiet = FALSE]
<1>1. ASSUME NEW g \in Goroutines
      PROVE  Loud(g) \in CallRecords /\ CallSound(Loud(g))
  <2>1. call[g] \in CallRecords /\ CallSound(call[g])
    BY DEF EntryInv, TypeOK, CallsSound
  <2>2. QED
    BY <2>1 DEF CallSound, CallRecords
<1> HIDE DEF Loud
<1>2. call' = [g \in Goroutines |-> Loud(g)]
  BY DEF TickStart, Loud
<1>3. CallsSound'
  BY <1>1, <1>2 DEF CallsSound
<1>4. call' \in [Goroutines -> CallRecords]
  BY <1>1, <1>2
<1>5. TypeOK'
  BY <1>4 DEF TickStart, EntryInv, TypeOK, Registered, registryVars
<1>6. QED
  BY <1>3, <1>5 DEF EntryInv, Barrier, LoopsOverEntries, EntriesDistinct, IdleBelowThreshold,
              BusyHasObject, JobOwnsEntry, Registered, RLocked, TickStart, registryVars

\* TickAll's first loop reads one entry.
LEMMA EntrySnapshotChunk ==
  ASSUME EntryInv, NEW id \in ChunkIDs, SnapshotChunk(id)
  PROVE  EntryInv'
<1>1. chunks[id] \in Objects
  BY DEF SnapshotChunk, EntryInv, TypeOK, LoopsOverEntries, RLocked, Registered
<1>2. TypeOK'
  BY <1>1 DEF SnapshotChunk, EntryInv, TypeOK, registryVars
<1>3. QED
  BY <1>2 DEF EntryInv, CallsSound, Barrier, LoopsOverEntries, EntriesDistinct,
              IdleBelowThreshold, BusyHasObject, JobOwnsEntry, Registered, RLocked,
              SnapshotChunk, registryVars

\* TickAll's first loop ends.
LEMMA EntrySnapshotDone ==
  ASSUME EntryInv, SnapshotDone
  PROVE  EntryInv'
BY DEF EntryInv, TypeOK, CallsSound, Barrier, LoopsOverEntries, EntriesDistinct,
       IdleBelowThreshold, BusyHasObject, JobOwnsEntry, Registered, RLocked,
       SnapshotDone, registryVars

\* TickAll calls GetOrCreate for a neighbour.
LEMMA EntryWake ==
  ASSUME EntryInv, NEW n \in ChunkIDs, Wake(n)
  PROVE  EntryInv'
<1> DEFINE c == [NoCall EXCEPT !.pc = "lookup", !.id = n, !.cell = Nil,
                               !.quiet = (phase = "idle")]
<1>1. (phase = "idle") \in BOOLEAN
  OBVIOUS
<1>2. c \in CallRecords /\ CallSound(c)
  BY <1>1, BeginRecord
<1>3. TypeOK' /\ CallsSound'
  BY <1>2 DEF Wake, Begin, EntryInv, TypeOK, CallsSound, Goroutines, registryVars
<1>4. QED
  BY <1>3 DEF EntryInv, Barrier, LoopsOverEntries, EntriesDistinct, IdleBelowThreshold,
              BusyHasObject, JobOwnsEntry, Registered, RLocked, Wake, registryVars

\* TickAll's second loop starts from the entries of now.
LEMMA EntryRereadStart ==
  ASSUME EntryInv, RereadStart
  PROVE  EntryInv'
<1>1. \A id \in ChunkIDs : job'[id].stage = "none"
  BY DEF RereadStart, EntryInv, Barrier, NoJob
<1>2. QED
  BY <1>1 DEF EntryInv, TypeOK, CallsSound, Barrier, LoopsOverEntries, EntriesDistinct,
              IdleBelowThreshold, BusyHasObject, JobOwnsEntry, Registered, RLocked,
              RereadStart, registryVars

\* TickAll's second loop makes the job of an entry for the entry's own object.
LEMMA EntryRereadChunk ==
  ASSUME EntryInv, NEW id \in ChunkIDs, RereadChunk(id)
  PROVE  EntryInv'
<1> DEFINE j == [stage |-> "queued", state |-> chunks[id],
                 rows |-> IF rowsByID[id] # Nil THEN rowsByID[id] ELSE rows[chunks[id]]]
<1>1. chunks[id] \in Objects /\ chunks[id] # Nil
  BY DEF RereadChunk, EntryInv, TypeOK, LoopsOverEntries, RLocked, Registered
<1>2. j \in JobRecords
  BY <1>1 DEF EntryInv, TypeOK, JobRecords, Busy
<1>3. TypeOK'
  BY <1>2 DEF RereadChunk, EntryInv, TypeOK, registryVars
<1>4. Barrier' /\ BusyHasObject' /\ JobOwnsEntry'
  BY <1>1 DEF RereadChunk, EntryInv, Barrier, BusyHasObject, JobOwnsEntry, TypeOK, registryVars
<1>5. IdleBelowThreshold'
  BY DEF RereadChunk, EntryInv, IdleBelowThreshold, Barrier, Registered, TypeOK, registryVars
<1>6. QED
  BY <1>3, <1>4, <1>5 DEF EntryInv, CallsSound, LoopsOverEntries, EntriesDistinct,
              Registered, RLocked, RereadChunk, registryVars

\* TickAll sends its jobs.
LEMMA EntryFanOut ==
  ASSUME EntryInv, FanOut
  PROVE  EntryInv'
BY DEF EntryInv, TypeOK, CallsSound, Barrier, LoopsOverEntries, EntriesDistinct,
       IdleBelowThreshold, BusyHasObject, JobOwnsEntry, Registered, RLocked,
       FanOut, registryVars

\* wg.Wait returns only when no worker has a job.
LEMMA EntryTickEnd ==
  ASSUME EntryInv, TickEnd
  PROVE  EntryInv'
<1>1. NoJob \in JobRecords /\ NoJob.stage \notin Busy
  BY DEF NoJob, JobRecords, Busy
<1>2. TypeOK'
  BY <1>1 DEF TickEnd, EntryInv, TypeOK, registryVars
<1>3. Barrier' /\ BusyHasObject' /\ JobOwnsEntry'
  BY <1>1 DEF TickEnd, Barrier, BusyHasObject, JobOwnsEntry
<1>4. IdleBelowThreshold'
  BY DEF TickEnd, EntryInv, IdleBelowThreshold, Registered, registryVars
<1>5. QED
  BY <1>2, <1>3, <1>4 DEF EntryInv, CallsSound, LoopsOverEntries, EntriesDistinct,
              Registered, RLocked, TickEnd, registryVars

\* The steps of a worker.
LEMMA StageTyped ==
  ASSUME TypeOK, NEW id \in ChunkIDs, NEW s \in Busy \cup {"none", "done"},
         job' = [job EXCEPT ![id].stage = s]
  PROVE  job' \in [ChunkIDs -> JobRecords]
<1>1. job[id] \in JobRecords
  BY DEF TypeOK
<1>2. [job[id] EXCEPT !.stage = s] \in JobRecords
  BY <1>1 DEF JobRecords
<1>3. QED
  BY <1>2 DEF TypeOK

\* SetRows of a worker changes the rows of its own object only.
LEMMA EntryTickChunk ==
  ASSUME EntryInv, NEW id \in ChunkIDs, TickChunk(id)
  PROVE  EntryInv'
<1>1. job' = [job EXCEPT ![id].stage = "ticked"] /\ job[id].stage = "queued" /\ phase = "run"
  BY DEF TickChunk, To
<1>2. PICK next \in SUBSET Cells : rows' = [rows EXCEPT ![job[id].state] = next]
  BY DEF TickChunk, NextGeneration
<1>3. TypeOK'
  <2>1. job' \in [ChunkIDs -> JobRecords]
    BY <1>1, StageTyped DEF EntryInv, Busy
  <2>2. QED
    BY <1>2, <2>1 DEF TickChunk, EntryInv, TypeOK
<1>4. Barrier' /\ BusyHasObject' /\ JobOwnsEntry' /\ IdleBelowThreshold'
  BY <1>1 DEF TickChunk, EntryInv, TypeOK, Barrier, BusyHasObject, JobOwnsEntry, Busy,
              IdleBelowThreshold, Registered
<1>5. QED
  BY <1>3, <1>4 DEF EntryInv, CallsSound, LoopsOverEntries, EntriesDistinct,
              Registered, RLocked, TickChunk

\* A job in a worker: the barrier is up, and the job's object is the entry.
LEMMA AtWorker ==
  ASSUME EntryInv, NEW id \in ChunkIDs,
         job[id].stage \in {"ticked", "empty", "hibernate", "evict"}
  PROVE  /\ phase = "run"
         /\ job[id].state \in Objects
         /\ chunks[id] = job[id].state
         /\ chunks[id] # Nil
<1>1. phase = "run"
  <2>1. job[id] # NoJob
    BY DEF NoJob
  <2>2. QED
    BY <2>1 DEF EntryInv, TypeOK, Barrier
<1>2. job[id].stage \in Busy
  BY DEF Busy
<1>3. job[id].state \in Objects /\ chunks[id] = job[id].state
  BY <1>2 DEF EntryInv, TypeOK, BusyHasObject, JobOwnsEntry, JobRecords
<1>4. chunks[id] # Nil
  BY <1>3, ConstantsAssumption
<1>5. QED
  BY <1>1, <1>3, <1>4

\* PopCount of a worker sends an empty chunk on, or resets its idle count.
LEMMA EntryCheckEmpty ==
  ASSUME EntryInv, NEW id \in ChunkIDs, CheckEmpty(id)
  PROVE  EntryInv'
<1> DEFINE o == job[id].state
<1>1. /\ job[id].stage = "ticked" /\ phase = "run"
      /\ o \in Objects /\ chunks[id] = o /\ o # Nil
  BY AtWorker DEF CheckEmpty
<1>2. PICK s \in {"empty", "done"} : job' = [job EXCEPT ![id].stage = s]
  BY DEF CheckEmpty, To
<1>3. idleTicks' \in {idleTicks, [idleTicks EXCEPT ![o] = 0]}
  BY DEF CheckEmpty
<1>4. TypeOK'
  <2>1. job' \in [ChunkIDs -> JobRecords]
    BY <1>2, StageTyped DEF EntryInv, Busy
  <2>2. idleTicks' \in [Objects -> 0 .. hibernationThreshold]
    BY <1>3 DEF EntryInv, TypeOK
  <2>3. QED
    BY <2>1, <2>2 DEF CheckEmpty, EntryInv, TypeOK
<1>5. Barrier' /\ BusyHasObject' /\ JobOwnsEntry'
  BY <1>1, <1>2 DEF CheckEmpty, EntryInv, TypeOK, Barrier, BusyHasObject, JobOwnsEntry, Busy
<1>6. IdleBelowThreshold'
  <2>1. SUFFICES ASSUME NEW i \in Registered
                 PROVE  \/ idleTicks'[chunks[i]] < hibernationThreshold
                        \/ job'[i].stage \in {"hibernate", "evict"}
    BY DEF IdleBelowThreshold, Registered, CheckEmpty
  <2>2. chunks[i] \in Objects /\ i \in ChunkIDs
    BY DEF EntryInv, TypeOK, Registered
  <2>3. CASE i = id
    BY <1>1, <1>3, <2>2, <2>3 DEF EntryInv, TypeOK, IdleBelowThreshold, Registered
  <2>4. CASE i # id
    BY <1>1, <1>2, <1>3, <2>2, <2>4 DEF EntryInv, TypeOK, IdleBelowThreshold, EntriesDistinct
  <2>5. QED
    BY <2>3, <2>4
<1>7. QED
  BY <1>4, <1>5, <1>6 DEF EntryInv, CallsSound, LoopsOverEntries, EntriesDistinct,
              Registered, RLocked, CheckEmpty

\* The idle count stays below the threshold unless the chunk hibernates now.
LEMMA EntryCheckSubscribers ==
  ASSUME EntryInv, NEW id \in ChunkIDs, CheckSubscribers(id)
  PROVE  EntryInv'
<1> DEFINE o == job[id].state
           idle == IF id \in watched THEN 0 ELSE idleTicks[o] + 1
           s == IF idle >= hibernationThreshold THEN "hibernate" ELSE "done"
<1>1. /\ job[id].stage = "empty" /\ phase = "run"
      /\ o \in Objects /\ chunks[id] = o /\ o # Nil
  BY AtWorker DEF CheckSubscribers
<1>2. job' = [job EXCEPT ![id].stage = s] /\ idleTicks' = [idleTicks EXCEPT ![o] = idle]
  BY DEF CheckSubscribers, To
<1>3. idleTicks[o] \in 0 .. hibernationThreshold - 1
  BY <1>1 DEF EntryInv, TypeOK, IdleBelowThreshold, Registered
<1>4. idle \in 0 .. hibernationThreshold
  BY <1>3
<1> HIDE DEF idle
<1>5. TypeOK'
  <2>1. s \in Busy \cup {"none", "done"}
    BY DEF Busy
  <2>2. job' \in [ChunkIDs -> JobRecords]
    BY <1>2, <2>1, StageTyped DEF EntryInv
  <2>3. idleTicks' \in [Objects -> 0 .. hibernationThreshold]
    BY <1>2, <1>4 DEF EntryInv, TypeOK
  <2>4. QED
    BY <2>2, <2>3 DEF CheckSubscribers, EntryInv, TypeOK
<1>6. Barrier' /\ BusyHasObject' /\ JobOwnsEntry'
  BY <1>1, <1>2 DEF CheckSubscribers, EntryInv, TypeOK, Barrier, BusyHasObject, JobOwnsEntry, Busy
<1>7. IdleBelowThreshold'
  <2>1. SUFFICES ASSUME NEW i \in Registered
                 PROVE  \/ idleTicks'[chunks[i]] < hibernationThreshold
                        \/ job'[i].stage \in {"hibernate", "evict"}
    BY DEF IdleBelowThreshold, Registered, CheckSubscribers
  <2>2. chunks[i] \in Objects /\ i \in ChunkIDs
    BY DEF EntryInv, TypeOK, Registered
  <2>3. CASE i = id
    BY <1>1, <1>2, <1>4, <2>2, <2>3 DEF EntryInv, TypeOK
  <2>4. CASE i # id
    BY <1>1, <1>2, <2>2, <2>4 DEF EntryInv, TypeOK, IdleBelowThreshold, EntriesDistinct
  <2>5. QED
    BY <2>3, <2>4
<1>8. QED
  BY <1>5, <1>6, <1>7 DEF EntryInv, CallsSound, LoopsOverEntries, EntriesDistinct,
              Registered, RLocked, CheckSubscribers

\* Persist writes to Redis and leaves the registry alone.
LEMMA EntryPersist ==
  ASSUME EntryInv, NEW id \in ChunkIDs, Persist(id)
  PROVE  EntryInv'
<1>1. /\ job[id].stage = "hibernate" /\ phase = "run"
      /\ job[id].state \in Objects /\ chunks[id] = job[id].state
  BY AtWorker DEF Persist
<1>2. job' = [job EXCEPT ![id].stage = "evict"]
  BY DEF Persist, To
<1>3. TypeOK'
  <2>1. job' \in [ChunkIDs -> JobRecords]
    BY <1>2, StageTyped DEF EntryInv, Busy
  <2>2. stored' \in [ChunkIDs -> SUBSET Cells]
    BY <1>1 DEF Persist, EntryInv, TypeOK
  <2>3. QED
    BY <2>1, <2>2 DEF Persist, EntryInv, TypeOK, registryVars
<1>4. Barrier' /\ BusyHasObject' /\ JobOwnsEntry' /\ IdleBelowThreshold'
  BY <1>1, <1>2 DEF Persist, EntryInv, TypeOK, Barrier, BusyHasObject, JobOwnsEntry, Busy,
                    IdleBelowThreshold, Registered, registryVars
<1>5. QED
  BY <1>3, <1>4 DEF EntryInv, CallsSound, LoopsOverEntries, EntriesDistinct,
              Registered, RLocked, Persist, registryVars

\* evict deletes the entry of the job it runs for, and ends that job.
LEMMA EntryEvict ==
  ASSUME EntryInv, NEW id \in ChunkIDs, Evict(id)
  PROVE  EntryInv'
<1>1. job[id].stage = "evict" /\ phase = "run"
  BY AtWorker DEF Evict
<1>2. /\ job' = [job EXCEPT ![id].stage = "done"]
      /\ chunks' = [chunks EXCEPT ![id] = Nil]
  BY DEF Evict, To
<1>3. TypeOK'
  <2>1. job' \in [ChunkIDs -> JobRecords]
    BY <1>2, StageTyped DEF EntryInv, Busy
  <2>2. QED
    BY <1>2, <2>1 DEF Evict, EntryInv, TypeOK
<1>4. Barrier' /\ BusyHasObject' /\ JobOwnsEntry' /\ IdleBelowThreshold'
  BY <1>1, <1>2 DEF Evict, EntryInv, TypeOK, Barrier, BusyHasObject, JobOwnsEntry, Busy,
                    IdleBelowThreshold, Registered
<1>5. EntriesDistinct' /\ LoopsOverEntries'
  BY <1>1, <1>2 DEF Evict, EntryInv, TypeOK, EntriesDistinct, LoopsOverEntries, RLocked
<1>6. QED
  BY <1>3, <1>4, <1>5 DEF EntryInv, CallsSound, Evict

\* The steps of the environment, and stuttering.
LEMMA EntryEnvironment ==
  ASSUME EntryInv,
         (\E id \in ChunkIDs : ToggleWatch(id)) \/ Restart \/ UNCHANGED vars
  PROVE  EntryInv'
<1>1. ASSUME NEW id \in ChunkIDs, ToggleWatch(id)
      PROVE  EntryInv'
  BY <1>1 DEF ToggleWatch, EntryInv, TypeOK, CallsSound, Barrier, LoopsOverEntries,
              EntriesDistinct, IdleBelowThreshold, BusyHasObject, JobOwnsEntry,
              Registered, RLocked, registryVars, tickVars
<1>2. CASE Restart
  <2>1. TypeOK'
    BY <1>2 DEF Restart, EntryInv, TypeOK, NoCall, NoJob, CallRecords, JobRecords
  <2>2. CallsSound' /\ Barrier' /\ LoopsOverEntries' /\ EntriesDistinct'
    BY <1>2 DEF Restart, CallsSound, CallSound, NoCall, Barrier, LoopsOverEntries, RLocked,
                EntriesDistinct
  <2>3. IdleBelowThreshold' /\ BusyHasObject' /\ JobOwnsEntry'
    BY <1>2 DEF Restart, IdleBelowThreshold, Registered, BusyHasObject, JobOwnsEntry, NoJob, Busy
  <2>4. QED
    BY <2>1, <2>2, <2>3 DEF EntryInv
<1>3. CASE UNCHANGED vars
  BY <1>3 DEF EntryInv, TypeOK, CallsSound, Barrier, LoopsOverEntries,
              EntriesDistinct, IdleBelowThreshold, BusyHasObject, JobOwnsEntry,
              Registered, RLocked, vars, registryVars, tickVars
<1>4. QED
  BY <1>1, <1>2, <1>3

\* EntryInv is preserved by every step of every goroutine, and by a restart.
LEMMA EntryStep == EntryInv /\ [Next]_vars => EntryInv'
<1> SUFFICES ASSUME EntryInv, [Next]_vars
             PROVE  EntryInv'
  OBVIOUS
<1>1. ASSUME NEW p \in Players, NEW id \in ChunkIDs,
             Peek(p, id) \/ \E c \in Cells : Spawn(p, id, c)
      PROVE  EntryInv'
  BY <1>1, EntryPeek, EntrySpawn
<1>2. ASSUME NEW g \in Goroutines, Caller(g)
      PROVE  EntryInv'
  BY <1>2, EntryLookup, EntryLoad, EntryInsert DEF Caller
<1>3. ASSUME NEW p \in Players, Player(p)
      PROVE  EntryInv'
  BY <1>3, EntryPeeked, EntryAddCell DEF Player
<1>4. ASSUME TickLoop
      PROVE  EntryInv'
  BY <1>4, EntryTickStart, EntrySnapshotChunk, EntrySnapshotDone, EntryWake, EntryRereadStart,
     EntryRereadChunk, EntryFanOut, EntryTickEnd DEF TickLoop
<1>5. ASSUME NEW id \in ChunkIDs, Worker(id)
      PROVE  EntryInv'
  BY <1>5, EntryTickChunk, EntryCheckEmpty, EntryCheckSubscribers, EntryPersist, EntryEvict
  DEF Worker
<1>6. QED
  BY <1>1, <1>2, <1>3, <1>4, <1>5, EntryEnvironment DEF Next

\* The registry's entries, jobs and calls fit together (EntryInv) at all times,
\* whatever the goroutines of registry.go do between two locks.
THEOREM EntryInvariance == Spec => []EntryInv
BY EntryInit, EntryStep, PTL DEF Spec

\* Every variable keeps the type the code gives it; in particular no idle count
\* passes hibernationThreshold, so a chunk is hibernated on the very tick that
\* reaches it.
THEOREM TypeCorrect == Spec => []TypeOK
<1>1. EntryInv => TypeOK
  BY DEF EntryInv
<1>2. QED
  BY <1>1, EntryInvariance, PTL

\* A worker's job and the registry always agree on the object of a position, so
\* that evict removes the chunk it persisted and no other.
THEOREM JobsOwnEntries == Spec => []JobOwnsEntry
<1>1. EntryInv => JobOwnsEntry
  BY DEF EntryInv
<1>2. QED
  BY <1>1, EntryInvariance, PTL

-----------------------------------------------------------------------------
(* What a step may do to the registry's map.                                 *)

Adds(id, o) ==
  /\ chunks[id] = Nil /\ o \in Unused
  /\ chunks' = [chunks EXCEPT ![id] = o]
  /\ \E r \in SUBSET Cells : rows' = [rows EXCEPT ![o] = r]
  /\ ActiveChunkActors' = ActiveChunkActors + 1
  /\ ~RLocked
  /\ UNCHANGED <<phase, unread, rowsByID, job, toWake, settled>>

\* GetOrCreate's write-locked half adds one fresh entry or changes nothing.
LEMMA InsertAdds ==
  ASSUME EntryInv, NEW g \in Goroutines, Insert(g)
  PROVE  \/ UNCHANGED <<registryVars, phase, unread, rowsByID, job, toWake, settled>>
         \/ call[g].id \in ChunkIDs /\ \E o \in Unused : Adds(call[g].id, o)
<1>1. call[g].id \in ChunkIDs /\ call[g].loaded \in SUBSET Cells
  BY DEF Insert, EntryInv, TypeOK, CallsSound, CallSound, CallRecords
<1>2. QED
  BY <1>1 DEF Insert, AddEntry, Adds, registryVars, tickVars

\* An entry is only ever added by GetOrCreate, deleted by evict while the fan-out
\* runs, or lost with the process.
LEMMA EntriesStep ==
  ASSUME EntryInv, [Next]_vars
  PROVE  \/ UNCHANGED <<chunks, ActiveChunkActors>>
         \/ \E id \in ChunkIDs : \E o \in Unused : Adds(id, o)
         \/ \E id \in ChunkIDs : Evict(id)
         \/ Restart
<1>1. ASSUME NEW g \in Goroutines, Insert(g)
      PROVE  \/ UNCHANGED <<chunks, ActiveChunkActors>>
             \/ \E id \in ChunkIDs : \E o \in Unused : Adds(id, o)
  BY <1>1, InsertAdds DEF registryVars
<1>2. QED
  BY <1>1 DEF Next, Caller, Player, TickLoop, Worker, Peek, Spawn, Peeked, AddCell, Lookup, Load,
              TickStart, SnapshotChunk, SnapshotDone, Wake, RereadStart, RereadChunk, FanOut,
              TickEnd, TickChunk, CheckEmpty, CheckSubscribers, Persist, ToggleWatch,
              vars, registryVars

\* Inc and Dec of ActiveChunkActors go with one entry added and one deleted.
LEMMA GaugeStep == EntryInv /\ GaugeMatches /\ [Next]_vars => GaugeMatches'
<1> SUFFICES ASSUME EntryInv, GaugeMatches, [Next]_vars
             PROVE  GaugeMatches'
  OBVIOUS
<1>1. IsFiniteSet(Registered)
  BY FS_Subset DEF Registered
<1>2. CASE UNCHANGED <<chunks, ActiveChunkActors>>
  BY <1>2 DEF GaugeMatches, Registered
<1>3. ASSUME NEW id \in ChunkIDs, NEW o \in Unused, Adds(id, o)
      PROVE  GaugeMatches'
  <2>1. o # Nil
    BY DEF Unused
  <2>2. Registered' = Registered \cup {id} /\ id \notin Registered
    BY <1>3, <2>1 DEF Registered, Adds, EntryInv, TypeOK
  <2>3. QED
    BY <1>1, <1>3, <2>2, FS_AddElement DEF GaugeMatches, Adds
<1>4. ASSUME NEW id \in ChunkIDs, Evict(id)
      PROVE  GaugeMatches'
  <2>1. chunks[id] # Nil
    BY <1>4, AtWorker DEF Evict
  <2>2. Registered' = Registered \ {id} /\ id \in Registered
    BY <1>4, <2>1 DEF Registered, Evict, EntryInv, TypeOK
  <2>3. QED
    BY <1>1, <1>4, <2>2, FS_RemoveElement DEF GaugeMatches, Evict
<1>5. CASE Restart
  <2>1. Registered' = {}
    BY <1>5 DEF Restart, Registered
  <2>2. QED
    BY <1>5, <2>1, FS_EmptySet DEF Restart, GaugeMatches
<1>6. QED
  BY <1>2, <1>3, <1>4, <1>5, EntriesStep

\* The golive_active_chunk_actors gauge, moved one at a time by GetOrCreate and
\* evict, is at every moment the number of entries of the registry.
THEOREM GaugeCorrect == Spec => []GaugeMatches
<1>1. Init => GaugeMatches
  <2>1. Init => Registered = {}
    BY DEF Init, Registered
  <2>2. QED
    BY <2>1, FS_EmptySet DEF Init, GaugeMatches
<1>2. QED
  BY <1>1, EntryInvariance, GaugeStep, PTL DEF Spec

\* While TickAll reads the chunks and wakes neighbours, no entry is evicted and no
\* chunk loses a cell, although spawns and GetOrCreate calls go on.
THEOREM CaptureIsStable == Spec => CaptureStable
<1>1. ASSUME EntryInv, [Next]_vars, phase \notin {"idle", "run"}, phase' # "idle",
             NEW id \in Registered
      PROVE  chunks'[id] = chunks[id] /\ rows[chunks[id]] \subseteq rows'[chunks[id]]
  <2>1. id \in ChunkIDs /\ chunks[id] \in Objects
    BY <1>1 DEF EntryInv, TypeOK, Registered
  <2>2. ASSUME NEW i \in ChunkIDs, Worker(i)
        PROVE  FALSE
    BY <1>1, <2>2, AtWorker
    DEF Worker, TickChunk, CheckEmpty, CheckSubscribers, Persist, Evict
  <2>3. ASSUME NEW i \in ChunkIDs, NEW o \in Unused, Adds(i, o)
        PROVE  chunks'[id] = chunks[id] /\ rows[chunks[id]] \subseteq rows'[chunks[id]]
    BY <1>1, <2>1, <2>3 DEF Adds, Registered, Unused, EntryInv, TypeOK
  <2>4. ASSUME NEW p \in Players, AddCell(p)
        PROVE  chunks'[id] = chunks[id] /\ rows[chunks[id]] \subseteq rows'[chunks[id]]
    BY <2>1, <2>4 DEF AddCell, EntryInv, TypeOK
  <2>5. ASSUME NEW g \in Goroutines, Insert(g)
        PROVE  chunks'[id] = chunks[id] /\ rows[chunks[id]] \subseteq rows'[chunks[id]]
    BY <1>1, <2>3, <2>5, InsertAdds DEF registryVars
  <2>6. phase' # "idle" /\ ~Restart
    BY <1>1 DEF Restart
  <2>7. CASE UNCHANGED <<chunks, rows>>
    BY <2>7
  <2>8. QED
    BY <1>1, <2>2, <2>4, <2>5, <2>6, <2>7
    DEF Next, Caller, Player, TickLoop, Peek, Spawn, Peeked, Lookup, Load, TickStart,
        SnapshotChunk, SnapshotDone, Wake, RereadStart, RereadChunk, FanOut, TickEnd,
        ToggleWatch, vars, registryVars
<1>2. EntryInv /\ [Next]_vars =>
        [ (phase \notin {"idle", "run"} /\ phase' # "idle") =>
            \A id \in Registered : /\ chunks'[id] = chunks[id]
                                   /\ rows[chunks[id]] \subseteq rows'[chunks[id]] ]_vars
  BY <1>1
<1>3. QED
  BY <1>2, EntryInvariance, PTL DEF Spec, CaptureStable

-----------------------------------------------------------------------------
(* DeadStayDead.                                                             *)

\* What has been saved of a chunk that is about to be evicted is part of what it has.
SavedIsPart ==
  \A id \in ChunkIDs : job[id].stage = "evict" => stored[id] \subseteq rows[job[id].state]

\* Between Persist and evict only AddCell changes the rows of a chunk.
LEMMA SavedStep ==
  ASSUME ~StorageFaults, EntryInv, SavedIsPart, [Next]_vars
  PROVE  SavedIsPart'
<1> SUFFICES ASSUME NEW id \in ChunkIDs, job'[id].stage = "evict"
             PROVE  stored'[id] \subseteq rows'[job'[id].state]
  BY DEF SavedIsPart
<1> DEFINE o == job[id].state
<1>1. job \in [ChunkIDs -> JobRecords] /\ rows \in [Objects -> SUBSET Cells]
  BY DEF EntryInv, TypeOK
<1>2. ASSUME UNCHANGED <<job[id], stored[id], rows[o]>>
      PROVE  stored'[id] \subseteq rows'[job'[id].state]
  BY <1>2 DEF SavedIsPart
<1>3. ASSUME UNCHANGED <<job, stored, rows>>
      PROVE  stored'[id] \subseteq rows'[job'[id].state]
  BY <1>2, <1>3
<1>4. ASSUME NEW g \in Goroutines, Insert(g)
      PROVE  stored'[id] \subseteq rows'[job'[id].state]
  <2>1. UNCHANGED <<job, stored>>
    BY <1>4 DEF Insert, tickVars
  <2>2. ASSUME NEW i \in ChunkIDs, NEW u \in Unused, Adds(i, u)
        PROVE  rows'[o] = rows[o]
    BY <1>1, <2>2 DEF Adds, Unused
  <2>3. rows'[o] = rows[o]
    BY <1>4, <2>2, InsertAdds DEF registryVars
  <2>4. QED
    BY <1>2, <2>1, <2>3
<1>5. ASSUME NEW p \in Players, AddCell(p)
      PROVE  stored'[id] \subseteq rows'[job'[id].state]
  <2>1. UNCHANGED <<job, stored>> /\ job[id].stage = "evict"
    BY <1>5 DEF AddCell, tickVars
  <2>2. o \in Objects /\ stored[id] \subseteq rows[o]
    BY <2>1, AtWorker DEF SavedIsPart
  <2>3. rows[o] \subseteq rows'[o]
    BY <1>1, <1>5, <2>2 DEF AddCell
  <2>4. QED
    BY <2>1, <2>2, <2>3
<1>6. ASSUME NEW i \in ChunkIDs, TickChunk(i)
      PROVE  stored'[id] \subseteq rows'[job'[id].state]
  <2>1. job[i].stage = "queued" /\ job' = [job EXCEPT ![i].stage = "ticked"] /\ stored' = stored
    BY <1>6 DEF TickChunk, To
  <2>2. i # id /\ job'[id] = job[id]
    BY <1>1, <2>1
  <2>3. chunks[i] = job[i].state
    BY <2>1 DEF EntryInv, JobOwnsEntry, Busy
  <2>4. chunks[id] = o /\ o # Nil
    BY <2>2, AtWorker
  <2>5. job[i].state # o
    BY <2>2, <2>3, <2>4 DEF EntryInv, EntriesDistinct
  <2>6. rows'[o] = rows[o]
    BY <1>1, <1>6, <2>5 DEF TickChunk
  <2>7. QED
    BY <1>2, <2>1, <2>2, <2>6
<1>7. ASSUME NEW i \in ChunkIDs, CheckEmpty(i) \/ CheckSubscribers(i) \/ Evict(i)
      PROVE  stored'[id] \subseteq rows'[job'[id].state]
  <2>1. /\ \E s \in {"empty", "hibernate", "done"} : job' = [job EXCEPT ![i].stage = s]
        /\ UNCHANGED <<rows, stored>>
    BY <1>7 DEF CheckEmpty, CheckSubscribers, Evict, To
  <2>2. job'[id] = job[id]
    BY <1>1, <2>1
  <2>3. QED
    BY <1>2, <2>1, <2>2
<1>8. ASSUME NEW i \in ChunkIDs, Persist(i)
      PROVE  stored'[id] \subseteq rows'[job'[id].state]
  <2>1. /\ job' = [job EXCEPT ![i].stage = "evict"] /\ UNCHANGED rows
        /\ stored' = [stored EXCEPT ![i] = rows[job[i].state]]
    BY <1>8 DEF Persist, To, registryVars
  <2>2. stored \in [ChunkIDs -> SUBSET Cells]
    BY DEF EntryInv, TypeOK
  <2>3. CASE i = id
    BY <1>1, <2>1, <2>2, <2>3
  <2>4. CASE i # id
    BY <1>1, <1>2, <2>1, <2>2, <2>4
  <2>5. QED
    BY <2>3, <2>4
<1>9. ASSUME NEW i \in ChunkIDs, RereadChunk(i)
      PROVE  stored'[id] \subseteq rows'[job'[id].state]
  <2>1. job'[id] = job[id] /\ UNCHANGED <<rows, stored>>
    BY <1>1, <1>9 DEF RereadChunk, registryVars
  <2>2. QED
    BY <1>2, <2>1
<1>10. ~TickEnd /\ ~Restart
  BY DEF TickEnd, Restart, NoJob
<1>11. QED
  BY <1>3, <1>4, <1>5, <1>6, <1>7, <1>8, <1>9, <1>10
  DEF Next, Caller, Player, TickLoop, Worker, Peek, Spawn, Peeked, Lookup, Load, TickStart,
      SnapshotChunk, SnapshotDone, Wake, RereadStart, FanOut, ToggleWatch, vars, registryVars,
      tickVars

\* If saving does not fail, an evicted chunk has in Redis only cells that it had when it
\* was evicted, although handlers add cells while its worker saves and evicts it: no cell
\* that has died comes back (registry.go, hibernate and evict).
THEOREM TheDeadStayDead ==
  ASSUME ~StorageFaults
  PROVE  Spec => DeadStayDead
<1>1. Init => SavedIsPart
  BY DEF Init, SavedIsPart, NoJob
<1>2. EntryInv /\ SavedIsPart /\ [Next]_vars => SavedIsPart'
  BY SavedStep
<1>3. ASSUME EntryInv, SavedIsPart, NEW id \in ChunkIDs, Evict(id)
      PROVE  chunks'[id] = Nil /\ stored'[id] \subseteq World(id)
  <2>1. /\ job[id].stage = "evict" /\ chunks' = [chunks EXCEPT ![id] = Nil]
        /\ stored' = stored
    BY <1>3 DEF Evict
  <2>2. chunks[id] = job[id].state /\ chunks[id] # Nil /\ chunks \in [ChunkIDs -> Objects \cup {Nil}]
    BY <1>3, <2>1, AtWorker DEF EntryInv, TypeOK
  <2>3. stored[id] \subseteq rows[chunks[id]]
    BY <1>3, <2>1, <2>2 DEF SavedIsPart
  <2>4. QED
    BY <2>1, <2>2, <2>3 DEF World
<1>4. EntryInv /\ SavedIsPart /\ [Next]_vars =>
        [\A id \in ChunkIDs : Evict(id) => World(id)' \subseteq World(id)]_vars
  BY <1>3 DEF World
<1>5. QED
  BY <1>1, <1>2, <1>4, EntryInvariance, PTL DEF Spec, DeadStayDead

-----------------------------------------------------------------------------
(* QuietSpawnsCount.                                                         *)

\* What a step of one goroutine does to the calls, as far as QuietHandles goes.
LEMMA QuietOneCall ==
  ASSUME EntryInv, QuietHandles, NEW g \in Goroutines, NEW c,
         call' = [call EXCEPT ![g] = c],
         UNCHANGED <<chunks, phase>>,
         c.quiet => phase = "idle" /\ (c.pc = "add" => chunks[c.id] = c.handle)
  PROVE  QuietHandles'
BY DEF QuietHandles, EntryInv, TypeOK

\* A handle got between two ticks stays that of the registered chunk until the next.
LEMMA QuietHandlesStep ==
  ASSUME EntryInv, QuietHandles, [Next]_vars
  PROVE  QuietHandles'
<1>1. ASSUME NEW p \in Players, NEW id \in ChunkIDs, Peek(p, id)
      PROVE  QuietHandles'
  <2> DEFINE c == [NoCall EXCEPT !.id = id, !.handle = chunks[id],
                     !.pc = IF chunks[id] # Nil THEN "snapshot" ELSE "peekload"]
  <2>1. c.quiet = FALSE
    BY DEF NoCall
  <2>2. QED
    BY <1>1, <2>1, QuietOneCall DEF Peek, Goroutines, registryVars, tickVars
<1>2. ASSUME NEW p \in Players, Peeked(p)
      PROVE  QuietHandles'
  <2>1. PICK r : call' = [call EXCEPT ![p] =
                IF r = {} THEN NoCall ELSE [NoCall EXCEPT !.pc = "lookup", !.id = call[p].id]]
    BY <1>2 DEF Peeked
  <2> DEFINE c == IF r = {} THEN NoCall ELSE [NoCall EXCEPT !.pc = "lookup", !.id = call[p].id]
  <2>2. c.quiet = FALSE
    BY DEF NoCall
  <2>3. QED
    BY <1>2, <2>1, <2>2, QuietOneCall DEF Peeked, Goroutines, registryVars, tickVars
<1>3. ASSUME NEW g \in Goroutines, NEW id \in ChunkIDs, NEW cell \in Cells \cup {Nil},
             Begin(g, id, cell), UNCHANGED <<chunks, phase>>
      PROVE  QuietHandles'
  <2> DEFINE c == [NoCall EXCEPT !.pc = "lookup", !.id = id, !.cell = cell,
                                 !.quiet = (phase = "idle")]
  <2>1. c.pc = "lookup" /\ c.quiet = (phase = "idle")
    BY DEF NoCall
  <2>2. QED
    BY <1>3, <2>1, QuietOneCall DEF Begin
<1>4. ASSUME NEW g \in Goroutines, Lookup(g)
      PROVE  QuietHandles'
  <2>1. call[g] \in CallRecords
    BY DEF EntryInv, TypeOK
  <2> DEFINE o == chunks[call[g].id]
             c == IF o # Nil
                    THEN IF call[g].cell = Nil THEN NoCall
                         ELSE [call[g] EXCEPT !.pc = "add", !.handle = o]
                    ELSE [call[g] EXCEPT !.pc = "load"]
  <2>2. c.quiet => call[g].quiet /\ (c.pc = "add" => c.handle = chunks[c.id])
    BY <2>1 DEF NoCall, CallRecords
  <2>3. call' = [call EXCEPT ![g] = c]
    BY <1>4 DEF Lookup, Return
  <2>4. QED
    BY <1>4, <2>2, <2>3, QuietOneCall DEF Lookup, QuietHandles, registryVars, tickVars
<1>5. ASSUME NEW g \in Goroutines, Load(g)
      PROVE  QuietHandles'
  <2>1. PICK r : call' = [call EXCEPT ![g].pc = "insert", ![g].loaded = r]
    BY <1>5 DEF Load
  <2> DEFINE c == [call[g] EXCEPT !.pc = "insert", !.loaded = r]
  <2>2. call[g] \in CallRecords
    BY DEF EntryInv, TypeOK
  <2>3. c.quiet = call[g].quiet /\ c.pc = "insert"
    BY <2>2 DEF CallRecords
  <2>4. call' = [call EXCEPT ![g] = c]
    BY <2>1 DEF EntryInv, TypeOK
  <2>5. QED
    BY <1>5, <2>3, <2>4, QuietOneCall DEF Load, QuietHandles, registryVars, tickVars
<1>6. ASSUME NEW g \in Goroutines, Insert(g)
      PROVE  QuietHandles'
  <2>1. call[g] \in CallRecords /\ call[g].id \in ChunkIDs
    BY <1>6 DEF Insert, EntryInv, TypeOK, CallsSound, CallSound
  <2> DEFINE Returned(o) == IF call[g].cell = Nil THEN NoCall
                            ELSE [call[g] EXCEPT !.pc = "add", !.handle = o]
  <2>2. ASSUME NEW o
        PROVE  Returned(o).quiet =>
                 call[g].quiet /\ Returned(o).handle = o /\ Returned(o).id = call[g].id
    BY <2>1 DEF NoCall, CallRecords
  <2>3. CASE chunks[call[g].id] # Nil
    <3>1. call' = [call EXCEPT ![g] = Returned(chunks[call[g].id])]
          /\ UNCHANGED <<chunks, phase>>
      BY <1>6, <2>3 DEF Insert, Return, registryVars, tickVars
    <3> HIDE DEF Returned
    <3>2. QED
      BY <2>2, <3>1, QuietOneCall DEF QuietHandles
  <2>4. ASSUME chunks[call[g].id] = Nil, NEW o \in Unused, AddEntry(g, o), UNCHANGED phase
        PROVE  QuietHandles'
    <3>1. /\ call' = [call EXCEPT ![g] = Returned(o)]
          /\ chunks' = [chunks EXCEPT ![call[g].id] = o]
      BY <2>4 DEF AddEntry, Return
    <3> HIDE DEF Returned
    <3> SUFFICES ASSUME NEW h \in Goroutines, call'[h].quiet
                 PROVE  /\ phase' = "idle"
                        /\ call'[h].pc = "add" => chunks'[call'[h].id] = call'[h].handle
      BY DEF QuietHandles
    <3>2. CASE h = g
      BY <2>1, <2>2, <2>4, <3>1, <3>2 DEF QuietHandles, EntryInv, TypeOK
    <3>3. CASE h # g
      <4>1. call'[h] = call[h] /\ phase = "idle"
        BY <3>1, <3>3 DEF EntryInv, TypeOK, QuietHandles
      <4>2. ASSUME call[h].pc = "add"
            PROVE  call[h].id # call[g].id /\ chunks[call[h].id] = call[h].handle
        <5>1. call[h].handle \in Objects /\ chunks[call[h].id] = call[h].handle
          BY <4>1, <4>2 DEF EntryInv, CallsSound, CallSound, QuietHandles
        <5>2. QED
          BY <2>4, <5>1
      <4>3. QED
        BY <2>1, <2>4, <3>1, <4>1, <4>2 DEF EntryInv, TypeOK, CallsSound, CallSound
    <3>4. QED
      BY <3>2, <3>3
  <2>5. QED
    BY <1>6, <2>3, <2>4 DEF Insert, tickVars
<1>7. ASSUME NEW p \in Players, AddCell(p)
      PROVE  QuietHandles'
  <2>1. NoCall.quiet = FALSE
    BY DEF NoCall
  <2>2. QED
    BY <1>7, <2>1, QuietOneCall DEF AddCell, Goroutines, tickVars
<1>8. ASSUME TickStart
      PROVE  QuietHandles'
  <2>1. ASSUME NEW g \in Goroutines
        PROVE  ~call'[g].quiet
    BY <1>8 DEF TickStart, EntryInv, TypeOK, CallRecords
  <2>2. QED
    BY <2>1 DEF QuietHandles
<1>9. ASSUME NEW id \in ChunkIDs, Wake(id)
      PROVE  QuietHandles'
  BY <1>3, <1>9 DEF Wake, Goroutines, registryVars
<1>10. ASSUME UNCHANGED <<chunks, call, phase>>
       PROVE  QuietHandles'
  BY <1>10 DEF QuietHandles
<1>11. ASSUME phase # "idle", UNCHANGED call
       PROVE  QuietHandles'
  BY <1>11 DEF QuietHandles
<1>12. ASSUME NEW id \in ChunkIDs, Worker(id)
       PROVE  QuietHandles'
  BY <1>11, <1>12, AtWorker
  DEF Worker, TickChunk, CheckEmpty, CheckSubscribers, Persist, Evict, registryVars
<1>13. CASE Restart
  BY <1>13 DEF Restart, QuietHandles, NoCall
<1>14. ASSUME TickLoop
       PROVE  QuietHandles'
  BY <1>8, <1>9, <1>11, <1>14
  DEF TickLoop, SnapshotChunk, SnapshotDone, RereadStart, RereadChunk, FanOut, TickEnd
<1>15. QED
  BY <1>1, <1>2, <1>3, <1>4, <1>5, <1>6, <1>7, <1>10, <1>12, <1>13, <1>14
  DEF Next, Caller, Player, Spawn, ToggleWatch, vars, registryVars, tickVars, Goroutines

\* No step before the next generation loses a cell that was acknowledged quietly.
LEMMA QuietSpawnsStep ==
  ASSUME EntryInv, QuietHandles, QuietSpawnsCount, [Next]_vars
  PROVE  QuietSpawnsCount'
<1>1. ASSUME UNCHANGED <<settled, phase, unread, rowsByID>>,
             \A id \in Registered : /\ chunks'[id] = chunks[id]
                                    /\ rows[chunks[id]] \subseteq rows'[chunks[id]]
      PROVE  QuietSpawnsCount'
  BY <1>1 DEF QuietSpawnsCount, Registered
<1>2. ASSUME UNCHANGED <<settled, rowsByID>>,
             phase \notin {"idle", "snapshot"}, phase' \notin {"idle", "snapshot"}
      PROVE  QuietSpawnsCount'
  BY <1>2 DEF QuietSpawnsCount
<1>3. ASSUME settled' = {}
      PROVE  QuietSpawnsCount'
  BY <1>3 DEF QuietSpawnsCount
<1>4. ASSUME NEW g \in Goroutines, Insert(g)
      PROVE  QuietSpawnsCount'
  <2>1. CASE UNCHANGED <<registryVars, phase, unread, rowsByID, job, toWake, settled>>
    BY <1>1, <2>1 DEF registryVars
  <2>2. ASSUME NEW id \in ChunkIDs, NEW o \in Unused, Adds(id, o)
        PROVE  QuietSpawnsCount'
    BY <1>1, <2>2 DEF Adds, Registered, Unused, EntryInv, TypeOK
  <2>3. QED
    BY <1>4, <2>1, <2>2, InsertAdds
<1>5. ASSUME NEW p \in Players, AddCell(p)
      PROVE  QuietSpawnsCount'
  <2> DEFINE c == call[p]
  <2>1. /\ c.pc = "add" /\ c.handle \in Objects /\ c.cell \in Cells /\ c.id \in ChunkIDs
        /\ p \in Goroutines
    BY <1>5 DEF AddCell, EntryInv, CallsSound, CallSound, Goroutines
  <2>2. /\ \A o \in Objects : rows[o] \subseteq rows'[o]
        /\ c.cell \in rows'[c.handle]
        /\ UNCHANGED <<chunks, phase, unread, rowsByID>>
    BY <1>5, <2>1 DEF AddCell, EntryInv, TypeOK, tickVars
  <2>3. CASE settled' = settled
    BY <1>1, <2>2, <2>3 DEF Registered, EntryInv, TypeOK
  <2>4. CASE c.quiet /\ settled' = settled \cup {<<c.id, c.cell>>}
    <3>1. phase = "idle" /\ chunks[c.id] = c.handle
      BY <2>1, <2>4 DEF QuietHandles
    <3>2. SUFFICES ASSUME NEW id \in ChunkIDs, NEW cell \in Cells, <<id, cell>> \in settled'
                   PROVE  chunks'[id] # Nil /\ cell \in rows'[chunks'[id]]
      BY <2>2, <3>1 DEF QuietSpawnsCount
    <3>3. CASE <<id, cell>> \in settled
      BY <2>2, <3>1, <3>3 DEF QuietSpawnsCount, EntryInv, TypeOK
    <3>4. CASE id = c.id /\ cell = c.cell
      BY <2>1, <2>2, <3>1, <3>4
    <3>5. QED
      BY <2>4, <3>2, <3>3, <3>4
  <2>5. QED
    BY <1>5, <2>3, <2>4 DEF AddCell
<1>6. ASSUME TickStart
      PROVE  QuietSpawnsCount'
  BY <1>6 DEF TickStart, QuietSpawnsCount, Registered, registryVars
<1>7. ASSUME NEW i \in ChunkIDs, SnapshotChunk(i)
      PROVE  QuietSpawnsCount'
  <2>1. rows[chunks[i]] # Nil
    BY <1>7 DEF SnapshotChunk, EntryInv, TypeOK, LoopsOverEntries, RLocked, Registered
  <2>2. QED
    BY <1>7, <2>1 DEF SnapshotChunk, QuietSpawnsCount, EntryInv, TypeOK, registryVars
<1>8. ASSUME SnapshotDone
      PROVE  QuietSpawnsCount'
  BY <1>8 DEF SnapshotDone, QuietSpawnsCount
<1>9. ASSUME TickLoop
      PROVE  QuietSpawnsCount'
  BY <1>2, <1>3, <1>6, <1>7, <1>8, <1>9
  DEF TickLoop, Wake, RereadStart, RereadChunk, FanOut, TickEnd
<1>10. ASSUME NEW id \in ChunkIDs, Worker(id)
       PROVE  QuietSpawnsCount'
  BY <1>2, <1>10, AtWorker
  DEF Worker, TickChunk, CheckEmpty, CheckSubscribers, Persist, Evict
<1>11. ASSUME UNCHANGED <<registryVars, settled, phase, unread, rowsByID>>
       PROVE  QuietSpawnsCount'
  BY <1>1, <1>11 DEF registryVars
<1>12. QED
  BY <1>3, <1>4, <1>5, <1>9, <1>10, <1>11
  DEF Next, Caller, Player, Peek, Spawn, Peeked, Lookup, Load, ToggleWatch, Restart,
      vars, tickVars

\* A spawn that begins and is acknowledged between two ticks is in the rows the
\* next generation is computed from, whatever other players and GetOrCreate do.
THEOREM QuietSpawnsAreCounted == Spec => []QuietSpawnsCount
<1>1. Init => QuietInv
  BY DEF Init, QuietInv, QuietHandles, QuietSpawnsCount, NoCall
<1>2. EntryInv /\ QuietInv /\ [Next]_vars => QuietInv'
  BY QuietHandlesStep, QuietSpawnsStep DEF QuietInv
<1>3. QuietInv => QuietSpawnsCount
  BY DEF QuietInv
<1>4. QED
  BY <1>1, <1>2, <1>3, EntryInvariance, PTL DEF Spec

-----------------------------------------------------------------------------
(* TickCoversWorld.                                                          *)

\* Steps of GetOrCreate: entries may appear, and the tick loop's own call goes on,
\* or has returned with the entry there.
LEMMA CoverCalls ==
  ASSUME CoverInv,
         UNCHANGED <<phase, unread, rowsByID, toWake, job>>,
         \A n \in ChunkIDs : chunks[n] # Nil => chunks'[n] # Nil,
         phase = "reread" => chunks' = chunks,
         \/ call'[Ticker].pc # "idle" /\ call'[Ticker].id = call[Ticker].id
         \/ call[Ticker].pc = "idle"
         \/ \A n \in ChunkIDs : n = call[Ticker].id => chunks'[n] # Nil
  PROVE  CoverInv'
BY DEF CoverInv, TickCoversWorld, HaloSources

\* GetOrCreate's write-locked half leaves its position registered.
LEMMA CoverInsert ==
  ASSUME EntryInv, CoverInv, NEW g \in Goroutines, Insert(g)
  PROVE  CoverInv'
<1> DEFINE id == call[g].id
<1>1. /\ id \in ChunkIDs /\ call[g] \in CallRecords
      /\ UNCHANGED <<phase, unread, rowsByID, toWake, job>>
      /\ phase # "reread"
  BY DEF Insert, EntryInv, TypeOK, CallsSound, CallSound, tickVars, RLocked
<1>2. chunks'[id] # Nil /\ \A n \in ChunkIDs : chunks[n] # Nil => chunks'[n] # Nil
  BY <1>1 DEF Insert, AddEntry, Unused, EntryInv, TypeOK, registryVars
<1>3. g # Ticker => call'[Ticker] = call[Ticker]
  BY DEF Insert, AddEntry, Return, EntryInv, TypeOK, Goroutines
<1>4. QED
  BY <1>1, <1>2, <1>3, CoverCalls

\* TickAll forgets no neighbour between its two loops.
LEMMA CoverTickLoop ==
  ASSUME EntryInv, CoverInv, TickLoop
  PROVE  CoverInv'
<1>1. CASE TickStart
  BY <1>1 DEF TickStart, CoverInv, TickCoversWorld
<1>2. ASSUME NEW id \in ChunkIDs, SnapshotChunk(id)
      PROVE  CoverInv'
  BY <1>2 DEF SnapshotChunk, CoverInv, TickCoversWorld, EntryInv, TypeOK, LoopsOverEntries,
              RLocked, Registered, registryVars
<1>3. CASE SnapshotDone
  BY <1>3 DEF SnapshotDone, CoverInv, TickCoversWorld, HaloSources, registryVars
<1>4. ASSUME NEW n \in ChunkIDs, Wake(n)
      PROVE  CoverInv'
  <2>1. call[Ticker].pc = "idle"
    BY <1>4 DEF Wake, Begin, NoCall
  <2>2. call'[Ticker].pc = "lookup" /\ call'[Ticker].id = n
    BY <1>4 DEF Wake, Begin, NoCall, EntryInv, TypeOK, Goroutines
  <2>3. QED
    BY <1>4, <2>1, <2>2 DEF Wake, CoverInv, TickCoversWorld, HaloSources, registryVars
<1>5. CASE RereadStart
  <2>1. call[Ticker].pc = "idle"
    BY <1>5 DEF RereadStart, NoCall
  <2>2. QED
    BY <1>5, <2>1
    DEF RereadStart, CoverInv, TickCoversWorld, HaloSources, Registered, registryVars
<1>6. ASSUME NEW id \in ChunkIDs, RereadChunk(id)
      PROVE  CoverInv'
  BY <1>6 DEF RereadChunk, CoverInv, TickCoversWorld, HaloSources, EntryInv, TypeOK, registryVars
<1>7. CASE FanOut
  BY <1>7 DEF FanOut, CoverInv, TickCoversWorld, HaloSources, registryVars
<1>8. CASE TickEnd
  BY <1>8 DEF TickEnd, CoverInv, TickCoversWorld
<1>9. QED
  BY <1>1, <1>2, <1>3, <1>4, <1>5, <1>6, <1>7, <1>8 DEF TickLoop

\* CoverInv is preserved by every step.
LEMMA CoverStep ==
  ASSUME EntryInv, CoverInv, [Next]_vars
  PROVE  CoverInv'
<1>1. ASSUME NEW p \in Players,
             \/ Player(p)
             \/ \E id \in ChunkIDs : Peek(p, id) \/ \E c \in Cells : Spawn(p, id, c)
      PROVE  CoverInv'
  <2>1. call'[Ticker] = call[Ticker]
    BY <1>1 DEF Player, Peeked, AddCell, Peek, Spawn, Begin, EntryInv, TypeOK, Goroutines
  <2>2. UNCHANGED <<chunks, phase, unread, rowsByID, toWake, job>>
    BY <1>1 DEF Player, Peeked, AddCell, Peek, Spawn, registryVars, tickVars
  <2>3. QED
    BY <2>1, <2>2, CoverCalls
<1>2. ASSUME NEW g \in Goroutines, Lookup(g)
      PROVE  CoverInv'
  <2>1. UNCHANGED <<chunks, phase, unread, rowsByID, toWake, job>>
    BY <1>2 DEF Lookup, registryVars, tickVars
  <2>2. call[g] \in CallRecords /\ call[g].id \in ChunkIDs
    BY <1>2 DEF Lookup, EntryInv, TypeOK, CallsSound, CallSound
  <2>3. CASE chunks[call[g].id] # Nil
    <3>1. g # Ticker => call'[Ticker] = call[Ticker]
      BY <1>2 DEF Lookup, Return, EntryInv, TypeOK, Goroutines
    <3>2. QED
      BY <2>1, <2>3, <3>1, CoverCalls
  <2>4. CASE chunks[call[g].id] = Nil
    <3>1. call' = [call EXCEPT ![g] = [call[g] EXCEPT !.pc = "load"]]
      BY <1>2, <2>4 DEF Lookup, EntryInv, TypeOK
    <3>2. call'[Ticker] = call[Ticker]
            \/ (call'[Ticker].pc # "idle" /\ call'[Ticker].id = call[Ticker].id)
      BY <2>2, <3>1 DEF EntryInv, TypeOK, CallRecords, Goroutines
    <3>3. QED
      BY <2>1, <3>2, CoverCalls
  <2>5. QED
    BY <2>3, <2>4
<1>3. ASSUME NEW g \in Goroutines, Load(g)
      PROVE  CoverInv'
  <2>1. UNCHANGED <<chunks, phase, unread, rowsByID, toWake, job>>
    BY <1>3 DEF Load, registryVars, tickVars
  <2>2. PICK r : call' = [call EXCEPT ![g].pc = "insert", ![g].loaded = r]
    BY <1>3 DEF Load
  <2>3. call'[Ticker] = call[Ticker]
          \/ (call'[Ticker].pc # "idle" /\ call'[Ticker].id = call[Ticker].id)
    BY <2>2 DEF EntryInv, TypeOK, CallRecords, Goroutines
  <2>4. QED
    BY <2>1, <2>3, CoverCalls
<1>4. ASSUME NEW id \in ChunkIDs, Worker(id)
      PROVE  CoverInv'
  <2>1. phase = "run" /\ UNCHANGED <<phase, rowsByID>>
    BY <1>4, AtWorker
    DEF Worker, TickChunk, CheckEmpty, CheckSubscribers, Persist, Evict
  <2>2. PICK s \in (Busy \cup {"done"}) : job' = [job EXCEPT ![id].stage = s]
    BY <1>4 DEF Worker, TickChunk, CheckEmpty, CheckSubscribers, Persist, Evict, To, Busy
  <2>3. \A n \in ChunkIDs : job[n].stage # "none" => job'[n].stage # "none"
    BY <2>2 DEF EntryInv, TypeOK, JobRecords, Busy
  <2>4. QED
    BY <2>1, <2>3 DEF CoverInv, TickCoversWorld, HaloSources
<1>5. CASE Restart
  BY <1>5 DEF Restart, CoverInv, TickCoversWorld
<1>6. ASSUME UNCHANGED <<chunks, call, tickVars>>
      PROVE  CoverInv'
  BY <1>6, CoverCalls DEF tickVars
<1>7. QED
  BY <1>1, <1>2, <1>3, <1>4, <1>5, <1>6, CoverInsert, CoverTickLoop
  DEF Next, Caller, ToggleWatch, vars, registryVars

\* When TickAll fans out, every chunk it read and every neighbour that a chunk it
\* read can spill into has a job, whatever was created or evicted meanwhile.
THEOREM TickCoversTheWorld == Spec => []TickCoversWorld
<1>1. Init => CoverInv
  BY DEF Init, CoverInv, TickCoversWorld
<1>2. CoverInv => TickCoversWorld
  BY DEF CoverInv
<1>3. QED
  BY <1>1, <1>2, EntryInvariance, CoverStep, PTL DEF Spec
=============================================================================
