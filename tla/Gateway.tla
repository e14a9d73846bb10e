------------------------------ MODULE Gateway -------------------------------
(***************************************************************************)
(* Connections, command handlers and broadcasts: the read loop and the     *)
(* write lock of gateway/websocket.go, Route of gateway/router.go, the     *)
(* subscriptions of gateway/pubsub.go, and the worker that calls Broadcast *)
(* and HasSubscribers (simulation/registry.go).                            *)
(*                                                                         *)
(* A chunk is reduced to whether it has cells: which cells, how Redis      *)
(* commands and evictions interleave and how tokens are counted is the     *)
(* subject of Registry, ChunkedLife and RateLimiter.  ChunkIDs are         *)
(* positions no two of which are neighbours.                               *)
(*                                                                         *)
(* A message with the state of a chunk is fresh while the chunk has not    *)
(* been ticked since the state was read.                                   *)
(***************************************************************************)
EXTENDS Naturals, Sequences, FiniteSets

CONSTANTS
  Clients,    \* connections: a browser that reconnects is another client
  Readers,    \* the clients whose browser never stops reading its socket
  ChunkIDs,
  CommandsOf, \* the commands that each client sends: type, valid, chunks
  NumWorkers,
  Buffer,     \* how many messages fit into a socket that is not read
  MaxInbox,   \* bound: commands on their way to the server, per client
  Nil

Placements == {"SPAWN", "PLACE_SHAPE", "PLACE_CUSTOM"}
Types == Placements \cup {"SUBSCRIBE", "UNSUBSCRIBE", "PING"}
Commands == UNION {CommandsOf[c] : c \in Clients}

\* For a placement, chunks lists the chunk of each of the piece's cells.  A command
\* that is not valid does not parse, or names an unknown type or shape, or has
\* cells that ValidateCustomCells refuses.
ASSUME GatewayAssumption ==
  /\ Readers \subseteq Clients
  /\ Commands \subseteq [type : Types, valid : BOOLEAN, chunks : Seq(ChunkIDs)]
  /\ \A k \in Commands : k.type \in Placements \/ ~k.valid => k.chunks # <<>>
  /\ NumWorkers \in Nat \ {0}
  /\ Buffer \in Nat \ {0}
  /\ MaxInbox \in Nat
  /\ Nil \notin Clients

VARIABLES
  open,        \* clients whose connection is up
  inbox,       \* per client, the commands sent and not read
  wire,        \* per client, the messages written and not received
  handler,     \* per client, its read loop and the command it is serving
  subscribers, \* PubSub.subscribers
  chunk,       \* per position: is it registered, has it cells, has Redis cells of it
  ticking,     \* whether TickAll is waiting for its jobs
  job,         \* per position, the tickJob and its broadcast
  told,        \* the last state of a chunk written to a client since it subscribed
  due          \* history: viewers of a chunk since it was ticked that it was not sent to

vars == <<open, inbox, wire, handler, subscribers, chunk, ticking, job, told, due>>

Unseen  == [cells |-> FALSE, fresh |-> FALSE]
Reading == [pc |-> "reading", cmd |-> Nil, todo |-> <<>>, charged |-> 0,
            ok |-> FALSE, peeked |-> Unseen]
NoJob   == [stage |-> "none", todo |-> {}, to |-> Nil, cells |-> FALSE]

AnswerTo(k, ok) == [to |-> k, ok |-> ok]
StateOf(id) == [chunk |-> id]

Init ==
  /\ open = Clients
  /\ inbox = [c \in Clients |-> <<>>]
  /\ wire = [c \in Clients |-> <<>>]
  /\ handler = [c \in Clients |-> Reading]
  /\ subscribers = [id \in ChunkIDs |-> {}]
  /\ \E s \in [ChunkIDs -> BOOLEAN] :
       chunk = [id \in ChunkIDs |-> [registered |-> FALSE, cells |-> FALSE, stored |-> s[id]]]
  /\ ticking = FALSE
  /\ job = [id \in ChunkIDs |-> NoJob]
  /\ told = [c \in Clients |-> [id \in ChunkIDs |-> Unseen]]
  /\ due = [id \in ChunkIDs |-> {}]

-----------------------------------------------------------------------------
(* WriteJSON, under the client's lock.  A write waits for room in the      *)
(* socket of a client who is connected, without a deadline; to one who has *)
(* gone it fails at once.                                                  *)

CanWrite(c) == c \in open => Len(wire[c]) < Buffer
WriteJSON(c, m) ==
  /\ CanWrite(c)
  /\ wire' = IF c \in open THEN [wire EXCEPT ![c] = Append(@, m)] ELSE wire

\* GetOrCreate, for a chunk that may be in Redis.
Hydrated(id) ==
  IF chunk[id].registered THEN chunk[id]
  ELSE [chunk[id] EXCEPT !.registered = TRUE, !.cells = chunk[id].stored]

-----------------------------------------------------------------------------
(* The browser's end of a connection.                                      *)

Send(c, k) ==
  /\ c \in open
  /\ Len(inbox[c]) < MaxInbox
  /\ inbox' = [inbox EXCEPT ![c] = Append(@, k)]
  /\ UNCHANGED <<open, wire, handler, subscribers, chunk, ticking, job, told, due>>

Receive(c) ==
  /\ wire[c] # <<>>
  /\ wire' = [wire EXCEPT ![c] = Tail(@)]
  /\ UNCHANGED <<open, inbox, handler, subscribers, chunk, ticking, job, told, due>>

\* The last commands may be lost with the connection; the others will be read.
Disconnect(c) ==
  /\ c \in open
  /\ open' = open \ {c}
  /\ wire' = [wire EXCEPT ![c] = <<>>]
  /\ \E n \in 0..Len(inbox[c]) : inbox' = [inbox EXCEPT ![c] = SubSeq(@, 1, n)]
  /\ UNCHANGED <<handler, subscribers, chunk, ticking, job, told, due>>

-----------------------------------------------------------------------------
(* HandleWebSocket and Route.                                              *)

\* SPAWN is charged before its payload is looked at.
Dispatched(k) ==
  LET h == [Reading EXCEPT !.cmd = k, !.todo = k.chunks]
  IN  CASE k.type = "SPAWN" \/ (k.type \in Placements /\ k.valid) -> [h EXCEPT !.pc = "charging"]
        [] k.type # "SPAWN" /\ ~k.valid -> [h EXCEPT !.pc = "answering"]
        [] k.type = "SUBSCRIBE" /\ k.valid /\ k.chunks # <<>> -> [h EXCEPT !.pc = "subscribing"]
        [] k.type = "UNSUBSCRIBE" /\ k.valid /\ k.chunks # <<>> -> [h EXCEPT !.pc = "unsubscribing"]
        [] OTHER -> Reading

ReadMessage(c) ==
  /\ handler[c].pc = "reading"
  /\ inbox[c] # <<>>
  /\ inbox' = [inbox EXCEPT ![c] = Tail(@)]
  /\ handler' = [handler EXCEPT ![c] = Dispatched(Head(inbox[c]))]
  /\ UNCHANGED <<open, wire, subscribers, chunk, ticking, job, told, due>>

\* Mutant: the read loop ends without cleaning up.
LeaveSubscribed(c) ==
  /\ handler[c].pc = "reading"
  /\ c \notin open
  /\ inbox[c] = <<>>
  /\ handler' = [handler EXCEPT ![c].pc = "left"]
  /\ UNCHANGED <<open, inbox, wire, subscribers, chunk, ticking, job, told, due>>

\* ReadMessage fails: the loop ends, and the deferred UnsubscribeAll runs.
Leave(c) ==
  /\ handler[c].pc = "reading"
  /\ c \notin open
  /\ inbox[c] = <<>>
  /\ handler' = [handler EXCEPT ![c].pc = "left"]
  /\ subscribers' = [id \in ChunkIDs |-> subscribers[id] \ {c}]
  /\ due' = [id \in ChunkIDs |-> due[id] \ {c}]
  /\ told' = [told EXCEPT ![c] = [id \in ChunkIDs |-> Unseen]]
  /\ UNCHANGED <<open, inbox, wire, chunk, ticking, job>>

\* checkRateLimit and chargeN take a token per cell; the first refusal ends the
\* command, and the tokens taken are gone.
Charge(c) ==
  LET h == handler[c]
      refused == [h EXCEPT !.pc = "answering", !.charged = 0]
      paid == h.charged + 1 = Len(h.todo)
  IN  /\ h.pc = "charging"
      /\ h.cmd.type # "PLACE_CUSTOM"
      /\ handler' \in {[handler EXCEPT ![c] = n] :
           n \in {refused, IF ~paid THEN [h EXCEPT !.charged = @ + 1]
                           ELSE IF h.cmd.valid THEN [h EXCEPT !.pc = "placing", !.charged = 0]
                           ELSE refused}}
      /\ UNCHANGED <<open, inbox, wire, subscribers, chunk, ticking, job, told, due>>

\* DrainN, once for the whole piece.
Drain(c) ==
  /\ handler[c].pc = "charging"
  /\ handler[c].cmd.type = "PLACE_CUSTOM"
  /\ \/ handler' = [handler EXCEPT ![c].pc = "placing"]
     \/ handler' = [handler EXCEPT ![c].pc = "answering"]
  /\ UNCHANGED <<open, inbox, wire, subscribers, chunk, ticking, job, told, due>>

\* Mutant: the loop stops at a cancelled context.
PlaceWhileOpen(c) ==
  /\ handler[c].pc = "placing"
  /\ LET id == Head(handler[c].todo)
         rest == Tail(handler[c].todo)
     IN  /\ chunk' = [chunk EXCEPT ![id] = [Hydrated(id) EXCEPT !.cells = TRUE]]
         /\ handler' = [handler EXCEPT ![c].todo = rest, ![c].ok = (rest = <<>>),
                          ![c].pc = IF rest = <<>> \/ c \notin open THEN "answering" ELSE "placing"]
  /\ UNCHANGED <<open, inbox, wire, subscribers, ticking, job, told, due>>

\* spawnWorldCell, for the next cell of the piece.  ProcessSpawn ignores its context:
\* a client's going does not stop the loop.
PlaceCell(c) ==
  /\ handler[c].pc = "placing"
  /\ LET id == Head(handler[c].todo)
         rest == Tail(handler[c].todo)
     IN  /\ chunk' = [chunk EXCEPT ![id] = [Hydrated(id) EXCEPT !.cells = TRUE]]
         /\ handler' = [handler EXCEPT ![c].todo = rest, ![c].ok = (rest = <<>>),
                          ![c].pc = IF rest = <<>> THEN "answering" ELSE "placing"]
  /\ UNCHANGED <<open, inbox, wire, subscribers, ticking, job, told, due>>

\* The acknowledgement, or sendError.
Answer(c) ==
  /\ handler[c].pc = "answering"
  /\ WriteJSON(c, AnswerTo(handler[c].cmd, handler[c].ok))
  /\ handler' = [handler EXCEPT ![c] = Reading]
  /\ UNCHANGED <<open, inbox, subscribers, chunk, ticking, job, told, due>>

\* Mutant: the loop takes one step too many.
ContinuedTooFar(h, pc) == [h EXCEPT !.todo = Tail(@), !.pc = pc, !.peeked = Unseen]

\* The loop over the chunks of SUBSCRIBE or UNSUBSCRIBE goes on, or the command is done.
Continued(h, pc) ==
  IF Tail(h.todo) = <<>> THEN Reading
  ELSE [h EXCEPT !.todo = Tail(@), !.pc = pc, !.peeked = Unseen]

\* Mutant: Broadcast holds the lock of PubSub while it writes.
SubscribeWaits(c) ==
  /\ \A id \in ChunkIDs : job[id].stage # "broadcast"
  /\ handler[c].pc = "subscribing"
  /\ subscribers' = [subscribers EXCEPT ![Head(handler[c].todo)] = @ \cup {c}]
  /\ told' = [told EXCEPT ![c][Head(handler[c].todo)] = Unseen]
  /\ handler' = [handler EXCEPT ![c].pc = "peeking"]
  /\ UNCHANGED <<open, inbox, wire, chunk, ticking, job, due>>

Subscribe(c) ==
  /\ handler[c].pc = "subscribing"
  /\ subscribers' = [subscribers EXCEPT ![Head(handler[c].todo)] = @ \cup {c}]
  /\ told' = [told EXCEPT ![c][Head(handler[c].todo)] = Unseen]
  /\ handler' = [handler EXCEPT ![c].pc = "peeking"]
  /\ UNCHANGED <<open, inbox, wire, chunk, ticking, job, due>>

PeekChunk(c) ==
  LET h == handler[c]
      state == chunk[Head(h.todo)]
      cells == IF state.registered THEN state.cells ELSE state.stored
  IN  /\ h.pc = "peeking"
      /\ handler' = [handler EXCEPT ![c] =
           IF cells THEN [h EXCEPT !.pc = "registering", !.peeked = [cells |-> TRUE, fresh |-> TRUE]]
           ELSE Continued(h, "subscribing")]
      /\ UNCHANGED <<open, inbox, wire, subscribers, chunk, ticking, job, told, due>>

\* Mutant: what is shown is not registered.
OnlyPeek(c) ==
  /\ handler[c].pc = "registering"
  /\ handler' = [handler EXCEPT ![c].pc = "showing"]
  /\ UNCHANGED <<open, inbox, wire, subscribers, chunk, ticking, job, told, due>>

GetOrCreate(c) ==
  /\ handler[c].pc = "registering"
  /\ LET id == Head(handler[c].todo) IN chunk' = [chunk EXCEPT ![id] = Hydrated(id)]
  /\ handler' = [handler EXCEPT ![c].pc = "showing"]
  /\ UNCHANGED <<open, inbox, wire, subscribers, ticking, job, told, due>>

\* The snapshot that PeekChunk took is written, whatever has been broadcast since.
Show(c) ==
  /\ handler[c].pc = "showing"
  /\ WriteJSON(c, StateOf(Head(handler[c].todo)))
  /\ told' = [told EXCEPT ![c][Head(handler[c].todo)] = handler[c].peeked]
  /\ handler' = [handler EXCEPT ![c] = Continued(handler[c], "subscribing")]
  /\ UNCHANGED <<open, inbox, subscribers, chunk, ticking, job, due>>

Unsubscribe(c) ==
  /\ handler[c].pc = "unsubscribing"
  /\ LET id == Head(handler[c].todo)
     IN  /\ subscribers' = [subscribers EXCEPT ![id] = @ \ {c}]
         /\ due' = [due EXCEPT ![id] = @ \ {c}]
         /\ told' = [told EXCEPT ![c][id] = Unseen]
  /\ handler' = [handler EXCEPT ![c] = Continued(handler[c], "unsubscribing")]
  /\ UNCHANGED <<open, inbox, wire, chunk, ticking, job>>

-----------------------------------------------------------------------------
(* The tick loop and the workers.                                          *)

TickStart ==
  /\ ~ticking
  /\ ticking' = TRUE
  /\ job' = [id \in ChunkIDs |-> IF chunk[id].registered THEN [NoJob EXCEPT !.stage = "queued"]
                                                        ELSE NoJob]
  /\ UNCHANGED <<open, inbox, wire, handler, subscribers, chunk, told, due>>

\* wg.Wait returns.
TickEnd ==
  /\ ticking
  /\ \A id \in ChunkIDs : job[id].stage = "none"
  /\ ticking' = FALSE
  /\ UNCHANGED <<open, inbox, wire, handler, subscribers, chunk, job, told, due>>

InWorker(id) == job[id].stage \notin {"none", "queued"}
WorkerFree == Cardinality({id \in ChunkIDs : InWorker(id)}) < NumWorkers

Stale(state, old) == IF old THEN [state EXCEPT !.fresh = FALSE] ELSE state

\* SetRows: what anybody has read of the chunk is old now.
TickChunk(id) ==
  /\ job[id].stage = "queued"
  /\ WorkerFree
  /\ job' = [job EXCEPT ![id].stage = "ticked"]
  /\ \E alive \in (IF chunk[id].cells THEN BOOLEAN ELSE {FALSE}) :
       chunk' = [chunk EXCEPT ![id].cells = alive]
  /\ told' = [c \in Clients |-> [told[c] EXCEPT ![id] = Stale(@, TRUE)]]
  /\ handler' = [c \in Clients |-> [handler[c] EXCEPT !.peeked =
                   Stale(@, handler[c].todo # <<>> /\ Head(handler[c].todo) = id)]]
  /\ due' = [due EXCEPT ![id] = subscribers[id]]
  /\ UNCHANGED <<open, inbox, wire, subscribers, ticking>>

\* The broadcast goes to one of the clients left in the copy, in any order.
SendNext(id, clients, cells) ==
  IF clients = {} THEN job' = [job EXCEPT ![id] = [NoJob EXCEPT !.stage = "counting"]]
  ELSE \E c \in clients : job' = [job EXCEPT ![id] =
         [stage |-> "broadcast", todo |-> clients, to |-> c, cells |-> cells]]

\* Mutant: there is nothing to send of a chunk without cells.
BroadcastCells(id) ==
  /\ job[id].stage = "ticked"
  /\ SendNext(id, IF chunk[id].cells THEN subscribers[id] ELSE {}, chunk[id].cells)
  /\ UNCHANGED <<open, inbox, wire, handler, subscribers, chunk, ticking, told, due>>

\* Snapshot, and Broadcast up to the copy of the subscriber set.
Broadcast(id) ==
  /\ job[id].stage = "ticked"
  /\ SendNext(id, subscribers[id], chunk[id].cells)
  /\ UNCHANGED <<open, inbox, wire, handler, subscribers, chunk, ticking, told, due>>

\* Mutant: the loop returns at the first error.
DeliverUntilError(id) ==
  LET c == job[id].to
  IN  /\ job[id].stage = "broadcast"
      /\ WriteJSON(c, StateOf(id))
      /\ told' = [told EXCEPT ![c][id] = [cells |-> job[id].cells, fresh |-> TRUE]]
      /\ due' = [due EXCEPT ![id] = @ \ {c}]
      /\ SendNext(id, IF c \in open THEN job[id].todo \ {c} ELSE {}, job[id].cells)
      /\ UNCHANGED <<open, inbox, handler, subscribers, chunk, ticking>>

\* Mutant: a write that fails is tried again.
DeliverAgain(id) ==
  LET c == job[id].to
  IN  /\ job[id].stage = "broadcast"
      /\ WriteJSON(c, StateOf(id))
      /\ told' = [told EXCEPT ![c][id] = [cells |-> job[id].cells, fresh |-> TRUE]]
      /\ due' = [due EXCEPT ![id] = @ \ {c}]
      /\ SendNext(id, IF c \in open THEN job[id].todo \ {c} ELSE {c}, job[id].cells)
      /\ UNCHANGED <<open, inbox, handler, subscribers, chunk, ticking>>

\* One write of Broadcast's loop; an error is logged and the loop goes on.
Deliver(id) ==
  LET c == job[id].to
  IN  /\ job[id].stage = "broadcast"
      /\ WriteJSON(c, StateOf(id))
      /\ told' = [told EXCEPT ![c][id] = [cells |-> job[id].cells, fresh |-> TRUE]]
      /\ due' = [due EXCEPT ![id] = @ \ {c}]
      /\ SendNext(id, job[id].todo \ {c}, job[id].cells)
      /\ UNCHANGED <<open, inbox, handler, subscribers, chunk, ticking>>

\* PopCount: only an empty chunk may hibernate.
PopCount(id) ==
  /\ job[id].stage = "counting"
  /\ job' = [job EXCEPT ![id] = IF chunk[id].cells THEN NoJob ELSE [@ EXCEPT !.stage = "empty"]]
  /\ UNCHANGED <<open, inbox, wire, handler, subscribers, chunk, ticking, told, due>>

\* HasSubscribers; that the chunk has been idle for long enough is a choice.
HasSubscribers(id) ==
  /\ job[id].stage = "empty"
  /\ job' \in {[job EXCEPT ![id] = j] :
       j \in {NoJob} \cup (IF subscribers[id] = {} THEN {[NoJob EXCEPT !.stage = "idle"]} ELSE {})}
  /\ UNCHANGED <<open, inbox, wire, handler, subscribers, chunk, ticking, told, due>>

\* Persist and evict.
Hibernate(id) ==
  /\ job[id].stage = "idle"
  /\ chunk' = [chunk EXCEPT ![id] = [registered |-> FALSE, cells |-> FALSE, stored |-> @.cells]]
  /\ job' = [job EXCEPT ![id] = NoJob]
  /\ UNCHANGED <<open, inbox, wire, handler, subscribers, ticking, told, due>>

-----------------------------------------------------------------------------
\* The steps of a handler that wait for nothing, and those that write.
Handle(c) ==
  \/ ReadMessage(c) \/ Leave(c)
  \/ Charge(c) \/ Drain(c) \/ PlaceCell(c)
  \/ Subscribe(c) \/ PeekChunk(c) \/ GetOrCreate(c) \/ Unsubscribe(c)
Write(c) == Answer(c) \/ Show(c)

Work(id) == TickChunk(id) \/ Broadcast(id) \/ PopCount(id) \/ HasSubscribers(id) \/ Hibernate(id)

Next ==
  \/ \E c \in Clients : \/ \E k \in CommandsOf[c] : Send(c, k)
                        \/ Receive(c)
                        \/ Disconnect(c)
                        \/ Handle(c)
                        \/ Write(c)
  \/ TickStart
  \/ TickEnd
  \/ \E id \in ChunkIDs : Work(id) \/ Deliver(id)

Spec == Init /\ [][Next]_vars

\* Goroutines are scheduled, the ticker fires, and of the goroutines that wait for a
\* client's write lock each gets it in the end (a Go mutex serves the one that has
\* waited for long first), provided there is room again and again.
Fairness ==
  /\ \A c \in Clients : WF_vars(Handle(c)) /\ SF_vars(Write(c))
  /\ \A c \in Readers : WF_vars(Receive(c))
  /\ WF_vars(TickStart) /\ WF_vars(TickEnd)
  /\ \A id \in ChunkIDs : WF_vars(Work(id)) /\ SF_vars(Deliver(id))

FairSpec == Spec /\ Fairness
-----------------------------------------------------------------------------
(* Properties.                                                             *)

Handling == {"charging", "placing", "answering"}
Serving  == {"subscribing", "peeking", "registering", "showing", "unsubscribing"}

HandlerOK(h) ==
  /\ h.pc \in {"reading", "left"} \cup Handling \cup Serving
  /\ h.pc \in Handling \cup Serving => h.cmd \in Commands
  /\ h.pc \in {"charging", "placing"} \cup Serving => h.todo # <<>>
  /\ h.todo \in Seq(ChunkIDs)
  /\ h.charged \in Nat
  /\ h.ok \in BOOLEAN
  /\ h.peeked \in [cells : BOOLEAN, fresh : BOOLEAN]

\* Every variable keeps its type, no socket holds more than fits into it, and a
\* goroutine that loops over a command's chunks has a chunk left to treat
\* (gateway/router.go, Route; gateway/websocket.go, WriteJSON).
TypeOK ==
  /\ open \subseteq Clients
  /\ inbox \in [Clients -> Seq(Commands)]
  /\ \A c \in Clients : Len(inbox[c]) <= MaxInbox /\ Len(wire[c]) <= Buffer
  /\ \A c \in Clients : HandlerOK(handler[c])
  /\ subscribers \in [ChunkIDs -> SUBSET Clients]
  /\ chunk \in [ChunkIDs -> [registered : BOOLEAN, cells : BOOLEAN, stored : BOOLEAN]]
  /\ ticking \in BOOLEAN
  /\ job \in [ChunkIDs -> [stage : {"none", "queued", "ticked", "broadcast", "counting",
                                    "empty", "idle"},
                           todo : SUBSET Clients, to : Clients \cup {Nil}, cells : BOOLEAN]]
  /\ told \in [Clients -> [ChunkIDs -> [cells : BOOLEAN, fresh : BOOLEAN]]]
  /\ due \in [ChunkIDs -> SUBSET Clients]

\* Every command that wants an answer gets one, none gets two, answers come in the
\* order of the commands, and they tell the truth about the whole piece, even if
\* the client disconnects at any point (gateway/router.go, Route).
Silent == {k \in Commands : k.valid /\ k.type \notin Placements}
AskedOf(h, q) == (IF h.pc \in Handling THEN <<h.cmd>> ELSE <<>>) \o q
PlacedOf(h) == IF h.pc \notin Handling \/ h.todo = h.cmd.chunks THEN "none"
               ELSE IF h.todo = <<>> THEN "all" ELSE "some"
Asked  == [c \in Clients |-> AskedOf(handler[c], inbox[c])]
Placed == [c \in Clients |-> PlacedOf(handler[c])]
Exchanged == INSTANCE Exchange WITH
  Notices <- {StateOf(id) : id \in ChunkIDs}, asked <- Asked, placed <- Placed, out <- wire
KeepsExchange == Exchanged!Spec

\* A client who has been subscribed to a chunk since it was ticked is sent the new
\* state before the worker goes on, whoever else has come, gone or failed meanwhile:
\* the copy of the subscriber set in Broadcast (gateway/pubsub.go) misses nobody.
NobodyIsSkipped ==
  \A id \in ChunkIDs : job[id].stage \in {"none", "counting", "empty", "idle"} => due[id] = {}

\* After its read loop has ended, no subscriber set holds a client, though commands
\* were still being served when the connection broke (UnsubscribeAll).
NoGhostSubscribers ==
  \A id \in ChunkIDs : \A c \in subscribers[id] : handler[c].pc # "left"

\* A chunk that a subscriber has been shown cells of is in the registry, so that it
\* is ticked: it is not "visible but permanently frozen" (gateway/router.go:145-148).
\* This is about chunks whose cells are only those that Redis has of them; cells that are
\* placed while the chunk hibernates are lost with it (README).
Mentions(k, id) == \E i \in 1..Len(k.chunks) : k.chunks[i] = id
Untouched == {id \in ChunkIDs :
  \A k \in Commands : k.type \in Placements /\ k.valid => ~Mentions(k, id)}
VisibleIsLive ==
  \A id \in Untouched : \A c \in open \cap subscribers[id] :
    told[c][id].cells => chunk[id].registered

\* A tick ends unless somebody is connected who does not read: nobody else who comes,
\* goes or is slow can hold it up, and one who goes lets it go on (TickAll waits for
\* every worker, and a worker for every write of Broadcast).
TickTerminates == ticking ~> (~ticking \/ open \ Readers # {})

\* The simulation "will never freeze" (PATCH_NOTES.md:27): a tick ends, whatever the
\* clients do.  Not so: Broadcast writes without a deadline (pubsub.go:100).
NeverFreezes == ticking ~> ~ticking

\* A client that reads its socket has each of its commands finished, though a worker
\* may be stuck in a write to another client (pubsub.go: no lock is held while writing).
ReadersAreServed == \A c \in Readers :
  handler[c].pc \in Handling \cup Serving ~> handler[c].pc \in {"reading", "left"}

\* A broken connection is cleaned up after: its subscriptions go, so that the chunks
\* it looked at can hibernate (websocket.go, the deferred UnsubscribeAll).
GoneAreForgotten == \A c \in Clients :
  c \notin open ~> \A id \in ChunkIDs : c \notin subscribers[id]

\* A subscriber who was last sent an old state of a chunk, because SUBSCRIBE writes
\* what it peeked after a newer broadcast, is sent a fresh one, if the ticks go on.
ViewersCatchUp == \A c \in Readers : \A id \in ChunkIDs :
  (c \in subscribers[id] /\ told[c][id].cells /\ ~told[c][id].fresh)
    ~> (told[c][id].fresh \/ ~told[c][id].cells \/ c \notin open \/ open \ Readers # {})
=============================================================================
