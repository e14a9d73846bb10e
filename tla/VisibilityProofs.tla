-------------------------- MODULE VisibilityProofs --------------------------
(***************************************************************************)
(* What a viewer of Gateway sees is ticked: a chunk that nobody places     *)
(* cells into stays registered while a subscriber has been shown cells of  *)
(* it, whatever is placed elsewhere.                                       *)
(***************************************************************************)
EXTENDS GatewayProofs

USE GatewayAssumption

-----------------------------------------------------------------------------
(* The inductive invariant.                                                 *)

\* What is being placed is what a valid command asks for.
Intended(h) ==
  /\ h.pc = "charging" => h.cmd.type \in Placements
  /\ h.pc = "charging" /\ h.cmd.type = "PLACE_CUSTOM" => h.cmd.valid
  /\ h.pc = "placing" => /\ h.cmd.type \in Placements /\ h.cmd.valid
                         /\ \A i \in 1..Len(h.todo) : Mentions(h.cmd, h.todo[i])

\* A handler that is about to show a chunk is subscribed to it, and from its peek on the
\* worker cannot have decided to hibernate the chunk; from GetOrCreate on it is there.
Viewing(c) ==
  LET h  == handler[c]
      id == Head(h.todo)
  IN  /\ h.pc \in {"peeking", "registering", "showing"} => c \in subscribers[id]
      /\ h.pc \in {"registering", "showing"} /\ id \in Untouched => job[id].stage # "idle"
      /\ h.pc = "showing" /\ id \in Untouched => chunk[id].registered

Kept(id) ==
  /\ job[id].stage \in {"empty", "idle"} => ~chunk[id].cells
  /\ \A c \in subscribers[id] :
       told[c][id].cells => chunk[id].registered /\ job[id].stage # "idle"

Visibility ==
  /\ \A c \in Clients : Intended(handler[c]) /\ Viewing(c)
  /\ \A id \in ChunkIDs : job[id].stage # "none" => chunk[id].registered
  /\ \A id \in Untouched : Kept(id)

-----------------------------------------------------------------------------
(* Parts of steps.                                                          *)

\* The chunks that are there stay, and what nobody places into keeps its cells.
ChunksStay ==
  \A i \in ChunkIDs : chunk[i].registered =>
    chunk'[i].registered /\ (i \in Untouched => chunk'[i].cells = chunk[i].cells)

\* A step of c's handler, which leaves the jobs and the other clients alone.
LEMMA ClientStep ==
  ASSUME GatewayInvariant, Visibility, NEW c \in Clients, NEW h \in Handlers,
         handler' = [handler EXCEPT ![c] = h], UNCHANGED job, ChunksStay,
         \A d \in Clients : d # c => told'[d] = told[d],
         \A i \in ChunkIDs : subscribers'[i] \ {c} = subscribers[i] \ {c},
         \A i \in Untouched : c \in subscribers'[i] /\ told'[c][i].cells =>
                                chunk'[i].registered /\ job[i].stage # "idle",
         Intended(h), Viewing(c)'
  PROVE  Visibility'
<1>1. \A d \in Clients : handler'[d] = IF d = c THEN h ELSE handler[d]
  BY DEF GatewayInvariant, HandlersOK
<1>2. ASSUME NEW d \in Clients
      PROVE  Intended(handler'[d]) /\ Viewing(d)'
  <2>1. CASE d = c
    BY <1>1, <2>1
  <2>2. CASE d # c
    <3>1. handler'[d] = handler[d] /\ Intended(handler[d]) /\ Viewing(d)
      BY <1>1, <2>2 DEF Visibility
    <3>2. handler[d].pc \in {"peeking", "registering", "showing"} => Head(handler[d].todo) \in ChunkIDs
      BY DEF GatewayInvariant, HandlersOK, Handlers, Progress, Serving
    <3>3. Viewing(d)'
      BY <2>2, <3>1, <3>2 DEF Viewing, ChunksStay
    <3>4. QED
      BY <3>1, <3>3
  <2>3. QED
    BY <2>1, <2>2
<1>3. \A i \in ChunkIDs : job'[i].stage # "none" => chunk'[i].registered
  BY DEF Visibility, ChunksStay
<1>4. ASSUME NEW i \in Untouched
      PROVE  Kept(i)'
  <2>1. i \in ChunkIDs /\ Kept(i)
    BY DEF Visibility, Untouched
  <2>2. job[i].stage \in {"empty", "idle"} => ~chunk'[i].cells
    BY <2>1 DEF Kept, Visibility, ChunksStay
  <2>3. \A d \in subscribers'[i] : d \in Clients /\ (d # c => d \in subscribers[i])
    BY <2>1 DEF GatewayInvariant, Deliveries
  <2>4. \A d \in subscribers'[i] :
          told'[d][i].cells => chunk'[i].registered /\ job[i].stage # "idle"
    BY <2>1, <2>3 DEF Kept, ChunksStay
  <2>5. QED
    BY <2>2, <2>4 DEF Kept
<1>5. QED
  BY <1>2, <1>3, <1>4 DEF Visibility, Untouched

\* A step of the worker that has chunk id.
LEMMA WorkerStep ==
  ASSUME GatewayInvariant, Visibility, NEW id \in ChunkIDs, NEW j \in Jobs,
         job' = [job EXCEPT ![id] = j], UNCHANGED subscribers,
         \A i \in ChunkIDs : i # id => chunk'[i] = chunk[i],
         \A c \in Clients : /\ handler'[c].pc = handler[c].pc
                            /\ handler'[c].cmd = handler[c].cmd
                            /\ handler'[c].todo = handler[c].todo,
         \A c \in Clients : \A i \in ChunkIDs : i # id => told'[c][i].cells = told[c][i].cells,
         j.stage # "none" => chunk'[id].registered,
         id \in Untouched => Kept(id)',
         \A c \in Clients : Head(handler[c].todo) = id => Viewing(c)'
  PROVE  Visibility'
<1>1. \A i \in ChunkIDs : job'[i] = IF i = id THEN j ELSE job[i]
  BY DEF GatewayInvariant, Deliveries
<1>2. ASSUME NEW c \in Clients
      PROVE  Intended(handler'[c]) /\ Viewing(c)'
  <2>1. Intended(handler'[c])
    BY DEF Visibility, Intended
  <2>2. handler[c].pc \in {"peeking", "registering", "showing"} => Head(handler[c].todo) \in ChunkIDs
    BY DEF GatewayInvariant, HandlersOK, Handlers, Progress, Serving
  <2>3. ASSUME Head(handler[c].todo) # id
        PROVE  Viewing(c)'
    <3>1. Viewing(c)
      BY DEF Visibility
    <3>2. QED
      BY <1>1, <2>2, <2>3, <3>1 DEF Viewing
  <2>4. QED
    BY <2>1, <2>3
<1>3. \A i \in ChunkIDs : job'[i].stage # "none" => chunk'[i].registered
  BY <1>1 DEF Visibility
<1>4. ASSUME NEW i \in Untouched
      PROVE  Kept(i)'
  <2>1. i \in ChunkIDs /\ Kept(i) /\ subscribers[i] \subseteq Clients
    BY DEF Visibility, Untouched, GatewayInvariant, Deliveries
  <2>2. ASSUME i # id
        PROVE  Kept(i)'
    <3>1. job'[i] = job[i] /\ chunk'[i] = chunk[i] /\ subscribers' = subscribers
      BY <1>1, <2>1, <2>2
    <3>2. \A c \in subscribers[i] : told'[c][i].cells = told[c][i].cells
      BY <2>1, <2>2
    <3>3. QED
      BY <2>1, <3>1, <3>2 DEF Kept
  <2>3. QED
    BY <2>2
<1>5. QED
  BY <1>2, <1>3, <1>4 DEF Visibility, Untouched

-----------------------------------------------------------------------------
(* The steps.                                                               *)

LEMMA VisibleAtStart == Init => Visibility
<1> SUFFICES ASSUME Init
             PROVE  Visibility
  OBVIOUS
<1>1. \A c \in Clients : handler[c].pc = "reading"
  BY DEF Init, Reading
<1>2. \A id \in ChunkIDs : subscribers[id] = {} /\ job[id].stage = "none"
  BY DEF Init, NoJob
<1>3. QED
  BY <1>1, <1>2 DEF Visibility, Intended, Viewing, Kept, Untouched

LEMMA SeenStutters ==
  ASSUME Visibility, UNCHANGED <<handler, subscribers, chunk, job, told>>
  PROVE  Visibility'
BY DEF Visibility, Intended, Viewing, Kept, Untouched

\* A handler that shows nothing, and takes nothing in hand.
LEMMA AtRest ==
  ASSUME HandlersOK, NEW c \in Clients, NEW h \in Handlers, handler' = [handler EXCEPT ![c] = h],
         h.pc \in {"reading", "left", "answering", "subscribing", "unsubscribing"}
  PROVE  Intended(h) /\ Viewing(c)'
<1>1. handler'[c] = h
  BY DEF HandlersOK
<1>2. QED
  BY <1>1 DEF Intended, Viewing

LEMMA ContinuedRests ==
  ASSUME NEW h, NEW pc \in {"subscribing", "unsubscribing"}, NEW r, h \in Handlers,
         r = Continued(h, pc)
  PROVE  r.pc \in {"reading", "subscribing", "unsubscribing"}
<1>1. CASE Tail(h.todo) = <<>>
  BY <1>1, ReadingIsIdle DEF Continued
<1>2. CASE Tail(h.todo) # <<>>
  <2>1. r = [h EXCEPT !.todo = Tail(@), !.pc = pc, !.peeked = Unseen]
    BY <1>2 DEF Continued
  <2>2. r.pc = pc
    BY <2>1 DEF Handlers
  <2>3. QED
    BY <2>2
<1>3. QED
  BY <1>1, <1>2

\* Only a placement is charged for, and only SPAWN before its payload is looked at.
LEMMA DispatchedIntends ==
  ASSUME NEW k \in Commands
  PROVE  /\ Dispatched(k).pc \in {"reading", "charging", "answering", "subscribing", "unsubscribing"}
         /\ Dispatched(k).pc = "charging" => /\ k.type \in Placements
                                             /\ k.type # "SPAWN" => k.valid
                                             /\ Dispatched(k).cmd = k
<1> DEFINE h == [Reading EXCEPT !.cmd = k, !.todo = k.chunks]
           At(pc) == [h EXCEPT !.pc = pc]
<1>1. k.chunks \in Seq(ChunkIDs)
  BY CommandFields
<1>2. ASSUME NEW pc \in {"charging", "answering", "subscribing", "unsubscribing"}
      PROVE  At(pc) \in Handlers /\ At(pc).pc = pc /\ At(pc).cmd = k
  BY <1>1, <1>2 DEF Reading, Handlers, Handling, Serving, Unseen, Seen
<1> HIDE DEF At, h
<1>3. CASE k.type = "SPAWN" \/ (k.type \in Placements /\ k.valid)
  <2>1. Dispatched(k) = At("charging")
    BY <1>3 DEF Dispatched, At, h, Placements
  <2>2. QED
    BY <1>2, <1>3, <2>1 DEF Placements
<1>4. CASE ~(k.type = "SPAWN" \/ (k.type \in Placements /\ k.valid))
  <2>1. Dispatched(k) \in {At("answering"), At("subscribing"), At("unsubscribing"), Reading}
    BY <1>4 DEF Dispatched, At, h
  <2>2. QED
    BY <1>2, <2>1, ReadingIsIdle
<1>5. QED
  BY <1>3, <1>4

LEMMA ReadMessageKeepsVisible ==
  ASSUME GatewayInvariant, Visibility, NEW c \in Clients, ReadMessage(c)
  PROVE  Visibility'
<1> DEFINE k == Head(inbox[c])
           h == Dispatched(k)
<1>1. k \in Commands
  BY DEF ReadMessage, GatewayInvariant, Channels
<1>2. h \in Handlers
  BY <1>1, DispatchedOK
<1>3. /\ handler' = [handler EXCEPT ![c] = h]
      /\ UNCHANGED <<subscribers, chunk, job, told>>
  BY DEF ReadMessage
<1>4. /\ h.pc \in {"reading", "charging", "answering", "subscribing", "unsubscribing"}
      /\ h.pc = "charging" => /\ k.type \in Placements
                              /\ k.type # "SPAWN" => k.valid
                              /\ h.cmd = k
  BY <1>1, DispatchedIntends
<1> HIDE DEF h, k
<1>5. Intended(h) /\ Viewing(c)'
  <2>1. CASE h.pc = "charging"
    <3>1. handler'[c] = h
      BY <1>3 DEF GatewayInvariant, HandlersOK
    <3>2. QED
      BY <1>4, <2>1, <3>1 DEF Intended, Viewing
  <2>2. CASE h.pc # "charging"
    BY <1>2, <1>3, <1>4, <2>2, AtRest DEF GatewayInvariant
  <2>3. QED
    BY <2>1, <2>2
<1>6. ChunksStay /\ \A i \in Untouched : c \in subscribers'[i] /\ told'[c][i].cells =>
                       chunk'[i].registered /\ job[i].stage # "idle"
  BY <1>3 DEF ChunksStay, Visibility, Kept
<1>7. QED
  BY <1>2, <1>3, <1>5, <1>6, ClientStep

LEMMA LeaveKeepsVisible ==
  ASSUME GatewayInvariant, Visibility, NEW c \in Clients, Leave(c)
  PROVE  Visibility'
<1> DEFINE h == [handler[c] EXCEPT !.pc = "left"]
<1>1. handler[c] \in Handlers
  BY DEF GatewayInvariant, HandlersOK
<1>2. h \in Handlers /\ h.pc = "left"
  BY <1>1 DEF Handlers
<1>3. /\ handler' = [handler EXCEPT ![c] = h]
      /\ subscribers' = [id \in ChunkIDs |-> subscribers[id] \ {c}]
      /\ told' = [told EXCEPT ![c] = [id \in ChunkIDs |-> Unseen]]
      /\ UNCHANGED <<chunk, job>>
  BY DEF Leave
<1> HIDE DEF h
<1>4. Intended(h) /\ Viewing(c)'
  BY <1>2, <1>3, AtRest DEF GatewayInvariant
<1>5. \A d \in Clients : d # c => told'[d] = told[d]
  BY <1>3 DEF GatewayInvariant, Known
<1>6. \A i \in ChunkIDs : subscribers'[i] = subscribers[i] \ {c}
  BY <1>3
<1>7. \A i \in Untouched : c \notin subscribers'[i]
  BY <1>6 DEF Untouched
<1>8. ChunksStay
  BY <1>3 DEF ChunksStay
<1>9. QED
  BY <1>2, <1>3, <1>4, <1>5, <1>6, <1>7, <1>8, ClientStep

\* Before a placement, what a handler is charged for is what it will place.
LEMMA ChargeKeepsVisible ==
  ASSUME GatewayInvariant, Visibility, NEW c \in Clients, Charge(c) \/ Drain(c)
  PROVE  Visibility'
<1> DEFINE h == handler[c]
           refused == [h EXCEPT !.pc = "answering", !.charged = 0]
           counted == [h EXCEPT !.charged = @ + 1]
           paid    == [h EXCEPT !.pc = "placing", !.charged = 0]
           drained == [h EXCEPT !.pc = "placing"]
           empty   == [h EXCEPT !.pc = "answering"]
<1>1. /\ h \in Handlers /\ h.pc = "charging" /\ Intended(h)
      /\ h.cmd \in Commands /\ h.todo = h.cmd.chunks
  BY DEF GatewayInvariant, HandlersOK, Charge, Drain, Progress, Handling, Visibility
<1>2. UNCHANGED <<subscribers, chunk, job, told>>
  BY DEF Charge, Drain
<1>3. \/ handler' = [handler EXCEPT ![c] = refused]
      \/ handler' = [handler EXCEPT ![c] = counted]
      \/ handler' = [handler EXCEPT ![c] = paid] /\ h.cmd.valid
      \/ handler' = [handler EXCEPT ![c] = drained] /\ h.cmd.type = "PLACE_CUSTOM"
      \/ handler' = [handler EXCEPT ![c] = empty]
  <2>1. CASE Charge(c)
    BY <2>1 DEF Charge
  <2>2. CASE Drain(c)
    BY <2>2 DEF Drain
  <2>3. QED
    BY <2>1, <2>2
<1>4. /\ refused \in Handlers /\ refused.pc = "answering"
      /\ empty \in Handlers /\ empty.pc = "answering"
  BY <1>1 DEF Handlers, Handling
<1>5. counted \in Handlers /\ counted.pc = "charging" /\ counted.cmd = h.cmd
  BY <1>1 DEF Handlers, Handling
<1>6. /\ paid \in Handlers /\ paid.pc = "placing" /\ paid.cmd = h.cmd /\ paid.todo = h.todo
      /\ drained \in Handlers /\ drained.pc = "placing" /\ drained.cmd = h.cmd
      /\ drained.todo = h.todo
  BY <1>1 DEF Handlers, Handling
<1>7. \A i \in 1..Len(h.todo) : Mentions(h.cmd, h.todo[i])
  BY <1>1 DEF Mentions
<1>8. h.cmd.type \in Placements /\ (h.cmd.type = "PLACE_CUSTOM" => h.cmd.valid)
  BY <1>1 DEF Intended
<1> HIDE DEF h, refused, counted, paid, drained, empty
<1>9. PICK n \in Handlers : /\ handler' = [handler EXCEPT ![c] = n] /\ Intended(n)
                            /\ n.pc \in {"answering", "charging", "placing"}
  <2>1. Intended(refused) /\ Intended(empty)
    BY <1>4 DEF Intended
  <2>2. Intended(counted)
    BY <1>5, <1>8 DEF Intended
  <2>3. h.cmd.valid => Intended(paid) /\ Intended(drained)
    BY <1>6, <1>7, <1>8 DEF Intended
  <2>4. QED
    BY <1>3, <1>4, <1>5, <1>6, <1>8, <2>1, <2>2, <2>3
<1>10. Viewing(c)'
  <2>1. handler'[c] = n
    BY <1>9 DEF GatewayInvariant, HandlersOK
  <2>2. QED
    BY <1>9, <2>1 DEF Viewing
<1>11. ChunksStay /\ \A i \in Untouched : c \in subscribers'[i] /\ told'[c][i].cells =>
                        chunk'[i].registered /\ job[i].stage # "idle"
  BY <1>2 DEF ChunksStay, Visibility, Kept
<1>12. QED
  BY <1>2, <1>9, <1>10, <1>11, ClientStep

\* A chunk that is there is not loaded again.
LEMMA HydratedStays ==
  ASSUME Known, NEW id \in ChunkIDs
  PROVE  /\ Hydrated(id).registered
         /\ chunk[id].registered => Hydrated(id).cells = chunk[id].cells
<1>1. chunk[id] \in [registered : BOOLEAN, cells : BOOLEAN, stored : BOOLEAN]
  BY DEF Known
<1>2. CASE chunk[id].registered
  BY <1>2 DEF Hydrated
<1>3. CASE ~chunk[id].registered
  BY <1>1, <1>3 DEF Hydrated
<1>4. QED
  BY <1>2, <1>3

\* Cells are placed where the command says, and nowhere else.
LEMMA PlaceCellKeepsVisible ==
  ASSUME GatewayInvariant, Visibility, NEW c \in Clients, PlaceCell(c)
  PROVE  Visibility'
<1> DEFINE g == handler[c]
           id == Head(g.todo)
           rest == Tail(g.todo)
           h == [g EXCEPT !.todo = rest, !.ok = (rest = <<>>),
                   !.pc = IF rest = <<>> THEN "answering" ELSE "placing"]
           s == [Hydrated(id) EXCEPT !.cells = TRUE]
<1>1. /\ g \in Handlers /\ g.pc = "placing" /\ Intended(g)
      /\ g.cmd \in Commands /\ g.todo # <<>> /\ g.todo \in Seq(ChunkIDs)
  BY DEF GatewayInvariant, HandlersOK, PlaceCell, Progress, Handling, Handlers, Visibility
<1>2. /\ id \in ChunkIDs /\ id = g.todo[1] /\ 1 \in 1..Len(g.todo)
      /\ rest \in Seq(ChunkIDs) /\ \A i \in 1..Len(rest) : i + 1 \in 1..Len(g.todo)
                                                         /\ rest[i] = g.todo[i + 1]
  BY <1>1
<1>3. /\ h \in Handlers /\ h.cmd = g.cmd /\ h.todo = rest
      /\ h.pc = IF rest = <<>> THEN "answering" ELSE "placing"
  BY <1>1, <1>2 DEF Handlers, Handling, Serving
<1>4. /\ handler' = [handler EXCEPT ![c] = h] /\ chunk' = [chunk EXCEPT ![id] = s]
      /\ UNCHANGED <<subscribers, job, told>>
  BY DEF PlaceCell
<1>5. s.registered
  <2>1. Hydrated(id) \in [registered : BOOLEAN, cells : BOOLEAN, stored : BOOLEAN]
    BY <1>2, HydratedOK DEF GatewayInvariant
  <2>2. s.registered = Hydrated(id).registered
    BY <2>1
  <2>3. QED
    BY <1>2, <2>2, HydratedStays DEF GatewayInvariant
<1> HIDE DEF h, s, id, rest, g
<1>6. id \notin Untouched
  BY <1>1, <1>2 DEF Intended, Untouched
<1>7. \A i \in ChunkIDs : chunk'[i] = IF i = id THEN s ELSE chunk[i]
  BY <1>4 DEF GatewayInvariant, Known
<1>8. ChunksStay
  BY <1>5, <1>6, <1>7 DEF ChunksStay
<1>9. Intended(h)
  <2>1. \A i \in 1..Len(g.todo) : Mentions(g.cmd, g.todo[i])
    BY <1>1 DEF Intended
  <2>2. \A i \in 1..Len(rest) : Mentions(g.cmd, rest[i])
    BY <1>2, <2>1
  <2>3. QED
    BY <1>1, <1>3, <2>2 DEF Intended
<1>10. Viewing(c)'
  <2>1. handler'[c] = h
    BY <1>4 DEF GatewayInvariant, HandlersOK
  <2>2. QED
    BY <1>3, <2>1 DEF Viewing
<1>11. \A i \in Untouched : c \in subscribers'[i] /\ told'[c][i].cells =>
                              chunk'[i].registered /\ job[i].stage # "idle"
  BY <1>4, <1>8 DEF Visibility, Kept, ChunksStay, Untouched
<1>12. QED
  BY <1>3, <1>4, <1>8, <1>9, <1>10, <1>11, ClientStep

LEMMA SubscribeKeepsVisible ==
  ASSUME GatewayInvariant, Visibility, NEW c \in Clients, Subscribe(c)
  PROVE  Visibility'
<1> DEFINE id == Head(handler[c].todo)
           h == [handler[c] EXCEPT !.pc = "peeking"]
<1>1. handler[c] \in Handlers /\ id \in ChunkIDs
  BY DEF GatewayInvariant, HandlersOK, Subscribe, Progress, Serving, Handlers
<1>2. h \in Handlers /\ h.pc = "peeking" /\ h.todo = handler[c].todo
  BY <1>1 DEF Handlers, Serving
<1>3. /\ handler' = [handler EXCEPT ![c] = h]
      /\ subscribers' = [subscribers EXCEPT ![id] = @ \cup {c}]
      /\ told' = [told EXCEPT ![c][id] = Unseen]
      /\ UNCHANGED <<chunk, job>>
  BY DEF Subscribe
<1>4. handler'[c] = h /\ id = Head(h.todo)
  BY <1>2, <1>3 DEF GatewayInvariant, HandlersOK
<1> HIDE DEF h, id
<1>5. \A i \in ChunkIDs : subscribers'[i] = IF i = id THEN subscribers[i] \cup {c} ELSE subscribers[i]
  BY <1>1, <1>3 DEF GatewayInvariant, Deliveries
<1>6. /\ \A d \in Clients : d # c => told'[d] = told[d]
      /\ \A i \in ChunkIDs : told'[c][i] = IF i = id THEN Unseen ELSE told[c][i]
  BY <1>1, <1>3 DEF GatewayInvariant, Known
<1>7. Intended(h) /\ Viewing(c)'
  BY <1>1, <1>2, <1>4, <1>5 DEF Intended, Viewing
<1>8. \A i \in Untouched : c \in subscribers'[i] /\ told'[c][i].cells =>
                             chunk'[i].registered /\ job[i].stage # "idle"
  BY <1>3, <1>5, <1>6 DEF Visibility, Kept, Untouched, Unseen
<1>9. ChunksStay
  BY <1>3 DEF ChunksStay
<1>10. \A i \in ChunkIDs : subscribers'[i] \ {c} = subscribers[i] \ {c}
  BY <1>5
<1>11. QED
  BY <1>2, <1>3, <1>6, <1>7, <1>8, <1>9, <1>10, ClientStep

LEMMA UnsubscribeKeepsVisible ==
  ASSUME GatewayInvariant, Visibility, NEW c \in Clients, Unsubscribe(c)
  PROVE  Visibility'
<1> DEFINE id == Head(handler[c].todo)
           h == Continued(handler[c], "unsubscribing")
<1>1. handler[c] \in Handlers /\ Progress(handler[c]) /\ handler[c].pc \in Serving /\ id \in ChunkIDs
  BY DEF GatewayInvariant, HandlersOK, Unsubscribe, Progress, Serving, Handlers
<1>2. h \in Handlers /\ h.pc \in {"reading", "subscribing", "unsubscribing"}
  BY <1>1, ContinuedOK, ContinuedRests
<1>3. /\ handler' = [handler EXCEPT ![c] = h]
      /\ subscribers' = [subscribers EXCEPT ![id] = @ \ {c}]
      /\ told' = [told EXCEPT ![c][id] = Unseen]
      /\ UNCHANGED <<chunk, job>>
  BY DEF Unsubscribe
<1> HIDE DEF h, id
<1>4. Intended(h) /\ Viewing(c)'
  BY <1>2, <1>3, AtRest DEF GatewayInvariant
<1>5. \A i \in ChunkIDs : subscribers'[i] = IF i = id THEN subscribers[i] \ {c} ELSE subscribers[i]
  BY <1>1, <1>3 DEF GatewayInvariant, Deliveries
<1>6. /\ \A d \in Clients : d # c => told'[d] = told[d]
      /\ \A i \in ChunkIDs : told'[c][i] = IF i = id THEN Unseen ELSE told[c][i]
  BY <1>1, <1>3 DEF GatewayInvariant, Known
<1>7. ASSUME NEW i \in Untouched, c \in subscribers'[i], told'[c][i].cells
      PROVE  chunk'[i].registered /\ job[i].stage # "idle"
  <2>1. i \in ChunkIDs /\ Kept(i)
    BY DEF Visibility, Untouched
  <2>2. i # id /\ c \in subscribers[i] /\ told[c][i].cells
    BY <1>5, <1>6, <1>7, <2>1
  <2>3. QED
    BY <1>3, <2>1, <2>2 DEF Kept
<1>8. ChunksStay
  BY <1>3 DEF ChunksStay
<1>9. \A i \in ChunkIDs : subscribers'[i] \ {c} = subscribers[i] \ {c}
  BY <1>5
<1>10. QED
  BY <1>2, <1>3, <1>4, <1>6, <1>7, <1>8, <1>9, ClientStep

\* What a peek finds of an untouched chunk is not about to hibernate: the worker has
\* found it to have cells, or it is not in the registry.
LEMMA PeekChunkKeepsVisible ==
  ASSUME GatewayInvariant, Visibility, NEW c \in Clients, PeekChunk(c)
  PROVE  Visibility'
<1> DEFINE id == Head(handler[c].todo)
           found == [handler[c] EXCEPT !.pc = "registering", !.peeked = [cells |-> TRUE, fresh |-> TRUE]]
           none  == Continued(handler[c], "subscribing")
           cells == IF chunk[id].registered THEN chunk[id].cells ELSE chunk[id].stored
<1>1. /\ handler[c] \in Handlers /\ Progress(handler[c]) /\ handler[c].pc = "peeking"
      /\ handler[c].pc \in Serving /\ id \in ChunkIDs /\ Viewing(c)
  BY DEF GatewayInvariant, HandlersOK, PeekChunk, Progress, Serving, Handlers, Visibility
<1>2. /\ handler' = [handler EXCEPT ![c] = IF cells THEN found ELSE none]
      /\ UNCHANGED <<subscribers, chunk, job, told>>
  BY DEF PeekChunk
<1>3. found \in Handlers /\ found.pc = "registering" /\ Head(found.todo) = id
  BY <1>1 DEF Handlers, Serving, Seen
<1>4. none \in Handlers /\ none.pc \in {"reading", "subscribing", "unsubscribing"}
  BY <1>1, ContinuedOK, ContinuedRests
<1>5. c \in subscribers[id]
  BY <1>1 DEF Viewing
<1>6. id \in Untouched /\ cells => job[id].stage # "idle"
  <2>1. CASE chunk[id].registered
    BY <2>1 DEF Visibility, Kept
  <2>2. CASE ~chunk[id].registered
    BY <1>1, <2>2 DEF Visibility
  <2>3. QED
    BY <2>1, <2>2
<1>7. ChunksStay /\ \A i \in Untouched : c \in subscribers'[i] /\ told'[c][i].cells =>
                       chunk'[i].registered /\ job[i].stage # "idle"
  BY <1>2 DEF ChunksStay, Visibility, Kept
<1> HIDE DEF found, none, id, cells
<1>8. CASE cells
  <2>1. handler' = [handler EXCEPT ![c] = found]
    BY <1>2, <1>8
  <2>2. handler'[c] = found
    BY <2>1 DEF GatewayInvariant, HandlersOK
  <2>3. Intended(found) /\ Viewing(c)'
    BY <1>2, <1>3, <1>5, <1>6, <1>8, <2>2 DEF Intended, Viewing
  <2>4. QED
    BY <1>2, <1>3, <1>7, <2>1, <2>3, ClientStep
<1>9. CASE ~cells
  <2>1. handler' = [handler EXCEPT ![c] = none]
    BY <1>2, <1>9
  <2>2. Intended(none) /\ Viewing(c)'
    BY <1>4, <2>1, AtRest DEF GatewayInvariant
  <2>3. QED
    BY <1>2, <1>4, <1>7, <2>1, <2>2, ClientStep
<1>10. QED
  BY <1>8, <1>9

LEMMA GetOrCreateKeepsVisible ==
  ASSUME GatewayInvariant, Visibility, NEW c \in Clients, GetOrCreate(c)
  PROVE  Visibility'
<1> DEFINE id == Head(handler[c].todo)
           h == [handler[c] EXCEPT !.pc = "showing"]
           s == Hydrated(id)
<1>1. /\ handler[c] \in Handlers /\ handler[c].pc = "registering" /\ id \in ChunkIDs /\ Viewing(c)
  BY DEF GatewayInvariant, HandlersOK, GetOrCreate, Progress, Serving, Handlers, Visibility
<1>2. h \in Handlers /\ h.pc = "showing" /\ Head(h.todo) = id
  BY <1>1 DEF Handlers, Serving
<1>3. /\ handler' = [handler EXCEPT ![c] = h] /\ chunk' = [chunk EXCEPT ![id] = s]
      /\ UNCHANGED <<subscribers, job, told>>
  BY DEF GetOrCreate
<1>4. s.registered /\ (chunk[id].registered => s.cells = chunk[id].cells)
  BY <1>1, HydratedStays DEF GatewayInvariant
<1>5. c \in subscribers[id] /\ (id \in Untouched => job[id].stage # "idle")
  BY <1>1 DEF Viewing
<1> HIDE DEF h, s, id
<1>6. \A i \in ChunkIDs : chunk'[i] = IF i = id THEN s ELSE chunk[i]
  BY <1>3 DEF GatewayInvariant, Known
<1>7. ChunksStay
  BY <1>4, <1>6 DEF ChunksStay
<1>8. handler'[c] = h
  BY <1>3 DEF GatewayInvariant, HandlersOK
<1>9. Intended(h) /\ Viewing(c)'
  BY <1>1, <1>2, <1>3, <1>4, <1>5, <1>6, <1>8 DEF Intended, Viewing
<1>10. \A i \in Untouched : c \in subscribers'[i] /\ told'[c][i].cells =>
                              chunk'[i].registered /\ job[i].stage # "idle"
  BY <1>3, <1>7 DEF Visibility, Kept, ChunksStay, Untouched
<1>11. QED
  BY <1>2, <1>3, <1>7, <1>9, <1>10, ClientStep

LEMMA WriteKeepsVisible ==
  ASSUME GatewayInvariant, Visibility, NEW c \in Clients, Write(c)
  PROVE  Visibility'
<1>1. handler[c] \in Handlers /\ Progress(handler[c]) /\ Viewing(c)
  BY DEF GatewayInvariant, HandlersOK, Visibility
<1>2. CASE Answer(c)
  <2>1. /\ handler' = [handler EXCEPT ![c] = Reading]
        /\ UNCHANGED <<subscribers, chunk, job, told>>
    BY <1>2 DEF Answer
  <2>2. Intended(Reading) /\ Viewing(c)'
    BY <2>1, ReadingIsIdle, AtRest DEF GatewayInvariant
  <2>3. ChunksStay /\ \A i \in Untouched : c \in subscribers'[i] /\ told'[c][i].cells =>
                         chunk'[i].registered /\ job[i].stage # "idle"
    BY <2>1 DEF ChunksStay, Visibility, Kept
  <2>4. QED
    BY <2>1, <2>2, <2>3, ReadingIsIdle, ClientStep
<1>3. CASE Show(c)
  <2> DEFINE id == Head(handler[c].todo)
             h == Continued(handler[c], "subscribing")
             p == handler[c].peeked
  <2>1. handler[c].pc = "showing" /\ handler[c].pc \in Serving /\ id \in ChunkIDs
    BY <1>1, <1>3 DEF Show, Progress, Serving, Handlers
  <2>2. h \in Handlers /\ h.pc \in {"reading", "subscribing", "unsubscribing"}
    BY <1>1, <2>1, ContinuedOK, ContinuedRests
  <2>3. /\ handler' = [handler EXCEPT ![c] = h] /\ told' = [told EXCEPT ![c][id] = p]
        /\ UNCHANGED <<subscribers, chunk, job>>
    BY <1>3 DEF Show
  <2>4. id \in Untouched => chunk[id].registered /\ job[id].stage # "idle"
    BY <1>1, <2>1 DEF Viewing
  <2> HIDE DEF id, h, p
  <2>5. Intended(h) /\ Viewing(c)'
    BY <2>2, <2>3, AtRest DEF GatewayInvariant
  <2>6. /\ \A d \in Clients : d # c => told'[d] = told[d]
        /\ \A i \in ChunkIDs : told'[c][i] = IF i = id THEN p ELSE told[c][i]
    BY <2>1, <2>3 DEF GatewayInvariant, Known
  <2>7. \A i \in Untouched : c \in subscribers'[i] /\ told'[c][i].cells =>
                               chunk'[i].registered /\ job[i].stage # "idle"
    BY <2>3, <2>4, <2>6 DEF Visibility, Kept, Untouched
  <2>8. ChunksStay
    BY <2>3 DEF ChunksStay
  <2>9. QED
    BY <2>2, <2>3, <2>5, <2>6, <2>7, <2>8, ClientStep
<1>4. QED
  BY <1>2, <1>3 DEF Write

-----------------------------------------------------------------------------
(* The steps of the tick loop and of the workers.                           *)

LEMMA TickKeepsVisible ==
  ASSUME GatewayInvariant, Visibility, TickStart \/ TickEnd
  PROVE  Visibility'
<1>1. UNCHANGED <<handler, subscribers, chunk, told>>
  BY DEF TickStart, TickEnd
<1>2. \A id \in ChunkIDs : /\ job'[id].stage \in {"none", "queued"}
                           /\ job'[id].stage # "none" => chunk[id].registered
  <2>1. CASE TickStart
    BY <2>1 DEF TickStart, NoJob
  <2>2. CASE TickEnd
    BY <2>2 DEF TickEnd
  <2>3. QED
    BY <2>1, <2>2
<1>3. ASSUME NEW c \in Clients
      PROVE  Intended(handler'[c]) /\ Viewing(c)'
  <2>1. handler[c].pc \in {"peeking", "registering", "showing"} => Head(handler[c].todo) \in ChunkIDs
    BY DEF GatewayInvariant, HandlersOK, Handlers, Progress, Serving
  <2>2. QED
    BY <1>1, <1>2, <2>1 DEF Visibility, Viewing
<1>4. ASSUME NEW id \in Untouched
      PROVE  Kept(id)'
  BY <1>1, <1>2 DEF Visibility, Kept, Untouched
<1>5. QED
  BY <1>1, <1>2, <1>3, <1>4 DEF Visibility, Untouched

\* A worker's step to a stage in which the chunk may not hibernate.
LEMMA WorkerGoesOn ==
  ASSUME GatewayInvariant, Visibility, NEW id \in ChunkIDs, NEW j \in Jobs,
         job[id].stage # "none", j.stage \notin {"empty", "idle"},
         job' = [job EXCEPT ![id] = j],
         UNCHANGED <<handler, subscribers, chunk>>,
         \A c \in Clients : \A i \in ChunkIDs : i # id => told'[c][i].cells = told[c][i].cells
  PROVE  Visibility'
<1>1. chunk'[id].registered
  BY DEF Visibility
<1>2. job'[id] = j
  BY DEF GatewayInvariant, Deliveries
<1>3. Kept(id)'
  BY <1>1, <1>2 DEF Kept
<1>4. ASSUME NEW c \in Clients, Head(handler[c].todo) = id
      PROVE  Viewing(c)'
  BY <1>1, <1>2, <1>4 DEF Visibility, Viewing
<1>5. QED
  BY <1>1, <1>3, <1>4, WorkerStep

LEMMA TickChunkKeepsVisible ==
  ASSUME GatewayInvariant, Visibility, NEW id \in ChunkIDs, TickChunk(id)
  PROVE  Visibility'
<1> DEFINE j == [job[id] EXCEPT !.stage = "ticked"]
           old(c) == handler[c].todo # <<>> /\ Head(handler[c].todo) = id
<1>1. job[id] \in Jobs /\ job[id].stage = "queued" /\ chunk[id].registered
  BY DEF TickChunk, GatewayInvariant, Deliveries, Visibility
<1>2. j \in Jobs /\ j.stage = "ticked"
  BY <1>1 DEF Jobs, Stages
<1>3. /\ job' = [job EXCEPT ![id] = j]
      /\ handler' = [c \in Clients |-> [handler[c] EXCEPT !.peeked = Stale(@, old(c))]]
      /\ told' = [c \in Clients |-> [told[c] EXCEPT ![id] = Stale(@, TRUE)]]
      /\ UNCHANGED subscribers
  BY DEF TickChunk
<1>4. PICK alive \in BOOLEAN : chunk' = [chunk EXCEPT ![id].cells = alive]
  BY DEF TickChunk
<1>5. chunk'[id].registered /\ \A i \in ChunkIDs : i # id => chunk'[i] = chunk[i]
  BY <1>1, <1>4 DEF GatewayInvariant, Known
<1>6. ASSUME NEW c \in Clients
      PROVE  /\ handler'[c].pc = handler[c].pc /\ handler'[c].cmd = handler[c].cmd
             /\ handler'[c].todo = handler[c].todo
  <2>1. handler[c] \in Handlers
    BY DEF GatewayInvariant, HandlersOK
  <2>2. PICK p : handler'[c] = [handler[c] EXCEPT !.peeked = p]
    BY <1>3
  <2>3. QED
    BY <2>1, <2>2 DEF Handlers
<1>7. \A c \in Clients : \A i \in ChunkIDs : i # id => told'[c][i] = told[c][i]
  BY <1>3 DEF GatewayInvariant, Known
<1> HIDE DEF j
<1>8. job'[id] = j
  BY <1>3 DEF GatewayInvariant, Deliveries
<1>9. Kept(id)'
  BY <1>2, <1>5, <1>8 DEF Kept
<1>10. ASSUME NEW c \in Clients, Head(handler[c].todo) = id
       PROVE  Viewing(c)'
  BY <1>2, <1>3, <1>5, <1>6, <1>8, <1>10 DEF Visibility, Viewing
<1>11. QED
  BY <1>2, <1>3, <1>5, <1>6, <1>7, <1>9, <1>10, WorkerStep

LEMMA BroadcastKeepsVisible ==
  ASSUME GatewayInvariant, Visibility, NEW id \in ChunkIDs, Broadcast(id) \/ Deliver(id)
  PROVE  Visibility'
<1> DEFINE counting == [NoJob EXCEPT !.stage = "counting"]
<1>1. counting \in Jobs /\ counting.stage = "counting"
  BY DEF NoJob, Jobs, Stages
<1> HIDE DEF counting
<1>2. PICK copy \in SUBSET Clients, cells \in BOOLEAN : SendNext(id, copy, cells)
  <2>1. CASE Broadcast(id)
    <3>1. subscribers[id] \in SUBSET Clients /\ chunk[id].cells \in BOOLEAN
      BY DEF GatewayInvariant, Deliveries, Known
    <3>2. QED
      BY <2>1, <3>1 DEF Broadcast
  <2>2. CASE Deliver(id)
    <3>1. job[id].todo \ {job[id].to} \in SUBSET Clients /\ job[id].cells \in BOOLEAN
      BY DEF GatewayInvariant, Deliveries, Jobs
    <3>2. QED
      BY <2>2, <3>1 DEF Deliver
  <2>3. QED
    BY <2>1, <2>2
<1>3. \E j \in Jobs : j.stage \in {"counting", "broadcast"} /\ job' = [job EXCEPT ![id] = j]
  <2>1. CASE copy = {}
    BY <1>1, <1>2, <2>1 DEF SendNext, counting
  <2>2. CASE copy # {}
    <3>1. PICK c \in copy : job' = [job EXCEPT ![id] =
            [stage |-> "broadcast", todo |-> copy, to |-> c, cells |-> cells]]
      BY <1>2, <2>2 DEF SendNext
    <3>2. [stage |-> "broadcast", todo |-> copy, to |-> c, cells |-> cells] \in Jobs
      BY <1>2, <3>1 DEF Jobs, Stages
    <3>3. QED
      BY <3>1, <3>2
  <2>3. QED
    BY <2>1, <2>2
<1>4. PICK j \in Jobs : j.stage \in {"counting", "broadcast"} /\ job' = [job EXCEPT ![id] = j]
  BY <1>3
<1>5. job[id].stage # "none" /\ UNCHANGED <<handler, subscribers, chunk>>
  BY DEF Broadcast, Deliver
<1>6. \A c \in Clients : \A i \in ChunkIDs : i # id => told'[c][i].cells = told[c][i].cells
  <2>1. CASE Broadcast(id)
    BY <2>1 DEF Broadcast
  <2>2. CASE Deliver(id)
    BY <2>2 DEF Deliver, GatewayInvariant, Known
  <2>3. QED
    BY <2>1, <2>2
<1>7. QED
  BY <1>4, <1>5, <1>6, WorkerGoesOn

\* A chunk that has a subscriber does not hibernate, and one that has none shows nothing
\* to anybody until somebody has peeked at it again.
LEMMA RestKeepsVisible ==
  ASSUME GatewayInvariant, Visibility, NEW id \in ChunkIDs,
         PopCount(id) \/ HasSubscribers(id) \/ Hibernate(id)
  PROVE  Visibility'
<1> DEFINE empty == [job[id] EXCEPT !.stage = "empty"]
           idle  == [NoJob EXCEPT !.stage = "idle"]
<1>1. /\ job[id] \in Jobs /\ job[id].stage \in {"counting", "empty", "idle"}
      /\ chunk[id].registered /\ subscribers[id] \subseteq Clients
      /\ UNCHANGED <<handler, subscribers, told>>
  BY DEF PopCount, HasSubscribers, Hibernate, GatewayInvariant, Deliveries, Visibility
<1>2. /\ NoJob \in Jobs /\ NoJob.stage = "none" /\ empty \in Jobs /\ empty.stage = "empty"
      /\ idle \in Jobs /\ idle.stage = "idle"
  BY <1>1 DEF NoJob, Jobs, Stages
<1>3. \A j : job' = [job EXCEPT ![id] = j] => job'[id] = j
  BY DEF GatewayInvariant, Deliveries
<1>4. \A c \in Clients : \A i \in ChunkIDs : i # id => told'[c][i].cells = told[c][i].cells
  BY <1>1
<1> HIDE DEF empty, idle
<1>5. CASE \/ PopCount(id) /\ chunk[id].cells
           \/ HasSubscribers(id) /\ job' = [job EXCEPT ![id] = NoJob]
  <2>1. job' = [job EXCEPT ![id] = NoJob] /\ UNCHANGED chunk
    BY <1>5 DEF PopCount, HasSubscribers
  <2>2. QED
    BY <1>1, <1>2, <1>4, <2>1, WorkerGoesOn
<1>6. CASE PopCount(id) /\ ~chunk[id].cells
  <2>1. job' = [job EXCEPT ![id] = empty] /\ UNCHANGED chunk
    BY <1>6 DEF PopCount, empty
  <2>2. job'[id].stage = "empty"
    BY <1>2, <1>3, <2>1
  <2>3. Kept(id)'
    BY <1>1, <1>6, <2>1, <2>2 DEF Kept
  <2>4. ASSUME NEW c \in Clients, Head(handler[c].todo) = id
        PROVE  Viewing(c)'
    BY <1>1, <2>1, <2>2, <2>4 DEF Visibility, Viewing
  <2>5. QED
    BY <1>1, <1>2, <1>4, <2>1, <2>3, <2>4, WorkerStep
<1>7. CASE HasSubscribers(id) /\ job' # [job EXCEPT ![id] = NoJob]
  <2>1. job' = [job EXCEPT ![id] = idle] /\ UNCHANGED chunk /\ subscribers[id] = {}
    BY <1>7 DEF HasSubscribers, idle
  <2>2. id \in Untouched => ~chunk[id].cells
    BY <1>7 DEF HasSubscribers, Visibility, Kept
  <2>3. id \in Untouched => Kept(id)'
    BY <1>1, <2>1, <2>2 DEF Kept
  <2>4. ASSUME NEW c \in Clients, Head(handler[c].todo) = id
        PROVE  Viewing(c)'
    <3>1. handler[c].pc \notin {"peeking", "registering", "showing"}
      BY <2>1, <2>4 DEF Visibility, Viewing
    <3>2. QED
      BY <1>1, <3>1 DEF Viewing
  <2>5. QED
    BY <1>1, <1>2, <1>4, <2>1, <2>3, <2>4, WorkerStep
<1>8. CASE Hibernate(id)
  <2>1. /\ job[id].stage = "idle" /\ job' = [job EXCEPT ![id] = NoJob]
        /\ \A i \in ChunkIDs : i # id => chunk'[i] = chunk[i]
    BY <1>8 DEF Hibernate, GatewayInvariant, Known
  <2>2. job'[id].stage = "none"
    BY <1>2, <1>3, <2>1
  <2>3. id \in Untouched => \A c \in subscribers[id] : ~told[c][id].cells
    BY <2>1 DEF Visibility, Kept
  <2>4. id \in Untouched => Kept(id)'
    BY <1>1, <2>2, <2>3 DEF Kept
  <2>5. ASSUME NEW c \in Clients, Head(handler[c].todo) = id
        PROVE  Viewing(c)'
    BY <1>1, <2>1, <2>2, <2>5 DEF Visibility, Viewing
  <2>6. QED
    BY <1>1, <1>2, <1>4, <2>1, <2>4, <2>5, WorkerStep
<1>9. CASE PopCount(id)
  BY <1>5, <1>6, <1>9
<1>10. CASE HasSubscribers(id)
  BY <1>5, <1>7, <1>10
<1>11. QED
  BY <1>8, <1>9, <1>10

-----------------------------------------------------------------------------
(* What is shown is ticked.                                                 *)

LEMMA VisibilityPreserved ==
  ASSUME GatewayInvariant, Visibility, [Next]_vars
  PROVE  Visibility'
<1>1. ASSUME NEW c \in Clients,
             (\E k \in CommandsOf[c] : Send(c, k)) \/ Receive(c) \/ Disconnect(c)
      PROVE  Visibility'
  <2>1. UNCHANGED <<handler, subscribers, chunk, job, told>>
    BY <1>1 DEF Send, Receive, Disconnect
  <2>2. QED
    BY <2>1, SeenStutters
<1>2. ASSUME NEW c \in Clients, Handle(c) \/ Write(c)
      PROVE  Visibility'
  BY <1>2, ReadMessageKeepsVisible, LeaveKeepsVisible, ChargeKeepsVisible, PlaceCellKeepsVisible,
     SubscribeKeepsVisible, PeekChunkKeepsVisible, GetOrCreateKeepsVisible,
     UnsubscribeKeepsVisible, WriteKeepsVisible DEF Handle
<1>3. ASSUME NEW id \in ChunkIDs, Work(id) \/ Deliver(id)
      PROVE  Visibility'
  BY <1>3, TickChunkKeepsVisible, BroadcastKeepsVisible, RestKeepsVisible DEF Work
<1>4. CASE UNCHANGED vars
  BY <1>4, SeenStutters DEF vars
<1>5. QED
  BY <1>1, <1>2, <1>3, <1>4, TickKeepsVisible DEF Next

LEMMA VisibilityHolds == Spec => []Visibility
<1>1. Init => Visibility
  BY VisibleAtStart
<1>2. GatewayInvariant /\ Visibility /\ [Next]_vars => Visibility'
  BY VisibilityPreserved
<1>3. QED
  BY <1>1, <1>2, GatewayInvariance, PTL DEF Spec

\* Whatever is placed elsewhere and however peeks, evictions and broadcasts interleave, a
\* chunk that nobody places into and that a subscriber has been shown cells of is in the
\* registry, so that it is ticked: it is not "visible but permanently frozen"
\* (gateway/router.go:145-148; simulation/registry.go, processJob).
THEOREM VisibleChunksLive == Spec => []VisibleIsLive
<1>1. Visibility => VisibleIsLive
  BY DEF Visibility, Kept, VisibleIsLive
<1>2. QED
  BY <1>1, VisibilityHolds, PTL
=============================================================================
