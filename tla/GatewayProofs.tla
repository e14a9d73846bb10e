---------------------------- MODULE GatewayProofs ----------------------------
(***************************************************************************)
(* Gateway keeps the promises of Exchange, skips no viewer and leaves no   *)
(* subscription behind, for every set of clients, chunks and commands and  *)
(* every size of sockets and of the worker pool.                           *)
(***************************************************************************)
EXTENDS Gateway, SequenceTheorems, TLAPS

USE GatewayAssumption

-----------------------------------------------------------------------------
(* The inductive invariant.                                                 *)

Messages == {AnswerTo(k, TRUE) : k \in Commands} \cup {AnswerTo(k, FALSE) : k \in Commands}
              \cup {StateOf(id) : id \in ChunkIDs}
Seen     == [cells : BOOLEAN, fresh : BOOLEAN]
Handlers == [pc : {"reading", "left"} \cup Handling \cup Serving, cmd : Commands \cup {Nil},
             todo : Seq(ChunkIDs), charged : Nat, ok : BOOLEAN, peeked : Seen]
Stages   == {"none", "queued", "ticked", "broadcast", "counting", "empty", "idle"}
Jobs     == [stage : Stages, todo : SUBSET Clients, to : Clients \cup {Nil}, cells : BOOLEAN]

\* How much of its command a handler has done, in each of its states: an answer is due
\* exactly to the commands that are not silent, a refused command has placed nothing,
\* and an acknowledged one everything.
Progress(h) ==
  /\ h.pc \in Handling => h.cmd \in Commands \ Silent
  /\ h.pc \in Serving => h.cmd \in Commands /\ h.todo # <<>>
  /\ h.pc = "charging" => h.todo = h.cmd.chunks /\ ~h.ok
  /\ h.pc = "placing" => h.todo # <<>> /\ ~h.ok /\ Len(h.todo) <= Len(h.cmd.chunks)
  /\ h.pc = "answering" => h.todo = IF h.ok THEN <<>> ELSE h.cmd.chunks

Channels ==
  /\ open \subseteq Clients
  /\ inbox \in [Clients -> Seq(Commands)]
  /\ wire \in [Clients -> Seq(Messages)]
  /\ \A c \in Clients : Len(inbox[c]) <= MaxInbox /\ Len(wire[c]) <= Buffer

HandlersOK ==
  /\ handler \in [Clients -> Handlers]
  /\ \A c \in Clients : Progress(handler[c])

Known ==
  /\ chunk \in [ChunkIDs -> [registered : BOOLEAN, cells : BOOLEAN, stored : BOOLEAN]]
  /\ told \in [Clients -> [ChunkIDs -> Seen]]

\* Whoever a broadcast is due to is a subscriber until the copy is taken, and in the rest
\* of the copy from then on.
Covered(id) ==
  /\ job[id].stage = "ticked" => due[id] \subseteq subscribers[id]
  /\ job[id].stage = "broadcast" => due[id] \subseteq job[id].todo /\ job[id].to \in job[id].todo
  /\ job[id].stage \notin {"ticked", "broadcast"} => due[id] = {}

Deliveries ==
  /\ subscribers \in [ChunkIDs -> SUBSET Clients]
  /\ due \in [ChunkIDs -> SUBSET Clients]
  /\ job \in [ChunkIDs -> Jobs]
  /\ ticking \in BOOLEAN
  /\ ~ticking => \A id \in ChunkIDs : job[id].stage = "none"
  /\ \A id \in ChunkIDs : Covered(id)

GatewayInvariant == Channels /\ HandlersOK /\ Known /\ NoGhostSubscribers /\ Deliveries

-----------------------------------------------------------------------------
(* Commands and handlers.                                                   *)

LEMMA CommandFields ==
  ASSUME NEW k \in Commands
  PROVE  /\ k.type \in Types /\ k.valid \in BOOLEAN /\ k.chunks \in Seq(ChunkIDs)
         /\ k \notin Silent => k.chunks # <<>>
         /\ k \in Silent <=> k.valid /\ k.type \notin Placements
<1>1. k \in [type : Types, valid : BOOLEAN, chunks : Seq(ChunkIDs)]
  OBVIOUS
<1>2. k.type \in Types /\ k.valid \in BOOLEAN /\ k.chunks \in Seq(ChunkIDs)
  BY <1>1
<1>3. k \in Silent <=> k.valid /\ k.type \notin Placements
  BY DEF Silent
<1>4. QED
  BY <1>2, <1>3

LEMMA ReadingIsIdle ==
  Reading \in Handlers /\ Progress(Reading) /\ Reading.pc = "reading"
BY DEF Reading, Handlers, Progress, Handling, Serving, Unseen, Seen

\* A command that has been read is answered in the end if it is not silent.
LEMMA DispatchedOK ==
  ASSUME NEW k \in Commands
  PROVE  /\ Dispatched(k) \in Handlers /\ Progress(Dispatched(k)) /\ Dispatched(k).pc # "left"
         /\ k \in Silent => Dispatched(k).pc \notin Handling
         /\ k \notin Silent => /\ Dispatched(k).pc \in Handling
                               /\ Dispatched(k).cmd = k /\ Dispatched(k).todo = k.chunks
<1> DEFINE h == [Reading EXCEPT !.cmd = k, !.todo = k.chunks]
           At(pc) == [h EXCEPT !.pc = pc]
<1>1. /\ k.type \in Types /\ k.valid \in BOOLEAN /\ k.chunks \in Seq(ChunkIDs)
      /\ k \notin Silent => k.chunks # <<>>
      /\ k \in Silent <=> k.valid /\ k.type \notin Placements
  BY CommandFields
<1>2. ASSUME NEW pc \in {"charging", "answering", "subscribing", "unsubscribing"}
      PROVE  /\ At(pc) \in Handlers /\ At(pc).pc = pc /\ At(pc).cmd = k
             /\ At(pc).todo = k.chunks /\ At(pc).ok = FALSE
  BY <1>1, <1>2 DEF Reading, Handlers, Handling, Serving, Unseen, Seen
<1> HIDE DEF At, h
<1>3. CASE k.type = "SPAWN" \/ (k.type \in Placements /\ k.valid)
  <2>1. Dispatched(k) = At("charging")
    BY <1>3 DEF Dispatched, At, h, Placements
  <2>2. k \notin Silent
    BY <1>1, <1>3 DEF Placements
  <2>3. QED
    BY <1>1, <1>2, <2>1, <2>2 DEF Progress, Handling, Serving
<1>4. CASE k.type # "SPAWN" /\ ~k.valid
  <2>1. Dispatched(k) = At("answering")
    BY <1>4 DEF Dispatched, At, h
  <2>2. k \notin Silent
    BY <1>1, <1>4
  <2>3. QED
    BY <1>1, <1>2, <2>1, <2>2 DEF Progress, Handling, Serving
<1>5. CASE k.type \notin Placements /\ k.valid
  <2>1. k \in Silent
    BY <1>1, <1>5
  <2>2. CASE k.type \in {"SUBSCRIBE", "UNSUBSCRIBE"} /\ k.chunks # <<>>
    <3>1. Dispatched(k) \in {At("subscribing"), At("unsubscribing")}
      BY <1>5, <2>2 DEF Dispatched, At, h, Placements
    <3>2. QED
      BY <1>1, <1>2, <2>1, <2>2, <3>1 DEF Progress, Handling, Serving
  <2>3. CASE ~(k.type \in {"SUBSCRIBE", "UNSUBSCRIBE"} /\ k.chunks # <<>>)
    <3>1. Dispatched(k) = Reading
      BY <1>5, <2>3 DEF Dispatched, At, h, Placements
    <3>2. QED
      BY <2>1, <3>1, ReadingIsIdle DEF Handling
  <2>4. QED
    BY <2>2, <2>3
<1>6. QED
  BY <1>1, <1>3, <1>4, <1>5

LEMMA ContinuedOK ==
  ASSUME NEW h \in Handlers, Progress(h), h.pc \in Serving,
         NEW pc \in {"subscribing", "unsubscribing"}
  PROVE  /\ Continued(h, pc) \in Handlers /\ Progress(Continued(h, pc))
         /\ Continued(h, pc).pc \notin Handling \cup {"left"}
<1>1. h.cmd \in Commands /\ h.todo # <<>> /\ h.todo \in Seq(ChunkIDs)
  BY DEF Progress, Handlers
<1>2. CASE Tail(h.todo) = <<>>
  BY <1>2, ReadingIsIdle DEF Continued, Handling
<1>3. CASE Tail(h.todo) # <<>>
  <2> DEFINE n == [h EXCEPT !.todo = Tail(@), !.pc = pc, !.peeked = Unseen]
  <2>1. Tail(h.todo) \in Seq(ChunkIDs)
    BY <1>1
  <2>2. n \in Handlers /\ n.pc = pc /\ n.cmd = h.cmd /\ n.todo = Tail(h.todo)
    BY <2>1 DEF Handlers, Unseen, Seen, Serving, Handling
  <2>3. Continued(h, pc) = n
    BY <1>3 DEF Continued
  <2>4. QED
    BY <1>1, <1>3, <2>2, <2>3 DEF Progress, Handling, Serving
<1>4. QED
  BY <1>2, <1>3

-----------------------------------------------------------------------------
(* Parts of steps.                                                          *)

LEMMA HandlerChanges ==
  ASSUME HandlersOK, NEW c \in Clients, NEW h \in Handlers, Progress(h),
         handler' = [handler EXCEPT ![c] = h]
  PROVE  HandlersOK'
<1>1. handler' \in [Clients -> Handlers]
  BY DEF HandlersOK
<1>2. \A d \in Clients : handler'[d] = IF d = c THEN h ELSE handler[d]
  BY DEF HandlersOK
<1>3. QED
  BY <1>1, <1>2 DEF HandlersOK, Progress

\* A handler that goes on has not left.
LEMMA NobodyLeaves ==
  ASSUME HandlersOK, NoGhostSubscribers, Deliveries, NEW c \in Clients, NEW h \in Handlers,
         h.pc # "left", handler' = [handler EXCEPT ![c] = h], UNCHANGED subscribers
  PROVE  NoGhostSubscribers'
<1>1. \A d \in Clients : handler'[d] = IF d = c THEN h ELSE handler[d]
  BY DEF HandlersOK
<1>2. \A id \in ChunkIDs : subscribers[id] \subseteq Clients
  BY DEF Deliveries
<1>3. QED
  BY <1>1, <1>2 DEF NoGhostSubscribers

LEMMA MessageWritten ==
  ASSUME Channels, NEW c \in Clients, NEW m \in Messages, WriteJSON(c, m),
         UNCHANGED <<open, inbox>>
  PROVE  Channels'
<1>1. CASE c \in open
  <2>1. wire' = [wire EXCEPT ![c] = Append(@, m)] /\ Len(wire[c]) < Buffer
    BY <1>1 DEF WriteJSON, CanWrite
  <2>2. wire[c] \in Seq(Messages)
    BY DEF Channels
  <2>3. Append(wire[c], m) \in Seq(Messages) /\ Len(Append(wire[c], m)) = Len(wire[c]) + 1
    BY <2>2
  <2>4. Len(wire[c]) \in Nat
    BY <2>2
  <2>5. wire' \in [Clients -> Seq(Messages)]
    BY <2>1, <2>3 DEF Channels
  <2>6. \A d \in Clients : wire'[d] = IF d = c THEN Append(wire[c], m) ELSE wire[d]
    BY <2>1 DEF Channels
  <2>7. \A d \in Clients : Len(wire'[d]) <= Buffer
    BY <2>1, <2>3, <2>4, <2>6 DEF Channels
  <2>8. QED
    BY <2>5, <2>7 DEF Channels
<1>2. CASE c \notin open
  BY <1>2 DEF WriteJSON, Channels
<1>3. QED
  BY <1>1, <1>2

LEMMA AnswersAreMessages ==
  ASSUME NEW k \in Commands, NEW ok \in BOOLEAN
  PROVE  AnswerTo(k, ok) \in Messages
<1>1. CASE ok
  BY <1>1 DEF Messages
<1>2. CASE ~ok
  BY <1>2 DEF Messages
<1>3. QED
  BY <1>1, <1>2

LEMMA StatesAreMessages ==
  ASSUME NEW id \in ChunkIDs
  PROVE  StateOf(id) \in Messages
BY DEF Messages

LEMMA HydratedOK ==
  ASSUME Known, NEW id \in ChunkIDs
  PROVE  Hydrated(id) \in [registered : BOOLEAN, cells : BOOLEAN, stored : BOOLEAN]
BY DEF Known, Hydrated

-----------------------------------------------------------------------------
(* Every step preserves the invariant.                                      *)

LEMMA InitEstablishes == Init => GatewayInvariant
<1> SUFFICES ASSUME Init
             PROVE  GatewayInvariant
  OBVIOUS
<1>1. Channels
  BY DEF Init, Channels
<1>2. HandlersOK
  BY ReadingIsIdle DEF Init, HandlersOK
<1>3. Known
  <2>1. PICK s \in [ChunkIDs -> BOOLEAN] :
          chunk = [id \in ChunkIDs |-> [registered |-> FALSE, cells |-> FALSE, stored |-> s[id]]]
    BY DEF Init
  <2>2. \A id \in ChunkIDs : s[id] \in BOOLEAN
    OBVIOUS
  <2>3. chunk \in [ChunkIDs -> [registered : BOOLEAN, cells : BOOLEAN, stored : BOOLEAN]]
    BY <2>1, <2>2
  <2>4. told \in [Clients -> [ChunkIDs -> Seen]]
    BY DEF Init, Unseen, Seen
  <2>5. QED
    BY <2>3, <2>4 DEF Known
<1>4. NoGhostSubscribers
  BY DEF Init, NoGhostSubscribers
<1>5. Deliveries
  BY DEF Init, Deliveries, Covered, NoJob, Jobs, Stages
<1>6. QED
  BY <1>1, <1>2, <1>3, <1>4, <1>5 DEF GatewayInvariant

LEMMA BrowserPreserves ==
  ASSUME GatewayInvariant, NEW c \in Clients,
         (\E k \in CommandsOf[c] : Send(c, k)) \/ Receive(c) \/ Disconnect(c)
  PROVE  GatewayInvariant'
<1>1. UNCHANGED <<handler, subscribers, chunk, ticking, job, told, due>>
  BY DEF Send, Receive, Disconnect
<1>2. inbox[c] \in Seq(Commands) /\ wire[c] \in Seq(Messages)
  BY DEF GatewayInvariant, Channels
<1>3. Channels'
  <2>1. ASSUME NEW k \in CommandsOf[c], Send(c, k)
        PROVE  Channels'
    <3>1. k \in Commands
      BY DEF Commands
    <3>2. inbox' = [inbox EXCEPT ![c] = Append(@, k)] /\ Len(inbox[c]) < MaxInbox
      BY <2>1 DEF Send
    <3>3. Append(inbox[c], k) \in Seq(Commands) /\ Len(Append(inbox[c], k)) = Len(inbox[c]) + 1
          /\ Len(inbox[c]) \in Nat
      BY <1>2, <3>1
    <3>4. inbox' \in [Clients -> Seq(Commands)]
      BY <3>2, <3>3 DEF GatewayInvariant, Channels
    <3>5. \A d \in Clients : inbox'[d] = IF d = c THEN Append(inbox[c], k) ELSE inbox[d]
      BY <3>2 DEF GatewayInvariant, Channels
    <3>6. \A d \in Clients : Len(inbox'[d]) <= MaxInbox
      BY <3>2, <3>3, <3>5 DEF GatewayInvariant, Channels
    <3>7. UNCHANGED <<open, wire>>
      BY <2>1 DEF Send
    <3>8. QED
      BY <3>4, <3>6, <3>7 DEF GatewayInvariant, Channels
  <2>2. CASE Receive(c)
    <3>1. wire' = [wire EXCEPT ![c] = Tail(@)] /\ wire[c] # <<>> /\ UNCHANGED <<open, inbox>>
      BY <2>2 DEF Receive
    <3>2. Tail(wire[c]) \in Seq(Messages) /\ Len(Tail(wire[c])) = Len(wire[c]) - 1
          /\ Len(wire[c]) \in Nat
      BY <1>2, <3>1
    <3>3. wire' \in [Clients -> Seq(Messages)]
      BY <3>1, <3>2 DEF GatewayInvariant, Channels
    <3>4. \A d \in Clients : wire'[d] = IF d = c THEN Tail(wire[c]) ELSE wire[d]
      BY <3>1 DEF GatewayInvariant, Channels
    <3>5. \A d \in Clients : Len(wire'[d]) <= Buffer
      <4>1. \A d \in Clients : Len(wire[d]) <= Buffer
        BY DEF GatewayInvariant, Channels
      <4>2. Len(Tail(wire[c])) <= Buffer
        BY <3>2, <4>1
      <4>3. QED
        BY <3>4, <4>1, <4>2
    <3>6. QED
      BY <3>1, <3>3, <3>5 DEF GatewayInvariant, Channels
  <2>3. CASE Disconnect(c)
    <3>1. PICK n \in 0 .. Len(inbox[c]) : inbox' = [inbox EXCEPT ![c] = SubSeq(@, 1, n)]
      BY <2>3 DEF Disconnect
    <3>2. open' = open \ {c} /\ wire' = [wire EXCEPT ![c] = <<>>]
      BY <2>3 DEF Disconnect
    <3>3. Len(inbox[c]) \in Nat
      BY <1>2
    <3>4. SubSeq(inbox[c], 1, n) \in Seq(Commands) /\ Len(SubSeq(inbox[c], 1, n)) = n
      <4>1. \A i \in 1 .. n : inbox[c][i] \in Commands
        BY <1>2, <3>3
      <4>2. QED
        BY <3>3, <4>1, SubSeqProperties
    <3>5. /\ inbox' \in [Clients -> Seq(Commands)]
          /\ \A d \in Clients : inbox'[d] = IF d = c THEN SubSeq(inbox[c], 1, n) ELSE inbox[d]
      BY <3>1, <3>4 DEF GatewayInvariant, Channels
    <3>6. /\ wire' \in [Clients -> Seq(Messages)]
          /\ \A d \in Clients : wire'[d] = IF d = c THEN <<>> ELSE wire[d]
      BY <3>2 DEF GatewayInvariant, Channels
    <3>7. \A d \in Clients : Len(inbox'[d]) <= MaxInbox
      BY <3>3, <3>4, <3>5 DEF GatewayInvariant, Channels
    <3>8. \A d \in Clients : Len(wire'[d]) <= Buffer
      BY <3>6 DEF GatewayInvariant, Channels
    <3>9. QED
      BY <3>2, <3>5, <3>6, <3>7, <3>8 DEF GatewayInvariant, Channels
  <2>4. QED
    BY <2>1, <2>2, <2>3
<1>4. QED
  BY <1>1, <1>3 DEF GatewayInvariant, HandlersOK, Known, NoGhostSubscribers, Deliveries, Covered

LEMMA ReadMessagePreserves ==
  ASSUME GatewayInvariant, NEW c \in Clients, ReadMessage(c)
  PROVE  GatewayInvariant'
<1> DEFINE h == Dispatched(Head(inbox[c]))
<1>1. inbox[c] \in Seq(Commands) /\ inbox[c] # <<>>
  BY DEF ReadMessage, GatewayInvariant, Channels
<1>2. /\ Head(inbox[c]) \in Commands /\ Tail(inbox[c]) \in Seq(Commands)
      /\ Len(Tail(inbox[c])) = Len(inbox[c]) - 1 /\ Len(inbox[c]) \in Nat
  BY <1>1
<1>3. h \in Handlers /\ Progress(h) /\ h.pc # "left"
  BY <1>2, DispatchedOK
<1>4. handler' = [handler EXCEPT ![c] = h] /\ inbox' = [inbox EXCEPT ![c] = Tail(@)]
  BY DEF ReadMessage
<1>5. UNCHANGED <<open, wire, subscribers, chunk, ticking, job, told, due>>
  BY DEF ReadMessage
<1> HIDE DEF h
<1>6. Channels'
  <2>1. inbox' \in [Clients -> Seq(Commands)]
    BY <1>2, <1>4 DEF GatewayInvariant, Channels
  <2>2. \A d \in Clients : inbox'[d] = IF d = c THEN Tail(inbox[c]) ELSE inbox[d]
    BY <1>4 DEF GatewayInvariant, Channels
  <2>3. \A d \in Clients : Len(inbox'[d]) <= MaxInbox
    <3>1. \A d \in Clients : Len(inbox[d]) <= MaxInbox
      BY DEF GatewayInvariant, Channels
    <3>2. Len(Tail(inbox[c])) <= MaxInbox
      BY <1>2, <3>1
    <3>3. QED
      BY <2>2, <3>1, <3>2
  <2>4. QED
    BY <1>5, <2>1, <2>3 DEF GatewayInvariant, Channels
<1>7. HandlersOK'
  BY <1>3, <1>4, HandlerChanges DEF GatewayInvariant
<1>8. NoGhostSubscribers'
  BY <1>3, <1>4, <1>5, NobodyLeaves DEF GatewayInvariant
<1>9. Known' /\ Deliveries'
  BY <1>5 DEF GatewayInvariant, Known, Deliveries, Covered
<1>10. QED
  BY <1>6, <1>7, <1>8, <1>9 DEF GatewayInvariant

LEMMA LeavePreserves ==
  ASSUME GatewayInvariant, NEW c \in Clients, Leave(c)
  PROVE  GatewayInvariant'
<1> DEFINE h == [handler[c] EXCEPT !.pc = "left"]
<1>1. handler[c] \in Handlers /\ handler[c].pc = "reading"
  BY DEF GatewayInvariant, HandlersOK, Leave
<1>2. h \in Handlers /\ Progress(h) /\ h.pc = "left"
  BY <1>1 DEF Handlers, Progress, Handling, Serving
<1>3. handler' = [handler EXCEPT ![c] = h]
  BY DEF Leave
<1> HIDE DEF h
<1>4. /\ subscribers' = [id \in ChunkIDs |-> subscribers[id] \ {c}]
      /\ due' = [id \in ChunkIDs |-> due[id] \ {c}]
      /\ told' = [told EXCEPT ![c] = [id \in ChunkIDs |-> Unseen]]
      /\ UNCHANGED <<open, inbox, wire, chunk, ticking, job>>
  BY DEF Leave
<1>5. HandlersOK'
  BY <1>2, <1>3, HandlerChanges DEF GatewayInvariant
<1>6. NoGhostSubscribers'
  <2>1. \A d \in Clients : d # c => handler'[d] = handler[d]
    BY <1>3 DEF GatewayInvariant, HandlersOK
  <2>2. \A id \in ChunkIDs : subscribers[id] \subseteq Clients
    BY DEF GatewayInvariant, Deliveries
  <2>3. \A id \in ChunkIDs : subscribers'[id] = subscribers[id] \ {c}
    BY <1>4
  <2>4. QED
    BY <2>1, <2>2, <2>3 DEF GatewayInvariant, NoGhostSubscribers
<1>7. Known'
  <2>1. [id \in ChunkIDs |-> Unseen] \in [ChunkIDs -> Seen]
    BY DEF Unseen, Seen
  <2>2. told' \in [Clients -> [ChunkIDs -> Seen]]
    BY <1>4, <2>1 DEF GatewayInvariant, Known
  <2>3. QED
    BY <1>4, <2>2 DEF GatewayInvariant, Known
<1>8. Deliveries'
  <2>1. \A id \in ChunkIDs : /\ subscribers'[id] = subscribers[id] \ {c}
                             /\ due'[id] = due[id] \ {c}
    BY <1>4
  <2>2. /\ subscribers' \in [ChunkIDs -> SUBSET Clients]
        /\ due' \in [ChunkIDs -> SUBSET Clients]
    BY <1>4 DEF GatewayInvariant, Deliveries
  <2>3. \A id \in ChunkIDs : Covered(id)'
    BY <1>4, <2>1 DEF GatewayInvariant, Deliveries, Covered
  <2>4. QED
    BY <1>4, <2>2, <2>3 DEF GatewayInvariant, Deliveries
<1>9. Channels'
  BY <1>4 DEF GatewayInvariant, Channels
<1>10. QED
  BY <1>5, <1>6, <1>7, <1>8, <1>9 DEF GatewayInvariant

\* The steps of a handler that change nothing but the handler and, for two of them, a chunk.
LEMMA ServicePreserves ==
  ASSUME GatewayInvariant, NEW c \in Clients, NEW h \in Handlers, Progress(h), h.pc # "left",
         handler' = [handler EXCEPT ![c] = h],
         \/ UNCHANGED chunk
         \/ \E id \in ChunkIDs : \E s \in [registered : BOOLEAN, cells : BOOLEAN, stored : BOOLEAN] :
              chunk' = [chunk EXCEPT ![id] = s],
         UNCHANGED <<open, inbox, wire, subscribers, ticking, job, told, due>>
  PROVE  GatewayInvariant'
<1>1. HandlersOK'
  BY HandlerChanges DEF GatewayInvariant
<1>2. NoGhostSubscribers'
  BY NobodyLeaves DEF GatewayInvariant
<1>3. Known'
  BY DEF GatewayInvariant, Known
<1>4. Channels' /\ Deliveries'
  BY DEF GatewayInvariant, Channels, Deliveries, Covered
<1>5. QED
  BY <1>1, <1>2, <1>3, <1>4 DEF GatewayInvariant

LEMMA ChargePreserves ==
  ASSUME GatewayInvariant, NEW c \in Clients, Charge(c) \/ Drain(c)
  PROVE  GatewayInvariant'
<1> DEFINE h == handler[c]
           refused == [h EXCEPT !.pc = "answering", !.charged = 0]
           counted == [h EXCEPT !.charged = @ + 1]
           paid    == [h EXCEPT !.pc = "placing", !.charged = 0]
           drained == [h EXCEPT !.pc = "placing"]
           empty   == [h EXCEPT !.pc = "answering"]
<1>1. /\ h \in Handlers /\ Progress(h) /\ h.pc = "charging"
      /\ h.cmd \in Commands \ Silent /\ h.todo = h.cmd.chunks /\ ~h.ok
  BY DEF GatewayInvariant, HandlersOK, Charge, Drain, Progress, Handling
<1>2. h.todo # <<>> /\ Len(h.todo) <= Len(h.cmd.chunks)
  <2>1. h.todo # <<>> /\ h.todo \in Seq(ChunkIDs)
    BY <1>1, CommandFields
  <2>2. QED
    BY <1>1, <2>1
<1>3. \E n \in {refused, counted, paid, drained, empty} : handler' = [handler EXCEPT ![c] = n]
  <2>1. CASE Charge(c)
    BY <2>1 DEF Charge
  <2>2. CASE Drain(c)
    BY <2>2 DEF Drain
  <2>3. QED
    BY <2>1, <2>2
<1>4. UNCHANGED <<open, inbox, wire, subscribers, chunk, ticking, job, told, due>>
  BY DEF Charge, Drain
<1>5. ASSUME NEW n \in {refused, counted, paid, drained, empty}
      PROVE  n \in Handlers /\ Progress(n) /\ n.pc # "left"
  <2>1. /\ n \in Handlers /\ n.pc \in {"charging", "placing", "answering"}
        /\ n.cmd = h.cmd /\ n.todo = h.todo /\ n.ok = h.ok
    <3>1. h.charged + 1 \in Nat
      BY <1>1 DEF Handlers
    <3>2. /\ refused \in Handlers /\ refused.pc = "answering"
          /\ refused.cmd = h.cmd /\ refused.todo = h.todo /\ refused.ok = h.ok
      BY <1>1 DEF Handlers, Handling
    <3>3. /\ counted \in Handlers /\ counted.pc = "charging"
          /\ counted.cmd = h.cmd /\ counted.todo = h.todo /\ counted.ok = h.ok
      BY <1>1, <3>1 DEF Handlers, Handling
    <3>4. /\ paid \in Handlers /\ paid.pc = "placing"
          /\ paid.cmd = h.cmd /\ paid.todo = h.todo /\ paid.ok = h.ok
      BY <1>1 DEF Handlers, Handling
    <3>5. /\ drained \in Handlers /\ drained.pc = "placing"
          /\ drained.cmd = h.cmd /\ drained.todo = h.todo /\ drained.ok = h.ok
      BY <1>1 DEF Handlers, Handling
    <3>6. /\ empty \in Handlers /\ empty.pc = "answering"
          /\ empty.cmd = h.cmd /\ empty.todo = h.todo /\ empty.ok = h.ok
      BY <1>1 DEF Handlers, Handling
    <3> HIDE DEF refused, counted, paid, drained, empty
    <3>7. QED
      BY <1>5, <3>2, <3>3, <3>4, <3>5, <3>6
  <2>2. QED
    BY <1>1, <1>2, <2>1 DEF Progress, Handling, Serving
<1>6. PICK n \in {refused, counted, paid, drained, empty} : handler' = [handler EXCEPT ![c] = n]
  BY <1>3
<1> HIDE DEF refused, counted, paid, drained, empty, h
<1>7. QED
  BY <1>4, <1>5, <1>6, ServicePreserves

LEMMA PlaceCellPreserves ==
  ASSUME GatewayInvariant, NEW c \in Clients, PlaceCell(c)
  PROVE  GatewayInvariant'
<1> DEFINE id == Head(handler[c].todo)
           rest == Tail(handler[c].todo)
           h == [handler[c] EXCEPT !.todo = rest, !.ok = (rest = <<>>),
                   !.pc = IF rest = <<>> THEN "answering" ELSE "placing"]
           s == [Hydrated(id) EXCEPT !.cells = TRUE]
<1>1. /\ handler[c] \in Handlers /\ Progress(handler[c]) /\ handler[c].pc = "placing"
      /\ handler[c].cmd \in Commands \ Silent
      /\ handler[c].todo # <<>> /\ handler[c].todo \in Seq(ChunkIDs)
      /\ Len(handler[c].todo) <= Len(handler[c].cmd.chunks)
  BY DEF GatewayInvariant, HandlersOK, PlaceCell, Progress, Handling, Handlers
<1>2. /\ id \in ChunkIDs /\ rest \in Seq(ChunkIDs)
      /\ Len(rest) = Len(handler[c].todo) - 1 /\ Len(handler[c].todo) \in Nat
  BY <1>1
<1>3. Len(handler[c].cmd.chunks) \in Nat
  BY <1>1, CommandFields
<1>4. /\ h \in Handlers /\ h.cmd = handler[c].cmd /\ h.todo = rest
      /\ h.ok = (rest = <<>>) /\ h.pc = IF rest = <<>> THEN "answering" ELSE "placing"
  BY <1>1, <1>2 DEF Handlers, Handling, Serving
<1>5. handler' = [handler EXCEPT ![c] = h] /\ chunk' = [chunk EXCEPT ![id] = s]
  BY DEF PlaceCell
<1>6. s \in [registered : BOOLEAN, cells : BOOLEAN, stored : BOOLEAN]
  BY <1>2, HydratedOK DEF GatewayInvariant
<1>7. UNCHANGED <<open, inbox, wire, subscribers, ticking, job, told, due>>
  BY DEF PlaceCell
<1> HIDE DEF h, s, id, rest
<1>8. Progress(h) /\ h.pc # "left"
  <2>1. CASE rest = <<>>
    BY <1>1, <1>4, <2>1 DEF Progress, Handling, Serving
  <2>2. CASE rest # <<>>
    <3>1. Len(rest) <= Len(h.cmd.chunks)
      BY <1>1, <1>2, <1>3, <1>4
    <3>2. QED
      BY <1>1, <1>4, <2>2, <3>1 DEF Progress, Handling, Serving
  <2>3. QED
    BY <2>1, <2>2
<1>9. QED
  BY <1>2, <1>4, <1>5, <1>6, <1>7, <1>8, ServicePreserves

LEMMA PeekChunkPreserves ==
  ASSUME GatewayInvariant, NEW c \in Clients, PeekChunk(c)
  PROVE  GatewayInvariant'
<1> DEFINE found == [handler[c] EXCEPT !.pc = "registering", !.peeked = [cells |-> TRUE, fresh |-> TRUE]]
           none  == Continued(handler[c], "subscribing")
<1>1. handler[c] \in Handlers /\ Progress(handler[c]) /\ handler[c].pc = "peeking"
  BY DEF GatewayInvariant, HandlersOK, PeekChunk
<1>2. \E h \in {found, none} : handler' = [handler EXCEPT ![c] = h]
  BY DEF PeekChunk
<1>3. found \in Handlers /\ Progress(found) /\ found.pc # "left"
  BY <1>1 DEF Handlers, Handling, Serving, Seen, Progress
<1>4. none \in Handlers /\ Progress(none) /\ none.pc # "left"
  BY <1>1, ContinuedOK DEF Serving
<1>5. UNCHANGED <<open, inbox, wire, subscribers, chunk, ticking, job, told, due>>
  BY DEF PeekChunk
<1> HIDE DEF found, none
<1>6. PICK h \in {found, none} : handler' = [handler EXCEPT ![c] = h]
  BY <1>2
<1>7. QED
  BY <1>3, <1>4, <1>5, <1>6, ServicePreserves

LEMMA GetOrCreatePreserves ==
  ASSUME GatewayInvariant, NEW c \in Clients, GetOrCreate(c)
  PROVE  GatewayInvariant'
<1> DEFINE id == Head(handler[c].todo)
           h == [handler[c] EXCEPT !.pc = "showing"]
<1>1. handler[c] \in Handlers /\ Progress(handler[c]) /\ handler[c].pc = "registering"
  BY DEF GatewayInvariant, HandlersOK, GetOrCreate
<1>2. id \in ChunkIDs
  BY <1>1 DEF Progress, Handlers, Serving
<1>3. h \in Handlers /\ Progress(h) /\ h.pc # "left"
  BY <1>1 DEF Handlers, Handling, Serving, Progress
<1>4. handler' = [handler EXCEPT ![c] = h] /\ chunk' = [chunk EXCEPT ![id] = Hydrated(id)]
  BY DEF GetOrCreate
<1>5. Hydrated(id) \in [registered : BOOLEAN, cells : BOOLEAN, stored : BOOLEAN]
  BY <1>2, HydratedOK DEF GatewayInvariant
<1>6. UNCHANGED <<open, inbox, wire, subscribers, ticking, job, told, due>>
  BY DEF GetOrCreate
<1> HIDE DEF h, id
<1>7. QED
  BY <1>2, <1>3, <1>4, <1>5, <1>6, ServicePreserves

LEMMA AnswerPreserves ==
  ASSUME GatewayInvariant, NEW c \in Clients, Answer(c)
  PROVE  GatewayInvariant'
<1>1. /\ handler[c] \in Handlers /\ Progress(handler[c]) /\ handler[c].pc = "answering"
      /\ handler[c].cmd \in Commands
  BY DEF GatewayInvariant, HandlersOK, Answer, Progress, Handling
<1>2. AnswerTo(handler[c].cmd, handler[c].ok) \in Messages
  BY <1>1, AnswersAreMessages DEF Handlers
<1>3. /\ WriteJSON(c, AnswerTo(handler[c].cmd, handler[c].ok))
      /\ handler' = [handler EXCEPT ![c] = Reading]
      /\ UNCHANGED <<open, inbox, subscribers, chunk, ticking, job, told, due>>
  BY DEF Answer
<1>4. Channels'
  BY <1>2, <1>3, MessageWritten DEF GatewayInvariant
<1>5. HandlersOK'
  BY <1>3, ReadingIsIdle, HandlerChanges DEF GatewayInvariant
<1>6. NoGhostSubscribers'
  BY <1>3, ReadingIsIdle, NobodyLeaves DEF GatewayInvariant
<1>7. Known' /\ Deliveries'
  BY <1>3 DEF GatewayInvariant, Known, Deliveries, Covered
<1>8. QED
  BY <1>4, <1>5, <1>6, <1>7 DEF GatewayInvariant

LEMMA ShowPreserves ==
  ASSUME GatewayInvariant, NEW c \in Clients, Show(c)
  PROVE  GatewayInvariant'
<1> DEFINE id == Head(handler[c].todo)
           h == Continued(handler[c], "subscribing")
           p == handler[c].peeked
<1>1. handler[c] \in Handlers /\ Progress(handler[c]) /\ handler[c].pc = "showing"
  BY DEF GatewayInvariant, HandlersOK, Show
<1>2. id \in ChunkIDs /\ p \in Seen
  BY <1>1 DEF Progress, Handlers, Serving
<1>3. h \in Handlers /\ Progress(h) /\ h.pc # "left"
  BY <1>1, ContinuedOK DEF Serving
<1>4. /\ WriteJSON(c, StateOf(id))
      /\ handler' = [handler EXCEPT ![c] = h]
      /\ told' = [told EXCEPT ![c][id] = p]
      /\ UNCHANGED <<open, inbox, subscribers, chunk, ticking, job, due>>
  BY DEF Show
<1> HIDE DEF h, id, p
<1>5. Channels'
  BY <1>2, <1>4, StatesAreMessages, MessageWritten DEF GatewayInvariant
<1>6. HandlersOK'
  BY <1>3, <1>4, HandlerChanges DEF GatewayInvariant
<1>7. NoGhostSubscribers'
  BY <1>3, <1>4, NobodyLeaves DEF GatewayInvariant
<1>8. Known'
  <2>1. told[c] \in [ChunkIDs -> Seen]
    BY DEF GatewayInvariant, Known
  <2>2. [told[c] EXCEPT ![id] = p] \in [ChunkIDs -> Seen]
    BY <1>2, <2>1
  <2>3. told' \in [Clients -> [ChunkIDs -> Seen]]
    BY <1>4, <2>2 DEF GatewayInvariant, Known
  <2>4. QED
    BY <1>4, <2>3 DEF GatewayInvariant, Known
<1>9. Deliveries'
  BY <1>4 DEF GatewayInvariant, Deliveries, Covered
<1>10. QED
  BY <1>5, <1>6, <1>7, <1>8, <1>9 DEF GatewayInvariant

\* What a client has been told of a chunk is forgotten or noted.
LEMMA ToldChanges ==
  ASSUME Known, NEW c \in Clients, NEW id \in ChunkIDs, NEW p \in Seen,
         told' = [told EXCEPT ![c][id] = p], UNCHANGED chunk
  PROVE  Known'
<1>1. told[c] \in [ChunkIDs -> Seen]
  BY DEF Known
<1>2. [told[c] EXCEPT ![id] = p] \in [ChunkIDs -> Seen]
  BY <1>1
<1>3. told' \in [Clients -> [ChunkIDs -> Seen]]
  BY <1>2 DEF Known
<1>4. QED
  BY <1>3 DEF Known

LEMMA SubscribePreserves ==
  ASSUME GatewayInvariant, NEW c \in Clients, Subscribe(c)
  PROVE  GatewayInvariant'
<1> DEFINE id == Head(handler[c].todo)
           h == [handler[c] EXCEPT !.pc = "peeking"]
<1>1. handler[c] \in Handlers /\ Progress(handler[c]) /\ handler[c].pc = "subscribing"
  BY DEF GatewayInvariant, HandlersOK, Subscribe
<1>2. id \in ChunkIDs
  BY <1>1 DEF Progress, Handlers, Serving
<1>3. h \in Handlers /\ Progress(h) /\ h.pc # "left"
  BY <1>1 DEF Handlers, Handling, Serving, Progress
<1>4. /\ handler' = [handler EXCEPT ![c] = h]
      /\ subscribers' = [subscribers EXCEPT ![id] = @ \cup {c}]
      /\ told' = [told EXCEPT ![c][id] = Unseen]
      /\ UNCHANGED <<open, inbox, wire, chunk, ticking, job, due>>
  BY DEF Subscribe
<1>5. Unseen \in Seen
  BY DEF Unseen, Seen
<1>6. handler[c].pc # "left"
  BY <1>1
<1> HIDE DEF h, id
<1>7. HandlersOK'
  BY <1>3, <1>4, HandlerChanges DEF GatewayInvariant
<1>8. Known'
  BY <1>2, <1>4, <1>5, ToldChanges DEF GatewayInvariant
<1>9. /\ subscribers' \in [ChunkIDs -> SUBSET Clients]
      /\ \A i \in ChunkIDs : /\ subscribers[i] \subseteq subscribers'[i]
                             /\ subscribers'[i] \subseteq subscribers[i] \cup {c}
  BY <1>2, <1>4 DEF GatewayInvariant, Deliveries
<1>10. NoGhostSubscribers'
  <2>1. \A d \in Clients : handler'[d] = IF d = c THEN h ELSE handler[d]
    BY <1>4 DEF GatewayInvariant, HandlersOK
  <2>2. \A i \in ChunkIDs : subscribers[i] \subseteq Clients
    BY DEF GatewayInvariant, Deliveries
  <2>3. QED
    BY <1>3, <1>9, <2>1, <2>2 DEF GatewayInvariant, NoGhostSubscribers
<1>11. Deliveries'
  <2>1. \A i \in ChunkIDs : Covered(i)'
    BY <1>4, <1>9 DEF GatewayInvariant, Deliveries, Covered
  <2>2. QED
    BY <1>4, <1>9, <2>1 DEF GatewayInvariant, Deliveries
<1>12. Channels'
  BY <1>4 DEF GatewayInvariant, Channels
<1>13. QED
  BY <1>7, <1>8, <1>10, <1>11, <1>12 DEF GatewayInvariant

LEMMA UnsubscribePreserves ==
  ASSUME GatewayInvariant, NEW c \in Clients, Unsubscribe(c)
  PROVE  GatewayInvariant'
<1> DEFINE id == Head(handler[c].todo)
           h == Continued(handler[c], "unsubscribing")
<1>1. handler[c] \in Handlers /\ Progress(handler[c]) /\ handler[c].pc = "unsubscribing"
  BY DEF GatewayInvariant, HandlersOK, Unsubscribe
<1>2. id \in ChunkIDs
  BY <1>1 DEF Progress, Handlers, Serving
<1>3. h \in Handlers /\ Progress(h) /\ h.pc # "left"
  BY <1>1, ContinuedOK DEF Serving
<1>4. /\ handler' = [handler EXCEPT ![c] = h]
      /\ subscribers' = [subscribers EXCEPT ![id] = @ \ {c}]
      /\ due' = [due EXCEPT ![id] = @ \ {c}]
      /\ told' = [told EXCEPT ![c][id] = Unseen]
      /\ UNCHANGED <<open, inbox, wire, chunk, ticking, job>>
  BY DEF Unsubscribe
<1>5. Unseen \in Seen
  BY DEF Unseen, Seen
<1> HIDE DEF h, id
<1>6. HandlersOK'
  BY <1>3, <1>4, HandlerChanges DEF GatewayInvariant
<1>7. Known'
  BY <1>2, <1>4, <1>5, ToldChanges DEF GatewayInvariant
<1>8. /\ subscribers' \in [ChunkIDs -> SUBSET Clients]
      /\ due' \in [ChunkIDs -> SUBSET Clients]
      /\ \A i \in ChunkIDs : subscribers'[i] = IF i = id THEN subscribers[i] \ {c} ELSE subscribers[i]
      /\ \A i \in ChunkIDs : due'[i] = IF i = id THEN due[i] \ {c} ELSE due[i]
  BY <1>2, <1>4 DEF GatewayInvariant, Deliveries
<1>9. NoGhostSubscribers'
  <2>1. \A d \in Clients : handler'[d] = IF d = c THEN h ELSE handler[d]
    BY <1>4 DEF GatewayInvariant, HandlersOK
  <2>2. \A i \in ChunkIDs : subscribers[i] \subseteq Clients /\ subscribers'[i] \subseteq subscribers[i]
    BY <1>8 DEF GatewayInvariant, Deliveries
  <2>3. QED
    BY <1>3, <2>1, <2>2 DEF GatewayInvariant, NoGhostSubscribers
<1>10. Deliveries'
  <2>1. \A i \in ChunkIDs : Covered(i)'
    BY <1>4, <1>8 DEF GatewayInvariant, Deliveries, Covered
  <2>2. QED
    BY <1>4, <1>8, <2>1 DEF GatewayInvariant, Deliveries
<1>11. Channels'
  BY <1>4 DEF GatewayInvariant, Channels
<1>12. QED
  BY <1>6, <1>7, <1>9, <1>10, <1>11 DEF GatewayInvariant

LEMMA TickPreserves ==
  ASSUME GatewayInvariant, TickStart \/ TickEnd
  PROVE  GatewayInvariant'
<1>1. UNCHANGED <<open, inbox, wire, handler, subscribers, chunk, told, due>>
  BY DEF TickStart, TickEnd
<1>2. Deliveries'
  <2>1. CASE TickStart
    <3> DEFINE start == [NoJob EXCEPT !.stage = "queued"]
    <3>1. /\ NoJob \in Jobs /\ NoJob.stage = "none"
          /\ start \in Jobs /\ start.stage = "queued"
      BY DEF NoJob, Jobs, Stages
    <3>2. ticking' = TRUE /\ \A id \in ChunkIDs : job[id].stage = "none"
      BY <2>1 DEF TickStart, GatewayInvariant, Deliveries
    <3>3. \A id \in ChunkIDs : due[id] = {}
      BY <3>2 DEF GatewayInvariant, Deliveries, Covered
    <3>4. job' = [id \in ChunkIDs |-> IF chunk[id].registered THEN start ELSE NoJob]
      BY <2>1 DEF TickStart
    <3> HIDE DEF start
    <3>5. job' \in [ChunkIDs -> Jobs] /\ \A id \in ChunkIDs : job'[id].stage \in {"none", "queued"}
      BY <3>1, <3>4
    <3>6. \A id \in ChunkIDs : Covered(id)'
      BY <1>1, <3>3, <3>5 DEF Covered
    <3>7. QED
      BY <1>1, <3>2, <3>5, <3>6 DEF GatewayInvariant, Deliveries
  <2>2. CASE TickEnd
    BY <1>1, <2>2 DEF TickEnd, GatewayInvariant, Deliveries, Covered
  <2>3. QED
    BY <2>1, <2>2
<1>3. QED
  BY <1>1, <1>2 DEF GatewayInvariant, Channels, HandlersOK, Known, NoGhostSubscribers

\* A worker goes on with its job.
LEMMA JobChanges ==
  ASSUME Deliveries, NEW id \in ChunkIDs, NEW j \in Jobs,
         job' = [job EXCEPT ![id] = j], job[id].stage # "none",
         NEW D \in SUBSET Clients, due' = [due EXCEPT ![id] = D],
         UNCHANGED <<subscribers, ticking>>,
         /\ j.stage = "ticked" => D \subseteq subscribers[id]
         /\ j.stage = "broadcast" => D \subseteq j.todo /\ j.to \in j.todo
         /\ j.stage \notin {"ticked", "broadcast"} => D = {}
  PROVE  Deliveries'
<1>1. job' \in [ChunkIDs -> Jobs] /\ due' \in [ChunkIDs -> SUBSET Clients]
  BY DEF Deliveries
<1>2. \A i \in ChunkIDs : /\ job'[i] = IF i = id THEN j ELSE job[i]
                          /\ due'[i] = IF i = id THEN D ELSE due[i]
  BY DEF Deliveries
<1>3. Covered(id)'
  BY <1>2 DEF Covered
<1>4. \A i \in ChunkIDs : Covered(i)'
  BY <1>2, <1>3 DEF Deliveries, Covered
<1>5. ticking
  BY DEF Deliveries
<1>6. QED
  BY <1>1, <1>4, <1>5 DEF Deliveries

LEMMA TickChunkPreserves ==
  ASSUME GatewayInvariant, NEW id \in ChunkIDs, TickChunk(id)
  PROVE  GatewayInvariant'
<1> DEFINE j == [job[id] EXCEPT !.stage = "ticked"]
           old(c) == handler[c].todo # <<>> /\ Head(handler[c].todo) = id
<1>1. job[id] \in Jobs /\ job[id].stage = "queued"
  BY DEF TickChunk, GatewayInvariant, Deliveries
<1>2. j \in Jobs /\ j.stage = "ticked"
  BY <1>1 DEF Jobs, Stages
<1>3. /\ job' = [job EXCEPT ![id] = j]
      /\ due' = [due EXCEPT ![id] = subscribers[id]]
      /\ handler' = [c \in Clients |-> [handler[c] EXCEPT !.peeked = Stale(@, old(c))]]
      /\ told' = [c \in Clients |-> [told[c] EXCEPT ![id] = Stale(@, TRUE)]]
      /\ UNCHANGED <<open, inbox, wire, subscribers, ticking>>
  BY DEF TickChunk
<1>4. ASSUME NEW p \in Seen, NEW b
      PROVE  Stale(p, b) \in Seen
  BY DEF Stale, Seen
<1>5. subscribers[id] \in SUBSET Clients
  BY DEF GatewayInvariant, Deliveries
<1>6. Deliveries'
  <2> HIDE DEF j
  <2>1. QED
    BY <1>1, <1>2, <1>3, <1>5, JobChanges DEF GatewayInvariant
<1>7. ASSUME NEW c \in Clients
      PROVE  /\ handler'[c] \in Handlers /\ handler'[c].pc = handler[c].pc
             /\ handler'[c].cmd = handler[c].cmd /\ handler'[c].todo = handler[c].todo
             /\ handler'[c].ok = handler[c].ok
  <2>1. handler[c] \in Handlers
    BY DEF GatewayInvariant, HandlersOK
  <2>2. handler[c].peeked \in Seen
    BY <2>1 DEF Handlers
  <2>3. PICK p \in Seen : handler'[c] = [handler[c] EXCEPT !.peeked = p]
    BY <1>3, <1>4, <2>2
  <2>4. QED
    BY <2>1, <2>3 DEF Handlers
<1>8. HandlersOK'
  <2>1. handler' = [c \in Clients |-> handler'[c]]
    BY <1>3
  <2>2. handler' \in [Clients -> Handlers]
    BY <1>7, <2>1
  <2>3. \A c \in Clients : Progress(handler[c])
    BY DEF GatewayInvariant, HandlersOK
  <2>4. \A c \in Clients : Progress(handler'[c])
    BY <1>7, <2>3 DEF Progress
  <2>5. QED
    BY <2>2, <2>4 DEF HandlersOK
<1>9. NoGhostSubscribers'
  <2>1. \A i \in ChunkIDs : subscribers[i] \subseteq Clients
    BY DEF GatewayInvariant, Deliveries
  <2>2. QED
    BY <1>3, <1>7, <2>1 DEF GatewayInvariant, NoGhostSubscribers
<1>10. Known'
  <2>1. PICK alive \in BOOLEAN : chunk' = [chunk EXCEPT ![id].cells = alive]
    BY DEF TickChunk
  <2>2. chunk' \in [ChunkIDs -> [registered : BOOLEAN, cells : BOOLEAN, stored : BOOLEAN]]
    BY <2>1 DEF GatewayInvariant, Known
  <2>3. ASSUME NEW c \in Clients
        PROVE  told'[c] \in [ChunkIDs -> Seen]
    <3>1. told[c] \in [ChunkIDs -> Seen]
      BY DEF GatewayInvariant, Known
    <3>2. Stale(told[c][id], TRUE) \in Seen
      BY <1>4, <3>1
    <3>3. QED
      BY <1>3, <3>1, <3>2
  <2>4. told' \in [Clients -> [ChunkIDs -> Seen]]
    BY <1>3, <2>3
  <2>5. QED
    BY <2>2, <2>4 DEF Known
<1>11. Channels'
  BY <1>3 DEF GatewayInvariant, Channels
<1>12. QED
  BY <1>6, <1>8, <1>9, <1>10, <1>11 DEF GatewayInvariant

\* The next write of a broadcast, or its end: whoever is still due is still in the copy.
LEMMA SendNextOK ==
  ASSUME Deliveries, NEW id \in ChunkIDs, NEW copy \in SUBSET Clients, NEW cells \in BOOLEAN,
         SendNext(id, copy, cells), job[id].stage # "none",
         NEW D \in SUBSET copy, due' = [due EXCEPT ![id] = D],
         UNCHANGED <<subscribers, ticking>>
  PROVE  Deliveries'
<1>1. D \in SUBSET Clients
  OBVIOUS
<1>2. CASE copy = {}
  <2> DEFINE j == [NoJob EXCEPT !.stage = "counting"]
  <2>1. j \in Jobs /\ j.stage = "counting" /\ D = {}
    BY <1>2 DEF NoJob, Jobs, Stages
  <2>2. job' = [job EXCEPT ![id] = j]
    BY <1>2 DEF SendNext
  <2> HIDE DEF j
  <2>3. QED
    BY <1>1, <2>1, <2>2, JobChanges
<1>3. CASE copy # {}
  <2>1. PICK c \in copy : job' = [job EXCEPT ![id] =
          [stage |-> "broadcast", todo |-> copy, to |-> c, cells |-> cells]]
    BY <1>3 DEF SendNext
  <2> DEFINE j == [stage |-> "broadcast", todo |-> copy, to |-> c, cells |-> cells]
  <2>2. j \in Jobs /\ j.stage = "broadcast" /\ j.todo = copy /\ j.to = c
    BY DEF Jobs, Stages
  <2>3. job' = [job EXCEPT ![id] = j]
    BY <2>1
  <2> HIDE DEF j
  <2>4. QED
    BY <1>1, <2>2, <2>3, JobChanges
<1>4. QED
  BY <1>2, <1>3

LEMMA BroadcastPreserves ==
  ASSUME GatewayInvariant, NEW id \in ChunkIDs, Broadcast(id)
  PROVE  GatewayInvariant'
<1> DEFINE copy == subscribers[id]
           cells == chunk[id].cells
           D == due[id]
<1>1. /\ job[id].stage = "ticked" /\ SendNext(id, copy, cells)
      /\ UNCHANGED <<open, inbox, wire, handler, subscribers, chunk, ticking, told, due>>
  BY DEF Broadcast
<1>2. copy \in SUBSET Clients /\ D \in SUBSET copy
  BY <1>1 DEF GatewayInvariant, Deliveries, Covered
<1>3. cells \in BOOLEAN
  <2>1. chunk[id] \in [registered : BOOLEAN, cells : BOOLEAN, stored : BOOLEAN]
    BY DEF GatewayInvariant, Known
  <2>2. QED
    BY <2>1
<1>4. due' = [due EXCEPT ![id] = D]
  <2>1. due \in [ChunkIDs -> SUBSET Clients] /\ due' = due
    BY <1>1 DEF GatewayInvariant, Deliveries
  <2>2. QED
    BY <2>1
<1>5. Deliveries /\ job[id].stage # "none" /\ UNCHANGED <<subscribers, ticking>>
  BY <1>1 DEF GatewayInvariant
<1> HIDE DEF copy, cells, D
<1>6. Deliveries'
  BY <1>1, <1>2, <1>3, <1>4, <1>5, SendNextOK
<1>7. QED
  BY <1>1, <1>6 DEF GatewayInvariant, Channels, HandlersOK, Known, NoGhostSubscribers

LEMMA DeliverPreserves ==
  ASSUME GatewayInvariant, NEW id \in ChunkIDs, Deliver(id)
  PROVE  GatewayInvariant'
<1> DEFINE c == job[id].to
           p == [cells |-> job[id].cells, fresh |-> TRUE]
           copy == job[id].todo \ {c}
<1>1. /\ job[id].stage = "broadcast" /\ WriteJSON(c, StateOf(id))
      /\ told' = [told EXCEPT ![c][id] = p]
      /\ due' = [due EXCEPT ![id] = @ \ {c}]
      /\ SendNext(id, copy, job[id].cells)
      /\ UNCHANGED <<open, inbox, handler, subscribers, chunk, ticking>>
  BY DEF Deliver
<1>2. /\ job[id] \in Jobs /\ due[id] \subseteq job[id].todo /\ c \in job[id].todo
      /\ due \in [ChunkIDs -> SUBSET Clients]
  BY <1>1 DEF GatewayInvariant, Deliveries, Covered
<1>3. c \in Clients /\ job[id].cells \in BOOLEAN /\ p \in Seen /\ copy \in SUBSET Clients
  BY <1>2 DEF Jobs, Seen
<1>4. due[id] \ {c} \in SUBSET copy /\ due' = [due EXCEPT ![id] = due[id] \ {c}]
  BY <1>1, <1>2
<1> HIDE DEF c, p, copy
<1>5. Deliveries'
  <2>1. Deliveries /\ job[id].stage # "none" /\ UNCHANGED <<subscribers, ticking>>
    BY <1>1 DEF GatewayInvariant
  <2>2. QED
    BY <1>1, <1>3, <1>4, <2>1, SendNextOK
<1>6. Channels'
  <2>1. Channels /\ StateOf(id) \in Messages
    BY StatesAreMessages DEF GatewayInvariant
  <2>2. QED
    BY <1>1, <1>3, <2>1, MessageWritten
<1>7. Known'
  BY <1>1, <1>3, ToldChanges DEF GatewayInvariant
<1>8. HandlersOK' /\ NoGhostSubscribers'
  BY <1>1 DEF GatewayInvariant, HandlersOK, NoGhostSubscribers
<1>9. QED
  BY <1>5, <1>6, <1>7, <1>8 DEF GatewayInvariant

LEMMA RestPreserves ==
  ASSUME GatewayInvariant, NEW id \in ChunkIDs, PopCount(id) \/ HasSubscribers(id) \/ Hibernate(id)
  PROVE  GatewayInvariant'
<1> DEFINE empty == [job[id] EXCEPT !.stage = "empty"]
           idle  == [NoJob EXCEPT !.stage = "idle"]
<1>1. /\ job[id] \in Jobs /\ job[id].stage \in {"counting", "empty", "idle"}
      /\ due[id] = {} /\ due \in [ChunkIDs -> SUBSET Clients]
  BY DEF PopCount, HasSubscribers, Hibernate, GatewayInvariant, Deliveries, Covered
<1>2. \E j \in {NoJob, empty, idle} : job' = [job EXCEPT ![id] = j]
  <2>1. CASE PopCount(id)
    BY <2>1 DEF PopCount
  <2>2. CASE HasSubscribers(id)
    BY <2>2 DEF HasSubscribers
  <2>3. CASE Hibernate(id)
    BY <2>3 DEF Hibernate
  <2>4. QED
    BY <2>1, <2>2, <2>3
<1>3. \A j \in {NoJob, empty, idle} : j \in Jobs /\ j.stage \in {"none", "empty", "idle"}
  <2>1. NoJob \in Jobs /\ NoJob.stage = "none"
    BY DEF Jobs, NoJob, Stages
  <2>2. empty \in Jobs /\ empty.stage = "empty"
    BY <1>1 DEF Jobs, Stages
  <2>3. idle \in Jobs /\ idle.stage = "idle"
    BY DEF Jobs, NoJob, Stages
  <2> HIDE DEF empty, idle
  <2>4. QED
    BY <2>1, <2>2, <2>3
<1> HIDE DEF empty, idle
<1>4. PICK j \in {NoJob, empty, idle} : job' = [job EXCEPT ![id] = j]
  BY <1>2
<1>5. /\ UNCHANGED <<open, inbox, wire, handler, subscribers, ticking, told, due>>
      /\ due' = [due EXCEPT ![id] = {}]
  <2>1. UNCHANGED <<open, inbox, wire, handler, subscribers, ticking, told, due>>
    BY DEF PopCount, HasSubscribers, Hibernate
  <2>2. QED
    BY <1>1, <2>1
<1>6. j \in Jobs /\ j.stage \notin {"ticked", "broadcast"}
  BY <1>3, <1>4
<1>7. Deliveries'
  BY <1>1, <1>4, <1>5, <1>6, JobChanges DEF GatewayInvariant
<1>8. chunk' \in [ChunkIDs -> [registered : BOOLEAN, cells : BOOLEAN, stored : BOOLEAN]]
  <2> DEFINE Chunk == [registered : BOOLEAN, cells : BOOLEAN, stored : BOOLEAN]
             gone  == [registered |-> FALSE, cells |-> FALSE, stored |-> chunk[id].cells]
  <2>1. chunk \in [ChunkIDs -> Chunk]
    BY DEF GatewayInvariant, Known
  <2>2. chunk[id] \in Chunk
    BY <2>1
  <2>3. gone \in Chunk
    BY <2>2
  <2>4. chunk' = chunk \/ chunk' = [chunk EXCEPT ![id] = gone]
    BY DEF PopCount, HasSubscribers, Hibernate
  <2> HIDE DEF Chunk, gone
  <2>5. chunk' \in [ChunkIDs -> Chunk]
    BY <2>1, <2>3, <2>4
  <2>6. QED
    BY <2>5 DEF Chunk
<1>9. QED
  BY <1>5, <1>7, <1>8 DEF GatewayInvariant, Channels, HandlersOK, Known, NoGhostSubscribers

LEMMA NextPreserves == GatewayInvariant /\ [Next]_vars => GatewayInvariant'
<1> SUFFICES ASSUME GatewayInvariant, [Next]_vars
             PROVE  GatewayInvariant'
  OBVIOUS
<1>1. ASSUME NEW c \in Clients,
             (\E k \in CommandsOf[c] : Send(c, k)) \/ Receive(c) \/ Disconnect(c)
      PROVE  GatewayInvariant'
  BY <1>1, BrowserPreserves
<1>2. ASSUME NEW c \in Clients, Handle(c)
      PROVE  GatewayInvariant'
  <2>1. CASE ReadMessage(c)
    BY <2>1, ReadMessagePreserves
  <2>2. CASE Leave(c)
    BY <2>2, LeavePreserves
  <2>3. CASE Charge(c) \/ Drain(c)
    BY <2>3, ChargePreserves
  <2>4. CASE PlaceCell(c)
    BY <2>4, PlaceCellPreserves
  <2>5. CASE Subscribe(c)
    BY <2>5, SubscribePreserves
  <2>6. CASE PeekChunk(c)
    BY <2>6, PeekChunkPreserves
  <2>7. CASE GetOrCreate(c)
    BY <2>7, GetOrCreatePreserves
  <2>8. CASE Unsubscribe(c)
    BY <2>8, UnsubscribePreserves
  <2>9. QED
    BY <1>2, <2>1, <2>2, <2>3, <2>4, <2>5, <2>6, <2>7, <2>8 DEF Handle
<1>3. ASSUME NEW c \in Clients, Write(c)
      PROVE  GatewayInvariant'
  BY <1>3, AnswerPreserves, ShowPreserves DEF Write
<1>4. ASSUME TickStart \/ TickEnd
      PROVE  GatewayInvariant'
  BY <1>4, TickPreserves
<1>5. ASSUME NEW id \in ChunkIDs, Work(id) \/ Deliver(id)
      PROVE  GatewayInvariant'
  BY <1>5, TickChunkPreserves, BroadcastPreserves, DeliverPreserves, RestPreserves DEF Work
<1>6. CASE UNCHANGED vars
  BY <1>6 DEF vars, GatewayInvariant, Channels, HandlersOK, Known, NoGhostSubscribers,
              Deliveries, Covered
<1>7. QED
  BY <1>1, <1>2, <1>3, <1>4, <1>5, <1>6 DEF Next

-----------------------------------------------------------------------------
(* The invariants of the runs.                                              *)

\* In every reachable state each handler knows how much of its command is done, each
\* connection holds well-formed messages, and everybody a chunk's broadcast is still due
\* to is in the copy of its subscribers that it is working through
\* (gateway/router.go, Route; gateway/pubsub.go, Broadcast and UnsubscribeAll).
THEOREM GatewayInvariance == Spec => []GatewayInvariant
<1>1. Init => GatewayInvariant
  BY InitEstablishes
<1>2. GatewayInvariant /\ [Next]_vars => GatewayInvariant'
  BY NextPreserves
<1>3. QED
  BY <1>1, <1>2, PTL DEF Spec

LEMMA InvariantGivesTypes == GatewayInvariant => TypeOK
<1> SUFFICES ASSUME GatewayInvariant
             PROVE  TypeOK
  OBVIOUS
<1>1. ASSUME NEW c \in Clients
      PROVE  HandlerOK(handler[c])
  <2> DEFINE h == handler[c]
  <2>1. h \in Handlers /\ Progress(h)
    BY DEF GatewayInvariant, HandlersOK
  <2> HIDE DEF h
  <2>2. h.pc = "charging" => h.todo # <<>>
    <3>1. h.pc = "charging" => h.cmd \in Commands \ Silent /\ h.todo = h.cmd.chunks
      BY <2>1 DEF Progress, Handling
    <3>2. QED
      BY <3>1, CommandFields
  <2>3. h.pc \in {"placing"} \cup Serving => h.todo # <<>>
    BY <2>1 DEF Progress
  <2>4. h.pc \in Handling \cup Serving => h.cmd \in Commands
    BY <2>1 DEF Progress
  <2>5. HandlerOK(h)
    BY <2>1, <2>2, <2>3, <2>4 DEF HandlerOK, Handlers, Seen
  <2>6. QED
    BY <2>5 DEF h
<1>2. QED
  BY <1>1 DEF GatewayInvariant, Channels, Known, Deliveries, TypeOK, Jobs, Stages, Seen

\* No socket ever holds more than fits into it, no handler loops over a piece that has no
\* cell left, and every variable keeps its type (gateway/router.go, Route;
\* gateway/websocket.go, WriteJSON).
THEOREM TypeCorrect == Spec => []TypeOK
BY GatewayInvariance, InvariantGivesTypes, PTL

LEMMA InvariantSkipsNobody == GatewayInvariant => NobodyIsSkipped
BY DEF GatewayInvariant, Deliveries, Covered, NobodyIsSkipped

\* However clients come, go and fail while Broadcast writes to its copy of the subscriber
\* set, whoever has been subscribed since the tick has been written to at its end
\* (gateway/pubsub.go, Broadcast).
THEOREM NobodySkipped == Spec => []NobodyIsSkipped
BY GatewayInvariance, InvariantSkipsNobody, PTL

LEMMA InvariantHasNoGhosts == GatewayInvariant => NoGhostSubscribers
BY DEF GatewayInvariant

\* Whatever the connection was doing when it broke, once its read loop has ended it
\* is subscribed to nothing and stays so (gateway/websocket.go, HandleWebSocket;
\* gateway/pubsub.go, UnsubscribeAll).
THEOREM NoGhosts == Spec => []NoGhostSubscribers
BY GatewayInvariance, InvariantHasNoGhosts, PTL

-----------------------------------------------------------------------------
(* Gateway implements Exchange.  The command that a handler is answering    *)
(* is the first of those asked; how much of it is placed is how much of its *)
(* list of chunks the handler has used up.                                  *)

LEMMA Served ==
  ASSUME NEW h, h.pc \in Handling, h.cmd \in Commands, NEW q \in Seq(Commands)
  PROVE  /\ AskedOf(h, q) \in Seq(Commands) /\ AskedOf(h, q) # <<>>
         /\ Head(AskedOf(h, q)) = h.cmd /\ Tail(AskedOf(h, q)) = q
<1> DEFINE k == h.cmd
           a == <<k>> \o q
<1>1. AskedOf(h, q) = a
  BY DEF AskedOf
<1>2. k \in Commands /\ <<k>> \in Seq(Commands)
  OBVIOUS
<1> HIDE DEF k
<1>3. a \in Seq(Commands) /\ Len(a) = Len(q) + 1 /\ Len(q) \in Nat
  BY <1>2
<1>4. a[1] = k /\ \A i \in 1 .. Len(q) : a[i + 1] = q[i]
  BY <1>2
<1> HIDE DEF a
<1>5. a # <<>> /\ Head(a) = k
  BY <1>3, <1>4
<1>6. Tail(a) = q
  <2>1. Tail(a) \in Seq(Commands) /\ Len(Tail(a)) = Len(q)
    BY <1>3, <1>5
  <2>2. \A i \in 1 .. Len(q) : Tail(a)[i] = q[i]
    BY <1>3, <1>4, <1>5
  <2>3. QED
    BY <2>1, <2>2, SeqEqual
<1>7. QED
  BY <1>1, <1>3, <1>5, <1>6 DEF k

LEMMA NotServed ==
  ASSUME NEW h, h.pc \notin Handling, NEW q \in Seq(Commands)
  PROVE  AskedOf(h, q) = q /\ PlacedOf(h) = "none"
<1>1. <<>> \o q = q
  BY ConcatEmptySeq
<1>2. QED
  BY <1>1 DEF AskedOf, PlacedOf

LEMMA ClientChanges ==
  ASSUME GatewayInvariant, NEW c \in Clients, NEW h, NEW q,
         handler' = [handler EXCEPT ![c] = h], inbox' = [inbox EXCEPT ![c] = q]
  PROVE  /\ Asked' = [Asked EXCEPT ![c] = AskedOf(h, q)]
         /\ Placed' = [Placed EXCEPT ![c] = PlacedOf(h)]
<1>1. /\ \A d \in Clients : handler'[d] = IF d = c THEN h ELSE handler[d]
      /\ \A d \in Clients : inbox'[d] = IF d = c THEN q ELSE inbox[d]
  BY DEF GatewayInvariant, HandlersOK, Channels
<1>2. /\ \A d \in Clients : AskedOf(handler'[d], inbox'[d]) =
           IF d = c THEN AskedOf(h, q) ELSE AskedOf(handler[d], inbox[d])
      /\ \A d \in Clients : PlacedOf(handler'[d]) =
           IF d = c THEN PlacedOf(h) ELSE PlacedOf(handler[d])
  BY <1>1
<1>3. /\ Asked' = [d \in Clients |-> AskedOf(handler'[d], inbox'[d])]
      /\ Placed' = [d \in Clients |-> PlacedOf(handler'[d])]
  BY DEF Asked, Placed
<1>4. QED
  BY <1>2, <1>3 DEF Asked, Placed

\* A step of a handler that changes neither what it serves nor how much of it is placed.
LEMMA HandlerStutters ==
  ASSUME GatewayInvariant, NEW c \in Clients, NEW h,
         handler' = [handler EXCEPT ![c] = h],
         \/ handler[c].pc \notin Handling /\ h.pc \notin Handling
         \/ /\ handler[c].pc \in Handling /\ h.pc \in Handling
            /\ h.cmd = handler[c].cmd /\ h.todo = handler[c].todo,
         UNCHANGED inbox
  PROVE  UNCHANGED <<Asked, Placed>>
<1>1. inbox[c] \in Seq(Commands) /\ inbox' = [inbox EXCEPT ![c] = inbox[c]]
  BY DEF GatewayInvariant, Channels
<1>2. /\ Asked' = [Asked EXCEPT ![c] = AskedOf(h, inbox[c])]
      /\ Placed' = [Placed EXCEPT ![c] = PlacedOf(h)]
  BY <1>1, ClientChanges
<1>3. AskedOf(h, inbox[c]) = Asked[c] /\ PlacedOf(h) = Placed[c]
  BY DEF AskedOf, PlacedOf, Asked, Placed
<1>4. QED
  BY <1>2, <1>3 DEF Asked, Placed

LEMMA ChannelsStutter ==
  ASSUME UNCHANGED <<handler, inbox>>
  PROVE  UNCHANGED <<Asked, Placed>>
BY DEF Asked, Placed

\* A message that nobody asked for.
LEMMA Notified ==
  ASSUME GatewayInvariant, NEW c \in Clients, NEW id \in ChunkIDs, WriteJSON(c, StateOf(id)),
         UNCHANGED <<open, Asked, Placed>>
  PROVE  [Exchanged!Next]_Exchanged!vars
<1>1. CASE c \in open
  <2>1. Exchanged!Notify(c, StateOf(id))
    BY <1>1 DEF WriteJSON, Exchanged!Notify
  <2>2. QED
    BY <2>1 DEF Exchanged!Next
<1>2. CASE c \notin open
  BY <1>2 DEF WriteJSON, Exchanged!vars
<1>3. QED
  BY <1>1, <1>2

LEMMA SendAsks ==
  ASSUME GatewayInvariant, NEW c \in Clients, NEW k \in CommandsOf[c], Send(c, k)
  PROVE  [Exchanged!Next]_Exchanged!vars
<1> DEFINE h == handler[c]
           q == inbox[c]
<1>1. /\ c \in open /\ inbox' = [inbox EXCEPT ![c] = Append(q, k)]
      /\ UNCHANGED <<open, wire, handler>>
  BY DEF Send
<1>2. k \in Commands /\ q \in Seq(Commands) /\ h \in Handlers /\ Progress(h)
  BY DEF Commands, GatewayInvariant, Channels, HandlersOK
<1>3. handler' = [handler EXCEPT ![c] = h]
  BY <1>1 DEF GatewayInvariant, HandlersOK
<1>4. Asked[c] = AskedOf(h, q) /\ Placed[c] = PlacedOf(h)
  BY DEF Asked, Placed
<1> HIDE DEF h, q
<1>5. /\ Asked' = [Asked EXCEPT ![c] = AskedOf(h, Append(q, k))]
      /\ Placed' = [Placed EXCEPT ![c] = PlacedOf(h)]
  BY <1>1, <1>3, ClientChanges
<1>6. AskedOf(h, Append(q, k)) = Append(AskedOf(h, q), k)
  <2>1. Append(q, k) \in Seq(Commands)
    BY <1>2
  <2>2. CASE h.pc \notin Handling
    BY <1>2, <2>1, <2>2, NotServed
  <2>3. CASE h.pc \in Handling
    <3> DEFINE a == <<h.cmd>>
    <3>1. a \in Seq(Commands)
      BY <1>2, <2>3 DEF Progress
    <3>2. AskedOf(h, q) = a \o q /\ AskedOf(h, Append(q, k)) = a \o Append(q, k)
      BY <2>3 DEF AskedOf
    <3> HIDE DEF a
    <3>3. a \o q \in Seq(Commands) /\ <<k>> \in Seq(Commands)
      BY <1>2, <3>1
    <3>4. Append(q, k) = q \o <<k>> /\ Append(a \o q, k) = (a \o q) \o <<k>>
      BY <1>2, <3>3, AppendIsConcat
    <3>5. (a \o q) \o <<k>> = a \o (q \o <<k>>)
      BY <1>2, <3>1, <3>3, ConcatAssociative
    <3>6. QED
      BY <3>2, <3>4, <3>5
  <2>4. QED
    BY <2>2, <2>3
<1>7. Asked' = [Asked EXCEPT ![c] = Append(Asked[c], k)] /\ Placed' = Placed
  BY <1>4, <1>5, <1>6 DEF Placed
<1>8. Exchanged!Ask(c, k)
  BY <1>1, <1>7 DEF Exchanged!Ask
<1>9. QED
  BY <1>2, <1>8 DEF Exchanged!Next

LEMMA ReceiveReceives ==
  ASSUME GatewayInvariant, NEW c \in Clients, Receive(c)
  PROVE  [Exchanged!Next]_Exchanged!vars
<1>1. UNCHANGED <<Asked, Placed>>
  BY ChannelsStutter DEF Receive
<1>2. Exchanged!Receive(c)
  BY <1>1 DEF Receive, Exchanged!Receive
<1>3. QED
  BY <1>2 DEF Exchanged!Next

\* What is lost with the connection is a tail of the inbox, never the command being served.
LEMMA DisconnectCloses ==
  ASSUME GatewayInvariant, NEW c \in Clients, Disconnect(c)
  PROVE  [Exchanged!Next]_Exchanged!vars
<1> DEFINE h == handler[c]
           q == inbox[c]
<1>1. /\ c \in open /\ open' = open \ {c} /\ wire' = [wire EXCEPT ![c] = <<>>]
      /\ UNCHANGED handler
  BY DEF Disconnect
<1>2. PICK n \in 0 .. Len(q) : inbox' = [inbox EXCEPT ![c] = SubSeq(q, 1, n)]
  BY DEF Disconnect
<1>3. q \in Seq(Commands) /\ Len(q) \in Nat /\ h \in Handlers /\ Progress(h)
  BY DEF GatewayInvariant, Channels, HandlersOK
<1>4. handler' = [handler EXCEPT ![c] = h]
  BY <1>1 DEF GatewayInvariant, HandlersOK
<1>5. Asked[c] = AskedOf(h, q) /\ Placed[c] = PlacedOf(h)
  BY DEF Asked, Placed
<1> HIDE DEF h, q
<1> DEFINE r == SubSeq(q, 1, n)
<1>6. /\ r \in Seq(Commands) /\ Len(r) = n /\ \A i \in 1 .. n : r[i] = q[i]
  <2>1. \A i \in 1 .. n : q[i] \in Commands
    BY <1>3
  <2>2. QED
    BY <1>3, <2>1, SubSeqProperties
<1>7. inbox' = [inbox EXCEPT ![c] = r]
  BY <1>2
<1>8. /\ Asked' = [Asked EXCEPT ![c] = AskedOf(h, r)]
      /\ Placed' = [Placed EXCEPT ![c] = PlacedOf(h)]
  <2> HIDE DEF r
  <2>1. QED
    BY <1>4, <1>7, ClientChanges
<1>9. Placed' = Placed
  BY <1>5, <1>8 DEF Placed
<1>10. \E m \in 0 .. Len(Asked[c]) : /\ Placed[c] # "none" => m > 0
                                     /\ AskedOf(h, r) = SubSeq(Asked[c], 1, m)
  <2>1. CASE h.pc \notin Handling
    <3>1. AskedOf(h, q) = q /\ PlacedOf(h) = "none"
      BY <1>3, <2>1, NotServed
    <3>2. AskedOf(h, r) = r
      <4> HIDE DEF r
      <4>1. QED
        BY <1>6, <2>1, NotServed
    <3>3. Asked[c] = q /\ Placed[c] = "none" /\ AskedOf(h, r) = SubSeq(Asked[c], 1, n)
      BY <1>5, <3>1, <3>2
    <3> HIDE DEF r
    <3>4. n \in 0 .. Len(Asked[c])
      BY <1>2, <3>3
    <3>5. QED
      BY <3>3, <3>4
  <2>2. CASE h.pc \in Handling
    <3> DEFINE a == AskedOf(h, q)
               b == AskedOf(h, r)
    <3> HIDE DEF r
    <3>1. h.cmd \in Commands
      BY <1>3, <2>2 DEF Progress
    <3>2. a \in Seq(Commands) /\ a # <<>> /\ Head(a) = h.cmd /\ Tail(a) = q
      BY <1>3, <2>2, <3>1, Served
    <3>3. b \in Seq(Commands) /\ b # <<>> /\ Head(b) = h.cmd /\ Tail(b) = r
      BY <1>6, <2>2, <3>1, Served
    <3> HIDE DEF a, b
    <3>4. Len(a) = Len(q) + 1 /\ Len(b) = n + 1 /\ n \in Nat
      BY <1>3, <1>6, <3>2, <3>3
    <3>5. a[1] = b[1] /\ \A i \in 1 .. n : a[i + 1] = q[i] /\ b[i + 1] = r[i]
      <4>1. a[1] = h.cmd /\ b[1] = h.cmd
        BY <3>2, <3>3
      <4>2. \A i \in 1 .. Len(q) : Tail(a)[i] = a[i + 1]
        BY <3>2, <3>4
      <4>3. \A i \in 1 .. n : Tail(b)[i] = b[i + 1]
        BY <3>3, <3>4
      <4>4. \A i \in 1 .. n : i \in 1 .. Len(q)
        BY <1>3
      <4>5. QED
        BY <3>2, <3>3, <4>1, <4>2, <4>3, <4>4
    <3>6. \A i \in 1 .. n + 1 : b[i] = a[i]
      <4>1. \A i \in 1 .. n : b[i + 1] = a[i + 1]
        BY <1>6, <3>5
      <4>2. \A i \in 1 .. n + 1 : i = 1 \/ (i - 1 \in 1 .. n /\ (i - 1) + 1 = i)
        BY <3>4
      <4>3. QED
        BY <3>5, <4>1, <4>2
    <3>7. \A i \in 1 .. n + 1 : a[i] \in Commands
      BY <1>3, <3>2, <3>4
    <3>8. /\ SubSeq(a, 1, n + 1) \in Seq(Commands) /\ Len(SubSeq(a, 1, n + 1)) = n + 1
          /\ \A i \in 1 .. n + 1 : SubSeq(a, 1, n + 1)[i] = a[i]
      BY <3>4, <3>7, SubSeqProperties
    <3>9. b = SubSeq(a, 1, n + 1)
      BY <3>3, <3>4, <3>6, <3>8, SeqEqual
    <3>10. n + 1 \in 0 .. Len(a) /\ n + 1 > 0
      BY <1>3, <3>4
    <3>11. Asked[c] = a /\ AskedOf(h, r) = b
      BY <1>5 DEF a, b
    <3>12. QED
      BY <3>9, <3>10, <3>11
  <2>3. QED
    BY <2>1, <2>2
<1>11. Exchanged!Close(c)
  BY <1>1, <1>8, <1>9, <1>10 DEF Exchanged!Close
<1>12. QED
  BY <1>11 DEF Exchanged!Next

\* A silent command is served as soon as it has been read; any other begins to be handled.
LEMMA ReadMessageServes ==
  ASSUME GatewayInvariant, NEW c \in Clients, ReadMessage(c)
  PROVE  [Exchanged!Next]_Exchanged!vars
<1> DEFINE q == inbox[c]
           k == Head(q)
           h == Dispatched(k)
<1>1. /\ handler[c].pc = "reading" /\ q # <<>>
      /\ inbox' = [inbox EXCEPT ![c] = Tail(q)] /\ handler' = [handler EXCEPT ![c] = h]
      /\ UNCHANGED <<open, wire>>
  BY DEF ReadMessage
<1>2. q \in Seq(Commands)
  BY DEF GatewayInvariant, Channels
<1>3. k \in Commands /\ Tail(q) \in Seq(Commands)
  BY <1>1, <1>2
<1>4. Asked[c] = AskedOf(handler[c], q) /\ Placed[c] = PlacedOf(handler[c])
  BY DEF Asked, Placed
<1>5. /\ k \in Silent => h.pc \notin Handling
      /\ k \notin Silent => h.pc \in Handling /\ h.cmd = k /\ h.todo = k.chunks
  BY <1>3, DispatchedOK
<1> HIDE DEF q, k, h
<1>6. Asked[c] = q /\ Placed[c] = "none"
  <2>1. handler[c].pc \notin Handling
    BY <1>1 DEF Handling
  <2>2. QED
    BY <1>2, <1>4, <2>1, NotServed
<1> DEFINE t == Tail(q)
<1>7. /\ Asked' = [Asked EXCEPT ![c] = AskedOf(h, t)]
      /\ Placed' = [Placed EXCEPT ![c] = PlacedOf(h)]
  <2>1. inbox' = [inbox EXCEPT ![c] = t]
    BY <1>1
  <2> HIDE DEF t
  <2>2. QED
    BY <1>1, <2>1, ClientChanges
<1>8. CASE k \in Silent
  <2>1. AskedOf(h, t) = t /\ PlacedOf(h) = "none"
    <3>1. t \in Seq(Commands) /\ h.pc \notin Handling
      BY <1>3, <1>5, <1>8
    <3> HIDE DEF t
    <3>2. QED
      BY <3>1, NotServed
  <2>2. Placed' = Placed
    BY <1>6, <1>7, <2>1 DEF Placed
  <2>3. Exchanged!Serve(c)
    BY <1>1, <1>6, <1>7, <1>8, <2>1, <2>2 DEF k, Exchanged!Serve
  <2>4. QED
    BY <2>3 DEF Exchanged!Next
<1>9. CASE k \notin Silent
  <2>1. AskedOf(h, t) = q
    <3>1. h.pc \in Handling /\ h.cmd = k /\ k \in Commands /\ t \in Seq(Commands)
      BY <1>3, <1>5, <1>9
    <3> DEFINE a == AskedOf(h, t)
    <3>2. a \in Seq(Commands) /\ a # <<>> /\ Head(a) = k /\ Tail(a) = t
      <4> HIDE DEF t
      <4>1. QED
        BY <3>1, Served
    <3> HIDE DEF a
    <3>3. a = q
      <4>1. Len(a) = Len(q) /\ Len(q) \in Nat /\ Len(q) > 0
        BY <1>1, <1>2, <3>2
      <4>2. \A i \in 1 .. Len(q) : a[i] = q[i]
        <5>1. a[1] = q[1]
          BY <1>1, <1>2, <3>2 DEF k
        <5>2. \A j \in 1 .. Len(q) - 1 : Tail(a)[j] = a[j + 1] /\ Tail(q)[j] = q[j + 1]
          BY <1>2, <3>2, <4>1
        <5>3. \A j \in 1 .. Len(q) - 1 : a[j + 1] = q[j + 1]
          BY <3>2, <5>2
        <5>4. \A i \in 1 .. Len(q) : i = 1 \/ (i - 1 \in 1 .. Len(q) - 1 /\ (i - 1) + 1 = i)
          BY <4>1
        <5>5. QED
          BY <5>1, <5>3, <5>4
      <4>3. QED
        BY <1>2, <3>2, <4>1, <4>2, SeqEqual
    <3>4. QED
      BY <3>3 DEF a
  <2>2. PlacedOf(h) = "none"
    BY <1>5, <1>9 DEF PlacedOf
  <2>3. UNCHANGED <<Asked, Placed>>
    <3>1. Asked' = [Asked EXCEPT ![c] = Asked[c]] /\ Placed' = [Placed EXCEPT ![c] = Placed[c]]
      BY <1>6, <1>7, <2>1, <2>2
    <3>2. Asked' = Asked
      BY <3>1 DEF Asked
    <3>3. Placed' = Placed
      BY <3>1 DEF Placed
    <3>4. QED
      BY <3>2, <3>3
  <2>4. QED
    BY <1>1, <2>3 DEF Exchanged!vars
<1>10. QED
  BY <1>8, <1>9

\* Charging, leaving, and the steps of SUBSCRIBE and UNSUBSCRIBE that write nothing.
LEMMA HandleStutters ==
  ASSUME GatewayInvariant, NEW c \in Clients,
         \/ Leave(c) \/ Charge(c) \/ Drain(c) \/ Subscribe(c) \/ PeekChunk(c)
         \/ GetOrCreate(c) \/ Unsubscribe(c)
  PROVE  UNCHANGED Exchanged!vars
<1> DEFINE h == handler[c]
           To(pc) == [h EXCEPT !.pc = pc]
<1>1. h \in Handlers /\ Progress(h)
  BY DEF GatewayInvariant, HandlersOK
<1>2. UNCHANGED <<open, inbox, wire>>
  BY DEF Leave, Charge, Drain, Subscribe, PeekChunk, GetOrCreate, Unsubscribe
<1>3. \A pc : To(pc).pc = pc /\ To(pc).cmd = h.cmd /\ To(pc).todo = h.todo
  BY <1>1 DEF Handlers
<1>4. CASE Charge(c) \/ Drain(c)
  <2>1. h.pc = "charging"
    BY <1>4 DEF Charge, Drain
  <2>2. PICK n : /\ handler' = [handler EXCEPT ![c] = n]
                 /\ n \in {[h EXCEPT !.pc = "answering", !.charged = 0],
                           [h EXCEPT !.pc = "placing", !.charged = 0],
                           [h EXCEPT !.charged = @ + 1], To("placing"), To("answering")}
    <3>1. CASE Charge(c)
      BY <3>1 DEF Charge
    <3>2. CASE Drain(c)
      BY <3>2 DEF Drain
    <3>3. QED
      BY <1>4, <3>1, <3>2
  <2>3. n.pc \in Handling /\ n.cmd = h.cmd /\ n.todo = h.todo
    BY <1>1, <1>3, <2>1, <2>2 DEF Handlers, Handling
  <2>4. h.pc \in Handling
    BY <2>1 DEF Handling
  <2>5. UNCHANGED <<Asked, Placed>>
    BY <1>2, <2>2, <2>3, <2>4, HandlerStutters
  <2>6. QED
    BY <1>2, <2>5 DEF Exchanged!vars
<1>5. CASE ~(Charge(c) \/ Drain(c))
  <2>1. h.pc \notin Handling
    BY <1>5 DEF Leave, Subscribe, PeekChunk, GetOrCreate, Unsubscribe, Handling
  <2>2. \E n : handler' = [handler EXCEPT ![c] = n] /\ n.pc \notin Handling
    <3>1. CASE Leave(c)
      BY <1>3, <3>1 DEF Leave, Handling
    <3>2. CASE Subscribe(c)
      BY <1>3, <3>2 DEF Subscribe, Handling
    <3>3. CASE GetOrCreate(c)
      BY <1>3, <3>3 DEF GetOrCreate, Handling
    <3>4. CASE Unsubscribe(c)
      <4>1. h.pc \in Serving /\ handler' = [handler EXCEPT ![c] = Continued(h, "unsubscribing")]
        BY <3>4 DEF Unsubscribe, Serving
      <4>2. Continued(h, "unsubscribing").pc \notin Handling
        <5> HIDE DEF h
        <5>1. QED
          BY <1>1, <4>1, ContinuedOK
      <4>3. QED
        BY <4>1, <4>2
    <3>5. CASE PeekChunk(c)
      <4> DEFINE n == [h EXCEPT !.pc = "registering", !.peeked = [cells |-> TRUE, fresh |-> TRUE]]
                 m == Continued(h, "subscribing")
      <4>1. h.pc \in Serving /\ \E x \in {n, m} : handler' = [handler EXCEPT ![c] = x]
        BY <3>5 DEF PeekChunk, Serving
      <4>2. n.pc = "registering"
        BY <1>1 DEF Handlers
      <4>3. m.pc \notin Handling
        <5> HIDE DEF h
        <5>1. QED
          BY <1>1, <4>1, ContinuedOK
      <4> HIDE DEF n, m
      <4>4. QED
        BY <4>1, <4>2, <4>3 DEF Handling
    <3>6. QED
      BY <1>5, <3>1, <3>2, <3>3, <3>4, <3>5
  <2>3. UNCHANGED <<Asked, Placed>>
    BY <1>2, <2>1, <2>2, HandlerStutters
  <2>4. QED
    BY <1>2, <2>3 DEF Exchanged!vars
<1>6. QED
  BY <1>4, <1>5

\* Each cell of a piece that is placed is a step of the piece's placement.
LEMMA PlaceCellPlaces ==
  ASSUME GatewayInvariant, NEW c \in Clients, PlaceCell(c)
  PROVE  [Exchanged!Next]_Exchanged!vars
<1> DEFINE h == handler[c]
           q == inbox[c]
           rest == Tail(h.todo)
           n == [h EXCEPT !.todo = rest, !.ok = (rest = <<>>),
                          !.pc = IF rest = <<>> THEN "answering" ELSE "placing"]
<1>1. h \in Handlers /\ Progress(h) /\ h.pc = "placing" /\ q \in Seq(Commands)
  BY DEF PlaceCell, GatewayInvariant, HandlersOK, Channels
<1>2. /\ handler' = [handler EXCEPT ![c] = n] /\ inbox' = [inbox EXCEPT ![c] = q]
      /\ UNCHANGED <<open, wire>>
  BY DEF PlaceCell, GatewayInvariant, Channels
<1>3. /\ h.cmd \in Commands /\ h.cmd \notin Silent /\ h.todo # <<>>
      /\ h.todo \in Seq(ChunkIDs) /\ Len(h.todo) <= Len(h.cmd.chunks)
  BY <1>1 DEF Progress, Handlers, Handling
<1>4. h.cmd.chunks \in Seq(ChunkIDs) /\ h.cmd.chunks # <<>>
  <2> DEFINE k == h.cmd
  <2>1. k \in Commands /\ k \notin Silent
    BY <1>3
  <2> HIDE DEF k
  <2>2. k.chunks \in Seq(ChunkIDs) /\ k.chunks # <<>>
    BY <2>1, CommandFields
  <2>3. QED
    BY <2>2 DEF k
<1>5. /\ n.pc = IF rest = <<>> THEN "answering" ELSE "placing"
      /\ n.cmd = h.cmd /\ n.todo = rest
  BY <1>1 DEF Handlers
<1>6. Asked[c] = AskedOf(h, q) /\ Placed[c] = PlacedOf(h)
  BY DEF Asked, Placed
<1>7. rest # h.cmd.chunks
  <2>1. Len(rest) = Len(h.todo) - 1 /\ Len(h.todo) \in Nat /\ Len(h.cmd.chunks) \in Nat
    BY <1>3, <1>4
  <2> HIDE DEF h, rest
  <2>2. QED
    BY <1>3, <2>1
<1>8. h.pc \in Handling /\ n.pc \in Handling
  BY <1>1, <1>5 DEF Handling
<1> HIDE DEF h, q, n, rest
<1>9. /\ Asked' = [Asked EXCEPT ![c] = AskedOf(n, q)]
      /\ Placed' = [Placed EXCEPT ![c] = PlacedOf(n)]
  BY <1>2, ClientChanges
<1>10. PlacedOf(n) \in {"some", "all"} /\ PlacedOf(h) # "all"
  BY <1>3, <1>5, <1>7, <1>8 DEF PlacedOf
<1>11. Asked' = Asked
  <2>1. AskedOf(n, q) = AskedOf(h, q)
    BY <1>5, <1>8 DEF AskedOf
  <2>2. QED
    BY <1>6, <1>9, <2>1 DEF Asked
<1>12. Asked[c] # <<>> /\ Head(Asked[c]) = h.cmd
  BY <1>1, <1>3, <1>6, <1>8, Served
<1>13. Exchanged!Place(c)
  BY <1>2, <1>3, <1>6, <1>9, <1>10, <1>11, <1>12 DEF Exchanged!Place
<1>14. QED
  BY <1>13 DEF Exchanged!Next

\* The answer is true: an acknowledgement follows the whole piece, an error nothing.
LEMMA AnswerAnswers ==
  ASSUME GatewayInvariant, NEW c \in Clients, Answer(c)
  PROVE  [Exchanged!Next]_Exchanged!vars
<1> DEFINE h == handler[c]
           q == inbox[c]
<1>1. h \in Handlers /\ Progress(h) /\ h.pc = "answering" /\ q \in Seq(Commands)
  BY DEF Answer, GatewayInvariant, HandlersOK, Channels
<1>2. /\ handler' = [handler EXCEPT ![c] = Reading] /\ inbox' = [inbox EXCEPT ![c] = q]
      /\ WriteJSON(c, AnswerTo(h.cmd, h.ok)) /\ UNCHANGED open
  BY DEF Answer, GatewayInvariant, Channels
<1>3. Asked[c] = AskedOf(h, q) /\ Placed[c] = PlacedOf(h)
  BY DEF Asked, Placed
<1> HIDE DEF h, q
<1>4. /\ h.pc \in Handling /\ h.cmd \in Commands /\ h.cmd \notin Silent /\ h.ok \in BOOLEAN
      /\ h.todo = IF h.ok THEN <<>> ELSE h.cmd.chunks
  BY <1>1 DEF Progress, Handlers, Handling
<1>5. h.cmd.chunks # <<>>
  <2> DEFINE k == h.cmd
  <2>1. k \in Commands /\ k \notin Silent
    BY <1>4
  <2> HIDE DEF k
  <2>2. k.chunks # <<>>
    BY <2>1, CommandFields
  <2>3. QED
    BY <2>2 DEF k
<1>6. PlacedOf(h) = IF h.ok THEN "all" ELSE "none"
  BY <1>4, <1>5 DEF PlacedOf
<1>7. Asked[c] # <<>> /\ Head(Asked[c]) = h.cmd /\ Tail(Asked[c]) = q
  BY <1>1, <1>3, <1>4, Served
<1>8. /\ Asked' = [Asked EXCEPT ![c] = AskedOf(Reading, q)]
      /\ Placed' = [Placed EXCEPT ![c] = PlacedOf(Reading)]
  BY <1>2, ClientChanges
<1>9. AskedOf(Reading, q) = q /\ PlacedOf(Reading) = "none"
  BY <1>1, ReadingIsIdle, NotServed DEF Handling
<1>10. wire' = IF c \in open THEN [wire EXCEPT ![c] = Append(@, AnswerTo(h.cmd, h.ok))] ELSE wire
  BY <1>2 DEF WriteJSON
<1>11. Exchanged!AnswerTo(h.cmd, h.ok) = AnswerTo(h.cmd, h.ok)
  BY DEF AnswerTo, Exchanged!AnswerTo
<1>12. Exchanged!Answer(c, h.ok)
  BY <1>2, <1>3, <1>4, <1>6, <1>7, <1>8, <1>9, <1>10, <1>11 DEF Exchanged!Answer
<1>13. QED
  BY <1>4, <1>12 DEF Exchanged!Next

LEMMA ShowNotifies ==
  ASSUME GatewayInvariant, NEW c \in Clients, Show(c)
  PROVE  [Exchanged!Next]_Exchanged!vars
<1> DEFINE h == handler[c]
           n == Continued(h, "subscribing")
           id == Head(h.todo)
<1>1. h \in Handlers /\ Progress(h) /\ h.pc = "showing"
  BY DEF Show, GatewayInvariant, HandlersOK
<1>2. /\ handler' = [handler EXCEPT ![c] = n] /\ WriteJSON(c, StateOf(id))
      /\ UNCHANGED <<open, inbox>>
  BY DEF Show
<1>3. h.pc \in Serving /\ h.pc \notin Handling
  BY <1>1 DEF Serving, Handling
<1>4. id \in ChunkIDs
  BY <1>1, <1>3 DEF Progress, Handlers
<1>5. n.pc \notin Handling
  <2> HIDE DEF h
  <2>1. QED
    BY <1>1, <1>3, ContinuedOK
<1> HIDE DEF id, n
<1>6. UNCHANGED <<Asked, Placed>>
  BY <1>2, <1>3, <1>5, HandlerStutters
<1>7. QED
  BY <1>2, <1>4, <1>6, Notified

\* A tick makes what was peeked old, which nobody is promised anything about.
LEMMA TickStutters ==
  ASSUME GatewayInvariant, NEW id \in ChunkIDs, TickChunk(id)
  PROVE  UNCHANGED Exchanged!vars
<1>1. UNCHANGED <<open, inbox, wire>>
  BY DEF TickChunk
<1>2. ASSUME NEW c \in Clients
      PROVE  /\ handler'[c].pc = handler[c].pc /\ handler'[c].cmd = handler[c].cmd
             /\ handler'[c].todo = handler[c].todo
  <2>1. handler[c] \in Handlers
    BY DEF GatewayInvariant, HandlersOK
  <2>2. \E p : handler'[c] = [handler[c] EXCEPT !.peeked = p]
    BY DEF TickChunk
  <2>3. QED
    BY <2>1, <2>2 DEF Handlers
<1>3. \A c \in Clients : /\ AskedOf(handler'[c], inbox'[c]) = AskedOf(handler[c], inbox[c])
                         /\ PlacedOf(handler'[c]) = PlacedOf(handler[c])
  BY <1>1, <1>2 DEF AskedOf, PlacedOf
<1>4. UNCHANGED <<Asked, Placed>>
  BY <1>3 DEF Asked, Placed
<1>5. QED
  BY <1>1, <1>4 DEF Exchanged!vars

LEMMA WorkerNotifies ==
  ASSUME GatewayInvariant, NEW id \in ChunkIDs, Work(id) \/ Deliver(id)
  PROVE  [Exchanged!Next]_Exchanged!vars
<1>1. CASE TickChunk(id)
  BY <1>1, TickStutters
<1>2. CASE Deliver(id)
  <2>1. /\ job[id].stage = "broadcast" /\ WriteJSON(job[id].to, StateOf(id))
        /\ UNCHANGED <<open, inbox, handler>>
    BY <1>2 DEF Deliver
  <2>2. job[id].to \in Clients
    BY <2>1 DEF GatewayInvariant, Deliveries, Covered, Jobs
  <2>3. UNCHANGED <<Asked, Placed>>
    BY <2>1, ChannelsStutter
  <2>4. QED
    BY <2>1, <2>2, <2>3, Notified
<1>3. CASE Broadcast(id) \/ PopCount(id) \/ HasSubscribers(id) \/ Hibernate(id)
  <2>1. UNCHANGED <<open, inbox, wire, handler>>
    BY <1>3 DEF Broadcast, PopCount, HasSubscribers, Hibernate
  <2>2. QED
    BY <2>1, ChannelsStutter DEF Exchanged!vars
<1>4. QED
  BY <1>1, <1>2, <1>3 DEF Work

\* Whatever the players, the ticks and broken connections do in between, every command
\* that wants an answer gets one, none gets two, answers come in the order of the
\* commands, and an acknowledgement means the whole piece and an error none of it
\* (gateway/router.go, Route; gateway/websocket.go, HandleWebSocket).
THEOREM KeepsTheExchange == Spec => KeepsExchange
<1>1. Init => Exchanged!Init
  <2> SUFFICES ASSUME Init
               PROVE  Exchanged!Init
    OBVIOUS
  <2>1. AskedOf(Reading, <<>>) = <<>> /\ PlacedOf(Reading) = "none"
    <3> DEFINE h == Reading
    <3>1. h.pc \notin Handling /\ <<>> \in Seq(Commands)
      BY ReadingIsIdle DEF Handling
    <3> HIDE DEF h
    <3>2. AskedOf(h, <<>>) = <<>> /\ PlacedOf(h) = "none"
      BY <3>1, NotServed
    <3>3. QED
      BY <3>2 DEF h
  <2>2. \A c \in Clients : handler[c] = Reading /\ inbox[c] = <<>>
    BY DEF Init
  <2>3. Asked = [c \in Clients |-> <<>>] /\ Placed = [c \in Clients |-> "none"]
    BY <2>1, <2>2 DEF Asked, Placed
  <2>4. QED
    BY <2>3 DEF Init, Exchanged!Init
<1>2. GatewayInvariant /\ [Next]_vars => [Exchanged!Next]_Exchanged!vars
  <2> SUFFICES ASSUME GatewayInvariant, [Next]_vars
               PROVE  [Exchanged!Next]_Exchanged!vars
    OBVIOUS
  <2>1. ASSUME NEW c \in Clients, NEW k \in CommandsOf[c], Send(c, k)
        PROVE  [Exchanged!Next]_Exchanged!vars
    BY <2>1, SendAsks
  <2>2. ASSUME NEW c \in Clients, Receive(c) \/ Disconnect(c)
        PROVE  [Exchanged!Next]_Exchanged!vars
    BY <2>2, ReceiveReceives, DisconnectCloses
  <2>3. ASSUME NEW c \in Clients, Handle(c)
        PROVE  [Exchanged!Next]_Exchanged!vars
    BY <2>3, ReadMessageServes, PlaceCellPlaces, HandleStutters DEF Handle
  <2>4. ASSUME NEW c \in Clients, Write(c)
        PROVE  [Exchanged!Next]_Exchanged!vars
    BY <2>4, AnswerAnswers, ShowNotifies DEF Write
  <2>5. ASSUME NEW id \in ChunkIDs, Work(id) \/ Deliver(id)
        PROVE  [Exchanged!Next]_Exchanged!vars
    BY <2>5, WorkerNotifies
  <2>6. CASE TickStart \/ TickEnd \/ UNCHANGED vars
    <3>1. UNCHANGED <<open, inbox, wire, handler>>
      BY <2>6 DEF TickStart, TickEnd, vars
    <3>2. QED
      BY <3>1, ChannelsStutter DEF Exchanged!vars
  <2>7. QED
    BY <2>1, <2>2, <2>3, <2>4, <2>5, <2>6 DEF Next
<1>3. QED
  BY <1>1, <1>2, GatewayInvariance, PTL DEF Spec, KeepsExchange, Exchanged!Spec
=============================================================================
