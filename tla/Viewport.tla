------------------------------ MODULE Viewport ------------------------------
(***************************************************************************)
(* One browser (viewport/app.js) and its connection: the copy of the board *)
(* that it shows, its local generations, the camera and the gestures that  *)
(* move it, the chunks it believes to be subscribed to, and the queue of   *)
(* commands that it expects answers to.                                    *)
(*                                                                         *)
(* The server is what the other modules show it to be: a board that plays  *)
(* Life (ChunkedLife), whose active chunks are broadcast after each tick,  *)
(* and a connection that serves commands in order (Gateway).  A command is *)
(* one step of it.                                                         *)
(*                                                                         *)
(* The camera moves along one axis.  The pointer is a mouse: one finger    *)
(* does the same, and two are left out.                                    *)
(***************************************************************************)
EXTENDS Codec

CONSTANTS
  CellPx,       \* pixels per cell
  Width,        \* canvas.width
  VIEWPORT_PAD,
  Threshold,    \* how far the mouse moves in one event that does not make it a drag
  Shifts,       \* how far the mouse, or the wheel, moves the camera in one event
  CamRange,     \* bound: where the camera goes
  Pieces,       \* [type, cells]: SPAWN's cell, the shapes, and custom pieces
  Roots,        \* where the player clicks
  MaxPlaced,    \* bound: how many pieces the player places
  MaxQueue      \* bound: commands, and messages, on their way

ASSUME ViewportAssumption ==
  /\ CellPx \in Nat \ {0} /\ Width \in Nat /\ VIEWPORT_PAD \in Nat
  /\ Threshold \in Nat /\ Shifts \subseteq Int
  /\ CamRange \subseteq Int /\ 0 \in CamRange
  /\ Roots \subseteq Int \X Int
  /\ \A p \in Pieces : /\ p.type \in {"SPAWN", "PLACE_SHAPE", "PLACE_CUSTOM"}
                       /\ p.cells \in Seq(Nat \X Nat) /\ p.cells # <<>>
                       /\ p.type = "PLACE_CUSTOM" => \E d \in Drawings : p.cells = Normalised(d)
  /\ MaxPlaced \in Nat /\ MaxQueue \in Nat
  /\ ChunkSize >= 3  \* the edge that hasCellsNearEdge looks at; chunks have 64 rows

VARIABLES
  readyState,       \* of the WebSocket
  localCells,
  camX,
  pressed,          \* the button is down
  isPanning,
  camAtPress,       \* history: camX when the button went down
  subscribedChunks,
  pendingCommands,
  commands,         \* sent to the server and not served
  messages,         \* sent to the browser and not received
  board,            \* the server's board
  active,           \* the chunks in the registry
  subscribers,      \* the chunks that PubSub has this client for
  sending,          \* broadcasts of the last tick that are not written yet
  placed,           \* how many pieces have been placed
  early             \* history: a piece was placed before the connection was open

gesture == <<camX, pressed, isPanning, camAtPress>>
shown  == <<localCells, pendingCommands, placed, early>>
browser == <<readyState, shown, gesture, subscribedChunks>>
server == <<board, active, subscribers, sending>>
vars   == <<browser, commands, messages, server>>

ChunkAt(c) == <<c[1] \div ChunkSize, c[2] \div ChunkSize>>
In(id, cells) == {c \in cells : ChunkAt(c) = id}
ToLocal(c) == <<c[1] % ChunkSize, c[2] % ChunkSize>>

ColumnAt(px) == (px \div CellPx) \div ChunkSize
visibleChunks(cam) ==
  {<<x, 0>> : x \in ColumnAt(cam) - VIEWPORT_PAD .. ColumnAt(cam + Width) + VIEWPORT_PAD}
ChunkIDs == UNION {visibleChunks(cam) : cam \in CamRange}

CellsOf(k) == {<<k.root[1] + c[1], k.root[2] + c[2]>> : c \in ToSet(k.piece.cells)}

ChunkState(id, cells) ==
  [type |-> "CHUNK_STATE", chunk |-> id, cells |-> RowsToOffsets(Rows({ToLocal(c) : c \in In(id, cells)}))]
AnswerTo(k, ok) == [type |-> IF ok THEN "ACK" ELSE "ERROR", to |-> k]
Subscription(type, chunks) == [type |-> type, chunks |-> chunks]
Placement(p, r) == [type |-> p.type, piece |-> p, root |-> r]

Init ==
  /\ readyState = "CONNECTING"
  /\ localCells = {}
  /\ camX = 0 /\ pressed = FALSE /\ isPanning = FALSE /\ camAtPress = 0
  /\ subscribedChunks = {}
  /\ pendingCommands = <<>>
  /\ commands = <<>>
  /\ messages = <<>>
  /\ board = {}
  /\ active = {}
  /\ subscribers = {}
  /\ sending = {}
  /\ placed = 0
  /\ early = FALSE

-----------------------------------------------------------------------------
(* The browser.                                                            *)

\* Mutant: what to unsubscribe is found after the set has been updated.
SubscribeFirst(cam) ==
  LET toSub == visibleChunks(cam) \ subscribedChunks
      sent == IF toSub = {} THEN <<>> ELSE <<Subscription("SUBSCRIBE", toSub)>>
  IN  IF readyState = "OPEN"
      THEN commands' = commands \o sent /\ subscribedChunks' = visibleChunks(cam)
      ELSE UNCHANGED <<commands, subscribedChunks>>

updateSubscriptions(cam) ==
  LET toSub == visibleChunks(cam) \ subscribedChunks
      toUnsub == subscribedChunks \ visibleChunks(cam)
      sent == (IF toSub = {} THEN <<>> ELSE <<Subscription("SUBSCRIBE", toSub)>>)
                \o (IF toUnsub = {} THEN <<>> ELSE <<Subscription("UNSUBSCRIBE", toUnsub)>>)
  IN  IF readyState = "OPEN"
      THEN commands' = commands \o sent /\ subscribedChunks' = visibleChunks(cam)
      ELSE UNCHANGED <<commands, subscribedChunks>>

\* readyState is OPEN when the handler runs.
onopen ==
  /\ readyState = "CONNECTING"
  /\ readyState' = "OPEN"
  /\ subscribedChunks' = visibleChunks(camX)
  /\ commands' = <<Subscription("SUBSCRIBE", visibleChunks(camX))>>
  /\ UNCHANGED <<shown, gesture, messages, server>>

\* Nothing connects again.  The last commands may be lost with the connection.
onclose ==
  /\ readyState # "CLOSED"
  /\ readyState' = "CLOSED"
  /\ messages' = <<>>
  /\ \E n \in 0..Len(commands) : commands' = SubSeq(commands, 1, n)
  /\ UNCHANGED <<shown, gesture, subscribedChunks, server>>

\* mousedown.
Press ==
  /\ ~pressed
  /\ pressed' = TRUE
  /\ isPanning' = FALSE
  /\ camAtPress' = camX
  /\ UNCHANGED <<readyState, shown, camX, subscribedChunks, commands, messages, server>>

\* Mutant: only a move to the right counts.
DragOneSided(d) ==
  /\ pressed
  /\ camX + d \in CamRange
  /\ camX' = camX + d
  /\ isPanning' = (isPanning \/ d > Threshold)
  /\ UNCHANGED <<readyState, shown, pressed, camAtPress, subscribedChunks, commands, messages, server>>

\* mousemove with the button down: camX is moved by each event, and compared with what
\* the event before has made of it.
Drag(d) ==
  /\ pressed
  /\ camX + d \in CamRange
  /\ camX' = camX + d
  /\ isPanning' = (isPanning \/ d > Threshold \/ -d > Threshold)
  /\ UNCHANGED <<readyState, shown, pressed, camAtPress, subscribedChunks, commands, messages, server>>

\* The wheel, a key, or another window size, when the button is up.
Zoom(d) ==
  /\ ~pressed
  /\ camX + d \in CamRange
  /\ Len(commands) < MaxQueue
  /\ camX' = camX + d
  /\ updateSubscriptions(camX + d)
  /\ UNCHANGED <<readyState, shown, pressed, isPanning, camAtPress, messages, server>>

\* A piece is shown, and expected to be answered, before it is sent, if it is.
placeAt(k) ==
  /\ placed' = placed + 1
  /\ localCells' = localCells \cup CellsOf(k)
  /\ pendingCommands' = Append(pendingCommands, CellsOf(k))
  /\ commands' = IF readyState = "OPEN" THEN Append(commands, k) ELSE commands
  /\ early' = (early \/ readyState = "CONNECTING")
  /\ UNCHANGED subscribedChunks

\* mouseup and click: the timer of mouseup fires after the click.
Release ==
  /\ pressed
  /\ Len(commands) < MaxQueue
  /\ pressed' = FALSE
  /\ isPanning' = FALSE
  /\ \/ isPanning /\ updateSubscriptions(camX) /\ UNCHANGED shown
     \/ /\ ~isPanning /\ placed < MaxPlaced
        /\ \E p \in Pieces, r \in Roots :
             r[1] * CellPx \in camX..camX + Width /\ placeAt(Placement(p, r))
  /\ UNCHANGED <<readyState, camX, camAtPress, messages, server>>

Neighbours(c) == {<<c[1] + d[1], c[2] + d[2]>> : d \in ((-1..1) \X (-1..1)) \ {<<0, 0>>}}
localTick ==
  /\ localCells' =
       LET counted(c) == Cardinality(Neighbours(c) \cap localCells)
       IN  {c \in UNION {Neighbours(d) : d \in localCells} :
              counted(c) = 3 \/ (counted(c) = 2 /\ c \in localCells)}
  /\ UNCHANGED <<readyState, gesture, subscribedChunks, pendingCommands, placed, early,
                 commands, messages, server>>

reconcileChunk(m) ==
  localCells' = (localCells \ In(m.chunk, localCells)) \cup Decoded(m.chunk, m.cells)

\* Mutant: an error does not take its entry out of the queue.
rollbackKeeps ==
  /\ localCells' = IF pendingCommands = <<>> THEN localCells
                   ELSE localCells \ Head(pendingCommands)
  /\ UNCHANGED pendingCommands

rollback ==
  /\ localCells' = IF pendingCommands = <<>> THEN localCells
                   ELSE localCells \ Head(pendingCommands)
  /\ pendingCommands' = IF pendingCommands = <<>> THEN <<>> ELSE Tail(pendingCommands)

onmessage ==
  /\ messages # <<>>
  /\ messages' = Tail(messages)
  /\ LET m == Head(messages)
     IN  \/ m.type = "CHUNK_STATE" /\ reconcileChunk(m) /\ UNCHANGED pendingCommands
         \/ /\ m.type = "ACK"
            /\ pendingCommands' = IF pendingCommands = <<>> THEN <<>> ELSE Tail(pendingCommands)
            /\ UNCHANGED localCells
         \/ m.type = "ERROR" /\ rollback
  /\ UNCHANGED <<readyState, gesture, subscribedChunks, placed, early, commands, server>>

-----------------------------------------------------------------------------
(* The server.                                                             *)

Conway == INSTANCE Life WITH Spots <- {}

Written(ms) == messages' = IF readyState = "OPEN" THEN messages \o ms ELSE messages

\* Every handler runs when the one before has ended.  A valid placement is refused if
\* there are no tokens.
ServePlace ==
  /\ commands # <<>> /\ Head(commands).type \notin {"SUBSCRIBE", "UNSUBSCRIBE"}
  /\ Len(messages) < MaxQueue
  /\ commands' = Tail(commands)
  /\ LET k == Head(commands)
         result == IF k.type = "PLACE_CUSTOM" THEN ValidateCustomCells(k.piece.cells)
                   ELSE [error |-> "", out |-> k.piece.cells]
         cells == {CellAt(k.root, c) : c \in ToSet(result.out)}
     IN  \/ /\ result.error = ""
            /\ board' = board \cup cells
            /\ active' = active \cup {ChunkAt(c) : c \in cells}
            /\ Written(<<AnswerTo(k, TRUE)>>)
         \/ /\ Written(<<AnswerTo(k, FALSE)>>)
            /\ UNCHANGED <<board, active>>
  /\ UNCHANGED <<browser, subscribers, sending>>

\* A chunk without cells is neither registered nor sent.
ServeSubscribe ==
  /\ commands # <<>> /\ Head(commands).type = "SUBSCRIBE"
  /\ Len(messages) < MaxQueue
  /\ commands' = Tail(commands)
  /\ LET chunks == Head(commands).chunks
         peeked == {id \in chunks : In(id, board) # {}}
     IN  /\ subscribers' = subscribers \cup chunks
         /\ active' = active \cup peeked
         /\ Written(SetToSeq({ChunkState(id, board) : id \in peeked}))
  /\ UNCHANGED <<browser, board, sending>>

ServeUnsubscribe ==
  /\ commands # <<>> /\ Head(commands).type = "UNSUBSCRIBE"
  /\ commands' = Tail(commands)
  /\ subscribers' = subscribers \ Head(commands).chunks
  /\ UNCHANGED <<browser, messages, board, active, sending>>

\* The read loop ends: UnsubscribeAll.
Leave ==
  /\ readyState = "CLOSED" /\ commands = <<>> /\ subscribers # {}
  /\ subscribers' = {}
  /\ UNCHANGED <<browser, commands, messages, board, active, sending>>

\* hasCellsNearEdge: a cell in the last three columns or rows wakes the neighbour.
Woken(cells) == {ChunkAt(<<c[1] + d[1], c[2] + d[2]>>) : c \in cells, d \in {-3, 0, 3} \X {-3, 0, 3}}

\* TickAll, up to the copies that Broadcast takes of the subscriber sets.
TickAll ==
  /\ sending = {}
  /\ board' = Conway!Generation(board)
  /\ active' = active \cup Woken(board)
  /\ sending' = {ChunkState(id, board') : id \in active' \cap subscribers}
  /\ UNCHANGED <<browser, commands, messages, subscribers>>

Broadcast ==
  /\ Len(messages) < MaxQueue
  /\ \E m \in sending : sending' = sending \ {m} /\ Written(<<m>>)
  /\ UNCHANGED <<browser, commands, board, active, subscribers>>

\* Mutant: whether the chunk is empty is not asked.
HibernateAnyway(id) ==
  /\ id \in active \ subscribers
  /\ active' = active \ {id}
  /\ UNCHANGED <<browser, commands, messages, board, subscribers, sending>>

\* An empty chunk without viewers, idle for long enough.
Hibernate(id) ==
  /\ id \in active \ subscribers
  /\ In(id, board) = {}
  /\ active' = active \ {id}
  /\ UNCHANGED <<browser, commands, messages, board, subscribers, sending>>

-----------------------------------------------------------------------------
Serve == ServePlace \/ ServeSubscribe \/ ServeUnsubscribe \/ Leave

Next ==
  \/ onopen \/ onclose \/ onmessage \/ localTick
  \/ Press \/ Release
  \/ \E d \in Shifts : Drag(d) \/ Zoom(d)
  \/ Serve \/ TickAll \/ Broadcast
  \/ \E id \in ChunkIDs : Hibernate(id)

Spec == Init /\ [][Next]_vars

\* The server's timer fires, messages arrive, and whoever waits to write to a socket that
\* is read gets to.
Fairness ==
  /\ WF_vars(onmessage)
  /\ WF_vars(TickAll)
  /\ SF_vars(Serve)
  /\ SF_vars(Broadcast)
FairSpec == Spec /\ Fairness

-----------------------------------------------------------------------------
(* Properties.                                                             *)

\* Types, and: active chunks are where the cells are, and the server has no subscription
\* of a client before the connection is open (app.js, router.go).
TypeOK ==
  /\ readyState \in {"CONNECTING", "OPEN", "CLOSED"}
  /\ localCells \subseteq Int \X Int
  /\ camX \in CamRange /\ camAtPress \in CamRange
  /\ pressed \in BOOLEAN /\ isPanning \in BOOLEAN
  /\ subscribedChunks \subseteq ChunkIDs
  /\ \A p \in ToSet(pendingCommands) : p # {} /\ p \subseteq Int \X Int
  /\ {ChunkAt(c) : c \in board} \subseteq active
  /\ readyState = "CONNECTING" => subscribers = {} /\ commands = <<>>
  /\ placed \in 0..MaxPlaced

\* What waits for an answer, or is one, and the cells that the piece was shown with.
Expecting(e) == e.type \notin {"SUBSCRIBE", "UNSUBSCRIBE", "CHUNK_STATE"}
PieceOf(e) == IF e.type \in {"ACK", "ERROR"} THEN CellsOf(e.to) ELSE CellsOf(e)

\* The queue has one entry for each answer that is owed in the stream, in its order.
Matches(queue, stream) ==
  \E f \in [1..Len(queue) -> 1..Len(stream)] :
    /\ \A i, j \in 1..Len(queue) : i < j => f[i] < f[j]
    /\ \A n \in 1..Len(stream) : Expecting(stream[n]) <=> \E i \in 1..Len(queue) : f[i] = n
    /\ \A i \in 1..Len(queue) : queue[i] = PieceOf(stream[f[i]])

\* While the connection is up, the queue has one entry for each command that is still to
\* be answered, in the order of the answers, if nothing was placed before it was up
\* (app.js:72-76).
QueueMatches == readyState = "OPEN" /\ ~early => Matches(pendingCommands, messages \o commands)

\* The chunks that the browser notes as subscribed are those that the server will have
\* for it when it has served the commands under way, the last word on a chunk counting,
\* and, when the button is up, those that are visible, if the mouse is fast
\* (updateSubscriptions, router.go).
Names(k, id) == k.type \in {"SUBSCRIBE", "UNSUBSCRIBE"} /\ id \in k.chunks
Applied(ids, ks) ==
  {id \in ids : \A i \in DOMAIN ks : ~Names(ks[i], id)}
    \cup {id \in ChunkIDs : \E i \in DOMAIN ks :
            /\ Names(ks[i], id) /\ ks[i].type = "SUBSCRIBE"
            /\ \A j \in i + 1..Len(ks) : ~Names(ks[j], id)}
SubscriptionsAgree ==
  readyState = "OPEN" => /\ subscribedChunks = Applied(subscribers, commands)
                         /\ ~pressed => subscribedChunks = visibleChunks(camX)

\* "Click to spawn, drag to pan" (index.html:632): a gesture that has moved the camera
\* places nothing, if the mouse is fast (isPanning).
DragsPlaceNothing == [][placed' # placed => camX = camAtPress]_vars

\* What the editor lets a player draw, the server takes as it is: no refusal, and no
\* duplicates, so that it charges what the browser has charged (shapes.go, app.js:1114).
EditorAgrees ==
  \A k \in ToSet(commands) : k.type = "PLACE_CUSTOM" =>
    ValidateCustomCells(k.piece.cells) = [error |-> "", out |-> k.piece.cells]

\* What a player sees of a chunk that pieces are placed in comes to agree with the board
\* again and again, while it is subscribed and active: predictions do not drift away
\* (reconcileChunk, app.js:195-196).
Shown(id) == In(id, localCells) = In(id, board)
Viewed(id) == readyState = "OPEN" /\ id \in subscribedChunks
DriftIsCorrected == \A id \in {ChunkAt(r) : r \in Roots} :
  (Viewed(id) /\ id \in active) ~> (Shown(id) \/ ~Viewed(id) \/ id \notin active)
=============================================================================
