--------------------------- MODULE ViewportProofs ---------------------------
(***************************************************************************)
(* The browser, for every camera, window, piece and number of commands on  *)
(* their way: its variables keep their types, its queue is in the order of *)
(* the answers, it notes the subscriptions that the server will have, what *)
(* it sends of a drawn piece is accepted, a drag of a fast mouse places    *)
(* nothing, and the state of a chunk, written down by the server and read  *)
(* by the browser, is the server's board there.                            *)
(***************************************************************************)
EXTENDS Viewport, CodecProofs

USE ViewportAssumption

-----------------------------------------------------------------------------
(* Gestures.                                                                *)

\* Until the mouse has been seen to pan, the camera is where the button went down.
GestureInvariant == pressed /\ ~isPanning => camX = camAtPress

\* Every event that moves the camera moves the mouse by more than the threshold.
MouseIsFast == \A d \in Shifts : d > Threshold \/ -d > Threshold

LEMMA GestureInit == Init => GestureInvariant
BY DEF Init, GestureInvariant

LEMMA GestureStep ==
  ASSUME MouseIsFast, GestureInvariant, [Next]_vars
  PROVE  GestureInvariant'
<1>1. ASSUME UNCHANGED gesture
      PROVE  GestureInvariant'
  BY <1>1 DEF gesture, GestureInvariant
<1>2. CASE onopen \/ onclose \/ onmessage \/ localTick
  BY <1>1, <1>2 DEF onopen, onclose, onmessage, localTick
<1>3. CASE Press
  BY <1>3 DEF Press, GestureInvariant
<1>4. CASE Release
  BY <1>4 DEF Release, GestureInvariant
<1>5. ASSUME NEW d \in Shifts, Drag(d)
      PROVE  GestureInvariant'
  <2>1. isPanning' = (isPanning \/ d > Threshold \/ -d > Threshold)
    BY <1>5 DEF Drag
  <2>2. d > Threshold \/ -d > Threshold
    BY DEF MouseIsFast
  <2>3. QED
    BY <2>1, <2>2 DEF GestureInvariant
<1>6. ASSUME NEW d \in Shifts, Zoom(d)
      PROVE  GestureInvariant'
  BY <1>6 DEF Zoom, GestureInvariant
<1>7. CASE Serve \/ TickAll \/ Broadcast \/ (\E id \in ChunkIDs : Hibernate(id))
  <2>1. UNCHANGED browser
    BY <1>7 DEF Serve, ServePlace, ServeSubscribe, ServeUnsubscribe, Leave, TickAll, Broadcast,
                Hibernate
  <2>2. QED
    BY <1>1, <2>1 DEF browser
<1>8. CASE UNCHANGED vars
  BY <1>1, <1>8 DEF vars, browser
<1>9. QED
  BY <1>2, <1>3, <1>4, <1>5, <1>6, <1>7, <1>8 DEF Next

LEMMA OnlyClicksPlace ==
  ASSUME GestureInvariant, [Next]_vars
  PROVE  placed' # placed => camX = camAtPress
<1>1. CASE UNCHANGED shown
  BY <1>1 DEF shown
<1>2. CASE onopen \/ onclose
  BY <1>1, <1>2 DEF onopen, onclose
<1>3. CASE onmessage \/ localTick
  BY <1>3 DEF onmessage, localTick
<1>4. CASE Press \/ (\E d \in Shifts : Drag(d) \/ Zoom(d))
  BY <1>1, <1>4 DEF Press, Drag, Zoom
<1>5. CASE Release
  <2>1. CASE isPanning
    BY <1>1, <1>5, <2>1 DEF Release
  <2>2. CASE ~isPanning
    BY <1>5, <2>2 DEF Release, GestureInvariant
  <2>3. QED
    BY <2>1, <2>2
<1>6. CASE Serve \/ TickAll \/ Broadcast \/ (\E id \in ChunkIDs : Hibernate(id))
  <2>1. UNCHANGED browser
    BY <1>6 DEF Serve, ServePlace, ServeSubscribe, ServeUnsubscribe, Leave, TickAll, Broadcast,
                Hibernate
  <2>2. QED
    BY <1>1, <2>1 DEF browser
<1>7. CASE UNCHANGED vars
  BY <1>1, <1>7 DEF vars, browser
<1>8. QED
  BY <1>2, <1>3, <1>4, <1>5, <1>6, <1>7 DEF Next

\* If no event moves the mouse by the threshold or less, a gesture that moves the camera
\* never places a piece: a click that places one has left the camera where the button
\* went down (viewport/app.js, mousedown, mousemove, mouseup and click).
THEOREM FastDragsPlaceNothing ==
  ASSUME MouseIsFast
  PROVE  Spec => DragsPlaceNothing
<1>1. Init => GestureInvariant
  BY GestureInit
<1>2. GestureInvariant /\ [Next]_vars => GestureInvariant'
  BY GestureStep
<1>3. GestureInvariant /\ [Next]_vars => [placed' # placed => camX = camAtPress]_vars
  BY OnlyClicksPlace
<1>4. QED
  BY <1>1, <1>2, <1>3, PTL DEF Spec, DragsPlaceNothing

-----------------------------------------------------------------------------
(* Reconciliation.                                                          *)

LEMMA InChunk ==
  ASSUME NEW id \in Int \X Int, NEW c \in Int \X Int, ChunkAt(c) = id
  PROVE  /\ ToLocal(c) \in Local
         /\ <<(id[1] * ChunkSize) + ToLocal(c)[1], (id[2] * ChunkSize) + ToLocal(c)[2]>> = c
<1>1. ASSUME NEW n \in Int
      PROVE  /\ n % ChunkSize \in Positions
             /\ ((n \div ChunkSize) * ChunkSize) + (n % ChunkSize) = n
  BY CodecAssumption DEF Positions
<1>2. c[1] \in Int /\ c[2] \in Int /\ c = <<c[1], c[2]>>
  OBVIOUS
<1>3. c[1] \div ChunkSize = id[1] /\ c[2] \div ChunkSize = id[2]
  BY DEF ChunkAt
<1>4. ToLocal(c)[1] = c[1] % ChunkSize /\ ToLocal(c)[2] = c[2] % ChunkSize
  BY DEF ToLocal
<1>5. ToLocal(c) \in Local
  BY <1>1, <1>2 DEF ToLocal, Local
<1>6. /\ (id[1] * ChunkSize) + ToLocal(c)[1] = c[1]
      /\ (id[2] * ChunkSize) + ToLocal(c)[2] = c[2]
  BY <1>1, <1>2, <1>3, <1>4
<1>7. QED
  BY <1>2, <1>5, <1>6

\* The message that Broadcast writes of a chunk, decoded by the browser, is the board's part
\* in that chunk, no cell more or less, wherever the chunk is (gateway/pubsub.go, Broadcast;
\* simulation/chunk.go, RowsToOffsets; viewport/app.js, reconcileChunk).
THEOREM WhatIsSentIsSeen ==
  ASSUME NEW id \in Int \X Int, NEW cells \in SUBSET (Int \X Int)
  PROVE  Decoded(id, ChunkState(id, cells).cells) = In(id, cells)
<1> DEFINE locals == {ToLocal(c) : c \in In(id, cells)}
           world(c) == <<(id[1] * ChunkSize) + c[1], (id[2] * ChunkSize) + c[2]>>
<1>1. \A c \in In(id, cells) : c \in Int \X Int /\ ChunkAt(c) = id
  BY DEF In
<1>2. \A c \in In(id, cells) : ToLocal(c) \in Local /\ world(ToLocal(c)) = c
  BY <1>1, InChunk
<1>3. locals \in SUBSET Local
  BY <1>2
<1>4. ChunkState(id, cells).cells = RowsToOffsets(Rows(locals))
  BY DEF ChunkState
<1>5. Decoded(id, RowsToOffsets(Rows(locals))) = {world(c) : c \in locals}
  <2> HIDE DEF locals
  <2>1. QED
    BY <1>3, BrowserReadsTheChunk
<1>6. {world(c) : c \in locals} = In(id, cells)
  <2> HIDE DEF world
  <2>1. QED
    BY <1>2
<1>7. QED
  BY <1>4, <1>5, <1>6

-----------------------------------------------------------------------------
(* What is on its way.                                                      *)

Cells == Int \X Int

\* Subscriptions name finitely many chunks of those that the camera can show.
Subs == {Subscription(type, chunks) : type \in {"SUBSCRIBE", "UNSUBSCRIBE"},
                                      chunks \in {c \in SUBSET ChunkIDs : IsFiniteSet(c)}}
Placements == {Placement(p, r) : p \in Pieces, r \in Roots}
Answers == {AnswerTo(k, ok) : k \in Placements, ok \in BOOLEAN}
States == [type : {"CHUNK_STATE"}, chunk : Cells, cells : SUBSET Int]
Stream == Subs \cup Placements \cup Answers \cup States
Shows == (SUBSET Cells) \ {{}}

LEMMA Kinds ==
  /\ \A e \in Subs : ~Expecting(e) /\ e.type \in {"SUBSCRIBE", "UNSUBSCRIBE"}
                    /\ e.chunks \in SUBSET ChunkIDs /\ IsFiniteSet(e.chunks)
  /\ \A e \in States : ~Expecting(e) /\ e.type = "CHUNK_STATE"
  /\ \A e \in Placements : /\ Expecting(e) /\ PieceOf(e) = CellsOf(e)
                           /\ e.type \in {"SPAWN", "PLACE_SHAPE", "PLACE_CUSTOM"}
  /\ \A e \in Answers : /\ Expecting(e) /\ e.type \in {"ACK", "ERROR"}
                        /\ e.to \in Placements /\ PieceOf(e) = CellsOf(e.to)
<1>1. \A e \in Subs : ~Expecting(e) /\ e.type \in {"SUBSCRIBE", "UNSUBSCRIBE"}
                    /\ e.chunks \in SUBSET ChunkIDs /\ IsFiniteSet(e.chunks)
  BY DEF Subs, Subscription, Expecting
<1>2. \A e \in States : ~Expecting(e) /\ e.type = "CHUNK_STATE"
  BY DEF States, Expecting
<1>3. \A e \in Placements : /\ Expecting(e) /\ PieceOf(e) = CellsOf(e)
                           /\ e.type \in {"SPAWN", "PLACE_SHAPE", "PLACE_CUSTOM"}
  <2>1. ASSUME NEW p \in Pieces, NEW r \in Roots
        PROVE  Placement(p, r).type \in {"SPAWN", "PLACE_SHAPE", "PLACE_CUSTOM"}
    BY ViewportAssumption DEF Placement
  <2>2. \A e \in Placements : e.type \in {"SPAWN", "PLACE_SHAPE", "PLACE_CUSTOM"}
    BY <2>1 DEF Placements
  <2>3. QED
    BY <2>2 DEF Expecting, PieceOf
<1>4. \A e \in Answers : /\ Expecting(e) /\ e.type \in {"ACK", "ERROR"}
                        /\ e.to \in Placements /\ PieceOf(e) = CellsOf(e.to)
  <2>1. \A k \in Placements : \A ok \in BOOLEAN :
          AnswerTo(k, ok).type \in {"ACK", "ERROR"} /\ AnswerTo(k, ok).to = k
    BY DEF AnswerTo
  <2>2. \A e \in Answers : e.type \in {"ACK", "ERROR"} /\ e.to \in Placements
    BY <2>1 DEF Answers
  <2>3. QED
    BY <2>2 DEF Expecting, PieceOf
<1>5. QED
  BY <1>1, <1>2, <1>3, <1>4

LEMMA ShownPieces ==
  ASSUME NEW k \in Placements
  PROVE  CellsOf(k) \in Shows
<1>1. PICK p \in Pieces : \E r \in Roots : k = Placement(p, r)
  BY DEF Placements
<1>2. PICK r \in Roots : k = Placement(p, r)
  BY <1>1
<1>3. k.root = r /\ k.piece = p
  BY <1>2 DEF Placement
<1>4. r[1] \in Int /\ r[2] \in Int
  BY ViewportAssumption
<1>5. p.cells \in Seq(Nat \X Nat) /\ p.cells # <<>>
  BY ViewportAssumption
<1> DEFINE s == p.cells
<1> HIDE DEF s
<1>6. ToSet(s) # {} /\ \A c \in ToSet(s) : c \in Nat \X Nat
  <2>1. s \in [1 .. Len(s) -> Nat \X Nat] /\ Len(s) \in Nat \ {0}
    BY <1>5, LenProperties, EmptySeq DEF s
  <2>2. 1 \in DOMAIN s
    BY <2>1
  <2>3. QED
    BY <2>1, <2>2 DEF ToSet
<1> DEFINE T == ToSet(s)
           at(c) == <<r[1] + c[1], r[2] + c[2]>>
<1>7. CellsOf(k) = {at(c) : c \in T}
  BY <1>3 DEF CellsOf, s
<1>8. \A c \in T : at(c) \in Cells
  BY <1>4, <1>6 DEF Cells
<1>9. T # {}
  BY <1>6
<1> HIDE DEF T, at
<1>10. CellsOf(k) # {} /\ CellsOf(k) \subseteq Cells
  BY <1>7, <1>8, <1>9
<1>11. QED
  BY <1>10 DEF Shows

-----------------------------------------------------------------------------
(* One entry of the queue for each answer that is owed.                     *)

\* f takes each entry to the place of its answer.
Pairs(f, queue, stream) ==
  /\ f \in [1 .. Len(queue) -> 1 .. Len(stream)]
  /\ \A i, j \in 1 .. Len(queue) : i < j => f[i] < f[j]
  /\ \A n \in 1 .. Len(stream) : Expecting(stream[n]) <=> \E i \in 1 .. Len(queue) : f[i] = n
  /\ \A i \in 1 .. Len(queue) : queue[i] = PieceOf(stream[f[i]])

LEMMA MatchesIsPairs ==
  ASSUME NEW queue, NEW stream
  PROVE  /\ \A f : Pairs(f, queue, stream) => Matches(queue, stream)
         /\ Matches(queue, stream) => \E f : Pairs(f, queue, stream)
BY DEF Matches, Pairs

\* What owes no answer can be left out of the stream, or put into it.
LEMMA QuietReplaced ==
  ASSUME NEW queue \in Seq(Shows), NEW s \in Seq(Stream), NEW t \in Seq(Stream),
         NEW a \in Nat, NEW b \in Nat, NEW d \in Nat,
         a + b <= Len(s), Len(t) = (Len(s) - b) + d,
         \A n \in 1 .. a : t[n] = s[n],
         \A n \in a + 1 .. a + b : ~Expecting(s[n]),
         \A n \in a + 1 .. a + d : ~Expecting(t[n]),
         \A n \in a + b + 1 .. Len(s) : t[(n - b) + d] = s[n],
         Matches(queue, s)
  PROVE  Matches(queue, t)
<1> DEFINE Q == Len(queue)
           N == Len(s)
           M == Len(t)
<1>1. Q \in Nat /\ N \in Nat /\ M \in Nat
  BY LenProperties
<1>2. PICK f : Pairs(f, queue, s)
  BY MatchesIsPairs
<1>3. /\ f \in [1 .. Q -> 1 .. N]
      /\ \A i, j \in 1 .. Q : i < j => f[i] < f[j]
      /\ \A n \in 1 .. N : Expecting(s[n]) <=> \E i \in 1 .. Q : f[i] = n
      /\ \A i \in 1 .. Q : queue[i] = PieceOf(s[f[i]])
  BY <1>2 DEF Pairs
<1> DEFINE move(n) == IF n <= a THEN n ELSE (n - b) + d
           g == [i \in 1 .. Q |-> move(f[i])]
<1>4. a + b <= N /\ M = (N - b) + d
  OBVIOUS
<1>5. \A n \in 1 .. a : t[n] = s[n]
  OBVIOUS
<1>6. \A n \in a + b + 1 .. N : t[(n - b) + d] = s[n]
  OBVIOUS
<1>7. \A n \in a + 1 .. a + b : ~Expecting(s[n])
  OBVIOUS
<1>8. \A n \in a + 1 .. a + d : ~Expecting(t[n])
  OBVIOUS
<1> HIDE DEF Q, N, M
<1>9. ASSUME NEW k \in 1 .. N, NEW l \in 1 .. N, k <= a \/ k > a + b, l <= a \/ l > a + b, k < l
       PROVE  move(k) < move(l)
  BY <1>1, <1>4, <1>9
<1>10. ASSUME NEW i \in 1 .. Q
      PROVE  /\ f[i] \in 1 .. N /\ (f[i] <= a \/ f[i] > a + b)
             /\ move(f[i]) \in 1 .. M /\ t[move(f[i])] = s[f[i]]
             /\ (move(f[i]) <= a \/ move(f[i]) > a + d)
  <2>1. f[i] \in 1 .. N /\ Expecting(s[f[i]])
    BY <1>3
  <2>2. f[i] \notin a + 1 .. a + b
    BY <1>7, <2>1
  <2>3. f[i] <= a \/ f[i] > a + b
    BY <1>1, <2>1, <2>2
  <2>4. CASE f[i] <= a
    BY <1>1, <1>4, <1>5, <2>1, <2>4
  <2>5. CASE f[i] > a + b
    <3> DEFINE k == f[i]
    <3>1. k \in a + b + 1 .. N
      BY <1>1, <2>1, <2>5
    <3> HIDE DEF k
    <3>2. t[(k - b) + d] = s[k]
      BY <1>6, <3>1
    <3>3. move(k) = (k - b) + d /\ move(k) \in 1 .. M /\ move(k) > a + d
      BY <1>1, <1>4, <3>1
    <3>4. QED
      BY <2>1, <2>5, <3>2, <3>3 DEF k
  <2>6. QED
    BY <2>3, <2>4, <2>5
<1>11. g \in [1 .. Q -> 1 .. M] /\ \A i \in 1 .. Q : g[i] = move(f[i])
  BY <1>10
<1>12. ASSUME NEW i \in 1 .. Q, NEW j \in 1 .. Q, i < j
       PROVE  g[i] < g[j]
  <2>1. f[i] < f[j]
    BY <1>3, <1>12
  <2> HIDE DEF g, move
  <2>2. move(f[i]) < move(f[j])
    BY <1>10, <1>9, <2>1
  <2>3. QED
    BY <1>11, <2>2
<1>13. ASSUME NEW n \in 1 .. M
       PROVE  Expecting(t[n]) <=> \E i \in 1 .. Q : g[i] = n
  <2>1. ASSUME NEW m \in 1 .. N, m <= a \/ m > a + b, n = move(m), t[n] = s[m]
        PROVE  Expecting(t[n]) <=> \E i \in 1 .. Q : g[i] = n
    <3>1. Expecting(t[n]) <=> \E i \in 1 .. Q : f[i] = m
      BY <1>3, <2>1
    <3>2. ASSUME NEW i \in 1 .. Q
          PROVE  f[i] = m <=> g[i] = n
      <4> DEFINE k == f[i]
      <4>1. k \in 1 .. N /\ (k <= a \/ k > a + b) /\ g[i] = move(k)
        BY <1>10, <1>11
      <4> HIDE DEF g, k
      <4>2. k = m \/ k < m \/ m < k
        BY <1>1, <4>1
      <4>3. move(k) \in Int /\ move(m) \in Int
        BY <1>1, <4>1
      <4> HIDE DEF move
      <4>4. k = m <=> move(k) = move(m)
        BY <1>9, <2>1, <4>1, <4>2, <4>3
      <4>5. QED
        BY <2>1, <4>1, <4>4 DEF k
    <3>3. QED
      BY <3>1, <3>2
  <2>2. CASE n <= a
    <3>1. n \in 1 .. N /\ n = move(n)
      BY <1>1, <1>4, <2>2
    <3>2. t[n] = s[n]
      BY <1>1, <1>5, <2>2
    <3>3. QED
      BY <2>1, <2>2, <3>1, <3>2
  <2>3. CASE n \in a + 1 .. a + d
    <3>1. ~Expecting(t[n])
      BY <1>8, <2>3
    <3>2. ASSUME NEW i \in 1 .. Q
          PROVE  g[i] # n
      <4> DEFINE k == move(f[i])
      <4>1. k \in 1 .. M /\ (k <= a \/ k > a + d) /\ g[i] = k
        BY <1>10, <1>11
      <4> HIDE DEF g, k
      <4>2. QED
        BY <1>1, <2>3, <4>1
    <3>3. QED
      BY <3>1, <3>2
  <2>4. CASE n > a + d
    <3> DEFINE m == (n - d) + b
    <3>1. m \in a + b + 1 .. N /\ (m - b) + d = n
      BY <1>1, <1>4, <2>4
    <3>2. t[n] = s[m]
      BY <1>6, <3>1
    <3>3. m \in 1 .. N /\ m > a + b /\ n = move(m)
      BY <1>1, <3>1
    <3> HIDE DEF m
    <3>4. QED
      BY <2>1, <3>2, <3>3
  <2>5. QED
    BY <1>1, <2>2, <2>3, <2>4
<1>14. \A i \in 1 .. Q : queue[i] = PieceOf(t[g[i]])
  BY <1>3, <1>10, <1>11
<1>15. Pairs(g, queue, t)
  BY <1>11, <1>12, <1>13, <1>14 DEF Pairs, Q, M
<1>16. QED
  BY <1>15, MatchesIsPairs

LEMMA MiddleReplaced ==
  ASSUME NEW queue \in Seq(Shows), NEW A \in Seq(Stream), NEW B \in Seq(Stream),
         NEW C \in Seq(Stream), NEW D \in Seq(Stream),
         \A n \in 1 .. Len(B) : ~Expecting(B[n]), \A n \in 1 .. Len(D) : ~Expecting(D[n]),
         Matches(queue, A \o (B \o C))
  PROVE  Matches(queue, A \o (D \o C))
<1> DEFINE a == Len(A)
           b == Len(B)
           c == Len(C)
           d == Len(D)
           BC == B \o C
           DC == D \o C
           s == A \o BC
           t == A \o DC
<1>1. a \in Nat /\ b \in Nat /\ c \in Nat /\ d \in Nat
  BY LenProperties
<1>2. /\ BC \in Seq(Stream) /\ Len(BC) = b + c
      /\ \A i \in 1 .. b + c : BC[i] = IF i <= b THEN B[i] ELSE C[i - b]
  BY ConcatProperties
<1>3. /\ DC \in Seq(Stream) /\ Len(DC) = d + c
      /\ \A i \in 1 .. d + c : DC[i] = IF i <= d THEN D[i] ELSE C[i - d]
  BY ConcatProperties
<1> HIDE DEF BC, DC
<1>4. /\ s \in Seq(Stream) /\ Len(s) = a + (b + c)
      /\ \A i \in 1 .. a + (b + c) : s[i] = IF i <= a THEN A[i] ELSE BC[i - a]
  <2> HIDE DEF a, b, c, d
  <2>1. /\ s \in Seq(Stream) /\ Len(s) = a + Len(BC)
        /\ \A i \in 1 .. a + Len(BC) : s[i] = IF i <= a THEN A[i] ELSE BC[i - a]
    BY <1>2, ConcatProperties DEF a
  <2> HIDE DEF s, t
  <2>2. QED
    BY <1>2, <2>1
<1>5. /\ t \in Seq(Stream) /\ Len(t) = a + (d + c)
      /\ \A i \in 1 .. a + (d + c) : t[i] = IF i <= a THEN A[i] ELSE DC[i - a]
  <2> HIDE DEF a, b, c, d
  <2>1. /\ t \in Seq(Stream) /\ Len(t) = a + Len(DC)
        /\ \A i \in 1 .. a + Len(DC) : t[i] = IF i <= a THEN A[i] ELSE DC[i - a]
    BY <1>3, ConcatProperties DEF a
  <2> HIDE DEF s, t
  <2>2. QED
    BY <1>3, <2>1
<1>6. (\A n \in 1 .. b : ~Expecting(B[n])) /\ (\A n \in 1 .. d : ~Expecting(D[n]))
  OBVIOUS
<1>7. Matches(queue, s)
  BY DEF BC
<1> HIDE DEF a, b, c, d, s, t
<1>8. a + b <= Len(s) /\ Len(t) = (Len(s) - b) + d
  BY <1>1, <1>4, <1>5
<1>9. ASSUME NEW n \in 1 .. a
      PROVE  t[n] = s[n]
  <2>1. n \in 1 .. a + (b + c) /\ n \in 1 .. a + (d + c) /\ n <= a
    BY <1>1
  <2>2. s[n] = A[n] /\ t[n] = A[n]
    BY <1>4, <1>5, <2>1
  <2>3. QED
    BY <2>2
<1>10. ASSUME NEW n \in a + 1 .. a + b
       PROVE  ~Expecting(s[n])
  <2> DEFINE k == n - a
  <2>1. k \in 1 .. b /\ n \in 1 .. a + (b + c) /\ ~(n <= a) /\ k \in 1 .. b + c /\ k <= b
    BY <1>1
  <2>2. s[n] = BC[k]
    BY <1>4, <2>1
  <2> HIDE DEF k
  <2>3. BC[k] = B[k]
    BY <1>2, <2>1
  <2>4. QED
    BY <1>6, <2>1, <2>2, <2>3
<1>11. ASSUME NEW n \in a + 1 .. a + d
       PROVE  ~Expecting(t[n])
  <2> DEFINE k == n - a
  <2>1. k \in 1 .. d /\ n \in 1 .. a + (d + c) /\ ~(n <= a) /\ k \in 1 .. d + c /\ k <= d
    BY <1>1
  <2>2. t[n] = DC[k]
    BY <1>5, <2>1
  <2> HIDE DEF k
  <2>3. DC[k] = D[k]
    BY <1>3, <2>1
  <2>4. QED
    BY <1>6, <2>1, <2>2, <2>3
<1>12. ASSUME NEW n \in a + b + 1 .. Len(s)
       PROVE  t[(n - b) + d] = s[n]
  <2> DEFINE m == (n - b) + d
             k == n - a
             l == m - a
  <2>1. /\ n \in 1 .. a + (b + c) /\ ~(n <= a) /\ k \in 1 .. b + c /\ ~(k <= b)
        /\ m \in 1 .. a + (d + c) /\ ~(m <= a) /\ l \in 1 .. d + c /\ ~(l <= d)
        /\ k - b = l - d
    BY <1>1, <1>4
  <2>2. s[n] = BC[k]
    BY <1>4, <2>1
  <2> HIDE DEF m
  <2>3. t[m] = DC[l]
    BY <1>5, <2>1
  <2> HIDE DEF k, l
  <2>4. BC[k] = C[k - b] /\ DC[l] = C[l - d]
    BY <1>2, <1>3, <2>1
  <2>5. QED
    BY <2>1, <2>2, <2>3, <2>4 DEF m
<1>13. Matches(queue, t)
  <2>1. s \in Seq(Stream) /\ t \in Seq(Stream)
    BY <1>4, <1>5
  <2>2. QED
    BY <1>1, <1>7, <1>8, <1>9, <1>10, <1>11, <1>12, <2>1, QuietReplaced
<1>14. QED
  BY <1>13 DEF t, DC

\* A command in the stream and its answer in its place are waited for by the same entry.
LEMMA SameExpected ==
  ASSUME NEW queue, NEW s \in Seq(Stream), NEW t \in Seq(Stream), Len(t) = Len(s),
         \A n \in 1 .. Len(s) :
           Expecting(t[n]) = Expecting(s[n]) /\ PieceOf(t[n]) = PieceOf(s[n]),
         Matches(queue, s)
  PROVE  Matches(queue, t)
<1>1. PICK f : Pairs(f, queue, s)
  BY MatchesIsPairs
<1>2. /\ f \in [1 .. Len(queue) -> 1 .. Len(s)]
      /\ \A i, j \in 1 .. Len(queue) : i < j => f[i] < f[j]
      /\ \A n \in 1 .. Len(s) : Expecting(s[n]) <=> \E i \in 1 .. Len(queue) : f[i] = n
      /\ \A i \in 1 .. Len(queue) : queue[i] = PieceOf(s[f[i]])
  BY <1>1 DEF Pairs
<1>3. \A i \in 1 .. Len(queue) : PieceOf(t[f[i]]) = PieceOf(s[f[i]])
  BY <1>2
<1>4. \A n \in 1 .. Len(t) : Expecting(t[n]) <=> \E i \in 1 .. Len(queue) : f[i] = n
  BY <1>2
<1>5. Pairs(f, queue, t)
  BY <1>2, <1>3, <1>4 DEF Pairs
<1>6. QED
  BY <1>5, MatchesIsPairs

\* A piece is put at the end of the queue, and its command at the end of the stream.
LEMMA EntryAppended ==
  ASSUME NEW queue \in Seq(Shows), NEW s \in Seq(Stream), NEW e \in Stream, NEW p \in Shows,
         Expecting(e), PieceOf(e) = p, Matches(queue, s)
  PROVE  Matches(Append(queue, p), Append(s, e))
<1> DEFINE Q == Len(queue)
           N == Len(s)
           q2 == Append(queue, p)
           t == Append(s, e)
<1>1. Q \in Nat /\ N \in Nat
  BY LenProperties
<1>2. Len(q2) = Q + 1 /\ q2[Q + 1] = p /\ \A i \in 1 .. Q : q2[i] = queue[i]
  BY AppendProperties
<1>3. Len(t) = N + 1 /\ t[N + 1] = e /\ \A n \in 1 .. N : t[n] = s[n]
  BY AppendProperties
<1>4. PICK f : Pairs(f, queue, s)
  BY MatchesIsPairs
<1>5. /\ f \in [1 .. Q -> 1 .. N]
      /\ \A i, j \in 1 .. Q : i < j => f[i] < f[j]
      /\ \A n \in 1 .. N : Expecting(s[n]) <=> \E i \in 1 .. Q : f[i] = n
      /\ \A i \in 1 .. Q : queue[i] = PieceOf(s[f[i]])
  BY <1>4 DEF Pairs
<1> DEFINE g == [i \in 1 .. Q + 1 |-> IF i = Q + 1 THEN N + 1 ELSE f[i]]
<1> HIDE DEF Q, N, q2, t
<1>6. \A i \in 1 .. Q : f[i] \in 1 .. N /\ i # Q + 1 /\ i \in 1 .. Q + 1
  BY <1>1, <1>5
<1>7. /\ g \in [1 .. Q + 1 -> 1 .. N + 1] /\ g[Q + 1] = N + 1
      /\ \A i \in 1 .. Q : g[i] = f[i]
  BY <1>1, <1>6
<1> HIDE DEF g
<1>8. ASSUME NEW i \in 1 .. Q + 1, NEW j \in 1 .. Q + 1, i < j
      PROVE  g[i] < g[j]
  <2>1. i \in 1 .. Q /\ (j \in 1 .. Q \/ j = Q + 1)
    BY <1>1, <1>8
  <2>2. g[i] = f[i] /\ f[i] \in 1 .. N
    BY <1>6, <1>7, <2>1
  <2>3. CASE j = Q + 1
    BY <1>1, <1>7, <2>2, <2>3
  <2>4. CASE j \in 1 .. Q
    BY <1>5, <1>7, <1>8, <2>1, <2>2, <2>4
  <2>5. QED
    BY <2>1, <2>3, <2>4
<1>9. ASSUME NEW n \in 1 .. N + 1
      PROVE  Expecting(t[n]) <=> \E i \in 1 .. Q + 1 : g[i] = n
  <2>1. CASE n = N + 1
    <3>1. Q + 1 \in 1 .. Q + 1
      BY <1>1
    <3>2. Expecting(t[n]) /\ g[Q + 1] = n
      BY <1>3, <1>7, <2>1
    <3>3. QED
      BY <3>1, <3>2
  <2>2. CASE n \in 1 .. N
    <3>1. Expecting(t[n]) <=> \E i \in 1 .. Q : f[i] = n
      BY <1>3, <1>5, <2>2
    <3>2. \A i \in 1 .. Q + 1 : i \in 1 .. Q \/ i = Q + 1
      BY <1>1
    <3>3. g[Q + 1] # n
      BY <1>1, <1>7, <2>2
    <3>4. (\E i \in 1 .. Q : f[i] = n) <=> \E i \in 1 .. Q + 1 : g[i] = n
      BY <1>6, <1>7, <3>2, <3>3
    <3>5. QED
      BY <3>1, <3>4
  <2>3. QED
    BY <1>1, <2>1, <2>2
<1>10. ASSUME NEW i \in 1 .. Q + 1
       PROVE  q2[i] = PieceOf(t[g[i]])
  <2>1. CASE i = Q + 1
    BY <1>2, <1>3, <1>7, <2>1
  <2>2. CASE i \in 1 .. Q
    BY <1>2, <1>3, <1>5, <1>6, <1>7, <2>2
  <2>3. QED
    BY <1>1, <2>1, <2>2
<1>11. Pairs(g, q2, t)
  BY <1>2, <1>3, <1>7, <1>8, <1>9, <1>10 DEF Pairs
<1>12. QED
  BY <1>11, MatchesIsPairs DEF q2, t

\* The answer at the head of the stream is the one that the head of the queue waits for.
LEMMA HeadAnswered ==
  ASSUME NEW queue \in Seq(Shows), NEW s \in Seq(Stream), s # <<>>, Expecting(Head(s)),
         Matches(queue, s)
  PROVE  queue # <<>> /\ Matches(Tail(queue), Tail(s))
<1> DEFINE Q == Len(queue)
           N == Len(s)
           q2 == Tail(queue)
           t == Tail(s)
<1>1. Q \in Nat /\ N \in Nat \ {0} /\ Head(s) = s[1]
  BY LenProperties, EmptySeq
<1>2. PICK f : Pairs(f, queue, s)
  BY MatchesIsPairs
<1>3. /\ f \in [1 .. Q -> 1 .. N]
      /\ \A i, j \in 1 .. Q : i < j => f[i] < f[j]
      /\ \A n \in 1 .. N : Expecting(s[n]) <=> \E i \in 1 .. Q : f[i] = n
      /\ \A i \in 1 .. Q : queue[i] = PieceOf(s[f[i]])
  BY <1>2 DEF Pairs
<1>4. PICK k \in 1 .. Q : f[k] = 1
  BY <1>1, <1>3
<1>5. queue # <<>>
  BY <1>1, <1>4, EmptySeq
<1>6. Len(q2) = Q - 1 /\ \A i \in 1 .. Q - 1 : q2[i] = queue[i + 1]
  BY <1>5, HeadTailProperties
<1>7. Len(t) = N - 1 /\ \A n \in 1 .. N - 1 : t[n] = s[n + 1]
  BY HeadTailProperties
<1> HIDE DEF Q, N, q2, t
<1>8. 1 \in 1 .. Q /\ f[1] = 1
  <2>1. 1 \in 1 .. Q /\ (k = 1 \/ 1 < k) /\ f[1] \in 1 .. N
    BY <1>1, <1>3, <1>4
  <2>2. 1 < k => f[1] < 1
    BY <1>3, <1>4, <2>1
  <2>3. QED
    BY <1>1, <1>4, <2>1, <2>2
<1>9. ASSUME NEW i \in 1 .. Q - 1
      PROVE  i + 1 \in 1 .. Q /\ f[i + 1] \in 2 .. N
  <2>1. i + 1 \in 1 .. Q /\ 1 < i + 1
    BY <1>1
  <2>2. f[1] < f[i + 1] /\ f[i + 1] \in 1 .. N
    BY <1>3, <1>8, <2>1
  <2>3. QED
    BY <1>1, <1>8, <2>1, <2>2
<1> DEFINE g == [i \in 1 .. Q - 1 |-> f[i + 1] - 1]
<1>10. ASSUME NEW i \in 1 .. Q - 1
       PROVE  f[i + 1] - 1 \in 1 .. N - 1 /\ (f[i + 1] - 1) + 1 = f[i + 1]
  BY <1>1, <1>9
<1>11. g \in [1 .. Q - 1 -> 1 .. N - 1] /\ \A i \in 1 .. Q - 1 : g[i] = f[i + 1] - 1
  BY <1>10
<1> HIDE DEF g
<1>12. ASSUME NEW i \in 1 .. Q - 1, NEW j \in 1 .. Q - 1, i < j
       PROVE  g[i] < g[j]
  <2>1. i + 1 \in 1 .. Q /\ j + 1 \in 1 .. Q /\ i + 1 < j + 1
    BY <1>1, <1>12
  <2>2. f[i + 1] < f[j + 1] /\ f[i + 1] \in Int /\ f[j + 1] \in Int
    BY <1>3, <1>9, <2>1
  <2>3. QED
    BY <1>11, <2>2
<1>13. ASSUME NEW n \in 1 .. N - 1
       PROVE  Expecting(t[n]) <=> \E i \in 1 .. Q - 1 : g[i] = n
  <2>1. n + 1 \in 1 .. N /\ t[n] = s[n + 1]
    BY <1>1, <1>7
  <2>2. Expecting(t[n]) <=> \E i \in 1 .. Q : f[i] = n + 1
    BY <1>3, <2>1
  <2>3. ASSUME NEW i \in 1 .. Q - 1, g[i] = n
        PROVE  \E j \in 1 .. Q : f[j] = n + 1
    BY <1>9, <1>10, <1>11, <2>3
  <2>4. ASSUME NEW j \in 1 .. Q, f[j] = n + 1
        PROVE  \E i \in 1 .. Q - 1 : g[i] = n
    <3>1. j # 1
      BY <1>1, <1>8, <2>4
    <3> DEFINE i == j - 1
    <3>2. i \in 1 .. Q - 1 /\ i + 1 = j
      BY <1>1, <3>1
    <3> HIDE DEF i
    <3>3. g[i] = (n + 1) - 1
      BY <1>11, <2>4, <3>2
    <3>4. g[i] = n
      BY <1>1, <3>3
    <3>5. QED
      BY <3>2, <3>4
  <2>5. QED
    BY <2>2, <2>3, <2>4
<1>14. ASSUME NEW i \in 1 .. Q - 1
       PROVE  q2[i] = PieceOf(t[g[i]])
  <2>1. q2[i] = queue[i + 1] /\ queue[i + 1] = PieceOf(s[f[i + 1]])
    BY <1>3, <1>6, <1>9
  <2>2. g[i] \in 1 .. N - 1 /\ g[i] + 1 = f[i + 1]
    BY <1>10, <1>11
  <2>3. t[g[i]] = s[f[i + 1]]
    BY <1>7, <2>2
  <2>4. QED
    BY <2>1, <2>3
<1>15. Pairs(g, q2, t)
  BY <1>6, <1>7, <1>11, <1>12, <1>13, <1>14 DEF Pairs
<1>16. QED
  BY <1>5, <1>15, MatchesIsPairs DEF q2, t

-----------------------------------------------------------------------------
(* Types.                                                                   *)

LEMMA VisibleChunks ==
  ASSUME NEW cam \in CamRange
  PROVE  /\ visibleChunks(cam) \in SUBSET ChunkIDs /\ IsFiniteSet(visibleChunks(cam))
         /\ visibleChunks(cam) \in SUBSET Cells
<1> DEFINE a == ColumnAt(cam) - VIEWPORT_PAD
           b == ColumnAt(cam + Width) + VIEWPORT_PAD
           I == a .. b
           V == {<<x, 0>> : x \in I}
           f == [x \in I |-> <<x, 0>>]
<1>1. \A px \in Int : ColumnAt(px) \in Int
  BY CodecAssumption, ViewportAssumption DEF ColumnAt
<1>2. cam \in Int /\ cam + Width \in Int
  BY ViewportAssumption
<1>3. a \in Int /\ b \in Int
  <2>1. ColumnAt(cam) \in Int /\ ColumnAt(cam + Width) \in Int
    BY <1>1, <1>2
  <2>2. VIEWPORT_PAD \in Int
    BY ViewportAssumption
  <2>3. QED
    BY <2>1, <2>2
<1>4. V = visibleChunks(cam)
  BY DEF visibleChunks
<1>5. V \in SUBSET ChunkIDs
  BY <1>4 DEF ChunkIDs
<1> HIDE DEF a, b
<1>6. IsFiniteSet(I)
  BY <1>3, FS_Interval
<1>7. \A x \in I : x \in Int
  BY <1>3
<1> HIDE DEF I
<1>8. f \in Surjection(I, V)
  BY DEF Surjection
<1>9. IsFiniteSet(V)
  <2> HIDE DEF f, V
  <2>1. QED
    BY <1>6, <1>8, FS_Surjection
<1>10. V \in SUBSET Cells
  BY <1>7 DEF Cells
<1> HIDE DEF V
<1>11. QED
  BY <1>4, <1>5, <1>9, <1>10

LEMMA ChunksAreCells == ChunkIDs \in SUBSET Cells
BY VisibleChunks DEF ChunkIDs

LEMMA SubscriptionType ==
  ASSUME NEW type \in {"SUBSCRIBE", "UNSUBSCRIBE"}, NEW chunks \in SUBSET ChunkIDs,
         IsFiniteSet(chunks)
  PROVE  Subscription(type, chunks) \in Subs
BY DEF Subs

LEMMA ChunkStateType ==
  ASSUME NEW id \in Cells, NEW cells \in SUBSET Cells
  PROVE  ChunkState(id, cells) \in States
<1> DEFINE locals == {ToLocal(c) : c \in In(id, cells)}
           rows == Rows(locals)
           row(y) == {c[1] : c \in {d \in locals : d[2] = y}}
<1>1. ASSUME NEW c \in In(id, cells)
      PROVE  ToLocal(c) \in Local
  <2>1. c \in Cells /\ ChunkAt(c) = id
    BY DEF In
  <2>2. QED
    BY <2>1, InChunk DEF Cells
<1>2. \A c \in locals : c \in Local
  BY <1>1
<1> HIDE DEF locals
<1>3. \A y \in Positions : row(y) \in SUBSET Positions
  BY <1>2 DEF Local
<1>4. rows = [y \in Positions |-> row(y)]
  BY DEF Rows
<1> HIDE DEF row
<1>5. rows \in [Positions -> SUBSET Positions]
  BY <1>3, <1>4
<1> HIDE DEF rows
<1>6. ASSUME NEW o \in RowsToOffsets(rows)
      PROVE  o \in Int
  <2>1. PICK y \in Positions : \E x \in rows[y] : o = Offset(x, y)
    BY <1>5, OffsetsOfRows
  <2>2. PICK x \in rows[y] : o = Offset(x, y)
    BY <2>1
  <2>3. x \in Positions
    BY <1>5, <2>1, <2>2
  <2>4. QED
    BY <2>1, <2>2, <2>3, OffsetDivides
<1>7. ChunkState(id, cells) = [type |-> "CHUNK_STATE", chunk |-> id, cells |-> RowsToOffsets(rows)]
  BY DEF ChunkState, rows, locals
<1>8. QED
  BY <1>6, <1>7 DEF States

LEMMA SequencesOfSets ==
  ASSUME NEW S, IsFiniteSet(S)
  PROVE  SetToSeq(S) \in Seq(S)
<1> DEFINE n == Cardinality(S)
<1>1. n \in Nat /\ ExistsBijection(1 .. n, S)
  BY FS_CardinalityType
<1> HIDE DEF n
<1>2. PICK f : f \in Bijection(1 .. n, S)
  BY <1>1 DEF ExistsBijection
<1>3. f \in [1 .. n -> S] /\ IsInjective(f)
  BY <1>2 DEF Bijection, Injection
<1>4. SetToSeq(S) \in [1 .. n -> S]
  BY <1>3 DEF SetToSeq, n
<1>5. QED
  BY <1>1, <1>4

\* What is sent to a new subscriber.
LEMMA StatesInSequence ==
  ASSUME NEW chunks \in SUBSET Cells, IsFiniteSet(chunks), NEW cells \in SUBSET Cells
  PROVE  SetToSeq({ChunkState(id, cells) : id \in chunks}) \in Seq(States)
<1> DEFINE S == {ChunkState(id, cells) : id \in chunks}
           f == [id \in chunks |-> ChunkState(id, cells)]
<1>1. S \subseteq States
  BY ChunkStateType
<1>2. f \in Surjection(chunks, S)
  BY DEF Surjection
<1>3. IsFiniteSet(S)
  <2> HIDE DEF f, S
  <2>1. QED
    BY <1>2, FS_Surjection
<1> HIDE DEF S
<1>4. SetToSeq(S) \in Seq(S)
  BY <1>3, SequencesOfSets
<1>5. SetToSeq(S) \in Seq(States)
  BY <1>1, <1>4, SeqMonotonic
<1>6. QED
  BY <1>5 DEF S

\* What updateSubscriptions sends.
Unsubscriptions(cam) ==
  IF subscribedChunks \ visibleChunks(cam) = {} THEN <<>>
  ELSE <<Subscription("UNSUBSCRIBE", subscribedChunks \ visibleChunks(cam))>>
Subscriptions(cam) ==
  IF visibleChunks(cam) \ subscribedChunks = {} THEN <<>>
  ELSE <<Subscription("SUBSCRIBE", visibleChunks(cam) \ subscribedChunks)>>

LEMMA UpdateType ==
  ASSUME NEW cam \in CamRange, subscribedChunks \in SUBSET ChunkIDs,
         IsFiniteSet(subscribedChunks)
  PROVE  /\ Subscriptions(cam) \in Seq(Subs) /\ Unsubscriptions(cam) \in Seq(Subs)
         /\ Subscriptions(cam) \o Unsubscriptions(cam) \in Seq(Subs)
<1> DEFINE to == visibleChunks(cam) \ subscribedChunks
           un == subscribedChunks \ visibleChunks(cam)
<1>1. /\ visibleChunks(cam) \in SUBSET ChunkIDs /\ IsFiniteSet(visibleChunks(cam))
  BY VisibleChunks
<1>2. to \in SUBSET ChunkIDs /\ un \in SUBSET ChunkIDs
  BY <1>1
<1>3. IsFiniteSet(to) /\ IsFiniteSet(un)
  <2>1. to \in SUBSET visibleChunks(cam) /\ un \in SUBSET subscribedChunks
    OBVIOUS
  <2> HIDE DEF to, un
  <2>2. QED
    BY <1>1, <2>1, FS_Subset
<1>4. Subscriptions(cam) = IF to = {} THEN <<>> ELSE <<Subscription("SUBSCRIBE", to)>>
  BY DEF Subscriptions
<1>5. Unsubscriptions(cam) = IF un = {} THEN <<>> ELSE <<Subscription("UNSUBSCRIBE", un)>>
  BY DEF Unsubscriptions
<1> HIDE DEF to, un
<1>6. Subscription("SUBSCRIBE", to) \in Subs /\ Subscription("UNSUBSCRIBE", un) \in Subs
  BY <1>2, <1>3, SubscriptionType
<1>7. Subscriptions(cam) \in Seq(Subs) /\ Unsubscriptions(cam) \in Seq(Subs)
  BY <1>4, <1>5, <1>6
<1>8. QED
  BY <1>7, ConcatProperties

Types ==
  /\ readyState \in {"CONNECTING", "OPEN", "CLOSED"}
  /\ localCells \in SUBSET Cells
  /\ camX \in CamRange /\ camAtPress \in CamRange
  /\ pressed \in BOOLEAN /\ isPanning \in BOOLEAN
  /\ subscribedChunks \in SUBSET ChunkIDs /\ IsFiniteSet(subscribedChunks)
  /\ pendingCommands \in Seq(Shows)
  /\ commands \in Seq(Subs \cup Placements)
  /\ messages \in Seq(Answers \cup States)
  /\ board \in SUBSET Cells
  /\ subscribers \in SUBSET ChunkIDs
  /\ sending \in SUBSET States
  /\ placed \in 0 .. MaxPlaced
  /\ readyState = "CONNECTING" =>
       /\ subscribers = {} /\ commands = <<>> /\ messages = <<>>
       /\ ~early => pendingCommands = <<>>

LEMMA TypesInit == Init => Types
<1> SUFFICES ASSUME Init PROVE Types
  OBVIOUS
<1>1. <<>> \in Seq(Shows) /\ <<>> \in Seq(Subs \cup Placements) /\ <<>> \in Seq(Answers \cup States)
  BY EmptySeq
<1>2. IsFiniteSet({})
  BY FS_EmptySet
<1>3. 0 \in CamRange /\ 0 \in 0 .. MaxPlaced
  BY ViewportAssumption
<1>4. QED
  BY <1>1, <1>2, <1>3 DEF Init, Types

LEMMA onopenTypes ==
  ASSUME Types, onopen
  PROVE  Types'
<1>1. Subscription("SUBSCRIBE", visibleChunks(camX)) \in Subs
  BY VisibleChunks, SubscriptionType DEF Types
<1>2. commands' \in Seq(Subs \cup Placements)
  BY <1>1 DEF onopen
<1>3. subscribedChunks' \in SUBSET ChunkIDs /\ IsFiniteSet(subscribedChunks')
  BY VisibleChunks DEF onopen, Types
<1>4. UNCHANGED <<localCells, camX, camAtPress, pressed, isPanning, pendingCommands, messages,
                  board, subscribers, sending, placed>> /\ readyState' = "OPEN"
  BY DEF onopen, shown, gesture, server
<1>5. QED
  BY <1>2, <1>3, <1>4 DEF Types

LEMMA oncloseTypes ==
  ASSUME Types, onclose
  PROVE  Types'
<1>1. PICK n \in 0 .. Len(commands) : commands' = SubSeq(commands, 1, n)
  BY DEF onclose
<1>2. commands' \in Seq(Subs \cup Placements)
  <2> DEFINE C == Subs \cup Placements
  <2>1. commands \in Seq(C)
    BY DEF Types
  <2> HIDE DEF C
  <2>2. Len(commands) \in Nat /\ \A i \in 1 .. n : commands[i] \in C
    BY <2>1, LenProperties
  <2>3. SubSeq(commands, 1, n) \in Seq(C)
    BY <2>2, SubSeqProperties
  <2>4. QED
    BY <1>1, <2>3 DEF C
<1>3. messages' \in Seq(Answers \cup States)
  BY EmptySeq DEF onclose
<1>4. UNCHANGED <<localCells, camX, camAtPress, pressed, isPanning, pendingCommands,
                  subscribedChunks, board, subscribers, sending, placed>> /\ readyState' = "CLOSED"
  BY DEF onclose, shown, gesture, server
<1>5. QED
  BY <1>2, <1>3, <1>4 DEF Types

\* Where the camera goes, what is visible is subscribed.
LEMMA UpdateTypes ==
  ASSUME Types, NEW cam \in CamRange, updateSubscriptions(cam)
  PROVE  /\ commands' \in Seq(Subs \cup Placements)
         /\ subscribedChunks' \in SUBSET ChunkIDs /\ IsFiniteSet(subscribedChunks')
         /\ readyState = "CONNECTING" => commands' = commands
<1>1. CASE readyState = "OPEN"
  <2> DEFINE sent == Subscriptions(cam) \o Unsubscriptions(cam)
             C == Subs \cup Placements
  <2>1. commands' = commands \o sent /\ subscribedChunks' = visibleChunks(cam)
    BY <1>1 DEF updateSubscriptions, Subscriptions, Unsubscriptions
  <2>2. sent \in Seq(Subs) /\ commands \in Seq(C) /\ Subs \subseteq C
    BY UpdateType DEF Types
  <2> HIDE DEF sent, C
  <2>3. sent \in Seq(C)
    BY <2>2, SeqMonotonic
  <2>4. commands \o sent \in Seq(C)
    BY <2>2, <2>3, ConcatProperties
  <2>5. QED
    BY <1>1, <2>1, <2>4, VisibleChunks DEF C
<1>2. CASE readyState # "OPEN"
  BY <1>2 DEF updateSubscriptions, Types
<1>3. QED
  BY <1>1, <1>2

LEMMA GestureTypes ==
  ASSUME Types, Press \/ \E d \in Shifts : Drag(d) \/ Zoom(d)
  PROVE  Types'
<1>1. CASE Press
  BY <1>1 DEF Press, Types, shown, server
<1>2. ASSUME NEW d \in Shifts, Drag(d)
      PROVE  Types'
  <2>1. isPanning' \in BOOLEAN
    BY <1>2 DEF Drag
  <2>2. QED
    BY <1>2, <2>1 DEF Drag, Types, shown, server
<1>3. ASSUME NEW d \in Shifts, Zoom(d)
      PROVE  Types'
  <2>1. camX' \in CamRange /\ updateSubscriptions(camX')
    BY <1>3 DEF Zoom
  <2>2. /\ commands' \in Seq(Subs \cup Placements)
        /\ subscribedChunks' \in SUBSET ChunkIDs /\ IsFiniteSet(subscribedChunks')
        /\ readyState = "CONNECTING" => commands' = commands
    BY <2>1, UpdateTypes
  <2>3. UNCHANGED <<readyState, localCells, camAtPress, pressed, isPanning, pendingCommands,
                    messages, board, subscribers, sending, placed, early>>
    BY <1>3 DEF Zoom, shown, server
  <2>4. QED
    BY <2>1, <2>2, <2>3 DEF Types
<1>4. QED
  BY <1>1, <1>2, <1>3

LEMMA ReleaseTypes ==
  ASSUME Types, Release
  PROVE  Types'
<1>1. pressed' \in BOOLEAN /\ isPanning' \in BOOLEAN
      /\ UNCHANGED <<readyState, camX, camAtPress, messages, board, subscribers, sending>>
  BY DEF Release, server
<1>2. CASE isPanning /\ updateSubscriptions(camX) /\ UNCHANGED shown
  <2>1. /\ commands' \in Seq(Subs \cup Placements)
        /\ subscribedChunks' \in SUBSET ChunkIDs /\ IsFiniteSet(subscribedChunks')
        /\ readyState = "CONNECTING" => commands' = commands
    BY <1>2, UpdateTypes DEF Types
  <2>2. UNCHANGED <<localCells, pendingCommands, placed, early>>
    BY <1>2 DEF shown
  <2>3. QED
    BY <1>1, <2>1, <2>2 DEF Types
<1>3. ASSUME NEW p \in Pieces, NEW r \in Roots, placeAt(Placement(p, r)), placed < MaxPlaced
      PROVE  Types'
  <2> DEFINE k == Placement(p, r)
             C == Subs \cup Placements
  <2>1. k \in Placements /\ k \in C /\ commands \in Seq(C)
    BY DEF Placements, Types
  <2> HIDE DEF k, C
  <2>2. CellsOf(k) \in Shows /\ CellsOf(k) \in SUBSET Cells
    BY <2>1, ShownPieces DEF Shows
  <2>3. localCells' \in SUBSET Cells
    BY <1>3, <2>2 DEF placeAt, Types, k
  <2>4. pendingCommands' \in Seq(Shows)
    BY <1>3, <2>2, AppendProperties DEF placeAt, Types, k
  <2>5. /\ commands' \in Seq(C)
        /\ readyState = "CONNECTING" => commands' = commands
    <3>1. Append(commands, k) \in Seq(C)
      BY <2>1, AppendProperties
    <3>2. QED
      BY <1>3, <2>1, <3>1 DEF placeAt, k
  <2>6. placed' \in 0 .. MaxPlaced
    BY <1>3, ViewportAssumption DEF placeAt, Types
  <2>7. UNCHANGED subscribedChunks /\ early' = (early \/ readyState = "CONNECTING")
    BY <1>3 DEF placeAt
  <2>8. QED
    BY <1>1, <2>3, <2>4, <2>5, <2>6, <2>7 DEF Types, C
<1>4. QED
  BY <1>2, <1>3 DEF Release

LEMMA DecodedType ==
  ASSUME NEW id \in Cells, NEW offsets \in SUBSET Int
  PROVE  Decoded(id, offsets) \in SUBSET Cells
<1>1. id[1] \in Int /\ id[2] \in Int
  BY DEF Cells
<1>2. ASSUME NEW o \in offsets
      PROVE  /\ (id[1] * ChunkSize) + (o % ChunkSize) \in Int
             /\ (id[2] * ChunkSize) + (o \div ChunkSize) \in Int
  BY <1>1, CodecAssumption
<1>3. QED
  BY <1>2 DEF Decoded, Cells

LEMMA localTickTypes ==
  ASSUME Types, localTick
  PROVE  Types'
<1>1. ASSUME NEW d \in Cells, NEW c \in Neighbours(d)
      PROVE  c \in Cells
  <2>1. PICK e \in (-1..1) \X (-1..1) : c = <<d[1] + e[1], d[2] + e[2]>>
    BY DEF Neighbours
  <2>2. d[1] \in Int /\ d[2] \in Int /\ e[1] \in Int /\ e[2] \in Int
    BY DEF Cells
  <2>3. QED
    BY <2>1, <2>2 DEF Cells
<1>2. UNION {Neighbours(d) : d \in localCells} \in SUBSET Cells
  BY <1>1 DEF Types
<1>3. localCells' \in SUBSET Cells
  BY <1>2 DEF localTick
<1>4. QED
  BY <1>3 DEF localTick, Types, gesture, server

LEMMA onmessageTypes ==
  ASSUME Types, onmessage
  PROVE  Types'
<1> DEFINE M == Answers \cup States
           m == Head(messages)
<1>1. messages \in Seq(M) /\ messages # <<>> /\ messages' = Tail(messages)
  BY DEF Types, onmessage
<1> HIDE DEF M
<1>2. m \in M /\ messages' \in Seq(M)
  BY <1>1, HeadTailProperties
<1>3. readyState # "CONNECTING"
  BY <1>1 DEF Types
<1>4. (IF pendingCommands = <<>> THEN <<>> ELSE Tail(pendingCommands)) \in Seq(Shows)
  BY EmptySeq, HeadTailProperties DEF Types
<1>5. /\ localCells' \in SUBSET Cells
      /\ pendingCommands' \in Seq(Shows)
  <2>1. CASE m.type = "CHUNK_STATE" /\ reconcileChunk(m) /\ UNCHANGED pendingCommands
    <3>1. m \in States
      BY <1>2, <2>1, Kinds DEF M
    <3>2. m.chunk \in Cells /\ m.cells \in SUBSET Int
      BY <3>1 DEF States
    <3>3. Decoded(m.chunk, m.cells) \in SUBSET Cells
      BY <3>2, DecodedType
    <3> HIDE DEF m
    <3>4. QED
      BY <2>1, <3>3 DEF reconcileChunk, Types
  <2>2. CASE /\ m.type = "ACK"
             /\ pendingCommands' = IF pendingCommands = <<>> THEN <<>> ELSE Tail(pendingCommands)
             /\ UNCHANGED localCells
    BY <1>4, <2>2 DEF Types
  <2>3. CASE m.type = "ERROR" /\ rollback
    BY <1>4, <2>3 DEF rollback, Types
  <2>4. QED
    BY <2>1, <2>2, <2>3 DEF onmessage
<1>6. UNCHANGED <<readyState, camX, camAtPress, pressed, isPanning, subscribedChunks, commands,
                  board, subscribers, sending, placed, early>>
  BY DEF onmessage, gesture, server
<1>7. QED
  BY <1>2, <1>3, <1>5, <1>6 DEF Types, M

LEMMA WrittenTypes ==
  ASSUME Types, NEW ms \in Seq(Answers \cup States), Written(ms)
  PROVE  /\ messages' \in Seq(Answers \cup States)
         /\ readyState = "CONNECTING" => messages' = messages
<1> DEFINE M == Answers \cup States
<1>1. messages \in Seq(M) /\ ms \in Seq(M)
  BY DEF Types
<1> HIDE DEF M
<1>2. messages \o ms \in Seq(M)
  BY <1>1, ConcatProperties
<1>3. messages' \in Seq(M) /\ (readyState = "CONNECTING" => messages' = messages)
  BY <1>1, <1>2 DEF Written
<1>4. QED
  BY <1>3 DEF M

\* The command at the head of the queue, and the others.
LEMMA HeadOfCommands ==
  ASSUME Types, commands # <<>>
  PROVE  /\ readyState # "CONNECTING"
         /\ Head(commands) \in Subs \cup Placements
         /\ Tail(commands) \in Seq(Subs \cup Placements)
         /\ commands = <<Head(commands)>> \o Tail(commands)
<1> DEFINE C == Subs \cup Placements
<1>1. commands \in Seq(C) /\ readyState # "CONNECTING"
  BY DEF Types
<1> HIDE DEF C
<1>2. Head(commands) \in C /\ Tail(commands) \in Seq(C)
  BY <1>1, HeadTailProperties
<1>3. commands = <<Head(commands)>> \o Tail(commands)
  <2>1. Len(commands) \in Nat /\ 1 \in 1 .. Len(commands)
    BY <1>1, LenProperties, EmptySeq
  <2>2. SubSeq(commands, 1, Len(commands)) = commands
    BY <1>1, SubSeqFull
  <2>3. SubSeq(commands, 1, Len(commands)) = <<commands[1]>> \o SubSeq(commands, 2, Len(commands))
    <3>1. Len(commands) \in 1 .. Len(commands)
      BY <2>1
    <3>2. SubSeq(commands, 1, Len(commands)) = <<commands[1]>> \o SubSeq(commands, 1 + 1, Len(commands))
      BY <1>1, <2>1, <3>1, SubSeqRecursiveFirst
    <3>3. QED
      BY <3>2
  <2>4. Tail(commands) = SubSeq(commands, 2, Len(commands)) /\ Head(commands) = commands[1]
    BY <1>1, TailIsSubSeq
  <2>5. QED
    BY <2>2, <2>3, <2>4
<1>4. QED
  BY <1>1, <1>2, <1>3 DEF C

\* What a placement puts on the board.
Served(k) ==
  LET result == IF k.type = "PLACE_CUSTOM" THEN ValidateCustomCells(k.piece.cells)
                ELSE [error |-> "", out |-> k.piece.cells]
  IN  {CellAt(k.root, c) : c \in ToSet(result.out)}

LEMMA ServedCells ==
  ASSUME NEW k \in Placements
  PROVE  Served(k) \in SUBSET Cells
<1>1. PICK p \in Pieces : \E r \in Roots : k = Placement(p, r)
  BY DEF Placements
<1>2. PICK r \in Roots : k = Placement(p, r)
  BY <1>1
<1>3. k.root = r /\ k.piece = p
  BY <1>2 DEF Placement
<1>4. r[1] \in Int /\ r[2] \in Int
  BY ViewportAssumption
<1>5. p.cells \in Seq(Nat \X Nat)
  BY ViewportAssumption
<1> DEFINE s == p.cells
           valid == ValidateCustomCells(s).out
           out == IF k.type = "PLACE_CUSTOM" THEN valid ELSE s
<1>6. Served(k) = {CellAt(r, c) : c \in ToSet(out)}
  BY <1>3 DEF Served
<1> HIDE DEF s
<1>7. \A c \in ToSet(s) : c \in Nat \X Nat
  <2>1. s \in [1 .. Len(s) -> Nat \X Nat]
    BY <1>5, LenProperties DEF s
  <2>2. QED
    BY <2>1 DEF ToSet
<1>8. \A c \in ToSet(valid) : c \in ToSet(s)
  BY <1>5, ValidCellsAreSent DEF s
<1> HIDE DEF valid
<1>9. \A c \in ToSet(out) : c \in Nat \X Nat
  BY <1>7, <1>8
<1> HIDE DEF out
<1>10. \A n \in Int : Wrapped(n) \in Int
  BY CodecAssumption DEF Wrapped
<1>11. ASSUME NEW c \in ToSet(out)
       PROVE  CellAt(r, c) \in Cells
  <2>1. r[1] + c[1] \in Int /\ r[2] + c[2] \in Int
    BY <1>4, <1>9
  <2>2. Wrapped(r[1] + c[1]) \in Int /\ Wrapped(r[2] + c[2]) \in Int
    BY <1>10, <2>1
  <2>3. QED
    BY <2>2 DEF CellAt, Cells
<1>12. QED
  BY <1>6, <1>11

\* What ServePlace does, told by Served.
LEMMA PlacementServed ==
  ASSUME Types, ServePlace
  PROVE  /\ Head(commands) \in Placements /\ commands' = Tail(commands) /\ commands # <<>>
         /\ \E ok \in BOOLEAN : Written(<<AnswerTo(Head(commands), ok)>>)
         /\ \/ /\ board' = board \cup Served(Head(commands))
               /\ active' = active \cup {ChunkAt(c) : c \in Served(Head(commands))}
            \/ UNCHANGED <<board, active>>
         /\ UNCHANGED <<browser, subscribers, sending>>
<1>1. commands # <<>> /\ Head(commands).type \notin {"SUBSCRIBE", "UNSUBSCRIBE"}
  BY DEF ServePlace
<1>2. Head(commands) \in Placements
  BY <1>1, HeadOfCommands, Kinds
<1> DEFINE k == Head(commands)
<1>3. \/ /\ board' = board \cup Served(k)
         /\ active' = active \cup {ChunkAt(c) : c \in Served(k)}
         /\ Written(<<AnswerTo(k, TRUE)>>)
      \/ /\ Written(<<AnswerTo(k, FALSE)>>)
         /\ UNCHANGED <<board, active>>
  BY DEF ServePlace, Served
<1>4. commands' = Tail(commands) /\ UNCHANGED <<browser, subscribers, sending>>
  BY DEF ServePlace
<1> HIDE DEF k
<1>5. \E ok \in BOOLEAN : Written(<<AnswerTo(k, ok)>>)
  BY <1>3
<1>6. QED
  BY <1>1, <1>2, <1>3, <1>4, <1>5 DEF k

LEMMA ServePlaceTypes ==
  ASSUME Types, ServePlace
  PROVE  Types'
<1> DEFINE k == Head(commands)
<1>1. k \in Placements /\ commands' = Tail(commands) /\ commands # <<>>
  BY PlacementServed
<1>2. readyState # "CONNECTING" /\ commands' \in Seq(Subs \cup Placements)
  BY <1>1, HeadOfCommands
<1>3. PICK ok \in BOOLEAN : Written(<<AnswerTo(k, ok)>>)
  BY PlacementServed
<1>4. board' \in SUBSET Cells
  BY <1>1, PlacementServed, ServedCells DEF Types
<1> HIDE DEF k
<1>5. <<AnswerTo(k, ok)>> \in Seq(Answers \cup States)
  BY <1>1 DEF Answers
<1>6. messages' \in Seq(Answers \cup States)
  BY <1>3, <1>5, WrittenTypes
<1>7. UNCHANGED <<readyState, localCells, camX, camAtPress, pressed, isPanning, subscribedChunks,
                  pendingCommands, subscribers, sending, placed>>
  BY PlacementServed DEF browser, shown, gesture
<1>8. QED
  BY <1>2, <1>4, <1>6, <1>7 DEF Types

LEMMA ServeSubscribeTypes ==
  ASSUME Types, ServeSubscribe
  PROVE  /\ Types'
         /\ \E ms \in Seq(States) : Written(ms)
<1> DEFINE chunks == Head(commands).chunks
           peeked == {id \in chunks : In(id, board) # {}}
           ms == SetToSeq({ChunkState(id, board) : id \in peeked})
<1>1. commands # <<>> /\ Head(commands).type = "SUBSCRIBE" /\ commands' = Tail(commands)
  BY DEF ServeSubscribe
<1>2. readyState # "CONNECTING" /\ commands' \in Seq(Subs \cup Placements)
  BY <1>1, HeadOfCommands
<1>3. Head(commands) \in Subs
  BY <1>1, HeadOfCommands, Kinds
<1>4. chunks \in SUBSET ChunkIDs /\ IsFiniteSet(chunks)
  BY <1>3, Kinds
<1>5. subscribers' = subscribers \cup chunks /\ Written(ms)
  BY DEF ServeSubscribe
<1> HIDE DEF chunks
<1>6. peeked \in SUBSET Cells /\ IsFiniteSet(peeked)
  <2>1. peeked \in SUBSET chunks
    OBVIOUS
  <2> HIDE DEF peeked
  <2>2. QED
    BY <1>4, <2>1, FS_Subset, ChunksAreCells
<1> HIDE DEF peeked
<1>7. ms \in Seq(States)
  BY <1>6, StatesInSequence DEF Types
<1> HIDE DEF ms
<1>8. messages' \in Seq(Answers \cup States)
  <2>1. ms \in Seq(Answers \cup States)
    BY <1>7, SeqMonotonic
  <2>2. QED
    BY <1>5, <2>1, WrittenTypes
<1>9. UNCHANGED <<readyState, localCells, camX, camAtPress, pressed, isPanning, subscribedChunks,
                  pendingCommands, board, sending, placed>>
  BY DEF ServeSubscribe, browser, shown, gesture
<1>10. Types'
  BY <1>2, <1>4, <1>5, <1>8, <1>9 DEF Types
<1>11. QED
  BY <1>5, <1>7, <1>10

LEMMA ServeUnsubscribeTypes ==
  ASSUME Types, ServeUnsubscribe
  PROVE  Types'
<1>1. commands # <<>> /\ commands' = Tail(commands)
  BY DEF ServeUnsubscribe
<1>2. readyState # "CONNECTING" /\ commands' \in Seq(Subs \cup Placements)
  BY <1>1, HeadOfCommands
<1>3. subscribers' \in SUBSET ChunkIDs
  BY DEF ServeUnsubscribe, Types
<1>4. QED
  BY <1>2, <1>3 DEF ServeUnsubscribe, Types, browser, shown, gesture

LEMMA GenerationType ==
  ASSUME NEW cells \in SUBSET Cells
  PROVE  Conway!Generation(cells) \in SUBSET Cells
<1>1. ASSUME NEW d \in Cells, NEW c \in Conway!Moore(d)
      PROVE  c \in Cells
  <2>1. d[1] \in Int /\ d[2] \in Int
    BY DEF Cells
  <2>2. c \in (d[1] - 1 .. d[1] + 1) \X (d[2] - 1 .. d[2] + 1)
    BY DEF Conway!Moore
  <2>3. QED
    BY <2>1, <2>2 DEF Cells
<1>2. UNION {Conway!Moore(d) : d \in cells} \in SUBSET Cells
  BY <1>1
<1>3. QED
  BY <1>2 DEF Conway!Generation

LEMMA TickTypes ==
  ASSUME Types, TickAll \/ Broadcast
  PROVE  Types'
<1>1. CASE TickAll
  <2>1. board' \in SUBSET Cells
    BY <1>1, GenerationType DEF TickAll, Types
  <2>2. \A id \in active' \cap subscribers : ChunkState(id, board') \in States
    BY <2>1, ChunksAreCells, ChunkStateType DEF Types
  <2>3. sending' \in SUBSET States
    BY <1>1, <2>2 DEF TickAll
  <2>4. UNCHANGED <<browser, commands, messages, subscribers>>
    BY <1>1 DEF TickAll
  <2>5. QED
    BY <2>1, <2>3, <2>4 DEF Types, browser, shown, gesture
<1>2. CASE Broadcast
  <2>1. PICK m \in sending : sending' = sending \ {m} /\ Written(<<m>>)
    BY <1>2 DEF Broadcast
  <2>2. <<m>> \in Seq(Answers \cup States)
    BY DEF Types
  <2>3. messages' \in Seq(Answers \cup States) /\ (readyState = "CONNECTING" => messages' = messages)
    BY <2>1, <2>2, WrittenTypes
  <2>4. sending' \in SUBSET States
    BY <2>1 DEF Types
  <2>5. UNCHANGED <<browser, commands, board, subscribers>>
    BY <1>2 DEF Broadcast
  <2>6. QED
    BY <2>3, <2>4, <2>5 DEF Types, browser, shown, gesture
<1>3. QED
  BY <1>1, <1>2

LEMMA TypesStep ==
  ASSUME Types, [Next]_vars
  PROVE  Types'
<1>1. CASE Leave \/ \E id \in ChunkIDs : Hibernate(id)
  BY <1>1 DEF Leave, Hibernate, Types, browser, shown, gesture
<1>2. CASE UNCHANGED vars
  BY <1>2 DEF vars, Types, browser, shown, gesture, server
<1>3. QED
  BY <1>1, <1>2, onopenTypes, oncloseTypes, onmessageTypes, localTickTypes, GestureTypes,
     ReleaseTypes, ServePlaceTypes, ServeSubscribeTypes, ServeUnsubscribeTypes, TickTypes
     DEF Next, Serve

LEMMA TypesHold == Spec => []Types
BY TypesInit, TypesStep, PTL DEF Spec

-----------------------------------------------------------------------------
(* Active chunks, and the types that the runs check.                        *)

ActiveCovers == \A c \in board : ChunkAt(c) \in active

LEMMA QuotientIs ==
  ASSUME NEW q \in Int, NEW t \in 0 .. ChunkSize - 1
  PROVE  (ChunkSize * q + t) \div ChunkSize = q
<1> DEFINE p == ChunkSize * q
<1>1. p \in Int /\ ChunkSize \in Nat \ {0}
  BY CodecAssumption
<1>2. (p + t) \div ChunkSize = q
  BY <1>1
<1>3. QED
  BY <1>2

\* The chunk of a neighbouring cell is that of a cell three columns away, or its own.
LEMMA EdgeIsWide ==
  ASSUME NEW n \in Int, NEW m \in n - 1 .. n + 1
  PROVE  \E e \in {-3, 0, 3} : (n + e) \div ChunkSize = m \div ChunkSize
<1> DEFINE q == m \div ChunkSize
           r == m % ChunkSize
           p == ChunkSize * q
<1>1. ChunkSize \in Nat /\ ChunkSize >= 3
  BY CodecAssumption, ViewportAssumption
<1>2. q \in Int /\ r \in 0 .. ChunkSize - 1 /\ m = p + r /\ p \in Int
  BY <1>1
<1> HIDE DEF q, r
<1>3. ASSUME NEW e \in {-3, 0, 3}, (n + e) - p \in 0 .. ChunkSize - 1
      PROVE  (n + e) \div ChunkSize = q
  <2> DEFINE t == (n + e) - p
  <2>1. t \in 0 .. ChunkSize - 1
    BY <1>3
  <2>2. n + e = p + t
    BY <1>2
  <2> HIDE DEF t
  <2>3. (p + t) \div ChunkSize = q
    BY <1>2, <2>1, QuotientIs
  <2>4. QED
    BY <2>2, <2>3
<1> HIDE DEF p
<1>4. \/ (n + 0) - p \in 0 .. ChunkSize - 1
      \/ (n + 3) - p \in 0 .. ChunkSize - 1
      \/ (n + -3) - p \in 0 .. ChunkSize - 1
  BY <1>1, <1>2
<1>5. 0 \in {-3, 0, 3} /\ 3 \in {-3, 0, 3} /\ -3 \in {-3, 0, 3}
  OBVIOUS
<1>6. \E e \in {-3, 0, 3} : (n + e) \div ChunkSize = q
  BY <1>3, <1>4, <1>5
<1>7. QED
  BY <1>6 DEF q

\* A cell that is born has a neighbour, and the neighbour wakes its chunk.
LEMMA BornAwake ==
  ASSUME NEW cells \in SUBSET Cells, NEW c \in Conway!Generation(cells)
  PROVE  ChunkAt(c) \in Woken(cells)
<1>1. PICK d \in cells : c \in Conway!Moore(d)
  BY DEF Conway!Generation
<1>2. d[1] \in Int /\ d[2] \in Int
  BY DEF Cells
<1>3. c[1] \in d[1] - 1 .. d[1] + 1 /\ c[2] \in d[2] - 1 .. d[2] + 1
  BY <1>1 DEF Conway!Moore
<1>4. PICK x \in {-3, 0, 3} : (d[1] + x) \div ChunkSize = c[1] \div ChunkSize
  BY <1>2, <1>3, EdgeIsWide
<1>5. PICK y \in {-3, 0, 3} : (d[2] + y) \div ChunkSize = c[2] \div ChunkSize
  BY <1>2, <1>3, EdgeIsWide
<1>6. ChunkAt(c) = ChunkAt(<<d[1] + x, d[2] + y>>)
  BY <1>4, <1>5 DEF ChunkAt
<1> DEFINE e == <<x, y>>
<1>7. e \in {-3, 0, 3} \X {-3, 0, 3} /\ ChunkAt(c) = ChunkAt(<<d[1] + e[1], d[2] + e[2]>>)
  BY <1>6
<1> HIDE DEF e
<1>8. ChunkAt(<<d[1] + e[1], d[2] + e[2]>>) \in Woken(cells)
  <2> DEFINE W(b, w) == ChunkAt(<<b[1] + w[1], b[2] + w[2]>>)
  <2>1. Woken(cells) = {W(b, w) : b \in cells, w \in {-3, 0, 3} \X {-3, 0, 3}}
    BY DEF Woken
  <2> HIDE DEF W
  <2>2. W(d, e) \in Woken(cells)
    BY <1>7, <2>1
  <2>3. QED
    BY <2>2 DEF W
<1>9. QED
  BY <1>7, <1>8

LEMMA ActiveCoversStep ==
  ASSUME Types, ActiveCovers, [Next]_vars
  PROVE  ActiveCovers'
<1>1. CASE ServePlace
  <2>1. \/ /\ board' = board \cup Served(Head(commands))
           /\ active' = active \cup {ChunkAt(c) : c \in Served(Head(commands))}
        \/ UNCHANGED <<board, active>>
    BY <1>1, PlacementServed
  <2>2. QED
    BY <2>1 DEF ActiveCovers, ChunkAt
<1>2. CASE TickAll
  <2>1. \A c \in Conway!Generation(board) : ChunkAt(c) \in Woken(board)
    BY BornAwake DEF Types
  <2>2. board' = Conway!Generation(board) /\ active' = active \cup Woken(board)
    BY <1>2 DEF TickAll
  <2>3. \A c \in board' : ChunkAt(c) \in active'
    BY <2>1, <2>2
  <2>4. QED
    BY <2>3 DEF ActiveCovers, ChunkAt
<1>3. ASSUME NEW id \in ChunkIDs, Hibernate(id)
      PROVE  ActiveCovers'
  BY <1>3 DEF Hibernate, ActiveCovers, In, ChunkAt
<1>4. CASE ServeSubscribe
  <2>1. UNCHANGED board /\ active \subseteq active'
    BY <1>4 DEF ServeSubscribe
  <2>2. QED
    BY <2>1 DEF ActiveCovers, ChunkAt
<1>5. ASSUME UNCHANGED <<board, active>>
      PROVE  ActiveCovers'
  BY <1>5 DEF ActiveCovers, ChunkAt
<1>6. CASE onopen \/ onclose \/ onmessage \/ localTick \/ Press \/ Release
             \/ \E d \in Shifts : Drag(d) \/ Zoom(d)
  BY <1>5, <1>6 DEF onopen, onclose, onmessage, localTick, Press, Release, Drag, Zoom, server
<1>7. CASE ServeUnsubscribe \/ Leave \/ Broadcast \/ UNCHANGED vars
  BY <1>5, <1>7 DEF ServeUnsubscribe, Leave, Broadcast, vars, server
<1>8. QED
  BY <1>1, <1>2, <1>3, <1>4, <1>6, <1>7 DEF Next, Serve

\* The types, for every camera, piece and queue; and where there are live cells the chunk is
\* in the registry: no tick, no placement and no hibernation leaves cells where nothing
\* would compute them (registry.go:85-130, hasCellsNearEdge).
THEOREM TypeCorrect == Spec => []TypeOK
<1>1. Init => ActiveCovers
  BY DEF Init, ActiveCovers
<1>2. Types /\ ActiveCovers /\ [Next]_vars => ActiveCovers'
  BY ActiveCoversStep
<1>3. Types /\ ActiveCovers => TypeOK
  <2> SUFFICES ASSUME Types, ActiveCovers
               PROVE  TypeOK
    OBVIOUS
  <2>1. \A p \in ToSet(pendingCommands) : p # {} /\ p \subseteq Cells
    <3>1. pendingCommands \in [1 .. Len(pendingCommands) -> Shows]
      BY LenProperties DEF Types
    <3>2. \A p \in ToSet(pendingCommands) : p \in Shows
      BY <3>1 DEF ToSet
    <3>3. QED
      BY <3>2 DEF Shows
  <2>2. {ChunkAt(c) : c \in board} \subseteq active
    BY DEF ActiveCovers
  <2>3. QED
    BY <2>1, <2>2 DEF Types, TypeOK, Cells
<1>4. QED
  BY <1>1, <1>2, <1>3, TypesHold, PTL DEF Spec

\* No piece that was drawn in the editor is refused, or loses a cell, whatever its commands
\* wait behind (viewport/app.js:1114-1142, shapes.go:181-208).
THEOREM EditorAndServerAgree == Spec => []EditorAgrees
<1>1. Types => EditorAgrees
  <2> SUFFICES ASSUME Types, NEW k \in ToSet(commands), k.type = "PLACE_CUSTOM"
               PROVE  ValidateCustomCells(k.piece.cells) = [error |-> "", out |-> k.piece.cells]
    BY DEF EditorAgrees
  <2>1. k \in Placements
    <3>1. commands \in [1 .. Len(commands) -> Subs \cup Placements]
      BY LenProperties DEF Types
    <3>2. k \in Subs \cup Placements
      BY <3>1 DEF ToSet
    <3>3. QED
      BY <3>2, Kinds
  <2>2. PICK p \in Pieces : \E r \in Roots : k = Placement(p, r)
    BY <2>1 DEF Placements
  <2>3. k.piece = p /\ p.type = "PLACE_CUSTOM"
    BY <2>2 DEF Placement
  <2>4. PICK d \in Drawings : p.cells = Normalised(d)
    BY <2>3, ViewportAssumption
  <2>5. QED
    BY <2>3, <2>4, DrawnPiecesAreValid
<1>2. QED
  BY <1>1, TypesHold, PTL

-----------------------------------------------------------------------------
(* The queue.                                                               *)

InOrder == Matches(pendingCommands, messages \o commands)

LEMMA StreamTypes ==
  ASSUME Types
  PROVE  /\ pendingCommands \in Seq(Shows) /\ commands \in Seq(Stream)
         /\ messages \in Seq(Stream) /\ messages \o commands \in Seq(Stream)
<1>1. commands \in Seq(Stream) /\ messages \in Seq(Stream)
  <2>1. Subs \cup Placements \subseteq Stream /\ Answers \cup States \subseteq Stream
    BY DEF Stream
  <2>2. QED
    BY <2>1, SeqMonotonic DEF Types
<1>2. QED
  BY <1>1, ConcatProperties DEF Types

LEMMA QuietSequences ==
  /\ \A s \in Seq(Subs \cup States) : s \in Seq(Stream) /\ \A n \in 1 .. Len(s) : ~Expecting(s[n])
  /\ \A s \in Seq(Subs) : s \in Seq(Subs \cup States)
  /\ \A s \in Seq(States) : s \in Seq(Subs \cup States)
  /\ \A e \in Subs \cup States : <<e>> \in Seq(Subs \cup States)
<1>1. ASSUME NEW s \in Seq(Subs \cup States)
      PROVE  s \in Seq(Stream) /\ \A n \in 1 .. Len(s) : ~Expecting(s[n])
  <2>1. Subs \cup States \subseteq Stream
    BY DEF Stream
  <2>2. s \in Seq(Stream)
    BY <2>1, SeqMonotonic
  <2>3. \A n \in 1 .. Len(s) : s[n] \in Subs \cup States
    BY ElementOfSeq
  <2>4. QED
    BY <2>2, <2>3, Kinds
<1>2. \A s \in Seq(Subs) : s \in Seq(Subs \cup States)
  BY SeqMonotonic
<1>3. \A s \in Seq(States) : s \in Seq(Subs \cup States)
  BY SeqMonotonic
<1>4. QED
  BY <1>1, <1>2, <1>3

\* Subscriptions at the end of the stream.
LEMMA QuietAppended ==
  ASSUME NEW queue \in Seq(Shows), NEW s \in Seq(Stream), NEW D \in Seq(Subs \cup States),
         Matches(queue, s)
  PROVE  Matches(queue, s \o D)
<1>1. D \in Seq(Stream) /\ \A n \in 1 .. Len(D) : ~Expecting(D[n])
  BY QuietSequences
<1> DEFINE E == <<>>
<1>2. E \in Seq(Stream) /\ Len(E) = 0
  BY EmptySeq
<1>3. E \o E = E /\ D \o E = D /\ s \o E = s
  BY <1>1, <1>2, ConcatEmptySeq
<1> HIDE DEF E
<1>4. \A n \in 1 .. Len(E) : ~Expecting(E[n])
  BY <1>2
<1>5. Matches(queue, s \o (E \o E))
  BY <1>3
<1>6. Matches(queue, s \o (D \o E))
  BY <1>1, <1>2, <1>4, <1>5, MiddleReplaced
<1>7. QED
  BY <1>3, <1>6

\* States before what is still to be served.
LEMMA QuietInserted ==
  ASSUME NEW queue \in Seq(Shows), NEW A \in Seq(Stream), NEW C \in Seq(Stream),
         NEW B \in Seq(Subs \cup States), NEW D \in Seq(Subs \cup States),
         Matches(queue, A \o (B \o C))
  PROVE  Matches(queue, (A \o D) \o C)
<1>1. /\ B \in Seq(Stream) /\ \A n \in 1 .. Len(B) : ~Expecting(B[n])
      /\ D \in Seq(Stream) /\ \A n \in 1 .. Len(D) : ~Expecting(D[n])
  BY QuietSequences
<1>2. Matches(queue, A \o (D \o C))
  BY <1>1, MiddleReplaced
<1>3. (A \o D) \o C = A \o (D \o C)
  BY <1>1, ConcatAssociative
<1>4. QED
  BY <1>2, <1>3

LEMMA FirstAndRest ==
  ASSUME NEW s \in Seq(Stream), s # <<>>
  PROVE  /\ Head(s) \in Stream /\ Tail(s) \in Seq(Stream)
         /\ s = <<Head(s)>> \o Tail(s)
<1>1. Len(s) \in Nat \ {0}
  BY EmptySeq
<1>2. Len(s) \in 1 .. Len(s) /\ 1 \in 1 .. Len(s)
  BY <1>1
<1>3. SubSeq(s, 1, Len(s)) = <<s[1]>> \o SubSeq(s, 1 + 1, Len(s))
  BY <1>2, SubSeqRecursiveFirst
<1>4. SubSeq(s, 1, Len(s)) = s /\ Tail(s) = SubSeq(s, 2, Len(s)) /\ Head(s) = s[1]
  BY SubSeqFull, TailIsSubSeq
<1>5. QED
  BY <1>3, <1>4, HeadTailProperties

LEMMA FirstOfConcat ==
  ASSUME NEW s \in Seq(Stream), NEW t \in Seq(Stream), s # <<>>
  PROVE  /\ s \o t \in Seq(Stream) /\ s \o t # <<>>
         /\ Head(s \o t) = Head(s) /\ Tail(s \o t) = Tail(s) \o t
<1> DEFINE st == s \o t
           r == Tail(s) \o t
           n == Len(s)
           m == Len(t)
<1>1. n \in Nat \ {0} /\ m \in Nat /\ Head(s) = s[1]
  BY EmptySeq, LenProperties
<1>2. st \in Seq(Stream) /\ Len(st) = n + m
      /\ \A i \in 1 .. n + m : st[i] = IF i <= n THEN s[i] ELSE t[i - n]
  BY ConcatProperties
<1>3. Tail(s) \in Seq(Stream) /\ Len(Tail(s)) = n - 1 /\ \A i \in 1 .. n - 1 : Tail(s)[i] = s[i + 1]
  BY HeadTailProperties
<1> DEFINE u == Tail(s)
<1> HIDE DEF u
<1>4. r \in Seq(Stream) /\ Len(r) = Len(u) + m
      /\ \A i \in 1 .. Len(u) + m : r[i] = IF i <= Len(u) THEN u[i] ELSE t[i - Len(u)]
  <2>1. u \in Seq(Stream) /\ r = u \o t
    BY <1>3 DEF u
  <2> HIDE DEF r
  <2>2. QED
    BY <2>1, ConcatProperties
<1> HIDE DEF st, r, n, m
<1>5. st # <<>> /\ Head(st) = s[1]
  <2>1. Len(st) # 0 /\ 1 \in 1 .. n + m /\ 1 <= n
    BY <1>1, <1>2
  <2>2. st[1] = s[1]
    BY <1>2, <2>1
  <2>3. QED
    BY <1>2, <2>1, <2>2, EmptySeq
<1>6. /\ Tail(st) \in Seq(Stream) /\ Len(Tail(st)) = Len(st) - 1
      /\ \A i \in 1 .. Len(st) - 1 : Tail(st)[i] = st[i + 1]
  BY <1>2, <1>5, HeadTailProperties
<1>7. Len(Tail(st)) = Len(r)
  BY <1>1, <1>2, <1>3, <1>4, <1>6 DEF u
<1>8. ASSUME NEW i \in 1 .. Len(Tail(st))
      PROVE  Tail(st)[i] = r[i]
  <2>1. i \in 1 .. (n + m) - 1 /\ i + 1 \in 1 .. n + m /\ i \in 1 .. (n - 1) + m
    BY <1>1, <1>2, <1>6
  <2>2. Tail(st)[i] = st[i + 1]
    BY <1>2, <1>6, <2>1
  <2>3. Len(u) = n - 1 /\ \A j \in 1 .. n - 1 : u[j] = s[j + 1]
    BY <1>3 DEF u
  <2>4. CASE i <= n - 1
    <3>1. i + 1 <= n /\ i \in 1 .. n - 1
      BY <1>1, <2>1, <2>4
    <3>2. st[i + 1] = s[i + 1]
      BY <1>2, <2>1, <3>1
    <3>3. r[i] = u[i]
      BY <1>4, <2>1, <2>3, <2>4
    <3>4. QED
      BY <2>2, <2>3, <3>1, <3>2, <3>3
  <2>5. CASE ~(i <= n - 1)
    <3>1. ~(i + 1 <= n) /\ (i + 1) - n = i - (n - 1)
      BY <1>1, <2>1, <2>5
    <3>2. st[i + 1] = t[(i + 1) - n]
      BY <1>2, <2>1, <3>1
    <3>3. r[i] = t[i - (n - 1)]
      BY <1>4, <2>1, <2>3, <2>5
    <3>4. QED
      BY <2>2, <3>1, <3>2, <3>3
  <2>6. QED
    BY <2>4, <2>5
<1>9. Tail(st) = r
  BY <1>4, <1>6, <1>7, <1>8, SeqEqual
<1>10. QED
  BY <1>1, <1>2, <1>5, <1>9 DEF st, r

LEMMA StreamsAssociate ==
  ASSUME NEW A \in Seq(Stream), NEW B \in Seq(Stream), NEW C \in Seq(Stream)
  PROVE  (A \o B) \o C = A \o (B \o C)
BY ConcatAssociative

\* An answer in the place of its command.
LEMMA AnsweredInPlace ==
  ASSUME NEW queue \in Seq(Shows), NEW A \in Seq(Stream), NEW C \in Seq(Stream),
         NEW x \in Stream, NEW y \in Stream,
         Expecting(x), Expecting(y), PieceOf(x) = PieceOf(y),
         Matches(queue, A \o (<<x>> \o C))
  PROVE  Matches(queue, (A \o <<y>>) \o C)
<1> DEFINE xs == <<x>>
           ys == <<y>>
           xC == xs \o C
           yC == ys \o C
           s == A \o xC
           t == A \o yC
           a == Len(A)
           c == Len(C)
<1>1. a \in Nat /\ c \in Nat
  BY LenProperties
<1>2. xs \in Seq(Stream) /\ Len(xs) = 1 /\ xs[1] = x /\ ys \in Seq(Stream) /\ Len(ys) = 1 /\ ys[1] = y
  OBVIOUS
<1>3. Matches(queue, s)
  OBVIOUS
<1> HIDE DEF xs, ys
<1>4. /\ xC \in Seq(Stream) /\ Len(xC) = Len(xs) + c
      /\ \A i \in 1 .. Len(xs) + c : xC[i] = IF i <= Len(xs) THEN xs[i] ELSE C[i - Len(xs)]
  BY <1>2, ConcatProperties
<1>5. /\ yC \in Seq(Stream) /\ Len(yC) = Len(ys) + c
      /\ \A i \in 1 .. Len(ys) + c : yC[i] = IF i <= Len(ys) THEN ys[i] ELSE C[i - Len(ys)]
  BY <1>2, ConcatProperties
<1> HIDE DEF xC, yC, a, c
<1>6. /\ s \in Seq(Stream) /\ Len(s) = a + Len(xC)
      /\ \A i \in 1 .. a + Len(xC) : s[i] = IF i <= a THEN A[i] ELSE xC[i - a]
  BY <1>4, ConcatProperties DEF a
<1>7. /\ t \in Seq(Stream) /\ Len(t) = a + Len(yC)
      /\ \A i \in 1 .. a + Len(yC) : t[i] = IF i <= a THEN A[i] ELSE yC[i - a]
  BY <1>5, ConcatProperties DEF a
<1> HIDE DEF s, t
<1>8. Len(s) = a + (1 + c) /\ Len(t) = a + (1 + c)
  BY <1>2, <1>4, <1>5, <1>6, <1>7
<1>9. ASSUME NEW n \in 1 .. Len(s)
      PROVE  Expecting(t[n]) = Expecting(s[n]) /\ PieceOf(t[n]) = PieceOf(s[n])
  <2>1. n \in 1 .. a + Len(xC) /\ n \in 1 .. a + Len(yC) /\ n \in 1 .. a + (1 + c)
    BY <1>2, <1>4, <1>5, <1>8
  <2>2. CASE n <= a
    BY <1>6, <1>7, <2>1, <2>2
  <2>3. CASE ~(n <= a)
    <3> DEFINE k == n - a
    <3>1. s[n] = xC[k] /\ t[n] = yC[k]
      BY <1>6, <1>7, <2>1, <2>3
    <3>2. k \in 1 .. 1 + c
      BY <1>1, <2>1, <2>3
    <3> HIDE DEF k
    <3>3. xC[k] = (IF k <= 1 THEN xs[k] ELSE C[k - 1]) /\ yC[k] = (IF k <= 1 THEN ys[k] ELSE C[k - 1])
      BY <1>2, <1>4, <1>5, <3>2
    <3>4. k <= 1 => k = 1
      BY <1>1, <3>2
    <3>5. CASE k = 1
      <4>1. s[n] = x /\ t[n] = y
        BY <1>2, <3>1, <3>3, <3>5
      <4>2. QED
        BY <4>1
    <3>6. CASE ~(k <= 1)
      BY <3>1, <3>3, <3>6
    <3>7. QED
      BY <3>4, <3>5, <3>6
  <2>4. QED
    BY <2>2, <2>3
<1>10. Matches(queue, t)
  BY <1>3, <1>6, <1>7, <1>8, <1>9, SameExpected
<1>11. (A \o ys) \o C = t
  <2>1. (A \o ys) \o C = A \o (ys \o C)
    BY <1>2, StreamsAssociate
  <2>2. QED
    BY <2>1 DEF t, yC
<1>12. QED
  BY <1>10, <1>11 DEF ys

LEMMA EmptyMatches == Matches(<<>>, <<>>)
<1> DEFINE E == <<>>
           f == [i \in 1 .. 0 |-> 0]
<1>1. Len(E) = 0 /\ \A i : i \notin 1 .. 0
  BY EmptySeq
<1> HIDE DEF E
<1>2. f \in [1 .. Len(E) -> 1 .. Len(E)]
  BY <1>1
<1>3. Pairs(f, E, E)
  BY <1>1, <1>2 DEF Pairs
<1>4. QED
  BY <1>3, MatchesIsPairs DEF E

\* Commands of the browser that expect no answer.
LEMMA UpdateKeepsOrder ==
  ASSUME Types, readyState = "OPEN", InOrder, NEW cam \in CamRange, updateSubscriptions(cam),
         UNCHANGED <<pendingCommands, messages>>
  PROVE  InOrder'
<1> DEFINE sent == Subscriptions(cam) \o Unsubscriptions(cam)
<1>1. commands' = commands \o sent
  BY DEF updateSubscriptions, Subscriptions, Unsubscriptions
<1>2. sent \in Seq(Subs)
  BY UpdateType DEF Types
<1> HIDE DEF sent
<1>3. sent \in Seq(Subs \cup States) /\ sent \in Seq(Stream)
  BY <1>2, QuietSequences
<1>4. /\ pendingCommands \in Seq(Shows) /\ commands \in Seq(Stream)
      /\ messages \in Seq(Stream) /\ messages \o commands \in Seq(Stream)
  BY StreamTypes
<1>5. Matches(pendingCommands, (messages \o commands) \o sent)
  BY <1>3, <1>4, QuietAppended DEF InOrder
<1>6. (messages \o commands) \o sent = messages \o (commands \o sent)
  <2>1. messages \in Seq(Stream) /\ commands \in Seq(Stream) /\ sent \in Seq(Stream)
    BY <1>3, <1>4
  <2>2. QED
    BY <2>1, ConcatAssociative
<1>7. QED
  BY <1>1, <1>5, <1>6 DEF InOrder

LEMMA PlacementKeepsOrder ==
  ASSUME Types, readyState = "OPEN", InOrder, NEW k \in Placements, placeAt(k),
         UNCHANGED messages
  PROVE  InOrder'
<1>1. /\ pendingCommands \in Seq(Shows) /\ commands \in Seq(Stream)
      /\ messages \in Seq(Stream) /\ messages \o commands \in Seq(Stream)
  BY StreamTypes
<1>2. k \in Stream /\ CellsOf(k) \in Shows /\ Expecting(k) /\ PieceOf(k) = CellsOf(k)
  BY ShownPieces, Kinds DEF Stream
<1>3. pendingCommands' = Append(pendingCommands, CellsOf(k)) /\ commands' = Append(commands, k)
  BY DEF placeAt
<1>4. Matches(Append(pendingCommands, CellsOf(k)), Append(messages \o commands, k))
  BY <1>1, <1>2, EntryAppended DEF InOrder
<1> DEFINE ks == <<k>>
<1>5. ks \in Seq(Stream)
  BY <1>2
<1>6. Append(commands, k) = commands \o ks /\ Append(messages \o commands, k) = (messages \o commands) \o ks
  BY <1>1, <1>2, AppendIsConcat
<1> HIDE DEF ks
<1>7. (messages \o commands) \o ks = messages \o (commands \o ks)
  BY <1>1, <1>5, StreamsAssociate
<1>8. QED
  BY <1>3, <1>4, <1>6, <1>7 DEF InOrder

LEMMA onmessageKeepsOrder ==
  ASSUME Types, InOrder, onmessage
  PROVE  InOrder'
<1> DEFINE m == Head(messages)
           s == messages \o commands
           r == Tail(messages) \o commands
<1>1. /\ pendingCommands \in Seq(Shows) /\ commands \in Seq(Stream)
      /\ messages \in Seq(Stream) /\ s \in Seq(Stream)
  BY StreamTypes
<1>2. messages # <<>> /\ messages' = Tail(messages) /\ UNCHANGED commands
  BY DEF onmessage
<1>3. m \in Answers \cup States
  BY <1>2, HeadTailProperties DEF Types
<1>4. s # <<>> /\ Head(s) = m /\ Tail(s) = r
  BY <1>1, <1>2, FirstOfConcat
<1>5. r \in Seq(Stream) /\ s = <<m>> \o r
  BY <1>1, <1>4, FirstAndRest
<1>6. Matches(pendingCommands, s)
  BY DEF InOrder
<1>7. messages' \o commands' = r
  BY <1>2
<1> HIDE DEF m, s, r
<1>8. CASE m \in States
  <2> DEFINE E == <<>>
             ms == <<m>>
  <2>1. UNCHANGED pendingCommands
    BY <1>8, Kinds DEF onmessage, m
  <2>2. E \in Seq(Stream) /\ E \in Seq(Subs \cup States) /\ ms \in Seq(Subs \cup States) /\ ms \in Seq(Stream)
    BY <1>8, EmptySeq, QuietSequences
  <2>3. E \o E = E /\ E \o r = r
    BY <1>5, <2>2, ConcatEmptySeq
  <2>4. E \o (ms \o r) = s
    BY <1>1, <1>5, ConcatEmptySeq
  <2> HIDE DEF E, ms
  <2>5. Matches(pendingCommands, (E \o E) \o r)
    BY <1>1, <1>5, <1>6, <2>2, <2>4, QuietInserted
  <2>6. Matches(pendingCommands, r)
    BY <2>3, <2>5
  <2>7. QED
    BY <1>7, <2>1, <2>6 DEF InOrder
<1>9. CASE m \in Answers
  <2>1. m.type \in {"ACK", "ERROR"} /\ Expecting(m)
    BY <1>9, Kinds
  <2>2. pendingCommands # <<>> /\ Matches(Tail(pendingCommands), r)
    BY <1>1, <1>4, <1>6, <2>1, HeadAnswered
  <2>3. pendingCommands' = Tail(pendingCommands)
    BY <2>1, <2>2 DEF onmessage, rollback, m
  <2>4. QED
    BY <1>7, <2>2, <2>3 DEF InOrder
<1>10. QED
  BY <1>3, <1>8, <1>9

LEMMA ServePlaceKeepsOrder ==
  ASSUME Types, readyState = "OPEN", InOrder, ServePlace
  PROVE  InOrder'
<1> DEFINE k == Head(commands)
           T == Tail(commands)
<1>1. /\ pendingCommands \in Seq(Shows) /\ commands \in Seq(Stream) /\ messages \in Seq(Stream)
  BY StreamTypes
<1>2. /\ k \in Placements /\ commands' = T /\ commands # <<>>
      /\ \E ok \in BOOLEAN : Written(<<AnswerTo(k, ok)>>)
      /\ UNCHANGED pendingCommands
  BY PlacementServed DEF browser, shown
<1>3. T \in Seq(Stream) /\ commands = <<k>> \o T
  BY <1>1, <1>2, FirstAndRest
<1> HIDE DEF k, T
<1>4. PICK ok \in BOOLEAN : Written(<<AnswerTo(k, ok)>>)
  BY <1>2
<1> DEFINE e == AnswerTo(k, ok)
<1>5. e \in Answers /\ e.to = k
  <2>1. e \in Answers
    BY <1>2 DEF Answers
  <2>2. e.to = k
    BY DEF AnswerTo
  <2>3. QED
    BY <2>1, <2>2
<1>6. messages' = messages \o <<e>>
  BY <1>4 DEF Written
<1> HIDE DEF e
<1>7. Expecting(k) /\ Expecting(e) /\ PieceOf(k) = PieceOf(e) /\ k \in Stream /\ e \in Stream
  BY <1>2, <1>5, Kinds DEF Stream
<1>8. Matches(pendingCommands, messages \o (<<k>> \o T))
  BY <1>3 DEF InOrder
<1>9. Matches(pendingCommands, (messages \o <<e>>) \o T)
  BY <1>1, <1>3, <1>7, <1>8, AnsweredInPlace
<1>10. QED
  BY <1>2, <1>6, <1>9 DEF InOrder

\* States and served subscriptions.
LEMMA QuietServed ==
  ASSUME Types, InOrder, UNCHANGED pendingCommands,
         NEW B \in Seq(Subs \cup States), NEW D \in Seq(Subs \cup States),
         NEW C \in Seq(Stream), commands = B \o C, commands' = C,
         messages' = messages \o D
  PROVE  InOrder'
<1>1. /\ pendingCommands \in Seq(Shows) /\ messages \in Seq(Stream)
      /\ Matches(pendingCommands, messages \o (B \o C))
  BY StreamTypes DEF InOrder
<1>2. Matches(pendingCommands, (messages \o D) \o C)
  BY <1>1, QuietInserted
<1>3. QED
  BY <1>2 DEF InOrder

LEMMA QueueStep ==
  ASSUME Types, QueueMatches, [Next]_vars
  PROVE  QueueMatches'
<1> SUFFICES ASSUME (readyState = "OPEN" /\ ~early)'
             PROVE  InOrder'
  BY DEF QueueMatches, InOrder
<1>1. CASE onopen
  <2> DEFINE E == <<>>
             cs == commands'
  <2>1. readyState = "CONNECTING" /\ ~early /\ UNCHANGED <<pendingCommands, messages>>
    BY <1>1 DEF onopen, shown
  <2>2. pendingCommands' = E /\ messages' = E
    BY <2>1 DEF Types
  <2>3. cs \in Seq(Subs)
    <3>1. Subscription("SUBSCRIBE", visibleChunks(camX)) \in Subs
      BY VisibleChunks, SubscriptionType DEF Types
    <3>2. QED
      BY <1>1, <3>1 DEF onopen
  <2>4. E \in Seq(Shows) /\ E \in Seq(Stream) /\ Matches(E, E)
    BY EmptySeq, EmptyMatches
  <2> HIDE DEF E, cs
  <2>5. cs \in Seq(Subs \cup States)
    BY <2>3, QuietSequences
  <2>6. Matches(E, E \o cs)
    BY <2>4, <2>5, QuietAppended
  <2>7. QED
    BY <2>2, <2>6 DEF InOrder, cs
<1>2. ASSUME readyState = "OPEN", UNCHANGED <<pendingCommands, commands, messages, early>>
      PROVE  InOrder'
  <2>1. InOrder
    BY <1>2 DEF QueueMatches, InOrder
  <2>2. QED
    BY <1>2, <2>1 DEF InOrder
<1>3. CASE onclose
  BY <1>3 DEF onclose
<1>4. CASE onmessage
  <2>1. readyState = "OPEN" /\ ~early
    BY <1>4 DEF onmessage
  <2>2. QED
    BY <1>4, <2>1, onmessageKeepsOrder DEF QueueMatches, InOrder
<1>5. CASE localTick \/ Press \/ \E d \in Shifts : Drag(d)
  BY <1>2, <1>5 DEF localTick, Press, Drag, shown
<1>6. ASSUME NEW d \in Shifts, Zoom(d)
      PROVE  InOrder'
  <2>1. /\ readyState = "OPEN" /\ ~early /\ camX' \in CamRange /\ updateSubscriptions(camX')
        /\ UNCHANGED <<pendingCommands, messages>>
    BY <1>6 DEF Zoom, shown
  <2>2. QED
    BY <2>1, UpdateKeepsOrder DEF QueueMatches, InOrder
<1>7. CASE Release
  <2>1. readyState = "OPEN" /\ UNCHANGED messages
    BY <1>7 DEF Release
  <2>2. CASE isPanning /\ updateSubscriptions(camX) /\ UNCHANGED shown
    <3>1. ~early /\ UNCHANGED pendingCommands /\ camX \in CamRange
      BY <2>2 DEF shown, Types
    <3>2. QED
      BY <2>1, <2>2, <3>1, UpdateKeepsOrder DEF QueueMatches, InOrder
  <2>3. ASSUME NEW p \in Pieces, NEW r \in Roots, placeAt(Placement(p, r))
        PROVE  InOrder'
    <3> DEFINE k == Placement(p, r)
    <3>1. k \in Placements /\ placeAt(k)
      BY <2>3 DEF Placements
    <3> HIDE DEF k
    <3>2. ~early
      BY <3>1 DEF placeAt
    <3>3. QED
      BY <2>1, <3>1, <3>2, PlacementKeepsOrder DEF QueueMatches, InOrder
  <2>4. QED
    BY <1>7, <2>2, <2>3 DEF Release
<1>8. CASE ServePlace
  <2>1. readyState = "OPEN" /\ ~early
    BY <1>8 DEF ServePlace, browser, shown
  <2>2. QED
    BY <1>8, <2>1, ServePlaceKeepsOrder DEF QueueMatches, InOrder
<1>9. CASE ServeSubscribe \/ ServeUnsubscribe
  <2> DEFINE B == <<Head(commands)>>
             T == Tail(commands)
             E == <<>>
  <2>1. readyState = "OPEN" /\ ~early /\ UNCHANGED pendingCommands
    BY <1>9 DEF ServeSubscribe, ServeUnsubscribe, browser, shown
  <2>2. /\ commands # <<>> /\ commands' = T
        /\ Head(commands).type \in {"SUBSCRIBE", "UNSUBSCRIBE"}
    BY <1>9 DEF ServeSubscribe, ServeUnsubscribe
  <2>3. B \in Seq(Subs \cup States) /\ commands = B \o T /\ T \in Seq(Stream)
    <3>1. Head(commands) \in Subs
      BY <2>2, HeadOfCommands, Kinds
    <3>2. B \in Seq(Subs \cup States)
      BY <3>1
    <3>3. QED
      BY <2>2, <3>2, FirstAndRest, StreamTypes
  <2>4. InOrder
    BY <2>1 DEF QueueMatches, InOrder
  <2>5. \E D \in Seq(Subs \cup States) : messages' = messages \o D
    <3>1. CASE ServeSubscribe
      <4>1. PICK ms \in Seq(States) : Written(ms)
        BY <3>1, ServeSubscribeTypes
      <4>2. messages' = messages \o ms /\ ms \in Seq(Subs \cup States)
        BY <2>1, <4>1, QuietSequences DEF Written
      <4>3. QED
        BY <4>2
    <3>2. CASE ServeUnsubscribe
      <4>1. messages' = messages
        BY <3>2 DEF ServeUnsubscribe
      <4>2. E \in Seq(Subs \cup States) /\ messages \o E = messages
        BY StreamTypes, EmptySeq, ConcatEmptySeq
      <4>3. QED
        BY <4>1, <4>2
    <3>3. QED
      BY <1>9, <3>1, <3>2
  <2>6. PICK D \in Seq(Subs \cup States) : messages' = messages \o D
    BY <2>5
  <2> HIDE DEF B, T
  <2>7. QED
    BY <2>1, <2>2, <2>3, <2>4, <2>6, QuietServed
<1>10. CASE Broadcast
  <2> DEFINE E == <<>>
  <2>1. readyState = "OPEN" /\ ~early /\ UNCHANGED <<pendingCommands, commands>>
    BY <1>10 DEF Broadcast, browser, shown
  <2>2. PICK m \in sending : Written(<<m>>)
    BY <1>10 DEF Broadcast
  <2> DEFINE D == <<m>>
  <2>3. D \in Seq(Subs \cup States) /\ messages' = messages \o D
    <3>1. m \in Subs \cup States
      BY DEF Types
    <3>2. QED
      BY <2>1, <2>2, <3>1, QuietSequences DEF Written
  <2>4. E \in Seq(Subs \cup States) /\ commands \in Seq(Stream)
    BY EmptySeq, StreamTypes
  <2>5. commands = E \o commands
    BY <2>4, ConcatEmptySeq
  <2>6. InOrder
    BY <2>1 DEF QueueMatches, InOrder
  <2> HIDE DEF D, E
  <2>7. QED
    BY <2>1, <2>3, <2>4, <2>5, <2>6, QuietServed
<1>11. CASE Leave \/ TickAll \/ (\E id \in ChunkIDs : Hibernate(id)) \/ UNCHANGED vars
  BY <1>2, <1>11 DEF Leave, TickAll, Hibernate, vars, browser, shown
<1>12. QED
  BY <1>1, <1>3, <1>4, <1>5, <1>6, <1>7, <1>8, <1>9, <1>10, <1>11 DEF Next, Serve

\* However many pieces are placed, and whatever states, errors and subscriptions come
\* between: each answer takes from the queue the piece that it answers, so that a rollback
\* takes back the cells of the piece that was refused (app.js:72-76, app.js:196-206).
THEOREM QueueIsInOrder == Spec => []QueueMatches
<1>1. Init => QueueMatches
  BY DEF Init, QueueMatches
<1>2. Types /\ QueueMatches /\ [Next]_vars => QueueMatches'
  BY QueueStep
<1>3. QED
  BY <1>1, <1>2, TypesHold, PTL DEF Spec

-----------------------------------------------------------------------------
(* Subscriptions.                                                           *)

\* No command of ks is about chunk id, and: the last one that is subscribes it.
Unnamed(ks, id) == \A i \in DOMAIN ks : ~Names(ks[i], id)
LastSubscribes(ks, id) ==
  \E i \in DOMAIN ks : /\ Names(ks[i], id) /\ ks[i].type = "SUBSCRIBE"
                       /\ \A j \in i + 1 .. Len(ks) : ~Names(ks[j], id)

\* What the server has when it has served k.
After(ids, k) ==
  {id \in ids : ~Names(k, id)} \cup {id \in ChunkIDs : Names(k, id) /\ k.type = "SUBSCRIBE"}

LEMMA AppliedIs ==
  ASSUME NEW ids, NEW ks, NEW id
  PROVE  id \in Applied(ids, ks) <=>
           (id \in ids /\ Unnamed(ks, id)) \/ (id \in ChunkIDs /\ LastSubscribes(ks, id))
BY DEF Applied, Unnamed, LastSubscribes

LEMMA AfterIs ==
  ASSUME NEW ids, NEW k, NEW id
  PROVE  id \in After(ids, k) <=>
           (id \in ids /\ ~Names(k, id)) \/ (id \in ChunkIDs /\ Names(k, id) /\ k.type = "SUBSCRIBE")
BY DEF After

LEMMA AppliedToNone ==
  ASSUME NEW ids
  PROVE  Applied(ids, <<>>) = ids
<1> DEFINE E == <<>>
<1>1. DOMAIN E = {}
  OBVIOUS
<1> HIDE DEF E
<1>2. \A id : Unnamed(E, id) /\ ~LastSubscribes(E, id)
  BY <1>1 DEF Unnamed, LastSubscribes
<1>3. \A id : id \in Applied(ids, E) <=> id \in ids
  BY <1>2, AppliedIs
<1>4. Applied(ids, E) = ids
  BY <1>3
<1>5. QED
  BY <1>4 DEF E

LEMMA AppliedToMore ==
  ASSUME NEW ids, NEW ks \in Seq(Stream), NEW k \in Stream
  PROVE  Applied(ids, Append(ks, k)) = After(Applied(ids, ks), k)
<1> DEFINE n == Len(ks)
           t == Append(ks, k)
<1>1. n \in Nat /\ DOMAIN ks = 1 .. n
  BY LenProperties
<1>2. t \in Seq(Stream) /\ Len(t) = n + 1 /\ t[n + 1] = k /\ \A i \in 1 .. n : t[i] = ks[i]
  BY AppendProperties
<1>3. DOMAIN t = 1 .. n + 1
  BY <1>2, LenProperties
<1> HIDE DEF t
<1>4. ASSUME NEW id
      PROVE  Unnamed(t, id) <=> Unnamed(ks, id) /\ ~Names(k, id)
  <2>1. \A i : i \in DOMAIN t <=> i \in DOMAIN ks \/ i = n + 1
    BY <1>1, <1>3
  <2>2. QED
    BY <1>1, <1>2, <2>1 DEF Unnamed
<1>5. ASSUME NEW id
      PROVE  LastSubscribes(t, id) <=> \/ LastSubscribes(ks, id) /\ ~Names(k, id)
                                       \/ Names(k, id) /\ k.type = "SUBSCRIBE"
  <2>1. ASSUME NEW i \in DOMAIN t, Names(t[i], id), t[i].type = "SUBSCRIBE",
               \A j \in i + 1 .. Len(t) : ~Names(t[j], id)
        PROVE  \/ LastSubscribes(ks, id) /\ ~Names(k, id)
               \/ Names(k, id) /\ k.type = "SUBSCRIBE"
    <3>1. CASE i = n + 1
      BY <1>2, <2>1, <3>1
    <3>2. CASE i \in 1 .. n
      <4>1. n + 1 \in i + 1 .. Len(t) /\ \A j \in i + 1 .. n : j \in i + 1 .. Len(t) /\ j \in 1 .. n
        BY <1>1, <1>2, <3>2
      <4>2. ~Names(k, id) /\ \A j \in i + 1 .. n : ~Names(ks[j], id)
        BY <1>2, <2>1, <4>1
      <4>3. Names(ks[i], id) /\ ks[i].type = "SUBSCRIBE"
        BY <1>2, <2>1, <3>2
      <4>4. QED
        BY <1>1, <3>2, <4>2, <4>3 DEF LastSubscribes
    <3>3. QED
      BY <1>1, <1>3, <3>1, <3>2
  <2>2. ASSUME NEW i \in DOMAIN ks, Names(ks[i], id), ks[i].type = "SUBSCRIBE",
               \A j \in i + 1 .. Len(ks) : ~Names(ks[j], id), ~Names(k, id)
        PROVE  LastSubscribes(t, id)
    <3>1. i \in DOMAIN t /\ t[i] = ks[i]
      BY <1>1, <1>2, <1>3
    <3>2. ASSUME NEW j \in i + 1 .. Len(t)
          PROVE  ~Names(t[j], id)
      <4>1. j = n + 1 \/ (j \in i + 1 .. n /\ j \in 1 .. n)
        BY <1>1, <1>2
      <4>2. QED
        BY <1>2, <2>2, <4>1
    <3>3. QED
      BY <2>2, <3>1, <3>2 DEF LastSubscribes
  <2>3. ASSUME Names(k, id), k.type = "SUBSCRIBE"
        PROVE  LastSubscribes(t, id)
    <3> DEFINE i == n + 1
    <3>1. i \in DOMAIN t /\ t[i] = k /\ \A j \in i + 1 .. Len(t) : FALSE
      BY <1>1, <1>2, <1>3
    <3> HIDE DEF i
    <3>2. QED
      BY <2>3, <3>1 DEF LastSubscribes
  <2>4. QED
    BY <2>1, <2>2, <2>3 DEF LastSubscribes
<1>6. \A id : id \in Applied(ids, t) <=> id \in After(Applied(ids, ks), k)
  BY <1>4, <1>5, AppliedIs, AfterIs
<1>7. Applied(ids, t) = After(Applied(ids, ks), k)
  BY <1>6
<1>8. QED
  BY <1>7 DEF t

LEMMA AppliedToFirst ==
  ASSUME NEW ids, NEW ks \in Seq(Stream), ks # <<>>
  PROVE  Applied(ids, ks) = Applied(After(ids, Head(ks)), Tail(ks))
<1> DEFINE n == Len(ks)
           k == Head(ks)
           t == Tail(ks)
<1>1. n \in Nat \ {0} /\ DOMAIN ks = 1 .. n /\ k = ks[1]
  BY LenProperties, EmptySeq
<1>2. t \in Seq(Stream) /\ Len(t) = n - 1 /\ \A i \in 1 .. n - 1 : t[i] = ks[i + 1]
  BY HeadTailProperties
<1>3. DOMAIN t = 1 .. n - 1
  BY <1>2, LenProperties
<1> HIDE DEF t, k
<1>4. ASSUME NEW id
      PROVE  Unnamed(ks, id) <=> ~Names(k, id) /\ Unnamed(t, id)
  <2>1. ASSUME Unnamed(ks, id)
        PROVE  ~Names(k, id) /\ Unnamed(t, id)
    <3>1. 1 \in 1 .. n /\ \A i \in 1 .. n - 1 : i + 1 \in 1 .. n
      BY <1>1
    <3>2. QED
      BY <1>1, <1>2, <1>3, <2>1, <3>1 DEF Unnamed
  <2>2. ASSUME ~Names(k, id), Unnamed(t, id), NEW i \in 1 .. n
        PROVE  ~Names(ks[i], id)
    <3>1. CASE i = 1
      BY <1>1, <2>2, <3>1
    <3>2. CASE i # 1
      <4> DEFINE j == i - 1
      <4>1. j \in 1 .. n - 1 /\ j + 1 = i
        BY <1>1, <3>2
      <4> HIDE DEF j
      <4>2. t[j] = ks[i] /\ ~Names(t[j], id)
        BY <1>2, <1>3, <2>2, <4>1 DEF Unnamed
      <4>3. QED
        BY <4>2
    <3>3. QED
      BY <3>1, <3>2
  <2>3. QED
    BY <1>1, <2>1, <2>2 DEF Unnamed
<1>5. ASSUME NEW id
      PROVE  LastSubscribes(ks, id) <=>
               LastSubscribes(t, id) \/ (Names(k, id) /\ k.type = "SUBSCRIBE" /\ Unnamed(t, id))
  <2>1. ASSUME NEW i \in 1 .. n, Names(ks[i], id), ks[i].type = "SUBSCRIBE",
               \A j \in i + 1 .. n : ~Names(ks[j], id)
        PROVE  LastSubscribes(t, id) \/ (Names(k, id) /\ k.type = "SUBSCRIBE" /\ Unnamed(t, id))
    <3>1. CASE i = 1
      <4>1. \A j \in 1 .. n - 1 : j + 1 \in i + 1 .. n
        BY <1>1, <3>1
      <4>2. \A j \in 1 .. n - 1 : ~Names(t[j], id)
        BY <1>2, <2>1, <4>1
      <4>3. Unnamed(t, id)
        BY <1>3, <4>2 DEF Unnamed
      <4>4. QED
        BY <1>1, <2>1, <3>1, <4>3
    <3>2. CASE i # 1
      <4> DEFINE l == i - 1
      <4>1. l \in 1 .. n - 1 /\ l + 1 = i
        BY <1>1, <3>2
      <4>2. \A j \in l + 1 .. n - 1 : j + 1 \in i + 1 .. n /\ j \in 1 .. n - 1
        BY <1>1, <4>1
      <4> HIDE DEF l
      <4>3. Names(t[l], id) /\ t[l].type = "SUBSCRIBE"
        BY <1>2, <2>1, <4>1
      <4>4. \A j \in l + 1 .. Len(t) : ~Names(t[j], id)
        BY <1>2, <2>1, <4>2
      <4>5. QED
        BY <1>3, <4>1, <4>3, <4>4 DEF LastSubscribes
    <3>3. QED
      BY <3>1, <3>2
  <2>2. ASSUME NEW l \in 1 .. n - 1, Names(t[l], id), t[l].type = "SUBSCRIBE",
               \A j \in l + 1 .. Len(t) : ~Names(t[j], id)
        PROVE  LastSubscribes(ks, id)
    <3> DEFINE i == l + 1
    <3>1. i \in 1 .. n /\ Names(ks[i], id) /\ ks[i].type = "SUBSCRIBE"
      <4>1. i \in 1 .. n
        BY <1>1
      <4>2. t[l] = ks[i]
        BY <1>2
      <4>3. QED
        BY <2>2, <4>1, <4>2
    <3>2. ASSUME NEW m \in i + 1 .. n
          PROVE  ~Names(ks[m], id)
      <4> DEFINE j == m - 1
      <4>1. j \in l + 1 .. n - 1 /\ j \in 1 .. n - 1 /\ j + 1 = m
        BY <1>1
      <4> HIDE DEF j
      <4>2. t[j] = ks[m] /\ ~Names(t[j], id)
        BY <1>2, <2>2, <4>1
      <4>3. QED
        BY <4>2
    <3> HIDE DEF i
    <3>3. QED
      BY <1>1, <3>1, <3>2 DEF LastSubscribes
  <2>3. ASSUME Names(k, id), k.type = "SUBSCRIBE", Unnamed(t, id)
        PROVE  LastSubscribes(ks, id)
    <3>1. 1 \in 1 .. n /\ ks[1] = k
      BY <1>1
    <3>2. ASSUME NEW m \in 1 + 1 .. n
          PROVE  ~Names(ks[m], id)
      <4> DEFINE j == m - 1
      <4>1. j \in 1 .. n - 1 /\ j + 1 = m
        BY <1>1
      <4> HIDE DEF j
      <4>2. t[j] = ks[m] /\ ~Names(t[j], id)
        BY <1>2, <1>3, <2>3, <4>1 DEF Unnamed
      <4>3. QED
        BY <4>2
    <3>3. QED
      BY <1>1, <2>3, <3>1, <3>2 DEF LastSubscribes
  <2>4. QED
    BY <1>1, <1>3, <2>1, <2>2, <2>3 DEF LastSubscribes
<1>6. \A id : id \in Applied(ids, ks) <=> id \in Applied(After(ids, k), t)
  BY <1>4, <1>5, AppliedIs, AfterIs
<1>7. Applied(ids, ks) = Applied(After(ids, k), t)
  BY <1>6
<1>8. QED
  BY <1>7 DEF k, t

LEMMA AfterEach ==
  ASSUME NEW ids \in SUBSET ChunkIDs, NEW k \in Subs \cup Placements
  PROVE  /\ k.type = "SUBSCRIBE" => After(ids, k) = ids \cup k.chunks
         /\ k.type = "UNSUBSCRIBE" => After(ids, k) = ids \ k.chunks
         /\ k.type \notin {"SUBSCRIBE", "UNSUBSCRIBE"} => After(ids, k) = ids
<1>1. \A id : id \in After(ids, k) <=>
        (id \in ids /\ ~Names(k, id)) \/ (id \in ChunkIDs /\ Names(k, id) /\ k.type = "SUBSCRIBE")
  BY AfterIs
<1>2. CASE k.type \in {"SUBSCRIBE", "UNSUBSCRIBE"}
  <2>1. k.chunks \in SUBSET ChunkIDs
    BY <1>2, Kinds
  <2>2. \A id : Names(k, id) <=> id \in k.chunks
    BY <1>2 DEF Names
  <2>3. k.type = "SUBSCRIBE" => \A id : id \in After(ids, k) <=> id \in ids \cup k.chunks
    BY <1>1, <2>1, <2>2
  <2>4. k.type = "UNSUBSCRIBE" => \A id : id \in After(ids, k) <=> id \in ids \ k.chunks
    BY <1>1, <2>1, <2>2
  <2>5. QED
    BY <1>2, <2>3, <2>4
<1>3. CASE k.type \notin {"SUBSCRIBE", "UNSUBSCRIBE"}
  <2>1. \A id : ~Names(k, id)
    BY <1>3 DEF Names
  <2>2. \A id : id \in After(ids, k) <=> id \in ids
    BY <1>1, <2>1
  <2>3. QED
    BY <1>3, <2>2
<1>4. QED
  BY <1>2, <1>3

LEMMA AppliedType ==
  ASSUME NEW ids \in SUBSET ChunkIDs, NEW ks
  PROVE  Applied(ids, ks) \in SUBSET ChunkIDs
BY DEF Applied

\* One subscription, or none, at the end.
OneOrNone(type, c) == IF c = {} THEN <<>> ELSE <<Subscription(type, c)>>
Resulting(type, ids, c) == IF type = "SUBSCRIBE" THEN ids \cup c ELSE ids \ c

LEMMA AppliedToUpdate ==
  ASSUME NEW ids \in SUBSET ChunkIDs, NEW ks \in Seq(Stream), NEW c \in SUBSET ChunkIDs,
         IsFiniteSet(c), NEW type \in {"SUBSCRIBE", "UNSUBSCRIBE"}
  PROVE  /\ ks \o OneOrNone(type, c) \in Seq(Stream)
         /\ Applied(ids, ks \o OneOrNone(type, c)) = Resulting(type, Applied(ids, ks), c)
<1> DEFINE k == Subscription(type, c)
           A == Applied(ids, ks)
<1>1. k \in Subs /\ k \in Stream /\ k.type = type /\ k.chunks = c
  <2>1. k \in Subs
    BY SubscriptionType
  <2>2. k.type = type /\ k.chunks = c
    BY DEF Subscription
  <2>3. QED
    BY <2>1, <2>2 DEF Stream
<1>2. A \in SUBSET ChunkIDs
  BY AppliedType
<1> HIDE DEF k
<1>3. CASE c = {}
  <2>1. ks \o <<>> = ks
    BY ConcatEmptySeq
  <2>2. QED
    BY <1>3, <2>1 DEF OneOrNone, Resulting
<1>4. CASE c # {}
  <2>1. Append(ks, k) = ks \o <<k>> /\ Append(ks, k) \in Seq(Stream)
    BY <1>1, AppendIsConcat, AppendProperties
  <2>2. Applied(ids, Append(ks, k)) = After(A, k)
    BY <1>1, AppliedToMore
  <2> HIDE DEF A
  <2>3. /\ type = "SUBSCRIBE" => After(A, k) = A \cup c
        /\ type = "UNSUBSCRIBE" => After(A, k) = A \ c
    <3>1. k \in Subs \cup Placements
      BY <1>1
    <3>2. /\ k.type = "SUBSCRIBE" => After(A, k) = A \cup k.chunks
          /\ k.type = "UNSUBSCRIBE" => After(A, k) = A \ k.chunks
      BY <1>2, <3>1, AfterEach
    <3>3. QED
      BY <1>1, <3>2
  <2>4. QED
    BY <1>4, <2>1, <2>2, <2>3 DEF k, A, OneOrNone, Resulting
<1>5. QED
  BY <1>3, <1>4

\* What is noted as subscribed is what the server will have.
Noted == readyState = "OPEN" => subscribedChunks = Applied(subscribers, commands)

LEMMA UpdateIsNoted ==
  ASSUME Types, readyState = "OPEN", Noted, NEW cam \in CamRange, updateSubscriptions(cam)
  PROVE  /\ subscribedChunks' = visibleChunks(cam)
         /\ Applied(subscribers, commands') = visibleChunks(cam)
<1> DEFINE V == visibleChunks(cam)
           to == V \ subscribedChunks
           un == subscribedChunks \ V
           S == OneOrNone("SUBSCRIBE", to)
           U == OneOrNone("UNSUBSCRIBE", un)
<1>1. commands' = commands \o (S \o U) /\ subscribedChunks' = V
  BY DEF updateSubscriptions, OneOrNone
<1>2. S = Subscriptions(cam) /\ U = Unsubscriptions(cam)
  BY DEF Subscriptions, Unsubscriptions, OneOrNone
<1>3. V \in SUBSET ChunkIDs /\ IsFiniteSet(V)
  BY VisibleChunks
<1> HIDE DEF V
<1>4. to \in SUBSET ChunkIDs /\ un \in SUBSET ChunkIDs /\ IsFiniteSet(to) /\ IsFiniteSet(un)
  <2>1. /\ to \in SUBSET V /\ un \in SUBSET subscribedChunks
        /\ subscribedChunks \in SUBSET ChunkIDs /\ IsFiniteSet(subscribedChunks)
    BY DEF Types
  <2> HIDE DEF to, un
  <2>2. QED
    BY <1>3, <2>1, FS_Subset
<1>5. subscribedChunks = Applied(subscribers, commands) /\ subscribers \in SUBSET ChunkIDs
  BY DEF Noted, Types
<1>6. commands \in Seq(Stream)
  BY StreamTypes
<1>7. S \in Seq(Stream) /\ U \in Seq(Stream)
  <2>1. S \in Seq(Subs) /\ U \in Seq(Subs)
    BY <1>2, UpdateType DEF Types
  <2> HIDE DEF S, U
  <2>2. QED
    BY <2>1, QuietSequences
<1> DEFINE ks == commands \o S
<1>8. ks \in Seq(Stream) /\ Applied(subscribers, ks) = Applied(subscribers, commands) \cup to
  <2> HIDE DEF to
  <2>1. "SUBSCRIBE" \in {"SUBSCRIBE", "UNSUBSCRIBE"}
    OBVIOUS
  <2>2. /\ ks \in Seq(Stream)
        /\ Applied(subscribers, ks) = Resulting("SUBSCRIBE", Applied(subscribers, commands), to)
    BY <1>4, <1>5, <1>6, <2>1, AppliedToUpdate
  <2> HIDE DEF ks
  <2>3. QED
    BY <2>2 DEF Resulting
<1> HIDE DEF ks
<1>9. Applied(subscribers, ks \o U) = Applied(subscribers, ks) \ un
  <2> HIDE DEF un
  <2>1. "UNSUBSCRIBE" \in {"SUBSCRIBE", "UNSUBSCRIBE"}
    OBVIOUS
  <2>2. Applied(subscribers, ks \o U) = Resulting("UNSUBSCRIBE", Applied(subscribers, ks), un)
    BY <1>4, <1>5, <1>8, <2>1, AppliedToUpdate
  <2> HIDE DEF U
  <2>3. QED
    BY <2>2 DEF Resulting
<1> HIDE DEF S, U
<1>10. ks \o U = commands \o (S \o U)
  BY <1>6, <1>7, ConcatAssociative DEF ks
<1>11. Applied(subscribers, commands') = (subscribedChunks \cup to) \ un
  BY <1>1, <1>5, <1>8, <1>9, <1>10
<1>12. (subscribedChunks \cup to) \ un = V
  OBVIOUS
<1>13. QED
  BY <1>1, <1>11, <1>12 DEF V

LEMMA NotedStep ==
  ASSUME Types, Noted, [Next]_vars
  PROVE  Noted'
<1> SUFFICES ASSUME readyState' = "OPEN"
             PROVE  subscribedChunks' = Applied(subscribers', commands')
  BY DEF Noted, Applied, Names
<1>1. CASE onopen
  <2> DEFINE E == <<>>
             k == Subscription("SUBSCRIBE", visibleChunks(camX))
  <2>1. /\ readyState = "CONNECTING" /\ subscribedChunks' = visibleChunks(camX)
        /\ commands' = <<k>> /\ UNCHANGED subscribers
    BY <1>1 DEF onopen, server
  <2>2. subscribers' = {}
    BY <2>1 DEF Types
  <2>3. visibleChunks(camX) \in SUBSET ChunkIDs /\ IsFiniteSet(visibleChunks(camX))
    BY VisibleChunks DEF Types
  <2>4. k \in Subs /\ k.type = "SUBSCRIBE" /\ k.chunks = visibleChunks(camX)
    BY <2>3, SubscriptionType DEF Subscription
  <2> HIDE DEF k
  <2>5. k \in Stream /\ E \in Seq(Stream) /\ Append(E, k) = <<k>>
    BY <2>4, EmptySeq DEF Stream
  <2>6. Applied({}, Append(E, k)) = After(Applied({}, E), k)
    <3> HIDE DEF E
    <3>1. \A ids : Applied(ids, Append(E, k)) = After(Applied(ids, E), k)
      BY <2>5, AppliedToMore
    <3>2. QED
      BY <3>1
  <2>7. Applied({}, E) = {}
    <3>1. \A ids : Applied(ids, E) = ids
      BY AppliedToNone
    <3>2. QED
      BY <3>1
  <2>8. After({}, k) = {} \cup k.chunks
    <3> DEFINE none == {}
    <3>1. none \in SUBSET ChunkIDs
      OBVIOUS
    <3> HIDE DEF none
    <3>2. After(none, k) = none \cup k.chunks
      BY <2>4, <3>1, AfterEach
    <3>3. QED
      BY <3>2 DEF none
  <2>9. QED
    BY <2>1, <2>2, <2>4, <2>5, <2>6, <2>7, <2>8
<1>2. ASSUME UNCHANGED <<readyState, subscribedChunks, subscribers, commands>>
      PROVE  subscribedChunks' = Applied(subscribers', commands')
  BY <1>2 DEF Noted
<1>3. CASE onclose
  BY <1>3 DEF onclose
<1>4. CASE onmessage \/ localTick \/ Press \/ \E d \in Shifts : Drag(d)
  BY <1>2, <1>4 DEF onmessage, localTick, Press, Drag, server
<1>5. ASSUME NEW d \in Shifts, Zoom(d)
      PROVE  subscribedChunks' = Applied(subscribers', commands')
  <2>1. /\ readyState = "OPEN" /\ camX' \in CamRange /\ updateSubscriptions(camX')
        /\ UNCHANGED subscribers
    BY <1>5 DEF Zoom, server
  <2>2. QED
    BY <2>1, UpdateIsNoted
<1>6. CASE Release
  <2>1. readyState = "OPEN" /\ UNCHANGED subscribers
    BY <1>6 DEF Release, server
  <2>2. CASE isPanning /\ updateSubscriptions(camX) /\ UNCHANGED shown
    BY <2>1, <2>2, UpdateIsNoted DEF Types
  <2>3. ASSUME NEW p \in Pieces, NEW r \in Roots, placeAt(Placement(p, r))
        PROVE  subscribedChunks' = Applied(subscribers', commands')
    <3> DEFINE k == Placement(p, r)
    <3>1. k \in Placements /\ commands' = Append(commands, k) /\ UNCHANGED subscribedChunks
      BY <2>1, <2>3 DEF Placements, placeAt
    <3> HIDE DEF k
    <3>2. k \in Stream /\ k \in Subs \cup Placements /\ k.type \notin {"SUBSCRIBE", "UNSUBSCRIBE"}
      <4>1. k.type \in {"SPAWN", "PLACE_SHAPE", "PLACE_CUSTOM"}
        BY <3>1, Kinds
      <4>2. QED
        BY <3>1, <4>1 DEF Stream
    <3> DEFINE A == Applied(subscribers, commands)
    <3>3. Applied(subscribers, Append(commands, k)) = After(A, k)
      BY <3>2, StreamTypes, AppliedToMore
    <3>4. A \in SUBSET ChunkIDs
      BY AppliedType DEF Types
    <3>5. A = subscribedChunks
      BY <2>1 DEF Noted
    <3> HIDE DEF A
    <3>6. After(A, k) = A
      BY <3>2, <3>4, AfterEach
    <3>7. QED
      BY <2>1, <3>1, <3>3, <3>5, <3>6
  <2>4. QED
    BY <1>6, <2>2, <2>3 DEF Release
<1>7. ASSUME commands # <<>>, commands' = Tail(commands),
             UNCHANGED <<readyState, subscribedChunks>>,
             subscribers' = After(subscribers, Head(commands))
      PROVE  subscribedChunks' = Applied(subscribers', commands')
  <2>1. Applied(subscribers, commands) = Applied(After(subscribers, Head(commands)), Tail(commands))
    BY <1>7, StreamTypes, AppliedToFirst
  <2>2. subscribedChunks = Applied(subscribers, commands)
    BY <1>7 DEF Noted
  <2>3. QED
    BY <1>7, <2>1, <2>2
<1>8. CASE ServePlace
  <2>1. /\ Head(commands) \in Placements /\ commands' = Tail(commands) /\ commands # <<>>
        /\ UNCHANGED <<readyState, subscribedChunks, subscribers>>
    BY <1>8, PlacementServed DEF browser
  <2>2. Head(commands).type \notin {"SUBSCRIBE", "UNSUBSCRIBE"}
    BY <1>8 DEF ServePlace
  <2>3. After(subscribers, Head(commands)) = subscribers
    BY <2>1, <2>2, AfterEach DEF Types
  <2>4. QED
    BY <1>7, <2>1, <2>3
<1>9. CASE ServeSubscribe
  <2>1. /\ commands # <<>> /\ commands' = Tail(commands) /\ Head(commands).type = "SUBSCRIBE"
        /\ UNCHANGED <<readyState, subscribedChunks>>
        /\ subscribers' = subscribers \cup Head(commands).chunks
    BY <1>9 DEF ServeSubscribe, browser
  <2>2. Head(commands) \in Subs \cup Placements
    BY <2>1, HeadOfCommands
  <2>3. After(subscribers, Head(commands)) = subscribers \cup Head(commands).chunks
    BY <2>1, <2>2, AfterEach DEF Types
  <2>4. QED
    BY <1>7, <2>1, <2>3
<1>10. CASE ServeUnsubscribe
  <2>1. /\ commands # <<>> /\ commands' = Tail(commands) /\ Head(commands).type = "UNSUBSCRIBE"
        /\ UNCHANGED <<readyState, subscribedChunks>>
        /\ subscribers' = subscribers \ Head(commands).chunks
    BY <1>10 DEF ServeUnsubscribe, browser
  <2>2. Head(commands) \in Subs \cup Placements
    BY <2>1, HeadOfCommands
  <2>3. After(subscribers, Head(commands)) = subscribers \ Head(commands).chunks
    BY <2>1, <2>2, AfterEach DEF Types
  <2>4. QED
    BY <1>7, <2>1, <2>3
<1>11. CASE Leave
  BY <1>11 DEF Leave, browser
<1>12. CASE TickAll \/ Broadcast \/ (\E id \in ChunkIDs : Hibernate(id)) \/ UNCHANGED vars
  BY <1>2, <1>12 DEF TickAll, Broadcast, Hibernate, vars, browser, server
<1>13. QED
  BY <1>1, <1>3, <1>4, <1>5, <1>6, <1>8, <1>9, <1>10, <1>11, <1>12 DEF Next, Serve

\* The chunks that the browser notes as subscribed are those that the server will have for
\* it, whatever the camera, the player and the server do, and however the commands and the
\* ticks interleave (updateSubscriptions, app.js; router.go, handleSubscribe).
THEOREM SubscriptionsAreNoted == Spec => []Noted
<1>1. Init => Noted
  BY DEF Init, Noted
<1>2. Types /\ Noted /\ [Next]_vars => Noted'
  BY NotedStep
<1>3. QED
  BY <1>1, <1>2, TypesHold, PTL DEF Spec

\* While no drag is under way, they are the visible ones.
Looking == readyState = "OPEN" /\ ~(pressed /\ isPanning) => subscribedChunks = visibleChunks(camX)

LEMMA LookingStep ==
  ASSUME MouseIsFast, Types, Noted, Looking, [Next]_vars
  PROVE  Looking'
<1>1. CASE onopen
  BY <1>1 DEF onopen, Looking, gesture, visibleChunks, ColumnAt
<1>2. ASSUME UNCHANGED <<readyState, gesture, subscribedChunks>>
      PROVE  Looking'
  BY <1>2 DEF Looking, gesture, visibleChunks, ColumnAt
<1>3. CASE onclose
  BY <1>3 DEF onclose, Looking
<1>4. CASE Press
  BY <1>4 DEF Press, Looking, visibleChunks, ColumnAt
<1>5. ASSUME NEW d \in Shifts, Drag(d)
      PROVE  Looking'
  <2>1. isPanning' = (isPanning \/ d > Threshold \/ -d > Threshold) /\ pressed'
    BY <1>5 DEF Drag
  <2>2. d > Threshold \/ -d > Threshold
    BY DEF MouseIsFast
  <2>3. QED
    BY <2>1, <2>2 DEF Looking
<1>6. ASSUME NEW d \in Shifts, Zoom(d)
      PROVE  Looking'
  <2>1. camX' \in CamRange /\ updateSubscriptions(camX') /\ UNCHANGED readyState
    BY <1>6 DEF Zoom
  <2>2. readyState = "OPEN" => subscribedChunks' = visibleChunks(camX')
    BY <2>1 DEF updateSubscriptions
  <2>3. QED
    BY <2>1, <2>2 DEF Looking, visibleChunks, ColumnAt
<1>7. CASE Release
  <2>1. UNCHANGED <<readyState, camX>> /\ pressed
    BY <1>7 DEF Release
  <2>2. readyState = "OPEN" => subscribedChunks' = visibleChunks(camX)
    <3>1. CASE isPanning
      BY <1>7, <3>1 DEF Release, updateSubscriptions
    <3>2. CASE ~isPanning
      BY <1>7, <3>2 DEF Release, placeAt, Looking
    <3>3. QED
      BY <3>1, <3>2
  <2>3. QED
    BY <2>1, <2>2 DEF Looking, visibleChunks, ColumnAt
<1>8. CASE onmessage \/ localTick
  BY <1>2, <1>8 DEF onmessage, localTick
<1>9. CASE Serve \/ TickAll \/ Broadcast \/ (\E id \in ChunkIDs : Hibernate(id)) \/ UNCHANGED vars
  <2>1. UNCHANGED browser
    BY <1>9 DEF Serve, ServePlace, ServeSubscribe, ServeUnsubscribe, Leave, TickAll, Broadcast,
                Hibernate, vars
  <2>2. QED
    BY <1>2, <2>1 DEF browser
<1>10. QED
  BY <1>1, <1>3, <1>4, <1>5, <1>6, <1>7, <1>8, <1>9 DEF Next

\* If the mouse is fast, then whenever the button is up what is visible is what is noted as
\* subscribed, and what the server will have: a click leaves no chunk on the screen without
\* a subscription, and none behind (mouseup and click, updateSubscriptions, app.js).
THEOREM FastMouseSubscriptionsAgree ==
  ASSUME MouseIsFast
  PROVE  Spec => []SubscriptionsAgree
<1>1. Init => Looking
  BY DEF Init, Looking
<1>2. Types /\ Noted /\ Looking /\ [Next]_vars => Looking'
  BY LookingStep
<1>3. Noted /\ Looking => SubscriptionsAgree
  BY DEF Noted, Looking, SubscriptionsAgree
<1>4. QED
  BY <1>1, <1>2, <1>3, TypesHold, SubscriptionsAreNoted, PTL DEF Spec
=============================================================================
