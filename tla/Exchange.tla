------------------------------ MODULE Exchange ------------------------------
(***************************************************************************)
(* What a connection promises to a player: commands are answered once each *)
(* and in the order in which they were sent, but for the Silent ones,      *)
(* which get no answer.  An answer tells the truth: an acknowledgement     *)
(* comes after the whole piece has been placed, an error when nothing has. *)
(* The server may send notices at any time.  A player who leaves may lose  *)
(* the commands that nobody has begun to serve, never half of one.         *)
(***************************************************************************)
EXTENDS Naturals, Sequences

CONSTANTS
  Clients,
  Commands,
  Silent,     \* the commands that get no answer
  Notices     \* what the server sends unasked

VARIABLES
  open,       \* the connected players
  asked,      \* per player, the commands sent and not dealt with
  placed,     \* how much of the first of them is on the board
  out         \* per player, the messages sent and not received

vars == <<open, asked, placed, out>>

AnswerTo(k, ok) == [to |-> k, ok |-> ok]

Init ==
  /\ open = Clients
  /\ asked = [c \in Clients |-> <<>>]
  /\ placed = [c \in Clients |-> "none"]
  /\ out = [c \in Clients |-> <<>>]

Ask(c, k) ==
  /\ c \in open
  /\ asked' = [asked EXCEPT ![c] = Append(@, k)]
  /\ UNCHANGED <<open, placed, out>>

Place(c) ==
  /\ asked[c] # <<>>
  /\ Head(asked[c]) \notin Silent
  /\ placed[c] # "all"
  /\ \E p \in {"some", "all"} : placed' = [placed EXCEPT ![c] = p]
  /\ UNCHANGED <<open, asked, out>>

\* Nobody hears an answer to a player who has left.
Answer(c, ok) ==
  /\ asked[c] # <<>>
  /\ Head(asked[c]) \notin Silent
  /\ placed[c] = IF ok THEN "all" ELSE "none"
  /\ asked' = [asked EXCEPT ![c] = Tail(@)]
  /\ placed' = [placed EXCEPT ![c] = "none"]
  /\ out' = IF c \in open THEN [out EXCEPT ![c] = Append(@, AnswerTo(Head(asked[c]), ok))]
                          ELSE out
  /\ UNCHANGED open

Serve(c) ==
  /\ asked[c] # <<>>
  /\ Head(asked[c]) \in Silent
  /\ asked' = [asked EXCEPT ![c] = Tail(@)]
  /\ UNCHANGED <<open, placed, out>>

Notify(c, m) ==
  /\ c \in open
  /\ out' = [out EXCEPT ![c] = Append(@, m)]
  /\ UNCHANGED <<open, asked, placed>>

Receive(c) ==
  /\ out[c] # <<>>
  /\ out' = [out EXCEPT ![c] = Tail(@)]
  /\ UNCHANGED <<open, asked, placed>>

Close(c) ==
  /\ c \in open
  /\ open' = open \ {c}
  /\ out' = [out EXCEPT ![c] = <<>>]
  /\ \E n \in 0..Len(asked[c]) : /\ placed[c] # "none" => n > 0
                                 /\ asked' = [asked EXCEPT ![c] = SubSeq(@, 1, n)]
  /\ UNCHANGED placed

Next ==
  \E c \in Clients :
    \/ \E k \in Commands : Ask(c, k)
    \/ Place(c)
    \/ \E ok \in BOOLEAN : Answer(c, ok)
    \/ Serve(c)
    \/ \E m \in Notices : Notify(c, m)
    \/ Receive(c)
    \/ Close(c)

Spec == Init /\ [][Next]_vars
=============================================================================
