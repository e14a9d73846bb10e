----------------------------- MODULE MCGateway ------------------------------
(* Instances of Gateway for TLC. *)
EXTENDS Gateway, TLC

CONSTANTS a, b, Here, There

Cmd(type, valid, chunks) == [type |-> type, valid |-> valid, chunks |-> chunks]
Watch  == {Cmd("SUBSCRIBE", TRUE, <<Here>>)}
Tour   == {Cmd("SUBSCRIBE", TRUE, <<Here, There>>), Cmd("UNSUBSCRIBE", TRUE, <<Here>>)}
Pieces == {Cmd("PLACE_SHAPE", TRUE, <<Here, There>>), Cmd("PLACE_CUSTOM", TRUE, <<Here>>)}

AllWatch      == [c \in Clients |-> Watch]
TourAndPieces == [c \in Clients |-> Tour \cup Pieces]
=============================================================================
