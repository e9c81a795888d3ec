----------------------------- MODULE MCGateway -----------------------------
EXTENDS Gateway, TLC

CONSTANTS r1, r2

\* Two requests of one run, or one of them beside any other call.
MCKinds == r1 :> {"paid"} @@ r2 :> {"paid", "chat", "stream"}
=============================================================================
