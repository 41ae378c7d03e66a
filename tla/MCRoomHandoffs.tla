--------------------------- MODULE MCRoomHandoffs ---------------------------
(* Instances of RoomHandoffs for TLC. *)
EXTENDS RoomHandoffs, TLC

CONSTANTS p1, q1, k1, pr, qr, P, Q, K, room

\* A thread of bot P, one of K, and the places of P and Q in a room.
MCAddrs == {p1, k1, pr, qr}
\* One thread of each of two bots.
TwoAddrs == {p1, q1}
MCBotOf == p1 :> P @@ q1 :> Q @@ k1 :> K @@ pr :> P @@ qr :> Q
MCRoomOf == p1 :> NoRoom @@ q1 :> NoRoom @@ k1 :> NoRoom @@ pr :> room @@ qr :> room
=============================================================================
