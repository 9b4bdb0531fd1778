--------------------------- MODULE MCRoomMembership ---------------------------
(* RoomMembership on a small instance. *)
EXTENDS RoomMembership

CONSTANTS u1, u2, u3, q1, q2, q3

MCUsers == {u1, u2}
MCUserIds == {u1, u2, u3}
MCRequests == {q1, q2, q3}

===============================================================================
