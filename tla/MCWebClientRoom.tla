---------------------------- MODULE MCWebClientRoom ----------------------------
(* Two rooms and a partner; a message the user sends to the first room,     *)
(* perhaps to be published when he has moved on, and two of the partner, one *)
(* of them older than the page. A page of a history has room for one.       *)
EXTENDS WebClientRoom

CONSTANTS r1, r2, pat, m1, d0, d1

MCRooms == {r1, r2}
MCPeople == {pat}
MCMessages == {m1, d0, d1}
MCPlace == [m \in MCMessages |-> IF m = m1 THEN r1 ELSE pat]
MCOld == {d0}
MCCreated == [m \in MCMessages |-> IF m = d0 THEN 1 ELSE 2]
MCMine == {m1}
MCSlots == {1, 2}
MCCalls == {1, 2}

================================================================================
