---------------------------- MODULE MCRefreshTokens ----------------------------
(* RefreshTokens on small instances. *)
EXTENDS RefreshTokens

CONSTANTS c1, c2, c3, c4, ann, bob, eve

MCFourCalls == {c1, c2, c3, c4}
MCThreeCalls == {c1, c2, c3}

\* Ids 1 and 11: their Redis keys share a prefix.
MCTwoUsers == {[id |-> 1, name |-> ann], [id |-> 11, name |-> bob]}
MCOneUser == {[id |-> 1, name |-> ann]}
MCOneName == {ann}
MCThreeNames == {ann, bob, eve}

\* The newcomer's name reads as the id of ann.
MCSpells == [n \in MCThreeNames |-> IF n = eve THEN 1 ELSE 0]
MCNoSpelling == [n \in MCOneName |-> 0]

===============================================================================
