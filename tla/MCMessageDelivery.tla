--------------------------- MODULE MCMessageDelivery ---------------------------
(* MessageDelivery on small instances. *)
EXTENDS MessageDelivery, TLC

CONSTANTS u1, i1, i2, q1, q2, s1

MCUsers == {u1}

\* A request thread on each of two instances, a session on the second.
MCInstances == {i1, i2}
MCRequests == {q1, q2}
MCHome == q1 :> i1 @@ q2 :> i2
MCSessions == {s1}
MCHost == s1 :> i2

\* One request thread and one session on one instance.
MCOneInstance == {i1}
MCOneRequest == {q1}
MCOneHome == q1 :> i1
MCNearHost == s1 :> i1

===============================================================================
