----------------------------- MODULE MCPresence -------------------------------
(* Ann has two sessions, on two instances; Bob has one beside Ann's first.  *)
EXTENDS Presence

CONSTANTS ann, bob, a1, a2, b1, i1, i2

MCUsers == {ann, bob}
MCSessions == {a1, a2, b1}
MCInstances == {i1, i2}
MCUser == [s \in MCSessions |-> IF s = b1 THEN bob ELSE ann]
MCHost == [s \in MCSessions |-> IF s = a2 THEN i2 ELSE i1]

\* Ann alone.
MCOneUser == {ann}
MCHerSessions == {a1, a2}
MCHerUser == [s \in MCHerSessions |-> ann]
MCHerHost == [s \in MCHerSessions |-> IF s = a2 THEN i2 ELSE i1]

===============================================================================
