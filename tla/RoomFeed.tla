------------------------------- MODULE RoomFeed -------------------------------
(***************************************************************************)
(* What the message pipeline promises its readers: every event a session   *)
(* receives was published, every session receives it at most once, and     *)
(* whatever history stores has been published before. It promises neither  *)
(* that a published message is stored nor that it reaches everybody.       *)
(***************************************************************************)
EXTENDS Naturals

CONSTANTS
    Ids,        \* message ids
    Events,     \* room events: records with an id
    Sessions    \* STOMP sessions

VARIABLES
    published,  \* events handed to Redis
    stored,     \* events whose message is committed
    times       \* times[s][n]: how often session s received event n

feedVars == <<published, stored, times>>

Init ==
    /\ published = {} /\ stored = {}
    /\ times = [s \in Sessions |-> [n \in Ids |-> 0]]

\* Ids are unique among the published events.
Publish(e) ==
    /\ \A other \in published : other.id # e.id
    /\ published' = published \cup {e}
    /\ UNCHANGED <<stored, times>>

Store(e) ==
    /\ e \in published
    /\ stored' = stored \cup {e}
    /\ UNCHANGED <<published, times>>

Receive(s, e) ==
    /\ e \in published
    /\ times[s][e.id] = 0
    /\ times' = [times EXCEPT ![s][e.id] = 1]
    /\ UNCHANGED <<published, stored>>

Next == \E e \in Events :
            Publish(e) \/ Store(e) \/ \E s \in Sessions : Receive(s, e)

Spec == Init /\ [][Next]_feedVars

===============================================================================
