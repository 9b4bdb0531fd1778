--------------------------- MODULE MessageFollowers ---------------------------
(***************************************************************************)
(* MessageDelivery with one more history variable: which sessions are      *)
(* owed which events. It adds no behaviour and takes none away; it lets    *)
(* us say, as an invariant, that the fan-out over instances loses nothing  *)
(* on the way to a session that keeps listening.                           *)
(***************************************************************************)
EXTENDS MessageDelivery

VARIABLE
    due         \* history: the pairs <<s, e>> such that s followed event e when
                \* Redis took it, and has been reachable for it ever since

followVars == <<vars, due>>

\* The session would get a frame of the event, were it handled now.
Listens(s, e) == state[s] = "open" /\ e.room \in subs[s]

\* A session that can follow an event: it listens, and its instance hears Redis.
Follows(s, e) == Listens(s, e) /\ host[s] \in linked

\* Redis takes an event when it enters published.
OwedNow == {d \in Sessions \X (published' \ published) : Follows(d[1], d[2])}

\* An event is no longer owed when the session stops listening, or when its
\* instance loses the Redis connection before the listener has had the event.
StillOwed(s, e) ==
    /\ Listens(s, e)'
    /\ host[s] \in linked' \/ e \notin inbox[host[s]]
Owed == {d \in due \cup OwedNow : StillOwed(d[1], d[2])}

\* Nor is it owed to those whom a failing listener has not reached with it.
MissedBy(i, e) ==
    {d \in due : host[d[1]] = i /\ d[2] = e /\ e \notin outbound'[d[1]]}

FollowInit == Init /\ due = {}
FollowNext ==
    \/ Works /\ due' = Owed
    \/ \E i \in Instances : \E e \in inbox[i] :
        HandleFails(i, e) /\ due' = Owed \ MissedBy(i, e)

FollowSpec == FollowInit /\ [][FollowNext]_followVars
FollowFairSpec == FollowSpec /\ Fairness

-------------------------------------------------------------------------------
(* What must hold.                                                         *)

\* Where an event may be, seen from one session.
Coming(s, e) == e \in inbox[host[s]] \/ e \in outbound[s]
Arrived(s, e) == times[s][e.id] = 1

\* What a session is owed waits for the listener of its instance, waits in the
\* outbound pool or has been sent, whatever happens to the request that
\* published it, to its transaction and to other instances and sessions: between
\* Redis and the socket an event is lost only with a connection that breaks
\* before the listener has it, or by an exception that onMessage swallows.
NothingLost == \A d \in due : Coming(d[1], d[2]) \/ Arrived(d[1], d[2])

IsOwed(s, n) == \E d \in due : d[1] = s /\ d[2].id = n

\* Fan-out reaches every instance: a session that follows an event when Redis
\* takes it receives it in the end, unless the debt ends before.
FollowersReceive ==
    \A s \in Sessions, n \in MsgIds :
        IsOwed(s, n) ~> times[s][n] > 0 \/ ~IsOwed(s, n)

\* The inductive form: what is due has been published, to a listening session.
DueConsistent ==
    /\ due \subseteq Sessions \X published
    /\ \A d \in due : Listens(d[1], d[2])
    /\ NothingLost

===============================================================================
