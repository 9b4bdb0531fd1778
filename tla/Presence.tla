------------------------------- MODULE Presence -------------------------------
(***************************************************************************)
(* Who is online: PresenceService keeps one Redis key with a TTL per user, *)
(* WebSocketEventListener sets it when a STOMP session is connected and    *)
(* deletes it when one ends, and every frame of a session renews the TTL.  *)
(*                                                                         *)
(* The connect handler runs on a thread of the outbound channel, before    *)
(* the CONNECTED frame leaves; the disconnect handler on the thread that   *)
(* sees the socket close. Nothing orders the two. After the disconnect     *)
(* handler Spring sends a DISCONNECT of its own through the inbound        *)
(* channel, whose interceptor takes it for one more frame of the session.  *)
(* The simple broker has no task scheduler, so no heartbeats are agreed:   *)
(* a client that only reads sends nothing. The broadcasts to               *)
(* /topic/presence stay on one instance and are left out here.             *)
(***************************************************************************)
EXTENDS Naturals

CONSTANTS
    Users,      \* registered users
    Sessions,   \* STOMP sessions; a client that reconnects is another one
    Instances,  \* backend instances
    user,       \* user[s]: the Principal of session s
    host,       \* host[s]: the instance of session s
    TTL         \* lifetime of a presence key, in ticks of the clock

ASSUME UserAssumption == user \in [Sessions -> Users]
ASSUME HostAssumption == host \in [Sessions -> Instances]
ASSUME TTLAssumption == TTL \in Nat \ {0}

VARIABLES
    state,      \* of each session: new, open or closed
    greeting,   \* handleConnect of each session: none, pending or done
    parting,    \* handleDisconnect of each session, then its DISCONNECT frame
    key,        \* key[u]: ticks left to user:online:{u}, 0 if there is no key
    lapse,      \* history: ticks since a session marked online last renewed the key,
                \* as long as it did so within every TTL ticks; TTL for the others
    swept,      \* history: sessions marked online before a DEL of their key
    away        \* history: away[u]: ticks for which u has had neither a session
                \* nor a handler to run for one, TTL at most

vars == <<state, greeting, parting, key, lapse, swept, away>>

TypeOK ==
    /\ state \in [Sessions -> {"new", "open", "closed"}]
    /\ greeting \in [Sessions -> {"none", "pending", "done"}]
    /\ parting \in [Sessions -> {"none", "pending", "handled", "done"}]
    /\ key \in [Users -> 0..TTL]
    /\ lapse \in [Sessions -> 0..TTL]
    /\ swept \subseteq Sessions
    /\ away \in [Users -> 0..TTL]

Init ==
    /\ state = [s \in Sessions |-> "new"]
    /\ greeting = [s \in Sessions |-> "none"]
    /\ parting = [s \in Sessions |-> "none"]
    /\ key = [u \in Users |-> 0]
    /\ lapse = [s \in Sessions |-> TTL]
    /\ swept = {}
    /\ away = [u \in Users |-> 0]

SessionsOf(u) == {s \in Sessions : user[s] = u}
isOnline(u) == key[u] > 0

\* A session of u is open, or one of its handlers has yet to run.
Here(u) ==
    \E s \in SessionsOf(u) :
        \/ state[s] = "open" \/ greeting[s] = "pending"
        \/ parting[s] \in {"pending", "handled"}

\* What EXPIRE makes of a key: it renews one that is there and makes none.
Renewed(u) == IF key[u] > 0 THEN TTL ELSE 0

-------------------------------------------------------------------------------
(* The life of a session.                                                  *)

\* A CONNECT frame with a valid token.
Connect(s) ==
    /\ state[s] = "new"
    /\ state' = [state EXCEPT ![s] = "open"]
    /\ greeting' = [greeting EXCEPT ![s] = "pending"]
    /\ away' = [away EXCEPT ![user[s]] = 0]
    /\ UNCHANGED <<parting, key, lapse, swept>>

\* setOnline with the TTL in the wrong unit.
SetOnlineTooLong(s) ==
    /\ greeting[s] = "pending"
    /\ greeting' = [greeting EXCEPT ![s] = "done"]
    /\ key' = [key EXCEPT ![user[s]] = 1000 * TTL]
    /\ lapse' = [lapse EXCEPT ![s] = 0]
    /\ swept' = swept \ {s}
    /\ UNCHANGED <<state, parting, away>>

\* setOnline that keeps the TTL a key already has.
SetOnlineIfAbsent(s) ==
    /\ greeting[s] = "pending"
    /\ greeting' = [greeting EXCEPT ![s] = "done"]
    /\ key' = [key EXCEPT ![user[s]] = IF @ > 0 THEN @ ELSE TTL]
    /\ lapse' = [lapse EXCEPT ![s] = 0]
    /\ swept' = swept \ {s}
    /\ UNCHANGED <<state, parting, away>>

\* handleConnect: SET with the TTL, though the session may be closed by now.
SetOnline(s) ==
    /\ greeting[s] = "pending"
    /\ greeting' = [greeting EXCEPT ![s] = "done"]
    /\ key' = [key EXCEPT ![user[s]] = TTL]
    /\ lapse' = [lapse EXCEPT ![s] = 0]
    /\ swept' = swept \ {s}
    /\ UNCHANGED <<state, parting, away>>

\* Redis fails, which Spring logs before it sends CONNECTED all the same; or the
\* session is gone before the handler is called.
SetOnlineFails(s) ==
    /\ greeting[s] = "pending"
    /\ greeting' = [greeting EXCEPT ![s] = "done"]
    /\ UNCHANGED <<state, parting, key, lapse, swept, away>>

\* The interceptor renews nothing.
FrameUnnoticed(s) ==
    /\ state[s] = "open" /\ greeting[s] = "done"
    /\ lapse' = [lapse EXCEPT ![s] = IF @ < TTL THEN 0 ELSE TTL]
    /\ UNCHANGED <<state, greeting, parting, key, swept, away>>

\* The interceptor goes on renewing for a session that is closed.
FrameOfAny(s) ==
    /\ greeting[s] = "done"
    /\ key' = [key EXCEPT ![user[s]] = Renewed(user[s])]
    /\ lapse' = [lapse EXCEPT ![s] = IF @ < TTL THEN 0 ELSE TTL]
    /\ UNCHANGED <<state, greeting, parting, swept, away>>

\* Any frame after CONNECT.
Frame(s) ==
    /\ state[s] = "open" /\ greeting[s] = "done"
    /\ key' = [key EXCEPT ![user[s]] = Renewed(user[s])]
    /\ lapse' = [lapse EXCEPT ![s] = IF @ < TTL THEN 0 ELSE TTL]
    /\ UNCHANGED <<state, greeting, parting, swept, away>>

\* EXPIRE fails: the interceptor ignores it and lets the frame on, unrenewed.
FrameFails(s) ==
    /\ state[s] = "open" /\ greeting[s] = "done"
    /\ UNCHANGED vars

\* The socket closes, with or without a DISCONNECT frame of the client.
Close(s) ==
    /\ state[s] = "open"
    /\ state' = [state EXCEPT ![s] = "closed"]
    /\ parting' = [parting EXCEPT ![s] = "pending"]
    /\ UNCHANGED <<greeting, key, lapse, swept, away>>

\* handleDisconnect: DEL, whatever other sessions the user has.
SetOffline(s) ==
    /\ parting[s] = "pending"
    /\ parting' = [parting EXCEPT ![s] = "handled"]
    /\ key' = [key EXCEPT ![user[s]] = 0]
    /\ swept' = swept \cup SessionsOf(user[s])
    /\ UNCHANGED <<state, greeting, lapse, away>>

SetOfflineFails(s) ==
    /\ parting[s] = "pending"
    /\ parting' = [parting EXCEPT ![s] = "handled"]
    /\ UNCHANGED <<state, greeting, key, lapse, swept, away>>

\* Spring's own DISCONNECT passes the interceptor.
LastFrame(s) ==
    /\ parting[s] = "handled"
    /\ parting' = [parting EXCEPT ![s] = "done"]
    /\ key' = [key EXCEPT ![user[s]] = Renewed(user[s])]
    /\ UNCHANGED <<state, greeting, lapse, swept, away>>

LastFrameFails(s) ==
    /\ parting[s] = "handled"
    /\ parting' = [parting EXCEPT ![s] = "done"]
    /\ UNCHANGED <<state, greeting, key, lapse, swept, away>>

\* An instance dies: no handler of its sessions runs any more.
Crash(i) ==
    /\ \E s \in Sessions : host[s] = i /\ state[s] # "new"
    /\ state' = [s \in Sessions |->
                    IF host[s] = i /\ state[s] = "open" THEN "closed" ELSE state[s]]
    /\ greeting' = [s \in Sessions |->
                    IF host[s] = i /\ greeting[s] = "pending" THEN "done" ELSE greeting[s]]
    /\ parting' = [s \in Sessions |->
                    IF host[s] = i /\ state[s] # "new" THEN "done" ELSE parting[s]]
    /\ UNCHANGED <<key, lapse, swept, away>>

-------------------------------------------------------------------------------
(* Time.                                                                   *)

\* A key without a TTL.
AgelessKey(u) == key[u]

AgedKey(u) == IF key[u] > 0 THEN key[u] - 1 ELSE 0

Tick ==
    /\ key' = [u \in Users |-> AgedKey(u)]
    /\ lapse' = [s \in Sessions |-> IF lapse[s] < TTL THEN lapse[s] + 1 ELSE TTL]
    /\ away' = [u \in Users |-> IF Here(u) THEN 0
                                ELSE IF away[u] < TTL THEN away[u] + 1 ELSE TTL]
    /\ UNCHANGED <<state, greeting, parting, swept>>

Handle(s) == SetOnline(s) \/ SetOffline(s) \/ LastFrame(s)

Next ==
    \/ \E s \in Sessions :
        \/ Connect(s) \/ Frame(s) \/ FrameFails(s) \/ Close(s) \/ Handle(s)
        \/ SetOnlineFails(s) \/ SetOfflineFails(s) \/ LastFrameFails(s)
    \/ \E i \in Instances : Crash(i)
    \/ Tick

Spec == Init /\ [][Next]_vars

\* Handlers run, or fail, and the clock ticks; nobody has to send anything.
FairSpec ==
    /\ Spec
    /\ WF_vars(Tick)
    /\ \A s \in Sessions : WF_vars(Handle(s))

-------------------------------------------------------------------------------
(* What must hold.                                                         *)

\* A session that was marked online and has a frame renew the key within every TTL
\* ticks keeps its user online until the end of some session of the user sweeps
\* the key. Frames whose EXPIRE fails in between do no harm, and the handlers and
\* frames of several sessions, in any order, only lengthen its life.
FramesKeepOnline ==
    \A s \in Sessions \ swept : lapse[s] < TTL => isOnline(user[s])

\* Whatever handlers are lost in a crash or run late, a user without an open
\* session reads offline in the end: no late SET or DISCONNECT lasts.
GoneIsOffline ==
    \A u \in Users :
        (\A s \in SessionsOf(u) : state[s] # "open")
            ~> (~isOnline(u) \/ \E s \in SessionsOf(u) : state[s] = "open")

\* How long a ghost lasts: TTL ticks after the last session and the last handler
\* of a user, run or lost in a crash, the user reads offline, whatever order the
\* handlers came in and whichever of them failed.
GhostsFade == \A u \in Users : away[u] = TTL => ~isOnline(u)

\* The inductive forms: what a key has left makes up for the lapse of each
\* session that shares it, and is no more than a user who is gone is due.
LapseConsistent ==
    \A s \in Sessions \ swept : lapse[s] < TTL => key[user[s]] + lapse[s] >= TTL
AwayConsistent ==
    \A u \in Users : key[u] + away[u] <= TTL /\ (Here(u) => away[u] = 0)
PresenceConsistent == LapseConsistent /\ AwayConsistent

\* No false offline reading (PresenceService on TTL_SECONDS, FLOW-MSG.md on the
\* heartbeat): a user is online while an open session of his, once marked
\* online, has a frame renew the key within every TTL ticks.
SenderIsOnline ==
    \A s \in Sessions : state[s] = "open" /\ lapse[s] < TTL => isOnline(user[s])

===============================================================================
