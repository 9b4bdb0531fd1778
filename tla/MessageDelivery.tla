---------------------------- MODULE MessageDelivery ----------------------------
(***************************************************************************)
(* A room message on its way: MessageService stores it in MySQL and hands  *)
(* it to Redis inside one transaction, Redis pushes it to every instance   *)
(* that is connected, RedisMessageSubscriber gives it to the simple broker *)
(* of the instance, and the broker to the sessions subscribed to the room. *)
(*                                                                         *)
(* Membership is the abstract module that ChatRoomService implements       *)
(* (theorem Refinement of RoomMembershipProofs); here users join and leave *)
(* public rooms while messages are sent.                                   *)
(*                                                                         *)
(* Nothing on the way keeps an order: the listener container runs every    *)
(* Redis message on a thread of its own, and the broker sends each frame   *)
(* from a thread of the outbound channel. Hence sets, not queues.          *)
(***************************************************************************)
EXTENDS Naturals, FiniteSets

CONSTANTS
    Users,      \* registered users
    SystemUser, \* the user with id 1, if there is one
    RoomIds,    \* ids chat_rooms may give out
    Instances,  \* backend instances
    Requests,   \* request threads
    home,       \* home[q]: the instance request thread q runs on
    Sessions,   \* STOMP sessions
    host,       \* host[s]: the instance session s is connected to
    MaxMsgs     \* bound on ids given out by messages.id

ASSUME HomeAssumption == home \in [Requests -> Instances]
ASSUME HostAssumption == host \in [Sessions -> Instances]
ASSUME MaxMsgsAssumption == MaxMsgs \in Nat

VARIABLES
    rooms,      \* chat_rooms, as in Membership
    grants,     \* chat_room_members, as in Membership
    stored,     \* committed rows of messages
    deleted,    \* ids of the rows with deleted_at set
    nextMsg,    \* AUTO_INCREMENT counter of messages
    pc,         \* where each request is
    call,       \* the message, without its id, that a request is to send
    row,        \* the row its open transaction inserted, if any
    published,  \* history: events Redis accepted
    inbox,      \* inbox[i]: Redis messages instance i has not handled yet
    linked,     \* instances with a live Redis subscription
    state,      \* of each session: new, open or closed
    subs,       \* subs[s]: rooms whose topic s is subscribed to
    outbound,   \* outbound[s]: frames of s the outbound pool has not sent yet
    times       \* history: times[s][n]: how often s received event n

database == <<rooms, grants, stored, deleted, nextMsg>>
requests == <<pc, call, row>>
redis == <<published, inbox, linked>>
broker == <<state, subs, outbound, times>>
vars == <<rooms, grants, stored, deleted, nextMsg, pc, call, row, published,
          inbox, linked, state, subs, outbound, times>>

MB == INSTANCE Membership WITH invited <- {}

MsgIds == 1..MaxMsgs
EventType == {"CHAT_MESSAGE", "SYSTEM_MESSAGE"}
Event == [id : MsgIds, room : RoomIds, sender : Users, event : EventType]
Phases == {"idle", "roomMade", "begun", "saved", "published"}

\* The message a request is to send, without its id.
Call == [id : {0}, room : RoomIds, sender : Users, event : EventType]

TypeOK ==
    /\ rooms \subseteq MB!Room /\ grants \subseteq MB!Grant
    /\ stored \subseteq Event /\ deleted \subseteq MsgIds
    /\ nextMsg \in Nat
    /\ pc \in [Requests -> Phases]
    /\ call \in [Requests -> SUBSET Call]
    /\ row \in [Requests -> SUBSET Event]
    /\ published \subseteq Event
    /\ inbox \in [Instances -> SUBSET Event]
    /\ linked \subseteq Instances
    /\ state \in [Sessions -> {"new", "open", "closed"}]
    /\ subs \in [Sessions -> SUBSET RoomIds]
    /\ outbound \in [Sessions -> SUBSET Event]
    /\ times \in [Sessions -> [MsgIds -> Nat]]

Init ==
    /\ MB!Init
    /\ stored = {} /\ deleted = {} /\ nextMsg = 1
    /\ pc = [q \in Requests |-> "idle"]
    /\ call = [q \in Requests |-> {}]
    /\ row = [q \in Requests |-> {}]
    /\ published = {}
    /\ inbox = [i \in Instances |-> {}]
    /\ linked = Instances
    /\ state = [s \in Sessions |-> "new"]
    /\ subs = [s \in Sessions |-> {}]
    /\ outbound = [s \in Sessions |-> {}]
    /\ times = [s \in Sessions |-> [n \in MsgIds |-> 0]]

-------------------------------------------------------------------------------
(* Requests.                                                               *)

\* The end of a request: its transaction is over, its thread is free.
Done(q) ==
    /\ pc' = [pc EXCEPT ![q] = "idle"]
    /\ call' = [call EXCEPT ![q] = {}]
    /\ row' = [row EXCEPT ![q] = {}]

Pending(q) == pc[q] # "idle"

\* Bound: every message on its way has an id left.
IdLeft == nextMsg + Cardinality({q \in Requests : pc[q] \in {"roomMade", "begun"}})
             <= MaxMsgs

Message(u, r, type) == [id |-> 0, room |-> r, sender |-> u, event |-> type]

\* sendMessage without its membership check.
BeginUnchecked(q, u, r) ==
    /\ pc[q] = "idle" /\ IdLeft
    /\ MB!RoomExists(r)
    /\ call' = [call EXCEPT ![q] = {Message(u, r, "CHAT_MESSAGE")}]
    /\ pc' = [pc EXCEPT ![q] = "begun"]
    /\ UNCHANGED <<database, row, redis, broker>>

\* sendMessage, over STOMP or REST, up to its checks; a refused call throws
\* before it changes anything, so it is no step here.
BeginSend(q, u, r) ==
    /\ pc[q] = "idle" /\ IdLeft
    /\ MB!IsMember(r, u)
    /\ MB!RoomExists(r)
    /\ call' = [call EXCEPT ![q] = {Message(u, r, "CHAT_MESSAGE")}]
    /\ pc' = [pc EXCEPT ![q] = "begun"]
    /\ UNCHANGED <<database, row, redis, broker>>

\* ChatRoomController.createRoom, first transaction: the room and its ADMIN.
CreateRoom(q, u, r) ==
    /\ pc[q] = "idle" /\ IdLeft
    /\ MB!Create([id |-> r, type |-> "PUBLIC", createdBy |-> u])
    /\ call' = [call EXCEPT ![q] = {Message(u, r, "SYSTEM_MESSAGE")}]
    /\ pc' = [pc EXCEPT ![q] = "roomMade"]
    /\ UNCHANGED <<stored, deleted, nextMsg, row, redis, broker>>

\* Second transaction, sendSystemMessage: the message is the system user's, or
\* the room creator's when there is no user 1. The room is committed by now.
BeginSystem(q) ==
    /\ pc[q] = "roomMade"
    /\ \E c \in call[q], rm \in rooms :
        /\ rm.id = c.room
        /\ call' = [call EXCEPT ![q] = {[c EXCEPT !.sender =
                IF SystemUser \in Users THEN SystemUser ELSE rm.createdBy]}]
    /\ pc' = [pc EXCEPT ![q] = "begun"]
    /\ UNCHANGED <<database, row, redis, broker>>

\* A counter that a restart sets back to the largest committed id.
SaveMessageReusingId(q) ==
    /\ pc[q] = "begun"
    /\ \E c \in call[q], n \in MsgIds :
        /\ \A e \in stored : e.id < n
        /\ row' = [row EXCEPT ![q] = {[c EXCEPT !.id = n]}]
    /\ nextMsg' = nextMsg + 1
    /\ pc' = [pc EXCEPT ![q] = "saved"]
    /\ UNCHANGED <<rooms, grants, stored, deleted, call, redis, broker>>

\* messageRepository.save: an immediate INSERT, the id is the database's.
SaveMessage(q) ==
    /\ pc[q] = "begun" /\ nextMsg \in MsgIds
    /\ \E c \in call[q] : row' = [row EXCEPT ![q] = {[c EXCEPT !.id = nextMsg]}]
    /\ nextMsg' = nextMsg + 1
    /\ pc' = [pc EXCEPT ![q] = "saved"]
    /\ UNCHANGED <<rooms, grants, stored, deleted, call, redis, broker>>

\* The event reaches only the instance it is sent from.
FanOutHere(q, es) ==
    /\ published' = published \cup es
    /\ inbox' = [i \in Instances |->
                    IF i = home[q] THEN inbox[i] \cup es ELSE inbox[i]]

\* Redis accepts the events and pushes them to every connected instance.
FanOut(q, es) ==
    /\ published' = published \cup es
    /\ inbox' = [i \in Instances |->
                    IF i \in linked THEN inbox[i] \cup es ELSE inbox[i]]

\* convertAndSend, the last statement of the transactional method.
Publish(q) ==
    /\ pc[q] = "saved"
    /\ pc' = [pc EXCEPT ![q] = "published"]
    /\ FanOut(q, row[q])
    /\ UNCHANGED <<linked, database, call, row, broker>>

\* convertAndSend throws, before or after Redis took the event (a timeout): the
\* exception leaves the method and rolls the INSERT back.
PublishFails(q) ==
    /\ pc[q] = "saved"
    /\ FanOut(q, row[q]) \/ UNCHANGED <<published, inbox>>
    /\ Done(q)
    /\ UNCHANGED <<linked, database, broker>>

CommitMessage(q) ==
    /\ pc[q] = "published"
    /\ stored' = stored \cup row[q]
    /\ Done(q)
    /\ UNCHANGED <<rooms, grants, deleted, nextMsg, redis, broker>>

\* deleteMessage: only the sender, whether still a member or not. Nothing it
\* tests can change before its commit, so that it is one step.
DeleteMessage(u, m) ==
    /\ m \in stored /\ m.sender = u /\ m.id \notin deleted
    /\ deleted' = deleted \cup {m.id}
    /\ UNCHANGED <<rooms, grants, stored, nextMsg, requests, redis, broker>>

\* The database fails a request at one of its statements or at the commit. A
\* saved message has the publication next, which is no statement.
Rollback(q) ==
    /\ Pending(q) /\ pc[q] # "saved"
    /\ Done(q)
    /\ UNCHANGED <<database, redis, broker>>

Step(q) ==
    BeginSystem(q) \/ SaveMessage(q) \/ Publish(q) \/ CommitMessage(q)

-------------------------------------------------------------------------------
(* Instances and their Redis connections.                                  *)

\* The sessions of an instance that are subscribed to /topic/rooms/{roomId} now.
Listening(i, e) ==
    {s \in Sessions : host[s] = i /\ state[s] = "open" /\ e.room \in subs[s]}

\* The broker puts a frame of the event into the outbound channel for each.
SendTo(ss, e) ==
    outbound' = [s \in Sessions |->
                    IF s \in ss THEN outbound[s] \cup {e} ELSE outbound[s]]

\* onMessage before it takes the message off: the listener retries.
HandleAgain(i, e) ==
    /\ e \in inbox[i]
    /\ \/ inbox' = [inbox EXCEPT ![i] = @ \ {e}]
       \/ UNCHANGED inbox
    /\ SendTo(Listening(i, e), e)
    /\ UNCHANGED <<database, requests, published, linked, state, subs, times>>

\* RedisMessageSubscriber.onMessage: convertAndSend reaches every session that
\* listens.
Handle(i, e) ==
    /\ e \in inbox[i]
    /\ inbox' = [inbox EXCEPT ![i] = @ \ {e}]
    /\ SendTo(Listening(i, e), e)
    /\ UNCHANGED <<database, requests, published, linked, state, subs, times>>

\* onMessage catches an exception of readValue or of convertAndSend, logs it and
\* returns: whoever has no frame of the event by then gets none.
HandleFails(i, e) ==
    /\ e \in inbox[i]
    /\ inbox' = [inbox EXCEPT ![i] = @ \ {e}]
    /\ \E reached \in SUBSET Listening(i, e) : SendTo(reached, e)
    /\ UNCHANGED <<database, requests, published, linked, state, subs, times>>

\* The instance loses its subscription to chat:messages, and with the connection
\* what it has not read from it: Redis keeps nothing for the instance until the
\* listener container has subscribed again.
LinkDown(i) ==
    /\ i \in linked
    /\ linked' = linked \ {i}
    /\ \E unread \in SUBSET inbox[i] : inbox' = [inbox EXCEPT ![i] = @ \ unread]
    /\ UNCHANGED <<database, requests, published, broker>>
LinkUp(i) ==
    /\ i \notin linked
    /\ linked' = linked \cup {i}
    /\ UNCHANGED <<database, requests, published, inbox, broker>>

\* The process dies: its transactions roll back, its sessions close, the
\* messages it had not handled are gone. LinkUp is its restart.
Crash(i) ==
    /\ pc' = [q \in Requests |-> IF home[q] = i THEN "idle" ELSE pc[q]]
    /\ call' = [q \in Requests |-> IF home[q] = i THEN {} ELSE call[q]]
    /\ row' = [q \in Requests |-> IF home[q] = i THEN {} ELSE row[q]]
    /\ inbox' = [inbox EXCEPT ![i] = {}]
    /\ linked' = linked \ {i}
    /\ state' = [s \in Sessions |-> IF host[s] = i THEN "closed" ELSE state[s]]
    /\ subs' = [s \in Sessions |-> IF host[s] = i THEN {} ELSE subs[s]]
    /\ outbound' = [s \in Sessions |-> IF host[s] = i THEN {} ELSE outbound[s]]
    /\ UNCHANGED <<database, published, times>>

-------------------------------------------------------------------------------
(* Sessions of the simple broker. A client that reconnects is another one. *)

Connect(s) ==
    /\ state[s] = "new"
    /\ state' = [state EXCEPT ![s] = "open"]
    /\ UNCHANGED <<database, requests, redis, subs, outbound, times>>

\* One subscription of a session for each topic, which the page keeps to
\* (OneSubscription of WebClientRoom). The broker would take a second one and
\* send a frame for each.
Subscribe(s, r) ==
    /\ state[s] = "open" /\ r \notin subs[s]
    /\ subs' = [subs EXCEPT ![s] = @ \cup {r}]
    /\ UNCHANGED <<database, requests, redis, state, outbound, times>>

Unsubscribe(s, r) ==
    /\ r \in subs[s]
    /\ subs' = [subs EXCEPT ![s] = @ \ {r}]
    /\ UNCHANGED <<database, requests, redis, state, outbound, times>>

\* A thread that keeps the frame it has written, to try again.
SendAgain(s, e) ==
    /\ e \in outbound[s]
    /\ \/ outbound' = [outbound EXCEPT ![s] = @ \ {e}]
       \/ times[s][e.id] = 0 /\ UNCHANGED outbound
    /\ times' = [times EXCEPT ![s][e.id] = @ + 1]
    /\ UNCHANGED <<database, requests, redis, state, subs>>

\* One thread of the outbound pool writes one frame to the socket.
SendFrame(s, e) ==
    /\ e \in outbound[s]
    /\ outbound' = [outbound EXCEPT ![s] = @ \ {e}]
    /\ times' = [times EXCEPT ![s][e.id] = @ + 1]
    /\ UNCHANGED <<database, requests, redis, state, subs>>

Close(s) ==
    /\ state[s] = "open"
    /\ state' = [state EXCEPT ![s] = "closed"]
    /\ subs' = [subs EXCEPT ![s] = {}]
    /\ outbound' = [outbound EXCEPT ![s] = {}]
    /\ UNCHANGED <<database, requests, redis, times>>

-------------------------------------------------------------------------------
\* Users join and leave rooms meanwhile.
MembersMove ==
    /\ \E r \in RoomIds, u \in Users :
        \/ MB!IsMember(r, u) /\ MB!Leave(r, u)
        \/ MB!Join(r, u)
    /\ UNCHANGED <<stored, deleted, nextMsg, requests, redis, broker>>

\* Every step but a failing listener's.
Works ==
    \/ MembersMove
    \/ \E u \in Users, m \in stored : DeleteMessage(u, m)
    \/ \E q \in Requests :
        \/ \E u \in Users, r \in RoomIds : BeginSend(q, u, r) \/ CreateRoom(q, u, r)
        \/ Step(q) \/ PublishFails(q) \/ Rollback(q)
    \/ \E i \in Instances :
        \/ \E e \in inbox[i] : Handle(i, e)
        \/ LinkDown(i) \/ LinkUp(i) \/ Crash(i)
    \/ \E s \in Sessions :
        \/ Connect(s) \/ Close(s)
        \/ \E r \in RoomIds : Subscribe(s, r) \/ Unsubscribe(s, r)
        \/ \E e \in outbound[s] : SendFrame(s, e)

ListenerFails == \E i \in Instances : \E e \in inbox[i] : HandleFails(i, e)

Next == Works \/ ListenerFails

Spec == Init /\ [][Next]_vars

\* Threads run: a request goes on, the listener container of an instance handles
\* what it has got, the outbound pool sends what it holds. Nothing obliges
\* anybody to connect, to reconnect or to send.
Fairness ==
    /\ \A q \in Requests : WF_vars(Step(q))
    /\ \A i \in Instances : WF_vars(\E e \in inbox[i] : Handle(i, e))
    /\ \A s \in Sessions : WF_vars(\E e \in outbound[s] : SendFrame(s, e))

FairSpec == Spec /\ Fairness

-------------------------------------------------------------------------------
(* What must hold.                                                         *)

\* A session receives no message twice, although each instance hears of every
\* message and nothing on the way remembers what it has delivered.
AtMostOncePerSession == \A s \in Sessions, n \in MsgIds : times[s][n] <= 1

\* Who has left a room falls silent in it: the check in sendMessage may be stale
\* when the message is published, but no longer than until the requests that
\* were under way have ended.
Sending(r, u) ==
    \E q \in Requests : \E c \in call[q] :
        c.room = r /\ c.sender = u /\ c.event = "CHAT_MESSAGE"
Wrote(r, u, e) == e.room = r /\ e.sender = u /\ e.event = "CHAT_MESSAGE"
Silent(r, u) == ~MB!IsMember(r, u) /\ ~Sending(r, u)

LeaverFallsSilent ==
    [][\A r \in RoomIds, u \in Users :
        Silent(r, u) /\ ~MB!IsMember(r, u)' =>
            /\ Silent(r, u)'
            /\ ~\E e \in published' \ published : Wrote(r, u, e)]_vars

\* What the stages of the pipeline owe each other, which makes the properties
\* above inductive.

\* An event's id is its own, and is not given out again.
IdsConsistent ==
    /\ \A e \in published : e.id < nextMsg
    /\ \A e, f \in published : e.id = f.id => e = f
    /\ stored \subseteq published
    /\ \A q \in Requests : \A e \in row[q] : e.id < nextMsg
    /\ \A p, q \in Requests : p # q =>
        \A e \in row[p], f \in row[q] : e.id # f.id

\* What each request carries, by its phase.
CarriesOne(q) == \E e \in row[q] : row[q] = {e}
RequestConsistent(q) ==
    \/ pc[q] \in {"idle", "roomMade", "begun"} /\ row[q] = {}
    \/ /\ pc[q] = "saved" /\ CarriesOne(q)
       /\ \A e \in row[q], f \in published : e.id # f.id
    \/ pc[q] = "published" /\ CarriesOne(q) /\ row[q] \subseteq published
RequestsConsistent == \A q \in Requests : RequestConsistent(q)

\* An event on its way to a session is in one place and has not arrived yet.
FramesConsistent ==
    /\ \A i \in Instances : inbox[i] \subseteq published
    /\ \A s \in Sessions :
        /\ outbound[s] \subseteq published \ inbox[host[s]]
        /\ \A e \in outbound[s] \cup inbox[host[s]] : times[s][e.id] = 0
        /\ \A n \in MsgIds : times[s][n] > 0 => \E e \in published : e.id = n

\* A row is the message that its request was called to send.
SendersConsistent ==
    \A q \in Requests :
        /\ pc[q] = "roomMade" => \A c \in call[q] : c.event = "SYSTEM_MESSAGE"
        /\ \A e \in row[q] : [e EXCEPT !.id = 0] \in call[q]

PipelineConsistent ==
    /\ TypeOK
    /\ IdsConsistent
    /\ RequestsConsistent
    /\ FramesConsistent
    /\ SendersConsistent
    /\ AtMostOncePerSession

\* The pipeline keeps the promise of RoomFeed: what history stores has been
\* published, what a session receives has been published and comes once. The
\* first of these is what the code does and not what its documents say, which
\* have a message stored that Redis refuses (RedisFailureKeepsMessage).
Feed == INSTANCE RoomFeed WITH Ids <- MsgIds, Events <- Event
ImplementsRoomFeed == Feed!Spec

\* The send flow in the Javadoc of MessageService, first MySQL, then Redis: a
\* message that a session has received is stored, or its transaction is still to
\* commit.
ReceivedIsStored ==
    \A s \in Sessions : \A e \in published : times[s][e.id] > 0 =>
        e \in stored \/ \E q \in Requests : e \in row[q]

\* The transaction note in the same Javadoc and the table of failures in
\* FLOW-MSG.md: when Redis fails, the message is persisted all the same.
RedisFailureKeepsMessage ==
    [][\A q \in Requests : PublishFails(q) => row[q] \subseteq stored']_vars

===============================================================================
