------------------------- MODULE MessageDeliveryProofs -------------------------
(***************************************************************************)
(* Theorems about MessageDelivery for any number of users, rooms,          *)
(* instances, threads, sessions and messages. PipelineConsistent is the    *)
(* inductive invariant.                                                    *)
(***************************************************************************)
EXTENDS MessageDelivery, TLAPS

\* Every step keeps the variables in their types.
LEMMA TypeStep ==
    ASSUME PipelineConsistent, [Next]_vars
    PROVE  TypeOK'
<1>0. TypeOK /\ RequestsConsistent
  BY DEF PipelineConsistent
<1>1. CASE UNCHANGED vars
  BY <1>0, <1>1 DEF TypeOK, vars
<1>2. CASE MembersMove
  <2>1. PICK r \in RoomIds, u \in Users :
            \/ MB!IsMember(r, u) /\ MB!Leave(r, u)
            \/ MB!Join(r, u)
    BY <1>2 DEF MembersMove
  <2>2. rooms' = rooms /\ grants' \subseteq MB!Grant
    BY <1>0, <2>1 DEF TypeOK, MB!Leave, MB!Join, MB!AsMember, MB!Grant, MB!MemberRole
  <2> QED
    BY <1>0, <1>2, <2>2 DEF TypeOK, MembersMove, requests, redis, broker
<1>3. ASSUME NEW q \in Requests, NEW u \in Users, NEW r \in RoomIds,
             BeginSend(q, u, r)
      PROVE  TypeOK'
  <2>1. Message(u, r, "CHAT_MESSAGE") \in Call
    BY MaxMsgsAssumption DEF Message, Call, EventType
  <2> QED
    BY <1>0, <1>3, <2>1 DEF TypeOK, BeginSend, database, redis, broker, Phases
<1>4. ASSUME NEW q \in Requests, NEW u \in Users, NEW r \in RoomIds,
             CreateRoom(q, u, r)
      PROVE  TypeOK'
  <2>1. Message(u, r, "SYSTEM_MESSAGE") \in Call
    BY MaxMsgsAssumption DEF Message, Call, EventType
  <2>2. rooms' \subseteq MB!Room /\ grants' \subseteq MB!Grant
    BY <1>0, <1>4 DEF TypeOK, CreateRoom, MB!Create, MB!Room, MB!RoomType,
                      MB!Grant, MB!MemberRole
  <2> QED
    BY <1>0, <1>4, <2>1, <2>2 DEF TypeOK, CreateRoom, redis, broker, Phases
<1>5. ASSUME NEW q \in Requests, BeginSystem(q)
      PROVE  TypeOK'
  <2>1. PICK c \in call[q], rm \in rooms :
            call' = [call EXCEPT ![q] = {[c EXCEPT !.sender =
                IF SystemUser \in Users THEN SystemUser ELSE rm.createdBy]}]
    BY <1>5 DEF BeginSystem
  <2>2. c \in Call /\ rm.createdBy \in Users
    BY <1>0, <2>1 DEF TypeOK, MB!Room
  <2>3. [c EXCEPT !.sender =
            IF SystemUser \in Users THEN SystemUser ELSE rm.createdBy] \in Call
    BY <2>2 DEF Call
  <2> QED
    BY <1>0, <1>5, <2>1, <2>3 DEF TypeOK, BeginSystem, database, redis, broker, Phases
<1>6. ASSUME NEW q \in Requests, SaveMessage(q)
      PROVE  TypeOK'
  <2>1. PICK c \in call[q] : row' = [row EXCEPT ![q] = {[c EXCEPT !.id = nextMsg]}]
    BY <1>6 DEF SaveMessage
  <2>2. [c EXCEPT !.id = nextMsg] \in Event
    BY <1>0, <1>6, <2>1 DEF TypeOK, SaveMessage, Call, Event
  <2> QED
    BY <1>0, <1>6, <2>1, <2>2 DEF TypeOK, SaveMessage, redis, broker, Phases
<1>7. ASSUME NEW q \in Requests, Publish(q)
      PROVE  TypeOK'
  BY <1>0, <1>7 DEF TypeOK, Publish, FanOut, database, broker, Phases
<1>8. ASSUME NEW q \in Requests, PublishFails(q)
      PROVE  TypeOK'
  BY <1>0, <1>8 DEF TypeOK, PublishFails, FanOut, Done, database, broker, Phases
<1>9. ASSUME NEW q \in Requests, CommitMessage(q)
      PROVE  TypeOK'
  BY <1>0, <1>9 DEF TypeOK, CommitMessage, Done, redis, broker, Phases
<1>10. ASSUME NEW u \in Users, NEW m \in stored, DeleteMessage(u, m)
       PROVE  TypeOK'
  <2>1. m.id \in MsgIds
    BY <1>0 DEF TypeOK, Event
  <2> QED
    BY <1>0, <1>10, <2>1 DEF TypeOK, DeleteMessage, requests, redis, broker
<1>12. ASSUME NEW q \in Requests, Rollback(q)
       PROVE  TypeOK'
  BY <1>0, <1>12 DEF TypeOK, Rollback, Done, database, redis, broker, Phases
<1>13. ASSUME NEW i \in Instances, NEW e \in inbox[i], Handle(i, e) \/ HandleFails(i, e)
       PROVE  TypeOK'
  <2>1. PICK ss : SendTo(ss, e)
    BY <1>13 DEF Handle, HandleFails
  <2> QED
    BY <1>0, <1>13, <2>1 DEF TypeOK, Handle, HandleFails, SendTo, database, requests
<1>14. ASSUME NEW i \in Instances, LinkDown(i) \/ LinkUp(i)
       PROVE  TypeOK'
  BY <1>0, <1>14 DEF TypeOK, LinkDown, LinkUp, database, requests, broker
<1>15. ASSUME NEW i \in Instances, Crash(i)
       PROVE  TypeOK'
  BY <1>0, <1>15 DEF TypeOK, Crash, database, Phases
<1>16. ASSUME NEW s \in Sessions, Connect(s) \/ Close(s)
       PROVE  TypeOK'
  BY <1>0, <1>16 DEF TypeOK, Connect, Close, database, requests, redis
<1>17. ASSUME NEW s \in Sessions, NEW r \in RoomIds, Subscribe(s, r) \/ Unsubscribe(s, r)
       PROVE  TypeOK'
  BY <1>0, <1>17 DEF TypeOK, Subscribe, Unsubscribe, database, requests, redis
<1>18. ASSUME NEW s \in Sessions, NEW e \in outbound[s], SendFrame(s, e)
       PROVE  TypeOK'
  BY <1>0, <1>18 DEF TypeOK, SendFrame, Event, database, requests, redis
<1> QED
  BY <1>1, <1>2, <1>3, <1>4, <1>5, <1>6, <1>7, <1>8, <1>9, <1>10, <1>12,
     <1>13, <1>14, <1>15, <1>16, <1>17, <1>18 DEF Next, Works, ListenerFails, Step

-------------------------------------------------------------------------------
(* The other parts of the invariant. A step either carries on with a       *)
(* request, moves an event, or leaves all of this alone.                   *)

\* The parts of the invariant that speak of events only.
EventsConsistent == IdsConsistent /\ FramesConsistent /\ AtMostOncePerSession

\* A step that takes nothing further, but may drop rows and frames.
LEMMA DroppingKeepsEvents ==
    ASSUME EventsConsistent,
           UNCHANGED <<published, stored, nextMsg, times>>,
           \A q \in Requests : row'[q] \subseteq row[q],
           \A i \in Instances : inbox'[i] \subseteq inbox[i],
           \A s \in Sessions : outbound'[s] \subseteq outbound[s]
    PROVE  EventsConsistent'
<1>1. IdsConsistent'
  BY DEF EventsConsistent, IdsConsistent
<1>2. FramesConsistent'
  BY HostAssumption DEF EventsConsistent, FramesConsistent
<1>3. AtMostOncePerSession'
  BY DEF EventsConsistent, AtMostOncePerSession
<1> QED
  BY <1>1, <1>2, <1>3 DEF EventsConsistent

\* The INSERT of a message keeps events consistent: its id is new.
LEMMA SaveKeepsEvents ==
    ASSUME PipelineConsistent, NEW q \in Requests, SaveMessage(q)
    PROVE  EventsConsistent'
<1>0. TypeOK /\ IdsConsistent /\ FramesConsistent /\ AtMostOncePerSession
  BY DEF PipelineConsistent
<1>1. PICK c \in call[q] : row' = [row EXCEPT ![q] = {[c EXCEPT !.id = nextMsg]}]
  BY DEF SaveMessage
<1>2. [c EXCEPT !.id = nextMsg].id = nextMsg
  BY <1>0, <1>1 DEF TypeOK, Call
<1>3. /\ \A e \in row'[q] : e.id = nextMsg
      /\ \A p \in Requests \ {q} : row'[p] = row[p]
      /\ nextMsg \in Nat /\ nextMsg' = nextMsg + 1
      /\ UNCHANGED <<published, stored, inbox, outbound, times>>
  BY <1>0, <1>1, <1>2 DEF TypeOK, SaveMessage, redis, broker
<1>4. /\ \A e \in published : e.id \in Nat
      /\ \A p \in Requests : \A e \in row[p] : e.id \in Nat
  BY <1>0 DEF TypeOK, Event, MsgIds
<1>5. IdsConsistent'
  <2>1. \A e \in published' : e.id < nextMsg'
    BY <1>0, <1>3, <1>4 DEF IdsConsistent
  <2>2. \A p \in Requests : \A e \in row'[p] : e.id < nextMsg'
    BY <1>0, <1>3, <1>4 DEF IdsConsistent
  <2>3. \A p, o \in Requests : p # o =>
            \A e \in row'[p], f \in row'[o] : e.id # f.id
    BY <1>0, <1>3, <1>4 DEF IdsConsistent
  <2> QED
    BY <1>0, <1>3, <2>1, <2>2, <2>3 DEF IdsConsistent
<1>6. FramesConsistent' /\ AtMostOncePerSession'
  BY <1>0, <1>3 DEF FramesConsistent, AtMostOncePerSession
<1> QED
  BY <1>5, <1>6 DEF EventsConsistent

\* An event leaves the request for Redis: its id is new to everybody.
LEMMA FanOutKeepsEvents ==
    ASSUME PipelineConsistent, NEW q \in Requests, pc[q] = "saved",
           FanOut(q, row[q]), UNCHANGED <<stored, nextMsg, outbound, times>>,
           \A p \in Requests : row'[p] \subseteq row[p]
    PROVE  EventsConsistent'
<1>0. /\ TypeOK /\ IdsConsistent /\ FramesConsistent /\ AtMostOncePerSession
      /\ RequestsConsistent
  BY DEF PipelineConsistent
<1>1. PICK e \in row[q] : row[q] = {e} /\ \A f \in published : e.id # f.id
  BY <1>0 DEF RequestsConsistent, RequestConsistent, CarriesOne
<1>2. /\ published' = published \cup {e}
      /\ \A i \in Instances : inbox'[i] \subseteq inbox[i] \cup {e}
  BY <1>1 DEF FanOut
<1>3. IdsConsistent'
  BY <1>0, <1>1, <1>2 DEF IdsConsistent
<1>4. \A s \in Sessions : times[s][e.id] = 0 /\ e \notin outbound[s]
  <2> TAKE s \in Sessions
  <2>1. e.id \in MsgIds /\ times[s][e.id] \in Nat
    BY <1>0, <1>1 DEF TypeOK, Event
  <2>2. ~(times[s][e.id] > 0)
    BY <1>0, <1>1, <2>1 DEF FramesConsistent
  <2> QED
    BY <1>0, <1>1, <2>1, <2>2 DEF FramesConsistent
<1>5. FramesConsistent'
  BY <1>0, <1>2, <1>4, HostAssumption DEF FramesConsistent
<1>6. AtMostOncePerSession'
  BY <1>0 DEF AtMostOncePerSession
<1> QED
  BY <1>3, <1>5, <1>6 DEF EventsConsistent

\* So does a commit, which stores what was published.
LEMMA CommitKeepsEvents ==
    ASSUME PipelineConsistent, NEW q \in Requests, CommitMessage(q)
    PROVE  EventsConsistent'
<1>0. /\ TypeOK /\ IdsConsistent /\ FramesConsistent /\ AtMostOncePerSession
      /\ RequestsConsistent
  BY DEF PipelineConsistent
<1>1. row[q] \subseteq published
  BY <1>0 DEF CommitMessage, RequestsConsistent, RequestConsistent
<1>2. /\ stored' = stored \cup row[q]
      /\ \A p \in Requests : row'[p] \subseteq row[p]
      /\ UNCHANGED <<published, nextMsg, inbox, outbound, times>>
  BY <1>0 DEF TypeOK, CommitMessage, Done, redis, broker
<1>3. IdsConsistent'
  BY <1>0, <1>1, <1>2 DEF IdsConsistent
<1> QED
  BY <1>0, <1>2, <1>3 DEF EventsConsistent, FramesConsistent, AtMostOncePerSession

\* The listener moves an event from the inbox to the frames, or loses it.
LEMMA HandleKeepsEvents ==
    ASSUME PipelineConsistent, NEW i \in Instances, NEW e \in inbox[i],
           Handle(i, e) \/ HandleFails(i, e)
    PROVE  EventsConsistent'
<1>0. TypeOK /\ IdsConsistent /\ FramesConsistent /\ AtMostOncePerSession
  BY DEF PipelineConsistent
<1>s. PICK ss \in SUBSET Listening(i, e) : SendTo(ss, e)
  BY DEF Handle, HandleFails
<1>1. /\ UNCHANGED <<published, stored, row, nextMsg, times>>
      /\ inbox'[i] = inbox[i] \ {e}
      /\ \A j \in Instances \ {i} : inbox'[j] = inbox[j]
      /\ \A s \in Sessions : /\ host[s] = i => outbound'[s] \subseteq outbound[s] \cup {e}
                             /\ host[s] # i => outbound'[s] = outbound[s]
  BY <1>0, <1>s DEF TypeOK, Handle, HandleFails, SendTo, Listening, database, requests
<1>2. FramesConsistent'
  BY <1>0, <1>1, HostAssumption DEF FramesConsistent
<1> QED
  BY <1>0, <1>1, <1>2 DEF EventsConsistent, IdsConsistent, AtMostOncePerSession

\* A frame arrives: it is gone from the pool and was the only one.
LEMMA SendFrameKeepsEvents ==
    ASSUME PipelineConsistent, NEW s \in Sessions, NEW e \in outbound[s],
           SendFrame(s, e)
    PROVE  EventsConsistent'
<1>0. TypeOK /\ IdsConsistent /\ FramesConsistent /\ AtMostOncePerSession
  BY DEF PipelineConsistent
<1>1. /\ UNCHANGED <<published, stored, row, nextMsg, inbox>>
      /\ outbound'[s] = outbound[s] \ {e}
      /\ \A t \in Sessions \ {s} : outbound'[t] = outbound[t] /\ times'[t] = times[t]
      /\ e.id \in MsgIds /\ times[s][e.id] = 0 /\ e \in published
  BY <1>0 DEF TypeOK, SendFrame, database, requests, redis, FramesConsistent, Event
<1>2. ASSUME NEW n \in MsgIds
      PROVE  times'[s][n] = IF n = e.id THEN 1 ELSE times[s][n]
  <2>1. times[s] \in [MsgIds -> Nat]
    BY <1>0 DEF TypeOK
  <2>2. times'[s] = [times[s] EXCEPT ![e.id] = times[s][e.id] + 1]
    BY <1>0 DEF TypeOK, SendFrame
  <2> QED
    BY <1>1, <2>1, <2>2
<1>3. AtMostOncePerSession'
  BY <1>0, <1>1, <1>2 DEF AtMostOncePerSession
<1>4. \A f \in outbound'[s] \cup inbox'[host[s]] : f.id # e.id /\ f \in published
  BY <1>0, <1>1, HostAssumption DEF FramesConsistent, IdsConsistent
<1>5. FramesConsistent'
  <2>1. \A j \in Instances : inbox'[j] \subseteq published'
    BY <1>0, <1>1 DEF FramesConsistent
  <2>2. ASSUME NEW t \in Sessions
        PROVE  /\ outbound'[t] \subseteq published' \ inbox'[host[t]]
               /\ \A f \in outbound'[t] \cup inbox'[host[t]] : times'[t][f.id] = 0
               /\ \A n \in MsgIds : times'[t][n] > 0 => \E f \in published' : f.id = n
    <3>1. CASE t = s
      <4>1. \A f \in published : f.id \in MsgIds
        BY <1>0 DEF TypeOK, Event
      <4>2. \A f \in outbound'[s] \cup inbox'[host[s]] : times'[s][f.id] = 0
        BY <1>0, <1>1, <1>2, <1>4, <4>1 DEF FramesConsistent
      <4>3. ASSUME NEW n \in MsgIds, times'[s][n] > 0
            PROVE  \E f \in published' : f.id = n
        BY <1>0, <1>1, <1>2, <4>3 DEF FramesConsistent
      <4>4. outbound'[s] \subseteq published' \ inbox'[host[s]]
        BY <1>0, <1>1 DEF FramesConsistent
      <4> QED
        BY <3>1, <4>2, <4>3, <4>4
    <3>2. CASE t # s
      BY <1>0, <1>1, <3>2 DEF FramesConsistent
    <3> QED BY <3>1, <3>2
  <2> QED
    BY <2>1, <2>2 DEF FramesConsistent
<1> QED
  BY <1>0, <1>1, <1>3, <1>5 DEF EventsConsistent, IdsConsistent

-------------------------------------------------------------------------------
(* The requests, one at a time.                                            *)

\* What the steps of one request, or of none, leave to the others.
LEMMA OthersStayConsistent ==
    ASSUME PipelineConsistent, NEW q \in Requests,
           published \subseteq published', stored \subseteq stored',
           \A e \in published' : e \in published \/ (pc[q] = "saved" /\ e \in row[q]),
           \A p \in Requests \ {q} :
                pc'[p] = pc[p] /\ call'[p] = call[p] /\ row'[p] = row[p],
           RequestConsistent(q)'
    PROVE  RequestsConsistent'
<1>0. IdsConsistent /\ RequestsConsistent
  BY DEF PipelineConsistent
<1>1. SUFFICES ASSUME NEW p \in Requests, p # q
               PROVE  RequestConsistent(p)'
  BY DEF RequestsConsistent
<1>2. RequestConsistent(p)
  BY <1>0 DEF RequestsConsistent
<1>3. \A e \in row[p], f \in row[q] : e.id # f.id
  BY <1>0, <1>1 DEF IdsConsistent
<1> QED
  BY <1>1, <1>2, <1>3 DEF RequestConsistent, CarriesOne

\* A request that is over carries nothing.
LEMMA DoneIsConsistent ==
    ASSUME PipelineConsistent, NEW q \in Requests, Done(q),
           published \subseteq published', stored \subseteq stored',
           \A e \in published' : e \in published \/ (pc[q] = "saved" /\ e \in row[q])
    PROVE  RequestsConsistent'
<1>0. TypeOK
  BY DEF PipelineConsistent
<1>1. RequestConsistent(q)'
  BY <1>0 DEF TypeOK, Done, RequestConsistent
<1>2. \A p \in Requests \ {q} :
          pc'[p] = pc[p] /\ call'[p] = call[p] /\ row'[p] = row[p]
  BY <1>0 DEF TypeOK, Done
<1> QED
  BY <1>1, <1>2, OthersStayConsistent

\* A step of no request.
LEMMA ElsewhereKeepsRequests ==
    ASSUME PipelineConsistent, UNCHANGED <<pc, call, row, published, stored>>
    PROVE  RequestsConsistent'
BY DEF PipelineConsistent, RequestsConsistent, RequestConsistent, CarriesOne

-------------------------------------------------------------------------------
(* Who the messages come from.                                             *)

\* A step that gives no request anything to carry; it may end requests.
LEMMA QuietKeepsSenders ==
    ASSUME PipelineConsistent,
           \A q \in Requests :
                /\ row'[q] \subseteq row[q]
                /\ row'[q] = {} \/ call'[q] = call[q]
                /\ pc'[q] = "roomMade" => pc'[q] = pc[q] /\ call'[q] = call[q]
    PROVE  SendersConsistent'
BY DEF PipelineConsistent, SendersConsistent

-------------------------------------------------------------------------------
(* Every action keeps the invariant.                                       *)

Others == RequestsConsistent /\ SendersConsistent

\* A request begins, or finds out the sender of its system message.
LEMMA BeginKeepsRest ==
    ASSUME PipelineConsistent, NEW q \in Requests,
           \/ \E u \in Users, r \in RoomIds : BeginSend(q, u, r) \/ CreateRoom(q, u, r)
           \/ BeginSystem(q)
    PROVE  EventsConsistent' /\ Others'
<1>0. /\ TypeOK /\ IdsConsistent /\ FramesConsistent /\ AtMostOncePerSession
      /\ RequestsConsistent /\ SendersConsistent
  BY DEF PipelineConsistent
<1>1. /\ UNCHANGED <<stored, nextMsg, row, published, inbox, linked, outbound, times>>
      /\ \A p \in Requests \ {q} : pc'[p] = pc[p] /\ call'[p] = call[p]
      /\ pc[q] \in {"idle", "roomMade"}
      /\ pc'[q] \in {"begun", "roomMade"}
  <2>1. CASE \E u \in Users, r \in RoomIds : BeginSend(q, u, r)
    BY <1>0, <2>1 DEF TypeOK, BeginSend, database, redis, broker
  <2>2. CASE \E u \in Users, r \in RoomIds : CreateRoom(q, u, r)
    BY <1>0, <2>2 DEF TypeOK, CreateRoom, redis, broker
  <2>3. CASE BeginSystem(q)
    BY <1>0, <2>3 DEF TypeOK, BeginSystem, database, redis, broker
  <2> QED
    BY <2>1, <2>2, <2>3
<1>2. EventsConsistent'
  BY <1>0, <1>1, DroppingKeepsEvents DEF EventsConsistent
<1>3. RequestConsistent(q)'
  BY <1>0, <1>1 DEF RequestsConsistent, RequestConsistent
<1>4. RequestsConsistent'
  BY <1>1, <1>3, OthersStayConsistent
<1>5. row'[q] = {}
  BY <1>0, <1>1 DEF RequestsConsistent, RequestConsistent
<1>6. pc'[q] = "roomMade" => \A c \in call'[q] : c.event = "SYSTEM_MESSAGE"
  <2>1. ASSUME NEW u \in Users, NEW r \in RoomIds, CreateRoom(q, u, r)
        PROVE  \A c \in call'[q] : c.event = "SYSTEM_MESSAGE"
    BY <1>0, <2>1 DEF TypeOK, CreateRoom, Message
  <2>2. ASSUME BeginSystem(q) \/ \E u \in Users, r \in RoomIds : BeginSend(q, u, r)
        PROVE  pc'[q] = "begun"
    BY <1>0, <2>2 DEF TypeOK, BeginSystem, BeginSend
  <2> QED
    BY <2>1, <2>2
<1>7. SendersConsistent'
  BY <1>0, <1>1, <1>5, <1>6 DEF SendersConsistent
<1> QED
  BY <1>2, <1>4, <1>7 DEF Others

\* A request goes on or ends.
LEMMA RequestKeepsRest ==
    ASSUME PipelineConsistent, NEW q \in Requests,
           \/ SaveMessage(q) \/ Publish(q) \/ PublishFails(q)
           \/ CommitMessage(q) \/ Rollback(q)
    PROVE  EventsConsistent' /\ Others'
<1>0. /\ TypeOK /\ IdsConsistent /\ FramesConsistent /\ AtMostOncePerSession
      /\ RequestsConsistent /\ SendersConsistent
  BY DEF PipelineConsistent
<1>1. RequestConsistent(q)
  BY <1>0 DEF RequestsConsistent
<1>2. CASE SaveMessage(q)
  <2>1. PICK c \in call[q] : row' = [row EXCEPT ![q] = {[c EXCEPT !.id = nextMsg]}]
    BY <1>2 DEF SaveMessage
  <2>e. PICK e : e = [c EXCEPT !.id = nextMsg]
    OBVIOUS
  <2>2. c \in Call
    BY <1>0, <2>1 DEF TypeOK
  <2>3. e.id = nextMsg /\ [e EXCEPT !.id = 0] = c
    BY <2>2, <2>e DEF Call
  <2>4. /\ UNCHANGED <<stored, published, call>>
        /\ row'[q] = {e} /\ pc'[q] = "saved"
        /\ \A p \in Requests \ {q} : pc'[p] = pc[p] /\ row'[p] = row[p]
    BY <1>0, <1>2, <2>1, <2>e DEF TypeOK, SaveMessage, redis
  <2>5. \A f \in published : e.id # f.id
    BY <1>0, <2>3 DEF TypeOK, IdsConsistent, Event, MsgIds
  <2>6. RequestConsistent(q)'
    BY <2>4, <2>5 DEF RequestConsistent, CarriesOne
  <2>7. RequestsConsistent'
    BY <2>4, <2>6, OthersStayConsistent
  <2>8. SendersConsistent'
    BY <1>0, <2>1, <2>3, <2>4 DEF SendersConsistent
  <2> QED
    BY <1>2, <2>7, <2>8, SaveKeepsEvents DEF Others
<1>3. CASE Publish(q)
  <2>1. /\ FanOut(q, row[q]) /\ published' = published \cup row[q]
        /\ UNCHANGED <<stored, nextMsg, call, row, outbound, times>>
        /\ pc[q] = "saved" /\ pc'[q] = "published"
        /\ \A p \in Requests \ {q} : pc'[p] = pc[p]
    BY <1>0, <1>3 DEF TypeOK, Publish, FanOut, database, broker
  <2>2. RequestConsistent(q)'
    BY <1>1, <2>1 DEF RequestConsistent, CarriesOne
  <2>3. RequestsConsistent'
    BY <2>1, <2>2, OthersStayConsistent
  <2>4. EventsConsistent'
    BY <2>1, FanOutKeepsEvents
  <2>5. SendersConsistent'
    BY <2>1, QuietKeepsSenders
  <2> QED
    BY <2>3, <2>4, <2>5 DEF Others
<1>4. CASE PublishFails(q)
  <2>1. /\ Done(q) /\ pc[q] = "saved"
        /\ FanOut(q, row[q]) \/ UNCHANGED <<published, inbox>>
        /\ published' \in {published, published \cup row[q]}
        /\ UNCHANGED <<stored, nextMsg, outbound, times>>
    BY <1>4 DEF PublishFails, FanOut, database, broker
  <2>2. \A p \in Requests :
            /\ row'[p] \subseteq row[p]
            /\ row'[p] = {} \/ call'[p] = call[p]
            /\ pc'[p] = "roomMade" => pc'[p] = pc[p] /\ call'[p] = call[p]
    BY <1>0, <2>1 DEF TypeOK, Done
  <2>3. EventsConsistent'
    <3>1. CASE FanOut(q, row[q])
      BY <2>1, <2>2, <3>1, FanOutKeepsEvents
    <3>2. CASE UNCHANGED <<published, inbox>>
      BY <1>0, <2>1, <2>2, <3>2, DroppingKeepsEvents DEF EventsConsistent
    <3> QED BY <2>1, <3>1, <3>2
  <2>4. RequestsConsistent'
    BY <2>1, DoneIsConsistent
  <2>5. SendersConsistent'
    BY <2>2, QuietKeepsSenders
  <2> QED
    BY <2>3, <2>4, <2>5 DEF Others
<1>5. CASE CommitMessage(q) \/ Rollback(q)
  <2>1. /\ Done(q) /\ stored \subseteq stored'
        /\ UNCHANGED <<nextMsg, published, inbox, outbound, times>>
        /\ CommitMessage(q) \/ UNCHANGED stored
    BY <1>5 DEF CommitMessage, Rollback, database, redis, broker
  <2>2. \A p \in Requests :
            /\ row'[p] \subseteq row[p]
            /\ row'[p] = {} \/ call'[p] = call[p]
            /\ pc'[p] = "roomMade" => pc'[p] = pc[p] /\ call'[p] = call[p]
    BY <1>0, <2>1 DEF TypeOK, Done
  <2>3. EventsConsistent'
    BY <1>0, <2>1, <2>2, CommitKeepsEvents, DroppingKeepsEvents DEF EventsConsistent
  <2>4. RequestsConsistent'
    BY <2>1, DoneIsConsistent
  <2>5. SendersConsistent'
    BY <2>2, QuietKeepsSenders
  <2> QED
    BY <2>3, <2>4, <2>5 DEF Others
<1> QED
  BY <1>2, <1>3, <1>4, <1>5

\* The empty pipeline is consistent.
LEMMA PipelineInit == Init => PipelineConsistent
<1> SUFFICES ASSUME Init PROVE PipelineConsistent
  OBVIOUS
<1>1. TypeOK
  BY DEF Init, MB!Init, TypeOK, Phases
<1>2. IdsConsistent /\ RequestsConsistent /\ SendersConsistent
  BY DEF Init, MB!Init, IdsConsistent, RequestsConsistent, RequestConsistent,
         SendersConsistent
<1>3. FramesConsistent /\ AtMostOncePerSession
  BY HostAssumption DEF Init, FramesConsistent, AtMostOncePerSession, Event
<1> QED
  BY <1>1, <1>2, <1>3 DEF PipelineConsistent

\* Every step keeps the pipeline consistent.
LEMMA PipelineStep == PipelineConsistent /\ [Next]_vars => PipelineConsistent'
<1> SUFFICES ASSUME PipelineConsistent, [Next]_vars PROVE PipelineConsistent'
  OBVIOUS
<1>0. /\ TypeOK /\ IdsConsistent /\ FramesConsistent /\ AtMostOncePerSession
      /\ RequestsConsistent /\ SendersConsistent
  BY DEF PipelineConsistent
<1>1. TypeOK'
  BY TypeStep
<1>2. ASSUME UNCHANGED <<pc, call, row, published, stored, nextMsg>>
      PROVE  RequestsConsistent' /\ SendersConsistent'
  BY <1>2, ElsewhereKeepsRequests, QuietKeepsSenders
<1>3. CASE UNCHANGED vars
  BY <1>0, <1>1, <1>2, <1>3, DroppingKeepsEvents DEF vars, PipelineConsistent, EventsConsistent
<1>4. CASE MembersMove \/ \E u \in Users, m \in stored : DeleteMessage(u, m)
  <2>1. UNCHANGED <<stored, nextMsg, pc, call, row, published, inbox, outbound, times>>
    BY <1>4 DEF MembersMove, DeleteMessage, requests, redis, broker
  <2>2. EventsConsistent'
    BY <1>0, <2>1, DroppingKeepsEvents DEF EventsConsistent
  <2> QED
    BY <1>1, <1>2, <2>1, <2>2 DEF PipelineConsistent, EventsConsistent
<1>5. ASSUME NEW q \in Requests,
             \/ \E u \in Users, r \in RoomIds : BeginSend(q, u, r) \/ CreateRoom(q, u, r)
             \/ Step(q) \/ PublishFails(q) \/ Rollback(q)
      PROVE  PipelineConsistent'
  <2>1. EventsConsistent' /\ Others'
    BY <1>5, BeginKeepsRest, RequestKeepsRest DEF Step
  <2> QED
    BY <1>1, <2>1 DEF PipelineConsistent, EventsConsistent, Others
<1>6. ASSUME NEW i \in Instances,
             \/ \E e \in inbox[i] : Handle(i, e) \/ HandleFails(i, e)
             \/ LinkDown(i) \/ LinkUp(i)
      PROVE  PipelineConsistent'
  <2>1. UNCHANGED <<pc, call, row, published, stored, nextMsg, times>>
    BY <1>6 DEF Handle, HandleFails, LinkDown, LinkUp, database, requests, broker
  <2>2. EventsConsistent'
    <3>1. CASE \E e \in inbox[i] : Handle(i, e) \/ HandleFails(i, e)
      BY <3>1, HandleKeepsEvents
    <3>2. CASE LinkDown(i) \/ LinkUp(i)
      <4>1. /\ UNCHANGED outbound
            /\ \A j \in Instances : inbox'[j] \subseteq inbox[j]
        BY <1>0, <3>2 DEF TypeOK, LinkDown, LinkUp, broker
      <4> QED
        BY <1>0, <2>1, <4>1, DroppingKeepsEvents DEF EventsConsistent
    <3> QED BY <1>6, <3>1, <3>2
  <2> QED
    BY <1>1, <1>2, <2>1, <2>2 DEF PipelineConsistent, EventsConsistent
<1>7. ASSUME NEW i \in Instances, Crash(i)
      PROVE  PipelineConsistent'
  <2>1. UNCHANGED <<published, stored, nextMsg, times>>
    BY <1>7 DEF Crash, database
  <2>2. /\ \A j \in Instances : inbox'[j] \subseteq inbox[j]
        /\ \A s \in Sessions : outbound'[s] \subseteq outbound[s]
    BY <1>0, <1>7 DEF TypeOK, Crash
  <2>3. \A q \in Requests :
            \/ pc'[q] = "idle" /\ row'[q] = {}
            \/ pc'[q] = pc[q] /\ call'[q] = call[q] /\ row'[q] = row[q]
    BY <1>7 DEF Crash
  <2>4. EventsConsistent'
    BY <1>0, <2>1, <2>2, <2>3, DroppingKeepsEvents DEF EventsConsistent
  <2>5. RequestsConsistent'
    BY <1>0, <2>1, <2>3 DEF RequestsConsistent, RequestConsistent, CarriesOne
  <2>6. SendersConsistent'
    BY <2>3, QuietKeepsSenders
  <2> QED
    BY <1>1, <2>4, <2>5, <2>6 DEF PipelineConsistent, EventsConsistent
<1>8. ASSUME NEW s \in Sessions,
             \/ Connect(s) \/ Close(s)
             \/ \E r \in RoomIds : Subscribe(s, r) \/ Unsubscribe(s, r)
             \/ \E e \in outbound[s] : SendFrame(s, e)
      PROVE  PipelineConsistent'
  <2>1. UNCHANGED <<pc, call, row, published, stored, nextMsg, inbox>>
    BY <1>8 DEF Connect, Close, Subscribe, Unsubscribe, SendFrame, database, requests, redis
  <2>2. EventsConsistent'
    <3>1. CASE \E e \in outbound[s] : SendFrame(s, e)
      BY <3>1, SendFrameKeepsEvents
    <3>2. CASE \/ Connect(s) \/ Close(s)
               \/ \E r \in RoomIds : Subscribe(s, r) \/ Unsubscribe(s, r)
      <4>1. UNCHANGED times /\ \A t \in Sessions : outbound'[t] \subseteq outbound[t]
        BY <1>0, <3>2 DEF TypeOK, Connect, Close, Subscribe, Unsubscribe
      <4> QED
        BY <1>0, <2>1, <4>1, DroppingKeepsEvents DEF EventsConsistent
    <3> QED BY <1>8, <3>1, <3>2
  <2> QED
    BY <1>1, <1>2, <2>1, <2>2 DEF PipelineConsistent, EventsConsistent
<1> QED
  BY <1>3, <1>4, <1>5, <1>6, <1>7, <1>8 DEF Next, Works, ListenerFails

-------------------------------------------------------------------------------
(* The theorems.                                                           *)

\* The pipeline keeps its invariant, for any numbers of threads and sessions.
THEOREM AlwaysConsistent == Spec => []PipelineConsistent
BY PipelineInit, PipelineStep, PTL DEF Spec

\* The variables keep their types.
THEOREM TypeCorrect == Spec => []TypeOK
BY AlwaysConsistent, PTL DEF PipelineConsistent

\* No session receives a message twice, whatever the instances, the Redis
\* connections and the threads of the broker do.
THEOREM NoDuplicateDelivery == Spec => []AtMostOncePerSession
BY AlwaysConsistent, PTL DEF PipelineConsistent

\* Who is silent in a room becomes no sender of a request and of no event, as
\* long as he is no member: a row is what its request was called to send, and a
\* request for a chat message begins with a member.
LEMMA SilenceStep ==
    ASSUME PipelineConsistent, [Next]_vars, NEW r \in RoomIds, NEW u \in Users,
           Silent(r, u), ~MB!IsMember(r, u)'
    PROVE  Silent(r, u)' /\ ~\E e \in published' \ published : Wrote(r, u, e)
<1>0. TypeOK /\ SendersConsistent
  BY DEF PipelineConsistent
<1>1. ASSUME NEW e \in published' \ published PROVE ~Wrote(r, u, e)
  <2>1. PICK q \in Requests : e \in row[q]
    BY <1>1 DEF Next, Works, ListenerFails, Step, vars, MembersMove, BeginSend, CreateRoom,
                BeginSystem, SaveMessage, Publish, PublishFails, FanOut, CommitMessage,
                DeleteMessage, Rollback, Handle, HandleFails, LinkDown, LinkUp, Crash,
                Connect, Subscribe, Unsubscribe, Close, SendFrame, requests, redis
  <2>2. [e EXCEPT !.id = 0] \in call[q] /\ e \in Event
    BY <1>0, <2>1 DEF TypeOK, SendersConsistent
  <2> QED
    BY <2>2 DEF Silent, Sending, Wrote, Event
<1>2. ASSUME NEW q \in Requests, NEW c \in call'[q]
      PROVE  ~(c.room = r /\ c.sender = u /\ c.event = "CHAT_MESSAGE")
  <2>1. CASE c \in call[q]
    BY <2>1 DEF Silent, Sending
  <2>2. CASE c \notin call[q]
    <3>1. \/ \E v \in Users, s \in RoomIds : BeginSend(q, v, s) \/ CreateRoom(q, v, s)
          \/ BeginSystem(q)
      <4>1. \/ \E p \in Requests :
                 \/ \E v \in Users, s \in RoomIds : BeginSend(p, v, s) \/ CreateRoom(p, v, s)
                 \/ BeginSystem(p) \/ Done(p)
            \/ \E i \in Instances : Crash(i)
            \/ UNCHANGED call
        BY DEF Next, Works, ListenerFails, Step, vars, MembersMove, SaveMessage, Publish,
               PublishFails, CommitMessage, DeleteMessage, Rollback, Handle, HandleFails,
               LinkDown, LinkUp, Connect, Subscribe, Unsubscribe, Close, SendFrame, requests
      <4>2. call'[q] # call[q] /\ call'[q] # {}
        BY <1>2, <2>2
      <4>3. ASSUME NEW p \in Requests, p # q
            PROVE  /\ Done(p) => call'[q] = call[q]
                   /\ BeginSystem(p) => call'[q] = call[q]
                   /\ \A v \in Users, s \in RoomIds :
                        BeginSend(p, v, s) \/ CreateRoom(p, v, s) => call'[q] = call[q]
        BY <1>0, <4>3 DEF TypeOK, Done, BeginSystem, BeginSend, CreateRoom
      <4>4. Done(q) => call'[q] = {}
        BY <1>0 DEF TypeOK, Done
      <4>5. \A i \in Instances : Crash(i) => call'[q] \in {{}, call[q]}
        BY DEF Crash
      <4> QED
        BY <4>1, <4>2, <4>3, <4>4, <4>5
    <3>2. ASSUME NEW v \in Users, NEW s \in RoomIds, BeginSend(q, v, s)
          PROVE  ~(c.room = r /\ c.sender = u)
      <4>1. c = Message(v, s, "CHAT_MESSAGE") /\ MB!IsMember(s, v)
        BY <1>0, <1>2, <3>2 DEF TypeOK, BeginSend
      <4> QED
        BY <4>1 DEF Message, Silent
    <3>3. ASSUME NEW v \in Users, NEW s \in RoomIds, CreateRoom(q, v, s)
          PROVE  c.event = "SYSTEM_MESSAGE"
      BY <1>0, <1>2, <3>3 DEF TypeOK, CreateRoom, Message
    <3>4. ASSUME BeginSystem(q)
          PROVE  c.event = "SYSTEM_MESSAGE"
      <4>1. PICK d \in call[q], rm \in rooms :
                call'[q] = {[d EXCEPT !.sender =
                    IF SystemUser \in Users THEN SystemUser ELSE rm.createdBy]}
        BY <1>0, <3>4 DEF TypeOK, BeginSystem
      <4>2. d \in Call /\ d.event = "SYSTEM_MESSAGE"
        BY <1>0, <3>4, <4>1 DEF TypeOK, BeginSystem, SendersConsistent
      <4> QED
        BY <1>2, <4>1, <4>2 DEF Call
    <3> QED
      BY <3>1, <3>2, <3>3, <3>4
  <2> QED BY <2>1, <2>2
<1> QED
  BY <1>1, <1>2 DEF Silent, Sending

\* Who has left a room falls silent in it: the check of sendMessage may be stale,
\* but no event is published on its strength after the requests that were under
\* way have ended.
THEOREM LeaversFallSilent == Spec => LeaverFallsSilent
<1>1. PipelineConsistent /\ [Next]_vars =>
          [\A r \in RoomIds, u \in Users :
              Silent(r, u) /\ ~MB!IsMember(r, u)' =>
                  /\ Silent(r, u)'
                  /\ ~\E e \in published' \ published : Wrote(r, u, e)]_vars
  BY SilenceStep
<1> QED
  BY <1>1, AlwaysConsistent, PTL DEF Spec, LeaverFallsSilent

\* What a step does to published, stored and times is a step of the feed.
LEMMA StepImplementsFeed ==
    PipelineConsistent /\ [Next]_vars => [Feed!Next]_Feed!feedVars
<1> SUFFICES ASSUME PipelineConsistent, [Next]_vars, ~ UNCHANGED <<published, stored, times>>
             PROVE  Feed!Next
  BY DEF Feed!feedVars
<1>0. TypeOK /\ IdsConsistent /\ FramesConsistent /\ RequestsConsistent
  BY DEF PipelineConsistent
<1>1. ASSUME NEW q \in Requests, Publish(q) \/ PublishFails(q)
      PROVE  Feed!Next
  <2>1. PICK e \in row[q] : row[q] = {e} /\ \A f \in published : f.id # e.id
    BY <1>0, <1>1 DEF Publish, PublishFails, RequestsConsistent, RequestConsistent, CarriesOne
  <2>2. published' = published \cup {e} /\ UNCHANGED <<stored, times>>
    BY <1>1, <2>1 DEF Publish, PublishFails, FanOut, database, broker
  <2>3. e \in Event
    BY <1>0 DEF TypeOK
  <2> QED
    BY <2>1, <2>2, <2>3 DEF Feed!Next, Feed!Publish
<1>2. ASSUME NEW q \in Requests, CommitMessage(q)
      PROVE  Feed!Next
  <2>1. PICK e \in row[q] : row[q] = {e} /\ e \in published
    BY <1>0, <1>2 DEF CommitMessage, RequestsConsistent, RequestConsistent, CarriesOne
  <2>2. stored' = stored \cup {e} /\ UNCHANGED <<published, times>>
    BY <1>2, <2>1 DEF CommitMessage, redis, broker
  <2>3. e \in Event
    BY <1>0 DEF TypeOK
  <2> QED
    BY <2>1, <2>2, <2>3 DEF Feed!Next, Feed!Store
<1>3. ASSUME NEW s \in Sessions, NEW e \in outbound[s], SendFrame(s, e)
      PROVE  Feed!Next
  <2>1. e \in published /\ e \in Event /\ times[s][e.id] = 0
    BY <1>0 DEF FramesConsistent, TypeOK
  <2>2. times[s][e.id] + 1 = 1
    BY <2>1
  <2>3. times' = [times EXCEPT ![s][e.id] = 1] /\ UNCHANGED <<published, stored>>
    BY <1>3, <2>2 DEF SendFrame, database, redis
  <2> QED
    BY <2>1, <2>3 DEF Feed!Next, Feed!Receive
<1>4. \/ \E q \in Requests : Publish(q) \/ PublishFails(q) \/ CommitMessage(q)
      \/ \E s \in Sessions : \E e \in outbound[s] : SendFrame(s, e)
  BY DEF Next, Works, ListenerFails, Step, vars, MembersMove, BeginSend, CreateRoom,
         BeginSystem, SaveMessage, DeleteMessage, Rollback, Handle, HandleFails, LinkDown,
         LinkUp, Crash, Connect, Subscribe, Unsubscribe, Close, database, requests, redis, broker
<1> QED
  BY <1>1, <1>2, <1>3, <1>4

\* The whole path from MessageService to the sockets implements RoomFeed.
THEOREM Refinement == Spec => ImplementsRoomFeed
<1>1. Init => Feed!Init
  BY DEF Init, Feed!Init
<1> QED
  BY <1>1, AlwaysConsistent, StepImplementsFeed, PTL DEF Spec, ImplementsRoomFeed, Feed!Spec

===============================================================================
