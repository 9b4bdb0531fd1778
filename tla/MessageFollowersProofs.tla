------------------------ MODULE MessageFollowersProofs ------------------------
(***************************************************************************)
(* Nothing is lost on the way from Redis to a listening session, for any   *)
(* number of instances, sessions, threads and messages. The invariant is   *)
(* DueConsistent beside the PipelineConsistent of MessageDeliveryProofs,   *)
(* which says in which places an event may be at all.                      *)
(***************************************************************************)
EXTENDS MessageFollowers, MessageDeliveryProofs

\* The history variable adds no behaviour.
THEOREM SamePipeline == FollowSpec => Spec
<1>1. FollowInit => Init
  BY DEF FollowInit
<1>2. [FollowNext]_followVars => [Next]_vars
  BY DEF FollowNext, followVars, Next, ListenerFails
<1> QED
  BY <1>1, <1>2, PTL DEF FollowSpec, Spec

\* What Redis takes at a step is the row of a saved request, fanned out; the
\* rest of the pipeline stands still then.
LEMMA TakenIsFannedOut ==
    ASSUME Next, published' # published
    PROVE  \E q \in Requests : FanOut(q, row[q])
BY DEF Next, Works, ListenerFails, Step, MembersMove, BeginSend, CreateRoom, BeginSystem,
       SaveMessage, Publish, PublishFails, CommitMessage, DeleteMessage, Rollback, Handle,
       HandleFails, LinkDown, LinkUp, Crash, Connect, Subscribe, Unsubscribe, Close,
       SendFrame, requests, redis

\* An event just taken is in the inbox of every session that follows it.
LEMMA OwedNowIsComing ==
    ASSUME Next, NEW d \in OwedNow
    PROVE  (Coming(d[1], d[2]))'
<1>1. /\ d[1] \in Sessions /\ d[2] \in published' /\ d[2] \notin published
      /\ host[d[1]] \in linked /\ host[d[1]] \in Instances
  BY HostAssumption DEF OwedNow, Follows
<1>2. PICK q \in Requests : FanOut(q, row[q])
  BY <1>1, TakenIsFannedOut
<1>3. d[2] \in inbox'[host[d[1]]]
  BY <1>1, <1>2 DEF FanOut
<1> QED
  BY <1>3 DEF Coming

\* A step of a request leaves every event where it is.
LEMMA RequestsLoseNothing ==
    ASSUME PipelineConsistent, NEW q \in Requests,
           \/ \E u \in Users, r \in RoomIds : BeginSend(q, u, r) \/ CreateRoom(q, u, r)
           \/ Step(q) \/ PublishFails(q) \/ Rollback(q)
    PROVE  /\ \A i \in Instances : inbox[i] \subseteq inbox'[i]
           /\ UNCHANGED <<outbound, times>>
<1>1. CASE Publish(q) \/ PublishFails(q)
  BY <1>1 DEF Publish, PublishFails, FanOut, broker
<1>2. CASE ~(Publish(q) \/ PublishFails(q))
  BY <1>2 DEF Step, BeginSend, CreateRoom, BeginSystem, SaveMessage, CommitMessage,
              Rollback, redis, broker
<1> QED
  BY <1>1, <1>2

\* A step that works moves what a session is owed along, or ends the debt.
LEMMA OwedGoesOn ==
    ASSUME PipelineConsistent, Works,
           NEW s \in Sessions, NEW e \in published,
           Listens(s, e), Coming(s, e) \/ Arrived(s, e), StillOwed(s, e)
    PROVE  (Coming(s, e) \/ Arrived(s, e))'
<1>0. /\ TypeOK /\ IdsConsistent /\ FramesConsistent /\ host[s] \in Instances
      /\ e.id \in MsgIds
  BY HostAssumption DEF PipelineConsistent, TypeOK, Event
<1> USE DEF Coming, Arrived
<1>1. ASSUME /\ e \in inbox[host[s]] => e \in inbox'[host[s]]
             /\ UNCHANGED <<outbound, times>>
      PROVE  (Coming(s, e) \/ Arrived(s, e))'
  BY <1>1
<1>2. CASE MembersMove \/ \E u \in Users, m \in stored : DeleteMessage(u, m)
  BY <1>1, <1>2 DEF MembersMove, DeleteMessage, redis, broker
<1>3. CASE \E q \in Requests :
               \/ \E u \in Users, r \in RoomIds :
                      BeginSend(q, u, r) \/ CreateRoom(q, u, r)
               \/ Step(q) \/ PublishFails(q) \/ Rollback(q)
  BY <1>0, <1>1, <1>3, RequestsLoseNothing
<1>4. ASSUME NEW i \in Instances, NEW f \in inbox[i], Handle(i, f)
      PROVE  (Coming(s, e) \/ Arrived(s, e))'
  <2>1. /\ e \in outbound[s] => e \in outbound'[s]
        /\ host[s] = i /\ e = f => e \in outbound'[s]
    BY <1>4 DEF Handle, SendTo, Listening, Listens
  <2>2. ~(host[s] = i /\ e = f) /\ e \in inbox[host[s]] => e \in inbox'[host[s]]
    BY <1>0, <1>4 DEF TypeOK, Handle
  <2> QED
    BY <1>4, <2>1, <2>2 DEF Handle
<1>5. ASSUME NEW i \in Instances, LinkDown(i)
      PROVE  (Coming(s, e) \/ Arrived(s, e))'
  <2>1. e \in inbox[host[s]] => host[s] # i
    BY <1>5 DEF LinkDown, StillOwed
  <2> QED
    BY <1>0, <1>1, <1>5, <2>1 DEF TypeOK, LinkDown, broker
<1>6. ASSUME NEW i \in Instances, LinkUp(i)
      PROVE  (Coming(s, e) \/ Arrived(s, e))'
  BY <1>1, <1>6 DEF LinkUp, broker
<1>7. ASSUME NEW i \in Instances, Crash(i)
      PROVE  (Coming(s, e) \/ Arrived(s, e))'
  <2>1. host[s] # i
    BY <1>7 DEF Crash, StillOwed, Listens
  <2> QED
    BY <1>0, <1>7, <2>1 DEF TypeOK, Crash
<1>8. ASSUME NEW t \in Sessions,
             Connect(t) \/ \E r \in RoomIds : Subscribe(t, r) \/ Unsubscribe(t, r)
      PROVE  (Coming(s, e) \/ Arrived(s, e))'
  BY <1>1, <1>8 DEF Connect, Subscribe, Unsubscribe, redis
<1>9. ASSUME NEW t \in Sessions, Close(t)
      PROVE  (Coming(s, e) \/ Arrived(s, e))'
  <2>1. t # s
    BY <1>0, <1>9 DEF TypeOK, Close, StillOwed, Listens
  <2> QED
    BY <1>0, <1>9, <2>1 DEF TypeOK, Close, redis
<1>10. ASSUME NEW t \in Sessions, NEW f \in outbound[t], SendFrame(t, f)
       PROVE  (Coming(s, e) \/ Arrived(s, e))'
  <2>1. f \in published /\ f.id \in MsgIds /\ times[t][f.id] = 0
    BY <1>0 DEF FramesConsistent, TypeOK, Event
  <2>2. /\ UNCHANGED inbox
        /\ outbound' = [outbound EXCEPT ![t] = @ \ {f}]
        /\ times' = [times EXCEPT ![t][f.id] = @ + 1]
    BY <1>10 DEF SendFrame, redis
  <2>3. CASE t = s /\ f = e
    <3>1. times[s] \in [MsgIds -> Nat]
      BY <1>0 DEF TypeOK
    <3>2. times'[s] = [times[s] EXCEPT ![e.id] = times[s][e.id] + 1]
      BY <1>0, <2>2, <2>3 DEF TypeOK
    <3> QED
      BY <1>0, <2>1, <2>3, <3>1, <3>2
  <2>4. CASE t = s /\ f # e
    <3>1. f.id # e.id
      BY <1>0, <2>1, <2>4 DEF IdsConsistent
    <3>2. times'[s][e.id] = times[s][e.id]
      BY <1>0, <2>1, <2>2, <2>4, <3>1 DEF TypeOK
    <3> QED
      BY <1>0, <2>2, <2>4, <3>2 DEF TypeOK
  <2>5. CASE t # s
    BY <1>0, <2>2, <2>5 DEF TypeOK
  <2> QED
    BY <2>3, <2>4, <2>5
<1> QED
  BY <1>2, <1>3, <1>4, <1>5, <1>6, <1>7, <1>8, <1>9, <1>10 DEF Works

\* A listener that fails with an event leaves every other event where it is, and
\* this one in the pool of those whom it has reached.
LEMMA FailingMissesOne ==
    ASSUME PipelineConsistent, NEW i \in Instances, NEW f \in inbox[i],
           HandleFails(i, f), NEW s \in Sessions, NEW e,
           Coming(s, e) \/ Arrived(s, e),
           ~(host[s] = i /\ e = f /\ e \notin outbound'[s])
    PROVE  (Coming(s, e) \/ Arrived(s, e))'
<1>0. TypeOK /\ host[s] \in Instances
  BY HostAssumption DEF PipelineConsistent
<1>1. UNCHANGED times /\ outbound[s] \subseteq outbound'[s]
  BY DEF HandleFails, SendTo
<1>2. e \in inbox[host[s]] => e \in inbox'[host[s]] \/ e \in outbound'[s]
  BY <1>0 DEF TypeOK, HandleFails
<1> QED
  BY <1>1, <1>2 DEF Coming, Arrived

\* One step keeps the debts in their places.
LEMMA DueStep ==
    PipelineConsistent /\ DueConsistent /\ [FollowNext]_followVars => DueConsistent'
<1> SUFFICES ASSUME PipelineConsistent, DueConsistent, [FollowNext]_followVars
             PROVE  DueConsistent'
  OBVIOUS
<1>1. CASE UNCHANGED followVars
  BY <1>1 DEF DueConsistent, NothingLost, Listens, Coming, Arrived, followVars, vars
<1>2. CASE FollowNext
  <2>1. published \subseteq published'
    BY <1>2 DEF FollowNext, Works, Step, MembersMove, BeginSend, CreateRoom, BeginSystem,
                SaveMessage, Publish, PublishFails, FanOut, CommitMessage, DeleteMessage,
                Rollback, Handle, HandleFails, LinkDown, LinkUp, Crash, Connect,
                Subscribe, Unsubscribe, Close, SendFrame, requests, redis
  <2>2. ASSUME NEW d \in due'
        PROVE  /\ d \in Sessions \X published'
               /\ Listens(d[1], d[2])'
               /\ (Coming(d[1], d[2]) \/ Arrived(d[1], d[2]))'
    <3>1. d \in due \cup OwedNow /\ StillOwed(d[1], d[2])
      BY <1>2 DEF FollowNext, Owed
    <3>2. Listens(d[1], d[2])'
      BY <3>1 DEF StillOwed
    <3>3. CASE d \in due
      <4>1. /\ d \in Sessions \X published /\ Listens(d[1], d[2])
            /\ Coming(d[1], d[2]) \/ Arrived(d[1], d[2])
        BY <3>3 DEF DueConsistent, NothingLost
      <4>2. d[1] \in Sessions /\ d[2] \in published
        BY <4>1
      <4>3. (Coming(d[1], d[2]) \/ Arrived(d[1], d[2]))'
        <5>1. CASE Works
          BY <3>1, <4>1, <4>2, <5>1, OwedGoesOn
        <5>2. ASSUME NEW i \in Instances, NEW f \in inbox[i],
                     HandleFails(i, f), due' = Owed \ MissedBy(i, f)
              PROVE  (Coming(d[1], d[2]) \/ Arrived(d[1], d[2]))'
          <6>1. ~(host[d[1]] = i /\ d[2] = f /\ d[2] \notin outbound'[d[1]])
            BY <3>3, <5>2 DEF MissedBy
          <6> QED
            BY <4>1, <4>2, <5>2, <6>1, FailingMissesOne
        <5> QED
          BY <1>2, <5>1, <5>2 DEF FollowNext
      <4> QED
        BY <2>1, <3>2, <4>1, <4>3
    <3>4. CASE d \in OwedNow
      <4>1. Next /\ d \in Sessions \X published'
        BY <1>2, <3>4 DEF FollowNext, Next, ListenerFails, OwedNow
      <4> QED
        BY <3>2, <3>4, <4>1, OwedNowIsComing
    <3> QED
      BY <3>1, <3>3, <3>4
  <2> QED
    BY <2>2 DEF DueConsistent, NothingLost
<1> QED
  BY <1>1, <1>2

\* What a session follows when Redis takes it waits for the session or has been
\* sent to it, however many instances, threads and sessions there are, whichever
\* requests fail after Redis took the event and whichever other instances crash:
\* only a lost connection or an exception that onMessage swallows ends the debt.
THEOREM DeliveredOrComing == FollowSpec => []NothingLost
<1>1. FollowInit => DueConsistent
  BY DEF FollowInit, DueConsistent, NothingLost
<1>2. DueConsistent => NothingLost
  BY DEF DueConsistent
<1> QED
  BY <1>1, <1>2, DueStep, SamePipeline, AlwaysConsistent, PTL DEF FollowSpec

===============================================================================
