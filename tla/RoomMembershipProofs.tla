------------------------- MODULE RoomMembershipProofs -------------------------
(***************************************************************************)
(* Theorems about RoomMembership for any number of users, threads, rooms   *)
(* and rows. Consistent is the inductive invariant; the refinement of      *)
(* Membership and the other results follow from it.                        *)
(***************************************************************************)
EXTENDS RoomMembership, TLAPS

\* What a request that ends leaves behind: nothing uncommitted.
LEMMA FinishClears ==
    ASSUME TypeOK, NEW q \in Requests, NEW answer \in Replies,
           Finish(q, answer)
    PROVE  /\ pc' \in [Requests -> Phases] /\ reply' \in [Requests -> Replies]
           /\ snap' \in [Requests -> SUBSET ChatRoomMember]
           /\ newRooms' \in [Requests -> SUBSET ChatRoom]
           /\ inserted' \in [Requests -> SUBSET ChatRoomMember]
           /\ deleted' \in [Requests -> SUBSET ChatRoomMember]
           /\ call' \in [Requests -> Call]
           /\ pc'[q] = "idle" /\ NothingWritten(q)'
           /\ \A p \in Requests \ {q} :
                /\ pc'[p] = pc[p] /\ call'[p] = call[p] /\ snap'[p] = snap[p]
                /\ newRooms'[p] = newRooms[p]
                /\ inserted'[p] = inserted[p] /\ deleted'[p] = deleted[p]
<1>1. NoCall \in Call
  BY BoundAssumption DEF NoCall, Call, RoomType
<1> QED
  BY <1>1 DEF Finish, TypeOK, Phases, Replies, NothingWritten

\* What a request may be called with has the type of a call.
LEMMA CallsTyped == Calls \subseteq Call
  BY UserAssumption, BoundAssumption
  DEF Calls, CreateRoomCalls, RoomCalls, InviteCalls, Call, Ops, RoomType, RoomIds

\* Every step keeps the variables in their types.
LEMMA TypeStep ==
    ASSUME Consistent, [Next]_vars
    PROVE  TypeOK'
<1> USE DEF TypeOK
<1>0. TypeOK /\ \A q \in Requests : PhaseConsistent(q)
  BY DEF Consistent
<1> HIDE DEF TypeOK
<1>1. CASE UNCHANGED vars
  BY <1>0, <1>1 DEF vars, TypeOK
<1>2. ASSUME NEW q \in Requests, NEW c \in Calls, Begin(q, c)
      PROVE  TypeOK'
  BY <1>0, <1>2, CallsTyped DEF TypeOK, Begin, tables, Phases, Replies
<1>3. ASSUME NEW q \in Requests, NEW c \in Calls, Reject(q, c)
      PROVE  TypeOK'
  BY <1>0, <1>3 DEF TypeOK, Reject, tables, transaction, Replies
<1>4. ASSUME NEW q \in Requests, SaveRoom(q)
      PROVE  TypeOK'
  <2>1. call[q].type \in RoomType /\ call[q].user \in Users
    BY <1>0, <1>4 DEF TypeOK, Call, SaveRoom, PhaseConsistent, CreateWrote
  <2> QED
    BY <1>0, <1>4, <2>1 DEF TypeOK, SaveRoom, ChatRoom, Phases
<1>5. ASSUME NEW q \in Requests, SaveCreator(q)
      PROVE  TypeOK'
  <2>1. PICK rm \in newRooms[q] : inserted' = [inserted EXCEPT ![q] =
            {[id |-> nextRow, room |-> rm.id, user |-> call[q].user,
              role |-> "ADMIN"]}]
    BY <1>5 DEF SaveCreator
  <2>2. rm \in ChatRoom /\ call[q].user \in Users
    BY <1>0, <1>5, <2>1 DEF TypeOK, SaveCreator, PhaseConsistent
  <2>3. [id |-> nextRow, room |-> rm.id, user |-> call[q].user,
         role |-> "ADMIN"] \in ChatRoomMember
    BY <1>0, <2>2 DEF TypeOK, ChatRoom, ChatRoomMember, MemberRole
  <2> QED
    BY <1>0, <1>5, <2>1, <2>3 DEF TypeOK, SaveCreator, Phases
<1>6. ASSUME NEW q \in Requests, InsertMember(q)
      PROVE  TypeOK'
  <2>1. NewMember(q, call[q].room, call[q].target) \in ChatRoomMember
    BY <1>0, <1>6 DEF TypeOK, InsertMember, NewMember, ChatRoomMember, MemberRole,
                      PhaseConsistent, CreateWrote, CheckedJoin, CheckedInvite
  <2>2. CASE DuplicateKey(call[q].room, call[q].target)
    <3>1. Finish(q, "error") /\ nextRow' = nextRow + 1
          /\ UNCHANGED <<rooms, members, nextRoom>>
      BY <1>6, <2>2 DEF InsertMember
    <3> QED
      BY <1>0, <3>1, FinishClears DEF TypeOK, Replies
  <2>3. CASE ~DuplicateKey(call[q].room, call[q].target)
    BY <1>0, <1>6, <2>1, <2>3 DEF TypeOK, InsertMember, Phases
  <2> QED
    BY <2>2, <2>3
<1>7. ASSUME NEW q \in Requests, DeleteMember(q)
      PROVE  TypeOK'
  <2>1. LoadedRow(q) \subseteq ChatRoomMember
    BY <1>0 DEF TypeOK, LoadedRow
  <2>2. CASE LoadedRow(q) \subseteq members
    BY <1>0, <1>7, <2>1, <2>2 DEF TypeOK, DeleteMember, Phases, tables
  <2>3. CASE ~(LoadedRow(q) \subseteq members)
    <3>1. Finish(q, "error") /\ UNCHANGED tables
      BY <1>7, <2>3 DEF DeleteMember
    <3> QED
      BY <1>0, <3>1, FinishClears DEF TypeOK, Replies, tables
  <2> QED
    BY <2>2, <2>3
<1>8. ASSUME NEW q \in Requests, Commit(q)
      PROVE  TypeOK'
  <2>1. Finish(q, "OK")
    BY <1>8 DEF Commit
  <2>2. rooms' \subseteq ChatRoom /\ members' \subseteq ChatRoomMember
    BY <1>0, <1>8 DEF TypeOK, Commit
  <2> QED
    BY <1>0, <1>8, <2>1, <2>2, FinishClears DEF TypeOK, Replies, Commit
<1>9. ASSUME NEW q \in Requests, Rollback(q)
      PROVE  TypeOK'
  <2>1. Finish(q, "error") /\ UNCHANGED tables
    BY <1>9 DEF Rollback
  <2> QED
    BY <1>0, <2>1, FinishClears DEF TypeOK, Replies, tables
<1>10. ASSUME NEW q \in Requests, FindEntry(q)
       PROVE  TypeOK'
  BY <1>0, <1>10 DEF TypeOK, FindEntry, Phases, tables, transaction
<1> QED
  BY <1>1, <1>2, <1>3, <1>4, <1>5, <1>6, <1>7, <1>8, <1>9, <1>10 DEF Next

\* A request nobody touches stays consistent while rooms are only added.
LEMMA OthersKeep ==
    ASSUME NEW p \in Requests, PhaseConsistent(p), rooms \subseteq rooms',
           pc'[p] = pc[p], call'[p] = call[p], snap'[p] = snap[p],
           newRooms'[p] = newRooms[p], inserted'[p] = inserted[p],
           deleted'[p] = deleted[p]
    PROVE  PhaseConsistent(p)'
<1>1. NothingWritten(p) => NothingWritten(p)'
  BY DEF NothingWritten
<1>2. \A g : Wrote(p, g) => Wrote(p, g)'
  BY DEF Wrote
<1>3. CreateWrote(p) => CreateWrote(p)'
  BY <1>2 DEF CreateWrote
<1>4. MemberWritten(p) => MemberWritten(p)'
  BY DEF MemberWritten, Wrote
<1>5. CheckedJoin(p) => CheckedJoin(p)'
  BY DEF CheckedJoin
<1>6. CheckedInvite(p) => CheckedInvite(p)'
  BY DEF CheckedInvite
<1>7. LoadedRow(p)' = LoadedRow(p)
  BY DEF LoadedRow, SameKey
<1> QED
  BY <1>1, <1>3, <1>4, <1>5, <1>6, <1>7 DEF PhaseConsistent

\* What the SELECTs of an accepted call establish.
LEMMA Checked ==
    ASSUME TypeOK, NEW c \in Calls, Check(c) = "OK"
    PROVE  /\ c.op \in Ops /\ c.user \in Users
           /\ c.op # "create" => c.room \in RoomIds
           /\ c.op = "join" =>
                /\ c.target = c.user
                /\ \E rm \in rooms : rm.id = c.room /\ rm.type = "PUBLIC"
                /\ ~DuplicateKey(c.room, c.target)
           /\ c.op = "invite" =>
                /\ c.target \in Users
                /\ \E rm \in rooms : rm.id = c.room
                /\ \E a \in members : SameKey(a, c.room, c.user) /\ a.role = "ADMIN"
                /\ ~DuplicateKey(c.room, c.target)
<1>1. CASE c \in CreateRoomCalls
  BY <1>1 DEF CreateRoomCalls, Ops
<1>2. CASE c \in RoomCalls("join")
  <2>1. JoinCheck(c) = "OK" /\ c.op = "join" /\ c.user \in Users
        /\ c.room \in RoomIds /\ c.target = c.user
    BY <1>2 DEF RoomCalls, Check
  <2>2. /\ RoomsWithId(c.room) # {}
        /\ ~\E rm \in RoomsWithId(c.room) : rm.type = "PRIVATE"
        /\ ~existsByRoomIdAndUserId(c.room, c.user)
    BY <2>1 DEF JoinCheck
  <2>3. \E rm \in rooms : rm.id = c.room /\ rm.type = "PUBLIC"
    BY <2>2 DEF RoomsWithId, TypeOK, ChatRoom, RoomType
  <2> QED
    BY <2>1, <2>2, <2>3 DEF Ops, existsByRoomIdAndUserId, DuplicateKey, SameKey
<1>3. CASE c \in RoomCalls("leave")
  BY <1>3 DEF RoomCalls, Ops
<1>4. CASE c \in InviteCalls
  <2>1. InviteCheck(c) = "OK" /\ c.op = "invite" /\ c.user \in Users
        /\ c.room \in RoomIds
    BY <1>4 DEF InviteCalls, Check
  <2>2. /\ findByRoomIdAndUserIdAndRole(c.room, c.user, "ADMIN") # {}
        /\ ~existsByRoomIdAndUserId(c.room, c.target)
        /\ RoomsWithId(c.room) # {}
        /\ c.target \in Users
    BY <2>1 DEF InviteCheck
  <2> QED
    BY <2>1, <2>2 DEF Ops, existsByRoomIdAndUserId, DuplicateKey, SameKey,
                      RoomsWithId, findByRoomIdAndUserIdAndRole
<1> QED
  BY <1>1, <1>2, <1>3, <1>4 DEF Calls

\* A request that ends, with any answer, leaves all requests consistent.
LEMMA FinishedIsConsistent ==
    ASSUME TypeOK, NEW q \in Requests, NEW answer \in Replies,
           Finish(q, answer), rooms \subseteq rooms',
           \A p \in Requests : PhaseConsistent(p)
    PROVE  \A p \in Requests : PhaseConsistent(p)'
<1>1. PhaseConsistent(q)'
  BY FinishClears DEF PhaseConsistent
<1>2. ASSUME NEW p \in Requests \ {q} PROVE PhaseConsistent(p)'
  BY FinishClears, OthersKeep
<1> QED
  BY <1>1, <1>2

\* Every step leaves each request with the writes its phase allows.
LEMMA PhaseStep ==
    ASSUME Consistent, [Next]_vars
    PROVE  \A q \in Requests : PhaseConsistent(q)'
<1>0. TypeOK /\ \A q \in Requests : PhaseConsistent(q)
  BY DEF Consistent
<1>1. CASE UNCHANGED vars
  <2>1. ASSUME NEW p \in Requests PROVE PhaseConsistent(p)'
    BY <1>0, <1>1, OthersKeep DEF vars
  <2> QED BY <2>1
<1>2. ASSUME NEW q \in Requests, NEW c \in Calls, Begin(q, c)
      PROVE  \A p \in Requests : PhaseConsistent(p)'
  <2>1. PhaseConsistent(q)'
    <3>1. NothingWritten(q) /\ UNCHANGED <<newRooms, inserted, deleted>>
      BY <1>0, <1>2 DEF Begin, PhaseConsistent, CreateWrote
    <3>2. NothingWritten(q)' /\ pc'[q] = "begun" /\ call'[q] = c
          /\ snap'[q] = members /\ rooms' = rooms
      BY <1>0, <1>2, <3>1 DEF Begin, NothingWritten, TypeOK, tables
    <3>3. Check(c) = "OK"
      BY <1>2 DEF Begin
    <3>4. c.op = "join" => CheckedJoin(q)'
      BY <1>0, <3>2, <3>3, Checked DEF CheckedJoin
    <3>5. c.op = "invite" => CheckedInvite(q)'
      BY <1>0, <3>2, <3>3, Checked DEF CheckedInvite, SameKey
    <3> QED
      BY <1>0, <3>2, <3>3, <3>4, <3>5, Checked
      DEF PhaseConsistent, NothingWritten, Ops
  <2>2. ASSUME NEW p \in Requests \ {q} PROVE PhaseConsistent(p)'
    BY <1>0, <1>2, OthersKeep DEF Begin, TypeOK, tables
  <2> QED BY <2>1, <2>2
<1>3. ASSUME NEW q \in Requests, NEW c \in Calls, Reject(q, c)
      PROVE  \A p \in Requests : PhaseConsistent(p)'
  <2>1. PhaseConsistent(q)'
    BY <1>0, <1>3 DEF Reject, PhaseConsistent, NothingWritten, TypeOK,
                      transaction, CreateWrote
  <2>2. ASSUME NEW p \in Requests \ {q} PROVE PhaseConsistent(p)'
    BY <1>0, <1>3, OthersKeep DEF Reject, TypeOK, tables, transaction
  <2> QED BY <2>1, <2>2
<1>4. ASSUME NEW q \in Requests, SaveRoom(q)
      PROVE  \A p \in Requests : PhaseConsistent(p)'
  <2>1. PhaseConsistent(q)'
    <3> DEFINE rm == [id |-> nextRoom, type |-> call[q].type,
                      createdBy |-> call[q].user]
    <3>1. /\ call[q].op = "create" /\ call[q].user \in Users
          /\ inserted[q] = {} /\ deleted[q] = {} /\ nextRoom \in RoomIds
      BY <1>0, <1>4 DEF SaveRoom, PhaseConsistent, NothingWritten, CreateWrote
    <3>2. rm \in ChatRoom
      BY <1>0, <3>1 DEF TypeOK, Call, ChatRoom
    <3>3. /\ newRooms'[q] = {rm} /\ inserted'[q] = {} /\ deleted'[q] = {}
          /\ pc'[q] = "roomSaved" /\ call'[q] = call[q]
      BY <1>0, <1>4, <3>1 DEF SaveRoom, TypeOK
    <3>4. rm.createdBy = call'[q].user
      BY <3>3
    <3> HIDE DEF rm
    <3>5. CreateWrote(q)'
      BY <3>2, <3>3, <3>4 DEF CreateWrote
    <3> QED
      BY <3>1, <3>3, <3>5 DEF PhaseConsistent
  <2>2. ASSUME NEW p \in Requests \ {q} PROVE PhaseConsistent(p)'
    BY <1>0, <1>4, OthersKeep DEF SaveRoom, TypeOK
  <2> QED BY <2>1, <2>2
<1>5. ASSUME NEW q \in Requests, SaveCreator(q)
      PROVE  \A p \in Requests : PhaseConsistent(p)'
  <2>1. PhaseConsistent(q)'
    <3>1. /\ call[q].op = "create" /\ call[q].user \in Users /\ CreateWrote(q)
      BY <1>0, <1>5 DEF SaveCreator, PhaseConsistent
    <3>2. PICK rm \in ChatRoom : /\ newRooms[q] = {rm}
                                 /\ rm.createdBy = call[q].user
      BY <3>1 DEF CreateWrote
    <3>3. /\ inserted'[q] = {[id |-> nextRow, room |-> rm.id,
                              user |-> call[q].user, role |-> "ADMIN"]}
          /\ newRooms'[q] = {rm} /\ deleted'[q] = {}
          /\ pc'[q] = "written" /\ call'[q] = call[q]
      BY <1>0, <1>5, <3>1, <3>2 DEF SaveCreator, TypeOK, CreateWrote
    <3>4. Wrote(q, [room |-> rm.id, user |-> rm.createdBy, role |-> "ADMIN"])'
      BY <3>2, <3>3 DEF Wrote, GrantOf
    <3>5. CreateWrote(q)'
      BY <3>2, <3>3, <3>4 DEF CreateWrote
    <3> QED
      BY <3>1, <3>3, <3>5 DEF PhaseConsistent
  <2>2. ASSUME NEW p \in Requests \ {q} PROVE PhaseConsistent(p)'
    BY <1>0, <1>5, OthersKeep DEF SaveCreator, TypeOK
  <2> QED BY <2>1, <2>2
<1>6. ASSUME NEW q \in Requests, InsertMember(q)
      PROVE  \A p \in Requests : PhaseConsistent(p)'
  <2>1. CASE DuplicateKey(call[q].room, call[q].target)
    <3>1. Finish(q, "error") /\ rooms' = rooms
      BY <1>6, <2>1 DEF InsertMember
    <3> QED
      BY <1>0, <3>1, FinishedIsConsistent DEF Replies
  <2>2. CASE ~DuplicateKey(call[q].room, call[q].target)
    <3>1. PhaseConsistent(q)'
      <4>1. /\ call[q].op \in {"join", "invite"} /\ NothingWritten(q)
            /\ call[q].user \in Users /\ call[q].room \in RoomIds
            /\ call[q].op = "join" => CheckedJoin(q)
            /\ call[q].op = "invite" => CheckedInvite(q)
        BY <1>0, <1>6 DEF InsertMember, PhaseConsistent, CreateWrote
      <4>2. /\ inserted'[q] = {NewMember(q, call[q].room, call[q].target)}
            /\ newRooms'[q] = {} /\ deleted'[q] = {} /\ pc'[q] = "written"
            /\ call'[q] = call[q] /\ snap'[q] = snap[q] /\ rooms' = rooms
        BY <1>0, <1>6, <2>2, <4>1 DEF InsertMember, TypeOK, NothingWritten
      <4>3. MemberWritten(q)'
        BY <4>2 DEF MemberWritten, Wrote, GrantOf, NewMember
      <4> QED
        BY <4>1, <4>2, <4>3 DEF PhaseConsistent, CheckedJoin, CheckedInvite
    <3>2. ASSUME NEW p \in Requests \ {q} PROVE PhaseConsistent(p)'
      BY <1>0, <1>6, <2>2, OthersKeep DEF InsertMember, TypeOK
    <3> QED BY <3>1, <3>2
  <2> QED BY <2>1, <2>2
<1>7. ASSUME NEW q \in Requests, DeleteMember(q)
      PROVE  \A p \in Requests : PhaseConsistent(p)'
  <2>1. CASE ~(LoadedRow(q) \subseteq members)
    <3>1. Finish(q, "error") /\ rooms' = rooms
      BY <1>7, <2>1 DEF DeleteMember, tables
    <3> QED
      BY <1>0, <3>1, FinishedIsConsistent DEF Replies
  <2>2. CASE LoadedRow(q) \subseteq members
    <3>1. PhaseConsistent(q)'
      <4>1. /\ call[q].op = "leave" /\ call[q].user \in Users
            /\ call[q].room \in RoomIds /\ newRooms[q] = {} /\ inserted[q] = {}
        BY <1>0, <1>7 DEF DeleteMember, PhaseConsistent, NothingWritten, CreateWrote
      <4>2. /\ deleted'[q] = LoadedRow(q) /\ newRooms'[q] = {}
            /\ inserted'[q] = {} /\ pc'[q] = "written"
            /\ call'[q] = call[q] /\ snap'[q] = snap[q]
        BY <1>0, <1>7, <2>2, <4>1 DEF DeleteMember, TypeOK
      <4>3. LoadedRow(q)' = LoadedRow(q)
        BY <4>2 DEF LoadedRow, SameKey
      <4> QED
        BY <4>1, <4>2, <4>3 DEF PhaseConsistent
    <3>2. ASSUME NEW p \in Requests \ {q} PROVE PhaseConsistent(p)'
      BY <1>0, <1>7, <2>2, OthersKeep DEF DeleteMember, TypeOK, tables
    <3> QED BY <3>1, <3>2
  <2> QED BY <2>1, <2>2
<1>8. ASSUME NEW q \in Requests, Commit(q)
      PROVE  \A p \in Requests : PhaseConsistent(p)'
  BY <1>0, <1>8, FinishedIsConsistent DEF Commit, Replies
<1>9. ASSUME NEW q \in Requests, Rollback(q)
      PROVE  \A p \in Requests : PhaseConsistent(p)'
  BY <1>0, <1>9, FinishedIsConsistent DEF Rollback, Replies, tables
<1>10. ASSUME NEW q \in Requests, FindEntry(q)
       PROVE  \A p \in Requests : PhaseConsistent(p)'
  <2>1. PhaseConsistent(q)'
    <3>1. /\ call[q].op \in {"join", "invite"} /\ NothingWritten(q)
          /\ call[q].user \in Users /\ call[q].room \in RoomIds
          /\ call[q].op = "join" => CheckedJoin(q)
          /\ call[q].op = "invite" => CheckedInvite(q)
      BY <1>0, <1>10 DEF FindEntry, PhaseConsistent, CreateWrote
    <3>2. pc'[q] = "checking" /\ UNCHANGED <<tables, call, transaction>>
      BY <1>0, <1>10 DEF FindEntry, TypeOK
    <3> QED
      BY <3>1, <3>2 DEF PhaseConsistent, NothingWritten, CheckedJoin,
                        CheckedInvite, tables, transaction
  <2>2. ASSUME NEW p \in Requests \ {q} PROVE PhaseConsistent(p)'
    BY <1>0, <1>10, OthersKeep DEF FindEntry, TypeOK, tables, transaction
  <2> QED BY <2>1, <2>2
<1> QED
  BY <1>1, <1>2, <1>3, <1>4, <1>5, <1>6, <1>7, <1>8, <1>9, <1>10 DEF Next

StoreConsistent == RoomsConsistent /\ KeysExclusive /\ UniqueMembership

\* A step that commits nothing and writes nothing new keeps the store in order.
LEMMA NoNewWrites ==
    ASSUME StoreConsistent, UNCHANGED <<rooms, members, nextRoom>>,
           \A q \in Requests : /\ newRooms'[q] \subseteq newRooms[q]
                               /\ inserted'[q] \subseteq inserted[q]
                               /\ deleted'[q] \subseteq deleted[q]
    PROVE  StoreConsistent'
<1>1. RoomsConsistent'
  BY DEF StoreConsistent, RoomsConsistent
<1>2. KeysExclusive'
  BY DEF StoreConsistent, KeysExclusive, Written, SameKey, DuplicateKey
<1>3. UniqueMembership'
  BY DEF StoreConsistent, UniqueMembership
<1> QED
  BY <1>1, <1>2, <1>3 DEF StoreConsistent

\* A request that ends without a commit leaves the tables consistent.
LEMMA FinishKeepsStore ==
    ASSUME Consistent, NEW q \in Requests, NEW answer \in Replies,
           Finish(q, answer), UNCHANGED <<rooms, members, nextRoom>>
    PROVE  StoreConsistent'
<1>1. \A p \in Requests : /\ newRooms'[p] \subseteq newRooms[p]
                          /\ inserted'[p] \subseteq inserted[p]
                          /\ deleted'[p] \subseteq deleted[p]
  BY FinishClears DEF Consistent, NothingWritten
<1> QED
  BY <1>1, NoNewWrites DEF Consistent, StoreConsistent

\* The INSERT of a room keeps the tables consistent.
LEMMA SaveRoomStep ==
    ASSUME Consistent, NEW q \in Requests, SaveRoom(q)
    PROVE  StoreConsistent'
<1> DEFINE rm == [id |-> nextRoom, type |-> call[q].type,
                  createdBy |-> call[q].user]
<1>1. /\ TypeOK /\ RoomsConsistent /\ KeysExclusive /\ UniqueMembership
      /\ nextRoom \in Nat /\ nextRoom' = nextRoom + 1
      /\ newRooms'[q] = {rm}
      /\ \A p \in Requests \ {q} : newRooms'[p] = newRooms[p]
      /\ UNCHANGED <<rooms, members, inserted, deleted>>
  BY DEF Consistent, SaveRoom, TypeOK
<1>2. rm.id = nextRoom
  OBVIOUS
<1>3. \A r \in rooms : r.id \in Nat
  BY <1>1, BoundAssumption DEF TypeOK, ChatRoom, RoomIds
<1>4. \A p \in Requests : \A r \in newRooms[p] : r.id \in Nat
  BY <1>1, BoundAssumption DEF TypeOK, ChatRoom, RoomIds
<1> HIDE DEF rm
<1>5. RoomsConsistent'
  <2>1. \A r \in rooms' : r.id < nextRoom'
    BY <1>1, <1>3 DEF RoomsConsistent
  <2>2. \A m \in members' : \E r \in rooms' : r.id = m.room
    BY <1>1 DEF RoomsConsistent
  <2>3. \A p \in Requests : \A r \in newRooms'[p] :
            r.id < nextRoom' /\ \A other \in rooms' : other.id # r.id
    BY <1>1, <1>2, <1>3, <1>4 DEF RoomsConsistent
  <2>4. \A p, o \in Requests : p # o =>
            \A r \in newRooms'[p], other \in newRooms'[o] : r.id # other.id
    BY <1>1, <1>2, <1>3, <1>4 DEF RoomsConsistent
  <2> QED BY <1>1, <2>1, <2>2, <2>3, <2>4 DEF RoomsConsistent
<1>6. KeysExclusive'
  BY <1>1 DEF KeysExclusive, Written, SameKey, DuplicateKey
<1> QED
  BY <1>1, <1>5, <1>6 DEF StoreConsistent, UniqueMembership

\* The row of a room's creator cannot collide: no one else knows the room.
LEMMA SaveCreatorStep ==
    ASSUME Consistent, NEW q \in Requests, SaveCreator(q)
    PROVE  StoreConsistent'
<1>1. /\ TypeOK /\ RoomsConsistent /\ KeysExclusive /\ UniqueMembership
      /\ \A p \in Requests : PhaseConsistent(p)
  BY DEF Consistent
<1>2. /\ CreateWrote(q)
      /\ UNCHANGED <<rooms, members, nextRoom, newRooms, deleted>>
  BY <1>1 DEF SaveCreator, PhaseConsistent
<1>3. PICK rm \in newRooms[q] : inserted' = [inserted EXCEPT ![q] =
            {[id |-> nextRow, room |-> rm.id, user |-> call[q].user,
              role |-> "ADMIN"]}]
  BY DEF SaveCreator
<1>4. \A m \in members : m.room # rm.id
  BY <1>1, <1>3 DEF RoomsConsistent
<1>5. ASSUME NEW p \in Requests \ {q}, NEW m \in Written(p)
      PROVE  m.room # rm.id
  <2>1. CASE m \in deleted[p]
    BY <1>1, <1>4, <2>1 DEF KeysExclusive
  <2>2. CASE m \in inserted[p]
    <3>1. CASE call[p].op = "create"
      <4>1. CreateWrote(p)
        BY <1>1, <2>2, <3>1 DEF PhaseConsistent, NothingWritten
      <4>2. PICK other \in newRooms[p] : GrantOf(m).room = other.id
        BY <2>2, <4>1 DEF CreateWrote, Wrote
      <4> QED
        BY <1>1, <1>3, <4>2 DEF RoomsConsistent, GrantOf
    <3>2. CASE call[p].op # "create"
      <4>1. /\ GrantOf(m).room = call[p].room
            /\ \E r \in rooms : r.id = call[p].room
        BY <1>1, <2>2, <3>2 DEF PhaseConsistent, NothingWritten, MemberWritten,
                               Wrote, CheckedJoin, CheckedInvite
      <4> QED
        BY <1>1, <1>3, <4>1 DEF RoomsConsistent, GrantOf
    <3> QED BY <3>1, <3>2
  <2> QED BY <2>1, <2>2 DEF Written
<1>6. /\ \A m \in inserted'[q] : m.room = rm.id
      /\ deleted'[q] = {}
      /\ \A p \in Requests \ {q} : inserted'[p] = inserted[p]
  BY <1>1, <1>2, <1>3 DEF TypeOK, CreateWrote
<1>7. KeysExclusive'
  <2>1. \A p, o \in Requests : p # o =>
          \A m \in Written(p)', n \in Written(o)' : ~SameKey(m, n.room, n.user)'
    BY <1>1, <1>2, <1>5, <1>6 DEF KeysExclusive, Written, SameKey
  <2>2. \A p \in Requests : \A m \in inserted'[p] :
          ~DuplicateKey(m.room, m.user)'
    BY <1>1, <1>2, <1>4, <1>6 DEF KeysExclusive, DuplicateKey, SameKey
  <2> QED
    BY <1>1, <1>2, <2>1, <2>2 DEF KeysExclusive
<1>8. RoomsConsistent' /\ UniqueMembership'
  BY <1>1, <1>2 DEF RoomsConsistent, UniqueMembership
<1> QED
  BY <1>7, <1>8 DEF StoreConsistent

\* So does the INSERT of a member, whether it runs into the unique key or not,
LEMMA InsertMemberStep ==
    ASSUME Consistent, NEW q \in Requests, InsertMember(q)
    PROVE  StoreConsistent'
<1>1. /\ TypeOK /\ RoomsConsistent /\ KeysExclusive /\ UniqueMembership
      /\ PhaseConsistent(q)
  BY DEF Consistent
<1>2. CASE DuplicateKey(call[q].room, call[q].target)
  BY <1>2, FinishKeepsStore DEF InsertMember, Replies
<1>3. CASE ~DuplicateKey(call[q].room, call[q].target)
  <2> DEFINE m == NewMember(q, call[q].room, call[q].target)
  <2>1. /\ inserted'[q] = {m} /\ deleted[q] = {}
        /\ \A p \in Requests \ {q} : inserted'[p] = inserted[p]
        /\ UNCHANGED <<rooms, members, nextRoom, newRooms, deleted>>
    BY <1>1, <1>3 DEF InsertMember, TypeOK, PhaseConsistent, NothingWritten,
                      CreateWrote
  <2>2. m.room = call[q].room /\ m.user = call[q].target
    BY DEF NewMember
  <2> HIDE DEF m
  <2>3. \A p \in Requests \ {q} : \A n \in Written(p) :
            ~(n.room = m.room /\ n.user = m.user)
    BY <2>2 DEF InsertMember, KeyLocked, WriterLocks, Written, SameKey
  <2>4. \A p, o \in Requests : p # o =>
          \A n \in Written(p)', k \in Written(o)' : ~SameKey(n, k.room, k.user)'
    BY <1>1, <2>1, <2>3 DEF KeysExclusive, Written, SameKey
  <2>5. \A p \in Requests : \A n \in inserted'[p] :
          ~DuplicateKey(n.room, n.user)'
    BY <1>1, <1>3, <2>1, <2>2 DEF KeysExclusive, DuplicateKey, SameKey
  <2>6. KeysExclusive'
    BY <1>1, <2>1, <2>4, <2>5 DEF KeysExclusive
  <2> QED
    BY <1>1, <2>1, <2>6 DEF StoreConsistent, RoomsConsistent, UniqueMembership
<1> QED BY <1>2, <1>3

\* the DELETE of a member,
LEMMA DeleteMemberStep ==
    ASSUME Consistent, NEW q \in Requests, DeleteMember(q)
    PROVE  StoreConsistent'
<1>1. /\ TypeOK /\ RoomsConsistent /\ KeysExclusive /\ UniqueMembership
      /\ PhaseConsistent(q)
  BY DEF Consistent
<1>2. CASE ~(LoadedRow(q) \subseteq members)
  BY <1>2, FinishKeepsStore DEF DeleteMember, Replies, tables
<1>3. CASE LoadedRow(q) \subseteq members
  <2>1. /\ deleted'[q] = LoadedRow(q) /\ inserted[q] = {}
        /\ \A p \in Requests \ {q} : deleted'[p] = deleted[p]
        /\ UNCHANGED <<rooms, members, nextRoom, newRooms, inserted>>
    BY <1>1, <1>3 DEF DeleteMember, TypeOK, PhaseConsistent, NothingWritten,
                      CreateWrote, tables
  <2>2. \A m \in LoadedRow(q) : m.room = call[q].room /\ m.user = call[q].user
    BY DEF LoadedRow, SameKey
  <2>3. \A p \in Requests \ {q} : \A n \in Written(p) :
            ~(n.room = call[q].room /\ n.user = call[q].user)
    BY <1>3 DEF DeleteMember, KeyLocked, WriterLocks, Written, SameKey
  <2>4. \A p, o \in Requests : p # o =>
          \A n \in Written(p)', k \in Written(o)' : ~SameKey(n, k.room, k.user)'
    BY <1>1, <2>1, <2>2, <2>3 DEF KeysExclusive, Written, SameKey
  <2>5. KeysExclusive'
    BY <1>1, <1>3, <2>1, <2>4 DEF KeysExclusive, DuplicateKey, SameKey
  <2> QED
    BY <1>1, <2>1, <2>5 DEF StoreConsistent, RoomsConsistent, UniqueMembership
<1> QED BY <1>2, <1>3

\* and the commit.
LEMMA CommitStep ==
    ASSUME Consistent, NEW q \in Requests, Commit(q)
    PROVE  StoreConsistent'
<1>1. /\ TypeOK /\ RoomsConsistent /\ KeysExclusive /\ UniqueMembership
      /\ PhaseConsistent(q)
  BY DEF Consistent
<1>2. /\ rooms' = rooms \cup newRooms[q] /\ nextRoom' = nextRoom
      /\ members' = (members \ deleted[q]) \cup inserted[q]
      /\ Finish(q, "OK") /\ "OK" \in Replies
  BY DEF Commit, Replies
<1>3. /\ newRooms'[q] = {} /\ inserted'[q] = {} /\ deleted'[q] = {}
      /\ \A p \in Requests \ {q} : /\ newRooms'[p] = newRooms[p]
                                   /\ inserted'[p] = inserted[p]
                                   /\ deleted'[p] = deleted[p]
  BY <1>1, <1>2, FinishClears DEF NothingWritten
<1>4. \A m, n \in inserted[q] : m = n
  BY <1>1 DEF PhaseConsistent, NothingWritten, CreateWrote, MemberWritten, Wrote
<1>5. \A m \in inserted[q] : \E rm \in rooms' : rm.id = m.room
  BY <1>1, <1>2 DEF PhaseConsistent, NothingWritten, CreateWrote, MemberWritten,
                    Wrote, GrantOf, CheckedJoin, CheckedInvite
<1>6. RoomsConsistent'
  <2>1. \A rm, other \in newRooms[q] : rm = other
    BY <1>1 DEF PhaseConsistent, NothingWritten, CreateWrote, MemberWritten
  <2>2. \A rm, other \in rooms' : rm.id = other.id => rm = other
    BY <1>1, <1>2, <2>1 DEF RoomsConsistent
  <2> QED
    BY <1>1, <1>2, <1>3, <1>5, <2>2 DEF RoomsConsistent
<1>7. KeysExclusive'
  <2>1. \A p, o \in Requests : p # o =>
          \A n \in Written(p)', k \in Written(o)' : ~SameKey(n, k.room, k.user)'
    BY <1>1, <1>3 DEF KeysExclusive, Written, SameKey
  <2>2. ASSUME NEW p \in Requests, NEW n \in inserted'[p]
        PROVE  ~DuplicateKey(n.room, n.user)'
    BY <1>1, <1>2, <1>3 DEF KeysExclusive, DuplicateKey, SameKey, Written
  <2>3. ASSUME NEW p \in Requests \ {q} PROVE deleted'[p] \subseteq members'
    BY <1>1, <1>2, <1>3 DEF KeysExclusive, Written, SameKey
  <2> QED
    BY <1>3, <2>1, <2>2, <2>3 DEF KeysExclusive
<1>8. UniqueMembership'
  BY <1>1, <1>2, <1>4 DEF UniqueMembership, KeysExclusive, DuplicateKey, SameKey
<1> QED
  BY <1>6, <1>7, <1>8 DEF StoreConsistent

\* The empty tables are consistent.
LEMMA ConsistentInit == ASSUME Init PROVE Consistent
<1>1. NoCall \in Call /\ "idle" \in Phases /\ "none" \in Replies
  BY BoundAssumption DEF NoCall, Call, RoomType, Phases, Replies
<1>2. TypeOK
  BY <1>1 DEF Init, TypeOK
<1>3. RoomsConsistent /\ KeysExclusive /\ UniqueMembership
  BY DEF Init, RoomsConsistent, KeysExclusive, Written, UniqueMembership
<1>4. \A q \in Requests : PhaseConsistent(q)
  BY DEF Init, PhaseConsistent, NothingWritten
<1> QED
  BY <1>2, <1>3, <1>4 DEF Consistent

\* Every step keeps tables and requests consistent.
LEMMA ConsistentStep == ASSUME Consistent, [Next]_vars PROVE Consistent'
<1>1. StoreConsistent'
  <2>0. TypeOK /\ StoreConsistent
    BY DEF Consistent, StoreConsistent
  <2>1. CASE UNCHANGED vars
    BY <2>0, <2>1, NoNewWrites DEF vars
  <2>2. ASSUME NEW q \in Requests, NEW c \in Calls, Begin(q, c) \/ Reject(q, c)
        PROVE  StoreConsistent'
    BY <2>0, <2>2, NoNewWrites DEF Begin, Reject, tables, transaction
  <2>3. ASSUME NEW q \in Requests, Rollback(q)
        PROVE  StoreConsistent'
    BY <2>3, FinishKeepsStore DEF Rollback, Replies, tables
  <2>4. ASSUME NEW q \in Requests, FindEntry(q)
        PROVE  StoreConsistent'
    BY <2>0, <2>4, NoNewWrites DEF FindEntry, tables, transaction
  <2> QED
    BY <2>1, <2>2, <2>3, <2>4, SaveRoomStep, SaveCreatorStep, InsertMemberStep,
       DeleteMemberStep, CommitStep DEF Next
<1> QED
  BY <1>1, TypeStep, PhaseStep DEF Consistent, StoreConsistent

\* In every reachable state the tables and the open transactions agree, for any
\* number of users, threads, rooms and rows.
THEOREM AlwaysConsistent == Spec => []Consistent
  BY ConsistentInit, ConsistentStep, PTL DEF Spec

\* Every variable keeps its type.
THEOREM TypeCorrect == Spec => []TypeOK
<1>1. Consistent => TypeOK
  BY DEF Consistent
<1> QED
  BY <1>1, AlwaysConsistent, PTL

\* No interleaving of joins, invitations, leaves and rollbacks commits two rows
\* for one user and room.
THEOREM NoDuplicateMembership == Spec => []UniqueMembership
<1>1. Consistent => UniqueMembership
  BY DEF Consistent
<1> QED
  BY <1>1, AlwaysConsistent, PTL

\* However many requests contend for however many keys, waits form no cycle but
\* among INSERTs of one key that have all written nothing yet.
THEOREM OnlyRivalsDeadlock == Spec => []OnlyRivalInsertsDeadlock
<1>1. ASSUME Consistent, NEW q \in Requests, NEW p \in WaitsFor(q)
      PROVE  \/ WaitsFor(p) = {}
             \/ /\ Deadlocked(p) /\ NothingWritten(p)
                /\ \A o \in WaitsFor(p) : Deadlocked(o) /\ InvitedBy(o) = InvitedBy(p)
  <2> DEFINE r == call[q].room
             u == call[q].target
  <2>0. p \in Requests /\ \A o \in Requests : PhaseConsistent(o)
    BY <1>1 DEF Consistent, WaitsFor
  <2>1. CASE WriterLocks(p, r, u)
    <3>1. pc[p] \in {"roomSaved", "written"}
      BY <2>0, <2>1 DEF WriterLocks, PhaseConsistent, NothingWritten, CreateWrote
    <3> QED
      BY <3>1 DEF WaitsFor, SharesKey
  <2>2. CASE ~WriterLocks(p, r, u)
    <3>1. /\ p # q /\ SharesKey(p, r, u)
          /\ \/ SharesKey(q, r, u) /\ ~DuplicateKey(r, u)
             \/ pc[q] = "begun" /\ call[q].op = "leave"
      BY <1>1, <2>2 DEF WaitsFor
    <3>2. /\ pc[p] = "checking" /\ call[p].room = r /\ call[p].target = u
          /\ NothingWritten(p) /\ call[p].op \in {"join", "invite"}
          /\ ~KeyLocked(p, r, u)
      <4>1. pc[p] = "checking" /\ call[p].room = r /\ call[p].target = u
            /\ ~KeyLocked(p, r, u)
        BY <3>1 DEF SharesKey
      <4> QED
        BY <2>0, <4>1 DEF PhaseConsistent, CreateWrote
    <3>3. \A o \in WaitsFor(p) : o \in Requests \ {p} /\ SharesKey(o, r, u)
                                /\ ~DuplicateKey(r, u)
      BY <2>0, <3>2 DEF WaitsFor, KeyLocked
    <3>4. CASE WaitsFor(p) = {}
      BY <3>4
    <3>5. CASE WaitsFor(p) # {}
      <4>1. Deadlocked(p)
        BY <3>1, <3>2, <3>3, <3>5 DEF Deadlocked, KeyShared
      <4>2. ASSUME NEW o \in WaitsFor(p)
            PROVE  Deadlocked(o) /\ InvitedBy(o) = InvitedBy(p)
        <5>1. o # p /\ p \in Requests /\ SharesKey(o, r, u) /\ ~DuplicateKey(r, u)
              /\ call[o].room = r /\ call[o].target = u
          BY <2>0, <3>3 DEF SharesKey
        <5> QED
          BY <3>1, <3>2, <5>1 DEF Deadlocked, KeyShared, InvitedBy
      <4> QED
        BY <3>2, <4>1, <4>2
    <3> QED BY <3>4, <3>5
  <2> QED BY <2>1, <2>2
<1>2. Consistent => OnlyRivalInsertsDeadlock
  BY <1>1 DEF OnlyRivalInsertsDeadlock
<1> QED
  BY <1>2, AlwaysConsistent, PTL

\* The committed rows change only by a Commit.
LEMMA OnlyCommitChanges ==
    ASSUME [Next]_vars, <<rooms, members>>' # <<rooms, members>>
    PROVE  \E q \in Requests : Commit(q)
  BY DEF Next, vars, Begin, Reject, SaveRoom, SaveCreator, InsertMember,
         DeleteMember, Rollback, FindEntry, tables

\* A room that lost its ADMIN never has one again.
THEOREM NoNewAdmin == Spec => AdminlessForever
<1>1. ASSUME Consistent, [Next]_vars, NEW rm \in rooms, ~HasAdmin(rm.id)
      PROVE  ~HasAdmin(rm.id)'
  <2>1. CASE UNCHANGED members
    BY <1>1, <2>1 DEF HasAdmin
  <2>2. CASE ~UNCHANGED members
    <3>1. PICK q \in Requests : Commit(q)
      BY <1>1, <2>2, OnlyCommitChanges
    <3>2. ASSUME NEW m \in inserted[q], m.role = "ADMIN"
          PROVE  m.room # rm.id
      <4>1. CreateWrote(q) \/ MemberWritten(q)
        BY <1>1, <3>2 DEF Consistent, PhaseConsistent, NothingWritten
      <4>2. ~MemberWritten(q)
        BY <3>2 DEF MemberWritten, Wrote, GrantOf
      <4>3. PICK new \in newRooms[q] : m.room = new.id
        BY <3>2, <4>1, <4>2 DEF CreateWrote, Wrote, GrantOf
      <4> QED
        BY <1>1, <4>3 DEF Consistent, RoomsConsistent
    <3> QED
      BY <1>1, <3>1, <3>2 DEF Commit, HasAdmin
  <2> QED BY <2>1, <2>2
<1>2. Consistent /\ [Next]_vars =>
        [\A rm \in rooms : ~HasAdmin(rm.id) => ~HasAdmin(rm.id)']_vars
  BY <1>1
<1> QED
  BY <1>2, AlwaysConsistent, PTL DEF Spec, AdminlessForever

\* A leave removes no row committed after its request read the table.
THEOREM LeaveIsExact == Spec => LeaveRemovesOnlyWhatItRead
<1>1. ASSUME Consistent, [Next]_vars, NEW m \in members \ members'
      PROVE  \E q \in Requests : /\ call[q].op = "leave" /\ call[q].user = m.user
                                 /\ m \in snap[q]
  <2>1. PICK q \in Requests : Commit(q)
    BY <1>1, OnlyCommitChanges
  <2>2. m \in deleted[q]
    BY <2>1 DEF Commit
  <2> QED
    BY <1>1, <2>2 DEF Consistent, PhaseConsistent, NothingWritten, CreateWrote,
                      MemberWritten, LoadedRow, SameKey
<1>2. Consistent /\ [Next]_vars =>
        [\A m \in members \ members' : \E q \in Requests :
            call[q].op = "leave" /\ call[q].user = m.user /\ m \in snap[q]]_vars
  BY <1>1
<1> QED
  BY <1>2, AlwaysConsistent, PTL DEF Spec, LeaveRemovesOnlyWhatItRead

\* A private room gets a member only from an invitation by its ADMIN.
THEOREM PrivateGrowth == Spec => PrivateGrowsOnlyByAdminInvite
<1> DEFINE InvitedRow(m) ==
        \E q \in Requests :
            /\ call[q].op = "invite" /\ call[q].target = m.user
            /\ \E a \in snap[q] : SameKey(a, m.room, call[q].user)
                                 /\ a.role = "ADMIN"
           IsPrivate(r) == \E rm \in rooms : rm.id = r /\ rm.type = "PRIVATE"
<1>1. ASSUME Consistent, [Next]_vars, NEW m \in members' \ members,
             IsPrivate(m.room)
      PROVE  InvitedRow(m)
  <2>1. PICK q \in Requests : Commit(q)
    BY <1>1, OnlyCommitChanges
  <2>2. m \in inserted[q] /\ PhaseConsistent(q)
    BY <1>1, <2>1 DEF Commit, Consistent
  <2>3. PICK rm \in rooms : rm.id = m.room /\ rm.type = "PRIVATE"
    BY <1>1
  <2>4. ~CreateWrote(q)
    <3>1. SUFFICES ASSUME CreateWrote(q) PROVE FALSE
      OBVIOUS
    <3>2. PICK new \in newRooms[q] : m.room = new.id
      BY <2>2, <3>1 DEF CreateWrote, Wrote, GrantOf
    <3> QED
      BY <1>1, <2>3, <3>2 DEF Consistent, RoomsConsistent
  <2>5. MemberWritten(q) /\ m.room = call[q].room /\ m.user = call[q].target
    BY <2>2, <2>4 DEF PhaseConsistent, NothingWritten, MemberWritten, Wrote, GrantOf
  <2>6. CASE call[q].op = "join"
    <3>1. PICK other \in rooms : other.id = m.room /\ other.type = "PUBLIC"
      BY <2>2, <2>4, <2>5, <2>6 DEF PhaseConsistent, CheckedJoin, NothingWritten
    <3>2. ~(rm.type = other.type)
      BY <2>3, <3>1
    <3> QED
      BY <1>1, <2>3, <3>1, <3>2 DEF Consistent, RoomsConsistent
  <2>7. CASE call[q].op = "invite"
    BY <2>2, <2>5, <2>7 DEF PhaseConsistent, CheckedInvite, NothingWritten, CreateWrote
  <2> QED
    BY <2>2, <2>4, <2>5, <2>6, <2>7 DEF PhaseConsistent, NothingWritten
<1>2. Consistent /\ [Next]_vars =>
        [\A m \in members' \ members : IsPrivate(m.room) => InvitedRow(m)]_vars
  BY <1>1
<1> QED
  BY <1>2, AlwaysConsistent, PTL DEF Spec, PrivateGrowsOnlyByAdminInvite

\* A room becomes visible together with its creator's ADMIN row.
THEOREM BornWithAdmin == Spec => RoomBornWithAdmin
<1>1. ASSUME Consistent, [Next]_vars, NEW rm \in rooms' \ rooms
      PROVE  \E m \in members' : SameKey(m, rm.id, rm.createdBy)
                                /\ m.role = "ADMIN"
  <2>1. PICK q \in Requests : Commit(q)
    BY <1>1, OnlyCommitChanges
  <2>2. rm \in newRooms[q] /\ PhaseConsistent(q) /\ pc[q] = "written"
        /\ inserted[q] \subseteq members'
    BY <1>1, <2>1 DEF Commit, Consistent
  <2>3. CreateWrote(q)
    BY <2>2 DEF PhaseConsistent, NothingWritten, MemberWritten
  <2>4. Wrote(q, [room |-> rm.id, user |-> rm.createdBy, role |-> "ADMIN"])
    BY <2>2, <2>3 DEF CreateWrote
  <2> QED
    BY <2>2, <2>4 DEF Wrote, GrantOf, SameKey
<1>2. Consistent /\ [Next]_vars =>
        [\A rm \in rooms' \ rooms : \E m \in members' :
            SameKey(m, rm.id, rm.createdBy) /\ m.role = "ADMIN"]_vars
  BY <1>1
<1> QED
  BY <1>2, AlwaysConsistent, PTL DEF Spec, RoomBornWithAdmin

-------------------------------------------------------------------------------
(* The transactions implement Membership.                                  *)

\* Steps that neither begin nor end an invite request change no invitation.
LEMMA InvitationsKept ==
    ASSUME \A p \in Requests : /\ Inviting(p)' <=> Inviting(p)
                               /\ Inviting(p) => InvitedBy(p)' = InvitedBy(p)
    PROVE  Invitations' = Invitations
<1>1. {p \in Requests : Inviting(p)}' = {p \in Requests : Inviting(p)}
  OBVIOUS
<1> QED
  BY <1>1 DEF Invitations

\* A request that ends settles its own invitation, unless another request makes
\* the same one, and touches no other.
LEMMA InvitationSettled ==
    ASSUME Consistent, NEW q \in Requests, NEW answer \in Replies,
           Finish(q, answer)
    PROVE  \/ Invitations' = Invitations
           \/ /\ Inviting(q)
              /\ Invitations' = Invitations \ {InvitedBy(q)}
<1>1. /\ ~Inviting(q)'
      /\ \A p \in Requests \ {q} : /\ Inviting(p)' <=> Inviting(p)
                                   /\ InvitedBy(p)' = InvitedBy(p)
  BY FinishClears DEF Consistent, Inviting, Pending, InvitedBy
<1>2. CASE ~Inviting(q)
  BY <1>1, <1>2, InvitationsKept
<1>3. CASE Inviting(q)
  <2>1. Invitations' = {InvitedBy(p) : p \in {o \in Requests \ {q} : Inviting(o)}}
    BY <1>1 DEF Invitations
  <2>2. Invitations = Invitations' \cup {InvitedBy(q)}
    BY <1>3, <2>1 DEF Invitations
  <2> QED
    BY <1>3, <2>2
<1> QED BY <1>2, <1>3

\* A request that gives up is, at most, an invitation that comes to nothing.
LEMMA GivingUp ==
    ASSUME Consistent, NEW q \in Requests, NEW answer \in Replies,
           Finish(q, answer), UNCHANGED <<rooms, members>>
    PROVE  [Abstract!Next]_Abstract!membershipVars
<1>1. Grants' = Grants
  BY DEF Grants, GrantOf
<1>2. CASE Invitations' = Invitations
  BY <1>1, <1>2 DEF Abstract!membershipVars
<1>3. CASE Inviting(q) /\ Invitations' = Invitations \ {InvitedBy(q)}
  <2>1. call[q].room \in RoomIds /\ call[q].target \in Users
    BY <1>3 DEF Inviting, Pending, Consistent, PhaseConsistent, CheckedInvite,
                CreateWrote
  <2>2. Abstract!Withdraw(call[q].room, call[q].target)
    BY <1>1, <1>3 DEF Abstract!Withdraw, InvitedBy
  <2> QED
    BY <2>1, <2>2 DEF Abstract!Next
<1> QED
  BY <1>2, <1>3, InvitationSettled

\* A step that neither commits nor decides an invitation is invisible.
LEMMA Invisible ==
    ASSUME UNCHANGED <<rooms, members>>,
           \A p \in Requests : /\ Inviting(p)' <=> Inviting(p)
                               /\ Inviting(p) => InvitedBy(p)' = InvitedBy(p)
    PROVE  UNCHANGED Abstract!membershipVars
<1>1. Grants' = Grants
  BY DEF Grants, GrantOf
<1> QED
  BY <1>1, InvitationsKept DEF Abstract!membershipVars

\* A request that begins decides an invitation or is invisible.
LEMMA Beginning ==
    ASSUME Consistent, NEW q \in Requests, NEW c \in Calls, Begin(q, c)
    PROVE  [Abstract!Next]_Abstract!membershipVars
<1>0. TypeOK /\ Check(c) = "OK" /\ UNCHANGED <<rooms, members>>
  BY DEF Begin, Consistent, tables
<1>1. /\ ~Inviting(q) /\ (Inviting(q)' <=> c.op = "invite")
      /\ InvitedBy(q)' = [room |-> c.room, user |-> c.target]
      /\ \A p \in Requests \ {q} : /\ Inviting(p)' <=> Inviting(p)
                                   /\ InvitedBy(p)' = InvitedBy(p)
  BY <1>0 DEF Begin, TypeOK, Inviting, Pending, InvitedBy
<1>2. CASE c.op # "invite"
  BY <1>0, <1>1, <1>2, Invisible
<1>3. CASE c.op = "invite"
  <2>1. PICK a \in members : SameKey(a, c.room, c.user) /\ a.role = "ADMIN"
    BY <1>0, <1>3, Checked
  <2>2. /\ c.room \in RoomIds /\ c.target \in Users /\ c.user \in Users
        /\ ~DuplicateKey(c.room, c.target)
    BY <1>0, <1>3, Checked
  <2>3. [room |-> c.room, user |-> c.user, role |-> "ADMIN"] \in Grants
    BY <2>1 DEF Grants, GrantOf, SameKey
  <2>4. \A g \in Grants : ~(g.room = c.room /\ g.user = c.target)
    BY <2>2 DEF Grants, GrantOf, DuplicateKey, SameKey
  <2>5. Grants' = Grants
    BY <1>0 DEF Grants, GrantOf
  <2>6. Invitations' = Invitations \cup {[room |-> c.room, user |-> c.target]}
    BY <1>1, <1>3 DEF Invitations
  <2>7. Abstract!Authorise(c.room, c.user, c.target)
    BY <1>0, <2>3, <2>4, <2>5, <2>6
    DEF Abstract!Authorise, Abstract!IsAdmin, Abstract!IsMember
  <2> QED
    BY <2>2, <2>7 DEF Abstract!Next
<1> QED BY <1>2, <1>3

\* The commit of a request creates a room, joins, admits or leaves.
LEMMA Committing ==
    ASSUME Consistent, NEW q \in Requests, Commit(q)
    PROVE  [Abstract!Next]_Abstract!membershipVars
<1>0. /\ TypeOK /\ RoomsConsistent /\ KeysExclusive /\ UniqueMembership
      /\ PhaseConsistent(q) /\ pc[q] = "written"
      /\ rooms' = rooms \cup newRooms[q]
      /\ members' = (members \ deleted[q]) \cup inserted[q]
      /\ Finish(q, "OK") /\ "OK" \in Replies
  BY DEF Commit, Replies, Consistent
<1>1. CASE call[q].op = "create"
  <2>1. CreateWrote(q) /\ call[q].user \in Users
    BY <1>0, <1>1 DEF PhaseConsistent
  <2>2. PICK rm \in ChatRoom : /\ newRooms[q] = {rm} /\ deleted[q] = {}
                               /\ Wrote(q, [room |-> rm.id, user |-> rm.createdBy,
                                            role |-> "ADMIN"])
    BY <1>0, <2>1 DEF CreateWrote
  <2>3. Grants' = Grants \cup {[room |-> rm.id, user |-> rm.createdBy,
                                role |-> "ADMIN"]}
    BY <1>0, <2>2 DEF Grants, Wrote
  <2>4. ~Abstract!RoomExists(rm.id)
    BY <1>0, <2>2 DEF RoomsConsistent, Abstract!RoomExists
  <2>5. ~Inviting(q)
    BY <1>1 DEF Inviting
  <2>6. Invitations' = Invitations
    BY <1>0, <2>5, InvitationSettled
  <2>7. rm \in Abstract!Room
    BY DEF ChatRoom, RoomType, Abstract!Room, Abstract!RoomType
  <2>8. Abstract!Create(rm)
    BY <1>0, <2>2, <2>3, <2>4, <2>6 DEF Abstract!Create
  <2> QED
    BY <2>7, <2>8 DEF Abstract!Next
<1>2. CASE call[q].op \in {"join", "invite"}
  <2> DEFINE r == call[q].room
             u == call[q].target
  <2>1. /\ MemberWritten(q) /\ r \in RoomIds /\ u \in Users
        /\ call[q].op = "join" => CheckedJoin(q)
    BY <1>0, <1>2 DEF PhaseConsistent, CheckedJoin, CheckedInvite, CreateWrote
  <2>2. rooms' = rooms
    BY <1>0, <2>1 DEF MemberWritten
  <2>3. Grants' = Grants \cup {Abstract!AsMember(r, u)}
    BY <1>0, <2>1 DEF Grants, MemberWritten, Wrote, Abstract!AsMember
  <2>4. ~DuplicateKey(r, u)
    BY <1>0, <2>1 DEF MemberWritten, Wrote, GrantOf, KeysExclusive
  <2>5. ~Abstract!IsMember(r, u)
    BY <2>4 DEF Abstract!IsMember, Grants, GrantOf, DuplicateKey, SameKey
  <2> HIDE DEF r, u
  <2>6. CASE call[q].op = "join"
    <3>1. \E rm \in rooms : rm.id = r /\ rm.type = "PUBLIC"
      BY <2>1, <2>6 DEF CheckedJoin, r
    <3>2. Invitations' = Invitations
      BY <1>0, <2>6, InvitationSettled DEF Inviting
    <3>3. Abstract!Join(r, u)
      BY <2>2, <2>3, <2>5, <3>1, <3>2 DEF Abstract!Join
    <3> QED
      BY <2>1, <3>3 DEF Abstract!Next
  <2>7. CASE call[q].op = "invite"
    <3>1. [room |-> r, user |-> u] \in Invitations
      BY <1>0, <2>7 DEF Invitations, Inviting, Pending, InvitedBy, r, u
    <3>2. Invitations' \in {Invitations, Invitations \ {[room |-> r, user |-> u]}}
      BY <1>0, InvitationSettled DEF InvitedBy, r, u
    <3>3. Abstract!Admit(r, u)
      BY <2>2, <2>3, <2>5, <3>1, <3>2 DEF Abstract!Admit
    <3> QED
      BY <2>1, <3>3 DEF Abstract!Next
  <2> QED BY <1>2, <2>6, <2>7
<1>3. CASE call[q].op = "leave"
  <2>1. /\ newRooms[q] = {} /\ inserted[q] = {} /\ deleted[q] = LoadedRow(q)
        /\ call[q].room \in RoomIds /\ call[q].user \in Users
    BY <1>0, <1>3 DEF PhaseConsistent, NothingWritten, CreateWrote
  <2>2. rooms' = rooms /\ members' = members \ deleted[q]
    BY <1>0, <2>1
  <2>3. Invitations' = Invitations
    BY <1>0, <1>3, InvitationSettled DEF Inviting
  <2>4. CASE deleted[q] = {}
    BY <2>2, <2>3, <2>4 DEF Grants, GrantOf, Abstract!membershipVars
  <2>5. CASE deleted[q] # {}
    <3>1. \A m \in members :
            m \in deleted[q] <=> m.room = call[q].room /\ m.user = call[q].user
      BY <1>0, <2>1, <2>5 DEF LoadedRow, SameKey, KeysExclusive, UniqueMembership
    <3>2. \A m \in members : m \in members' <=>
            ~(GrantOf(m).room = call[q].room /\ GrantOf(m).user = call[q].user)
      BY <2>2, <3>1 DEF GrantOf
    <3>3. Grants' = {g \in Grants : ~(g.room = call[q].room /\ g.user = call[q].user)}
      BY <2>2, <3>2 DEF Grants
    <3>4. Abstract!Leave(call[q].room, call[q].user)
      BY <2>2, <2>3, <3>3 DEF Abstract!Leave
    <3> QED
      BY <2>1, <3>4 DEF Abstract!Next
  <2> QED BY <2>4, <2>5
<1> QED
  BY <1>0, <1>1, <1>2, <1>3 DEF PhaseConsistent

\* ChatRoomService implements Membership: rooms are born with their ADMIN, a
\* private room grows only by an authorised invitation, nobody is in twice.
THEOREM Refinement == Spec => ImplementsMembership
<1>1. Init => Abstract!Init
  BY DEF Init, Abstract!Init, Grants, Invitations, Inviting, Pending
<1>2. ASSUME Consistent, [Next]_vars
      PROVE  [Abstract!Next]_Abstract!membershipVars
  <2>0. TypeOK /\ \A q \in Requests : PhaseConsistent(q)
    BY <1>2 DEF Consistent
  <2>1. CASE UNCHANGED vars
    BY <2>1, Invisible DEF vars, Inviting, Pending, InvitedBy
  <2>2. ASSUME NEW q \in Requests, NEW c \in Calls, Reject(q, c)
        PROVE  [Abstract!Next]_Abstract!membershipVars
    BY <2>0, <2>2, Invisible DEF Reject, tables, TypeOK, Inviting, Pending, InvitedBy
  <2>3. ASSUME NEW q \in Requests, SaveRoom(q) \/ SaveCreator(q)
        PROVE  [Abstract!Next]_Abstract!membershipVars
    BY <2>0, <2>3, Invisible
    DEF SaveRoom, SaveCreator, TypeOK, Inviting, Pending, InvitedBy
  <2>4. ASSUME NEW q \in Requests, InsertMember(q)
        PROVE  [Abstract!Next]_Abstract!membershipVars
    <3>1. CASE DuplicateKey(call[q].room, call[q].target)
      BY <1>2, <2>4, <3>1, GivingUp DEF InsertMember, Replies
    <3>2. CASE ~DuplicateKey(call[q].room, call[q].target)
      BY <2>0, <2>4, <3>2, Invisible
      DEF InsertMember, TypeOK, Inviting, Pending, InvitedBy
    <3> QED BY <3>1, <3>2
  <2>5. ASSUME NEW q \in Requests, DeleteMember(q)
        PROVE  [Abstract!Next]_Abstract!membershipVars
    <3>1. CASE ~(LoadedRow(q) \subseteq members)
      BY <1>2, <2>5, <3>1, GivingUp DEF DeleteMember, Replies, tables
    <3>2. CASE LoadedRow(q) \subseteq members
      BY <2>0, <2>5, <3>2, Invisible
      DEF DeleteMember, TypeOK, Inviting, Pending, InvitedBy, tables
    <3> QED BY <3>1, <3>2
  <2>6. ASSUME NEW q \in Requests, Rollback(q)
        PROVE  [Abstract!Next]_Abstract!membershipVars
    BY <1>2, <2>6, GivingUp DEF Rollback, Replies, tables
  <2>7. ASSUME NEW q \in Requests, FindEntry(q)
        PROVE  [Abstract!Next]_Abstract!membershipVars
    BY <2>0, <2>7, Invisible
    DEF FindEntry, tables, TypeOK, Inviting, Pending, InvitedBy
  <2> QED
    BY <1>2, <2>1, <2>2, <2>3, <2>4, <2>5, <2>6, <2>7, Beginning, Committing DEF Next
<1> QED
  BY <1>1, <1>2, AlwaysConsistent, PTL DEF Spec, ImplementsMembership, Abstract!Spec

===============================================================================
