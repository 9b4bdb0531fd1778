---------------------------- MODULE RoomMembership ----------------------------
(***************************************************************************)
(* ChatRoomService: createRoom, joinRoom, leaveRoom and inviteUser, run    *)
(* by concurrent request threads over the MySQL tables chat_rooms and      *)
(* chat_room_members.                                                      *)
(*                                                                         *)
(* Each handler is one @Transactional method. MySQL runs it at REPEATABLE  *)
(* READ (its default, which the application keeps): the first SELECT fixes *)
(* a snapshot and every other SELECT of the transaction reads it, while    *)
(* INSERT and DELETE act on the current rows, wait for row locks of other  *)
(* open transactions, and obey the unique key (room_id, user_id). All      *)
(* SELECTs of a handler therefore form one step; every write and the       *)
(* commit are steps of their own, and an open transaction may fail and     *)
(* roll back at any point (deadlock victim, lost connection, crash).       *)
(*                                                                         *)
(* An INSERT that finds an entry of its key in the unique index, be it     *)
(* uncommitted or deleted and not purged yet, checks it under a SHARED     *)
(* lock before it takes the exclusive one: several INSERTs of one key may  *)
(* hold that lock at once and then stand in each other's way.              *)
(***************************************************************************)
EXTENDS Naturals, FiniteSets

CONSTANTS
    Users,      \* registered users: the authenticated callers
    UserIds,    \* ids a request may name, registered or not
    Requests,   \* request threads
    NoUser,     \* the absent user
    MaxRooms,   \* bound on ids given out by chat_rooms.id
    MaxRows     \* bound on ids given out by chat_room_members.id

ASSUME UserAssumption == Users \subseteq UserIds /\ NoUser \notin UserIds
ASSUME BoundAssumption == MaxRooms \in Nat /\ MaxRows \in Nat

VARIABLES
    rooms,      \* committed rows of chat_rooms
    members,    \* committed rows of chat_room_members
    nextRoom,   \* AUTO_INCREMENT counter of chat_rooms
    nextRow,    \* AUTO_INCREMENT counter of chat_room_members
    pc,         \* where each request is in its handler
    call,       \* the call each request serves, none when it is idle
    reply,      \* what the last request of the thread was answered
    snap,       \* chat_room_members as the transaction reads it
    newRooms,   \* rooms the open transaction inserted
    inserted,   \* membership rows the open transaction inserted
    deleted     \* membership rows the open transaction deleted

tables == <<rooms, members, nextRoom, nextRow>>
transaction == <<snap, newRooms, inserted, deleted>>
vars == <<rooms, members, nextRoom, nextRow, pc, call, reply,
          snap, newRooms, inserted, deleted>>

RoomType == {"PUBLIC", "PRIVATE"}
MemberRole == {"ADMIN", "MEMBER"}
Ops == {"create", "join", "leave", "invite"}
Phases == {"idle", "begun", "checking", "roomSaved", "written"}

\* An error is an AppException with the code that Check says, or any other
\* exception, which is answered as INTERNAL_SERVER_ERROR.
Replies == {"none", "OK", "error"}

RoomIds == 1..MaxRooms

ChatRoom == [id : RoomIds, type : RoomType, createdBy : Users]
ChatRoomMember == [id : Nat, room : RoomIds, user : Users, role : MemberRole]

\* A call: who calls (user), on which room, for whom (target), and, for
\* createRoom, the requested type.
Call == [op : Ops \cup {"none"}, user : Users \cup {NoUser}, room : 0..MaxRooms,
         target : UserIds \cup {NoUser}, type : RoomType]

NoCall == [op |-> "none", user |-> NoUser, room |-> 0, target |-> NoUser,
           type |-> "PUBLIC"]

CreateRoomCalls ==
    {[op |-> "create", user |-> u, room |-> 0, target |-> u, type |-> t] :
        u \in Users, t \in RoomType}
RoomCalls(op) ==
    {[op |-> op, user |-> u, room |-> r, target |-> u, type |-> "PUBLIC"] :
        u \in Users, r \in RoomIds}
InviteCalls ==
    {[op |-> "invite", user |-> u, room |-> r, target |-> t,
      type |-> "PUBLIC"] : u \in Users, r \in RoomIds, t \in UserIds}
Calls == CreateRoomCalls \cup RoomCalls("join") \cup RoomCalls("leave")
            \cup InviteCalls

TypeOK ==
    /\ rooms \subseteq ChatRoom
    /\ members \subseteq ChatRoomMember
    /\ nextRoom \in Nat /\ nextRow \in Nat
    /\ pc \in [Requests -> Phases]
    /\ call \in [Requests -> Call]
    /\ reply \in [Requests -> Replies]
    /\ snap \in [Requests -> SUBSET ChatRoomMember]
    /\ newRooms \in [Requests -> SUBSET ChatRoom]
    /\ inserted \in [Requests -> SUBSET ChatRoomMember]
    /\ deleted \in [Requests -> SUBSET ChatRoomMember]

Init ==
    /\ rooms = {} /\ members = {}
    /\ nextRoom = 1 /\ nextRow = 1
    /\ pc = [q \in Requests |-> "idle"]
    /\ call = [q \in Requests |-> NoCall]
    /\ reply = [q \in Requests |-> "none"]
    /\ snap = [q \in Requests |-> {}]
    /\ newRooms = [q \in Requests |-> {}]
    /\ inserted = [q \in Requests |-> {}]
    /\ deleted = [q \in Requests |-> {}]

-------------------------------------------------------------------------------
(* The SELECTs of a handler, on the committed state that becomes its       *)
(* snapshot: the first check that fails decides the answer.                *)

existsByRoomIdAndUserId(r, u) == \E m \in members : m.room = r /\ m.user = u

findByRoomIdAndUserIdAndRole(r, u, role) ==
    {m \in members : m.room = r /\ m.user = u /\ m.role = role}

RoomsWithId(r) == {rm \in rooms : rm.id = r}

\* Self-service join of any room: the test of the room's type dropped.
JoinAnyRoom(c) ==
    IF RoomsWithId(c.room) = {} THEN "ROOM_NOT_FOUND"
    ELSE IF existsByRoomIdAndUserId(c.room, c.user) THEN "ALREADY_MEMBER"
    ELSE "OK"

JoinCheck(c) ==
    IF RoomsWithId(c.room) = {} THEN "ROOM_NOT_FOUND"
    ELSE IF \E rm \in RoomsWithId(c.room) : rm.type = "PRIVATE" THEN "FORBIDDEN"
    ELSE IF existsByRoomIdAndUserId(c.room, c.user) THEN "ALREADY_MEMBER"
    ELSE "OK"

LeaveCheck(c) ==
    IF ~existsByRoomIdAndUserId(c.room, c.user) THEN "ROOM_NOT_MEMBER" ELSE "OK"

\* Any member may invite: the ADMIN test replaced by a membership test.
AnyMemberMayInvite(c) ==
    IF ~existsByRoomIdAndUserId(c.room, c.user) THEN "FORBIDDEN"
    ELSE IF existsByRoomIdAndUserId(c.room, c.target) THEN "ALREADY_MEMBER"
    ELSE IF c.target \notin Users THEN "USER_NOT_FOUND"
    ELSE "OK"

\* The invited user is never looked up.
InviteUnknownUser(c) ==
    IF findByRoomIdAndUserIdAndRole(c.room, c.user, "ADMIN") = {} THEN "FORBIDDEN"
    ELSE IF existsByRoomIdAndUserId(c.room, c.target) THEN "ALREADY_MEMBER"
    ELSE "OK"

InviteCheck(c) ==
    IF findByRoomIdAndUserIdAndRole(c.room, c.user, "ADMIN") = {} THEN "FORBIDDEN"
    ELSE IF existsByRoomIdAndUserId(c.room, c.target) THEN "ALREADY_MEMBER"
    ELSE IF RoomsWithId(c.room) = {} THEN "ROOM_NOT_FOUND"
    ELSE IF c.target \notin Users THEN "USER_NOT_FOUND"
    ELSE "OK"

Check(c) == CASE c.op = "create" -> "OK"
              [] c.op = "join"   -> JoinCheck(c)
              [] c.op = "leave"  -> LeaveCheck(c)
              [] c.op = "invite" -> InviteCheck(c)

\* The bounds: rooms and membership rows already given out, or still to be
\* given out by requests on their way.
RoomBudget == nextRoom + Cardinality({q \in Requests :
                 pc[q] = "begun" /\ call[q].op = "create"}) <= MaxRooms
RowBudget == nextRow + Cardinality({q \in Requests :
                 /\ pc[q] \in {"begun", "checking", "roomSaved"}
                 /\ call[q].op # "leave"}) <= MaxRows
WithinBounds(c) ==
    /\ c.op = "create" => RoomBudget
    /\ c.op # "leave" => RowBudget

-------------------------------------------------------------------------------
(* The transaction of a request.                                           *)

Finish(q, answer) ==
    /\ pc' = [pc EXCEPT ![q] = "idle"]
    /\ reply' = [reply EXCEPT ![q] = answer]
    /\ call' = [call EXCEPT ![q] = NoCall]
    /\ snap' = [snap EXCEPT ![q] = {}]
    /\ newRooms' = [newRooms EXCEPT ![q] = {}]
    /\ inserted' = [inserted EXCEPT ![q] = {}]
    /\ deleted' = [deleted EXCEPT ![q] = {}]

\* The handler starts, reads its snapshot, and passes its checks ...
Begin(q, c) ==
    /\ pc[q] = "idle"
    /\ WithinBounds(c)
    /\ Check(c) = "OK"
    /\ pc' = [pc EXCEPT ![q] = "begun"]
    /\ call' = [call EXCEPT ![q] = c]
    /\ reply' = [reply EXCEPT ![q] = "none"]
    /\ snap' = [snap EXCEPT ![q] = members]
    /\ UNCHANGED <<tables, newRooms, inserted, deleted>>

\* ... or throws an AppException, which rolls the transaction back.
Reject(q, c) ==
    /\ pc[q] = "idle"
    /\ Check(c) # "OK"
    /\ reply' = [reply EXCEPT ![q] = "error"]
    /\ UNCHANGED <<tables, pc, call, transaction>>

\* Without @Transactional on createRoom, save commits the room at once.
SaveRoomCommitting(q) ==
    LET rm == [id |-> nextRoom, type |-> call[q].type, createdBy |-> call[q].user]
    IN
    /\ pc[q] = "begun" /\ call[q].op = "create"
    /\ rooms' = rooms \cup {rm}
    /\ newRooms' = [newRooms EXCEPT ![q] = {rm}]
    /\ nextRoom' = nextRoom + 1
    /\ pc' = [pc EXCEPT ![q] = "roomSaved"]
    /\ UNCHANGED <<members, nextRow, call, reply, snap, inserted, deleted>>

\* createRoom: chatRoomRepository.save(room), an immediate INSERT because the
\* id is generated by the database. (nextRoom \in RoomIds repeats RoomBudget.)
SaveRoom(q) ==
    LET rm == [id |-> nextRoom, type |-> call[q].type, createdBy |-> call[q].user]
    IN
    /\ pc[q] = "begun" /\ call[q].op = "create" /\ nextRoom \in RoomIds
    /\ newRooms' = [newRooms EXCEPT ![q] = {rm}]
    /\ nextRoom' = nextRoom + 1
    /\ pc' = [pc EXCEPT ![q] = "roomSaved"]
    /\ UNCHANGED <<rooms, members, nextRow, call, reply, snap, inserted, deleted>>

\* createRoom: memberRepository.save of the creator's ADMIN row. The room id is
\* not visible to anybody else, so nothing can block this INSERT.
SaveCreator(q) ==
    /\ pc[q] = "roomSaved"
    /\ \E rm \in newRooms[q] :
        inserted' = [inserted EXCEPT ![q] =
            {[id |-> nextRow, room |-> rm.id, user |-> call[q].user,
              role |-> "ADMIN"]}]
    /\ nextRow' = nextRow + 1
    /\ pc' = [pc EXCEPT ![q] = "written"]
    /\ UNCHANGED <<rooms, members, nextRoom, call, reply, snap, newRooms, deleted>>

SameKey(m, r, u) == m.room = r /\ m.user = u

\* A store that takes no row locks.
NeverLocked(q, r, u) == FALSE

\* A pessimistic read: every request that has read the key blocks the others.
ReaderLocks(p, r, u) ==
    /\ pc[p] \in {"begun", "checking", "written"}
    /\ call[p].room = r /\ call[p].target = u

\* An open transaction wrote the index entry (r, u): its lock is exclusive.
WriterLocks(p, r, u) == \E m \in inserted[p] \cup deleted[p] : SameKey(m, r, u)

KeyLocked(q, r, u) == \E p \in Requests \ {q} : WriterLocks(p, r, u)

\* A schema without the unique key (room_id, user_id).
NeverDuplicate(r, u) == FALSE

\* The unique key uq_room_user already has this entry.
DuplicateKey(r, u) == \E m \in members : SameKey(m, r, u)

\* The creator of a room gets ADMIN back when joining again.
RestoringOwner(q, r, u) ==
    [id |-> nextRow, room |-> r, user |-> u,
     role |-> IF \E rm \in rooms : rm.id = r /\ rm.createdBy = u
              THEN "ADMIN" ELSE "MEMBER"]

NewMember(q, r, u) ==
    [id |-> nextRow, room |-> r, user |-> u, role |-> "MEMBER"]

\* The INSERT of a member has found an entry of its key and asks for the shared
\* lock of the duplicate check. When a deleted entry is purged is not known, so
\* that any INSERT may find one.
FindEntry(q) ==
    /\ pc[q] = "begun" /\ call[q].op \in {"join", "invite"}
    /\ pc' = [pc EXCEPT ![q] = "checking"]
    /\ UNCHANGED <<tables, call, reply, transaction>>

\* It has that lock as soon as nobody has the exclusive one, and keeps it until
\* its transaction ends.
SharesKey(p, r, u) ==
    /\ pc[p] = "checking" /\ call[p].room = r /\ call[p].target = u
    /\ ~KeyLocked(p, r, u)

KeyShared(q, r, u) == \E p \in Requests \ {q} : SharesKey(p, r, u)

\* joinRoom and inviteUser: memberRepository.save. A duplicate is a
\* DataIntegrityViolationException, not an AppException; it needs the shared
\* lock only, the new entry needs all others to have given it up.
InsertMember(q) ==
    LET r == call[q].room
        u == call[q].target IN
    /\ pc[q] \in {"begun", "checking"} /\ call[q].op \in {"join", "invite"}
    /\ ~KeyLocked(q, r, u)
    /\ nextRow' = nextRow + 1
    /\ UNCHANGED <<rooms, members, nextRoom>>
    /\ \/ /\ ~DuplicateKey(r, u) /\ ~KeyShared(q, r, u)
          /\ inserted' = [inserted EXCEPT ![q] = {NewMember(q, r, u)}]
          /\ pc' = [pc EXCEPT ![q] = "written"]
          /\ UNCHANGED <<call, reply, snap, newRooms, deleted>>
       \/ /\ DuplicateKey(r, u)
          /\ Finish(q, "error")

\* A bulk delete by room and user: whatever row has that key now.
CurrentRow(q) == {m \in members : SameKey(m, call[q].room, call[q].user)}

\* deleteByRoomIdAndUserId loads the entity, from the snapshot, and removes it
\* by its id.
LoadedRow(q) == {m \in snap[q] : SameKey(m, call[q].room, call[q].user)}

\* leaveRoom: the DELETE is flushed at the end of the method and needs the
\* exclusive lock of the row's entry. It finds no row when a concurrent leave
\* was faster (a stale-state exception).
DeleteMember(q) ==
    LET r == call[q].room
        u == call[q].user IN
    /\ pc[q] = "begun" /\ call[q].op = "leave"
    /\ UNCHANGED tables
    /\ \/ /\ LoadedRow(q) \subseteq members
          /\ ~KeyLocked(q, r, u) /\ ~KeyShared(q, r, u)
          /\ deleted' = [deleted EXCEPT ![q] = LoadedRow(q)]
          /\ pc' = [pc EXCEPT ![q] = "written"]
          /\ UNCHANGED <<call, reply, snap, newRooms, inserted>>
       \/ /\ ~(LoadedRow(q) \subseteq members)
          /\ Finish(q, "error")

Commit(q) ==
    /\ pc[q] = "written"
    /\ rooms' = rooms \cup newRooms[q]
    /\ members' = (members \ deleted[q]) \cup inserted[q]
    /\ Finish(q, "OK")
    /\ UNCHANGED <<nextRoom, nextRow>>

Rollback(q) ==
    /\ pc[q] \in {"begun", "checking", "roomSaved", "written"}
    /\ Finish(q, "error")
    /\ UNCHANGED tables

\* Rival INSERTs that share the key wait for each other. InnoDB detects it at
\* once and rolls one of them back.
Deadlocked(q) ==
    LET r == call[q].room
        u == call[q].target IN
    SharesKey(q, r, u) /\ KeyShared(q, r, u) /\ ~DuplicateKey(r, u)

Victim(q) == Deadlocked(q) /\ Rollback(q)

Next ==
    \E q \in Requests :
        \/ \E c \in Calls : Begin(q, c) \/ Reject(q, c)
        \/ SaveRoom(q) \/ SaveCreator(q)
        \/ FindEntry(q) \/ InsertMember(q) \/ DeleteMember(q)
        \/ Commit(q) \/ Rollback(q)

Spec == Init /\ [][Next]_vars

\* A request thread keeps running. InnoDB grants a row lock to its waiters in
\* the order they came, hence strong fairness for the steps that may wait, and
\* rolls one request back when it finds a deadlock.
Fairness ==
    \A q \in Requests :
        /\ WF_vars(SaveRoom(q) \/ SaveCreator(q) \/ FindEntry(q) \/ Commit(q))
        /\ SF_vars(InsertMember(q) \/ DeleteMember(q) \/ Victim(q))

FairSpec == Spec /\ Fairness

-------------------------------------------------------------------------------
(* What must hold.                                                         *)

Pending(q) == pc[q] \in {"begun", "checking", "roomSaved", "written"}

\* At most one membership per user and room, however the checks of concurrent
\* joins and invitations interleave: existsByRoomIdAndUserId and save are not
\* atomic, only the unique key closes the gap.
UniqueMembership ==
    \A m, n \in members : m.room = n.room /\ m.user = n.user => m = n

HasAdmin(r) == \E m \in members : m.room = r /\ m.role = "ADMIN"

\* A room that lost its ADMIN stays without one: leaveRoom lets the ADMIN go
\* and neither joining again nor any invitation gives the role back, so such a
\* room can never invite again.
AdminlessForever ==
    [][\A rm \in rooms : ~HasAdmin(rm.id) => ~HasAdmin(rm.id)']_vars

\* A private room gets a new row only from an invitation whose inviter was its
\* ADMIN when the request read its snapshot, even if that ADMIN has left since.
PrivateGrowsOnlyByAdminInvite ==
    [][\A m \in members' \ members :
        (\E rm \in rooms : rm.id = m.room /\ rm.type = "PRIVATE") =>
            \E q \in Requests :
                /\ call[q].op = "invite" /\ call[q].target = m.user
                /\ \E a \in snap[q] : SameKey(a, m.room, call[q].user)
                                     /\ a.role = "ADMIN"]_vars

\* leaveRoom removes the row its caller read and no later one: a slow leave
\* that ends after its user left and joined again takes nothing away.
LeaveRemovesOnlyWhatItRead ==
    [][\A m \in members \ members' :
        \E q \in Requests :
            call[q].op = "leave" /\ call[q].user = m.user /\ m \in snap[q]]_vars

\* Nobody ever sees a room without the ADMIN row of its creator: both INSERTs of
\* createRoom commit together.
RoomBornWithAdmin ==
    [][\A rm \in rooms' \ rooms :
        \E m \in members' : SameKey(m, rm.id, rm.createdBy)
                            /\ m.role = "ADMIN"]_vars

\* The index entries a request has written.
Written(q) == inserted[q] \cup deleted[q]
NothingWritten(q) == newRooms[q] = {} /\ inserted[q] = {} /\ deleted[q] = {}

\* The index entry of a row that a join or an invitation is to write.
InvitedBy(q) == [room |-> call[q].room, user |-> call[q].target]

\* For whose transactions the next statement of a request has to wait: an INSERT
\* that has found an entry waits for the writer of the entry and then, unless it
\* is a duplicate, for those that share it; a DELETE for both.
WaitsFor(q) ==
    LET r == call[q].room
        u == call[q].target IN
    {p \in Requests \ {q} :
        \/ /\ \/ pc[q] = "checking"
              \/ pc[q] = "begun" /\ call[q].op = "leave" /\ LoadedRow(q) \subseteq members
           /\ WriterLocks(p, r, u)
        \/ /\ \/ SharesKey(q, r, u) /\ ~DuplicateKey(r, u)
              \/ pc[q] = "begun" /\ call[q].op = "leave" /\ LoadedRow(q) \subseteq members
           /\ SharesKey(p, r, u)}

\* Whom a request waits for can go on, or is one of several INSERTs of one key
\* that share its entry: these deadlock among themselves, and one of them is
\* rolled back before it has written anything. No other cycle of waits arises,
\* so that a deadlock never costs a leave or a room.
OnlyRivalInsertsDeadlock ==
    \A q \in Requests : \A p \in WaitsFor(q) :
        \/ WaitsFor(p) = {}
        \/ /\ Deadlocked(p) /\ NothingWritten(p)
           /\ \A o \in WaitsFor(p) : Deadlocked(o) /\ InvitedBy(o) = InvitedBy(p)

\* Every request is answered: row locks are held by requests that finish, and a
\* deadlock is broken.
RequestsFinish == \A q \in Requests : pc[q] = "begun" ~> pc[q] = "idle"

\* What the open transactions and the tables owe each other, which makes
\* UniqueMembership and the refinement inductive.

\* Rooms exist before they have members; ids of uncommitted rooms are fresh.
RoomsConsistent ==
    /\ \A rm, other \in rooms : rm.id = other.id => rm = other
    /\ \A rm \in rooms : rm.id < nextRoom
    /\ \A m \in members : \E rm \in rooms : rm.id = m.room
    /\ \A q \in Requests : \A rm \in newRooms[q] :
        /\ rm.id < nextRoom
        /\ \A other \in rooms : other.id # rm.id
    /\ \A p, q \in Requests : p # q =>
        \A rm \in newRooms[p], other \in newRooms[q] : rm.id # other.id

\* A row without its id.
GrantOf(m) == [room |-> m.room, user |-> m.user, role |-> m.role]

\* No two open transactions hold the same index entry; an uncommitted row has
\* no committed rival, and a row marked for deletion is still there.
KeysExclusive ==
    /\ \A p, q \in Requests : p # q =>
        \A m \in Written(p), n \in Written(q) : ~SameKey(m, n.room, n.user)
    /\ \A q \in Requests : \A m \in inserted[q] : ~DuplicateKey(m.room, m.user)
    /\ \A q \in Requests : deleted[q] \subseteq members

\* What a request wrote, by its operation and how far it has come.
Wrote(q, grant) ==
    \E m \in inserted[q] : inserted[q] = {m} /\ GrantOf(m) = grant
CreateWrote(q) ==
    /\ deleted[q] = {}
    /\ \E rm \in ChatRoom :
        /\ newRooms[q] = {rm}
        /\ rm.createdBy = call[q].user
        /\ \/ pc[q] = "roomSaved" /\ inserted[q] = {}
           \/ /\ pc[q] = "written"
              /\ Wrote(q, [room |-> rm.id, user |-> rm.createdBy, role |-> "ADMIN"])
MemberWritten(q) ==
    /\ newRooms[q] = {} /\ deleted[q] = {}
    /\ Wrote(q, [room |-> call[q].room, user |-> call[q].target,
                 role |-> "MEMBER"])

\* The answers of the SELECTs that stay true, or stay true of the snapshot.
CheckedJoin(q) ==
    /\ call[q].target = call[q].user
    /\ \E rm \in rooms : rm.id = call[q].room /\ rm.type = "PUBLIC"
CheckedInvite(q) ==
    /\ call[q].target \in Users
    /\ \E rm \in rooms : rm.id = call[q].room
    /\ \E a \in snap[q] : SameKey(a, call[q].room, call[q].user)
                         /\ a.role = "ADMIN"

PhaseConsistent(q) ==
    \/ pc[q] = "idle" /\ NothingWritten(q)
    \/ /\ call[q].op = "create" /\ call[q].user \in Users
       /\ \/ pc[q] = "begun" /\ NothingWritten(q)
          \/ CreateWrote(q)
    \/ /\ \/ call[q].op = "join" /\ CheckedJoin(q)
          \/ call[q].op = "invite" /\ CheckedInvite(q)
       /\ call[q].user \in Users /\ call[q].room \in RoomIds
       /\ \/ pc[q] \in {"begun", "checking"} /\ NothingWritten(q)
          \/ pc[q] = "written" /\ MemberWritten(q)
    \/ /\ call[q].op = "leave"
       /\ call[q].user \in Users /\ call[q].room \in RoomIds
       /\ newRooms[q] = {} /\ inserted[q] = {}
       /\ \/ pc[q] = "begun" /\ deleted[q] = {}
          \/ pc[q] = "written" /\ deleted[q] = LoadedRow(q)

Consistent ==
    /\ TypeOK
    /\ RoomsConsistent
    /\ KeysExclusive
    /\ \A q \in Requests : PhaseConsistent(q)
    /\ UniqueMembership

\* The transactions together keep the promise of Membership: rows without their
\* ids are the grants, and invite requests past their check are the
\* authorised invitations.
Inviting(q) == Pending(q) /\ call[q].op = "invite"

Grants == {GrantOf(m) : m \in members}
Invitations == {InvitedBy(q) : q \in {p \in Requests : Inviting(p)}}

Abstract == INSTANCE Membership WITH
    RoomIds <- RoomIds, grants <- Grants, invited <- Invitations

ImplementsMembership == Abstract!Spec

===============================================================================
