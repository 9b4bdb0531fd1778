------------------------------ MODULE Membership ------------------------------
(***************************************************************************)
(* What room membership promises, without the transactions that provide    *)
(* it: rooms are created together with their administrator, anyone may     *)
(* join a public room, and a private room grows only through an invitation *)
(* that was authorised by somebody who was an ADMIN at that moment.        *)
(*                                                                         *)
(* RoomMembership (ChatRoomService over MySQL) is shown to implement this  *)
(* module; MessageDelivery uses it as its environment.                     *)
(***************************************************************************)
EXTENDS Naturals

CONSTANTS
    Users,      \* registered users
    RoomIds     \* ids a chat_rooms row may get

VARIABLES
    rooms,      \* chat_rooms: a set of [id, type, createdBy]
    grants,     \* chat_room_members without row ids: [room, user, role]
    invited     \* invitations an ADMIN authorised and nobody settled yet

membershipVars == <<rooms, grants, invited>>

RoomType == {"PUBLIC", "PRIVATE"}
MemberRole == {"ADMIN", "MEMBER"}

Room == [id : RoomIds, type : RoomType, createdBy : Users]
Grant == [room : RoomIds, user : Users, role : MemberRole]
Invitation == [room : RoomIds, user : Users]

TypeOK ==
    /\ rooms \subseteq Room
    /\ grants \subseteq Grant
    /\ invited \subseteq Invitation

RoomExists(r) == \E rm \in rooms : rm.id = r
IsMember(r, u) == \E g \in grants : g.room = r /\ g.user = u
IsAdmin(r, u) == [room |-> r, user |-> u, role |-> "ADMIN"] \in grants
AsMember(r, u) == [room |-> r, user |-> u, role |-> "MEMBER"]

Init ==
    /\ rooms = {}
    /\ grants = {}
    /\ invited = {}

\* A room appears together with its creator as ADMIN.
Create(rm) ==
    /\ ~RoomExists(rm.id)
    /\ rooms' = rooms \cup {rm}
    /\ grants' = grants \cup
                 {[room |-> rm.id, user |-> rm.createdBy, role |-> "ADMIN"]}
    /\ UNCHANGED invited

\* Self-service join of a public room.
Join(r, u) ==
    /\ \E rm \in rooms : rm.id = r /\ rm.type = "PUBLIC"
    /\ ~IsMember(r, u)
    /\ grants' = grants \cup {AsMember(r, u)}
    /\ UNCHANGED <<rooms, invited>>

\* A current ADMIN decides that u may enter the room.
Authorise(r, admin, u) ==
    /\ IsAdmin(r, admin)
    /\ ~IsMember(r, u)
    /\ invited' = invited \cup {[room |-> r, user |-> u]}
    /\ UNCHANGED <<rooms, grants>>

\* The invitation takes effect. Two ADMIN requests for the same user are one
\* invitation here, so it may survive for the second of them.
Admit(r, u) ==
    /\ [room |-> r, user |-> u] \in invited
    /\ ~IsMember(r, u)
    /\ grants' = grants \cup {AsMember(r, u)}
    /\ invited' \in {invited, invited \ {[room |-> r, user |-> u]}}
    /\ UNCHANGED rooms

\* The invitation comes to nothing.
Withdraw(r, u) ==
    /\ invited' = invited \ {[room |-> r, user |-> u]}
    /\ UNCHANGED <<rooms, grants>>

Leave(r, u) ==
    /\ grants' = {g \in grants : ~(g.room = r /\ g.user = u)}
    /\ UNCHANGED <<rooms, invited>>

Next ==
    \/ \E rm \in Room : Create(rm)
    \/ \E r \in RoomIds, u \in Users :
        \/ Join(r, u)
        \/ \E a \in Users : Authorise(r, a, u)
        \/ Admit(r, u)
        \/ Withdraw(r, u)
        \/ Leave(r, u)

Spec == Init /\ [][Next]_membershipVars

===============================================================================
