----------------------------- MODULE RefreshTokens -----------------------------
(***************************************************************************)
(* AuthService: registration, login, rotation of refresh tokens and logout, *)
(* as calls of concurrent request threads over MySQL (users) and Redis     *)
(* (refresh_token:{userId}:{tokenId}). Every Redis command and every SQL   *)
(* statement is a step of its own, since nothing holds them together.      *)
(*                                                                         *)
(* A call issues at most one refresh token and its tokenId is a random     *)
(* UUID, so the call itself names the token. With it goes an access token, *)
(* whose subject is the user's name. It is stateless; it matters here      *)
(* because refresh does not ask for the type of what it is given.          *)
(***************************************************************************)
EXTENDS Naturals

CONSTANTS
    Calls,      \* calls of the API over time, and the tokens they issue
    Names,      \* user names; each stands for a name and its e-mail address
    spells,     \* spells[n]: the user id that name n reads as, 0 if none
    Registered, \* rows of users at the start
    FirstFree,  \* AUTO_INCREMENT counter of users at the start
    MaxUser     \* bound on ids given out by users.id

UserIds == 1..MaxUser
User == [id : UserIds, name : Names]

ASSUME RegisteredAssumption ==
    /\ Registered \subseteq User
    /\ \A a, b \in Registered : a.id = b.id \/ a.name = b.name => a = b
ASSUME SpellsAssumption == spells \in [Names -> UserIds \cup {0}]
ASSUME IdAssumption ==
    /\ MaxUser \in Nat /\ FirstFree \in Nat \ {0}
    /\ \A u \in Registered : u.id < FirstFree

VARIABLES
    users,      \* committed rows of users
    nextUser,   \* AUTO_INCREMENT counter of users
    pc,         \* where each call is
    newUser,    \* the User entity a registration works on, id 0 until saved
    owner,      \* owner[q]: the user the token of q is for, 0 before that
    token,      \* token[q]: the token q presents, q itself if none
    claim,      \* claim[q]: the user id in the token q presents, 0 if none
    found,      \* found[q]: what KEYS returned to q
    late,       \* history: calls that present a token whose key was gone
    keys,       \* Redis: tokens whose key exists
    ended,      \* history: why the key of a token went away
    expired,    \* tokens past the exp claim
    held        \* tokens a client has received

threads == <<pc, newUser, owner, token, claim, found, late>>
tables == <<users, nextUser>>
vars == <<users, nextUser, pc, newUser, owner, token, claim, found, late, keys, ended,
          expired, held>>

Phases == {"idle", "checked", "presented", "absent", "scanned", "found", "consumed",
           "issuing", "stored", "ok", "refused", "conflict", "failed"}
Over == {"ok", "refused", "conflict", "failed"}
Reasons == {"live", "refreshed", "loggedOut", "revoked", "expired"}

TypeOK ==
    /\ users \subseteq User /\ nextUser \in Nat
    /\ pc \in [Calls -> Phases]
    /\ newUser \in [Calls -> SUBSET [id : 0..MaxUser, name : Names]]
    /\ owner \in [Calls -> 0..MaxUser]
    /\ token \in [Calls -> Calls] /\ claim \in [Calls -> 0..MaxUser]
    /\ found \in [Calls -> SUBSET Calls]
    /\ late \subseteq Calls
    /\ keys \subseteq Calls
    /\ ended \in [Calls -> Reasons]
    /\ expired \subseteq Calls /\ held \subseteq Calls

Init ==
    /\ users = Registered
    /\ nextUser = FirstFree
    /\ pc = [q \in Calls |-> "idle"]
    /\ newUser = [q \in Calls |-> {}]
    /\ owner = [q \in Calls |-> 0]
    /\ token = [q \in Calls |-> q] /\ claim = [q \in Calls |-> 0]
    /\ found = [q \in Calls |-> {}]
    /\ late = {} /\ keys = {}
    /\ ended = [t \in Calls |-> "live"]
    /\ expired = {} /\ held = {}

UserExists(u) == \E row \in users : row.id = u

NameTaken(n) == \E row \in users : row.name = n

Goto(q, phase) == pc' = [pc EXCEPT ![q] = phase]

\* The keys in T are deleted, if they are there.
Remove(T, why) ==
    /\ keys' = keys \ T
    /\ ended' = [t \in Calls |-> IF t \in keys \cap T THEN why ELSE ended[t]]

-------------------------------------------------------------------------------
(* register: one MySQL transaction with the Redis command inside.          *)

BeginRegister(q, n) ==
    /\ pc[q] = "idle" /\ ~NameTaken(n)
    /\ newUser' = [newUser EXCEPT ![q] = {[id |-> 0, name |-> n]}]
    /\ Goto(q, "checked")
    /\ UNCHANGED <<tables, owner, token, claim, found, late, keys, ended, expired, held>>

\* The INSERT waits for an open transaction that inserted the same name.
NameLocked(n) == \E p \in Calls : pc[p] # "checked" /\ \E row \in newUser[p] : row.name = n

\* save on an entity whose generated id is never read back.
InsertUserWithoutId(q) ==
    /\ pc[q] = "checked"
    /\ \E u \in newUser[q] : ~NameLocked(u.name) /\ ~NameTaken(u.name)
    /\ nextUser' = nextUser + 1
    /\ Goto(q, "issuing")
    /\ UNCHANGED <<users, newUser, owner, token, claim, found, late, keys, ended, expired, held>>

\* The INSERT into a schema without the unique keys.
InsertUserWithoutIndex(q) ==
    /\ pc[q] = "checked" /\ nextUser \in UserIds
    /\ \E u \in newUser[q] : newUser' = [newUser EXCEPT ![q] = {[u EXCEPT !.id = nextUser]}]
    /\ owner' = [owner EXCEPT ![q] = nextUser]
    /\ nextUser' = nextUser + 1
    /\ Goto(q, "issuing")
    /\ UNCHANGED <<users, token, claim, found, late, keys, ended, expired, held>>

\* userRepository.save: the unique keys hold against committed rows.
InsertUser(q) ==
    /\ pc[q] = "checked" /\ nextUser \in UserIds
    /\ \E u \in newUser[q] :
        /\ ~NameLocked(u.name) /\ ~NameTaken(u.name)
        /\ newUser' = [newUser EXCEPT ![q] = {[u EXCEPT !.id = nextUser]}]
    /\ owner' = [owner EXCEPT ![q] = nextUser]
    /\ nextUser' = nextUser + 1
    /\ Goto(q, "issuing")
    /\ UNCHANGED <<users, token, claim, found, late, keys, ended, expired, held>>

\* The name was taken after the check: DataIntegrityViolationException.
InsertConflicts(q) ==
    /\ pc[q] = "checked"
    /\ \E u \in newUser[q] : ~NameLocked(u.name) /\ NameTaken(u.name)
    /\ newUser' = [newUser EXCEPT ![q] = {}]
    /\ Goto(q, "conflict")
    /\ UNCHANGED <<tables, owner, token, claim, found, late, keys, ended, expired, held>>

\* The proxy around register commits, after the tokens are in Redis.
CommitUser(q) ==
    /\ pc[q] = "stored" /\ newUser[q] # {}
    /\ users' = users \cup newUser[q]
    /\ newUser' = [newUser EXCEPT ![q] = {}]
    /\ UNCHANGED <<nextUser, pc, owner, token, claim, found, late, keys, ended, expired, held>>

-------------------------------------------------------------------------------
(* login: the credentials are right; otherwise nothing changes.            *)

BeginLogin(q, u) ==
    /\ pc[q] = "idle" /\ UserExists(u)
    /\ owner' = [owner EXCEPT ![q] = u]
    /\ Goto(q, "issuing")
    /\ UNCHANGED <<tables, newUser, token, claim, found, late, keys, ended, expired, held>>

-------------------------------------------------------------------------------
(* refresh, on a token that parses and whose subject reads as a user id;   *)
(* any other is refused on the spot.                                       *)

BeginRefresh(q, t) ==
    /\ pc[q] = "idle" /\ t \in held \ expired
    /\ token' = [token EXCEPT ![q] = t]
    /\ claim' = [claim EXCEPT ![q] = owner[t]]
    /\ late' = late \cup (IF ended[t] # "live" THEN {q} ELSE {})
    /\ Goto(q, "presented")
    /\ UNCHANGED <<tables, newUser, owner, found, keys, ended, expired, held>>

\* The same with the access token that came with t, which lives no longer than
\* t: its subject is a name, and a name of digits is read as a user id.
BeginRefreshByAccess(q, t) ==
    /\ pc[q] = "idle" /\ t \in held \ expired
    /\ \E row \in users :
        /\ row.id = owner[t] /\ spells[row.name] # 0
        /\ claim' = [claim EXCEPT ![q] = spells[row.name]]
    /\ Goto(q, "presented")
    /\ UNCHANGED <<tables, newUser, owner, token, found, late, keys, ended, expired, held>>

\* An access token has no tokenId, and the key refresh_token:{userId}:null is
\* never set: q itself is no token yet.
HasKey(q) ==
    /\ pc[q] = "presented"
    /\ Goto(q, IF token[q] \in keys THEN "found" ELSE "absent")
    /\ UNCHANGED <<tables, newUser, owner, token, claim, found, late, keys, ended, expired, held>>

\* The pattern refresh_token:{userId}* without the colon after the id.
KeysByPrefix(u) == {t \in keys : owner[t] = u \/ owner[t] \div 10 = u}

\* KEYS refresh_token:{userId}:*
KeysOf(u) == {t \in keys : owner[t] = u}

\* Only the key of the presented token is looked for.
ScanKeysOfToken(q) ==
    /\ pc[q] = "absent"
    /\ found' = [found EXCEPT ![q] = keys \cap {token[q]}]
    /\ Goto(q, "scanned")
    /\ UNCHANGED <<tables, newUser, owner, token, claim, late, keys, ended, expired, held>>

\* No key: the token is taken for reused. KEYS first ...
ScanKeys(q) ==
    /\ pc[q] = "absent"
    /\ found' = [found EXCEPT ![q] = KeysOf(claim[q])]
    /\ Goto(q, "scanned")
    /\ UNCHANGED <<tables, newUser, owner, token, claim, late, keys, ended, expired, held>>

\* ... then one DEL for what KEYS returned, if anything.
DeleteScanned(q) ==
    /\ pc[q] = "scanned"
    /\ Remove(found[q], "revoked")
    /\ found' = [found EXCEPT ![q] = {}]
    /\ Goto(q, "refused")
    /\ UNCHANGED <<tables, newUser, owner, token, claim, late, expired, held>>

\* A rotation that leaves the old key to its TTL.
KeepKey(q) ==
    /\ pc[q] = "found"
    /\ Goto(q, "consumed")
    /\ UNCHANGED <<tables, newUser, owner, token, claim, found, late, keys, ended, expired, held>>

\* The rotation: the old key goes before the new one is stored.
DeleteKey(q) ==
    /\ pc[q] = "found"
    /\ Remove({token[q]}, "refreshed")
    /\ Goto(q, "consumed")
    /\ UNCHANGED <<tables, newUser, owner, token, claim, found, late, expired, held>>

\* findById; the second disjunct is USER_NOT_FOUND.
FindUser(q) ==
    /\ pc[q] = "consumed"
    /\ \/ /\ UserExists(claim[q])
          /\ owner' = [owner EXCEPT ![q] = claim[q]]
          /\ Goto(q, "issuing")
       \/ /\ ~UserExists(claim[q])
          /\ Goto(q, "refused")
          /\ UNCHANGED owner
    /\ UNCHANGED <<tables, newUser, token, claim, found, late, keys, ended, expired, held>>

-------------------------------------------------------------------------------
(* logout: its one command. An expired token is ignored, and an access     *)
(* token names a key that is never there.                                  *)

Logout(q, t) ==
    /\ pc[q] = "idle" /\ t \in held \ expired
    /\ token' = [token EXCEPT ![q] = t]
    /\ claim' = [claim EXCEPT ![q] = owner[t]]
    /\ Remove({t}, "loggedOut")
    /\ Goto(q, "ok")
    /\ UNCHANGED <<tables, newUser, owner, found, late, expired, held>>

-------------------------------------------------------------------------------
(* The end of login, register and refresh.                                 *)

\* The new key also renews the key of the token it replaces.
StoreBothTokens(q) ==
    /\ pc[q] = "issuing"
    /\ keys' = keys \cup {q, token[q]}
    /\ Goto(q, "stored")
    /\ UNCHANGED <<tables, newUser, owner, token, claim, found, late, ended, expired, held>>

\* buildAndStoreTokens.
StoreToken(q) ==
    /\ pc[q] = "issuing"
    /\ keys' = keys \cup {q}
    /\ Goto(q, "stored")
    /\ UNCHANGED <<tables, newUser, owner, token, claim, found, late, ended, expired, held>>

\* The response is sent from inside the transaction.
RespondEarly(q) ==
    /\ pc[q] = "stored"
    /\ held' = held \cup {q}
    /\ Goto(q, "ok")
    /\ UNCHANGED <<tables, newUser, owner, token, claim, found, late, keys, ended, expired>>

\* The client receives the response.
Respond(q) ==
    /\ pc[q] = "stored" /\ newUser[q] = {}
    /\ held' = held \cup {q}
    /\ Goto(q, "ok")
    /\ UNCHANGED <<tables, newUser, owner, token, claim, found, late, keys, ended, expired>>

\* A command fails, the thread dies or the response is lost: the transaction
\* of register is rolled back, what Redis did stays. A command that times out
\* after it took effect is that command's step and this one.
Fail(q) ==
    /\ pc[q] \notin Over \cup {"idle"}
    /\ newUser' = [newUser EXCEPT ![q] = {}]
    /\ found' = [found EXCEPT ![q] = {}]
    /\ Goto(q, "failed")
    /\ UNCHANGED <<tables, owner, token, claim, late, keys, ended, expired, held>>

Step(q) ==
    \/ InsertUser(q) \/ InsertConflicts(q) \/ CommitUser(q)
    \/ HasKey(q) \/ ScanKeys(q) \/ DeleteScanned(q) \/ DeleteKey(q) \/ FindUser(q)
    \/ StoreToken(q) \/ Respond(q)

-------------------------------------------------------------------------------
(* Time. The JWT is made before the key and with the same lifetime, so it  *)
(* is past its exp when Redis drops the key.                               *)

Expire(t) ==
    /\ t \in (held \cup keys) \ expired
    /\ expired' = expired \cup {t}
    /\ UNCHANGED <<tables, threads, keys, ended, held>>

KeyExpires(t) ==
    /\ t \in expired \cap keys
    /\ Remove({t}, "expired")
    /\ UNCHANGED <<tables, threads, expired, held>>

Next ==
    \/ \E q \in Calls :
        \/ \E n \in Names : BeginRegister(q, n)
        \/ \E u \in UserIds : BeginLogin(q, u)
        \/ \E t \in held :
            BeginRefresh(q, t) \/ BeginRefreshByAccess(q, t) \/ Logout(q, t)
        \/ Step(q) \/ Fail(q)
    \/ \E t \in Calls : Expire(t) \/ KeyExpires(t)

Spec == Init /\ [][Next]_vars

\* Threads run to their end.
FairSpec == Spec /\ \A q \in Calls : WF_vars(Step(q))

-------------------------------------------------------------------------------
(* What must hold.                                                         *)

\* Once the key of a token is gone, through whatever call, a refresh begun
\* later with that token is refused: no interleaving brings the key back.
EndedTokenIsRefused ==
    \A q \in late : pc[q] \in {"presented", "absent", "scanned", "refused", "failed"}

\* A revocation, a rotation or a logout ends sessions of no other user than the
\* one whose id is in the token presented.
OnlyNamedSessionsEnd ==
    [][\A t \in keys \ keys' :
        \/ t \in expired
        \/ \E q \in Calls : pc'[q] # pc[q] /\ claim'[q] = owner[t]]_vars

\* A token in a client's hands is for a committed user, although register puts
\* it into Redis before it commits; so refresh never misses its user.
HeldTokenHasUser == \A t \in held : UserExists(owner[t])

\* Two registrations that both passed the check do not both succeed.
NamesAreUnique == \A a, b \in users : a.id = b.id \/ a.name = b.name => a = b

\* What the calls owe each other, which makes the above inductive.

\* A token whose key is or was there; its owner is settled.
Known(t) == t \in keys \/ ended[t] # "live"
Issued(t) == pc[t] \in {"stored", "ok", "failed"}

TokensConsistent ==
    /\ \A t \in keys : Issued(t) /\ ended[t] = "live" /\ owner[t] # 0
    /\ \A t \in Calls : ended[t] # "live" => Issued(t)
    /\ \A t \in held : pc[t] = "ok"
    /\ \A t \in Calls : t \in held \/ pc[t] = "stored" => Known(t)
    /\ \A q \in late : ended[token[q]] # "live"

CallConsistent(q) ==
    /\ pc[q] \in {"idle", "checked"} => token[q] = q /\ claim[q] = 0
    /\ token[q] # q => token[q] \in held /\ claim[q] = owner[token[q]]
    /\ pc[q] \in {"presented", "absent", "scanned"} => claim[q] # 0
    /\ pc[q] \in {"found", "consumed"} => token[q] # q
    /\ token[q] # q /\ (Known(q) \/ pc[q] \in {"consumed", "issuing"})
           => ended[token[q]] # "live"
    /\ pc[q] = "issuing" /\ token[q] # q => owner[q] = owner[token[q]]
    /\ \A t \in found[q] : Issued(t) /\ owner[t] = claim[q]
    /\ found[q] # {} => pc[q] = "scanned"
    /\ pc[q] \in {"issuing", "stored"} =>
           \/ newUser[q] = {} /\ UserExists(owner[q])
           \/ \E u \in newUser[q] : newUser[q] = {u} /\ u.id = owner[q]
CallsConsistent == \A q \in Calls : CallConsistent(q)

\* Whose id may be in a token that came with t: the refresh token names its
\* owner, the access token whom the owner's name spells.
CanName(t, u) == owner[t] = u \/ \E row \in users : row.id = owner[t] /\ spells[row.name] = u
ClaimsConsistent ==
    \A q \in Calls : claim[q] # 0 => \E t \in held : CanName(t, claim[q])

UsersConsistent ==
    /\ \A u \in users : u.id < nextUser
    /\ \A q \in Calls :
        /\ newUser[q] # {} => pc[q] \in {"checked", "issuing", "stored"}
        /\ pc[q] # "checked" => \A u \in newUser[q] :
               /\ u.id \in UserIds /\ u.id < nextUser
               /\ \A v \in users : v.id # u.id /\ v.name # u.name
    /\ \A p, q \in Calls : p # q /\ pc[p] # "checked" /\ pc[q] # "checked" =>
        \A u \in newUser[p], v \in newUser[q] : u.id # v.id /\ u.name # v.name

SessionsConsistent ==
    /\ TypeOK
    /\ TokensConsistent
    /\ CallsConsistent
    /\ ClaimsConsistent
    /\ UsersConsistent
    /\ EndedTokenIsRefused
    /\ HeldTokenHasUser
    /\ NamesAreUnique

\* The service keeps the promise of TokenStore: no interleaving and no failure
\* revives a token, gives one to an unknown user, ends a session that no token of
\* the client names, or leaves a token alive beside its successor.
RegisteredUsers == {[id |-> u.id, spelled |-> spells[u.name]] : u \in users}
PhaseOf(t) == IF t \in keys THEN "live" ELSE IF Known(t) THEN "ended" ELSE "unissued"
TokenPhases == [t \in Calls |-> PhaseOf(t)]
IssuedTo == [t \in Calls |-> IF Known(t) THEN owner[t] ELSE 0]
Replaced == [t \in Calls |-> IF Known(t) THEN token[t] ELSE t]

Store == INSTANCE TokenStore WITH
    Tokens <- Calls, UserIds <- UserIds, registered <- RegisteredUsers,
    phase <- TokenPhases, of <- IssuedTo, from <- Replaced,
    given <- held, aged <- expired
ImplementsTokenStore == Store!Spec

\* A refresh that found no key ends every session it can see of the user whose
\* id is in the token, unless it fails on the way.
ReuseEndsSessions ==
    \A q, t \in Calls :
        pc[q] = "absent" /\ t \in keys /\ owner[t] = claim[q]
            ~> t \notin keys \/ pc[q] = "failed"

\* The Javadoc of AuthService: a successful refresh invalidates the consumed
\* token, so that no token is refreshed twice.
RefreshedOnce ==
    \A p, q \in Calls :
        /\ pc[p] \in {"issuing", "stored", "ok"} /\ pc[q] = pc[p]
        /\ token[p] = token[q] /\ token[p] \notin {p, q}
        /\ owner[p] # 0 /\ owner[q] # 0
        => p = q

===============================================================================
