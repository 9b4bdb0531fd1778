# Verification of the chat application

TLA+ models of the Spring Boot chat backend (`src/main/java/com/chatapp`), of
the storage and messaging it drives (MySQL, Redis) and of its browser client
(`static/app.js`), model-checked with TLC and, where marked, proved with TLAPS
for every value of the constants.

## 1. The system

Two (or more) identical backend instances stand behind nginx. A browser talks
REST and STOMP-over-WebSocket to one of them; the instances share one MySQL and
one Redis and know nothing of each other except through Redis pub/sub.

| Component | State | Operations | Talks to |
|---|---|---|---|
| **Room membership** `ChatRoomService` | `chat_rooms`, `chat_room_members` (unique `(room_id,user_id)`) | createRoom, joinRoom, leaveRoom, inviteUser | MySQL, called by `ChatRoomController` |
| **Room messages** `MessageService`, `ChatMessageController`, `MessageController`, `RedisMessageSubscriber`, `RedisConfig` | `messages` (soft delete), Redis channel `chat:messages`, broker subscriptions `/topic/rooms/{id}` | send (STOMP or REST), sendSystemMessage (on room creation), deleteMessage, fan-out, typing | membership table, Redis, simple broker |
| **Direct messages** `DirectMessageService`, `DirectMessageWsController`, `DirectMessageController`, `RedisDmSubscriber` | `direct_messages`, Redis channel `chat:dm`, user queues | send (STOMP or REST), fan-out to both participants | MySQL, Redis, simple broker |
| **Authentication** `AuthService`, `JwtService`, `AuthController` | `users`, Redis keys `refresh_token:{userId}:{tokenId}` with TTL | register, login, refresh (rotation, reuse detection), logout | MySQL, Redis |
| **Presence** `PresenceService`, `WebSocketEventListener`, `WebSocketConfig` | Redis keys `user:online:{userId}` with TTL 60 s | connect, disconnect, inbound frames, expiry, broadcast | Redis, simple broker of the instance |
| **Rate limiting** `RateLimitFilter` | Redis counters per client address and minute | login and register requests | Redis |
| **Web client, room view** `app.js` | current room, rendered messages, STOMP subscriptions | open room or conversation, history fetch, receive, send, typing | REST, STOMP |
| **Web client, session** `app.js` | tokens in localStorage, STOMP connection, timers | apiFetch with refresh, connect, reconnect, logout | REST, STOMP |
| Request authentication, security filter chain (`JwtAuthFilter`, `SecurityConfig`) | none | bearer token to user | Authentication |
| Profiles (`UserService`, `UserController`) | `users` columns | read, update, search | MySQL |
| SQL tracing (`SqlTraceAspect`, `SqlTraceQueryListener`, `DataSourceProxyConfig`) | a thread-local counter | log queries | – |
| Error mapping, DTOs, mappers, JSON configuration, deployment (nginx, docker, CI), HTML page | – | – | – |

### What is hard about it

* Every REST request and STOMP frame runs on a pool thread; check and write are
  different SQL statements of one MySQL transaction at REPEATABLE READ, so a
  check may be stale when its write happens.
* Two stores (MySQL and Redis) take part in one operation without a common
  commit: either may fail after the other took effect.
* Redis pub/sub forgets: an instance that is disconnected misses messages, and
  every message is handled on a thread of its own, so arrival order is no order.
* Keys with a TTL, whose expiry falls between two commands of one operation.
* A user may have several sessions, on several instances, that come and go
  while events about the earlier ones are still being handled.
* The client mixes responses of slow requests with live events after the user
  has moved on to another room.

`PROJECT.json` lists each such hazard at its line with the properties about it.

### What makes each component correct

* Membership: at most one row per user and room; rooms are born with their
  ADMIN; private rooms grow only by an ADMIN's invitation; a leave removes
  exactly what its user meant to leave; requests end, and those that deadlock are
  INSERTs of one membership that have written nothing.
* Messages: who has left a room falls silent in it; what history stores was
  published; a session receives a message at most once, and receives it if it
  stays subscribed, its instance stays connected to Redis and the listener does
  not fail.
* Direct messages: the two participants and nobody else receive it.
* Authentication: a refresh token that has been used up, revoked or logged out
  stays so; reuse ends sessions of the user whose id is read from the token and
  of nobody else; names are unique.
* Presence: whoever keeps the key renewed is shown online, whoever is gone is
  shown offline in the end.
* Rate limiting: a bounded number of requests passes per window, and blocked
  clients are let in again.
* Client, room view: the page holds one room subscription, that of the open
  room; the open room shows its newest messages, once each; unread counts agree
  wherever they are displayed.
* Client, session: the stored token stays usable; a page without a connection
  has something under way that dials again.

## 2. Modules

| Module | Models | Kind |
|---|---|---|
| `Membership` | what room membership promises | abstract specification |
| `RoomMembership` | `ChatRoomService` over MySQL transactions | detailed, implements `Membership` |
| `RoomFeed` | what the message pipeline promises its readers | abstract specification |
| `MessageDelivery` | `MessageService`, Redis pub/sub, subscribers, simple broker | detailed, implements `RoomFeed`, composed with `Membership` |
| `MessageFollowers` | the same with a history variable for what sessions are owed | extends `MessageDelivery` |
| `TokenStore` | what the authentication service promises about refresh tokens | abstract specification, with its own theorem |
| `RefreshTokens` | `AuthService` over MySQL and Redis | detailed, implements `TokenStore` |
| `Presence` | `PresenceService` and the handlers that call it | detailed |
| `WebClientRoom` | what a page of `app.js` opens, fetches, follows and shows | detailed |
| `WebClientSession` | how a page of `app.js` stays signed in and connected | detailed |
| `MC<Module>` | instances for TLC | model checking |
| `<Module>Proofs` | theorems about the module | proofs |

In the detailed modules an operator that no other one uses and whose name or
comment says what is wrong with it (`AnyMemberMayInvite`, `HandleAgain`,
`NameNeverTaken`, `AgelessKey`, ...) is a variant of the definition below it:
with the variant in its place, the property `PROJECT.json` names under `mutants`
fails.

### `RoomMembership`

A request (`q \in Requests`) is a thread serving one call. Its handler is one
`@Transactional` method, so the model has the committed tables (`rooms`,
`members`) and, per request, what its open transaction read (`snap`) and wrote
(`newRooms`, `inserted`, `deleted`). `Begin`/`Reject` is the handler up to its
last check; `SaveRoom`, `SaveCreator`, `InsertMember` and `DeleteMember` are the
writes in the order of the code; `Commit` and `Rollback` (at any point: deadlock
victim, lost connection, crash) end it, and the thread is free for the next call.
The unique key is `DuplicateKey`; running into it is the
`DataIntegrityViolationException` nobody translates; of an answer the model keeps
whether it was one or an exception. A derived
`deleteBy...` loads the entity and removes it by id, which is why a leave
removes `LoadedRow` (of its snapshot) and not whatever row has the key now.

Locks are those of the index entry of `(room_id, user_id)`. Who has written it
holds it exclusively until its transaction ends (`KeyLocked`). An INSERT that
finds an entry, also one that a rollback or a purge will take away, asks for a
*shared* lock for its duplicate check: `FindEntry` is the request, phase
`checking` the wait and then, once no writer holds the entry, the shared lock
(`SharesKey`). If the entry is a duplicate, the INSERT fails; if it is gone, the
INSERT needs the entry for itself and waits for all who share it (`KeyShared`).
So when the first of three INSERTs of one key rolls back, the other two hold the
shared lock and wait for each other, MySQL's documented deadlock: `Deadlocked`,
which InnoDB ends by rolling one back (`Victim`). The model lets any INSERT find
an entry, since a deleted one is there until it is purged: more waits than
MySQL has, none fewer. The gap part of the next-key locks is left out; it adds
waits in the order of the index and no other kind of cycle.

**Argument of the proofs.** `UniqueMembership` alone is not inductive: the row
an open transaction has inserted must be known to have no committed and no
other uncommitted rival. `Consistent` adds that (`KeysExclusive`), that the
rooms of open transactions are fresh (`RoomsConsistent`), and what each request
has written in each phase, together with the answers of its checks that stay
true (`PhaseConsistent`). `ConsistentStep` has one lemma per writing action;
steps that write nothing new are dealt with once (`NoNewWrites`). The
refinement maps rows without ids to `grants` and invite requests past their
check to `invited`; a commit is `Create`, `Join`, `Admit` or `Leave`, a request
that fails is at most a `Withdraw`.

`OnlyRivalInsertsDeadlock` says, for any number of requests on any keys, which
cycles of waits there are. Who has written an entry is past its last write and
waits for nobody (by `PhaseConsistent`; only `createRoom` writes twice, and what
it writes between has a room id nobody else can name), and there is one writer of
a key at most (`KeysExclusive`). So whoever is waited for either can go on, or
shares an entry in its duplicate check and waits for others that share the same
entry; of these none has written anything, and rolling one back loses nothing but
a join or an invitation that can be repeated. A leave and a `createRoom` are never
among them. That requests finish, deadlocks included, is `RequestsFinish` in the
run.

**Not in the model:** the text columns of a room, and the read-only queries
(`getRoom`, `getPublicRooms`, `getMyRooms`, `getRoomMembers`), which change no
state. Users are never deleted by the code, hence a fixed set.

### `MessageDelivery`

A request thread (`q \in Requests`, on instance `home[q]`) runs `sendMessage`,
or `createRoom` followed by `sendSystemMessage`; `DeleteMessage` is one step, for
it sets one column and tells nobody. `BeginSend`
is the membership test and the load of the sender, `SaveMessage` the INSERT,
`Publish` or `PublishFails` the call of `convertAndSend`, `CommitMessage` the
commit. The publication stands **before** the commit, as in the code. `Publish`
puts the event into the `inbox` of every instance whose listener is `linked`
(Redis keeps nothing for the others); `Handle` is `onMessage` on a thread of
the listener container, which gives the event to the broker; the broker writes
a frame into `outbound` of every session subscribed to the room's topic;
`HandleFails` is an exception on that way, which `onMessage` logs and swallows:
some of the sessions have their frame by then and the others get none;
`SendFrame` writes it to the socket. Inboxes and outbound buffers are sets:
neither the container's threads nor the outbound pool keep an order. A
`PublishFails` is the exception of the Redis client, also when Redis accepted
the event and only the answer was lost. `Rollback`, `Crash` and `LinkDown` may
come at any moment; a crash takes the instance's requests, inbox and sessions,
a lost connection any part of the inbox (what had not been read from it).

A session has one subscription for each topic. The simple broker does not enforce
that and would send a frame for each; `app.js` keeps to it (`OneSubscription` of
`WebClientRoom`), and `AtMostOncePerSession` rests on it.

Members come and go by the actions `Join` and `Leave` of `Membership`, which
`RoomMembership` is proved to implement: the composition is through the
abstract module, not through the transactions.

The membership test of `sendMessage` may be stale when the message goes out, so
"only members send" is not true at that moment. What is true is
`LeaverFallsSilent`: once nobody who left is still being served, no message of
theirs is published until they join again.

**Argument of the proofs.** `AtMostOncePerSession` needs to know where an event
is: in one inbox entry, then in the frames of a session, then received, and
never in two of these for one session (`FramesConsistent`), that ids are not
given out twice although they are taken before the commit and survive rollbacks
(`IdsConsistent`), and what a request carries in each phase
(`RequestsConsistent`). `PipelineConsistent` is their conjunction with the type
invariant, inductive, and has one lemma per action. The refinement maps
`published`, `stored` and `times` to the variables of `RoomFeed`; handling,
links, sessions and members are stutters.

`RoomFeed` only forbids: a pipeline that delivers nothing implements it. What it
must deliver is `FollowersReceive`, a liveness property, and its safety core is
`NothingLost` of `MessageFollowers`. That module adds one history variable to
every step, `due`: the pairs of a session and an event such that the session
followed the event when Redis took it and has been open and subscribed since,
its instance not losing the Redis connection before the listener had the event,
and the listener not failing before it had a frame (`MissedBy`).
`NothingLost` says that such an event waits in the inbox, waits in the outbound
pool or has been sent, even if the request that published it has been told of a
failure and rolled its row back. By `FramesConsistent` it is in one of these
places only, so that "at most once" and "not lost" together mean that it arrives
exactly once when the threads run. The proof has one case per action that can
move or drop an event: the fan-out reaches a linked instance (`OwedNowIsComing`),
the listener's frame goes to everybody who listens at that moment, a lost
connection, a failing listener, a crash or a close ends the debt
(`FailingMissesOne` for the listener: it costs nobody but those it did not reach,
and them this event only), a sent frame is the only one with its id (`IdsConsistent`). `SamePipeline` says that the module adds no behaviour;
it takes none away since `due'` is determined at every step of `Next`.

**Not in the model:** typing events, which are published without any state; the
text of a message; the pages of the history, which are in `WebClientRoom`.

### `RefreshTokens`

A call (`q \in Calls`) is one request of register, login, refresh or logout,
and names the refresh token it issues. Redis commands (`HasKey`, `ScanKeys`,
`DeleteScanned`, `DeleteKey`, `StoreToken`) and SQL statements (`InsertUser`,
`CommitUser`, `FindUser`) are steps of their own, since nothing but their order
in one thread holds them together; `Fail` ends a call between any two of them.
`Expire` is the `exp` claim of a token, `KeyExpires` the TTL of its key. `keys`
is Redis; `held` is what clients have received and may present; `owner` is the
user in the token's claims. `claim[q]` is the user id that a call reads from what
it is given. `refresh` never looks at the type of a token: an access token, whose
subject is a user *name*, is read as a refresh token of the user whose id the name
spells (`RegisterRequest` allows names of digits) and without a token id, so its
key is always absent. `BeginRefreshByAccess` is that call, `spells` says which
names are numbers, and in the run the newcomer's name is the id of another user.
Ids 1 and 11 in the run are there because the key
of one is a prefix of the other's up to the colon.

**Argument of the proofs.** That an ended token is refused to every later call
needs that its key is never stored again: a call stores only its own token and
only once (`TokensConsistent`). That a held token has its user needs the order
inside register, key first and commit later, together with the fact that the
token leaves the server only with the answer (`CallsConsistent`). That names
are unique needs the index entries of uncommitted INSERTs (`UsersConsistent`).
`SessionsConsistent` is the inductive conjunction.

**The promise.** `TokenStore` is what a client may count on, without commands
and transactions: a token is issued for one user, given out once that user is
registered, ends for good, is ended only by its age or in the name of its user,
by who holds a token of that user or one of a user whose name spells that id
(`EndSessions`), and is replaced only after its end. The mapping reads a token's
phase off the keys and off what became of them, the user and the predecessor off
the call that issues it; a token counts as issued when its key is stored, so
that most steps of a call are stutters (`InvisibleToStore`). The theorem
`Refinement` has one lemma per kind of visible step: `RemovalEnds`,
`RemovingEndsSessions` (a scan between `KEYS` and `DEL` must still find only
tokens of the user that the call names: `found` in `CallConsistent`) and `StoringIssues` (the
predecessor's key has gone and stays away). `PromiseKept` is proved of
`TokenStore` alone and carried over as `NoTokenBesideItsSuccessor`: a rotated
token is never alive beside its successor and both are for one user. The
promise does not say that a token has *one* successor, since the code does not
keep that (`refreshed_once`).

**Assumed:** Redis keeps its data while it runs; the ids AUTO_INCREMENT burns
on a failed INSERT are not counted; a name stands for the user name together
with the e-mail address. Of access tokens, which are stateless, there is what
`refresh` makes of one; whoever holds a refresh token has one of the same user,
and that it expires earlier is left out, so that it may be presented for longer
than in the code.

### `Presence`

A STOMP session (`s \in Sessions`) of `user[s]` on instance `host[s]` goes from
new to open to closed. `handleConnect` (`SetOnline`) runs on a thread of the
outbound channel and `handleDisconnect` (`SetOffline`) on the one that notices
the close, in no order between them; both may fail. `Frame` is the interceptor's
EXPIRE on every frame after CONNECT, `LastFrame` the same EXPIRE on the
DISCONNECT that Spring sends through the inbound channel after the handler. Both
may fail (`FrameFails`, `LastFrameFails`): the interceptor ignores the exception
and lets the frame on, and the key is no younger for it.
`key[u]` is the rest of the TTL of `user:online:{u}` in ticks. `Crash` ends the
sessions of an instance and the handlers that have not run. `lapse` and `swept`
record when a session last renewed the key and whether it was deleted since; `away`
counts, up to the TTL, the ticks for which a user has had no open session and no
handler or last frame to come.

**Argument of the proofs.** `FramesKeepOnline` is not inductive: the key's rest
must be related to the lapse of *every* session that shares it, which is
`LapseConsistent`: rest plus lapse is at least the TTL. A frame whose EXPIRE fails
does not end a lapse, so that a session which sends without renewing loses its
key, and the property does not promise otherwise; one renewal within every TTL
ticks is enough, whatever fails in between. Every step except
`SetOffline` and `Tick` only lengthens keys (`LongerLife`). In the other
direction `GhostsFade` says that no order of handlers, no failed handler and no
crash leaves a user online for longer than the TTL after everything of theirs
is over; it needs `AwayConsistent`: rest plus absence is at *most* the TTL, and
whoever can still lengthen the key is not away. `PresenceConsistent` is both.
`GhostsFade` is the bound and `GoneIsOffline` the promise that time gets there.

**Not in the model:** the PRESENCE broadcasts, which reach the sessions of one
instance only and are kept nowhere but in the browser.

### `WebClientRoom`

One page and one STOMP connection at a time. JavaScript runs one handler at a
time, so an action is a handler, or the part of one up to its next `await`: a
call (`c \in Calls`) of `openRoom` or `openDm` is `OpenRoom`/`OpenDm` with
`Show` (`showChatMain`), `Joined`, `ReadHistory` (the server's query, at some
moment between request and answer, for one page of `PageSize` messages, newest
first; `created_at` is kept in seconds of the instance's clock, so the order is
given by the constant `created`, ties come in any order, and a message may be
stored after one with a later time), `RefuseHistory`, `ArriveHistory`, or
`Reject` where the fetch rejects and the function ends. Between them come other
clicks, `Connected` (`onWsConnected`), `LoseLink` (`onWsError`), and the
handlers of frames, `ReceiveRoomMessage` and `ReceiveDm`. `shown[m]` counts how
often the panel shows a message, since `appendMessage` appends whatever it is
given, and so does a history that arrives after the user has moved on. Room
subscriptions have slots so that one the page no longer remembers can be told
from the one in `currentRoomSubscription`; a SUBSCRIBE counts only once the
broker has taken it (`Hear`). `unread`, `badge` and `dots` are the three places
where unread direct messages are kept or displayed.

The server is that of `MessageDelivery` seen from one session, for rooms and
direct conversations alike: `Publish` (INSERT and publication) comes before
`End` (commit or rollback), `DeleteMessage` tells no page, `Broadcast` makes frames for the subscriptions the
broker knows by then, `Miss` is an instance without its Redis connection.

`opening` is a history variable. It is `rivalled` when another room was being
opened at the time, or a request of the open place failed; `plain` when nothing
of that kind happened, but a message of the place moved between the history
query and the subscription, or the link was lost; `calm` otherwise. What the
page promises depends on it: a calm opening ends in a panel that is exact as far
as its page reaches (`CalmPanelExact`: what is missing is no newer than a full page
of messages that are shown), one without a rival in the right subscription
(`UnrivalledIsFollowed`); and *no* page ever holds two subscriptions
(`OneSubscription`). The run `open_room_is_followed` is what a rival does. What a
message does that crosses the opening of its place, being missed or shown twice,
is in the states of the run and outside of these two properties.

**Argument of the proofs.** That a calm panel is exact needs the place of every
message at every moment: in Redis, in one frame, or shown, never in two of these
and in one of them once it is published (`PanelCalm`); and while the history is
being fetched, that nothing moves and that what was read is a first page of what is
stored (`CallCalm`). What is off the page (`OffPage`) stays off it: later messages
only add to what is shown (`MoreShown`). That no second subscription appears needs that heard slots and
frames belong to `current` (`LinkConsistent`); that the right room is followed
needs what the calls under way are about to do (`OpeningConsistent`).
`PageConsistent` is the inductive conjunction; its parts are preserved by one
lemma each (`WireStep`, `OpeningStep`, `HistoryStep`, `CalmStep`, `UnreadStep`),
with one step per action.

**Not in the model:** the user search, notifications and sounds, the online
dots, typing events with their timers, the room list and the text of a message. A page keeps the stomp client that it has:
connections it forgot are in `WebClientSession`.

### `WebClientSession`

One page again, with every asynchronous call it may have under way. A call has
the kind of its caller (`login` for `doAuth`; `me`, `rooms`, `dms` for the three
requests of `loadApp`; `error` for `onWsError`; `request` for any other use of
`apiFetch`) and the step it waits for: the first request, `tryRefresh`'s request
before and after the server has looked for the key, its answer, the repetition.
`doLogout` is asynchronous too, but nobody waits for it and all it has after its
request is the same for every call: `logouts` is the set of pairs whose session
the page has asked the server to end. `client` is the
connection in `stompClient`, `strays` are those the page has overwritten and
will still hear of, since stompjs calls the error callback of each, and twice
for a refused CONNECT. `timers` are the armed reconnection timers and `latest`
says whether `reconnectTimer` still is one of them, which is all that
`clearTimeout` reaches.

The token store is the server side of `RefreshTokens` for one user: `FindKey` or
`MissKey`, and `IssuePair` in a later step. Pairs of tokens are numbers that may
be given out again when nobody carries them, which keeps sessions of any length
finite. An access token may be refused at each use, which stands for its expiry
at any moment; `KeyExpires`, `OtherTabLogsOut`, `Reload`, a failure before or
after the key is deleted (`RefreshFails`), and the rejection of every fetch
(`Reject`, `LogoutRejected`) may come at any moment.

`doubtful` and `hindered` are history variables: something that may legitimately
cost the stored token its key has happened (overlapping refreshes, a lost answer,
a logout, an expiry), or a fetch has been rejected or a dial found nobody signed
in since the page last dialled. Without them `StoredTokenIsLive` and
`NeverStranded` would be false: those are the pages the runs
`refreshed_once` and `lost_connection_is_retried` are about.

**Argument of the proofs.** `NeverStranded` needs that a call of kind `error` can
only be refreshing, so that its next step arms a timer or leaves
(`CallsConsistent`), and that a timer that may be cleared is there
(`TimersConsistent`). `StoredTokenIsLive` needs which pair each refresh carries
and that the key of the new pair exists before the page stores it
(`TokenConsistent`). `SessionConsistent` is the inductive conjunction.

**Not in the model:** what the requests carry besides tokens; the backoff delays
(a timer fires at some moment); the forms.

## 3. What the runs check

| Run | Instance | Shows |
|---|---|---|
| `rooms` | 2 users, 1 unregistered id, 3 threads, 1 room, 4 rows | membership invariants, action properties, refinement of `Membership`, `OnlyRivalInsertsDeadlock` and `RequestsFinish` (every request is answered, deadlocks included) |
| `messages` | 1 user, a thread on each of 2 instances, a session on one, 2 messages | pipeline invariants (`PipelineConsistent` has the type invariant as a part), `LeaverFallsSilent`, refinement of `RoomFeed`, `NothingLost` and `FollowersReceive` across instances |
| `tokens` | 2 users and a newcomer, 3 names, 3 calls | token and user invariants, `OnlyNamedSessionsEnd`, refinement of `TokenStore`, `ReuseEndsSessions` |
| `presence` | 2 users, 3 sessions on 2 instances, TTL of 3 ticks | presence invariants, `GhostsFade` and `GoneIsOffline` |
| `room_view` | 2 rooms, 1 partner, 2 calls, a message of the user to a room and two of the partner, one of them old, pages of one message, all faults | one subscription, the right room, calm panels exact up to the page, unread counts that agree, and `CalmIsShown` |
| `session` | 2 calls, 2 pairs of tokens, 1 stray connection, 2 timers | the stored token stays usable, no stranded page |

The six runs that end in a violation are in section 4; they use the same
modules with the smallest instance that shows it.

**Bounds.** The races of membership and registration are between two
transactions, the deadlock of the duplicate check takes three INSERTs of one key;
a fourth row lets one of them repeat what was undone. One room is
enough for them, and the theorems hold for any number of rooms and threads. Two
messages let one overtake the other and ids be taken in another order than they
are committed; one session is enough for "at most once", which speaks of one
session at a time. Three calls are a login, a refresh of its token and a second
refresh of the same token, or any two of these beside a call of somebody else;
`refreshed_once` has a fourth. With a TTL of 3 ticks a key can be aged, renewed
and aged again before it expires; three sessions let one user have two and let
the crash of an instance meet sessions of two users. Two calls of `openRoom`
under way are what it takes for one answer to overtake the other, two slots for
a subscription to leak; a message to a room and one in a conversation meet all
handlers of frames, and with a page of one message the older of two in a
conversation is off it (a page of 50 differs in nothing but its size, which the
theorem leaves open). In the session two calls can refresh at once, two timers are
one more than `reconnectTimer` can name, and one stray connection one more than
`stompClient` can. Runs of `RefreshTokens` switch the deadlock check off: every
call ends and a finite number of calls is made. The others never stop.

**Fairness.** `RoomMembership`: threads go on (weak), and a statement that can
get its row lock again and again gets it (strong, InnoDB queues lock requests), or
is rolled back as the victim of a deadlock again and again (`Victim`: InnoDB
detects a deadlock at once and always breaks it; the victim is any of its
members).
`MessageDelivery`: request, listener and outbound threads go on; nobody has to
connect, reconnect, subscribe or send, and no listener has to fail. `RefreshTokens`:
calls go on. `Presence`: handlers run, or fail, and the clock ticks; nobody has to send a frame.
`WebClientRoom`: requests are answered or fail, the broker takes subscriptions,
events are broadcast or missed and frames arrive; nobody has to click, send or
connect. `WebClientSession` (`lost_connection_is_retried`): requests end in an
answer or a failure and armed timers fire; no network has to come back for
that.

## 4. Where the code and its documentation disagree

Each is a run of its own in which TLC finds the quoted statement violated.

| Run | Stated | What happens |
|---|---|---|
| `received_is_stored` | first MySQL, then publish, "outside the MySQL transaction" (Javadoc of `MessageService`) | the event goes out inside the transaction; if the commit then fails, readers have a message that is stored nowhere |
| `persisted_on_redis_failure` | if Redis fails, the message stays in MySQL and is only not delivered (Javadoc of `MessageService`, `FLOW-MSG.md:278`) | the publication is inside the transaction: its exception rolls the INSERT back and nothing is stored. That what is stored was published (`RoomFeed`) is the other side of the same order |
| `refreshed_once` | a successful refresh invalidates the consumed token (Javadoc of `AuthService`) | `hasKey` and `delete` are two commands: two refreshes of one token both succeed |
| `sender_is_online` | the TTL exceeds the heartbeat interval "to avoid false-offline readings" (`PresenceService`) | one key serves all sessions of a user; the end of one deletes it and EXPIRE brings nothing back |
| `open_room_is_followed` | every change of room leaves the page with the subscription of the new room (`FLOW-MSG.md:262`) | `openRoom` subscribes when its own history arrives: if that of the room opened first comes last, the page follows a room that is not open |
| `lost_connection_is_retried` | a lost connection is retried automatically (`FLOW-MSG.md:263`) | `onWsError` awaits `tryRefresh`, whose fetch rejects while the network is down: the function ends there and no timer is armed |

More behaviours can be read off the models without a run of their own. An access
token given to `refresh` ends all sessions of the user whose id its user name
spells (`BeginRefreshByAccess`); no document says what `refresh` makes of one. A
join that loses the race for the unique key is answered by the exception of the
database and not by `ALREADY_MEMBER` (`DuplicateKey` in `RoomMembership`). And a
refresh that has consumed its old key and not stored the new one yet survives
the revocation of all sessions (`DeleteScanned` between `DeleteKey` and
`StoreToken` in `RefreshTokens`), which is why `ReuseEndsSessions` speaks of the
keys that are there.

## 5. What is proved

`<Module>Proofs` (and `TokenStore` about itself) hold, for every value of the constants that meets the named
assumptions:

| Module | Theorems |
|---|---|
| `RoomMembershipProofs` | `TypeCorrect`, `AlwaysConsistent`, `NoDuplicateMembership`, `OnlyRivalsDeadlock`, `NoNewAdmin`, `LeaveIsExact`, `PrivateGrowth`, `BornWithAdmin`, `Refinement` |
| `MessageDeliveryProofs` | `TypeCorrect`, `AlwaysConsistent`, `NoDuplicateDelivery`, `LeaversFallSilent`, `Refinement` |
| `MessageFollowersProofs` | `DeliveredOrComing`, `SamePipeline` |
| `RefreshTokensProofs` | `TypeCorrect`, `AlwaysConsistent`, `EndedForGood`, `NoTokenWithoutUser`, `UniqueNames`, `NamedSessionsOnly`, `Refinement`, `NoTokenBesideItsSuccessor` |
| `TokenStore` | `PromiseKept` |
| `PresenceProofs` | `TypeCorrect`, `AlwaysConsistent`, `SendersStayOnline`, `NoLastingGhost` |
| `WebClientRoomProofs` | `TypeCorrect`, `AlwaysConsistent`, `NeverTwoSubscriptions`, `FollowsWithoutRival`, `CalmPanelsAreExact`, `UnreadStaysMarked` |
| `WebClientSessionProofs` | `TypeCorrect`, `AlwaysConsistent`, `TokenStaysLive`, `SomebodyDials` |

The assumptions only say what the constants are: threads and sessions have an
instance or a user, bounds are naturals, the users registered at the start have
distinct ids and names below the counter, a page has room for a message, rooms and partners are different things,
and there is at least one call.

**Only model-checked:** the liveness properties (`RequestsFinish`,
`FollowersReceive`, `ReuseEndsSessions`, `GoneIsOffline`, `CalmIsShown`), because
liveness under fairness and ENABLED are beyond the proof system. Where the safety
part of one says something by itself it is an invariant with a theorem:

| Liveness, model-checked | Its safety part, proved |
|---|---|
| `RequestsFinish` | `OnlyRivalInsertsDeadlock`: what a request waits for is held by one that can go on, or by one of several INSERTs of which a rollback loses nothing |
| `FollowersReceive` | `NothingLost`: what has not arrived is waiting |
| `GoneIsOffline` | `GhostsFade`: no later than TTL ticks |
| `CalmIsShown` | `CalmPanelExact`: what is stored is shown, once each, up to the page |
| `ReuseEndsSessions` | none of its own: that ended sessions stay ended is `EndedTokenIsRefused`, that they are those of the named user is `OnlyNamedSessionsEnd` |

Every invariant and action property of a passing run, and every refinement, is
proved. No model needs induction over data or recursive operators.

## 6. Not modelled

* **Direct messages** have no module of their own. What one participant sees of
  them is in `WebClientRoom`; the fan-out to instances and sessions is that of
  rooms, with `convertAndSendToUser` in the place of `convertAndSend`: same
  Redis container, same broker, same position of the publication inside the
  transaction. A second pipeline module would state the theorems of
  `MessageDelivery` again with other names.
* **Typing events and online dots** live in one page and one timer each; nothing
  else reads them. The PRESENCE broadcasts reach one instance only, as
  `FLOW-MSG.md` says, which leaves the key as the truth that `Presence` models.
* **Rate limiting** is one INCR and one comparison. Its guarantee is arithmetic
  on the configured window and on the clocks of the instances, neither of which
  is state that another component shares.
* **Profiles** are single rows of one table. A partial update writes back all
  columns of the row it loaded, so that two concurrent ones lose one of them; no
  document promises otherwise.
* **Further pages of a history**: the client asks for the first page only, which is
  `ReadHistory`; the others have no reader in this repository.
* **A Redis that loses acknowledged writes** (a crash between two snapshots) can
  bring a consumed refresh token back. This depends on the deployment and not on
  this code, so `RefreshTokens` assumes the contrary and says so.
* The security filter chain is stateless per request; DTOs, mappers and JSON
  configuration are conversions without a property; SQL tracing is logging; and
  there are markup, deployment and the end-to-end tests.

Of all this a limiter and a direct-message pipeline with an abstract
specification shared with `RoomFeed` would be the next modules to write.
