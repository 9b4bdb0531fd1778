----------------------------- MODULE WebClientRoom -----------------------------
(***************************************************************************)
(* What a page of the web client shows: app.js opens rooms and direct      *)
(* conversations, fetches their history over REST, follows new messages    *)
(* over STOMP and counts unread direct messages.                           *)
(*                                                                         *)
(* JavaScript runs one handler at a time, but openRoom and openDm give up  *)
(* the thread at every await: other clicks, frames, a lost link and a      *)
(* reconnection come between, and their answers arrive in any order.       *)
(*                                                                         *)
(* The server is what MessageDelivery models, seen from one session: a     *)
(* message is published to Redis before its transaction commits or rolls   *)
(* back, and reaches the subscriptions its broker knows at that moment.    *)
(***************************************************************************)
EXTENDS Naturals, FiniteSets

CONSTANTS
    Rooms,      \* rooms of the list
    People,     \* partners of direct conversations
    None,       \* nothing is open, or no room is followed
    Messages,   \* messages that may be sent
    place,      \* place[m]: the room of m, or the other participant
    Mine,       \* those the user of this page sends
    Old,        \* those that were stored before the page was loaded
    created,    \* created[m]: its created_at, in seconds of its instance's clock
    PageSize,   \* messages of one page of a history: size=50
    Calls,      \* calls of openRoom and openDm that may be under way at once
    Slots,      \* ids of room subscriptions; one is in use, unless one leaks
    Faults      \* which of "refuse", "reject" and "lose" may happen

ASSUME PlacesAssumption == Rooms \cap People = {} /\ None \notin Rooms \cup People
ASSUME MessagesAssumption ==
    /\ place \in [Messages -> Rooms \cup People]
    /\ Mine \subseteq Messages /\ Old \subseteq Messages
ASSUME PageAssumption == created \in [Messages -> Nat] /\ PageSize \in Nat \ {0}
ASSUME SlotsAssumption == Slots # {} /\ None \notin Slots

Places == Rooms \cup People

VARIABLES
    open,       \* currentRoomId or currentDmPartnerId
    shown,      \* shown[m]: how often the message panel shows m
    call,       \* each call of openRoom or openDm
    link,       \* whether stompClient is connected
    follows,    \* follows[s]: the room of subscription s of this connection
    current,    \* currentRoomSubscription, None for one of an earlier link
    dms,        \* dmSubscription of this connection: off, asked or heard
    heard,      \* room subscriptions the broker has taken
    frames,     \* MESSAGE frames on their way, with their subscription
    dmFrames,   \* the same for the direct messages
    row,        \* row[m]: what MySQL knows of m; "gone" is rolled back or deleted
    inRedis,    \* published messages the instance has not broadcast yet
    unread,     \* unread[p]: dmPartners' count for p
    badge,      \* the counts whose sum the DM tab shows
    dots,       \* partners with an unread dot in the sidebar
    opening     \* history: what disturbed the opening of what is open

panel == <<open, shown, call, opening>>
server == <<row, inRedis>>
session == <<link, follows, current, dms, heard, frames, dmFrames>>
sidebar == <<unread, badge, dots>>
vars == <<open, shown, call, link, follows, current, dms, heard, frames, dmFrames,
          row, inRedis, unread, badge, dots, opening>>

NothingUnread == [p \in People |-> 0]

Idle == [place |-> None, step |-> "idle", got |-> {}]
Call == [place : Places \cup {None}, step : {"idle", "joining", "asked", "read"},
         got : SUBSET Messages]

TypeOK ==
    /\ open \in Places \cup {None}
    /\ shown \in [Messages -> Nat]
    /\ call \in [Calls -> Call]
    /\ link \in {"up", "down"}
    /\ follows \in [Slots -> Rooms \cup {None}]
    /\ current \in Slots \cup {None}
    /\ dms \in {"off", "asked", "heard"}
    /\ heard \subseteq Slots
    /\ frames \subseteq Slots \X Messages
    /\ dmFrames \subseteq Messages
    /\ row \in [Messages -> {"new", "sending", "inserted", "stored", "gone"}]
    /\ inRedis \subseteq Messages
    /\ unread \in [People -> Nat]
    /\ badge \in [People -> Nat]
    /\ dots \subseteq People
    /\ opening \in {"calm", "plain", "rivalled"}

Init ==
    /\ open = None
    /\ shown = [m \in Messages |-> 0]
    /\ call = [c \in Calls |-> Idle]
    /\ link = "down"
    /\ follows = [s \in Slots |-> None] /\ current = None /\ heard = {}
    /\ dms = "off"
    /\ frames = {} /\ dmFrames = {}
    /\ row = [m \in Messages |-> IF m \in Old THEN "stored" ELSE "new"] /\ inRedis = {}
    /\ unread = NothingUnread /\ badge = NothingUnread /\ dots = {}
    /\ opening = "calm"

\* Which one does not matter.
Some(S) == CHOOSE x \in S : TRUE

UnderWay == {c \in Calls : call[c].step # "idle"}

\* The panel of n takes every message from here on.
Following(n) ==
    /\ UnderWay = {}
    /\ \/ n \in People /\ dms = "heard"
       \/ n \in Rooms /\ \E s \in heard : follows[s] = n

\* A message of the open place moves before the place is followed.
Disturbed(n) ==
    IF opening = "calm" /\ n = open /\ ~Following(n) THEN "plain" ELSE opening

-------------------------------------------------------------------------------
(* Subscriptions. Unsubscribing takes the handler off stompjs' list, so     *)
(* frames of the subscription that are still on their way are dropped.      *)

\* subscribeToRoom that keeps what was followed.
SubscribeOnly(n) ==
    LET s == Some({t \in Slots : follows[t] = None})
    IN  /\ current' = s
        /\ follows' = [follows EXCEPT ![s] = n]
        /\ UNCHANGED <<heard, frames>>

\* subscribeToRoom and the unsubscribe before it.
Resubscribe(n) ==
    LET s == Some({t \in Slots : follows[t] = None \/ t = current})
    IN  /\ current' = s
        /\ follows' = [t \in Slots |-> IF t = s THEN n
                                     ELSE IF t = current THEN None ELSE follows[t]]
        /\ heard' = heard \ {current, s}
        /\ frames' = {f \in frames : f[1] \notin {current, s}}

\* The broker takes a SUBSCRIBE.
Hear(s) ==
    /\ follows[s] # None /\ s \notin heard
    /\ heard' = heard \cup {s}
    /\ UNCHANGED <<panel, server, sidebar, link, follows, current, dms, frames, dmFrames>>

HearDms ==
    /\ dms = "asked"
    /\ dms' = "heard"
    /\ UNCHANGED <<panel, server, sidebar, link, follows, current, heard, frames, dmFrames>>

-------------------------------------------------------------------------------
(* Unread direct messages.                                                  *)

Unread(count) == {p \in People : count[p] > 0}

\* updateDmBadge and renderDmSidebar after a change of the counts.
ShowUnread(count) ==
    /\ unread' = count
    /\ badge' = count
    /\ dots' = Unread(count)

\* clearDmBadge that forgets the partners themselves.
ForgetPartners ==
    /\ unread' = [p \in {} |-> 0]
    /\ badge' = NothingUnread
    /\ UNCHANGED <<panel, server, session, dots>>

\* showTab('dms'): clearDmBadge forgets every count and does not render the
\* sidebar.
ShowDmTab ==
    /\ unread' = NothingUnread
    /\ badge' = NothingUnread
    /\ UNCHANGED <<panel, server, session, dots>>

\* handlePresenceEvent for a known partner renders the sidebar.
RenderDmSidebar ==
    /\ dots' = Unread(unread)
    /\ UNCHANGED <<panel, server, session, unread, badge>>

-------------------------------------------------------------------------------
(* Opening a room or a conversation.                                        *)

Free == {c \in Calls : call[c].step = "idle"}

\* showChatMain that leaves what was shown.
ShowOver(n, step) ==
    /\ Free # {}
    /\ open' = n
    /\ call' = [call EXCEPT ![Some(Free)] = [place |-> n, step |-> step, got |-> {}]]
    /\ UNCHANGED shown

\* showChatMain empties the panel; the call goes on after its first request.
Show(n, step) ==
    /\ Free # {}
    /\ open' = n
    /\ shown' = [m \in Messages |-> 0]
    /\ call' = [call EXCEPT ![Some(Free)] = [place |-> n, step |-> step, got |-> {}]]

\* What is still moving when n is opened.
Opening(n) ==
    IF \E c \in UnderWay : call[c].place \in Rooms \ {n} THEN "rivalled"
    ELSE IF UnderWay = {} /\ frames = {} /\ dmFrames = {} /\ inRedis = {} THEN "calm"
    ELSE "plain"

\* openRoom. The list never says who is a member (the property is called
\* "member" in the JSON), so each list joins a room at its first opening, and
\* the list may have been loaded again since the last.
OpenRoom(r) ==
    /\ \E step \in {"joining", "asked"} : Show(r, step)
    /\ opening' = Opening(r)
    /\ UNCHANGED <<server, session, sidebar>>

\* openDm without updateDmBadge.
OpenDmKeepsBadge(p, read) ==
    /\ Show(p, "asked")
    /\ opening' = IF Opening(p) = "calm" THEN "calm" ELSE "plain"
    /\ unread' = [q \in People |-> IF q \in read THEN 0 ELSE unread[q]]
    /\ dots' = Unread(unread')
    /\ UNCHANGED <<server, session, badge>>

\* openDm, from the search (read = {p}) or from the sidebar, whose items show
\* the DM tab first.
OpenDm(p, read) ==
    /\ Show(p, "asked")
    /\ opening' = IF Opening(p) = "calm" THEN "calm" ELSE "plain"
    /\ ShowUnread([q \in People |-> IF q \in read THEN 0 ELSE unread[q]])
    /\ UNCHANGED <<server, session>>

\* The answer to join, accepted or refused: openRoom does not look.
Joined(c) ==
    /\ call[c].step = "joining"
    /\ call' = [call EXCEPT ![c].step = "asked"]
    /\ UNCHANGED <<open, shown, opening, server, session, sidebar>>

\* m comes after a full page.
PastPage(page, m) ==
    Cardinality(page) = PageSize /\ \A n \in page : created[n] >= created[m]

\* page=0 of ORDER BY created_at DESC. Messages of one second come in any order.
FirstPages(stored) ==
    {page \in SUBSET stored : /\ Cardinality(page) <= PageSize
                              /\ \A m \in stored \ page : PastPage(page, m)}

\* The server reads the newest committed messages; or it refuses to.
ReadHistory(c) ==
    /\ call[c].step = "asked"
    /\ LET n == call[c].place
       IN  /\ \E page \in FirstPages({m \in Messages : place[m] = n /\ row[m] = "stored"}) :
                  call' = [call EXCEPT ![c].step = "read", ![c].got = page]
           /\ opening' = IF \E m \in Messages : place[m] = n /\ row[m] = "inserted"
                         THEN Disturbed(n) ELSE opening
    /\ UNCHANGED <<open, shown, server, session, sidebar>>

RefuseHistory(c) ==
    /\ "refuse" \in Faults
    /\ call[c].step = "asked"
    /\ call' = [call EXCEPT ![c].step = "read"]
    /\ opening' = Disturbed(call[c].place)
    /\ UNCHANGED <<open, shown, server, session, sidebar>>

Append(lines) == [m \in Messages |-> shown[m] + IF m \in lines THEN 1 ELSE 0]

\* The history arrives, and whatever is open by now gets it. A room is followed
\* from here on, if there is a connection.
ArriveHistory(c) ==
    /\ call[c].step = "read"
    /\ shown' = Append(call[c].got)
    /\ call' = [call EXCEPT ![c] = Idle]
    /\ IF call[c].place \in Rooms /\ link = "up"
       THEN Resubscribe(call[c].place)
       ELSE UNCHANGED <<current, follows, heard, frames>>
    /\ UNCHANGED <<open, opening, server, sidebar, link, dms, dmFrames>>

\* A request fails on the network: the function ends there.
Reject(c) ==
    /\ "reject" \in Faults
    /\ c \in UnderWay
    /\ call' = [call EXCEPT ![c] = Idle]
    /\ opening' = IF call[c].place = open THEN "rivalled" ELSE opening
    /\ UNCHANGED <<open, shown, server, session, sidebar>>

-------------------------------------------------------------------------------
(* The connection.                                                          *)

\* onWsConnected that leaves the open room to openRoom.
ConnectedForDms ==
    /\ link = "down"
    /\ link' = "up"
    /\ dms' = "asked"
    /\ UNCHANGED <<panel, server, sidebar, current, follows, heard, frames, dmFrames>>

\* onWsConnected: subscriptions of an earlier connection are gone.
Connected ==
    /\ link = "down"
    /\ link' = "up"
    /\ dms' = "asked"
    /\ IF open \in Rooms THEN Resubscribe(open)
                         ELSE UNCHANGED <<current, follows, heard, frames>>
    /\ UNCHANGED <<panel, server, sidebar, dmFrames>>

\* The connection ends: onWsError drops stompClient and renders the sidebar.
LoseLink ==
    /\ "lose" \in Faults
    /\ link = "up"
    /\ link' = "down"
    /\ dms' = "off" /\ dmFrames' = {}
    /\ follows' = [s \in Slots |-> None] /\ current' = None
    /\ heard' = {} /\ frames' = {}
    /\ opening' = IF opening = "calm" THEN "plain" ELSE opening
    /\ dots' = Unread(unread)
    /\ UNCHANGED <<open, shown, call, server, unread, badge>>

-------------------------------------------------------------------------------
(* Messages.                                                                *)

\* What is typed goes to the open place, and only while connected.
Sendable(m) == m \in Mine /\ row[m] = "new" /\ open = place[m] /\ link = "up"

\* sendMessage and sendDm.
Send(m) ==
    /\ Sendable(m)
    /\ row' = [row EXCEPT ![m] = "sending"]
    /\ UNCHANGED <<panel, session, sidebar, inRedis>>

\* The service inserts the row and publishes the event, in one transaction.
Publish(m) ==
    /\ row[m] = IF m \in Mine THEN "sending" ELSE "new"
    /\ row' = [row EXCEPT ![m] = "inserted"]
    /\ inRedis' = inRedis \cup {m}
    /\ opening' = Disturbed(place[m])
    /\ UNCHANGED <<open, shown, call, session, sidebar>>

\* The transaction commits or rolls back.
End(m, how) ==
    /\ row[m] = "inserted"
    /\ row' = [row EXCEPT ![m] = how]
    /\ UNCHANGED <<panel, session, sidebar, inRedis>>

\* deleteMessage, by its sender, of a room's message: no client is told. Direct
\* messages cannot be deleted.
DeleteMessage(m) ==
    /\ place[m] \in Rooms /\ row[m] = "stored"
    /\ row' = [row EXCEPT ![m] = "gone"]
    /\ UNCHANGED <<panel, session, sidebar, inRedis>>

\* A SEND that the server never takes, or refuses.
Drop(m) ==
    /\ row[m] = "sending"
    /\ row' = [row EXCEPT ![m] = "gone"]
    /\ UNCHANGED <<panel, session, sidebar, inRedis>>

\* onMessage of a subscriber: the broker makes frames of the event.
Broadcast(m) ==
    /\ m \in inRedis
    /\ inRedis' = inRedis \ {m}
    /\ frames' = frames \cup {<<s, m>> : s \in {t \in heard : follows[t] = place[m]}}
    /\ dmFrames' = IF place[m] \in People /\ dms = "heard" THEN dmFrames \cup {m}
                                                          ELSE dmFrames
    /\ opening' = Disturbed(place[m])
    /\ UNCHANGED <<open, shown, call, row, sidebar, link, follows, current, dms, heard>>

\* The instance has no Redis connection when the event goes out.
Miss(m) ==
    /\ "lose" \in Faults
    /\ m \in inRedis
    /\ inRedis' = inRedis \ {m}
    /\ opening' = IF opening = "calm" /\ place[m] = open THEN "plain" ELSE opening
    /\ UNCHANGED <<open, shown, call, row, session, sidebar>>

\* handleRoomMessage for any room.
ReceiveAnyRoom(f) ==
    /\ f \in frames
    /\ frames' = frames \ {f}
    /\ shown' = Append({f[2]})
    /\ UNCHANGED <<open, call, opening, server, sidebar, link, follows, current, dms,
                   heard, dmFrames>>

\* handleRoomMessage that skips the user's own messages.
ReceiveForeign(f) ==
    /\ f \in frames
    /\ frames' = frames \ {f}
    /\ shown' = IF place[f[2]] = open /\ f[2] \notin Mine THEN Append({f[2]}) ELSE shown
    /\ UNCHANGED <<open, call, opening, server, sidebar, link, follows, current, dms,
                   heard, dmFrames>>

\* handleRoomMessage: only the open room's messages are shown.
ReceiveRoomMessage(f) ==
    /\ f \in frames
    /\ frames' = frames \ {f}
    /\ shown' = IF place[f[2]] = open THEN Append({f[2]}) ELSE shown
    /\ UNCHANGED <<open, call, opening, server, sidebar, link, follows, current, dms,
                   heard, dmFrames>>

\* handleDmEvent: an open conversation shows the message, the others count what
\* their partner wrote.
ReceiveDm(m) ==
    /\ m \in dmFrames
    /\ dmFrames' = dmFrames \ {m}
    /\ IF place[m] = open
       THEN /\ shown' = Append({m})
            /\ dots' = Unread(unread)
            /\ UNCHANGED <<unread, badge>>
       ELSE /\ IF m \in Mine
               THEN dots' = Unread(unread) /\ UNCHANGED <<unread, badge>>
               ELSE ShowUnread([unread EXCEPT ![place[m]] = @ + 1])
            /\ UNCHANGED shown
    /\ UNCHANGED <<open, call, opening, server, link, follows, current, dms, heard,
                   frames>>

-------------------------------------------------------------------------------

Answer(c) == Joined(c) \/ ReadHistory(c) \/ RefuseHistory(c) \/ ArriveHistory(c) \/ Reject(c)
Deliver(m) == Broadcast(m) \/ Miss(m) \/ ReceiveDm(m)
               \/ \E s \in Slots : ReceiveRoomMessage(<<s, m>>)

Next ==
    \/ \E r \in Rooms : OpenRoom(r)
    \/ \E p \in People : OpenDm(p, {p}) \/ OpenDm(p, People)
    \/ ShowDmTab \/ RenderDmSidebar
    \/ \E c \in Calls : Answer(c)
    \/ \E s \in Slots : Hear(s)
    \/ HearDms \/ Connected \/ LoseLink
    \/ \E m \in Messages :
        \/ Send(m) \/ Publish(m) \/ End(m, "stored") \/ End(m, "gone")
        \/ DeleteMessage(m) \/ Drop(m) \/ Deliver(m)

Spec == Init /\ [][Next]_vars

\* Requests are answered or fail, the broker takes subscriptions, events and
\* frames arrive. Nobody has to click, send or connect.
FairSpec ==
    /\ Spec
    /\ \A c \in Calls : WF_vars(Answer(c))
    /\ \A s \in Slots : WF_vars(Hear(s))
    /\ \A m \in Messages : WF_vars(Deliver(m))

-------------------------------------------------------------------------------
(* What must hold.                                                          *)

\* Whatever calls of openRoom and reconnections overlap, the page never holds
\* two room subscriptions, and the one it holds is the one it can cancel.
OneSubscription == \A s \in Slots : follows[s] # None => s = current

\* A room that was opened while no other room was being opened, and none of
\* whose requests failed, is the one that is followed once its history has
\* arrived, whenever the link was lost and came back meanwhile.
UnrivalledIsFollowed ==
    opening # "rivalled" /\ open \in Rooms /\ link = "up" /\ UnderWay = {} =>
        current # None /\ follows[current] = open

\* m is missing because the page of the history ended before it.
OffPage(m) ==
    \E page \in SUBSET {n \in Messages : place[n] = place[m] /\ shown[n] > 0} :
        PastPage(page, m)

\* An opening that nothing disturbed ends in the right panel: nothing of another
\* place, no message twice, and every stored message that is not on its way,
\* however many followed, unless a whole page of messages as new is shown.
CalmPanelExact ==
    opening = "calm" /\ UnderWay = {} =>
        \A m \in Messages :
            IF place[m] # open THEN shown[m] = 0
            ELSE /\ shown[m] <= 1
                 /\ row[m] = "stored" /\ m \notin inRedis \cup dmFrames
                        /\ (\A s \in Slots : <<s, m>> \notin frames)
                    => shown[m] = 1 \/ OffPage(m)

\* The badge is the sum of the counts, no counted partner lacks his dot, and
\* the open conversation counts nothing: four handlers keep them together.
UnreadIsMarked ==
    /\ badge = unread
    /\ Unread(unread) \subseteq dots
    /\ open \in People => unread[open] = 0

\* What makes the above inductive.

Moving(m) == m \in inRedis \cup dmFrames \/ \E s \in Slots : <<s, m>> \in frames

\* The one subscription there is carries all frames; no link, nothing moves on it.
LinkConsistent ==
    /\ heard \subseteq {current}
    /\ \A s \in Slots, m \in Messages : <<s, m>> \in frames => s = current
    /\ link = "down" => /\ current = None /\ dms = "off"
                       /\ heard = {} /\ frames = {} /\ dmFrames = {}

\* A call that is about to subscribe has no rival, and until it has subscribed
\* nobody else needs to have.
OpeningConsistent ==
    opening # "rivalled" /\ open \in Rooms =>
        /\ \A c \in UnderWay : call[c].place \in Rooms => call[c].place = open
        /\ link = "up" /\ (\A c \in UnderWay : call[c].place # open)
               => current # None /\ follows[current] = open

\* A message of the open place while the call c is under way: nothing of it is
\* shown or moves, and c has read it if it is stored and the page had room.
CallCalm(c, m) ==
    /\ shown[m] = 0 /\ ~Moving(m)
    /\ call[c].step = "read" =>
           /\ row[m] # "inserted"
           /\ m \in call[c].got => row[m] \notin {"new", "sending"}
           /\ row[m] = "stored" => m \in call[c].got \/ PastPage(call[c].got, m)

\* Afterwards: it is in one place at most, and somewhere once it is published,
\* unless it was off the page.
PanelCalm(m) ==
    /\ shown[m] <= 1
    /\ shown[m] = 1 => ~Moving(m)
    /\ m \in inRedis => m \notin dmFrames
    /\ m \in inRedis \cup dmFrames => \A s \in Slots : <<s, m>> \notin frames
    /\ row[m] \in {"new", "sending"} => shown[m] = 0 /\ ~Moving(m)
    /\ row[m] = "inserted" => shown[m] = 1 \/ Moving(m)
    /\ row[m] = "stored" => shown[m] = 1 \/ Moving(m) \/ OffPage(m)

HistoryConsistent == \A c \in UnderWay : \A m \in call[c].got : place[m] = call[c].place

CalmConsistent ==
    opening = "calm" =>
        /\ \A c \in UnderWay : call[c].place = open
        /\ \A c, d \in UnderWay : c = d
        /\ \A m \in Messages :
            IF place[m] # open THEN shown[m] = 0
            ELSE /\ \A c \in UnderWay : CallCalm(c, m)
                 /\ UnderWay = {} => PanelCalm(m)

PageConsistent ==
    /\ TypeOK
    /\ OneSubscription
    /\ LinkConsistent
    /\ OpeningConsistent
    /\ HistoryConsistent
    /\ CalmConsistent
    /\ UnreadIsMarked

\* A stored message of the open place is shown in the end, or a page of messages
\* as new is, unless the message is deleted, the opening is disturbed or the user
\* opens something else.
CalmIsShown ==
    \A m \in Messages :
        (opening = "calm" /\ open = place[m] /\ row[m] = "stored")
            ~> \/ shown[m] > 0 \/ OffPage(m) \/ row[m] # "stored"
               \/ opening # "calm" \/ open # place[m]

\* Each change of room leaves the page with the one subscription of the new
\* room (FLOW-MSG.md on subscribeToRoom).
OpenRoomIsFollowed ==
    open \in Rooms /\ link = "up" /\ UnderWay = {} =>
        current # None /\ follows[current] = open

===============================================================================
