---------------------------- MODULE WebClientSession ---------------------------
(***************************************************************************)
(* How a page of the web client stays signed in and connected: app.js logs *)
(* in and out, loads the app, renews its tokens when a request is refused  *)
(* and reconnects when the STOMP connection is lost.                       *)
(*                                                                         *)
(* Every await gives up the thread, so requests, refreshes, logouts and    *)
(* reconnections of one page overlap. location.reload() is taken to end    *)
(* the page, and the calls it waits for, at once.                          *)
(*                                                                         *)
(* A pair of tokens is a number, given out again once nobody carries it.   *)
(* The server is AuthService as RefreshTokens models it, for one user: a   *)
(* refresh looks for the key, and deletes it and issues a pair in a later  *)
(* step; one that finds no key ends every session. Access tokens expire    *)
(* while they are in use, so that each use of one may be refused.          *)
(***************************************************************************)
EXTENDS Naturals, FiniteSets

CONSTANTS
    MaxPairs,   \* bound on pairs of tokens that are carried at once
    Calls,      \* asynchronous calls of the page that may be under way at once
    MaxStrays,  \* bound on connections that stompClient no longer refers to
    MaxTimers   \* bound on reconnections that are being prepared

ASSUME BoundsAssumption == MaxPairs \in Nat /\ MaxStrays \in Nat /\ MaxTimers \in Nat
ASSUME CallsAssumption == Calls # {}

Pairs == 1..MaxPairs

VARIABLES
    page,       \* form: the login form, while loading too; app: the app
    stored,     \* the pair in localStorage, 0 for none
    call,       \* each call: who made it, what it waits for, the pair it carries
    logouts,    \* pairs whose session doLogout waits to see ended; several calls
                \* may wait for the same
    client,     \* the connection of stompClient: none, dialling or up
    strays,     \* other connections whose end the page will hear of
    timers,     \* reconnection timers that are armed
    latest,     \* whether reconnectTimer is one of them
    live,       \* refresh tokens whose key is in Redis
    hindered,   \* history: since the page last dialled or loaded, a fetch has failed
                \* on the network, or no pair was stored when it would have dialled
    doubtful    \* history: something may have cost the stored token its key

calls == <<call, logouts>>
link == <<client, strays, timers, latest>>
history == <<hindered, doubtful>>
vars == <<page, stored, call, logouts, client, strays, timers, latest, live, hindered,
          doubtful>>

\* loadApp waits for me, rooms and dms in turn; error is onWsError; request is
\* any other use of apiFetch.
Kinds == {"none", "login", "me", "rooms", "dms", "request", "error"}
\* sent, bare and again: a request with a token, one without, and its repetition.
\* The others belong to tryRefresh: it has asked with a pair, the server has
\* found the key, and has answered, renewed with the new pair or denied.
Refreshing == {"refresh", "found", "renewed", "denied"}
Steps == Refreshing \cup {"idle", "sent", "bare", "again"}

Idle == [kind |-> "none", step |-> "idle", pair |-> 0]

TypeOK ==
    /\ page \in {"form", "app"}
    /\ stored \in Pairs \cup {0}
    /\ call \in [Calls -> [kind : Kinds, step : Steps, pair : Pairs \cup {0}]]
    /\ logouts \subseteq Pairs
    /\ client \in {"none", "dialling", "up"}
    /\ strays \in Nat
    /\ timers \in Nat /\ latest \in BOOLEAN
    /\ live \subseteq Pairs
    /\ hindered \in BOOLEAN /\ doubtful \in BOOLEAN

Init ==
    /\ page = "form" /\ stored = 0
    /\ call = [c \in Calls |-> Idle] /\ logouts = {}
    /\ client = "none" /\ strays = 0
    /\ timers = 0 /\ latest = FALSE
    /\ live = {}
    /\ hindered = FALSE /\ doubtful = FALSE

Some(S) == CHOOSE x \in S : TRUE
Free == {c \in Calls : call[c].step = "idle"}
Errors == {c \in Calls : call[c].kind = "error"}
Renewing == {c \in Calls : call[c].step \in Refreshing}

\* The pairs that still matter, but for what call c carries.
CarriedBy(C) == ({stored} \cup logouts \cup {call[c].pair : c \in C}) \cap Pairs
NewPairs(c) == Pairs \ CarriedBy(Calls \ {c})

Finish(c) == call' = [call EXCEPT ![c] = Idle]

\* The first request of apiFetch.
Ask(c, kind) ==
    call' = [call EXCEPT ![c] = [kind |-> kind, pair |-> 0,
                                 step |-> IF stored = 0 THEN "bare" ELSE "sent"]]

\* tryRefresh, if a token is stored.
AskRefresh(c, kind) ==
    /\ call' = [call EXCEPT ![c] = [kind |-> kind, pair |-> stored, step |-> "refresh"]]
    /\ doubtful' = (doubtful \/ Renewing # {})

-------------------------------------------------------------------------------
(* Connecting and leaving.                                                  *)

\* A connection that stompClient no longer refers to goes on.
Forget ==
    IF client = "none" THEN UNCHANGED strays
                       ELSE strays < MaxStrays /\ strays' = strays + 1

\* connectWebSocket, which gives up without a word if nobody is signed in.
connectWebSocket ==
    IF stored = 0 THEN hindered' = TRUE /\ UNCHANGED <<client, strays>>
    ELSE /\ client' = "dialling"
         /\ Forget
         /\ hindered' = FALSE

\* clearTimeout as if the timer had always just been armed.
ClearAnyTimer ==
    /\ timers' = timers - 1
    /\ latest' = FALSE

\* clearTimeout(reconnectTimer), which knows one timer.
ClearTimer ==
    /\ timers' = IF latest THEN timers - 1 ELSE timers
    /\ latest' = FALSE

\* The page after window.onload, which loads the app if a pair is stored.
NewPage(t) ==
    /\ stored' = t
    /\ page' = "form"
    /\ call' = [c \in Calls |->
                   IF c = Some(Calls) /\ t # 0
                   THEN [kind |-> "me", step |-> "sent", pair |-> 0] ELSE Idle]
    /\ logouts' = {}
    /\ client' = "none" /\ strays' = 0
    /\ timers' = 0 /\ latest' = FALSE
    /\ hindered' = FALSE

\* localStorage.clear(), stompClient.disconnect() and location.reload(). Nobody
\* carries a token any more, so what Redis knows of them does not matter.
Leave == NewPage(0) /\ live' = {} /\ doubtful' = FALSE

\* doLogout, by a call that goes on as given: if a token is stored, the server
\* is asked first.
doLogout(goOn) ==
    IF stored = 0 THEN Leave
    ELSE /\ logouts' = logouts \cup {stored}
         /\ ClearTimer
         /\ goOn
         /\ UNCHANGED <<stored, page, live, doubtful>>

\* onWsError up to its await, with what it leaves of the other connections:
\* stompClient is dropped, whichever connection this is about.
onWsError(others) ==
    IF stored = 0 THEN Leave
    ELSE /\ Free # {} /\ timers + Cardinality(Errors) < MaxTimers
         /\ AskRefresh(Some(Free), "error")
         /\ client' = "none"
         /\ others
         /\ UNCHANGED <<page, stored, logouts, timers, latest, live, hindered>>

\* CONNECTED: the server found the access token valid.
Connected ==
    /\ client = "dialling"
    /\ client' = "up"
    /\ UNCHANGED <<page, stored, calls, strays, timers, latest, live, history>>

\* An ERROR frame, for an expired token: stompjs calls onWsError, and will call
\* it again when the socket closes.
Refused ==
    /\ client = "dialling"
    /\ onWsError(Forget)

\* The socket of stompClient closes, or never opens.
Lost ==
    /\ client # "none"
    /\ onWsError(UNCHANGED strays)

\* Another socket closes: that of stompClient is a stray from then on.
StrayLost ==
    /\ strays > 0
    /\ onWsError(strays' = IF client = "none" THEN strays - 1 ELSE strays)

FireTimer ==
    /\ timers > 0
    /\ timers' = timers - 1
    /\ \/ latest' = FALSE
       \/ timers > 1 /\ UNCHANGED latest
    /\ connectWebSocket
    /\ UNCHANGED <<page, stored, calls, live, doubtful>>

-------------------------------------------------------------------------------
(* apiFetch.                                                                *)

\* What follows a request, whatever it said: loadApp goes on to the next.
Continue(c) ==
    /\ CASE call[c].kind = "me"    -> Ask(c, "rooms")
         [] call[c].kind = "rooms" -> Ask(c, "dms")
         [] OTHER                  -> Finish(c)
    /\ IF call[c].kind = "dms" THEN connectWebSocket
                               ELSE UNCHANGED <<client, strays, hindered>>

\* loadApp ends without the user's data.
GiveUp(c) == Finish(c) /\ UNCHANGED <<client, strays, hindered>>

\* Any click that makes a request: loadRooms, createRoom, openRoom, openDm.
Request ==
    /\ page = "app" /\ Free # {}
    /\ Ask(Some(Free), "request")
    /\ UNCHANGED <<page, stored, logouts, link, live, history>>

\* The server takes the access token; with the user's data loadApp shows the app.
Answered(c) ==
    /\ call[c].step \in {"sent", "again"} /\ call[c].kind # "login"
    /\ Continue(c)
    /\ page' = IF call[c].kind = "me" THEN "app" ELSE page
    /\ UNCHANGED <<stored, logouts, timers, latest, live, doubtful>>

\* 401: tryRefresh with what is stored by now; without a token it is over.
Unauthorized(c) ==
    /\ call[c].step \in {"sent", "bare"} /\ call[c].kind # "login"
    /\ IF stored = 0 THEN Leave
       ELSE /\ AskRefresh(c, call[c].kind)
            /\ UNCHANGED <<page, stored, logouts, link, live, hindered>>

\* Any other answer, or a second 401: loadApp logs out, the others do not care.
Failed(c) ==
    /\ call[c].step \in {"sent", "bare", "again"} /\ call[c].kind # "login"
    /\ IF call[c].kind = "me"
       THEN doLogout(GiveUp(c))
       ELSE Continue(c) /\ UNCHANGED <<page, stored, logouts, timers, latest, live, doubtful>>

\* The network fails while the call waits: an exception ends it. The server may
\* have taken the request all the same.
Reject(c) ==
    /\ call[c].step # "idle"
    /\ Finish(c)
    /\ hindered' = TRUE
    /\ doubtful' = (doubtful \/ c \in Renewing)
    /\ \/ UNCHANGED live
       \/ call[c].step \in {"refresh", "found"} /\ live' = live \ {call[c].pair}
    /\ UNCHANGED <<page, stored, logouts, link>>

-------------------------------------------------------------------------------
(* tryRefresh. The server looks for the key, then deletes it and issues a   *)
(* pair.                                                                    *)

FindKey(c) ==
    /\ call[c].step = "refresh" /\ call[c].pair \in live
    /\ call' = [call EXCEPT ![c].step = "found"]
    /\ UNCHANGED <<page, stored, logouts, link, live, history>>

\* No key: every session of the user ends.
MissKey(c) ==
    /\ call[c].step = "refresh" /\ call[c].pair \notin live
    /\ call' = [call EXCEPT ![c].step = "denied"]
    /\ live' = {}
    /\ UNCHANGED <<page, stored, logouts, link, history>>

\* IssuePair that deletes last, and then every key of the user.
IssueThenDelete(c) ==
    /\ call[c].step = "found" /\ NewPairs(c) # {}
    /\ call' = [call EXCEPT ![c].step = "renewed", ![c].pair = Some(NewPairs(c))]
    /\ live' = {}
    /\ UNCHANGED <<page, stored, logouts, link, history>>

IssuePair(c) ==
    /\ call[c].step = "found" /\ NewPairs(c) # {}
    /\ LET t == Some(NewPairs(c))
       IN  /\ call' = [call EXCEPT ![c].step = "renewed", ![c].pair = t]
           /\ live' = (live \ {call[c].pair}) \cup {t}
    /\ UNCHANGED <<page, stored, logouts, link, history>>

\* The server or a proxy fails, before or after the key is deleted.
RefreshFails(c) ==
    /\ call[c].step \in {"refresh", "found"}
    /\ call' = [call EXCEPT ![c].step = "denied"]
    /\ \/ UNCHANGED <<live, doubtful>>
       \/ /\ call[c].step = "found"
          /\ live' = live \ {call[c].pair}
          /\ doubtful' = TRUE
    /\ UNCHANGED <<page, stored, logouts, link, hindered>>

\* onWsError that ends after the refresh.
NoTimer == UNCHANGED <<timers, latest>>

\* The rest of onWsError.
ArmTimer ==
    /\ timers' = timers + 1
    /\ latest' = TRUE

\* Only the access token of the new pair is stored.
RenewedHalf(c) ==
    /\ call[c].step = "renewed"
    /\ IF call[c].kind = "error"
       THEN Finish(c) /\ ArmTimer
       ELSE /\ call' = [call EXCEPT ![c].step = "again", ![c].pair = 0]
            /\ UNCHANGED <<timers, latest>>
    /\ UNCHANGED <<page, stored, logouts, client, strays, live, history>>

\* The new pair is stored, even if somebody has logged out meanwhile.
Renewed(c) ==
    /\ call[c].step = "renewed"
    /\ stored' = call[c].pair
    /\ IF call[c].kind = "error"
       THEN Finish(c) /\ ArmTimer
       ELSE /\ call' = [call EXCEPT ![c].step = "again", ![c].pair = 0]
            /\ UNCHANGED <<timers, latest>>
    /\ UNCHANGED <<page, logouts, client, strays, live, history>>

\* onWsError does not look at the answer but at what is stored; apiFetch logs out
\* and returns null, on which loadApp logs out too, or goes on.
Denied(c) ==
    /\ call[c].step = "denied"
    /\ IF call[c].kind = "error" /\ stored # 0
       THEN /\ Finish(c) /\ ArmTimer
            /\ UNCHANGED <<page, stored, logouts, client, strays, live, history>>
       ELSE doLogout(IF call[c].kind = "me" THEN GiveUp(c) ELSE Continue(c))

-------------------------------------------------------------------------------
(* Signing in and out.                                                      *)

\* doAuth, from the form; login or registration. Bound: one at a time.
Submit ==
    /\ page = "form" /\ Free # {} /\ \A c \in Calls : call[c].kind # "login"
    /\ call' = [call EXCEPT ![Some(Free)] = [kind |-> "login", step |-> "sent", pair |-> 0]]
    /\ UNCHANGED <<page, stored, logouts, link, live, history>>

\* The server signs the user in: the pair is stored and loadApp begins.
SignedIn(c) ==
    /\ call[c].kind = "login" /\ NewPairs(c) # {}
    /\ LET t == Some(NewPairs(c))
       IN  stored' = t /\ live' = live \cup {t}
    /\ call' = [call EXCEPT ![c] = [kind |-> "me", step |-> "sent", pair |-> 0]]
    /\ doubtful' = (Renewing # {})
    /\ UNCHANGED <<page, logouts, link, hindered>>

NotSignedIn(c) ==
    /\ call[c].kind = "login"
    /\ Finish(c)
    /\ UNCHANGED <<page, stored, logouts, link, live, history>>

\* The logout button.
ClickLogout ==
    /\ page = "app"
    /\ doLogout(UNCHANGED <<call, client, strays, hindered>>)

\* AuthService.logout.
ServeLogout(t) ==
    /\ t \in logouts
    /\ live' = live \ {t}
    /\ doubtful' = TRUE
    /\ UNCHANGED <<page, stored, calls, link, hindered>>

\* The answer: storage is cleared whatever it holds by now. AuthService answers
\* so even if Redis failed.
LoggedOut(t) ==
    /\ t \in logouts
    /\ Leave

\* The request fails, perhaps not the only one: nothing is cleared, but the
\* timer is.
LogoutRejected(t) ==
    /\ t \in logouts
    /\ logouts' \in {logouts, logouts \ {t}}
    /\ hindered' = TRUE
    /\ UNCHANGED <<page, stored, call, link, live, doubtful>>

\* The user loads the page again. Its calls are gone, though the server may
\* have served them.
Reload ==
    /\ NewPage(stored)
    /\ doubtful' = (doubtful \/ Renewing # {})
    /\ live' \in {live \cap {stored}, (live \cap {stored}) \ {call[c].pair : c \in Renewing}}

\* Another tab of the browser logs out.
OtherTabLogsOut ==
    /\ stored # 0
    /\ stored' = 0
    /\ live' = live \ {stored}
    /\ UNCHANGED <<page, calls, link, history>>

\* The key of a token that is still carried expires.
KeyExpires(t) ==
    /\ t \in live \cap CarriedBy(Calls)
    /\ live' = live \ {t}
    /\ doubtful' = TRUE
    /\ UNCHANGED <<page, stored, calls, link, hindered>>

-------------------------------------------------------------------------------

Proceed(c) ==
    \/ Answered(c) \/ Unauthorized(c) \/ Failed(c) \/ Reject(c)
    \/ FindKey(c) \/ MissKey(c) \/ IssuePair(c) \/ RefreshFails(c)
    \/ Renewed(c) \/ Denied(c)
    \/ SignedIn(c) \/ NotSignedIn(c)

EndLogout(t) == LoggedOut(t) \/ LogoutRejected(t)

Next ==
    \/ \E c \in Calls : Proceed(c)
    \/ \E t \in Pairs : ServeLogout(t) \/ EndLogout(t) \/ KeyExpires(t)
    \/ Connected \/ Refused \/ Lost \/ StrayLost \/ FireTimer
    \/ Request \/ Submit \/ ClickLogout \/ Reload \/ OtherTabLogsOut

Spec == Init /\ [][Next]_vars

\* Requests end, in an answer or a failure, and timers fire. The user need not
\* do anything, and no connection has to work.
FairSpec ==
    /\ Spec
    /\ \A c \in Calls : WF_vars(Proceed(c))
    /\ \A t \in Pairs : WF_vars(EndLogout(t))
    /\ WF_vars(FireTimer)

-------------------------------------------------------------------------------
(* What must hold.                                                          *)

\* A page whose refreshes never overlap, and whose answers all arrive, keeps a
\* refresh token the server takes, through every expiry, retry, reconnection,
\* reload and login.
StoredTokenIsLive ==
    ~doubtful /\ stored # 0 /\ Renewing = {} => stored \in live

Disconnected == page = "app" /\ client = "none"

\* A page that shows the app without a connection has something under way that
\* dials or leaves, unless a request has failed on the network or a dial found
\* nobody signed in: whatever overlaps, no timer or call is the last one.
NeverStranded ==
    Disconnected /\ ~hindered =>
        \/ \E c \in Calls : call[c].kind \in {"rooms", "dms", "error"}
        \/ timers > 0 \/ logouts # {}

\* What makes the above inductive.

TimersConsistent == latest => timers > 0

\* onWsError only refreshes, and an idle call is nobody's.
CallsConsistent ==
    \A c \in Calls :
        /\ call[c].kind = "error" => call[c].step \in Refreshing
        /\ call[c].kind = "login" => call[c].step = "sent"
        /\ call[c].step = "idle" => call[c].kind = "none"

\* Without doubt there is one refresh at most, of the stored token, which keeps
\* its key until the server has put a new one in its place.
TokenConsistent ==
    ~doubtful =>
        /\ \A c, d \in Renewing : c = d
        /\ \A c \in Renewing :
            IF call[c].step = "renewed"
            THEN call[c].pair \in live \ {stored}
            ELSE stored # 0 =>
                /\ stored \in live
                /\ call[c].step \in {"refresh", "found"} => call[c].pair = stored

SessionConsistent ==
    /\ TypeOK
    /\ TimersConsistent
    /\ CallsConsistent
    /\ TokenConsistent
    /\ StoredTokenIsLive
    /\ NeverStranded

\* A connection that is lost is retried until the page is left (FLOW-MSG.md,
\* "auto retry").
LostConnectionIsRetried ==
    Errors # {} ~> client # "none" \/ page # "app"

===============================================================================
