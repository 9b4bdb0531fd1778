------------------------- MODULE WebClientSessionProofs ------------------------
(***************************************************************************)
(* Theorems about WebClientSession for any number of calls, pairs,         *)
(* connections and timers. SessionConsistent is the inductive invariant.   *)
(***************************************************************************)
EXTENDS WebClientSession, TLAPS

\* The types of the variables and what is said about calls and timers.
BaseConsistent == TypeOK /\ TimersConsistent /\ CallsConsistent

\* The choice from a set is in it.
LEMMA SomeIsMember == ASSUME NEW S, S # {} PROVE Some(S) \in S
  BY DEF Some

\* The page after it was left or loaded again.
LEMMA NewPageBase ==
    ASSUME TypeOK, NEW t \in Pairs \cup {0}, NewPage(t),
           live' \subseteq Pairs, doubtful' \in BOOLEAN
    PROVE  BaseConsistent'
<1>1. TypeOK'
  BY DEF TypeOK, NewPage, Idle, Kinds, Steps, Refreshing
<1>2. TimersConsistent' /\ CallsConsistent'
  BY DEF NewPage, TimersConsistent, CallsConsistent, Idle
<1> QED
  BY <1>1, <1>2 DEF BaseConsistent

\* The page after somebody has logged out.
LEMMA LeaveBase ==
    ASSUME TypeOK, Leave
    PROVE  BaseConsistent'
  BY NewPageBase DEF Leave

\* Some call of the page takes a step, and the others wait.
CallStep(c, x) == call' = [call EXCEPT ![c] = x]
LegalCall(x) ==
    /\ x \in [kind : Kinds, step : Steps, pair : Pairs \cup {0}]
    /\ x.kind = "error" => x.step \in Refreshing
    /\ x.kind = "login" => x.step = "sent"
    /\ x.step = "idle" => x.kind = "none"

\* One call that takes a legal step leaves the calls consistent.
LEMMA CallStepBase ==
    ASSUME BaseConsistent, NEW c \in Calls, NEW x, CallStep(c, x), LegalCall(x)
    PROVE  /\ call' \in [Calls -> [kind : Kinds, step : Steps, pair : Pairs \cup {0}]]
           /\ CallsConsistent'
  BY DEF BaseConsistent, TypeOK, CallsConsistent, CallStep, LegalCall

\* A call may end,
LEMMA IdleIsLegal == LegalCall(Idle)
  BY DEF LegalCall, Idle, Kinds, Steps, Refreshing

\* wait for a request,
LEMMA AskedIsLegal ==
    ASSUME NEW k \in {"me", "rooms", "dms", "request"}, NEW s \in {"sent", "bare", "again"}
    PROVE  LegalCall([kind |-> k, pair |-> 0, step |-> s])
  BY DEF LegalCall, Kinds, Steps, Refreshing

\* or wait for a refresh.
LEMMA RefreshingIsLegal ==
    ASSUME NEW k \in Kinds \ {"login", "none"}, NEW s \in Refreshing, NEW t \in Pairs \cup {0}
    PROVE  LegalCall([kind |-> k, pair |-> t, step |-> s])
  BY DEF LegalCall, Kinds, Steps, Refreshing

\* What a dial does.
LEMMA DialBase ==
    ASSUME TypeOK, connectWebSocket
    PROVE  /\ client' \in {"none", "dialling", "up"} /\ strays' \in Nat
           /\ hindered' \in BOOLEAN
           /\ client' = "none" => hindered'
<1>1. CASE stored = 0
  BY <1>1 DEF connectWebSocket, TypeOK
<1>2. CASE stored # 0
  <2>1. strays' \in Nat
    BY <1>2 DEF connectWebSocket, Forget, TypeOK
  <2>2. client' = "dialling" /\ hindered' \in BOOLEAN
    BY <1>2 DEF connectWebSocket
  <2> QED
    BY <2>1, <2>2
<1> QED
  BY <1>1, <1>2

\* The calls of the page after a step of one of them.
CallsOK ==
    /\ call \in [Calls -> [kind : Kinds, step : Steps, pair : Pairs \cup {0}]]
    /\ CallsConsistent

\* A call that ends leaves the calls consistent;
LEMMA FinishBase ==
    ASSUME BaseConsistent, NEW c \in Calls, Finish(c)
    PROVE  CallsOK'
  BY CallStepBase, IdleIsLegal DEF Finish, CallStep, CallsOK

\* so does one that sends its first request,
LEMMA AskBase ==
    ASSUME BaseConsistent, NEW c \in Calls, NEW k \in {"me", "rooms", "dms", "request"},
           Ask(c, k)
    PROVE  CallsOK'
<1> DEFINE s == IF stored = 0 THEN "bare" ELSE "sent"
<1>1. LegalCall([kind |-> k, pair |-> 0, step |-> s])
  BY AskedIsLegal
<1>2. CallStep(c, [kind |-> k, pair |-> 0, step |-> s])
  BY DEF Ask, CallStep
<1> QED
  BY <1>1, <1>2, CallStepBase DEF CallsOK

\* one that refreshes the stored pair,
LEMMA AskRefreshBase ==
    ASSUME BaseConsistent, NEW c \in Calls, NEW k \in Kinds \ {"login", "none"},
           AskRefresh(c, k)
    PROVE  CallsOK' /\ doubtful' \in BOOLEAN
<1>1. LegalCall([kind |-> k, pair |-> stored, step |-> "refresh"])
  BY RefreshingIsLegal DEF BaseConsistent, TypeOK, Refreshing
<1>2. CallStep(c, [kind |-> k, pair |-> stored, step |-> "refresh"])
  BY DEF AskRefresh, CallStep
<1>3. CallsOK'
  BY <1>1, <1>2, CallStepBase DEF CallsOK
<1> QED
  BY <1>3 DEF AskRefresh, BaseConsistent, TypeOK

\* one that goes on after an answer,
LEMMA ContinueBase ==
    ASSUME BaseConsistent, NEW c \in Calls, Continue(c)
    PROVE  /\ CallsOK'
           /\ client' \in {"none", "dialling", "up"} /\ strays' \in Nat
           /\ hindered' \in BOOLEAN
<1>1. CallsOK'
  <2>1. \/ Ask(c, "rooms") \/ Ask(c, "dms") \/ Finish(c)
    BY DEF Continue
  <2> QED
    BY <2>1, AskBase, FinishBase
<1>2. CASE call[c].kind = "dms"
  BY <1>1, <1>2, DialBase DEF Continue, BaseConsistent
<1>3. CASE call[c].kind # "dms"
  BY <1>1, <1>3 DEF Continue, BaseConsistent, TypeOK
<1> QED
  BY <1>2, <1>3

\* and one that gives up.
LEMMA GiveUpBase ==
    ASSUME BaseConsistent, NEW c \in Calls, GiveUp(c)
    PROVE  /\ CallsOK'
           /\ client' \in {"none", "dialling", "up"} /\ strays' \in Nat
           /\ hindered' \in BOOLEAN
  BY FinishBase DEF GiveUp, BaseConsistent, TypeOK

\* doLogout with a token, whatever goes on.
LEMMA LogoutBase ==
    ASSUME BaseConsistent, stored # 0, logouts' = logouts \cup {stored}, ClearTimer,
           UNCHANGED <<stored, page, live, doubtful>>,
           CallsOK', client' \in {"none", "dialling", "up"}, strays' \in Nat,
           hindered' \in BOOLEAN
    PROVE  BaseConsistent'
<1>1. timers' \in Nat /\ latest' = FALSE
  BY DEF ClearTimer, BaseConsistent, TypeOK, TimersConsistent
<1>2. TypeOK'
  BY <1>1 DEF BaseConsistent, TypeOK, CallsOK
<1> QED
  BY <1>1, <1>2 DEF BaseConsistent, TimersConsistent, CallsOK

\* onWsError with a token.
LEMMA ErrorBase ==
    ASSUME BaseConsistent, stored # 0, Free # {}, AskRefresh(Some(Free), "error"),
           client' = "none", strays' \in Nat,
           UNCHANGED <<page, stored, logouts, timers, latest, live, hindered>>
    PROVE  BaseConsistent'
<1>1. Some(Free) \in Calls
  BY SomeIsMember DEF Free
<1>2. CallsOK' /\ doubtful' \in BOOLEAN
  BY <1>1, AskRefreshBase DEF Kinds
<1> QED
  BY <1>2 DEF BaseConsistent, TypeOK, TimersConsistent, CallsOK

\* Every step keeps the types, and what is said about calls and timers.
LEMMA BaseStep ==
    ASSUME BaseConsistent, [Next]_vars
    PROVE  BaseConsistent'
<1>0. TypeOK /\ TimersConsistent /\ CallsConsistent
  BY DEF BaseConsistent
<1>1. CASE UNCHANGED vars
  BY <1>0, <1>1 DEF BaseConsistent, TypeOK, TimersConsistent, CallsConsistent, vars,
                    calls, link, history
<1>2. ASSUME NEW c \in Calls, Answered(c)
      PROVE  BaseConsistent'
  <2>1. /\ CallsOK'
        /\ client' \in {"none", "dialling", "up"} /\ strays' \in Nat
        /\ hindered' \in BOOLEAN
    BY <1>2, ContinueBase DEF Answered
  <2>2. page' \in {"form", "app"}
    BY <1>0, <1>2 DEF Answered, TypeOK
  <2> QED
    BY <1>0, <1>2, <2>1, <2>2 DEF Answered, BaseConsistent, TypeOK, TimersConsistent, CallsOK
<1>3. ASSUME NEW c \in Calls, Unauthorized(c)
      PROVE  BaseConsistent'
  <2>1. CASE stored = 0
    BY <1>0, <1>3, <2>1, LeaveBase DEF Unauthorized
  <2>2. CASE stored # 0
    <3>1. call[c].kind \in Kinds \ {"login", "none"} \/ call[c].kind = "none"
      BY <1>0, <1>3 DEF Unauthorized, TypeOK
    <3>2. call' = [call EXCEPT ![c] = [kind |-> call[c].kind, pair |-> stored,
                                       step |-> "refresh"]]
      BY <1>3, <2>2 DEF Unauthorized, AskRefresh
    <3>3. LegalCall([kind |-> call[c].kind, pair |-> stored, step |-> "refresh"])
      BY <1>0, <1>3 DEF LegalCall, Unauthorized, TypeOK, Steps, Refreshing
    <3>4. CallsOK'
      BY <3>2, <3>3, CallStepBase DEF CallStep, CallsOK
    <3>5. doubtful' \in BOOLEAN
      BY <1>3, <2>2 DEF Unauthorized, AskRefresh
    <3> QED
      BY <1>0, <1>3, <2>2, <3>4, <3>5
         DEF Unauthorized, BaseConsistent, TypeOK, TimersConsistent, CallsOK, link
  <2> QED
    BY <2>1, <2>2
<1>4. ASSUME NEW c \in Calls, Failed(c)
      PROVE  BaseConsistent'
  <2>1. CASE call[c].kind = "me"
    <3>1. CASE stored = 0
      BY <1>0, <1>4, <2>1, <3>1, LeaveBase DEF Failed, doLogout
    <3>2. CASE stored # 0
      <4>1. GiveUp(c)
        BY <1>4, <2>1, <3>2 DEF Failed, doLogout
      <4> QED
        BY <1>4, <2>1, <3>2, <4>1, GiveUpBase, LogoutBase DEF Failed, doLogout
    <3> QED
      BY <3>1, <3>2
  <2>2. CASE call[c].kind # "me"
    <3>1. /\ CallsOK'
          /\ client' \in {"none", "dialling", "up"} /\ strays' \in Nat
          /\ hindered' \in BOOLEAN
      BY <1>4, <2>2, ContinueBase DEF Failed
    <3> QED
      BY <1>0, <1>4, <2>2, <3>1 DEF Failed, BaseConsistent, TypeOK, TimersConsistent, CallsOK
  <2> QED
    BY <2>1, <2>2
<1>5. ASSUME NEW c \in Calls, Reject(c)
      PROVE  BaseConsistent'
  <2>1. CallsOK'
    BY <1>5, FinishBase DEF Reject
  <2>2. live' \subseteq Pairs
    BY <1>0, <1>5 DEF Reject, TypeOK
  <2>3. hindered' \in BOOLEAN /\ doubtful' \in BOOLEAN
    BY <1>5 DEF Reject
  <2> QED
    BY <1>0, <1>5, <2>1, <2>2, <2>3
       DEF Reject, BaseConsistent, TypeOK, TimersConsistent, CallsOK, link
<1>6. ASSUME NEW c \in Calls, FindKey(c)
      PROVE  BaseConsistent'
  BY <1>0, <1>6 DEF FindKey, BaseConsistent, TypeOK, TimersConsistent, CallsConsistent,
                    Steps, Refreshing, link, history
<1>7. ASSUME NEW c \in Calls, MissKey(c)
      PROVE  BaseConsistent'
  BY <1>0, <1>7 DEF MissKey, BaseConsistent, TypeOK, TimersConsistent, CallsConsistent,
                    Steps, Refreshing, link, history
<1>8. ASSUME NEW c \in Calls, IssuePair(c)
      PROVE  BaseConsistent'
  <2>1. Some(NewPairs(c)) \in Pairs
    BY <1>8, SomeIsMember DEF IssuePair, NewPairs
  <2> QED
    BY <1>0, <1>8, <2>1
       DEF IssuePair, BaseConsistent, TypeOK, TimersConsistent, CallsConsistent,
           Steps, Refreshing, link, history
<1>9. ASSUME NEW c \in Calls, RefreshFails(c)
      PROVE  BaseConsistent'
  <2>1. live' \subseteq Pairs /\ doubtful' \in BOOLEAN
    BY <1>0, <1>9 DEF RefreshFails, TypeOK
  <2> QED
    BY <1>0, <1>9, <2>1
       DEF RefreshFails, BaseConsistent, TypeOK, TimersConsistent, CallsConsistent,
           Steps, Refreshing, link
<1>10. ASSUME NEW c \in Calls, Renewed(c)
       PROVE  BaseConsistent'
  <2>1. stored' \in Pairs \cup {0}
    BY <1>0, <1>10 DEF Renewed, TypeOK
  <2>2. CASE call[c].kind = "error"
    <3>1. CallsOK'
      BY <1>10, <2>2, FinishBase DEF Renewed
    <3> QED
      BY <1>0, <1>10, <2>1, <2>2, <3>1
         DEF Renewed, ArmTimer, BaseConsistent, TypeOK, TimersConsistent, CallsOK, history
  <2>3. CASE call[c].kind # "error"
    <3>1. CallsOK'
      BY <1>0, <1>10, <2>3
         DEF Renewed, CallsOK, TypeOK, CallsConsistent, Steps, Refreshing
    <3> QED
      BY <1>0, <1>10, <2>1, <2>3, <3>1
         DEF Renewed, BaseConsistent, TypeOK, TimersConsistent, CallsOK, history
  <2> QED
    BY <2>2, <2>3
<1>11. ASSUME NEW c \in Calls, Denied(c)
       PROVE  BaseConsistent'
  <2>1. CASE stored = 0
    BY <1>0, <1>11, <2>1, LeaveBase DEF Denied, doLogout
  <2>2. CASE stored # 0 /\ call[c].kind = "error"
    <3>1. CallsOK'
      BY <1>11, <2>2, FinishBase DEF Denied
    <3> QED
      BY <1>0, <1>11, <2>2, <3>1
         DEF Denied, ArmTimer, BaseConsistent, TypeOK, TimersConsistent, CallsOK, history
  <2>3. CASE stored # 0 /\ call[c].kind = "me"
    <3>1. GiveUp(c)
      BY <1>11, <2>3 DEF Denied, doLogout
    <3> QED
      BY <1>11, <2>3, <3>1, GiveUpBase, LogoutBase DEF Denied, doLogout
  <2>4. CASE stored # 0 /\ call[c].kind \notin {"error", "me"}
    <3>1. Continue(c)
      BY <1>11, <2>4 DEF Denied, doLogout
    <3> QED
      BY <1>11, <2>4, <3>1, ContinueBase, LogoutBase DEF Denied, doLogout
  <2> QED
    BY <2>1, <2>2, <2>3, <2>4
<1>12. ASSUME NEW c \in Calls, SignedIn(c)
       PROVE  BaseConsistent'
  <2>1. Some(NewPairs(c)) \in Pairs
    BY <1>12, SomeIsMember DEF SignedIn, NewPairs
  <2>2. CallsOK'
    BY <1>12, AskedIsLegal, CallStepBase DEF SignedIn, CallStep, CallsOK
  <2>3. doubtful' \in BOOLEAN
    BY <1>12 DEF SignedIn
  <2> QED
    BY <1>0, <1>12, <2>1, <2>2, <2>3
       DEF SignedIn, BaseConsistent, TypeOK, TimersConsistent, CallsOK, link
<1>13. ASSUME NEW c \in Calls, NotSignedIn(c)
       PROVE  BaseConsistent'
  BY <1>0, <1>13, FinishBase
     DEF NotSignedIn, BaseConsistent, TypeOK, TimersConsistent, CallsOK, link, history
<1>14. ASSUME NEW t \in Pairs, ServeLogout(t) \/ LogoutRejected(t) \/ KeyExpires(t)
       PROVE  BaseConsistent'
  <2>1. UNCHANGED <<page, stored, call, client, strays, timers, latest>>
    BY <1>14 DEF ServeLogout, LogoutRejected, KeyExpires, calls, link
  <2>2. logouts' \subseteq Pairs /\ live' \subseteq Pairs
    BY <1>0, <1>14 DEF ServeLogout, LogoutRejected, KeyExpires, TypeOK, calls
  <2>3. hindered' \in BOOLEAN /\ doubtful' \in BOOLEAN
    BY <1>0, <1>14 DEF ServeLogout, LogoutRejected, KeyExpires, TypeOK
  <2> QED
    BY <1>0, <2>1, <2>2, <2>3 DEF BaseConsistent, TypeOK, TimersConsistent, CallsConsistent
<1>15. ASSUME NEW t \in Pairs, LoggedOut(t)
       PROVE  BaseConsistent'
  BY <1>0, <1>15, LeaveBase DEF LoggedOut
<1>16. CASE Connected \/ OtherTabLogsOut
  BY <1>0, <1>16
     DEF Connected, OtherTabLogsOut, BaseConsistent, TypeOK, TimersConsistent,
         CallsConsistent, calls, link, history
<1>17. CASE Refused \/ Lost \/ StrayLost
  <2>1. CASE stored = 0
    BY <1>0, <1>17, <2>1, LeaveBase DEF Refused, Lost, StrayLost, onWsError
  <2>2. CASE stored # 0
    <3>1. strays' \in Nat
      BY <1>0, <1>17, <2>2 DEF Refused, Lost, StrayLost, onWsError, Forget, TypeOK
    <3> QED
      BY <1>17, <2>2, <3>1, ErrorBase DEF Refused, Lost, StrayLost, onWsError
  <2> QED
    BY <2>1, <2>2
<1>18. CASE FireTimer
  <2>1. timers' \in Nat /\ (latest' => timers' > 0)
    BY <1>0, <1>18 DEF FireTimer, TypeOK, TimersConsistent
  <2>2. latest' \in BOOLEAN
    BY <1>0, <1>18 DEF FireTimer, TypeOK
  <2> QED
    BY <1>0, <1>18, <2>1, <2>2, DialBase
       DEF FireTimer, BaseConsistent, TypeOK, TimersConsistent, CallsConsistent, calls
<1>19. CASE Request
  <2>1. Some(Free) \in Calls
    BY <1>19, SomeIsMember DEF Request, Free
  <2> QED
    BY <1>0, <1>19, <2>1, AskBase
       DEF Request, BaseConsistent, TypeOK, TimersConsistent, CallsOK, link, history
<1>20. CASE Submit
  <2>1. Some(Free) \in Calls
    BY <1>20, SomeIsMember DEF Submit, Free
  <2>2. LegalCall([kind |-> "login", step |-> "sent", pair |-> 0])
    BY DEF LegalCall, Kinds, Steps, Refreshing
  <2>3. CallsOK'
    BY <1>20, <2>1, <2>2, CallStepBase DEF Submit, CallStep, CallsOK
  <2> QED
    BY <1>0, <1>20, <2>3
       DEF Submit, BaseConsistent, TypeOK, TimersConsistent, CallsOK, link, history
<1>21. CASE ClickLogout
  <2>1. CASE stored = 0
    BY <1>0, <1>21, <2>1, LeaveBase DEF ClickLogout, doLogout
  <2>2. CASE stored # 0
    <3>1. UNCHANGED <<call, client, strays, hindered>>
      BY <1>21, <2>2 DEF ClickLogout, doLogout
    <3>2. CallsOK' /\ client' \in {"none", "dialling", "up"} /\ strays' \in Nat
                  /\ hindered' \in BOOLEAN
      BY <1>0, <3>1 DEF CallsOK, TypeOK, CallsConsistent
    <3> QED
      BY <1>21, <2>2, <3>2, LogoutBase DEF ClickLogout, doLogout
  <2> QED
    BY <2>1, <2>2
<1>22. CASE Reload
  <2>1. live' \subseteq Pairs /\ doubtful' \in BOOLEAN
    BY <1>0, <1>22 DEF Reload, TypeOK
  <2> QED
    BY <1>0, <1>22, <2>1, NewPageBase DEF Reload, TypeOK
<1> QED
  BY <1>1, <1>2, <1>3, <1>4, <1>5, <1>6, <1>7, <1>8, <1>9, <1>10, <1>11, <1>12, <1>13,
     <1>14, <1>15, <1>16, <1>17, <1>18, <1>19, <1>20, <1>21, <1>22
     DEF Next, Proceed, EndLogout

-------------------------------------------------------------------------------
(* The stored token.                                                        *)

\* What the steps of one call do to Renewing.
LEMMA CallLeavesRenewing ==
    ASSUME BaseConsistent, NEW c \in Calls, NEW x, CallStep(c, x), x.step \notin Refreshing
    PROVE  Renewing' = Renewing \ {c}
  BY DEF BaseConsistent, TypeOK, CallStep, Renewing

\* A call that takes a step of a refresh is one of those that refresh.
LEMMA CallStaysRenewing ==
    ASSUME BaseConsistent, NEW c \in Calls, NEW x, CallStep(c, x), x.step \in Refreshing
    PROVE  Renewing' = Renewing \cup {c}
  BY DEF BaseConsistent, TypeOK, CallStep, Renewing

\* A page that is loaded again refreshes nothing and keeps a token only if it is good.
LEMMA NewPageTokens ==
    ASSUME TypeOK, NEW t, NewPage(t), ~doubtful' /\ t # 0 => t \in live'
    PROVE  TokenConsistent' /\ StoredTokenIsLive'
<1>1. Renewing' = {}
  BY DEF NewPage, Renewing, Refreshing, Idle
<1> QED
  BY <1>1 DEF NewPage, TokenConsistent, StoredTokenIsLive

\* A page that has been left keeps none.
LEMMA LeaveTokens ==
    ASSUME TypeOK, Leave
    PROVE  TokenConsistent' /\ StoredTokenIsLive'
  BY NewPageTokens DEF Leave

\* What is known of a token does not change with a call that does not refresh.
LEMMA SameTokens ==
    ASSUME TokenConsistent, StoredTokenIsLive, NEW c \in Calls,
           Renewing' = Renewing \ {c}, \A d \in Renewing \ {c} : call'[d] = call[d],
           c \in Renewing => call[c].step # "renewed",
           UNCHANGED <<stored, live, doubtful>>
    PROVE  TokenConsistent' /\ StoredTokenIsLive'
<1>1. TokenConsistent'
  BY DEF TokenConsistent
<1>2. StoredTokenIsLive'
  BY DEF TokenConsistent, StoredTokenIsLive
<1> QED
  BY <1>1, <1>2

\* A call that does not refresh after its step, and brings no new pair, leaves the tokens
\* consistent.
LEMMA StepOutTokens ==
    ASSUME BaseConsistent, TokenConsistent, StoredTokenIsLive, NEW c \in Calls, NEW x,
           CallStep(c, x), x.step \notin Refreshing, call[c].step # "renewed",
           UNCHANGED <<stored, live, doubtful>>
    PROVE  TokenConsistent' /\ StoredTokenIsLive'
<1>1. Renewing' = Renewing \ {c}
  BY CallLeavesRenewing
<1>2. \A d \in Renewing \ {c} : call'[d] = call[d]
  BY DEF CallStep, BaseConsistent, TypeOK, Renewing
<1> QED
  BY <1>1, <1>2, SameTokens

\* A call that begins to refresh is the only one, or there is doubt.
LEMMA AskRefreshTokens ==
    ASSUME BaseConsistent, TokenConsistent, StoredTokenIsLive, NEW c \in Calls, NEW k,
           AskRefresh(c, k), UNCHANGED <<stored, live>>
    PROVE  TokenConsistent' /\ StoredTokenIsLive'
<1>1. Renewing' = Renewing \cup {c}
  BY CallStaysRenewing DEF AskRefresh, CallStep, Refreshing
<1>2. CASE doubtful'
  BY <1>2 DEF TokenConsistent, StoredTokenIsLive
<1>3. CASE ~doubtful'
  <2>1. ~doubtful /\ Renewing = {} /\ Renewing' = {c}
    BY <1>1, <1>3 DEF AskRefresh
  <2>2. call'[c].step = "refresh" /\ call'[c].pair = stored
    BY DEF AskRefresh, BaseConsistent, TypeOK
  <2> QED
    BY <2>1, <2>2 DEF TokenConsistent, StoredTokenIsLive
<1> QED
  BY <1>2, <1>3

\* A call that goes on or gives up touches no token.
LEMMA ContinueTokens ==
    ASSUME BaseConsistent, TokenConsistent, StoredTokenIsLive, NEW c \in Calls,
           Continue(c) \/ GiveUp(c), call[c].step # "renewed",
           UNCHANGED <<stored, live, doubtful>>
    PROVE  TokenConsistent' /\ StoredTokenIsLive'
<1>1. Finish(c) \/ Ask(c, "rooms") \/ Ask(c, "dms")
  BY DEF Continue, GiveUp
<1> QED
  BY <1>1, StepOutTokens DEF Finish, Ask, CallStep, Refreshing, Idle

\* Every step keeps what is known of the stored token and of its refresh.
LEMMA TokenStep ==
    ASSUME BaseConsistent, TokenConsistent, StoredTokenIsLive, [Next]_vars
    PROVE  TokenConsistent' /\ StoredTokenIsLive'
<1> DEFINE Goal == TokenConsistent' /\ StoredTokenIsLive'
<1>0. TypeOK
  BY DEF BaseConsistent
<1>a. ASSUME UNCHANGED <<call, stored, live, doubtful>>
      PROVE  Goal
  BY <1>a DEF TokenConsistent, StoredTokenIsLive, Renewing
<1>b. ASSUME doubtful'
      PROVE  Goal
  BY <1>b DEF TokenConsistent, StoredTokenIsLive
<1>1. CASE UNCHANGED vars
  BY <1>1, <1>a DEF vars, calls, history
<1>2. ASSUME NEW c \in Calls, Answered(c)
      PROVE  Goal
  BY <1>2, ContinueTokens DEF Answered
<1>3. ASSUME NEW c \in Calls, Unauthorized(c)
      PROVE  Goal
  <2>1. CASE stored = 0
    BY <1>0, <1>3, <2>1, LeaveTokens DEF Unauthorized
  <2>2. CASE stored # 0
    BY <1>3, <2>2, AskRefreshTokens DEF Unauthorized
  <2> QED
    BY <2>1, <2>2
<1>4. ASSUME NEW c \in Calls, Failed(c)
      PROVE  Goal
  <2>1. CASE call[c].kind = "me" /\ stored = 0
    BY <1>0, <1>4, <2>1, LeaveTokens DEF Failed, doLogout
  <2>2. CASE call[c].kind = "me" /\ stored # 0
    <3>1. GiveUp(c) /\ UNCHANGED <<stored, live, doubtful>>
      BY <1>4, <2>2 DEF Failed, doLogout
    <3> QED
      BY <1>4, <3>1, ContinueTokens DEF Failed
  <2>3. CASE call[c].kind # "me"
    BY <1>4, <2>3, ContinueTokens DEF Failed
  <2> QED
    BY <2>1, <2>2, <2>3
<1>5. ASSUME NEW c \in Calls, Reject(c)
      PROVE  Goal
  <2>1. CASE c \in Renewing
    BY <1>5, <2>1, <1>b DEF Reject
  <2>2. CASE c \notin Renewing
    <3>1. UNCHANGED <<stored, live, doubtful>> /\ call[c].step # "renewed"
      BY <1>0, <1>5, <2>2 DEF Reject, Renewing, Refreshing, TypeOK
    <3> QED
      BY <1>5, <3>1, StepOutTokens DEF Reject, Finish, CallStep, Refreshing, Idle
  <2> QED
    BY <2>1, <2>2
<1>6. ASSUME NEW c \in Calls, FindKey(c)
      PROVE  Goal
  <2>1. Renewing' = Renewing
    BY <1>0, <1>6 DEF FindKey, Renewing, Refreshing, TypeOK
  <2>2. \A d \in Calls : /\ call'[d].pair = call[d].pair
                        /\ call'[d].step = IF d = c THEN "found" ELSE call[d].step
    BY <1>0, <1>6 DEF FindKey, TypeOK
  <2>3. Renewing \subseteq Calls
    BY DEF Renewing
  <2> QED
    BY <1>6, <2>1, <2>2, <2>3
       DEF FindKey, TokenConsistent, StoredTokenIsLive, link, history
<1>7. ASSUME NEW c \in Calls, MissKey(c)
      PROVE  Goal
  <2>1. Renewing' = Renewing /\ c \in Renewing
    BY <1>0, <1>7 DEF MissKey, Renewing, Refreshing, TypeOK
  <2>2. call'[c].step = "denied"
    BY <1>0, <1>7 DEF MissKey, TypeOK
  <2>3. ~doubtful => Renewing = {c} /\ stored = 0
    BY <1>7, <2>1 DEF MissKey, TokenConsistent
  <2> QED
    BY <1>7, <2>1, <2>2, <2>3
       DEF MissKey, TokenConsistent, StoredTokenIsLive, link, history
<1>8. ASSUME NEW c \in Calls, IssuePair(c)
      PROVE  Goal
  <2>1. Renewing' = Renewing /\ c \in Renewing
    BY <1>0, <1>8 DEF IssuePair, Renewing, Refreshing, TypeOK
  <2>2. PICK t \in NewPairs(c) : /\ call'[c].step = "renewed" /\ call'[c].pair = t
                                /\ t \in live'
    BY <1>0, <1>8, SomeIsMember DEF IssuePair, TypeOK
  <2>3. t # stored
    BY <2>2 DEF NewPairs, CarriedBy
  <2>4. ~doubtful => Renewing = {c}
    BY <2>1 DEF TokenConsistent
  <2> QED
    BY <1>8, <2>1, <2>2, <2>3, <2>4
       DEF IssuePair, TokenConsistent, StoredTokenIsLive, link, history
<1>9. ASSUME NEW c \in Calls, RefreshFails(c)
      PROVE  Goal
  <2>1. Renewing' = Renewing /\ c \in Renewing
    BY <1>0, <1>9 DEF RefreshFails, Renewing, Refreshing, TypeOK
  <2>2. call'[c].step = "denied" /\ call[c].step # "renewed"
    BY <1>0, <1>9 DEF RefreshFails, TypeOK
  <2>3. CASE doubtful'
    BY <2>3, <1>b
  <2>4. CASE ~doubtful'
    <3>1. UNCHANGED <<stored, live, doubtful>>
      BY <1>9, <2>4 DEF RefreshFails
    <3>2. Renewing = {c}
      BY <2>1, <2>4, <3>1 DEF TokenConsistent
    <3> QED
      BY <2>1, <2>2, <3>1, <3>2 DEF TokenConsistent, StoredTokenIsLive
  <2> QED
    BY <2>3, <2>4
<1>10. ASSUME NEW c \in Calls, Renewed(c)
       PROVE  Goal
  <2>1. Renewing' = Renewing \ {c} /\ c \in Renewing
    <3>1. call'[c].step \notin Refreshing /\ \A d \in Calls \ {c} : call'[d] = call[d]
      BY <1>0, <1>10 DEF Renewed, Finish, Idle, Refreshing, TypeOK
    <3> QED
      BY <1>10, <3>1 DEF Renewed, Renewing, Refreshing
  <2>2. ~doubtful => Renewing' = {} /\ stored' \in live
    BY <1>10, <2>1 DEF Renewed, TokenConsistent
  <2> QED
    BY <1>10, <2>2 DEF Renewed, TokenConsistent, StoredTokenIsLive, history
<1>11. ASSUME NEW c \in Calls, Denied(c)
       PROVE  Goal
  <2>1. CASE stored = 0
    BY <1>0, <1>11, <2>1, LeaveTokens DEF Denied, doLogout
  <2>2. CASE stored # 0 /\ call[c].kind = "error"
    <3>1. Finish(c) /\ UNCHANGED <<stored, live, doubtful>> /\ call[c].step # "renewed"
      BY <1>11, <2>2 DEF Denied, history
    <3> QED
      BY <3>1, StepOutTokens DEF Finish, CallStep, Refreshing, Idle
  <2>3. CASE stored # 0 /\ call[c].kind # "error"
    <3>1. /\ Continue(c) \/ GiveUp(c)
          /\ UNCHANGED <<stored, live, doubtful>> /\ call[c].step # "renewed"
      BY <1>11, <2>3 DEF Denied, doLogout
    <3> QED
      BY <3>1, ContinueTokens
  <2> QED
    BY <2>1, <2>2, <2>3
<1>12. ASSUME NEW c \in Calls, SignedIn(c)
       PROVE  Goal
  <2>1. CASE doubtful'
    BY <2>1, <1>b
  <2>2. CASE ~doubtful'
    <3>1. Renewing = {}
      BY <1>12, <2>2 DEF SignedIn
    <3>2. Renewing' = Renewing \ {c}
      BY <1>12, CallLeavesRenewing DEF SignedIn, CallStep, Refreshing
    <3>3. stored' \in live'
      BY <1>12 DEF SignedIn
    <3> QED
      BY <3>1, <3>2, <3>3 DEF TokenConsistent, StoredTokenIsLive
  <2> QED
    BY <2>1, <2>2
<1>13. ASSUME NEW c \in Calls, NotSignedIn(c)
       PROVE  Goal
  <2>1. call[c].step # "renewed" /\ UNCHANGED <<stored, live, doubtful>>
    BY <1>13 DEF NotSignedIn, BaseConsistent, CallsConsistent, history
  <2> QED
    BY <1>13, <2>1, StepOutTokens DEF NotSignedIn, Finish, CallStep, Refreshing, Idle
<1>14. ASSUME NEW t \in Pairs, ServeLogout(t) \/ KeyExpires(t)
       PROVE  Goal
  BY <1>14, <1>b DEF ServeLogout, KeyExpires
<1>15. ASSUME NEW t \in Pairs, LogoutRejected(t)
       PROVE  Goal
  BY <1>15, <1>a DEF LogoutRejected
<1>16. ASSUME NEW t \in Pairs, LoggedOut(t)
       PROVE  Goal
  BY <1>0, <1>16, LeaveTokens DEF LoggedOut
<1>17. CASE Connected \/ FireTimer
  BY <1>17, <1>a DEF Connected, FireTimer, calls, history
<1>18. CASE Refused \/ Lost \/ StrayLost
  <2>1. CASE stored = 0
    BY <1>0, <1>18, <2>1, LeaveTokens DEF Refused, Lost, StrayLost, onWsError
  <2>2. CASE stored # 0
    <3>1. /\ Free # {} /\ AskRefresh(Some(Free), "error")
          /\ UNCHANGED <<stored, live>>
      BY <1>18, <2>2 DEF Refused, Lost, StrayLost, onWsError
    <3>2. Some(Free) \in Calls
      BY <3>1, SomeIsMember DEF Free
    <3> QED
      BY <3>1, <3>2, AskRefreshTokens
  <2> QED
    BY <2>1, <2>2
<1>19. CASE Request \/ Submit
  <2>1. Free # {} /\ UNCHANGED <<stored, live, doubtful>>
    BY <1>19 DEF Request, Submit, history
  <2>2. Some(Free) \in Calls /\ call[Some(Free)].step = "idle"
    BY <2>1, SomeIsMember DEF Free
  <2>3. \E x : CallStep(Some(Free), x) /\ x.step \in {"bare", "sent"}
    <3>1. CASE Request
      <4> DEFINE x == [kind |-> "request", pair |-> 0,
                       step |-> IF stored = 0 THEN "bare" ELSE "sent"]
      <4>1. CallStep(Some(Free), x) /\ x.step \in {"bare", "sent"}
        BY <3>1 DEF Request, Ask, CallStep
      <4> QED
        BY <4>1
    <3>2. CASE Submit
      <4> DEFINE x == [kind |-> "login", step |-> "sent", pair |-> 0]
      <4>1. CallStep(Some(Free), x) /\ x.step \in {"bare", "sent"}
        BY <3>2 DEF Submit, CallStep
      <4> QED
        BY <4>1
    <3> QED
      BY <1>19, <3>1, <3>2
  <2> QED
    BY <2>1, <2>2, <2>3, StepOutTokens DEF Refreshing
<1>20. CASE ClickLogout
  <2>1. CASE stored = 0
    BY <1>0, <1>20, <2>1, LeaveTokens DEF ClickLogout, doLogout
  <2>2. CASE stored # 0
    BY <1>20, <2>2, <1>a DEF ClickLogout, doLogout
  <2> QED
    BY <2>1, <2>2
<1>21. CASE Reload
  <2>1. ~doubtful' /\ stored # 0 => stored \in live'
    BY <1>21 DEF Reload, StoredTokenIsLive
  <2> QED
    BY <1>0, <1>21, <2>1, NewPageTokens DEF Reload
<1>22. CASE OtherTabLogsOut
  <2>1. Renewing' = Renewing /\ UNCHANGED <<call, doubtful>>
    BY <1>22 DEF OtherTabLogsOut, Renewing, calls, history
  <2>2. stored' = 0 /\ live' = live \ {stored} /\ 0 \notin live
    BY <1>0, <1>22 DEF OtherTabLogsOut, TypeOK, Pairs
  <2>3. TokenConsistent'
    BY <2>1, <2>2 DEF TokenConsistent
  <2> QED
    BY <2>2, <2>3 DEF StoredTokenIsLive
<1> QED
  BY <1>1, <1>2, <1>3, <1>4, <1>5, <1>6, <1>7, <1>8, <1>9, <1>10, <1>11, <1>12, <1>13,
     <1>14, <1>15, <1>16, <1>17, <1>18, <1>19, <1>20, <1>21, <1>22
     DEF Next, Proceed, EndLogout

-------------------------------------------------------------------------------
(* The connection.                                                          *)

\* Every step leaves somebody who dials, or the page.
LEMMA StrandedStep ==
    ASSUME BaseConsistent, NeverStranded, [Next]_vars
    PROVE  NeverStranded'
<1> DEFINE Busy(k) == k \in {"rooms", "dms", "error"}
<1>0. TypeOK /\ CallsConsistent
  BY DEF BaseConsistent
<1>a. ASSUME UNCHANGED <<page, client, timers, hindered>>, logouts \subseteq logouts',
             \A c \in Calls : Busy(call[c].kind) => Busy(call'[c].kind)
      PROVE  NeverStranded'
  <2>1. logouts # {} => logouts' # {}
    BY <1>a
  <2> QED
    BY <1>a, <2>1 DEF NeverStranded, Disconnected
<1>b. ASSUME page' = "form" \/ client' # "none" \/ hindered' \/ timers' > 0 \/ logouts' # {}
      PROVE  NeverStranded'
  BY <1>b DEF NeverStranded, Disconnected
<1>c. ASSUME NEW c \in Calls, Busy(call'[c].kind)
      PROVE  NeverStranded'
  BY <1>c DEF NeverStranded
<1>l. ASSUME Leave
      PROVE  NeverStranded'
  BY <1>l, <1>b DEF Leave, NewPage
<1>d. ASSUME connectWebSocket
      PROVE  NeverStranded'
  BY <1>0, <1>d, <1>b DEF connectWebSocket
<1>e. ASSUME NEW c \in Calls, Finish(c), ~Busy(call[c].kind), UNCHANGED logouts,
             UNCHANGED <<page, client, timers, hindered>>
      PROVE  NeverStranded'
  <2>1. \A d \in Calls : d # c => call'[d] = call[d]
    BY <1>0, <1>e DEF Finish, TypeOK
  <2> QED
    BY <1>a, <1>e, <2>1
<1>f. ASSUME NEW c \in Calls, Continue(c), call[c].kind # "error", UNCHANGED logouts,
             call[c].kind # "me" => page' = page, UNCHANGED timers
      PROVE  NeverStranded'
  <2>1. CASE call[c].kind \in {"me", "rooms"}
    <3>1. Busy(call'[c].kind)
      BY <1>0, <1>f, <2>1 DEF Continue, Ask, TypeOK
    <3> QED
      BY <3>1, <1>c
  <2>2. CASE call[c].kind = "dms"
    BY <1>f, <2>2, <1>d DEF Continue
  <2>3. CASE call[c].kind \notin {"me", "rooms", "dms"}
    BY <1>f, <2>3, <1>e DEF Continue
  <2> QED
    BY <2>1, <2>2, <2>3
<1>1. CASE UNCHANGED vars
  BY <1>1, <1>a DEF vars, calls, link, history
<1>2. ASSUME NEW c \in Calls, Answered(c)
      PROVE  NeverStranded'
  <2>1. call[c].kind # "error"
    BY <1>0, <1>2 DEF Answered, CallsConsistent, Refreshing
  <2> QED
    BY <1>2, <2>1, <1>f DEF Answered
<1>3. ASSUME NEW c \in Calls, Unauthorized(c)
      PROVE  NeverStranded'
  <2>1. CASE stored = 0
    BY <1>3, <2>1, <1>l DEF Unauthorized
  <2>2. CASE stored # 0
    <3>1. \A d \in Calls : call'[d].kind = call[d].kind
      BY <1>0, <1>3, <2>2 DEF Unauthorized, AskRefresh, TypeOK
    <3> QED
      BY <1>3, <2>2, <3>1, <1>a DEF Unauthorized, link
  <2> QED
    BY <2>1, <2>2
<1>4. ASSUME NEW c \in Calls, Failed(c)
      PROVE  NeverStranded'
  <2>1. CASE call[c].kind = "me"
    BY <1>4, <2>1, <1>l, <1>b DEF Failed, doLogout
  <2>2. CASE call[c].kind # "me"
    <3>1. call[c].kind # "error"
      BY <1>0, <1>4 DEF Failed, CallsConsistent, Refreshing
    <3> QED
      BY <1>4, <2>2, <3>1, <1>f DEF Failed
  <2> QED
    BY <2>1, <2>2
<1>5. ASSUME NEW c \in Calls, Reject(c)
      PROVE  NeverStranded'
  BY <1>5, <1>b DEF Reject
<1>6. ASSUME NEW c \in Calls, FindKey(c) \/ MissKey(c) \/ IssuePair(c) \/ RefreshFails(c)
      PROVE  NeverStranded'
  <2>1. \A d \in Calls : call'[d].kind = call[d].kind
    BY <1>0, <1>6 DEF FindKey, MissKey, IssuePair, RefreshFails, TypeOK
  <2>2. UNCHANGED <<page, client, timers, hindered, logouts>>
    BY <1>6 DEF FindKey, MissKey, IssuePair, RefreshFails, link, history
  <2> QED
    BY <2>1, <2>2, <1>a
<1>7. ASSUME NEW c \in Calls, Renewed(c)
      PROVE  NeverStranded'
  <2>1. CASE call[c].kind = "error"
    <3>1. timers' > 0
      BY <1>0, <1>7, <2>1 DEF Renewed, ArmTimer, TypeOK
    <3> QED
      BY <3>1, <1>b
  <2>2. CASE call[c].kind # "error"
    <3>1. \A d \in Calls : call'[d].kind = call[d].kind
      BY <1>0, <1>7, <2>2 DEF Renewed, TypeOK
    <3> QED
      BY <1>7, <2>2, <3>1, <1>a DEF Renewed, history
  <2> QED
    BY <2>1, <2>2
<1>8. ASSUME NEW c \in Calls, Denied(c)
      PROVE  NeverStranded'
  <2>1. CASE call[c].kind = "error" /\ stored # 0
    <3>1. timers' > 0
      BY <1>0, <1>8, <2>1 DEF Denied, ArmTimer, TypeOK
    <3> QED
      BY <3>1, <1>b
  <2>2. CASE stored = 0
    BY <1>8, <2>2, <1>l DEF Denied, doLogout
  <2>3. CASE call[c].kind # "error" /\ stored # 0
    BY <1>8, <2>3, <1>b DEF Denied, doLogout
  <2> QED
    BY <2>1, <2>2, <2>3
<1>9. ASSUME NEW c \in Calls, SignedIn(c) \/ NotSignedIn(c)
      PROVE  NeverStranded'
  <2>1. \A d \in Calls \ {c} : call'[d] = call[d]
    BY <1>0, <1>9 DEF SignedIn, NotSignedIn, Finish, TypeOK
  <2>2. ~Busy(call[c].kind)
    BY <1>9 DEF SignedIn, NotSignedIn
  <2>3. UNCHANGED <<page, client, timers, hindered, logouts>>
    BY <1>9 DEF SignedIn, NotSignedIn, link, history
  <2> QED
    BY <2>1, <2>2, <2>3, <1>a
<1>10. ASSUME NEW t \in Pairs, ServeLogout(t) \/ KeyExpires(t)
       PROVE  NeverStranded'
  BY <1>10, <1>a DEF ServeLogout, KeyExpires, calls, link
<1>11. ASSUME NEW t \in Pairs, LoggedOut(t) \/ LogoutRejected(t)
       PROVE  NeverStranded'
  BY <1>11, <1>b, <1>l DEF LoggedOut, LogoutRejected
<1>12. CASE Connected
  BY <1>12, <1>b DEF Connected
<1>13. CASE Refused \/ Lost \/ StrayLost
  <2>1. CASE stored = 0
    BY <1>13, <2>1, <1>l DEF Refused, Lost, StrayLost, onWsError
  <2>2. CASE stored # 0
    <3>1. Free # {} /\ AskRefresh(Some(Free), "error")
      BY <1>13, <2>2 DEF Refused, Lost, StrayLost, onWsError
    <3>2. Some(Free) \in Calls
      BY <3>1, SomeIsMember DEF Free
    <3>3. Busy(call'[Some(Free)].kind)
      BY <1>0, <3>1, <3>2 DEF AskRefresh, TypeOK
    <3> QED
      BY <3>2, <3>3, <1>c
  <2> QED
    BY <2>1, <2>2
<1>14. CASE FireTimer
  BY <1>14, <1>d DEF FireTimer
<1>15. CASE Request \/ Submit
  <2>1. Free # {} /\ UNCHANGED <<page, client, timers, hindered, logouts>>
    BY <1>15 DEF Request, Submit, link, history
  <2>2. Some(Free) \in Calls /\ call[Some(Free)].step = "idle"
    BY <2>1, SomeIsMember DEF Free
  <2>3. ~Busy(call[Some(Free)].kind)
    BY <1>0, <2>2 DEF CallsConsistent
  <2>4. \A d \in Calls : d # Some(Free) => call'[d] = call[d]
    BY <1>0, <1>15 DEF Request, Submit, Ask, TypeOK
  <2> QED
    BY <2>1, <2>3, <2>4, <1>a
<1>16. CASE ClickLogout
  BY <1>16, <1>b, <1>l DEF ClickLogout, doLogout
<1>17. CASE Reload
  BY <1>17, <1>b DEF Reload, NewPage
<1>18. CASE OtherTabLogsOut
  BY <1>18, <1>a DEF OtherTabLogsOut, calls, link, history
<1> QED
  BY <1>1, <1>2, <1>3, <1>4, <1>5, <1>6, <1>7, <1>8, <1>9, <1>10, <1>11, <1>12, <1>13,
     <1>14, <1>15, <1>16, <1>17, <1>18
     DEF Next, Proceed, EndLogout

-------------------------------------------------------------------------------

\* A page with nobody signed in is consistent.
LEMMA SessionInit == Init => SessionConsistent
<1> SUFFICES ASSUME Init PROVE SessionConsistent
  OBVIOUS
<1>1. TypeOK
  BY DEF Init, TypeOK, Idle, Kinds, Steps, Refreshing
<1>2. Renewing = {}
  BY DEF Init, Renewing, Refreshing, Idle
<1>3. TimersConsistent /\ CallsConsistent /\ TokenConsistent /\ StoredTokenIsLive /\ NeverStranded
  BY <1>2 DEF Init, TimersConsistent, CallsConsistent, TokenConsistent, StoredTokenIsLive,
              NeverStranded, Disconnected, Idle
<1> QED
  BY <1>1, <1>3 DEF SessionConsistent

\* Every step keeps the session consistent.
LEMMA SessionStep ==
    ASSUME SessionConsistent, [Next]_vars
    PROVE  SessionConsistent'
<1>1. BaseConsistent /\ TokenConsistent /\ StoredTokenIsLive /\ NeverStranded
  BY DEF SessionConsistent, BaseConsistent
<1>2. BaseConsistent'
  BY <1>1, BaseStep
<1>3. TokenConsistent' /\ StoredTokenIsLive'
  BY <1>1, TokenStep
<1>4. NeverStranded'
  BY <1>1, StrandedStep
<1> QED
  BY <1>2, <1>3, <1>4 DEF SessionConsistent, BaseConsistent

\* The inductive invariant: pages, timers, calls and the stored token agree,
\* whatever calls, connections and timers overlap.
THEOREM AlwaysConsistent == Spec => []SessionConsistent
<1>1. Init => SessionConsistent
  BY SessionInit
<1>2. SessionConsistent /\ [Next]_vars => SessionConsistent'
  BY SessionStep
<1> QED
  BY <1>1, <1>2, PTL DEF Spec

\* Every variable of the page keeps its type; in particular no timer is cleared
\* that was not armed.
THEOREM TypeCorrect == Spec => []TypeOK
<1>1. SessionConsistent => TypeOK
  BY DEF SessionConsistent
<1> QED
  BY <1>1, AlwaysConsistent, PTL

\* A page whose refreshes do not overlap, and whose answers all arrive, keeps a
\* refresh token that AuthService takes.
THEOREM TokenStaysLive == Spec => []StoredTokenIsLive
<1>1. SessionConsistent => StoredTokenIsLive
  BY DEF SessionConsistent
<1> QED
  BY <1>1, AlwaysConsistent, PTL

\* A page that shows the app without a connection has a call or a timer left
\* that dials or leaves, unless a fetch failed or a dial found nobody signed in.
THEOREM SomebodyDials == Spec => []NeverStranded
<1>1. SessionConsistent => NeverStranded
  BY DEF SessionConsistent
<1> QED
  BY <1>1, AlwaysConsistent, PTL

===============================================================================
