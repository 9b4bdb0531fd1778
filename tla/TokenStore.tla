------------------------------ MODULE TokenStore ------------------------------
(***************************************************************************)
(* What the authentication service promises about refresh tokens, without  *)
(* the Redis commands and the transactions that provide it: a token is     *)
(* issued for one user, given to a client only once that user is           *)
(* registered, and ends for good; whoever ends sessions of a user holds a  *)
(* token of that user, or one of a user whose name reads as that user's    *)
(* id; and the successor of a token appears when the token itself has      *)
(* ended. It does not promise that a token has one successor only.         *)
(***************************************************************************)
EXTENDS Naturals, TLAPS

CONSTANTS
    Tokens,     \* refresh tokens
    UserIds     \* ids a user may get

VARIABLES
    registered, \* of each registered user, the id and the id its name spells
    phase,      \* of each token: unissued, live or ended
    of,         \* of[t]: the user t was issued for, 0 before that
    from,       \* from[t]: the token t replaces, t itself if none
    given,      \* tokens a client has received
    aged        \* tokens past their lifetime

storeVars == <<registered, phase, of, from, given, aged>>

\* spelled is 0 where the name is no user's id.
User == [id : UserIds, spelled : UserIds \cup {0}]
HasUser(u) == \E row \in registered : row.id = u

TypeOK ==
    /\ registered \subseteq User
    /\ phase \in [Tokens -> {"unissued", "live", "ended"}]
    /\ of \in [Tokens -> UserIds \cup {0}]
    /\ from \in [Tokens -> Tokens]
    /\ given \subseteq Tokens /\ aged \subseteq Tokens

Init ==
    /\ registered \in SUBSET User
    /\ phase = [t \in Tokens |-> "unissued"]
    /\ of = [t \in Tokens |-> 0]
    /\ from = [t \in Tokens |-> t]
    /\ given = {} /\ aged = {}

Register(row) ==
    /\ ~HasUser(row.id)
    /\ registered' = registered \cup {row}
    /\ UNCHANGED <<phase, of, from, given, aged>>

\* A token after a registration or a login.
Issue(t, u) ==
    /\ phase[t] = "unissued"
    /\ phase' = [phase EXCEPT ![t] = "live"]
    /\ of' = [of EXCEPT ![t] = u]
    /\ UNCHANGED <<registered, from, given, aged>>

\* A token for one that a client has presented and that has ended.
Replace(g, t) ==
    /\ g \in given /\ phase[g] = "ended"
    /\ phase[t] = "unissued"
    /\ phase' = [phase EXCEPT ![t] = "live"]
    /\ of' = [of EXCEPT ![t] = of[g]]
    /\ from' = [from EXCEPT ![t] = g]
    /\ UNCHANGED <<registered, given, aged>>

Give(t) ==
    /\ phase[t] # "unissued" /\ HasUser(of[t])
    /\ given' = given \cup {t}
    /\ UNCHANGED <<registered, phase, of, from, aged>>

Ending(T) == phase' = [t \in Tokens |-> IF t \in T THEN "ended" ELSE phase[t]]

\* A client that holds g ends sessions of user u by a rotation, a logout or the
\* use of a token without a session. The token names u: u is the user of g, or the
\* name of that user, which is in the access token that came with g, reads as u.
EndSessions(g, u, T) ==
    /\ g \in given
    /\ u = of[g] \/ [id |-> of[g], spelled |-> u] \in registered
    /\ \A t \in T : phase[t] = "live" /\ of[t] = u
    /\ Ending(T)
    /\ UNCHANGED <<registered, of, from, given, aged>>

Age(t) ==
    /\ phase[t] # "unissued"
    /\ aged' = aged \cup {t}
    /\ UNCHANGED <<registered, phase, of, from, given>>

Lapse(t) ==
    /\ phase[t] = "live" /\ t \in aged
    /\ Ending({t})
    /\ UNCHANGED <<registered, of, from, given, aged>>

Next ==
    \/ \E row \in User : Register(row)
    \/ \E u \in UserIds, t \in Tokens : Issue(t, u)
    \/ \E g, t \in Tokens : Replace(g, t)
    \/ \E g \in Tokens, u \in UserIds, T \in SUBSET Tokens : EndSessions(g, u, T)
    \/ \E t \in Tokens : Give(t) \/ Age(t) \/ Lapse(t)

Spec == Init /\ [][Next]_storeVars

-------------------------------------------------------------------------------
(* What a client of the service may count on at any moment.                *)

\* A rotated token has ended and its successor is for the same user, so that of
\* a chain of rotations only the newest tokens can be alive.
SuccessorsReplace ==
    \A t \in Tokens : from[t] # t =>
        /\ phase[t] # "unissued" /\ phase[from[t]] = "ended"
        /\ of[t] = of[from[t]] /\ from[t] \in given

\* A client holds tokens of registered users only.
GivenToUsers == \A t \in given : phase[t] # "unissued" /\ HasUser(of[t])

Promise == TypeOK /\ SuccessorsReplace /\ GivenToUsers

\* One step of the store keeps the promise.
LEMMA PromiseStep == Promise /\ [Next]_storeVars => Promise'
<1> SUFFICES ASSUME Promise, [Next]_storeVars PROVE Promise'
  OBVIOUS
<1> USE DEF Promise, TypeOK, SuccessorsReplace, GivenToUsers, HasUser
<1>1. ASSUME NEW row \in User, Register(row) PROVE Promise'
  BY <1>1 DEF Register
<1>2. ASSUME NEW u \in UserIds, NEW t \in Tokens, Issue(t, u) PROVE Promise'
  <2>1. from[t] = t /\ t \notin given
    BY <1>2 DEF Issue
  <2> QED
    BY <1>2, <2>1 DEF Issue
<1>3. ASSUME NEW g \in Tokens, NEW t \in Tokens, Replace(g, t) PROVE Promise'
  <2>1. g # t /\ t \notin given
    BY <1>3 DEF Replace
  <2> QED
    BY <1>3, <2>1 DEF Replace
<1>4. ASSUME NEW g \in Tokens, NEW u \in UserIds, NEW T \in SUBSET Tokens,
             EndSessions(g, u, T)
      PROVE  Promise'
  BY <1>4 DEF EndSessions, Ending
<1>5. ASSUME NEW t \in Tokens, Give(t) \/ Age(t) \/ Lapse(t) PROVE Promise'
  BY <1>5 DEF Give, Age, Lapse, Ending
<1>6. CASE UNCHANGED storeVars
  BY <1>6 DEF storeVars
<1> QED
  BY <1>1, <1>2, <1>3, <1>4, <1>5, <1>6 DEF Next

\* The store keeps its promise, for any tokens and users.
THEOREM PromiseKept == Spec => []Promise
<1>1. Init => Promise
  BY DEF Init, Promise, TypeOK, SuccessorsReplace, GivenToUsers
<1> QED
  BY <1>1, PromiseStep, PTL DEF Spec

===============================================================================
