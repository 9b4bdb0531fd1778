-------------------------- MODULE RefreshTokensProofs --------------------------
(***************************************************************************)
(* Theorems about RefreshTokens for any number of calls and users.         *)
(* SessionsConsistent is the inductive invariant.                          *)
(***************************************************************************)
EXTENDS RefreshTokens, TLAPS

\* Before the first call everything is consistent.
LEMMA SessionsInit == Init => SessionsConsistent
<1> SUFFICES ASSUME Init PROVE SessionsConsistent
  OBVIOUS
<1>1. TypeOK
  BY RegisteredAssumption, IdAssumption DEF Init, TypeOK, Phases, Reasons
<1>2. /\ TokensConsistent /\ CallsConsistent /\ ClaimsConsistent
      /\ EndedTokenIsRefused /\ HeldTokenHasUser
  BY DEF Init, TokensConsistent, CallsConsistent, CallConsistent, ClaimsConsistent,
         EndedTokenIsRefused, HeldTokenHasUser
<1>3. UsersConsistent /\ NamesAreUnique
  BY RegisteredAssumption, IdAssumption DEF Init, UsersConsistent, NamesAreUnique
<1> QED
  BY <1>1, <1>2, <1>3 DEF SessionsConsistent

\* Every step keeps the variables in their types.
LEMMA TypeStep ==
    ASSUME SessionsConsistent, [Next]_vars
    PROVE  TypeOK'
<1>0. TypeOK /\ CallsConsistent
  BY DEF SessionsConsistent
<1> USE <1>0 DEF TypeOK, Phases, Reasons, Goto, tables, threads
<1>1. CASE UNCHANGED vars
  BY <1>1 DEF vars
<1>2. ASSUME NEW q \in Calls, NEW n \in Names, BeginRegister(q, n)
      PROVE  TypeOK'
  <2>1. [id |-> 0, name |-> n] \in [id : 0..MaxUser, name : Names]
    BY IdAssumption
  <2> QED
    BY <1>2, <2>1 DEF BeginRegister
<1>3. ASSUME NEW q \in Calls, NEW u \in UserIds, BeginLogin(q, u)
      PROVE  TypeOK'
  BY <1>3 DEF BeginLogin, UserIds
<1>4. ASSUME NEW q \in Calls, NEW t \in held, BeginRefresh(q, t) \/ Logout(q, t)
      PROVE  TypeOK'
  BY <1>4 DEF BeginRefresh, Logout, Remove
<1>5. ASSUME NEW q \in Calls, InsertUser(q)
      PROVE  TypeOK'
  <2>1. PICK u \in newUser[q] : newUser' = [newUser EXCEPT ![q] = {[u EXCEPT !.id = nextUser]}]
    BY <1>5 DEF InsertUser
  <2>2. [u EXCEPT !.id = nextUser] \in [id : 0..MaxUser, name : Names]
    BY <1>5, <2>1 DEF InsertUser, UserIds
  <2> QED
    BY <1>5, <2>1, <2>2 DEF InsertUser, UserIds
<1>6. ASSUME NEW q \in Calls, InsertConflicts(q) \/ HasKey(q) \/ FindUser(q) \/ Fail(q)
      PROVE  TypeOK'
  BY <1>6 DEF InsertConflicts, HasKey, FindUser, Fail
<1>7. ASSUME NEW q \in Calls, CommitUser(q)
      PROVE  TypeOK'
  <2>1. newUser[q] \subseteq User
    BY <1>7 DEF CommitUser, SessionsConsistent, UsersConsistent, User
  <2> QED
    BY <1>7, <2>1 DEF CommitUser
<1>8. ASSUME NEW q \in Calls, ScanKeys(q) \/ DeleteScanned(q) \/ DeleteKey(q)
      PROVE  TypeOK'
  BY <1>8 DEF ScanKeys, KeysOf, DeleteScanned, DeleteKey, Remove
<1>9. ASSUME NEW q \in Calls, StoreToken(q) \/ Respond(q)
      PROVE  TypeOK'
  BY <1>9 DEF StoreToken, Respond
<1>10. ASSUME NEW t \in Calls, Expire(t) \/ KeyExpires(t)
       PROVE  TypeOK'
  BY <1>10 DEF Expire, KeyExpires, Remove
<1>11. ASSUME NEW q \in Calls, NEW t \in held, BeginRefreshByAccess(q, t)
       PROVE  TypeOK'
  <2>1. PICK row \in users : claim' = [claim EXCEPT ![q] = spells[row.name]]
    BY <1>11 DEF BeginRefreshByAccess
  <2>2. spells[row.name] \in 0..MaxUser
    BY <2>1, SpellsAssumption, IdAssumption DEF User, UserIds
  <2> QED
    BY <1>11, <2>1, <2>2 DEF BeginRefreshByAccess
<1> QED
  BY <1>1, <1>2, <1>3, <1>4, <1>5, <1>6, <1>7, <1>8, <1>9, <1>10, <1>11 DEF Next, Step

\* A key is set once, by its own call, and a key that went away stays away.
LEMMA TokensStep ==
    ASSUME SessionsConsistent, [Next]_vars
    PROVE  TokensConsistent' /\ EndedTokenIsRefused'
<1>0. TypeOK /\ TokensConsistent /\ CallsConsistent /\ UsersConsistent
      /\ EndedTokenIsRefused /\ HeldTokenHasUser /\ NamesAreUnique
  BY DEF SessionsConsistent
<1> USE DEF Goto, Over, tables, threads, Issued, Known, Remove, Reasons, TokensConsistent, EndedTokenIsRefused, CallsConsistent,
           CallConsistent
<1>1. CASE UNCHANGED vars
  BY <1>0, <1>1 DEF vars
<1>2. ASSUME NEW q \in Calls, NEW n \in Names, BeginRegister(q, n)
      PROVE  TokensConsistent' /\ EndedTokenIsRefused'
  BY <1>0, <1>2 DEF BeginRegister, TypeOK
<1>3. ASSUME NEW q \in Calls, NEW u \in UserIds, BeginLogin(q, u)
      PROVE  TokensConsistent' /\ EndedTokenIsRefused'
  BY <1>0, <1>3 DEF BeginLogin, TypeOK
<1>4. ASSUME NEW q \in Calls, NEW t \in held, BeginRefresh(q, t)
      PROVE  TokensConsistent' /\ EndedTokenIsRefused'
  BY <1>0, <1>4 DEF BeginRefresh, TypeOK
<1>5. ASSUME NEW q \in Calls, NEW t \in held, Logout(q, t)
      PROVE  TokensConsistent' /\ EndedTokenIsRefused'
  BY <1>0, <1>5 DEF Logout, TypeOK
<1>6. ASSUME NEW q \in Calls, InsertUser(q)
      PROVE  TokensConsistent' /\ EndedTokenIsRefused'
  BY <1>0, <1>6 DEF InsertUser, TypeOK
<1>7. ASSUME NEW q \in Calls, InsertConflicts(q)
      PROVE  TokensConsistent' /\ EndedTokenIsRefused'
  BY <1>0, <1>7 DEF InsertConflicts, TypeOK
<1>8. ASSUME NEW q \in Calls, CommitUser(q)
      PROVE  TokensConsistent' /\ EndedTokenIsRefused'
  BY <1>0, <1>8 DEF CommitUser, TypeOK
<1>9. ASSUME NEW q \in Calls, HasKey(q)
      PROVE  TokensConsistent' /\ EndedTokenIsRefused'
  BY <1>0, <1>9 DEF HasKey, TypeOK
<1>10. ASSUME NEW q \in Calls, ScanKeys(q)
      PROVE  TokensConsistent' /\ EndedTokenIsRefused'
  BY <1>0, <1>10 DEF ScanKeys, KeysOf, TypeOK
<1>11. ASSUME NEW q \in Calls, DeleteScanned(q)
      PROVE  TokensConsistent' /\ EndedTokenIsRefused'
  BY <1>0, <1>11 DEF DeleteScanned, TypeOK
<1>12. ASSUME NEW q \in Calls, DeleteKey(q)
      PROVE  TokensConsistent' /\ EndedTokenIsRefused'
  BY <1>0, <1>12 DEF DeleteKey, TypeOK
<1>13. ASSUME NEW q \in Calls, FindUser(q)
      PROVE  TokensConsistent' /\ EndedTokenIsRefused'
  <2>1. /\ UNCHANGED <<keys, ended, held, late, token>>
        /\ pc[q] = "consumed" /\ pc'[q] \in {"issuing", "refused"}
        /\ \A t \in Calls \ {q} : pc'[t] = pc[t] /\ owner'[t] = owner[t]
    BY <1>0, <1>13 DEF FindUser, TypeOK
  <2> QED
    BY <1>0, <2>1 DEF TypeOK
<1>14. ASSUME NEW q \in Calls, StoreToken(q)
      PROVE  TokensConsistent' /\ EndedTokenIsRefused'
  <2>1. owner[q] # 0
    BY <1>0, <1>14 DEF StoreToken, TypeOK, UserExists, UsersConsistent, User, UserIds
  <2> QED
    BY <1>0, <1>14, <2>1 DEF StoreToken, TypeOK
<1>15. ASSUME NEW q \in Calls, Respond(q)
      PROVE  TokensConsistent' /\ EndedTokenIsRefused'
  BY <1>0, <1>15 DEF Respond, TypeOK
<1>16. ASSUME NEW q \in Calls, Fail(q)
      PROVE  TokensConsistent' /\ EndedTokenIsRefused'
  BY <1>0, <1>16 DEF Fail, TypeOK
<1>17. ASSUME NEW t \in Calls, Expire(t) \/ KeyExpires(t)
      PROVE  TokensConsistent' /\ EndedTokenIsRefused'
  BY <1>0, <1>17 DEF Expire, KeyExpires, TypeOK
<1>18. ASSUME NEW q \in Calls, NEW t \in held, BeginRefreshByAccess(q, t)
      PROVE  TokensConsistent' /\ EndedTokenIsRefused'
  BY <1>0, <1>18 DEF BeginRefreshByAccess, TypeOK
<1> QED
  BY <1>1, <1>2, <1>3, <1>4, <1>5, <1>6, <1>7, <1>8, <1>9, <1>10, <1>11, <1>12, <1>13, <1>14, <1>15, <1>16, <1>17,
     <1>18 DEF Next, Step

\* Ids and names of the committed and the inserted users stay apart.
LEMMA UsersStep ==
    ASSUME SessionsConsistent, [Next]_vars
    PROVE  UsersConsistent' /\ NamesAreUnique'
<1>0. TypeOK /\ TokensConsistent /\ CallsConsistent /\ UsersConsistent
      /\ EndedTokenIsRefused /\ HeldTokenHasUser /\ NamesAreUnique
  BY DEF SessionsConsistent
<1> USE DEF Goto, Over, tables, threads, Remove, UsersConsistent, NamesAreUnique, NameLocked, NameTaken, UserIds, User
<1>1. CASE UNCHANGED vars
  BY <1>0, <1>1 DEF vars
<1>2. ASSUME NEW q \in Calls, NEW n \in Names, BeginRegister(q, n)
      PROVE  UsersConsistent' /\ NamesAreUnique'
  BY <1>0, <1>2 DEF BeginRegister, TypeOK
<1>3. ASSUME NEW q \in Calls, NEW u \in UserIds, BeginLogin(q, u)
      PROVE  UsersConsistent' /\ NamesAreUnique'
  BY <1>0, <1>3 DEF BeginLogin, TypeOK
<1>4. ASSUME NEW q \in Calls, NEW t \in held, BeginRefresh(q, t)
      PROVE  UsersConsistent' /\ NamesAreUnique'
  BY <1>0, <1>4 DEF BeginRefresh, TypeOK
<1>5. ASSUME NEW q \in Calls, NEW t \in held, Logout(q, t)
      PROVE  UsersConsistent' /\ NamesAreUnique'
  BY <1>0, <1>5 DEF Logout, TypeOK
<1>6. ASSUME NEW q \in Calls, InsertUser(q)
      PROVE  UsersConsistent' /\ NamesAreUnique'
  BY <1>0, <1>6 DEF InsertUser, TypeOK
<1>7. ASSUME NEW q \in Calls, InsertConflicts(q)
      PROVE  UsersConsistent' /\ NamesAreUnique'
  BY <1>0, <1>7 DEF InsertConflicts, TypeOK
<1>8. ASSUME NEW q \in Calls, CommitUser(q)
      PROVE  UsersConsistent' /\ NamesAreUnique'
  <2>1. /\ pc[q] = "stored" /\ UNCHANGED <<pc, nextUser>>
        /\ users' = users \cup newUser[q] /\ newUser'[q] = {}
        /\ \A p \in Calls \ {q} : newUser'[p] = newUser[p]
    BY <1>0, <1>8 DEF CommitUser, TypeOK
  <2>2. PICK u \in newUser[q] : newUser[q] = {u}
    BY <1>0, <1>8 DEF CommitUser, CallsConsistent, CallConsistent
  <2>3. u.id < nextUser /\ \A v \in users : v.id # u.id /\ v.name # u.name
    BY <1>0, <2>1, <2>2 DEF UsersConsistent
  <2>4. NamesAreUnique'
    BY <1>0, <2>1, <2>2, <2>3 DEF NamesAreUnique
  <2>5. UsersConsistent'
    BY <1>0, <2>1, <2>2, <2>3 DEF UsersConsistent
  <2> QED
    BY <2>4, <2>5
<1>9. ASSUME NEW q \in Calls, HasKey(q)
      PROVE  UsersConsistent' /\ NamesAreUnique'
  BY <1>0, <1>9 DEF HasKey, TypeOK
<1>10. ASSUME NEW q \in Calls, ScanKeys(q)
      PROVE  UsersConsistent' /\ NamesAreUnique'
  BY <1>0, <1>10 DEF ScanKeys, KeysOf, TypeOK
<1>11. ASSUME NEW q \in Calls, DeleteScanned(q)
      PROVE  UsersConsistent' /\ NamesAreUnique'
  BY <1>0, <1>11 DEF DeleteScanned, TypeOK
<1>12. ASSUME NEW q \in Calls, DeleteKey(q)
      PROVE  UsersConsistent' /\ NamesAreUnique'
  BY <1>0, <1>12 DEF DeleteKey, TypeOK
<1>13. ASSUME NEW q \in Calls, FindUser(q)
      PROVE  UsersConsistent' /\ NamesAreUnique'
  BY <1>0, <1>13 DEF FindUser, TypeOK
<1>14. ASSUME NEW q \in Calls, StoreToken(q)
      PROVE  UsersConsistent' /\ NamesAreUnique'
  BY <1>0, <1>14 DEF StoreToken, TypeOK
<1>15. ASSUME NEW q \in Calls, Respond(q)
      PROVE  UsersConsistent' /\ NamesAreUnique'
  BY <1>0, <1>15 DEF Respond, TypeOK
<1>16. ASSUME NEW q \in Calls, Fail(q)
      PROVE  UsersConsistent' /\ NamesAreUnique'
  BY <1>0, <1>16 DEF Fail, TypeOK
<1>17. ASSUME NEW t \in Calls, Expire(t) \/ KeyExpires(t)
      PROVE  UsersConsistent' /\ NamesAreUnique'
  BY <1>0, <1>17 DEF Expire, KeyExpires, TypeOK
<1>18. ASSUME NEW q \in Calls, NEW t \in held, BeginRefreshByAccess(q, t)
      PROVE  UsersConsistent' /\ NamesAreUnique'
  BY <1>0, <1>18 DEF BeginRefreshByAccess, TypeOK
<1> QED
  BY <1>1, <1>2, <1>3, <1>4, <1>5, <1>6, <1>7, <1>8, <1>9, <1>10, <1>11, <1>12, <1>13, <1>14, <1>15, <1>16, <1>17,
     <1>18 DEF Next, Step

\* Clients hold tokens of committed users only.
LEMMA HeldStep ==
    ASSUME SessionsConsistent, [Next]_vars
    PROVE  HeldTokenHasUser'
<1>0. TypeOK /\ TokensConsistent /\ CallsConsistent /\ UsersConsistent
      /\ EndedTokenIsRefused /\ HeldTokenHasUser /\ NamesAreUnique
  BY DEF SessionsConsistent
<1> USE DEF Goto, Over, tables, threads, Remove, HeldTokenHasUser, UserExists, TokensConsistent,
           CallsConsistent, CallConsistent
<1>1. CASE UNCHANGED vars
  BY <1>0, <1>1 DEF vars
<1>2. ASSUME NEW q \in Calls, NEW n \in Names, BeginRegister(q, n)
      PROVE  HeldTokenHasUser'
  BY <1>0, <1>2 DEF BeginRegister, TypeOK
<1>3. ASSUME NEW q \in Calls, NEW u \in UserIds, BeginLogin(q, u)
      PROVE  HeldTokenHasUser'
  BY <1>0, <1>3 DEF BeginLogin, TypeOK
<1>4. ASSUME NEW q \in Calls, NEW t \in held, BeginRefresh(q, t)
      PROVE  HeldTokenHasUser'
  BY <1>0, <1>4 DEF BeginRefresh, TypeOK
<1>5. ASSUME NEW q \in Calls, NEW t \in held, Logout(q, t)
      PROVE  HeldTokenHasUser'
  BY <1>0, <1>5 DEF Logout, TypeOK
<1>6. ASSUME NEW q \in Calls, InsertUser(q)
      PROVE  HeldTokenHasUser'
  BY <1>0, <1>6 DEF InsertUser, TypeOK
<1>7. ASSUME NEW q \in Calls, InsertConflicts(q)
      PROVE  HeldTokenHasUser'
  BY <1>0, <1>7 DEF InsertConflicts, TypeOK
<1>8. ASSUME NEW q \in Calls, CommitUser(q)
      PROVE  HeldTokenHasUser'
  BY <1>0, <1>8 DEF CommitUser, TypeOK
<1>9. ASSUME NEW q \in Calls, HasKey(q)
      PROVE  HeldTokenHasUser'
  BY <1>0, <1>9 DEF HasKey, TypeOK
<1>10. ASSUME NEW q \in Calls, ScanKeys(q)
      PROVE  HeldTokenHasUser'
  BY <1>0, <1>10 DEF ScanKeys, KeysOf, TypeOK
<1>11. ASSUME NEW q \in Calls, DeleteScanned(q)
      PROVE  HeldTokenHasUser'
  BY <1>0, <1>11 DEF DeleteScanned, TypeOK
<1>12. ASSUME NEW q \in Calls, DeleteKey(q)
      PROVE  HeldTokenHasUser'
  BY <1>0, <1>12 DEF DeleteKey, TypeOK
<1>13. ASSUME NEW q \in Calls, FindUser(q)
      PROVE  HeldTokenHasUser'
  BY <1>0, <1>13 DEF FindUser, TypeOK
<1>14. ASSUME NEW q \in Calls, StoreToken(q)
      PROVE  HeldTokenHasUser'
  BY <1>0, <1>14 DEF StoreToken, TypeOK
<1>15. ASSUME NEW q \in Calls, Respond(q)
      PROVE  HeldTokenHasUser'
  BY <1>0, <1>15 DEF Respond, TypeOK
<1>16. ASSUME NEW q \in Calls, Fail(q)
      PROVE  HeldTokenHasUser'
  BY <1>0, <1>16 DEF Fail, TypeOK
<1>17. ASSUME NEW t \in Calls, Expire(t) \/ KeyExpires(t)
      PROVE  HeldTokenHasUser'
  BY <1>0, <1>17 DEF Expire, KeyExpires, TypeOK
<1>18. ASSUME NEW q \in Calls, NEW t \in held, BeginRefreshByAccess(q, t)
      PROVE  HeldTokenHasUser'
  BY <1>0, <1>18 DEF BeginRefreshByAccess, TypeOK
<1> QED
  BY <1>1, <1>2, <1>3, <1>4, <1>5, <1>6, <1>7, <1>8, <1>9, <1>10, <1>11, <1>12, <1>13, <1>14, <1>15, <1>16, <1>17,
     <1>18 DEF Next, Step

\* What a call carries fits its phase.
LEMMA CallsStep ==
    ASSUME SessionsConsistent, [Next]_vars
    PROVE  CallsConsistent'
<1>0. TypeOK /\ TokensConsistent /\ CallsConsistent /\ UsersConsistent
      /\ EndedTokenIsRefused /\ HeldTokenHasUser /\ NamesAreUnique
  BY DEF SessionsConsistent
<1> USE DEF Goto, Over, tables, threads, Issued, Known, Remove, TokensConsistent, HeldTokenHasUser, UserExists,
           CallsConsistent, CallConsistent
<1>1. CASE UNCHANGED vars
  BY <1>0, <1>1 DEF vars
<1>2. ASSUME NEW q \in Calls, NEW n \in Names, BeginRegister(q, n)
      PROVE  CallsConsistent'
  BY <1>0, <1>2 DEF BeginRegister, TypeOK
<1>3. ASSUME NEW q \in Calls, NEW u \in UserIds, BeginLogin(q, u)
      PROVE  CallsConsistent'
  <2> SUFFICES ASSUME NEW p \in Calls PROVE CallConsistent(p)'
    BY DEF CallsConsistent
  <2>0. /\ CallConsistent(p) /\ \A o \in held : Issued(o) /\ o # q
        /\ \A o \in Calls : Issued(o) => o # q
    BY <1>0, <1>3 DEF BeginLogin
  <2>1. CASE p = q
    BY <1>0, <1>3, <2>0, <2>1 DEF BeginLogin, TypeOK, UsersConsistent
  <2>2. CASE p # q
    BY <1>0, <1>3, <2>0, <2>2 DEF BeginLogin, TypeOK
  <2> QED
    BY <2>1, <2>2
<1>4. ASSUME NEW q \in Calls, NEW t \in held, BeginRefresh(q, t)
      PROVE  CallsConsistent'
  <2> SUFFICES ASSUME NEW p \in Calls PROVE CallConsistent(p)'
    BY DEF CallsConsistent
  <2>0. /\ CallConsistent(p) /\ \A o \in held : Issued(o) /\ o # q
        /\ \A o \in Calls : Issued(o) => o # q
    BY <1>0, <1>4 DEF BeginRefresh
  <2>a. owner[t] # 0
    BY <1>0 DEF TypeOK, User, UserIds
  <2>1. CASE p = q
    BY <1>0, <1>4, <2>0, <2>a, <2>1 DEF BeginRefresh, TypeOK
  <2>2. CASE p # q
    BY <1>0, <1>4, <2>0, <2>2 DEF BeginRefresh, TypeOK
  <2> QED
    BY <2>1, <2>2
<1>5. ASSUME NEW q \in Calls, NEW t \in held, Logout(q, t)
      PROVE  CallsConsistent'
  <2> SUFFICES ASSUME NEW p \in Calls PROVE CallConsistent(p)'
    BY DEF CallsConsistent
  <2>0. /\ CallConsistent(p) /\ \A o \in held : Issued(o) /\ o # q
        /\ \A o \in Calls : Issued(o) => o # q
    BY <1>0, <1>5 DEF Logout
  <2>1. CASE p = q
    BY <1>0, <1>5, <2>0, <2>1 DEF Logout, TypeOK
  <2>2. CASE p # q
    BY <1>0, <1>5, <2>0, <2>2 DEF Logout, TypeOK
  <2> QED
    BY <2>1, <2>2
<1>6. ASSUME NEW q \in Calls, InsertUser(q)
      PROVE  CallsConsistent'
  <2> SUFFICES ASSUME NEW p \in Calls PROVE CallConsistent(p)'
    BY DEF CallsConsistent
  <2>0. /\ CallConsistent(p) /\ \A o \in held : Issued(o) /\ o # q
        /\ \A o \in Calls : Issued(o) => o # q
    BY <1>0, <1>6 DEF InsertUser
  <2>1. CASE p = q
    <3>1. PICK u \in newUser[q] : newUser' = [newUser EXCEPT ![q] = {[u EXCEPT !.id = nextUser]}]
      BY <1>6 DEF InsertUser
    <3>2. [u EXCEPT !.id = nextUser].id = nextUser
      BY <1>0 DEF TypeOK
    <3>3. found[q] = {} /\ pc[q] = "checked" /\ pc'[q] = "issuing"
      BY <1>0, <1>6, <2>0, <2>1 DEF InsertUser, TypeOK
    <3>4. newUser'[q] = {[u EXCEPT !.id = nextUser]} /\ owner'[q] = nextUser
      BY <1>0, <1>6, <3>1 DEF InsertUser, TypeOK
    <3>5. token'[q] = q
      BY <1>0, <1>6 DEF InsertUser
    <3> QED
      BY <1>6, <2>0, <2>1, <3>2, <3>3, <3>4, <3>5 DEF InsertUser
  <2>2. CASE p # q
    BY <1>0, <1>6, <2>0, <2>2 DEF InsertUser, TypeOK
  <2> QED
    BY <2>1, <2>2
<1>7. ASSUME NEW q \in Calls, InsertConflicts(q)
      PROVE  CallsConsistent'
  BY <1>0, <1>7 DEF InsertConflicts, TypeOK
<1>8. ASSUME NEW q \in Calls, CommitUser(q)
      PROVE  CallsConsistent'
  BY <1>0, <1>8 DEF CommitUser, TypeOK
<1>9. ASSUME NEW q \in Calls, HasKey(q)
      PROVE  CallsConsistent'
  BY <1>0, <1>9 DEF HasKey, TypeOK
<1>10. ASSUME NEW q \in Calls, ScanKeys(q)
      PROVE  CallsConsistent'
  BY <1>0, <1>10 DEF ScanKeys, KeysOf, TypeOK
<1>11. ASSUME NEW q \in Calls, DeleteScanned(q)
      PROVE  CallsConsistent'
  BY <1>0, <1>11 DEF DeleteScanned, TypeOK
<1>12. ASSUME NEW q \in Calls, DeleteKey(q)
      PROVE  CallsConsistent'
  BY <1>0, <1>12 DEF DeleteKey, TypeOK
<1>13. ASSUME NEW q \in Calls, FindUser(q)
      PROVE  CallsConsistent'
  <2> SUFFICES ASSUME NEW p \in Calls PROVE CallConsistent(p)'
    BY DEF CallsConsistent
  <2>0. /\ CallConsistent(p) /\ \A o \in held : Issued(o) /\ o # q
        /\ \A o \in Calls : Issued(o) => o # q
    BY <1>0, <1>13 DEF FindUser
  <2>1. CASE p = q
    <3>1. /\ found[q] = {} /\ newUser[q] = {} /\ pc[q] = "consumed"
          /\ token[q] \in held /\ token[q] # q
      BY <1>0, <1>13, <2>0, <2>1 DEF FindUser, UsersConsistent, TypeOK
    <3>2. CASE UserExists(claim[q])
      BY <1>0, <1>13, <2>1, <3>1, <3>2 DEF FindUser, TypeOK
    <3>3. CASE ~UserExists(claim[q])
      BY <1>0, <1>13, <2>1, <3>1, <3>3 DEF FindUser, TypeOK
    <3> QED
      BY <3>2, <3>3
  <2>2. CASE p # q
    BY <1>0, <1>13, <2>0, <2>2 DEF FindUser, TypeOK
  <2> QED
    BY <2>1, <2>2
<1>14. ASSUME NEW q \in Calls, StoreToken(q)
      PROVE  CallsConsistent'
  BY <1>0, <1>14 DEF StoreToken, TypeOK
<1>15. ASSUME NEW q \in Calls, Respond(q)
      PROVE  CallsConsistent'
  BY <1>0, <1>15 DEF Respond, TypeOK
<1>16. ASSUME NEW q \in Calls, Fail(q)
      PROVE  CallsConsistent'
  BY <1>0, <1>16 DEF Fail, TypeOK
<1>17. ASSUME NEW t \in Calls, Expire(t) \/ KeyExpires(t)
      PROVE  CallsConsistent'
  <2>1. CASE Expire(t)
    BY <1>0, <2>1 DEF Expire
  <2>2. CASE KeyExpires(t)
    <3>1. /\ UNCHANGED <<tables, threads, held>>
          /\ \A o \in Calls : /\ ended[o] # "live" => ended'[o] # "live"
                              /\ Known(o)' => Known(o)
      BY <1>0, <2>2 DEF KeyExpires, TypeOK
    <3>2. \A q \in Calls : CallConsistent(q)'
      BY <1>0, <3>1 DEF TypeOK
    <3> QED
      BY <3>2
  <2> QED
    BY <1>17, <2>1, <2>2
<1>18. ASSUME NEW q \in Calls, NEW t \in held, BeginRefreshByAccess(q, t)
      PROVE  CallsConsistent'
  <2> SUFFICES ASSUME NEW p \in Calls PROVE CallConsistent(p)'
    BY DEF CallsConsistent
  <2>0. CallConsistent(p) /\ \A o \in Calls : Issued(o) => o # q
    BY <1>0, <1>18 DEF BeginRefreshByAccess
  <2>1. CASE p = q
    BY <1>0, <1>18, <2>0, <2>1 DEF BeginRefreshByAccess, TypeOK
  <2>2. CASE p # q
    BY <1>0, <1>18, <2>0, <2>2 DEF BeginRefreshByAccess, TypeOK
  <2> QED
    BY <2>1, <2>2
<1> QED
  BY <1>1, <1>2, <1>3, <1>4, <1>5, <1>6, <1>7, <1>8, <1>9, <1>10, <1>11, <1>12, <1>13, <1>14, <1>15, <1>16, <1>17,
     <1>18 DEF Next, Step

\* What names a user goes on naming him: owners of held tokens, users and their
\* names are settled.
LEMMA ClaimsStep ==
    ASSUME SessionsConsistent, [Next]_vars
    PROVE  ClaimsConsistent'
<1>0. TypeOK /\ TokensConsistent /\ ClaimsConsistent /\ HeldTokenHasUser
  BY DEF SessionsConsistent
<1>1. ASSUME NEW t \in held, NEW u, CanName(t, u)
      PROVE  t \in held' /\ CanName(t, u)'
  <2>1. users \subseteq users' /\ held \subseteq held'
    BY DEF Next, Step, vars, BeginRegister, BeginLogin, BeginRefresh, BeginRefreshByAccess,
           Logout, InsertUser, InsertConflicts, CommitUser, HasKey, ScanKeys, DeleteScanned,
           DeleteKey, FindUser, StoreToken, Respond, Fail, Expire, KeyExpires, tables
  <2>2. owner'[t] = owner[t]
    <3>1. pc[t] = "ok" /\ t \in Calls
      BY <1>0 DEF TypeOK, TokensConsistent
    <3> QED
      BY <1>0, <3>1
         DEF TypeOK, Next, Step, vars, BeginRegister, BeginLogin, BeginRefresh,
             BeginRefreshByAccess, Logout, InsertUser, InsertConflicts, CommitUser, HasKey,
             ScanKeys, DeleteScanned, DeleteKey, FindUser, StoreToken, Respond, Fail,
             Expire, KeyExpires, threads
  <2> QED
    BY <1>1, <2>1, <2>2 DEF CanName
<1>2. ASSUME NEW q \in Calls, claim'[q] # claim[q]
      PROVE  \E t \in held : CanName(t, claim'[q])
  <2>1. \E p \in Calls, t \in held :
            BeginRefresh(p, t) \/ BeginRefreshByAccess(p, t) \/ Logout(p, t)
    BY <1>2 DEF Next, Step, vars, BeginRegister, BeginLogin, InsertUser, InsertConflicts,
                CommitUser, HasKey, ScanKeys, DeleteScanned, DeleteKey, FindUser,
                StoreToken, Respond, Fail, Expire, KeyExpires, threads
  <2> QED
    BY <1>0, <1>2, <2>1 DEF TypeOK, BeginRefresh, BeginRefreshByAccess, Logout, CanName
<1> QED
  BY <1>0, <1>1, <1>2 DEF ClaimsConsistent

-------------------------------------------------------------------------------
(* The theorems.                                                           *)

\* The invariant holds for any calls, in any interleaving and with any failures.
THEOREM AlwaysConsistent == Spec => []SessionsConsistent
<1>1. SessionsConsistent /\ [Next]_vars => SessionsConsistent'
  BY TypeStep, TokensStep, UsersStep, HeldStep, CallsStep, ClaimsStep DEF SessionsConsistent
<1> QED
  BY <1>1, SessionsInit, PTL DEF Spec

\* The variables keep their types.
THEOREM TypeCorrect == Spec => []TypeOK
BY AlwaysConsistent, PTL DEF SessionsConsistent

\* A token whose key has gone is never refreshed again.
THEOREM EndedForGood == Spec => []EndedTokenIsRefused
BY AlwaysConsistent, PTL DEF SessionsConsistent

\* register hands out tokens of committed users only.
THEOREM NoTokenWithoutUser == Spec => []HeldTokenHasUser
BY AlwaysConsistent, PTL DEF SessionsConsistent

\* Racing registrations never commit one name, or one id, twice.
THEOREM UniqueNames == Spec => []NamesAreUnique
BY AlwaysConsistent, PTL DEF SessionsConsistent

\* No call ends a session of another user than the one whose id is in the token
\* that it presents.
THEOREM NamedSessionsOnly == Spec => OnlyNamedSessionsEnd
<1>1. ASSUME SessionsConsistent, [Next]_vars, NEW t \in keys \ keys'
      PROVE  \/ t \in expired
             \/ \E q \in Calls : pc'[q] # pc[q] /\ claim'[q] = owner[t]
  <2>0. TypeOK /\ TokensConsistent /\ CallsConsistent
    BY <1>1 DEF SessionsConsistent
  <2>1. \/ \E q \in Calls : \/ \E s \in held : Logout(q, s)
                           \/ DeleteScanned(q) \/ DeleteKey(q)
        \/ \E s \in Calls : KeyExpires(s)
    BY <1>1 DEF Next, Step, vars, BeginRegister, BeginLogin, BeginRefresh,
         BeginRefreshByAccess, InsertUser,
         InsertConflicts, CommitUser, HasKey, ScanKeys, FindUser, StoreToken, Respond,
         Fail, Expire
  <2>2. ASSUME NEW q \in Calls, NEW s \in held, Logout(q, s)
        PROVE  pc'[q] # pc[q] /\ claim'[q] = owner[t]
    BY <1>1, <2>0, <2>2 DEF Logout, Remove, Goto, TypeOK, TokensConsistent
  <2>3. ASSUME NEW q \in Calls, DeleteScanned(q)
        PROVE  pc'[q] # pc[q] /\ claim'[q] = owner[t]
    BY <1>1, <2>0, <2>3 DEF DeleteScanned, Remove, Goto, TypeOK, TokensConsistent,
         CallsConsistent, CallConsistent
  <2>4. ASSUME NEW q \in Calls, DeleteKey(q)
        PROVE  pc'[q] # pc[q] /\ claim'[q] = owner[t]
    BY <1>1, <2>0, <2>4 DEF DeleteKey, Remove, Goto, TypeOK, TokensConsistent,
         CallsConsistent, CallConsistent
  <2>5. ASSUME NEW s \in Calls, KeyExpires(s)
        PROVE  t \in expired
    BY <1>1, <2>5 DEF KeyExpires, Remove
  <2> QED
    BY <2>1, <2>2, <2>3, <2>4, <2>5
<1>2. SessionsConsistent /\ [Next]_vars =>
        [\A t \in keys \ keys' :
            \/ t \in expired
            \/ \E q \in Calls : pc'[q] # pc[q] /\ claim'[q] = owner[t]]_vars
  BY <1>1
<1> QED
  BY <1>2, AlwaysConsistent, PTL DEF Spec, OnlyNamedSessionsEnd

-------------------------------------------------------------------------------
(* The service implements TokenStore.                                      *)

\* A call that touches no key, no table of users and no token already issued is
\* invisible to the store.
LEMMA InvisibleToStore ==
    ASSUME UNCHANGED <<users, keys, ended, held, expired>>,
           \A t \in Calls : Known(t) => owner'[t] = owner[t] /\ token'[t] = token[t]
    PROVE  UNCHANGED Store!storeVars
BY DEF Store!storeVars, RegisteredUsers, TokenPhases, PhaseOf, Known, IssuedTo, Replaced

\* Keys that go away: their tokens have ended, the others are as before.
LEMMA RemovalEnds ==
    ASSUME TypeOK, TokensConsistent, NEW T, NEW why \in Reasons \ {"live"}, Remove(T, why),
           UNCHANGED <<users, owner>>,
           \A t \in Calls : Known(t) => token'[t] = token[t]
    PROVE  /\ \A t \in keys \cap T : TokenPhases[t] = "live" /\ IssuedTo[t] = owner[t]
           /\ Store!Ending(keys \cap T)
           /\ UNCHANGED <<RegisteredUsers, IssuedTo, Replaced>>
<1>1. \A t \in Calls : Known(t)' <=> Known(t)
  BY DEF Known, Remove, TypeOK, TokensConsistent
<1>2. \A t \in Calls : PhaseOf(t)' = IF t \in keys \cap T THEN "ended" ELSE PhaseOf(t)
  BY DEF PhaseOf, Known, Remove, TypeOK, TokensConsistent
<1>3. Store!Ending(keys \cap T)
  BY <1>2 DEF Store!Ending, TokenPhases
<1>4. \A t \in keys \cap T : TokenPhases[t] = "live" /\ IssuedTo[t] = owner[t]
  BY DEF TypeOK, TokenPhases, PhaseOf, IssuedTo, Known
<1>5. UNCHANGED <<RegisteredUsers, IssuedTo, Replaced>>
  BY <1>1 DEF RegisteredUsers, IssuedTo, Replaced
<1> QED
  BY <1>3, <1>4, <1>5

\* A held token, live or ended, was issued to its owner.
LEMMA HeldIsIssued ==
    ASSUME SessionsConsistent, NEW t \in held
    PROVE  /\ t \in Calls /\ Known(t) /\ IssuedTo[t] = owner[t]
           /\ TokenPhases[t] # "unissued"
BY DEF SessionsConsistent, TypeOK, TokensConsistent, IssuedTo, TokenPhases, PhaseOf

\* Rotation, logout and the reaction to a token without a key end sessions of the
\* user whom the token names, and a client holds what it takes to name him.
LEMMA RemovingEndsSessions ==
    ASSUME SessionsConsistent, NEW q \in Calls,
           DeleteScanned(q) \/ DeleteKey(q) \/ \E t \in held : Logout(q, t)
    PROVE  Store!Next
<1>0. TypeOK /\ TokensConsistent /\ CallConsistent(q) /\ ClaimsConsistent /\ HeldTokenHasUser
  BY DEF SessionsConsistent, CallsConsistent
<1>1. SUFFICES ASSUME NEW u \in UserIds, \E g \in held : CanName(g, u),
                      NEW T, NEW why \in Reasons \ {"live"},
                      Remove(T, why), UNCHANGED <<users, owner, held, expired>>,
                      \A t \in Calls : Known(t) => token'[t] = token[t],
                      \A t \in keys \cap T : owner[t] = u
               PROVE  Store!Next
  <2>0. \A u \in 0..MaxUser : u # 0 => u \in UserIds
    BY DEF UserIds
  <2>1. CASE DeleteScanned(q)
    <3>1. Remove(found[q], "revoked") /\ claim[q] \in UserIds
      BY <1>0, <2>0, <2>1 DEF DeleteScanned, CallConsistent, TypeOK
    <3>2. \A t \in keys \cap found[q] : owner[t] = claim[q]
      BY <1>0 DEF CallConsistent
    <3>3. \E g \in held : CanName(g, claim[q])
      BY <1>0, <3>1 DEF ClaimsConsistent, UserIds
    <3> QED
      BY <1>1, <2>1, <3>1, <3>2, <3>3 DEF DeleteScanned, tables, Reasons
  <2>2. CASE DeleteKey(q)
    <3>1. Remove({token[q]}, "refreshed") /\ token[q] \in held
      BY <1>0, <2>2 DEF DeleteKey, CallConsistent
    <3>2. owner[token[q]] \in UserIds /\ CanName(token[q], owner[token[q]])
      BY <1>0, <3>1 DEF HeldTokenHasUser, UserExists, TypeOK, User, CanName
    <3> QED
      BY <1>1, <2>2, <3>1, <3>2 DEF DeleteKey, tables, Reasons
  <2>3. ASSUME NEW t \in held, Logout(q, t)
        PROVE  Store!Next
    <3>1. Remove({t}, "loggedOut")
      BY <2>3 DEF Logout
    <3>2. \A o \in Calls : Known(o) => token'[o] = token[o]
      BY <1>0, <2>3 DEF Logout, TypeOK, TokensConsistent, Known, Issued
    <3>3. owner[t] \in UserIds /\ CanName(t, owner[t])
      BY <1>0 DEF HeldTokenHasUser, UserExists, TypeOK, User, CanName
    <3> QED
      BY <1>1, <2>3, <3>1, <3>2, <3>3 DEF Logout, tables, Reasons
  <2> QED
    BY <2>1, <2>2, <2>3
<1>2. /\ \A t \in keys \cap T : TokenPhases[t] = "live" /\ IssuedTo[t] = owner[t]
      /\ Store!Ending(keys \cap T)
      /\ UNCHANGED <<RegisteredUsers, IssuedTo, Replaced>>
  BY <1>0, <1>1, RemovalEnds
<1>3. PICK g \in held : CanName(g, u)
  BY <1>1
<1>4. g \in Calls /\ IssuedTo[g] = owner[g]
  BY HeldIsIssued
<1>5. u = IssuedTo[g] \/ [id |-> IssuedTo[g], spelled |-> u] \in RegisteredUsers
  BY <1>3, <1>4 DEF CanName, RegisteredUsers
<1>6. Store!EndSessions(g, u, keys \cap T)
  BY <1>1, <1>2, <1>4, <1>5 DEF Store!EndSessions
<1>7. keys \cap T \in SUBSET Calls
  BY <1>0 DEF TypeOK
<1> QED
  BY <1>4, <1>6, <1>7 DEF Store!Next

\* A new key: a first token, or the successor of one that has ended.
LEMMA StoringIssues ==
    ASSUME SessionsConsistent, NEW q \in Calls, StoreToken(q)
    PROVE  Store!Next
<1>0. TypeOK /\ TokensConsistent /\ CallConsistent(q)
  BY DEF SessionsConsistent, CallsConsistent
<1>1. ~Known(q) /\ UNCHANGED <<users, owner, token, ended, held, expired>>
  BY <1>0 DEF StoreToken, tables, TokensConsistent, Known, Issued
<1>2. \A t \in Calls : Known(t)' <=> Known(t) \/ t = q
  BY <1>0, <1>1 DEF StoreToken, Known, TypeOK
<1>3. /\ TokenPhases[q] = "unissued"
      /\ TokenPhases' = [TokenPhases EXCEPT ![q] = "live"]
      /\ IssuedTo' = [IssuedTo EXCEPT ![q] = owner[q]]
      /\ Replaced' = [Replaced EXCEPT ![q] = token[q]]
  <2>1. TokenPhases[q] = "unissued"
    BY <1>1 DEF TokenPhases, PhaseOf, Known
  <2>2. TokenPhases' = [TokenPhases EXCEPT ![q] = "live"]
    BY <1>1, <1>2 DEF StoreToken, TokenPhases, PhaseOf, Known
  <2>3. IssuedTo' = [IssuedTo EXCEPT ![q] = owner[q]]
    BY <1>1, <1>2 DEF IssuedTo
  <2>4. Replaced' = [Replaced EXCEPT ![q] = token[q]]
    BY <1>1, <1>2 DEF Replaced
  <2> QED
    BY <2>1, <2>2, <2>3, <2>4
<1>4. UNCHANGED RegisteredUsers
  BY <1>1 DEF RegisteredUsers
<1>5. owner[q] \in UserIds
  BY <1>0 DEF StoreToken, SessionsConsistent, CallConsistent, UsersConsistent, UserExists,
              TypeOK, User
<1>6. CASE token[q] = q
  <2>1. Replaced' = Replaced
    BY <1>1, <1>2, <1>6 DEF Replaced
  <2>2. Store!Issue(q, owner[q])
    BY <1>1, <1>3, <1>4, <2>1 DEF Store!Issue
  <2> QED
    BY <1>5, <2>2 DEF Store!Next
<1>7. CASE token[q] # q
  <2>1. token[q] \in held /\ TokenPhases[token[q]] = "ended"
    BY <1>0, <1>7 DEF StoreToken, CallConsistent, TokensConsistent, TypeOK, TokenPhases,
                      PhaseOf, Known
  <2>2. token[q] \in Calls /\ IssuedTo[token[q]] = owner[token[q]]
    BY <2>1, HeldIsIssued
  <2>3. owner[q] = owner[token[q]]
    BY <1>0, <1>7 DEF StoreToken, CallConsistent
  <2>4. Store!Replace(token[q], q)
    BY <1>1, <1>3, <1>4, <2>1, <2>2, <2>3 DEF Store!Replace
  <2> QED
    BY <2>2, <2>4 DEF Store!Next
<1> QED
  BY <1>6, <1>7

\* Every step of the service is a step of the store, or invisible to it.
LEMMA StepImplementsStore ==
    ASSUME SessionsConsistent, [Next]_vars
    PROVE  [Store!Next]_Store!storeVars
<1>0. /\ TypeOK /\ TokensConsistent /\ UsersConsistent
      /\ \A q \in Calls : CallConsistent(q)
  BY DEF SessionsConsistent, CallsConsistent
<1>1. CASE UNCHANGED vars
  BY <1>1, InvisibleToStore DEF vars
<1>2. ASSUME NEW q \in Calls,
             \/ \E n \in Names : BeginRegister(q, n)
             \/ \E u \in UserIds : BeginLogin(q, u)
             \/ \E t \in held : BeginRefresh(q, t) \/ BeginRefreshByAccess(q, t)
             \/ InsertUser(q) \/ InsertConflicts(q) \/ HasKey(q) \/ ScanKeys(q)
             \/ FindUser(q) \/ Fail(q)
      PROVE  UNCHANGED Store!storeVars
  <2>1. UNCHANGED <<users, keys, ended, held, expired>>
    BY <1>2 DEF BeginRegister, BeginLogin, BeginRefresh, BeginRefreshByAccess, InsertUser, InsertConflicts,
                HasKey, ScanKeys, FindUser, Fail, tables
  <2>2. \A t \in Calls \ {q} : owner'[t] = owner[t] /\ token'[t] = token[t]
    BY <1>0, <1>2 DEF BeginRegister, BeginLogin, BeginRefresh, BeginRefreshByAccess, InsertUser,
                      InsertConflicts, HasKey, ScanKeys, FindUser, Fail, TypeOK
  <2>3. Known(q) => owner'[q] = owner[q] /\ token'[q] = token[q]
    BY <1>0, <1>2 DEF BeginRegister, BeginLogin, BeginRefresh, BeginRefreshByAccess, InsertUser, InsertConflicts,
                      HasKey, ScanKeys, FindUser, Fail, TypeOK, TokensConsistent, Known, Issued
  <2> QED
    BY <2>1, <2>2, <2>3, InvisibleToStore
<1>3. ASSUME NEW q \in Calls, CommitUser(q)
      PROVE  Store!Next
  <2>1. PICK u \in newUser[q] : newUser[q] = {u}
    BY <1>0, <1>3 DEF CommitUser, CallConsistent
  <2>e. PICK row : row = [id |-> u.id, spelled |-> spells[u.name]]
    OBVIOUS
  <2>2. row \in Store!User /\ \A v \in users : v.id # u.id
    BY <1>0, <1>3, <2>1, <2>e, SpellsAssumption
       DEF CommitUser, UsersConsistent, TypeOK, Store!User
  <2>3. RegisteredUsers' = RegisteredUsers \cup {row} /\ ~Store!HasUser(row.id)
    BY <1>3, <2>1, <2>2, <2>e DEF CommitUser, RegisteredUsers, Store!HasUser
  <2>4. UNCHANGED <<TokenPhases, IssuedTo, Replaced, held, expired>>
    BY <1>3 DEF CommitUser, TokenPhases, PhaseOf, IssuedTo, Replaced, Known
  <2>5. Store!Register(row)
    BY <2>3, <2>4 DEF Store!Register
  <2> QED
    BY <2>2, <2>5 DEF Store!Next
<1>4. ASSUME NEW q \in Calls, Respond(q)
      PROVE  Store!Next
  <2>1. Known(q) /\ UserExists(owner[q]) /\ q \in Calls
    BY <1>0, <1>4 DEF Respond, TokensConsistent, CallConsistent
  <2>2. TokenPhases[q] # "unissued" /\ Store!HasUser(IssuedTo[q])
    <3>1. TokenPhases[q] # "unissued" /\ IssuedTo[q] = owner[q]
      BY <2>1 DEF TokenPhases, PhaseOf, IssuedTo, Known
    <3>2. PICK row \in users : row.id = owner[q]
      BY <2>1 DEF UserExists
    <3>3. [id |-> row.id, spelled |-> spells[row.name]] \in RegisteredUsers
      BY <3>2 DEF RegisteredUsers
    <3> QED
      BY <3>1, <3>2, <3>3 DEF Store!HasUser
  <2>3. UNCHANGED <<RegisteredUsers, TokenPhases, IssuedTo, Replaced>>
    BY <1>4 DEF Respond, tables, RegisteredUsers, TokenPhases, PhaseOf, IssuedTo, Replaced, Known
  <2>4. Store!Give(q)
    BY <1>4, <2>2, <2>3 DEF Respond, Store!Give
  <2> QED
    BY <2>4 DEF Store!Next
<1>5. ASSUME NEW t \in Calls, Expire(t)
      PROVE  Store!Next
  <2>1. Known(t)
    BY <1>0, <1>5 DEF Expire, TokensConsistent, Known
  <2>2. TokenPhases[t] # "unissued"
    BY <2>1 DEF TokenPhases, PhaseOf
  <2>3. UNCHANGED <<RegisteredUsers, TokenPhases, IssuedTo, Replaced>>
    BY <1>5 DEF Expire, tables, threads, RegisteredUsers, TokenPhases, PhaseOf, IssuedTo,
                Replaced, Known
  <2>4. Store!Age(t)
    BY <1>5, <2>2, <2>3 DEF Expire, Store!Age
  <2> QED
    BY <2>4 DEF Store!Next
<1>6. ASSUME NEW t \in Calls, KeyExpires(t)
      PROVE  Store!Next
  <2>1. /\ Remove({t}, "expired") /\ t \in keys /\ t \in expired
        /\ UNCHANGED <<users, owner, token, held, expired>>
    BY <1>6 DEF KeyExpires, tables, threads
  <2>2. /\ TokenPhases[t] = "live" /\ Store!Ending(keys \cap {t})
        /\ UNCHANGED <<RegisteredUsers, IssuedTo, Replaced>>
    BY <1>0, <2>1, RemovalEnds DEF Reasons
  <2>3. keys \cap {t} = {t}
    BY <2>1
  <2>4. Store!Lapse(t)
    BY <2>1, <2>2, <2>3 DEF Store!Lapse
  <2> QED
    BY <2>4 DEF Store!Next
<1> QED
  BY <1>1, <1>2, <1>3, <1>4, <1>5, <1>6, RemovingEndsSessions, StoringIssues DEF Next, Step

\* AuthService over MySQL and Redis implements TokenStore: whatever calls overlap
\* or fail, tokens end for good, sessions are ended by who can name their user, and
\* a token and its successor are never alive together.
THEOREM Refinement == Spec => ImplementsTokenStore
<1>1. Init => Store!Init
  BY RegisteredAssumption, SpellsAssumption
     DEF Init, Store!Init, Store!User, RegisteredUsers, TokenPhases, PhaseOf, IssuedTo,
         Replaced, Known, User
<1> QED
  BY <1>1, AlwaysConsistent, StepImplementsStore, PTL
     DEF Spec, ImplementsTokenStore, Store!Spec

\* What TokenStore promises therefore holds of the service: no key of a token is
\* there together with the key of the token it replaced, even if a refresh fails
\* half way and whoever else refreshes meanwhile.
THEOREM NoTokenBesideItsSuccessor == Spec => []Store!Promise
BY Refinement, Store!PromiseKept, PTL DEF ImplementsTokenStore

===============================================================================
