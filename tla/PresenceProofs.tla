---------------------------- MODULE PresenceProofs ----------------------------
(***************************************************************************)
(* That frames keep a user online, for any users, sessions and TTL.        *)
(***************************************************************************)
EXTENDS Presence, TLAPS

\* The initial state and the actions are well typed.
LEMMA TypeInit == Init => TypeOK
  BY UserAssumption, TTLAssumption DEF Init, TypeOK

\* What EXPIRE and the passing of a tick leave of a key.
LEMMA KeysStayInRange ==
    ASSUME TypeOK, NEW u \in Users
    PROVE  /\ Renewed(u) \in 0..TTL
           /\ Renewed(u) >= key[u]
           /\ AgedKey(u) \in 0..TTL
           /\ key[u] > 0 => AgedKey(u) + 1 = key[u]
  BY TTLAssumption DEF TypeOK, Renewed, AgedKey

\* Every step keeps the types.
LEMMA TypeStep == TypeOK /\ [Next]_vars => TypeOK'
<1> SUFFICES ASSUME TypeOK, [Next]_vars PROVE TypeOK'
    OBVIOUS
<1> USE UserAssumption, TTLAssumption
<1>1. ASSUME NEW s \in Sessions, Connect(s) PROVE TypeOK'
  BY <1>1 DEF TypeOK, Connect
<1>2. ASSUME NEW s \in Sessions, Frame(s) PROVE TypeOK'
  BY <1>2, KeysStayInRange DEF TypeOK, Frame
<1>3. ASSUME NEW s \in Sessions, Close(s) PROVE TypeOK'
  BY <1>3 DEF TypeOK, Close
<1>4. ASSUME NEW s \in Sessions, SetOnline(s) PROVE TypeOK'
  BY <1>4 DEF TypeOK, SetOnline
<1>5. ASSUME NEW s \in Sessions, SetOffline(s) PROVE TypeOK'
  BY <1>5 DEF TypeOK, SetOffline, SessionsOf
<1>6. ASSUME NEW s \in Sessions, LastFrame(s) PROVE TypeOK'
  BY <1>6, KeysStayInRange DEF TypeOK, LastFrame
<1>7. ASSUME NEW s \in Sessions, SetOnlineFails(s) PROVE TypeOK'
  BY <1>7 DEF TypeOK, SetOnlineFails
<1>8. ASSUME NEW s \in Sessions, SetOfflineFails(s) PROVE TypeOK'
  BY <1>8 DEF TypeOK, SetOfflineFails
<1>9. ASSUME NEW i \in Instances, Crash(i) PROVE TypeOK'
  BY <1>9 DEF TypeOK, Crash
<1>10. ASSUME NEW s \in Sessions, LastFrameFails(s) PROVE TypeOK'
  BY <1>10 DEF TypeOK, LastFrameFails
<1>11. CASE Tick
  BY <1>11, KeysStayInRange DEF TypeOK, Tick
<1>12. CASE UNCHANGED vars
  BY <1>12 DEF TypeOK, vars
<1>13. QED
  BY <1>1, <1>2, <1>3, <1>4, <1>5, <1>6, <1>7, <1>8, <1>9, <1>10, <1>11, <1>12
     DEF Next, Handle, FrameFails

\* A step that lengthens the life of every key, or leaves it, and lets no lapse
\* grow keeps the invariant; it may mark a session whose key it has renewed.
LEMMA LongerLife ==
    ASSUME TypeOK, TypeOK', LapseConsistent,
           \A u \in Users : key'[u] >= key[u],
           \A s \in Sessions \ swept' :
               \/ s \notin swept /\ lapse'[s] = lapse[s]
               \/ s \notin swept /\ lapse[s] < TTL /\ key'[user[s]] = TTL
               \/ lapse'[s] >= TTL
               \/ key'[user[s]] = TTL
    PROVE  LapseConsistent'
  BY UserAssumption, TTLAssumption DEF TypeOK, LapseConsistent

\* After every step the rest of each key makes up for every lapse.
LEMMA LapseStep ==
    TypeOK /\ TypeOK' /\ LapseConsistent /\ [Next]_vars => LapseConsistent'
<1> SUFFICES ASSUME TypeOK, TypeOK', LapseConsistent, [Next]_vars
             PROVE  LapseConsistent'
    OBVIOUS
<1> USE UserAssumption, TTLAssumption
<1>1. ASSUME UNCHANGED <<key, lapse, swept>> PROVE LapseConsistent'
  BY <1>1 DEF LapseConsistent
<1>2. ASSUME NEW s \in Sessions, Frame(s) PROVE LapseConsistent'
  \* The frame of a swept or lapsed session may find no key to renew.
  <2>1. \A u \in Users : key'[u] >= key[u]
    BY <1>2, KeysStayInRange DEF TypeOK, Frame
  <2>2. \A r \in Sessions \ {s} : lapse'[r] = lapse[r]
    BY <1>2 DEF TypeOK, Frame
  <2>3. swept' = swept
    BY <1>2 DEF Frame
  <2>4. CASE lapse[s] < TTL /\ s \notin swept
    <3>1. key[user[s]] > 0
      BY <2>4 DEF TypeOK, LapseConsistent
    <3>2. key'[user[s]] = TTL
      BY <1>2, <3>1 DEF TypeOK, Frame, Renewed
    <3>3. QED
      BY <2>1, <2>2, <2>3, <3>2, LongerLife
  <2>5. CASE ~(lapse[s] < TTL)
    <3>1. lapse'[s] = lapse[s]
      BY <1>2, <2>5 DEF TypeOK, Frame
    <3>2. QED
      BY <2>1, <2>2, <2>3, <3>1, LongerLife
  <2>6. CASE s \in swept
    BY <2>1, <2>2, <2>3, <2>6, LongerLife
  <2>7. QED
    BY <2>4, <2>5, <2>6
<1>3. ASSUME NEW s \in Sessions, SetOnline(s) PROVE LapseConsistent'
  <2>1. key'[user[s]] = TTL
    BY <1>3 DEF TypeOK, SetOnline
  <2>2. \A u \in Users : key'[u] >= key[u]
    BY <1>3 DEF TypeOK, SetOnline
  <2>3. \A r \in Sessions \ {s} : lapse'[r] = lapse[r]
    BY <1>3 DEF TypeOK, SetOnline
  <2>4. swept' = swept \ {s}
    BY <1>3 DEF SetOnline
  <2>5. QED
    BY <2>1, <2>2, <2>3, <2>4, LongerLife
<1>4. ASSUME NEW s \in Sessions, SetOffline(s) PROVE LapseConsistent'
  \* The sessions left out of the sweep have another key.
  <2>1. \A r \in Sessions \ swept' : r \notin swept /\ user[r] # user[s]
    BY <1>4 DEF SetOffline, SessionsOf
  <2>2. \A r \in Sessions \ swept' : key'[user[r]] = key[user[r]]
    BY <1>4, <2>1 DEF TypeOK, SetOffline
  <2>3. lapse' = lapse
    BY <1>4 DEF SetOffline
  <2>4. QED
    BY <2>1, <2>2, <2>3 DEF LapseConsistent
<1>5. ASSUME NEW s \in Sessions, LastFrame(s) PROVE LapseConsistent'
  <2>1. \A u \in Users : key'[u] >= key[u]
    BY <1>5, KeysStayInRange DEF TypeOK, LastFrame
  <2>2. UNCHANGED <<lapse, swept>>
    BY <1>5 DEF LastFrame
  <2>3. QED
    BY <2>1, <2>2, LongerLife
<1>6. ASSUME Tick PROVE LapseConsistent'
  <2> SUFFICES ASSUME NEW s \in Sessions, s \notin swept, lapse'[s] < TTL
               PROVE  key'[user[s]] + lapse'[s] >= TTL
    BY <1>6 DEF Tick, LapseConsistent
  <2>1. lapse[s] < TTL /\ lapse'[s] = lapse[s] + 1
    BY <1>6 DEF TypeOK, Tick
  <2>2. key[user[s]] + lapse[s] >= TTL /\ key[user[s]] > 0
    BY <2>1 DEF TypeOK, LapseConsistent
  <2>3. key'[user[s]] + 1 = key[user[s]]
    BY <1>6, <2>2, KeysStayInRange DEF Tick
  <2>4. QED
    BY <2>1, <2>2, <2>3 DEF TypeOK
<1>7. QED
  BY <1>1, <1>2, <1>3, <1>4, <1>5, <1>6
     DEF Next, Handle, Connect, Close, FrameFails, SetOnlineFails,
         SetOfflineFails, LastFrameFails, Crash, vars

\* Only a tick ages a key and counts the absence of a user, each by one; other
\* steps renew keys of users who are here.
LEMMA AwayStep ==
    TypeOK /\ TypeOK' /\ AwayConsistent /\ [Next]_vars => AwayConsistent'
<1> SUFFICES ASSUME TypeOK, TypeOK', AwayConsistent, [Next]_vars,
                    NEW u \in Users
             PROVE  key'[u] + away'[u] <= TTL /\ (Here(u)' => away'[u] = 0)
    BY DEF AwayConsistent
<1> USE UserAssumption, TTLAssumption
<1>0. /\ key[u] \in 0..TTL /\ away[u] \in 0..TTL
      /\ key[u] + away[u] <= TTL /\ (Here(u) => away[u] = 0)
  BY DEF TypeOK, AwayConsistent
<1>1. ASSUME NEW s \in Sessions, Connect(s)
      PROVE  key'[u] + away'[u] <= TTL /\ (Here(u)' => away'[u] = 0)
  <2>1. CASE u = user[s]
    BY <1>0, <1>1, <2>1 DEF TypeOK, Connect
  <2>2. CASE u # user[s]
    BY <1>0, <1>1, <2>2 DEF TypeOK, Connect, Here, SessionsOf
  <2> QED
    BY <2>1, <2>2
\* A session or a handler of the user is left before the step.
<1>2. ASSUME NEW s \in Sessions,
             Frame(s) \/ SetOnline(s) \/ LastFrame(s) \/ SetOffline(s)
      PROVE  key'[u] + away'[u] <= TTL /\ (Here(u)' => away'[u] = 0)
  <2>1. Here(user[s])
    BY <1>2 DEF Here, SessionsOf, Frame, SetOnline, LastFrame, SetOffline
  <2>2. CASE u = user[s]
    <3>1. away'[u] = 0
      BY <1>0, <1>2, <2>1, <2>2 DEF Frame, SetOnline, LastFrame, SetOffline
    <3> QED
      BY <3>1 DEF TypeOK
  <2>3. CASE u # user[s]
    <3>1. key'[u] = key[u] /\ away'[u] = away[u]
      BY <1>2, <2>3 DEF TypeOK, Frame, SetOnline, LastFrame, SetOffline
    <3>2. Here(u)' => Here(u)
      BY <1>2, <2>3 DEF TypeOK, Here, SessionsOf, Frame, SetOnline, LastFrame, SetOffline
    <3> QED
      BY <1>0, <3>1, <3>2
  <2> QED
    BY <2>2, <2>3
<1>3. ASSUME NEW s \in Sessions,
             Close(s) \/ SetOnlineFails(s) \/ SetOfflineFails(s) \/ LastFrameFails(s)
      PROVE  key'[u] + away'[u] <= TTL /\ (Here(u)' => away'[u] = 0)
  <2>1. Here(u)' => Here(u)
    BY <1>3 DEF TypeOK, Here, SessionsOf, Close, SetOnlineFails, SetOfflineFails,
                LastFrameFails
  <2> QED
    BY <1>0, <1>3, <2>1 DEF Close, SetOnlineFails, SetOfflineFails, LastFrameFails
<1>4. ASSUME NEW i \in Instances, Crash(i)
      PROVE  key'[u] + away'[u] <= TTL /\ (Here(u)' => away'[u] = 0)
  <2>1. Here(u)' => Here(u)
    BY <1>4 DEF TypeOK, Here, SessionsOf, Crash
  <2> QED
    BY <1>0, <1>4, <2>1 DEF Crash
<1>5. CASE Tick
  <2>1. Here(u)' <=> Here(u)
    BY <1>5 DEF Tick, Here, SessionsOf
  <2>2. CASE Here(u)
    BY <1>0, <1>5, <2>2 DEF Tick, TypeOK
  <2>3. CASE ~Here(u)
    BY <1>0, <1>5, <2>1, <2>3 DEF Tick, AgedKey
  <2> QED
    BY <2>2, <2>3
<1>6. CASE UNCHANGED vars
  BY <1>0, <1>6 DEF vars, Here, SessionsOf
<1> QED
  BY <1>1, <1>2, <1>3, <1>4, <1>5, <1>6 DEF Next, Handle, FrameFails

\* Every variable keeps its type: no key outlives its TTL.
THEOREM TypeCorrect == Spec => []TypeOK
  BY TypeInit, TypeStep, PTL DEF Spec

\* What a key has left makes up for the lapse of the sessions that share it,
\* and for no more than the absence of its user allows.
THEOREM AlwaysConsistent == Spec => []PresenceConsistent
<1>1. Init => PresenceConsistent
  BY TTLAssumption
     DEF Init, PresenceConsistent, LapseConsistent, AwayConsistent
<1>2. TypeOK /\ TypeOK' /\ PresenceConsistent /\ [Next]_vars => PresenceConsistent'
  BY LapseStep, AwayStep DEF PresenceConsistent
<1>3. QED
  BY <1>1, <1>2, TypeCorrect, PTL DEF Spec

\* A session that was marked online and has a frame renew the key within every
\* TTL ticks keeps its user online, whatever other frames fail to renew it, until
\* the end of a session of that user sweeps the key.
THEOREM SendersStayOnline == Spec => []FramesKeepOnline
<1>1. TypeOK /\ PresenceConsistent => FramesKeepOnline
  BY UserAssumption, TTLAssumption
     DEF TypeOK, PresenceConsistent, LapseConsistent, FramesKeepOnline, isOnline
<1>2. QED
  BY <1>1, TypeCorrect, AlwaysConsistent, PTL

\* A user is offline TTL ticks after the last session and the last handler:
\* every late SET and every frame belongs to a handler that was still to run.
THEOREM NoLastingGhost == Spec => []GhostsFade
<1>1. TypeOK /\ PresenceConsistent => GhostsFade
  BY TTLAssumption DEF TypeOK, PresenceConsistent, AwayConsistent, GhostsFade, isOnline
<1>2. QED
  BY <1>1, TypeCorrect, AlwaysConsistent, PTL

===============================================================================
