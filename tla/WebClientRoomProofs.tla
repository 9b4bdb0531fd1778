-------------------------- MODULE WebClientRoomProofs --------------------------
(***************************************************************************)
(* Theorems about WebClientRoom for any number of rooms, partners,         *)
(* messages, calls and subscriptions. PageConsistent is the inductive      *)
(* invariant.                                                              *)
(***************************************************************************)
EXTENDS WebClientRoom, TLAPS

\* The types of the variables and what is said about the connection.
WireConsistent == TypeOK /\ OneSubscription /\ LinkConsistent

\* The choice from a set is in it.
LEMMA SomeIsMember == ASSUME NEW S, S # {} PROVE Some(S) \in S
  BY DEF Some

\* Whatever was subscribed to before, n is afterwards, alone, and no frame of
\* an earlier subscription is left.
LEMMA ResubscribeEffect ==
    ASSUME WireConsistent, NEW n \in Rooms, Resubscribe(n)
    PROVE  /\ current' \in Slots
           /\ follows' \in [Slots -> Rooms \cup {None}]
           /\ follows'[current'] = n
           /\ \A t \in Slots : t # current' => follows'[t] = None
           /\ heard' = {} /\ frames' = {}
<1> DEFINE T == {t \in Slots : follows[t] = None \/ t = current}
           s == Some(T)
<1>1. T # {}
  BY SlotsAssumption DEF WireConsistent, OneSubscription
<1>2. s \in Slots
  BY <1>1, SomeIsMember
<1>3. /\ current' = s
      /\ follows' = [t \in Slots |-> IF t = s THEN n
                                     ELSE IF t = current THEN None ELSE follows[t]]
      /\ heard' = heard \ {current, s}
      /\ frames' = {f \in frames : f[1] \notin {current, s}}
  BY DEF Resubscribe
<1>4. heard' = {}
  BY <1>3 DEF WireConsistent, LinkConsistent
<1>5. frames' = {}
  BY <1>3 DEF WireConsistent, LinkConsistent, TypeOK
<1>6. \A t \in Slots : t # current' => follows'[t] = None
  BY <1>2, <1>3 DEF WireConsistent, OneSubscription
<1>7. follows' \in [Slots -> Rooms \cup {None}]
  BY <1>3 DEF WireConsistent, TypeOK
<1> QED
  BY <1>2, <1>3, <1>4, <1>5, <1>6, <1>7

\* What is known of a connection whose subscriptions are these.
LEMMA ResubscribedWire ==
    ASSUME WireConsistent, NEW n \in Rooms, Resubscribe(n), link' = "up"
    PROVE  /\ OneSubscription' /\ LinkConsistent'
           /\ follows' \in [Slots -> Rooms \cup {None}] /\ current' \in Slots \cup {None}
           /\ heard' \subseteq Slots /\ frames' \subseteq Slots \X Messages
  BY ResubscribeEffect DEF OneSubscription, LinkConsistent

\* An opening is of one of three sorts.
LEMMA OpeningType ==
    ASSUME NEW n PROVE Opening(n) \in {"calm", "plain", "rivalled"}
  BY DEF Opening

\* A disturbance only ends the calm.
LEMMA DisturbedType ==
    ASSUME TypeOK, NEW n
    PROVE  /\ Disturbed(n) \in {"calm", "plain", "rivalled"}
           /\ Disturbed(n) = "calm" => opening = "calm"
           /\ Disturbed(n) # "rivalled" => opening # "rivalled"
           /\ Disturbed(n) = "calm" /\ n = open => Following(n)
  BY DEF Disturbed, TypeOK

\* Appending keeps the type of the panel.
LEMMA AppendType ==
    ASSUME TypeOK, NEW lines
    PROVE  Append(lines) \in [Messages -> Nat]
  BY DEF Append, TypeOK

\* The call that showChatMain's caller goes on with.
LEMMA ShowEffect ==
    ASSUME TypeOK, NEW n \in Places, NEW step \in {"joining", "asked"}, Show(n, step)
    PROVE  /\ open' \in Places \cup {None} /\ shown' \in [Messages -> Nat]
           /\ call' \in [Calls -> Call]
           /\ \E c \in Calls :
                /\ c \notin UnderWay
                /\ call' = [call EXCEPT ![c] = [place |-> n, step |-> step, got |-> {}]]
                /\ UnderWay' = UnderWay \cup {c}
<1>1. PICK c \in Free : call' = [call EXCEPT ![c] = [place |-> n, step |-> step, got |-> {}]]
  BY SomeIsMember DEF Show
<1>2. [place |-> n, step |-> step, got |-> {}] \in Call
  BY DEF Call
<1>3. call' \in [Calls -> Call]
  BY <1>1, <1>2 DEF TypeOK, Free
<1>4. c \in Calls /\ c \notin UnderWay
  BY <1>1 DEF Free, UnderWay
<1>5. UnderWay' = UnderWay \cup {c}
  BY <1>1, <1>4 DEF UnderWay, TypeOK
<1>6. open' \in Places \cup {None} /\ shown' \in [Messages -> Nat]
  BY DEF Show
<1> QED
  BY <1>1, <1>3, <1>4, <1>5, <1>6

\* What a call reads is a first page of the stored messages of its place.
LEMMA PageRead ==
    ASSUME TypeOK, NEW c \in Calls, ReadHistory(c)
    PROVE  LET stored == {m \in Messages : place[m] = call[c].place /\ row[m] = "stored"}
           IN  \E page \in SUBSET stored :
                 /\ call' = [call EXCEPT ![c].step = "read", ![c].got = page]
                 /\ call'[c].got = page
                 /\ \A m \in stored \ page : PastPage(page, m)
<1> DEFINE stored == {m \in Messages : place[m] = call[c].place /\ row[m] = "stored"}
<1>1. PICK page \in FirstPages(stored) :
          call' = [call EXCEPT ![c].step = "read", ![c].got = page]
  BY DEF ReadHistory
<1>2. page \in SUBSET stored /\ \A m \in stored \ page : PastPage(page, m)
  BY DEF FirstPages
<1>3. call'[c].got = page
  BY <1>1 DEF TypeOK, Call
<1> QED
  BY <1>1, <1>2, <1>3

\* Every step keeps the types and what is known of the connection.
LEMMA WireStep ==
    ASSUME WireConsistent, [Next]_vars
    PROVE  WireConsistent'
<1>0. TypeOK /\ OneSubscription /\ LinkConsistent
  BY DEF WireConsistent
<1> DEFINE Rest ==
      /\ open' \in Places \cup {None} /\ shown' \in [Messages -> Nat]
      /\ call' \in [Calls -> Call] /\ opening' \in {"calm", "plain", "rivalled"}
      /\ row' \in [Messages -> {"new", "sending", "inserted", "stored", "gone"}]
      /\ inRedis' \subseteq Messages
      /\ unread' \in [People -> Nat] /\ badge' \in [People -> Nat] /\ dots' \subseteq People
<1>a. ASSUME Rest, UNCHANGED session
      PROVE  WireConsistent'
  <2>1. TypeOK'
    BY <1>0, <1>a DEF TypeOK, session
  <2>2. OneSubscription' /\ LinkConsistent'
    BY <1>0, <1>a DEF OneSubscription, LinkConsistent, session
  <2> QED
    BY <2>1, <2>2 DEF WireConsistent
<1>b. ASSUME UNCHANGED <<panel, server, sidebar>>
      PROVE  Rest
  BY <1>0, <1>b DEF TypeOK, panel, server, sidebar
<1>1. CASE UNCHANGED vars
  BY <1>1, <1>a, <1>b DEF vars, panel, server, sidebar, session
<1>2. ASSUME NEW r \in Rooms, OpenRoom(r)
      PROVE  WireConsistent'
  <2>1. PICK step \in {"joining", "asked"} : Show(r, step)
    BY <1>2 DEF OpenRoom
  <2>2. /\ open' \in Places \cup {None} /\ shown' \in [Messages -> Nat]
        /\ call' \in [Calls -> Call]
    BY <1>0, <2>1, ShowEffect DEF Places
  <2>3. opening' \in {"calm", "plain", "rivalled"}
    BY <1>2, OpeningType DEF OpenRoom
  <2>4. Rest
    BY <1>0, <1>2, <2>2, <2>3 DEF OpenRoom, server, sidebar, TypeOK
  <2> QED
    BY <1>2, <2>4, <1>a DEF OpenRoom
<1>3. ASSUME NEW p \in People, OpenDm(p, {p}) \/ OpenDm(p, People)
      PROVE  WireConsistent'
  <2>1. Show(p, "asked")
    BY <1>3 DEF OpenDm
  <2>2. /\ open' \in Places \cup {None} /\ shown' \in [Messages -> Nat]
        /\ call' \in [Calls -> Call]
    BY <1>0, <2>1, ShowEffect DEF Places
  <2>3. opening' \in {"calm", "plain", "rivalled"}
    BY <1>3 DEF OpenDm
  <2>4. unread' \in [People -> Nat] /\ badge' \in [People -> Nat] /\ dots' \subseteq People
    BY <1>0, <1>3 DEF OpenDm, ShowUnread, Unread, TypeOK
  <2>5. Rest
    BY <1>0, <1>3, <2>2, <2>3, <2>4 DEF OpenDm, server, TypeOK
  <2> QED
    BY <1>3, <2>5, <1>a DEF OpenDm
<1>4. CASE ShowDmTab \/ RenderDmSidebar
  <2>1. Rest
    BY <1>0, <1>4
       DEF ShowDmTab, RenderDmSidebar, NothingUnread, Unread, TypeOK, panel, server
  <2> QED
    BY <1>4, <2>1, <1>a DEF ShowDmTab, RenderDmSidebar
<1>5. ASSUME NEW c \in Calls, Joined(c)
      PROVE  WireConsistent'
  <2>1. call' \in [Calls -> Call]
    BY <1>0, <1>5 DEF Joined, TypeOK, Call
  <2>2. Rest
    BY <1>0, <1>5, <2>1 DEF Joined, TypeOK, server, sidebar
  <2> QED
    BY <1>5, <2>2, <1>a DEF Joined
<1>6. ASSUME NEW c \in Calls, ReadHistory(c)
      PROVE  WireConsistent'
  <2>1. call' \in [Calls -> Call]
    <3>1. PICK page \in SUBSET Messages :
              call' = [call EXCEPT ![c].step = "read", ![c].got = page]
      BY <1>0, <1>6, PageRead
    <3> QED
      BY <1>0, <3>1 DEF TypeOK, Call
  <2>2. opening' \in {"calm", "plain", "rivalled"}
    BY <1>0, <1>6, DisturbedType DEF ReadHistory, TypeOK
  <2>3. Rest
    BY <1>0, <1>6, <2>1, <2>2 DEF ReadHistory, TypeOK, server, sidebar
  <2> QED
    BY <1>6, <2>3, <1>a DEF ReadHistory
<1>7. ASSUME NEW c \in Calls, RefuseHistory(c)
      PROVE  WireConsistent'
  <2>1. call' \in [Calls -> Call]
    BY <1>0, <1>7 DEF RefuseHistory, TypeOK, Call
  <2>2. opening' \in {"calm", "plain", "rivalled"}
    BY <1>0, <1>7, DisturbedType DEF RefuseHistory
  <2>3. Rest
    BY <1>0, <1>7, <2>1, <2>2 DEF RefuseHistory, TypeOK, server, sidebar
  <2> QED
    BY <1>7, <2>3, <1>a DEF RefuseHistory
<1>8. ASSUME NEW c \in Calls, ArriveHistory(c)
      PROVE  WireConsistent'
  <2>1. call' \in [Calls -> Call]
    BY <1>0, <1>8 DEF ArriveHistory, TypeOK, Call, Idle
  <2>2. shown' \in [Messages -> Nat]
    BY <1>0, <1>8, AppendType DEF ArriveHistory
  <2>3. Rest
    BY <1>0, <1>8, <2>1, <2>2 DEF ArriveHistory, TypeOK, server, sidebar
  <2>4. CASE call[c].place \in Rooms /\ link = "up"
    <3>1. Resubscribe(call[c].place) /\ UNCHANGED <<link, dms, dmFrames>>
      BY <1>8, <2>4 DEF ArriveHistory
    <3>2. /\ OneSubscription' /\ LinkConsistent'
          /\ follows' \in [Slots -> Rooms \cup {None}] /\ current' \in Slots \cup {None}
          /\ heard' \subseteq Slots /\ frames' \subseteq Slots \X Messages
      BY <2>4, <3>1, ResubscribedWire
    <3> QED
      BY <1>0, <2>3, <3>1, <3>2 DEF WireConsistent, TypeOK
  <2>5. CASE ~(call[c].place \in Rooms /\ link = "up")
    <3>1. UNCHANGED session
      BY <1>8, <2>5 DEF ArriveHistory, session
    <3> QED
      BY <2>3, <3>1, <1>a
  <2> QED
    BY <2>4, <2>5
<1>9. ASSUME NEW c \in Calls, Reject(c)
      PROVE  WireConsistent'
  <2>1. call' \in [Calls -> Call]
    BY <1>0, <1>9 DEF Reject, TypeOK, Call, Idle
  <2>2. Rest
    BY <1>0, <1>9, <2>1 DEF Reject, TypeOK, server, sidebar
  <2> QED
    BY <1>9, <2>2, <1>a DEF Reject
<1>10. ASSUME NEW s \in Slots, Hear(s)
       PROVE  WireConsistent'
  <2>1. Rest /\ UNCHANGED <<link, follows, current, dms, frames, dmFrames>>
    BY <1>10, <1>b DEF Hear
  <2>2. heard' = heard \cup {s} /\ s = current /\ s # None
    BY <1>0, <1>10, SlotsAssumption DEF Hear, OneSubscription
  <2>3. TypeOK'
    BY <1>0, <2>1, <2>2 DEF TypeOK
  <2>4. OneSubscription' /\ LinkConsistent'
    BY <1>0, <2>1, <2>2 DEF OneSubscription, LinkConsistent
  <2> QED
    BY <2>3, <2>4 DEF WireConsistent
<1>11. CASE HearDms
  <2>1. Rest /\ UNCHANGED <<link, follows, current, heard, frames, dmFrames>>
    BY <1>11, <1>b DEF HearDms
  <2>2. TypeOK'
    BY <1>0, <1>11, <2>1 DEF HearDms, TypeOK
  <2>3. OneSubscription' /\ LinkConsistent'
    BY <1>0, <1>11, <2>1 DEF HearDms, OneSubscription, LinkConsistent
  <2> QED
    BY <2>2, <2>3 DEF WireConsistent
<1>12. CASE Connected
  <2>1. Rest /\ link' = "up" /\ dms' = "asked" /\ UNCHANGED dmFrames
    BY <1>12, <1>b DEF Connected
  <2>2. CASE open \in Rooms
    <3>1. Resubscribe(open)
      BY <1>12, <2>2 DEF Connected
    <3>2. /\ OneSubscription' /\ LinkConsistent'
          /\ follows' \in [Slots -> Rooms \cup {None}] /\ current' \in Slots \cup {None}
          /\ heard' \subseteq Slots /\ frames' \subseteq Slots \X Messages
      BY <2>1, <2>2, <3>1, ResubscribedWire
    <3> QED
      BY <1>0, <2>1, <3>2 DEF WireConsistent, TypeOK
  <2>3. CASE open \notin Rooms
    <3>1. UNCHANGED <<current, follows, heard, frames>>
      BY <1>12, <2>3 DEF Connected
    <3> QED
      BY <1>0, <2>1, <3>1 DEF WireConsistent, TypeOK, OneSubscription, LinkConsistent
  <2> QED
    BY <2>2, <2>3
<1>13. CASE LoseLink
  <2>1. /\ link' = "down" /\ dms' = "off" /\ dmFrames' = {}
        /\ follows' = [s \in Slots |-> None] /\ current' = None
        /\ heard' = {} /\ frames' = {}
    BY <1>13 DEF LoseLink
  <2>2. Rest
    BY <1>0, <1>13 DEF LoseLink, server, Unread, TypeOK
  <2>3. TypeOK'
    BY <2>1, <2>2 DEF TypeOK
  <2>4. OneSubscription' /\ LinkConsistent'
    BY <2>1 DEF OneSubscription, LinkConsistent
  <2> QED
    BY <2>3, <2>4 DEF WireConsistent
<1>14. ASSUME NEW m \in Messages,
              Send(m) \/ End(m, "stored") \/ End(m, "gone") \/ Drop(m) \/ DeleteMessage(m)
       PROVE  WireConsistent'
  <2>1. /\ row' \in [Messages -> {"new", "sending", "inserted", "stored", "gone"}]
        /\ UNCHANGED <<panel, session, sidebar, inRedis>>
    BY <1>0, <1>14 DEF Send, End, Drop, DeleteMessage, TypeOK
  <2>2. Rest
    BY <1>0, <2>1 DEF TypeOK, panel, sidebar
  <2> QED
    BY <2>1, <2>2, <1>a
<1>15. ASSUME NEW m \in Messages, Publish(m)
       PROVE  WireConsistent'
  <2>1. opening' \in {"calm", "plain", "rivalled"}
    BY <1>0, <1>15, DisturbedType DEF Publish
  <2>2. Rest
    BY <1>0, <1>15, <2>1 DEF Publish, TypeOK, sidebar
  <2> QED
    BY <1>15, <2>2, <1>a DEF Publish
<1>16. ASSUME NEW m \in Messages, Miss(m)
       PROVE  WireConsistent'
  <2>1. Rest
    BY <1>0, <1>16 DEF Miss, TypeOK, sidebar
  <2> QED
    BY <1>16, <2>1, <1>a DEF Miss
<1>17. ASSUME NEW m \in Messages, Broadcast(m)
       PROVE  WireConsistent'
  <2>1. opening' \in {"calm", "plain", "rivalled"}
    BY <1>0, <1>17, DisturbedType DEF Broadcast
  <2>2. Rest /\ UNCHANGED <<link, follows, current, dms, heard>>
    BY <1>0, <1>17, <2>1 DEF Broadcast, TypeOK, sidebar
  <2>3. /\ frames' \subseteq Slots \X Messages /\ dmFrames' \subseteq Messages
        /\ \A s \in Slots, x \in Messages : <<s, x>> \in frames' => s = current
    BY <1>0, <1>17 DEF Broadcast, TypeOK, LinkConsistent
  <2>4. link = "down" => frames' = {} /\ dmFrames' = {}
    BY <1>0, <1>17 DEF Broadcast, LinkConsistent
  <2>5. TypeOK'
    BY <1>0, <2>2, <2>3 DEF TypeOK
  <2>6. OneSubscription' /\ LinkConsistent'
    BY <1>0, <2>2, <2>3, <2>4 DEF OneSubscription, LinkConsistent
  <2> QED
    BY <2>5, <2>6 DEF WireConsistent
<1>18. ASSUME NEW m \in Messages, NEW s \in Slots, ReceiveRoomMessage(<<s, m>>)
       PROVE  WireConsistent'
  <2>1. shown' \in [Messages -> Nat]
    BY <1>0, <1>18, AppendType DEF ReceiveRoomMessage, TypeOK
  <2>2. Rest /\ UNCHANGED <<link, follows, current, dms, heard, dmFrames>>
    BY <1>0, <1>18, <2>1 DEF ReceiveRoomMessage, TypeOK, server, sidebar
  <2>3. frames' \subseteq frames
    BY <1>18 DEF ReceiveRoomMessage
  <2>4. TypeOK'
    BY <1>0, <2>2, <2>3 DEF TypeOK
  <2>5. OneSubscription' /\ LinkConsistent'
    BY <1>0, <2>2, <2>3 DEF OneSubscription, LinkConsistent
  <2> QED
    BY <2>4, <2>5 DEF WireConsistent
<1>19. ASSUME NEW m \in Messages, ReceiveDm(m)
       PROVE  WireConsistent'
  <2>1. shown' \in [Messages -> Nat]
    BY <1>0, <1>19, AppendType DEF ReceiveDm, TypeOK
  <2>2. unread' \in [People -> Nat] /\ badge' \in [People -> Nat] /\ dots' \subseteq People
    BY <1>0, <1>19 DEF ReceiveDm, ShowUnread, Unread, TypeOK
  <2>3. Rest /\ UNCHANGED <<link, follows, current, dms, heard, frames>>
    BY <1>0, <1>19, <2>1, <2>2 DEF ReceiveDm, TypeOK, server
  <2>4. dmFrames' \subseteq dmFrames
    BY <1>19 DEF ReceiveDm
  <2>5. TypeOK'
    BY <1>0, <2>3, <2>4 DEF TypeOK
  <2>6. OneSubscription' /\ LinkConsistent'
    BY <1>0, <2>3, <2>4 DEF OneSubscription, LinkConsistent
  <2> QED
    BY <2>5, <2>6 DEF WireConsistent
<1> QED
  BY <1>1, <1>2, <1>3, <1>4, <1>5, <1>6, <1>7, <1>8, <1>9, <1>10, <1>11, <1>12, <1>13,
     <1>14, <1>15, <1>16, <1>17, <1>18, <1>19
     DEF Next, Answer, Deliver

-------------------------------------------------------------------------------
(* The room that is followed.                                               *)

\* A call that goes on keeps its place.
LEMMA CallGoesOn ==
    ASSUME TypeOK, NEW c \in Calls, Joined(c) \/ ReadHistory(c) \/ RefuseHistory(c)
    PROVE  /\ UnderWay' = UnderWay /\ c \in UnderWay
           /\ \A d \in Calls : call'[d].place = call[d].place
           /\ \A d \in Calls \ {c} : call'[d] = call[d]
           /\ open' = open /\ shown' = shown /\ UNCHANGED <<server, session, sidebar>>
           /\ opening' # "rivalled" => opening # "rivalled"
           /\ opening' = "calm" => opening = "calm"
<1>1. /\ UnderWay' = UnderWay /\ c \in UnderWay
      /\ \A d \in Calls : call'[d].place = call[d].place
      /\ \A d \in Calls \ {c} : call'[d] = call[d]
  <2>1. CASE Joined(c) \/ RefuseHistory(c)
    BY <2>1 DEF TypeOK, Call, Joined, RefuseHistory, UnderWay
  <2>2. CASE ReadHistory(c)
    <3>1. PICK page \in SUBSET Messages :
              call' = [call EXCEPT ![c].step = "read", ![c].got = page]
      BY <2>2, PageRead
    <3>2. call[c].step = "asked"
      BY <2>2 DEF ReadHistory
    <3> QED
      BY <3>1, <3>2 DEF TypeOK, Call, UnderWay
  <2> QED
    BY <2>1, <2>2
<1>2. open' = open /\ shown' = shown /\ UNCHANGED <<server, session, sidebar>>
  BY DEF Joined, ReadHistory, RefuseHistory
<1>3. /\ opening' # "rivalled" => opening # "rivalled"
      /\ opening' = "calm" => opening = "calm"
  BY DisturbedType DEF Joined, ReadHistory, RefuseHistory
<1> QED
  BY <1>1, <1>2, <1>3

\* A call that ends leaves the others alone.
LEMMA CallEnds ==
    ASSUME TypeOK, NEW c \in Calls, ArriveHistory(c) \/ Reject(c)
    PROVE  /\ UnderWay' = UnderWay \ {c} /\ c \in UnderWay
           /\ \A d \in Calls \ {c} : call'[d] = call[d]
  BY DEF TypeOK, ArriveHistory, Reject, UnderWay, Idle

\* Every step keeps the room that was opened without a rival followed, or about
\* to be.
LEMMA OpeningStep ==
    ASSUME WireConsistent, OpeningConsistent, [Next]_vars
    PROVE  OpeningConsistent'
<1>0. TypeOK /\ OneSubscription /\ LinkConsistent
  BY DEF WireConsistent
<1>a. ASSUME UNCHANGED <<open, call, link, current, follows>>,
             opening' # "rivalled" => opening # "rivalled"
      PROVE  OpeningConsistent'
  BY <1>a DEF OpeningConsistent, UnderWay
<1>1. CASE UNCHANGED vars
  BY <1>1, <1>a DEF vars
<1>2. ASSUME NEW r \in Rooms, OpenRoom(r)
      PROVE  OpeningConsistent'
  <2>1. PICK step \in {"joining", "asked"} : Show(r, step)
    BY <1>2 DEF OpenRoom
  <2>2. PICK c \in Calls :
            /\ c \notin UnderWay
            /\ call' = [call EXCEPT ![c] = [place |-> r, step |-> step, got |-> {}]]
            /\ UnderWay' = UnderWay \cup {c}
    BY <1>0, <2>1, ShowEffect DEF Places
  <2>3. call'[c].place = r /\ \A d \in UnderWay : call'[d] = call[d]
    BY <1>0, <2>2 DEF TypeOK, UnderWay
  <2>4. open' = r
    BY <2>1 DEF Show
  <2>5. opening' # "rivalled" => \A d \in UnderWay : call[d].place \notin Rooms \ {r}
    BY <1>2 DEF OpenRoom, Opening
  <2> QED
    BY <2>2, <2>3, <2>4, <2>5 DEF OpeningConsistent
<1>3. ASSUME NEW p \in People, OpenDm(p, {p}) \/ OpenDm(p, People)
      PROVE  OpeningConsistent'
  <2>1. open' = p
    BY <1>3 DEF OpenDm, Show
  <2> QED
    BY <2>1, PlacesAssumption DEF OpeningConsistent
<1>4. CASE ShowDmTab \/ RenderDmSidebar \/ HearDms
  BY <1>4, <1>a DEF ShowDmTab, RenderDmSidebar, HearDms, panel, session
<1>5. ASSUME NEW c \in Calls, Joined(c) \/ ReadHistory(c) \/ RefuseHistory(c)
      PROVE  OpeningConsistent'
  BY <1>0, <1>5, CallGoesOn DEF OpeningConsistent, UnderWay, session
<1>6. ASSUME NEW c \in Calls, ArriveHistory(c)
      PROVE  OpeningConsistent'
  <2>1. /\ UnderWay' = UnderWay \ {c} /\ c \in UnderWay
        /\ \A d \in Calls \ {c} : call'[d] = call[d]
    BY <1>0, <1>6, CallEnds
  <2>2. UNCHANGED <<open, opening, link>>
    BY <1>6 DEF ArriveHistory
  <2>3. CASE call[c].place \in Rooms /\ link = "up"
    <3>1. Resubscribe(call[c].place)
      BY <1>6, <2>3 DEF ArriveHistory
    <3>2. current' # None /\ follows'[current'] = call[c].place
      BY <2>3, <3>1, ResubscribeEffect, SlotsAssumption
    <3> QED
      BY <2>1, <2>2, <2>3, <3>2 DEF OpeningConsistent, UnderWay
  <2>4. CASE link # "up"
    BY <2>1, <2>2, <2>4 DEF OpeningConsistent, UnderWay
  <2>5. CASE call[c].place \notin Rooms
    <3>1. UNCHANGED <<current, follows>>
      BY <1>6, <2>5 DEF ArriveHistory
    <3> QED
      BY <2>1, <2>2, <2>5, <3>1 DEF OpeningConsistent, UnderWay
  <2> QED
    BY <2>3, <2>4, <2>5
<1>7. ASSUME NEW c \in Calls, Reject(c)
      PROVE  OpeningConsistent'
  <2>1. /\ UnderWay' = UnderWay \ {c} /\ c \in UnderWay
        /\ \A d \in Calls \ {c} : call'[d] = call[d]
    BY <1>0, <1>7, CallEnds
  <2>2. UNCHANGED <<open, link, current, follows>>
    BY <1>7 DEF Reject, session
  <2>3. opening' # "rivalled" => opening # "rivalled" /\ call[c].place # open
    BY <1>7 DEF Reject
  <2> QED
    BY <2>1, <2>2, <2>3 DEF OpeningConsistent, UnderWay
<1>8. ASSUME NEW s \in Slots, Hear(s)
      PROVE  OpeningConsistent'
  BY <1>8, <1>a DEF Hear, panel
<1>9. CASE Connected
  <2>1. UNCHANGED <<open, call, opening>>
    BY <1>9 DEF Connected, panel
  <2>2. CASE open \in Rooms
    <3>1. Resubscribe(open)
      BY <1>9, <2>2 DEF Connected
    <3>2. current' # None /\ follows'[current'] = open
      BY <2>2, <3>1, ResubscribeEffect, SlotsAssumption
    <3> QED
      BY <2>1, <3>2 DEF OpeningConsistent, UnderWay
  <2>3. CASE open \notin Rooms
    BY <2>1, <2>3 DEF OpeningConsistent
  <2> QED
    BY <2>2, <2>3
<1>10. CASE LoseLink
  <2>1. link' = "down" /\ UNCHANGED <<open, call>>
    BY <1>10 DEF LoseLink
  <2>2. opening' # "rivalled" => opening # "rivalled"
    BY <1>10 DEF LoseLink
  <2> QED
    BY <2>1, <2>2 DEF OpeningConsistent, UnderWay
<1>11. ASSUME NEW m \in Messages,
              Send(m) \/ End(m, "stored") \/ End(m, "gone") \/ Drop(m) \/ DeleteMessage(m)
       PROVE  OpeningConsistent'
  BY <1>11, <1>a DEF Send, End, Drop, DeleteMessage, panel, session
<1>12. ASSUME NEW m \in Messages, Publish(m) \/ Broadcast(m)
       PROVE  OpeningConsistent'
  BY <1>0, <1>12, <1>a, DisturbedType DEF Publish, Broadcast, session
<1>13. ASSUME NEW m \in Messages, Miss(m)
       PROVE  OpeningConsistent'
  BY <1>13, <1>a DEF Miss, session
<1>14. ASSUME NEW m \in Messages, NEW s \in Slots, ReceiveRoomMessage(<<s, m>>)
       PROVE  OpeningConsistent'
  BY <1>14, <1>a DEF ReceiveRoomMessage
<1>15. ASSUME NEW m \in Messages, ReceiveDm(m)
       PROVE  OpeningConsistent'
  BY <1>15, <1>a DEF ReceiveDm
<1> QED
  BY <1>1, <1>2, <1>3, <1>4, <1>5, <1>6, <1>7, <1>8, <1>9, <1>10, <1>11, <1>12, <1>13,
     <1>14, <1>15
     DEF Next, Answer, Deliver

-------------------------------------------------------------------------------
(* Unread counts.                                                           *)

\* Every step keeps the counts, the badge and the dots together.
LEMMA UnreadStep ==
    ASSUME TypeOK, UnreadIsMarked, [Next]_vars
    PROVE  UnreadIsMarked'
<1>a. ASSUME UNCHANGED <<open, unread, badge>>, dots \subseteq dots' \/ dots' = Unread(unread)
      PROVE  UnreadIsMarked'
  BY <1>a DEF UnreadIsMarked, Unread
<1>1. CASE UNCHANGED vars
  BY <1>1, <1>a DEF vars
<1>2. ASSUME NEW r \in Rooms, OpenRoom(r)
      PROVE  UnreadIsMarked'
  <2>1. open' = r /\ UNCHANGED sidebar
    BY <1>2 DEF OpenRoom, Show
  <2> QED
    BY <2>1, PlacesAssumption DEF UnreadIsMarked, Unread, sidebar
<1>3. ASSUME NEW p \in People, OpenDm(p, {p}) \/ OpenDm(p, People)
      PROVE  UnreadIsMarked'
  <2>1. open' = p /\ unread'[p] = 0 /\ badge' = unread' /\ dots' = Unread(unread')
    BY <1>3 DEF OpenDm, Show, ShowUnread
  <2> QED
    BY <2>1 DEF UnreadIsMarked, Unread
<1>4. CASE ShowDmTab
  BY <1>4 DEF ShowDmTab, NothingUnread, UnreadIsMarked, Unread, panel
<1>5. CASE RenderDmSidebar
  BY <1>5, <1>a DEF RenderDmSidebar, panel
<1>6. ASSUME NEW c \in Calls, Answer(c)
      PROVE  UnreadIsMarked'
  <2>1. UNCHANGED <<open, sidebar>>
    BY <1>6 DEF Answer, Joined, ReadHistory, RefuseHistory, ArriveHistory, Reject
  <2> QED
    BY <2>1, <1>a DEF sidebar
<1>7. ASSUME NEW s \in Slots, Hear(s)
      PROVE  UnreadIsMarked'
  BY <1>7, <1>a DEF Hear, panel, sidebar
<1>8. CASE HearDms \/ Connected
  BY <1>8, <1>a DEF HearDms, Connected, panel, sidebar
<1>9. CASE LoseLink
  BY <1>9, <1>a DEF LoseLink
<1>10. ASSUME NEW m \in Messages,
              Send(m) \/ Publish(m) \/ End(m, "stored") \/ End(m, "gone") \/ Drop(m)
                  \/ DeleteMessage(m) \/ Broadcast(m) \/ Miss(m)
       PROVE  UnreadIsMarked'
  <2>1. UNCHANGED <<open, sidebar>>
    BY <1>10 DEF Send, Publish, End, Drop, DeleteMessage, Broadcast, Miss, panel
  <2> QED
    BY <2>1, <1>a DEF sidebar
<1>11. ASSUME NEW m \in Messages, NEW s \in Slots, ReceiveRoomMessage(<<s, m>>)
       PROVE  UnreadIsMarked'
  BY <1>11, <1>a DEF ReceiveRoomMessage, sidebar
<1>12. ASSUME NEW m \in Messages, ReceiveDm(m)
       PROVE  UnreadIsMarked'
  <2>1. CASE place[m] = open \/ m \in Mine
    BY <1>12, <2>1, <1>a DEF ReceiveDm
  <2>2. CASE place[m] # open /\ m \notin Mine
    <3>1. /\ unread' = [unread EXCEPT ![place[m]] = @ + 1] /\ badge' = unread'
          /\ dots' = Unread(unread') /\ UNCHANGED open
      BY <1>12, <2>2 DEF ReceiveDm, ShowUnread
    <3> QED
      BY <2>2, <3>1 DEF UnreadIsMarked, Unread, TypeOK
  <2> QED
    BY <2>1, <2>2
<1> QED
  BY <1>1, <1>2, <1>3, <1>4, <1>5, <1>6, <1>7, <1>8, <1>9, <1>10, <1>11, <1>12
     DEF Next, Deliver

-------------------------------------------------------------------------------
(* The panel.                                                               *)

\* A history holds messages of the place it was asked for.
LEMMA HistoryStep ==
    ASSUME TypeOK, HistoryConsistent, [Next]_vars
    PROVE  HistoryConsistent'
<1>a. ASSUME UNCHANGED call
      PROVE  HistoryConsistent'
  BY <1>a DEF HistoryConsistent, UnderWay
<1>b. ASSUME NEW n \in Places, NEW step \in {"joining", "asked"}, Show(n, step)
      PROVE  HistoryConsistent'
  <2>1. PICK c \in Calls :
            /\ c \notin UnderWay
            /\ call' = [call EXCEPT ![c] = [place |-> n, step |-> step, got |-> {}]]
            /\ UnderWay' = UnderWay \cup {c}
    BY <1>b, ShowEffect
  <2>2. call'[c].got = {} /\ \A d \in UnderWay : call'[d] = call[d]
    BY <2>1 DEF TypeOK, UnderWay
  <2> QED
    BY <2>1, <2>2 DEF HistoryConsistent
<1>1. CASE UNCHANGED vars
  BY <1>1, <1>a DEF vars
<1>2. ASSUME NEW r \in Rooms, OpenRoom(r)
      PROVE  HistoryConsistent'
  BY <1>2, <1>b DEF OpenRoom, Places
<1>3. ASSUME NEW p \in People, OpenDm(p, {p}) \/ OpenDm(p, People)
      PROVE  HistoryConsistent'
  BY <1>3, <1>b DEF OpenDm, Places
<1>4. ASSUME NEW c \in Calls, Joined(c) \/ RefuseHistory(c)
      PROVE  HistoryConsistent'
  <2>1. UnderWay' = UnderWay /\ \A d \in Calls : call'[d].place = call[d].place
    BY <1>4, CallGoesOn
  <2>2. \A d \in Calls : call'[d].got = call[d].got
    BY <1>4 DEF Joined, RefuseHistory, TypeOK, Call
  <2> QED
    BY <2>1, <2>2 DEF HistoryConsistent, UnderWay
<1>5. ASSUME NEW c \in Calls, ReadHistory(c)
      PROVE  HistoryConsistent'
  <2>1. /\ UnderWay' = UnderWay /\ \A d \in Calls : call'[d].place = call[d].place
        /\ \A d \in Calls \ {c} : call'[d] = call[d]
    BY <1>5, CallGoesOn
  <2>2. \A m \in call'[c].got : place[m] = call[c].place
    BY <1>5, PageRead
  <2> QED
    BY <2>1, <2>2 DEF HistoryConsistent, UnderWay
<1>6. ASSUME NEW c \in Calls, ArriveHistory(c) \/ Reject(c)
      PROVE  HistoryConsistent'
  BY <1>6, CallEnds DEF HistoryConsistent, UnderWay
<1>7. CASE ShowDmTab \/ RenderDmSidebar \/ HearDms \/ Connected \/ LoseLink
  BY <1>7, <1>a DEF ShowDmTab, RenderDmSidebar, HearDms, Connected, LoseLink, panel
<1>8. ASSUME NEW s \in Slots, Hear(s)
      PROVE  HistoryConsistent'
  BY <1>8, <1>a DEF Hear, panel
<1>9. ASSUME NEW m \in Messages,
             Send(m) \/ Publish(m) \/ End(m, "stored") \/ End(m, "gone") \/ Drop(m)
                 \/ DeleteMessage(m) \/ Broadcast(m) \/ Miss(m) \/ ReceiveDm(m)
      PROVE  HistoryConsistent'
  BY <1>9, <1>a DEF Send, Publish, End, Drop, DeleteMessage, Broadcast, Miss,
                     ReceiveDm, panel
<1>10. ASSUME NEW m \in Messages, NEW s \in Slots, ReceiveRoomMessage(<<s, m>>)
       PROVE  HistoryConsistent'
  BY <1>10, <1>a DEF ReceiveRoomMessage
<1> QED
  BY <1>1, <1>2, <1>3, <1>4, <1>5, <1>6, <1>7, <1>8, <1>9, <1>10 DEF Next, Answer, Deliver

\* What is shown and known of x stays what it was.
Kept(x) ==
    /\ shown'[x] = shown[x] /\ row'[x] = row[x]
    /\ x \in inRedis' <=> x \in inRedis
    /\ x \in dmFrames' <=> x \in dmFrames
    /\ \A s \in Slots : <<s, x>> \in frames' <=> <<s, x>> \in frames

\* What is off the page stays off it while nothing that is shown disappears.
LEMMA MoreShown ==
    ASSUME TypeOK, shown' \in [Messages -> Nat], NEW x,
           \A n \in Messages : shown'[n] >= shown[n],
           OffPage(x)
    PROVE  OffPage(x)'
<1>1. PICK page \in SUBSET {n \in Messages : place[n] = place[x] /\ shown[n] > 0} :
          PastPage(page, x)
  BY DEF OffPage
<1>2. page \in SUBSET {n \in Messages : place[n] = place[x] /\ shown'[n] > 0}
  BY DEF TypeOK
<1> QED
  BY <1>1, <1>2 DEF OffPage, PastPage

\* A step about one message, or none, keeps the calm of the others.
LEMMA OneMessage ==
    ASSUME CalmConsistent, NEW m, opening = "calm", UNCHANGED <<open, call>>,
           \A x \in Messages \ {m} : Kept(x),
           m \in Messages /\ place[m] # open => shown'[m] = 0,
           m \in Messages => shown'[m] >= shown[m], TypeOK, shown' \in [Messages -> Nat],
           m \in Messages /\ place[m] = open =>
               /\ \A c \in UnderWay : CallCalm(c, m)'
               /\ UnderWay = {} => PanelCalm(m)'
    PROVE  CalmConsistent'
<1>1. UnderWay' = UnderWay
  BY DEF UnderWay
<1>2. ASSUME NEW x \in Messages \ {m}
      PROVE  /\ PanelCalm(x) => PanelCalm(x)'
             /\ \A c \in UnderWay : CallCalm(c, x) => CallCalm(c, x)'
  <2>1. Moving(x)' <=> Moving(x)
    BY DEF Moving, Kept
  <2>2. OffPage(x) => OffPage(x)'
    BY MoreShown DEF Kept, TypeOK
  <2> QED
    BY <2>1, <2>2 DEF PanelCalm, CallCalm, PastPage, Kept
<1>3. \A x \in Messages \ {m} : shown'[x] = shown[x]
  BY DEF Kept
<1> QED
  BY <1>1, <1>2, <1>3 DEF CalmConsistent

\* A calm opening starts from an empty panel with nothing on its way.
LEMMA CalmShow ==
    ASSUME TypeOK, NEW n \in Places, NEW step \in {"joining", "asked"}, Show(n, step),
           UnderWay = {}, frames = {}, dmFrames = {}, inRedis = {},
           UNCHANGED <<frames, dmFrames, inRedis>>
    PROVE  CalmConsistent'
<1>1. PICK c \in Calls :
          /\ call' = [call EXCEPT ![c] = [place |-> n, step |-> step, got |-> {}]]
          /\ UnderWay' = UnderWay \cup {c}
  BY ShowEffect
<1>2. call'[c].place = n /\ call'[c].step # "read"
  BY <1>1 DEF TypeOK
<1>3. open' = n /\ \A m \in Messages : shown'[m] = 0 /\ ~Moving(m)'
  BY DEF Show, Moving
<1> QED
  BY <1>1, <1>2, <1>3 DEF CalmConsistent, CallCalm

\* Every step keeps a calm opening on its way to the right panel.
LEMMA CalmStep ==
    ASSUME WireConsistent, HistoryConsistent, CalmConsistent, [Next]_vars
    PROVE  CalmConsistent'
<1>0. TypeOK /\ OneSubscription /\ LinkConsistent
  BY DEF WireConsistent
<1> SUFFICES ASSUME opening' = "calm"
             PROVE  CalmConsistent'
  BY DEF CalmConsistent
<1>a. ASSUME opening = "calm", UNCHANGED <<open, shown, call, frames, dmFrames, inRedis, row>>
      PROVE  CalmConsistent'
  BY <1>a DEF CalmConsistent, UnderWay, CallCalm, PanelCalm, Moving, OffPage, PastPage
<1>b. ASSUME opening = "calm"
      PROVE  /\ \A c \in UnderWay : call[c].place = open
             /\ \A c, d \in UnderWay : c = d
             /\ \A m \in Messages : place[m] # open => shown[m] = 0
             /\ \A m \in Messages : place[m] = open =>
                   /\ \A c \in UnderWay : CallCalm(c, m)
                   /\ UnderWay = {} => PanelCalm(m)
  BY <1>b DEF CalmConsistent
<1>c. shown' \in [Messages -> Nat]
  BY WireStep DEF WireConsistent, TypeOK
<1>1. CASE UNCHANGED vars
  BY <1>1, <1>a DEF vars
<1>2. ASSUME NEW r \in Rooms, OpenRoom(r)
      PROVE  CalmConsistent'
  <2>1. UnderWay = {} /\ frames = {} /\ dmFrames = {} /\ inRedis = {}
    BY <1>2 DEF OpenRoom, Opening
  <2>2. PICK step \in {"joining", "asked"} : Show(r, step)
    BY <1>2 DEF OpenRoom
  <2> QED
    BY <1>0, <1>2, <2>1, <2>2, CalmShow DEF OpenRoom, server, session, Places
<1>3. ASSUME NEW p \in People, OpenDm(p, {p}) \/ OpenDm(p, People)
      PROVE  CalmConsistent'
  <2>1. UnderWay = {} /\ frames = {} /\ dmFrames = {} /\ inRedis = {}
    BY <1>3 DEF OpenDm, Opening
  <2>2. Show(p, "asked")
    BY <1>3 DEF OpenDm
  <2> QED
    BY <1>0, <1>3, <2>1, <2>2, CalmShow DEF OpenDm, server, session, Places
<1>4. CASE ShowDmTab \/ RenderDmSidebar \/ HearDms
  BY <1>4, <1>a DEF ShowDmTab, RenderDmSidebar, HearDms, panel, session, server
<1>5. ASSUME NEW c \in Calls, Joined(c)
      PROVE  CalmConsistent'
  <2>1. /\ UnderWay' = UnderWay /\ c \in UnderWay /\ open' = open /\ opening = "calm"
        /\ \A d \in Calls : call'[d].place = call[d].place
        /\ \A d \in Calls \ {c} : call'[d] = call[d]
        /\ shown' = shown /\ UNCHANGED <<row, inRedis, dmFrames, frames>>
    BY <1>0, <1>5, CallGoesOn DEF server, session
  <2>2. call'[c].step # "read"
    BY <1>0, <1>5 DEF Joined, TypeOK
  <2>3. \A m \in Messages : Moving(m)' <=> Moving(m)
    BY <2>1 DEF Moving
  <2> QED
    BY <1>b, <2>1, <2>2, <2>3 DEF CalmConsistent, CallCalm, PastPage, UnderWay
<1>6. ASSUME NEW c \in Calls, ReadHistory(c)
      PROVE  CalmConsistent'
  <2>1. /\ UnderWay' = UnderWay /\ c \in UnderWay /\ open' = open /\ opening = "calm"
        /\ \A d \in Calls : call'[d].place = call[d].place
        /\ \A d \in Calls \ {c} : call'[d] = call[d]
        /\ shown' = shown /\ UNCHANGED <<row, inRedis, dmFrames, frames>>
    BY <1>0, <1>6, CallGoesOn DEF server, session
  <2>2. call[c].place = open
    BY <1>b, <2>1
  <2>3. \A m \in Messages : place[m] = open => row[m] # "inserted"
    BY <1>0, <1>6, <2>1, <2>2, DisturbedType DEF ReadHistory, Following
  <2>4. \A m \in Messages : place[m] = open =>
            /\ m \in call'[c].got => row[m] = "stored"
            /\ row[m] = "stored" => m \in call'[c].got \/ PastPage(call'[c].got, m)
    <3> DEFINE stored == {m \in Messages : place[m] = call[c].place /\ row[m] = "stored"}
    <3>1. PICK page \in SUBSET stored :
              /\ call'[c].got = page
              /\ \A m \in stored \ page : PastPage(page, m)
      BY <1>0, <1>6, PageRead
    <3>2. \A m \in Messages : place[m] = open => (m \in stored <=> row[m] = "stored")
      BY <2>2
    <3> HIDE DEF stored
    <3>3. \A m \in page : m \in stored
      OBVIOUS
    <3> QED
      BY <3>1, <3>2, <3>3
  <2>5. \A m \in Messages : Moving(m)' <=> Moving(m)
    BY <2>1 DEF Moving
  <2> QED
    BY <1>b, <2>1, <2>2, <2>3, <2>4, <2>5 DEF CalmConsistent, CallCalm, PastPage, UnderWay
<1>7. ASSUME NEW c \in Calls, RefuseHistory(c)
      PROVE  CalmConsistent'
  <2>1. c \in UnderWay /\ opening = "calm"
    BY <1>0, <1>7, CallGoesOn
  <2>2. call[c].place = open
    BY <1>b, <2>1
  <2> QED
    BY <1>0, <1>7, <2>1, <2>2, DisturbedType DEF RefuseHistory, Following
<1>8. ASSUME NEW c \in Calls, ArriveHistory(c)
      PROVE  CalmConsistent'
  <2>1. UnderWay' = UnderWay \ {c} /\ c \in UnderWay
    BY <1>0, <1>8, CallEnds
  <2>2. /\ opening = "calm" /\ open' = open /\ call[c].step = "read"
        /\ shown' = Append(call[c].got) /\ UNCHANGED <<row, inRedis, dmFrames>>
    BY <1>8 DEF ArriveHistory, server
  <2>3. UnderWay' = {} /\ call[c].place = open
    BY <1>b, <2>1, <2>2
  <2>4. frames' \subseteq frames
    BY <1>8 DEF ArriveHistory, Resubscribe
  <2>5. \A m \in Messages : shown'[m] = shown[m] + IF m \in call[c].got THEN 1 ELSE 0
    BY <2>2 DEF Append
  <2>6. ASSUME NEW m \in Messages, place[m] # open
        PROVE  shown'[m] = 0
    BY <1>b, <2>1, <2>2, <2>3, <2>5, <2>6 DEF HistoryConsistent
  <2>7. ASSUME NEW m \in Messages, place[m] = open
        PROVE  PanelCalm(m)'
    <3>1. CallCalm(c, m)
      BY <1>b, <2>1, <2>2, <2>7
    <3>2. shown'[m] = (IF m \in call[c].got THEN 1 ELSE 0) /\ row'[m] = row[m]
      BY <2>2, <2>5, <3>1 DEF CallCalm
    <3>3. ~Moving(m)'
      BY <2>2, <2>4, <3>1 DEF CallCalm, Moving
    <3>4. row[m] # "inserted" /\ (m \in call[c].got => row[m] \notin {"new", "sending"})
      BY <2>2, <3>1 DEF CallCalm
    <3>5. row[m] = "stored" => m \in call[c].got \/ OffPage(m)'
      <4>1. SUFFICES ASSUME PastPage(call[c].got, m) PROVE OffPage(m)'
        BY <2>2, <3>1 DEF CallCalm
      <4>2. call[c].got \subseteq Messages /\ \A n \in call[c].got : place[n] = place[m]
        BY <1>0, <2>1, <2>3, <2>7 DEF HistoryConsistent, TypeOK, Call
      <4>3. \A n \in call[c].got : shown'[n] > 0
        BY <1>0, <2>5, <4>2 DEF TypeOK
      <4> QED
        BY <4>1, <4>2, <4>3 DEF OffPage, PastPage
    <3> QED
      BY <3>2, <3>3, <3>4, <3>5 DEF PanelCalm, Moving
  <2> QED
    BY <2>2, <2>3, <2>6, <2>7 DEF CalmConsistent
<1>9. ASSUME NEW c \in Calls, Reject(c)
      PROVE  CalmConsistent'
  BY <1>0, <1>9, <1>b, CallEnds DEF Reject
<1>10. ASSUME NEW s \in Slots, Hear(s)
       PROVE  CalmConsistent'
  BY <1>10, <1>a DEF Hear, panel, server
<1>11. CASE Connected
  <2>1. frames' = frames
    <3>1. link = "down" /\ frames = {}
      BY <1>0, <1>11 DEF Connected, LinkConsistent
    <3> QED
      BY <1>11, <3>1 DEF Connected, Resubscribe
  <2> QED
    BY <1>11, <2>1, <1>a DEF Connected, panel, server
<1>12. CASE LoseLink
  BY <1>12 DEF LoseLink
<1>13. ASSUME NEW m \in Messages,
              Send(m) \/ End(m, "stored") \/ End(m, "gone") \/ Drop(m) \/ DeleteMessage(m)
       PROVE  CalmConsistent'
  <2>1. UNCHANGED <<open, shown, call, opening, frames, dmFrames, inRedis>>
    BY <1>13 DEF Send, End, Drop, DeleteMessage, panel, session
  <2>2. /\ \A x \in Messages \ {m} : row'[x] = row[x]
        /\ \/ row[m] = "new" /\ row'[m] = "sending"
           \/ row[m] = "inserted" /\ row'[m] \in {"stored", "gone"}
           \/ row[m] = "stored" /\ row'[m] = "gone"
           \/ row[m] = "sending" /\ row'[m] = "gone"
    BY <1>0, <1>13 DEF Send, Sendable, End, Drop, DeleteMessage, TypeOK
  <2>3. \A x \in Messages \ {m} : Kept(x)
    BY <2>1, <2>2 DEF Kept
  <2>4. Moving(m)' <=> Moving(m)
    BY <2>1 DEF Moving
  <2>5. place[m] = open =>
            /\ \A c \in UnderWay : CallCalm(c, m)'
            /\ UnderWay = {} => PanelCalm(m)'
    BY <1>b, <2>1, <2>2, <2>4 DEF CallCalm, PanelCalm, PastPage
  <2>9. \A x \in Messages : shown'[x] >= shown[x]
    BY <1>0, <2>1 DEF TypeOK
  <2> QED
    BY <1>0, <1>b, <1>c, <2>1, <2>3, <2>5, <2>9, OneMessage
<1>14. ASSUME NEW m \in Messages, Publish(m)
       PROVE  CalmConsistent'
  <2>1. /\ opening = "calm" /\ UNCHANGED <<open, shown, call, frames, dmFrames>>
        /\ inRedis' = inRedis \cup {m} /\ row' = [row EXCEPT ![m] = "inserted"]
        /\ row[m] \in {"new", "sending"}
    BY <1>0, <1>14, DisturbedType DEF Publish, session
  <2>2. \A x \in Messages \ {m} : Kept(x)
    BY <1>0, <2>1 DEF Kept, TypeOK
  <2>3. ASSUME place[m] = open
        PROVE  UnderWay = {} /\ PanelCalm(m)'
    <3>1. UnderWay = {}
      BY <1>0, <1>14, <2>3, DisturbedType DEF Publish, Following
    <3>2. shown[m] = 0 /\ ~Moving(m)
      BY <1>b, <2>1, <2>3, <3>1 DEF PanelCalm
    <3>3. shown'[m] = 0 /\ row'[m] = "inserted" /\ m \in inRedis' /\ m \notin dmFrames'
      BY <1>0, <2>1, <3>2 DEF Moving, TypeOK
    <3>4. \A s \in Slots : <<s, m>> \notin frames'
      BY <2>1, <3>2 DEF Moving
    <3> QED
      BY <3>1, <3>3, <3>4 DEF PanelCalm, Moving
  <2>9. \A x \in Messages : shown'[x] >= shown[x]
    BY <1>0, <2>1 DEF TypeOK
  <2> QED
    BY <1>0, <1>b, <1>c, <2>1, <2>2, <2>3, <2>9, OneMessage
<1>15. ASSUME NEW m \in Messages, Miss(m)
       PROVE  CalmConsistent'
  <2>1. /\ opening = "calm" /\ place[m] # open
        /\ UNCHANGED <<open, shown, call, row, frames, dmFrames>> /\ inRedis' = inRedis \ {m}
    BY <1>15 DEF Miss, session
  <2>2. \A x \in Messages \ {m} : Kept(x)
    BY <2>1 DEF Kept
  <2>9. \A x \in Messages : shown'[x] >= shown[x]
    BY <1>0, <2>1 DEF TypeOK
  <2> QED
    BY <1>0, <1>b, <1>c, <2>1, <2>2, <2>9, OneMessage
<1>16. ASSUME NEW m \in Messages, Broadcast(m)
       PROVE  CalmConsistent'
  <2>1. /\ opening = "calm" /\ UNCHANGED <<open, shown, call, row>>
        /\ m \in inRedis /\ inRedis' = inRedis \ {m}
    BY <1>0, <1>16, DisturbedType DEF Broadcast
  <2>2. frames' = frames \cup {<<s, m>> : s \in {t \in heard : follows[t] = place[m]}}
    BY <1>16 DEF Broadcast
  <2>3. dmFrames' = IF place[m] \in People /\ dms = "heard" THEN dmFrames \cup {m} ELSE dmFrames
    BY <1>16 DEF Broadcast
  <2>4. \A x \in Messages \ {m} : Kept(x)
    BY <2>1, <2>2, <2>3 DEF Kept
  <2>5. ASSUME place[m] = open
        PROVE  UnderWay = {} /\ PanelCalm(m)'
    <3>1. Following(open)
      BY <1>0, <1>16, <2>5, DisturbedType DEF Broadcast
    <3>2. UnderWay = {} /\ PanelCalm(m)
      BY <1>b, <2>1, <2>5, <3>1 DEF Following
    <3>3. /\ shown[m] = 0 /\ m \notin dmFrames
          /\ \A s \in Slots : <<s, m>> \notin frames
      BY <1>0, <2>1, <3>2 DEF PanelCalm, Moving, TypeOK
    <3>4. CASE open \in People
      <4>1. dms = "heard"
        BY <3>1, <3>4, PlacesAssumption DEF Following
      <4>2. \A t \in heard : follows[t] # place[m]
        BY <1>0, <2>5, <3>4, PlacesAssumption DEF TypeOK
      <4>3. dmFrames' = dmFrames \cup {m} /\ frames' = frames
        BY <2>2, <2>3, <2>5, <3>4, <4>1, <4>2
      <4> QED
        BY <2>1, <3>2, <3>3, <4>3 DEF PanelCalm, Moving
    <3>5. CASE open \in Rooms
      <4>1. PICK s \in heard : follows[s] = open
        BY <3>1, <3>5, PlacesAssumption DEF Following
      <4>2. dmFrames' = dmFrames
        BY <2>3, <2>5, <3>5, PlacesAssumption
      <4>3. s \in Slots /\ <<s, m>> \in frames'
        BY <1>0, <2>2, <2>5, <4>1 DEF TypeOK
      <4> QED
        BY <2>1, <3>2, <3>3, <4>2, <4>3 DEF PanelCalm, Moving
    <3>6. open \in Places
      BY <2>5, MessagesAssumption DEF Places
    <3> QED
      BY <3>2, <3>4, <3>5, <3>6 DEF Places
  <2>9. \A x \in Messages : shown'[x] >= shown[x]
    BY <1>0, <2>1 DEF TypeOK
  <2> QED
    BY <1>0, <1>b, <1>c, <2>1, <2>4, <2>5, <2>9, OneMessage
<1>17. ASSUME NEW m \in Messages, NEW s \in Slots, ReceiveRoomMessage(<<s, m>>)
       PROVE  CalmConsistent'
  <2>1. /\ opening = "calm" /\ UNCHANGED <<open, call, row, inRedis, dmFrames>>
        /\ <<s, m>> \in frames /\ frames' = frames \ {<<s, m>>}
        /\ shown' = IF place[m] = open THEN Append({m}) ELSE shown
    BY <1>17 DEF ReceiveRoomMessage, server
  <2>2. \A x \in Messages \ {m} : shown'[x] = shown[x]
    BY <1>0, <2>1 DEF Append, TypeOK
  <2>3. \A x \in Messages \ {m} : Kept(x)
    BY <2>1, <2>2 DEF Kept
  <2>4. ASSUME place[m] = open
        PROVE  UnderWay = {} /\ PanelCalm(m)'
    <3>1. Moving(m)
      BY <2>1 DEF Moving
    <3>2. UnderWay = {} /\ PanelCalm(m)
      BY <1>b, <2>1, <2>4, <3>1 DEF CallCalm
    <3>3. shown[m] = 0 /\ m \notin inRedis \cup dmFrames
      BY <1>0, <2>1, <3>1, <3>2 DEF PanelCalm, TypeOK
    <3>4. \A t \in Slots : <<t, m>> \notin frames'
      BY <1>0, <2>1 DEF LinkConsistent
    <3>5. shown'[m] = 1
      BY <2>1, <2>4, <3>3 DEF Append
    <3>6. row'[m] \notin {"new", "sending"} /\ m \notin inRedis' /\ m \notin dmFrames'
      BY <2>1, <3>1, <3>2, <3>3 DEF PanelCalm
    <3>7. ~Moving(m)' /\ m \notin inRedis' /\ m \notin dmFrames'
      BY <3>4, <3>5, <3>6 DEF Moving
    <3>8. PanelCalm(m)'
      BY <3>5, <3>6, <3>7 DEF PanelCalm
    <3> QED
      BY <3>2, <3>8
  <2>5. place[m] # open => shown'[m] = 0
    BY <1>b, <2>1
  <2>9. \A x \in Messages : shown'[x] >= shown[x]
    BY <1>0, <2>1 DEF Append, TypeOK
  <2> QED
    BY <1>0, <1>c, <2>1, <2>3, <2>4, <2>5, <2>9, OneMessage
<1>18. ASSUME NEW m \in Messages, ReceiveDm(m)
       PROVE  CalmConsistent'
  <2>1. /\ opening = "calm" /\ UNCHANGED <<open, call, row, inRedis, frames>>
        /\ m \in dmFrames /\ dmFrames' = dmFrames \ {m}
        /\ shown' = IF place[m] = open THEN Append({m}) ELSE shown
    BY <1>18 DEF ReceiveDm, server
  <2>2. \A x \in Messages \ {m} : shown'[x] = shown[x]
    BY <1>0, <2>1 DEF Append, TypeOK
  <2>3. \A x \in Messages \ {m} : Kept(x)
    BY <2>1, <2>2 DEF Kept
  <2>4. ASSUME place[m] = open
        PROVE  UnderWay = {} /\ PanelCalm(m)'
    <3>1. Moving(m)
      BY <2>1 DEF Moving
    <3>2. UnderWay = {} /\ PanelCalm(m)
      BY <1>b, <2>1, <2>4, <3>1 DEF CallCalm
    <3>3. shown[m] = 0 /\ m \notin inRedis /\ \A t \in Slots : <<t, m>> \notin frames
      BY <1>0, <2>1, <3>1, <3>2 DEF PanelCalm, TypeOK
    <3>4. shown'[m] = 1
      BY <2>1, <2>4, <3>3 DEF Append
    <3>5. row'[m] \notin {"new", "sending"} /\ m \notin inRedis' /\ m \notin dmFrames'
      BY <2>1, <3>1, <3>2, <3>3 DEF PanelCalm
    <3>6. \A t \in Slots : <<t, m>> \notin frames'
      BY <2>1, <3>3
    <3>7. ~Moving(m)' /\ m \notin inRedis' /\ m \notin dmFrames'
      BY <3>4, <3>5, <3>6 DEF Moving
    <3>8. PanelCalm(m)'
      BY <3>4, <3>5, <3>7 DEF PanelCalm
    <3> QED
      BY <3>2, <3>8
  <2>5. place[m] # open => shown'[m] = 0
    BY <1>b, <2>1
  <2>9. \A x \in Messages : shown'[x] >= shown[x]
    BY <1>0, <2>1 DEF Append, TypeOK
  <2> QED
    BY <1>0, <1>c, <2>1, <2>3, <2>4, <2>5, <2>9, OneMessage
<1> QED
  BY <1>1, <1>2, <1>3, <1>4, <1>5, <1>6, <1>7, <1>8, <1>9, <1>10, <1>11, <1>12, <1>13,
     <1>14, <1>15, <1>16, <1>17, <1>18
     DEF Next, Answer, Deliver

-------------------------------------------------------------------------------

\* A page with nothing open is consistent.
LEMMA PageInit == Init => PageConsistent
<1> SUFFICES ASSUME Init PROVE PageConsistent
  OBVIOUS
<1>1. TypeOK
  BY DEF Init, TypeOK, Idle, Call, NothingUnread
<1>2. UnderWay = {}
  BY DEF Init, UnderWay, Idle
<1>3. OneSubscription /\ LinkConsistent
  BY DEF Init, OneSubscription, LinkConsistent
<1>4. OpeningConsistent /\ HistoryConsistent
  BY <1>2, PlacesAssumption DEF Init, OpeningConsistent, HistoryConsistent
<1>5. CalmConsistent
  <2>1. \A m \in Messages : place[m] # open /\ shown[m] = 0
    BY PlacesAssumption, MessagesAssumption DEF Init
  <2> QED
    BY <1>2, <2>1 DEF CalmConsistent
<1>6. UnreadIsMarked
  BY PlacesAssumption DEF Init, UnreadIsMarked, NothingUnread, Unread
<1> QED
  BY <1>1, <1>3, <1>4, <1>5, <1>6 DEF PageConsistent

\* Every step keeps the page consistent.
LEMMA PageStep ==
    ASSUME PageConsistent, [Next]_vars
    PROVE  PageConsistent'
<1>1. WireConsistent
  BY DEF PageConsistent, WireConsistent
<1>2. WireConsistent' /\ OpeningConsistent' /\ HistoryConsistent' /\ CalmConsistent'
          /\ UnreadIsMarked'
  BY <1>1, WireStep, OpeningStep, HistoryStep, CalmStep, UnreadStep DEF PageConsistent
<1> QED
  BY <1>2 DEF PageConsistent, WireConsistent

\* The inductive invariant: the open place, the calls, the connection, the
\* messages on their way and the panel agree.
THEOREM AlwaysConsistent == Spec => []PageConsistent
<1>1. Init => PageConsistent
  BY PageInit
<1>2. PageConsistent /\ [Next]_vars => PageConsistent'
  BY PageStep
<1> QED
  BY <1>1, <1>2, PTL DEF Spec

\* Every variable of the page keeps its type.
THEOREM TypeCorrect == Spec => []TypeOK
<1>1. PageConsistent => TypeOK
  BY DEF PageConsistent
<1> QED
  BY <1>1, AlwaysConsistent, PTL

\* The page holds one room subscription at most, and can cancel it.
THEOREM NeverTwoSubscriptions == Spec => []OneSubscription
<1>1. PageConsistent => OneSubscription
  BY DEF PageConsistent
<1> QED
  BY <1>1, AlwaysConsistent, PTL

\* A room that was opened without a rival is followed.
THEOREM FollowsWithoutRival == Spec => []UnrivalledIsFollowed
<1>1. PageConsistent => UnrivalledIsFollowed
  BY DEF PageConsistent, OpeningConsistent, UnrivalledIsFollowed
<1> QED
  BY <1>1, AlwaysConsistent, PTL

\* An undisturbed opening ends in a panel that is exact, up to the page: what is
\* missing comes after PageSize shown messages, whatever arrived since.
THEOREM CalmPanelsAreExact == Spec => []CalmPanelExact
<1>1. PageConsistent => CalmPanelExact
  BY DEF PageConsistent, CalmConsistent, CalmPanelExact, PanelCalm, Moving, TypeOK
<1> QED
  BY <1>1, AlwaysConsistent, PTL

\* Counts, badge and dots of the unread direct messages agree.
THEOREM UnreadStaysMarked == Spec => []UnreadIsMarked
<1>1. PageConsistent => UnreadIsMarked
  BY DEF PageConsistent
<1> QED
  BY <1>1, AlwaysConsistent, PTL

===============================================================================
