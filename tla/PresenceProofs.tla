--------------------------- MODULE PresenceProofs ---------------------------
(***************************************************************************)
(* The presence set, kicks and wake-ups of a device, for any number of     *)
(* sockets and tickets and any times to live.                              *)
(***************************************************************************)
EXTENDS Presence, TLAPS

LEMMA InitStep == Init => PresenceInv
<1> SUFFICES ASSUME Init PROVE PresenceInv
  OBVIOUS
<1> USE PresenceAssumption DEF Init
<1>0. KeyTtl + SetTtl \in Nat /\ 0 \in 0 .. KeyTtl + SetTtl /\ 0 \in 0 .. SetTtl - 1
  OBVIOUS
<1>1. TypeOK
  BY <1>0 DEF TypeOK, Bound, Oldest
<1>2. PresenceIsExplained /\ OpenIsPresent /\ StepInv /\ AgeInv /\ KickInv
  BY DEF PresenceIsExplained, OpenIsPresent, StepInv, AgeInv, KickInv
<1>3. ReachInv
  BY DEF ReachInv, Listening
<1> QED
  BY <1>1, <1>2, <1>3 DEF PresenceInv

\* What the next place of a handler does to its variables, and to no other's.
LEMMA GoStep ==
  ASSUME TypeOK, NEW s \in Socket, NEW to \in {"none", "open", "checked"} \cup Bound, Go(s, to)
  PROVE  /\ step' \in [Socket -> {"none", "open", "checked"} \cup Bound]
         /\ with' \in [Socket -> Ticket \cup {None}]
         /\ step'[s] = to /\ \A r \in Socket \ {s} : step'[r] = step[r]
  BY DEF Go, TypeOK

\* What is left of the presence set has the age it had.
LEMMA PresentStep ==
  ASSUME TypeOK, NEW S \in SUBSET entries, Present(S)
  PROVE  /\ entries' = S /\ ghosts' = ghosts \cap S /\ keyless' = keyless \cap S
         /\ setAge' \in 0 .. SetTtl - 1 /\ setAge' \in {0, setAge} /\ (S # {} => setAge' = setAge)
         /\ lasting' \in BOOLEAN /\ (lasting' => lasting)
         /\ age' \in [Socket -> 0 .. Oldest]
         /\ \A r \in S \cup (up \ unlisted) : age'[r] = age[r]
<1> USE PresenceAssumption
<1>1. /\ entries' = S /\ ghosts' = ghosts \cap S /\ keyless' = keyless \cap S
      /\ setAge' \in 0 .. SetTtl - 1 /\ setAge' \in {0, setAge} /\ (S # {} => setAge' = setAge)
  BY DEF Present, TypeOK
<1>2. lasting' \in BOOLEAN /\ (lasting' => lasting)
  BY Zenon DEF Present
<1>3. /\ age' \in [Socket -> 0 .. Oldest]
      /\ \A r \in S \cup (up \ unlisted) : age'[r] = age[r]
  <2>1. 0 \in 0 .. Oldest
    BY DEF Oldest
  <2> QED
    BY <2>1 DEF Present, TypeOK
<1> QED
  BY <1>1, <1>2, <1>3

\* Every step of the handlers, of Redis and of the job keeps the invariant.
LEMMA NextStep == PresenceInv /\ [Next]_vars => PresenceInv'
<1> SUFFICES ASSUME PresenceInv, [Next]_vars PROVE PresenceInv'
  OBVIOUS
<1> USE PresenceAssumption
<1> USE DEF PresenceInv, TypeOK, PresenceIsExplained, OpenIsPresent, StepInv, AgeInv, KickInv,
            ReachInv, Bound, Oldest, Listening, account, sockets, redis, push, past
<1>1. ASSUME NEW t \in Ticket, CreateSocketTicket(t) PROVE PresenceInv'
  BY <1>1 DEF CreateSocketTicket
<1>2. ASSUME NEW s \in Socket, Connect(s) PROVE PresenceInv'
  BY <1>2 DEF Connect
<1>3. ASSUME NEW s \in Socket, CheckTicket(s) PROVE PresenceInv'
  BY <1>3, GoStep DEF CheckTicket
<1>4. ASSUME NEW s \in Socket, ConsumeTicket(s) PROVE PresenceInv'
  <2>1. /\ step[s] = "checked" /\ step'[s] = "joined"
        /\ step' \in [Socket -> {"none", "open", "checked"} \cup Bound]
        /\ with' \in [Socket -> Ticket \cup {None}]
        /\ \A r \in Socket \ {s} : step'[r] = step[r]
    BY <1>4, GoStep DEF ConsumeTicket
  <2>2. ticket' \subseteq Ticket /\ reached' \in BOOLEAN
    BY <1>4 DEF ConsumeTicket
  <2>3. TypeOK' /\ PresenceIsExplained' /\ OpenIsPresent' /\ StepInv' /\ AgeInv' /\ KickInv'
    BY <1>4, <2>1, <2>2 DEF ConsumeTicket
  <2>4. /\ reached => reached'
        /\ s \in up /\ job # "none" => reached'
    BY <1>4, Zenon DEF ConsumeTicket
  <2>5. Listening' \subseteq Listening \cup ({s} \cap up) /\ job' = job
    BY <1>4, <2>1 DEF ConsumeTicket
  <2>6. ReachInv'
    BY <2>4, <2>5
  <2> QED
    BY <2>3, <2>6
<1>5. ASSUME NEW s \in Socket, Register(s) PROVE PresenceInv'
  <2>1. /\ step[s] = "joined" /\ step'[s] = "pruning"
        /\ step' \in [Socket -> {"none", "open", "checked"} \cup Bound]
        /\ with' \in [Socket -> Ticket \cup {None}]
        /\ \A r \in Socket \ {s} : step'[r] = step[r]
    BY <1>5, GoStep DEF Register
  <2>2. /\ age' \in [Socket -> 0 .. Oldest] /\ age'[s] = 0
        /\ \A r \in Socket \ {s} : age'[r] = age[r]
    BY <1>5 DEF Register
  <2> HIDE DEF Oldest
  <2>3. lasting' \in BOOLEAN /\ ~lasting'
    BY <1>5, Zenon DEF Register
  <2>4. TypeOK'
    BY <1>5, <2>1, <2>2, <2>3 DEF Register
  <2>5. PresenceIsExplained' /\ KickInv' /\ ReachInv'
    BY <1>5, <2>1 DEF Register
  <2>6. OpenIsPresent' /\ StepInv'
    BY <1>5, <2>1, <2>2 DEF Register
  <2>7. AgeInv'
    BY <1>5, <2>1, <2>2, <2>3 DEF Register
  <2> QED
    BY <2>4, <2>6, <2>7, <2>5
<1>6. ASSUME NEW s \in Socket, RegisterFails(s) PROVE PresenceInv'
  <2>1. /\ step[s] = "joined" /\ step'[s] = "pruning"
        /\ step' \in [Socket -> {"none", "open", "checked"} \cup Bound]
        /\ with' \in [Socket -> Ticket \cup {None}]
        /\ \A r \in Socket \ {s} : step'[r] = step[r]
    BY <1>6, GoStep DEF RegisterFails
  <2>2. PICK added, renewed, keyed \in BOOLEAN :
          LET new == IF added THEN {s} ELSE {} IN
          /\ entries' = entries \cup new
          /\ ghosts' = IF s \in up \cup leaving THEN ghosts ELSE ghosts \cup new
          /\ keyless' = IF keyed THEN keyless ELSE keyless \cup new
          /\ setAge' = IF renewed THEN 0 ELSE setAge
          /\ lasting' = (~renewed /\ (lasting \/ (added /\ entries = {})))
          /\ unpruned' = (unpruned \/ (lasting' /\ ~lasting))
    BY <1>6, Zenon DEF RegisterFails
  <2>3. /\ lasting' \in BOOLEAN /\ unpruned' \in BOOLEAN /\ (unpruned => unpruned')
        /\ lasting' => lasting \/ unpruned'
    BY <2>2, Zenon
  <2>4. /\ entries \subseteq entries' /\ entries' \subseteq entries \cup {s}
        /\ ghosts \subseteq ghosts' /\ ghosts' \subseteq ghosts \cup (entries' \cap {s})
        /\ (s \in entries' => s \in up \cup leaving \cup ghosts')
        /\ keyless \subseteq keyless' /\ keyless' \subseteq keyless \cup (entries' \cap {s})
        /\ setAge' \in {0, setAge}
    BY <2>2
  <2>5. /\ age' \in [Socket -> 0 .. Oldest] /\ age'[s] = 0
        /\ \A r \in Socket \ {s} : age'[r] = age[r]
    BY <1>6 DEF RegisterFails
  <2>6. /\ unlisted' = unlisted \cup ({s} \cap up)
        /\ UNCHANGED <<account, up, leaving, stopping, push, slipped>>
    BY <1>6 DEF RegisterFails
  <2> HIDE DEF Oldest
  <2>7. TypeOK' /\ KickInv' /\ ReachInv' /\ PresenceIsExplained'
    BY <2>1, <2>3, <2>4, <2>5, <2>6
  <2>8. OpenIsPresent' /\ StepInv'
    BY <2>1, <2>4, <2>5, <2>6
  <2>9. AgeInv'
    BY <2>1, <2>3, <2>4, <2>5, <2>6
  <2> QED
    BY <2>7, <2>8, <2>9
<1>7. ASSUME NEW s \in Socket, PruneStaleSockets(s) PROVE PresenceInv'
  <2>1. /\ step[s] = "pruning" /\ step'[s] \in {"none", "settled"}
        /\ (step'[s] = "none" => s \notin up \cup leaving)
        /\ step' \in [Socket -> {"none", "open", "checked"} \cup Bound]
        /\ with' \in [Socket -> Ticket \cup {None}]
        /\ \A r \in Socket \ {s} : step'[r] = step[r]
    BY <1>7, GoStep DEF PruneStaleSockets, Settle
  <2>2. /\ Present(entries \ Stale)
        /\ UNCHANGED <<account, up, leaving, stopping, push, past>>
    BY <1>7 DEF PruneStaleSockets
  <2>3. /\ \A r \in entries \ Stale : age[r] < KeyTtl /\ r \notin keyless
        /\ \A r \in entries : age[r] < KeyTtl /\ r \notin keyless => r \in entries \ Stale
    BY DEF Stale
  <2> DEFINE S == entries \ Stale
  <2>4. /\ entries' = S /\ ghosts' = ghosts \cap S /\ keyless' = keyless \cap S
        /\ setAge' \in 0 .. SetTtl - 1 /\ setAge' \in {0, setAge} /\ (S # {} => setAge' = setAge)
        /\ lasting' \in BOOLEAN /\ (lasting' => lasting)
        /\ age' \in [Socket -> 0 .. Oldest]
        /\ \A r \in S \cup (up \ unlisted) : age'[r] = age[r]
    BY <2>2, PresentStep
  <2>5. S \subseteq entries
    OBVIOUS
  <2> HIDE DEF S, Oldest
  <2>6. TypeOK' /\ PresenceIsExplained' /\ KickInv' /\ ReachInv'
    BY <2>1, <2>2, <2>4, <2>5
  <2>7. StepInv'
    BY <2>1, <2>2, <2>3, <2>4, <2>5 DEF S
  <2>8. OpenIsPresent'
    BY <2>1, <2>2, <2>3, <2>4, <2>5 DEF S
  <2>9. AgeInv'
    BY <2>1, <2>2, <2>3, <2>4, <2>5 DEF S
  <2> QED
    BY <2>6, <2>7, <2>8, <2>9
<1>8. ASSUME NEW s \in Socket, PruneFails(s) PROVE PresenceInv'
  <2>1. /\ step[s] = "pruning" /\ step'[s] \in {"none", "settled"}
        /\ (step'[s] = "none" => s \notin up \cup leaving)
        /\ step' \in [Socket -> {"none", "open", "checked"} \cup Bound]
        /\ with' \in [Socket -> Ticket \cup {None}]
        /\ \A r \in Socket \ {s} : step'[r] = step[r]
    BY <1>8, GoStep DEF PruneFails, Settle
  <2>2. PICK unasked \in SUBSET (entries \ Stale) : \E kept \in SUBSET (Stale \cup unasked) :
          /\ Present(entries \ ((Stale \cup unasked) \ kept))
          /\ unlisted' = unlisted \cup ((unasked \cap up) \ kept)
          /\ unpruned' = (unpruned \/ kept \cap Stale # {})
    BY <1>8, Zenon DEF PruneFails
  <2>3. PICK kept \in SUBSET (Stale \cup unasked) :
          /\ Present(entries \ ((Stale \cup unasked) \ kept))
          /\ unlisted' = unlisted \cup ((unasked \cap up) \ kept)
          /\ unpruned' = (unpruned \/ kept \cap Stale # {})
    BY <2>2, Zenon
  <2>4. UNCHANGED <<account, up, leaving, stopping, push, slipped>>
    BY <1>8 DEF PruneFails
  <2>5. /\ unpruned' \in BOOLEAN
        /\ unpruned => unpruned'
        /\ ~unpruned' => kept \cap Stale = {}
    BY <2>3, Zenon
  <2> DEFINE S == entries \ ((Stale \cup unasked) \ kept)
  <2>6. /\ entries' = S /\ ghosts' = ghosts \cap S /\ keyless' = keyless \cap S
        /\ setAge' \in 0 .. SetTtl - 1 /\ setAge' \in {0, setAge} /\ (S # {} => setAge' = setAge)
        /\ lasting' \in BOOLEAN /\ (lasting' => lasting)
        /\ age' \in [Socket -> 0 .. Oldest]
        /\ \A r \in S \cup (up \ unlisted) : age'[r] = age[r]
    BY <2>3, PresentStep
  <2>7. /\ S \subseteq entries
        /\ ~unpruned' => \A r \in S : age[r] < KeyTtl
        /\ \A r \in (entries \cap up) \ unlisted' : age[r] < KeyTtl /\ r \notin keyless => r \in S
        /\ unlisted \subseteq unlisted' /\ unlisted' \subseteq unlisted \cup (entries \cap up)
    BY <2>3, <2>5 DEF Stale
  <2> HIDE DEF S, Oldest
  <2>8. TypeOK' /\ PresenceIsExplained' /\ KickInv' /\ ReachInv'
    BY <2>1, <2>4, <2>5, <2>6, <2>7
  <2>9. StepInv'
    BY <2>1, <2>4, <2>6, <2>7
  <2>10. OpenIsPresent'
    BY <2>1, <2>4, <2>6, <2>7
  <2>11. AgeInv'
    BY <2>1, <2>4, <2>5, <2>6, <2>7
  <2> QED
    BY <2>8, <2>9, <2>10, <2>11
<1>9. ASSUME NEW s \in Socket, Disconnect(s) PROVE PresenceInv'
  BY <1>9 DEF Disconnect, Close
<1>10. ASSUME NEW s \in Socket, Remove(s) PROVE PresenceInv'
  BY <1>10, GoStep DEF Remove, Present
<1>11. ASSUME NEW s \in Socket, RemoveFails(s) PROVE PresenceInv'
  BY <1>11, GoStep DEF RemoveFails
<1>12. CASE Shutdown
  BY <1>12 DEF Shutdown
<1>13. CASE Crash
  BY <1>13 DEF Crash
<1>14. CASE Suspend
  BY <1>14 DEF Suspend
<1>15. CASE HandleUserKicked
  BY <1>15 DEF HandleUserKicked, Close
<1>16. CASE KickLost
  BY <1>16 DEF KickLost
<1>17. CASE DeactivateDevice
  BY <1>17 DEF DeactivateDevice
<1>18. CASE Tick
  <2> DEFINE S == IF lasting \/ setAge + 1 < SetTtl THEN entries ELSE {}
  <2>1. /\ leaving = {} /\ \A s \in Socket : step[s] \notin {"joined", "pruning"}
        /\ entries' = S /\ ghosts' = ghosts \cap S /\ keyless' = keyless \cap S
        /\ setAge' = IF S = {} THEN 0 ELSE IF lasting THEN setAge ELSE setAge + 1
        /\ UNCHANGED <<account, sockets, lasting, push, past>>
    BY <1>18 DEF Tick
  <2>2. S \subseteq entries /\ (S # {} => S = entries /\ (lasting \/ setAge + 1 < SetTtl))
    OBVIOUS
  <2>3. age' = [s \in Socket |-> IF s \notin S \cup (up \ unlisted) THEN 0
                                 ELSE IF age[s] < Oldest THEN age[s] + 1 ELSE age[s]]
    BY <1>18 DEF Tick
  <2> HIDE DEF S
  <2>4. /\ age' \in [Socket -> 0 .. Oldest]
        /\ \A s \in S \cup (up \ unlisted) :
             age'[s] = IF age[s] < Oldest THEN age[s] + 1 ELSE age[s]
    BY <2>2, <2>3
  <2>5. setAge' \in 0 .. SetTtl - 1
    BY <2>1, <2>2
  <2>6. TypeOK'
    <3> HIDE DEF Oldest
    <3> QED
      BY <2>1, <2>2, <2>4, <2>5
  <2>7. PresenceIsExplained' /\ KickInv' /\ ReachInv'
    BY <2>1, <2>2
  <2>8. \A s \in up \ unlisted : age'[s] < KeyTtl => age[s] < KeyTtl /\ age'[s] = age[s] + 1
    BY <2>4
  <2>9. \A s \in up \ unlisted :
          step[s] = "settled" /\ age'[s] < KeyTtl /\ ~stopping => s \in entries' \ keyless'
    <3> SUFFICES ASSUME NEW s \in up \ unlisted, step[s] = "settled", age'[s] < KeyTtl, ~stopping
                 PROVE  s \in S
      BY <2>1, <2>2, <2>8
    <3>1. s \in entries /\ age[s] >= setAge /\ age[s] + 1 < KeyTtl
      BY <2>8
    <3> QED
      BY <3>1 DEF S
  <2>10. OpenIsPresent' /\ StepInv'
    BY <2>1, <2>2, <2>9
  <2>11. AgeInv'
    BY <2>1, <2>2, <2>4
  <2> QED
    BY <2>6, <2>7, <2>10, <2>11
<1>19. CASE OnMessageCreated
  BY <1>19 DEF OnMessageCreated, JobEnds
<1>20. CASE ReadDevice
  BY <1>20 DEF ReadDevice, JobEnds
<1>21. CASE FilterOnlineDevices
  BY <1>21 DEF FilterOnlineDevices
<1>22. CASE FilterFails
  BY <1>22 DEF FilterFails, JobEnds
<1>23. CASE Send
  BY <1>23 DEF Send, JobEnds
<1>24. CASE UNCHANGED vars
  BY <1>24 DEF vars
<1>25. ASSUME NEW s \in Socket, RegisterRejected(s) PROVE PresenceInv'
  BY <1>25, GoStep DEF RegisterRejected, Settle
<1> QED
  BY <1>1, <1>2, <1>3, <1>4, <1>5, <1>6, <1>7, <1>8, <1>9, <1>10, <1>11, <1>12, <1>13,
     <1>14, <1>15, <1>16, <1>17, <1>18, <1>19, <1>20, <1>21, <1>22, <1>23, <1>24, <1>25 DEF Next

\* setDeviceSocket, removeDeviceSocket and pruneStaleSockets: at every await of the
\* handlers the presence set has the sockets that are open and, but for the ids left
\* behind, no others.
THEOREM Invariant == Spec => []PresenceInv
  BY InitStep, NextStep, PTL DEF Spec

\* pruneStaleSockets: an id left behind is gone within the time of a key and a set.
THEOREM GhostsDoExpire == Spec => []GhostsExpire
<1>1. PresenceInv => GhostsExpire
  BY PresenceAssumption DEF PresenceInv, TypeOK, AgeInv, GhostsExpire, Oldest
<1> QED
  BY <1>1, Invariant, PTL

\* handleUserKicked: what a step adds to the rooms after the kick had passed the session
\* check before it.
LEMMA KickStep == PresenceInv /\ KickedStayOut /\ [Next]_vars => KickedStayOut'
<1> SUFFICES ASSUME PresenceInv, KickedStayOut, [Next]_vars PROVE KickedStayOut'
  OBVIOUS
<1> USE DEF PresenceInv, TypeOK, KickInv, KickedStayOut, Listening, Bound, account, sockets, redis,
            push, past
<1>1. ASSUME NEW t \in Ticket, CreateSocketTicket(t) PROVE KickedStayOut'
  BY <1>1 DEF CreateSocketTicket
<1>2. ASSUME NEW s \in Socket, Connect(s) PROVE KickedStayOut'
  BY <1>2 DEF Connect
<1>3. ASSUME NEW s \in Socket, CheckTicket(s) PROVE KickedStayOut'
  BY <1>3, GoStep DEF CheckTicket
<1>4. ASSUME NEW s \in Socket, ConsumeTicket(s) PROVE KickedStayOut'
  BY <1>4, GoStep DEF ConsumeTicket
<1>5. ASSUME NEW s \in Socket, Register(s) \/ RegisterFails(s) \/ RegisterRejected(s)
      PROVE  KickedStayOut'
  BY <1>5, GoStep DEF Register, RegisterFails, RegisterRejected, Settle
<1>6. ASSUME NEW s \in Socket, PruneStaleSockets(s) \/ PruneFails(s) PROVE KickedStayOut'
  BY <1>6, GoStep DEF PruneStaleSockets, PruneFails, Settle
<1>7. ASSUME NEW s \in Socket, Disconnect(s) PROVE KickedStayOut'
  BY <1>7 DEF Disconnect, Close
<1>8. ASSUME NEW s \in Socket, Remove(s) \/ RemoveFails(s) PROVE KickedStayOut'
  BY <1>8, GoStep DEF Remove, RemoveFails
<1>9. CASE Shutdown \/ Crash
  BY <1>9 DEF Shutdown, Crash
<1>10. CASE Suspend \/ KickLost \/ DeactivateDevice
  BY <1>10 DEF Suspend, KickLost, DeactivateDevice
<1>11. CASE HandleUserKicked
  BY <1>11 DEF HandleUserKicked, Close
<1>12. CASE Tick
  BY <1>12 DEF Tick
<1>13. CASE OnMessageCreated \/ ReadDevice \/ FilterOnlineDevices \/ FilterFails \/ Send
  BY <1>13 DEF OnMessageCreated, ReadDevice, FilterOnlineDevices, FilterFails, Send
<1>14. CASE UNCHANGED vars
  BY <1>14 DEF vars
<1> QED
  BY <1>1, <1>2, <1>3, <1>4, <1>5, <1>6, <1>7, <1>8, <1>9, <1>10, <1>11, <1>12, <1>13,
     <1>14 DEF Next

\* handleUserKicked: after the kick no socket is in the rooms, but one that was between
\* its session check and its rooms.
THEOREM KickedDoStayOut == Spec => []KickedStayOut
<1>1. Init => KickedStayOut
  BY DEF Init, KickedStayOut
<1> QED
  BY <1>1, Invariant, KickStep, PTL DEF Spec

\* filterOnlineDevices: the presence that the job saw was a socket's, which had the message.
LEMMA ReachStep == PresenceInv /\ LeftOutIsReached /\ [Next]_vars => LeftOutIsReached'
<1> SUFFICES ASSUME PresenceInv, LeftOutIsReached, [Next]_vars PROVE LeftOutIsReached'
  OBVIOUS
<1> USE DEF LeftOutIsReached
<1>1. CASE FilterOnlineDevices
  <2>1. job = "read" /\ reached' = reached
    BY <1>1 DEF FilterOnlineDevices
  <2> SUFFICES ASSUME job' = "online", ~misled' PROVE Listening # {}
    BY <2>1 DEF PresenceInv, ReachInv
  <2>2. PICK s \in entries : s \notin ghosts \cup leaving
    BY <1>1 DEF FilterOnlineDevices
  <2>3. s \in up
    BY <2>2 DEF PresenceInv, PresenceIsExplained
  <2> QED
    BY <2>2, <2>3 DEF PresenceInv, TypeOK, StepInv, Listening, Bound
<1>2. ASSUME NEW s \in Socket, ConsumeTicket(s) PROVE LeftOutIsReached'
  BY <1>2 DEF ConsumeTicket
<1>3. CASE Crash
  BY <1>3 DEF Crash
<1>4. CASE OnMessageCreated \/ ReadDevice \/ FilterFails \/ Send
  BY <1>4 DEF OnMessageCreated, ReadDevice, FilterFails, Send, JobEnds
<1>5. CASE UNCHANGED push
  BY <1>5 DEF push
<1> QED
  BY <1>1, <1>2, <1>3, <1>4, <1>5
  DEF Next, vars, CreateSocketTicket, Connect, CheckTicket, Register, RegisterFails,
      RegisterRejected, PruneStaleSockets, PruneFails, Disconnect, Remove, RemoveFails, Shutdown, Suspend,
      HandleUserKicked, KickLost, DeactivateDevice, Tick

\* onMessageCreated and filterOnlineDevices: a push is left out only for a device that had
\* a socket at the time of the message or since, unless its presence was left behind.
THEOREM LeftOutAreReached == Spec => []LeftOutIsReached
<1>1. Init => LeftOutIsReached
  BY DEF Init, LeftOutIsReached
<1> QED
  BY <1>1, Invariant, ReachStep, PTL DEF Spec
=============================================================================
