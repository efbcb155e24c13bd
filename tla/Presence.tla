------------------------------ MODULE Presence ------------------------------
(***************************************************************************)
(* The sockets of one device: tickets (realtime.service.ts), the           *)
(* connection handlers (realtime.gateway.ts), the presence set they keep   *)
(* in Redis (redis.service.ts), and the wake-up of a new message, sent to  *)
(* the sockets and, if the presence set is empty, pushed through FCM       *)
(* (push-notification.processor.ts).                                       *)
(*                                                                         *)
(* Redis holds a set of socket ids per device, which expires two hours     *)
(* after the last connection, and a key per socket, which expires after    *)
(* one.  A connection removes the ids whose key is gone.  The commands of  *)
(* one process reach Redis in the order they were issued, so the removal   *)
(* of a socket follows its registration.  The gateway process may die and  *)
(* restart.  What is not modelled: the set of sockets per user, which no   *)
(* code reads but the one that prunes it.                                  *)
(*                                                                         *)
(* Every Redis command may fail on its own.  A pipeline does not throw     *)
(* then: its result has an error in the place of the answer, which only    *)
(* getDevicesWithSockets looks at.  It throws when there is no connection  *)
(* to begin with (ensureConnected), and so does a command outside of it.   *)
(***************************************************************************)
EXTENDS Naturals, FiniteSets

CONSTANTS Socket,                     \* ids of sockets: one that nothing refers to any more
          Ticket,                     \*   stands for a new one, and so does a ticket
          KeyTtl, SetTtl,             \* of a socket's key, and of the device's set
          None

ASSUME PresenceAssumption ==
  /\ {KeyTtl, SetTtl} \subseteq Nat
  /\ 0 < KeyTtl /\ KeyTtl <= SetTtl
  /\ None \notin Socket \cup Ticket

Oldest == KeyTtl + SetTtl             \* ages are not told apart from here on

VARIABLES
  active, kick,               \* the session and the device are; a suspension's event
  ticket,                     \* SocketTicket rows with no usedAt
  up, step, with,             \* open sockets; where handleConnection is, and its ticket
  leaving,                    \* sockets whose removal from Redis is on its way
  stopping,                   \* isShuttingDown
  entries,                    \* Redis: device:<id>:sockets
  age, setAge,                \*   since a socket was registered, and the set renewed,
  keyless, lasting,           \*   ids with no key from the start, a set that does not expire
  job,                        \* the push job of a message
  slipped,                    \* history: sockets past the session check when the kick came,
  unlisted,                   \*   open sockets whose id a failed command left out or took
  ghosts, unpruned,           \*   away, ids with no one to remove them, a pruning or the
                              \*   expiry of the set was lost,
  reached, misled             \*   the device had the message or a socket since; no socket
                              \*   stood behind the presence the push job saw

account == <<active, kick, ticket>>
sockets == <<up, step, with, leaving, stopping>>
redis   == <<entries, age, setAge, keyless, lasting, ghosts>>
push    == <<job, reached, misled>>
past    == <<slipped, unlisted, unpruned>>
vars    == <<account, sockets, redis, push, past>>

\* client.data is set and the rooms are joined; Redis has not been told, has been told,
\* the stale ids are pruned.
Bound == {"joined", "pruning", "settled"}

\* The sockets in the rooms of the user and of the device.
Listening == {s \in up : step[s] \in Bound}

TypeOK ==
  /\ active \in BOOLEAN /\ kick \in {"none", "published", "done"}
  /\ ticket \subseteq Ticket
  /\ up \subseteq Socket
  /\ step \in [Socket -> {"none", "open", "checked"} \cup Bound]
  /\ with \in [Socket -> Ticket \cup {None}]
  /\ leaving \subseteq Socket /\ stopping \in BOOLEAN
  /\ entries \subseteq Socket /\ ghosts \subseteq entries
  /\ age \in [Socket -> 0 .. Oldest] /\ setAge \in 0 .. SetTtl - 1
  /\ keyless \subseteq entries /\ lasting \in BOOLEAN
  /\ job \in {"none", "queued", "read", "send", "online"}
  /\ reached \in BOOLEAN /\ misled \in BOOLEAN
  /\ slipped \subseteq up /\ unlisted \subseteq up /\ unpruned \in BOOLEAN

Init ==
  /\ active = TRUE /\ kick = "none" /\ ticket = {}
  /\ up = {} /\ step = [s \in Socket |-> "none"] /\ with = [s \in Socket |-> None]
  /\ leaving = {} /\ stopping = FALSE
  /\ entries = {} /\ age = [s \in Socket |-> 0] /\ setAge = 0
  /\ keyless = {} /\ lasting = FALSE /\ ghosts = {}
  /\ job = "none" /\ reached = FALSE /\ misled = FALSE
  /\ slipped = {} /\ unlisted = {} /\ unpruned = FALSE

-----------------------------------------------------------------------------
\* The handler of s goes on, and needs its ticket up to its check.
Go(s, to) ==
  /\ step' = [step EXCEPT ![s] = to]
  /\ with' = [with EXCEPT ![s] = IF to \in {"open", "checked"} THEN @ ELSE None]

\* The presence set is S from now on.
Present(S) ==
  /\ entries' = S /\ ghosts' = ghosts \cap S /\ keyless' = keyless \cap S
  /\ setAge' = IF S = {} THEN 0 ELSE setAge
  /\ lasting' = (S # {} /\ lasting)
  /\ age' = [s \in Socket |-> IF s \in S \cup (up \ unlisted) THEN age[s] ELSE 0]

-----------------------------------------------------------------------------
(* Tickets and handleConnection.                                           *)

\* createSocketTicket: for an active session and an active device.  A used ticket that
\* no client holds stands for a new one.
CreateSocketTicket(t) ==
  /\ t \notin ticket /\ active /\ \A s \in Socket : with[s] # t
  /\ ticket' = ticket \cup {t}
  /\ UNCHANGED <<active, kick, sockets, redis, push, past>>

\* A client opens a socket with a ticket, of any age and perhaps used; a server that is
\* shutting down closes it at once.
Connect(s) ==
  /\ step[s] = "none" /\ s \notin entries
  /\ \E t \in Ticket : with' = [with EXCEPT ![s] = IF stopping THEN None ELSE t]
  /\ step' = [step EXCEPT ![s] = IF stopping THEN "none" ELSE "open"]
  /\ up' = IF stopping THEN up ELSE up \cup {s}
  /\ UNCHANGED <<account, leaving, stopping, redis, push, past>>

\* Mutant: the session and the device are not looked up.
CheckTicketOnly(s) ==
  /\ step[s] = "open"
  /\ \/ with[s] \in ticket /\ Go(s, "checked") /\ UNCHANGED up
     \/ Go(s, "none") /\ up' = up \ {s}
  /\ UNCHANGED <<account, leaving, stopping, redis, push, past>>

\* consumeSocketTicket, its reads: a ticket that is neither used nor, after a minute,
\* expired, its session and its device.  Otherwise the socket is closed.
CheckTicket(s) ==
  /\ step[s] = "open"
  /\ \/ with[s] \in ticket /\ active /\ Go(s, "checked") /\ UNCHANGED up
     \/ Go(s, "none") /\ up' = up \ {s}
  /\ UNCHANGED <<account, leaving, stopping, redis, push, past>>

\* consumeSocketTicket, its update, whatever the ticket is by now; then the
\* handler sets client.data, joins the rooms and issues the registration.  A socket
\* that was closed meanwhile joins no room, but is registered: handleDisconnect,
\* which found no client.data, is over.
ConsumeTicket(s) ==
  /\ step[s] = "checked"
  /\ Go(s, "joined")
  /\ ticket' = ticket \ {with[s]}
  /\ reached' = (reached \/ (s \in up /\ job # "none"))
  /\ UNCHANGED <<active, kick, up, leaving, stopping, redis, job, misled, past>>

\* setDeviceSocket: the pipeline that writes the id and its key and renews the set.
Register(s) ==
  /\ step[s] = "joined"
  /\ Go(s, "pruning")
  /\ entries' = entries \cup {s}
  /\ age' = [age EXCEPT ![s] = 0] /\ setAge' = 0 /\ lasting' = FALSE
  /\ ghosts' = IF s \in up \cup leaving THEN ghosts ELSE ghosts \cup {s}
  /\ UNCHANGED <<account, up, leaving, stopping, keyless, push, past>>

\* Some of its commands fail: SADD, EXPIRE, without which a new set never expires, or
\* SET of the key.  The connection goes on.
RegisterFails(s) ==
  /\ step[s] = "joined"
  /\ Go(s, "pruning")
  /\ \E added, renewed, keyed \in BOOLEAN :
       LET new == IF added THEN {s} ELSE {} IN
       /\ ~(added /\ renewed /\ keyed)
       /\ entries' = entries \cup new
       /\ ghosts' = IF s \in up \cup leaving THEN ghosts ELSE ghosts \cup new
       /\ keyless' = IF keyed THEN keyless ELSE keyless \cup new
       /\ setAge' = IF renewed THEN 0 ELSE setAge
       /\ lasting' = (~renewed /\ (lasting \/ (added /\ entries = {})))
       /\ unpruned' = (unpruned \/ (lasting' /\ ~lasting))
  /\ age' = [age EXCEPT ![s] = 0]
  /\ unlisted' = unlisted \cup ({s} \cap up)
  /\ UNCHANGED <<account, up, leaving, stopping, push, slipped>>

\* After setDeviceSocket nothing is left to do for a socket that was closed.
Settle(s) == Go(s, IF s \in up \cup leaving THEN "settled" ELSE "none")

\* There is no connection: a warning, and the connection goes on without presence.
RegisterRejected(s) ==
  /\ step[s] = "joined"
  /\ Settle(s)
  /\ unlisted' = unlisted \cup ({s} \cap up)
  /\ UNCHANGED <<account, up, leaving, stopping, redis, push, slipped, unpruned>>

\* Mutant: nothing is pruned.
PruneNone(s) ==
  /\ step[s] = "pruning"
  /\ Settle(s)
  /\ UNCHANGED <<account, up, leaving, stopping, redis, push, past>>

\* Ids whose key is gone.
Stale == {r \in entries : age[r] >= KeyTtl} \cup keyless

\* pruneStaleSockets.  Its reads and its removals are one step: an id without a key
\* never gets one again.
PruneStaleSockets(s) ==
  /\ step[s] = "pruning"
  /\ Settle(s)
  /\ Present(entries \ Stale)
  /\ UNCHANGED <<account, up, leaving, stopping, push, past>>

\* Some of its commands fail.  An EXISTS that failed is taken for the answer that there is
\* no key, and the id is removed, of an open socket too; an SREM that failed leaves the id,
\* and so does a pruning that throws, with a warning.
PruneFails(s) ==
  /\ step[s] = "pruning"
  /\ Settle(s)
  /\ \E unasked \in SUBSET (entries \ Stale) : \E kept \in SUBSET (Stale \cup unasked) :
       /\ Present(entries \ ((Stale \cup unasked) \ kept))
       /\ unlisted' = unlisted \cup ((unasked \cap up) \ kept)
       /\ unpruned' = (unpruned \/ kept \cap Stale # {})
  /\ UNCHANGED <<account, up, leaving, stopping, push, slipped>>

-----------------------------------------------------------------------------
(* The end of a socket.                                                    *)

\* Sockets S are closed: handleDisconnect removes those with client.data from Redis.
Close(S) ==
  /\ up' = up \ S
  /\ leaving' = leaving \cup {s \in S \cap up : step[s] \in Bound}
  /\ unlisted' = unlisted \ S

\* Mutant: handleDisconnect does nothing.
DisconnectOnly(s) ==
  /\ s \in up
  /\ up' = up \ {s} /\ unlisted' = unlisted \ {s} /\ slipped' = slipped \ {s}
  /\ UNCHANGED <<account, step, with, leaving, stopping, redis, push, unpruned>>

Disconnect(s) ==
  /\ s \in up
  /\ Close({s})
  /\ slipped' = slipped \ {s}
  /\ UNCHANGED <<account, step, with, stopping, redis, push, unpruned>>

\* removeDeviceSocket reaches Redis after the registration.
Remove(s) ==
  /\ s \in leaving /\ step[s] # "joined"
  /\ leaving' = leaving \ {s}
  /\ Present(entries \ {s})
  /\ IF s \in up \/ step[s] = "pruning" THEN UNCHANGED <<step, with>> ELSE Go(s, "none")
  /\ UNCHANGED <<account, up, stopping, push, past>>

\* Its SREM failed, and perhaps the deletion of the key; nobody looks at the error.
RemoveFails(s) ==
  /\ s \in leaving /\ step[s] # "joined"
  /\ leaving' = leaving \ {s}
  /\ ghosts' = ghosts \cup ({s} \cap entries)
  /\ keyless' \in {keyless, keyless \cup ({s} \cap entries)}
  /\ IF s \in up \/ step[s] = "pruning" THEN UNCHANGED <<step, with>> ELSE Go(s, "none")
  /\ UNCHANGED <<account, up, stopping, entries, age, setAge, lasting, push, past>>

\* onModuleDestroy: no more connections and no more kicks; the sockets that are
\* there are removed from Redis before they are closed.
Shutdown ==
  /\ ~stopping /\ stopping' = TRUE
  /\ leaving' = leaving \cup Listening
  /\ UNCHANGED <<account, up, step, with, redis, push, past>>

\* The process ends, killed or at the end of its shutdown, and another one starts.
\* Its sockets and what it had under way are gone, their ids stay; a job it ran is
\* taken up again.
Crash ==
  /\ up' = {} /\ leaving' = {} /\ stopping' = FALSE
  /\ step' = [s \in Socket |-> "none"]
  /\ with' = [s \in Socket |-> None]
  /\ unpruned' = (unpruned \/ \E s \in Socket : step[s] = "pruning")
  /\ ghosts' = entries /\ slipped' = {} /\ unlisted' = {}
  /\ job' = IF job \in {"read", "send"} THEN "queued" ELSE job
  /\ UNCHANGED <<account, entries, age, setAge, keyless, lasting, reached, misled>>

-----------------------------------------------------------------------------
(* Moderation, devices, time.                                              *)

\* suspendUser, committed: the sessions are revoked; the event is published next.
Suspend ==
  /\ active /\ active' = FALSE
  /\ kick' = "published"
  /\ UNCHANGED <<ticket, sockets, redis, push, past>>

\* handleUserKicked closes the sockets in the user's room.
HandleUserKicked ==
  /\ kick = "published" /\ ~stopping
  /\ kick' = "done"
  /\ Close(Listening)
  /\ slipped' = {s \in up : step[s] = "checked"}
  /\ UNCHANGED <<active, ticket, step, with, stopping, redis, push, unpruned>>

\* The publication fails, or nobody is subscribed.
KickLost ==
  /\ kick = "published"
  /\ kick' = "none"
  /\ UNCHANGED <<active, ticket, sockets, redis, push, past>>

\* deactivate: no socket is told.
DeactivateDevice ==
  /\ active /\ active' = FALSE
  /\ UNCHANGED <<kick, ticket, sockets, redis, push, past>>

\* Time passes, in units of which a Redis command takes a small part: none is on
\* its way.  The keys and the set expire.
Tick ==
  /\ entries # {}
  /\ leaving = {} /\ \A s \in Socket : step[s] \notin {"joined", "pruning"}
  /\ LET S == IF lasting \/ setAge + 1 < SetTtl THEN entries ELSE {}
     IN  /\ entries' = S /\ ghosts' = ghosts \cap S /\ keyless' = keyless \cap S
         /\ setAge' = IF S = {} THEN 0 ELSE IF lasting THEN setAge ELSE setAge + 1
         /\ age' = [s \in Socket |-> IF s \notin S \cup (up \ unlisted) THEN 0
                                     ELSE IF age[s] < Oldest THEN age[s] + 1 ELSE age[s]]
  /\ UNCHANGED <<account, sockets, lasting, push, past>>

-----------------------------------------------------------------------------
(* A message and its push job.                                             *)

JobEnds == job' = "none" /\ reached' = FALSE

\* Mutant: the message goes to the sockets whose handleConnection is over.
OnMessageCreatedLate ==
  /\ job \in {"none", "online"}
  /\ \/ job' = "queued" /\ reached' = (\E s \in up : step[s] = "settled")
     \/ JobEnds
  /\ misled' = FALSE
  /\ UNCHANGED <<account, sockets, redis, past>>

\* onMessageCreated: to the device's room, and a job in the queue; an error of the
\* latter is logged.  One message after another.
OnMessageCreated ==
  /\ job \in {"none", "online"}
  /\ \/ job' = "queued" /\ reached' = (Listening # {})
     \/ JobEnds
  /\ misled' = FALSE
  /\ UNCHANGED <<account, sockets, redis, past>>

\* sendFcmWakeup reads the device: active, of an active user, with a push token.
ReadDevice ==
  /\ job = "queued"
  /\ \/ active /\ job' = "read" /\ UNCHANGED reached
     \/ JobEnds
  /\ UNCHANGED <<account, sockets, redis, misled, past>>

\* filterOnlineDevices: a device with presence is not pushed to.
FilterOnlineDevices ==
  /\ job = "read"
  /\ job' = IF entries = {} THEN "send" ELSE "online"
  /\ misled' = (entries # {} /\ entries \subseteq ghosts \cup leaving)
  /\ UNCHANGED <<account, sockets, redis, reached, past>>

\* The SCARD failed: the device counts as offline.  Or there is no connection, and nothing
\* is pushed.
FilterFails ==
  /\ job = "read"
  /\ \/ job' = "send" /\ UNCHANGED reached
     \/ JobEnds
  /\ UNCHANGED <<account, sockets, redis, misled, past>>

\* sendEachForMulticast: accepted or refused; or the call throws, and the job is tried
\* again unless this was the last attempt.
Send ==
  /\ job = "send"
  /\ \/ JobEnds
     \/ job' = "queued" /\ UNCHANGED reached
  /\ UNCHANGED <<account, sockets, redis, misled, past>>

-----------------------------------------------------------------------------
Next ==
  \/ \E t \in Ticket : CreateSocketTicket(t)
  \/ \E s \in Socket : \/ Connect(s) \/ CheckTicket(s) \/ ConsumeTicket(s)
                       \/ Register(s) \/ RegisterFails(s) \/ RegisterRejected(s)
                       \/ PruneStaleSockets(s) \/ PruneFails(s) \/ Disconnect(s) \/ Remove(s) \/ RemoveFails(s)
  \/ Shutdown \/ Crash \/ Suspend \/ HandleUserKicked \/ KickLost \/ DeactivateDevice \/ Tick
  \/ OnMessageCreated \/ ReadDevice \/ FilterOnlineDevices \/ FilterFails
  \/ Send

Spec == Init /\ [][Next]_vars

-----------------------------------------------------------------------------
(* Properties.                                                             *)

\* handleUserKicked: after the kick of a suspended user no socket of the device is in
\* its rooms, but one that was between its session check and its rooms.
KickedStayOut ==
  kick = "done" => Listening \subseteq slipped

\* removeDeviceSocket: an id stays in the presence set without its socket only while
\* its removal is on its way, when the removal failed, when the process ended, or
\* when the socket was closed during its handshake.
PresenceIsExplained ==
  entries \ up \subseteq ghosts \cup leaving

\* setDeviceSocket and pruneStaleSockets: a socket that is open and settled is in the
\* presence set, for at least as long as its key lives, unless the server is shutting
\* down, a command of its registration failed, or a pruning, its own or that of another
\* socket, failed to ask for its key.
OpenIsPresent ==
  \A s \in up \ unlisted :
    step[s] = "settled" /\ age[s] < KeyTtl /\ ~stopping => s \in entries \ keyless

\* pruneStaleSockets: however the device reconnects, an id left behind is gone within
\* the time of a key and a set, provided no pruning was lost and no set was left without
\* its expiry.
GhostsExpire ==
  \A s \in entries \ up : ~unpruned => age[s] < KeyTtl + SetTtl

\* onMessageCreated and filterOnlineDevices: when a push is left out because the
\* device is present, the device had a socket at the time of the message or since,
\* unless all the presence the job saw was left behind.
LeftOutIsReached ==
  job = "online" /\ ~misled => reached

\* Where a socket is tells what Redis and the process hold of it.
StepInv ==
  \A s \in Socket :
    /\ step[s] \in {"none", "open", "checked"} => s \notin leaving
    /\ step[s] = "none" => s \notin up
    /\ step[s] = "open" => s \notin slipped
    /\ step[s] \in {"open", "checked", "joined"} => s \notin entries \cup unlisted
    /\ s \in up \cap leaving => stopping
    /\ s \in up \ unlisted /\ step[s] = "pruning" /\ ~stopping =>
         s \in entries \ keyless \/ age[s] >= KeyTtl

\* The id of an open socket is as old as the set, and pruning keeps the ids about as young.
AgeInv ==
  /\ lasting => unpruned
  /\ \A s \in (entries \cap up) \ unlisted : age[s] >= setAge
  /\ ~unpruned => \A s \in entries :
       \/ age[s] < KeyTtl + setAge
       \/ age[s] < KeyTtl + SetTtl /\ \E r \in Socket : step[r] = "pruning"

\* A kick follows the end of the session; after it no socket passes the session check.
KickInv ==
  /\ kick # "none" => ~active
  /\ kick = "done" => {s \in up : step[s] = "checked"} \subseteq slipped

\* A socket that listens while the job is under way had the message, or came since.
ReachInv ==
  job \in {"queued", "read", "send"} /\ Listening # {} => reached

\* setDeviceSocket and removeDeviceSocket: the presence set has the sockets that are
\* open and no others, but for the causes above, at every await of the handlers.
PresenceInv ==
  /\ TypeOK /\ PresenceIsExplained /\ OpenIsPresent
  /\ StepInv /\ AgeInv /\ KickInv /\ ReachInv
=============================================================================
