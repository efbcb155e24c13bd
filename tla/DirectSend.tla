----------------------------- MODULE DirectSend -----------------------------
(***************************************************************************)
(* Sending to a direct thread: MessagesService.send and forwardToDirect.   *)
(* Several requests run at once, on one server instance or on several,     *)
(* against one Postgres database (READ COMMITTED).  A step of this module  *)
(* is one statement the handler awaits, so the requests interleave exactly *)
(* where the code can be suspended.  A client retry is a further request   *)
(* that carries the same idempotency key.                                  *)
(*                                                                         *)
(* A Message row is named by the request that inserted it, so a row's key, *)
(* thread and envelopes are those of dto[m].  forwardToDirect runs the     *)
(* same statements with no reply target and no attachments to bind (it     *)
(* copies media rows instead).                                             *)
(***************************************************************************)
EXTENDS Integers, FiniteSets

CONSTANTS
  Request,         \* the requests of a behaviour: the bound on sends and retries
  User, Device, Key,
  Changing,        \* devices that other requests register or deactivate meanwhile
  Media,           \* MessageMedia rows
  Owner,           \* Device.userId
  MediaOwner,      \* MessageMedia.userId
  Uploaded,        \* MessageMedia rows whose uploadStatus is COMPLETE
  MaxAttachments,  \* MEDIA_MAX_ATTACHMENTS_PER_MESSAGE
  Dto,             \* the request bodies clients send
  None,            \* no request, no message, no reply
  Failed           \* an HTTP error

Bodies == [sender : User, device : Device, recipient : User, key : Key,
           envelopes : SUBSET Device, media : SUBSET Media,
           replyTo : Request \cup {None}]

ASSUME DirectSendAssumption ==
  /\ Changing \subseteq Device
  /\ Owner \in [Device -> User]
  /\ MediaOwner \in [Media -> User]
  /\ Uploaded \subseteq Media
  /\ MaxAttachments \in Nat
  /\ Dto \subseteq Bodies
  /\ None \notin Request \cup Bodies
  /\ None \notin [key : Device \X Key, thread : SUBSET User]
  /\ Failed \notin Request
  /\ None # Failed

\* canonicalDirectPair sorts the two user ids: the thread is the unordered pair.
canonicalDirectPair(u, v) == {u, v}

Thread == {canonicalDirectPair(u, v) : u, v \in User}

VARIABLES
  active,          \* devices with active = true
  latestSequence,  \* committed DirectThread.latestSequence; 0 = no such row
  stored,          \* committed Message rows
  bound,           \* bound[m]: MessageMedia rows the transaction of m set to m
  lock,            \* the transaction that holds a DirectThread row
  announced,       \* messages whose message.created was emitted
  recalc,          \* messages whose unread recalculation was enqueued
  pc, dto,
  threadSequence,  \* the number the transaction of a request was given
  reply,           \* the message a request was answered with
  shown            \* the media listed in that answer

database == <<latestSequence, stored, bound, lock>>
effects  == <<announced, recalc>>
answers  == <<reply, shown>>
vars     == <<active, database, effects, pc, dto, threadSequence, answers>>

Before   == {"lookup"}
\* The steps of the interactive transaction, in the order the callback awaits them.
InTx     == {"devices", "upsert", "createThread", "sequence", "check",
             "insert", "attach", "commit"}
After    == {"announce", "recover"}
Step     == {"idle", "done", "crashed"} \cup Before \cup InTx \cup After

TypeOK ==
  /\ active \in SUBSET Device
  /\ latestSequence \in [Thread -> Nat]
  /\ stored \in SUBSET Request
  /\ bound \in [Request -> SUBSET Media]
  /\ lock \in [Thread -> Request \cup {None}]
  /\ announced \in SUBSET Request
  /\ recalc \in SUBSET Request
  /\ pc \in [Request -> Step]
  /\ dto \in [Request -> Bodies \cup {None}]
  /\ \A r \in Request : pc[r] # "idle" => dto[r] \in Bodies
  /\ threadSequence \in [Request -> Nat]
  /\ reply \in [Request -> Request \cup {None, Failed}]
  /\ shown \in [Request -> SUBSET Media]

ThreadOf(r) == canonicalDirectPair(dto[r].sender, dto[r].recipient)

\* The unique index on (senderDeviceId, idempotencyKey).
senderDeviceId_idempotencyKey(r) == <<dto[r].device, dto[r].key>>

SameKey(r, m) ==
  senderDeviceId_idempotencyKey(r) = senderDeviceId_idempotencyKey(m)

\* What findUnique on that index returns to a request: at most one row.
Existing(r) == {m \in stored : SameKey(r, m)}

-----------------------------------------------------------------------------
(* Devices are registered, reactivated and deactivated by other requests.  *)

DeviceChange(d) ==
  /\ active' = IF d \in active THEN active \ {d} ELSE active \cup {d}
  /\ UNCHANGED <<database, effects, pc, dto, threadSequence, answers>>

Init ==
  /\ active \in {A \in SUBSET Device : Device \ Changing \subseteq A}
  /\ latestSequence = [t \in Thread |-> 0]
  /\ stored = {}
  /\ bound = [m \in Request |-> {}]
  /\ lock = [t \in Thread |-> None]
  /\ announced = {}
  /\ recalc = {}
  /\ pc = [r \in Request |-> "idle"]
  /\ dto = [r \in Request |-> None]
  /\ threadSequence = [r \in Request |-> 0]
  /\ reply = [r \in Request |-> None]
  /\ shown = [r \in Request |-> {}]

Goto(r, step) == pc' = [pc EXCEPT ![r] = step]

Answer(r, m, media) ==
  /\ reply' = [reply EXCEPT ![r] = m]
  /\ shown' = [shown EXCEPT ![r] = media]
  /\ Goto(r, "done")

Receive(r) ==
  /\ pc[r] = "idle"
  /\ \E d \in Dto : dto' = [dto EXCEPT ![r] = d]
  /\ Goto(r, "lookup")
  /\ UNCHANGED <<active, database, effects, threadSequence, answers>>

\* Mutant: a retry is answered with the attachments it asks for.
LookupShowsRequest(r) ==
  /\ pc[r] = "lookup"
  /\ \/ \E m \in Existing(r) : Answer(r, m, dto[r].media)
     \/ /\ Existing(r) = {}
        /\ Goto(r, "devices")
        /\ UNCHANGED answers
  /\ UNCHANGED <<active, database, effects, dto, threadSequence>>

\* The idempotency check before the transaction.
Lookup(r) ==
  /\ pc[r] = "lookup"
  /\ \/ \E m \in Existing(r) : Answer(r, m, bound[m])
     \/ /\ Existing(r) = {}
        /\ Goto(r, "devices")
        /\ UNCHANGED answers
  /\ UNCHANGED <<active, database, effects, dto, threadSequence>>

-----------------------------------------------------------------------------
(* The transaction.  Its writes are invisible until Commit; what others    *)
(* see of it before that is the row locks it holds.                        *)

\* Mutant: a failed transaction is never ended and keeps its row locks.
RollbackKeepsLock(r) ==
  /\ bound' = [bound EXCEPT ![r] = {}]
  /\ UNCHANGED <<latestSequence, stored, lock>>

\* The transaction ends without a trace: the increment of latestSequence and
\* every inserted row go, and the row locks with them.
Rollback(r) ==
  /\ lock' = [t \in Thread |-> IF lock[t] = r THEN None ELSE lock[t]]
  /\ bound' = [bound EXCEPT ![r] = {}]
  /\ UNCHANGED <<latestSequence, stored>>

Throw(r) ==
  /\ Rollback(r)
  /\ Answer(r, Failed, {})

ActiveDevicesOf(u) == {d \in active : Owner[d] = u}

\* The checks on devices and envelopes at the top of the callback.
ValidRecipients(d) ==
  LET recipientDevices == ActiveDevicesOf(d.recipient)
      senderSyncDevices == ActiveDevicesOf(d.sender) \ {d.device}
  IN  /\ d.device \in ActiveDevicesOf(d.sender)
      /\ d.sender # d.recipient
      /\ recipientDevices # {}
      /\ recipientDevices \subseteq d.envelopes
      /\ d.envelopes \subseteq recipientDevices \cup senderSyncDevices

ReadDevices(r) ==
  /\ pc[r] = "devices"
  /\ \/ /\ ValidRecipients(dto[r])
        /\ Goto(r, "upsert")
        /\ UNCHANGED <<database, answers>>
     \/ /\ ~ValidRecipients(dto[r])
        /\ Throw(r)
  /\ UNCHANGED <<active, effects, dto, threadSequence>>

\* directThread.upsert: a committed row is found, or it is to be created.
UpsertThread(r) ==
  /\ pc[r] = "upsert"
  /\ Goto(r, IF latestSequence[ThreadOf(r)] = 0 THEN "createThread" ELSE "sequence")
  /\ UNCHANGED <<active, database, effects, dto, threadSequence, answers>>

\* The insert waits for a concurrent inserter of the same pair.  If that one
\* committed, the upsert either finds its row (ON CONFLICT) or fails with P2002
\* (find, then insert): which of the two depends on the client's engine.
CreateThread(r) ==
  LET t == ThreadOf(r) IN
  /\ pc[r] = "createThread"
  /\ lock[t] = None
  /\ \/ /\ latestSequence[t] = 0
        /\ lock' = [lock EXCEPT ![t] = r]
        /\ Goto(r, "sequence")
        /\ UNCHANGED <<latestSequence, stored, bound>>
     \/ /\ latestSequence[t] > 0
        /\ Goto(r, "sequence")
        /\ UNCHANGED database
     \/ /\ latestSequence[t] > 0
        /\ Rollback(r)
        /\ Goto(r, "recover")
  /\ UNCHANGED <<active, effects, dto, threadSequence, answers>>

\* Mutant: the increment is a statement of its own, outside the transaction.
NextSequenceOutsideTx(r) ==
  LET t == ThreadOf(r) IN
  /\ pc[r] = "sequence"
  /\ latestSequence' = [latestSequence EXCEPT ![t] = @ + 1]
  /\ threadSequence' = [threadSequence EXCEPT ![r] = latestSequence[t] + 1]
  /\ Goto(r, "check")
  /\ UNCHANGED <<active, stored, bound, lock, effects, dto, answers>>

\* latestSequence: { increment: 1 } takes the row lock and keeps it to the end.
NextSequence(r) ==
  LET t == ThreadOf(r) IN
  /\ pc[r] = "sequence"
  /\ lock[t] \in {None, r}
  /\ lock' = [lock EXCEPT ![t] = r]
  /\ threadSequence' = [threadSequence EXCEPT ![r] = latestSequence[t] + 1]
  /\ Goto(r, "check")
  /\ UNCHANGED <<active, latestSequence, stored, bound, effects, dto, answers>>

\* Mutant: the nesting of replies is not checked.
ValidReplyNested(r) ==
  LET target == dto[r].replyTo IN
  \/ target = None
  \/ target \in stored /\ ThreadOf(target) = ThreadOf(r)

\* Reply target: it exists, is in this thread and is not itself a reply.
ValidReply(r) ==
  LET target == dto[r].replyTo IN
  \/ target = None
  \/ /\ target \in stored
     /\ ThreadOf(target) = ThreadOf(r)
     /\ dto[target].replyTo = None

BoundMedia == UNION {bound[m] : m \in stored}

assertAttachmentsOwned(r) ==
  /\ Cardinality(dto[r].media) <= MaxAttachments
  /\ \A x \in dto[r].media : /\ MediaOwner[x] = dto[r].sender
                             /\ x \notin BoundMedia
                             /\ x \in Uploaded

CheckBody(r) ==
  /\ pc[r] = "check"
  /\ \/ /\ ValidReply(r) /\ assertAttachmentsOwned(r)
        /\ Goto(r, "insert")
        /\ UNCHANGED <<database, answers>>
     \/ /\ ~(ValidReply(r) /\ assertAttachmentsOwned(r))
        /\ Throw(r)
  /\ UNCHANGED <<active, effects, dto, threadSequence>>

\* Mutant: there is no unique index on the idempotency key.
UniqueViolationOfPlace(r) ==
  \E m \in stored :
    ThreadOf(r) = ThreadOf(m) /\ threadSequence[r] = threadSequence[m]

\* A committed row has this row's idempotency key, or its place in the thread.
UniqueViolation(r) ==
  \E m \in stored :
    \/ SameKey(r, m)
    \/ ThreadOf(r) = ThreadOf(m) /\ threadSequence[r] = threadSequence[m]

\* message.create with its envelopes.  A transaction that inserted the same key
\* and is still open makes the insert wait for its outcome.
InsertMessage(r) ==
  /\ pc[r] = "insert"
  /\ \A q \in Request \ {r} : ~(pc[q] \in {"attach", "commit"} /\ SameKey(r, q))
  /\ \/ /\ ~UniqueViolation(r)
        /\ Goto(r, "attach")
        /\ UNCHANGED database
     \/ /\ UniqueViolation(r)
        /\ Rollback(r)
        /\ Goto(r, "recover")
  /\ UNCHANGED <<active, effects, dto, threadSequence, answers>>

\* Mutant: updateMany without messageId: null.
AttachMediaAnyway(r) ==
  /\ pc[r] = "attach"
  /\ bound' = [bound EXCEPT ![r] = dto[r].media]
  /\ Goto(r, "commit")
  /\ UNCHANGED <<active, latestSequence, stored, lock, effects, dto, threadSequence, answers>>

\* updateMany ... where messageId is null: rows locked by another transaction are
\* waited for, rows it bound meanwhile no longer match and are left out.
AttachMedia(r) ==
  /\ pc[r] = "attach"
  /\ \A q \in Request \ {r} : pc[q] = "commit" => bound[q] \cap dto[r].media = {}
  /\ bound' = [bound EXCEPT ![r] = dto[r].media \ BoundMedia]
  /\ Goto(r, "commit")
  /\ UNCHANGED <<active, latestSequence, stored, lock, effects, dto, threadSequence, answers>>

Commit(r) ==
  LET t == ThreadOf(r) IN
  /\ pc[r] = "commit"
  /\ latestSequence' = [latestSequence EXCEPT ![t] = threadSequence[r]]
  /\ stored' = stored \cup {r}
  /\ lock' = [lock EXCEPT ![t] = None]
  /\ Goto(r, "announce")
  /\ UNCHANGED <<active, bound, effects, dto, threadSequence, answers>>

\* A statement of the transaction fails for another reason (a lost connection,
\* the transaction's time limit): not a unique violation, so it is rethrown.
Abort(r) ==
  /\ pc[r] \in InTx
  /\ Throw(r)
  /\ UNCHANGED <<active, effects, dto, threadSequence>>

-----------------------------------------------------------------------------
(* After the transaction.                                                  *)

\* Mutant: message.created is emitted only once the recalculation is enqueued.
AnnounceAfterRecalc(r) ==
  /\ pc[r] = "announce"
  /\ \/ recalc' = recalc \cup {r} /\ announced' = announced \cup {r}
     \/ UNCHANGED effects
  /\ Answer(r, r, {})
  /\ UNCHANGED <<active, database, dto, threadSequence>>

\* Emit message.created and enqueue the recipient's recalculation, which is not
\* awaited and may fail.  The answer is the row as message.create returned it,
\* read before the attachments were bound: it lists no media.
Announce(r) ==
  /\ pc[r] = "announce"
  /\ announced' = announced \cup {r}
  /\ recalc' \in {recalc, recalc \cup {r}}
  /\ Answer(r, r, {})
  /\ UNCHANGED <<active, database, dto, threadSequence>>

\* Mutant: the answer after P2002 is the row that could not be inserted.
RecoverWithOwnRow(r) ==
  /\ pc[r] = "recover"
  /\ Answer(r, r, {})
  /\ UNCHANGED <<active, database, effects, dto, threadSequence>>

\* P2002: the row that holds the key is the answer; without one it is rethrown.
Recover(r) ==
  /\ pc[r] = "recover"
  /\ \/ \E m \in Existing(r) : Answer(r, m, bound[m])
     \/ /\ Existing(r) = {}
        /\ Answer(r, Failed, {})
  /\ UNCHANGED <<active, database, effects, dto, threadSequence>>

\* The instance dies: Postgres rolls the open transaction back, nobody answers.
Crash(r) ==
  /\ pc[r] \in Before \cup InTx \cup After
  /\ IF pc[r] \in InTx THEN Rollback(r) ELSE UNCHANGED database
  /\ Goto(r, "crashed")
  /\ UNCHANGED <<active, effects, dto, threadSequence, answers>>

-----------------------------------------------------------------------------
\* One step of the handler of r.  forwardToDirect, called by forward for each
\* direct target with a key derived from the request's, takes the same steps.
ServerStep(r) ==
  \/ Lookup(r) \/ ReadDevices(r) \/ UpsertThread(r) \/ CreateThread(r)
  \/ NextSequence(r) \/ CheckBody(r) \/ InsertMessage(r) \/ AttachMedia(r)
  \/ Commit(r) \/ Announce(r) \/ Recover(r)

Next ==
  \/ \E d \in Changing : DeviceChange(d)
  \/ \E r \in Request : Receive(r) \/ ServerStep(r) \/ Abort(r) \/ Crash(r)

Spec == Init /\ [][Next]_vars

\* A received request keeps being served; clients and failures owe nothing.
FairSpec == Spec /\ \A r \in Request : WF_vars(ServerStep(r))

-----------------------------------------------------------------------------
(* The abstract log this implements.                                       *)

\* The messages of a thread in the order of their numbers.
ThreadLog ==
  [t \in Thread |-> [i \in 1 .. latestSequence[t] |->
     CHOOSE m \in stored : ThreadOf(m) = t /\ threadSequence[m] = i]]

Asked ==
  [r \in Request |->
     IF dto[r] = None THEN None
     ELSE [key |-> senderDeviceId_idempotencyKey(r), thread |-> ThreadOf(r)]]

Log == INSTANCE MessageLog WITH Ident <- Device \X Key, asked <- Asked, log <- ThreadLog

-----------------------------------------------------------------------------
(* Properties.                                                             *)

\* Concurrent sends, retries, rollbacks and crashes together behave as atomic
\* appends to one log per thread: a key is logged at most once and at the end,
\* success names the logged message, an error means that nothing was logged.
ImplementsMessageLog == Log!Spec

\* A client that repeats a send never causes a second message: no two committed
\* rows carry the same (senderDeviceId, idempotencyKey), however the retries
\* interleave with the first attempt.
OneMessagePerKey == \A m, n \in stored : SameKey(m, n) => m = n

\* The committed messages of a thread are numbered 1..latestSequence with no gap
\* and no repetition, whatever was rolled back on the way.
GaplessSequence ==
  \A t \in Thread :
    LET messages == {m \in stored : ThreadOf(m) = t}
    IN  /\ {threadSequence[m] : m \in messages} = 1 .. latestSequence[t]
        /\ \A m, n \in messages : threadSequence[m] = threadSequence[n] => m = n

\* Every request answered with a message is answered with a committed one that
\* carries its own key: a first attempt, its retries and the P2002 path all name
\* the same message.
RepliesAgree ==
  \A r, q \in Request :
    /\ reply[r] \in Request
    /\ reply[q] \in Request
    /\ SameKey(r, q)
    => reply[r] = reply[q] /\ reply[r] \in stored

\* A request answered with an error stored nothing: send never commits a message
\* and then reports a failure to the client.
FailedStoredNothing == \A r \in Request : reply[r] = Failed => r \notin stored

\* An attachment belongs to at most one message (updateMany ... messageId: null).
MediaBoundOnce ==
  \A m, n \in stored : m # n => bound[m] \cap bound[n] = {}

\* A retry is answered with the attachments the stored message holds, also when a
\* concurrent send took the one it asked for and the message went without.
RetryShowsStored ==
  \A r \in Request : reply[r] \in Request \ {r} => shown[r] = bound[reply[r]]

\* Replies are one level deep, and stay within their thread.
RepliesAreFlat ==
  \A m \in stored : dto[m].replyTo # None =>
    LET target == dto[m].replyTo
    IN  target \in stored /\ ThreadOf(target) = ThreadOf(m) /\ dto[target].replyTo = None

\* Messages of a thread become visible in the order of their numbers: a reader
\* that has seen number n will never see a smaller one appear.
VisibleInOrder ==
  [][\A m \in stored' \ stored, n \in stored :
       ThreadOf(m)' = ThreadOf(n) => threadSequence'[m] > threadSequence[n]]_vars

\* Under fairness every received request ends: no row lock, no wait for another
\* inserter and no rollback leaves a request waiting for ever.
RequestsEnd ==
  \A r \in Request : pc[r] = "lookup" ~> pc[r] \in {"done", "crashed"}

\* A committed message is announced (message.created) unless the instance that
\* committed it died before it could.
StoredIsAnnounced ==
  \A r \in Request : r \in stored ~> r \in announced \/ pc[r] = "crashed"

-----------------------------------------------------------------------------
(* The inductive invariant behind the safety properties.                   *)

\* A transaction past the increment holds its thread's row, and its number is
\* the next one: nobody else can move latestSequence before it ends.
LockInv ==
  \A r \in Request : pc[r] \in {"check", "insert", "attach", "commit"} =>
    /\ lock[ThreadOf(r)] = r
    /\ threadSequence[r] = latestSequence[ThreadOf(r)] + 1

\* A transaction past its insert is the only holder of its key, among committed
\* rows and among open transactions.
KeyInv ==
  \A r \in Request : pc[r] \in {"attach", "commit"} =>
    /\ \A m \in stored : ~SameKey(r, m)
    /\ \A q \in Request : pc[q] \in {"attach", "commit"} /\ SameKey(r, q) => q = r

\* A committed row belongs to a request past its commit and is numbered within
\* its thread; every number up to latestSequence has its row.
StoredInv ==
  /\ \A m \in stored :
       /\ pc[m] \in {"announce", "done", "crashed"}
       /\ threadSequence[m] \in 1 .. latestSequence[ThreadOf(m)]
  /\ \A m, n \in stored :
       ThreadOf(m) = ThreadOf(n) /\ threadSequence[m] = threadSequence[n] => m = n
  /\ \A t \in Thread : \A i \in 1 .. latestSequence[t] :
       \E m \in stored : ThreadOf(m) = t /\ threadSequence[m] = i

\* Attachments bound by committed rows and by a transaction about to commit.
MediaInv ==
  \A m, n \in Request :
    /\ m \in stored \/ pc[m] = "commit"
    /\ n \in stored \/ pc[n] = "commit"
    /\ m # n
    => bound[m] \cap bound[n] = {}

\* An answer names a committed row of the request's own key; an error was given
\* by a request that stored nothing and has ended.
ReplyInv ==
  \A r \in Request :
    /\ pc[r] = "announce" => r \in stored
    /\ reply[r] \in Request => reply[r] \in stored /\ SameKey(r, reply[r]) /\ pc[r] = "done"
    /\ reply[r] = Failed => r \notin stored /\ pc[r] = "done"

\* sendDirectMessage: at every await of every request the locks, numbers, keys,
\* attachments and answers fit together.  One message per key, gapless numbers,
\* agreeing answers and errors that stored nothing follow from it (DirectSendProofs).
DirectInv ==
  TypeOK /\ LockInv /\ KeyInv /\ StoredInv /\ OneMessagePerKey /\ MediaInv /\ ReplyInv
=============================================================================
