------------------------------ MODULE GroupSend ------------------------------
(***************************************************************************)
(* Sending to a group: GroupsService.queueGroupMessage (and the same       *)
(* statements in MessagesService.forwardToGroup) and the group-fanout job  *)
(* that turns the stored message into one envelope per device.             *)
(*                                                                         *)
(* As in DirectSend a step is one awaited statement, a retry is a further  *)
(* request with the same idempotency key, and a Message row is named by    *)
(* the request that inserted it.  Unlike a direct thread, a group has no   *)
(* row that serialises its senders: the next number is MAX + 1, read       *)
(* without a lock, and only the unique indexes keep order.                 *)
(***************************************************************************)
EXTENDS Integers, FiniteSets

CONSTANTS
  Request,         \* the requests of a behaviour: the bound on sends and retries
  Group, User, Device, Key, Media,
  Owner,           \* Device.userId
  MediaOwner,      \* MessageMedia.userId
  Uploaded,        \* MessageMedia rows whose uploadStatus is COMPLETE
  MaxAttachments,  \* MEDIA_MAX_ATTACHMENTS_PER_MESSAGE
  Dto,             \* the request bodies clients send
  Members,         \* the initial members of each group
  ChangingMember,  \* users that others add to a group or remove meanwhile
  ChangingDevice,  \* devices that are registered or deactivated meanwhile
  MaxAttempts,     \* attempts of a group-fanout job
  Faults,          \* which of "crash", "redis" and "job" failures may happen
  None,            \* no request, no message, no reply
  Failed,          \* an HTTP error
  Conflict         \* the HTTP 500 of a P2002 nobody catches

Bodies == [sender : User, device : Device, group : Group, key : Key,
           media : SUBSET Media, replyTo : Request \cup {None}]

ASSUME GroupSendAssumption ==
  /\ Owner \in [Device -> User]
  /\ MediaOwner \in [Media -> User]
  /\ Uploaded \subseteq Media
  /\ MaxAttachments \in Nat
  /\ Dto \subseteq Bodies
  /\ Members \in [Group -> SUBSET User]
  /\ ChangingMember \subseteq User
  /\ ChangingDevice \subseteq Device
  /\ MaxAttempts \in Nat \ {0}
  /\ Faults \subseteq {"crash", "redis", "job"}
  /\ {None, Failed, Conflict} \cap Request = {}
  /\ None \notin Bodies \cup [key : Device \X Key, thread : Group]
  /\ None # Failed /\ None # Conflict /\ Failed # Conflict

VARIABLES
  members,         \* GroupMember rows
  active,          \* devices with active = true
  stored,          \* committed Message rows
  bound,           \* bound[m]: MessageMedia rows the transaction of m set to m
  pc, dto,
  threadSequence,  \* the number the transaction of a request computed
  result,          \* the message its transaction returned
  reply,           \* what it was answered with
  job,             \* job[r]: the state of the fan-out job request r added
  attempts,        \* its failed attempts
  targets,         \* the devices it read
  envelopes,       \* MessageEnvelope rows: unique per message and device
  announced,       \* message.new events: message and device
  recalc           \* unread recalculations enqueued: message and recipient

directory == <<members, active>>
database  == <<stored, bound>>
request   == <<pc, dto, threadSequence, result, reply>>
queue     == <<job, attempts, targets>>
effects   == <<envelopes, announced, recalc>>
vars      == <<directory, database, request, queue, effects>>

Before   == {"member", "lookup"}
InTx     == {"lookupTx", "sequence", "check", "insert", "attach", "commit"}
Step     == {"idle", "add", "done", "crashed"} \cup Before \cup InTx
Running  == {"waiting", "create", "emit", "recalc"}
JobState == {"absent", "done", "failed"} \cup Running

TypeOK ==
  /\ members \in [Group -> SUBSET User]
  /\ active \in SUBSET Device
  /\ stored \in SUBSET Request
  /\ bound \in [Request -> SUBSET Media]
  /\ pc \in [Request -> Step]
  /\ dto \in [Request -> Bodies \cup {None}]
  /\ \A r \in Request : pc[r] # "idle" => dto[r] \in Bodies
  /\ threadSequence \in [Request -> Nat]
  /\ result \in [Request -> Request \cup {None}]
  /\ reply \in [Request -> Request \cup {None, Failed, Conflict}]
  /\ job \in [Request -> JobState]
  /\ attempts \in [Request -> 0 .. MaxAttempts - 1]
  /\ targets \in [Request -> SUBSET Device]
  /\ envelopes \in SUBSET (Request \X Device)
  /\ announced \in SUBSET (Request \X Device)
  /\ recalc \in SUBSET (Request \X User)

Init ==
  /\ members = Members
  /\ active = Device
  /\ stored = {}
  /\ bound = [m \in Request |-> {}]
  /\ pc = [r \in Request |-> "idle"]
  /\ dto = [r \in Request |-> None]
  /\ threadSequence = [r \in Request |-> 0]
  /\ result = [r \in Request |-> None]
  /\ reply = [r \in Request |-> None]
  /\ job = [r \in Request |-> "absent"]
  /\ attempts = [r \in Request |-> 0]
  /\ targets = [r \in Request |-> {}]
  /\ envelopes = {}
  /\ announced = {}
  /\ recalc = {}

-----------------------------------------------------------------------------
(* Members come and go, devices are registered and deactivated.            *)

\* The row addMembers creates or removeMember deletes.
MemberChange(g, u) ==
  /\ members' = [members EXCEPT ![g] = IF u \in @ THEN @ \ {u} ELSE @ \cup {u}]
  /\ UNCHANGED <<active, database, request, queue, effects>>

DeviceChange(d) ==
  /\ active' = IF d \in active THEN active \ {d} ELSE active \cup {d}
  /\ UNCHANGED <<members, database, request, queue, effects>>

-----------------------------------------------------------------------------
(* queueGroupMessage.                                                      *)

\* The unique index on (senderDeviceId, idempotencyKey).
senderDeviceId_idempotencyKey(r) == <<dto[r].device, dto[r].key>>

SameKey(r, m) ==
  senderDeviceId_idempotencyKey(r) = senderDeviceId_idempotencyKey(m)

Existing(r) == {m \in stored : SameKey(r, m)}

Goto(r, step) == pc' = [pc EXCEPT ![r] = step]

Answer(r, m) ==
  /\ reply' = [reply EXCEPT ![r] = m]
  /\ Goto(r, "done")

Receive(r) ==
  /\ pc[r] = "idle"
  /\ \E d \in Dto : dto' = [dto EXCEPT ![r] = d]
  /\ Goto(r, "member")
  /\ UNCHANGED <<directory, database, threadSequence, result, reply, queue, effects>>

CheckMember(r) ==
  /\ pc[r] = "member"
  /\ \/ /\ dto[r].sender \in members[dto[r].group]
        /\ Goto(r, "lookup")
        /\ UNCHANGED reply
     \/ /\ dto[r].sender \notin members[dto[r].group]
        /\ Answer(r, Failed)
  /\ UNCHANGED <<directory, database, dto, threadSequence, result, queue, effects>>

\* The idempotency check before the transaction: success, queued: false.
Lookup(r) ==
  /\ pc[r] = "lookup"
  /\ \/ \E m \in Existing(r) : Answer(r, m)
     \/ /\ Existing(r) = {}
        /\ Goto(r, "lookupTx")
        /\ UNCHANGED reply
  /\ UNCHANGED <<directory, database, dto, threadSequence, result, queue, effects>>

\* The same check inside the transaction, whose result goes on to the queue.
LookupTx(r) ==
  /\ pc[r] = "lookupTx"
  /\ \/ \E m \in Existing(r) :
          /\ result' = [result EXCEPT ![r] = m]
          /\ Goto(r, "add")
     \/ /\ Existing(r) = {}
        /\ Goto(r, "sequence")
        /\ UNCHANGED result
  /\ UNCHANGED <<directory, database, dto, threadSequence, reply, queue, effects>>

GroupMessages(g) == {m \in stored : dto[m].group = g}

Numbers(g) == {threadSequence[m] : m \in GroupMessages(g)}

Largest(S) == CHOOSE n \in S : \A k \in S : k <= n

\* lastMessage?.threadSequence ?? 0
LastSequence(g) == IF Numbers(g) = {} THEN 0 ELSE Largest(Numbers(g))

ReadSequence(r) ==
  /\ pc[r] = "sequence"
  /\ threadSequence' = [threadSequence EXCEPT ![r] = LastSequence(dto[r].group) + 1]
  /\ Goto(r, "check")
  /\ UNCHANGED <<directory, database, dto, result, reply, queue, effects>>

\* Mutant: the nesting of replies is not checked.
ValidReplyNested(r) ==
  dto[r].replyTo \in {None} \cup GroupMessages(dto[r].group)

\* Reply target: it exists, is in this group and is not itself a reply.
ValidReply(r) ==
  LET target == dto[r].replyTo IN
  \/ target = None
  \/ target \in GroupMessages(dto[r].group) /\ dto[target].replyTo = None

BoundMedia == UNION {bound[m] : m \in stored}

assertAttachmentsOwned(r) ==
  /\ Cardinality(dto[r].media) <= MaxAttachments
  /\ \A x \in dto[r].media : /\ MediaOwner[x] = dto[r].sender
                             /\ x \notin BoundMedia
                             /\ x \in Uploaded

\* The transaction leaves nothing behind.
Rollback(r) ==
  /\ bound' = [bound EXCEPT ![r] = {}]
  /\ UNCHANGED stored

CheckBody(r) ==
  /\ pc[r] = "check"
  /\ \/ /\ ValidReply(r) /\ assertAttachmentsOwned(r)
        /\ Goto(r, "insert")
        /\ UNCHANGED <<database, reply>>
     \/ /\ ~(ValidReply(r) /\ assertAttachmentsOwned(r))
        /\ Rollback(r)
        /\ Answer(r, Failed)
  /\ UNCHANGED <<directory, dto, threadSequence, result, queue, effects>>

\* Mutants: one of the two unique indexes is missing.
ClashOfPlace(r, m) ==
  dto[r].group = dto[m].group /\ threadSequence[r] = threadSequence[m]

ClashOfKey(r, m) == SameKey(r, m)

\* The two rows may not both exist: same idempotency key, or same place.
Clash(r, m) ==
  \/ SameKey(r, m)
  \/ dto[r].group = dto[m].group /\ threadSequence[r] = threadSequence[m]

UniqueViolation(r) == \E m \in stored : Clash(r, m)

\* message.create waits for an open transaction that inserted a clashing row; a
\* unique violation is not caught here and ends the request with a 500.
InsertMessage(r) ==
  /\ pc[r] = "insert"
  /\ \A q \in Request \ {r} : ~(pc[q] \in {"attach", "commit"} /\ Clash(r, q))
  /\ \/ /\ ~UniqueViolation(r)
        /\ Goto(r, "attach")
        /\ UNCHANGED <<database, reply>>
     \/ /\ UniqueViolation(r)
        /\ Rollback(r)
        /\ Answer(r, Conflict)
  /\ UNCHANGED <<directory, dto, threadSequence, result, queue, effects>>

\* updateMany ... where messageId is null, as in DirectSend.
AttachMedia(r) ==
  /\ pc[r] = "attach"
  /\ \A q \in Request \ {r} : pc[q] = "commit" => bound[q] \cap dto[r].media = {}
  /\ bound' = [bound EXCEPT ![r] = dto[r].media \ BoundMedia]
  /\ Goto(r, "commit")
  /\ UNCHANGED <<directory, stored, dto, threadSequence, result, reply, queue, effects>>

Commit(r) ==
  /\ pc[r] = "commit"
  /\ stored' = stored \cup {r}
  /\ result' = [result EXCEPT ![r] = r]
  /\ Goto(r, "add")
  /\ UNCHANGED <<directory, bound, dto, threadSequence, reply, queue, effects>>

\* A statement of the transaction fails for another reason.
Abort(r) ==
  /\ "crash" \in Faults
  /\ pc[r] \in InTx
  /\ Rollback(r)
  /\ Answer(r, Failed)
  /\ UNCHANGED <<directory, dto, threadSequence, result, queue, effects>>

\* Mutant: the answer names the request's own row, also when another was found.
QueueFanoutOwnRow(r) ==
  /\ pc[r] = "add"
  /\ job' = [job EXCEPT ![r] = "waiting"]
  /\ Answer(r, r)
  /\ UNCHANGED <<directory, database, dto, threadSequence, result, attempts, targets, effects>>

\* fanoutQueue.add, after which the request succeeds with queued: true.
QueueFanout(r) ==
  /\ pc[r] = "add"
  /\ job' = [job EXCEPT ![r] = "waiting"]
  /\ Answer(r, result[r])
  /\ UNCHANGED <<directory, database, dto, threadSequence, result, attempts, targets, effects>>

\* The add throws: the client gets an error although the message is stored.
QueueFails(r) ==
  /\ "redis" \in Faults
  /\ pc[r] = "add"
  /\ Answer(r, Failed)
  /\ UNCHANGED <<directory, database, dto, threadSequence, result, queue, effects>>

\* The instance dies: an open transaction is rolled back, nobody answers.
Crash(r) ==
  /\ "crash" \in Faults
  /\ pc[r] \in Before \cup InTx \cup {"add"}
  /\ IF pc[r] \in InTx THEN Rollback(r) ELSE UNCHANGED database
  /\ Goto(r, "crashed")
  /\ UNCHANGED <<directory, dto, threadSequence, result, reply, queue, effects>>

-----------------------------------------------------------------------------
(* GroupFanoutProcessor.process.  The job's data are the body of the       *)
(* request that added it and the message its transaction returned.         *)

Job(r, state) == job' = [job EXCEPT ![r] = state]

\* Active devices of the members at this moment, without the sending device.
TargetDevices(r) ==
  {d \in active : Owner[d] \in members[dto[r].group]} \ {dto[r].device}

FanoutDevices(r) ==
  /\ job[r] = "waiting"
  /\ targets' = [targets EXCEPT ![r] = TargetDevices(r)]
  /\ Job(r, IF TargetDevices(r) = {} THEN "done" ELSE "create")
  /\ UNCHANGED <<directory, database, request, attempts, effects>>

\* createMany with skipDuplicates.
FanoutCreate(r) ==
  /\ job[r] = "create"
  /\ envelopes' = envelopes \cup ({result[r]} \X targets[r])
  /\ Job(r, "emit")
  /\ UNCHANGED <<directory, database, request, attempts, targets, announced, recalc>>

\* Mutant: the event goes to the devices that are active by now.
FanoutEmitToAll(r) ==
  /\ job[r] = "emit"
  /\ announced' = announced \cup ({result[r]} \X TargetDevices(r))
  /\ Job(r, "recalc")
  /\ UNCHANGED <<directory, database, request, attempts, targets, envelopes, recalc>>

\* message.created, to every device of this attempt.
FanoutEmit(r) ==
  /\ job[r] = "emit"
  /\ announced' = announced \cup ({result[r]} \X targets[r])
  /\ Job(r, "recalc")
  /\ UNCHANGED <<directory, database, request, attempts, targets, envelopes, recalc>>

Recipients(r) == {Owner[d] : d \in targets[r]} \ {dto[r].sender}

\* One enqueueRecalc per recipient, all awaited.
FanoutRecalc(r) ==
  /\ job[r] = "recalc"
  /\ recalc' = recalc \cup ({result[r]} \X Recipients(r))
  /\ Job(r, "done")
  /\ UNCHANGED <<directory, database, request, attempts, targets, envelopes, announced>>

\* Mutant: an error of the job is caught and logged.
FanoutSwallowsErrors(r) ==
  /\ "job" \in Faults
  /\ job[r] \in Running
  /\ Job(r, "done")
  /\ UNCHANGED <<directory, database, request, attempts, targets, effects>>

\* A statement fails or the worker dies; at the last step some of the
\* recalculations may have been enqueued.  The attempt starts over.
FanoutFails(r) ==
  /\ "job" \in Faults
  /\ job[r] \in Running
  /\ \E U \in SUBSET Recipients(r) :
       /\ job[r] # "recalc" => U = {}
       /\ recalc' = recalc \cup ({result[r]} \X U)
  /\ \/ /\ attempts[r] + 1 < MaxAttempts
        /\ attempts' = [attempts EXCEPT ![r] = @ + 1]
        /\ Job(r, "waiting")
     \/ /\ attempts[r] + 1 = MaxAttempts
        /\ Job(r, "failed")
        /\ UNCHANGED attempts
  /\ UNCHANGED <<directory, database, request, targets, envelopes, announced>>

-----------------------------------------------------------------------------
\* One step of the handler of r.  forwardToGroup, called by forward for each group
\* target with a key derived from the request's, takes the same steps.
ServerStep(r) ==
  \/ CheckMember(r) \/ Lookup(r) \/ LookupTx(r) \/ ReadSequence(r) \/ CheckBody(r)
  \/ InsertMessage(r) \/ AttachMedia(r) \/ Commit(r) \/ QueueFanout(r)

WorkerStep(r) ==
  FanoutDevices(r) \/ FanoutCreate(r) \/ FanoutEmit(r) \/ FanoutRecalc(r)

Next ==
  \/ \E g \in Group, u \in ChangingMember : MemberChange(g, u)
  \/ \E d \in ChangingDevice : DeviceChange(d)
  \/ \E r \in Request :
       \/ Receive(r) \/ ServerStep(r) \/ Abort(r) \/ QueueFails(r) \/ Crash(r)
       \/ WorkerStep(r) \/ FanoutFails(r)

Spec == Init /\ [][Next]_vars

\* Received requests and queued jobs keep being served; clients and failures owe
\* nothing.
FairSpec ==
  /\ Spec
  /\ \A r \in Request : WF_vars(ServerStep(r)) /\ WF_vars(WorkerStep(r))

-----------------------------------------------------------------------------
(* The abstract log this implements.                                       *)

GroupLog ==
  [g \in Group |-> [i \in 1 .. LastSequence(g) |->
     CHOOSE m \in GroupMessages(g) : threadSequence[m] = i]]

Asked ==
  [r \in Request |->
     IF dto[r] = None THEN None
     ELSE [key |-> senderDeviceId_idempotencyKey(r), thread |-> dto[r].group]]

\* A 500 is an error like any other.
Replied == [r \in Request |-> IF reply[r] = Conflict THEN Failed ELSE reply[r]]

Log == INSTANCE MessageLog
         WITH Thread <- Group, Ident <- Device \X Key,
              asked <- Asked, log <- GroupLog, reply <- Replied

-----------------------------------------------------------------------------
(* Properties.                                                             *)

\* As long as the queue accepts jobs, sending to a group is the same atomic
\* append to a log as sending to a direct thread, although nothing locks the
\* group: the unique indexes alone order the senders.
ImplementsMessageLog == Log!Spec

\* A retried or raced send never stores a second message of its key.
OneMessagePerKey == \A m, n \in stored : SameKey(m, n) => m = n

\* Every request answered with a message is answered with the one committed
\* message of its key, whichever of the two checks or the insert found it.
RepliesAgree ==
  \A r, q \in Request :
    /\ reply[r] \in Request
    /\ reply[q] \in Request
    /\ SameKey(r, q)
    => reply[r] = reply[q] /\ reply[r] \in stored

\* The messages of a group are numbered 1, 2, 3 ... with no gap and no
\* repetition, although MAX + 1 is computed from a read that may be stale.
GaplessSequence ==
  \A g \in Group :
    /\ Numbers(g) = 1 .. LastSequence(g)
    /\ \A m, n \in GroupMessages(g) : threadSequence[m] = threadSequence[n] => m = n

\* Messages of a group become visible in the order of their numbers: a
\* transaction that computed a smaller number and commits later cannot exist.
VisibleInOrder ==
  [][\A m \in stored' \ stored, n \in stored :
       dto'[m].group = dto[n].group => threadSequence'[m] > threadSequence[n]]_vars

\* An attachment belongs to at most one message, also when two sends to the same
\* group, which nothing serialises, offer it at the same time.
MediaBoundOnce ==
  \A m, n \in stored : m # n => bound[m] \cap bound[n] = {}

\* Replies are one level deep and stay within their group, although the target is
\* read some statements before the reply is inserted.
RepliesAreFlat ==
  \A m \in stored : dto[m].replyTo # None =>
    dto[m].replyTo \in GroupMessages(dto[m].group) /\ dto[dto[m].replyTo].replyTo = None

\* Whatever attempt of whatever job announced a message to a device, and
\* whatever recalculation it asked for, the envelopes are there: a client that
\* hears of a message can fetch and acknowledge it, a COUNT includes it.
AnnouncedIsStored ==
  /\ announced \subseteq envelopes
  /\ \A p \in recalc : \E d \in Device : Owner[d] = p[2] /\ <<p[1], d>> \in envelopes

\* Devices nobody removes, in a group they are not removed from.
Steady(g) ==
  {d \in Device \ ChangingDevice : Owner[d] \in Members[g] \ ChangingMember}

\* The envelopes of every steady device but the sending one.
FannedOut(m) ==
  /\ m \in stored
  /\ {m} \X (Steady(dto[m].group) \ {dto[m].device}) \subseteq envelopes

\* A stored message reaches every steady device of its group, unless its request
\* died or failed before it queued the job, or the job used up its attempts.
FanoutCompletes ==
  \A r \in Request :
    r \in stored ~> \/ FannedOut(r)
                    \/ job[r] = "absent" /\ pc[r] \in {"crashed", "done"}
                    \/ job[r] = "failed"

-----------------------------------------------------------------------------
(* The inductive invariant behind the safety properties.                   *)

\* A committed row belongs to a request past its commit; the rows of a group are
\* numbered 1, 2, 3 ... and no two rows clash on a unique index.
StoredInv ==
  /\ \A m \in stored : pc[m] \in {"add", "done", "crashed"}
  /\ \A g \in Group : \E n \in {0} \cup {threadSequence[m] : m \in Request} :
       Numbers(g) = 1 .. n
  /\ \A m, n \in stored : Clash(m, n) => m = n

\* The number a transaction computed is taken by now, or is still the next one.
OpenInv ==
  \A r \in Request : pc[r] \in {"check", "insert", "attach", "commit"} =>
    threadSequence[r] \in 1 .. LastSequence(dto[r].group) + 1

\* A row that is inserted and not yet committed clashes with nothing, committed
\* or not.
ClashInv ==
  \A r \in Request : pc[r] \in {"attach", "commit"} =>
    /\ \A m \in stored : ~Clash(r, m)
    /\ \A q \in Request : pc[q] \in {"attach", "commit"} /\ Clash(r, q) => q = r

\* Attachments of committed rows and of a transaction about to commit.
MediaInv ==
  \A m, n \in Request :
    /\ m \in stored \/ pc[m] = "commit"
    /\ n \in stored \/ pc[n] = "commit"
    /\ m # n
    => bound[m] \cap bound[n] = {}

\* What a request is answered with, and what its job fans out, is the committed
\* message of its own key.
ResultInv ==
  \A r \in Request :
    /\ pc[r] = "add" \/ job[r] # "absent" => result[r] \in Existing(r)
    /\ reply[r] \in Request => reply[r] \in Existing(r)
    /\ job[r] # "absent" \/ reply[r] # None => pc[r] = "done"

\* A job past createMany has stored the envelopes of this attempt's devices.
FanoutInv ==
  \A r \in Request : job[r] \in {"emit", "recalc"} =>
    {result[r]} \X targets[r] \subseteq envelopes

\* sendMessage and the fan-out job: what open transactions, committed rows, answers
\* and jobs say of each other.  One message per key, gapless numbers, agreeing answers
\* and attachments bound once follow from it (GroupSendProofs).
GroupInv ==
  /\ TypeOK /\ StoredInv /\ OpenInv /\ ClashInv /\ MediaInv
  /\ ResultInv /\ FanoutInv /\ AnnouncedIsStored
=============================================================================
