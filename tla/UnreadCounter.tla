---------------------------- MODULE UnreadCounter ----------------------------
(***************************************************************************)
(* Delivery receipts and the unread counter of one user in one thread.     *)
(*                                                                         *)
(* The user's devices acknowledge messages (MessagesService.ack) and mark  *)
(* the thread read (UnreadService.markAllRead) while messages arrive; each *)
(* new message and each READ acknowledgement asks the unread-recalc queue  *)
(* for a recalculation, whose job counts the unread messages and writes    *)
(* the counter.  All jobs of a user and thread share one jobId.  Every     *)
(* awaited statement is a step.  Rows, timestamps and ciphertexts of the   *)
(* envelopes are left out: the status decides what is unread.              *)
(***************************************************************************)
EXTENDS Naturals, FiniteSets

CONSTANTS
  Message,      \* messages other users send to the thread (a bound)
  Device,       \* the user's devices; each message has an envelope for each
  Ack,          \* POST /messages/:id/ack requests (a bound)
  AckStatus,    \* the statuses they carry
  MarkAll,      \* POST /messages/mark-all-read requests (a bound)
  MaxAttempts,  \* attempts of an unread-recalc job
  Faults        \* which of "crash", "redis" and "job" failures may happen

ASSUME UnreadCounterAssumption ==
  /\ AckStatus \subseteq {"DELIVERED", "READ"}
  /\ MaxAttempts \in Nat \ {0}
  /\ Faults \subseteq {"crash", "redis", "job"}
  /\ IsFiniteSet(Message)

VARIABLES
  status,    \* MessageEnvelope.status; "NONE" before the message is committed
  counter,   \* UnreadCounter.count; 0 while there is no row
  owed,      \* committed messages whose sender has yet to enqueue a recalculation
  ack,       \* ack[a]: the step and the body of an acknowledgement
  mark,      \* mark[k]: the step of a mark-all-read and the envelopes it updated
  job,       \* the state of the one job of this user and thread
  attempts,  \* its failed attempts
  counted,   \* the result of its COUNT query
  drift      \* history: since the last COUNT, what may leave the counter wrong

envelopes == <<status, owed>>
queue     == <<job, attempts, counted>>
unreadVars      == <<envelopes, counter, ack, mark, queue, drift>>

Envelope == Message \X Device
NotSent  == "NONE"
NoBody   == [step |-> "idle"]
AckBody  == [step : {"bulk", "own", "enqueue", "done"}, envelope : Envelope, status : AckStatus]
MarkBody == [step : {"idle", "open", "done"}, rows : SUBSET Envelope]

\* "waiting" covers BullMQ's delayed, waiting and backed-off jobs; "count",
\* "write" and "finish" are the steps of an active one.
ActiveJob == {"count", "write", "finish"}
JobState  == {"absent", "waiting", "failed"} \cup ActiveJob

Drift == {"ignored", "lost", "exhausted", "late_delivery", "mark_race"}

UnreadTypeOK ==
  /\ status \in [Envelope -> {"NONE", "PENDING", "DELIVERED", "READ"}]
  /\ counter \in 0 .. Cardinality(Message)
  /\ owed \subseteq Message
  /\ ack \in [Ack -> {NoBody} \cup AckBody]
  /\ mark \in [MarkAll -> MarkBody]
  /\ job \in JobState
  /\ attempts \in 0 .. MaxAttempts - 1
  /\ counted \in 0 .. Cardinality(Message)
  /\ drift \subseteq Drift

\* COUNT(DISTINCT messageId) of the user's envelopes whose status is not READ.
UnreadMessages == {m \in Message : \E d \in Device : status[<<m, d>>] \in {"PENDING", "DELIVERED"}}
Unread         == Cardinality(UnreadMessages)

UnreadInit ==
  /\ status = [e \in Envelope |-> NotSent]
  /\ counter = 0
  /\ owed = {}
  /\ ack = [a \in Ack |-> NoBody]
  /\ mark = [k \in MarkAll |-> [step |-> "idle", rows |-> {}]]
  /\ job = "absent"
  /\ attempts = 0
  /\ counted = 0
  /\ drift = {}

Note(causes) == drift' = drift \cup causes

-----------------------------------------------------------------------------
(* The queue.                                                              *)

\* enqueueRecalc: add with a jobId that exists in any state is ignored.
enqueueRecalc ==
  /\ job' = IF job = "absent" THEN "waiting" ELSE job
  /\ attempts' = IF job = "absent" THEN 0 ELSE attempts
  /\ UNCHANGED counted
  /\ Note(IF job \in {"write", "finish"} THEN {"ignored"}
          ELSE IF job = "failed" THEN {"exhausted"} ELSE {})

\* The add fails; callers only log it.
EnqueueFails ==
  /\ "redis" \in Faults
  /\ Note({"lost"})
  /\ UNCHANGED queue

JobStart ==
  /\ job = "waiting"
  /\ job' = "count"
  /\ UNCHANGED <<envelopes, counter, ack, mark, attempts, counted, drift>>

JobCount ==
  /\ job = "count"
  /\ counted' = Unread
  /\ job' = "write"
  /\ drift' = {}
  /\ UNCHANGED <<envelopes, counter, ack, mark, attempts>>

\* unreadCounter.upsert, then unread.updated is emitted.
JobWrite ==
  /\ job = "write"
  /\ counter' = counted
  /\ job' = "finish"
  /\ UNCHANGED <<envelopes, ack, mark, attempts, counted, drift>>

\* removeOnComplete: the jobId is free again.
JobFinish ==
  /\ job = "finish"
  /\ job' = "absent"
  /\ UNCHANGED <<envelopes, counter, ack, mark, attempts, counted, drift>>

\* A statement fails or the worker dies: the job is retried, or kept as failed.
JobFails ==
  /\ "job" \in Faults
  /\ job \in ActiveJob
  /\ \/ /\ attempts + 1 < MaxAttempts
        /\ job' = "waiting"
        /\ attempts' = attempts + 1
        /\ UNCHANGED drift
     \/ /\ attempts + 1 = MaxAttempts
        /\ job' = "failed"
        /\ UNCHANGED attempts
        /\ Note({"exhausted"})
  /\ UNCHANGED <<envelopes, counter, ack, mark, counted>>

\* removeOnFail: a failed job is dropped after 7 days or 100 later failures.
FailedJobRemoved ==
  /\ job = "failed"
  /\ job' = "absent"
  /\ UNCHANGED <<envelopes, counter, ack, mark, attempts, counted, drift>>

-----------------------------------------------------------------------------
(* Messages arrive: the sender's commit, then its enqueueRecalc.           *)

MessageCommitted(m) ==
  /\ \A d \in Device : status[<<m, d>>] = NotSent
  /\ status' = [e \in Envelope |-> IF e[1] = m THEN "PENDING" ELSE status[e]]
  /\ owed' = owed \cup {m}
  /\ UNCHANGED <<counter, ack, mark, queue, drift>>

SenderEnqueues(m) ==
  /\ m \in owed
  /\ owed' = owed \ {m}
  /\ enqueueRecalc \/ EnqueueFails
  /\ UNCHANGED <<status, counter, ack, mark>>

SenderCrashes(m) ==
  /\ "crash" \in Faults
  /\ m \in owed
  /\ owed' = owed \ {m}
  /\ Note({"lost"})
  /\ UNCHANGED <<status, counter, ack, mark, queue>>

-----------------------------------------------------------------------------
(* ack(userId, messageId, {deviceId, status}).                             *)

\* Envelope rows updated by an open transaction make other updates wait.
Locked == UNION {mark[k].rows : k \in {j \in MarkAll : mark[j].step = "open"}}

AckTo(a, step) == ack' = [ack EXCEPT ![a].step = step]

\* The device is active and its envelope is found.
AckFind(a) ==
  /\ ack[a].step = "idle"
  /\ \E e \in Envelope, s \in AckStatus :
       /\ status[e] # NotSent
       /\ ack' = [ack EXCEPT ![a] = [step |-> IF s = "READ" THEN "bulk" ELSE "own",
                                     envelope |-> e, status |-> s]]
  /\ UNCHANGED <<envelopes, counter, mark, queue, drift>>

\* READ only: updateMany of the user's other envelopes of the message.
AckBulk(a) ==
  LET rows == {ack[a].envelope[1]} \X Device IN
  /\ ack[a].step = "bulk"
  /\ rows \cap Locked = {}
  /\ status' = [e \in Envelope |-> IF e \in rows THEN "READ" ELSE status[e]]
  /\ AckTo(a, "own")
  /\ UNCHANGED <<owed, counter, mark, queue, drift>>

\* Mutant: a READ acknowledgement does not ask for a recalculation.
AckOwnOnly(a) ==
  LET e == ack[a].envelope IN
  /\ ack[a].step = "own"
  /\ e \notin Locked
  /\ status' = [status EXCEPT ![e] = ack[a].status]
  /\ AckTo(a, "done")
  /\ Note(IF status[e] = "READ" /\ ack[a].status = "DELIVERED" THEN {"late_delivery"} ELSE {})
  /\ UNCHANGED <<owed, counter, mark, queue>>

\* update of the device's own envelope, whatever its status is by now; then
\* message.ack is emitted.
AckOwn(a) ==
  LET e == ack[a].envelope IN
  /\ ack[a].step = "own"
  /\ e \notin Locked
  /\ status' = [status EXCEPT ![e] = ack[a].status]
  /\ AckTo(a, IF ack[a].status = "READ" THEN "enqueue" ELSE "done")
  /\ Note(IF status[e] = "READ" /\ ack[a].status = "DELIVERED" THEN {"late_delivery"} ELSE {})
  /\ UNCHANGED <<owed, counter, mark, queue>>

AckEnqueues(a) ==
  /\ ack[a].step = "enqueue"
  /\ AckTo(a, "done")
  /\ enqueueRecalc \/ EnqueueFails
  /\ UNCHANGED <<envelopes, counter, mark>>

AckCrashes(a) ==
  /\ "crash" \in Faults
  /\ ack[a].step \in {"bulk", "own", "enqueue"}
  /\ AckTo(a, "done")
  /\ Note({"lost"})
  /\ UNCHANGED <<envelopes, counter, mark, queue>>

-----------------------------------------------------------------------------
(* markAllRead: one transaction, no recalculation is enqueued.             *)

\* updateMany of every envelope of the thread that is not READ.
MarkEnvelopes(k) ==
  LET rows == {e \in Envelope : status[e] \in {"PENDING", "DELIVERED"}} IN
  /\ mark[k].step = "idle"
  /\ rows \cap Locked = {}
  /\ mark' = [mark EXCEPT ![k] = [step |-> "open", rows |-> rows]]
  /\ UNCHANGED <<envelopes, counter, ack, queue, drift>>

\* The counter is set to 0 and the transaction commits.
MarkCommit(k) ==
  /\ mark[k].step = "open"
  /\ status' = [e \in Envelope |-> IF e \in mark[k].rows THEN "READ" ELSE status[e]]
  /\ counter' = 0
  /\ mark' = [mark EXCEPT ![k] = [step |-> "done", rows |-> {}]]
  /\ Note(IF job = "write" \/ UnreadMessages' # {} THEN {"mark_race"} ELSE {})
  /\ UNCHANGED <<owed, ack, queue>>

MarkRollback(k) ==
  /\ "crash" \in Faults
  /\ mark[k].step = "open"
  /\ mark' = [mark EXCEPT ![k] = [step |-> "done", rows |-> {}]]
  /\ UNCHANGED <<envelopes, counter, ack, queue, drift>>

-----------------------------------------------------------------------------
JobStep == JobStart \/ JobCount \/ JobWrite \/ JobFinish
AckStep(a) == AckBulk(a) \/ AckOwn(a) \/ AckEnqueues(a)

UnreadNext ==
  \/ JobStep \/ JobFails \/ FailedJobRemoved
  \/ \E m \in Message : MessageCommitted(m) \/ SenderEnqueues(m) \/ SenderCrashes(m)
  \/ \E a \in Ack : AckFind(a) \/ AckStep(a) \/ AckCrashes(a)
  \/ \E k \in MarkAll : MarkEnvelopes(k) \/ MarkCommit(k) \/ MarkRollback(k)

UnreadSpec == UnreadInit /\ [][UnreadNext]_unreadVars

-----------------------------------------------------------------------------
(* Properties.                                                             *)

\* A correction is under way: a handler that changed what is unread has yet to ask for a
\* recalculation, or a job has yet to read the envelopes.
Correcting ==
  \/ owed # {}
  \/ job \in {"waiting", "count"}
  \/ \E a \in Ack : \/ ack[a].step = "enqueue"
                    \/ ack[a].step = "own" /\ ack[a].status = "READ"

\* The counter, or what a job that has read the envelopes is about to write to it, differs
\* from the number of unread messages only while a correction is under way, or after one
\* of the listed events since the last COUNT: a recalculation was ignored while a job past
\* its COUNT held the jobId, was lost, or its job was given up; a DELIVERED
\* acknowledgement overwrote READ; or mark-all-read raced a job or a new message.  The
\* next job that runs repairs all of them.
DriftIsExplained ==
  drift = {} /\ ~Correcting => (IF job = "write" THEN counted ELSE counter) = Unread

\* ack: the envelope it found exists, and stays; only READ reaches the other devices.
FoundInv ==
  \A a \in Ack : /\ ack[a].step # "idle" => status[ack[a].envelope] # NotSent
                 /\ ack[a].step = "bulk" => ack[a].status = "READ"

\* recalcUnread and its callers: the state is well formed and no drift is unexplained.
UnreadInv == UnreadTypeOK /\ DriftIsExplained /\ FoundInv
=============================================================================
