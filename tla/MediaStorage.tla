---------------------------- MODULE MediaStorage ----------------------------
(***************************************************************************)
(* The life of an attachment: upload (MediaService.initUpload and          *)
(* completeUpload), binding to a message, copies made by forwarding        *)
(* (cloneMediaForForward), deletion for everyone (MessagesService.delete   *)
(* and cleanupMessageMedia), tombstones set and taken back by moderators,  *)
(* the storage-cleanup queue and the daily media-cleanup sweep.            *)
(*                                                                         *)
(* An attachment is a MessageMedia row and an object in R2; copies are     *)
(* rows of other messages with the same bucketKey.  One bucketKey is       *)
(* modelled: different ones share nothing.  Row 0 is the uploaded one, a   *)
(* copy is named by the forward that made it, and a message by its row.    *)
(* thumbnailBucketKey is never set by the code and left out.               *)
(***************************************************************************)
EXTENDS Naturals, FiniteSets

CONSTANTS
  Forward,      \* forward requests (a bound); each makes one copy
  MaxAttempts,  \* attempts of a storage-cleanup job
  Faults        \* which of "crash", "redis" and "r2" failures may happen

ASSUME MediaStorageAssumption ==
  /\ 0 \notin Forward
  /\ MaxAttempts \in Nat \ {0}
  /\ Faults \subseteq {"crash", "redis", "r2"}

Original == 0
Row      == {Original} \cup Forward

VARIABLES
  object,    \* the object is in the bucket
  expired,   \* the upload URL has expired and createdAt is past the cutoff
  status,    \* uploadStatus of row 0: "none" = no row
  complete,  \* the step of completeUpload
  live,      \* messages that exist and are not deleted
  deleted,   \* tombstoned messages; their rows stay
  forward,   \* forward[f]: the step of a forward and its source message
  cleanup,   \* cleanup[m]: the step of cleanupMessageMedia(m)
  job,       \* job[m]: the storage-cleanup job that cleanup added
  attempts,
  sweep,     \* the step of the media-cleanup job
  raced      \* history: what overtook a decision that had been taken

bucket   == <<object, expired>>
upload   == <<status, complete>>
messages == <<live, deleted, forward>>
queue    == <<cleanup, job, attempts>>
vars     == <<bucket, upload, messages, queue, sweep, raced>>

\* Rows that are bound to a message: of live and of tombstoned ones.
Bound == live \cup deleted

NoForward == [step |-> "idle"]
Forwarding == {NoForward} \cup [step : {"read", "done"}, source : Row]

TypeOK ==
  /\ object \in BOOLEAN /\ expired \in BOOLEAN
  /\ status \in {"none", "PENDING", "COMPLETE", "removed"}
  /\ complete \in {"idle", "verify", "update", "ok", "error"}
  /\ live \subseteq Row /\ deleted \subseteq Row /\ live \cap deleted = {}
  /\ forward \in [Forward -> Forwarding]
  /\ cleanup \in [Row -> {"idle", "count", "add", "done", "lost"}]
  /\ job \in [Row -> {"absent", "waiting", "done", "failed"}]
  /\ attempts \in [Row -> 0 .. MaxAttempts - 1]
  /\ sweep \in {"idle", "delete", "rows", "done"}
  /\ raced \subseteq {"forward", "sweep", "restore"}

Init ==
  /\ object = FALSE /\ expired = FALSE
  /\ status = "none"
  /\ complete = "idle"
  /\ live = {} /\ deleted = {}
  /\ forward = [f \in Forward |-> NoForward]
  /\ cleanup = [m \in Row |-> "idle"]
  /\ job = [m \in Row |-> "absent"]
  /\ attempts = [m \in Row |-> 0]
  /\ sweep = "idle"
  /\ raced = {}

-----------------------------------------------------------------------------
(* Upload.                                                                 *)

\* initUpload: a presigned URL and a PENDING row.
initUpload ==
  /\ status = "none"
  /\ status' = "PENDING"
  /\ UNCHANGED <<bucket, complete, messages, queue, sweep, raced>>

\* The client's PUT to that URL.
PutObject ==
  /\ status # "none" /\ ~expired
  /\ object' = TRUE
  /\ UNCHANGED <<expired, upload, messages, queue, sweep, raced>>

\* A day passes; the URL is valid for minutes only.
Expire ==
  /\ status # "none" /\ ~expired
  /\ expired' = TRUE
  /\ UNCHANGED <<object, upload, messages, queue, sweep, raced>>

\* completeUpload: the row is PENDING, then the object is looked up, then the row
\* is updated by its id.
CompleteCheck ==
  /\ complete \in {"idle", "error"}
  /\ status = "PENDING"
  /\ complete' = "verify"
  /\ UNCHANGED <<bucket, status, messages, queue, sweep, raced>>

CompleteVerify ==
  /\ complete = "verify"
  /\ \/ object /\ complete' = "update"
     \/ (~object \/ "r2" \in Faults) /\ complete' = "error"
  /\ UNCHANGED <<bucket, status, messages, queue, sweep, raced>>

CompleteUpdate ==
  /\ complete = "update"
  /\ \/ /\ status = "PENDING"
        /\ status' = "COMPLETE"
        /\ complete' = "ok"
        /\ raced' = IF sweep \in {"delete", "rows"} \/ ~object THEN raced \cup {"sweep"} ELSE raced
     \/ /\ status = "removed"
        /\ complete' = "error"
        /\ UNCHANGED <<status, raced>>
  /\ UNCHANGED <<bucket, messages, queue, sweep>>

\* A send commits with the attachment (DirectSend and GroupSend).
Bind ==
  /\ status = "COMPLETE"
  /\ Original \notin Bound
  /\ live' = live \cup {Original}
  /\ UNCHANGED <<bucket, upload, deleted, forward, queue, sweep, raced>>

-----------------------------------------------------------------------------
(* Forwarding.                                                             *)

\* The source message is not deleted and its media rows are read.
ForwardRead(f) ==
  /\ forward[f].step = "idle"
  /\ \E m \in live :
       forward' = [forward EXCEPT ![f] = [step |-> "read", source |-> m]]
  /\ UNCHANGED <<bucket, upload, live, deleted, queue, sweep, raced>>

\* Some clean-up has found no other row and will delete the object, or has.
Decided == \E m \in Row : cleanup[m] = "add" \/ job[m] # "absent"

\* cloneMediaForForward: the new message commits with a row for the same key.  It
\* comes too late if the deletion of the object has been decided already.
ForwardCommit(f) ==
  /\ forward[f].step = "read"
  /\ live' = live \cup {f}
  /\ forward' = [forward EXCEPT ![f].step = "done"]
  /\ raced' = IF Decided THEN raced \cup {"forward"} ELSE raced
  /\ UNCHANGED <<bucket, upload, deleted, queue, sweep>>

-----------------------------------------------------------------------------
(* Deletion.                                                               *)

\* delete, scope FOR_EVERYONE: the tombstone, then cleanupMessageMedia, which is
\* not awaited.  A message that is deleted already may be deleted again (one
\* clean-up per message at a time is a bound).
Delete(m) ==
  /\ m \in Bound
  /\ cleanup[m] \notin {"count", "add"} /\ job[m] # "waiting"
  /\ live' = live \ {m}
  /\ deleted' = deleted \cup {m}
  /\ cleanup' = [cleanup EXCEPT ![m] = "count"]
  /\ UNCHANGED <<bucket, upload, forward, job, attempts, sweep, raced>>

\* ModerationService: the tombstone alone; the attachment is kept.
tombstoneMessage(m) ==
  /\ m \in live
  /\ live' = live \ {m}
  /\ deleted' = deleted \cup {m}
  /\ UNCHANGED <<bucket, upload, forward, queue, sweep, raced>>

\* The tombstone is removed, also one that the sender's delete has set: the
\* clean-up may have begun, and looks only at the rows of other messages.
untombstoneMessage(m) ==
  /\ m \in deleted
  /\ live' = live \cup {m}
  /\ deleted' = deleted \ {m}
  /\ raced' = IF Decided \/ cleanup[m] = "count" THEN raced \cup {"restore"} ELSE raced
  /\ UNCHANGED <<bucket, upload, forward, queue, sweep>>

\* Mutant: copies are not looked for.
OtherRefsNone(m) == {}

\* Mutant: the message's own row is counted too.
OtherRefsOwn(m) == Bound

\* Rows of other messages with this bucketKey, tombstoned ones included.
OtherRefs(m) == Bound \ {m}

\* The row of m may be gone by now, swept away.
CleanupCount(m) ==
  /\ cleanup[m] = "count"
  /\ cleanup' = [cleanup EXCEPT ![m] =
       IF OtherRefs(m) = {} /\ ~(m = Original /\ status = "removed") THEN "add" ELSE "done"]
  /\ UNCHANGED <<bucket, upload, messages, job, attempts, sweep, raced>>

\* storageCleanupQueue.add; a failure is logged.
CleanupAdd(m) ==
  /\ cleanup[m] = "add"
  /\ \/ /\ cleanup' = [cleanup EXCEPT ![m] = "done"]
        /\ job' = [job EXCEPT ![m] = "waiting"]
        /\ attempts' = [attempts EXCEPT ![m] = 0]
     \/ /\ "redis" \in Faults
        /\ cleanup' = [cleanup EXCEPT ![m] = "lost"]
        /\ UNCHANGED <<job, attempts>>
  /\ UNCHANGED <<bucket, upload, messages, sweep, raced>>

CleanupCrashes(m) ==
  /\ "crash" \in Faults
  /\ cleanup[m] \in {"count", "add"}
  /\ cleanup' = [cleanup EXCEPT ![m] = "lost"]
  /\ UNCHANGED <<bucket, upload, messages, job, attempts, sweep, raced>>

\* StorageCleanupProcessor: a missing object counts as deleted.
StorageCleanup(m) ==
  /\ job[m] = "waiting"
  /\ object' = FALSE
  /\ job' = [job EXCEPT ![m] = "done"]
  /\ UNCHANGED <<expired, upload, messages, cleanup, attempts, sweep, raced>>

StorageCleanupFails(m) ==
  /\ "r2" \in Faults
  /\ job[m] = "waiting"
  /\ \/ /\ attempts[m] + 1 < MaxAttempts
        /\ attempts' = [attempts EXCEPT ![m] = @ + 1]
        /\ UNCHANGED job
     \/ /\ attempts[m] + 1 = MaxAttempts
        /\ job' = [job EXCEPT ![m] = "failed"]
        /\ UNCHANGED attempts
  /\ UNCHANGED <<bucket, upload, messages, cleanup, sweep, raced>>

-----------------------------------------------------------------------------
(* MediaCleanupProcessor: read the stale rows, delete their objects, then  *)
(* delete the rows by id, without looking at them again.                   *)

SweepRead ==
  /\ sweep \in {"idle", "done"}
  /\ status = "PENDING" /\ expired
  /\ sweep' = "delete"
  /\ UNCHANGED <<bucket, upload, messages, queue, raced>>

\* tryDeleteR2Object; the row is kept when it fails.
SweepDelete ==
  /\ sweep = "delete"
  /\ \/ object' = FALSE /\ sweep' = "rows"
     \/ "r2" \in Faults /\ UNCHANGED object /\ sweep' = "done"
  /\ UNCHANGED <<expired, upload, messages, queue, raced>>

SweepRows ==
  /\ sweep = "rows"
  /\ sweep' = "done"
  /\ status' = "removed"
  /\ UNCHANGED <<bucket, complete, messages, queue, raced>>

SweepCrashes ==
  /\ "crash" \in Faults
  /\ sweep \in {"delete", "rows"}
  /\ sweep' = "done"
  /\ UNCHANGED <<bucket, upload, messages, queue, raced>>

-----------------------------------------------------------------------------
CleanupStep(m) == CleanupCount(m) \/ CleanupAdd(m)
SweepStep      == SweepDelete \/ SweepRows

Next ==
  \/ initUpload \/ PutObject \/ Expire
  \/ CompleteCheck \/ CompleteVerify \/ CompleteUpdate \/ Bind
  \/ SweepRead \/ SweepStep \/ SweepCrashes
  \/ \E f \in Forward : ForwardRead(f) \/ ForwardCommit(f)
  \/ \E m \in Row : \/ Delete(m) \/ tombstoneMessage(m) \/ untombstoneMessage(m)
                    \/ CleanupStep(m) \/ CleanupCrashes(m)
                    \/ StorageCleanup(m) \/ StorageCleanupFails(m)

Spec == Init /\ [][Next]_vars

\* Running handlers and queued jobs go on; clients and failures owe nothing.
FairSpec ==
  /\ Spec
  /\ \A f \in Forward : WF_vars(ForwardCommit(f))
  /\ \A m \in Row : WF_vars(CleanupStep(m)) /\ WF_vars(StorageCleanup(m))
  /\ WF_vars(SweepStep)

-----------------------------------------------------------------------------
(* Properties.                                                             *)

\* A live message has an attachment row but the object, or the row, is gone.
Broken == \/ live # {} /\ ~object
          \/ Original \in live /\ status = "removed"

\* A live message's attachment can be downloaded, unless one of three races was
\* lost: a forward committed after the deletion of its object was decided, a
\* moderator took the tombstone back after that, or an upload was completed while
\* the sweep was removing it.  Deleting messages and their copies in any order,
\* with failures and retries, loses nothing else.
OnlyRacesLoseMedia == Broken => raced # {}

\* Deleting a message that was never forwarded ends with its object reclaimed,
\* unless the server died, the queue refused the job, its attempts were used up or
\* the sweep had taken the row.
ReclaimedUnlessForwarded ==
  cleanup[Original] = "count" ~>
    \/ ~object
    \/ \E f \in Forward : forward[f].step # "idle"
    \/ cleanup[Original] = "lost" \/ job[Original] = "failed"
    \/ status = "removed"

\* Bind, ForwardRead and Delete: the uploaded row is the first one bound, copies are made
\* from a bound row, and only a bound row is cleaned up.
BoundInv ==
  /\ Bound # {} => Original \in Bound
  /\ \A f \in Forward : /\ forward[f].step # "idle" => Original \in Bound
                        /\ f \in Bound => forward[f].step = "done"
  /\ \A m \in Row : cleanup[m] \in {"count", "add"} \/ job[m] # "absent" => m \in Bound

\* CleanupCount and the sweep: as long as no decision was overtaken, a clean-up begins for
\* a deleted message only, no message is live once the object's deletion is decided, the
\* attachment of a bound row is complete, and only a decided deletion or the sweep of an
\* upload that is not complete removes the object.
DecisionInv ==
  raced = {} =>
    /\ \A m \in Row : cleanup[m] = "count" => m \in deleted
    /\ Decided => live = {}
    /\ Bound # {} => status = "COMPLETE"
    /\ status = "COMPLETE" => /\ sweep \notin {"delete", "rows"}
                              /\ object \/ \E m \in Row : job[m] # "absent"

\* Deletions, forwards, jobs and the sweep: the state is well formed, the decisions they
\* take stand and media is lost only by the races above.
MediaStorageInv == TypeOK /\ OnlyRacesLoseMedia /\ BoundInv /\ DecisionInv
=============================================================================
