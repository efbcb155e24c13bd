---------------------------- MODULE StorageProofs ----------------------------
(***************************************************************************)
(* What is kept in R2, proved for any number of requests, keys, lost       *)
(* processes and failed jobs.                                              *)
(*   Backups: the current backup can be downloaded and replaced ones are   *)
(*   reclaimed.                                                            *)
(*   MediaStorage: a live message's attachment can be downloaded, unless   *)
(*   one of three races was lost.                                          *)
(***************************************************************************)
EXTENDS Backups, MediaStorage, TLAPS

-----------------------------------------------------------------------------
(* Backups.                                                                *)

\* What a request's next place does to its variables, and to no other request's.
LEMMA ProceedsStep ==
  ASSUME BackupTypeOK, NEW p \in Put, NEW s \in {"upsert", "cleanup", "over"}, Proceeds(p, s)
  PROVE  /\ at' \in [Put -> {"idle", "verify", "upsert", "cleanup", "over"}]
         /\ oldKey' \in [Put -> Blob \cup {NoBlob}]
         /\ newKey' \in [Put -> Blob \cup {NoBlob}]
         /\ at'[p] = s
         /\ oldKey'[p] = IF s = "over" THEN NoBlob ELSE oldKey[p]
         /\ newKey'[p] = IF s = "over" THEN NoBlob ELSE newKey[p]
         /\ \A q \in Put \ {p} :
              at'[q] = at[q] /\ oldKey'[q] = oldKey[q] /\ newKey'[q] = newKey[q]
  BY DEF Proceeds, BackupTypeOK

LEMMA BackupInitStep == BackupInit => BackupInv
  BY DEF BackupInit, BackupInv, BackupTypeOK, BackupIsStored, ReadInv, ReturnInv

\* Every step of putCurrent, of the clients and of the job keeps the invariant.
LEMMA BackupStep == BackupInv /\ [BackupNext]_backupVars => BackupInv'
<1> SUFFICES ASSUME BackupInv, [BackupNext]_backupVars PROVE BackupInv'
  OBVIOUS
<1> USE BackupsAssumption
<1> USE DEF BackupInv, BackupTypeOK, BackupIsStored, ReadInv, ReturnInv
<1>1. ASSUME NEW b \in Blob, UploadBackup(b) PROVE BackupInv'
  BY <1>1 DEF UploadBackup, put
<1>2. ASSUME NEW b \in Blob, CleanupDelete(b) PROVE BackupInv'
  BY <1>2 DEF CleanupDelete, put, fate
<1>3. ASSUME NEW b \in Blob, CleanupGivesUp(b) PROVE BackupInv'
  BY <1>3 DEF CleanupGivesUp, put
<1>4. ASSUME NEW p \in Put, NEW b \in Blob, PutFind(p, b) PROVE BackupInv'
  BY <1>4 DEF PutFind, stored, fate
<1>5. ASSUME NEW p \in Put, PutVerify(p) PROVE BackupInv'
  <2>1. CASE newKey[p] \in objects /\ Proceeds(p, "upsert")
    BY <1>5, <2>1, ProceedsStep DEF PutVerify, stored, fate
  <2>2. CASE Proceeds(p, "over")
    BY <1>5, <2>2, ProceedsStep DEF PutVerify, stored, fate
  <2> QED
    BY <1>5, <2>1, <2>2 DEF PutVerify
<1>6. ASSUME NEW p \in Put, PutUpsert(p) PROVE BackupInv'
  <2> DEFINE s == IF oldKey[p] \notin {NoBlob, newKey[p]} THEN "cleanup" ELSE "over"
  <2>1. /\ newKey[p] \in Blob /\ newKey[p] \in objects \cup replaced
        /\ Proceeds(p, s) /\ s \in {"upsert", "cleanup", "over"}
    BY <1>6 DEF PutUpsert
  <2>2. /\ backup' = newKey[p]
        /\ replaced' = replaced \cup ({backup} \ {newKey[p], NoBlob})
        /\ returned' = IF newKey[p] \in replaced /\ newKey[p] # backup
                       THEN returned \cup {newKey[p]} ELSE returned
        /\ leaked' \subseteq leaked \cup ({backup} \ {NoBlob})
        /\ objects' = objects /\ doomed' = doomed
    BY <1>6 DEF PutUpsert, Upsert
  <2>3. BackupTypeOK'
    BY <2>1, <2>2, ProceedsStep
  <2>4. BackupIsStored'
    BY <2>1, <2>2
  <2>5. ReadInv'
    BY <2>1, <2>2, ProceedsStep
  <2>6. ReturnInv'
    BY <2>1, <2>2, ProceedsStep
  <2> QED
    BY <2>3, <2>4, <2>5, <2>6
<1>7. ASSUME NEW p \in Put, PutCleanup(p) PROVE BackupInv'
  BY <1>7, ProceedsStep DEF PutCleanup
<1>8. ASSUME NEW p \in Put, PutCrashes(p) PROVE BackupInv'
  BY <1>8, ProceedsStep DEF PutCrashes, stored
<1>9. CASE UNCHANGED backupVars
  BY <1>9 DEF backupVars, stored, put, fate
<1> QED
  BY <1>1, <1>2, <1>3, <1>4, <1>5, <1>6, <1>7, <1>8, <1>9 DEF BackupNext

\* putCurrent and the storage-cleanup job: at every await the row, R2 and the queue fit
\* together; in particular the current backup is in R2 unless its key was put again.
THEOREM BackupInvariant == BackupSpec => []BackupInv
  BY BackupInitStep, BackupStep, PTL DEF BackupSpec

\* What a step leaves behind of a replaced object.
LEMMA ReclaimStep ==
  BackupInv /\ ReplacedIsReclaimed /\ [BackupNext]_backupVars => ReplacedIsReclaimed'
<1> SUFFICES ASSUME BackupInv, ReplacedIsReclaimed, [BackupNext]_backupVars,
                    NEW c \in (replaced' \cap objects') \ leaked'
             PROVE  \/ c = backup' \/ c \in doomed'
                    \/ \E p \in Put : at'[p] = "cleanup" /\ oldKey'[p] = c
  BY DEF ReplacedIsReclaimed
<1> DEFINE Reclaimed == \/ c = backup' \/ c \in doomed'
                        \/ \E p \in Put : at'[p] = "cleanup" /\ oldKey'[p] = c
<1> USE BackupsAssumption DEF ReplacedIsReclaimed
<1>0. BackupTypeOK /\ \A p \in Put : at[p] = "upsert" => newKey[p] \in Blob
  BY DEF BackupInv, ReturnInv
<1>1. ASSUME NEW b \in Blob, UploadBackup(b) PROVE Reclaimed
  BY <1>1 DEF UploadBackup, put
<1>2. ASSUME NEW b \in Blob, CleanupDelete(b) PROVE Reclaimed
  BY <1>2 DEF CleanupDelete, put, fate
<1>3. ASSUME NEW b \in Blob, CleanupGivesUp(b) PROVE Reclaimed
  BY <1>3 DEF CleanupGivesUp, put
<1>4. ASSUME NEW p \in Put, NEW b \in Blob, PutFind(p, b) PROVE Reclaimed
  BY <1>0, <1>4 DEF PutFind, stored, fate, BackupTypeOK
<1>5. ASSUME NEW p \in Put, PutVerify(p) PROVE Reclaimed
  BY <1>0, <1>5, ProceedsStep DEF PutVerify, stored, fate
<1>6. ASSUME NEW p \in Put, PutUpsert(p) PROVE Reclaimed
  <2> DEFINE s == IF oldKey[p] \notin {NoBlob, newKey[p]} THEN "cleanup" ELSE "over"
  <2>1. /\ at[p] = "upsert" /\ newKey[p] \in Blob
        /\ Proceeds(p, s) /\ s \in {"upsert", "cleanup", "over"}
    BY <1>0, <1>6 DEF PutUpsert
  <2>2. /\ backup' = newKey[p] /\ objects' = objects /\ doomed' = doomed
        /\ replaced' = replaced \cup ({backup} \ {newKey[p], NoBlob})
        /\ leaked' = IF oldKey[p] = backup THEN leaked
                     ELSE leaked \cup ({backup} \ {newKey[p], NoBlob})
    BY <1>6 DEF PutUpsert, Upsert
  \* What the row named so far is left to this put, or was leaked by it.
  <2>3. CASE c = backup
    BY <1>0, <2>1, <2>2, <2>3, ProceedsStep DEF BackupTypeOK
  <2>4. CASE c # backup
    BY <1>0, <2>1, <2>2, <2>4, ProceedsStep
  <2> QED
    BY <2>3, <2>4
<1>7. ASSUME NEW p \in Put, PutCleanup(p) PROVE Reclaimed
  BY <1>0, <1>7, ProceedsStep DEF PutCleanup
<1>8. ASSUME NEW p \in Put, PutCrashes(p) PROVE Reclaimed
  BY <1>0, <1>8, ProceedsStep DEF PutCrashes, stored
<1>9. CASE UNCHANGED backupVars
  BY <1>9 DEF backupVars, stored, put, fate
<1> QED
  BY <1>1, <1>2, <1>3, <1>4, <1>5, <1>6, <1>7, <1>8, <1>9 DEF BackupNext

\* putCurrent: the object of a replaced row is deleted or about to be, unless a failure
\* lost its deletion or the put that replaced it had read an older key.
THEOREM ReplacedAreReclaimed == BackupSpec => []ReplacedIsReclaimed
<1>1. BackupInit => ReplacedIsReclaimed
  BY DEF BackupInit, ReplacedIsReclaimed
<1> QED
  BY <1>1, BackupInvariant, ReclaimStep, PTL DEF BackupSpec

-----------------------------------------------------------------------------
(* Attachments.                                                            *)

\* The rows and forwards are different things.
LEMMA Rows == Original \in Row /\ Forward \subseteq Row /\ Original \notin Forward
  BY MediaStorageAssumption DEF Original, Row

\* Which messages exist, and that they are deleted or live but not both, is kept.
LEMMA MediaTypeStep == TypeOK /\ BoundInv /\ [Next]_vars => TypeOK'
<1> SUFFICES ASSUME TypeOK, BoundInv, [Next]_vars PROVE TypeOK'
  OBVIOUS
<1> USE MediaStorageAssumption, Rows
<1> USE DEF TypeOK
<1>1. CASE initUpload \/ PutObject \/ Expire
  BY <1>1 DEF initUpload, PutObject, Expire, bucket, upload, messages, queue
<1>2. CASE CompleteCheck \/ CompleteVerify \/ CompleteUpdate
  BY <1>2 DEF CompleteCheck, CompleteVerify, CompleteUpdate, bucket, upload, messages, queue
<1>3. CASE SweepRead \/ SweepStep \/ SweepCrashes
  BY <1>3 DEF SweepRead, SweepStep, SweepDelete, SweepRows, SweepCrashes, bucket, upload,
              messages, queue
<1>4. CASE Bind
  BY <1>4 DEF Bind, Bound, bucket, upload, queue
<1>5. ASSUME NEW f \in Forward, ForwardRead(f) PROVE TypeOK'
  BY <1>5 DEF ForwardRead, Forwarding, NoForward, bucket, upload, queue
<1>6. ASSUME NEW f \in Forward, ForwardCommit(f) PROVE TypeOK'
  BY <1>6 DEF ForwardCommit, Forwarding, NoForward, BoundInv, Bound, bucket, upload, queue
<1>7. ASSUME NEW m \in Row, Delete(m) PROVE TypeOK'
  BY <1>7 DEF Delete, Bound, bucket, upload, queue
<1>8. ASSUME NEW m \in Row, tombstoneMessage(m) \/ untombstoneMessage(m) PROVE TypeOK'
  BY <1>8 DEF tombstoneMessage, untombstoneMessage, bucket, upload, queue
<1>9. ASSUME NEW m \in Row, CleanupStep(m) \/ CleanupCrashes(m) PROVE TypeOK'
  <2>1. /\ UNCHANGED <<bucket, upload, messages, sweep, raced>>
        /\ \E s \in {"add", "done", "lost"} : cleanup' = [cleanup EXCEPT ![m] = s]
        /\ job' \in {job, [job EXCEPT ![m] = "waiting"]}
        /\ attempts' \in {attempts, [attempts EXCEPT ![m] = 0]}
    BY <1>9 DEF CleanupStep, CleanupCount, CleanupAdd, CleanupCrashes
  <2>2. /\ cleanup' \in [Row -> {"idle", "count", "add", "done", "lost"}]
        /\ job' \in [Row -> {"absent", "waiting", "done", "failed"}]
        /\ attempts' \in [Row -> 0 .. MaxAttempts - 1]
    BY <2>1
  <2> QED
    BY <2>1, <2>2 DEF bucket, upload, messages
<1>10. ASSUME NEW m \in Row, StorageCleanup(m) \/ StorageCleanupFails(m) PROVE TypeOK'
  <2>1. attempts' \in [Row -> 0 .. MaxAttempts - 1]
    BY <1>10 DEF StorageCleanup, StorageCleanupFails
  <2>2. /\ job' \in [Row -> {"absent", "waiting", "done", "failed"}]
        /\ cleanup' = cleanup /\ object' \in BOOLEAN /\ expired' = expired
        /\ UNCHANGED <<upload, messages, sweep, raced>>
    BY <1>10 DEF StorageCleanup, StorageCleanupFails, bucket
  <2> QED
    BY <2>1, <2>2 DEF upload, messages
<1>11. CASE UNCHANGED vars
  BY <1>11 DEF vars, bucket, upload, messages, queue
<1> QED
  BY <1>1, <1>2, <1>3, <1>4, <1>5, <1>6, <1>7, <1>8, <1>9, <1>10, <1>11 DEF Next

\* Rows are bound once and stay bound; copies and clean-ups begin from a bound one.
LEMMA BoundStep == TypeOK /\ BoundInv /\ [Next]_vars => BoundInv'
<1> SUFFICES ASSUME TypeOK, BoundInv, [Next]_vars PROVE BoundInv'
  OBVIOUS
<1> USE Rows
<1> USE DEF TypeOK, BoundInv, Bound
<1>1. CASE initUpload \/ PutObject \/ Expire
  BY <1>1 DEF initUpload, PutObject, Expire, bucket, upload, messages, queue
<1>2. CASE CompleteCheck \/ CompleteVerify \/ CompleteUpdate
  BY <1>2 DEF CompleteCheck, CompleteVerify, CompleteUpdate, bucket, upload, messages, queue
<1>3. CASE SweepRead \/ SweepStep \/ SweepCrashes
  BY <1>3 DEF SweepRead, SweepStep, SweepDelete, SweepRows, SweepCrashes, bucket, upload,
              messages, queue
<1>4. CASE Bind
  BY <1>4 DEF Bind, bucket, upload, queue
<1>5. ASSUME NEW f \in Forward, ForwardRead(f) PROVE BoundInv'
  BY <1>5 DEF ForwardRead, Forwarding, NoForward, bucket, upload, queue
<1>6. ASSUME NEW f \in Forward, ForwardCommit(f) PROVE BoundInv'
  BY <1>6 DEF ForwardCommit, Forwarding, NoForward, bucket, upload, queue
<1>7. ASSUME NEW m \in Row, Delete(m) \/ tombstoneMessage(m) \/ untombstoneMessage(m)
      PROVE  BoundInv'
  BY <1>7 DEF Delete, tombstoneMessage, untombstoneMessage, bucket, upload, queue
<1>8. ASSUME NEW m \in Row, CleanupStep(m) \/ CleanupCrashes(m) PROVE BoundInv'
  BY <1>8 DEF CleanupStep, CleanupCount, CleanupAdd, CleanupCrashes, bucket, upload, messages
<1>9. ASSUME NEW m \in Row, StorageCleanup(m) \/ StorageCleanupFails(m) PROVE BoundInv'
  BY <1>9 DEF StorageCleanup, StorageCleanupFails, bucket, upload, messages
<1>10. CASE UNCHANGED vars
  BY <1>10 DEF vars, bucket, upload, messages, queue
<1> QED
  BY <1>1, <1>2, <1>3, <1>4, <1>5, <1>6, <1>7, <1>8, <1>9, <1>10 DEF Next

\* A decision to delete the object is taken when only the deleted uploaded message refers
\* to it, and whatever brings a live message back after that is one of the races.
LEMMA DecisionStep == TypeOK /\ BoundInv /\ DecisionInv /\ [Next]_vars => DecisionInv'
<1> SUFFICES ASSUME TypeOK, BoundInv, DecisionInv, [Next]_vars, raced' = {}
             PROVE  DecisionInv'
  BY DEF DecisionInv
<1> USE MediaStorageAssumption, Rows
<1> USE DEF TypeOK, BoundInv, DecisionInv, Bound, Decided
<1>1. CASE initUpload \/ PutObject \/ Expire
  BY <1>1 DEF initUpload, PutObject, Expire, bucket, upload, messages, queue
<1>2. CASE CompleteCheck \/ CompleteVerify \/ CompleteUpdate \/ Bind
  BY <1>2 DEF CompleteCheck, CompleteVerify, CompleteUpdate, Bind, bucket, upload, messages,
              queue
<1>3. CASE SweepRead \/ SweepStep \/ SweepCrashes
  BY <1>3 DEF SweepRead, SweepStep, SweepDelete, SweepRows, SweepCrashes, bucket, upload,
              messages, queue
<1>4. ASSUME NEW f \in Forward, ForwardRead(f) PROVE DecisionInv'
  BY <1>4 DEF ForwardRead, bucket, upload, queue
<1>5. ASSUME NEW f \in Forward, ForwardCommit(f) PROVE DecisionInv'
  BY <1>5 DEF ForwardCommit, bucket, upload, queue
<1>6. ASSUME NEW m \in Row, Delete(m) \/ tombstoneMessage(m) \/ untombstoneMessage(m)
      PROVE  DecisionInv'
  BY <1>6 DEF Delete, tombstoneMessage, untombstoneMessage, bucket, upload, queue
<1>7. ASSUME NEW m \in Row, CleanupStep(m) \/ CleanupCrashes(m) PROVE DecisionInv'
  BY <1>7 DEF CleanupStep, CleanupCount, CleanupAdd, CleanupCrashes, OtherRefs, bucket,
              upload, messages
<1>8. ASSUME NEW m \in Row, StorageCleanup(m) \/ StorageCleanupFails(m) PROVE DecisionInv'
  BY <1>8 DEF StorageCleanup, StorageCleanupFails, bucket, upload, messages
<1>9. CASE UNCHANGED vars
  BY <1>9 DEF vars, bucket, upload, messages, queue
<1> QED
  BY <1>1, <1>2, <1>3, <1>4, <1>5, <1>6, <1>7, <1>8, <1>9 DEF Next

\* Without a race every live message has its row and its object.
LEMMA NothingElseLost == BoundInv /\ DecisionInv => OnlyRacesLoseMedia
  BY Rows DEF BoundInv, DecisionInv, OnlyRacesLoseMedia, Broken, Bound, Decided

\* delete, cleanupMessageMedia, the storage-cleanup job, forwards, moderators and the
\* sweep: whatever their order and failures, a live message's attachment can be
\* downloaded unless a forward, a restored message or a completed upload overtook the
\* deletion that had been decided.
THEOREM MediaInvariant == Spec => []MediaStorageInv
<1>1. Init => TypeOK
  <2> SUFFICES ASSUME Init PROVE TypeOK
    OBVIOUS
  <2>1. NoForward \in Forwarding /\ 0 \in 0 .. MaxAttempts - 1
    BY MediaStorageAssumption DEF Forwarding
  <2> QED
    BY <2>1 DEF Init, TypeOK
<1>2. Init => BoundInv /\ DecisionInv
  BY Rows DEF Init, BoundInv, DecisionInv, Bound, Decided, NoForward
<1>3. Spec => [](TypeOK /\ BoundInv /\ DecisionInv)
  BY <1>1, <1>2, MediaTypeStep, BoundStep, DecisionStep, PTL DEF Spec
<1> QED
  BY <1>3, NothingElseLost, PTL DEF MediaStorageInv
=============================================================================
