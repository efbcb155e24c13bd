------------------------------ MODULE Backups -------------------------------
(***************************************************************************)
(* The encrypted backup of one user: the BackupBlob row that putCurrent    *)
(* replaces (backups.service.ts), the objects in R2 it names, and the      *)
(* storage-cleanup jobs that delete the objects of replaced rows           *)
(* (storage-cleanup.processor.ts).                                         *)
(*                                                                         *)
(* putCurrent reads the row, asks R2 for the object, writes the row and    *)
(* queues the deletion of the key it read, in four steps that nothing      *)
(* holds together.  Any key that was uploaded may be put, at any time and  *)
(* as often as clients repeat the request.                                 *)
(***************************************************************************)
CONSTANTS Put,                        \* putCurrent requests
          Blob,                       \* bucket keys
          NoBlob

ASSUME BackupsAssumption == NoBlob \notin Blob

VARIABLES
  backup,                     \* bucketKey of the row
  objects,                    \* what R2 holds
  doomed,                     \* keys with a storage-cleanup job
  at, oldKey, newKey,         \* the requests: where, the key read and the key brought
  replaced,                   \* history: keys another key took the place of,
  returned,                   \*   those of them that were put again,
  leaked                      \*   and those whose deletion was lost, or that no deletion follows

stored     == <<backup, objects, doomed>>
put        == <<at, oldKey, newKey>>
fate       == <<replaced, returned, leaked>>
backupVars == <<stored, put, fate>>

BackupTypeOK ==
  /\ backup \in Blob \cup {NoBlob} /\ objects \subseteq Blob
  /\ doomed \subseteq Blob
  /\ at \in [Put -> {"idle", "verify", "upsert", "cleanup", "over"}]
  /\ oldKey \in [Put -> Blob \cup {NoBlob}] /\ newKey \in [Put -> Blob \cup {NoBlob}]
  /\ replaced \subseteq Blob /\ returned \subseteq replaced /\ leaked \subseteq Blob

BackupInit ==
  /\ backup = NoBlob /\ objects = {} /\ doomed = {}
  /\ at = [p \in Put |-> "idle"]
  /\ oldKey = [p \in Put |-> NoBlob] /\ newKey = [p \in Put |-> NoBlob]
  /\ replaced = {} /\ returned = {} /\ leaked = {}

-----------------------------------------------------------------------------
\* The request goes on, or is over with its variables.
Proceeds(p, s) ==
  /\ at' = [at EXCEPT ![p] = s]
  /\ IF s = "over" THEN /\ oldKey' = [oldKey EXCEPT ![p] = NoBlob]
                        /\ newKey' = [newKey EXCEPT ![p] = NoBlob]
                   ELSE UNCHANGED <<oldKey, newKey>>

\* A client uploads to the key that getUploadUrl gave it.  Nobody deletes what it
\* uploads after the key was replaced and its job is done.
UploadBackup(b) ==
  /\ b \notin objects
  /\ objects' = objects \cup {b}
  /\ leaked' = leaked \cup ({b} \cap replaced)
  /\ UNCHANGED <<backup, doomed, put, replaced, returned>>

\* findUnique.
PutFind(p, b) ==
  /\ at[p] = "idle"
  /\ at' = [at EXCEPT ![p] = "verify"]
  /\ oldKey' = [oldKey EXCEPT ![p] = backup] /\ newKey' = [newKey EXCEPT ![p] = b]
  /\ UNCHANGED <<stored, fate>>

\* verifyObjectExists, or its failure.
PutVerify(p) ==
  /\ at[p] = "verify"
  /\ \/ newKey[p] \in objects /\ Proceeds(p, "upsert")
     \/ Proceeds(p, "over")
  /\ UNCHANGED <<stored, fate>>

\* The row names b from now on; what it named before is to be deleted by the put that
\* has read it, if there is one.
Upsert(p, b) ==
  /\ backup' = b
  /\ replaced' = replaced \cup ({backup} \ {b, NoBlob})
  /\ returned' = IF b \in replaced /\ b # backup THEN returned \cup {b} ELSE returned
  /\ leaked' = IF oldKey[p] = backup THEN leaked ELSE leaked \cup ({backup} \ {b, NoBlob})
  /\ UNCHANGED <<objects, doomed>>

\* Mutant: the key read is not compared with the key put.
PutUpsertSameKey(p) ==
  /\ at[p] = "upsert"
  /\ Upsert(p, newKey[p])
  /\ Proceeds(p, IF oldKey[p] # NoBlob THEN "cleanup" ELSE "over")

\* Mutant: the key is compared with the one the row had last.
PutUpsertLastKey(p) ==
  /\ at[p] = "upsert"
  /\ Upsert(p, newKey[p])
  /\ Proceeds(p, IF oldKey[p] \notin {NoBlob, backup} THEN "cleanup" ELSE "over")

\* upsert, and the comparison of the keys.
PutUpsert(p) ==
  /\ at[p] = "upsert"
  /\ Upsert(p, newKey[p])
  /\ Proceeds(p, IF oldKey[p] \notin {NoBlob, newKey[p]} THEN "cleanup" ELSE "over")

\* cleanupQueue.add, or its refusal.
PutCleanup(p) ==
  /\ at[p] = "cleanup"
  /\ Proceeds(p, "over")
  /\ \/ doomed' = doomed \cup {oldKey[p]} /\ UNCHANGED leaked
     \/ leaked' = leaked \cup {oldKey[p]} /\ UNCHANGED doomed
  /\ UNCHANGED <<backup, objects, replaced, returned>>

\* The process is lost, or a statement fails.
PutCrashes(p) ==
  /\ at[p] \notin {"idle", "over"}
  /\ Proceeds(p, "over")
  /\ leaked' = IF at[p] = "cleanup" THEN leaked \cup {oldKey[p]} ELSE leaked
  /\ UNCHANGED <<stored, replaced, returned>>

\* The storage-cleanup job: deleteObject, of a key that may be gone.
CleanupDelete(b) ==
  /\ b \in doomed
  /\ objects' = objects \ {b} /\ doomed' = doomed \ {b}
  /\ UNCHANGED <<backup, put, fate>>

\* Its last attempt has failed.
CleanupGivesUp(b) ==
  /\ b \in doomed
  /\ doomed' = doomed \ {b} /\ leaked' = leaked \cup {b}
  /\ UNCHANGED <<backup, objects, put, replaced, returned>>

BackupNext ==
  \/ \E b \in Blob : UploadBackup(b) \/ CleanupDelete(b) \/ CleanupGivesUp(b)
  \/ \E p \in Put : \/ \E b \in Blob : PutFind(p, b)
                    \/ PutVerify(p) \/ PutUpsert(p) \/ PutCleanup(p) \/ PutCrashes(p)

BackupSpec == BackupInit /\ [][BackupNext]_backupVars

-----------------------------------------------------------------------------
(* Properties.                                                             *)

\* putCurrent and the storage-cleanup job: the backup that the row names is in R2,
\* unless its key was put again after another had taken its place: its deletion is
\* queued, or will be by a put that has read it.
BackupIsStored ==
  backup \in objects \cup returned \cup {NoBlob}

\* putCurrent: an object whose row was replaced is deleted or about to be, unless a
\* failure lost the job, or the put that replaced it had read an older key.
ReplacedIsReclaimed ==
  \A b \in (replaced \cap objects) \ leaked :
    b = backup \/ b \in doomed \/ \E p \in Put : at[p] = "cleanup" /\ oldKey[p] = b

-----------------------------------------------------------------------------
(* The inductive invariant behind the two.                                 *)

\* A key that a put has read is the row's, or has been replaced since; only replaced
\* keys are to be deleted.
ReadInv ==
  /\ \A p \in Put : oldKey[p] \in replaced \cup {backup, NoBlob}
  /\ \A p \in Put : at[p] = "cleanup" => oldKey[p] \in replaced
  /\ doomed \subseteq replaced

\* A replaced key is the row's only because it was put again, and one that was seen in
\* R2 is gone only because it was replaced.
ReturnInv ==
  /\ backup \in replaced => backup \in returned
  /\ \A p \in Put : at[p] \in {"verify", "upsert"} => newKey[p] \in Blob
  /\ \A p \in Put : at[p] = "upsert" => newKey[p] \in objects \cup replaced

\* putCurrent: at every await of every put the row, the objects and the queued deletions
\* fit together, so that the current backup can be downloaded but for a key put again.
BackupInv ==
  /\ BackupTypeOK /\ BackupIsStored /\ ReadInv /\ ReturnInv
=============================================================================
