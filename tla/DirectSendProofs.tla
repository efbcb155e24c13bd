-------------------------- MODULE DirectSendProofs --------------------------
(***************************************************************************)
(* Proofs about DirectSend, for every set of requests, users, devices,     *)
(* keys, attachments and request bodies.                                   *)
(***************************************************************************)
EXTENDS DirectSend, SequenceTheorems, TLAPS

\* The thread of a received request is one of Thread.
LEMMA ThreadOfType ==
  ASSUME NEW r \in Request, dto[r] \in Bodies
  PROVE  ThreadOf(r) \in Thread
BY DEF ThreadOf, Thread, Bodies, canonicalDirectPair

-----------------------------------------------------------------------------
(* Type correctness.                                                       *)

\* Every step of DirectSend keeps each variable in its type.
LEMMA TypeStep == TypeOK /\ [Next]_vars => TypeOK'
<1> SUFFICES ASSUME TypeOK, [Next]_vars PROVE TypeOK'
  OBVIOUS
<1> USE DirectSendAssumption DEF TypeOK, Step, Before, InTx, After, database, effects, answers
<1>1. ASSUME NEW d \in Changing, DeviceChange(d) PROVE TypeOK'
  BY <1>1 DEF DeviceChange
<1>2. ASSUME NEW r \in Request, Receive(r) PROVE TypeOK'
  BY <1>2 DEF Receive, Goto
<1>3. ASSUME NEW r \in Request, Lookup(r) PROVE TypeOK'
  BY <1>3 DEF Lookup, Goto, Answer, Existing
<1>4. ASSUME NEW r \in Request, ReadDevices(r) PROVE TypeOK'
  BY <1>4 DEF ReadDevices, Goto, Throw, Rollback, Answer
<1>5. ASSUME NEW r \in Request, UpsertThread(r) PROVE TypeOK'
  BY <1>5 DEF UpsertThread, Goto
<1>6. ASSUME NEW r \in Request, CreateThread(r) PROVE TypeOK'
  BY <1>6, ThreadOfType DEF CreateThread, Goto, Rollback
<1>7. ASSUME NEW r \in Request, NextSequence(r) PROVE TypeOK'
  BY <1>7, ThreadOfType DEF NextSequence, Goto
<1>8. ASSUME NEW r \in Request, CheckBody(r) PROVE TypeOK'
  BY <1>8 DEF CheckBody, Goto, Throw, Rollback, Answer
<1>9. ASSUME NEW r \in Request, InsertMessage(r) PROVE TypeOK'
  BY <1>9 DEF InsertMessage, Goto, Rollback
<1>10. ASSUME NEW r \in Request, AttachMedia(r) PROVE TypeOK'
  BY <1>10 DEF AttachMedia, Goto, Bodies
<1>11. ASSUME NEW r \in Request, Commit(r) PROVE TypeOK'
  BY <1>11, ThreadOfType DEF Commit, Goto
<1>12. ASSUME NEW r \in Request, Abort(r) PROVE TypeOK'
  BY <1>12 DEF Abort, Throw, Rollback, Answer, Goto
<1>13. ASSUME NEW r \in Request, Announce(r) PROVE TypeOK'
  BY <1>13 DEF Announce, Answer, Goto
<1>14. ASSUME NEW r \in Request, Recover(r) PROVE TypeOK'
  BY <1>14 DEF Recover, Answer, Goto, Existing
<1>15. ASSUME NEW r \in Request, Crash(r) PROVE TypeOK'
  BY <1>15 DEF Crash, Rollback, Goto
<1>16. CASE UNCHANGED vars
  BY <1>16 DEF vars
<1> QED
  BY <1>1, <1>2, <1>3, <1>4, <1>5, <1>6, <1>7, <1>8, <1>9, <1>10, <1>11,
     <1>12, <1>13, <1>14, <1>15, <1>16 DEF Next, ServerStep

-----------------------------------------------------------------------------
(* The inductive invariant.                                                *)

\* While the bodies stay as they are, so do the threads and keys they name.
LEMMA BodiesStay ==
  ASSUME dto' = dto
  PROVE  \A x, y \in Request : /\ ThreadOf(x)' = ThreadOf(x)
                               /\ SameKey(x, y)' = SameKey(x, y)
BY DEF ThreadOf, SameKey, senderDeviceId_idempotencyKey, canonicalDirectPair

\* The same for all requests but one, whose body may be filled in.
LEMMA OtherBodiesStay ==
  ASSUME NEW r \in Request, \A x \in Request \ {r} : dto'[x] = dto[x]
  PROVE  \A x, y \in Request \ {r} : /\ ThreadOf(x)' = ThreadOf(x)
                                     /\ SameKey(x, y)' = SameKey(x, y)
BY DEF ThreadOf, SameKey, senderDeviceId_idempotencyKey, canonicalDirectPair

\* A step that commits nothing and brings no transaction to its commit keeps the
\* attachments apart, as long as it leaves those of the rows concerned alone.
LEMMA MediaStays ==
  ASSUME MediaInv, stored' = stored,
         \A m \in Request : m \in stored \/ pc'[m] = "commit" =>
           (m \in stored \/ pc[m] = "commit") /\ bound'[m] = bound[m]
  PROVE  MediaInv'
BY DEF MediaInv

\* Having the same key is reflexive and symmetric.
LEMMA SameKeySymmetric ==
  \A x, y \in Request : SameKey(x, x) /\ (SameKey(x, y) => SameKey(y, x))
BY DEF SameKey

\* Every step of DirectSend preserves the inductive invariant.
LEMMA InvStep == DirectInv /\ [Next]_vars => DirectInv'
<1> DEFINE Rest == LockInv /\ KeyInv /\ StoredInv /\ OneMessagePerKey /\ MediaInv /\ ReplyInv
<1> SUFFICES ASSUME DirectInv, [Next]_vars PROVE Rest'
  BY TypeStep DEF DirectInv
<1>0. TypeOK /\ TypeOK'
  BY TypeStep DEF DirectInv
<1> USE <1>0, DirectSendAssumption DEF database, effects, answers
<1>1. ASSUME NEW d \in Changing, DeviceChange(d) PROVE Rest'
  <2>1. LockInv'
    BY <1>1, BodiesStay, ThreadOfType DEF DeviceChange, TypeOK, DirectInv, LockInv
  <2>2. KeyInv'
    BY <1>1, BodiesStay, ThreadOfType DEF DeviceChange, TypeOK, DirectInv, KeyInv, StoredInv
  <2>3. StoredInv'
    BY <1>1, BodiesStay, ThreadOfType DEF DeviceChange, TypeOK, DirectInv, StoredInv, LockInv
  <2>4. OneMessagePerKey'
    BY <1>1, BodiesStay, ThreadOfType DEF DeviceChange, TypeOK, DirectInv, OneMessagePerKey, KeyInv
  <2>5. MediaInv'
    BY <1>1, BodiesStay, ThreadOfType DEF DeviceChange, TypeOK, DirectInv, MediaInv, StoredInv
  <2>6. ReplyInv'
    BY <1>1, BodiesStay, ThreadOfType DEF DeviceChange, TypeOK, DirectInv, ReplyInv, StoredInv
  <2> QED BY <2>1, <2>2, <2>3, <2>4, <2>5, <2>6
<1>2. ASSUME NEW r \in Request, Receive(r) PROVE Rest'
  <2> DEFINE Others == Request \ {r}
  <2>0. /\ \A x, y \in Others : /\ ThreadOf(x)' = ThreadOf(x)
                                /\ SameKey(x, y)' = SameKey(x, y)
        /\ stored' = stored /\ stored \subseteq Others
        /\ \A x \in Others : pc'[x] = pc[x]
        /\ pc'[r] = "lookup" /\ reply[r] = None
    BY <1>2, OtherBodiesStay DEF Receive, Goto, TypeOK, DirectInv, StoredInv, ReplyInv
  <2>1. LockInv'
    BY <1>2, <2>0 DEF Receive, DirectInv, LockInv
  <2>2. KeyInv'
    BY <1>2, <2>0 DEF Receive, DirectInv, KeyInv
  <2>3. StoredInv'
    BY <1>2, <2>0 DEF Receive, DirectInv, StoredInv
  <2>4. OneMessagePerKey'
    BY <1>2, <2>0 DEF DirectInv, OneMessagePerKey
  <2>5. MediaInv'
    BY <1>2, <2>0 DEF Receive, DirectInv, MediaInv
  <2>6. ReplyInv'
    BY <1>2, <2>0 DEF Receive, DirectInv, ReplyInv
  <2> QED BY <2>1, <2>2, <2>3, <2>4, <2>5, <2>6
<1>3. ASSUME NEW r \in Request, Lookup(r) PROVE Rest'
  <2>1. LockInv'
    BY <1>3, BodiesStay, ThreadOfType DEF Lookup, Goto, Answer, Existing, TypeOK, DirectInv, LockInv
  <2>2. KeyInv'
    BY <1>3, BodiesStay, ThreadOfType DEF Lookup, Goto, Answer, Existing, TypeOK, DirectInv, KeyInv, StoredInv
  <2>3. StoredInv'
    BY <1>3, BodiesStay, ThreadOfType DEF Lookup, Goto, Answer, Existing, TypeOK, DirectInv, StoredInv, LockInv
  <2>4. OneMessagePerKey'
    BY <1>3, BodiesStay, ThreadOfType DEF Lookup, Goto, Answer, Existing, TypeOK, DirectInv, OneMessagePerKey, KeyInv
  <2>5. MediaInv'
    BY <1>3, BodiesStay, ThreadOfType DEF Lookup, Goto, Answer, Existing, TypeOK, DirectInv, MediaInv, StoredInv
  <2>6. ReplyInv'
    BY <1>3, BodiesStay, ThreadOfType DEF Lookup, Goto, Answer, Existing, TypeOK, DirectInv, ReplyInv, StoredInv
  <2> QED BY <2>1, <2>2, <2>3, <2>4, <2>5, <2>6
<1>4. ASSUME NEW r \in Request, ReadDevices(r) PROVE Rest'
  <2>1. LockInv'
    BY <1>4, BodiesStay, ThreadOfType DEF ReadDevices, Goto, Throw, Rollback, Answer, TypeOK, DirectInv, LockInv
  <2>2. KeyInv'
    BY <1>4, BodiesStay, ThreadOfType DEF ReadDevices, Goto, Throw, Rollback, Answer, TypeOK, DirectInv, KeyInv, StoredInv
  <2>3. StoredInv'
    BY <1>4, BodiesStay, ThreadOfType DEF ReadDevices, Goto, Throw, Rollback, Answer, TypeOK, DirectInv, StoredInv, LockInv
  <2>4. OneMessagePerKey'
    BY <1>4, BodiesStay, ThreadOfType DEF ReadDevices, Goto, Throw, Rollback, Answer, TypeOK, DirectInv, OneMessagePerKey, KeyInv
  <2>5. MediaInv'
    BY <1>4, BodiesStay, ThreadOfType DEF ReadDevices, Goto, Throw, Rollback, Answer, TypeOK, DirectInv, MediaInv, StoredInv
  <2>6. ReplyInv'
    BY <1>4, BodiesStay, ThreadOfType DEF ReadDevices, Goto, Throw, Rollback, Answer, TypeOK, DirectInv, ReplyInv, StoredInv
  <2> QED BY <2>1, <2>2, <2>3, <2>4, <2>5, <2>6
<1>5. ASSUME NEW r \in Request, UpsertThread(r) PROVE Rest'
  <2>1. LockInv'
    BY <1>5, BodiesStay, ThreadOfType DEF UpsertThread, Goto, TypeOK, DirectInv, LockInv
  <2>2. KeyInv'
    BY <1>5, BodiesStay, ThreadOfType DEF UpsertThread, Goto, TypeOK, DirectInv, KeyInv, StoredInv
  <2>3. StoredInv'
    BY <1>5, BodiesStay, ThreadOfType DEF UpsertThread, Goto, TypeOK, DirectInv, StoredInv, LockInv
  <2>4. OneMessagePerKey'
    BY <1>5, BodiesStay, ThreadOfType DEF UpsertThread, Goto, TypeOK, DirectInv, OneMessagePerKey, KeyInv
  <2>5. MediaInv'
    BY <1>5, BodiesStay, ThreadOfType DEF UpsertThread, Goto, TypeOK, DirectInv, MediaInv, StoredInv
  <2>6. ReplyInv'
    BY <1>5, BodiesStay, ThreadOfType DEF UpsertThread, Goto, TypeOK, DirectInv, ReplyInv, StoredInv
  <2> QED BY <2>1, <2>2, <2>3, <2>4, <2>5, <2>6
<1>6. ASSUME NEW r \in Request, CreateThread(r) PROVE Rest'
  <2>1. LockInv'
    BY <1>6, BodiesStay, ThreadOfType DEF CreateThread, Goto, Rollback, TypeOK, DirectInv, LockInv
  <2>2. KeyInv'
    BY <1>6, BodiesStay, ThreadOfType DEF CreateThread, Goto, Rollback, TypeOK, DirectInv, KeyInv, StoredInv
  <2>3. StoredInv'
    BY <1>6, BodiesStay, ThreadOfType DEF CreateThread, Goto, Rollback, TypeOK, DirectInv, StoredInv, LockInv
  <2>4. OneMessagePerKey'
    BY <1>6, BodiesStay, ThreadOfType DEF CreateThread, Goto, Rollback, TypeOK, DirectInv, OneMessagePerKey, KeyInv
  <2>5. MediaInv'
    <3>1. stored' = stored
      BY <1>6 DEF CreateThread, Goto, Rollback
    <3>2. \A m \in Request : m \in stored \/ pc'[m] = "commit" =>
            (m \in stored \/ pc[m] = "commit") /\ bound'[m] = bound[m]
      BY <1>6 DEF CreateThread, Goto, Rollback, TypeOK, DirectInv, StoredInv
    <3> QED BY <3>1, <3>2, MediaStays DEF DirectInv
  <2>6. ReplyInv'
    BY <1>6, BodiesStay, ThreadOfType DEF CreateThread, Goto, Rollback, TypeOK, DirectInv, ReplyInv, StoredInv
  <2> QED BY <2>1, <2>2, <2>3, <2>4, <2>5, <2>6
<1>7. ASSUME NEW r \in Request, NextSequence(r) PROVE Rest'
  <2>1. LockInv'
    BY <1>7, BodiesStay, ThreadOfType DEF NextSequence, Goto, TypeOK, DirectInv, LockInv
  <2>2. KeyInv'
    BY <1>7, BodiesStay, ThreadOfType DEF NextSequence, Goto, TypeOK, DirectInv, KeyInv, StoredInv
  <2>3. StoredInv'
    BY <1>7, BodiesStay, ThreadOfType DEF NextSequence, Goto, TypeOK, DirectInv, StoredInv, LockInv
  <2>4. OneMessagePerKey'
    BY <1>7, BodiesStay, ThreadOfType DEF NextSequence, Goto, TypeOK, DirectInv, OneMessagePerKey, KeyInv
  <2>5. MediaInv'
    BY <1>7, BodiesStay, ThreadOfType DEF NextSequence, Goto, TypeOK, DirectInv, MediaInv, StoredInv
  <2>6. ReplyInv'
    BY <1>7, BodiesStay, ThreadOfType DEF NextSequence, Goto, TypeOK, DirectInv, ReplyInv, StoredInv
  <2> QED BY <2>1, <2>2, <2>3, <2>4, <2>5, <2>6
<1>8. ASSUME NEW r \in Request, CheckBody(r) PROVE Rest'
  <2>1. LockInv'
    BY <1>8, BodiesStay, ThreadOfType DEF CheckBody, Goto, Throw, Rollback, Answer, TypeOK, DirectInv, LockInv
  <2>2. KeyInv'
    BY <1>8, BodiesStay, ThreadOfType DEF CheckBody, Goto, Throw, Rollback, Answer, TypeOK, DirectInv, KeyInv, StoredInv
  <2>3. StoredInv'
    BY <1>8, BodiesStay, ThreadOfType DEF CheckBody, Goto, Throw, Rollback, Answer, TypeOK, DirectInv, StoredInv, LockInv
  <2>4. OneMessagePerKey'
    BY <1>8, BodiesStay, ThreadOfType DEF CheckBody, Goto, Throw, Rollback, Answer, TypeOK, DirectInv, OneMessagePerKey, KeyInv
  <2>5. MediaInv'
    <3>1. stored' = stored
      BY <1>8 DEF CheckBody, Goto, Throw, Rollback, Answer
    <3>2. \A m \in Request : m \in stored \/ pc'[m] = "commit" =>
            (m \in stored \/ pc[m] = "commit") /\ bound'[m] = bound[m]
      BY <1>8 DEF CheckBody, Goto, Throw, Rollback, Answer, TypeOK, DirectInv, StoredInv
    <3> QED BY <3>1, <3>2, MediaStays DEF DirectInv
  <2>6. ReplyInv'
    BY <1>8, BodiesStay, ThreadOfType DEF CheckBody, Goto, Throw, Rollback, Answer, TypeOK, DirectInv, ReplyInv, StoredInv
  <2> QED BY <2>1, <2>2, <2>3, <2>4, <2>5, <2>6
<1>9. ASSUME NEW r \in Request, InsertMessage(r) PROVE Rest'
  <2>1. LockInv'
    BY <1>9, BodiesStay, ThreadOfType DEF InsertMessage, Goto, Rollback, UniqueViolation, TypeOK, DirectInv, LockInv
  <2>2. KeyInv'
    BY <1>9, BodiesStay, ThreadOfType, SameKeySymmetric DEF InsertMessage, Goto, Rollback, UniqueViolation, TypeOK, DirectInv, KeyInv, StoredInv
  <2>3. StoredInv'
    BY <1>9, BodiesStay, ThreadOfType DEF InsertMessage, Goto, Rollback, UniqueViolation, TypeOK, DirectInv, StoredInv, LockInv
  <2>4. OneMessagePerKey'
    BY <1>9, BodiesStay, ThreadOfType DEF InsertMessage, Goto, Rollback, UniqueViolation, TypeOK, DirectInv, OneMessagePerKey, KeyInv
  <2>5. MediaInv'
    <3>1. stored' = stored
      BY <1>9 DEF InsertMessage, Goto, Rollback, UniqueViolation
    <3>2. \A m \in Request : m \in stored \/ pc'[m] = "commit" =>
            (m \in stored \/ pc[m] = "commit") /\ bound'[m] = bound[m]
      BY <1>9 DEF InsertMessage, Goto, Rollback, UniqueViolation, TypeOK, DirectInv, StoredInv
    <3> QED BY <3>1, <3>2, MediaStays DEF DirectInv
  <2>6. ReplyInv'
    BY <1>9, BodiesStay, ThreadOfType DEF InsertMessage, Goto, Rollback, UniqueViolation, TypeOK, DirectInv, ReplyInv, StoredInv
  <2> QED BY <2>1, <2>2, <2>3, <2>4, <2>5, <2>6
<1>10. ASSUME NEW r \in Request, AttachMedia(r) PROVE Rest'
  <2>1. LockInv'
    BY <1>10, BodiesStay, ThreadOfType DEF AttachMedia, Goto, BoundMedia, TypeOK, DirectInv, LockInv
  <2>2. KeyInv'
    BY <1>10, BodiesStay, ThreadOfType DEF AttachMedia, Goto, BoundMedia, TypeOK, DirectInv, KeyInv, StoredInv
  <2>3. StoredInv'
    BY <1>10, BodiesStay, ThreadOfType DEF AttachMedia, Goto, BoundMedia, TypeOK, DirectInv, StoredInv, LockInv
  <2>4. OneMessagePerKey'
    BY <1>10, BodiesStay, ThreadOfType DEF AttachMedia, Goto, BoundMedia, TypeOK, DirectInv, OneMessagePerKey, KeyInv
  <2>5. MediaInv'
    BY <1>10, BodiesStay, ThreadOfType DEF AttachMedia, Goto, BoundMedia, TypeOK, DirectInv, MediaInv, StoredInv
  <2>6. ReplyInv'
    BY <1>10, BodiesStay, ThreadOfType DEF AttachMedia, Goto, BoundMedia, TypeOK, DirectInv, ReplyInv, StoredInv
  <2> QED BY <2>1, <2>2, <2>3, <2>4, <2>5, <2>6
<1>11. ASSUME NEW r \in Request, Commit(r) PROVE Rest'
  <2>1. LockInv'
    BY <1>11, BodiesStay, ThreadOfType DEF Commit, Goto, TypeOK, DirectInv, LockInv
  <2>2. KeyInv'
    BY <1>11, BodiesStay, ThreadOfType DEF Commit, Goto, TypeOK, DirectInv, KeyInv, StoredInv
  <2>3. StoredInv'
    <3> DEFINE t == ThreadOf(r)
    <3>0. /\ t \in Thread /\ r \notin stored /\ stored' = stored \cup {r}
          /\ threadSequence' = threadSequence
          /\ threadSequence[r] = latestSequence[t] + 1
          /\ latestSequence' = [latestSequence EXCEPT ![t] = latestSequence[t] + 1]
          /\ \A x \in Request : ThreadOf(x)' = ThreadOf(x)
      BY <1>11, BodiesStay, ThreadOfType DEF Commit, TypeOK, DirectInv, LockInv, StoredInv
    <3>1. \A m \in stored : /\ ThreadOf(m) \in Thread
                            /\ threadSequence[m] \in 1 .. latestSequence[ThreadOf(m)]
      BY ThreadOfType DEF TypeOK, DirectInv, StoredInv
    <3>2. \A m \in stored' : /\ pc'[m] \in {"announce", "done", "crashed"}
                             /\ threadSequence'[m] \in 1 .. latestSequence'[ThreadOf(m)']
      BY <1>11, <3>0, <3>1 DEF Commit, Goto, TypeOK, DirectInv, StoredInv
    <3>3. \A m, n \in stored' :
            ThreadOf(m)' = ThreadOf(n)' /\ threadSequence'[m] = threadSequence'[n] => m = n
      BY <3>0, <3>1 DEF TypeOK, DirectInv, StoredInv
    <3>4. ASSUME NEW u \in Thread, NEW i \in 1 .. latestSequence'[u]
          PROVE  \E m \in stored' : ThreadOf(m)' = u /\ threadSequence'[m] = i
      <4>1. CASE u = t /\ i = latestSequence[t] + 1
        BY <4>1, <3>0
      <4>2. CASE ~(u = t /\ i = latestSequence[t] + 1)
        <5>1. i \in 1 .. latestSequence[u]
          BY <3>0, <4>2 DEF TypeOK
        <5>2. PICK m \in stored : ThreadOf(m) = u /\ threadSequence[m] = i
          BY <5>1 DEF DirectInv, StoredInv
        <5> QED BY <3>0, <5>2 DEF TypeOK
      <4> QED BY <4>1, <4>2
    <3> QED BY <3>2, <3>3, <3>4 DEF StoredInv
  <2>4. OneMessagePerKey'
    BY <1>11, BodiesStay, ThreadOfType, SameKeySymmetric DEF Commit, Goto, TypeOK, DirectInv, OneMessagePerKey, KeyInv
  <2>5. MediaInv'
    BY <1>11, BodiesStay, ThreadOfType DEF Commit, Goto, TypeOK, DirectInv, MediaInv, StoredInv
  <2>6. ReplyInv'
    BY <1>11, BodiesStay, ThreadOfType DEF Commit, Goto, TypeOK, DirectInv, ReplyInv, StoredInv
  <2> QED BY <2>1, <2>2, <2>3, <2>4, <2>5, <2>6
<1>12. ASSUME NEW r \in Request, Abort(r) PROVE Rest'
  <2>1. LockInv'
    BY <1>12, BodiesStay, ThreadOfType DEF Abort, InTx, Throw, Rollback, Answer, Goto, TypeOK, DirectInv, LockInv
  <2>2. KeyInv'
    BY <1>12, BodiesStay, ThreadOfType DEF Abort, InTx, Throw, Rollback, Answer, Goto, TypeOK, DirectInv, KeyInv, StoredInv
  <2>3. StoredInv'
    BY <1>12, BodiesStay, ThreadOfType DEF Abort, InTx, Throw, Rollback, Answer, Goto, TypeOK, DirectInv, StoredInv, LockInv
  <2>4. OneMessagePerKey'
    BY <1>12, BodiesStay, ThreadOfType DEF Abort, InTx, Throw, Rollback, Answer, Goto, TypeOK, DirectInv, OneMessagePerKey, KeyInv
  <2>5. MediaInv'
    <3>1. stored' = stored
      BY <1>12 DEF Abort, InTx, Throw, Rollback, Answer, Goto
    <3>2. \A m \in Request : m \in stored \/ pc'[m] = "commit" =>
            (m \in stored \/ pc[m] = "commit") /\ bound'[m] = bound[m]
      BY <1>12 DEF Abort, InTx, Throw, Rollback, Answer, Goto, TypeOK, DirectInv, StoredInv
    <3> QED BY <3>1, <3>2, MediaStays DEF DirectInv
  <2>6. ReplyInv'
    BY <1>12, BodiesStay, ThreadOfType DEF Abort, InTx, Throw, Rollback, Answer, Goto, TypeOK, DirectInv, ReplyInv, StoredInv
  <2> QED BY <2>1, <2>2, <2>3, <2>4, <2>5, <2>6
<1>13. ASSUME NEW r \in Request, Announce(r) PROVE Rest'
  <2>1. LockInv'
    BY <1>13, BodiesStay, ThreadOfType DEF Announce, Answer, Goto, TypeOK, DirectInv, LockInv
  <2>2. KeyInv'
    BY <1>13, BodiesStay, ThreadOfType DEF Announce, Answer, Goto, TypeOK, DirectInv, KeyInv, StoredInv
  <2>3. StoredInv'
    BY <1>13, BodiesStay, ThreadOfType DEF Announce, Answer, Goto, TypeOK, DirectInv, StoredInv, LockInv
  <2>4. OneMessagePerKey'
    BY <1>13, BodiesStay, ThreadOfType DEF Announce, Answer, Goto, TypeOK, DirectInv, OneMessagePerKey, KeyInv
  <2>5. MediaInv'
    BY <1>13, BodiesStay, ThreadOfType DEF Announce, Answer, Goto, TypeOK, DirectInv, MediaInv, StoredInv
  <2>6. ReplyInv'
    BY <1>13, BodiesStay, ThreadOfType, SameKeySymmetric DEF Announce, Answer, Goto, TypeOK, DirectInv, ReplyInv, StoredInv
  <2> QED BY <2>1, <2>2, <2>3, <2>4, <2>5, <2>6
<1>14. ASSUME NEW r \in Request, Recover(r) PROVE Rest'
  <2>1. LockInv'
    BY <1>14, BodiesStay, ThreadOfType DEF Recover, Goto, Answer, Existing, TypeOK, DirectInv, LockInv
  <2>2. KeyInv'
    BY <1>14, BodiesStay, ThreadOfType DEF Recover, Goto, Answer, Existing, TypeOK, DirectInv, KeyInv, StoredInv
  <2>3. StoredInv'
    BY <1>14, BodiesStay, ThreadOfType DEF Recover, Goto, Answer, Existing, TypeOK, DirectInv, StoredInv, LockInv
  <2>4. OneMessagePerKey'
    BY <1>14, BodiesStay, ThreadOfType DEF Recover, Goto, Answer, Existing, TypeOK, DirectInv, OneMessagePerKey, KeyInv
  <2>5. MediaInv'
    BY <1>14, BodiesStay, ThreadOfType DEF Recover, Goto, Answer, Existing, TypeOK, DirectInv, MediaInv, StoredInv
  <2>6. ReplyInv'
    BY <1>14, BodiesStay, ThreadOfType DEF Recover, Goto, Answer, Existing, TypeOK, DirectInv, ReplyInv, StoredInv
  <2> QED BY <2>1, <2>2, <2>3, <2>4, <2>5, <2>6
<1>15. ASSUME NEW r \in Request, Crash(r) PROVE Rest'
  <2>1. LockInv'
    BY <1>15, BodiesStay, ThreadOfType DEF Crash, Before, InTx, After, Rollback, Goto, TypeOK, DirectInv, LockInv
  <2>2. KeyInv'
    BY <1>15, BodiesStay, ThreadOfType DEF Crash, Before, InTx, After, Rollback, Goto, TypeOK, DirectInv, KeyInv, StoredInv
  <2>3. StoredInv'
    BY <1>15, BodiesStay, ThreadOfType DEF Crash, Before, InTx, After, Rollback, Goto, TypeOK, DirectInv, StoredInv, LockInv
  <2>4. OneMessagePerKey'
    BY <1>15, BodiesStay, ThreadOfType DEF Crash, Before, InTx, After, Rollback, Goto, TypeOK, DirectInv, OneMessagePerKey, KeyInv
  <2>5. MediaInv'
    <3>1. stored' = stored
      BY <1>15 DEF Crash, Before, InTx, After, Rollback, Goto
    <3>2. \A m \in Request : m \in stored \/ pc'[m] = "commit" =>
            (m \in stored \/ pc[m] = "commit") /\ bound'[m] = bound[m]
      BY <1>15 DEF Crash, Before, InTx, After, Rollback, Goto, TypeOK, DirectInv, StoredInv
    <3> QED BY <3>1, <3>2, MediaStays DEF DirectInv
  <2>6. ReplyInv'
    BY <1>15, BodiesStay, ThreadOfType DEF Crash, Before, InTx, After, Rollback, Goto, TypeOK, DirectInv, ReplyInv, StoredInv
  <2> QED BY <2>1, <2>2, <2>3, <2>4, <2>5, <2>6
<1>16. CASE UNCHANGED vars
  BY <1>16, BodiesStay DEF vars, TypeOK, DirectInv, LockInv, KeyInv, StoredInv, OneMessagePerKey, MediaInv, ReplyInv
<1> QED
  BY <1>1, <1>2, <1>3, <1>4, <1>5, <1>6, <1>7, <1>8, <1>9, <1>10, <1>11, <1>12, <1>13, <1>14, <1>15, <1>16 DEF Next, ServerStep

\* The initial states satisfy the inductive invariant.
LEMMA InvInit == Init => DirectInv
<1> SUFFICES ASSUME Init PROVE DirectInv
  OBVIOUS
<1> USE DirectSendAssumption DEF Init
<1>1. TypeOK
  BY DEF TypeOK, Step
<1>2. LockInv /\ KeyInv /\ OneMessagePerKey /\ MediaInv /\ ReplyInv
  BY DEF LockInv, KeyInv, OneMessagePerKey, MediaInv, ReplyInv
<1>3. StoredInv
  BY DEF StoredInv
<1> QED BY <1>1, <1>2, <1>3 DEF DirectInv

-----------------------------------------------------------------------------
(* The theorems.                                                           *)

\* Every variable keeps its type, whatever requests, devices and bodies there are.
THEOREM TypeCorrect == Spec => []TypeOK
<1>1. Init => TypeOK
  BY InvInit DEF DirectInv
<1> QED BY <1>1, TypeStep, PTL DEF Spec

\* The inductive invariant holds in every reachable state.
THEOREM Invariant == Spec => []DirectInv
BY InvInit, InvStep, PTL DEF Spec

\* No interleaving of sends and retries stores two messages for one
\* (senderDeviceId, idempotencyKey).
THEOREM KeysAreIdempotent == Spec => []OneMessagePerKey
<1>1. DirectInv => OneMessagePerKey
  BY DEF DirectInv
<1> QED BY <1>1, Invariant, PTL

\* The messages of every thread are numbered 1..latestSequence without gaps and
\* without repetitions.
THEOREM SequencesAreGapless == Spec => []GaplessSequence
<1>1. DirectInv => GaplessSequence
  <2> SUFFICES ASSUME DirectInv, NEW t \in Thread
               PROVE  LET messages == {m \in stored : ThreadOf(m) = t}
                      IN  /\ {threadSequence[m] : m \in messages} = 1 .. latestSequence[t]
                          /\ \A m, n \in messages :
                               threadSequence[m] = threadSequence[n] => m = n
    BY DEF GaplessSequence
  <2> QED BY DEF DirectInv, StoredInv
<1> QED BY <1>1, Invariant, PTL

\* Requests with the same key that succeed are answered with the same stored
\* message.
THEOREM RetriesAgree == Spec => []RepliesAgree
<1>1. DirectInv => RepliesAgree
  <2> SUFFICES ASSUME DirectInv, NEW r \in Request, NEW q \in Request,
                      reply[r] \in Request, reply[q] \in Request, SameKey(r, q)
               PROVE  reply[r] = reply[q] /\ reply[r] \in stored
    BY DEF RepliesAgree
  <2>1. /\ reply[r] \in stored /\ SameKey(r, reply[r])
        /\ reply[q] \in stored /\ SameKey(q, reply[q])
    BY DEF DirectInv, ReplyInv
  <2>2. SameKey(reply[r], reply[q])
    BY <2>1 DEF SameKey
  <2> QED BY <2>1, <2>2 DEF DirectInv, OneMessagePerKey
<1> QED BY <1>1, Invariant, PTL

\* A request that was answered with an error has stored nothing.
THEOREM ErrorsStoreNothing == Spec => []FailedStoredNothing
<1>1. DirectInv => FailedStoredNothing
  BY DEF DirectInv, ReplyInv, FailedStoredNothing
<1> QED BY <1>1, Invariant, PTL

\* An attachment is never part of two messages.
THEOREM MediaIsExclusive == Spec => []MediaBoundOnce
<1>1. DirectInv => MediaBoundOnce
  BY DEF DirectInv, TypeOK, MediaInv, MediaBoundOnce
<1> QED BY <1>1, Invariant, PTL

\* Messages of a thread become visible in the order of their numbers.
THEOREM VisibilityIsOrdered == Spec => VisibleInOrder
<1>1. ASSUME DirectInv, [Next]_vars,
             NEW m \in stored' \ stored, NEW n \in stored, ThreadOf(m)' = ThreadOf(n)
      PROVE  threadSequence'[m] > threadSequence[n]
  <2>1. Commit(m)
    BY <1>1 DEF Next, ServerStep, vars, database, effects, answers, DeviceChange, Receive,
       Lookup, ReadDevices, UpsertThread, CreateThread, NextSequence, CheckBody, InsertMessage,
       AttachMedia, Commit, Abort, Announce, Recover, Crash, Throw, Rollback
  <2>2. m \in Request /\ dto[m] \in Bodies /\ ThreadOf(m)' = ThreadOf(m)
    BY <1>1, <2>1, TypeStep, BodiesStay DEF DirectInv, TypeOK, Commit
  <2>3. /\ threadSequence'[m] = latestSequence[ThreadOf(m)] + 1
        /\ threadSequence[n] \in 1 .. latestSequence[ThreadOf(n)]
    BY <1>1, <2>1, <2>2 DEF DirectInv, LockInv, StoredInv, Commit
  <2> QED BY <1>1, <2>2, <2>3, ThreadOfType DEF DirectInv, TypeOK
<1>2. DirectInv /\ [Next]_vars
      => [\A m \in stored' \ stored, n \in stored :
            ThreadOf(m)' = ThreadOf(n) => threadSequence'[m] > threadSequence[n]]_vars
  BY <1>1
<1> QED BY <1>2, Invariant, PTL DEF Spec, VisibleInOrder
-----------------------------------------------------------------------------
(* Replies and retries.                                                    *)

\* A reply that has passed its checks, or is stored, answers a stored message of its
\* thread that is no reply.
CheckedReplies ==
  \A r \in Request : r \in stored \/ pc[r] \in {"insert", "attach", "commit"} => ValidReply(r)

\* Rows are never deleted, and neither they nor requests past their first step change.
LEMMA RowsStay ==
  ASSUME DirectInv, [Next]_vars
  PROVE  /\ stored \subseteq stored'
         /\ \A m \in Request : pc[m] # "idle" => dto'[m] = dto[m]
         /\ \A m \in stored : bound'[m] = bound[m] /\ threadSequence'[m] = threadSequence[m]
<1> USE DirectSendAssumption DEF DirectInv, TypeOK, StoredInv, database, effects, answers, Goto,
        Answer, Throw, Rollback
<1> DEFINE Kept == /\ stored \subseteq stored'
                   /\ \A m \in Request : pc[m] # "idle" => dto'[m] = dto[m]
                   /\ \A m \in stored : bound'[m] = bound[m] /\ threadSequence'[m] = threadSequence[m]
<1>1. ASSUME NEW d \in Changing, DeviceChange(d) PROVE Kept
  BY <1>1 DEF DeviceChange
<1>2. ASSUME NEW r \in Request, Receive(r) PROVE Kept
  BY <1>2 DEF Receive
<1>3. ASSUME NEW r \in Request, Lookup(r) PROVE Kept
  BY <1>3 DEF Lookup
<1>4. ASSUME NEW r \in Request, ReadDevices(r) PROVE Kept
  BY <1>4 DEF ReadDevices
<1>5. ASSUME NEW r \in Request, UpsertThread(r) PROVE Kept
  BY <1>5 DEF UpsertThread
<1>6. ASSUME NEW r \in Request, CreateThread(r) PROVE Kept
  BY <1>6 DEF CreateThread
<1>7. ASSUME NEW r \in Request, NextSequence(r) PROVE Kept
  BY <1>7 DEF NextSequence
<1>8. ASSUME NEW r \in Request, CheckBody(r) PROVE Kept
  BY <1>8 DEF CheckBody
<1>9. ASSUME NEW r \in Request, InsertMessage(r) PROVE Kept
  BY <1>9 DEF InsertMessage
<1>10. ASSUME NEW r \in Request, AttachMedia(r) PROVE Kept
  BY <1>10 DEF AttachMedia
<1>11. ASSUME NEW r \in Request, Commit(r) PROVE Kept
  BY <1>11 DEF Commit
<1>12. ASSUME NEW r \in Request, Abort(r) PROVE Kept
  BY <1>12 DEF Abort, InTx
<1>13. ASSUME NEW r \in Request, Announce(r) PROVE Kept
  BY <1>13 DEF Announce
<1>14. ASSUME NEW r \in Request, Recover(r) PROVE Kept
  BY <1>14 DEF Recover
<1>15. ASSUME NEW r \in Request, Crash(r) PROVE Kept
  BY <1>15 DEF Crash, InTx, Before, After
<1>16. ASSUME UNCHANGED vars PROVE Kept
  BY <1>16 DEF vars
<1> HIDE DEF Kept
<1>17. Kept
  BY <1>1, <1>2, <1>3, <1>4, <1>5, <1>6, <1>7, <1>8, <1>9, <1>10, <1>11,
     <1>12, <1>13, <1>14, <1>15, <1>16 DEF Next, ServerStep
<1> QED
  BY <1>17 DEF Kept

\* What has been checked of a reply stays so: its target is stored, and so does not change.
LEMMA RepliesStep ==
  ASSUME DirectInv, CheckedReplies, [Next]_vars
  PROVE  CheckedReplies'
<1> DEFINE Checked == {"insert", "attach", "commit"}
<1>1. \A r \in Request : ValidReply(r) /\ pc[r] # "idle" => ValidReply(r)'
  BY RowsStay DEF ValidReply, DirectInv, TypeOK, StoredInv, ThreadOf
<1>2. \A r \in Request : r \in stored' \/ pc'[r] \in Checked =>
        \/ r \in stored \/ pc[r] \in Checked
        \/ pc[r] = "check" /\ ValidReply(r)
  BY DEF DirectInv, TypeOK, Next, ServerStep, vars, database, effects, answers, DeviceChange, Receive,
     Lookup, ReadDevices, UpsertThread, CreateThread, NextSequence, CheckBody, InsertMessage,
     AttachMedia, Commit, Abort, Announce, Recover, Crash, Throw, Rollback, Goto, Answer
<1>3. \A r \in stored : r \in Request /\ pc[r] # "idle"
  BY DEF DirectInv, TypeOK, StoredInv
<1> QED
  BY <1>1, <1>2, <1>3 DEF CheckedReplies

\* ValidReply in the transaction: replies are one level deep and stay in their thread.
THEOREM RepliesStayFlat == Spec => []RepliesAreFlat
<1>1. Init => CheckedReplies
  BY DEF Init, CheckedReplies
<1>2. DirectInv /\ CheckedReplies => RepliesAreFlat
  BY DirectSendAssumption DEF DirectInv, TypeOK, CheckedReplies, RepliesAreFlat, ValidReply
<1> QED
  BY <1>1, <1>2, RepliesStep, Invariant, PTL DEF Spec

\* Lookup and Recover: a retry is answered with the attachments of the stored message.
THEOREM RetriesShowStored == Spec => []RetryShowsStored
<1>1. Init => RetryShowsStored
  BY DirectSendAssumption DEF Init, RetryShowsStored
<1>2. ASSUME DirectInv, RetryShowsStored, [Next]_vars PROVE RetryShowsStored'
  <2>1. ASSUME NEW r \in Request, reply'[r] \in Request \ {r}
        PROVE  \/ UNCHANGED <<reply[r], shown[r]>>
               \/ reply'[r] \in stored /\ shown'[r] = bound[reply'[r]]
    BY <1>2, <2>1, DirectSendAssumption DEF DirectInv, TypeOK, Next, ServerStep, vars, database,
       effects, answers, DeviceChange, Receive, Lookup, ReadDevices, UpsertThread, CreateThread,
       NextSequence, CheckBody, InsertMessage, AttachMedia, Commit, Abort, Announce, Recover, Crash,
       Throw, Rollback, Goto, Answer, Existing
  <2> QED
    BY <1>2, <2>1, RowsStay DEF RetryShowsStored, DirectInv, ReplyInv
<1> QED
  BY <1>1, <1>2, Invariant, PTL DEF Spec

-----------------------------------------------------------------------------
(* The refinement: DirectSend implements MessageLog.                       *)

\* A request without a body has not been received.
Unreceived == \A r \in Request : pc[r] = "idle" => dto[r] = None

\* A function on 1 .. n is a sequence of length n.
LEMMA FunctionIsSeq ==
  ASSUME NEW S, NEW n \in Nat, NEW f \in [1 .. n -> S]
  PROVE  f \in Seq(S) /\ Len(f) = n
<1>1. f \in Seq(S)
  BY SeqDef
<1>2. DOMAIN f = 1 .. Len(f) /\ Len(f) \in Nat
  BY <1>1, LenProperties
<1> QED
  BY <1>1, <1>2

\* The log of a thread has the stored message of each number at its place.
LogIsStored ==
  /\ ThreadLog \in [Thread -> Seq(Request)]
  /\ \A t \in Thread : Len(ThreadLog[t]) = latestSequence[t]
  /\ \A t \in Thread : \A i \in 1 .. latestSequence[t] :
       /\ ThreadLog[t][i] \in stored
       /\ ThreadOf(ThreadLog[t][i]) = t
       /\ threadSequence[ThreadLog[t][i]] = i
  /\ \A m \in stored : /\ ThreadOf(m) \in Thread
                       /\ threadSequence[m] \in 1 .. latestSequence[ThreadOf(m)]
                       /\ ThreadLog[ThreadOf(m)][threadSequence[m]] = m

LEMMA LogEntries == DirectInv => LogIsStored
<1> SUFFICES ASSUME DirectInv PROVE LogIsStored
  OBVIOUS
<1> USE DEF DirectInv, TypeOK
<1>1. ASSUME NEW t \in Thread, NEW i \in 1 .. latestSequence[t]
      PROVE  /\ ThreadLog[t][i] \in stored
             /\ ThreadOf(ThreadLog[t][i]) = t
             /\ threadSequence[ThreadLog[t][i]] = i
  <2>1. \E m \in stored : ThreadOf(m) = t /\ threadSequence[m] = i
    BY DEF StoredInv
  <2>2. ThreadLog[t][i] = CHOOSE m \in stored : ThreadOf(m) = t /\ threadSequence[m] = i
    BY DEF ThreadLog
  <2> QED
    BY <2>1, <2>2
<1>2. ASSUME NEW t \in Thread
      PROVE  ThreadLog[t] \in Seq(Request) /\ Len(ThreadLog[t]) = latestSequence[t]
  <2>1. latestSequence[t] \in Nat /\ DOMAIN ThreadLog[t] = 1 .. latestSequence[t]
    BY DEF ThreadLog
  <2>2. \A i \in 1 .. latestSequence[t] : ThreadLog[t][i] \in Request
    BY <1>1
  <2> DEFINE Entry(i) == CHOOSE m \in stored : ThreadOf(m) = t /\ threadSequence[m] = i
  <2>3. ThreadLog[t] = [i \in 1 .. latestSequence[t] |-> Entry(i)]
    BY DEF ThreadLog
  <2> HIDE DEF Entry
  <2>4. ThreadLog[t] \in [1 .. latestSequence[t] -> Request]
    BY <2>1, <2>2, <2>3
  <2> QED
    BY <2>1, <2>4, FunctionIsSeq
<1>3. \A m \in stored : /\ ThreadOf(m) \in Thread
                        /\ threadSequence[m] \in 1 .. latestSequence[ThreadOf(m)]
  BY ThreadOfType DEF StoredInv
<1>4. \A m \in stored : ThreadLog[ThreadOf(m)][threadSequence[m]] = m
  BY <1>1, <1>3 DEF StoredInv
<1>5. ThreadLog \in [Thread -> Seq(Request)]
  BY <1>2 DEF ThreadLog
<1> QED
  BY <1>1, <1>2, <1>3, <1>4, <1>5 DEF LogIsStored

\* A message is logged if and only if its row is stored.
LEMMA LoggedIsStored ==
  ASSUME LogIsStored, NEW m \in Request
  PROVE  Log!Logged(m) <=> m \in stored
<1>1. ASSUME m \in stored PROVE Log!Logged(m)
  BY <1>1 DEF Log!Logged, LogIsStored
<1>2. ASSUME Log!Logged(m) PROVE m \in stored
  <2>1. PICK t \in Thread : \E i \in DOMAIN ThreadLog[t] : ThreadLog[t][i] = m
    BY <1>2 DEF Log!Logged
  <2>2. DOMAIN ThreadLog[t] = 1 .. latestSequence[t]
    BY DEF LogIsStored
  <2> QED
    BY <2>1, <2>2 DEF LogIsStored
<1> QED
  BY <1>1, <1>2

\* While no row is added the logs stay as they are.
LEMMA LogStays ==
  ASSUME DirectInv, LogIsStored, LogIsStored', [Next]_vars,
         stored' = stored, latestSequence' = latestSequence
  PROVE  ThreadLog' = ThreadLog
<1>1. \A m \in stored : threadSequence'[m] = threadSequence[m] /\ ThreadOf(m)' = ThreadOf(m)
  BY RowsStay DEF ThreadOf, DirectInv, TypeOK, StoredInv
<1>2. \A t \in Thread : /\ ThreadLog[t] \in Seq(Request) /\ ThreadLog'[t] \in Seq(Request)
                        /\ Len(ThreadLog[t]) = latestSequence[t]
                        /\ Len(ThreadLog'[t]) = latestSequence[t]
  BY DEF LogIsStored
<1>3. ASSUME NEW t \in Thread, NEW i \in 1 .. latestSequence[t]
      PROVE  ThreadLog'[t][i] = ThreadLog[t][i]
  <2>1. /\ ThreadLog[t][i] \in stored /\ ThreadOf(ThreadLog[t][i]) = t
        /\ threadSequence[ThreadLog[t][i]] = i
    BY DEF LogIsStored
  <2>2. PICK m \in stored : m = ThreadLog[t][i]
    BY <2>1
  <2>3. ThreadLog'[ThreadOf(m)'][threadSequence'[m]] = m
    BY <2>2 DEF LogIsStored
  <2> QED
    BY <2>1, <2>2, <2>3, <1>1
<1>4. \A t \in Thread : ThreadLog'[t] = ThreadLog[t]
  BY <1>2, <1>3
<1> QED
  BY <1>4 DEF LogIsStored

\* What a request asks for is known once it is received.
LEMMA AskedStays ==
  ASSUME dto' = dto
  PROVE  Asked' = Asked
BY DEF Asked, senderDeviceId_idempotencyKey, ThreadOf, canonicalDirectPair

LEMMA AskedIsKnown ==
  ASSUME NEW r \in Request, dto[r] \in Bodies
  PROVE  /\ Asked[r] # None
         /\ Asked[r].key = senderDeviceId_idempotencyKey(r) /\ Asked[r].thread = ThreadOf(r)
<1>1. /\ senderDeviceId_idempotencyKey(r) \in Device \X Key
      /\ ThreadOf(r) \in SUBSET User
  BY DEF senderDeviceId_idempotencyKey, ThreadOf, canonicalDirectPair, Bodies
<1>2. Asked[r] = [key |-> senderDeviceId_idempotencyKey(r), thread |-> ThreadOf(r)]
  BY DirectSendAssumption DEF Asked
<1> QED
  BY <1>1, <1>2, DirectSendAssumption

\* The commit of r appends it to the log of its thread.
LEMMA CommitAppends ==
  ASSUME DirectInv, LogIsStored, LogIsStored', NEW r \in Request, Commit(r)
  PROVE  ThreadLog' = [ThreadLog EXCEPT ![ThreadOf(r)] = Append(@, r)]
<1>0. PICK t \in Thread : t = ThreadOf(r)
  BY ThreadOfType DEF DirectInv, TypeOK, Commit
<1> DEFINE n == latestSequence[t]
<1>1. /\ n \in Nat /\ threadSequence'[r] = n + 1 /\ threadSequence' = threadSequence
      /\ latestSequence' = [latestSequence EXCEPT ![t] = n + 1]
      /\ latestSequence'[t] = n + 1 /\ \A u \in Thread \ {t} : latestSequence'[u] = latestSequence[u]
      /\ stored' = stored \cup {r}
      /\ \A m \in Request : ThreadOf(m)' = ThreadOf(m)
  BY <1>0, BodiesStay DEF DirectInv, TypeOK, LockInv, Commit
<1>2. \A u \in Thread : /\ ThreadLog[u] \in Seq(Request) /\ ThreadLog'[u] \in Seq(Request)
                        /\ Len(ThreadLog[u]) = latestSequence[u]
                        /\ Len(ThreadLog'[u]) = latestSequence'[u]
  BY DEF LogIsStored
<1>3. ASSUME NEW u \in Thread, NEW i \in 1 .. latestSequence[u]
      PROVE  ThreadLog'[u][i] = ThreadLog[u][i]
  <2>1. PICK m \in stored : m = ThreadLog[u][i] /\ ThreadOf(m) = u /\ threadSequence[m] = i
    BY DEF LogIsStored
  <2>2. m \in stored' /\ m \in Request
    BY <1>1 DEF DirectInv, TypeOK
  <2>3. ThreadLog'[ThreadOf(m)'][threadSequence'[m]] = m
    BY <2>2 DEF LogIsStored
  <2> QED
    BY <2>1, <2>2, <2>3, <1>1
<1>4. ThreadLog'[t][n + 1] = r
  <2>1. r \in stored'
    BY <1>1
  <2>2. ThreadLog'[ThreadOf(r)'][threadSequence'[r]] = r
    BY <2>1 DEF LogIsStored
  <2> QED
    BY <2>2, <1>0, <1>1
<1>5. ThreadLog'[t] = Append(ThreadLog[t], r)
  <2>1. PICK old \in Seq(Request), new \in Seq(Request) :
          /\ old = ThreadLog[t] /\ new = ThreadLog'[t]
          /\ Len(old) = n /\ Len(new) = n + 1 /\ new[n + 1] = r
          /\ \A i \in 1 .. n : new[i] = old[i]
    BY <1>1, <1>2, <1>3, <1>4
  <2>2. /\ Append(old, r) \in Seq(Request) /\ Len(Append(old, r)) = n + 1
        /\ Append(old, r)[n + 1] = r /\ \A i \in 1 .. n : Append(old, r)[i] = old[i]
    BY <2>1, <1>1
  <2>3. \A i \in 1 .. n + 1 : new[i] = Append(old, r)[i]
    BY <2>1, <2>2, <1>1
  <2>4. new = Append(old, r)
    BY <2>1, <2>2, <2>3, SeqEqual
  <2> QED
    BY <2>1, <2>4
<1>6. \A u \in Thread \ {t} : ThreadLog'[u] = ThreadLog[u]
  <2> SUFFICES ASSUME NEW u \in Thread \ {t} PROVE ThreadLog'[u] = ThreadLog[u]
    OBVIOUS
  <2>1. Len(ThreadLog'[u]) = latestSequence[u] /\ Len(ThreadLog[u]) = latestSequence[u]
    BY <1>1, <1>2
  <2>2. \A i \in 1 .. latestSequence[u] : ThreadLog'[u][i] = ThreadLog[u][i]
    BY <1>3
  <2> QED
    BY <2>1, <2>2, <1>2, SeqEqual
<1>7. DOMAIN ThreadLog = Thread /\ DOMAIN ThreadLog' = Thread
      /\ ThreadLog' = [u \in Thread |-> ThreadLog'[u]]
  BY DEF LogIsStored
<1> QED
  BY <1>0, <1>5, <1>6, <1>7 DEF LogIsStored

\* Every step of a request is one of its steps in the log, or none.
LEMMA RefinementStep ==
  ASSUME DirectInv, DirectInv', LogIsStored, LogIsStored', Unreceived, [Next]_vars
  PROVE  [Log!Next]_Log!vars
<1> USE DirectSendAssumption DEF database, effects, answers
<1> DEFINE Done == [Log!Next]_Log!vars
<1>0. \A r \in Request : pc[r] # "idle" => dto[r] \in Bodies
                         /\ (pc[r] # "done" => reply[r] = None)
  BY DEF DirectInv, TypeOK, ReplyInv
<1>1. ASSUME stored' = stored, latestSequence' = latestSequence, dto' = dto, reply' = reply
      PROVE  Done
  BY <1>1, LogStays, AskedStays DEF Log!vars
<1>2. ASSUME NEW r \in Request, Receive(r) PROVE Done
  <2>1. ThreadLog' = ThreadLog /\ reply' = reply
    BY <1>2, LogStays DEF Receive
  <2>2. PICK d \in Dto : dto' = [dto EXCEPT ![r] = d]
    BY <1>2 DEF Receive
  <2>3. Asked[r] = None
    BY <1>2 DEF Asked, Receive, Unreceived
  <2>4. Asked' = [Asked EXCEPT ![r] = [key |-> <<d.device, d.key>>, thread |-> {d.sender, d.recipient}]]
    <3>1. /\ dto'[r] = d /\ d # None
          /\ \A q \in Request \ {r} : dto'[q] = dto[q]
      BY <2>2 DEF DirectInv, TypeOK
    <3>2. Asked'[r] = [key |-> <<d.device, d.key>>, thread |-> {d.sender, d.recipient}]
      BY <3>1 DEF Asked, senderDeviceId_idempotencyKey, ThreadOf, canonicalDirectPair
    <3>3. \A q \in Request \ {r} : Asked'[q] = Asked[q]
      BY <3>1 DEF Asked, senderDeviceId_idempotencyKey, ThreadOf, canonicalDirectPair
    <3>4. Asked = [q \in Request |-> Asked[q]] /\ Asked' = [q \in Request |-> Asked'[q]]
      BY DEF Asked
    <3> QED
      BY <3>2, <3>3, <3>4
  <2>5. <<d.device, d.key>> \in Device \X Key /\ {d.sender, d.recipient} \in Thread
    BY DEF Bodies, Thread, canonicalDirectPair
  <2>6. Log!Ask(r)
    BY <2>1, <2>3, <2>4, <2>5 DEF Log!Ask
  <2> QED
    BY <2>6 DEF Log!Next
\* r, which is past its first step and unanswered, is answered with m, which is stored.
<1>3. ASSUME NEW r \in Request, NEW m \in stored, SameKey(r, m),
             pc[r] \notin {"idle", "done"}, reply' = [reply EXCEPT ![r] = m],
             stored' = stored, latestSequence' = latestSequence, dto' = dto
      PROVE  Done
  <2>1. ThreadLog' = ThreadLog /\ Asked' = Asked
    BY <1>3, LogStays, AskedStays
  <2>2. m \in Request /\ Log!Logged(m) /\ dto[m] \in Bodies
    BY <1>0, LoggedIsStored DEF DirectInv, TypeOK, StoredInv
  <2>3. Asked[r] # None /\ Asked[m].key = Asked[r].key
    BY <1>0, <1>3, <2>2, AskedIsKnown DEF SameKey
  <2>4. Log!Answer(r)
    BY <1>0, <1>3, <2>1, <2>2, <2>3 DEF Log!Answer
  <2> QED
    BY <2>4 DEF Log!Next
\* r is answered with an error.
<1>4. ASSUME NEW r \in Request, pc[r] \in InTx \cup {"recover"},
             reply' = [reply EXCEPT ![r] = Failed],
             stored' = stored, latestSequence' = latestSequence, dto' = dto
      PROVE  Done
  <2>1. ThreadLog' = ThreadLog /\ Asked' = Asked
    BY <1>4, LogStays, AskedStays
  <2>2. ~Log!Logged(r)
    BY <1>4, LoggedIsStored DEF DirectInv, StoredInv, InTx
  <2>3. Asked[r] # None /\ reply[r] = None
    BY <1>0, <1>4, AskedIsKnown DEF InTx
  <2>4. Log!Fail(r)
    BY <1>4, <2>1, <2>2, <2>3 DEF Log!Fail
  <2> QED
    BY <2>4 DEF Log!Next
<1>5. ASSUME NEW r \in Request, Commit(r) PROVE Done
  <2>1. Asked' = Asked /\ reply' = reply /\ reply[r] = None /\ dto[r] \in Bodies
    BY <1>0, <1>5, AskedStays DEF Commit
  <2>2. Asked[r] # None /\ Asked[r].thread = ThreadOf(r)
    BY <2>1, AskedIsKnown
  <2>3. \A m \in Request : Log!Logged(m) => Asked[m].key # Asked[r].key
    <3> SUFFICES ASSUME NEW m \in Request, Log!Logged(m) PROVE Asked[m].key # Asked[r].key
      OBVIOUS
    <3>1. m \in stored /\ dto[m] \in Bodies
      BY <1>0, LoggedIsStored DEF DirectInv, StoredInv
    <3>2. ~SameKey(r, m)
      BY <1>5, <3>1 DEF DirectInv, KeyInv, Commit
    <3> QED
      BY <2>1, <3>1, <3>2, AskedIsKnown DEF SameKey
  <2>4. Log!AppendMessage(r)
    BY <1>5, <2>1, <2>2, <2>3, CommitAppends DEF Log!AppendMessage
  <2> QED
    BY <2>4 DEF Log!Next
<1>6. ASSUME NEW d \in Changing, DeviceChange(d) PROVE Done
  BY <1>1, <1>6 DEF DeviceChange
<1>7. ASSUME NEW r \in Request, Lookup(r) PROVE Done
  BY <1>1, <1>3, <1>7 DEF Lookup, Answer, Existing
<1>8. ASSUME NEW r \in Request, ReadDevices(r) PROVE Done
  BY <1>1, <1>4, <1>8 DEF ReadDevices, Throw, Rollback, Answer, InTx
<1>9. ASSUME NEW r \in Request, UpsertThread(r) PROVE Done
  BY <1>1, <1>9 DEF UpsertThread
<1>10. ASSUME NEW r \in Request, CreateThread(r) PROVE Done
  BY <1>1, <1>10 DEF CreateThread, Rollback
<1>11. ASSUME NEW r \in Request, NextSequence(r) PROVE Done
  BY <1>1, <1>11 DEF NextSequence
<1>12. ASSUME NEW r \in Request, CheckBody(r) PROVE Done
  BY <1>1, <1>4, <1>12 DEF CheckBody, Throw, Rollback, Answer, InTx
<1>13. ASSUME NEW r \in Request, InsertMessage(r) PROVE Done
  BY <1>1, <1>13 DEF InsertMessage, Rollback
<1>14. ASSUME NEW r \in Request, AttachMedia(r) PROVE Done
  BY <1>1, <1>14 DEF AttachMedia
<1>15. ASSUME NEW r \in Request, Abort(r) PROVE Done
  BY <1>4, <1>15 DEF Abort, Throw, Rollback, Answer
<1>16. ASSUME NEW r \in Request, Announce(r) PROVE Done
  BY <1>3, <1>16, SameKeySymmetric DEF Announce, Answer, DirectInv, ReplyInv
<1>17. ASSUME NEW r \in Request, Recover(r) PROVE Done
  BY <1>3, <1>4, <1>17 DEF Recover, Answer, Existing
<1>18. ASSUME NEW r \in Request, Crash(r) PROVE Done
  BY <1>1, <1>18 DEF Crash, Rollback
<1>19. ASSUME UNCHANGED vars PROVE Done
  BY <1>1, <1>19 DEF vars
<1> HIDE DEF Done
<1>20. Done
  BY <1>2, <1>5, <1>6, <1>7, <1>8, <1>9, <1>10, <1>11, <1>12, <1>13, <1>14, <1>15, <1>16,
     <1>17, <1>18, <1>19 DEF Next, ServerStep
<1> QED
  BY <1>20 DEF Done

LEMMA UnreceivedStep == DirectInv /\ Unreceived /\ [Next]_vars => Unreceived'
  BY DEF DirectInv, TypeOK, Unreceived, Next, ServerStep, vars, database, effects, answers,
     DeviceChange, Receive, Lookup, ReadDevices, UpsertThread, CreateThread, NextSequence, CheckBody,
     InsertMessage, AttachMedia, Commit, Abort, Announce, Recover, Crash, Throw, Rollback, Goto, Answer

LEMMA RefinementInit == Init => Log!Init /\ Unreceived
  BY DEF Init, Log!Init, Unreceived, Asked, ThreadLog

\* Sends, retries, rollbacks and crashes together are atomic appends to one log per
\* thread, whatever requests there are: DirectSend implements MessageLog.
THEOREM Refinement == Spec => ImplementsMessageLog
<1>1. LogIsStored /\ LogIsStored' /\ DirectInv /\ DirectInv' /\ Unreceived /\ [Next]_vars
      => [Log!Next]_Log!vars
  BY RefinementStep
<1> QED
  BY <1>1, RefinementInit, UnreceivedStep, LogEntries, Invariant, PTL
  DEF Spec, ImplementsMessageLog, Log!Spec
=============================================================================
