--------------------------- MODULE GroupSendProofs ---------------------------
(***************************************************************************)
(* Proofs about GroupSend, for every set of requests, groups, users,       *)
(* devices, attachments and request bodies, and all failures.              *)
(***************************************************************************)
EXTENDS GroupSend, SequenceTheorems, TLAPS

-----------------------------------------------------------------------------
(* Facts about the operators.                                              *)

\* The largest element of 1..n is n.
LEMMA LargestOfInterval ==
  ASSUME NEW n \in Nat, n # 0
  PROVE  Largest(1 .. n) = n
<1> DEFINE P(x) == x \in 1 .. n /\ \A k \in 1 .. n : k <= x
<1>1. P(n)
  OBVIOUS
<1>2. \A x : P(x) => x = n
  OBVIOUS
<1> QED BY <1>1, <1>2 DEF Largest

\* LastSequence returns the number of the last message: 0 in an empty group.
LEMMA LastOfInterval ==
  \A g : \A n \in Nat : Numbers(g) = 1 .. n => LastSequence(g) = n
<1> TAKE g
<1> TAKE n \in Nat
<1> HAVE Numbers(g) = 1 .. n
<1>1. CASE n = 0
  BY <1>1 DEF LastSequence
<1>2. CASE n # 0
  <2>1. Numbers(g) # {}
    BY <1>2
  <2> QED BY <1>2, <2>1, LargestOfInterval DEF LastSequence
<1> QED BY <1>1, <1>2

\* In a state that satisfies the invariant the numbers of a group are 1..LastSequence.
LEMMA NumbersAreInterval ==
  ASSUME TypeOK, StoredInv, NEW g \in Group
  PROVE  LastSequence(g) \in Nat /\ Numbers(g) = 1 .. LastSequence(g)
<1>1. PICK n \in {0} \cup {threadSequence[m] : m \in Request} : Numbers(g) = 1 .. n
  BY DEF StoredInv
<1>2. n \in Nat
  BY DEF TypeOK
<1> QED BY <1>1, <1>2, LastOfInterval

\* A clash is symmetric, and every row clashes with itself.
LEMMA ClashSymmetric ==
  \A x, y \in Request : Clash(x, x) /\ (Clash(x, y) => Clash(y, x))
BY DEF Clash, SameKey

-----------------------------------------------------------------------------
(* Type correctness.                                                       *)

\* From a state of the invariant every step keeps each variable in its type.
LEMMA TypeStep == GroupInv /\ [Next]_vars => TypeOK'
<1> SUFFICES ASSUME GroupInv, [Next]_vars PROVE TypeOK'
  OBVIOUS
<1>0. TypeOK
  BY DEF GroupInv
<1> USE <1>0, GroupSendAssumption
        DEF TypeOK, Step, Before, InTx, JobState, Running,
            directory, database, request, queue, effects
<1>1. ASSUME NEW g \in Group, NEW u \in ChangingMember, MemberChange(g, u) PROVE TypeOK'
  BY <1>1 DEF MemberChange
<1>2. ASSUME NEW d \in ChangingDevice, DeviceChange(d) PROVE TypeOK'
  BY <1>2 DEF DeviceChange
<1>3. ASSUME NEW r \in Request, Receive(r) PROVE TypeOK'
  BY <1>3 DEF Receive, Goto
<1>4. ASSUME NEW r \in Request, CheckMember(r) PROVE TypeOK'
  BY <1>4 DEF CheckMember, Goto, Answer
<1>5. ASSUME NEW r \in Request, Lookup(r) PROVE TypeOK'
  BY <1>5 DEF Lookup, Goto, Answer, Existing
<1>6. ASSUME NEW r \in Request, LookupTx(r) PROVE TypeOK'
  BY <1>6 DEF LookupTx, Goto, Existing
<1>7. ASSUME NEW r \in Request, ReadSequence(r) PROVE TypeOK'
  <2>1. dto[r].group \in Group
    BY <1>7 DEF ReadSequence, Bodies
  <2>2. LastSequence(dto[r].group) + 1 \in Nat
    BY <2>1, NumbersAreInterval DEF GroupInv
  <2> QED BY <1>7, <2>2 DEF ReadSequence, Goto
<1>8. ASSUME NEW r \in Request, CheckBody(r) PROVE TypeOK'
  BY <1>8 DEF CheckBody, Goto, Rollback, Answer
<1>9. ASSUME NEW r \in Request, InsertMessage(r) PROVE TypeOK'
  BY <1>9 DEF InsertMessage, Goto, Rollback, Answer
<1>10. ASSUME NEW r \in Request, AttachMedia(r) PROVE TypeOK'
  BY <1>10 DEF AttachMedia, Goto, Bodies
<1>11. ASSUME NEW r \in Request, Commit(r) PROVE TypeOK'
  BY <1>11 DEF Commit, Goto
<1>12. ASSUME NEW r \in Request, Abort(r) PROVE TypeOK'
  BY <1>12 DEF Abort, Rollback, Answer, Goto
<1>13. ASSUME NEW r \in Request, QueueFanout(r) PROVE TypeOK'
  BY <1>13 DEF QueueFanout, Answer, Goto
<1>14. ASSUME NEW r \in Request, QueueFails(r) PROVE TypeOK'
  BY <1>14 DEF QueueFails, Answer, Goto
<1>15. ASSUME NEW r \in Request, Crash(r) PROVE TypeOK'
  BY <1>15 DEF Crash, Rollback, Goto
<1>16. ASSUME NEW r \in Request, FanoutDevices(r) PROVE TypeOK'
  BY <1>16 DEF FanoutDevices, Job, TargetDevices
<1>17. ASSUME NEW r \in Request, FanoutCreate(r) PROVE TypeOK'
  <2>1. result[r] \in Request
    BY <1>17 DEF FanoutCreate, GroupInv, ResultInv, Existing
  <2> QED BY <1>17, <2>1 DEF FanoutCreate, Job
<1>18. ASSUME NEW r \in Request, FanoutEmit(r) PROVE TypeOK'
  <2>1. result[r] \in Request
    BY <1>18 DEF FanoutEmit, GroupInv, ResultInv, Existing
  <2> QED BY <1>18, <2>1 DEF FanoutEmit, Job
<1>19. ASSUME NEW r \in Request, FanoutRecalc(r) PROVE TypeOK'
  <2>1. result[r] \in Request /\ Recipients(r) \subseteq User
    BY <1>19 DEF FanoutRecalc, GroupInv, ResultInv, Existing, Recipients
  <2> QED BY <1>19, <2>1 DEF FanoutRecalc, Job
<1>20. ASSUME NEW r \in Request, FanoutFails(r) PROVE TypeOK'
  <2>1. result[r] \in Request /\ Recipients(r) \subseteq User
    BY <1>20 DEF FanoutFails, GroupInv, ResultInv, Existing, Recipients
  <2> QED BY <1>20, <2>1 DEF FanoutFails, Job
<1>21. CASE UNCHANGED vars
  BY <1>21 DEF vars
<1> QED
  BY <1>1, <1>2, <1>3, <1>4, <1>5, <1>6, <1>7, <1>8, <1>9, <1>10, <1>11, <1>12, <1>13,
     <1>14, <1>15, <1>16, <1>17, <1>18, <1>19, <1>20, <1>21 DEF Next, ServerStep, WorkerStep

-----------------------------------------------------------------------------
(* The rows and the open transactions.                                     *)

SendInv == StoredInv /\ OpenInv /\ ClashInv /\ MediaInv

\* While the committed rows stay as they are, so do the groups and their numbers.
LEMMA RowsStay ==
  ASSUME stored' = stored,
         \A m \in stored : dto'[m] = dto[m] /\ threadSequence'[m] = threadSequence[m]
  PROVE  \A g : /\ GroupMessages(g)' = GroupMessages(g)
                /\ Numbers(g)' = Numbers(g)
                /\ LastSequence(g)' = LastSequence(g)
<1>1. \A g : GroupMessages(g)' = GroupMessages(g)
  BY DEF GroupMessages
<1>2. \A g : Numbers(g)' = Numbers(g)
  BY <1>1 DEF Numbers, GroupMessages
<1> QED BY <1>1, <1>2 DEF LastSequence

\* Two rows clash after a step exactly if they did before it, when their bodies
\* and numbers stay.
LEMMA ClashStays ==
  ASSUME NEW S \in SUBSET Request,
         \A m \in S : dto'[m] = dto[m] /\ threadSequence'[m] = threadSequence[m]
  PROVE  \A x, y \in S : Clash(x, y)' = Clash(x, y)
BY DEF Clash, SameKey, senderDeviceId_idempotencyKey

\* A step that commits nothing keeps the numbering of the committed rows, as long
\* as it keeps their requests where they are or ends them.
LEMMA StoredStays ==
  ASSUME GroupInv, TypeOK', stored' = stored,
         \A m \in stored : /\ dto'[m] = dto[m]
                           /\ threadSequence'[m] = threadSequence[m]
                           /\ pc'[m] \in {"add", "done", "crashed"}
  PROVE  StoredInv'
<1>1. \A m \in stored' : pc'[m] \in {"add", "done", "crashed"}
  OBVIOUS
<1>2. ASSUME NEW g \in Group
      PROVE  \E n \in {0} \cup {threadSequence'[m] : m \in Request} : Numbers(g)' = 1 .. n
  <2>1. Numbers(g)' = 1 .. LastSequence(g) /\ LastSequence(g) \in Nat
    BY NumbersAreInterval, RowsStay DEF GroupInv
  <2>2. CASE LastSequence(g) = 0
    BY <2>1, <2>2
  <2>3. CASE LastSequence(g) # 0
    <3>1. LastSequence(g) \in Numbers(g)'
      BY <2>1, <2>3
    <3> QED BY <2>1, <3>1 DEF Numbers, GroupMessages, TypeOK
  <2> QED BY <2>1, <2>2, <2>3
<1>3. stored \in SUBSET Request
  BY DEF GroupInv, TypeOK
<1>4. \A m, n \in stored' : Clash(m, n)' => m = n
  BY <1>3, ClashStays DEF GroupInv, StoredInv
<1> QED BY <1>1, <1>2, <1>4 DEF StoredInv

\* Workers and directory changes do not touch rows or requests.
LEMMA SendFrame == GroupInv /\ TypeOK' /\ UNCHANGED <<database, request>> => SendInv'
<1> SUFFICES ASSUME GroupInv, TypeOK', UNCHANGED <<database, request>> PROVE SendInv'
  OBVIOUS
<1> USE DEF database, request
<1>1. \A x, y \in Request : Clash(x, y)' = Clash(x, y)
  BY ClashStays
<1>2. StoredInv'
  BY StoredStays DEF GroupInv, StoredInv
<1>3. OpenInv'
  BY RowsStay DEF GroupInv, OpenInv
<1>4. ClashInv' /\ MediaInv'
  BY <1>1 DEF GroupInv, TypeOK, ClashInv, MediaInv
<1> QED BY <1>2, <1>3, <1>4 DEF SendInv

\* A step of one request that commits nothing and binds nothing keeps the part of
\* the invariant about sends, unless it inserts a row: the request moves on inside
\* its transaction, leaves it, or has not opened it yet.
LEMMA QuietStep ==
  ASSUME GroupInv, TypeOK', NEW r \in Request,
         stored' = stored, dto' = dto, threadSequence' = threadSequence,
         \A x \in Request \ {r} : pc'[x] = pc[x] /\ bound'[x] = bound[x],
         bound'[r] \subseteq bound[r], pc'[r] # "commit",
         r \in stored => pc'[r] \in {"add", "done", "crashed"},
         pc'[r] \in {"check", "insert", "attach"} => pc[r] \in {"check", "insert"}
  PROVE  /\ StoredInv' /\ OpenInv' /\ MediaInv'
         /\ pc'[r] # "attach" => ClashInv'
<1>1. StoredInv'
  BY StoredStays DEF GroupInv, TypeOK, StoredInv
<1>2. OpenInv'
  <2>1. \A g : LastSequence(g)' = LastSequence(g)
    BY RowsStay DEF GroupInv, TypeOK
  <2> QED BY <2>1 DEF GroupInv, OpenInv
<1>3. MediaInv'
  BY DEF GroupInv, MediaInv
<1>4. ASSUME pc'[r] # "attach" PROVE ClashInv'
  <2>1. \A x, y \in Request : Clash(x, y)' = Clash(x, y)
    BY ClashStays
  <2> QED BY <1>4, <2>1 DEF GroupInv, TypeOK, ClashInv
<1> QED BY <1>1, <1>2, <1>3, <1>4

\* The number of a row that is committed is the next one of its group.
LEMMA CommitNumbers ==
  ASSUME GroupInv, NEW r \in Request, Commit(r)
  PROVE  /\ dto[r].group \in Group
         /\ threadSequence[r] = LastSequence(dto[r].group) + 1
         /\ \A h \in Group : LastSequence(h) \in Nat
         /\ \A h \in Group \ {dto[r].group} : /\ Numbers(h)' = Numbers(h)
                                              /\ LastSequence(h)' = LastSequence(h)
         /\ Numbers(dto[r].group)' = 1 .. LastSequence(dto[r].group) + 1
         /\ LastSequence(dto[r].group)' = LastSequence(dto[r].group) + 1
<1> DEFINE g == dto[r].group
<1>1. /\ r \notin stored /\ stored' = stored \cup {r}
      /\ dto' = dto /\ threadSequence' = threadSequence
      /\ g \in Group /\ pc[r] = "commit"
  BY DEF Commit, TypeOK, GroupInv, StoredInv, Bodies
<1>3. /\ \A h \in Group : Numbers(h)' = IF h = g THEN Numbers(h) \cup {threadSequence[r]}
                                               ELSE Numbers(h)
  BY <1>1 DEF Numbers, GroupMessages
<1>4. threadSequence[r] = LastSequence(g) + 1
  <2>1. threadSequence[r] \in 1 .. LastSequence(g) + 1
    BY <1>1 DEF GroupInv, OpenInv
  <2>2. threadSequence[r] \notin Numbers(g)
    BY <1>1 DEF GroupInv, ClashInv, Clash, Numbers, GroupMessages
  <2>3. LastSequence(g) \in Nat /\ Numbers(g) = 1 .. LastSequence(g)
    BY <1>1, NumbersAreInterval DEF GroupInv
  <2> QED BY <2>1, <2>2, <2>3
<1>5. \A h \in Group : LastSequence(h) \in Nat /\ Numbers(h) = 1 .. LastSequence(h)
  BY NumbersAreInterval DEF GroupInv
<1>6. \A h \in Group \ {g} : /\ Numbers(h)' = Numbers(h)
                             /\ LastSequence(h)' = LastSequence(h)
  BY <1>3 DEF LastSequence
<1>7. Numbers(g)' = 1 .. LastSequence(g) + 1
  <2>1. Numbers(g)' = Numbers(g) \cup {threadSequence[r]}
    BY <1>1, <1>3
  <2>2. \A n \in Nat : (1 .. n) \cup {n + 1} = 1 .. n + 1
    OBVIOUS
  <2> QED BY <1>1, <1>4, <1>5, <2>1, <2>2
<1>8. LastSequence(g)' = LastSequence(g) + 1
  <2>1. LastSequence(g) + 1 \in Nat \ {0} /\ 1 \in 1 .. LastSequence(g) + 1
    BY <1>1, <1>5
  <2>2. Numbers(g)' # {}
    BY <1>7, <2>1
  <2> QED BY <1>7, <2>1, <2>2, LargestOfInterval DEF LastSequence
<1> QED
  BY <1>1, <1>4, <1>5, <1>6, <1>7, <1>8

\* Every step of a request preserves the numbering, the uniqueness and the
\* attachments of rows, committed or not.
LEMMA SendStep ==
  ASSUME GroupInv, TypeOK', NEW r \in Request,
         Receive(r) \/ ServerStep(r) \/ Abort(r) \/ QueueFails(r) \/ Crash(r)
  PROVE  SendInv'
<1>0. TypeOK
  BY DEF GroupInv
<1> USE <1>0 DEF directory, database, request, queue, effects
<1>1. CASE Receive(r)
  <2>1. /\ r \notin stored /\ stored' = stored /\ bound' = bound
        /\ \A x \in Request \ {r} : pc'[x] = pc[x] /\ dto'[x] = dto[x]
        /\ pc'[r] = "member" /\ threadSequence' = threadSequence
    BY <1>1 DEF Receive, Goto, TypeOK, GroupInv, StoredInv
  <2>2. \A x, y \in Request \ {r} : Clash(x, y)' = Clash(x, y)
    BY <2>1, ClashStays
  <2>3. StoredInv'
    BY <2>1, StoredStays DEF TypeOK, GroupInv, StoredInv
  <2>4. OpenInv'
    <3>1. \A g : LastSequence(g)' = LastSequence(g)
      BY <2>1, RowsStay DEF TypeOK
    <3> QED BY <2>1, <3>1 DEF GroupInv, OpenInv
  <2>5. ClashInv'
    BY <2>1, <2>2 DEF TypeOK, GroupInv, ClashInv
  <2>6. MediaInv'
    BY <2>1 DEF GroupInv, MediaInv
  <2> QED BY <2>3, <2>4, <2>5, <2>6 DEF SendInv
<1>2. CASE CheckMember(r)
  <2>1. /\ stored' = stored /\ dto' = dto /\ threadSequence' = threadSequence
        /\ \A x \in Request \ {r} : pc'[x] = pc[x] /\ bound'[x] = bound[x]
        /\ bound'[r] \subseteq bound[r]
    BY <1>2 DEF CheckMember, Goto, Answer, TypeOK
  <2>2. /\ pc'[r] \notin {"attach", "commit"}
        /\ r \in stored => pc'[r] \in {"add", "done", "crashed"}
        /\ pc'[r] \in {"check", "insert"} => pc[r] \in {"check", "insert"}
    BY <1>2 DEF CheckMember, Goto, Answer, TypeOK, GroupInv, StoredInv
  <2> QED BY <2>1, <2>2, QuietStep DEF SendInv
<1>3. CASE Lookup(r)
  <2>1. /\ stored' = stored /\ dto' = dto /\ threadSequence' = threadSequence
        /\ \A x \in Request \ {r} : pc'[x] = pc[x] /\ bound'[x] = bound[x]
        /\ bound'[r] \subseteq bound[r]
    BY <1>3 DEF Lookup, Existing, Goto, Answer, TypeOK
  <2>2. /\ pc'[r] \notin {"attach", "commit"}
        /\ r \in stored => pc'[r] \in {"add", "done", "crashed"}
        /\ pc'[r] \in {"check", "insert"} => pc[r] \in {"check", "insert"}
    BY <1>3 DEF Lookup, Existing, Goto, Answer, TypeOK, GroupInv, StoredInv
  <2> QED BY <2>1, <2>2, QuietStep DEF SendInv
<1>4. CASE LookupTx(r)
  <2>1. /\ stored' = stored /\ dto' = dto /\ threadSequence' = threadSequence
        /\ \A x \in Request \ {r} : pc'[x] = pc[x] /\ bound'[x] = bound[x]
        /\ bound'[r] \subseteq bound[r]
    BY <1>4 DEF LookupTx, Existing, Goto, Answer, TypeOK
  <2>2. /\ pc'[r] \notin {"attach", "commit"}
        /\ r \in stored => pc'[r] \in {"add", "done", "crashed"}
        /\ pc'[r] \in {"check", "insert"} => pc[r] \in {"check", "insert"}
    BY <1>4 DEF LookupTx, Existing, Goto, Answer, TypeOK, GroupInv, StoredInv
  <2> QED BY <2>1, <2>2, QuietStep DEF SendInv
<1>5. CASE ReadSequence(r)
  <2>1. /\ r \notin stored /\ stored' = stored /\ bound' = bound /\ dto' = dto
        /\ \A x \in Request \ {r} : pc'[x] = pc[x] /\ threadSequence'[x] = threadSequence[x]
        /\ pc'[r] = "check" /\ dto[r].group \in Group
        /\ threadSequence'[r] = LastSequence(dto[r].group) + 1
    BY <1>5 DEF ReadSequence, Goto, TypeOK, GroupInv, StoredInv, Bodies
  <2>2. \A x, y \in Request \ {r} : Clash(x, y)' = Clash(x, y)
    BY <2>1, ClashStays
  <2>3. StoredInv'
    BY <2>1, StoredStays DEF TypeOK, GroupInv, StoredInv
  <2>4. OpenInv'
    <3>1. \A g : LastSequence(g)' = LastSequence(g)
      BY <2>1, RowsStay DEF TypeOK
    <3>2. LastSequence(dto[r].group) \in Nat
      BY <2>1, NumbersAreInterval DEF GroupInv
    <3> QED BY <2>1, <3>1, <3>2 DEF GroupInv, OpenInv
  <2>5. ClashInv'
    BY <2>1, <2>2 DEF TypeOK, GroupInv, ClashInv
  <2>6. MediaInv'
    BY <2>1 DEF GroupInv, MediaInv
  <2> QED BY <2>3, <2>4, <2>5, <2>6 DEF SendInv
<1>6. CASE CheckBody(r)
  <2>1. /\ stored' = stored /\ dto' = dto /\ threadSequence' = threadSequence
        /\ \A x \in Request \ {r} : pc'[x] = pc[x] /\ bound'[x] = bound[x]
        /\ bound'[r] \subseteq bound[r]
    BY <1>6 DEF CheckBody, Rollback, Goto, Answer, TypeOK
  <2>2. /\ pc'[r] \notin {"attach", "commit"}
        /\ r \in stored => pc'[r] \in {"add", "done", "crashed"}
        /\ pc'[r] \in {"check", "insert"} => pc[r] \in {"check", "insert"}
    BY <1>6 DEF CheckBody, Rollback, Goto, Answer, TypeOK, GroupInv, StoredInv
  <2> QED BY <2>1, <2>2, QuietStep DEF SendInv
<1>7. CASE InsertMessage(r)
  <2>1. /\ stored' = stored /\ dto' = dto /\ threadSequence' = threadSequence
        /\ \A x \in Request \ {r} : pc'[x] = pc[x] /\ bound'[x] = bound[x]
        /\ bound'[r] \subseteq bound[r]
    BY <1>7 DEF InsertMessage, Rollback, Goto, Answer, TypeOK
  <2>2. /\ pc[r] = "insert" /\ pc'[r] \in {"attach", "done"}
        /\ r \notin stored
    BY <1>7 DEF InsertMessage, Rollback, Goto, Answer, TypeOK, GroupInv, StoredInv
  <2>3. /\ StoredInv' /\ OpenInv' /\ MediaInv'
        /\ pc'[r] # "attach" => ClashInv'
    BY <2>1, <2>2, QuietStep
  <2>4. CASE pc'[r] = "attach"
    <3>1. /\ \A m \in stored : ~Clash(r, m)
          /\ \A q \in Request \ {r} : pc[q] \in {"attach", "commit"} => ~Clash(r, q)
      BY <1>7, <2>4 DEF InsertMessage, UniqueViolation, Answer, Goto, TypeOK
    <3>2. \A x, y \in Request : Clash(x, y)' = Clash(x, y)
      BY <2>1, ClashStays
    <3>3. ClashInv'
      <4>1. ASSUME NEW q \in Request, pc'[q] \in {"attach", "commit"}
            PROVE  /\ \A m \in stored : ~Clash(q, m)
                   /\ \A x \in Request : pc'[x] \in {"attach", "commit"} /\ Clash(q, x) => x = q
        <5>1. CASE q = r
          BY <2>1, <3>1, <4>1, <5>1
        <5>2. CASE q # r
          BY <2>1, <3>1, <4>1, <5>2, ClashSymmetric DEF GroupInv, ClashInv
        <5> QED BY <5>1, <5>2
      <4> QED BY <2>1, <3>2, <4>1 DEF ClashInv, TypeOK
    <3> QED BY <2>3, <3>3 DEF SendInv
  <2> QED BY <2>3, <2>4 DEF SendInv
<1>8. CASE AttachMedia(r)
  <2>1. /\ stored' = stored /\ dto' = dto /\ threadSequence' = threadSequence
        /\ \A m \in stored : pc'[m] \in {"add", "done", "crashed"}
    BY <1>8 DEF AttachMedia, Goto, BoundMedia, TypeOK, GroupInv, StoredInv
  <2>2. \A x, y \in Request : Clash(x, y)' = Clash(x, y)
    BY <2>1, ClashStays
  <2>3. StoredInv'
    BY <2>1, StoredStays
  <2>4. OpenInv'
    BY <1>8, <2>1, RowsStay DEF AttachMedia, Goto, BoundMedia, TypeOK, GroupInv, OpenInv
  <2>5. ClashInv'
    BY <1>8, <2>1, <2>2 DEF AttachMedia, Goto, BoundMedia, TypeOK, GroupInv, ClashInv
  <2>6. MediaInv'
    BY <1>8, <2>1 DEF AttachMedia, Goto, BoundMedia, TypeOK, GroupInv, MediaInv, StoredInv
  <2> QED BY <2>3, <2>4, <2>5, <2>6 DEF SendInv
<1>9. CASE Abort(r)
  <2>1. /\ stored' = stored /\ dto' = dto /\ threadSequence' = threadSequence
        /\ \A x \in Request \ {r} : pc'[x] = pc[x] /\ bound'[x] = bound[x]
        /\ bound'[r] \subseteq bound[r]
    BY <1>9 DEF Abort, InTx, Rollback, Goto, Answer, TypeOK
  <2>2. /\ pc'[r] \notin {"attach", "commit"}
        /\ r \in stored => pc'[r] \in {"add", "done", "crashed"}
        /\ pc'[r] \in {"check", "insert"} => pc[r] \in {"check", "insert"}
    BY <1>9 DEF Abort, InTx, Rollback, Goto, Answer, TypeOK, GroupInv, StoredInv
  <2> QED BY <2>1, <2>2, QuietStep DEF SendInv
<1>10. CASE QueueFanout(r)
  <2>1. /\ stored' = stored /\ dto' = dto /\ threadSequence' = threadSequence
        /\ \A x \in Request \ {r} : pc'[x] = pc[x] /\ bound'[x] = bound[x]
        /\ bound'[r] \subseteq bound[r]
    BY <1>10 DEF QueueFanout, Goto, Answer, TypeOK
  <2>2. /\ pc'[r] \notin {"attach", "commit"}
        /\ r \in stored => pc'[r] \in {"add", "done", "crashed"}
        /\ pc'[r] \in {"check", "insert"} => pc[r] \in {"check", "insert"}
    BY <1>10 DEF QueueFanout, Goto, Answer, TypeOK, GroupInv, StoredInv
  <2> QED BY <2>1, <2>2, QuietStep DEF SendInv
<1>11. CASE QueueFails(r)
  <2>1. /\ stored' = stored /\ dto' = dto /\ threadSequence' = threadSequence
        /\ \A x \in Request \ {r} : pc'[x] = pc[x] /\ bound'[x] = bound[x]
        /\ bound'[r] \subseteq bound[r]
    BY <1>11 DEF QueueFails, Goto, Answer, TypeOK
  <2>2. /\ pc'[r] \notin {"attach", "commit"}
        /\ r \in stored => pc'[r] \in {"add", "done", "crashed"}
        /\ pc'[r] \in {"check", "insert"} => pc[r] \in {"check", "insert"}
    BY <1>11 DEF QueueFails, Goto, Answer, TypeOK, GroupInv, StoredInv
  <2> QED BY <2>1, <2>2, QuietStep DEF SendInv
<1>12. CASE Crash(r)
  <2>1. /\ stored' = stored /\ dto' = dto /\ threadSequence' = threadSequence
        /\ \A x \in Request \ {r} : pc'[x] = pc[x] /\ bound'[x] = bound[x]
        /\ bound'[r] \subseteq bound[r]
    BY <1>12 DEF Crash, Before, InTx, Rollback, Goto, Answer, TypeOK
  <2>2. /\ pc'[r] \notin {"attach", "commit"}
        /\ r \in stored => pc'[r] \in {"add", "done", "crashed"}
        /\ pc'[r] \in {"check", "insert"} => pc[r] \in {"check", "insert"}
    BY <1>12 DEF Crash, Before, InTx, Rollback, Goto, Answer, TypeOK, GroupInv, StoredInv
  <2> QED BY <2>1, <2>2, QuietStep DEF SendInv
<1>13. CASE Commit(r)
  <2> DEFINE g == dto[r].group
  <2>1. /\ r \notin stored /\ stored' = stored \cup {r} /\ bound' = bound
        /\ dto' = dto /\ threadSequence' = threadSequence
        /\ g \in Group /\ pc[r] = "commit" /\ pc' = [pc EXCEPT ![r] = "add"]
    BY <1>13 DEF Commit, Goto, TypeOK, GroupInv, StoredInv, Bodies
  <2>2. \A x, y \in Request : Clash(x, y)' = Clash(x, y)
    BY <2>1, ClashStays
  <2>4. threadSequence[r] = LastSequence(g) + 1
    BY <1>13, CommitNumbers
  <2>5. \A h \in Group : LastSequence(h) \in Nat
    BY <1>13, CommitNumbers
  <2>6. \A h \in Group \ {g} : /\ Numbers(h)' = Numbers(h)
                               /\ LastSequence(h)' = LastSequence(h)
    BY <1>13, CommitNumbers
  <2>7. Numbers(g)' = 1 .. LastSequence(g) + 1
    BY <1>13, CommitNumbers
  <2>8. LastSequence(g)' = LastSequence(g) + 1
    BY <1>13, CommitNumbers
  <2>9. StoredInv'
    <3>1. \A m \in stored' : pc'[m] \in {"add", "done", "crashed"}
      BY <2>1 DEF GroupInv, TypeOK, StoredInv
    <3>2. ASSUME NEW h \in Group
          PROVE  \E n \in {0} \cup {threadSequence'[m] : m \in Request} : Numbers(h)' = 1 .. n
      <4>1. CASE h = g
        BY <4>1, <2>1, <2>4, <2>7
      <4>2. CASE h # g
        BY <4>2, <2>1, <2>6 DEF GroupInv, StoredInv
      <4> QED BY <4>1, <4>2
    <3>3. \A m, n \in stored' : Clash(m, n)' => m = n
      BY <2>1, <2>2, ClashSymmetric DEF GroupInv, TypeOK, StoredInv, ClashInv
    <3> QED BY <3>1, <3>2, <3>3 DEF StoredInv
  <2>10. OpenInv'
    <3> SUFFICES ASSUME NEW q \in Request, pc'[q] \in {"check", "insert", "attach", "commit"}
                 PROVE  (threadSequence[q] \in 1 .. LastSequence(dto[q].group) + 1)'
      BY DEF OpenInv
    <3>1. /\ q # r /\ dto[q].group \in Group
          /\ threadSequence[q] \in 1 .. LastSequence(dto[q].group) + 1
      BY <2>1 DEF TypeOK, GroupInv, OpenInv, Bodies
    <3>2. CASE dto[q].group = g
      BY <2>1, <2>5, <2>8, <3>1, <3>2
    <3>3. CASE dto[q].group # g
      BY <2>1, <2>6, <3>1, <3>3
    <3> QED BY <3>2, <3>3
  <2>11. ClashInv'
    BY <2>1, <2>2, ClashSymmetric DEF GroupInv, TypeOK, ClashInv
  <2>12. MediaInv'
    BY <2>1 DEF GroupInv, TypeOK, MediaInv
  <2> QED BY <2>9, <2>10, <2>11, <2>12 DEF SendInv
<1> QED
  BY <1>1, <1>2, <1>3, <1>4, <1>5, <1>6, <1>7, <1>8, <1>9, <1>10, <1>11, <1>12, <1>13 DEF ServerStep

-----------------------------------------------------------------------------
(* Results, answers and the fan-out.                                       *)

JobInv == ResultInv /\ FanoutInv /\ AnnouncedIsStored

\* What was found under a key stays found.
LEMMA ExistingStays ==
  ASSUME stored \subseteq stored', NEW q,
         \A m \in stored \cup {q} : dto'[m] = dto[m]
  PROVE  Existing(q) \subseteq Existing(q)'
BY DEF Existing, SameKey, senderDeviceId_idempotencyKey

\* Directory changes and failed lookups leave requests, jobs and rows alone.
LEMMA JobFrame == GroupInv /\ UNCHANGED <<database, request, queue, effects>> => JobInv'
BY DEF GroupInv, JobInv, ResultInv, FanoutInv, AnnouncedIsStored, Existing, SameKey,
   senderDeviceId_idempotencyKey, database, request, queue, effects

\* Every step of a request keeps its result, its answer and its job's message
\* among the committed rows of its key.
LEMMA JobSendStep ==
  ASSUME GroupInv, NEW r \in Request,
         Receive(r) \/ ServerStep(r) \/ Abort(r) \/ QueueFails(r) \/ Crash(r)
  PROVE  JobInv'
<1>0. TypeOK
  BY DEF GroupInv
<1> USE <1>0, GroupSendAssumption DEF directory, database, request, queue, effects
<1>1. CASE Receive(r)
  <2>1. /\ r \notin stored /\ stored' = stored
        /\ \A x \in Request \ {r} : pc'[x] = pc[x] /\ dto'[x] = dto[x]
        /\ pc'[r] = "member" /\ job[r] = "absent" /\ reply[r] = None
        /\ UNCHANGED <<result, reply, queue, effects>>
    <3>1. r \notin stored /\ job[r] = "absent" /\ reply[r] = None
      BY <1>1 DEF Receive, TypeOK, GroupInv, StoredInv, ResultInv
    <3>2. /\ stored' = stored /\ pc'[r] = "member"
          /\ \A x \in Request \ {r} : pc'[x] = pc[x] /\ dto'[x] = dto[x]
          /\ UNCHANGED <<result, reply, queue, effects>>
      BY <1>1 DEF Receive, Goto, TypeOK
    <3> QED
      BY <3>1, <3>2
  <2>2. \A q \in Request \ {r} : Existing(q) \subseteq Existing(q)'
    BY <2>1, ExistingStays DEF TypeOK
  <2>3. ResultInv'
    BY <2>1, <2>2 DEF GroupInv, ResultInv
  <2>4. FanoutInv' /\ AnnouncedIsStored'
    BY <2>1 DEF GroupInv, FanoutInv, AnnouncedIsStored
  <2> QED BY <2>3, <2>4 DEF JobInv
<1>2. CASE QueueFanout(r)
  <2>1. \A q \in Request : Existing(q) \subseteq Existing(q)'
    BY <1>2, ExistingStays DEF QueueFanout
  <2>2. ResultInv'
    BY <1>2, <2>1 DEF QueueFanout, Goto, Answer, TypeOK, GroupInv, ResultInv
  <2>3. FanoutInv' /\ AnnouncedIsStored'
    BY <1>2 DEF QueueFanout, TypeOK, GroupInv, FanoutInv, AnnouncedIsStored
  <2> QED BY <2>2, <2>3 DEF JobInv
<1>3. CASE LookupTx(r)
  <2>1. \A q \in Request : Existing(q) \subseteq Existing(q)'
    BY <1>3, ExistingStays DEF LookupTx
  <2>2. job[r] = "absent"
    BY <1>3 DEF LookupTx, TypeOK, GroupInv, ResultInv
  <2>3. ResultInv'
    BY <1>3, <2>1, <2>2 DEF LookupTx, Goto, TypeOK, GroupInv, ResultInv
  <2>4. FanoutInv' /\ AnnouncedIsStored'
    BY <1>3, <2>2 DEF LookupTx, TypeOK, GroupInv, FanoutInv, AnnouncedIsStored
  <2> QED BY <2>3, <2>4 DEF JobInv
<1>4. CASE Commit(r)
  <2>1. \A q \in Request : Existing(q) \subseteq Existing(q)'
    BY <1>4, ExistingStays DEF Commit
  <2>2. job[r] = "absent"
    BY <1>4 DEF Commit, TypeOK, GroupInv, ResultInv
  <2>3. ResultInv'
    <3>1. r \in Existing(r)'
      BY <1>4 DEF Commit, Existing, SameKey
    <3> QED BY <1>4, <2>1, <2>2, <3>1 DEF Commit, Goto, TypeOK, GroupInv, ResultInv
  <2>4. FanoutInv' /\ AnnouncedIsStored'
    BY <1>4, <2>2 DEF Commit, TypeOK, GroupInv, FanoutInv, AnnouncedIsStored
  <2> QED BY <2>3, <2>4 DEF JobInv
<1>5. CASE CheckMember(r)
  <2>1. \A q \in Request : Existing(q) \subseteq Existing(q)'
    BY <1>5, ExistingStays DEF CheckMember
  <2>2. ResultInv'
    BY <1>5, <2>1 DEF CheckMember, Goto, Answer, TypeOK, GroupInv, ResultInv
  <2>3. FanoutInv' /\ AnnouncedIsStored'
    BY <1>5 DEF CheckMember, GroupInv, FanoutInv, AnnouncedIsStored
  <2> QED BY <2>2, <2>3 DEF JobInv
<1>6. CASE Lookup(r)
  <2>1. \A q \in Request : Existing(q) \subseteq Existing(q)'
    BY <1>6, ExistingStays DEF Lookup
  <2>2. ResultInv'
    BY <1>6, <2>1 DEF Lookup, Goto, Answer, TypeOK, GroupInv, ResultInv
  <2>3. FanoutInv' /\ AnnouncedIsStored'
    BY <1>6 DEF Lookup, GroupInv, FanoutInv, AnnouncedIsStored
  <2> QED BY <2>2, <2>3 DEF JobInv
<1>7. CASE ReadSequence(r)
  <2>1. \A q \in Request : Existing(q) \subseteq Existing(q)'
    BY <1>7, ExistingStays DEF ReadSequence
  <2>2. ResultInv'
    BY <1>7, <2>1 DEF ReadSequence, Goto, TypeOK, GroupInv, ResultInv
  <2>3. FanoutInv' /\ AnnouncedIsStored'
    BY <1>7 DEF ReadSequence, GroupInv, FanoutInv, AnnouncedIsStored
  <2> QED BY <2>2, <2>3 DEF JobInv
<1>8. CASE CheckBody(r)
  <2>1. \A q \in Request : Existing(q) \subseteq Existing(q)'
    BY <1>8, ExistingStays DEF CheckBody, Rollback
  <2>2. ResultInv'
    BY <1>8, <2>1 DEF CheckBody, Goto, Rollback, Answer, TypeOK, GroupInv, ResultInv
  <2>3. FanoutInv' /\ AnnouncedIsStored'
    BY <1>8 DEF CheckBody, GroupInv, FanoutInv, AnnouncedIsStored
  <2> QED BY <2>2, <2>3 DEF JobInv
<1>9. CASE InsertMessage(r)
  <2>1. \A q \in Request : Existing(q) \subseteq Existing(q)'
    BY <1>9, ExistingStays DEF InsertMessage, Rollback
  <2>2. ResultInv'
    BY <1>9, <2>1 DEF InsertMessage, Goto, Rollback, Answer, TypeOK, GroupInv, ResultInv
  <2>3. FanoutInv' /\ AnnouncedIsStored'
    BY <1>9 DEF InsertMessage, GroupInv, FanoutInv, AnnouncedIsStored
  <2> QED BY <2>2, <2>3 DEF JobInv
<1>10. CASE AttachMedia(r)
  <2>1. \A q \in Request : Existing(q) \subseteq Existing(q)'
    BY <1>10, ExistingStays DEF AttachMedia
  <2>2. ResultInv'
    BY <1>10, <2>1 DEF AttachMedia, Goto, TypeOK, GroupInv, ResultInv
  <2>3. FanoutInv' /\ AnnouncedIsStored'
    BY <1>10 DEF AttachMedia, GroupInv, FanoutInv, AnnouncedIsStored
  <2> QED BY <2>2, <2>3 DEF JobInv
<1>11. CASE Abort(r)
  <2>1. \A q \in Request : Existing(q) \subseteq Existing(q)'
    BY <1>11, ExistingStays DEF Abort, Rollback
  <2>2. ResultInv'
    BY <1>11, <2>1 DEF Abort, InTx, Goto, Rollback, Answer, TypeOK, GroupInv, ResultInv
  <2>3. FanoutInv' /\ AnnouncedIsStored'
    BY <1>11 DEF Abort, GroupInv, FanoutInv, AnnouncedIsStored
  <2> QED BY <2>2, <2>3 DEF JobInv
<1>12. CASE QueueFails(r)
  <2>1. \A q \in Request : Existing(q) \subseteq Existing(q)'
    BY <1>12, ExistingStays DEF QueueFails
  <2>2. ResultInv'
    BY <1>12, <2>1 DEF QueueFails, Goto, Answer, TypeOK, GroupInv, ResultInv
  <2>3. FanoutInv' /\ AnnouncedIsStored'
    BY <1>12 DEF QueueFails, GroupInv, FanoutInv, AnnouncedIsStored
  <2> QED BY <2>2, <2>3 DEF JobInv
<1>13. CASE Crash(r)
  <2>1. \A q \in Request : Existing(q) \subseteq Existing(q)'
    BY <1>13, ExistingStays DEF Crash, Rollback
  <2>2. ResultInv'
    BY <1>13, <2>1 DEF Crash, Before, InTx, Goto, Rollback, TypeOK, GroupInv, ResultInv
  <2>3. FanoutInv' /\ AnnouncedIsStored'
    BY <1>13 DEF Crash, GroupInv, FanoutInv, AnnouncedIsStored
  <2> QED BY <2>2, <2>3 DEF JobInv
<1> QED
  BY <1>1, <1>2, <1>3, <1>4, <1>5, <1>6, <1>7, <1>8, <1>9, <1>10, <1>11, <1>12, <1>13 DEF ServerStep

\* Every step of a job announces and counts only what it has stored.
LEMMA JobWorkerStep ==
  ASSUME GroupInv, TypeOK', NEW r \in Request, WorkerStep(r) \/ FanoutFails(r)
  PROVE  JobInv'
<1>0. TypeOK
  BY DEF GroupInv
<1> USE <1>0, GroupSendAssumption DEF directory, database, request, queue, effects
<1>1. /\ UNCHANGED <<stored, pc, dto, result, reply>> /\ job[r] # "absent"
      /\ \A q \in Request : job'[q] # "absent" => job[q] # "absent"
  BY DEF WorkerStep, FanoutDevices, FanoutCreate, FanoutEmit, FanoutRecalc, FanoutFails,
         Job, Running, TypeOK
<1>2. ResultInv'
  BY <1>1 DEF GroupInv, ResultInv, Existing, SameKey, senderDeviceId_idempotencyKey
<1>3. CASE FanoutDevices(r)
  BY <1>2, <1>3 DEF FanoutDevices, Job, TypeOK, GroupInv, FanoutInv, AnnouncedIsStored, JobInv
<1>4. CASE FanoutCreate(r)
  <2>1. envelopes \subseteq envelopes' /\ {result[r]} \X targets[r] \subseteq envelopes'
    BY <1>4 DEF FanoutCreate
  <2>2. FanoutInv'
    BY <1>4, <2>1 DEF FanoutCreate, Job, TypeOK, GroupInv, FanoutInv
  <2>3. AnnouncedIsStored'
    BY <1>4, <2>1 DEF FanoutCreate, GroupInv, AnnouncedIsStored
  <2> QED BY <1>2, <2>2, <2>3 DEF JobInv
<1>5. CASE FanoutEmit(r)
  BY <1>2, <1>5 DEF FanoutEmit, Job, TypeOK, GroupInv, FanoutInv, AnnouncedIsStored, JobInv
<1>6. ASSUME job[r] = "recalc", NEW U \in SUBSET Recipients(r),
             recalc' = recalc \cup ({result[r]} \X U), UNCHANGED <<envelopes, announced>>
      PROVE  AnnouncedIsStored'
  <2>1. \A u \in U : \E d \in Device : Owner[d] = u /\ <<result[r], d>> \in envelopes
    <3> TAKE u \in U
    <3>1. PICK d \in targets[r] : Owner[d] = u
      BY <1>6 DEF Recipients
    <3>2. d \in Device /\ <<result[r], d>> \in envelopes
      BY <1>6, <3>1 DEF TypeOK, GroupInv, FanoutInv
    <3> QED BY <3>1, <3>2
  <2> QED BY <1>6, <2>1 DEF GroupInv, AnnouncedIsStored
<1>7. CASE FanoutRecalc(r)
  <2>1. AnnouncedIsStored'
    BY <1>6, <1>7 DEF FanoutRecalc
  <2>2. FanoutInv'
    BY <1>7 DEF FanoutRecalc, Job, TypeOK, GroupInv, FanoutInv
  <2> QED BY <1>2, <2>1, <2>2 DEF JobInv
<1>8. CASE FanoutFails(r)
  <2>1. PICK U \in SUBSET Recipients(r) :
          /\ job[r] # "recalc" => U = {}
          /\ recalc' = recalc \cup ({result[r]} \X U)
    BY <1>8 DEF FanoutFails
  <2>2. AnnouncedIsStored'
    <3>1. CASE job[r] = "recalc"
      BY <1>6, <1>8, <2>1, <3>1 DEF FanoutFails
    <3>2. CASE job[r] # "recalc"
      BY <1>8, <2>1, <3>2 DEF FanoutFails, GroupInv, AnnouncedIsStored
    <3> QED BY <3>1, <3>2
  <2>3. FanoutInv'
    BY <1>8 DEF FanoutFails, Job, TypeOK, GroupInv, FanoutInv
  <2> QED BY <1>2, <2>2, <2>3 DEF JobInv
<1> QED BY <1>3, <1>4, <1>5, <1>7, <1>8 DEF WorkerStep

-----------------------------------------------------------------------------
(* The invariant.                                                          *)

\* The initial states satisfy the inductive invariant.
LEMMA InvInit == Init => GroupInv
<1> SUFFICES ASSUME Init PROVE GroupInv
  OBVIOUS
<1> USE GroupSendAssumption DEF Init
<1>1. TypeOK
  BY DEF TypeOK, Step, JobState
<1>2. StoredInv
  BY DEF StoredInv, Numbers, GroupMessages
<1>3. OpenInv /\ ClashInv /\ MediaInv /\ ResultInv /\ FanoutInv /\ AnnouncedIsStored
  BY DEF OpenInv, ClashInv, MediaInv, ResultInv, FanoutInv, AnnouncedIsStored
<1> QED BY <1>1, <1>2, <1>3 DEF GroupInv

\* Every step of GroupSend preserves the inductive invariant.
LEMMA InvStep == GroupInv /\ [Next]_vars => GroupInv'
<1> SUFFICES ASSUME GroupInv, [Next]_vars PROVE SendInv' /\ JobInv'
  BY TypeStep DEF GroupInv, SendInv, JobInv
<1>0. TypeOK'
  BY TypeStep
<1>1. ASSUME NEW g \in Group, NEW u \in ChangingMember, MemberChange(g, u)
      PROVE  SendInv' /\ JobInv'
  BY <1>0, <1>1, SendFrame, JobFrame DEF MemberChange
<1>2. ASSUME NEW d \in ChangingDevice, DeviceChange(d) PROVE SendInv' /\ JobInv'
  BY <1>0, <1>2, SendFrame, JobFrame DEF DeviceChange
<1>3. ASSUME NEW r \in Request,
             Receive(r) \/ ServerStep(r) \/ Abort(r) \/ QueueFails(r) \/ Crash(r)
      PROVE  SendInv' /\ JobInv'
  BY <1>0, <1>3, SendStep, JobSendStep
<1>4. ASSUME NEW r \in Request, WorkerStep(r) \/ FanoutFails(r)
      PROVE  SendInv' /\ JobInv'
  <2>1. UNCHANGED <<database, request>>
    BY <1>4 DEF WorkerStep, FanoutDevices, FanoutCreate, FanoutEmit, FanoutRecalc, FanoutFails
  <2> QED BY <1>0, <1>4, <2>1, SendFrame, JobWorkerStep
<1>5. CASE UNCHANGED vars
  BY <1>0, <1>5, SendFrame, JobFrame DEF vars
<1> QED BY <1>1, <1>2, <1>3, <1>4, <1>5 DEF Next

\* The inductive invariant holds in every reachable state.
THEOREM Invariant == Spec => []GroupInv
BY InvInit, InvStep, PTL DEF Spec

-----------------------------------------------------------------------------
(* The theorems.                                                           *)

\* Every variable keeps its type, whatever requests, groups and bodies there are.
THEOREM TypeCorrect == Spec => []TypeOK
<1>1. GroupInv => TypeOK
  BY DEF GroupInv
<1> QED BY <1>1, Invariant, PTL

\* No interleaving of group sends and retries stores two messages for one
\* (senderDeviceId, idempotencyKey).
THEOREM KeysAreIdempotent == Spec => []OneMessagePerKey
<1>1. GroupInv => OneMessagePerKey
  BY DEF GroupInv, StoredInv, Clash, OneMessagePerKey
<1> QED BY <1>1, Invariant, PTL

\* Requests with the same key that succeed are answered with the same stored
\* message.
THEOREM RetriesAgree == Spec => []RepliesAgree
<1>1. GroupInv => RepliesAgree
  <2> SUFFICES ASSUME GroupInv, NEW r \in Request, NEW q \in Request,
                      reply[r] \in Request, reply[q] \in Request, SameKey(r, q)
               PROVE  reply[r] = reply[q] /\ reply[r] \in stored
    BY DEF RepliesAgree
  <2>1. reply[r] \in Existing(r) /\ reply[q] \in Existing(q)
    BY DEF GroupInv, ResultInv
  <2>2. SameKey(reply[r], reply[q])
    BY <2>1 DEF Existing, SameKey
  <2> QED BY <2>1, <2>2 DEF GroupInv, StoredInv, Clash, Existing
<1> QED BY <1>1, Invariant, PTL

\* The messages of a group are numbered 1, 2, 3 ... although no lock serialises
\* the senders.
THEOREM SequencesAreGapless == Spec => []GaplessSequence
<1>1. ASSUME GroupInv PROVE GaplessSequence
  <2> SUFFICES ASSUME NEW g \in Group
               PROVE  /\ Numbers(g) = 1 .. LastSequence(g)
                      /\ \A m, n \in GroupMessages(g) :
                           threadSequence[m] = threadSequence[n] => m = n
    BY DEF GaplessSequence
  <2>1. Numbers(g) = 1 .. LastSequence(g)
    BY <1>1, NumbersAreInterval DEF GroupInv
  <2>2. \A m, n \in GroupMessages(g) : threadSequence[m] = threadSequence[n] => m = n
    BY <1>1 DEF GroupInv, StoredInv, Clash, GroupMessages
  <2> QED BY <2>1, <2>2
<1> QED BY <1>1, Invariant, PTL

\* An attachment is never part of two group messages.
THEOREM MediaIsExclusive == Spec => []MediaBoundOnce
<1>1. GroupInv => MediaBoundOnce
  BY DEF GroupInv, TypeOK, MediaInv, MediaBoundOnce
<1> QED BY <1>1, Invariant, PTL

\* Whatever a fan-out job announces or asks to count is stored, in every attempt.
THEOREM AnnouncementsAreBacked == Spec => []AnnouncedIsStored
<1>1. GroupInv => AnnouncedIsStored
  BY DEF GroupInv
<1> QED BY <1>1, Invariant, PTL

\* Messages of a group become visible in the order of their numbers.
THEOREM VisibilityIsOrdered == Spec => VisibleInOrder
<1>1. ASSUME GroupInv, [Next]_vars,
             NEW m \in stored' \ stored, NEW n \in stored, dto'[m].group = dto[n].group
      PROVE  threadSequence'[m] > threadSequence[n]
  <2>1. Commit(m)
    BY <1>1 DEF Next, ServerStep, WorkerStep, vars, directory, database, request, queue,
       effects, MemberChange, DeviceChange, Receive, CheckMember, Lookup, LookupTx,
       ReadSequence, CheckBody, InsertMessage, AttachMedia, Commit, Abort, QueueFanout,
       QueueFails, Crash, Rollback, FanoutDevices, FanoutCreate, FanoutEmit, FanoutRecalc,
       FanoutFails
  <2>2. /\ m \in Request /\ dto[m].group \in Group /\ dto[n].group = dto[m].group
        /\ threadSequence' = threadSequence
    BY <1>1, <2>1, TypeStep DEF GroupInv, TypeOK, Commit, Bodies
  <2>3. /\ threadSequence[m] \in 1 .. LastSequence(dto[m].group) + 1
        /\ threadSequence[m] # threadSequence[n]
        /\ threadSequence[m] \notin Numbers(dto[m].group)
        /\ threadSequence[n] \in Numbers(dto[m].group)
    BY <1>1, <2>1, <2>2 DEF GroupInv, OpenInv, ClashInv, Clash, Commit, Numbers, GroupMessages
  <2>4. /\ LastSequence(dto[m].group) \in Nat
        /\ Numbers(dto[m].group) = 1 .. LastSequence(dto[m].group)
    BY <1>1, <2>2, NumbersAreInterval DEF GroupInv
  <2> QED BY <2>2, <2>3, <2>4
<1>2. GroupInv /\ [Next]_vars
      => [\A m \in stored' \ stored, n \in stored :
            dto'[m].group = dto[n].group => threadSequence'[m] > threadSequence[n]]_vars
  BY <1>1
<1> QED BY <1>2, Invariant, PTL DEF Spec, VisibleInOrder

-----------------------------------------------------------------------------
(* Replies.                                                                *)

\* A reply that has passed its checks, or is stored, answers a stored message of its
\* group that is no reply.
CheckedReplies ==
  \A r \in Request : r \in stored \/ pc[r] \in {"insert", "attach", "commit"} => ValidReply(r)

\* Rows are never deleted, and neither they nor requests past their first step change.
LEMMA RowsKeep ==
  ASSUME GroupInv, [Next]_vars
  PROVE  /\ stored \subseteq stored'
         /\ \A m \in Request : pc[m] # "idle" => dto'[m] = dto[m]
         /\ \A m \in stored : threadSequence'[m] = threadSequence[m]
<1>1. stored \subseteq stored'
  BY DEF Next, ServerStep, WorkerStep, vars, directory, database,
     request, queue, effects, MemberChange, DeviceChange, Receive, CheckMember, Lookup, LookupTx,
     ReadSequence, CheckBody, InsertMessage, AttachMedia, Commit, Abort, QueueFanout, QueueFails,
     Crash, Rollback, FanoutDevices, FanoutCreate, FanoutEmit, FanoutRecalc, FanoutFails
<1>2. \/ dto' = dto
      \/ \E r \in Request : /\ pc[r] = "idle"
                            /\ \E d \in Dto : dto' = [dto EXCEPT ![r] = d]
  BY DEF Next, ServerStep, WorkerStep, vars, directory, database,
     request, queue, effects, MemberChange, DeviceChange, Receive, CheckMember, Lookup, LookupTx,
     ReadSequence, CheckBody, InsertMessage, AttachMedia, Commit, Abort, QueueFanout, QueueFails,
     Crash, Rollback, FanoutDevices, FanoutCreate, FanoutEmit, FanoutRecalc, FanoutFails
<1>3. \/ threadSequence' = threadSequence
      \/ \E r \in Request : /\ pc[r] = "sequence"
                            /\ \E n : threadSequence' = [threadSequence EXCEPT ![r] = n]
  BY DEF Next, ServerStep, WorkerStep, vars, directory, database,
     request, queue, effects, MemberChange, DeviceChange, Receive, CheckMember, Lookup, LookupTx,
     ReadSequence, CheckBody, InsertMessage, AttachMedia, Commit, Abort, QueueFanout, QueueFails,
     Crash, Rollback, FanoutDevices, FanoutCreate, FanoutEmit, FanoutRecalc, FanoutFails
<1> QED
  BY <1>1, <1>2, <1>3 DEF GroupInv, TypeOK, StoredInv

\* What has been checked of a reply stays so: its target is stored, and so does not change.
LEMMA RepliesStep ==
  ASSUME GroupInv, CheckedReplies, [Next]_vars
  PROVE  CheckedReplies'
<1> DEFINE Checked == {"insert", "attach", "commit"}
<1>1. \A r \in Request : ValidReply(r) /\ pc[r] # "idle" => ValidReply(r)'
  BY RowsKeep DEF ValidReply, GroupMessages, GroupInv, TypeOK, StoredInv
<1>2. \A r \in Request : r \in stored' \/ pc'[r] \in Checked =>
        \/ r \in stored \/ pc[r] \in Checked
        \/ pc[r] = "check" /\ ValidReply(r)
  BY DEF GroupInv, TypeOK, Next, ServerStep, WorkerStep, vars, directory, database,
     request, queue, effects, MemberChange, DeviceChange, Receive, CheckMember, Lookup, LookupTx,
     ReadSequence, CheckBody, InsertMessage, AttachMedia, Commit, Abort, QueueFanout, QueueFails,
     Crash, Rollback, FanoutDevices, FanoutCreate, FanoutEmit, FanoutRecalc, FanoutFails, Goto, Answer
<1>3. \A r \in stored : r \in Request /\ pc[r] # "idle"
  BY DEF GroupInv, TypeOK, StoredInv
<1> QED
  BY <1>1, <1>2, <1>3 DEF CheckedReplies

\* ValidReply some statements before the insert: replies are one level deep and stay in
\* their group.
THEOREM RepliesStayFlat == Spec => []RepliesAreFlat
<1>1. Init => CheckedReplies
  BY DEF Init, CheckedReplies
<1>2. GroupInv /\ CheckedReplies => RepliesAreFlat
  BY GroupSendAssumption DEF GroupInv, TypeOK, CheckedReplies, RepliesAreFlat, ValidReply
<1> QED
  BY <1>1, <1>2, RepliesStep, Invariant, PTL DEF Spec

-----------------------------------------------------------------------------
(* The refinement: GroupSend implements MessageLog.                        *)

\* A request without a body has not been received.
Unreceived == \A r \in Request : pc[r] = "idle" => dto[r] = None

\* The log of a group has the stored message of each number at its place.
LogIsStored ==
  /\ GroupLog \in [Group -> Seq(Request)]
  /\ \A g \in Group : Len(GroupLog[g]) = LastSequence(g) /\ LastSequence(g) \in Nat
  /\ \A g \in Group : \A i \in 1 .. LastSequence(g) :
       /\ GroupLog[g][i] \in stored
       /\ dto[GroupLog[g][i]].group = g
       /\ threadSequence[GroupLog[g][i]] = i
  /\ \A m \in stored : /\ dto[m].group \in Group
                       /\ threadSequence[m] \in 1 .. LastSequence(dto[m].group)
                       /\ GroupLog[dto[m].group][threadSequence[m]] = m

\* A function on 1 .. n is a sequence of length n.
LEMMA FunctionIsSeq ==
  ASSUME NEW S, NEW n \in Nat, NEW f \in [1 .. n -> S]
  PROVE  f \in Seq(S) /\ Len(f) = n
<1>1. f \in Seq(S)
  BY SeqDef
<1>2. DOMAIN f = 1 .. Len(f) /\ Len(f) \in Nat
  BY <1>1, LenProperties
<1> QED
  BY <1>1, <1>2

LEMMA LogEntries == GroupInv => LogIsStored
<1> SUFFICES ASSUME GroupInv PROVE LogIsStored
  OBVIOUS
<1> USE DEF GroupInv, TypeOK
<1>0. \A g \in Group : LastSequence(g) \in Nat /\ Numbers(g) = 1 .. LastSequence(g)
  BY NumbersAreInterval
<1>1. ASSUME NEW g \in Group, NEW i \in 1 .. LastSequence(g)
      PROVE  /\ GroupLog[g][i] \in stored
             /\ dto[GroupLog[g][i]].group = g
             /\ threadSequence[GroupLog[g][i]] = i
  <2>1. \E m \in GroupMessages(g) : threadSequence[m] = i
    BY <1>0 DEF Numbers
  <2>2. GroupLog[g][i] = CHOOSE m \in GroupMessages(g) : threadSequence[m] = i
    BY DEF GroupLog
  <2> QED
    BY <2>1, <2>2 DEF GroupMessages
<1>2. ASSUME NEW g \in Group
      PROVE  GroupLog[g] \in Seq(Request) /\ Len(GroupLog[g]) = LastSequence(g)
  <2>1. \A i \in 1 .. LastSequence(g) : GroupLog[g][i] \in Request
    BY <1>1
  <2> DEFINE Entry(i) == CHOOSE m \in GroupMessages(g) : threadSequence[m] = i
  <2>2. GroupLog[g] = [i \in 1 .. LastSequence(g) |-> Entry(i)]
    BY DEF GroupLog
  <2> HIDE DEF Entry
  <2>3. GroupLog[g] \in [1 .. LastSequence(g) -> Request]
    BY <2>1, <2>2
  <2> QED
    BY <1>0, <2>3, FunctionIsSeq
<1>3. \A m \in stored : /\ dto[m].group \in Group
                        /\ threadSequence[m] \in 1 .. LastSequence(dto[m].group)
  BY <1>0 DEF StoredInv, Bodies, Numbers, GroupMessages
<1>4. ASSUME NEW m \in stored PROVE GroupLog[dto[m].group][threadSequence[m]] = m
  <2>1. PICK n \in stored : /\ n = GroupLog[dto[m].group][threadSequence[m]]
                            /\ dto[n].group = dto[m].group /\ threadSequence[n] = threadSequence[m]
    BY <1>1, <1>3
  <2>2. Clash(m, n)
    BY <2>1 DEF Clash
  <2> QED
    BY <2>1, <2>2 DEF StoredInv
<1>5. GroupLog \in [Group -> Seq(Request)]
  BY <1>2 DEF GroupLog
<1> QED
  BY <1>0, <1>1, <1>2, <1>3, <1>4, <1>5 DEF LogIsStored

\* A message is logged if and only if its row is stored.
LEMMA LoggedIsStored ==
  ASSUME LogIsStored, NEW m \in Request
  PROVE  Log!Logged(m) <=> m \in stored
<1>1. ASSUME m \in stored PROVE Log!Logged(m)
  BY <1>1 DEF Log!Logged, LogIsStored
<1>2. ASSUME Log!Logged(m) PROVE m \in stored
  <2>1. PICK g \in Group : \E i \in DOMAIN GroupLog[g] : GroupLog[g][i] = m
    BY <1>2 DEF Log!Logged
  <2>2. DOMAIN GroupLog[g] = 1 .. LastSequence(g)
    BY DEF LogIsStored
  <2> QED
    BY <2>1, <2>2 DEF LogIsStored
<1> QED
  BY <1>1, <1>2

\* While no row is added the logs stay as they are.
LEMMA LogStays ==
  ASSUME GroupInv, LogIsStored, LogIsStored', [Next]_vars, stored' = stored
  PROVE  GroupLog' = GroupLog
<1>1. \A m \in stored : threadSequence'[m] = threadSequence[m] /\ dto'[m] = dto[m]
  BY RowsKeep DEF GroupInv, TypeOK, StoredInv
<1>2. \A g \in Group : LastSequence(g)' = LastSequence(g)
  BY <1>1, RowsStay
<1>3. \A g \in Group : /\ GroupLog[g] \in Seq(Request) /\ GroupLog'[g] \in Seq(Request)
                       /\ Len(GroupLog[g]) = LastSequence(g)
                       /\ Len(GroupLog'[g]) = LastSequence(g)
  BY <1>2 DEF LogIsStored
<1>4. ASSUME NEW g \in Group, NEW i \in 1 .. LastSequence(g)
      PROVE  GroupLog'[g][i] = GroupLog[g][i]
  <2>1. PICK m \in stored : m = GroupLog[g][i] /\ dto[m].group = g /\ threadSequence[m] = i
    BY DEF LogIsStored
  <2>2. GroupLog'[dto'[m].group][threadSequence'[m]] = m
    BY DEF LogIsStored
  <2> QED
    BY <2>1, <2>2, <1>1
<1>5. \A g \in Group : GroupLog'[g] = GroupLog[g]
  BY <1>3, <1>4, SeqEqual
<1> QED
  BY <1>5 DEF LogIsStored

\* What a request asks for is known once it is received.
LEMMA AskedStays ==
  ASSUME dto' = dto
  PROVE  Asked' = Asked
BY DEF Asked, senderDeviceId_idempotencyKey

LEMMA AskedIsKnown ==
  ASSUME NEW r \in Request, dto[r] \in Bodies
  PROVE  /\ Asked[r] # None
         /\ Asked[r].key = senderDeviceId_idempotencyKey(r) /\ Asked[r].thread = dto[r].group
<1>1. senderDeviceId_idempotencyKey(r) \in Device \X Key /\ dto[r].group \in Group
  BY DEF senderDeviceId_idempotencyKey, Bodies
<1>2. Asked[r] = [key |-> senderDeviceId_idempotencyKey(r), thread |-> dto[r].group]
  BY GroupSendAssumption DEF Asked
<1> QED
  BY <1>1, <1>2, GroupSendAssumption

\* The commit of r appends it to the log of its group.
LEMMA CommitAppends ==
  ASSUME GroupInv, LogIsStored, LogIsStored', NEW r \in Request, Commit(r)
  PROVE  GroupLog' = [GroupLog EXCEPT ![dto[r].group] = Append(@, r)]
<1>0. PICK g \in Group : g = dto[r].group
  BY CommitNumbers
<1>1. PICK n \in Nat : n = LastSequence(g)
  BY CommitNumbers
<1>2. /\ threadSequence[r] = n + 1 /\ threadSequence' = threadSequence /\ dto' = dto
      /\ stored' = stored \cup {r}
      /\ \A h \in Group \ {g} : LastSequence(h)' = LastSequence(h)
      /\ LastSequence(g)' = n + 1
  BY <1>0, <1>1, CommitNumbers DEF Commit
<1>3. \A h \in Group : GroupLog[h] \in Seq(Request) /\ GroupLog'[h] \in Seq(Request)
                       /\ Len(GroupLog[h]) = LastSequence(h)
                       /\ Len(GroupLog'[h]) = LastSequence(h)'
  BY DEF LogIsStored
<1>4. ASSUME NEW h \in Group, NEW i \in 1 .. LastSequence(h)
      PROVE  GroupLog'[h][i] = GroupLog[h][i]
  <2>1. PICK m \in stored : m = GroupLog[h][i] /\ dto[m].group = h /\ threadSequence[m] = i
    BY DEF LogIsStored
  <2>2. m \in stored'
    BY <1>2
  <2>3. GroupLog'[dto'[m].group][threadSequence'[m]] = m
    BY <2>2 DEF LogIsStored
  <2> QED
    BY <2>1, <2>3, <1>2
<1>5. GroupLog'[g][n + 1] = r
  <2>1. r \in stored'
    BY <1>2
  <2>2. GroupLog'[dto'[r].group][threadSequence'[r]] = r
    BY <2>1 DEF LogIsStored
  <2> QED
    BY <2>2, <1>0, <1>2
<1>6. GroupLog'[g] = Append(GroupLog[g], r)
  <2>1. PICK old \in Seq(Request), new \in Seq(Request) :
          /\ old = GroupLog[g] /\ new = GroupLog'[g]
          /\ Len(old) = n /\ Len(new) = n + 1 /\ new[n + 1] = r
          /\ \A i \in 1 .. n : new[i] = old[i]
    BY <1>1, <1>2, <1>3, <1>4, <1>5
  <2>2. /\ Append(old, r) \in Seq(Request) /\ Len(Append(old, r)) = n + 1
        /\ Append(old, r)[n + 1] = r /\ \A i \in 1 .. n : Append(old, r)[i] = old[i]
    BY <2>1
  <2>3. \A i \in 1 .. n + 1 : new[i] = Append(old, r)[i]
    BY <2>1, <2>2
  <2>4. new = Append(old, r)
    BY <2>1, <2>2, <2>3, SeqEqual
  <2> QED
    BY <2>1, <2>4
<1>7. \A h \in Group \ {g} : GroupLog'[h] = GroupLog[h]
  <2> SUFFICES ASSUME NEW h \in Group \ {g} PROVE GroupLog'[h] = GroupLog[h]
    OBVIOUS
  <2>1. Len(GroupLog'[h]) = LastSequence(h) /\ Len(GroupLog[h]) = LastSequence(h)
    BY <1>2, <1>3
  <2>2. \A i \in 1 .. LastSequence(h) : GroupLog'[h][i] = GroupLog[h][i]
    BY <1>4
  <2> QED
    BY <2>1, <2>2, <1>3, SeqEqual
<1>8. /\ DOMAIN GroupLog = Group /\ DOMAIN GroupLog' = Group
      /\ GroupLog' = [h \in Group |-> GroupLog'[h]]
  BY DEF LogIsStored
<1> QED
  BY <1>0, <1>6, <1>7, <1>8 DEF LogIsStored

\* Every step of a request is one of its steps in the log, or none, as long as the queue
\* accepts jobs; the steps of the fan-out are none.
LEMMA RefinementStep ==
  ASSUME "redis" \notin Faults,
         GroupInv, GroupInv', LogIsStored, LogIsStored', Unreceived, [Next]_vars
  PROVE  [Log!Next]_Log!vars
<1> USE GroupSendAssumption DEF directory, database, request, queue, effects
<1> DEFINE Done == [Log!Next]_Log!vars
<1>0. /\ \A r \in Request : /\ pc[r] # "idle" => dto[r] \in Bodies
                            /\ pc[r] # "done" => reply[r] = None
      /\ stored \subseteq Request
  BY DEF GroupInv, TypeOK, ResultInv
<1>1. ASSUME stored' = stored, dto' = dto, reply' = reply PROVE Done
  BY <1>1, LogStays, AskedStays DEF Log!vars, Replied
<1>2. ASSUME NEW r \in Request, Receive(r) PROVE Done
  <2>1. GroupLog' = GroupLog /\ Replied' = Replied
    BY <1>2, LogStays DEF Receive, Replied
  <2>2. PICK d \in Dto : dto' = [dto EXCEPT ![r] = d]
    BY <1>2 DEF Receive
  <2>3. Asked[r] = None
    BY <1>2 DEF Asked, Receive, Unreceived
  <2>4. Asked' = [Asked EXCEPT ![r] = [key |-> <<d.device, d.key>>, thread |-> d.group]]
    <3>1. /\ dto'[r] = d /\ d # None
          /\ \A q \in Request \ {r} : dto'[q] = dto[q]
      BY <2>2 DEF GroupInv, TypeOK
    <3>2. Asked'[r] = [key |-> <<d.device, d.key>>, thread |-> d.group]
      BY <3>1 DEF Asked, senderDeviceId_idempotencyKey
    <3>3. \A q \in Request \ {r} : Asked'[q] = Asked[q]
      BY <3>1 DEF Asked, senderDeviceId_idempotencyKey
    <3>4. Asked = [q \in Request |-> Asked[q]] /\ Asked' = [q \in Request |-> Asked'[q]]
      BY DEF Asked
    <3> QED
      BY <3>2, <3>3, <3>4
  <2>5. <<d.device, d.key>> \in Device \X Key /\ d.group \in Group
    BY DEF Bodies
  <2>6. Log!Ask(r)
    BY <2>1, <2>3, <2>4, <2>5 DEF Log!Ask
  <2> QED
    BY <2>6 DEF Log!Next
\* r, which is past its first step and unanswered, is answered with m, which is stored.
<1>3. ASSUME NEW r \in Request, NEW m \in Existing(r), pc[r] \notin {"idle", "done"},
             reply' = [reply EXCEPT ![r] = m], stored' = stored, dto' = dto
      PROVE  Done
  <2>1. GroupLog' = GroupLog /\ Asked' = Asked
    BY <1>3, LogStays, AskedStays
  <2>2. m \in stored /\ m \in Request /\ Log!Logged(m) /\ dto[m] \in Bodies
    BY <1>0, LoggedIsStored DEF GroupInv, StoredInv, Existing
  <2>3. Asked[r] # None /\ Asked[m].key = Asked[r].key
    BY <1>0, <1>3, <2>2, AskedIsKnown DEF SameKey, Existing
  <2>4. Replied[r] = None /\ Replied' = [Replied EXCEPT ![r] = m]
    BY <1>0, <1>3, <2>2 DEF Replied, GroupInv, TypeOK
  <2>5. Log!Answer(r)
    BY <2>1, <2>2, <2>3, <2>4 DEF Log!Answer
  <2> QED
    BY <2>5 DEF Log!Next
\* r is answered with an error.
<1>4. ASSUME NEW r \in Request, pc[r] \in Before \cup InTx, NEW e \in {Failed, Conflict},
             reply' = [reply EXCEPT ![r] = e], stored' = stored, dto' = dto
      PROVE  Done
  <2>1. GroupLog' = GroupLog /\ Asked' = Asked
    BY <1>4, LogStays, AskedStays
  <2>2. ~Log!Logged(r)
    BY <1>4, LoggedIsStored DEF GroupInv, StoredInv, InTx, Before
  <2>3. Asked[r] # None
    BY <1>0, <1>4, AskedIsKnown DEF InTx, Before
  <2>4. Replied[r] = None /\ Replied' = [Replied EXCEPT ![r] = Failed]
    BY <1>0, <1>4 DEF Replied, GroupInv, TypeOK, InTx, Before
  <2>5. Log!Fail(r)
    BY <2>1, <2>2, <2>3, <2>4 DEF Log!Fail
  <2> QED
    BY <2>5 DEF Log!Next
<1>5. ASSUME NEW r \in Request, Commit(r) PROVE Done
  <2>1. Asked' = Asked /\ Replied' = Replied /\ Replied[r] = None /\ dto[r] \in Bodies
    BY <1>0, <1>5, AskedStays DEF Commit, Replied
  <2>2. Asked[r] # None /\ Asked[r].thread = dto[r].group
    BY <2>1, AskedIsKnown
  <2>3. \A m \in Request : Log!Logged(m) => Asked[m].key # Asked[r].key
    <3> SUFFICES ASSUME NEW m \in Request, Log!Logged(m) PROVE Asked[m].key # Asked[r].key
      OBVIOUS
    <3>1. m \in stored /\ dto[m] \in Bodies
      BY <1>0, LoggedIsStored DEF GroupInv, StoredInv
    <3>2. ~SameKey(r, m)
      BY <1>5, <3>1 DEF GroupInv, ClashInv, Clash, Commit
    <3> QED
      BY <2>1, <3>1, <3>2, AskedIsKnown DEF SameKey
  <2>4. Log!AppendMessage(r)
    BY <1>5, <2>1, <2>2, <2>3, CommitAppends DEF Log!AppendMessage
  <2> QED
    BY <2>4 DEF Log!Next
<1>6. ASSUME NEW r \in Request, CheckMember(r) PROVE Done
  BY <1>1, <1>4, <1>6 DEF CheckMember, Answer, Before
<1>7. ASSUME NEW r \in Request, Lookup(r) PROVE Done
  BY <1>1, <1>3, <1>7 DEF Lookup, Answer
<1>8. ASSUME NEW r \in Request, LookupTx(r) \/ ReadSequence(r) \/ AttachMedia(r) \/ Crash(r)
      PROVE  Done
  BY <1>1, <1>8 DEF LookupTx, ReadSequence, AttachMedia, Crash, Rollback
<1>9. ASSUME NEW r \in Request, CheckBody(r) PROVE Done
  BY <1>1, <1>4, <1>9 DEF CheckBody, Rollback, Answer, InTx
<1>10. ASSUME NEW r \in Request, InsertMessage(r) PROVE Done
  BY <1>1, <1>4, <1>10 DEF InsertMessage, Rollback, Answer, InTx
<1>11. ASSUME NEW r \in Request, Abort(r) PROVE Done
  BY <1>4, <1>11 DEF Abort, Rollback, Answer
<1>12. ASSUME NEW r \in Request, QueueFanout(r) PROVE Done
  BY <1>3, <1>12 DEF QueueFanout, Answer, GroupInv, ResultInv
<1>13. ASSUME NEW r \in Request, QueueFails(r) PROVE Done
  BY <1>13 DEF QueueFails
<1>14. ASSUME NEW r \in Request, WorkerStep(r) \/ FanoutFails(r) PROVE Done
  BY <1>1, <1>14 DEF WorkerStep, FanoutDevices, FanoutCreate, FanoutEmit, FanoutRecalc, FanoutFails
<1>15. ASSUME NEW g \in Group, NEW u \in ChangingMember, MemberChange(g, u) PROVE Done
  BY <1>1, <1>15 DEF MemberChange
<1>16. ASSUME NEW d \in ChangingDevice, DeviceChange(d) PROVE Done
  BY <1>1, <1>16 DEF DeviceChange
<1>17. ASSUME UNCHANGED vars PROVE Done
  BY <1>1, <1>17 DEF vars
<1> HIDE DEF Done
<1>18. Done
  BY <1>2, <1>5, <1>6, <1>7, <1>8, <1>9, <1>10, <1>11, <1>12, <1>13, <1>14, <1>15, <1>16,
     <1>17 DEF Next, ServerStep
<1> QED
  BY <1>18 DEF Done

LEMMA UnreceivedStep == GroupInv /\ Unreceived /\ [Next]_vars => Unreceived'
<1> SUFFICES ASSUME GroupInv, Unreceived, [Next]_vars PROVE Unreceived'
  OBVIOUS
<1>1. \A r \in Request : pc'[r] = "idle" => pc[r] = "idle" /\ dto'[r] = dto[r]
  BY DEF GroupInv, TypeOK, Next, ServerStep, WorkerStep, vars, directory, database,
     request, queue, effects, MemberChange, DeviceChange, Receive, CheckMember, Lookup, LookupTx,
     ReadSequence, CheckBody, InsertMessage, AttachMedia, Commit, Abort, QueueFanout, QueueFails,
     Crash, Rollback, FanoutDevices, FanoutCreate, FanoutEmit, FanoutRecalc, FanoutFails, Goto, Answer
<1> QED
  BY <1>1 DEF Unreceived

LEMMA RefinementInit == Init => Log!Init /\ Unreceived
<1> SUFFICES ASSUME Init PROVE Log!Init /\ Unreceived
  OBVIOUS
<1>1. \A g \in Group : LastSequence(g) = 0
  BY DEF Init, LastSequence, Numbers, GroupMessages
<1>2. GroupLog = [g \in Group |-> <<>>]
  BY <1>1 DEF GroupLog
<1> QED
  BY <1>2, GroupSendAssumption DEF Init, Log!Init, Unreceived, Asked, Replied

\* As long as the queue accepts jobs, sends to a group, which nothing but the unique
\* indexes orders, are atomic appends to one log per group: GroupSend implements
\* MessageLog.
THEOREM Refinement ==
  ASSUME "redis" \notin Faults
  PROVE  Spec => ImplementsMessageLog
<1>1. LogIsStored /\ LogIsStored' /\ GroupInv /\ GroupInv' /\ Unreceived /\ [Next]_vars
      => [Log!Next]_Log!vars
  BY RefinementStep
<1> QED
  BY <1>1, RefinementInit, UnreceivedStep, LogEntries, Invariant, PTL
  DEF Spec, ImplementsMessageLog, Log!Spec
=============================================================================
