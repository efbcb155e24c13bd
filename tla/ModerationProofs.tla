--------------------------- MODULE ModerationProofs ---------------------------
(***************************************************************************)
(* What moderation promises, proved for any number of requests, users and  *)
(* reports.                                                                *)
(*   Suspension: the account's status, its audit log, the strikes and the  *)
(*   sessions fit the committed suspensions and revocations.               *)
(*   Reports: the rows, their status and the limits of a reporter fit the  *)
(*   reports filed and the decisions taken.                                *)
(***************************************************************************)
EXTENDS Suspension, Reports, FiniteSetTheorems, TLAPS

-----------------------------------------------------------------------------
(* Suspensions.                                                            *)

\* Any set of suspensions is finite.
LEMMA FiniteRows == \A S \in SUBSET Suspend : IsFiniteSet(S) /\ Cardinality(S) \in Nat
BY ActorsAssumption, FS_Subset, FS_CardinalityType

-----------------------------------------------------------------------------
(* Type correctness.                                                       *)

\* Every step of the account's handlers keeps each variable in its type.
LEMMA TypeStep == TypeOK /\ [Next]_vars => TypeOK'
<1> SUFFICES ASSUME TypeOK, [Next]_vars PROVE TypeOK'
  OBVIOUS
<1> USE ActorsAssumption DEF TypeOK, Step, Actor, user, columns, content, cascade, local
<1>1. ASSUME NEW s \in Suspend, SuspendCheck(s) PROVE TypeOK'
  BY <1>1 DEF SuspendCheck, Goto
<1>2. ASSUME NEW s \in Suspend, SuspendCreate(s) PROVE TypeOK'
  <2>1. 1 + Cardinality({t \in Suspend : order[t] # 0}) \in Nat
    BY FiniteRows
  <2> QED
    BY <1>2, <2>1 DEF SuspendCreate, Goto
<1>3. ASSUME NEW s \in Suspend, SuspendUser(s) PROVE TypeOK'
  BY <1>3 DEF SuspendUser, Lock, Goto
<1>4. ASSUME NEW s \in Suspend, SuspendMessages(s) PROVE TypeOK'
  BY <1>4 DEF SuspendMessages, Goto
<1>5. ASSUME NEW s \in Suspend, SuspendCommit(s) PROVE TypeOK'
  BY <1>5 DEF SuspendCommit, SuspendTx, Goto, Entry, AuditEntry
<1>6. ASSUME NEW s \in Suspend, Expire(s) PROVE TypeOK'
  BY <1>6 DEF Expire
<1>7. ASSUME NEW u \in Unsuspend, UnsuspendCheck(u) PROVE TypeOK'
  BY <1>7 DEF UnsuspendCheck, Goto
<1>8. ASSUME NEW u \in Unsuspend, UnsuspendFind(u) PROVE TypeOK'
  BY <1>8 DEF UnsuspendFind, Goto, Active
<1>9. ASSUME NEW u \in Unsuspend, UnsuspendUser(u) PROVE TypeOK'
  BY <1>9 DEF UnsuspendUser, Lock, Goto
<1>10. ASSUME NEW u \in Unsuspend, UnsuspendAudit(u) PROVE TypeOK'
  BY <1>10 DEF UnsuspendAudit, Audited, Goto, Entry, AuditEntry
<1>11. ASSUME NEW u \in Unsuspend, UnsuspendCommit(u) PROVE TypeOK'
  BY <1>11 DEF UnsuspendCommit, Reactivate, Goto
<1>12. ASSUME NEW l \in Login, LoginCheck(l) PROVE TypeOK'
  BY <1>12 DEF LoginCheck, throwIfSuspended, Goto, Committed
<1>13. ASSUME NEW l \in Login, issueTokenPair(l) PROVE TypeOK'
  BY <1>13 DEF issueTokenPair, Goto
<1>14. ASSUME NEW m \in Message, MessageSent(m) PROVE TypeOK'
  BY <1>14 DEF MessageSent
<1>15. ASSUME NEW m \in Message, MessageReported(m) PROVE TypeOK'
  BY <1>15 DEF MessageReported
<1>16. ASSUME CronRead PROVE TypeOK'
  BY <1>16 DEF CronRead, Lapsed, Goto, Active
<1>17. ASSUME CronUser PROVE TypeOK'
  BY <1>17 DEF CronUser, Lock, Goto
<1>18. ASSUME CronCommit PROVE TypeOK'
  <2>1. audit' \in SUBSET Entry
    BY <1>18 DEF CronCommit, Audited, Entry, AuditEntry
  <2>2. pc' \in [Actor -> Step]
    BY <1>18 DEF CronCommit, NextRow, Goto
  <2> QED
    BY <1>18, <2>1, <2>2 DEF CronCommit, Reactivate
<1>19. ASSUME CronFails PROVE TypeOK'
  BY <1>19 DEF CronFails, NextRow, Rollback, Goto
<1>20. ASSUME NEW a \in Actor, Fail(a) PROVE TypeOK'
  BY <1>20 DEF Fail, Rollback, Goto
<1>21. CASE UNCHANGED vars
  BY <1>21 DEF vars
<1> QED
  BY <1>1, <1>2, <1>3, <1>4, <1>5, <1>6, <1>7, <1>8, <1>9, <1>10, <1>11,
     <1>12, <1>13, <1>14, <1>15, <1>16, <1>17, <1>18, <1>19, <1>20, <1>21
     DEF Next, SuspendStep, UnsuspendStep, CronStep

-----------------------------------------------------------------------------
(* The inductive invariant.                                                *)

\* A step of the moderators' handlers that changes no suspension and no session
\* keeps what is known about the logins.
LEMMA SessionsStay ==
  ASSUME SessionInv, Committed' = Committed, Active' = Active,
         session' = session, window' = window, revoking' = revoking,
         expired' = expired, \A a \in Suspend \cup Login : pc'[a] = pc[a]
  PROVE  SessionInv'
BY DEF SessionInv, OnlyRacingSessionsSurvive

\* Every step preserves the inductive invariant.
LEMMA InvStep == SuspensionInv /\ [Next]_vars => SuspensionInv'
<1> DEFINE Rest == /\ RowInv /\ PickInv /\ SessionInv
                   /\ SuspendedHasRow /\ ChangesAreAudited /\ StrikesAreCounted
<1> SUFFICES ASSUME SuspensionInv, [Next]_vars PROVE Rest'
  BY TypeStep DEF SuspensionInv
<1>0. TypeOK /\ TypeOK'
  BY TypeStep DEF SuspensionInv
<1> USE <1>0, ActorsAssumption DEF Actor, user, columns, content, cascade, local
<1>1. ASSUME NEW s \in Suspend, SuspendCheck(s) PROVE Rest'
  <2>0. Committed' = Committed /\ Active' = Active
    BY <1>1 DEF SuspendCheck, Goto, TypeOK, SuspensionInv, RowInv, Committed, Active
  <2>1. RowInv'
    BY <1>1 DEF SuspendCheck, Goto, TypeOK, SuspensionInv, RowInv
  <2>2. PickInv'
    BY <1>1, <2>0 DEF SuspendCheck, Goto, TypeOK, SuspensionInv, PickInv
  <2>3. SessionInv'
    BY <1>1, <2>0 DEF SuspendCheck, Goto, TypeOK, SuspensionInv, SessionInv,
         OnlyRacingSessionsSurvive
  <2>4. SuspendedHasRow'
    BY <1>1, <2>0 DEF SuspendCheck, Goto, TypeOK, SuspensionInv, SuspendedHasRow
  <2>5. ChangesAreAudited'
    BY <1>1 DEF SuspendCheck, Goto, TypeOK, SuspensionInv, ChangesAreAudited, RowInv
  <2>6. StrikesAreCounted'
    BY <1>1, <2>0 DEF SuspendCheck, Goto, TypeOK, SuspensionInv, StrikesAreCounted
  <2> QED BY <2>1, <2>2, <2>3, <2>4, <2>5, <2>6
<1>2. ASSUME NEW s \in Suspend, SuspendCreate(s) PROVE Rest'
  <2>0. Committed' = Committed /\ Active' = Active
    BY <1>2 DEF SuspendCreate, Goto, TypeOK, SuspensionInv, RowInv, Committed, Active
  <2>1. RowInv'
    BY <1>2 DEF SuspendCreate, Goto, TypeOK, SuspensionInv, RowInv
  <2>2. PickInv'
    BY <1>2, <2>0 DEF SuspendCreate, Goto, TypeOK, SuspensionInv, PickInv
  <2>3. SessionInv'
    BY <1>2, <2>0 DEF SuspendCreate, Goto, TypeOK, SuspensionInv, SessionInv,
         OnlyRacingSessionsSurvive, RowInv, Committed, Active
  <2>4. SuspendedHasRow'
    BY <1>2, <2>0 DEF SuspendCreate, Goto, TypeOK, SuspensionInv, SuspendedHasRow
  <2>5. ChangesAreAudited'
    BY <1>2 DEF SuspendCreate, Goto, TypeOK, SuspensionInv, ChangesAreAudited, RowInv
  <2>6. StrikesAreCounted'
    BY <1>2, <2>0 DEF SuspendCreate, Goto, TypeOK, SuspensionInv, StrikesAreCounted
  <2> QED BY <2>1, <2>2, <2>3, <2>4, <2>5, <2>6
<1>3. ASSUME NEW s \in Suspend, SuspendUser(s) PROVE Rest'
  <2>0. Committed' = Committed /\ Active' = Active
    BY <1>3 DEF SuspendUser, Lock, Goto, TypeOK, SuspensionInv, RowInv, Committed, Active
  <2>1. RowInv'
    BY <1>3 DEF SuspendUser, Lock, Goto, TypeOK, SuspensionInv, RowInv
  <2>2. PickInv'
    BY <1>3, <2>0 DEF SuspendUser, Lock, Goto, TypeOK, SuspensionInv, PickInv
  <2>3. SessionInv'
    BY <1>3, <2>0 DEF SuspendUser, Lock, Goto, TypeOK, SuspensionInv, SessionInv,
         OnlyRacingSessionsSurvive, RowInv, Committed, Active
  <2>4. SuspendedHasRow'
    BY <1>3, <2>0 DEF SuspendUser, Lock, Goto, TypeOK, SuspensionInv, SuspendedHasRow
  <2>5. ChangesAreAudited'
    BY <1>3 DEF SuspendUser, Lock, Goto, TypeOK, SuspensionInv, ChangesAreAudited, RowInv
  <2>6. StrikesAreCounted'
    BY <1>3, <2>0 DEF SuspendUser, Lock, Goto, TypeOK, SuspensionInv, StrikesAreCounted
  <2> QED BY <2>1, <2>2, <2>3, <2>4, <2>5, <2>6
<1>4. ASSUME NEW s \in Suspend, SuspendMessages(s) PROVE Rest'
  <2>0. Committed' = Committed /\ Active' = Active
    BY <1>4 DEF SuspendMessages, Goto, TypeOK, SuspensionInv, RowInv, Committed, Active
  <2>1. RowInv'
    BY <1>4 DEF SuspendMessages, Goto, TypeOK, SuspensionInv, RowInv
  <2>2. PickInv'
    BY <1>4, <2>0 DEF SuspendMessages, Goto, TypeOK, SuspensionInv, PickInv
  <2>3. SessionInv'
    BY <1>4, <2>0 DEF SuspendMessages, Goto, TypeOK, SuspensionInv, SessionInv,
         OnlyRacingSessionsSurvive, RowInv, Committed, Active
  <2>4. SuspendedHasRow'
    BY <1>4, <2>0 DEF SuspendMessages, Goto, TypeOK, SuspensionInv, SuspendedHasRow
  <2>5. ChangesAreAudited'
    BY <1>4 DEF SuspendMessages, Goto, TypeOK, SuspensionInv, ChangesAreAudited, RowInv
  <2>6. StrikesAreCounted'
    BY <1>4, <2>0 DEF SuspendMessages, Goto, TypeOK, SuspensionInv, StrikesAreCounted
  <2> QED BY <2>1, <2>2, <2>3, <2>4, <2>5, <2>6
<1>5. ASSUME NEW s \in Suspend, SuspendCommit(s) PROVE Rest'
  <2>0. /\ Committed' = Committed \cup {s} /\ s \notin Committed
        /\ Active' = Active \cup {s}
    BY <1>5 DEF SuspendCommit, SuspendTx, Goto, TypeOK, SuspensionInv, RowInv, Committed, Active
  <2>1. RowInv'
    BY <1>5 DEF SuspendCommit, SuspendTx, Goto, TypeOK, SuspensionInv, RowInv
  <2>2. PickInv'
    BY <1>5, <2>0 DEF SuspendCommit, SuspendTx, Goto, TypeOK, SuspensionInv, PickInv
  <2>3. SessionInv'
    BY <1>5, <2>0 DEF SuspendCommit, SuspendTx, Goto, TypeOK, SuspensionInv, SessionInv,
         OnlyRacingSessionsSurvive, RowInv, Committed, Active
  <2>4. SuspendedHasRow'
    BY <1>5, <2>0 DEF SuspendCommit, SuspendTx, Goto, TypeOK, SuspensionInv, SuspendedHasRow
  <2>5. ChangesAreAudited'
    BY <1>5 DEF SuspendCommit, SuspendTx, Goto, TypeOK, SuspensionInv, ChangesAreAudited, RowInv
  <2>6. StrikesAreCounted'
    <3>1. Cardinality(Committed') = Cardinality(Committed) + 1
      BY <2>0, FiniteRows, FS_AddElement DEF Committed
    <3> QED
      BY <1>5, <3>1, FiniteRows DEF SuspendCommit, SuspendTx, Goto, TypeOK, SuspensionInv,
           StrikesAreCounted, Committed
  <2> QED BY <2>1, <2>2, <2>3, <2>4, <2>5, <2>6
<1>6. ASSUME NEW s \in Suspend, Expire(s) PROVE Rest'
  <2>0. Committed' = Committed /\ Active' = Active
    BY <1>6 DEF Expire, TypeOK, SuspensionInv, RowInv, Committed, Active
  <2>1. RowInv'
    BY <1>6 DEF Expire, TypeOK, SuspensionInv, RowInv
  <2>2. PickInv'
    BY <1>6, <2>0 DEF Expire, TypeOK, SuspensionInv, PickInv
  <2>3. SessionInv'
    BY <1>6, <2>0 DEF Expire, TypeOK, SuspensionInv, SessionInv, OnlyRacingSessionsSurvive
  <2>4. SuspendedHasRow'
    BY <1>6, <2>0 DEF Expire, TypeOK, SuspensionInv, SuspendedHasRow
  <2>5. ChangesAreAudited'
    BY <1>6 DEF Expire, TypeOK, SuspensionInv, ChangesAreAudited, RowInv
  <2>6. StrikesAreCounted'
    BY <1>6, <2>0 DEF Expire, TypeOK, SuspensionInv, StrikesAreCounted
  <2> QED BY <2>1, <2>2, <2>3, <2>4, <2>5, <2>6
<1>7. ASSUME NEW u \in Unsuspend, UnsuspendCheck(u) PROVE Rest'
  <2>0. Committed' = Committed /\ Active' = Active
    BY <1>7 DEF UnsuspendCheck, Goto, TypeOK, SuspensionInv, RowInv, Committed, Active
  <2>1. RowInv'
    BY <1>7 DEF UnsuspendCheck, Goto, TypeOK, SuspensionInv, RowInv
  <2>2. PickInv'
    BY <1>7, <2>0 DEF UnsuspendCheck, Goto, TypeOK, SuspensionInv, PickInv
  <2>3. SessionInv'
    <3>1. /\ session' = session /\ window' = window /\ revoking' = revoking
          /\ expired' = expired /\ \A a \in Suspend \cup Login : pc'[a] = pc[a]
      BY <1>7 DEF UnsuspendCheck, Goto, TypeOK
    <3> QED BY <2>0, <3>1, SessionsStay DEF SuspensionInv
  <2>4. SuspendedHasRow'
    BY <1>7, <2>0 DEF UnsuspendCheck, Goto, TypeOK, SuspensionInv, SuspendedHasRow
  <2>5. ChangesAreAudited'
    BY <1>7 DEF UnsuspendCheck, Goto, TypeOK, SuspensionInv, ChangesAreAudited, RowInv
  <2>6. StrikesAreCounted'
    BY <1>7, <2>0 DEF UnsuspendCheck, Goto, TypeOK, SuspensionInv, StrikesAreCounted
  <2> QED BY <2>1, <2>2, <2>3, <2>4, <2>5, <2>6
<1>8. ASSUME NEW u \in Unsuspend, UnsuspendFind(u) PROVE Rest'
  <2>0. Committed' = Committed /\ Active' = Active
    BY <1>8 DEF UnsuspendFind, Goto, TypeOK, SuspensionInv, RowInv, Committed, Active
  <2>1. RowInv'
    BY <1>8 DEF UnsuspendFind, Goto, TypeOK, SuspensionInv, RowInv
  <2>2. PickInv'
    <3>1. /\ todo' = todo /\ audit' = audit
          /\ \A a \in (Unsuspend \cup {Cron}) \ {u} :
               pc'[a] = pc[a] /\ picked'[a] = picked[a]
          /\ pc'[u] \in {"failed", "update"}
      BY <1>8 DEF UnsuspendFind, Goto, TypeOK
    <3>2. pc'[u] = "update" => picked'[u] \in Committed
      BY <1>8 DEF UnsuspendFind, Goto, TypeOK, Committed, Active
    <3> QED BY <2>0, <3>1, <3>2 DEF SuspensionInv, PickInv
  <2>3. SessionInv'
    <3>1. /\ session' = session /\ window' = window /\ revoking' = revoking
          /\ expired' = expired /\ \A a \in Suspend \cup Login : pc'[a] = pc[a]
      BY <1>8 DEF UnsuspendFind, Goto, TypeOK
    <3> QED BY <2>0, <3>1, SessionsStay DEF SuspensionInv
  <2>4. SuspendedHasRow'
    BY <1>8, <2>0 DEF UnsuspendFind, Goto, TypeOK, SuspensionInv, SuspendedHasRow
  <2>5. ChangesAreAudited'
    BY <1>8 DEF UnsuspendFind, Goto, TypeOK, SuspensionInv, ChangesAreAudited, RowInv
  <2>6. StrikesAreCounted'
    BY <1>8, <2>0 DEF UnsuspendFind, Goto, TypeOK, SuspensionInv, StrikesAreCounted
  <2> QED BY <2>1, <2>2, <2>3, <2>4, <2>5, <2>6
<1>9. ASSUME NEW u \in Unsuspend, UnsuspendUser(u) PROVE Rest'
  <2>0. Committed' = Committed /\ Active' = Active
    BY <1>9 DEF UnsuspendUser, Lock, Goto, TypeOK, SuspensionInv, RowInv, Committed, Active
  <2>1. RowInv'
    BY <1>9 DEF UnsuspendUser, Lock, Goto, TypeOK, SuspensionInv, RowInv
  <2>2. PickInv'
    BY <1>9, <2>0 DEF UnsuspendUser, Lock, Goto, TypeOK, SuspensionInv, PickInv
  <2>3. SessionInv'
    BY <1>9, <2>0 DEF UnsuspendUser, Lock, Goto, TypeOK, SuspensionInv, SessionInv,
         OnlyRacingSessionsSurvive
  <2>4. SuspendedHasRow'
    BY <1>9, <2>0 DEF UnsuspendUser, Lock, Goto, TypeOK, SuspensionInv, SuspendedHasRow
  <2>5. ChangesAreAudited'
    BY <1>9 DEF UnsuspendUser, Lock, Goto, TypeOK, SuspensionInv, ChangesAreAudited, RowInv
  <2>6. StrikesAreCounted'
    BY <1>9, <2>0 DEF UnsuspendUser, Lock, Goto, TypeOK, SuspensionInv, StrikesAreCounted
  <2> QED BY <2>1, <2>2, <2>3, <2>4, <2>5, <2>6
<1>10. ASSUME NEW u \in Unsuspend, UnsuspendAudit(u) PROVE Rest'
  <2>0. Committed' = Committed /\ Active' = Active
    BY <1>10 DEF UnsuspendAudit, Audited, Goto, TypeOK, SuspensionInv, RowInv, Committed, Active
  <2>1. RowInv'
    BY <1>10 DEF UnsuspendAudit, Audited, Goto, TypeOK, SuspensionInv, RowInv
  <2>2. PickInv'
    BY <1>10, <2>0 DEF UnsuspendAudit, Audited, Goto, TypeOK, SuspensionInv, PickInv
  <2>3. SessionInv'
    BY <1>10, <2>0 DEF UnsuspendAudit, Audited, Goto, TypeOK, SuspensionInv, SessionInv,
         OnlyRacingSessionsSurvive
  <2>4. SuspendedHasRow'
    BY <1>10, <2>0 DEF UnsuspendAudit, Audited, Goto, TypeOK, SuspensionInv, SuspendedHasRow
  <2>5. ChangesAreAudited'
    BY <1>10 DEF UnsuspendAudit, Audited, Goto, TypeOK, SuspensionInv, ChangesAreAudited, RowInv
  <2>6. StrikesAreCounted'
    BY <1>10, <2>0 DEF UnsuspendAudit, Audited, Goto, TypeOK, SuspensionInv, StrikesAreCounted
  <2> QED BY <2>1, <2>2, <2>3, <2>4, <2>5, <2>6
<1>11. ASSUME NEW u \in Unsuspend, UnsuspendCommit(u) PROVE Rest'
  <2>0. Committed' = Committed /\ Active' = Active \ {picked[u]}
    BY <1>11 DEF UnsuspendCommit, Reactivate, Goto, TypeOK, SuspensionInv, PickInv, Committed,
         Active
  <2>1. RowInv'
    BY <1>11 DEF UnsuspendCommit, Reactivate, Goto, TypeOK, SuspensionInv, RowInv, PickInv,
         Committed
  <2>2. PickInv'
    BY <1>11, <2>0 DEF UnsuspendCommit, Reactivate, Goto, TypeOK, SuspensionInv, PickInv
  <2>3. SessionInv'
    BY <1>11, <2>0 DEF UnsuspendCommit, Reactivate, Goto, TypeOK, SuspensionInv, SessionInv,
         OnlyRacingSessionsSurvive
  <2>4. SuspendedHasRow'
    BY <1>11, <2>0 DEF UnsuspendCommit, Reactivate, Goto, TypeOK, SuspensionInv, SuspendedHasRow
  <2>5. ChangesAreAudited'
    BY <1>11 DEF UnsuspendCommit, Reactivate, Goto, TypeOK, SuspensionInv, ChangesAreAudited,
         RowInv, PickInv, Committed
  <2>6. StrikesAreCounted'
    BY <1>11, <2>0 DEF UnsuspendCommit, Reactivate, Goto, TypeOK, SuspensionInv,
         StrikesAreCounted
  <2> QED BY <2>1, <2>2, <2>3, <2>4, <2>5, <2>6
<1>12. ASSUME NEW l \in Login, LoginCheck(l) PROVE Rest'
  <2>0. Committed' = Committed /\ Active' = Active
    BY <1>12 DEF LoginCheck, throwIfSuspended, Goto, TypeOK, SuspensionInv, RowInv, Committed,
         Active
  <2>1. RowInv'
    BY <1>12 DEF LoginCheck, throwIfSuspended, Goto, TypeOK, SuspensionInv, RowInv
  <2>2. PickInv'
    BY <1>12, <2>0 DEF LoginCheck, throwIfSuspended, Goto, TypeOK, SuspensionInv, PickInv
  <2>3. SessionInv'
    BY <1>12, <2>0 DEF LoginCheck, throwIfSuspended, Goto, TypeOK, SuspensionInv, SessionInv,
         OnlyRacingSessionsSurvive
  <2>4. SuspendedHasRow'
    BY <1>12, <2>0 DEF LoginCheck, throwIfSuspended, Goto, TypeOK, SuspensionInv, SuspendedHasRow
  <2>5. ChangesAreAudited'
    BY <1>12 DEF LoginCheck, throwIfSuspended, Goto, TypeOK, SuspensionInv, ChangesAreAudited,
         RowInv
  <2>6. StrikesAreCounted'
    BY <1>12, <2>0 DEF LoginCheck, throwIfSuspended, Goto, TypeOK, SuspensionInv,
         StrikesAreCounted
  <2> QED BY <2>1, <2>2, <2>3, <2>4, <2>5, <2>6
<1>13. ASSUME NEW l \in Login, issueTokenPair(l) PROVE Rest'
  <2>0. Committed' = Committed /\ Active' = Active
    BY <1>13 DEF issueTokenPair, Goto, TypeOK, SuspensionInv, RowInv, Committed, Active
  <2>1. RowInv'
    BY <1>13 DEF issueTokenPair, Goto, TypeOK, SuspensionInv, RowInv
  <2>2. PickInv'
    BY <1>13, <2>0 DEF issueTokenPair, Goto, TypeOK, SuspensionInv, PickInv
  <2>3. SessionInv'
    BY <1>13, <2>0 DEF issueTokenPair, Goto, TypeOK, SuspensionInv, SessionInv,
         OnlyRacingSessionsSurvive, RowInv, Committed, Active
  <2>4. SuspendedHasRow'
    BY <1>13, <2>0 DEF issueTokenPair, Goto, TypeOK, SuspensionInv, SuspendedHasRow
  <2>5. ChangesAreAudited'
    BY <1>13 DEF issueTokenPair, Goto, TypeOK, SuspensionInv, ChangesAreAudited, RowInv
  <2>6. StrikesAreCounted'
    BY <1>13, <2>0 DEF issueTokenPair, Goto, TypeOK, SuspensionInv, StrikesAreCounted
  <2> QED BY <2>1, <2>2, <2>3, <2>4, <2>5, <2>6
<1>14. ASSUME NEW m \in Message, MessageSent(m) PROVE Rest'
  <2>0. Committed' = Committed /\ Active' = Active
    BY <1>14 DEF MessageSent, TypeOK, SuspensionInv, RowInv, Committed, Active
  <2>1. RowInv'
    BY <1>14 DEF MessageSent, TypeOK, SuspensionInv, RowInv
  <2>2. PickInv'
    BY <1>14, <2>0 DEF MessageSent, TypeOK, SuspensionInv, PickInv
  <2>3. SessionInv'
    BY <1>14, <2>0 DEF MessageSent, TypeOK, SuspensionInv, SessionInv, OnlyRacingSessionsSurvive
  <2>4. SuspendedHasRow'
    BY <1>14, <2>0 DEF MessageSent, TypeOK, SuspensionInv, SuspendedHasRow
  <2>5. ChangesAreAudited'
    BY <1>14 DEF MessageSent, TypeOK, SuspensionInv, ChangesAreAudited, RowInv
  <2>6. StrikesAreCounted'
    BY <1>14, <2>0 DEF MessageSent, TypeOK, SuspensionInv, StrikesAreCounted
  <2> QED BY <2>1, <2>2, <2>3, <2>4, <2>5, <2>6
<1>15. ASSUME NEW m \in Message, MessageReported(m) PROVE Rest'
  <2>0. Committed' = Committed /\ Active' = Active
    BY <1>15 DEF MessageReported, TypeOK, SuspensionInv, RowInv, Committed, Active
  <2>1. RowInv'
    BY <1>15 DEF MessageReported, TypeOK, SuspensionInv, RowInv
  <2>2. PickInv'
    BY <1>15, <2>0 DEF MessageReported, TypeOK, SuspensionInv, PickInv
  <2>3. SessionInv'
    BY <1>15, <2>0 DEF MessageReported, TypeOK, SuspensionInv, SessionInv,
         OnlyRacingSessionsSurvive
  <2>4. SuspendedHasRow'
    BY <1>15, <2>0 DEF MessageReported, TypeOK, SuspensionInv, SuspendedHasRow
  <2>5. ChangesAreAudited'
    BY <1>15 DEF MessageReported, TypeOK, SuspensionInv, ChangesAreAudited, RowInv
  <2>6. StrikesAreCounted'
    BY <1>15, <2>0 DEF MessageReported, TypeOK, SuspensionInv, StrikesAreCounted
  <2> QED BY <2>1, <2>2, <2>3, <2>4, <2>5, <2>6
<1>16. ASSUME CronRead PROVE Rest'
  <2>0. Committed' = Committed /\ Active' = Active
    BY <1>16 DEF CronRead, Lapsed, Goto, TypeOK, SuspensionInv, RowInv, Committed, Active
  <2>1. RowInv'
    BY <1>16 DEF CronRead, Lapsed, Goto, TypeOK, SuspensionInv, RowInv
  <2>2. PickInv'
    BY <1>16, <2>0 DEF CronRead, Lapsed, Goto, TypeOK, SuspensionInv, PickInv, Committed, Active
  <2>3. SessionInv'
    BY <1>16, <2>0 DEF CronRead, Lapsed, Goto, TypeOK, SuspensionInv, SessionInv,
         OnlyRacingSessionsSurvive
  <2>4. SuspendedHasRow'
    BY <1>16, <2>0 DEF CronRead, Lapsed, Goto, TypeOK, SuspensionInv, SuspendedHasRow
  <2>5. ChangesAreAudited'
    BY <1>16 DEF CronRead, Lapsed, Goto, TypeOK, SuspensionInv, ChangesAreAudited, RowInv
  <2>6. StrikesAreCounted'
    BY <1>16, <2>0 DEF CronRead, Lapsed, Goto, TypeOK, SuspensionInv, StrikesAreCounted
  <2> QED BY <2>1, <2>2, <2>3, <2>4, <2>5, <2>6
<1>17. ASSUME CronUser PROVE Rest'
  <2>0. Committed' = Committed /\ Active' = Active
    BY <1>17 DEF CronUser, Lock, Goto, TypeOK, SuspensionInv, RowInv, Committed, Active
  <2>1. RowInv'
    BY <1>17 DEF CronUser, Lock, Goto, TypeOK, SuspensionInv, RowInv
  <2>2. PickInv'
    BY <1>17, <2>0 DEF CronUser, Lock, Goto, TypeOK, SuspensionInv, PickInv
  <2>3. SessionInv'
    BY <1>17, <2>0 DEF CronUser, Lock, Goto, TypeOK, SuspensionInv, SessionInv,
         OnlyRacingSessionsSurvive
  <2>4. SuspendedHasRow'
    BY <1>17, <2>0 DEF CronUser, Lock, Goto, TypeOK, SuspensionInv, SuspendedHasRow
  <2>5. ChangesAreAudited'
    BY <1>17 DEF CronUser, Lock, Goto, TypeOK, SuspensionInv, ChangesAreAudited, RowInv
  <2>6. StrikesAreCounted'
    BY <1>17, <2>0 DEF CronUser, Lock, Goto, TypeOK, SuspensionInv, StrikesAreCounted
  <2> QED BY <2>1, <2>2, <2>3, <2>4, <2>5, <2>6
<1>18. ASSUME CronCommit PROVE Rest'
  <2>0. Committed' = Committed /\ Active' = Active \ {picked[Cron]}
    BY <1>18 DEF CronCommit, NextRow, Reactivate, Audited, Goto, TypeOK, SuspensionInv, PickInv,
         Committed, Active
  <2>1. RowInv'
    BY <1>18 DEF CronCommit, NextRow, Reactivate, Audited, Goto, TypeOK, SuspensionInv, RowInv,
         PickInv, Committed
  <2>2. PickInv'
    BY <1>18, <2>0 DEF CronCommit, NextRow, Reactivate, Audited, Goto, TypeOK, SuspensionInv,
         PickInv
  <2>3. SessionInv'
    BY <1>18, <2>0 DEF CronCommit, NextRow, Reactivate, Audited, Goto, TypeOK, SuspensionInv,
         SessionInv, OnlyRacingSessionsSurvive
  <2>4. SuspendedHasRow'
    BY <1>18, <2>0 DEF CronCommit, NextRow, Reactivate, Audited, Goto, TypeOK, SuspensionInv,
         SuspendedHasRow
  <2>5. ChangesAreAudited'
    BY <1>18 DEF CronCommit, NextRow, Reactivate, Audited, Goto, TypeOK, SuspensionInv,
         ChangesAreAudited, RowInv, PickInv, Committed
  <2>6. StrikesAreCounted'
    BY <1>18, <2>0 DEF CronCommit, NextRow, Reactivate, Audited, Goto, TypeOK, SuspensionInv,
         StrikesAreCounted
  <2> QED BY <2>1, <2>2, <2>3, <2>4, <2>5, <2>6
<1>19. ASSUME CronFails PROVE Rest'
  <2>0. Committed' = Committed /\ Active' = Active
    BY <1>19 DEF CronFails, NextRow, Rollback, Goto, TypeOK, SuspensionInv, RowInv, Committed,
         Active
  <2>1. RowInv'
    BY <1>19 DEF CronFails, NextRow, Rollback, Goto, TypeOK, SuspensionInv, RowInv
  <2>2. PickInv'
    BY <1>19, <2>0 DEF CronFails, NextRow, Rollback, Goto, TypeOK, SuspensionInv, PickInv
  <2>3. SessionInv'
    BY <1>19, <2>0 DEF CronFails, NextRow, Rollback, Goto, TypeOK, SuspensionInv, SessionInv,
         OnlyRacingSessionsSurvive
  <2>4. SuspendedHasRow'
    BY <1>19, <2>0 DEF CronFails, NextRow, Rollback, Goto, TypeOK, SuspensionInv, SuspendedHasRow
  <2>5. ChangesAreAudited'
    BY <1>19 DEF CronFails, NextRow, Rollback, Goto, TypeOK, SuspensionInv, ChangesAreAudited,
         RowInv
  <2>6. StrikesAreCounted'
    BY <1>19, <2>0 DEF CronFails, NextRow, Rollback, Goto, TypeOK, SuspensionInv,
         StrikesAreCounted
  <2> QED BY <2>1, <2>2, <2>3, <2>4, <2>5, <2>6
<1>20. ASSUME NEW a \in Actor, Fail(a) PROVE Rest'
  <2>0. Committed' = Committed /\ Active' = Active
    BY <1>20 DEF Fail, Rollback, Goto, TypeOK, SuspensionInv, RowInv, Committed, Active
  <2>1. RowInv'
    BY <1>20 DEF Fail, Rollback, Goto, TypeOK, SuspensionInv, RowInv
  <2>2. PickInv'
    BY <1>20, <2>0 DEF Fail, Rollback, Goto, TypeOK, SuspensionInv, PickInv
  <2>3. SessionInv'
    BY <1>20, <2>0 DEF Fail, Rollback, Goto, TypeOK, SuspensionInv, SessionInv,
         OnlyRacingSessionsSurvive
  <2>4. SuspendedHasRow'
    BY <1>20, <2>0 DEF Fail, Rollback, Goto, TypeOK, SuspensionInv, SuspendedHasRow
  <2>5. ChangesAreAudited'
    BY <1>20 DEF Fail, Rollback, Goto, TypeOK, SuspensionInv, ChangesAreAudited, RowInv
  <2>6. StrikesAreCounted'
    BY <1>20, <2>0 DEF Fail, Rollback, Goto, TypeOK, SuspensionInv, StrikesAreCounted
  <2> QED BY <2>1, <2>2, <2>3, <2>4, <2>5, <2>6
<1>21. CASE UNCHANGED vars
  BY <1>21 DEF vars, SuspensionInv, RowInv, PickInv, SessionInv, SuspendedHasRow,
     ChangesAreAudited, StrikesAreCounted, OnlyRacingSessionsSurvive, Committed, Active
<1> QED
  BY <1>1, <1>2, <1>3, <1>4, <1>5, <1>6, <1>7, <1>8, <1>9, <1>10, <1>11,
     <1>12, <1>13, <1>14, <1>15, <1>16, <1>17, <1>18, <1>19, <1>20, <1>21
     DEF Next, SuspendStep, UnsuspendStep, CronStep

\* The inductive invariant holds of every behaviour: rows are as far as their
\* requests, and what is about to be written is still right when it is.
THEOREM SuspensionInvariant == Spec => []SuspensionInv
<1>1. Init => SuspensionInv
  <2> SUFFICES ASSUME Init PROVE SuspensionInv
    OBVIOUS
  <2> USE ActorsAssumption DEF Init
  <2>1. TypeOK
    BY DEF TypeOK, Step, Actor
  <2>2. Committed = {} /\ Active = {}
    BY DEF Committed, Active
  <2>3. RowInv /\ PickInv /\ SessionInv
    BY <2>2 DEF RowInv, PickInv, SessionInv, OnlyRacingSessionsSurvive, Actor
  <2>4. SuspendedHasRow /\ ChangesAreAudited
    BY DEF SuspendedHasRow, ChangesAreAudited
  <2>5. StrikesAreCounted
    BY <2>2, FS_EmptySet DEF StrikesAreCounted
  <2> QED BY <2>1, <2>3, <2>4, <2>5 DEF SuspensionInv
<1> QED
  BY <1>1, InvStep, PTL DEF Spec

\* The account's state is well typed.
THEOREM TypeCorrect == Spec => []TypeOK
<1>1. SuspensionInv => TypeOK
  BY DEF SuspensionInv
<1> QED
  BY <1>1, SuspensionInvariant, PTL

\* A user whose status is SUSPENDED always has a suspension that is not revoked.
THEOREM SuspendedIsRevocable == Spec => []SuspendedHasRow
<1>1. SuspensionInv => SuspendedHasRow
  BY DEF SuspensionInv
<1> QED
  BY <1>1, SuspensionInvariant, PTL

\* No suspension and no revocation is missing from the audit log.
THEOREM AuditIsComplete == Spec => []ChangesAreAudited
<1>1. SuspensionInv => ChangesAreAudited
  BY DEF SuspensionInv
<1> QED
  BY <1>1, SuspensionInvariant, PTL

\* However many suspensions are made at once, each that commits is one strike.
THEOREM NoStrikeIsLost == Spec => []StrikesAreCounted
<1>1. SuspensionInv => StrikesAreCounted
  BY DEF SuspensionInv
<1> QED
  BY <1>1, SuspensionInvariant, PTL

\* Only a login that overlaps suspendUser's transaction leaves a live session.
THEOREM SessionsEnd == Spec => []OnlyRacingSessionsSurvive
<1>1. SuspensionInv => OnlyRacingSessionsSurvive
  BY DEF SuspensionInv, SessionInv
<1> QED
  BY <1>1, SuspensionInvariant, PTL

-----------------------------------------------------------------------------
(* Reports.                                                                *)

Stages == {"idle", "daily", "address", "file", "review", "started", "dismiss", "dismissed",
           "tombstone", "restore", "over"}

-----------------------------------------------------------------------------
(* The steps of a request.                                                 *)

\* What the next place of a request does to its variables, and to no other's.
LEMMA ContinueStep ==
  ASSUME ReportTypeOK, NEW q \in Handling, NEW s \in Stages, Continue(q, s)
  PROVE  /\ stage' \in [Handling -> Stages]
         /\ about' \in [Handling -> Report \cup Reported \cup {NoStatus}]
         /\ stage'[q] = s /\ about'[q] = IF s = "over" THEN NoStatus ELSE about[q]
         /\ \A r \in Handling \ {q} : stage'[r] = stage[r] /\ about'[r] = about[r]
  BY DEF Continue, ReportTypeOK, Stages

LEMMA BeginStep ==
  ASSUME ReportTypeOK, NEW q \in Handling, NEW s \in Stages, NEW x \in Report \cup Reported,
         Begin(q, x, s)
  PROVE  /\ stage' \in [Handling -> Stages]
         /\ about' \in [Handling -> Report \cup Reported \cup {NoStatus}]
         /\ stage[q] = "idle" /\ stage'[q] = s /\ about'[q] = IF s = "over" THEN about[q] ELSE x
         /\ \A r \in Handling \ {q} : stage'[r] = stage[r] /\ about'[r] = about[r]
  BY DEF Begin, ReportTypeOK, Stages

-----------------------------------------------------------------------------
(* The rows.                                                               *)

\* What the requests, the statuses and the tombstones have to do with each other.
ReportRowInv ==
  /\ ReportTypeOK /\ AboutInv /\ ClosedStaysClosed /\ TombstonedIsDecided
  /\ \A p \in Report : report[p] = "CLOSED" => p \in resolved

LEMMA RowInit == ReportInit => ReportRowInv
<1> SUFFICES ASSUME ReportInit PROVE ReportRowInv
  OBVIOUS
<1> USE ReportsAssumption DEF ReportInit
<1>1. ReportTypeOK
  BY DEF ReportTypeOK, Status
<1>2. AboutInv /\ ClosedStaysClosed /\ TombstonedIsDecided
  BY DEF AboutInv, ClosedStaysClosed, TombstonedIsDecided
<1> QED
  BY <1>1, <1>2 DEF ReportRowInv, Status

LEMMA RowStep == ReportRowInv /\ [ReportNext]_reportVars => ReportRowInv'
<1> SUFFICES ASSUME ReportRowInv, [ReportNext]_reportVars PROVE ReportRowInv'
  OBVIOUS
<1> USE ReportsAssumption
<1> USE DEF ReportRowInv, ReportTypeOK, AboutInv, ClosedStaysClosed, TombstonedIsDecided, Unresolved,
            Status, Stages, reportRows, reportPast, handlingVars, UnderWay
<1>1. ASSUME NEW q \in Handling, NEW p \in Report, FileReport(q, p) PROVE ReportRowInv'
  BY <1>1, BeginStep DEF FileReport
<1>2. ASSUME NEW q \in Handling, NEW p \in Report, ReviewFind(q, p) PROVE ReportRowInv'
  BY <1>2, BeginStep DEF ReviewFind
<1>3. ASSUME NEW q \in Handling, NEW p \in Report, DismissFind(q, p) PROVE ReportRowInv'
  BY <1>3, BeginStep DEF DismissFind
<1>4. ASSUME NEW q \in Handling, NEW m \in Reported, TombstoneFind(q, m) PROVE ReportRowInv'
  BY <1>4, BeginStep DEF TombstoneFind
<1>5. ASSUME NEW q \in Handling, NEW m \in Reported, RestoreFind(q, m) PROVE ReportRowInv'
  BY <1>5, BeginStep DEF RestoreFind
<1>6. ASSUME NEW q \in Handling, CheckDailyLimit(q) PROVE ReportRowInv'
  BY <1>6, ContinueStep DEF CheckDailyLimit, CheckLimit
<1>7. ASSUME NEW q \in Handling, CheckIpRateLimit(q) PROVE ReportRowInv'
  BY <1>7, ContinueStep DEF CheckIpRateLimit, CheckLimit
<1>8. ASSUME NEW q \in Handling, UpsertReport(q) PROVE ReportRowInv'
  BY <1>8, ContinueStep DEF UpsertReport
<1>9. ASSUME NEW q \in Handling, ReviewUpdate(q) PROVE ReportRowInv'
  BY <1>9, ContinueStep DEF ReviewUpdate
<1>10. ASSUME NEW q \in Handling, ReviewAudit(q) PROVE ReportRowInv'
  BY <1>10, ContinueStep DEF ReviewAudit
<1>11. ASSUME NEW q \in Handling, DismissUpdate(q) PROVE ReportRowInv'
  BY <1>11, ContinueStep DEF DismissUpdate
<1>12. ASSUME NEW q \in Handling, DismissAudit(q) PROVE ReportRowInv'
  BY <1>12, ContinueStep DEF DismissAudit
<1>13. ASSUME NEW q \in Handling, TombstoneMessage(q) PROVE ReportRowInv'
  BY <1>13, ContinueStep DEF TombstoneMessage, TombstoneTx
<1>14. ASSUME NEW q \in Handling, UntombstoneMessage(q) PROVE ReportRowInv'
  BY <1>14, ContinueStep DEF UntombstoneMessage
<1>15. ASSUME NEW q \in Handling, HandlingFails(q) PROVE ReportRowInv'
  BY <1>15, ContinueStep DEF HandlingFails
<1>16. ASSUME NEW m \in Reported, SenderDeletes(m) PROVE ReportRowInv'
  BY <1>16 DEF SenderDeletes
<1>17. CASE UNCHANGED reportVars
  BY <1>17 DEF reportVars
<1> QED
  BY <1>1, <1>2, <1>3, <1>4, <1>5, <1>6, <1>7, <1>8, <1>9, <1>10, <1>11, <1>12, <1>13,
     <1>14, <1>15, <1>16, <1>17 DEF ReportNext

-----------------------------------------------------------------------------
(* The limits.                                                             *)

\* The numbers that the limits are about.
LEMMA Sizes ==
  ASSUME LimitInv
  PROVE  /\ IsFiniteSet(Filed) /\ Cardinality(Filed) \in Nat /\ Cardinality(Counted) \in Nat
         /\ \A u \in Reporter : /\ IsFiniteSet(FiledBy(u)) /\ Cardinality(FiledBy(u)) \in Nat
                                /\ Cardinality(CountedFor(u)) \in Nat
<1>1. IsFiniteSet(Report)
  BY ReportsAssumption, FS_Product DEF Report
<1>2. IsFiniteSet(Filed) /\ \A u \in Reporter : IsFiniteSet(FiledBy(u))
  BY <1>1, FS_Subset DEF Filed, FiledBy
<1> QED
  BY <1>2, FS_CardinalityType DEF LimitInv

\* A step that files nothing and lets no request pass a limit.
LEMMA LimitKept ==
  ASSUME LimitInv, count \in [Reporter \cup {Address} -> Nat],
         count' \in [Reporter \cup {Address} -> Nat],
         Filed' = Filed, Counted' \subseteq Counted,
         \A k \in Reporter \cup {Address} : count'[k] >= count[k],
         \A u \in Reporter : CountedFor(u)' \subseteq CountedFor(u)
  PROVE  LimitInv'
<1>1. /\ IsFiniteSet(Counted') /\ Cardinality(Counted') \in Nat
      /\ Cardinality(Counted') <= Cardinality(Counted)
  BY FS_Subset, FS_CardinalityType DEF LimitInv
<1>2. ASSUME NEW u \in Reporter
      PROVE  /\ IsFiniteSet(CountedFor(u)') /\ Cardinality(CountedFor(u)') \in Nat
             /\ Cardinality(CountedFor(u)') <= Cardinality(CountedFor(u))
             /\ FiledBy(u)' = FiledBy(u)
  BY FS_Subset, FS_CardinalityType DEF LimitInv, FiledBy
<1>3. DailyLimit \in Nat /\ AddressLimit \in Nat
  BY ReportsAssumption
<1>4. /\ Cardinality(Filed') + Cardinality(Counted') <= AddressLimit
      /\ Cardinality(Filed') + Cardinality(Counted') <= count'[Address]
  BY <1>1, <1>3, Sizes DEF LimitInv
<1>5. ASSUME NEW u \in Reporter
      PROVE  /\ Cardinality(FiledBy(u)') + Cardinality(CountedFor(u)') <= DailyLimit
             /\ Cardinality(FiledBy(u)') + Cardinality(CountedFor(u)') <= count'[u]
  BY <1>2, <1>3, Sizes DEF LimitInv
<1> QED
  BY <1>1, <1>2, <1>4, <1>5 DEF LimitInv

\* checkLimit, when it lets the request pass.
LEMMA DailyStep ==
  ASSUME ReportRowInv, LimitInv, NEW q \in Handling, CheckDailyLimit(q) PROVE LimitInv'
<1> USE ReportsAssumption
<1>1. PICK u \in Reporter, m \in Reported :
        about[q] = <<u, m>> /\ CheckLimit(q, "daily", u, DailyLimit, "address")
  BY DEF CheckDailyLimit
<1> DEFINE s == IF WithinLimit(u, DailyLimit) THEN "address" ELSE "over"
<1>2. /\ stage[q] = "daily" /\ stage'[q] = s
      /\ about'[q] = IF s = "over" THEN NoStatus ELSE <<u, m>>
      /\ \A r \in Handling \ {q} : stage'[r] = stage[r] /\ about'[r] = about[r]
  BY <1>1, ContinueStep DEF CheckLimit, ReportRowInv, Stages
<1>3. /\ count \in [Reporter \cup {Address} -> Nat]
      /\ count' \in [Reporter \cup {Address} -> Nat]
      /\ count'[u] = count[u] + 1
      /\ \A k \in (Reporter \cup {Address}) \ {u} : count'[k] = count[k]
  BY <1>1 DEF CheckLimit, ReportRowInv, ReportTypeOK
<1>4. Filed' = Filed /\ Counted' = Counted
  BY <1>1, <1>2 DEF CheckLimit, Filed, Counted, reportRows
<1>5. \A v \in Reporter \ {u} : CountedFor(v)' = CountedFor(v)
  BY <1>1, <1>2 DEF CountedFor
<1>6. CASE s = "over"
  <2>1. CountedFor(u)' = CountedFor(u)
    BY <1>2, <1>6 DEF CountedFor
  <2> QED
    BY <1>3, <1>4, <1>5, <2>1, LimitKept
<1>7. CASE s = "address"
  <2>1. CountedFor(u)' = CountedFor(u) \cup {q} /\ q \notin CountedFor(u)
    BY <1>2, <1>7 DEF CountedFor
  <2>2. /\ IsFiniteSet(CountedFor(u)')
        /\ Cardinality(CountedFor(u)') = Cardinality(CountedFor(u)) + 1
    BY <2>1, FS_AddElement DEF LimitInv
  <2>3. count[u] + 1 <= DailyLimit
    BY <1>7 DEF WithinLimit
  <2>4. \A v \in Reporter : FiledBy(v)' = FiledBy(v)
    BY <1>4 DEF FiledBy
  <2>5. ASSUME NEW v \in Reporter
        PROVE  /\ IsFiniteSet(CountedFor(v)')
               /\ Cardinality(FiledBy(v)') + Cardinality(CountedFor(v)') <= DailyLimit
               /\ Cardinality(FiledBy(v)') + Cardinality(CountedFor(v)') <= count'[v]
    <3>1. CASE v = u
      BY <1>3, <2>2, <2>3, <2>4, <3>1, Sizes DEF LimitInv
    <3>2. CASE v # u
      BY <1>3, <1>5, <2>4, <3>2 DEF LimitInv
    <3> QED
      BY <3>1, <3>2
  <2> QED
    BY <1>3, <1>4, <2>5 DEF LimitInv
<1> QED
  BY <1>6, <1>7

LEMMA AddressStep ==
  ASSUME ReportRowInv, LimitInv, NEW q \in Handling, CheckIpRateLimit(q) PROVE LimitInv'
<1> USE ReportsAssumption
<1> DEFINE s == IF WithinLimit(Address, AddressLimit) THEN "file" ELSE "over"
<1>2. /\ stage[q] = "address" /\ stage'[q] = s
      /\ about'[q] = IF s = "over" THEN NoStatus ELSE about[q]
      /\ \A r \in Handling \ {q} : stage'[r] = stage[r] /\ about'[r] = about[r]
  BY ContinueStep DEF CheckIpRateLimit, CheckLimit, ReportRowInv, Stages
<1>3. /\ count \in [Reporter \cup {Address} -> Nat]
      /\ count' \in [Reporter \cup {Address} -> Nat]
      /\ count'[Address] = count[Address] + 1
      /\ \A k \in Reporter : count'[k] = count[k]
  BY DEF CheckIpRateLimit, CheckLimit, ReportRowInv, ReportTypeOK
<1>4. Filed' = Filed /\ \A u \in Reporter : FiledBy(u)' = FiledBy(u)
  BY DEF CheckIpRateLimit, CheckLimit, Filed, FiledBy, reportRows
<1>5. \A u \in Reporter : CountedFor(u)' \subseteq CountedFor(u)
  BY <1>2 DEF CountedFor
<1>6. CASE s = "over"
  <2>1. Counted' = Counted
    BY <1>2, <1>6 DEF Counted
  <2> QED
    BY <1>3, <1>4, <1>5, <2>1, LimitKept
<1>7. CASE s = "file"
  <2>1. Counted' = Counted \cup {q} /\ q \notin Counted
    BY <1>2, <1>7 DEF Counted
  <2>2. IsFiniteSet(Counted') /\ Cardinality(Counted') = Cardinality(Counted) + 1
    BY <2>1, FS_AddElement DEF LimitInv
  <2>3. count[Address] + 1 <= AddressLimit
    BY <1>7 DEF WithinLimit
  <2>4. \A u \in Reporter : CountedFor(u)' = CountedFor(u)
    BY <1>2, <1>7 DEF CountedFor
  <2> QED
    BY <1>3, <1>4, <2>2, <2>3, <2>4, Sizes DEF LimitInv
<1> QED
  BY <1>6, <1>7

\* upsert: what was counted is filed, or was filed before.
LEMMA UpsertStep ==
  ASSUME ReportRowInv, LimitInv, NEW q \in Handling, UpsertReport(q) PROVE LimitInv'
<1> USE ReportsAssumption
<1>1. PICK u \in Reporter, m \in Reported : about[q] = <<u, m>>
  BY DEF UpsertReport, ReportRowInv, AboutInv, Report
<1> DEFINE p == <<u, m>>
<1>2. /\ stage[q] = "file" /\ stage'[q] = "over" /\ about'[q] = NoStatus
      /\ \A r \in Handling \ {q} : stage'[r] = stage[r] /\ about'[r] = about[r]
  BY ContinueStep DEF UpsertReport, ReportRowInv, Stages
<1>3. /\ count \in [Reporter \cup {Address} -> Nat] /\ count' = count /\ earlier' = earlier
      /\ p \in Report
  BY <1>1 DEF UpsertReport, ReportRowInv, ReportTypeOK, Report
<1>4. CASE report[p] # NoStatus
  <2>1. Filed' = Filed
    BY <1>1, <1>4 DEF UpsertReport, Filed
  <2>2. Counted' \subseteq Counted /\ \A v \in Reporter : CountedFor(v)' \subseteq CountedFor(v)
    BY <1>2 DEF Counted, CountedFor
  <2> QED
    BY <1>3, <2>1, <2>2, LimitKept
<1>5. CASE report[p] = NoStatus
  <2>1. Filed' = Filed \cup {p} /\ p \notin Filed
    BY <1>1, <1>3, <1>5 DEF UpsertReport, Filed, ReportRowInv, ReportTypeOK, Status
  <2>2. Counted' = Counted \ {q} /\ q \in Counted
    BY <1>2 DEF Counted
  <2>3. FiledBy(u)' = FiledBy(u) \cup {p} /\ p \notin FiledBy(u)
    BY <2>1 DEF FiledBy
  <2>4. CountedFor(u)' = CountedFor(u) \ {q} /\ q \in CountedFor(u)
    BY <1>1, <1>2 DEF CountedFor
  <2>5. /\ IsFiniteSet(Counted') /\ Cardinality(Counted') = Cardinality(Counted) - 1
        /\ Cardinality(Filed') = Cardinality(Filed) + 1
    BY <2>1, <2>2, Sizes, FS_AddElement, FS_RemoveElement DEF LimitInv
  <2>6. /\ IsFiniteSet(CountedFor(u)')
        /\ Cardinality(CountedFor(u)') = Cardinality(CountedFor(u)) - 1
        /\ Cardinality(FiledBy(u)') = Cardinality(FiledBy(u)) + 1
    <3>1. IsFiniteSet(CountedFor(u)) /\ IsFiniteSet(FiledBy(u))
      BY Sizes DEF LimitInv
    <3>2. /\ IsFiniteSet(CountedFor(u) \ {q})
          /\ Cardinality(CountedFor(u) \ {q}) = Cardinality(CountedFor(u)) - 1
      BY <2>4, <3>1, FS_RemoveElement
    <3>3. Cardinality(FiledBy(u) \cup {p}) = Cardinality(FiledBy(u)) + 1
      <4>1. IsFiniteSet(FiledBy(u)) /\ p \notin FiledBy(u)
        BY <2>3, <3>1
      <4> HIDE DEF p
      <4> QED
        BY <4>1, FS_AddElement
    <3> QED
      BY <2>3, <2>4, <3>2, <3>3
  <2>7. ASSUME NEW v \in Reporter
        PROVE  /\ IsFiniteSet(CountedFor(v)')
               /\ Cardinality(FiledBy(v)') + Cardinality(CountedFor(v)') <= DailyLimit
               /\ Cardinality(FiledBy(v)') + Cardinality(CountedFor(v)') <= count'[v]
    <3>1. CASE v = u
      BY <1>3, <2>6, <3>1, Sizes DEF LimitInv
    <3>2. CASE v # u
      <4>1. FiledBy(v)' = FiledBy(v)
        BY <2>1, <3>2 DEF FiledBy
      <4>2. CountedFor(v)' = CountedFor(v)
        BY <1>1, <1>2, <3>2 DEF CountedFor
      <4> QED
        BY <1>3, <4>1, <4>2 DEF LimitInv
    <3> QED
      BY <3>1, <3>2
  <2> QED
    BY <1>3, <2>5, <2>7, Sizes DEF LimitInv
<1> QED
  BY <1>4, <1>5

LEMMA LimitStep == ReportRowInv /\ LimitInv /\ [ReportNext]_reportVars => LimitInv'
<1> SUFFICES ASSUME ReportRowInv, LimitInv, [ReportNext]_reportVars PROVE LimitInv'
  OBVIOUS
<1> USE DEF reportRows, reportPast, handlingVars, ReportRowInv, ReportTypeOK, AboutInv, Stages, Filed,
            Counted, CountedFor
<1> DEFINE Kept == /\ Filed' = Filed /\ Counted' \subseteq Counted /\ count' = count
                   /\ \A u \in Reporter : CountedFor(u)' \subseteq CountedFor(u)
<1>1. ASSUME NEW q \in Handling, NEW p \in Report,
             FileReport(q, p) \/ ReviewFind(q, p) \/ DismissFind(q, p)
      PROVE  Kept
  BY <1>1, BeginStep DEF FileReport, ReviewFind, DismissFind
<1>2. ASSUME NEW q \in Handling, NEW m \in Reported, TombstoneFind(q, m) \/ RestoreFind(q, m)
      PROVE  Kept
  BY <1>2, BeginStep DEF TombstoneFind, RestoreFind
<1>3. ASSUME NEW q \in Handling, ReviewUpdate(q) \/ DismissUpdate(q) PROVE Kept
  BY <1>3, ContinueStep, ReportsAssumption DEF ReviewUpdate, DismissUpdate, Status
<1>4. ASSUME NEW q \in Handling, ReviewAudit(q) \/ DismissAudit(q) \/ HandlingFails(q)
      PROVE  Kept
  BY <1>4, ContinueStep DEF ReviewAudit, DismissAudit, HandlingFails
<1>5. ASSUME NEW q \in Handling, TombstoneMessage(q) \/ UntombstoneMessage(q) PROVE Kept
  BY <1>5, ContinueStep, ReportsAssumption
  DEF TombstoneMessage, TombstoneTx, Unresolved, UntombstoneMessage, Status
<1>6. ASSUME NEW m \in Reported, SenderDeletes(m) PROVE Kept
  BY <1>6 DEF SenderDeletes
<1>7. CASE UNCHANGED reportVars
  <2>1. Kept
    BY <1>7 DEF reportVars
  <2> QED
    BY <2>1, LimitKept
<1>8. CASE Kept
  BY <1>8, LimitKept
<1> QED
  BY <1>1, <1>2, <1>3, <1>4, <1>5, <1>6, <1>7, <1>8, DailyStep, AddressStep, UpsertStep
  DEF ReportNext

LEMMA LimitInit == ReportInit => LimitInv
<1> SUFFICES ASSUME ReportInit PROVE LimitInv
  OBVIOUS
<1>1. Filed = {} /\ Counted = {} /\ \A u \in Reporter : FiledBy(u) = {} /\ CountedFor(u) = {}
  BY DEF ReportInit, Filed, Counted, FiledBy, CountedFor
<1> QED
  BY <1>1, FS_EmptySet, ReportsAssumption DEF ReportInit, LimitInv

\* Within what is counted is within the limits.
LEMMA Within == LimitInv => FiledWithinLimits
  BY Sizes, ReportsAssumption DEF LimitInv, FiledWithinLimits

\* reports.service.ts and moderation.service.ts: what is filed stays within the daily and
\* the address limit, and at every await the requests fit the rows.
THEOREM ReportInvariant == ReportSpec => []ReportInv
<1>1. ReportRowInv /\ LimitInv => ReportInv
  BY Within DEF ReportRowInv, ReportInv
<1> QED
  BY <1>1, RowInit, LimitInit, RowStep, LimitStep, PTL DEF ReportSpec

\* markInReview, dismiss and tombstoneMessage: a closed report is opened again only by a
\* request that overlaps the one that closes it.
THEOREM ClosedDoStayClosed == ReportSpec => []ClosedStaysClosed
<1>1. ReportRowInv => ClosedStaysClosed
  BY DEF ReportRowInv
<1> QED
  BY <1>1, RowInit, RowStep, PTL DEF ReportSpec

\* tombstoneMessage: no report about a message that a moderator has tombstoned waits for
\* a decision, unless it was filed late or a moderator was at work on it.
THEOREM TombstonedAreDecided == ReportSpec => []TombstonedIsDecided
<1>1. ReportRowInv => TombstonedIsDecided
  BY DEF ReportRowInv
<1> QED
  BY <1>1, RowInit, RowStep, PTL DEF ReportSpec

-----------------------------------------------------------------------------
(* The audit log.                                                          *)

LEMMA LogStep == ReportRowInv /\ LogTellsStatus /\ [ReportNext]_reportVars => LogTellsStatus'
<1> SUFFICES ASSUME ReportRowInv, LogTellsStatus, [ReportNext]_reportVars PROVE LogTellsStatus'
  OBVIOUS
<1> USE ReportsAssumption
<1> USE DEF ReportRowInv, ReportTypeOK, AboutInv, LogTellsStatus, Status, Stages, reportRows, reportPast,
            handlingVars, UnderWay
<1>1. ASSUME NEW q \in Handling, NEW p \in Report,
             FileReport(q, p) \/ ReviewFind(q, p) \/ DismissFind(q, p)
      PROVE  LogTellsStatus'
  BY <1>1, BeginStep DEF FileReport, ReviewFind, DismissFind
<1>2. ASSUME NEW q \in Handling, NEW m \in Reported, TombstoneFind(q, m) \/ RestoreFind(q, m)
      PROVE  LogTellsStatus'
  BY <1>2, BeginStep DEF TombstoneFind, RestoreFind
<1>3. ASSUME NEW q \in Handling, CheckDailyLimit(q) \/ CheckIpRateLimit(q)
      PROVE  LogTellsStatus'
  BY <1>3, ContinueStep DEF CheckDailyLimit, CheckIpRateLimit, CheckLimit
<1>4. ASSUME NEW q \in Handling, UpsertReport(q) PROVE LogTellsStatus'
  BY <1>4, ContinueStep DEF UpsertReport
<1>5. ASSUME NEW q \in Handling, ReviewUpdate(q) \/ DismissUpdate(q) PROVE LogTellsStatus'
  BY <1>5, ContinueStep DEF ReviewUpdate, DismissUpdate
<1>6. ASSUME NEW q \in Handling, ReviewAudit(q) \/ DismissAudit(q) PROVE LogTellsStatus'
  BY <1>6, ContinueStep DEF ReviewAudit, DismissAudit
<1>7. ASSUME NEW q \in Handling, TombstoneMessage(q) PROVE LogTellsStatus'
  BY <1>7, ContinueStep DEF TombstoneMessage, TombstoneTx, Unresolved
<1>8. ASSUME NEW q \in Handling, UntombstoneMessage(q) \/ HandlingFails(q) PROVE LogTellsStatus'
  BY <1>8, ContinueStep DEF UntombstoneMessage, HandlingFails
<1>9. ASSUME NEW m \in Reported, SenderDeletes(m) PROVE LogTellsStatus'
  BY <1>9 DEF SenderDeletes
<1>10. CASE UNCHANGED reportVars
  BY <1>10 DEF reportVars
<1> QED
  BY <1>1, <1>2, <1>3, <1>4, <1>5, <1>6, <1>7, <1>8, <1>9, <1>10 DEF ReportNext

\* markInReview and dismiss: the latest audit entry about a report tells its status,
\* unless requests overlapped or one was lost before it wrote its entry.
THEOREM LogDoesTellStatus == ReportSpec => []LogTellsStatus
<1>1. ReportInit => LogTellsStatus
  BY DEF ReportInit, LogTellsStatus
<1> QED
  BY <1>1, RowInit, RowStep, LogStep, PTL DEF ReportSpec
===============================================================================
