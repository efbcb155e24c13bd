----------------------------- MODULE Suspension -----------------------------
(***************************************************************************)
(* The account of one user under moderation: suspendUser and unsuspendUser *)
(* (moderation.service.ts), the daily reactivation of lapsed suspensions   *)
(* (suspension-reactivation.service.ts) and verifyOtp's check before it    *)
(* issues a session (auth.service.ts).                                     *)
(*                                                                         *)
(* Every handler reads first, without a lock, and writes in a transaction  *)
(* later.  All transactions update the user's row and hold its lock to     *)
(* their end; what they wrote is visible after it (READ COMMITTED).  The   *)
(* actors are administrators and the user is not, so the checks of roles   *)
(* (lines 158-163, 172) always pass.  The sockets that suspendUser's       *)
(* user-kicked event closes belong to the realtime gateway.                *)
(***************************************************************************)
EXTENDS Naturals, FiniteSets

CONSTANTS Suspend, Unsuspend,         \* requests of administrators
          Login,                      \* verifyOtp requests of the user
          Message,                    \* messages the user sends
          Cron,                       \* the reactivation job
          MaxFaults,                  \* failed or lost transactions
          None

ASSUME ActorsAssumption ==
  /\ Suspend \cap Unsuspend = {} /\ Suspend \cap Login = {} /\ Unsuspend \cap Login = {}
  /\ Cron \notin Suspend \cup Unsuspend \cup Login
  /\ None \notin Suspend \cup Unsuspend \cup Login \cup {Cron}
  /\ IsFiniteSet(Suspend)
  /\ MaxFaults \in Nat

Actor == Suspend \cup Unsuspend \cup Login \cup {Cron}
Step  == {"idle", "find", "create", "update", "messages", "audit", "commit", "done", "failed"}

VARIABLES
  status, strikes,  \* the User row
  row,        \* the UserSuspension row of each suspend request:
  timed,      \*   rows with an expiresAt,
  order,      \*   suspendedAt, as the rank among the rows inserted,
  revokedBy,  \*   and the actor who revoked it
  expired,    \* suspensions whose expiresAt has passed
  session,    \* the RefreshToken of each login
  message,    \* the user's messages
  open,       \* messages with a report that is OPEN or IN_REVIEW
  audit,      \* AdminAuditLog: action, actor and the row concerned
  lock,       \* the transaction that has updated the User row
  pc,         \* where each handler is
  picked,     \* the suspension an unsuspend or the job is about to revoke
  todo,       \* the suspensions the job read as lapsed
  revoking,   \* the sessions an open suspension has revoked,
  doomed,     \*   the messages it has tombstoned
  closing,    \*   and the reports it has closed
  window,     \* the suspensions that a login overlaps
  faults

user    == <<status, strikes>>
columns == <<timed, order, revokedBy>>
content == <<message, open>>
cascade == <<revoking, doomed, closing>>
local   == <<picked, todo, cascade, window>>
vars    == <<user, row, columns, expired, session, content, audit, lock, pc, local,
             faults>>

Entry == [action : {"USER_SUSPEND", "USER_UNSUSPEND", "MESSAGE_TOMBSTONE"},
          actor : Actor, row : Suspend \cup Message \cup {None}]

TypeOK ==
  /\ status \in {"ACTIVE", "SUSPENDED"} /\ strikes \in Nat
  /\ row \in [Suspend -> {"none", "pending", "active", "revoked"}]
  /\ timed \in SUBSET Suspend
  /\ order \in [Suspend -> Nat]
  /\ revokedBy \in [Suspend -> Actor \cup {None}]
  /\ expired \in SUBSET Suspend
  /\ session \in [Login -> {"none", "live", "revoked"}]
  /\ message \in [Message -> {"unsent", "live", "deleted"}]
  /\ open \in SUBSET Message
  /\ audit \in SUBSET Entry
  /\ lock \in Actor \cup {None}
  /\ pc \in [Actor -> Step]
  /\ picked \in [Unsuspend \cup {Cron} -> Suspend \cup {None}]
  /\ todo \in SUBSET Suspend
  /\ revoking \in [Suspend -> SUBSET Login]
  /\ doomed \in [Suspend -> SUBSET Message] /\ closing \in [Suspend -> SUBSET Message]
  /\ window \in [Login -> SUBSET Suspend]
  /\ faults \in 0..MaxFaults

Init ==
  /\ status = "ACTIVE" /\ strikes = 0
  /\ row = [s \in Suspend |-> "none"]
  /\ timed = {} /\ order = [s \in Suspend |-> 0]
  /\ revokedBy = [s \in Suspend |-> None]
  /\ expired = {}
  /\ session = [l \in Login |-> "none"]
  /\ message = [m \in Message |-> "unsent"] /\ open = {}
  /\ audit = {}
  /\ lock = None
  /\ pc = [a \in Actor |-> "idle"]
  /\ picked = [u \in Unsuspend \cup {Cron} |-> None]
  /\ todo = {}
  /\ revoking = [s \in Suspend |-> {}]
  /\ doomed = [s \in Suspend |-> {}] /\ closing = [s \in Suspend |-> {}]
  /\ window = [l \in Login |-> {}]
  /\ faults = 0

-----------------------------------------------------------------------------
Goto(a, step) == pc' = [pc EXCEPT ![a] = step]

Active    == {s \in Suspend : row[s] = "active"}
Committed == {s \in Suspend : row[s] \in {"active", "revoked"}}

AuditEntry(action, a, s) == [action |-> action, actor |-> a, row |-> s]
Audited(action, a, s) == audit' = audit \cup {AuditEntry(action, a, s)}

\* The transaction's update of the User row: waits for the lock and keeps it.
Lock(a) == lock = None /\ lock' = a

-----------------------------------------------------------------------------
(* suspendUser.                                                            *)

SuspendCheck(s) ==
  /\ pc[s] = "idle"
  /\ Goto(s, IF status = "ACTIVE" THEN "create" ELSE "failed")
  /\ UNCHANGED <<user, row, columns, expired, session, content, audit, lock, local, faults>>

\* userSuspension.create: the row is visible to others when the transaction commits.
SuspendCreate(s) ==
  /\ pc[s] = "create"
  /\ Goto(s, "update")
  /\ row' = [row EXCEPT ![s] = "pending"]
  /\ timed' \in {timed, timed \cup {s}}
  /\ order' = [order EXCEPT ![s] = 1 + Cardinality({t \in Suspend : order[t] # 0})]
  /\ UNCHANGED <<user, revokedBy, expired, session, content, audit, lock, local, faults>>

\* user.update, then refreshToken.updateMany of the tokens that exist by now.
SuspendUser(s) ==
  /\ pc[s] = "update"
  /\ Lock(s)
  /\ Goto(s, "messages")
  /\ revoking' = [revoking EXCEPT ![s] = {l \in Login : session[l] = "live"}]
  /\ UNCHANGED <<user, row, columns, expired, session, content, audit,
                 picked, todo, doomed, closing, window, faults>>

\* The messages that are not deleted, their unresolved reports, and the report
\* the request names, if it is unresolved.
SuspendMessages(s) ==
  LET found == {m \in Message : message[m] = "live"} IN
  /\ pc[s] = "messages"
  /\ Goto(s, "commit")
  /\ doomed' = [doomed EXCEPT ![s] = found]
  /\ \E reportId \in open \cup {None} :
       closing' = [closing EXCEPT ![s] = open \cap (found \cup {reportId})]
  /\ UNCHANGED <<user, row, columns, expired, session, content, audit, lock,
                 picked, todo, revoking, window, faults>>

\* What becomes visible with the commit; every entry is part of the transaction.
SuspendTx(s) ==
  /\ pc[s] = "commit"
  /\ Goto(s, "done")
  /\ row' = [row EXCEPT ![s] = "active"]
  /\ status' = "SUSPENDED"
  /\ session' = [l \in Login |-> IF l \in revoking[s] THEN "revoked" ELSE session[l]]
  /\ message' = [m \in Message |-> IF m \in doomed[s] THEN "deleted" ELSE message[m]]
  /\ open' = open \ closing[s]
  /\ audit' = audit \cup {AuditEntry("USER_SUSPEND", s, s)}
                   \cup {AuditEntry("MESSAGE_TOMBSTONE", s, m) : m \in doomed[s]}
  /\ lock' = None
  /\ revoking' = [revoking EXCEPT ![s] = {}]
  /\ doomed' = [doomed EXCEPT ![s] = {}] /\ closing' = [closing EXCEPT ![s] = {}]
  /\ UNCHANGED <<columns, expired, picked, todo, window, faults>>

\* strikeCount is incremented in SQL.
SuspendCommit(s) == SuspendTx(s) /\ strikes' = strikes + 1

\* The user's messages and reports about them, at any time: of requests that were
\* admitted before a suspension too.
MessageSent(m) ==
  /\ message[m] = "unsent"
  /\ message' = [message EXCEPT ![m] = "live"]
  /\ UNCHANGED <<user, row, columns, expired, session, open, audit, lock, pc,
                 local, faults>>

MessageReported(m) ==
  /\ message[m] = "live" /\ m \notin open
  /\ open' = open \cup {m}
  /\ UNCHANGED <<user, row, columns, expired, session, message, audit, lock,
                 pc, local, faults>>

\* expiresAt passes.
Expire(s) ==
  /\ row[s] \in {"pending", "active"} /\ s \in timed
  /\ s \notin expired
  /\ expired' = expired \cup {s}
  /\ UNCHANGED <<user, row, columns, session, content, audit, lock, pc, local, faults>>

-----------------------------------------------------------------------------
(* unsuspendUser.                                                          *)

UnsuspendCheck(u) ==
  /\ pc[u] = "idle"
  /\ Goto(u, IF status = "SUSPENDED" THEN "find" ELSE "failed")
  /\ UNCHANGED <<user, row, columns, expired, session, content, audit, lock, local, faults>>

\* userSuspension.findFirst: the latest suspension that is not revoked.
UnsuspendFind(u) ==
  /\ pc[u] = "find"
  /\ \/ /\ Active = {}
        /\ Goto(u, "failed")
        /\ UNCHANGED picked
     \/ \E s \in Active :
          /\ \A t \in Active : order[t] <= order[s]
          /\ Goto(u, "update")
          /\ picked' = [picked EXCEPT ![u] = s]
  /\ UNCHANGED <<user, row, columns, expired, session, content, audit, lock,
                 todo, cascade, window, faults>>

UnsuspendUser(u) ==
  /\ pc[u] = "update"
  /\ Lock(u)
  /\ Goto(u, "audit")
  /\ UNCHANGED <<user, row, columns, expired, session, content, audit, local, faults>>

\* audit.write without tx: the entry is committed on a connection of its own.
UnsuspendAudit(u) ==
  /\ pc[u] = "audit"
  /\ Goto(u, "commit")
  /\ Audited("USER_UNSUSPEND", u, picked[u])
  /\ UNCHANGED <<user, row, columns, expired, session, content, lock, local, faults>>

\* Whatever has happened since, the picked row is revoked and the user activated.
Reactivate(a) ==
  /\ row' = [row EXCEPT ![picked[a]] = "revoked"]
  /\ revokedBy' = [revokedBy EXCEPT ![picked[a]] = a]
  /\ status' = "ACTIVE" /\ UNCHANGED strikes
  /\ lock' = None

UnsuspendCommit(u) ==
  /\ pc[u] = "commit"
  /\ Goto(u, "done")
  /\ Reactivate(u)
  /\ UNCHANGED <<timed, order, expired, session, content, audit, local, faults>>

-----------------------------------------------------------------------------
(* The reactivation job, every day.                                        *)

\* Mutant: only suspensions of users whose latest suspension has lapsed.
LapsedLatest ==
  {s \in Active : s \in timed /\ s \in expired
                  /\ \A t \in Active : order[t] <= order[s]}

Lapsed == {s \in Active : s \in timed /\ s \in expired}

CronRead ==
  /\ pc[Cron] = "idle"
  /\ Lapsed # {}
  /\ todo' = Lapsed
  /\ Goto(Cron, "update")
  /\ UNCHANGED <<user, row, columns, expired, session, content, audit, lock,
                 picked, cascade, window, faults>>

\* reactivateOne's transaction; the list is not read again.
CronUser ==
  /\ pc[Cron] = "update"
  /\ \E s \in todo :
       /\ Lock(Cron)
       /\ picked' = [picked EXCEPT ![Cron] = s]
       /\ todo' = todo \ {s}
  /\ Goto(Cron, "commit")
  /\ UNCHANGED <<user, row, columns, expired, session, content, audit,
                 cascade, window, faults>>

NextRow == Goto(Cron, IF todo = {} THEN "idle" ELSE "update")

\* Mutant: the user is activated by somebody else, later.
CronCommitRowOnly ==
  /\ pc[Cron] = "commit"
  /\ NextRow
  /\ row' = [row EXCEPT ![picked[Cron]] = "revoked"]
  /\ revokedBy' = [revokedBy EXCEPT ![picked[Cron]] = Cron]
  /\ lock' = None
  /\ Audited("USER_UNSUSPEND", Cron, picked[Cron])
  /\ UNCHANGED <<user, timed, order, expired, session, content, local, faults>>

CronCommit ==
  /\ pc[Cron] = "commit"
  /\ NextRow
  /\ Reactivate(Cron)
  /\ Audited("USER_UNSUSPEND", Cron, picked[Cron])
  /\ UNCHANGED <<timed, order, expired, session, content, local, faults>>

-----------------------------------------------------------------------------
(* verifyOtp: throwIfSuspended, then issueTokenPair.                       *)

throwIfSuspended == Active \ expired # {}

\* window: first the suspensions the check can see, then the ones it could not see
\* and whose update of the tokens came before this token.
LoginCheck(l) ==
  /\ pc[l] = "idle"
  /\ Goto(l, IF throwIfSuspended THEN "failed" ELSE "create")
  /\ window' = [window EXCEPT ![l] = Committed]
  /\ UNCHANGED <<user, row, columns, expired, session, content, audit, lock,
                 picked, todo, cascade, faults>>

issueTokenPair(l) ==
  /\ pc[l] = "create"
  /\ Goto(l, "done")
  /\ session' = [session EXCEPT ![l] = "live"]
  /\ window' = [window EXCEPT ![l] =
                 {s \in Suspend : pc[s] \in {"messages", "commit", "done"}} \ @]
  /\ UNCHANGED <<user, row, columns, expired, content, audit, lock, picked,
                 todo, cascade, faults>>

-----------------------------------------------------------------------------
(* A statement fails or the process dies: the transaction is rolled back.  *)

Rollback(a) ==
  /\ lock' = IF lock = a THEN None ELSE lock
  /\ row' = [s \in Suspend |-> IF s = a /\ row[s] = "pending"
                               THEN "none" ELSE row[s]]

Fail(a) ==
  /\ faults < MaxFaults /\ faults' = faults + 1
  /\ a # Cron /\ pc[a] \notin {"idle", "done", "failed"}
  /\ Goto(a, "failed")
  /\ Rollback(a)
  /\ UNCHANGED <<user, columns, expired, session, content, audit, local>>

\* run catches the error of one row; a crash ends the whole run of the day.
CronFails ==
  /\ faults < MaxFaults /\ faults' = faults + 1
  /\ pc[Cron] \in {"update", "commit"}
  /\ \/ pc[Cron] = "commit" /\ NextRow /\ UNCHANGED todo
     \/ Goto(Cron, "idle") /\ todo' = {}
  /\ Rollback(Cron)
  /\ UNCHANGED <<user, columns, expired, session, content, audit, picked, cascade, window>>

-----------------------------------------------------------------------------
SuspendStep(s)   == \/ SuspendCreate(s) \/ SuspendUser(s) \/ SuspendMessages(s)
                    \/ SuspendCommit(s)
UnsuspendStep(u) == \/ UnsuspendFind(u) \/ UnsuspendUser(u) \/ UnsuspendAudit(u)
                    \/ UnsuspendCommit(u)
CronStep         == CronRead \/ CronUser \/ CronCommit

Next ==
  \/ \E s \in Suspend : SuspendCheck(s) \/ SuspendStep(s) \/ Expire(s)
  \/ \E u \in Unsuspend : UnsuspendCheck(u) \/ UnsuspendStep(u)
  \/ \E l \in Login : LoginCheck(l) \/ issueTokenPair(l)
  \/ \E m \in Message : MessageSent(m) \/ MessageReported(m)
  \/ CronStep \/ CronFails
  \/ \E a \in Actor : Fail(a)

Spec == Init /\ [][Next]_vars

\* A request under way goes on and the scheduler starts the job every day.
\* Nobody is obliged to send a request.
Fairness ==
  /\ \A s \in Suspend : WF_vars(SuspendStep(s))
  /\ \A u \in Unsuspend : WF_vars(UnsuspendStep(u))
  /\ WF_vars(CronStep)

-----------------------------------------------------------------------------
(* Properties.                                                             *)

\* A user whose status is SUSPENDED has a suspension that is not revoked, so the
\* guard can say why and unsuspendUser finds what to revoke, whatever handlers
\* and job runs overlap or fail.
SuspendedHasRow == status = "SUSPENDED" => Active # {}

\* Every suspension, every revocation and every message deleted on the way is in
\* the audit log under the actor who did it, whichever transaction fails where.
ChangesAreAudited ==
  /\ \A m \in Message : message[m] = "deleted" =>
       \E s \in Suspend : AuditEntry("MESSAGE_TOMBSTONE", s, m) \in audit
  /\ \A s \in Suspend :
       /\ row[s] \in {"active", "revoked"} => AuditEntry("USER_SUSPEND", s, s) \in audit
       /\ row[s] = "revoked" => AuditEntry("USER_UNSUSPEND", revokedBy[s], s) \in audit

\* The strikes are as many as the suspensions, also when several are made at once
\* and some of them fail (until resetStrikes, which is not modelled, clears them).
StrikesAreCounted == strikes = Cardinality(Committed)

\* A session outlives an unexpired suspension only if its login passed the check
\* before the suspension committed and issued the token after the suspension's
\* update of the tokens: the window that suspendUser leaves open.
OnlyRacingSessionsSurvive ==
  \A l \in Login, s \in Active \ expired :
    session[l] = "live" => s \in window[l]

\* The job ends every timed suspension some day after it lapsed, once failures
\* stop.
LapsedIsRevoked == \A s \in Suspend : (s \in Lapsed) ~> (row[s] = "revoked")

-----------------------------------------------------------------------------
(* The inductive invariant behind the safety properties.                   *)

\* A suspension row is as far as the request that inserts it.
RowInv ==
  \A s \in Suspend :
    /\ row[s] = "pending" <=> pc[s] \in {"update", "messages", "commit"}
    /\ row[s] \in {"active", "revoked"} <=> pc[s] = "done"

\* What is about to be revoked was committed, and unsuspendUser's entry is written.
PickInv ==
  /\ \A u \in Unsuspend : pc[u] \in {"update", "audit", "commit"} => picked[u] \in Committed
  /\ \A u \in Unsuspend : pc[u] = "commit" =>
       AuditEntry("USER_UNSUSPEND", u, picked[u]) \in audit
  /\ pc[Cron] = "commit" => picked[Cron] \in Committed
  /\ todo \subseteq Committed

\* A login sees no suspension in force, and a live session is about to be revoked
\* by every open suspension unless it came too late for it.
SessionInv ==
  /\ \A l \in Login : session[l] = "live" => pc[l] = "done"
  /\ \A l \in Login : pc[l] = "create" => window[l] \subseteq Committed \ (Active \ expired)
  /\ \A l \in Login, s \in Suspend :
       session[l] = "live" /\ pc[s] \in {"messages", "commit"} =>
         l \in revoking[s] \/ s \in window[l]
  /\ OnlyRacingSessionsSurvive

\* suspendUser, unsuspendUser, the job and logins: wherever they overlap or fail, a
\* suspended user has a row to revoke, the log has every change, no strike is lost and
\* no session outlives a suspension but by the race described above.
SuspensionInv ==
  /\ TypeOK /\ RowInv /\ PickInv /\ SessionInv
  /\ SuspendedHasRow /\ ChangesAreAudited /\ StrikesAreCounted
=============================================================================
