------------------------------ MODULE Reports -------------------------------
(***************************************************************************)
(* Reports about messages: create, markInReview and dismiss                *)
(* (reports.service.ts), and the tombstones that close reports or give a   *)
(* message back (moderation.service.ts).                                   *)
(*                                                                         *)
(* Only tombstones are set in a transaction.  markInReview and dismiss     *)
(* look at the status in one statement, overwrite it in a second one,      *)
(* whatever it has become, and write the audit log in a third.  One day    *)
(* passes, and one minute of one client address.                           *)
(***************************************************************************)
EXTENDS Naturals, FiniteSets

CONSTANTS Reporter,                   \* users with role USER
          Reported,                   \* messages
          Handling,                   \* requests
          DailyLimit, AddressLimit,   \* REPORTS_DAILY_LIMIT, REPORTS_PER_IP_PER_MINUTE
          Address, NoStatus

Report == Reporter \X Reported
Status == {"OPEN", "IN_REVIEW", "CLOSED"}

ASSUME ReportsAssumption ==
  /\ DailyLimit \in Nat /\ AddressLimit \in Nat
  /\ IsFiniteSet(Reporter) /\ IsFiniteSet(Reported)
  /\ Address \notin Reporter
  /\ NoStatus \notin Report \cup Reported \cup Status

VARIABLES
  report,                     \* the status of each report that was filed,
  earlier,                    \*   and those filed before this day
  resolved,                   \* reports with a resolution
  tombstoned,                 \* messages with a deletedAt,
  moderated,                  \*   and those of them whose reports a moderator closed
  count,                      \* Redis counters of the reporters and of the address
  logged,                     \* the status of a report by the latest entry about it
  stage, about,               \* the requests: where, and the report or message they are about
  raced,                      \* history: reports changed under another request,
  late,                       \*   those filed after the tombstone,
  unlogged                    \*   and those whose audit entry was lost

reportRows   == <<report, earlier, resolved, tombstoned, moderated>>
handlingVars == <<stage, about>>
reportPast   == <<raced, late, unlogged>>
reportVars   == <<reportRows, count, logged, handlingVars, reportPast>>

ReportTypeOK ==
  /\ report \in [Report -> Status \cup {NoStatus}]
  /\ earlier \cup resolved \subseteq {p \in Report : report[p] # NoStatus}
  /\ tombstoned \subseteq Reported /\ moderated \subseteq tombstoned
  /\ count \in [Reporter \cup {Address} -> Nat]
  /\ logged \in [Report -> Status \cup {NoStatus}]
  /\ stage \in [Handling -> {"idle", "daily", "address", "file", "review", "started",
                             "dismiss", "dismissed", "tombstone", "restore", "over"}]
  /\ about \in [Handling -> Report \cup Reported \cup {NoStatus}]
  /\ raced \subseteq Report /\ late \subseteq Report /\ unlogged \subseteq Report

ReportInit ==
  /\ earlier \in SUBSET Report
  /\ report = [p \in Report |-> IF p \in earlier THEN "OPEN" ELSE NoStatus] /\ resolved = {}
  /\ tombstoned = {} /\ moderated = {}
  /\ count = [k \in Reporter \cup {Address} |-> 0]
  /\ logged = [p \in Report |-> NoStatus]
  /\ stage = [q \in Handling |-> "idle"] /\ about = [q \in Handling |-> NoStatus]
  /\ raced = {} /\ late = {} /\ unlogged = {}

-----------------------------------------------------------------------------
\* A request with its subject begins, goes on, or is over.
Begin(q, x, s) ==
  /\ stage[q] = "idle"
  /\ stage' = [stage EXCEPT ![q] = s]
  /\ about' = [about EXCEPT ![q] = IF s = "over" THEN @ ELSE x]

Continue(q, s) ==
  /\ stage' = [stage EXCEPT ![q] = s]
  /\ about' = [about EXCEPT ![q] = IF s = "over" THEN NoStatus ELSE @]

Unresolved(p) == report[p] \in {"OPEN", "IN_REVIEW"}

\* Reports of P that another request has read, or has yet to log.
UnderWay(q, P) ==
  {p \in P : \E r \in Handling \ {q} : /\ about[r] = p
                                       /\ stage[r] \in {"review", "started", "dismiss", "dismissed"}}

-----------------------------------------------------------------------------
(* create.                                                                 *)

\* The message is read; the reporter may see it and has not sent it.
FileReport(q, p) ==
  /\ Begin(q, p, IF p[2] \in tombstoned THEN "over" ELSE "daily")
  /\ UNCHANGED <<reportRows, count, logged, reportPast>>

\* Mutant: the number before the increment is compared.
WithinLimitBefore(k, limit) == count[k] <= limit

\* INCR returns the number that this request makes.
WithinLimit(k, limit) == count[k] + 1 <= limit

CheckLimit(q, from, k, limit, to) ==
  /\ stage[q] = from
  /\ count' = [count EXCEPT ![k] = @ + 1]
  /\ Continue(q, IF WithinLimit(k, limit) THEN to ELSE "over")
  /\ UNCHANGED <<reportRows, logged, reportPast>>

CheckDailyLimit(q) ==
  \E u \in Reporter, m \in Reported :
    about[q] = <<u, m>> /\ CheckLimit(q, "daily", u, DailyLimit, "address")

CheckIpRateLimit(q) == CheckLimit(q, "address", Address, AddressLimit, "file")

\* upsert, which leaves a report that exists alone.
UpsertReport(q) ==
  LET p == about[q] IN
  /\ stage[q] = "file"
  /\ Continue(q, "over")
  /\ IF report[p] = NoStatus
     THEN /\ report' = [report EXCEPT ![p] = "OPEN"]
          /\ late' = IF p[2] \in tombstoned THEN late \cup {p} ELSE late
     ELSE UNCHANGED <<report, late>>
  /\ UNCHANGED <<earlier, resolved, tombstoned, moderated, count, logged, raced, unlogged>>

-----------------------------------------------------------------------------
(* markInReview.                                                           *)

\* Mutant: a closed report is taken up again.
ReviewFindAny(q, p) ==
  /\ report[p] # NoStatus
  /\ Begin(q, p, IF report[p] # "IN_REVIEW" THEN "review" ELSE "over")
  /\ UNCHANGED <<reportRows, count, logged, reportPast>>

ReviewFind(q, p) ==
  /\ report[p] # NoStatus
  /\ Begin(q, p, IF report[p] = "OPEN" THEN "review" ELSE "over")
  /\ UNCHANGED <<reportRows, count, logged, reportPast>>

ReviewUpdate(q) ==
  /\ stage[q] = "review"
  /\ Continue(q, "started")
  /\ report' = [report EXCEPT ![about[q]] = "IN_REVIEW"]
  /\ raced' = raced \cup UnderWay(q, {about[q]})
  /\ UNCHANGED <<earlier, resolved, tombstoned, moderated, count, logged, late, unlogged>>

\* audit.write.
ReviewAudit(q) ==
  /\ stage[q] = "started"
  /\ Continue(q, "over")
  /\ logged' = [logged EXCEPT ![about[q]] = "IN_REVIEW"]
  /\ UNCHANGED <<reportRows, count, reportPast>>

-----------------------------------------------------------------------------
(* dismiss.                                                                *)

\* Mutant: the entry is written first.
DismissFindLogged(q, p) ==
  /\ report[p] # NoStatus
  /\ Begin(q, p, IF report[p] # "CLOSED" THEN "dismiss" ELSE "over")
  /\ logged' = [logged EXCEPT ![p] = "CLOSED"]
  /\ UNCHANGED <<reportRows, count, reportPast>>

DismissFind(q, p) ==
  /\ report[p] # NoStatus
  /\ Begin(q, p, IF report[p] # "CLOSED" THEN "dismiss" ELSE "over")
  /\ UNCHANGED <<reportRows, count, logged, reportPast>>

DismissUpdate(q) ==
  /\ stage[q] = "dismiss"
  /\ Continue(q, "dismissed")
  /\ report' = [report EXCEPT ![about[q]] = "CLOSED"]
  /\ resolved' = resolved \cup {about[q]}
  /\ raced' = raced \cup UnderWay(q, {about[q]})
  /\ UNCHANGED <<earlier, tombstoned, moderated, count, logged, late, unlogged>>

DismissAudit(q) ==
  /\ stage[q] = "dismissed"
  /\ Continue(q, "over")
  /\ logged' = [logged EXCEPT ![about[q]] = "CLOSED"]
  /\ UNCHANGED <<reportRows, count, reportPast>>

-----------------------------------------------------------------------------
(* Tombstones.                                                             *)

TombstoneFind(q, m) ==
  /\ Begin(q, m, IF m \in tombstoned THEN "over" ELSE "tombstone")
  /\ UNCHANGED <<reportRows, count, logged, reportPast>>

\* The transaction: the message, the reports P, the entry.
TombstoneTx(q, P) ==
  /\ stage[q] = "tombstone"
  /\ Continue(q, "over")
  /\ tombstoned' = tombstoned \cup {about[q]} /\ moderated' = moderated \cup {about[q]}
  /\ report' = [p \in Report |-> IF p \in P THEN "CLOSED" ELSE report[p]]
  /\ resolved' = resolved \cup P
  /\ logged' = [p \in Report |-> IF p \in P THEN "CLOSED" ELSE logged[p]]
  /\ raced' = raced \cup UnderWay(q, P)
  /\ UNCHANGED <<earlier, count, late, unlogged>>

\* Mutant: only reports nobody has taken up are closed.
TombstoneMessageOpen(q) ==
  TombstoneTx(q, {p \in Report : p[2] = about[q] /\ report[p] = "OPEN"})

\* A report the request names is written once more, with nothing new but its reviewer.
TombstoneMessage(q) ==
  TombstoneTx(q, {p \in Report : p[2] = about[q] /\ Unresolved(p)})

RestoreFind(q, m) ==
  /\ Begin(q, m, IF m \in tombstoned THEN "restore" ELSE "over")
  /\ UNCHANGED <<reportRows, count, logged, reportPast>>

\* Reports stay as they are.
UntombstoneMessage(q) ==
  /\ stage[q] = "restore"
  /\ Continue(q, "over")
  /\ tombstoned' = tombstoned \ {about[q]} /\ moderated' = moderated \ {about[q]}
  /\ UNCHANGED <<report, earlier, resolved, count, logged, reportPast>>

\* The sender or a group admin deletes the message for everyone: no report is closed.
SenderDeletes(m) ==
  /\ m \notin tombstoned
  /\ tombstoned' = tombstoned \cup {m}
  /\ UNCHANGED <<report, earlier, resolved, moderated, count, logged, handlingVars, reportPast>>

\* A statement fails, or the process is lost.
HandlingFails(q) ==
  /\ stage[q] \notin {"idle", "over"}
  /\ Continue(q, "over")
  /\ unlogged' = IF stage[q] \in {"started", "dismissed"} THEN unlogged \cup {about[q]}
                                                          ELSE unlogged
  /\ UNCHANGED <<reportRows, count, logged, raced, late>>

ReportNext ==
  \/ \E q \in Handling :
       \/ \E p \in Report : FileReport(q, p) \/ ReviewFind(q, p) \/ DismissFind(q, p)
       \/ \E m \in Reported : TombstoneFind(q, m) \/ RestoreFind(q, m)
       \/ CheckDailyLimit(q) \/ CheckIpRateLimit(q) \/ UpsertReport(q)
       \/ ReviewUpdate(q) \/ ReviewAudit(q) \/ DismissUpdate(q) \/ DismissAudit(q)
       \/ TombstoneMessage(q) \/ UntombstoneMessage(q) \/ HandlingFails(q)
  \/ \E m \in Reported : SenderDeletes(m)

ReportSpec == ReportInit /\ [][ReportNext]_reportVars

-----------------------------------------------------------------------------
(* Properties.                                                             *)

Filed == {p \in Report \ earlier : report[p] # NoStatus}
FiledBy(u) == {p \in Filed : p[1] = u}

\* create: what is filed in a day and in a minute stays within the limits, also when
\* requests of a reporter or of an address overlap or fail.
FiledWithinLimits ==
  /\ Cardinality(Filed) <= AddressLimit
  /\ \A u \in Reporter : Cardinality(FiledBy(u)) <= DailyLimit

\* markInReview, dismiss and tombstoneMessage: OPEN -> IN_REVIEW -> CLOSED is left
\* backwards only by a request that overlaps the one that closes the report.
ClosedStaysClosed == \A p \in resolved \ raced : report[p] = "CLOSED"

\* tombstoneMessage: no report about a message that a moderator has tombstoned waits for
\* a decision, unless it was filed by a request that had read the message before, or a
\* moderator was at work on it.
TombstonedIsDecided ==
  \A p \in Report : p[2] \in moderated /\ Unresolved(p) => p \in late \cup raced

\* markInReview and dismiss: the latest audit entry about a report tells its status,
\* unless requests overlapped or one was lost before it wrote its entry.
LogTellsStatus ==
  \A p \in Report \ (raced \cup unlogged) :
    \/ logged[p] = IF report[p] = "OPEN" THEN NoStatus ELSE report[p]
    \/ \E q \in Handling : about[q] = p /\ stage[q] \in {"started", "dismissed"}

\* What a request is about, and what became of it, by the place the request is at.
AboutInv ==
  \A q \in Handling :
    /\ stage[q] \in {"daily", "address", "file"} => about[q] \in Report
    /\ stage[q] \in {"tombstone", "restore"} => about[q] \in Reported
    /\ stage[q] \in {"review", "started", "dismiss", "dismissed"} =>
         about[q] \in Report /\ report[about[q]] # NoStatus
    /\ stage[q] = "review" /\ about[q] \in resolved => about[q] \in raced
    /\ stage[q] = "review" /\ about[q][2] \in moderated => about[q] \in late \cup raced
    /\ stage[q] = "started" /\ about[q] \notin raced => report[about[q]] = "IN_REVIEW"
    /\ stage[q] = "dismissed" /\ about[q] \notin raced => report[about[q]] = "CLOSED"

\* Requests that were counted for the address, or for u, and have not filed yet.
Counted == {q \in Handling : stage[q] = "file"}
CountedFor(u) ==
  {q \in Handling : stage[q] \in {"address", "file"} /\ \E m \in Reported : about[q] = <<u, m>>}

\* What is filed and what passed the limit are each within the limit and the counter.
LimitInv ==
  /\ IsFiniteSet(Counted)
  /\ LET n == Cardinality(Filed) + Cardinality(Counted)
     IN  n <= AddressLimit /\ n <= count[Address]
  /\ \A u \in Reporter :
       /\ IsFiniteSet(CountedFor(u))
       /\ LET n == Cardinality(FiledBy(u)) + Cardinality(CountedFor(u))
          IN  n <= DailyLimit /\ n <= count[u]

\* create, markInReview, dismiss and tombstoneMessage: no limit is passed, and at every
\* await the requests fit the rows.
ReportInv ==
  /\ ReportTypeOK /\ FiledWithinLimits /\ LimitInv /\ AboutInv
  /\ \A p \in Report : report[p] = "CLOSED" => p \in resolved
=============================================================================
