-------------------------------- MODULE Otp --------------------------------
(***************************************************************************)
(* One-time codes and the account of one phone number: requestOtp and      *)
(* verifyOtp (otp.service.ts), their delivery by the Telegram bot          *)
(* (telegram-bot.service.ts, telegram-otp.processor.ts), findOrCreateUser  *)
(* (auth.service.ts) and the codes that the daily job deletes              *)
(* (prune.processor.ts).                                                   *)
(*                                                                         *)
(* Nothing here runs in a transaction: every query of a handler is a step  *)
(* of its own, and other requests of the phone run between them.  Time is  *)
(* a clock of coarse ticks.  The codes of two rows differ, so a code is    *)
(* the name of its row; OTP_MOCK_CODE, refused in production, is left out. *)
(* The names that module Sessions has too begin with Otp here.             *)
(***************************************************************************)
EXTENDS Naturals, FiniteSets

CONSTANTS Code,                       \* requestOtp requests, and the Otp rows they insert
          Verify,                     \* verifyOtp requests
          Legacy,                     \* the account stored under sha256(phone), if any
          CooldownTicks,              \* OTP_RESEND_COOLDOWN_SECONDS
          OtpTtl,                     \* OTP_TTL_SECONDS
          LockoutTicks,               \* OTP_LOCKOUT_SECONDS
          MaxAttempts,                \* OTP_MAX_ATTEMPTS
          MaxSends,                   \* attempts of a delivery job
          OtpMaxTime,                 \* bound of the clock
          NoUser                      \* no user, and no code

ASSUME OtpAssumption ==
  /\ {CooldownTicks, OtpTtl, LockoutTicks, MaxAttempts, OtpMaxTime} \subseteq Nat
  /\ MaxSends \in Nat \ {0} /\ Verify \cap Code = {}
  /\ NoUser \notin Code \cup Verify \cup {Legacy} /\ Legacy \notin Verify \cup Code
  /\ IsFiniteSet(Code) /\ IsFiniteSet(Verify)

User == Verify \cup {Legacy}

VARIABLES
  otpNow,
  linked,                     \* a TelegramLink row exists for the phone
  status, createdAt, rank,    \* the Otp rows: status, createdAt and their order,
  attempts,                   \*   and the attempts column
  job, sends, delivered,      \* the delivery job of a code, its attempts, codes received
  hmacUser, shaUser,          \* the User rows with phoneHash = HMAC and = sha256 of the phone
  pc,                         \* where each handler is
  picked, seen,               \* the row verifyOtp read, and its attempts
  account,                    \* the user verifyOtp found or made
  missed, usedBy,             \* history: wrong codes answered, and codes accepted, per row
  flagged                     \* history: verifies that began while another was under way

otpRow   == <<status, createdAt, rank, attempts>>
delivery == <<job, sends, delivered>>
users    == <<hmacUser, shaUser>>
read     == <<picked, seen, account>>
history  == <<missed, usedBy, flagged>>
otpVars  == <<otpNow, linked, otpRow, delivery, users, pc, read, history>>

OtpTypeOK ==
  /\ otpNow \in 0 .. OtpMaxTime
  /\ linked \in BOOLEAN
  /\ status \in [Code -> {"none", "UNUSED", "USED", "pruned"}]
  /\ createdAt \in [Code -> 0 .. OtpMaxTime] /\ rank \in [Code -> Nat]
  /\ attempts \in [Code -> Nat]
  /\ job \in [Code -> {"none", "queued", "done", "failed"}]
  /\ sends \in [Code -> 0 .. MaxSends] /\ delivered \in SUBSET Code
  /\ hmacUser \in User \cup {NoUser} /\ shaUser \in User \cup {NoUser}
  /\ pc \in [Code \cup Verify -> {"idle", "create", "queue", "find", "miss", "use",
                                  "user", "legacy", "migrate", "insert", "done", "failed"}]
  /\ picked \in [Verify -> Code \cup {NoUser}] /\ seen \in [Verify -> Nat]
  /\ account \in [Verify -> User \cup {NoUser}]
  /\ missed \in [Code -> SUBSET Verify] /\ usedBy \in [Code -> SUBSET Verify]
  /\ flagged \in SUBSET Verify

OtpInit ==
  /\ otpNow = 0 /\ linked = FALSE
  /\ status = [c \in Code |-> "none"] /\ createdAt = [c \in Code |-> 0]
  /\ rank = [c \in Code |-> 0] /\ attempts = [c \in Code |-> 0]
  /\ job = [c \in Code |-> "none"] /\ sends = [c \in Code |-> 0] /\ delivered = {}
  /\ hmacUser = NoUser /\ shaUser \in {NoUser, Legacy}
  /\ pc = [a \in Code \cup Verify |-> "idle"]
  /\ picked = [v \in Verify |-> NoUser] /\ seen = [v \in Verify |-> 0]
  /\ account = [v \in Verify |-> NoUser]
  /\ missed = [c \in Code |-> {}] /\ usedBy = [c \in Code |-> {}] /\ flagged = {}

-----------------------------------------------------------------------------
Goto(a, step) == pc' = [pc EXCEPT ![a] = step]

Rows == {c \in Code : status[c] \in {"UNUSED", "USED"}}
Unused == {c \in Rows : status[c] = "UNUSED"}

\* orderBy createdAt desc, first row.
Newest(S) == {c \in S : \A d \in S : rank[d] <= rank[c]}

\* The rows whose attempts count towards the lockout.
InWindow == {c \in Rows : createdAt[c] + LockoutTicks > otpNow}

\* The sum of their attempts, as a number of pairs of a row and an attempt.
TotalAttempts == Cardinality(UNION {{c} \X (1 .. attempts[c]) : c \in InWindow})

\* verifyOtp requests between their first and their last query of the code.
Busy == {v \in Verify : pc[v] \in {"find", "miss", "use"}}

-----------------------------------------------------------------------------
(* The Telegram bot: a shared contact links the phone to the chat.         *)

LinkPhone ==
  /\ ~linked /\ linked' = TRUE
  /\ UNCHANGED <<otpNow, otpRow, delivery, users, pc, read, history>>

(* requestOtp.                                                             *)

\* The link and the newest unused row within the cooldown.  A link is never
\* deleted, so reading it together with the rows loses no outcome.
OtpCheck(c) ==
  /\ pc[c] = "idle"
  /\ Goto(c, CASE ~linked -> "failed"
               [] linked /\ \E d \in Unused : createdAt[d] + CooldownTicks >= otpNow -> "done"
               [] OTHER -> "create")
  /\ UNCHANGED <<otpNow, linked, otpRow, delivery, users, read, history>>

OtpCreate(c) ==
  /\ pc[c] = "create"
  /\ Goto(c, "queue")
  /\ status' = [status EXCEPT ![c] = "UNUSED"]
  /\ createdAt' = [createdAt EXCEPT ![c] = otpNow]
  /\ rank' = [rank EXCEPT ![c] = 1 + Cardinality({d \in Code : rank[d] # 0})]
  /\ UNCHANGED <<otpNow, linked, attempts, delivery, users, read, history>>

\* telegramQueue.add, or its refusal: the row stays, and nobody learns the code.
OtpQueue(c) ==
  /\ pc[c] = "queue"
  /\ \/ Goto(c, "done") /\ job' = [job EXCEPT ![c] = "queued"]
     \/ Goto(c, "failed") /\ UNCHANGED job
  /\ UNCHANGED <<otpNow, linked, otpRow, sends, delivered, users, read, history>>

\* sendOtp in the processor.  The attempt fails when Telegram refuses the message
\* or when the report of a message already sent cannot be stored.
SendOtp(c) ==
  /\ job[c] = "queued"
  /\ sends' = [sends EXCEPT ![c] = @ + 1]
  /\ delivered' \in {delivered, delivered \cup {c}}
  /\ \/ c \in delivered' /\ job' = [job EXCEPT ![c] = "done"]
     \/ job' = [job EXCEPT ![c] = IF sends'[c] = MaxSends THEN "failed" ELSE "queued"]
  /\ UNCHANGED <<otpNow, linked, otpRow, users, pc, read, history>>

-----------------------------------------------------------------------------
(* verifyOtp, up to the account of the phone.                              *)

\* Mutant: the lockout looks at the newest code only.
LockoutOfLatest(v) ==
  /\ pc[v] = "idle"
  /\ flagged' = IF Busy # {} THEN flagged \cup {v} ELSE flagged
  /\ Goto(v, IF \E c \in Newest(Unused) : attempts[c] >= MaxAttempts THEN "failed" ELSE "find")
  /\ UNCHANGED <<otpNow, linked, otpRow, delivery, users, read, missed, usedBy>>

\* The attempts of every row of the phone within the lockout window.
Lockout(v) ==
  /\ pc[v] = "idle"
  /\ flagged' = IF Busy # {} THEN flagged \cup {v} ELSE flagged
  /\ Goto(v, IF TotalAttempts >= MaxAttempts THEN "failed" ELSE "find")
  /\ UNCHANGED <<otpNow, linked, otpRow, delivery, users, read, missed, usedBy>>

\* The newest unused row, its expiry, and the comparison with the code given:
\* one that was delivered, or a wrong one.
FindOtp(v) ==
  /\ pc[v] = "find"
  /\ \/ Unused = {} /\ Goto(v, "failed") /\ UNCHANGED <<picked, seen>>
     \/ \E c \in Newest(Unused) :
          IF createdAt[c] + OtpTtl <= otpNow
          THEN Goto(v, "failed") /\ UNCHANGED <<picked, seen>>
          ELSE /\ \E code \in delivered \cup {NoUser} : Goto(v, IF code = c THEN "use" ELSE "miss")
               /\ picked' = [picked EXCEPT ![v] = c]
               /\ seen' = [seen EXCEPT ![v] = attempts[c]]
  /\ UNCHANGED <<otpNow, linked, otpRow, delivery, users, account, history>>

\* attempts := the value read + 1; the update of a deleted row raises.
RecordMiss(v) ==
  /\ pc[v] = "miss"
  /\ Goto(v, "failed")
  /\ seen' = [seen EXCEPT ![v] = 0] /\ picked' = [picked EXCEPT ![v] = NoUser]
  /\ IF picked[v] \in Rows
     THEN /\ attempts' = [attempts EXCEPT ![picked[v]] = seen[v] + 1]
          /\ missed' = [missed EXCEPT ![picked[v]] = @ \cup {v}]
     ELSE UNCHANGED <<attempts, missed>>
  /\ UNCHANGED <<otpNow, linked, status, createdAt, rank, delivery, users, account,
                 usedBy, flagged>>

\* status := USED, whatever the row holds by now; a deleted row raises.
UseOtp(v) ==
  /\ pc[v] = "use"
  /\ seen' = [seen EXCEPT ![v] = 0] /\ picked' = [picked EXCEPT ![v] = NoUser]
  /\ IF picked[v] \in Rows
     THEN /\ Goto(v, "user")
          /\ status' = [status EXCEPT ![picked[v]] = "USED"]
          /\ usedBy' = [usedBy EXCEPT ![picked[v]] = @ \cup {v}]
     ELSE Goto(v, "failed") /\ UNCHANGED <<status, usedBy>>
  /\ UNCHANGED <<otpNow, linked, createdAt, rank, attempts, delivery, users, account,
                 missed, flagged>>

\* findOrCreateUser: the account under the HMAC of the phone ...
FindUser(v) ==
  /\ pc[v] = "user"
  /\ Goto(v, IF hmacUser # NoUser THEN "done" ELSE "legacy")
  /\ account' = [account EXCEPT ![v] = hmacUser]
  /\ UNCHANGED <<otpNow, linked, otpRow, delivery, users, picked, seen, history>>

\* ... or under its old hash ...
FindLegacy(v) ==
  /\ pc[v] = "legacy"
  /\ Goto(v, IF shaUser # NoUser THEN "migrate" ELSE "insert")
  /\ account' = [account EXCEPT ![v] = shaUser]
  /\ UNCHANGED <<otpNow, linked, otpRow, delivery, users, picked, seen, history>>

\* ... which is then replaced in the row, by primary key ...
MigrateUser(v) ==
  /\ pc[v] = "migrate"
  /\ Goto(v, "done")
  /\ hmacUser' = account[v] /\ shaUser' = NoUser
  /\ UNCHANGED <<otpNow, linked, otpRow, delivery, read, history>>

\* Mutant: the row is inserted although another request inserted it first.
InsertAnyway(v) ==
  /\ pc[v] = "insert"
  /\ Goto(v, "done")
  /\ hmacUser' = v
  /\ account' = [account EXCEPT ![v] = v]
  /\ UNCHANGED <<otpNow, linked, otpRow, delivery, shaUser, picked, seen, history>>

\* ... or a new account, which the unique index on phoneHash refuses when there
\* is one by now (P2002, answered with an error).
InsertUser(v) ==
  /\ pc[v] = "insert"
  /\ IF hmacUser = NoUser
     THEN /\ Goto(v, "done")
          /\ hmacUser' = v
          /\ account' = [account EXCEPT ![v] = v]
     ELSE Goto(v, "failed") /\ UNCHANGED <<hmacUser, account>>
  /\ UNCHANGED <<otpNow, linked, otpRow, delivery, shaUser, picked, seen, history>>

-----------------------------------------------------------------------------
\* deleteMany of the used and the expired codes, part of the daily job.
PruneCodes ==
  LET pruned == {c \in Rows : status[c] = "USED" \/ createdAt[c] + OtpTtl < otpNow}
  IN  /\ status' = [c \in Code |-> IF c \in pruned THEN "pruned" ELSE status[c]]
      /\ createdAt' = [c \in Code |-> IF c \in pruned THEN 0 ELSE createdAt[c]]
      /\ attempts' = [c \in Code |-> IF c \in pruned THEN 0 ELSE attempts[c]]
      /\ missed' = [c \in Code |-> IF c \in pruned THEN {} ELSE missed[c]]
      /\ UNCHANGED <<otpNow, linked, rank, delivery, users, pc, read, usedBy, flagged>>

OtpTick ==
  /\ otpNow < OtpMaxTime /\ otpNow' = otpNow + 1
  /\ UNCHANGED <<linked, otpRow, delivery, users, pc, read, history>>

OtpNext ==
  \/ LinkPhone \/ PruneCodes \/ OtpTick
  \/ \E c \in Code : OtpCheck(c) \/ OtpCreate(c) \/ OtpQueue(c) \/ SendOtp(c)
  \/ \E v \in Verify : \/ Lockout(v) \/ FindOtp(v) \/ RecordMiss(v) \/ UseOtp(v)
                       \/ FindUser(v) \/ FindLegacy(v) \/ MigrateUser(v) \/ InsertUser(v)

OtpSpec == OtpInit /\ [][OtpNext]_otpVars

-----------------------------------------------------------------------------
(* Properties.                                                             *)

\* verifyOtp and findOrCreateUser: every login of the phone, in whatever order the
\* queries of several requests run, is a login to the account the phone has now, and
\* no account is made beside one that is still stored under the old hash.
OneAccountPerPhone ==
  /\ \A v \in Verify : pc[v] = "done" => account[v] = hmacUser
  /\ shaUser # NoUser => hmacUser = NoUser

\* verifyOtp: of the verifies that did not begin while another was under way, at
\* most one is accepted with a given code.
CodeUsedOnce ==
  \A c \in Code : Cardinality(usedBy[c] \ flagged) <= 1

\* The wrong answers to a code, and to all codes of the window, by verifies that did not
\* begin while another was under way.
Guessed(c) == missed[c] \ flagged
Guesses == (UNION {missed[c] : c \in InWindow}) \ flagged

\* verifyOtp: asking for a fresh code does not buy more guesses.  Verifies that did
\* not overlap give at most MaxAttempts wrong answers to the codes of a window,
\* however many codes the phone has; attempts that overlapping verifies lose, or
\* that the daily job deletes with their rows, are the exceptions.
GuessesAreLimited == Cardinality(Guesses) <= MaxAttempts

\* requestOtp, its delivery job and verifyOtp: a code is sent and tried once its row is
\* there, and a used one is never unused again.
RowsInv ==
  /\ \A c \in Code :
       /\ pc[c] \in {"idle", "create", "queue"} => job[c] = "none"
       /\ job[c] = "none" => sends[c] = 0
       /\ job[c] = "queued" => sends[c] < MaxSends
       /\ pc[c] \in {"idle", "create"} => status[c] = "none"
       /\ status[c] = "none" => missed[c] = {}
       /\ usedBy[c] # {} => status[c] \in {"USED", "pruned"}
  /\ \A v \in Verify :
       /\ pc[v] \in {"miss", "use"} => picked[v] \in Code /\ status[picked[v]] # "none"
       /\ pc[v] \in {"idle", "find", "miss", "use"} =>
            \A c \in Code : v \notin missed[c] \cup usedBy[c]

\* verifyOtp: one verify at most is under way that did not begin beside another; nobody
\* of its kind has used the code it is about to use.
SoleInv ==
  /\ \A v, w \in Busy \ flagged : v = w
  /\ \A v \in Verify \ flagged : pc[v] = "use" => usedBy[picked[v]] \subseteq flagged

\* findOrCreateUser: an account that was found under the old hash is still there, under
\* one hash or the other, when its row is updated.
PhoneInv ==
  /\ shaUser \in {NoUser, Legacy}
  /\ \A v \in Verify :
       /\ pc[v] = "done" => hmacUser # NoUser
       /\ pc[v] = "migrate" => account[v] = Legacy /\ Legacy \in {shaUser, hmacUser}
       /\ pc[v] = "insert" => shaUser = NoUser

\* recordMiss: the attempts column may be overwritten with a smaller number, but with none
\* below the number of guesses: what a verify read is at most one guess behind, and not
\* behind while the one that did not overlap is still to record its own.
AttemptInv ==
  /\ \A c \in Code : Cardinality(Guessed(c)) <= attempts[c]
  /\ \A v \in Verify : pc[v] = "miss" =>
       Cardinality(Guessed(picked[v])) <= IF Busy \subseteq flagged THEN seen[v] + 1 ELSE seen[v]
  /\ Busy \subseteq flagged \/ Cardinality(Guesses) < MaxAttempts

\* verifyOtp: the rows are well formed, a code is used once, a phone has one account, and
\* the attempts column counts the guesses.
OtpInv ==
  /\ OtpTypeOK /\ OneAccountPerPhone /\ CodeUsedOnce
  /\ RowsInv /\ SoleInv /\ PhoneInv /\ AttemptInv
=============================================================================
