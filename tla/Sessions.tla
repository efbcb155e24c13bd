------------------------------ MODULE Sessions ------------------------------
(***************************************************************************)
(* The sessions of one user: RefreshToken rows made by a login or by       *)
(* refresh, rotated, revoked by logout, by a suspension or with their      *)
(* family when an old token is presented again (auth.service.ts), and      *)
(* deleted by the daily job (prune.processor.ts).                          *)
(*                                                                         *)
(* refresh runs outside a transaction: the conditional update that claims  *)
(* the token, the lookups, the check for a suspension and the insert are   *)
(* separate steps.  A client may present any token it was ever given: the  *)
(* answer to an earlier refresh may have been lost.                        *)
(*                                                                         *)
(* A suspension is a transaction.  What it writes is visible when it       *)
(* commits (READ COMMITTED); until then it holds the locks of the rows it  *)
(* revoked, and an update of one of them waits.  What else the transaction *)
(* writes, and suspensions that overlap, are in module Suspension.         *)
(***************************************************************************)
EXTENDS Naturals, FiniteSets

CONSTANTS Login,                      \* verifyOtp requests, and the families they found
          Refresh,                    \* refresh requests
          MaxTokens,                  \* bound of the RefreshToken rows
          GraceTicks,                 \* REFRESH_REUSE_GRACE_SECONDS
          TokenTtl,                   \* REFRESH_TOKEN_TTL_DAYS
          MaxSuspensions,             \* bound of the suspensions
          MaxTime,                    \* bound of the clock
          None

ASSUME SessionsAssumption ==
  /\ {MaxTokens, GraceTicks, TokenTtl, MaxSuspensions, MaxTime} \subseteq Nat
  /\ Refresh \cap Login = {} /\ None \notin Refresh \cup Login \cup Nat
  /\ IsFiniteSet(Refresh) /\ IsFiniteSet(Login)

Token == 1 .. MaxTokens

VARIABLES
  now,
  tokens,                     \* how many tokens were issued: the rows are 1 .. tokens
  family,                     \* the login each token descends from
  issuedAt, revokedAt,        \*   (revokedAt = None: NULL)
  gone,                       \* tokens whose row the daily job deleted
  standing,                   \* whether a suspension is in force, or its transaction open
  suspensions,                \* how many were committed
  revoking,                   \* the rows that the open transaction has revoked
  step,                       \* where each login and each refresh is
  given,                      \* the token a refresh presents
  found,                      \* the rows that a revocation of a family waits to update
  retried,                    \* history: the family, if it was admitted as a retry,
  swept,                      \*   the families revoked after a late replay,
  escaped                     \*   and those a refresh got past, or None if a session got
                              \*   past the suspension in force

row   == <<tokens, family, issuedAt, revokedAt, gone>>
ban   == <<standing, suspensions, revoking>>
local == <<step, given, found>>
past  == <<retried, swept, escaped>>
vars  == <<now, row, ban, local, past>>

TokenRows == (1 .. tokens) \ gone
\* Not revoked, as far as other transactions can see.
Live  == {t \in TokenRows : revokedAt[t] = None \/ t \in revoking}
OfFamily(fam) == {t \in TokenRows : family[t] = fam}
SessionsOf(fam) == {t \in Live : family[t] = fam}

suspended == standing = "suspended"

\* Refreshes that will insert a token of the family unless a check stops them.
Renewing(fam) ==
  {f \in Refresh : step[f] \in {"session", "fam", "check", "issue"} /\ family[given[f]] = fam}

TypeOK ==
  /\ now \in 0 .. MaxTime
  /\ tokens \in 0 .. MaxTokens
  /\ family \in [Token -> Login \cup {None}] /\ \A t \in 1 .. tokens : family[t] \in Login
  /\ issuedAt \in [Token -> 0 .. MaxTime]
  /\ revokedAt \in [Token -> (0 .. MaxTime) \cup {None}]
  /\ gone \in SUBSET Token
  /\ standing \in {"active", "suspending", "suspended"}
  /\ suspensions \in 0 .. MaxSuspensions
  /\ standing = "suspending" => suspensions < MaxSuspensions
  /\ revoking \in SUBSET Token
  /\ step \in [Login \cup Refresh -> {"idle", "session", "lookup", "fam", "family", "sweep",
                           "blocked", "check", "issue", "done", "failed"}]
  /\ given \in [Refresh -> Token \cup {None}]
  /\ found \in [Refresh -> SUBSET Token]
  /\ retried \in [Refresh -> Login \cup {None}]
  /\ swept \in SUBSET Login
  /\ escaped \in SUBSET (Login \cup {None})

Init ==
  /\ now = 0
  /\ tokens = 0 /\ family = [t \in Token |-> None]
  /\ issuedAt = [t \in Token |-> 0] /\ revokedAt = [t \in Token |-> None]
  /\ gone = {}
  /\ standing = "active" /\ suspensions = 0 /\ revoking = {}
  /\ step = [a \in Login \cup Refresh |-> "idle"]
  /\ given = [f \in Refresh |-> None] /\ found = [f \in Refresh |-> {}]
  /\ retried = [f \in Refresh |-> None]
  /\ swept = {} /\ escaped = {}

-----------------------------------------------------------------------------
Go(a, s) == step' = [step EXCEPT ![a] = s]

\* A refresh goes on, or ends and forgets the token.
Proceed(f, s) ==
  /\ Go(f, s)
  /\ given' = IF s \in {"done", "failed"} THEN [given EXCEPT ![f] = None] ELSE given

\* updateMany of those tokens of S that are not revoked: waits for their locks.
Revoke(S) ==
  /\ S \cap revoking = {}
  /\ revokedAt' = [t \in Token |-> IF t \in S \cap Live THEN now ELSE revokedAt[t]]

\* issueTokenPair: a row in the family given, or in a family of its own.  An open
\* suspension has revoked the rows it saw and does not see this one.
IssueTokenPair(fam) ==
  /\ tokens < MaxTokens
  /\ tokens' = tokens + 1
  /\ family' = [family EXCEPT ![tokens + 1] = fam]
  /\ issuedAt' = [issuedAt EXCEPT ![tokens + 1] = now]
  /\ escaped' = IF standing = "suspending" THEN escaped \cup {None} ELSE escaped
  /\ UNCHANGED <<revokedAt, gone, retried, swept>>

-----------------------------------------------------------------------------
(* The end of verifyOtp.                                                   *)

\* throwIfSuspended, for the account findOrCreateUser returned.
LoginCheck(l) ==
  /\ step[l] = "idle"
  /\ Go(l, IF suspended THEN "failed" ELSE "issue")
  /\ UNCHANGED <<now, row, ban, given, found, past>>

LoginIssue(l) ==
  /\ step[l] = "issue"
  /\ Go(l, "done")
  /\ IssueTokenPair(l)
  /\ UNCHANGED <<now, ban, given, found>>

-----------------------------------------------------------------------------
(* refresh.                                                                *)

\* Mutant: the update that claims the token does not ask whether it is revoked.
ClaimAnyway(f) ==
  /\ step[f] = "idle"
  /\ \E t \in 1 .. tokens :
       /\ given' = [given EXCEPT ![f] = t]
       /\ Go(f, IF t \in TokenRows THEN "session" ELSE "lookup")
       /\ Revoke({t})
  /\ UNCHANGED <<now, tokens, family, issuedAt, gone, ban, found, past>>

\* updateMany where the token is not revoked: one refresh wins.  It does not ask
\* for expiresAt.
Claim(f) ==
  /\ step[f] = "idle"
  /\ \E t \in 1 .. tokens :
       /\ given' = [given EXCEPT ![f] = t]
       /\ Go(f, IF t \in Live THEN "session" ELSE "lookup")
       /\ Revoke({t})
  /\ UNCHANGED <<now, tokens, family, issuedAt, gone, ban, found, past>>

\* The winner reads the session it claimed.
ReadSession(f) ==
  /\ step[f] = "session"
  /\ Proceed(f, IF given[f] \in TokenRows THEN "check" ELSE "failed")
  /\ UNCHANGED <<now, row, ban, found, past>>

\* The token was revoked: within the grace window it is taken for a retry,
\* later for a replay.  A family that was swept is entered again by the former.
Lookup(f) ==
  /\ step[f] = "lookup"
  /\ LET t == given[f]
         retry == now <= revokedAt[t] + GraceTicks
     IN  IF t \notin TokenRows \/ issuedAt[t] + TokenTtl <= now
         THEN Proceed(f, "failed") /\ UNCHANGED <<retried, escaped>>
         ELSE /\ Proceed(f, IF retry THEN "fam" ELSE "family")
              /\ retried' = IF retry THEN [retried EXCEPT ![f] = family[t]] ELSE retried
              /\ escaped' = IF retry /\ family[t] \in swept
                            THEN escaped \cup {family[t]} ELSE escaped
  /\ UNCHANGED <<now, row, ban, found, swept>>

\* Within the window: the family, unless the row is deleted by now.
ReadFamily(f) ==
  /\ step[f] = "fam"
  /\ Proceed(f, IF given[f] \in TokenRows THEN "check" ELSE "family")
  /\ UNCHANGED <<now, row, ban, found, past>>

\* Mutant: a retry within the grace window is not checked for a suspension.
CheckClaimsOnly(f) ==
  /\ step[f] = "check"
  /\ Proceed(f, IF suspended /\ retried[f] = None THEN "failed" ELSE "issue")
  /\ UNCHANGED <<now, row, ban, found, past>>

\* throwIfSuspended.
RefreshCheck(f) ==
  /\ step[f] = "check"
  /\ Proceed(f, IF suspended THEN "failed" ELSE "issue")
  /\ UNCHANGED <<now, row, ban, found, past>>

RefreshIssue(f) ==
  /\ step[f] = "issue"
  /\ Proceed(f, "done")
  /\ IssueTokenPair(family[given[f]])
  /\ UNCHANGED <<now, ban, found>>

\* revokeTokenFamily: the family of the token ...
FindFamily(f) ==
  /\ step[f] = "family"
  /\ Proceed(f, IF given[f] \in TokenRows THEN "sweep" ELSE "failed")
  /\ UNCHANGED <<now, row, ban, found, past>>

\* The end of the update of the rows it found.  A refresh of the family that is past its
\* lookup will insert a token that the update does not see, or has inserted one meanwhile.
SweepRows(f, rows) ==
  LET fam == family[given[f]] IN
  /\ Proceed(f, "failed")
  /\ Revoke(rows)
  /\ swept' = swept \cup {fam}
  /\ escaped' = IF Renewing(fam) # {} \/ ~(OfFamily(fam) \subseteq rows)
                THEN escaped \cup {fam} ELSE escaped
  /\ found' = [found EXCEPT ![f] = {}]
  /\ UNCHANGED <<now, tokens, family, issuedAt, gone, ban, retried>>

\* Mutant: only the token presented is revoked.
SweepToken(f) ==
  /\ step[f] = "sweep"
  /\ Proceed(f, "failed")
  /\ Revoke({given[f]})
  /\ swept' = swept \cup {family[given[f]]}
  /\ UNCHANGED <<now, tokens, family, issuedAt, gone, ban, found, retried, escaped>>

\* ... and all its tokens.
Sweep(f) ==
  /\ step[f] = "sweep"
  /\ SweepRows(f, OfFamily(family[given[f]]))

\* An open suspension holds the locks of some: the update waits for its end, with the
\* rows that it found.
SweepBlocked(f) ==
  LET rows == OfFamily(family[given[f]]) IN
  /\ step[f] = "sweep"
  /\ rows \cap revoking # {}
  /\ Proceed(f, "blocked")
  /\ found' = [found EXCEPT ![f] = rows]
  /\ UNCHANGED <<now, row, ban, past>>

SweepResumed(f) ==
  /\ step[f] = "blocked"
  /\ SweepRows(f, found[f])

-----------------------------------------------------------------------------
\* JwtAuthGuard: the session of an access token.
SessionActive(t) == t \in Live /\ now < issuedAt[t] + TokenTtl /\ ~suspended

\* logout with an active session: revokes a token of the user it names, or its own.
Logout ==
  /\ \E t \in Live, u \in TokenRows : SessionActive(t) /\ Revoke({u})
  /\ UNCHANGED <<now, tokens, family, issuedAt, gone, ban, local, past>>

\* suspendUser: the refreshToken.updateMany of its transaction.
SuspendRevoke ==
  /\ standing = "active" /\ suspensions < MaxSuspensions
  /\ standing' = "suspending"
  /\ Revoke(Token)
  /\ revoking' = Live
  /\ UNCHANGED <<now, tokens, family, issuedAt, gone, suspensions, local, past>>

\* The messages, reports and audit entries are written, and the suspension is visible:
\* no session is left but those inserted since, or about to be.
SuspendCommit ==
  /\ standing = "suspending" /\ standing' = "suspended"
  /\ suspensions' = suspensions + 1
  /\ revoking' = {}
  /\ escaped' = IF \E a \in Login \cup Refresh : step[a] = "issue"
                THEN escaped \cup {None} ELSE escaped
  /\ UNCHANGED <<now, row, local, retried, swept>>

\* A later statement fails or the process dies: the rows are as they were.
SuspendRollback ==
  /\ standing = "suspending" /\ standing' = "active"
  /\ revoking' = {}
  /\ revokedAt' = [t \in Token |-> IF t \in revoking THEN None ELSE revokedAt[t]]
  /\ escaped' = escaped \ {None}
  /\ UNCHANGED <<now, tokens, family, issuedAt, gone, suspensions, local, retried, swept>>

UnsuspendUser ==
  /\ suspended /\ standing' = "active"
  /\ escaped' = escaped \ {None}
  /\ UNCHANGED <<now, row, suspensions, revoking, local, retried, swept>>

\* The daily job deletes the revoked and the expired tokens; it waits for a row that is
\* locked.
Prune ==
  /\ LET pruned == {t \in TokenRows : t \notin Live \/ issuedAt[t] + TokenTtl < now}
     IN  /\ pruned \cap revoking = {}
         /\ gone' = gone \cup pruned
         /\ issuedAt' = [t \in Token |-> IF t \in pruned THEN 0 ELSE issuedAt[t]]
         /\ revokedAt' = [t \in Token |-> IF t \in pruned THEN None ELSE revokedAt[t]]
  /\ UNCHANGED <<now, tokens, family, ban, local, past>>

Tick ==
  /\ now < MaxTime /\ now' = now + 1
  /\ UNCHANGED <<row, ban, local, past>>

Next ==
  \/ \E l \in Login : LoginCheck(l) \/ LoginIssue(l)
  \/ \E f \in Refresh : \/ Claim(f) \/ ReadSession(f) \/ Lookup(f) \/ ReadFamily(f)
                        \/ RefreshCheck(f) \/ RefreshIssue(f) \/ FindFamily(f)
                        \/ Sweep(f) \/ SweepBlocked(f) \/ SweepResumed(f)
  \/ SuspendRevoke \/ SuspendCommit \/ SuspendRollback \/ UnsuspendUser
  \/ Logout \/ Prune \/ Tick

Spec == Init /\ [][Next]_vars

-----------------------------------------------------------------------------
(* Properties.                                                             *)

\* refresh: however requests interleave, a login has one live session, plus one for
\* each time a token was presented again within the grace window.
NoForkWithoutRetry ==
  \A l \in Login :
    Cardinality(SessionsOf(l)) <=
      1 + Cardinality({f \in Refresh : retried[f] = l})

\* revokeTokenFamily: once a late replay has been answered with "all sessions
\* revoked" no session of the login is live, unless another refresh of it was past its
\* lookup while the family was revoked, or one of its tokens was presented again within
\* the grace window that the revocation itself opened.
SweptFamiliesEnd ==
  \A l \in swept \ escaped : SessionsOf(l) = {}

\* refresh and verifyOtp: while the user is suspended no session is live, unless a request
\* that had seen no suspension inserted its token after the transaction had revoked the
\* others: before the commit, or after it if the check came before.
SuspendedHasNoSession ==
  suspended /\ None \notin escaped => Live = {}

\* A refresh presents a token that was issued, is taken for a retry at most once, and a
\* token descends from a login that is over.
GivenInv ==
  /\ \A f \in Refresh :
       /\ step[f] \notin {"idle", "done", "failed"} => given[f] \in 1 .. tokens
       /\ step[f] \in {"idle", "session", "lookup"} => retried[f] = None
  /\ \A t \in 1 .. tokens : step[family[t]] = "done"

\* refresh: the sessions of a login that are live or about to be inserted are the one its
\* own insert makes and one for each retry; a claim trades a session for a right to insert.
ForkInv ==
  \A l \in Login :
    Cardinality(SessionsOf(l)) + Cardinality(Renewing(l))
      + (IF step[l] \in {"idle", "issue"} THEN 1 ELSE 0)
        <= 1 + Cardinality({f \in Refresh : retried[f] = l})

\* revokeTokenFamily: nothing will insert a session of a swept family either.
SweepInv ==
  \A l \in swept : /\ step[l] = "done"
                   /\ l \notin escaped => SessionsOf(l) = {} /\ Renewing(l) = {}

\* suspendUser and throwIfSuspended: the open transaction has revoked every session that
\* was not inserted since, rows are locked by none but an open one, and when it has
\* committed nobody is about to insert a session either.
BanInv ==
  /\ standing # "suspending" => revoking = {}
  /\ \A t \in revoking : revokedAt[t] # None
  /\ standing = "suspending" /\ None \notin escaped => Live \subseteq revoking
  /\ suspended /\ None \notin escaped =>
       Live = {} /\ \A a \in Login \cup Refresh : step[a] # "issue"

\* refresh: the rows are well formed, families do not fork by themselves, and what the
\* properties above say holds of the sessions about to be inserted too.
RefreshInv == TypeOK /\ NoForkWithoutRetry /\ GivenInv /\ ForkInv /\ SweepInv /\ BanInv
=============================================================================
