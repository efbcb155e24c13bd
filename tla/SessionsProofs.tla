--------------------------- MODULE SessionsProofs ---------------------------
(***************************************************************************)
(* The authentication service, proved for any number of logins, refreshes, *)
(* codes and verifies, any lifetimes and any limit of attempts.            *)
(*   Sessions: a login has one live session unless a retry was answered, a *)
(*   late replay ends all of them, and a suspended user has none but those *)
(*   inserted while the suspension was under way.                          *)
(*   Otp: a phone has one account, a code is used once, and fresh codes    *)
(*   buy no guesses.                                                       *)
(***************************************************************************)
EXTENDS Sessions, Otp, FiniteSetTheorems, TLAPS

\* How one element more or less changes the size of a set.
LEMMA Sizes ==
  ASSUME NEW T, \A S \in SUBSET T : IsFiniteSet(S) /\ Cardinality(S) \in Nat,
         NEW S1 \in SUBSET T, NEW S2 \in SUBSET T
  PROVE  /\ S2 \subseteq S1 => Cardinality(S2) <= Cardinality(S1)
         /\ \A x \in T : S2 \subseteq S1 \cup {x} => Cardinality(S2) <= Cardinality(S1) + 1
         /\ \A x \in S1 : S2 \subseteq S1 \ {x} => Cardinality(S2) + 1 <= Cardinality(S1)
<1>1. IsFiniteSet(S1) /\ Cardinality(S1) \in Nat /\ Cardinality(S2) \in Nat
  OBVIOUS
<1>2. ASSUME S2 \subseteq S1 PROVE Cardinality(S2) <= Cardinality(S1)
  BY <1>1, <1>2, FS_Subset
<1>3. ASSUME NEW x \in T, S2 \subseteq S1 \cup {x} PROVE Cardinality(S2) <= Cardinality(S1) + 1
  <2>1. /\ IsFiniteSet(S1 \cup {x})
        /\ Cardinality(S1 \cup {x}) = IF x \in S1 THEN Cardinality(S1) ELSE Cardinality(S1) + 1
    BY <1>1, FS_AddElement
  <2>2. Cardinality(S2) <= Cardinality(S1 \cup {x})
    BY <1>3, <2>1, FS_Subset
  <2> QED
    BY <1>1, <2>1, <2>2
<1>4. ASSUME NEW x \in S1, S2 \subseteq S1 \ {x} PROVE Cardinality(S2) + 1 <= Cardinality(S1)
  <2>1. IsFiniteSet(S1 \ {x}) /\ Cardinality(S1 \ {x}) = Cardinality(S1) - 1
    BY <1>1, FS_RemoveElement
  <2>2. Cardinality(S2) <= Cardinality(S1 \ {x})
    BY <1>4, <2>1, FS_Subset
  <2> QED
    BY <1>1, <2>1, <2>2
<1> QED
  BY <1>2, <1>3, <1>4

-----------------------------------------------------------------------------
(* Sessions.                                                               *)

\* The sets that are counted are finite.
LEMMA Finite ==
  /\ \A S \in SUBSET Token : IsFiniteSet(S) /\ Cardinality(S) \in Nat
  /\ \A S \in SUBSET Refresh : IsFiniteSet(S) /\ Cardinality(S) \in Nat
<1>1. IsFiniteSet(Token) /\ IsFiniteSet(Refresh)
  BY SessionsAssumption, FS_Interval DEF Token
<1> QED
  BY <1>1, FS_Subset, FS_CardinalityType

-----------------------------------------------------------------------------
(* The steps of the handlers.                                              *)

\* What the next place of a refresh does to its variables, and to no other's.
LEMMA ProceedStep ==
  ASSUME TypeOK, NEW f \in Refresh,
         NEW s \in {"session", "lookup", "fam", "family", "sweep", "blocked", "check",
                    "issue", "done", "failed"},
         Proceed(f, s)
  PROVE  /\ step' \in [Login \cup Refresh -> {"idle", "session", "lookup", "fam", "family",
                                    "sweep", "blocked", "check", "issue", "done", "failed"}]
         /\ given' \in [Refresh -> Token \cup {None}]
         /\ step'[f] = s
         /\ s \notin {"done", "failed"} => given'[f] = given[f]
         /\ \A a \in (Login \cup Refresh) \ {f} : step'[a] = step[a]
         /\ \A g \in Refresh \ {f} : given'[g] = given[g]
  BY DEF Proceed, Go, TypeOK

\* An update that revokes tokens ends those sessions and makes none.
LEMMA RevokeStep ==
  ASSUME TypeOK, NEW S, Revoke(S), UNCHANGED <<tokens, gone, revoking>>
  PROVE  /\ revokedAt' \in [Token -> (0 .. MaxTime) \cup {None}]
         /\ Live' = Live \ S
<1>1. /\ revokedAt' \in [Token -> (0 .. MaxTime) \cup {None}]
      /\ \A t \in Token : revokedAt'[t] = IF t \in S \cap Live THEN now ELSE revokedAt[t]
  BY DEF Revoke, TypeOK
<1>2. now # None /\ 1 .. tokens \subseteq Token /\ S \cap revoking = {}
  BY SessionsAssumption DEF TypeOK, Token, Revoke
<1> QED
  BY <1>1, <1>2 DEF Live, TokenRows

\* What a suspension revokes others still see as live, until the commit; after a rollback
\* they do again.
LEMMA SuspendStep ==
  ASSUME TypeOK
  PROVE  /\ SuspendRevoke \/ SuspendCommit \/ SuspendRollback =>
              /\ revokedAt' \in [Token -> (0 .. MaxTime) \cup {None}]
              /\ revoking' \in SUBSET Token
              /\ Live' \subseteq Live
         /\ SuspendRevoke => revoking' = Live /\ \A t \in revoking' : revokedAt'[t] # None
         /\ SuspendCommit /\ (\A t \in revoking : revokedAt[t] # None) => Live' = Live \ revoking
<1> USE SessionsAssumption
<1>1. /\ now # None /\ 1 .. tokens \subseteq Token /\ Live \subseteq Token
      /\ now \in 0 .. MaxTime /\ revokedAt \in [Token -> (0 .. MaxTime) \cup {None}]
      /\ None \notin 0 .. MaxTime
  BY DEF TypeOK, Token, Live, TokenRows
<1>2. ASSUME SuspendRevoke
      PROVE  /\ revokedAt' \in [Token -> (0 .. MaxTime) \cup {None}]
             /\ revoking' \in SUBSET Token /\ Live' \subseteq Live
             /\ revoking' = Live /\ \A t \in revoking' : revokedAt'[t] # None
  <2>1. /\ revokedAt' = [t \in Token |-> IF t \in Token \cap Live THEN now ELSE revokedAt[t]]
        /\ revoking' = Live /\ UNCHANGED <<tokens, gone>>
    BY <1>2 DEF SuspendRevoke, Revoke
  <2>2. /\ revokedAt' \in [Token -> (0 .. MaxTime) \cup {None}]
        /\ \A t \in Token : revokedAt'[t] = IF t \in Live THEN now ELSE revokedAt[t]
    BY <1>1, <2>1
  <2>3. Live' \subseteq Live
    BY <1>1, <2>1, <2>2 DEF Live, TokenRows
  <2> QED
    BY <1>1, <2>1, <2>2, <2>3
<1>3. ASSUME SuspendCommit
      PROVE  /\ revokedAt' \in [Token -> (0 .. MaxTime) \cup {None}]
             /\ revoking' \in SUBSET Token /\ Live' \subseteq Live
             /\ (\A t \in revoking : revokedAt[t] # None) => Live' = Live \ revoking
  BY <1>1, <1>3 DEF SuspendCommit, row, Live, TokenRows
<1>4. ASSUME SuspendRollback
      PROVE  /\ revokedAt' \in [Token -> (0 .. MaxTime) \cup {None}]
             /\ revoking' \in SUBSET Token /\ Live' \subseteq Live
  BY <1>1, <1>4 DEF SuspendRollback, Live, TokenRows
<1> QED
  BY <1>2, <1>3, <1>4

\* A token that is issued is new, and the families of the others stay.
LEMMA IssueStep ==
  ASSUME TypeOK, NEW fam \in Login, IssueTokenPair(fam), UNCHANGED ban
  PROVE  /\ tokens' = tokens + 1 /\ tokens' \in 0 .. MaxTokens /\ tokens' \in Token
         /\ family' \in [Token -> Login \cup {None}]
         /\ issuedAt' \in [Token -> 0 .. MaxTime]
         /\ family'[tokens'] = fam
         /\ \A t \in 1 .. tokens : family'[t] = family[t] /\ t \in 1 .. tokens'
         /\ \A t \in 1 .. tokens' : t = tokens' \/ t \in 1 .. tokens
         /\ Live' \subseteq Live \cup {tokens'}
         /\ escaped' \in SUBSET (Login \cup {None})
         /\ escaped \subseteq escaped' /\ escaped' \subseteq escaped \cup {None}
         /\ standing = "suspending" => None \in escaped'
         /\ UNCHANGED <<revokedAt, gone, retried, swept>>
<1>1. /\ tokens' = tokens + 1 /\ tokens' \in 0 .. MaxTokens /\ tokens' \in Token
      /\ 1 .. tokens' = (1 .. tokens) \cup {tokens'} /\ tokens' \notin 1 .. tokens
      /\ 1 .. tokens \subseteq Token
  BY SessionsAssumption DEF IssueTokenPair, TypeOK, Token
<1>2. /\ family' = [family EXCEPT ![tokens'] = fam]
      /\ issuedAt' = [issuedAt EXCEPT ![tokens'] = now]
      /\ UNCHANGED <<revokedAt, gone, retried, swept, revoking>>
  BY <1>1 DEF IssueTokenPair, ban
<1>3. Live' \subseteq Live \cup {tokens'}
  BY <1>1, <1>2 DEF Live, TokenRows
<1>4. /\ escaped' \in SUBSET (Login \cup {None})
      /\ escaped \subseteq escaped' /\ escaped' \subseteq escaped \cup {None}
      /\ standing = "suspending" => None \in escaped'
  BY DEF IssueTokenPair, TypeOK
<1> QED
  BY <1>1, <1>2, <1>3, <1>4 DEF TypeOK

-----------------------------------------------------------------------------
(* The rows and the requests.                                              *)

\* Every step keeps the rows well formed, and a refresh to a token that was issued.
LEMMA RowsStep == TypeOK /\ GivenInv /\ [Next]_vars => TypeOK' /\ GivenInv'
<1> SUFFICES ASSUME TypeOK, GivenInv, [Next]_vars PROVE TypeOK' /\ GivenInv'
  OBVIOUS
<1> DEFINE Kept == TypeOK' /\ GivenInv'
<1> USE SessionsAssumption
<1>0. /\ 1 .. tokens \subseteq Token
      /\ \A t \in 1 .. tokens : family[t] \in Login
  BY DEF TypeOK, Token
<1>1. ASSUME NEW l \in Login, LoginCheck(l) PROVE Kept
  BY <1>0, <1>1 DEF LoginCheck, Go, TypeOK, GivenInv, row, ban, past
<1>2. ASSUME NEW l \in Login, LoginIssue(l) PROVE Kept
  <2>1. IssueTokenPair(l) /\ UNCHANGED ban
    BY <1>2 DEF LoginIssue
  <2> QED
    BY <1>0, <1>2, <2>1, IssueStep DEF LoginIssue, Go, TypeOK, GivenInv, ban
<1>3. ASSUME NEW f \in Refresh, Claim(f) PROVE Kept
  <2>1. PICK t \in 1 .. tokens :
          /\ given' = [given EXCEPT ![f] = t]
          /\ Go(f, IF t \in Live THEN "session" ELSE "lookup")
          /\ Revoke({t})
    BY <1>3 DEF Claim
  <2>2. revokedAt' \in [Token -> (0 .. MaxTime) \cup {None}]
    BY <1>3, <2>1, RevokeStep DEF Claim, ban
  <2> QED
    BY <1>0, <1>3, <2>1, <2>2 DEF Claim, Go, TypeOK, GivenInv, ban, past
<1>4. ASSUME NEW f \in Refresh, NEW s \in {"fam", "family", "sweep", "check", "issue", "failed"},
             Proceed(f, s), UNCHANGED <<now, row, ban, found, past>>,
             step[f] \notin {"idle", "done", "failed"}
      PROVE  Kept
  BY <1>0, <1>4, ProceedStep DEF TypeOK, GivenInv, row, ban, past
<1>5. ASSUME NEW f \in Refresh, Lookup(f) PROVE Kept
  <2>1. PICK s \in {"fam", "family", "failed"} : Proceed(f, s)
    BY <1>5 DEF Lookup
  <2>2. /\ step[f] = "lookup" /\ given[f] \in 1 .. tokens
        /\ \/ retried' = retried
           \/ retried' = [retried EXCEPT ![f] = family[given[f]]]
        /\ \/ escaped' = escaped
           \/ escaped' = escaped \cup {family[given[f]]}
        /\ UNCHANGED <<now, row, ban, found, swept>>
    BY <1>5 DEF Lookup, GivenInv
  <2>3. /\ retried' \in [Refresh -> Login \cup {None}]
        /\ escaped' \in SUBSET (Login \cup {None})
        /\ \A g \in Refresh \ {f} : retried'[g] = retried[g]
    BY <1>0, <2>2 DEF TypeOK
  <2> QED
    BY <1>0, <2>1, <2>2, <2>3, ProceedStep DEF TypeOK, GivenInv, row, ban
<1>6. ASSUME NEW f \in Refresh, RefreshIssue(f) PROVE Kept
  <2>1. /\ Proceed(f, "done") /\ step[f] = "issue" /\ family[given[f]] \in Login
        /\ IssueTokenPair(family[given[f]]) /\ UNCHANGED ban
    BY <1>0, <1>6 DEF RefreshIssue, GivenInv
  <2> QED
    BY <1>0, <1>6, <2>1, IssueStep, ProceedStep DEF RefreshIssue, TypeOK, GivenInv, ban
<1>7. ASSUME NEW f \in Refresh, NEW rows, SweepRows(f, rows), step[f] \in {"sweep", "blocked"}
      PROVE  Kept
  <2>1. /\ Proceed(f, "failed") /\ family[given[f]] \in Login
        /\ Revoke(rows) /\ found' = [found EXCEPT ![f] = {}]
        /\ swept' = swept \cup {family[given[f]]}
        /\ escaped' \in {escaped, escaped \cup {family[given[f]]}}
        /\ UNCHANGED <<now, tokens, family, issuedAt, gone, ban, retried>>
    BY <1>0, <1>7 DEF SweepRows, GivenInv
  <2>2. revokedAt' \in [Token -> (0 .. MaxTime) \cup {None}]
    BY <2>1, RevokeStep DEF ban
  <2> QED
    BY <1>0, <1>7, <2>1, <2>2, ProceedStep DEF TypeOK, GivenInv, ban
<1>14. ASSUME NEW f \in Refresh, SweepBlocked(f) PROVE Kept
  <2>1. OfFamily(family[given[f]]) \subseteq Token
    BY <1>0 DEF OfFamily, TokenRows
  <2> QED
    BY <1>0, <1>14, <2>1, ProceedStep DEF SweepBlocked, TypeOK, GivenInv, row, ban, past
<1>8. CASE Logout
  <2>1. revokedAt' \in [Token -> (0 .. MaxTime) \cup {None}]
    BY <1>8, RevokeStep DEF Logout, ban
  <2> QED
    BY <1>0, <1>8, <2>1 DEF Logout, TypeOK, GivenInv, ban, local, past
<1>9. CASE SuspendRevoke \/ SuspendCommit \/ SuspendRollback
  <2>1. /\ revokedAt' \in [Token -> (0 .. MaxTime) \cup {None}]
        /\ revoking' \in SUBSET Token
    BY <1>9, SuspendStep
  <2>2. CASE SuspendRevoke
    BY <1>0, <2>1, <2>2 DEF SuspendRevoke, TypeOK, GivenInv, local, past
  <2>3. CASE SuspendCommit
    BY <1>0, <2>1, <2>3 DEF SuspendCommit, TypeOK, GivenInv, row, local
  <2>4. CASE SuspendRollback
    BY <1>0, <2>1, <2>4 DEF SuspendRollback, TypeOK, GivenInv, local
  <2> QED
    BY <1>9, <2>2, <2>3, <2>4
<1>10. CASE UnsuspendUser
  BY <1>0, <1>10 DEF UnsuspendUser, TypeOK, GivenInv, row, local, past
<1>11. CASE Prune
  <2>1. /\ gone' \in SUBSET Token
        /\ issuedAt' \in [Token -> 0 .. MaxTime]
        /\ revokedAt' \in [Token -> (0 .. MaxTime) \cup {None}]
    BY <1>0, <1>11 DEF Prune, TypeOK, TokenRows
  <2> QED
    BY <1>0, <1>11, <2>1 DEF Prune, TypeOK, GivenInv, ban, local, past
<1>12. CASE Tick
  BY <1>0, <1>12 DEF Tick, TypeOK, GivenInv, row, ban, local, past
<1>13. CASE UNCHANGED vars
  BY <1>0, <1>13 DEF vars, TypeOK, GivenInv, row, ban, local, past
<1> QED
  BY <1>1, <1>2, <1>3, <1>4, <1>5, <1>6, <1>7, <1>8, <1>9, <1>10, <1>11, <1>12, <1>13,
     <1>14 DEF Next, ReadSession, ReadFamily, RefreshCheck, FindFamily, Sweep, SweepResumed

-----------------------------------------------------------------------------
(* What a step does to the sessions of a login, and to the refreshes that  *)
(* will insert one.                                                        *)

\* The daily job deletes no live session that it does not end, and makes none.
LEMMA PruneStep ==
  ASSUME TypeOK, Prune
  PROVE  Live' \subseteq Live
<1>1. /\ 1 .. tokens \subseteq Token /\ tokens' = tokens
      /\ \A t \in Token : t \notin gone' => revokedAt'[t] = revokedAt[t]
      /\ gone \subseteq gone' /\ revoking' = revoking
  BY SessionsAssumption DEF Prune, TypeOK, Token, ban
<1> QED
  BY <1>1 DEF Live, TokenRows

\* Steps that issue nothing and claim nothing.
Idling ==
  \/ SuspendRevoke \/ SuspendCommit \/ SuspendRollback \/ UnsuspendUser
  \/ Logout \/ Prune \/ Tick \/ UNCHANGED vars
  \/ \E l \in Login : LoginCheck(l)
  \/ \E f \in Refresh : ReadSession(f) \/ ReadFamily(f) \/ RefreshCheck(f) \/ FindFamily(f)
                       \/ Sweep(f) \/ SweepBlocked(f) \/ SweepResumed(f)

\* They end sessions and stop refreshes, and begin neither.
LEMMA IdleStep ==
  ASSUME TypeOK, GivenInv, Idling
  PROVE  /\ Live' \subseteq Live /\ family' = family /\ tokens' = tokens /\ retried' = retried
         /\ \A l \in Login : Renewing(l)' \subseteq Renewing(l)
         /\ \A l \in Login : step[l] = "done" => step'[l] = "done"
         /\ \A l \in Login : step'[l] \in {"idle", "issue"} => step[l] \in {"idle", "issue"}
<1> USE SessionsAssumption
<1>1. CASE Logout \/ SuspendRevoke \/ SuspendCommit \/ SuspendRollback
  <2>1. Live' \subseteq Live
    BY <1>1, RevokeStep, SuspendStep DEF Logout, ban
  <2> QED
    BY <1>1, <2>1 DEF Logout, SuspendRevoke, SuspendCommit, SuspendRollback, Renewing, row, local,
                      past
<1>2. CASE UnsuspendUser \/ Tick \/ UNCHANGED vars
  BY <1>2 DEF UnsuspendUser, Tick, vars, Live, TokenRows, Renewing, row, ban, local, past
<1>3. CASE Prune
  <2>1. Live' \subseteq Live
    BY <1>3, PruneStep
  <2> QED
    BY <1>3, <2>1 DEF Prune, Renewing, local, past
<1>4. ASSUME NEW l \in Login, LoginCheck(l)
      PROVE  /\ Live' \subseteq Live /\ family' = family /\ tokens' = tokens /\ retried' = retried
             /\ \A k \in Login : Renewing(k)' \subseteq Renewing(k)
             /\ \A k \in Login : step[k] = "done" => step'[k] = "done"
             /\ \A k \in Login : step'[k] \in {"idle", "issue"} => step[k] \in {"idle", "issue"}
  BY <1>4 DEF LoginCheck, Go, TypeOK, Live, TokenRows, Renewing, row, ban, past
<1>5. ASSUME NEW f \in Refresh,
             \/ ReadSession(f) \/ ReadFamily(f) \/ RefreshCheck(f) \/ FindFamily(f)
             \/ Sweep(f) \/ SweepBlocked(f) \/ SweepResumed(f)
      PROVE  /\ Live' \subseteq Live /\ family' = family /\ tokens' = tokens /\ retried' = retried
             /\ \A k \in Login : Renewing(k)' \subseteq Renewing(k)
             /\ \A k \in Login : step[k] = "done" => step'[k] = "done"
             /\ \A k \in Login : step'[k] \in {"idle", "issue"} => step[k] \in {"idle", "issue"}
  <2>1. PICK s \in {"family", "sweep", "blocked", "check", "issue", "failed"} :
          /\ Proceed(f, s)
          /\ s \in {"check", "issue"} => step[f] \in {"session", "fam", "check"}
    BY <1>5 DEF ReadSession, ReadFamily, RefreshCheck, FindFamily, Sweep, SweepBlocked,
                SweepResumed, SweepRows
  <2>2. family' = family /\ tokens' = tokens /\ retried' = retried
    BY <1>5 DEF ReadSession, ReadFamily, RefreshCheck, FindFamily, Sweep, SweepBlocked,
                SweepResumed, SweepRows, row, past
  <2>3. Live' \subseteq Live
    <3>1. ASSUME NEW rows, SweepRows(f, rows) PROVE Live' \subseteq Live
      BY <3>1, RevokeStep DEF SweepRows, ban
    <3>2. CASE ~(Sweep(f) \/ SweepResumed(f))
      BY <1>5, <3>2 DEF ReadSession, ReadFamily, RefreshCheck, FindFamily, SweepBlocked, row, ban,
                        Live, TokenRows
    <3> QED
      BY <3>1, <3>2 DEF Sweep, SweepResumed
  <2>4. \A k \in Login : Renewing(k)' \subseteq Renewing(k)
    BY <2>1, <2>2, ProceedStep DEF Renewing
  <2> QED
    BY <2>1, <2>2, <2>3, <2>4, ProceedStep
<1> QED
  BY <1>1, <1>2, <1>3, <1>4, <1>5 DEF Idling

\* A claim trades a live session for a refresh, or neither changes.
LEMMA ClaimStep ==
  ASSUME TypeOK, GivenInv, NEW f \in Refresh, Claim(f)
  PROVE  /\ UNCHANGED <<tokens, family, retried, swept, escaped>>
         /\ \A l \in Login : step'[l] = step[l]
         /\ \E t \in 1 .. tokens :
              /\ Live' = Live \ {t}
              /\ \A l \in Login :
                   Renewing(l)' \subseteq
                     IF t \in SessionsOf(l) THEN Renewing(l) \cup {f} ELSE Renewing(l)
<1> USE SessionsAssumption
<1>1. PICK t \in 1 .. tokens :
        /\ given' = [given EXCEPT ![f] = t]
        /\ Go(f, IF t \in Live THEN "session" ELSE "lookup")
        /\ Revoke({t})
  BY DEF Claim
<1>2. Live' = Live \ {t}
  BY <1>1, RevokeStep DEF Claim, ban
<1>3. /\ UNCHANGED <<tokens, family, retried, swept, escaped>>
      /\ \A l \in Login : step'[l] = step[l]
  BY <1>1 DEF Claim, Go, TypeOK, past
<1>4. ASSUME NEW l \in Login, NEW g \in Renewing(l)'
      PROVE  g \in Renewing(l) \/ (g = f /\ t \in SessionsOf(l))
  <2>1. CASE g = f
    BY <1>1, <1>3, <1>4, <2>1 DEF Renewing, SessionsOf, Go, TypeOK
  <2>2. CASE g # f
    BY <1>1, <1>3, <1>4, <2>2 DEF Renewing, Go, TypeOK
  <2> QED
    BY <2>1, <2>2
<1> QED
  BY <1>2, <1>3, <1>4

\* A retry is admitted in the name of its family, or the refresh goes no further.
LEMMA LookupStep ==
  ASSUME TypeOK, GivenInv, NEW f \in Refresh, Lookup(f)
  PROVE  /\ UNCHANGED <<tokens, family, swept>> /\ Live' = Live
         /\ \A l \in Login : step'[l] = step[l]
         /\ escaped \subseteq escaped' /\ (None \in escaped' => None \in escaped)
         /\ retried[f] = None
         /\ \A g \in Refresh \ {f} : retried'[g] = retried[g]
         /\ \A l \in Login :
              \/ Renewing(l)' \subseteq Renewing(l)
              \/ /\ Renewing(l)' \subseteq Renewing(l) \cup {f}
                 /\ retried'[f] = l
                 /\ l \in swept => l \in escaped'
<1> USE SessionsAssumption
<1>1. PICK s \in {"fam", "family", "failed"} :
        /\ Proceed(f, s)
        /\ s = "fam" => retried'[f] = family[given[f]]
        /\ s = "fam" /\ family[given[f]] \in swept => family[given[f]] \in escaped'
        /\ escaped' \in {escaped, escaped \cup {family[given[f]]}}
        /\ \A g \in Refresh \ {f} : retried'[g] = retried[g]
  BY DEF Lookup, TypeOK
<1>2. /\ step[f] = "lookup" /\ retried[f] = None /\ family[given[f]] \in Login
      /\ UNCHANGED <<tokens, family, swept>> /\ Live' = Live
  BY DEF Lookup, GivenInv, TypeOK, row, ban, Live, TokenRows
<1>3. ASSUME NEW l \in Login
      PROVE  \/ Renewing(l)' \subseteq Renewing(l)
             \/ s = "fam" /\ family[given[f]] = l /\ Renewing(l)' \subseteq Renewing(l) \cup {f}
  BY <1>1, <1>2, ProceedStep DEF Renewing
<1> QED
  BY <1>1, <1>2, <1>3, ProceedStep

\* A refresh that inserts its token is no longer about to.
LEMMA RefreshIssueStep ==
  ASSUME TypeOK, GivenInv, NEW f \in Refresh, RefreshIssue(f)
  PROVE  /\ family[given[f]] \in Login /\ f \in Renewing(family[given[f]])
         /\ tokens' \in Token
         /\ UNCHANGED <<retried, swept, standing, revoking>>
         /\ escaped \subseteq escaped' /\ (standing = "suspending" => None \in escaped')
         /\ \A l \in Login :
              /\ step'[l] = step[l]
              /\ Renewing(l)' \subseteq Renewing(l) \ {f}
              /\ SessionsOf(l)' \subseteq
                   IF l = family[given[f]] THEN SessionsOf(l) \cup {tokens'} ELSE SessionsOf(l)
<1> USE SessionsAssumption
<1>1. /\ step[f] = "issue" /\ Proceed(f, "done")
      /\ given[f] \in 1 .. tokens /\ family[given[f]] \in Login
      /\ IssueTokenPair(family[given[f]]) /\ UNCHANGED ban
  BY DEF RefreshIssue, GivenInv, TypeOK
<1>2. /\ f \in Renewing(family[given[f]]) /\ tokens' \in Token
      /\ \A l \in Login : step'[l] = step[l]
  BY <1>1, ProceedStep, IssueStep DEF Renewing
<1>5. /\ UNCHANGED <<retried, swept, standing, revoking>>
      /\ escaped \subseteq escaped' /\ (standing = "suspending" => None \in escaped')
  BY <1>1, IssueStep DEF ban
<1>3. ASSUME NEW l \in Login PROVE Renewing(l)' \subseteq Renewing(l) \ {f}
  <2>1. \A g \in Refresh \ {f} : step[g] \notin {"idle", "done", "failed"} =>
          family'[given'[g]] = family[given[g]]
    BY <1>1, ProceedStep, IssueStep DEF GivenInv
  <2> QED
    BY <1>1, <2>1, ProceedStep DEF Renewing
<1>4. ASSUME NEW l \in Login
      PROVE  SessionsOf(l)' \subseteq
               IF l = family[given[f]] THEN SessionsOf(l) \cup {tokens'} ELSE SessionsOf(l)
  BY <1>1, IssueStep DEF SessionsOf, Live, TokenRows
<1> QED
  BY <1>1, <1>2, <1>3, <1>4, <1>5

\* So does a login.
LEMMA LoginIssueStep ==
  ASSUME TypeOK, GivenInv, NEW k \in Login, LoginIssue(k)
  PROVE  /\ step[k] = "issue" /\ step'[k] = "done" /\ tokens' \in Token
         /\ UNCHANGED <<retried, swept, standing, revoking>>
         /\ escaped \subseteq escaped' /\ (standing = "suspending" => None \in escaped')
         /\ \A l \in Login : Renewing(l)' \subseteq Renewing(l)
         /\ \A l \in Login \ {k} : step'[l] = step[l] /\ SessionsOf(l)' \subseteq SessionsOf(l)
         /\ SessionsOf(k)' \subseteq SessionsOf(k) \cup {tokens'}
<1> USE SessionsAssumption
<1>1. /\ step[k] = "issue" /\ IssueTokenPair(k) /\ given' = given
      /\ step' = [step EXCEPT ![k] = "done"] /\ UNCHANGED ban
  BY DEF LoginIssue, Go
<1>5. /\ UNCHANGED <<retried, swept, standing, revoking>>
      /\ escaped \subseteq escaped' /\ (standing = "suspending" => None \in escaped')
  BY <1>1, IssueStep DEF ban
<1>2. /\ step'[k] = "done" /\ \A a \in (Login \cup Refresh) \ {k} : step'[a] = step[a]
  BY <1>1 DEF TypeOK
<1>3. ASSUME NEW l \in Login PROVE Renewing(l)' \subseteq Renewing(l)
  <2>1. \A g \in Refresh : step[g] \notin {"idle", "done", "failed"} =>
          family'[given'[g]] = family[given[g]]
    BY <1>1, IssueStep DEF GivenInv
  <2> QED
    BY <1>2, <2>1 DEF Renewing
<1>4. ASSUME NEW l \in Login
      PROVE  SessionsOf(l)' \subseteq IF l = k THEN SessionsOf(l) \cup {tokens'} ELSE SessionsOf(l)
  BY <1>1, IssueStep DEF SessionsOf, Live, TokenRows
<1> QED
  BY <1>1, <1>2, <1>3, <1>4, <1>5, IssueStep

-----------------------------------------------------------------------------
(* The invariant.                                                          *)

\* Nothing is or will be live in a swept family that no refresh got past.
LEMMA SweptStep == TypeOK /\ GivenInv /\ SweepInv /\ [Next]_vars => SweepInv'
<1> SUFFICES ASSUME TypeOK, GivenInv, SweepInv, [Next]_vars PROVE SweepInv'
  OBVIOUS
<1> USE SessionsAssumption
<1>0. swept \subseteq Login
  BY DEF TypeOK
<1>1. CASE Idling /\ swept' = swept /\ escaped \ {None} \subseteq escaped'
  BY <1>0, <1>1, IdleStep DEF SweepInv, SessionsOf
<1>2. ASSUME NEW f \in Refresh, NEW rows, SweepRows(f, rows), step[f] \in {"sweep", "blocked"},
             Idling
      PROVE  SweepInv'
  <2>1. PICK fam \in Login :
          /\ fam = family[given[f]] /\ step[fam] = "done"
          /\ Revoke(rows) /\ swept' = swept \cup {fam}
          /\ escaped' = IF Renewing(fam) # {} \/ ~(OfFamily(fam) \subseteq rows)
                        THEN escaped \cup {fam} ELSE escaped
          /\ UNCHANGED <<tokens, gone, revoking>>
    BY <1>2 DEF SweepRows, GivenInv, TypeOK, ban
  <2>2. /\ Live' = Live \ rows /\ family' = family
        /\ \A l \in Login : /\ Renewing(l)' \subseteq Renewing(l)
                            /\ step[l] = "done" => step'[l] = "done"
    BY <1>2, <2>1, RevokeStep, IdleStep
  <2>3. /\ OfFamily(fam) \subseteq rows => SessionsOf(fam)' = {}
        /\ \A l \in Login : SessionsOf(l)' \subseteq SessionsOf(l)
    BY <2>2 DEF SessionsOf, OfFamily, Live
  <2> QED
    BY <1>0, <2>1, <2>2, <2>3 DEF SweepInv
<1>3. ASSUME NEW f \in Refresh, Claim(f) PROVE SweepInv'
  BY <1>0, <1>3, ClaimStep DEF SweepInv, SessionsOf
<1>4. ASSUME NEW f \in Refresh, Lookup(f) PROVE SweepInv'
  BY <1>0, <1>4, LookupStep DEF SweepInv, SessionsOf
<1>5. ASSUME NEW f \in Refresh, RefreshIssue(f) PROVE SweepInv'
  BY <1>0, <1>5, RefreshIssueStep DEF SweepInv
<1>6. ASSUME NEW k \in Login, LoginIssue(k) PROVE SweepInv'
  BY <1>0, <1>6, LoginIssueStep DEF SweepInv
<1>7. ASSUME Idling, \A f \in Refresh : ~Sweep(f) /\ ~SweepResumed(f)
      PROVE  swept' = swept /\ escaped \ {None} \subseteq escaped'
  BY <1>7 DEF Idling, Logout, SuspendRevoke, SuspendCommit, SuspendRollback, UnsuspendUser, Prune,
              Tick, LoginCheck, ReadSession, ReadFamily, RefreshCheck, FindFamily, SweepBlocked,
              vars, past
<1>8. ASSUME NEW f \in Refresh, Sweep(f) \/ SweepResumed(f) PROVE SweepInv'
  BY <1>2, <1>8 DEF Sweep, SweepResumed, Idling
<1> QED
  BY <1>1, <1>3, <1>4, <1>5, <1>6, <1>7, <1>8 DEF Next, Idling

\* The steps of a suspension apart, the rows that an open one holds stay as they are.
LEMMA LockStep ==
  ASSUME TypeOK, [Next]_vars,
         ~(SuspendRevoke \/ SuspendCommit \/ SuspendRollback \/ UnsuspendUser)
  PROVE  UNCHANGED <<standing, revoking>> /\ \A t \in revoking : revokedAt'[t] = revokedAt[t]
<1> DEFINE Held == UNCHANGED <<standing, revoking>>
                     /\ \A t \in revoking : revokedAt'[t] = revokedAt[t]
<1>0. revoking \subseteq Token
  BY DEF TypeOK
<1>1. ASSUME NEW S, Revoke(S), UNCHANGED ban PROVE Held
  BY <1>0, <1>1 DEF Revoke, ban
<1>2. ASSUME UNCHANGED <<ban, revokedAt>> PROVE Held
  BY <1>2 DEF ban
<1>3. ASSUME Prune PROVE Held
  BY <1>0, <1>3 DEF Prune, ban
<1> HIDE DEF Held
<1>4. ASSUME NEW l \in Login, LoginCheck(l) \/ LoginIssue(l) PROVE Held
  BY <1>2, <1>4 DEF LoginCheck, LoginIssue, IssueTokenPair, row
<1>5. ASSUME NEW f \in Refresh,
             \/ ReadSession(f) \/ Lookup(f) \/ ReadFamily(f) \/ RefreshCheck(f)
             \/ RefreshIssue(f) \/ FindFamily(f) \/ SweepBlocked(f)
      PROVE  Held
  BY <1>2, <1>5 DEF ReadSession, Lookup, ReadFamily, RefreshCheck, RefreshIssue, FindFamily,
                    SweepBlocked, IssueTokenPair, row
<1>6. ASSUME NEW f \in Refresh, Claim(f) \/ Sweep(f) \/ SweepResumed(f) PROVE Held
  BY <1>1, <1>6 DEF Claim, Sweep, SweepResumed, SweepRows
<1>7. ASSUME Logout PROVE Held
  BY <1>1, <1>7 DEF Logout
<1>8. ASSUME Tick \/ UNCHANGED vars PROVE Held
  BY <1>2, <1>8 DEF Tick, vars, row
<1>9. Held
  BY <1>3, <1>4, <1>5, <1>6, <1>7, <1>8 DEF Next
<1> QED
  BY <1>9 DEF Held

\* An open suspension has revoked all but what was inserted since; a suspended user has no
\* session, and nobody is about to insert one.
LEMMA BanStep == TypeOK /\ GivenInv /\ BanInv /\ [Next]_vars => BanInv'
<1> SUFFICES ASSUME TypeOK, GivenInv, BanInv, [Next]_vars PROVE BanInv'
  OBVIOUS
<1> USE SessionsAssumption
<1>1. CASE SuspendRevoke
  <2>1. /\ standing' = "suspending" /\ revoking' = Live /\ Live' \subseteq Live
        /\ \A t \in revoking' : revokedAt'[t] # None
    BY <1>1, SuspendStep DEF SuspendRevoke
  <2> QED
    BY <2>1 DEF BanInv, suspended
<1>2. CASE SuspendCommit
  <2>1. /\ standing = "suspending" /\ standing' = "suspended" /\ revoking' = {}
        /\ escaped' = IF \E a \in Login \cup Refresh : step[a] = "issue"
                      THEN escaped \cup {None} ELSE escaped
        /\ step' = step
    BY <1>2 DEF SuspendCommit, local
  <2>2. Live' = Live \ revoking
    BY <1>2, SuspendStep DEF BanInv
  <2> QED
    BY <2>1, <2>2 DEF BanInv, suspended
<1>3. CASE SuspendRollback \/ UnsuspendUser
  BY <1>3 DEF SuspendRollback, UnsuspendUser, BanInv, suspended
<1>4. ASSUME ~(SuspendRevoke \/ SuspendCommit \/ SuspendRollback \/ UnsuspendUser)
      PROVE  BanInv'
  <2>0. UNCHANGED <<standing, revoking>> /\ \A t \in revoking : revokedAt'[t] = revokedAt[t]
    BY <1>4, LockStep
  <2> DEFINE In == standing \in {"suspending", "suspended"} /\ None \notin escaped'
             Out == /\ Live' \subseteq Live /\ None \notin escaped
                    /\ \A a \in Login \cup Refresh :
                         step'[a] = "issue" => step[a] = "issue" \/ standing # "suspended"
  <2>3. ASSUME Logout \/ Prune \/ Tick \/ UNCHANGED vars, In PROVE Out
    <3>1. Live' \subseteq Live
      BY <2>3, IdleStep DEF Idling
    <3> QED
      BY <2>3, <3>1 DEF Logout, Prune, Tick, vars, local, past
  <2>4. ASSUME NEW l \in Login, LoginCheck(l), In PROVE Out
    <3>1. Live' \subseteq Live
      BY <2>4, IdleStep DEF Idling
    <3> QED
      BY <2>4, <3>1 DEF LoginCheck, Go, TypeOK, suspended, past
  <2>5. ASSUME NEW l \in Login, LoginIssue(l), In PROVE FALSE
    BY <2>5, LoginIssueStep DEF BanInv, suspended
  <2>6. ASSUME NEW f \in Refresh, RefreshIssue(f), In PROVE FALSE
    BY <2>6, RefreshIssueStep DEF RefreshIssue, BanInv, suspended
  <2>7. ASSUME NEW f \in Refresh, Claim(f), In PROVE Out
    <3>1. Live' \subseteq Live /\ escaped' = escaped
      BY <2>7, ClaimStep
    <3>2. PICK s \in {"session", "lookup"} : Go(f, s)
      BY <2>7 DEF Claim
    <3> QED
      BY <2>7, <3>1, <3>2 DEF Go, TypeOK
  <2>8. ASSUME NEW f \in Refresh, Lookup(f), In PROVE Out
    <3>1. None \notin escaped /\ Live' = Live
      BY <2>8, LookupStep
    <3>2. PICK s \in {"fam", "family", "failed"} : Proceed(f, s)
      BY <2>8 DEF Lookup
    <3> QED
      BY <3>1, <3>2, ProceedStep
  <2>9. ASSUME NEW f \in Refresh, In,
               \/ ReadSession(f) \/ ReadFamily(f) \/ RefreshCheck(f) \/ FindFamily(f)
               \/ Sweep(f) \/ SweepBlocked(f) \/ SweepResumed(f)
        PROVE  Out
    <3>1. Live' \subseteq Live
      BY <2>9, IdleStep DEF Idling
    <3>2. escaped \subseteq escaped'
      BY <2>9 DEF ReadSession, ReadFamily, RefreshCheck, FindFamily, Sweep, SweepBlocked,
                  SweepResumed, SweepRows, past
    <3>3. PICK s \in {"family", "sweep", "blocked", "check", "issue", "failed"} :
            Proceed(f, s) /\ (s = "issue" => standing # "suspended")
      BY <2>9 DEF ReadSession, ReadFamily, RefreshCheck, FindFamily, Sweep, SweepBlocked,
                  SweepResumed, SweepRows, suspended
    <3> QED
      BY <2>9, <3>1, <3>2, <3>3, ProceedStep
  <2> HIDE DEF Out
  <2>10. In => Out
    BY <1>4, <2>3, <2>4, <2>5, <2>6, <2>7, <2>8, <2>9 DEF Next
  <2>11. ASSUME In, Out PROVE BanInv'
    BY <2>0, <2>11 DEF Out, BanInv, suspended
  <2>12. CASE ~In
    BY <2>0, <2>12 DEF BanInv, suspended
  <2> QED
    BY <2>10, <2>11, <2>12
<1> QED
  BY <1>1, <1>2, <1>3, <1>4

\* Sessions, rights to insert one and retries are counted as ForkInv says: a step adds a
\* session only in exchange for such a right, and a right only for a session or a retry.
LEMMA ForkStep == TypeOK /\ GivenInv /\ ForkInv /\ [Next]_vars => ForkInv'
<1> SUFFICES ASSUME TypeOK, GivenInv, ForkInv, [Next]_vars, NEW l \in Login
             PROVE  Cardinality(SessionsOf(l)') + Cardinality(Renewing(l)')
                      + (IF step'[l] \in {"idle", "issue"} THEN 1 ELSE 0)
                        <= 1 + Cardinality({f \in Refresh : retried'[f] = l})
  BY DEF ForkInv
<1> DEFINE A == SessionsOf(l)    A2 == SessionsOf(l)'
           B == Renewing(l)      B2 == Renewing(l)'
           R == {f \in Refresh : retried[f] = l}
           R2 == {f \in Refresh : retried'[f] = l}
           open == step[l] \in {"idle", "issue"}
           open2 == step'[l] \in {"idle", "issue"}
           Fits == Cardinality(A2) + Cardinality(B2) + (IF open2 THEN 1 ELSE 0)
                     <= 1 + Cardinality(R2)
<1> USE SessionsAssumption
<1>0. TypeOK' /\ GivenInv'
  BY RowsStep
<1>1. /\ A \in SUBSET Token /\ A2 \in SUBSET Token
      /\ B \in SUBSET Refresh /\ B2 \in SUBSET Refresh
      /\ R \in SUBSET Refresh /\ R2 \in SUBSET Refresh
  BY <1>0 DEF SessionsOf, Live, TokenRows, Renewing, TypeOK, Token
<1>2. /\ Cardinality(A) \in Nat /\ Cardinality(A2) \in Nat
      /\ Cardinality(B) \in Nat /\ Cardinality(B2) \in Nat
      /\ Cardinality(R) \in Nat /\ Cardinality(R2) \in Nat
  BY <1>1, Finite
<1>3. Cardinality(A) + Cardinality(B) + (IF open THEN 1 ELSE 0) <= 1 + Cardinality(R)
  BY DEF ForkInv
<1>4. /\ A2 \subseteq A => Cardinality(A2) <= Cardinality(A)
      /\ \A x \in Token : A2 \subseteq A \cup {x} => Cardinality(A2) <= Cardinality(A) + 1
      /\ \A x \in A : A2 \subseteq A \ {x} => Cardinality(A2) + 1 <= Cardinality(A)
  BY <1>1, Finite, Sizes
<1>5. /\ B2 \subseteq B => Cardinality(B2) <= Cardinality(B)
      /\ \A x \in Refresh : B2 \subseteq B \cup {x} => Cardinality(B2) <= Cardinality(B) + 1
      /\ \A x \in B : B2 \subseteq B \ {x} => Cardinality(B2) + 1 <= Cardinality(B)
  BY <1>1, Finite, Sizes
<1>6. /\ R \subseteq R2 => Cardinality(R) <= Cardinality(R2)
      /\ \A x \in R2 : R \subseteq R2 \ {x} => Cardinality(R) + 1 <= Cardinality(R2)
  BY <1>1, Finite, Sizes
<1> HIDE DEF A, A2, B, B2, R, R2, open, open2
<1>7. ASSUME Idling PROVE Fits
  <2>1. A2 \subseteq A /\ B2 \subseteq B /\ R2 = R /\ (open2 => open)
    BY <1>7, IdleStep DEF A, A2, B, B2, R, R2, open, open2, SessionsOf
  <2> QED
    BY <1>2, <1>3, <1>4, <1>5, <2>1
<1>8. ASSUME NEW f \in Refresh, Claim(f) PROVE Fits
  <2>1. PICK t \in 1 .. tokens :
          /\ Live' = Live \ {t} /\ family' = family
          /\ B2 \subseteq IF t \in A THEN B \cup {f} ELSE B
    BY <1>8, ClaimStep DEF A, B, B2
  <2>2. R2 = R /\ open2 = open
    BY <1>8, ClaimStep DEF R, R2, open, open2
  <2>3. A2 \subseteq A \ {t}
    BY <2>1 DEF A, A2, SessionsOf
  <2>4. CASE t \in A
    BY <1>2, <1>3, <1>4, <1>5, <2>1, <2>2, <2>3, <2>4
  <2>5. CASE t \notin A
    BY <1>2, <1>3, <1>4, <1>5, <2>1, <2>2, <2>3, <2>5
  <2> QED
    BY <2>4, <2>5
<1>9. ASSUME NEW f \in Refresh, Lookup(f) PROVE Fits
  <2>1. A2 \subseteq A /\ open2 = open
    BY <1>9, LookupStep DEF A, A2, open, open2, SessionsOf
  <2>2. R \subseteq R2 \ {f}
    BY <1>9, LookupStep DEF R, R2
  <2>3. B2 \subseteq B \/ (B2 \subseteq B \cup {f} /\ f \in R2)
    BY <1>9, LookupStep DEF B, B2, R2
  <2> QED
    BY <1>2, <1>3, <1>4, <1>5, <1>6, <2>1, <2>2, <2>3
<1>10. ASSUME NEW f \in Refresh, RefreshIssue(f) PROVE Fits
  <2>1. R2 = R /\ open2 = open /\ B2 \subseteq B \ {f}
    BY <1>10, RefreshIssueStep DEF B, B2, R, R2, open, open2
  <2>2. \/ A2 \subseteq A
        \/ f \in B /\ tokens' \in Token /\ A2 \subseteq A \cup {tokens'}
    BY <1>10, RefreshIssueStep DEF A, A2, B
  <2> QED
    BY <1>2, <1>3, <1>4, <1>5, <2>1, <2>2
<1>11. ASSUME NEW k \in Login, LoginIssue(k) PROVE Fits
  <2>1. R2 = R /\ B2 \subseteq B
    BY <1>11, LoginIssueStep DEF B, B2, R, R2
  <2>2. \/ A2 \subseteq A /\ open2 = open
        \/ open /\ ~open2 /\ tokens' \in Token /\ A2 \subseteq A \cup {tokens'}
    BY <1>11, LoginIssueStep DEF A, A2, open, open2
  <2> QED
    BY <1>2, <1>3, <1>4, <1>5, <2>1, <2>2
<1> HIDE DEF Fits
<1>12. Fits
  BY <1>7, <1>8, <1>9, <1>10, <1>11 DEF Next, Idling
<1> QED
  BY <1>12 DEF Fits, A2, B2, R2, open2

LEMMA SessionsInit == Init => TypeOK /\ GivenInv /\ ForkInv /\ SweepInv /\ BanInv
<1> SUFFICES ASSUME Init PROVE TypeOK /\ GivenInv /\ ForkInv /\ SweepInv /\ BanInv
  OBVIOUS
<1> USE SessionsAssumption
<1>1. TypeOK
  <2>1. 0 \in 0 .. MaxTime /\ 0 \in 0 .. MaxTokens /\ 0 \in 0 .. MaxSuspensions
    OBVIOUS
  <2> QED
    BY <2>1 DEF Init, TypeOK
<1>4. GivenInv /\ SweepInv /\ BanInv
  BY DEF Init, GivenInv, SweepInv, BanInv, suspended
<1>2. ASSUME NEW l \in Login
      PROVE  SessionsOf(l) = {} /\ Renewing(l) = {} /\ {f \in Refresh : retried[f] = l} = {}
  BY <1>2 DEF Init, SessionsOf, Live, TokenRows, Renewing
<1>3. ForkInv
  BY <1>2, FS_EmptySet DEF ForkInv
<1> QED
  BY <1>1, <1>3, <1>4

\* The live sessions alone are no more than those and the ones about to be inserted.
LEMMA ForksAreRetries == TypeOK /\ ForkInv => NoForkWithoutRetry
<1> SUFFICES ASSUME TypeOK, ForkInv, NEW l \in Login
             PROVE  Cardinality(SessionsOf(l)) <=
                      1 + Cardinality({f \in Refresh : retried[f] = l})
  BY DEF NoForkWithoutRetry
<1>1. /\ SessionsOf(l) \in SUBSET Token /\ Renewing(l) \in SUBSET Refresh
      /\ {f \in Refresh : retried[f] = l} \in SUBSET Refresh
  BY SessionsAssumption DEF SessionsOf, Live, TokenRows, Renewing, TypeOK, Token
<1>2. /\ Cardinality(SessionsOf(l)) \in Nat /\ Cardinality(Renewing(l)) \in Nat
      /\ Cardinality({f \in Refresh : retried[f] = l}) \in Nat
  BY <1>1, Finite
<1>3. Cardinality(SessionsOf(l)) + Cardinality(Renewing(l))
        + (IF step[l] \in {"idle", "issue"} THEN 1 ELSE 0)
          <= 1 + Cardinality({f \in Refresh : retried[f] = l})
  BY DEF ForkInv
<1> QED
  BY <1>2, <1>3

\* refresh, verifyOtp, logout, suspensions and the daily job, for any number of logins,
\* refreshes and tokens: a login has one live session and one for each retry that was
\* admitted, and the rest of the inductive invariant.
THEOREM RefreshInvariant == Spec => []RefreshInv
<1>1. TypeOK /\ GivenInv /\ ForkInv /\ SweepInv /\ BanInv => RefreshInv
  BY ForksAreRetries DEF RefreshInv
<1>2. TypeOK /\ GivenInv /\ ForkInv /\ SweepInv /\ BanInv /\ [Next]_vars =>
        (TypeOK /\ GivenInv /\ ForkInv /\ SweepInv /\ BanInv)'
  BY RowsStep, ForkStep, SweptStep, BanStep
<1> QED
  BY <1>1, <1>2, SessionsInit, PTL DEF Spec

\* revokeTokenFamily: after a late replay no session of the login is live, unless another
\* refresh of it was past its lookup meanwhile, or a token was presented again within the window
\* that the revocation opened.
THEOREM SweptFamiliesDoEnd == Spec => []SweptFamiliesEnd
<1>1. RefreshInv => SweptFamiliesEnd
  BY DEF RefreshInv, SweepInv, SweptFamiliesEnd
<1> QED
  BY <1>1, RefreshInvariant, PTL

\* suspendUser and throwIfSuspended: a suspended user has no live session, unless a request
\* that had seen no suspension inserted its token after the transaction had revoked the
\* others.
THEOREM SuspendedHaveNoSession == Spec => []SuspendedHasNoSession
<1>1. RefreshInv => SuspendedHasNoSession
  BY DEF RefreshInv, BanInv, SuspendedHasNoSession
<1> QED
  BY <1>1, RefreshInvariant, PTL

-----------------------------------------------------------------------------
(* One-time codes.                                                         *)

\* What a request does by going on, and to no other request.
LEMMA GotoStep ==
  ASSUME OtpTypeOK, NEW a \in Code \cup Verify,
         NEW s \in {"create", "queue", "find", "miss", "use", "user", "legacy", "migrate",
                    "insert", "done", "failed"},
         Goto(a, s)
  PROVE  /\ pc' \in [Code \cup Verify -> {"idle", "create", "queue", "find", "miss", "use",
                                  "user", "legacy", "migrate", "insert", "done", "failed"}]
         /\ pc'[a] = s
         /\ \A b \in (Code \cup Verify) \ {a} : pc'[b] = pc[b]
  BY DEF Goto, OtpTypeOK

\* What the answer to a wrong code changes.
LEMMA MissStep ==
  ASSUME OtpTypeOK, RowsInv, NEW v \in Verify, RecordMiss(v)
  PROVE  /\ picked[v] \in Code /\ Goto(v, "failed")
         /\ seen' \in [Verify -> Nat] /\ picked' \in [Verify -> Code \cup {NoUser}]
         /\ \A w \in Verify \ {v} : seen'[w] = seen[w] /\ picked'[w] = picked[w]
         /\ attempts' \in [Code -> Nat] /\ missed' \in [Code -> SUBSET Verify]
         /\ \A c \in Code \ {picked[v]} : attempts'[c] = attempts[c] /\ missed'[c] = missed[c]
         /\ \/ /\ picked[v] \in Rows /\ attempts'[picked[v]] = seen[v] + 1
               /\ missed'[picked[v]] = missed[picked[v]] \cup {v}
            \/ UNCHANGED <<attempts, missed>>
         /\ UNCHANGED <<otpNow, linked, status, createdAt, rank, delivery, users, account,
                        usedBy, flagged>>
<1>1. picked[v] \in Code /\ Goto(v, "failed")
  BY DEF RecordMiss, RowsInv
<1>2. /\ seen' \in [Verify -> Nat] /\ picked' \in [Verify -> Code \cup {NoUser}]
      /\ \A w \in Verify \ {v} : seen'[w] = seen[w] /\ picked'[w] = picked[w]
  BY DEF RecordMiss, OtpTypeOK
<1>3. CASE picked[v] \in Rows
  <2>1. /\ attempts' = [attempts EXCEPT ![picked[v]] = seen[v] + 1]
        /\ missed' = [missed EXCEPT ![picked[v]] = @ \cup {v}]
    BY <1>3 DEF RecordMiss
  <2>2. attempts \in [Code -> Nat] /\ missed \in [Code -> SUBSET Verify] /\ seen[v] \in Nat
    BY DEF OtpTypeOK
  <2>3. /\ attempts' \in [Code -> Nat] /\ missed' \in [Code -> SUBSET Verify]
        /\ \A c \in Code \ {picked[v]} : attempts'[c] = attempts[c] /\ missed'[c] = missed[c]
        /\ attempts'[picked[v]] = seen[v] + 1
        /\ missed'[picked[v]] = missed[picked[v]] \cup {v}
    BY <1>1, <2>1, <2>2
  <2> QED
    BY <1>1, <1>2, <1>3, <2>3 DEF RecordMiss
<1>4. CASE picked[v] \notin Rows
  <2>1. UNCHANGED <<attempts, missed>>
    BY <1>4 DEF RecordMiss
  <2> QED
    BY <1>1, <1>2, <2>1 DEF RecordMiss, OtpTypeOK
<1> QED
  BY <1>3, <1>4

\* What accepting a code changes.
LEMMA UseStep ==
  ASSUME OtpTypeOK, RowsInv, NEW v \in Verify, UseOtp(v)
  PROVE  /\ picked[v] \in Code /\ pc[v] = "use" /\ status[picked[v]] # "none"
         /\ seen' \in [Verify -> Nat] /\ picked' \in [Verify -> Code \cup {NoUser}]
         /\ \A w \in Verify \ {v} : seen'[w] = seen[w] /\ picked'[w] = picked[w]
         /\ status' \in [Code -> {"none", "UNUSED", "USED", "pruned"}]
         /\ usedBy' \in [Code -> SUBSET Verify]
         /\ \A c \in Code \ {picked[v]} : status'[c] = status[c] /\ usedBy'[c] = usedBy[c]
         /\ \/ /\ Goto(v, "user") /\ status'[picked[v]] = "USED" /\ picked[v] \in Rows
               /\ usedBy'[picked[v]] = usedBy[picked[v]] \cup {v}
            \/ Goto(v, "failed") /\ UNCHANGED <<status, usedBy>>
         /\ UNCHANGED <<otpNow, linked, createdAt, rank, attempts, delivery, users, account,
                        missed, flagged>>
<1>1. picked[v] \in Code /\ pc[v] = "use" /\ status[picked[v]] # "none"
  BY DEF UseOtp, RowsInv
<1>2. /\ seen' \in [Verify -> Nat] /\ picked' \in [Verify -> Code \cup {NoUser}]
      /\ \A w \in Verify \ {v} : seen'[w] = seen[w] /\ picked'[w] = picked[w]
  BY DEF UseOtp, OtpTypeOK
<1>3. /\ status \in [Code -> {"none", "UNUSED", "USED", "pruned"}]
      /\ usedBy \in [Code -> SUBSET Verify]
  BY DEF OtpTypeOK
<1>4. CASE picked[v] \in Rows
  <2>1. /\ status' = [status EXCEPT ![picked[v]] = "USED"]
        /\ usedBy' = [usedBy EXCEPT ![picked[v]] = @ \cup {v}]
        /\ Goto(v, "user")
    BY <1>4 DEF UseOtp
  <2>2. /\ status' \in [Code -> {"none", "UNUSED", "USED", "pruned"}]
        /\ usedBy' \in [Code -> SUBSET Verify]
        /\ \A c \in Code \ {picked[v]} : status'[c] = status[c] /\ usedBy'[c] = usedBy[c]
        /\ status'[picked[v]] = "USED" /\ usedBy'[picked[v]] = usedBy[picked[v]] \cup {v}
    BY <1>1, <1>3, <2>1
  <2> QED
    BY <1>1, <1>2, <1>4, <2>1, <2>2 DEF UseOtp
<1>5. CASE picked[v] \notin Rows
  <2>1. Goto(v, "failed") /\ UNCHANGED <<status, usedBy>>
    BY <1>5 DEF UseOtp
  <2> QED
    BY <1>1, <1>2, <1>3, <2>1 DEF UseOtp
<1> QED
  BY <1>4, <1>5

\* What looking a code up changes: the verify ends, or goes on with an unused row.
LEMMA FindStep ==
  ASSUME OtpTypeOK, NEW v \in Verify, FindOtp(v)
  PROVE  /\ pc[v] = "find"
         /\ \/ Goto(v, "failed") /\ UNCHANGED <<picked, seen>>
            \/ \E c \in Unused :
                 /\ Goto(v, "use") \/ Goto(v, "miss")
                 /\ picked' \in [Verify -> Code \cup {NoUser}] /\ seen' \in [Verify -> Nat]
                 /\ picked'[v] = c /\ seen'[v] = attempts[c]
                 /\ \A w \in Verify \ {v} : seen'[w] = seen[w] /\ picked'[w] = picked[w]
         /\ UNCHANGED <<otpNow, linked, otpRow, delivery, users, account, history>>
<1>1. CASE Goto(v, "failed") /\ UNCHANGED <<picked, seen>>
  BY <1>1 DEF FindOtp
<1>2. CASE ~(Goto(v, "failed") /\ UNCHANGED <<picked, seen>>)
  <2>1. PICK c \in Newest(Unused) :
          /\ \E code \in delivered \cup {NoUser} : Goto(v, IF code = c THEN "use" ELSE "miss")
          /\ picked' = [picked EXCEPT ![v] = c]
          /\ seen' = [seen EXCEPT ![v] = attempts[c]]
    BY <1>2 DEF FindOtp
  <2>2. c \in Unused /\ c \in Code
    BY DEF Newest, Unused, Rows
  <2>3. Goto(v, "use") \/ Goto(v, "miss")
    BY <2>1
  <2> QED
    BY <2>1, <2>2, <2>3 DEF FindOtp, OtpTypeOK
<1> QED
  BY <1>1, <1>2

\* Every step keeps the rows, the jobs and the requests well formed.
LEMMA OtpRowsStep == OtpTypeOK /\ RowsInv /\ [OtpNext]_otpVars => OtpTypeOK' /\ RowsInv'
<1> SUFFICES ASSUME OtpTypeOK, RowsInv, [OtpNext]_otpVars PROVE OtpTypeOK' /\ RowsInv'
  OBVIOUS
<1> DEFINE Kept == OtpTypeOK' /\ RowsInv'
<1> USE OtpAssumption
<1>1. ASSUME LinkPhone \/ OtpTick PROVE Kept
  <2>1. /\ linked' \in BOOLEAN
        /\ UNCHANGED <<otpRow, delivery, users, pc, read, history>>
    BY <1>1 DEF LinkPhone, OtpTick, OtpTypeOK
  <2>2. otpNow' \in 0 .. OtpMaxTime
    BY <1>1 DEF LinkPhone, OtpTick, OtpTypeOK
  <2> QED
    BY <2>1, <2>2 DEF OtpTypeOK, RowsInv, otpRow, delivery, users, read, history
<1>2. ASSUME PruneCodes PROVE Kept
  BY <1>2 DEF PruneCodes, Rows, OtpTypeOK, RowsInv, delivery, users, read
<1>3. ASSUME NEW c \in Code, OtpCheck(c) PROVE Kept
  <2>1. PICK s \in {"failed", "done", "create"} : Goto(c, s)
    BY <1>3 DEF OtpCheck
  <2>2. /\ pc' \in [Code \cup Verify -> {"idle", "create", "queue", "find", "miss", "use",
                                  "user", "legacy", "migrate", "insert", "done", "failed"}]
        /\ pc'[c] = s /\ \A a \in (Code \cup Verify) \ {c} : pc'[a] = pc[a]
    BY <2>1, GotoStep
  <2>3. OtpTypeOK'
    BY <1>3, <2>2 DEF OtpCheck, OtpTypeOK, otpRow, delivery, users, read, history
  <2>4. RowsInv'
    BY <1>3, <2>2 DEF OtpCheck, RowsInv, otpRow, delivery, read, history
  <2> QED
    BY <2>3, <2>4
<1>4. ASSUME NEW c \in Code, OtpCreate(c) PROVE Kept
  <2>1. Cardinality({d \in Code : rank[d] # 0}) \in Nat
    <3> DEFINE S == {d \in Code : rank[d] # 0}
    <3>1. S \in SUBSET Code
      OBVIOUS
    <3>2. IsFiniteSet(S)
      BY <3>1, FS_Subset
    <3> QED
      BY <3>2, FS_CardinalityType
  <2>2. rank' \in [Code -> Nat]
    BY <1>4, <2>1 DEF OtpCreate, OtpTypeOK
  <2>3. /\ pc' \in [Code \cup Verify -> {"idle", "create", "queue", "find", "miss", "use",
                                  "user", "legacy", "migrate", "insert", "done", "failed"}]
        /\ pc'[c] = "queue" /\ \A a \in (Code \cup Verify) \ {c} : pc'[a] = pc[a]
    BY <1>4, GotoStep DEF OtpCreate
  <2>4. OtpTypeOK'
    BY <1>4, <2>2, <2>3 DEF OtpCreate, OtpTypeOK, delivery, users, read, history
  <2>5. RowsInv'
    BY <1>4, <2>3 DEF OtpCreate, OtpTypeOK, RowsInv, delivery, read, history
  <2> QED
    BY <2>4, <2>5
<1>5. ASSUME NEW c \in Code, OtpQueue(c) PROVE Kept
  <2>1. PICK s \in {"failed", "done"} : Goto(c, s)
    BY <1>5 DEF OtpQueue
  <2>2. /\ job' \in [Code -> {"none", "queued", "done", "failed"}]
        /\ \A d \in Code \ {c} : job'[d] = job[d]
        /\ job'[c] \in {job[c], "queued"}
    BY <1>5 DEF OtpQueue, OtpTypeOK
  <2>3. /\ pc' \in [Code \cup Verify -> {"idle", "create", "queue", "find", "miss", "use",
                                  "user", "legacy", "migrate", "insert", "done", "failed"}]
        /\ pc'[c] = s /\ \A a \in (Code \cup Verify) \ {c} : pc'[a] = pc[a]
    BY <2>1, GotoStep
  <2>4. OtpTypeOK'
    BY <1>5, <2>2, <2>3 DEF OtpQueue, OtpTypeOK, otpRow, users, read, history
  <2>5. RowsInv'
    BY <1>5, <2>2, <2>3 DEF OtpQueue, OtpTypeOK, RowsInv, otpRow, read, history
  <2> QED
    BY <2>4, <2>5
<1>6. ASSUME NEW c \in Code, SendOtp(c) PROVE Kept
  <2>1. /\ sends' \in [Code -> 0 .. MaxSends] /\ delivered' \in SUBSET Code
        /\ sends'[c] = sends[c] + 1 /\ \A d \in Code \ {c} : sends'[d] = sends[d]
    BY <1>6 DEF SendOtp, OtpTypeOK, RowsInv
  <2>2. /\ job' \in [Code -> {"none", "queued", "done", "failed"}]
        /\ \A d \in Code \ {c} : job'[d] = job[d]
        /\ job'[c] \in {"done", "failed", "queued"}
        /\ job'[c] = "queued" => sends'[c] # MaxSends
    BY <1>6 DEF SendOtp, OtpTypeOK
  <2> QED
    BY <1>6, <2>1, <2>2 DEF SendOtp, OtpTypeOK, RowsInv, otpRow, users, read, history
<1>7. ASSUME NEW v \in Verify, Lockout(v) PROVE Kept
  <2>1. PICK s \in {"failed", "find"} : Goto(v, s)
    BY <1>7 DEF Lockout
  <2>2. flagged' \in SUBSET Verify
    BY <1>7 DEF Lockout, OtpTypeOK
  <2>3. OtpTypeOK'
    BY <1>7, <2>1, <2>2, GotoStep DEF Lockout, OtpTypeOK, otpRow, delivery, users, read
  <2>4. RowsInv'
    BY <1>7, <2>1, GotoStep DEF Lockout, RowsInv, otpRow, delivery, users, read
  <2> QED
    BY <2>3, <2>4
<1>8. ASSUME NEW v \in Verify, FindOtp(v) PROVE Kept
  <2>1. CASE Goto(v, "failed") /\ UNCHANGED <<picked, seen>>
    <3>1. OtpTypeOK'
      BY <1>8, <2>1, GotoStep, FindStep DEF OtpTypeOK, otpRow, delivery, users, history
    <3>2. RowsInv'
      BY <1>8, <2>1, GotoStep, FindStep DEF RowsInv, otpRow, delivery, history
    <3> QED
      BY <3>1, <3>2
  <2>2. CASE ~(Goto(v, "failed") /\ UNCHANGED <<picked, seen>>)
    <3>1. PICK c \in Unused :
                 /\ Goto(v, "use") \/ Goto(v, "miss")
                 /\ picked' \in [Verify -> Code \cup {NoUser}] /\ seen' \in [Verify -> Nat]
                 /\ picked'[v] = c /\ seen'[v] = attempts[c]
                 /\ \A w \in Verify \ {v} : seen'[w] = seen[w] /\ picked'[w] = picked[w]
      BY <1>8, <2>2, FindStep
    <3>2. OtpTypeOK'
      BY <1>8, <3>1, GotoStep, FindStep DEF OtpTypeOK, otpRow, delivery, users, history
    <3>3. RowsInv'
      BY <1>8, <3>1, GotoStep, FindStep
      DEF RowsInv, otpRow, delivery, history, Unused, Rows
    <3> QED
      BY <3>2, <3>3
  <2> QED
    BY <2>1, <2>2
<1>9. ASSUME NEW v \in Verify, RecordMiss(v) PROVE Kept
  <2>1. /\ pc' \in [Code \cup Verify -> {"idle", "create", "queue", "find", "miss", "use",
                                  "user", "legacy", "migrate", "insert", "done", "failed"}]
        /\ pc'[v] = "failed" /\ \A a \in (Code \cup Verify) \ {v} : pc'[a] = pc[a]
    BY <1>9, GotoStep, MissStep
  <2>2. OtpTypeOK'
    BY <1>9, MissStep, <2>1 DEF OtpTypeOK, delivery, users
  <2>3. \A c \in Code : /\ missed'[c] \subseteq missed[c] \cup {v}
                        /\ status[c] = "none" => missed'[c] = missed[c]
    BY <1>9, MissStep DEF Rows
  <2>4. RowsInv'
    BY <1>9, MissStep, <2>1, <2>3 DEF RowsInv, delivery
  <2> QED
    BY <2>2, <2>4
<1>10. ASSUME NEW v \in Verify, UseOtp(v) PROVE Kept
  <2>1. OtpTypeOK'
    BY <1>10, UseStep, GotoStep DEF OtpTypeOK, delivery, users
  <2>2. pc'[v] \in {"user", "failed"} /\ \A a \in (Code \cup Verify) \ {v} : pc'[a] = pc[a]
    BY <1>10, UseStep, GotoStep
  <2>3. \A c \in Code : /\ usedBy'[c] \subseteq usedBy[c] \cup {v}
                        /\ usedBy'[c] = usedBy[c] \/ status'[c] = "USED"
                        /\ status[c] \in {"USED", "pruned"} => status'[c] \in {"USED", "pruned"}
                        /\ status[c] = "none" <=> status'[c] = "none"
    BY <1>10, UseStep
  <2>4. RowsInv'
    BY <1>10, UseStep, <2>2, <2>3 DEF RowsInv, delivery
  <2> QED
    BY <2>1, <2>4
<1>11. ASSUME NEW v \in Verify, FindUser(v) PROVE Kept
  <2>1. PICK s \in {"done", "legacy"} : Goto(v, s)
    BY <1>11 DEF FindUser
  <2>2. OtpTypeOK'
    BY <1>11, <2>1, GotoStep DEF FindUser, OtpTypeOK, otpRow, delivery, users, history
  <2>3. RowsInv'
    BY <1>11, <2>1, GotoStep DEF FindUser, RowsInv, otpRow, delivery, history
  <2> QED
    BY <2>2, <2>3
<1>12. ASSUME NEW v \in Verify, FindLegacy(v) PROVE Kept
  <2>1. PICK s \in {"migrate", "insert"} : Goto(v, s)
    BY <1>12 DEF FindLegacy
  <2>2. OtpTypeOK'
    BY <1>12, <2>1, GotoStep DEF FindLegacy, OtpTypeOK, otpRow, delivery, users, history
  <2>3. RowsInv'
    BY <1>12, <2>1, GotoStep DEF FindLegacy, RowsInv, otpRow, delivery, history
  <2> QED
    BY <2>2, <2>3
<1>13. ASSUME NEW v \in Verify, MigrateUser(v) PROVE Kept
  <2>1. hmacUser' \in User \cup {NoUser} /\ shaUser' \in User \cup {NoUser}
    BY <1>13 DEF MigrateUser, OtpTypeOK
  <2>2. OtpTypeOK'
    BY <1>13, <2>1, GotoStep DEF MigrateUser, OtpTypeOK, otpRow, delivery, read, history
  <2>3. RowsInv'
    BY <1>13, GotoStep DEF MigrateUser, RowsInv, otpRow, delivery, read, history
  <2> QED
    BY <2>2, <2>3
<1>14. ASSUME NEW v \in Verify, InsertUser(v) PROVE Kept
  <2>1. PICK s \in {"done", "failed"} : Goto(v, s)
    BY <1>14 DEF InsertUser
  <2>2. OtpTypeOK'
    BY <1>14, <2>1, GotoStep DEF InsertUser, OtpTypeOK, otpRow, delivery, history, User
  <2>3. RowsInv'
    BY <1>14, <2>1, GotoStep DEF InsertUser, RowsInv, otpRow, delivery, history
  <2> QED
    BY <2>2, <2>3
<1>15. ASSUME UNCHANGED otpVars PROVE Kept
  BY <1>15 DEF otpVars, OtpTypeOK, RowsInv, otpRow, delivery, users, read, history
<1> HIDE DEF Kept
<1>16. Kept
  BY <1>1, <1>2, <1>3, <1>4, <1>5, <1>6, <1>7, <1>8, <1>9, <1>10, <1>11, <1>12, <1>13,
     <1>14, <1>15 DEF OtpNext
<1> QED
  BY <1>16 DEF Kept

\* What the steps do to the accounts of the phone: every other step leaves them, and the
\* requests that look for one, alone.
LEMMA AccountStep ==
  OtpTypeOK /\ PhoneInv /\ OneAccountPerPhone /\ RowsInv /\ [OtpNext]_otpVars
    => PhoneInv' /\ OneAccountPerPhone'
<1> SUFFICES ASSUME OtpTypeOK, PhoneInv, OneAccountPerPhone, RowsInv, [OtpNext]_otpVars
             PROVE  PhoneInv' /\ OneAccountPerPhone'
  OBVIOUS
<1> DEFINE Seeking == {"done", "migrate", "insert"}
           Same == /\ UNCHANGED <<users, account>>
                   /\ \A v \in Verify : pc'[v] \in Seeking => pc'[v] = pc[v]
           Kept == PhoneInv' /\ OneAccountPerPhone'
<1> USE OtpAssumption
<1>1. ASSUME Same PROVE Kept
  BY <1>1 DEF PhoneInv, OneAccountPerPhone, users
<1>2. ASSUME LinkPhone \/ OtpTick \/ PruneCodes PROVE Same
  BY <1>2 DEF LinkPhone, OtpTick, PruneCodes, users, read
<1>3. ASSUME NEW c \in Code, OtpCheck(c) \/ OtpCreate(c) \/ OtpQueue(c) \/ SendOtp(c)
      PROVE  Same
  <2>1. UNCHANGED <<users, account>>
    BY <1>3 DEF OtpCheck, OtpCreate, OtpQueue, SendOtp, users, read
  <2>2. UNCHANGED pc \/ \E s \in {"failed", "done", "create", "queue"} : Goto(c, s)
    BY <1>3 DEF OtpCheck, OtpCreate, OtpQueue, SendOtp
  <2>3. \A v \in Verify : pc'[v] = pc[v]
    BY <2>2, GotoStep
  <2> QED
    BY <2>1, <2>3
<1>4. ASSUME NEW v \in Verify, Lockout(v) \/ FindOtp(v) \/ RecordMiss(v) \/ UseOtp(v)
      PROVE  Same
  <2>1. UNCHANGED <<users, account>>
    BY <1>4 DEF Lockout, FindOtp, RecordMiss, UseOtp, users, read
  <2>2. \E s \in {"failed", "find", "miss", "use", "user"} : Goto(v, s)
    BY <1>4, FindStep DEF Lockout, RecordMiss, UseOtp
  <2>3. \A w \in Verify : pc'[w] \in Seeking => pc'[w] = pc[w]
    BY <2>2, GotoStep
  <2> QED
    BY <2>1, <2>3
<1>5. ASSUME NEW v \in Verify, FindUser(v) PROVE Kept
  <2>1. PICK s \in {"done", "legacy"} : Goto(v, s) /\ (s = "done" => hmacUser # NoUser)
    BY <1>5 DEF FindUser
  <2>2. pc'[v] = s /\ \A w \in Verify \ {v} : pc'[w] = pc[w]
    BY <2>1, GotoStep
  <2> QED
    BY <1>5, <2>1, <2>2 DEF FindUser, PhoneInv, OneAccountPerPhone, users, OtpTypeOK
<1>6. ASSUME NEW v \in Verify, FindLegacy(v) PROVE Kept
  <2>1. PICK s \in {"migrate", "insert"} :
          Goto(v, s) /\ (s = "migrate" <=> shaUser # NoUser)
    BY <1>6 DEF FindLegacy
  <2>2. pc'[v] = s /\ \A w \in Verify \ {v} : pc'[w] = pc[w]
    BY <2>1, GotoStep
  <2> QED
    BY <1>6, <2>1, <2>2 DEF FindLegacy, PhoneInv, OneAccountPerPhone, users, OtpTypeOK
<1>7. ASSUME NEW v \in Verify, MigrateUser(v) PROVE Kept
  <2>1. pc'[v] = "done" /\ \A w \in Verify \ {v} : pc'[w] = pc[w]
    BY <1>7, GotoStep DEF MigrateUser
  <2> QED
    BY <1>7, <2>1 DEF MigrateUser, PhoneInv, OneAccountPerPhone, read
<1>8. ASSUME NEW v \in Verify, InsertUser(v) PROVE Kept
  <2>1. PICK s \in {"done", "failed"} : Goto(v, s) /\ (s = "done" => hmacUser = NoUser)
    BY <1>8 DEF InsertUser
  <2>2. pc'[v] = s /\ \A w \in Verify \ {v} : pc'[w] = pc[w]
    BY <2>1, GotoStep
  <2>3. CASE hmacUser = NoUser
    BY <1>8, <2>2, <2>3 DEF InsertUser, PhoneInv, OneAccountPerPhone, OtpTypeOK
  <2>4. CASE hmacUser # NoUser
    BY <1>8, <2>1, <2>2, <2>4 DEF InsertUser, PhoneInv, OneAccountPerPhone
  <2> QED
    BY <2>3, <2>4
<1>9. ASSUME UNCHANGED otpVars PROVE Same
  BY <1>9 DEF otpVars, users, read
<1> HIDE DEF Kept, Same
<1>10. Kept
  BY <1>1, <1>2, <1>3, <1>4, <1>5, <1>6, <1>7, <1>8, <1>9 DEF OtpNext
<1> QED
  BY <1>10 DEF Kept

-----------------------------------------------------------------------------
(* Counting.                                                               *)

\* The verifies that are counted are finitely many.
LEMMA VerifiesFinite == \A S \in SUBSET Verify : IsFiniteSet(S) /\ Cardinality(S) \in Nat
  BY OtpAssumption, FS_Subset, FS_CardinalityType

\* The sum of the attempts is a number, and when no row has more guesses than attempts,
\* the rows of the window have no more guesses than it: number the guesses of every row,
\* and map each guess to the pair of its row and its number there.
LEMMA AttemptsBoundGuesses ==
  ASSUME OtpTypeOK, \A c \in Code : Cardinality(Guessed(c)) <= attempts[c]
  PROVE  TotalAttempts \in Nat /\ Cardinality(Guesses) <= TotalAttempts
<1> DEFINE Pairs == UNION {{c} \X (1 .. attempts[c]) : c \in InWindow}
<1>1. IsFiniteSet(Pairs)
  <2> DEFINE PairsOf == [c \in InWindow |-> {c} \X (1 .. attempts[c])]
             Sets == {{c} \X (1 .. attempts[c]) : c \in InWindow}
  <2>1. IsFiniteSet(InWindow)
    BY OtpAssumption, FS_Subset DEF InWindow, Rows
  <2>2. PairsOf \in Surjection(InWindow, Sets)
    BY DEF Surjection
  <2>3. IsFiniteSet(Sets)
    BY <2>1, <2>2, FS_Surjection
  <2>4. ASSUME NEW c \in InWindow PROVE IsFiniteSet({c} \X (1 .. attempts[c]))
    <3>1. attempts[c] \in Nat
      BY DEF OtpTypeOK, InWindow, Rows
    <3>2. IsFiniteSet({c})
      BY FS_Singleton
    <3>3. IsFiniteSet(1 .. attempts[c])
      BY <3>1, FS_Interval
    <3> QED
      BY <3>2, <3>3, FS_Product
  <2> QED
    BY <2>3, <2>4, FS_UNION
<1>2. \A c \in Code : IsFiniteSet(Guessed(c)) /\ Cardinality(Guessed(c)) \in Nat
  BY VerifiesFinite DEF Guessed, OtpTypeOK
<1> DEFINE Numbered(c) == CHOOSE f : f \in Bijection(1 .. Cardinality(Guessed(c)), Guessed(c))
           Number(c, v) == CHOOSE i \in 1 .. Cardinality(Guessed(c)) : Numbered(c)[i] = v
           RowOf(v) == CHOOSE c \in InWindow : v \in missed[c]
           PairOf == [v \in Guesses |-> <<RowOf(v), Number(RowOf(v), v)>>]
<1>3. ASSUME NEW c \in Code, NEW v \in Guessed(c)
      PROVE  /\ Number(c, v) \in 1 .. Cardinality(Guessed(c)) /\ Numbered(c)[Number(c, v)] = v
  <2>1. Numbered(c) \in Bijection(1 .. Cardinality(Guessed(c)), Guessed(c))
    BY <1>2, FS_CardinalityType DEF ExistsBijection
  <2> HIDE DEF Numbered
  <2>2. \E i \in 1 .. Cardinality(Guessed(c)) : Numbered(c)[i] = v
    BY <2>1 DEF Bijection, Surjection
  <2> QED
    BY <2>2
<1>4. ASSUME NEW v \in Guesses
      PROVE  RowOf(v) \in InWindow /\ RowOf(v) \in Code /\ v \in Guessed(RowOf(v))
  <2>1. \E c \in InWindow : v \in missed[c]
    BY DEF Guesses
  <2>2. RowOf(v) \in InWindow /\ v \in missed[RowOf(v)]
    BY <2>1
  <2> HIDE DEF RowOf
  <2>3. v \notin flagged
    BY DEF Guesses
  <2> QED
    BY <2>2, <2>3 DEF Guessed, InWindow, Rows
<1> HIDE DEF Number, Numbered, RowOf
<1>5. ASSUME NEW v \in Guesses PROVE PairOf[v] \in Pairs
  <2>1. Number(RowOf(v), v) \in 1 .. Cardinality(Guessed(RowOf(v)))
    BY <1>3, <1>4
  <2>2. Number(RowOf(v), v) \in 1 .. attempts[RowOf(v)]
    BY <1>2, <1>4, <2>1 DEF OtpTypeOK
  <2> QED
    BY <1>4, <2>2
<1>6. ASSUME NEW v \in Guesses, NEW w \in Guesses, PairOf[v] = PairOf[w] PROVE v = w
  <2>1. RowOf(v) = RowOf(w) /\ Number(RowOf(v), v) = Number(RowOf(w), w)
    BY <1>6
  <2> QED
    BY <1>3, <1>4, <2>1
<1>7. PairOf \in Injection(Guesses, Pairs)
  BY <1>5, <1>6 DEF Injection, IsInjective
<1> HIDE DEF Pairs, PairOf
<1>8. Cardinality(Guesses) <= Cardinality(Pairs) /\ Cardinality(Pairs) \in Nat
  BY <1>1, <1>7, FS_Injection, FS_CardinalityType
<1> QED
  BY <1>8 DEF TotalAttempts, Pairs

-----------------------------------------------------------------------------
(* The verifies under way, and their guesses.                              *)

\* No verify comes under way or moves on among those that are, and none is flagged.
Quiet ==
  /\ flagged' = flagged
  /\ \A v \in Verify : pc'[v] \in {"find", "miss", "use"} =>
       pc'[v] = pc[v] /\ picked'[v] = picked[v] /\ seen'[v] = seen[v]

\* No guess is added, and no attempts column changes but that of a row without guesses.
Uncounted ==
  /\ \A c \in Code : missed'[c] = {} \/ (missed'[c] = missed[c] /\ attempts'[c] = attempts[c])
  /\ \A c \in InWindow' : c \in InWindow \/ missed'[c] = {}

\* Only the lockout check and a lookup that finds a row are not quiet.
LEMMA QuietStep ==
  ASSUME OtpTypeOK, RowsInv, [OtpNext]_otpVars
  PROVE  \/ Quiet
         \/ \E v \in Verify : Lockout(v)
         \/ \E v \in Verify : FindOtp(v) /\ ~(Goto(v, "failed") /\ UNCHANGED <<picked, seen>>)
<1> USE OtpAssumption
<1>1. ASSUME LinkPhone \/ OtpTick \/ PruneCodes PROVE Quiet
  BY <1>1 DEF LinkPhone, OtpTick, PruneCodes, read, history, Quiet
<1>2. ASSUME NEW c \in Code, OtpCheck(c) \/ OtpCreate(c) \/ OtpQueue(c) \/ SendOtp(c)
      PROVE  Quiet
  <2>1. UNCHANGED <<flagged, picked, seen>>
    BY <1>2 DEF OtpCheck, OtpCreate, OtpQueue, SendOtp, read, history
  <2>2. UNCHANGED pc \/ \E s \in {"failed", "done", "create", "queue"} : Goto(c, s)
    BY <1>2 DEF OtpCheck, OtpCreate, OtpQueue, SendOtp
  <2>3. \A v \in Verify : pc'[v] = pc[v]
    BY <2>2, GotoStep
  <2> QED
    BY <2>1, <2>3 DEF Quiet
<1>3. ASSUME NEW v \in Verify, RecordMiss(v) PROVE Quiet
  BY <1>3, MissStep, GotoStep DEF Quiet
<1>4. ASSUME NEW v \in Verify, UseOtp(v) PROVE Quiet
  BY <1>4, UseStep, GotoStep DEF Quiet
<1>5. ASSUME NEW v \in Verify, FindOtp(v), Goto(v, "failed") /\ UNCHANGED <<picked, seen>>
      PROVE  Quiet
  <2>1. UNCHANGED history
    BY <1>5, FindStep
  <2> QED
    BY <1>5, <2>1, GotoStep DEF Quiet, history
<1>6. ASSUME NEW v \in Verify,
             FindUser(v) \/ FindLegacy(v) \/ MigrateUser(v) \/ InsertUser(v)
      PROVE  Quiet
  <2>1. UNCHANGED <<flagged, picked, seen>>
    BY <1>6 DEF FindUser, FindLegacy, MigrateUser, InsertUser, read, history
  <2>2. \E s \in {"done", "failed", "legacy", "migrate", "insert"} : Goto(v, s)
    BY <1>6 DEF FindUser, FindLegacy, MigrateUser, InsertUser
  <2>3. \A w \in Verify : pc'[w] \in {"find", "miss", "use"} => pc'[w] = pc[w]
    BY <2>2, GotoStep
  <2> QED
    BY <2>1, <2>3 DEF Quiet
<1>7. ASSUME UNCHANGED otpVars PROVE Quiet
  BY <1>7 DEF otpVars, read, history, Quiet
<1> QED
  BY <1>1, <1>2, <1>3, <1>4, <1>5, <1>6, <1>7 DEF OtpNext

\* Only the answer to a wrong code counts.
LEMMA UncountedStep ==
  ASSUME OtpTypeOK, RowsInv, [OtpNext]_otpVars
  PROVE  Uncounted \/ \E v \in Verify : RecordMiss(v)
<1> USE OtpAssumption
<1>1. ASSUME LinkPhone PROVE Uncounted
  BY <1>1 DEF LinkPhone, otpRow, history, Uncounted, InWindow, Rows
<1>2. ASSUME OtpTick PROVE Uncounted
  BY <1>2 DEF OtpTick, otpRow, history, Uncounted, InWindow, Rows, OtpTypeOK
<1>3. ASSUME PruneCodes PROVE Uncounted
  BY <1>3 DEF PruneCodes, Uncounted, InWindow, Rows, OtpTypeOK
<1>4. ASSUME NEW c \in Code, OtpCreate(c) PROVE Uncounted
  BY <1>4 DEF OtpCreate, history, Uncounted, InWindow, Rows, OtpTypeOK, RowsInv
<1>5. ASSUME UNCHANGED <<otpNow, otpRow, missed>> PROVE Uncounted
  BY <1>5 DEF otpRow, Uncounted, InWindow, Rows
<1>6. ASSUME NEW c \in Code, OtpCheck(c) \/ OtpQueue(c) \/ SendOtp(c)
      PROVE  UNCHANGED <<otpNow, otpRow, missed>>
  BY <1>6 DEF OtpCheck, OtpQueue, SendOtp, history
<1>7. ASSUME NEW v \in Verify, UseOtp(v) PROVE Uncounted
  BY <1>7, UseStep DEF Uncounted, InWindow, Rows
<1>8. ASSUME NEW v \in Verify, Lockout(v) \/ FindOtp(v) \/ FindUser(v) \/ FindLegacy(v)
                                 \/ MigrateUser(v) \/ InsertUser(v)
      PROVE  UNCHANGED <<otpNow, otpRow, missed>>
  BY <1>8 DEF Lockout, FindOtp, FindUser, FindLegacy, MigrateUser, InsertUser, history
<1>9. ASSUME UNCHANGED otpVars PROVE UNCHANGED <<otpNow, otpRow, missed>>
  BY <1>9 DEF otpVars, history
<1> QED
  BY <1>1, <1>2, <1>3, <1>4, <1>5, <1>6, <1>7, <1>8, <1>9 DEF OtpNext

\* Every step keeps the verify that does not overlap alone, and the code it uses its own.
LEMMA SoleStep ==
  OtpTypeOK /\ RowsInv /\ SoleInv /\ CodeUsedOnce /\ [OtpNext]_otpVars
    => SoleInv' /\ CodeUsedOnce'
<1> SUFFICES ASSUME OtpTypeOK, RowsInv, SoleInv, CodeUsedOnce, [OtpNext]_otpVars
             PROVE  SoleInv' /\ CodeUsedOnce'
  OBVIOUS
<1> DEFINE Kept == SoleInv' /\ CodeUsedOnce'
<1> USE OtpAssumption
<1>1. ASSUME Quiet, usedBy' = usedBy PROVE Kept
  BY <1>1 DEF Quiet, SoleInv, CodeUsedOnce, Busy
<1>2. ASSUME NEW v \in Verify, Lockout(v) PROVE Kept
  <2>1. PICK s \in {"failed", "find"} : Goto(v, s)
    BY <1>2 DEF Lockout
  <2>2. pc'[v] = s /\ \A w \in Verify \ {v} : pc'[w] = pc[w]
    BY <2>1, GotoStep
  <2>3. /\ UNCHANGED <<picked, usedBy>> /\ pc[v] = "idle"
        /\ flagged' = IF Busy # {} THEN flagged \cup {v} ELSE flagged
    BY <1>2 DEF Lockout, read
  <2>4. SoleInv'
    BY <2>2, <2>3 DEF SoleInv, Busy
  <2>5. CodeUsedOnce'
    <3>1. \A c \in Code : usedBy'[c] \ flagged' = usedBy[c] \ flagged
      BY <2>3 DEF RowsInv
    <3> QED
      BY <3>1 DEF CodeUsedOnce
  <2> QED
    BY <2>4, <2>5
<1>3. ASSUME NEW v \in Verify, FindOtp(v), ~(Goto(v, "failed") /\ UNCHANGED <<picked, seen>>)
      PROVE  Kept
  <2>1. PICK c \in Unused :
          /\ Goto(v, "use") \/ Goto(v, "miss")
          /\ picked'[v] = c
          /\ \A w \in Verify \ {v} : picked'[w] = picked[w]
    BY <1>3, FindStep
  <2>2. /\ pc[v] = "find" /\ pc'[v] \in {"use", "miss"}
        /\ \A w \in Verify \ {v} : pc'[w] = pc[w]
    BY <1>3, <2>1, FindStep, GotoStep
  <2>3. UNCHANGED <<usedBy, flagged>>
    BY <1>3, FindStep DEF history
  <2>4. usedBy[c] = {}
    BY DEF Unused, Rows, RowsInv
  <2>5. SoleInv'
    BY <2>1, <2>2, <2>3, <2>4 DEF SoleInv, Busy
  <2> QED
    BY <2>3, <2>5 DEF CodeUsedOnce
<1>4. ASSUME NEW v \in Verify, UseOtp(v) PROVE Kept
  <2>1. Quiet /\ pc[v] = "use" /\ pc'[v] \notin {"find", "miss", "use"}
    BY <1>4, UseStep, GotoStep DEF Quiet
  <2>2. /\ picked[v] \in Code
        /\ \A c \in Code \ {picked[v]} : usedBy'[c] = usedBy[c]
        /\ usedBy'[picked[v]] \subseteq usedBy[picked[v]] \cup {v}
        /\ usedBy[picked[v]] \subseteq usedBy'[picked[v]]
    BY <1>4, UseStep
  <2>3. \A w \in Verify : pc[w] = "use" => picked[w] \in Code
    BY DEF RowsInv
  <2>4. SoleInv'
    BY <2>1, <2>2, <2>3 DEF SoleInv, Quiet, Busy
  <2>5. ASSUME NEW c \in Code PROVE Cardinality(usedBy'[c] \ flagged') <= 1
    <3>1. CASE usedBy'[c] \ flagged' = usedBy[c] \ flagged
      BY <3>1 DEF CodeUsedOnce
    <3>2. CASE usedBy'[c] \ flagged' # usedBy[c] \ flagged
      <4>1. c = picked[v] /\ v \notin flagged /\ flagged' = flagged
        BY <2>1, <2>2, <3>2 DEF Quiet
      <4>2. usedBy'[c] \ flagged' = {v}
        BY <2>1, <2>2, <3>2, <4>1 DEF SoleInv
      <4> QED
        BY <4>2, FS_Singleton
    <3> QED
      BY <3>1, <3>2
  <2> QED
    BY <2>4, <2>5 DEF CodeUsedOnce
<1>5. ASSUME ~\E v \in Verify : UseOtp(v) PROVE usedBy' = usedBy
  BY <1>5 DEF OtpNext, otpVars, history, LinkPhone, PruneCodes, OtpTick, OtpCheck, OtpCreate,
              OtpQueue, SendOtp, Lockout, FindOtp, RecordMiss, FindUser, FindLegacy,
              MigrateUser, InsertUser
<1> HIDE DEF Kept
<1>6. Kept
  BY <1>1, <1>2, <1>3, <1>4, <1>5, QuietStep
<1> QED
  BY <1>6 DEF Kept

\* Every step keeps the attempts columns up with the guesses, and the guesses below the limit.
LEMMA AttemptStep ==
  OtpTypeOK /\ RowsInv /\ SoleInv /\ AttemptInv /\ GuessesAreLimited /\ [OtpNext]_otpVars
    => AttemptInv' /\ GuessesAreLimited'
<1> SUFFICES ASSUME OtpTypeOK, RowsInv, SoleInv, AttemptInv, GuessesAreLimited,
                    [OtpNext]_otpVars
             PROVE  AttemptInv' /\ GuessesAreLimited'
  OBVIOUS
<1> DEFINE Kept == AttemptInv' /\ GuessesAreLimited'
<1> USE OtpAssumption
<1>0. /\ Guesses \in SUBSET Verify /\ Guesses' \in SUBSET Verify
      /\ \A c \in Code : Guessed(c) \in SUBSET Verify /\ Guessed(c)' \in SUBSET Verify
      /\ \A c \in Code : attempts[c] \in Nat /\ attempts'[c] \in Nat
      /\ \A v \in Verify : seen[v] \in Nat /\ seen'[v] \in Nat
      /\ \A v \in Verify : pc[v] = "miss" => picked[v] \in Code
      /\ MaxAttempts \in Nat
  <2>1. OtpTypeOK'
    BY OtpRowsStep
  <2> QED
    BY <2>1 DEF OtpTypeOK, RowsInv, Guesses, Guessed, InWindow, Rows
<1>1. /\ \A S \in SUBSET Verify : Cardinality(S) \in Nat
      /\ \A S, T \in SUBSET Verify :
           /\ T \subseteq S => Cardinality(T) <= Cardinality(S)
           /\ \A v \in Verify : T \subseteq S \cup {v} => Cardinality(T) <= Cardinality(S) + 1
  BY VerifiesFinite, Sizes
<1>2. ASSUME Uncounted, flagged \subseteq flagged'
      PROVE  /\ Guesses' \subseteq Guesses
             /\ \A c \in Code : /\ Guessed(c)' \subseteq Guessed(c)
                                /\ Guessed(c)' = {} \/ attempts'[c] = attempts[c]
             /\ \A c \in Code : Cardinality(Guessed(c)') <= attempts'[c]
  <2>1. Guesses' \subseteq Guesses
    BY <1>2 DEF Uncounted, Guesses, InWindow, Rows
  <2>2. \A c \in Code : /\ Guessed(c)' \subseteq Guessed(c)
                        /\ Guessed(c)' = {} \/ attempts'[c] = attempts[c]
    BY <1>2 DEF Uncounted, Guessed
  <2>3. ASSUME NEW c \in Code PROVE Cardinality(Guessed(c)') <= attempts'[c]
    <3>1. CASE Guessed(c)' = {}
      BY <1>0, <3>1, FS_EmptySet
    <3>2. CASE attempts'[c] = attempts[c]
      <4>1. Cardinality(Guessed(c)') <= Cardinality(Guessed(c))
        BY <1>0, <1>1, <2>2
      <4>2. Cardinality(Guessed(c)) <= attempts[c]
        BY DEF AttemptInv
      <4> QED
        BY <1>0, <1>1, <3>2, <4>1, <4>2
    <3> QED
      BY <2>2, <3>1, <3>2
  <2> QED
    BY <2>1, <2>2, <2>3
<1>3. ASSUME Uncounted, flagged \subseteq flagged' PROVE GuessesAreLimited'
  BY <1>0, <1>1, <1>2, <1>3 DEF GuessesAreLimited
<1>4. ASSUME Quiet, Uncounted PROVE Kept
  <2>1. Busy' \subseteq Busy /\ flagged' = flagged
    BY <1>4 DEF Quiet, Busy
  <2>2. \A v \in Verify : pc'[v] = "miss" =>
          /\ pc[v] = "miss" /\ picked'[v] = picked[v] /\ seen'[v] = seen[v]
          /\ Cardinality(Guessed(picked[v])') <= Cardinality(Guessed(picked[v]))
    BY <1>0, <1>1, <1>2, <1>4, <2>1 DEF Quiet
  <2>3. \A v \in Verify : pc'[v] = "miss" =>
          Cardinality(Guessed(picked[v])')
            <= IF Busy' \subseteq flagged' THEN seen'[v] + 1 ELSE seen'[v]
    BY <1>0, <1>1, <2>1, <2>2 DEF AttemptInv
  <2>4. Busy' \subseteq flagged' \/ Cardinality(Guesses') < MaxAttempts
    BY <1>0, <1>1, <1>2, <1>4, <2>1 DEF AttemptInv
  <2>5. AttemptInv'
    BY <1>2, <1>4, <2>1, <2>3, <2>4 DEF AttemptInv
  <2> QED
    BY <1>3, <1>4, <2>1, <2>5
<1>5. ASSUME NEW v \in Verify, Lockout(v) PROVE Kept
  <2>1. PICK s \in {"failed", "find"} :
          Goto(v, s) /\ (s = "find" <=> ~(TotalAttempts >= MaxAttempts))
    BY <1>5 DEF Lockout
  <2>2. pc'[v] = s /\ \A w \in Verify \ {v} : pc'[w] = pc[w]
    BY <2>1, GotoStep
  <2>3. /\ UNCHANGED <<picked, seen>> /\ pc[v] = "idle"
        /\ flagged' = IF Busy # {} THEN flagged \cup {v} ELSE flagged
    BY <1>5 DEF Lockout, read
  <2>4. Uncounted /\ flagged \subseteq flagged'
    BY <1>5, <2>3 DEF Lockout, otpRow, Uncounted, InWindow, Rows
  <2>5. Busy' \subseteq Busy \cup {v} /\ (s = "failed" => Busy' \subseteq Busy)
    BY <2>2 DEF Busy
  <2>6. \A w \in Verify : pc'[w] = "miss" =>
          /\ pc[w] = "miss" /\ picked'[w] = picked[w] /\ seen'[w] = seen[w]
          /\ Cardinality(Guessed(picked[w])') <= Cardinality(Guessed(picked[w]))
          /\ flagged' = flagged \cup {v}
    BY <1>0, <1>1, <1>2, <2>2, <2>3, <2>4 DEF Busy
  <2>7. \A w \in Verify : pc'[w] = "miss" =>
          Cardinality(Guessed(picked[w])')
            <= IF Busy' \subseteq flagged' THEN seen'[w] + 1 ELSE seen'[w]
    BY <1>0, <1>1, <2>5, <2>6 DEF AttemptInv
  <2>8. Busy' \subseteq flagged' \/ Cardinality(Guesses') < MaxAttempts
    <3>1. CASE Busy # {}
      BY <1>0, <1>1, <1>2, <2>3, <2>4, <2>5, <3>1 DEF AttemptInv
    <3>2. CASE s = "failed"
      BY <1>0, <1>1, <1>2, <2>4, <2>5, <3>2 DEF AttemptInv
    <3>3. CASE s = "find"
      <4>1. TotalAttempts \in Nat /\ Cardinality(Guesses) <= TotalAttempts
        BY AttemptsBoundGuesses DEF AttemptInv
      <4> QED
        BY <1>0, <1>1, <1>2, <2>1, <2>4, <3>3, <4>1
    <3> QED
      BY <3>2, <3>3
  <2>9. AttemptInv'
    BY <1>2, <2>4, <2>7, <2>8 DEF AttemptInv
  <2> QED
    BY <1>3, <2>4, <2>9
<1>6. ASSUME NEW v \in Verify, FindOtp(v), ~(Goto(v, "failed") /\ UNCHANGED <<picked, seen>>)
      PROVE  Kept
  <2>1. PICK c \in Unused :
          /\ Goto(v, "use") \/ Goto(v, "miss")
          /\ picked'[v] = c /\ seen'[v] = attempts[c]
          /\ \A w \in Verify \ {v} : picked'[w] = picked[w] /\ seen'[w] = seen[w]
    BY <1>6, FindStep
  <2>2. /\ pc[v] = "find" /\ pc'[v] \in {"use", "miss"}
        /\ \A w \in Verify \ {v} : pc'[w] = pc[w]
    BY <1>6, <2>1, FindStep, GotoStep
  <2>3. UNCHANGED <<otpNow, otpRow, missed, flagged>> /\ Busy' = Busy /\ c \in Code
    BY <1>6, <2>2, FindStep DEF history, Busy, Unused, Rows
  <2>4. Guesses' = Guesses /\ \A d \in Code : Guessed(d)' = Guessed(d) /\ attempts'[d] = attempts[d]
    BY <2>3 DEF otpRow, Guesses, Guessed, InWindow, Rows
  <2>5. ASSUME NEW w \in Verify, pc'[w] = "miss"
        PROVE  /\ picked'[w] \in Code
               /\ Cardinality(Guessed(picked'[w]))
                    <= IF Busy \subseteq flagged THEN seen'[w] + 1 ELSE seen'[w]
    <3>1. CASE w = v
      BY <1>0, <1>1, <2>1, <2>3, <3>1 DEF AttemptInv
    <3>2. CASE w # v
      BY <1>0, <2>1, <2>2, <2>5, <3>2 DEF AttemptInv
    <3> QED
      BY <3>1, <3>2
  <2>6. AttemptInv'
    BY <2>3, <2>4, <2>5 DEF AttemptInv, Guessed
  <2> QED
    BY <2>4, <2>6 DEF GuessesAreLimited
<1>7. ASSUME NEW v \in Verify, RecordMiss(v) PROVE Kept
  <2>1. /\ pc[v] = "miss" /\ pc'[v] = "failed" /\ picked[v] \in Code
        /\ \A w \in Verify \ {v} : pc'[w] = pc[w]
    <3>1. pc[v] = "miss" /\ Goto(v, "failed") /\ picked[v] \in Code
      BY <1>7 DEF RecordMiss, RowsInv
    <3> QED
      BY <3>1, GotoStep
  <2>0. Quiet
    BY <1>7, <2>1, MissStep DEF Quiet
  <2>2. Busy' \subseteq Busy \ {v} /\ v \in Busy /\ flagged' = flagged
    BY <2>0, <2>1 DEF Quiet, Busy
  <2>3. InWindow' = InWindow
    BY <1>7, MissStep DEF InWindow, Rows
  <2>4. CASE UNCHANGED <<attempts, missed>>
    BY <1>4, <2>0, <2>3, <2>4 DEF Uncounted
  <2>5. CASE ~UNCHANGED <<attempts, missed>>
    <3>1. /\ attempts'[picked[v]] = seen[v] + 1
          /\ missed'[picked[v]] = missed[picked[v]] \cup {v}
          /\ \A c \in Code \ {picked[v]} : attempts'[c] = attempts[c] /\ missed'[c] = missed[c]
      BY <1>7, <2>5, MissStep
    <3>2. /\ \A c \in Code : Guessed(c)' \subseteq Guessed(c) \cup ({v} \ flagged)
          /\ \A c \in Code \ {picked[v]} : Guessed(c)' = Guessed(c)
          /\ Guesses' \subseteq Guesses \cup ({v} \ flagged)
      BY <2>2, <2>3, <3>1 DEF Guessed, Guesses, InWindow, Rows
    <3>3. CASE v \in flagged
      <4>1. Guesses' \subseteq Guesses /\ \A c \in Code : Guessed(c)' \subseteq Guessed(c)
        BY <3>2, <3>3
      <4>2. ASSUME NEW c \in Code PROVE Cardinality(Guessed(c)') <= attempts'[c]
        <5>1. Cardinality(Guessed(c)') <= Cardinality(Guessed(c))
          BY <1>0, <1>1, <4>1
        <5>2. CASE c = picked[v]
          <6>1. Cardinality(Guessed(c)) <= seen[v] + 1
            BY <1>0, <1>1, <2>1, <5>2 DEF AttemptInv
          <6> QED
            BY <1>0, <1>1, <3>1, <5>1, <5>2, <6>1
        <5>3. CASE c # picked[v]
          BY <1>0, <1>1, <3>1, <5>1, <5>3 DEF AttemptInv
        <5> QED
          BY <5>2, <5>3
      <4>3. ASSUME NEW w \in Verify, pc'[w] = "miss"
            PROVE  Cardinality(Guessed(picked[w])')
                     <= IF Busy' \subseteq flagged' THEN seen'[w] + 1 ELSE seen'[w]
        <5>1. pc[w] = "miss" /\ picked'[w] = picked[w] /\ seen'[w] = seen[w] /\ picked[w] \in Code
          BY <1>0, <2>0, <2>1, <4>3 DEF Quiet
        <5>2. Cardinality(Guessed(picked[w])') <= Cardinality(Guessed(picked[w]))
          BY <1>0, <1>1, <4>1, <5>1
        <5>3. Cardinality(Guessed(picked[w]))
                <= IF Busy \subseteq flagged THEN seen[w] + 1 ELSE seen[w]
          BY <5>1 DEF AttemptInv
        <5> QED
          BY <1>0, <1>1, <2>2, <5>1, <5>2, <5>3
      <4>4. Busy' \subseteq flagged' \/ Cardinality(Guesses') < MaxAttempts
        BY <1>0, <1>1, <2>2, <4>1 DEF AttemptInv
      <4>5. Cardinality(Guesses') <= MaxAttempts
        BY <1>0, <1>1, <4>1 DEF GuessesAreLimited
      <4> QED
        BY <4>2, <4>3, <4>4, <4>5 DEF AttemptInv, GuessesAreLimited
    <3>4. CASE v \notin flagged
      <4>1. ~(Busy \subseteq flagged) /\ Busy' \subseteq flagged'
        BY <2>2, <3>4 DEF SoleInv, Busy
      <4>2. /\ Guesses' \subseteq Guesses \cup {v}
            /\ \A c \in Code : Guessed(c)' \subseteq Guessed(c) \cup {v}
        BY <3>2
      <4>3. ASSUME NEW c \in Code PROVE Cardinality(Guessed(c)') <= attempts'[c]
        <5>1. CASE c = picked[v]
          <6>1. Cardinality(Guessed(c)) <= seen[v]
            BY <2>1, <4>1, <5>1 DEF AttemptInv
          <6>2. Cardinality(Guessed(c)') <= Cardinality(Guessed(c)) + 1
            BY <1>0, <1>1, <4>2
          <6> QED
            BY <1>0, <1>1, <3>1, <5>1, <6>1, <6>2
        <5>2. CASE c # picked[v]
          BY <3>1, <3>2, <5>2 DEF AttemptInv
        <5> QED
          BY <5>1, <5>2
      <4>4. ASSUME NEW w \in Verify, pc'[w] = "miss"
            PROVE  Cardinality(Guessed(picked[w])') <= seen'[w] + 1
        <5>1. pc[w] = "miss" /\ picked'[w] = picked[w] /\ seen'[w] = seen[w] /\ picked[w] \in Code
          BY <1>0, <2>0, <2>1, <4>4 DEF Quiet
        <5>2. Cardinality(Guessed(picked[w])') <= Cardinality(Guessed(picked[w])) + 1
          BY <1>0, <1>1, <4>2, <5>1
        <5>3. Cardinality(Guessed(picked[w])) <= seen[w]
          BY <4>1, <5>1 DEF AttemptInv
        <5> QED
          BY <1>0, <1>1, <5>1, <5>2, <5>3
      <4>5. Cardinality(Guesses') <= MaxAttempts
        <5>1. Cardinality(Guesses) < MaxAttempts
          BY <4>1 DEF AttemptInv
        <5>2. Cardinality(Guesses') <= Cardinality(Guesses) + 1
          BY <1>0, <1>1, <4>2
        <5> QED
          BY <1>0, <1>1, <5>1, <5>2
      <4> QED
        BY <4>1, <4>3, <4>4, <4>5 DEF AttemptInv, GuessesAreLimited
    <3> QED
      BY <3>3, <3>4
  <2> QED
    BY <2>4, <2>5
<1> HIDE DEF Kept
<1>8. Kept
  BY <1>4, <1>5, <1>6, <1>7, QuietStep, UncountedStep
<1> QED
  BY <1>8 DEF Kept

-----------------------------------------------------------------------------
\* verifyOtp, findOrCreateUser and requestOtp: the initial state satisfies the invariant.
LEMMA OtpInitially == OtpInit => OtpInv /\ GuessesAreLimited
<1> SUFFICES ASSUME OtpInit PROVE OtpInv /\ GuessesAreLimited
  OBVIOUS
<1> USE OtpAssumption
<1>1. OtpTypeOK /\ RowsInv
  <2>1. linked \in BOOLEAN
    BY DEF OtpInit
  <2>2. hmacUser \in User \cup {NoUser} /\ shaUser \in User \cup {NoUser}
    BY DEF OtpInit, User
  <2>3. OtpTypeOK
    BY <2>1, <2>2 DEF OtpInit, OtpTypeOK
  <2>4. RowsInv
    BY DEF OtpInit, RowsInv
  <2> QED
    BY <2>3, <2>4
<1>2. SoleInv /\ PhoneInv /\ OneAccountPerPhone /\ Busy = {}
  BY DEF OtpInit, SoleInv, PhoneInv, OneAccountPerPhone, Busy
<1>3. Guesses = {} /\ \A c \in Code : Guessed(c) = {} /\ usedBy[c] \ flagged = {}
  BY DEF OtpInit, Guesses, Guessed, InWindow, Rows
<1>4. CodeUsedOnce
  BY <1>3, FS_EmptySet DEF CodeUsedOnce
<1>5. GuessesAreLimited
  BY <1>3, FS_EmptySet DEF GuessesAreLimited
<1>6. AttemptInv
  <2>1. \A c \in Code : Cardinality(Guessed(c)) <= attempts[c]
    <3>1. \A c \in Code : Cardinality(Guessed(c)) = 0
      BY <1>3, FS_EmptySet
    <3> QED
      BY <3>1 DEF OtpInit
  <2>2. \A v \in Verify : pc[v] # "miss"
    BY DEF OtpInit
  <2> QED
    BY <1>2, <2>1, <2>2 DEF AttemptInv
<1> QED
  BY <1>1, <1>2, <1>4, <1>5, <1>6 DEF OtpInv

\* Every step keeps the invariant: its parts support one another.
LEMMA OtpStep ==
  OtpInv /\ GuessesAreLimited /\ [OtpNext]_otpVars => (OtpInv /\ GuessesAreLimited)'
  BY OtpRowsStep, AccountStep, SoleStep, AttemptStep DEF OtpInv

\* verifyOtp, findOrCreateUser and requestOtp: a phone has one account, whichever of
\* several requests makes or moves it, and of the verifies that do not overlap one at
\* most is accepted with a code.
THEOREM OtpInvariant == OtpSpec => []OtpInv
  BY OtpInitially, OtpStep, PTL DEF OtpSpec

\* verifyOtp: asking for fresh codes buys no guesses.  Verifies that do not overlap give at
\* most MaxAttempts wrong answers to the codes of a lockout window.
THEOREM GuessesDoStayLimited == OtpSpec => []GuessesAreLimited
  BY OtpInitially, OtpStep, PTL DEF OtpSpec
=============================================================================
