----------------------------- MODULE MessageLog -----------------------------
(***************************************************************************)
(* What sending to a direct thread promises, without database, locks or    *)
(* retries: one log per thread, to which the message of a key is appended  *)
(* at most once, and answers that name an entry of a log.                  *)
(***************************************************************************)
EXTENDS Naturals, Sequences

CONSTANTS Request, Thread, Ident, None, Failed

VARIABLES
  asked,  \* asked[r]: the key and the thread a request names, or None
  log,    \* log[t]: the requests whose messages thread t holds, in order
  reply   \* the entry a request was answered with, Failed, or None

vars == <<asked, log, reply>>

\* Request m has an entry in the log of some thread.
Logged(m) == \E t \in Thread : \E i \in DOMAIN log[t] : log[t][i] = m

Init ==
  /\ asked = [r \in Request |-> None]
  /\ log = [t \in Thread |-> <<>>]
  /\ reply = [r \in Request |-> None]

Ask(r) ==
  /\ asked[r] = None
  /\ \E k \in Ident, t \in Thread :
       asked' = [asked EXCEPT ![r] = [key |-> k, thread |-> t]]
  /\ UNCHANGED <<log, reply>>

\* The message is appended only while no log holds one of the same key.
AppendMessage(r) ==
  /\ asked[r] # None
  /\ reply[r] = None
  /\ \A m \in Request : Logged(m) => asked[m].key # asked[r].key
  /\ log' = [log EXCEPT ![asked[r].thread] = Append(@, r)]
  /\ UNCHANGED <<asked, reply>>

\* Success names the logged message of the request's key.
Answer(r) ==
  /\ asked[r] # None
  /\ reply[r] = None
  /\ \E m \in Request :
       /\ Logged(m)
       /\ asked[m].key = asked[r].key
       /\ reply' = [reply EXCEPT ![r] = m]
  /\ UNCHANGED <<asked, log>>

\* An error is reported only for a request that logged nothing.
Fail(r) ==
  /\ asked[r] # None
  /\ reply[r] = None
  /\ ~Logged(r)
  /\ reply' = [reply EXCEPT ![r] = Failed]
  /\ UNCHANGED <<asked, log>>

Next == \E r \in Request : Ask(r) \/ AppendMessage(r) \/ Answer(r) \/ Fail(r)

Spec == Init /\ [][Next]_vars
=============================================================================
