----------------------------- MODULE Reactions ------------------------------
(***************************************************************************)
(* The reactions to one message of a group (reactions.service.ts), the     *)
(* counts of them and the list of members that are cached in Redis         *)
(* (redis.service.ts), the members themselves (groups.service.ts), and     *)
(* the events sent to the list (reaction-fanout.processor.ts, and typing,  *)
(* deletion and tombstone handlers of realtime.gateway.ts).                *)
(*                                                                         *)
(* A cache is filled by a reader that missed it, with what it has read     *)
(* from the database some steps before, and deleted by a writer after its  *)
(* commit.  Either may be late, or fail.  Requests, and the jobs they      *)
(* leave behind, are taken from one pool; an entry may expire at any time. *)
(* Events to a direct thread, which go to the other user at once, are left *)
(* out.                                                                    *)
(*                                                                         *)
(* A client of somebody who does not react, and so gets every event, keeps *)
(* a count for each emoji, as docs/mobile-api-integration.md has it: up    *)
(* with each reaction.new and down with each reaction.removed.             *)
(***************************************************************************)
EXTENDS Integers, FiniteSets

CONSTANTS Request,                    \* the pool
          User, Emoji,
          None

ASSUME ReactionsAssumption ==
  /\ IsFiniteSet(User) /\ IsFiniteSet(Request) /\ None \notin User \cup Emoji

VARIABLES
  members, admins,            \* GroupMember rows, and those with role ADMIN
  reaction,                   \* MessageReaction: emoji by user
  counts, list,               \* Redis: the cached counts and the cached members
  pc, user, emoji, read,      \* the requests: where, for whom, with what, and what it read;
  removals,                   \*   those that have deleted a row, whose event is a removal
  shown,                      \* the count of each emoji a client shows
  overtaken,                  \* history: readers whose table was written since,
  countsStale, listStale,     \*   an entry is out of date for good,
  miscounted                  \*   emojis with a change that the events do not tell

table   == <<members, admins, reaction>>
cache   == <<counts, list, countsStale, listStale>>
request == <<pc, user, emoji, read, removals>>
client  == <<shown, miscounted>>
vars    == <<table, cache, request, client, overtaken>>

\* Who chose e.
Holders(e) == {u \in User : reaction[u] = e}

\* findMany and the loop that counts; an emoji nobody chose is not in the answer.
Aggregate ==
  [e \in {reaction[u] : u \in User} \ {None} |-> Cardinality(Holders(e))]

At(s) == {r \in Request : pc[r] = s}

\* Requests that have changed a reaction and whose event has not been sent.
Unsent ==
  {r \in At("counts") \cup At("event") \cup At("members") : user[r] # None}

TypeOK ==
  /\ members \subseteq User /\ admins \subseteq members
  /\ reaction \in [User -> Emoji \cup {None}]
  /\ list \in {None} \cup ((SUBSET User) \ {{}})
  /\ pc \in [Request -> {"idle", "toggle", "write", "find", "delete", "gone", "counts",
                         "event", "members", "fillList", "get", "count",
                         "fillCounts", "add", "remove", "drop", "done"}]
  /\ user \in [Request -> User \cup {None}]
  /\ emoji \in [Request -> Emoji \cup {None}]
  /\ DOMAIN read = Request /\ removals \subseteq Request
  /\ shown \in [Emoji -> Int] /\ miscounted \subseteq Emoji
  /\ overtaken \subseteq Request
  /\ countsStale \in BOOLEAN /\ listStale \in BOOLEAN

\* createGroup has committed the rows and is about to fill the cache, or has done so.
CreateGroup(r, u, S) ==
  /\ members = S \cup {u} /\ admins = {u}
  /\ \/ /\ pc = [q \in Request |-> IF q = r THEN "fillList" ELSE "idle"]
        /\ read = [q \in Request |-> IF q = r THEN members ELSE None]
        /\ list = None
     \/ /\ pc = [q \in Request |-> "idle"] /\ read = [q \in Request |-> None]
        /\ list \in {members, None}

Init ==
  /\ \E r \in Request, u \in User, S \in SUBSET User : CreateGroup(r, u, S)
  /\ reaction = [u \in User |-> None]
  /\ counts = None /\ countsStale = FALSE /\ listStale = FALSE
  /\ user = [r \in Request |-> None] /\ emoji = [r \in Request |-> None]
  /\ removals = {} /\ overtaken = {}
  /\ shown = [e \in Emoji |-> 0] /\ miscounted = {}

-----------------------------------------------------------------------------
Goto(r, s) == pc' = [pc EXCEPT ![r] = s]

\* The request of u, for e, begins.
Begin(r, s, u, e) ==
  /\ pc[r] = "idle" /\ Goto(r, s)
  /\ user' = [user EXCEPT ![r] = u] /\ emoji' = [emoji EXCEPT ![r] = e]
  /\ UNCHANGED <<read, removals>>

\* It goes on with x, which it has read.
Keep(r, s, x) ==
  /\ Goto(r, s)
  /\ read' = [read EXCEPT ![r] = x]
  /\ UNCHANGED <<user, emoji, removals>>

\* It is over, and so are its variables.
End(r) ==
  /\ Goto(r, "done")
  /\ user' = [user EXCEPT ![r] = None] /\ emoji' = [emoji EXCEPT ![r] = None]
  /\ read' = [read EXCEPT ![r] = None] /\ removals' = removals \ {r}

\* A commit to a table overtakes those who have read it and not yet filled the cache.
Overtake(s) == overtaken' = overtaken \cup At(s)

\* No event tells the client what became of the emojis S, whose counts are not followed
\* any further.
Miscount(S) ==
  /\ miscounted' = miscounted \cup S
  /\ shown' = [e \in Emoji |-> IF e \in S THEN 0 ELSE shown[e]]

-----------------------------------------------------------------------------
(* toggle and remove, after assertMessageAccess: u is a member.            *)

Toggle(r, u, e) ==
  /\ u \in members
  /\ Begin(r, "toggle", u, e)
  /\ UNCHANGED <<table, cache, client, overtaken>>

RemoveReaction(r, u) ==
  /\ u \in members
  /\ Begin(r, "find", u, None)
  /\ UNCHANGED <<table, cache, client, overtaken>>

\* toggle reads the row: the same emoji is to be deleted, another one written.
ToggleFind(r) ==
  /\ pc[r] = "toggle"
  /\ IF reaction[user[r]] = emoji[r] THEN Goto(r, "delete") ELSE Goto(r, "write")
  /\ UNCHANGED <<table, cache, user, emoji, read, removals, client, overtaken>>

\* remove does so, to delete and to announce the emoji it finds, and is over if there is none.
RemoveFind(r) ==
  /\ pc[r] = "find"
  /\ IF reaction[user[r]] = None
     THEN End(r)
     ELSE /\ Goto(r, "delete")
          /\ emoji' = [emoji EXCEPT ![r] = reaction[user[r]]]
          /\ UNCHANGED <<user, read, removals>>
  /\ UNCHANGED <<table, cache, client, overtaken>>

\* Mutant: an emoji that replaces another leaves the cache alone.
ToggleWriteQuietly(r) ==
  LET u == user[r]
  IN  /\ pc[r] = "write"
      /\ Keep(r, IF reaction[u] = None THEN "counts" ELSE "event", None)
      /\ reaction' = [reaction EXCEPT ![u] = emoji[r]]
      /\ Overtake("fillCounts")
      /\ Miscount({reaction[u]} \ {None})
      /\ UNCHANGED <<members, admins, cache>>

\* upsert and commit.  An emoji that is replaced is not announced as removed, and one
\* that is written again is announced again.
ToggleWrite(r) ==
  LET u == user[r]
  IN  /\ pc[r] = "write"
      /\ Keep(r, "counts", None)
      /\ reaction' = [reaction EXCEPT ![u] = emoji[r]]
      /\ Overtake("fillCounts")
      /\ Miscount({reaction[u]} \ {None})
      /\ UNCHANGED <<members, admins, cache>>

\* The row of u is deleted by r, and with it its id: others that are about to delete
\* it will not find it, though there may be a new row by then.  If it has another emoji
\* than the one that was read, the removal of the wrong one is announced.
DeleteRow(r, u) ==
  /\ pc' = [q \in Request |-> IF q = r THEN "counts"
                              ELSE IF pc[q] = "delete" /\ user[q] = u THEN "gone" ELSE pc[q]]
  /\ reaction' = [reaction EXCEPT ![u] = None]
  /\ Overtake("fillCounts")
  /\ Miscount(IF reaction[u] = emoji[r] THEN {} ELSE {reaction[u], emoji[r]} \ {None})

\* Mutant: a removal is announced like the emoji it removes.
DeleteAnnounced(r) ==
  /\ pc[r] = "delete"
  /\ DeleteRow(r, user[r])
  /\ UNCHANGED <<members, admins, cache, user, emoji, read, removals>>

\* delete by id and commit, whatever emoji the row has by now.
Delete(r) ==
  /\ pc[r] = "delete"
  /\ DeleteRow(r, user[r])
  /\ removals' = removals \cup {r}
  /\ UNCHANGED <<members, admins, cache, user, emoji, read>>

\* The row with that id is gone: an error.
DeleteFails(r) ==
  /\ pc[r] = "gone"
  /\ End(r)
  /\ UNCHANGED <<table, cache, client, overtaken>>

\* emitReactionEvent: the job.
Enqueue(r) == Goto(r, "event")

\* invalidateCache; the job follows.
InvalidateCounts(r) ==
  /\ pc[r] = "counts"
  /\ Enqueue(r)
  /\ counts' = None /\ countsStale' = FALSE
  /\ UNCHANGED <<table, list, listStale, user, emoji, read, removals, client, overtaken>>

\* Redis fails, or the process ends, after the commit: the request is over, with an
\* error that its caller may see.  Or the job has failed for the last time.
LoseEvent(r) ==
  /\ pc[r] \in {"counts", "event", "members"}
  /\ End(r)
  /\ countsStale' = (countsStale \/ (pc[r] = "counts" /\ counts # None))
  /\ Miscount({emoji[r]} \ {None})
  /\ UNCHANGED <<table, counts, list, listStale, overtaken>>

-----------------------------------------------------------------------------
(* getAggregated.                                                          *)

GetAggregated(r, u) ==
  /\ u \in members
  /\ Begin(r, "get", None, None)
  /\ UNCHANGED <<table, cache, client, overtaken>>

\* getCachedReactions.
GetCached(r) ==
  /\ pc[r] = "get"
  /\ IF counts # None THEN End(r) ELSE Keep(r, "count", None)
  /\ UNCHANGED <<table, cache, client, overtaken>>

CountReactions(r) ==
  /\ pc[r] = "count"
  /\ Keep(r, "fillCounts", Aggregate)
  /\ UNCHANGED <<table, cache, client, overtaken>>

\* cacheReactions, or its failure.
FillCounts(r) ==
  /\ pc[r] = "fillCounts"
  /\ End(r)
  /\ \/ counts' = read[r] /\ countsStale' = (r \in overtaken)
     \/ UNCHANGED <<counts, countsStale>>
  /\ overtaken' = overtaken \ {r}
  /\ UNCHANGED <<table, list, listStale, client>>

-----------------------------------------------------------------------------
(* GroupsService.                                                          *)

\* addMembers by an admin: those who are members already are left out.
AddMembers(r, a, S) ==
  /\ pc[r] = "idle" /\ a \in admins
  /\ S \ members # {}
  /\ Keep(r, "add", S \ members)
  /\ UNCHANGED <<table, cache, client, overtaken>>

\* createMany: all of them, or an error if one is a member by now.
InsertMembers(r) ==
  /\ pc[r] = "add"
  /\ IF read[r] \cap members # {}
     THEN End(r) /\ UNCHANGED <<members, overtaken>>
     ELSE /\ Keep(r, "drop", None)
          /\ members' = members \cup read[r]
          /\ Overtake("fillList")
  /\ UNCHANGED <<admins, reaction, cache, client>>

\* removeMember: of oneself, or by an admin.
RemoveMember(r, a, u) ==
  /\ a \in members /\ (a = u \/ a \in admins)
  /\ u \in members
  /\ Begin(r, "remove", u, None)
  /\ UNCHANGED <<table, cache, client, overtaken>>

\* delete, or an error if somebody else was faster.
DeleteMember(r) ==
  /\ pc[r] = "remove"
  /\ IF user[r] \notin members
     THEN End(r) /\ UNCHANGED <<members, admins, overtaken>>
     ELSE /\ Goto(r, "drop") /\ user' = [user EXCEPT ![r] = None]
          /\ UNCHANGED <<emoji, read, removals>>
          /\ members' = members \ {user[r]} /\ admins' = admins \ {user[r]}
          /\ Overtake("fillList")
  /\ UNCHANGED <<reaction, cache, client>>

\* invalidateGroupMemberIds, which is not waited for, or its failure.
DropList(r) ==
  /\ pc[r] = "drop"
  /\ End(r)
  /\ \/ list' = None /\ listStale' = FALSE
     \/ listStale' = (list # None) /\ UNCHANGED list
  /\ UNCHANGED <<table, counts, countsStale, client, overtaken>>

-----------------------------------------------------------------------------
(* Events to the members of the group.                                     *)

\* typing.start, typing.stop, a message deleted or tombstoned: handlers that have
\* nothing of a reaction but go the same way.
OtherEvent(r) ==
  /\ Begin(r, "event", None, None)
  /\ UNCHANGED <<table, cache, client, overtaken>>

\* The event goes out, reaction.new or reaction.removed, and the client counts.
Emit(r) ==
  /\ shown' = IF user[r] = None \/ emoji[r] \in miscounted THEN shown
              ELSE [shown EXCEPT ![emoji[r]] = IF r \in removals THEN @ - 1 ELSE @ + 1]
  /\ UNCHANGED miscounted

\* getGroupMemberIds: with a list the event goes out to it.
EventCached(r) ==
  /\ pc[r] = "event"
  /\ IF list # None THEN Emit(r) /\ End(r)
                    ELSE Goto(r, "members") /\ UNCHANGED <<user, emoji, read, removals, client>>
  /\ UNCHANGED <<table, cache, overtaken>>

\* Without one the members are read, the cache is filled and not waited for.
EventMembers(r) ==
  /\ pc[r] = "members"
  /\ Emit(r)
  /\ Goto(r, "fillList")
  /\ user' = [user EXCEPT ![r] = None] /\ emoji' = [emoji EXCEPT ![r] = None]
  /\ read' = [read EXCEPT ![r] = members] /\ removals' = removals \ {r}
  /\ UNCHANGED <<table, cache, overtaken>>

\* An event on its way to the group, as in the fan-out job and in the gateway's handlers
\* of typing, deletions and tombstones.
EventStep(r) == EventCached(r) \/ EventMembers(r)

\* The worker is lost after the event went out: the job is taken up again, and the client
\* counts twice.
EventAgain(r) ==
  /\ pc[r] \in {"event", "members"} /\ user[r] # None
  /\ pc[r] = "event" => list # None
  /\ Miscount({emoji[r]} \ {None})
  /\ Goto(r, "event")
  /\ UNCHANGED <<table, cache, user, emoji, read, removals, overtaken>>

\* setGroupMemberIds: del and sadd; an empty set is no entry.  Or its failure.
FillList(r) ==
  /\ pc[r] = "fillList"
  /\ End(r)
  /\ \/ /\ list' = IF read[r] = {} THEN None ELSE read[r]
        /\ listStale' = (r \in overtaken /\ list' # None)
     \/ UNCHANGED <<list, listStale>>
  /\ overtaken' = overtaken \ {r}
  /\ UNCHANGED <<table, counts, countsStale, client>>

\* The entries expire after five minutes.
Expire ==
  /\ \/ counts' = None /\ countsStale' = FALSE /\ UNCHANGED <<list, listStale>>
     \/ list' = None /\ listStale' = FALSE /\ UNCHANGED <<counts, countsStale>>
  /\ UNCHANGED <<table, request, client, overtaken>>

-----------------------------------------------------------------------------
Next ==
  \/ \E r \in Request :
       \/ \E u \in User : \/ \E e \in Emoji : Toggle(r, u, e)
                          \/ RemoveReaction(r, u) \/ GetAggregated(r, u)
                          \/ \E S \in SUBSET User : AddMembers(r, u, S)
                          \/ \E v \in User : RemoveMember(r, u, v)
       \/ ToggleFind(r) \/ RemoveFind(r) \/ ToggleWrite(r) \/ Delete(r) \/ DeleteFails(r)
       \/ InvalidateCounts(r) \/ LoseEvent(r)
       \/ GetCached(r) \/ CountReactions(r) \/ FillCounts(r)
       \/ InsertMembers(r) \/ DeleteMember(r) \/ DropList(r)
       \/ OtherEvent(r) \/ EventStep(r) \/ EventAgain(r)
       \/ FillList(r)
  \/ Expire

Spec == Init /\ [][Next]_vars

-----------------------------------------------------------------------------
(* Properties.                                                             *)

\* toggle, remove and getAggregated: cached counts differ from the table only while a
\* change is between its commit and its invalidation, when that was lost, or when a
\* reader filled the cache that had read the table before the last change.
CountsAreExplained ==
  counts \in {None, Aggregate} \/ At("counts") # {} \/ countsStale

\* groups.service.ts: the same for the cached members, and so for who gets the events
\* of the group: a list that lacks a member or holds a former one has one of these causes.
ListIsExplained ==
  list \in {None, members} \/ At("drop") # {} \/ listStale

\* emitReactionEvent and the fan-out job: a client that counts the events of an emoji, in
\* whatever order the jobs of several users and of one user run, ends with the number of
\* those who chose it.  The events do not tell when an emoji is replaced, written twice
\* by overlapping requests or replaced between the read and the delete of a removal, nor
\* when one of them is lost or sent again.
EventsConverge ==
  \A e \in Emoji \ miscounted :
    (\A r \in Unsent : emoji[r] # e) => shown[e] = Cardinality(Holders(e))

\* What a request holds, by the place it is at.
HeldInv ==
  \A r \in Request :
    /\ pc[r] \in {"toggle", "write", "find", "delete", "gone", "counts", "remove"} =>
         user[r] \in User
    /\ pc[r] \in {"toggle", "write"} => emoji[r] \in Emoji
    /\ pc[r] \in {"add", "fillList"} => read[r] \subseteq User
    /\ pc[r] = "fillList" => read[r] = members \/ r \in overtaken
    /\ pc[r] = "fillCounts" => read[r] = Aggregate \/ r \in overtaken

\* The events under way that count e up, and down.
Creations(e) == {r \in Unsent \ removals : emoji[r] = e}

Deletions(e) == {r \in Unsent \cap removals : emoji[r] = e}

\* What the client shows lacks the events that are under way, and nothing else.
CountInv ==
  /\ removals \subseteq Unsent
  /\ \A e \in Emoji \ miscounted :
       shown[e] + Cardinality(Creations(e)) - Cardinality(Deletions(e)) = Cardinality(Holders(e))

\* Both caches hold what the tables hold, but for the causes above, at every await.
ReactionInv == TypeOK /\ CountsAreExplained /\ ListIsExplained /\ HeldInv /\ CountInv
=============================================================================
