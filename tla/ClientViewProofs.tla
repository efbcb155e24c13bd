-------------------------- MODULE ClientViewProofs --------------------------
(***************************************************************************)
(* What clients are shown beside the messages themselves, proved for any   *)
(* number of requests, users, devices and messages.                        *)
(*   Reactions: the reactions to a message, their cached counts and the    *)
(*   events that tell of them.                                             *)
(*   UnreadCounter: the unread counter of a user and thread.               *)
(***************************************************************************)
EXTENDS Reactions, UnreadCounter, FiniteSetTheorems, TLAPS

-----------------------------------------------------------------------------
(* Reactions.                                                              *)

\* The counts change with the table only.
LEMMA SameAggregate == reaction' = reaction => Aggregate' = Aggregate
  BY DEF Aggregate, Holders

\* Counts that are filled in are stale if a change has overtaken their reader.
LEMMA FillCountsStale ==
  ASSUME NEW r \in Request, FillCounts(r), countsStale \in BOOLEAN
  PROVE  /\ countsStale' \in BOOLEAN
         /\ \/ counts' = read[r] /\ (r \in overtaken => countsStale')
            \/ UNCHANGED <<counts, countsStale>>
<1>1. \/ counts' = read[r] /\ countsStale' = (r \in overtaken)
      \/ UNCHANGED <<counts, countsStale>>
  BY Zenon DEF FillCounts
<1>2. CASE counts' = read[r] /\ countsStale' = (r \in overtaken)
  <2>1. countsStale' \in BOOLEAN
    BY <1>2
  <2>2. r \in overtaken => countsStale'
    BY <1>2, Zenon
  <2> QED
    BY <1>2, <2>1, <2>2
<1>3. CASE UNCHANGED <<counts, countsStale>>
  BY <1>3
<1> QED
  BY <1>1, <1>2, <1>3, Zenon

LEMMA ReactionInit == Init => ReactionInv
<1> SUFFICES ASSUME Init PROVE ReactionInv
  OBVIOUS
<1>1. PICK r \in Request, u \in User, S \in SUBSET User : CreateGroup(r, u, S)
  BY DEF Init
<1>2. /\ members \in SUBSET User /\ members # {} /\ admins \subseteq members
      /\ list \in {members, None}
      /\ DOMAIN read = Request
      /\ pc \in [Request -> {"idle", "fillList"}]
      /\ \A q \in Request : pc[q] = "fillList" => read[q] = members
  BY <1>1 DEF CreateGroup
<1>3. TypeOK
  <2>1. shown \in [Emoji -> Int]
    BY DEF Init
  <2>2. countsStale \in BOOLEAN /\ listStale \in BOOLEAN
    BY Zenon DEF Init
  <2>3. pc \in [Request -> {"idle", "toggle", "write", "find", "delete", "gone", "counts", "event",
                            "members", "fillList", "get", "count", "fillCounts", "add", "remove",
                            "drop", "done"}]
    BY <1>2
  <2> QED
    BY <1>2, <2>1, <2>2, <2>3 DEF Init, TypeOK
<1>4. CountsAreExplained /\ ListIsExplained /\ HeldInv
  BY <1>2 DEF Init, CountsAreExplained, ListIsExplained, HeldInv
<1>5. CountInv
  <2>1. Unsent = {} /\ removals = {} /\ \A e \in Emoji : shown[e] = 0
    BY <1>2 DEF Init, Unsent, At
  <2>2. \A e \in Emoji : Creations(e) = {} /\ Deletions(e) = {} /\ Holders(e) = {}
    BY <2>1, ReactionsAssumption DEF Init, Creations, Deletions, Holders
  <2> QED
    BY <2>1, <2>2, FS_EmptySet DEF CountInv
<1> QED
  BY <1>3, <1>4, <1>5 DEF ReactionInv

\* Every step of the requests, of the jobs and of Redis keeps what the caches hold.
LEMMA CacheStep ==
  ReactionInv /\ [Next]_vars => TypeOK' /\ CountsAreExplained' /\ ListIsExplained' /\ HeldInv'
<1> SUFFICES ASSUME ReactionInv, [Next]_vars
             PROVE  TypeOK' /\ CountsAreExplained' /\ ListIsExplained' /\ HeldInv'
  OBVIOUS
<1> USE ReactionsAssumption, SameAggregate
<1> USE DEF ReactionInv, TypeOK, CountsAreExplained, ListIsExplained, HeldInv, At,
            table, cache, request, client, Goto, Begin, Keep, End
<1> DEFINE Kept == TypeOK' /\ CountsAreExplained' /\ ListIsExplained' /\ HeldInv'
<1>1. ASSUME NEW r \in Request, NEW u \in User, NEW e \in Emoji, Toggle(r, u, e) PROVE Kept
  BY <1>1 DEF Toggle
<1>2. ASSUME NEW r \in Request, NEW u \in User, RemoveReaction(r, u) PROVE Kept
  BY <1>2 DEF RemoveReaction
<1>3. ASSUME NEW r \in Request, NEW u \in User, GetAggregated(r, u) PROVE Kept
  BY <1>3 DEF GetAggregated
<1>4. ASSUME NEW r \in Request, NEW u \in User, NEW S \in SUBSET User, AddMembers(r, u, S)
      PROVE  Kept
  BY <1>4 DEF AddMembers
<1>5. ASSUME NEW r \in Request, NEW u \in User, NEW v \in User, RemoveMember(r, u, v) PROVE Kept
  BY <1>5 DEF RemoveMember
<1>6. ASSUME NEW r \in Request, ToggleFind(r) PROVE Kept
  BY <1>6 DEF ToggleFind
<1>7. ASSUME NEW r \in Request, RemoveFind(r) PROVE Kept
  BY <1>7 DEF RemoveFind
<1>8. ASSUME NEW r \in Request, ToggleWrite(r) PROVE Kept
  BY <1>8 DEF ToggleWrite, Overtake, Miscount
<1>9. ASSUME NEW r \in Request, Delete(r) PROVE Kept
  <2>1. PICK u \in User : u = user[r]
    BY <1>9 DEF Delete
  <2>2. /\ pc'[r] = "counts" /\ reaction'[u] = None
        /\ \A q \in Request \ {r} : pc'[q] = pc[q] \/ (pc[q] = "delete" /\ pc'[q] = "gone")
        /\ \A v \in User \ {u} : reaction'[v] = reaction[v]
        /\ overtaken' = overtaken \cup At("fillCounts")
        /\ UNCHANGED <<members, admins, cache, user, emoji, read>>
    BY <1>9, <2>1 DEF Delete, DeleteRow, Overtake
  <2>3. TypeOK'
    BY <1>9, <2>1, <2>2 DEF Delete, DeleteRow, Miscount
  <2>4. CountsAreExplained' /\ ListIsExplained' /\ HeldInv'
    BY <1>9, <2>2 DEF Delete
  <2> QED
    BY <2>3, <2>4
<1>10. ASSUME NEW r \in Request, DeleteFails(r) PROVE Kept
  BY <1>10 DEF DeleteFails
<1>11. ASSUME NEW r \in Request, InvalidateCounts(r) PROVE Kept
  <2>1. countsStale' \in BOOLEAN
    BY <1>11, Zenon DEF InvalidateCounts
  <2> QED
    BY <1>11, <2>1 DEF InvalidateCounts, Enqueue
<1>12. ASSUME NEW r \in Request, LoseEvent(r) PROVE Kept
  <2>1. countsStale' \in BOOLEAN /\ (pc[r] = "counts" /\ counts # None => countsStale')
        /\ (countsStale => countsStale')
    BY <1>12, Zenon DEF LoseEvent
  <2> QED
    BY <1>12, <2>1 DEF LoseEvent, Miscount
<1>13. ASSUME NEW r \in Request, GetCached(r) PROVE Kept
  BY <1>13 DEF GetCached
<1>14. ASSUME NEW r \in Request, CountReactions(r) PROVE Kept
  BY <1>14 DEF CountReactions
<1>15. ASSUME NEW r \in Request, FillCounts(r) PROVE Kept
  <2>1. /\ countsStale' \in BOOLEAN
        /\ \/ counts' = read[r] /\ (r \in overtaken => countsStale')
           \/ UNCHANGED <<counts, countsStale>>
    BY <1>15, FillCountsStale
  <2> QED
    BY <1>15, <2>1 DEF FillCounts
<1>16. ASSUME NEW r \in Request, InsertMembers(r) PROVE Kept
  BY <1>16 DEF InsertMembers, Overtake
<1>17. ASSUME NEW r \in Request, DeleteMember(r) PROVE Kept
  BY <1>17 DEF DeleteMember, Overtake
<1>18. ASSUME NEW r \in Request, DropList(r) PROVE Kept
  <2>1. listStale' \in BOOLEAN /\ (list' = None \/ (list' = list /\ (list # None => listStale')))
    BY <1>18, Zenon DEF DropList
  <2> QED
    BY <1>18, <2>1 DEF DropList
<1>19. ASSUME NEW r \in Request, OtherEvent(r) PROVE Kept
  BY <1>19 DEF OtherEvent
<1>20. ASSUME NEW r \in Request, EventStep(r) PROVE Kept
  BY <1>20 DEF EventStep, EventCached, EventMembers, Emit
<1>21. ASSUME NEW r \in Request, EventAgain(r) PROVE Kept
  BY <1>21 DEF EventAgain, Miscount
<1>22. ASSUME NEW r \in Request, FillList(r) PROVE Kept
  <2>1. /\ listStale' \in BOOLEAN
        /\ \/ /\ list' = IF read[r] = {} THEN None ELSE read[r]
              /\ r \in overtaken /\ list' # None => listStale'
           \/ UNCHANGED <<list, listStale>>
    BY <1>22, Zenon DEF FillList
  <2> QED
    BY <1>22, <2>1 DEF FillList
<1>23. ASSUME Expire PROVE Kept
  <2>1. countsStale' \in BOOLEAN /\ listStale' \in BOOLEAN
        /\ (counts' = None \/ UNCHANGED <<counts, countsStale>>)
        /\ (list' = None \/ UNCHANGED <<list, listStale>>)
    BY <1>23, Zenon DEF Expire
  <2> QED
    BY <1>23, <2>1 DEF Expire
<1>24. ASSUME UNCHANGED vars PROVE Kept
  BY <1>24 DEF vars
<1> HIDE ReactionsAssumption, SameAggregate
<1> HIDE DEF Kept, ReactionInv
<1> QED
  <2>1. ASSUME Next PROVE Kept
    BY <2>1, <1>1, <1>2, <1>3, <1>4, <1>5, <1>6, <1>7, <1>8, <1>9, <1>10, <1>11, <1>12,
       <1>13, <1>14, <1>15, <1>16, <1>17, <1>18, <1>19, <1>20, <1>21, <1>22, <1>23
    DEF Next
  <2> QED
    BY <2>1, <1>24 DEF Kept

\* The sets that the counts are about are finite.
LEMMA FiniteCounts ==
  \A e \in Emoji : /\ IsFiniteSet(Creations(e)) /\ Cardinality(Creations(e)) \in Nat
                   /\ IsFiniteSet(Deletions(e)) /\ Cardinality(Deletions(e)) \in Nat
                   /\ IsFiniteSet(Holders(e)) /\ Cardinality(Holders(e)) \in Nat
<1> SUFFICES ASSUME NEW e \in Emoji
             PROVE  /\ IsFiniteSet(Creations(e)) /\ Cardinality(Creations(e)) \in Nat
                    /\ IsFiniteSet(Deletions(e)) /\ Cardinality(Deletions(e)) \in Nat
                    /\ IsFiniteSet(Holders(e)) /\ Cardinality(Holders(e)) \in Nat
  OBVIOUS
<1>1. /\ Creations(e) \in SUBSET Request /\ Deletions(e) \in SUBSET Request
      /\ Holders(e) \in SUBSET User
  BY DEF Creations, Deletions, Holders, Unsent, At
<1> QED
  BY <1>1, FS_Subset, FS_CardinalityType, ReactionsAssumption

LEMMA OneLess ==
  ASSUME NEW S, IsFiniteSet(S), NEW x \in S PROVE Cardinality(S \ {x}) = Cardinality(S) - 1
  BY FS_RemoveElement

\* A step that neither changes a reaction nor sends an event, but for emojis that it
\* leaves miscounted.
LEMMA QuietStep ==
  ASSUME TypeOK, CountInv, miscounted \subseteq miscounted',
         removals' \subseteq Unsent', UNCHANGED reaction,
         \A e \in Emoji \ miscounted' : shown'[e] = shown[e],
         \A q \in Request : emoji[q] \notin miscounted' \/ emoji'[q] \notin miscounted' =>
           \/ q \notin Unsent /\ q \notin Unsent'
           \/ /\ q \in Unsent /\ q \in Unsent' /\ emoji'[q] = emoji[q]
              /\ q \in removals <=> q \in removals'
  PROVE  CountInv'
<1> SUFFICES ASSUME NEW e \in Emoji \ miscounted'
             PROVE  shown'[e] + Cardinality(Creations(e)') - Cardinality(Deletions(e)')
                      = Cardinality(Holders(e)')
  BY DEF CountInv
<1>1. Unsent \subseteq Request /\ Unsent' \subseteq Request
  BY DEF Unsent, At
<1>2. Creations(e)' = Creations(e)
  BY <1>1 DEF Creations
<1>3. Deletions(e)' = Deletions(e)
  BY <1>1 DEF Deletions
<1>4. Holders(e)' = Holders(e) /\ shown'[e] = shown[e]
  BY DEF Holders
<1> QED
  BY <1>2, <1>3, <1>4 DEF CountInv

\* upsert: one more who chose the emoji, and one more event that counts it up.
LEMMA WriteTold ==
  ASSUME ReactionInv, NEW r \in Request, ToggleWrite(r)
  PROVE  CountInv'
<1> USE ReactionsAssumption
<1> USE DEF ReactionInv, TypeOK, HeldInv
<1>1. PICK u \in User : u = user[r]
  BY DEF ToggleWrite
<1>2. PICK d \in Emoji : d = emoji[r]
  BY DEF ToggleWrite
<1>3. /\ pc[r] = "write" /\ pc'[r] = "counts"
      /\ \A q \in Request \ {r} : pc'[q] = pc[q]
      /\ UNCHANGED <<user, emoji, removals>>
      /\ reaction'[u] = d /\ \A v \in User \ {u} : reaction'[v] = reaction[v]
      /\ miscounted' = miscounted \cup ({reaction[u]} \ {None})
      /\ \A e \in Emoji \ miscounted' : shown'[e] = shown[e]
  BY <1>1, <1>2 DEF ToggleWrite, Keep, Goto, Miscount
<1>4. r \notin Unsent /\ Unsent' = Unsent \cup {r} /\ Unsent \subseteq Request
  BY <1>1, <1>3 DEF Unsent, At
<1>5. removals' \subseteq Unsent' /\ r \notin removals
  BY <1>3, <1>4 DEF CountInv
<1> SUFFICES ASSUME NEW e \in Emoji \ miscounted'
             PROVE  shown'[e] + Cardinality(Creations(e)') - Cardinality(Deletions(e)')
                      = Cardinality(Holders(e)')
  BY <1>5 DEF CountInv
<1>6. Deletions(e)' = Deletions(e) /\ shown'[e] = shown[e] /\ shown[e] \in Int
  BY <1>3, <1>4, <1>5 DEF Deletions
<1>7. shown[e] + Cardinality(Creations(e)) - Cardinality(Deletions(e)) = Cardinality(Holders(e))
  BY <1>3 DEF CountInv
<1>8. CASE e = d
  <2>1. Creations(e)' = Creations(e) \cup {r} /\ r \notin Creations(e)
    BY <1>2, <1>3, <1>4, <1>5, <1>8 DEF Creations
  <2>2. Holders(e)' = Holders(e) \cup {u} /\ u \notin Holders(e)
    BY <1>3, <1>8 DEF Holders
  <2>3. Cardinality(Creations(e)') = Cardinality(Creations(e)) + 1
    BY <2>1, FiniteCounts, FS_AddElement
  <2>4. Cardinality(Holders(e)') = Cardinality(Holders(e)) + 1
    BY <2>2, FiniteCounts, FS_AddElement
  <2> QED
    BY <1>6, <1>7, <2>3, <2>4, FiniteCounts
<1>9. CASE e # d
  <2>1. Creations(e)' = Creations(e)
    BY <1>2, <1>3, <1>4, <1>9 DEF Creations
  <2>2. Holders(e)' = Holders(e)
    BY <1>3, <1>9 DEF Holders
  <2> QED
    BY <1>6, <1>7, <2>1, <2>2
<1> QED
  BY <1>8, <1>9

\* delete: one less who chose the emoji, and one more event that counts it down.
LEMMA DeleteTold ==
  ASSUME ReactionInv, NEW r \in Request, Delete(r)
  PROVE  CountInv'
<1> USE ReactionsAssumption
<1> USE DEF ReactionInv, TypeOK, HeldInv
<1>1. PICK u \in User : u = user[r]
  BY DEF Delete
<1>2. /\ pc[r] = "delete" /\ pc'[r] = "counts"
      /\ \A q \in Request \ {r} : pc'[q] = pc[q] \/ (pc[q] = "delete" /\ pc'[q] = "gone")
      /\ UNCHANGED <<user, emoji>> /\ removals' = removals \cup {r}
      /\ reaction'[u] = None /\ \A v \in User \ {u} : reaction'[v] = reaction[v]
      /\ miscounted' = miscounted
           \cup (IF reaction[u] = emoji[r] THEN {} ELSE {reaction[u], emoji[r]} \ {None})
      /\ \A e \in Emoji \ miscounted' : shown'[e] = shown[e]
  BY <1>1 DEF Delete, DeleteRow, Miscount
<1>3. r \notin Unsent /\ Unsent' = Unsent \cup {r} /\ Unsent \subseteq Request
  BY <1>1, <1>2 DEF Unsent, At
<1>4. removals' \subseteq Unsent' /\ r \notin removals
  BY <1>2, <1>3 DEF CountInv
<1> SUFFICES ASSUME NEW e \in Emoji \ miscounted'
             PROVE  shown'[e] + Cardinality(Creations(e)') - Cardinality(Deletions(e)')
                      = Cardinality(Holders(e)')
  BY <1>4 DEF CountInv
<1>5. Creations(e)' = Creations(e) /\ shown'[e] = shown[e] /\ shown[e] \in Int
  BY <1>2, <1>3, <1>4 DEF Creations
<1>6. shown[e] + Cardinality(Creations(e)) - Cardinality(Deletions(e)) = Cardinality(Holders(e))
  BY <1>2 DEF CountInv
<1>7. reaction[u] = e <=> emoji[r] = e
  BY <1>2
<1>8. CASE emoji[r] = e
  <2>1. Deletions(e)' = Deletions(e) \cup {r} /\ r \notin Deletions(e)
    BY <1>2, <1>3, <1>8 DEF Deletions
  <2>2. Holders(e)' = Holders(e) \ {u} /\ u \in Holders(e)
    BY <1>2, <1>7, <1>8 DEF Holders
  <2>3. Cardinality(Deletions(e)') = Cardinality(Deletions(e)) + 1
    BY <2>1, FiniteCounts, FS_AddElement
  <2>4. Cardinality(Holders(e)') = Cardinality(Holders(e)) - 1
    BY <2>2, FiniteCounts, OneLess
  <2> QED
    BY <1>5, <1>6, <2>3, <2>4, FiniteCounts
<1>9. CASE emoji[r] # e
  <2>1. Deletions(e)' = Deletions(e)
    BY <1>2, <1>3, <1>9 DEF Deletions
  <2>2. Holders(e)' = Holders(e)
    BY <1>2, <1>7, <1>9 DEF Holders
  <2> QED
    BY <1>5, <1>6, <2>1, <2>2
<1> QED
  BY <1>8, <1>9

\* An event is lost, and its emoji miscounted.
LEMMA LoseTold ==
  ASSUME ReactionInv, NEW r \in Request, UNCHANGED reaction,
         Unsent' = Unsent \ {r}, removals' = removals \ {r},
         miscounted' = miscounted \cup ({emoji[r]} \ {None}),
         \A e \in Emoji \ miscounted' : shown'[e] = shown[e],
         \A q \in Request \ {r} : emoji'[q] = emoji[q]
  PROVE  CountInv'
<1>1. removals' \subseteq Unsent' /\ Unsent \subseteq Request
  BY DEF ReactionInv, CountInv, Unsent, At
<1> SUFFICES ASSUME NEW e \in Emoji \ miscounted'
             PROVE  shown'[e] + Cardinality(Creations(e)') - Cardinality(Deletions(e)')
                      = Cardinality(Holders(e)')
  BY <1>1 DEF CountInv
<1>2. emoji[r] # e
  BY ReactionsAssumption
<1>3. Creations(e)' = Creations(e) /\ Deletions(e)' = Deletions(e)
  BY <1>1, <1>2 DEF Creations, Deletions
<1>4. Holders(e)' = Holders(e) /\ shown'[e] = shown[e]
  BY DEF Holders
<1> QED
  BY <1>3, <1>4 DEF ReactionInv, CountInv

\* An event goes out, and the client counts it.
LEMMA EmitTold ==
  ASSUME ReactionInv, NEW r \in Request, Emit(r), UNCHANGED reaction,
         pc[r] \in {"event", "members"}, r \notin Unsent', removals' = removals \ {r},
         \A q \in Request \ {r} : pc'[q] = pc[q] /\ user'[q] = user[q] /\ emoji'[q] = emoji[q]
  PROVE  CountInv'
<1> USE DEF ReactionInv, TypeOK
<1>1. /\ Unsent' = Unsent \ {r} /\ Unsent \subseteq Request
      /\ r \in Unsent <=> user[r] # None
  BY DEF Unsent, At
<1>2. removals' \subseteq Unsent' /\ removals \subseteq Unsent
  BY <1>1 DEF CountInv
<1> SUFFICES ASSUME NEW e \in Emoji \ miscounted'
             PROVE  shown'[e] + Cardinality(Creations(e)') - Cardinality(Deletions(e)')
                      = Cardinality(Holders(e)')
  BY <1>2 DEF CountInv
<1>3. e \notin miscounted /\ shown[e] \in Int
  BY DEF Emit
<1>4. shown[e] + Cardinality(Creations(e)) - Cardinality(Deletions(e)) = Cardinality(Holders(e))
  BY <1>3 DEF CountInv
<1>5. Holders(e)' = Holders(e)
  BY DEF Holders
<1>6. CASE r \in Creations(e)
  <2>1. /\ Creations(e)' = Creations(e) \ {r} /\ Deletions(e)' = Deletions(e)
        /\ shown'[e] = shown[e] + 1
    BY <1>1, <1>2, <1>3, <1>6 DEF Creations, Deletions, Emit
  <2>2. Cardinality(Creations(e)') = Cardinality(Creations(e)) - 1
    BY <1>6, <2>1, FiniteCounts, OneLess
  <2> QED
    BY <1>3, <1>4, <1>5, <2>1, <2>2, FiniteCounts
<1>7. CASE r \in Deletions(e)
  <2>1. /\ Deletions(e)' = Deletions(e) \ {r} /\ Creations(e)' = Creations(e)
        /\ shown'[e] = shown[e] - 1
    BY <1>1, <1>2, <1>3, <1>7 DEF Creations, Deletions, Emit
  <2>2. Cardinality(Deletions(e)') = Cardinality(Deletions(e)) - 1
    BY <1>7, <2>1, FiniteCounts, OneLess
  <2> QED
    BY <1>3, <1>4, <1>5, <2>1, <2>2, FiniteCounts
<1>8. CASE r \notin Creations(e) \cup Deletions(e)
  <2>1. /\ Creations(e)' = Creations(e) /\ Deletions(e)' = Deletions(e)
        /\ shown'[e] = shown[e]
    BY <1>1, <1>2, <1>3, <1>8 DEF Creations, Deletions, Emit
  <2> QED
    BY <1>4, <1>5, <2>1
<1> QED
  BY <1>6, <1>7, <1>8

\* A request that has no event to send ends, or goes on with what it has read.
LEMMA NoEvent ==
  ASSUME ReactionInv, NEW r \in Request, pc[r] \notin {"counts", "event", "members"},
         \/ End(r)
         \/ \E x : \E s \in {"count", "fillCounts", "drop"} : Keep(r, s, x)
  PROVE  Unsent' = Unsent /\ UNCHANGED removals /\ \A q \in Unsent : emoji'[q] = emoji[q]
<1> USE DEF ReactionInv, TypeOK, Goto
<1>1. r \notin Unsent /\ Unsent \subseteq Request /\ removals \subseteq Unsent
  BY DEF Unsent, At, CountInv
<1>2. CASE End(r)
  <2>1. UNCHANGED removals /\ \A q \in Unsent : emoji'[q] = emoji[q]
    BY <1>1, <1>2 DEF End
  <2>2. Unsent' = Unsent
    BY <1>1, <1>2 DEF End, Unsent, At
  <2> QED
    BY <2>1, <2>2
<1>3. CASE \E x : \E s \in {"count", "fillCounts", "drop"} : Keep(r, s, x)
  BY <1>1, <1>3 DEF Keep, Unsent, At
<1> QED
  BY <1>2, <1>3

\* Every step keeps what the client lacks equal to the events under way.
LEMMA CountStep == ReactionInv /\ [Next]_vars => CountInv'
<1> SUFFICES ASSUME ReactionInv, [Next]_vars PROVE CountInv'
  OBVIOUS
<1> USE ReactionsAssumption
<1>0. removals \subseteq Unsent
  BY DEF ReactionInv, CountInv
<1>1. ASSUME NEW r \in Request, ToggleWrite(r) PROVE CountInv'
  BY <1>1, WriteTold
<1>2. ASSUME NEW r \in Request, Delete(r) PROVE CountInv'
  BY <1>2, DeleteTold
<1>3. ASSUME NEW r \in Request, EventStep(r) PROVE CountInv'
  <2>1. CASE EventCached(r) /\ list # None
    <3>1. /\ Emit(r) /\ UNCHANGED reaction /\ pc[r] = "event" /\ removals' = removals \ {r}
          /\ \A q \in Request \ {r} : pc'[q] = pc[q] /\ user'[q] = user[q] /\ emoji'[q] = emoji[q]
      BY <2>1 DEF EventCached, End, Goto, table, ReactionInv, TypeOK
    <3>2. r \notin Unsent'
      BY <2>1 DEF EventCached, End, Unsent, ReactionInv, TypeOK
    <3> QED
      BY <3>1, <3>2, EmitTold
  <2>2. CASE EventMembers(r)
    <3>1. /\ Emit(r) /\ UNCHANGED reaction /\ pc[r] = "members" /\ removals' = removals \ {r}
          /\ \A q \in Request \ {r} : pc'[q] = pc[q] /\ user'[q] = user[q] /\ emoji'[q] = emoji[q]
      BY <2>2 DEF EventMembers, Goto, table, ReactionInv, TypeOK
    <3>2. r \notin Unsent'
      BY <2>2 DEF EventMembers, Unsent, ReactionInv, TypeOK
    <3> QED
      BY <3>1, <3>2, EmitTold
  <2>3. CASE EventCached(r) /\ list = None
    <3>1. /\ pc[r] = "event" /\ pc' = [pc EXCEPT ![r] = "members"]
          /\ UNCHANGED <<reaction, user, emoji, removals, shown, miscounted>>
      BY <2>3 DEF EventCached, Goto, table, client
    <3>2. Unsent' = Unsent
      BY <3>1 DEF Unsent, At, ReactionInv, TypeOK
    <3> QED
      BY <1>0, <3>1, <3>2, QuietStep DEF ReactionInv
  <2> QED
    BY <1>3, <2>1, <2>2, <2>3 DEF EventStep
<1>4. ASSUME NEW r \in Request, LoseEvent(r) PROVE CountInv'
  <2>1. /\ pc[r] \in {"counts", "event", "members"} /\ pc' = [pc EXCEPT ![r] = "done"]
        /\ removals' = removals \ {r} /\ UNCHANGED reaction
        /\ miscounted' = miscounted \cup ({emoji[r]} \ {None})
        /\ \A e \in Emoji \ miscounted' : shown'[e] = shown[e]
        /\ \A q \in Request \ {r} : user'[q] = user[q] /\ emoji'[q] = emoji[q]
        /\ user'[r] = None /\ emoji'[r] = None
    BY <1>4 DEF LoseEvent, End, Goto, Miscount, table, ReactionInv, TypeOK
  <2>2. Unsent' = Unsent \ {r}
    BY <2>1 DEF Unsent, At, ReactionInv, TypeOK
  <2> QED
    BY <1>0, <2>1, <2>2, LoseTold
<1>5. ASSUME NEW r \in Request, EventAgain(r) PROVE CountInv'
  <2>1. /\ pc[r] \in {"event", "members"} /\ pc' = [pc EXCEPT ![r] = "event"]
        /\ UNCHANGED <<reaction, user, emoji, removals>>
        /\ miscounted \subseteq miscounted'
        /\ \A e \in Emoji \ miscounted' : shown'[e] = shown[e]
    BY <1>5 DEF EventAgain, Goto, Miscount, table, ReactionInv, TypeOK
  <2>2. Unsent' = Unsent
    BY <2>1 DEF Unsent, At, ReactionInv, TypeOK
  <2> QED
    BY <1>0, <2>1, <2>2, QuietStep DEF ReactionInv
<1>6. ASSUME Unsent' = Unsent, \A q \in Unsent : emoji'[q] = emoji[q],
             UNCHANGED <<reaction, removals, shown, miscounted>>
      PROVE  CountInv'
  BY <1>0, <1>6, QuietStep DEF ReactionInv
<1> DEFINE Quiet == /\ Unsent' = Unsent /\ \A q \in Unsent : emoji'[q] = emoji[q]
                    /\ UNCHANGED <<reaction, removals, shown, miscounted>>
<1>7. ASSUME NEW r \in Request, NEW u \in User,
             \/ \E e \in Emoji : Toggle(r, u, e)
             \/ RemoveReaction(r, u) \/ GetAggregated(r, u)
             \/ \E S \in SUBSET User : AddMembers(r, u, S)
             \/ \E v \in User : RemoveMember(r, u, v)
      PROVE  Quiet
  BY <1>7 DEF Toggle, RemoveReaction, GetAggregated, AddMembers, RemoveMember, Begin, Keep, Goto,
              Unsent, At, table, client, ReactionInv, TypeOK
<1>8. ASSUME NEW r \in Request, ToggleFind(r) \/ RemoveFind(r) \/ DeleteFails(r) PROVE Quiet
  BY <1>0, <1>8 DEF ToggleFind, RemoveFind, DeleteFails, End, Goto, Unsent, At, table, client,
                    ReactionInv, TypeOK
<1>9. ASSUME NEW r \in Request, InvalidateCounts(r) PROVE Quiet
  BY <1>9 DEF InvalidateCounts, Enqueue, Goto, Unsent, At, table, client, ReactionInv, TypeOK
<1>10. ASSUME NEW r \in Request, GetCached(r) \/ CountReactions(r) \/ FillCounts(r) PROVE Quiet
  <2>1. /\ pc[r] \in {"get", "count", "fillCounts"} /\ UNCHANGED <<reaction, shown, miscounted>>
        /\ \/ End(r)
           \/ \E x : \E s \in {"count", "fillCounts", "drop"} : Keep(r, s, x)
    BY <1>10 DEF GetCached, CountReactions, FillCounts, table, client
  <2> QED
    BY <2>1, NoEvent
<1>11. ASSUME NEW r \in Request, InsertMembers(r) \/ DropList(r) PROVE Quiet
  <2>1. /\ pc[r] \in {"add", "drop"} /\ UNCHANGED <<reaction, shown, miscounted>>
        /\ \/ End(r)
           \/ \E x : \E s \in {"count", "fillCounts", "drop"} : Keep(r, s, x)
    BY <1>11 DEF InsertMembers, DropList, table, client
  <2> QED
    BY <2>1, NoEvent
<1>12. ASSUME NEW r \in Request, DeleteMember(r) PROVE Quiet
  <2>1. pc[r] = "remove" /\ UNCHANGED <<reaction, shown, miscounted>>
    BY <1>12 DEF DeleteMember, client
  <2>2. CASE End(r)
    BY <2>1, <2>2, NoEvent
  <2>3. CASE ~End(r)
    BY <1>0, <1>12, <2>1, <2>3 DEF DeleteMember, Goto, Unsent, At, ReactionInv, TypeOK
  <2> QED
    BY <2>2, <2>3
<1>13. ASSUME NEW r \in Request, OtherEvent(r) PROVE Quiet
  BY <1>13 DEF OtherEvent, Begin, Goto, Unsent, At, table, client, ReactionInv, TypeOK
<1>14. ASSUME NEW r \in Request, FillList(r) PROVE Quiet
  <2>1. pc[r] = "fillList" /\ End(r) /\ UNCHANGED <<reaction, shown, miscounted>>
    BY <1>14 DEF FillList, table, client
  <2> QED
    BY <2>1, NoEvent
<1>15. ASSUME Expire \/ UNCHANGED vars PROVE Quiet
  BY <1>15 DEF Expire, vars, request, table, client, Unsent, At
<1> QED
  <2>1. ASSUME Quiet PROVE CountInv'
    BY <2>1, <1>6
  <2> HIDE DEF Quiet
  <2>2. ASSUME Next PROVE CountInv'
    BY <2>1, <2>2, <1>1, <1>2, <1>3, <1>4, <1>5, <1>7, <1>8, <1>9, <1>10, <1>11, <1>12, <1>13,
       <1>14, <1>15
    DEF Next
  <2> QED
    BY <2>1, <2>2, <1>15

\* toggle, remove, getAggregated and the members of the group: both caches hold what the
\* tables hold at every await, but for the named causes, and the counts of a client differ
\* from the table by the events under way.
THEOREM ReactionInvariant == Spec => []ReactionInv
<1>1. ReactionInv /\ [Next]_vars => ReactionInv'
  BY CacheStep, CountStep DEF ReactionInv
<1> QED
  BY <1>1, ReactionInit, PTL DEF Spec

\* emitReactionEvent and its job: a client that counts events up and down ends with the
\* number of those who chose an emoji, in whatever order the jobs run, unless a change was
\* made that the events do not tell.
THEOREM EventsDoConverge == Spec => []EventsConverge
<1>1. ReactionInv => EventsConverge
  <2> SUFFICES ASSUME ReactionInv, NEW e \in Emoji \ miscounted, \A r \in Unsent : emoji[r] # e
               PROVE  shown[e] = Cardinality(Holders(e))
    BY DEF EventsConverge
  <2>1. Creations(e) = {} /\ Deletions(e) = {}
    BY DEF Creations, Deletions
  <2>2. shown[e] + Cardinality(Creations(e)) - Cardinality(Deletions(e)) = Cardinality(Holders(e))
    BY DEF ReactionInv, CountInv
  <2>3. shown[e] \in Int
    BY DEF ReactionInv, TypeOK
  <2> QED
    BY <2>1, <2>2, <2>3, FS_EmptySet
<1> QED
  BY <1>1, ReactionInvariant, PTL

-----------------------------------------------------------------------------
(* The unread counter.                                                     *)

\* The counts are numbers of messages.
LEMMA UnreadIsCount ==
  /\ Cardinality(Message) \in Nat
  /\ Unread \in 0 .. Cardinality(Message)
<1>1. UnreadMessages \subseteq Message
  BY DEF UnreadMessages
<1> QED
  BY <1>1, UnreadCounterAssumption, FS_Subset, FS_CardinalityType DEF Unread

\* What is unread depends on the statuses alone.
LEMMA SameUnread == status' = status => Unread' = Unread
  BY DEF Unread, UnreadMessages

\* A request for a recalculation starts a job, finds one that has yet to count, or leaves
\* a mark; so does one that is lost.
LEMMA RecalcAsked ==
  ASSUME job \in JobState, attempts \in 0 .. MaxAttempts - 1, drift \subseteq Drift,
         enqueueRecalc \/ EnqueueFails
  PROVE  /\ job' \in JobState /\ attempts' \in 0 .. MaxAttempts - 1 /\ counted' = counted
         /\ drift' \subseteq Drift
         /\ drift' # {} \/ job' \in {"waiting", "count"}
<1> USE UnreadCounterAssumption DEF JobState, ActiveJob, Drift, Note
<1>1. CASE enqueueRecalc
  BY <1>1 DEF enqueueRecalc
<1>2. CASE EnqueueFails
  BY <1>2 DEF EnqueueFails, queue
<1> QED
  BY <1>1, <1>2

\* An acknowledgement goes on: its step changes, its body does not.
LEMMA AckMoves ==
  ASSUME ack \in [Ack -> {NoBody} \cup AckBody], NEW a \in Ack,
         NEW s \in {"own", "enqueue", "done"}, AckTo(a, s), ack[a].step # "idle"
  PROVE  /\ ack' \in [Ack -> {NoBody} \cup AckBody]
         /\ ack'[a].step = s /\ ack'[a].envelope = ack[a].envelope
         /\ ack'[a].status = ack[a].status
         /\ ack[a].envelope \in Envelope /\ ack[a].status \in AckStatus
         /\ \A b \in Ack \ {a} : ack'[b] = ack[b]
<1>1. ack[a] \in AckBody
  BY DEF NoBody
<1> DEFINE r == [ack[a] EXCEPT !.step = s]
<1>2. ack' = [ack EXCEPT ![a] = r]
  BY DEF AckTo
<1>3. /\ r \in AckBody /\ r.step = s
      /\ r.envelope = ack[a].envelope /\ r.status = ack[a].status
      /\ ack[a].envelope \in Envelope /\ ack[a].status \in AckStatus
  BY <1>1 DEF AckBody
<1> HIDE DEF r
<1> QED
  BY <1>2, <1>3

\* What an acknowledgement that began carries.
LEMMA AckCarries ==
  ASSUME ack \in [Ack -> {NoBody} \cup AckBody]
  PROVE  \A a \in Ack : ack[a].step # "idle" =>
           ack[a].envelope \in Envelope /\ ack[a].status \in AckStatus
  BY DEF NoBody, AckBody

\* The state stays well formed.
LEMMA UnreadTypeStep == UnreadTypeOK /\ [UnreadNext]_unreadVars => UnreadTypeOK'
<1> SUFFICES ASSUME UnreadTypeOK, [UnreadNext]_unreadVars PROVE UnreadTypeOK'
  OBVIOUS
<1> USE UnreadCounterAssumption, UnreadIsCount
<1> USE DEF UnreadTypeOK
<1>0. \A a \in Ack : ack[a].step # "idle" =>
        ack[a].envelope \in Envelope /\ ack[a].status \in AckStatus
  BY AckCarries
<1>1. CASE JobStep \/ JobFails \/ FailedJobRemoved
  <2> USE DEF JobStep, JobStart, JobCount, JobWrite, JobFinish, JobFails, FailedJobRemoved
  <2>1. UNCHANGED <<status, owed, ack, mark>>
    BY <1>1 DEF envelopes
  <2>2. job' \in JobState
    BY <1>1 DEF JobState, ActiveJob
  <2>3. counter' \in 0 .. Cardinality(Message) /\ counted' \in 0 .. Cardinality(Message)
    BY <1>1
  <2>4. drift' \subseteq Drift
    BY <1>1 DEF Note, Drift
  <2>5. attempts' \in 0 .. MaxAttempts - 1
    BY <1>1
  <2> QED
    BY <2>1, <2>2, <2>3, <2>4, <2>5
<1>2. ASSUME NEW m \in Message, MessageCommitted(m) PROVE UnreadTypeOK'
  BY <1>2 DEF MessageCommitted, queue
<1>3. ASSUME NEW m \in Message, SenderEnqueues(m) PROVE UnreadTypeOK'
  BY <1>3, RecalcAsked DEF SenderEnqueues
<1>4. ASSUME NEW m \in Message, SenderCrashes(m) PROVE UnreadTypeOK'
  BY <1>4 DEF SenderCrashes, Note, Drift, queue
<1>5. ASSUME NEW a \in Ack, AckFind(a) PROVE UnreadTypeOK'
  <2>1. ack' \in [Ack -> {NoBody} \cup AckBody]
    BY <1>5 DEF AckFind, AckBody
  <2> QED
    BY <1>5, <2>1 DEF AckFind, envelopes, queue
<1>6. ASSUME NEW a \in Ack, AckBulk(a) PROVE UnreadTypeOK'
  <2>1. ack' \in [Ack -> {NoBody} \cup AckBody]
    BY <1>6, AckMoves DEF AckBulk
  <2> QED
    BY <1>6, <2>1 DEF AckBulk, queue
<1>7. ASSUME NEW a \in Ack, AckOwn(a) PROVE UnreadTypeOK'
  <2>1. ack' \in [Ack -> {NoBody} \cup AckBody]
    BY <1>7, AckMoves DEF AckOwn
  <2>2. status' \in [Envelope -> {"NONE", "PENDING", "DELIVERED", "READ"}]
    BY <1>0, <1>7 DEF AckOwn
  <2>3. drift' \subseteq Drift
    BY <1>7 DEF AckOwn, Note, Drift
  <2> QED
    BY <1>7, <2>1, <2>2, <2>3 DEF AckOwn, queue
<1>8. ASSUME NEW a \in Ack, AckEnqueues(a) PROVE UnreadTypeOK'
  <2>1. ack' \in [Ack -> {NoBody} \cup AckBody]
    BY <1>8, AckMoves DEF AckEnqueues
  <2> QED
    BY <1>8, <2>1, RecalcAsked DEF AckEnqueues, envelopes
<1>9. ASSUME NEW a \in Ack, AckCrashes(a) PROVE UnreadTypeOK'
  <2>1. ack' \in [Ack -> {NoBody} \cup AckBody]
    BY <1>9, AckMoves DEF AckCrashes
  <2>2. drift' \subseteq Drift
    BY <1>9 DEF AckCrashes, Note, Drift
  <2> QED
    BY <1>9, <2>1, <2>2 DEF AckCrashes, envelopes, queue
<1>10. ASSUME NEW k \in MarkAll, MarkEnvelopes(k) PROVE UnreadTypeOK'
  <2>1. mark' \in [MarkAll -> MarkBody]
    BY <1>10 DEF MarkEnvelopes, MarkBody
  <2> QED
    BY <1>10, <2>1 DEF MarkEnvelopes, envelopes, queue
<1>11. ASSUME NEW k \in MarkAll, MarkCommit(k) PROVE UnreadTypeOK'
  <2>1. mark' \in [MarkAll -> MarkBody]
    BY <1>11 DEF MarkCommit, MarkBody
  <2>2. status' \in [Envelope -> {"NONE", "PENDING", "DELIVERED", "READ"}]
    BY <1>11 DEF MarkCommit
  <2>3. drift' \subseteq Drift
    BY <1>11 DEF MarkCommit, Note, Drift
  <2> QED
    BY <1>11, <2>1, <2>2, <2>3 DEF MarkCommit, queue
<1>12. ASSUME NEW k \in MarkAll, MarkRollback(k) PROVE UnreadTypeOK'
  <2>1. mark' \in [MarkAll -> MarkBody]
    BY <1>12 DEF MarkRollback, MarkBody
  <2> QED
    BY <1>12, <2>1 DEF MarkRollback, envelopes, queue
<1>13. CASE UNCHANGED unreadVars
  BY <1>13 DEF unreadVars, envelopes, queue
<1> QED
  BY <1>1, <1>2, <1>3, <1>4, <1>5, <1>6, <1>7, <1>8, <1>9, <1>10, <1>11, <1>12, <1>13
     DEF UnreadNext, AckStep

\* No step takes an envelope away.
LEMMA EnvelopesStay ==
  UnreadTypeOK /\ [UnreadNext]_unreadVars =>
    \A e \in Envelope : status[e] # NotSent => status'[e] # NotSent
<1> SUFFICES ASSUME UnreadTypeOK, [UnreadNext]_unreadVars,
                    NEW e \in Envelope, status[e] # NotSent
             PROVE  status'[e] # NotSent
  OBVIOUS
<1> USE DEF NotSent
<1>1. CASE UNCHANGED status
  BY <1>1
<1>2. ASSUME NEW m \in Message, MessageCommitted(m) PROVE status'[e] # NotSent
  BY <1>2 DEF MessageCommitted
<1>3. ASSUME NEW a \in Ack, AckBulk(a) PROVE status'[e] # NotSent
  BY <1>3 DEF AckBulk
<1>4. ASSUME NEW a \in Ack, AckOwn(a) PROVE status'[e] # NotSent
  BY <1>4, AckCarries, UnreadCounterAssumption DEF AckOwn, UnreadTypeOK
<1>5. ASSUME NEW k \in MarkAll, MarkCommit(k) PROVE status'[e] # NotSent
  BY <1>5 DEF MarkCommit
<1> QED
  BY <1>1, <1>2, <1>3, <1>4, <1>5
     DEF UnreadNext, JobStep, JobStart, JobCount, JobWrite, JobFinish, JobFails,
         FailedJobRemoved, SenderEnqueues, SenderCrashes, AckStep, AckFind, AckEnqueues,
         AckCrashes, MarkEnvelopes, MarkRollback, envelopes, unreadVars

\* An acknowledgement that found an envelope keeps it.
LEMMA FoundStep ==
  UnreadTypeOK /\ FoundInv /\ [UnreadNext]_unreadVars => FoundInv'
<1> SUFFICES ASSUME UnreadTypeOK, FoundInv, [UnreadNext]_unreadVars PROVE FoundInv'
  OBVIOUS
<1>1. /\ \A e \in Envelope : status[e] # NotSent => status'[e] # NotSent
      /\ ack \in [Ack -> {NoBody} \cup AckBody]
  BY EnvelopesStay DEF UnreadTypeOK
<1>2. \A a \in Ack : ack[a].step # "idle" =>
        ack[a].envelope \in Envelope /\ ack[a].status \in AckStatus
  BY <1>1, AckCarries
<1>3. CASE UNCHANGED ack
  BY <1>1, <1>2, <1>3 DEF FoundInv
<1>4. ASSUME NEW a \in Ack, AckFind(a) PROVE FoundInv'
  BY <1>1, <1>2, <1>4 DEF AckFind, FoundInv
<1>5. ASSUME NEW a \in Ack, NEW s \in {"own", "enqueue", "done"}, AckTo(a, s),
             ack[a].step # "idle"
      PROVE  FoundInv'
  BY <1>1, <1>2, <1>5, AckMoves DEF FoundInv
<1>6. ASSUME NEW a \in Ack, AckStep(a) \/ AckCrashes(a) PROVE FoundInv'
  BY <1>5, <1>6 DEF AckStep, AckBulk, AckOwn, AckEnqueues, AckCrashes
<1> QED
  BY <1>3, <1>4, <1>6
     DEF UnreadNext, JobStep, JobStart, JobCount, JobWrite, JobFinish, JobFails,
         FailedJobRemoved, MessageCommitted, SenderEnqueues, SenderCrashes, MarkEnvelopes,
         MarkCommit, MarkRollback, unreadVars

\* A DELIVERED acknowledgement of an envelope that is not READ leaves the number of unread
\* messages as it is.
LEMMA DeliveryKeepsUnread ==
  ASSUME UnreadTypeOK, NEW e \in Envelope, status[e] \in {"PENDING", "DELIVERED"},
         status' = [status EXCEPT ![e] = "DELIVERED"]
  PROVE  Unread' = Unread
  BY DEF UnreadTypeOK, Unread, UnreadMessages, Envelope

\* Every step leaves the counter right, a correction under way, or a mark.
LEMMA DriftStep ==
  UnreadInv /\ [UnreadNext]_unreadVars => DriftIsExplained'
<1> SUFFICES ASSUME UnreadInv, [UnreadNext]_unreadVars, drift' = {}, ~Correcting'
             PROVE  (IF job' = "write" THEN counted' ELSE counter') = Unread'
  BY DEF DriftIsExplained
<1> DEFINE Right == (IF job' = "write" THEN counted' ELSE counter') = Unread'
<1> USE SameUnread
<1> USE DEF UnreadInv, UnreadTypeOK, DriftIsExplained, Correcting
<1>1. CASE JobStep \/ JobFails \/ FailedJobRemoved
  BY <1>1 DEF JobStep, JobStart, JobCount, JobWrite, JobFinish, JobFails, FailedJobRemoved,
              Note, envelopes
<1>2. ASSUME NEW m \in Message, MessageCommitted(m) PROVE Right
  BY <1>2 DEF MessageCommitted
<1>3. ASSUME NEW m \in Message, SenderEnqueues(m) PROVE Right
  BY <1>3, RecalcAsked DEF SenderEnqueues
<1>4. ASSUME NEW m \in Message, SenderCrashes(m) PROVE Right
  BY <1>4 DEF SenderCrashes, Note
<1>5. ASSUME NEW a \in Ack, AckFind(a) PROVE Right
  BY <1>5 DEF AckFind, NoBody, envelopes, queue
<1>6. ASSUME NEW a \in Ack, AckBulk(a) PROVE Right
  <2>1. AckTo(a, "own") /\ ack[a].step # "idle" /\ ack[a].status = "READ"
    BY <1>6 DEF AckBulk, FoundInv
  <2> QED
    BY <2>1, AckMoves
<1>7. ASSUME NEW a \in Ack, AckOwn(a) PROVE Right
  <2>1. CASE ack[a].status = "READ"
    <3>1. AckTo(a, "enqueue") /\ ack[a].step # "idle"
      BY <1>7, <2>1 DEF AckOwn
    <3> QED
      BY <3>1, AckMoves
  <2>2. CASE ack[a].status # "READ"
    <3>1. AckTo(a, "done") /\ ack[a].step = "own"
      BY <1>7, <2>2 DEF AckOwn
    <3>2. /\ ack[a].envelope \in Envelope /\ ack[a].status = "DELIVERED"
          /\ status[ack[a].envelope] \in {"PENDING", "DELIVERED"}
          /\ drift = {}
      BY <1>7, <2>2, <3>1, AckCarries, UnreadCounterAssumption
         DEF AckOwn, Note, FoundInv, NotSent
    <3>3. Unread' = Unread
      BY <1>7, <3>2, DeliveryKeepsUnread DEF AckOwn
    <3>4. ~Correcting
      BY <1>7, <2>2, <3>1, AckMoves DEF AckOwn, queue
    <3> QED
      BY <1>7, <3>2, <3>3, <3>4 DEF AckOwn, queue
  <2> QED
    BY <2>1, <2>2
<1>8. ASSUME NEW a \in Ack, AckEnqueues(a) PROVE Right
  BY <1>8, RecalcAsked DEF AckEnqueues
<1>9. ASSUME NEW a \in Ack, AckCrashes(a) PROVE Right
  BY <1>9 DEF AckCrashes, Note
<1>10. ASSUME NEW k \in MarkAll, MarkEnvelopes(k) PROVE Right
  BY <1>10 DEF MarkEnvelopes, envelopes, queue
<1>11. ASSUME NEW k \in MarkAll, MarkCommit(k) PROVE Right
  <2>1. job # "write" /\ UnreadMessages' = {} /\ counter' = 0 /\ job' = job
    BY <1>11 DEF MarkCommit, Note, queue
  <2>2. Unread' = 0
    BY <2>1, FS_EmptySet DEF Unread
  <2> QED
    BY <2>1, <2>2
<1>12. ASSUME NEW k \in MarkAll, MarkRollback(k) PROVE Right
  BY <1>12 DEF MarkRollback, envelopes, queue
<1>13. CASE UNCHANGED unreadVars
  BY <1>13 DEF unreadVars, envelopes, queue
<1> QED
  BY <1>1, <1>2, <1>3, <1>4, <1>5, <1>6, <1>7, <1>8, <1>9, <1>10, <1>11, <1>12, <1>13
     DEF UnreadNext, AckStep

\* ack, markAllRead, the senders and the recalculation job: whatever overlaps or fails, the
\* counter is right, a correction is under way, or one of five events since the last COUNT
\* explains the difference.
THEOREM UnreadInvariant == UnreadSpec => []UnreadInv
<1>1. UnreadInit => UnreadInv
  <2> SUFFICES ASSUME UnreadInit PROVE UnreadInv
    OBVIOUS
  <2>1. UnreadTypeOK
    BY UnreadCounterAssumption, UnreadIsCount
       DEF UnreadInit, UnreadTypeOK, NotSent, JobState, MarkBody
  <2>2. Unread = 0
    <3>1. UnreadMessages = {}
      BY DEF UnreadInit, UnreadMessages, NotSent, Envelope
    <3> QED
      BY <3>1, FS_EmptySet DEF Unread
  <2>3. DriftIsExplained /\ FoundInv
    BY <2>2 DEF UnreadInit, DriftIsExplained, FoundInv, NoBody
  <2> QED
    BY <2>1, <2>3 DEF UnreadInv
<1>2. UnreadInv /\ [UnreadNext]_unreadVars => UnreadInv'
  BY UnreadTypeStep, FoundStep, DriftStep DEF UnreadInv
<1> QED
  BY <1>1, <1>2, PTL DEF UnreadSpec
=============================================================================
