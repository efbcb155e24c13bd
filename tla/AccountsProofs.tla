--------------------------- MODULE AccountsProofs ---------------------------
(***************************************************************************)
(* Devices, prekeys, bundles, usernames and push tokens, for any number of *)
(* requests, devices, keys and users and any limits.                       *)
(***************************************************************************)
EXTENDS Accounts, FiniteSetTheorems, TLAPS

Places == {"idle", "create", "insert", "lock", "rotate", "prekeys", "consume", "profile", "send",
           "clear", "done", "failed"}

LEMMA Kinds ==
  /\ None \in Target /\ Device \subseteq Target /\ User \subseteq Target
  /\ SUBSET Device \subseteq Target
  /\ None \in Wanted /\ KeyId \subseteq Wanted /\ Name \subseteq Wanted
  /\ PushToken \subseteq Wanted /\ SUBSET KeyId \subseteq Wanted
  BY DEF Target, Wanted

LEMMA KeySize == IsFiniteSet(Key) /\ Cardinality(Key) \in Nat
  BY AccountsAssumption, FS_Product, FS_CardinalityType DEF Key

\* The end of a request clears its variables, and no other's.
LEMMA AnswerStep ==
  ASSUME TypeOK, NEW r \in Request, NEW s \in {"done", "failed"}, Answer(r, s)
  PROVE  /\ pc' \in [Request -> Places]
         /\ target' \in [Request -> Target] /\ wanted' \in [Request -> Wanted]
         /\ rows' \in [Request -> SUBSET Key]
         /\ pc'[r] = s
         /\ \A q \in Request \ {r} : /\ pc'[q] = pc[q] /\ target'[q] = target[q]
                                     /\ wanted'[q] = wanted[q] /\ rows'[q] = rows[q]
  BY Kinds DEF Answer, Goto, TypeOK, Places

LEMMA GotoStep ==
  ASSUME TypeOK, NEW r \in Request, NEW s \in Places, Goto(r, s)
  PROVE  /\ pc' \in [Request -> Places] /\ pc'[r] = s
         /\ \A q \in Request \ {r} : pc'[q] = pc[q]
  BY DEF Goto, TypeOK, Places

-----------------------------------------------------------------------------
(* Types and what the requests keep.                                       *)

LEMMA TypeStep == TypeOK /\ RequestInv /\ [Next]_vars => TypeOK' /\ RequestInv'
<1> SUFFICES ASSUME TypeOK, RequestInv, [Next]_vars PROVE TypeOK' /\ RequestInv'
  OBVIOUS
<1> USE AccountsAssumption, Kinds
<1> USE DEF TypeOK, RequestInv, Places, push, table, request, history, KeysOf
<1> DEFINE Typed == TypeOK' /\ RequestInv'
<1>1. ASSUME NEW r \in Request, NEW d \in Device, RegisterKnown(r, d) PROVE Typed
  BY <1>1, GotoStep DEF RegisterKnown
<1>2. ASSUME NEW r \in Request, NEW d \in Device, RegisterCount(r, d) PROVE Typed
  BY <1>2, GotoStep DEF RegisterCount
<1>3. ASSUME NEW r \in Request, NEW d \in Device, Deactivate(r, d) PROVE Typed
  BY <1>3, GotoStep DEF Deactivate
<1>4. ASSUME NEW r \in Request, NEW d \in Device, PushRead(r, d) PROVE Typed
  BY <1>4, GotoStep DEF PushRead
<1>5. ASSUME NEW r \in Request, NEW d \in Device, NEW K \in SUBSET KeyId, RefillCount(r, d, K)
      PROVE  Typed
  BY <1>5, GotoStep DEF RefillCount, Overlaps
<1>6. ASSUME NEW r \in Request, NEW d \in Device, NEW k \in KeyId, RotateBegin(r, d, k)
      PROVE  Typed
  <2>1. CASE d \notin active
    BY <1>6, <2>1, GotoStep DEF RotateBegin
  <2>2. CASE d \in active
    <3>1. /\ target' \in [Request -> Target] /\ target'[r] = d
          /\ wanted' \in [Request -> Wanted] /\ wanted'[r] = k
          /\ rows' \in [Request -> SUBSET Key] /\ rows'[r] \subseteq KeysOf(d, Key)
          /\ \A q \in Request \ {r} : /\ target'[q] = target[q] /\ wanted'[q] = wanted[q]
                                      /\ rows'[q] = rows[q]
      BY <1>6, <2>2 DEF RotateBegin
    <3> QED
      BY <1>6, <2>2, <3>1, GotoStep DEF RotateBegin
  <2> QED
    BY <2>1, <2>2
<1>7. ASSUME NEW r \in Request, RegisterCreate(r) PROVE Typed
  BY <1>7, AnswerStep DEF RegisterCreate
<1>8. ASSUME NEW r \in Request, RefillInsert(r) PROVE Typed
  BY <1>8, AnswerStep DEF RefillInsert, Key
<1>9. ASSUME NEW r \in Request, RotateLock(r) PROVE Typed
  BY <1>9, GotoStep DEF RotateLock
<1>10. ASSUME NEW r \in Request, RotateCommit(r) PROVE Typed
  <2>1. target[r] \in Device /\ wanted[r] \in KeyId /\ <<target[r], wanted[r]>> \in Key
    BY <1>10 DEF RotateCommit, Key
  <2>2. stamp' \in [Key -> Nat]
    BY <1>10, <2>1, KeySize DEF RotateCommit
  <2> DEFINE new == <<target[r], wanted[r]>>
  <2>3. /\ signed' \subseteq signed \cup {new} /\ forked' \subseteq forked \cup {new}
        /\ signed' \subseteq Key /\ forked' \subseteq Key
    <3>1. new \in Key
      BY <2>1
    <3>2. /\ signed' = (signed \ rows[r]) \cup {new}
          /\ forked' = IF r \in late THEN forked \cup {new} ELSE forked \ {new}
      BY <1>10 DEF RotateCommit
    <3> HIDE DEF new
    <3> QED
      BY <3>1, <3>2
  <2>4. latest' \in [Device -> KeyId \cup {None}]
    BY <1>10, <2>1 DEF RotateCommit
  <2> QED
    BY <1>10, <2>2, <2>3, <2>4, AnswerStep DEF RotateCommit
<1>11. ASSUME NEW r \in Request, BundleDevices(r) PROVE Typed
  BY <1>11, GotoStep DEF BundleDevices
<1>12. ASSUME NEW r \in Request, BundlePrekeys(r) PROVE Typed
  BY <1>12, GotoStep DEF BundlePrekeys
<1>13. ASSUME NEW r \in Request, BundleConsume(r) PROVE Typed
  BY <1>13, AnswerStep DEF BundleConsume
<1>14. ASSUME NEW r \in Request, Abort(r) PROVE Typed
  BY <1>14, AnswerStep DEF Abort
<1>15. ASSUME NEW r \in Request, NEW u \in User, NEW n \in Name, ProfileCheck(r, u, n)
       PROVE  Typed
  BY <1>15, GotoStep DEF ProfileCheck
<1>16. ASSUME NEW r \in Request, ProfileUpdate(r) PROVE Typed
  BY <1>16, AnswerStep DEF ProfileUpdate
<1>17. ASSUME NEW r \in Request, PushSend(r) PROVE Typed
  BY <1>17, AnswerStep, GotoStep DEF PushSend
<1>18. ASSUME NEW r \in Request, PushClear(r) PROVE Typed
  BY <1>18, AnswerStep DEF PushClear
<1>19. CASE UNCHANGED vars
  BY <1>19 DEF vars
<1> QED
  BY <1>1, <1>2, <1>3, <1>4, <1>5, <1>6, <1>7, <1>8, <1>9, <1>10, <1>11, <1>12, <1>13,
     <1>14, <1>15, <1>16, <1>17, <1>18, <1>19 DEF Next, PushStep

-----------------------------------------------------------------------------
(* The requests that are not late.                                         *)

LEMMA FirstStep ==
  TypeOK /\ RequestInv /\ FirstInv /\ [Next]_vars => FirstInv'
<1> SUFFICES ASSUME TypeOK, RequestInv, FirstInv, [Next]_vars PROVE FirstInv'
  OBVIOUS
<1> USE DEF FirstInv, TypeOK, Places, push, table, request, history
<1>1. ASSUME NEW r \in Request, NEW d \in Device, RegisterKnown(r, d) \/ Deactivate(r, d)
      PROVE  FirstInv'
  BY <1>1, GotoStep DEF RegisterKnown, Deactivate
<1>2. ASSUME NEW r \in Request, NEW d \in Device, RegisterCount(r, d) PROVE FirstInv'
  BY <1>2, GotoStep DEF RegisterCount
<1>3. ASSUME NEW r \in Request, NEW d \in Device, PushRead(r, d) PROVE FirstInv'
  BY <1>3, GotoStep DEF PushRead
<1>4. ASSUME NEW r \in Request, NEW d \in Device, NEW K \in SUBSET KeyId, RefillCount(r, d, K)
      PROVE  FirstInv'
  BY <1>4, GotoStep DEF RefillCount, Overlaps
<1>5. ASSUME NEW r \in Request, NEW d \in Device, NEW k \in KeyId, RotateBegin(r, d, k)
      PROVE  FirstInv'
  BY <1>5, GotoStep DEF RotateBegin
<1>6. ASSUME NEW r \in Request, RotateLock(r) PROVE FirstInv'
  BY <1>6, GotoStep DEF RotateLock
<1>7. ASSUME NEW r \in Request, BundleDevices(r) PROVE FirstInv'
  BY <1>7, GotoStep DEF BundleDevices
<1>8. ASSUME NEW r \in Request, BundlePrekeys(r) PROVE FirstInv'
  BY <1>8, GotoStep DEF BundlePrekeys
<1>9. ASSUME NEW r \in Request, NEW u \in User, NEW n \in Name, ProfileCheck(r, u, n)
      PROVE  FirstInv'
  BY <1>9, GotoStep DEF ProfileCheck
<1>10. ASSUME NEW r \in Request, PushSend(r) PROVE FirstInv'
  BY <1>10, AnswerStep, GotoStep DEF PushSend
<1>11. ASSUME NEW r \in Request,
              \/ RegisterCreate(r) \/ RefillInsert(r) \/ RotateCommit(r) \/ BundleConsume(r)
              \/ Abort(r) \/ ProfileUpdate(r) \/ PushClear(r)
       PROVE  FirstInv'
  <2>1. late' = late /\ (Answer(r, "done") \/ Answer(r, "failed"))
    BY <1>11 DEF RegisterCreate, RefillInsert, RotateCommit, BundleConsume, Abort, ProfileUpdate,
                 PushClear
  <2> QED
    BY <2>1, AnswerStep
<1>12. CASE UNCHANGED vars
  BY <1>12 DEF vars
<1> QED
  BY <1>1, <1>2, <1>3, <1>4, <1>5, <1>6, <1>7, <1>8, <1>9, <1>10, <1>11, <1>12
  DEF Next, PushStep

\* The sizes that the limits are about.
LEMMA SubsetSize ==
  ASSUME NEW S, IsFiniteSet(S), NEW T \in SUBSET S, NEW U \in SUBSET T
  PROVE  /\ IsFiniteSet(T) /\ IsFiniteSet(U)
         /\ Cardinality(T) \in Nat /\ Cardinality(U) \in Nat /\ Cardinality(U) <= Cardinality(T)
  BY FS_Subset, FS_CardinalityType

LEMMA OneMoreSize ==
  ASSUME NEW S, IsFiniteSet(S), NEW x, NEW T \in SUBSET (S \cup {x})
  PROVE  Cardinality(T) \in Nat /\ Cardinality(S) \in Nat /\ Cardinality(T) <= Cardinality(S) + 1
<1>1. /\ IsFiniteSet(S \cup {x})
      /\ Cardinality(S \cup {x}) = IF x \in S THEN Cardinality(S) ELSE Cardinality(S) + 1
  BY FS_AddElement
<1>2. /\ Cardinality(S) \in Nat /\ Cardinality(T) \in Nat
      /\ Cardinality(T) <= Cardinality(S \cup {x})
  BY <1>1, FS_Subset, FS_CardinalityType
<1> QED
  BY <1>1, <1>2

-----------------------------------------------------------------------------
(* register.                                                               *)

DeviceInv ==
  /\ DeviceLimit
  /\ \A r \in Request \ late : pc[r] = "create" => Cardinality(active \ excused) < MaxActiveDevices

\* A step that neither counts a device nor makes one active.
LEMMA DeviceKept ==
  ASSUME TypeOK, DeviceInv, (active \ excused)' \in SUBSET (active \ excused),
         \A q \in Request \ late' : pc'[q] = "create" => pc[q] = "create" /\ q \notin late
  PROVE  DeviceInv'
<1>1. active \ excused \in SUBSET Device /\ IsFiniteSet(Device) /\ MaxActiveDevices \in Nat
  BY AccountsAssumption DEF TypeOK
<1>2. /\ Cardinality((active \ excused)') \in Nat /\ Cardinality(active \ excused) \in Nat
      /\ Cardinality((active \ excused)') <= Cardinality(active \ excused)
  BY <1>1, SubsetSize
<1> QED
  BY <1>1, <1>2 DEF DeviceInv, DeviceLimit

LEMMA DeviceStep ==
  TypeOK /\ RequestInv /\ FirstInv /\ DeviceInv /\ [Next]_vars => DeviceInv'
<1> SUFFICES ASSUME TypeOK, RequestInv, FirstInv, DeviceInv, [Next]_vars PROVE DeviceInv'
  OBVIOUS
<1> USE DEF TypeOK, Places, push, table, request, history
<1> DEFINE counted == active \ excused
<1>0. counted \in SUBSET Device /\ IsFiniteSet(Device) /\ MaxActiveDevices \in Nat
  BY AccountsAssumption
<1> DEFINE Quiet == /\ counted' \subseteq counted
                    /\ \A q \in Request \ late' : pc'[q] = "create" => pc[q] = "create" /\ q \notin late
<1>1. ASSUME Quiet PROVE DeviceInv'
  BY <1>1, DeviceKept
<1>2. ASSUME NEW r \in Request, NEW d \in Device, RegisterKnown(r, d) \/ Deactivate(r, d)
      PROVE  Quiet
  BY <1>2, GotoStep DEF RegisterKnown, Deactivate
<1>3. ASSUME NEW r \in Request, NEW d \in Device, RegisterCount(r, d) PROVE DeviceInv'
  <2>1. CASE Cardinality(active) >= MaxActiveDevices
    <3>1. Quiet
      BY <1>3, <2>1, GotoStep DEF RegisterCount
    <3> QED
      BY <1>1, <3>1
  <2>2. CASE Cardinality(active) < MaxActiveDevices
    <3>1. active \in SUBSET Device /\ counted \in SUBSET active
      OBVIOUS
    <3>2. /\ Cardinality(counted) \in Nat /\ Cardinality(active) \in Nat
          /\ Cardinality(counted) <= Cardinality(active)
      BY <1>0, <3>1, SubsetSize
    <3>3. Cardinality(counted') = Cardinality(counted)
      BY <1>3 DEF RegisterCount
    <3> HIDE DEF counted
    <3>4. Cardinality(counted') < MaxActiveDevices /\ Cardinality(counted') <= MaxActiveDevices
      BY <1>0, <2>2, <3>2, <3>3
    <3> USE DEF counted
    <3> QED
      BY <3>4 DEF DeviceInv, DeviceLimit
  <2>3. Cardinality(active) \in Nat
    BY <1>0, SubsetSize
  <2> QED
    BY <1>0, <2>1, <2>2, <2>3
<1>4. ASSUME NEW r \in Request, RegisterCreate(r) PROVE DeviceInv'
  <2>1. /\ pc[r] = "create" /\ late' = late /\ target[r] \in Device
        /\ pc'[r] # "create" /\ \A q \in Request \ {r} : pc'[q] = pc[q]
    BY <1>4, AnswerStep DEF RegisterCreate, RequestInv
  <2>2. CASE target[r] \in known \/ r \in late
    <3>1. Quiet
      BY <1>4, <2>1, <2>2 DEF RegisterCreate
    <3> QED
      BY <1>1, <3>1
  <2>3. CASE target[r] \notin known /\ r \notin late
    <3>1. counted' \in SUBSET (counted \cup {target[r]})
      BY <1>4, <2>3 DEF RegisterCreate
    <3>2. IsFiniteSet(counted)
      BY <1>0, SubsetSize
    <3>3. /\ Cardinality(counted') \in Nat /\ Cardinality(counted) \in Nat
          /\ Cardinality(counted') <= Cardinality(counted) + 1
      BY <3>1, <3>2, OneMoreSize
    <3>4. Cardinality(counted) < MaxActiveDevices
      BY <2>1, <2>3 DEF DeviceInv
    <3>5. Cardinality(counted') <= MaxActiveDevices
      BY <1>0, <3>3, <3>4
    <3>6. \A q \in Request \ late' : pc'[q] # "create"
      BY <2>1, <2>3 DEF FirstInv
    <3> QED
      BY <3>5, <3>6 DEF DeviceInv, DeviceLimit
  <2> QED
    BY <2>2, <2>3
<1>5. ASSUME NEW r \in Request, NEW d \in Device, PushRead(r, d) PROVE Quiet
  BY <1>5, GotoStep DEF PushRead
<1>6. ASSUME NEW r \in Request, NEW d \in Device, NEW K \in SUBSET KeyId, RefillCount(r, d, K)
      PROVE  Quiet
  BY <1>6, GotoStep DEF RefillCount, Overlaps
<1>7. ASSUME NEW r \in Request, NEW d \in Device, NEW k \in KeyId, RotateBegin(r, d, k)
      PROVE  Quiet
  BY <1>7, GotoStep DEF RotateBegin
<1>8. ASSUME NEW r \in Request, RotateLock(r) \/ BundleDevices(r) \/ BundlePrekeys(r) PROVE Quiet
  BY <1>8, GotoStep DEF RotateLock, BundleDevices, BundlePrekeys
<1>9. ASSUME NEW r \in Request, NEW u \in User, NEW n \in Name, ProfileCheck(r, u, n)
      PROVE  Quiet
  BY <1>9, GotoStep DEF ProfileCheck
<1>10. ASSUME NEW r \in Request, PushSend(r) PROVE Quiet
  BY <1>10, AnswerStep, GotoStep DEF PushSend
<1>11. ASSUME NEW r \in Request,
              \/ RefillInsert(r) \/ RotateCommit(r) \/ BundleConsume(r) \/ Abort(r)
              \/ ProfileUpdate(r) \/ PushClear(r)
       PROVE  Quiet
  <2>1. /\ late' = late /\ (Answer(r, "done") \/ Answer(r, "failed"))
        /\ active' = active /\ excused \subseteq excused'
    BY <1>11 DEF RefillInsert, RotateCommit, BundleConsume, Abort, ProfileUpdate, PushClear
  <2> QED
    BY <2>1, AnswerStep
<1>12. CASE UNCHANGED vars
  <2>1. Quiet
    BY <1>12 DEF vars
  <2> QED
    BY <1>1, <2>1
<1> HIDE DEF Quiet
<1> QED
  BY <1>1, <1>2, <1>3, <1>4, <1>5, <1>6, <1>7, <1>8, <1>9, <1>10, <1>11, <1>12
  DEF Next, PushStep

-----------------------------------------------------------------------------
(* refill.                                                                 *)

\* The free prekeys of d that the limit is about.
Stock(d) == KeysOf(d, free) \ excused

PrekeyInv ==
  /\ \A d \in Device : Cardinality(Stock(d)) <= PrekeyMaxTotal
  /\ \A r \in Request \ late : pc[r] = "insert" =>
       Cardinality(Stock(target[r])) + Cardinality(wanted[r]) <= PrekeyMaxTotal

LEMMA SumSize ==
  ASSUME NEW S, IsFiniteSet(S), NEW W, IsFiniteSet(W), NEW d, NEW T \in SUBSET (S \cup ({d} \X W))
  PROVE  /\ Cardinality(T) \in Nat /\ Cardinality(S) \in Nat /\ Cardinality(W) \in Nat
         /\ Cardinality(T) <= Cardinality(S) + Cardinality(W)
<1> DEFINE P == {d} \X W
<1>1. IsFiniteSet({d}) /\ Cardinality({d}) = 1
  BY FS_Singleton
<1>2. IsFiniteSet(P) /\ Cardinality(P) = 1 * Cardinality(W)
  BY <1>1, FS_Product
<1>3. Cardinality(S) \in Nat /\ Cardinality(W) \in Nat
  BY FS_CardinalityType
<1> HIDE DEF P
<1>4. /\ IsFiniteSet(S \cup P)
      /\ Cardinality(S \cup P) = Cardinality(S) + Cardinality(P) - Cardinality(S \cap P)
  BY <1>2, FS_Union
<1>5. Cardinality(S \cap P) \in Nat
  BY FS_Subset, FS_CardinalityType
<1>6. Cardinality(T) \in Nat /\ Cardinality(T) <= Cardinality(S \cup P)
  <2>1. T \in SUBSET (S \cup P)
    BY DEF P
  <2> QED
    BY <1>4, <2>1, FS_Subset, FS_CardinalityType
<1> QED
  BY <1>2, <1>3, <1>4, <1>5, <1>6

LEMMA StockSize ==
  ASSUME TypeOK
  PROVE  /\ \A d \in Device : IsFiniteSet(Stock(d)) /\ Cardinality(Stock(d)) \in Nat
         /\ \A W \in SUBSET KeyId : IsFiniteSet(W) /\ Cardinality(W) \in Nat
         /\ PrekeyMaxTotal \in Nat
<1>1. \A d \in Device : Stock(d) \in SUBSET Key
  BY DEF TypeOK, Stock, KeysOf
<1> QED
  BY <1>1, KeySize, AccountsAssumption, FS_Subset, FS_CardinalityType

\* A step that neither counts free prekeys nor stores any.
LEMMA PrekeyKept ==
  ASSUME TypeOK, RequestInv, PrekeyInv, \A d \in Device : Stock(d)' \in SUBSET Stock(d),
         \A q \in Request \ late' : pc'[q] = "insert" =>
            /\ pc[q] = "insert" /\ q \notin late
            /\ target'[q] = target[q] /\ wanted'[q] = wanted[q]
  PROVE  PrekeyInv'
<1>1. \A d \in Device : /\ Cardinality(Stock(d)') \in Nat
                        /\ Cardinality(Stock(d)') <= Cardinality(Stock(d))
  BY StockSize, FS_Subset, FS_CardinalityType
<1>2. ASSUME NEW d \in Device PROVE Cardinality(Stock(d)') <= PrekeyMaxTotal
  BY <1>1, StockSize DEF PrekeyInv
<1>3. ASSUME NEW q \in Request \ late', pc'[q] = "insert"
      PROVE  Cardinality(Stock(target[q])') + Cardinality(wanted[q]) <= PrekeyMaxTotal
  <2>1. target[q] \in Device /\ wanted[q] \in SUBSET KeyId
    BY <1>3 DEF RequestInv
  <2> QED
    BY <1>1, <1>3, <2>1, StockSize DEF PrekeyInv
<1> QED
  BY <1>2, <1>3 DEF PrekeyInv

\* The count of refill, and its insert.
LEMMA RefillCountStep ==
  ASSUME TypeOK, RequestInv, PrekeyInv, NEW r \in Request, NEW d \in Device,
         NEW K \in SUBSET KeyId, RefillCount(r, d, K)
  PROVE  PrekeyInv'
<1>1. \A e \in Device : Stock(e)' = Stock(e)
  BY DEF RefillCount, Stock, KeysOf, table
<1>2. CASE d \notin active \/ Cardinality(KeysOf(d, free)) + Cardinality(K) > PrekeyMaxTotal
  BY <1>1, <1>2, GotoStep, PrekeyKept DEF RefillCount, Places
<1>3. CASE ~(d \notin active \/ Cardinality(KeysOf(d, free)) + Cardinality(K) > PrekeyMaxTotal)
  <2>1. /\ target'[r] = d /\ wanted'[r] = K
        /\ \A q \in Request \ {r} : pc'[q] = pc[q] /\ target'[q] = target[q] /\ wanted'[q] = wanted[q]
        /\ late \subseteq late'
    BY <1>3, GotoStep DEF RefillCount, Overlaps, TypeOK, Places
  <2>2. /\ Cardinality(Stock(d)) <= Cardinality(KeysOf(d, free))
        /\ Cardinality(KeysOf(d, free)) \in Nat
    <3>1. KeysOf(d, free) \in SUBSET Key /\ Stock(d) \in SUBSET KeysOf(d, free)
      BY DEF TypeOK, KeysOf, Stock
    <3> QED
      BY <3>1, KeySize, SubsetSize
  <2>3. Cardinality(Stock(d)) + Cardinality(K) <= PrekeyMaxTotal
    BY <1>3, <2>2, StockSize
  <2>4. ASSUME NEW q \in Request \ late', pc'[q] = "insert"
        PROVE  Cardinality(Stock(target'[q])) + Cardinality(wanted'[q]) <= PrekeyMaxTotal
    BY <2>1, <2>3, <2>4 DEF PrekeyInv
  <2>5. \A q \in Request \ late' : pc'[q] = "insert" => target'[q] \in Device
    BY <2>1 DEF RequestInv
  <2> QED
    BY <1>1, <2>4, <2>5 DEF PrekeyInv
<1> QED
  BY <1>2, <1>3

LEMMA RefillInsertStep ==
  ASSUME TypeOK, RequestInv, FirstInv, PrekeyInv, NEW r \in Request, RefillInsert(r)
  PROVE  PrekeyInv'
<1>0. PICK d \in Device : d = target[r]
  BY DEF RefillInsert, RequestInv
<1>1. /\ pc[r] = "insert" /\ wanted[r] \in SUBSET KeyId /\ late' = late
      /\ pc'[r] = "done"
      /\ \A q \in Request \ {r} : pc'[q] = pc[q] /\ target'[q] = target[q] /\ wanted'[q] = wanted[q]
  BY AnswerStep DEF RefillInsert, RequestInv
<1>2. \A e \in Device \ {d} : Stock(e)' \in SUBSET Stock(e)
  BY <1>0 DEF RefillInsert, Stock, KeysOf
<1>3. CASE r \in late
  <2>1. Stock(d)' \in SUBSET Stock(d)
    BY <1>0, <1>3 DEF RefillInsert, Stock, KeysOf
  <2>2. \A e \in Device : Stock(e)' \in SUBSET Stock(e)
    BY <1>2, <2>1
  <2> QED
    BY <1>1, <2>2, PrekeyKept
<1>4. CASE r \notin late
  <2>1. Stock(d)' \in SUBSET (Stock(d) \cup ({d} \X wanted[r]))
    BY <1>0 DEF RefillInsert, Stock, KeysOf
  <2>2. Cardinality(Stock(d)) + Cardinality(wanted[r]) <= PrekeyMaxTotal
    BY <1>0, <1>1, <1>4 DEF PrekeyInv
  <2>3. /\ Cardinality(Stock(d)') \in Nat
        /\ Cardinality(Stock(d)') <= Cardinality(Stock(d)) + Cardinality(wanted[r])
    BY <1>1, <2>1, StockSize, SumSize
  <2>4. Cardinality(Stock(d)') <= PrekeyMaxTotal
    BY <1>1, <2>2, <2>3, StockSize
  <2>5. ASSUME NEW e \in Device \ {d}
        PROVE  /\ Cardinality(Stock(e)') \in Nat /\ Cardinality(Stock(e)') <= Cardinality(Stock(e))
               /\ Cardinality(Stock(e)') <= PrekeyMaxTotal
    <3>1. Cardinality(Stock(e)') \in Nat /\ Cardinality(Stock(e)') <= Cardinality(Stock(e))
      BY <1>2, StockSize, FS_Subset, FS_CardinalityType
    <3> QED
      BY <3>1, StockSize DEF PrekeyInv
  <2>6. ASSUME NEW q \in Request \ late', pc'[q] = "insert"
        PROVE  Cardinality(Stock(target[q])') + Cardinality(wanted[q]') <= PrekeyMaxTotal
    <3>1. /\ pc[q] = "insert" /\ q # r /\ target[q] \in Device \ {d} /\ wanted[q] \in SUBSET KeyId
          /\ target'[q] = target[q] /\ wanted'[q] = wanted[q]
      BY <1>0, <1>1, <1>4, <2>6 DEF FirstInv, RequestInv
    <3>2. Cardinality(Stock(target[q])) + Cardinality(wanted[q]) <= PrekeyMaxTotal
      BY <1>1, <2>6, <3>1 DEF PrekeyInv
    <3>3. Cardinality(Stock(target[q])') <= Cardinality(Stock(target[q]))
      BY <2>5, <3>1
    <3>4. Cardinality(Stock(target[q])') \in Nat
      BY <2>5, <3>1
    <3> QED
      BY <3>1, <3>2, <3>3, <3>4, StockSize
  <2> QED
    BY <2>4, <2>5, <2>6 DEF PrekeyInv
<1> QED
  BY <1>3, <1>4

LEMMA PrekeyStep ==
  TypeOK /\ RequestInv /\ FirstInv /\ PrekeyInv /\ [Next]_vars => PrekeyInv'
<1> SUFFICES ASSUME TypeOK, RequestInv, FirstInv, PrekeyInv, [Next]_vars PROVE PrekeyInv'
  OBVIOUS
<1> USE DEF TypeOK, Places, push, table, request, history, Stock, KeysOf
<1> DEFINE Quiet == /\ \A d \in Device : Stock(d)' \in SUBSET Stock(d)
                    /\ \A q \in Request \ late' : pc'[q] = "insert" =>
                         /\ pc[q] = "insert" /\ q \notin late
                         /\ target'[q] = target[q] /\ wanted'[q] = wanted[q]
<1>1. ASSUME NEW r \in Request, NEW d \in Device, RegisterKnown(r, d) PROVE Quiet
  BY <1>1, GotoStep DEF RegisterKnown
<1>2. ASSUME NEW r \in Request, NEW d \in Device, Deactivate(r, d) PROVE Quiet
  BY <1>2, GotoStep, AccountsAssumption DEF Deactivate
<1>3. ASSUME NEW r \in Request, NEW d \in Device, RegisterCount(r, d) \/ PushRead(r, d)
      PROVE  Quiet
  BY <1>3, GotoStep DEF RegisterCount, PushRead
<1>4. ASSUME NEW r \in Request, NEW d \in Device, NEW k \in KeyId, RotateBegin(r, d, k)
      PROVE  Quiet
  BY <1>4, GotoStep DEF RotateBegin
<1>5. ASSUME NEW r \in Request, RotateLock(r) \/ BundleDevices(r) \/ BundlePrekeys(r) PROVE Quiet
  BY <1>5, GotoStep DEF RotateLock, BundleDevices, BundlePrekeys
<1>6. ASSUME NEW r \in Request, NEW u \in User, NEW n \in Name, ProfileCheck(r, u, n)
      PROVE  Quiet
  BY <1>6, GotoStep DEF ProfileCheck
<1>7. ASSUME NEW r \in Request, PushSend(r) PROVE Quiet
  BY <1>7, AnswerStep, GotoStep DEF PushSend
<1>8. ASSUME NEW r \in Request,
              \/ RegisterCreate(r) \/ RotateCommit(r) \/ BundleConsume(r) \/ Abort(r)
              \/ ProfileUpdate(r) \/ PushClear(r)
       PROVE  Quiet
  <2>1. /\ late' = late /\ (Answer(r, "done") \/ Answer(r, "failed"))
        /\ free' \subseteq free /\ excused \subseteq excused'
    BY <1>8 DEF RegisterCreate, RotateCommit, BundleConsume, Abort, ProfileUpdate, PushClear
  <2> QED
    BY <2>1, AnswerStep
<1>9. CASE UNCHANGED vars
  <2>1. Quiet
    BY <1>9 DEF vars
  <2> HIDE DEF Stock, TypeOK
  <2> QED
    BY <2>1, PrekeyKept
<1> HIDE DEF Stock, TypeOK
<1>10. Quiet => PrekeyInv'
  BY PrekeyKept
<1> HIDE DEF Quiet
<1> QED
  BY <1>1, <1>2, <1>3, <1>4, <1>5, <1>6, <1>7, <1>8, <1>9, <1>10, RefillCountStep,
     RefillInsertStep DEF Next, PushStep

-----------------------------------------------------------------------------
(* rotateSignedPrekey.                                                     *)

\* At most one element.
LEMMA AtMostOne ==
  ASSUME NEW S, \A x, y \in S : x = y
  PROVE  Cardinality(S) <= 1
<1>1. CASE S = {}
  BY <1>1, FS_EmptySet
<1>2. CASE S # {}
  <2>1. PICK x : S = {x}
    BY <1>2
  <2>2. Cardinality({x}) = 1
    BY FS_Singleton
  <2> QED
    BY <2>1, <2>2
<1> QED
  BY <1>1, <1>2

\* What a rotation commits.
LEMMA Rotated ==
  ASSUME TypeOK, RequestInv, NEW r \in Request, RotateCommit(r)
  PROVE  \E d \in Device, new \in Key :
           /\ d = target[r] /\ new[1] = d /\ new = <<target[r], wanted[r]>>
           /\ latest' = [latest EXCEPT ![d] = wanted[r]]
           /\ rows[r] \subseteq KeysOf(d, Key)
           /\ signed' = (signed \ rows[r]) \cup {new}
           /\ forked' = IF r \in late THEN forked \cup {new} ELSE forked \ {new}
           /\ stamp' = [k \in Key |-> IF k = new THEN Cardinality(Key)
                                      ELSE IF stamp[k] > stamp[new] THEN stamp[k] - 1 ELSE stamp[k]]
           /\ late' = late /\ pc[r] = "rotate" /\ pc'[r] = "done"
           /\ \A q \in Request \ {r} : /\ pc'[q] = pc[q] /\ target'[q] = target[q]
                                       /\ rows'[q] = rows[q]
<1>1. /\ target[r] \in Device /\ wanted[r] \in KeyId /\ <<target[r], wanted[r]>> \in Key
      /\ rows[r] \subseteq KeysOf(target[r], Key)
  BY DEF RotateCommit, RequestInv, Key
<1>2. /\ pc[r] = "rotate" /\ pc'[r] = "done" /\ late' = late
      /\ \A q \in Request \ {r} : /\ pc'[q] = pc[q] /\ target'[q] = target[q]
                                  /\ rows'[q] = rows[q]
  BY AnswerStep DEF RotateCommit
<1> USE <1>1
<1> WITNESS target[r] \in Device, <<target[r], wanted[r]>> \in Key
<1> QED
  BY <1>1, <1>2 DEF RotateCommit

\* The active rows of d that no overlap has left.
Unforked(d) == KeysOf(d, signed) \ forked

SignedInv ==
  /\ \A d \in Device : \A j, k \in Unforked(d) : j = k
  /\ \A r \in Request \ late : pc[r] \in {"lock", "rotate"} => Unforked(target[r]) \subseteq rows[r]

LEMMA RotateStep ==
  ASSUME TypeOK, RequestInv, FirstInv, SignedInv, NEW r \in Request, RotateCommit(r)
  PROVE  SignedInv'
<1>1. PICK d \in Device, new \in Key :
        /\ d = target[r] /\ new[1] = d
        /\ rows[r] \subseteq KeysOf(d, Key)
        /\ signed' = (signed \ rows[r]) \cup {new}
        /\ forked' = IF r \in late THEN forked \cup {new} ELSE forked \ {new}
        /\ late' = late /\ pc[r] = "rotate" /\ pc'[r] = "done"
        /\ \A q \in Request \ {r} : /\ pc'[q] = pc[q] /\ target'[q] = target[q]
                                    /\ rows'[q] = rows[q]
  BY Rotated
<1>2. \A e \in Device \ {d} : Unforked(e)' \subseteq Unforked(e)
  BY <1>1 DEF Unforked, KeysOf
<1>3. CASE r \in late
  <2>1. \A e \in Device : Unforked(e)' \subseteq Unforked(e)
    BY <1>1, <1>3 DEF Unforked, KeysOf
  <2>2. \A q \in Request \ late' : pc'[q] \in {"lock", "rotate"} =>
          /\ pc[q] \in {"lock", "rotate"} /\ q \notin late /\ target'[q] \in Device
          /\ target'[q] = target[q] /\ rows'[q] = rows[q]
    BY <1>1 DEF RequestInv
  <2> QED
    BY <2>1, <2>2 DEF SignedInv
<1>4. CASE r \notin late
  <2>1. Unforked(d) \subseteq rows[r]
    BY <1>1, <1>4 DEF SignedInv
  <2>2. Unforked(d)' \subseteq {new}
    BY <1>1, <1>4, <2>1 DEF Unforked, KeysOf
  <2>3. \A q \in Request \ late' : pc'[q] \in {"lock", "rotate"} =>
          /\ pc[q] \in {"lock", "rotate"} /\ q \notin late /\ target'[q] \in Device \ {d}
          /\ target'[q] = target[q] /\ rows'[q] = rows[q]
    BY <1>1, <1>4 DEF RequestInv, FirstInv
  <2> QED
    BY <1>2, <2>2, <2>3 DEF SignedInv
<1> QED
  BY <1>3, <1>4

LEMMA SignedStep ==
  TypeOK /\ RequestInv /\ FirstInv /\ SignedInv /\ [Next]_vars => SignedInv'
<1> SUFFICES ASSUME TypeOK, RequestInv, FirstInv, SignedInv, [Next]_vars PROVE SignedInv'
  OBVIOUS
<1> USE DEF TypeOK, RequestInv, Places, push, table, request, history, SignedInv, Unforked, KeysOf
<1>1. ASSUME NEW r \in Request, NEW d \in Device, RegisterKnown(r, d) \/ Deactivate(r, d)
      PROVE  SignedInv'
  BY <1>1, GotoStep DEF RegisterKnown, Deactivate
<1>2. ASSUME NEW r \in Request, NEW d \in Device, RegisterCount(r, d) \/ PushRead(r, d)
      PROVE  SignedInv'
  BY <1>2, GotoStep DEF RegisterCount, PushRead
<1>3. ASSUME NEW r \in Request, NEW d \in Device, NEW K \in SUBSET KeyId, RefillCount(r, d, K)
      PROVE  SignedInv'
  BY <1>3, GotoStep DEF RefillCount, Overlaps
<1>4. ASSUME NEW r \in Request, NEW d \in Device, NEW k \in KeyId, RotateBegin(r, d, k)
      PROVE  SignedInv'
  <2>1. CASE d \notin active
    BY <1>4, <2>1, GotoStep DEF RotateBegin
  <2>2. CASE d \in active
    <3>1. /\ target'[r] = d /\ rows'[r] = KeysOf(d, signed) /\ late \subseteq late'
          /\ signed' = signed /\ forked' = forked
          /\ \A q \in Request \ {r} : pc'[q] = pc[q] /\ target'[q] = target[q] /\ rows'[q] = rows[q]
      BY <1>4, <2>2, GotoStep DEF RotateBegin
    <3>2. \A e \in Device : Unforked(e)' = Unforked(e)
      BY <3>1
    <3>3. ASSUME NEW q \in Request \ late', pc'[q] \in {"lock", "rotate"}
          PROVE  Unforked(target'[q]) \subseteq rows'[q] /\ target'[q] \in Device
      BY <3>1, <3>3
    <3> QED
      BY <3>2, <3>3
  <2> QED
    BY <2>1, <2>2
<1>5. ASSUME NEW r \in Request, RotateLock(r) \/ BundleDevices(r) \/ BundlePrekeys(r)
      PROVE  SignedInv'
  <2>1. CASE RotateLock(r)
    BY <2>1, GotoStep DEF RotateLock
  <2>2. CASE BundleDevices(r)
    BY <2>2, GotoStep DEF BundleDevices
  <2>3. CASE BundlePrekeys(r)
    BY <2>3, GotoStep DEF BundlePrekeys
  <2> QED
    BY <1>5, <2>1, <2>2, <2>3
<1>6. ASSUME NEW r \in Request, NEW u \in User, NEW n \in Name, ProfileCheck(r, u, n)
      PROVE  SignedInv'
  BY <1>6, GotoStep DEF ProfileCheck
<1>7. ASSUME NEW r \in Request, PushSend(r) PROVE SignedInv'
  BY <1>7, AnswerStep, GotoStep DEF PushSend
<1>8. ASSUME NEW r \in Request,
              \/ RegisterCreate(r) \/ RefillInsert(r) \/ BundleConsume(r) \/ Abort(r)
              \/ ProfileUpdate(r) \/ PushClear(r)
       PROVE  SignedInv'
  <2>1. /\ late' = late /\ (Answer(r, "done") \/ Answer(r, "failed"))
        /\ signed' = signed /\ forked' = forked
    BY <1>8 DEF RegisterCreate, RefillInsert, BundleConsume, Abort, ProfileUpdate, PushClear
  <2> QED
    BY <2>1, AnswerStep
<1>9. CASE UNCHANGED vars
  BY <1>9 DEF vars
<1> QED
  BY <1>1, <1>2, <1>3, <1>4, <1>5, <1>6, <1>7, <1>8, <1>9, RotateStep DEF Next, PushStep

-----------------------------------------------------------------------------
(* getDeviceKeyBundles.                                                    *)

HandedInv ==
  /\ \A k \in Key : \A q, r \in handed[k] \ late : q = r
  /\ \A k \in Key \ spent : handed[k] = {}
  /\ \A r \in Request \ late : pc[r] = "consume" => \A k \in rows[r] : handed[k] \subseteq late

LEMMA HandedStep ==
  TypeOK /\ RequestInv /\ FirstInv /\ HandedInv /\ [Next]_vars => HandedInv'
<1> SUFFICES ASSUME TypeOK, RequestInv, FirstInv, HandedInv, [Next]_vars PROVE HandedInv'
  OBVIOUS
<1> USE DEF TypeOK, Places, push, table, request, history
<1> DEFINE Quiet == /\ handed' = handed /\ spent' = spent /\ late \subseteq late'
                    /\ \A q \in Request \ late' : pc'[q] = "consume" =>
                         pc[q] = "consume" /\ q \notin late /\ rows'[q] = rows[q]
<1>1. ASSUME NEW r \in Request, NEW d \in Device,
             \/ RegisterKnown(r, d) \/ Deactivate(r, d) \/ RegisterCount(r, d) \/ PushRead(r, d)
      PROVE  Quiet
  BY <1>1, GotoStep DEF RegisterKnown, Deactivate, RegisterCount, PushRead
<1>2. ASSUME NEW r \in Request, NEW d \in Device, NEW K \in SUBSET KeyId, RefillCount(r, d, K)
      PROVE  Quiet
  BY <1>2, GotoStep DEF RefillCount, Overlaps
<1>3. ASSUME NEW r \in Request, NEW d \in Device, NEW k \in KeyId, RotateBegin(r, d, k)
      PROVE  Quiet
  BY <1>3, GotoStep DEF RotateBegin
<1>4. ASSUME NEW r \in Request, RotateLock(r) \/ BundleDevices(r) PROVE Quiet
  BY <1>4, GotoStep DEF RotateLock, BundleDevices
<1>5. ASSUME NEW r \in Request, NEW u \in User, NEW n \in Name, ProfileCheck(r, u, n)
      PROVE  Quiet
  BY <1>5, GotoStep DEF ProfileCheck
<1>6. ASSUME NEW r \in Request, PushSend(r) PROVE Quiet
  BY <1>6, AnswerStep, GotoStep DEF PushSend
<1>7. ASSUME NEW r \in Request,
             \/ RegisterCreate(r) \/ RefillInsert(r) \/ RotateCommit(r) \/ Abort(r)
             \/ ProfileUpdate(r) \/ PushClear(r)
      PROVE  Quiet
  <2>1. /\ late' = late /\ (Answer(r, "done") \/ Answer(r, "failed"))
        /\ handed' = handed /\ spent' = spent
    BY <1>7 DEF RegisterCreate, RefillInsert, RotateCommit, Abort, ProfileUpdate, PushClear
  <2> QED
    BY <2>1, AnswerStep
<1>8. ASSUME NEW r \in Request, BundlePrekeys(r) PROVE HandedInv'
  <2>1. /\ rows'[r] \subseteq free /\ late \subseteq late' /\ handed' = handed /\ spent' = spent
        /\ \A q \in Request \ {r} : pc'[q] = pc[q] /\ rows'[q] = rows[q]
    BY <1>8, GotoStep DEF BundlePrekeys, KeysOf
  <2>2. \A k \in free : handed[k] = {}
    BY DEF HandedInv
  <2>3. ASSUME NEW q \in Request \ late', pc'[q] = "consume", NEW k \in rows'[q]
        PROVE  handed'[k] \subseteq late'
    BY <2>1, <2>2, <2>3 DEF HandedInv
  <2> QED
    BY <2>1, <2>3 DEF HandedInv
<1>9. ASSUME NEW r \in Request, BundleConsume(r) PROVE HandedInv'
  <2>1. /\ pc[r] = "consume" /\ pc'[r] = "done" /\ late' = late /\ rows[r] \subseteq Key
        /\ \A q \in Request \ {r} : pc'[q] = pc[q] /\ rows'[q] = rows[q]
    BY <1>9, AnswerStep DEF BundleConsume
  <2>2. /\ spent' = spent \cup rows[r]
        /\ \A k \in Key : handed'[k] = IF k \in rows[r] THEN handed[k] \cup {r} ELSE handed[k]
    BY <1>9 DEF BundleConsume
  <2>3. \A k \in Key \ spent' : handed'[k] = {}
    BY <2>2 DEF HandedInv
  <2>4. CASE r \in late
    <3>1. \A k \in Key : handed'[k] \ late' = handed[k] \ late
      BY <2>1, <2>2, <2>4
    <3>2. ASSUME NEW q \in Request \ late', pc'[q] = "consume", NEW k \in rows'[q]
          PROVE  handed'[k] \subseteq late'
      <4>1. pc[q] = "consume" /\ q \notin late /\ k \in rows[q] /\ k \in Key
        BY <2>1, <3>2
      <4>2. handed[k] \subseteq late /\ handed'[k] \subseteq handed[k] \cup {r}
        BY <2>2, <4>1 DEF HandedInv
      <4> QED
        BY <2>1, <2>4, <4>2
    <3>3. \A k \in Key : \A p, q \in handed'[k] \ late' : p = q
      BY <3>1 DEF HandedInv
    <3> HIDE DEF TypeOK
    <3> QED
      BY <2>3, <3>2, <3>3 DEF HandedInv
  <2>5. CASE r \notin late
    <3>1. \A q \in Request \ late' : pc'[q] # "consume"
      BY <2>1, <2>5 DEF FirstInv
    <3>2. ASSUME NEW k \in Key
          PROVE  IF k \in rows[r] THEN handed'[k] \ late' \subseteq {r}
                                  ELSE handed'[k] \ late' = handed[k] \ late
      <4>1. CASE k \in rows[r]
        <5>1. handed[k] \subseteq late
          BY <2>1, <2>5, <4>1 DEF HandedInv
        <5> QED
          BY <2>1, <2>2, <4>1, <5>1
      <4>2. CASE k \notin rows[r]
        BY <2>1, <2>2, <4>2
      <4> QED
        BY <4>1, <4>2
    <3>3. \A k \in Key : \A p, q \in handed'[k] \ late' : p = q
      BY <3>2 DEF HandedInv
    <3> HIDE DEF TypeOK
    <3> QED
      BY <2>3, <3>1, <3>3 DEF HandedInv
  <2> QED
    BY <2>4, <2>5
<1>10. Quiet => HandedInv'
  BY DEF HandedInv
<1>11. CASE UNCHANGED vars
  <2>1. Quiet
    BY <1>11 DEF vars
  <2> QED
    BY <1>10, <2>1
<1> HIDE DEF Quiet, TypeOK
<1> QED
  BY <1>1, <1>2, <1>3, <1>4, <1>5, <1>6, <1>7, <1>8, <1>9, <1>10, <1>11 DEF Next, PushStep

-----------------------------------------------------------------------------
(* updateProfile.                                                          *)

NameInv ==
  /\ UsernamesDistinct
  /\ \A r \in Request \ late : pc[r] = "profile" =>
       \A w \in User \ {target[r]} :
         username[w] # None /\ Fold[username[w]] = Fold[wanted[r]] => w \in excused

LEMMA NameStep ==
  TypeOK /\ RequestInv /\ FirstInv /\ NameInv /\ [Next]_vars => NameInv'
<1> SUFFICES ASSUME TypeOK, RequestInv, FirstInv, NameInv, [Next]_vars PROVE NameInv'
  OBVIOUS
<1> USE DEF TypeOK, Places, push, table, request, history
<1> DEFINE Quiet == /\ username' = username /\ late \subseteq late'
                    /\ excused \cap User \subseteq excused'
                    /\ \A q \in Request \ late' : pc'[q] = "profile" =>
                         /\ pc[q] = "profile" /\ q \notin late
                         /\ target'[q] = target[q] /\ wanted'[q] = wanted[q]
<1>1. ASSUME NEW r \in Request, NEW d \in Device,
             \/ RegisterKnown(r, d) \/ Deactivate(r, d) \/ RegisterCount(r, d) \/ PushRead(r, d)
      PROVE  Quiet
  BY <1>1, GotoStep, AccountsAssumption DEF RegisterKnown, Deactivate, RegisterCount, PushRead
<1>2. ASSUME NEW r \in Request, NEW d \in Device, NEW K \in SUBSET KeyId, RefillCount(r, d, K)
      PROVE  Quiet
  BY <1>2, GotoStep DEF RefillCount, Overlaps
<1>3. ASSUME NEW r \in Request, NEW d \in Device, NEW k \in KeyId, RotateBegin(r, d, k)
      PROVE  Quiet
  BY <1>3, GotoStep DEF RotateBegin
<1>4. ASSUME NEW r \in Request, RotateLock(r) \/ BundleDevices(r) \/ BundlePrekeys(r) PROVE Quiet
  BY <1>4, GotoStep DEF RotateLock, BundleDevices, BundlePrekeys
<1>5. ASSUME NEW r \in Request, NEW u \in User, NEW n \in Name, ProfileCheck(r, u, n)
      PROVE  NameInv'
  <2>1. CASE \E w \in User \ {u} : username[w] # None /\ Fold[username[w]] = Fold[n]
    <3>1. Quiet
      BY <1>5, <2>1, GotoStep DEF ProfileCheck
    <3> QED
      BY <3>1 DEF NameInv, UsernamesDistinct
  <2>2. CASE ~ \E w \in User \ {u} : username[w] # None /\ Fold[username[w]] = Fold[n]
    <3>1. /\ target'[r] = u /\ wanted'[r] = n /\ late \subseteq late'
          /\ username' = username /\ excused' = excused
          /\ \A q \in Request \ {r} : /\ pc'[q] = pc[q] /\ target'[q] = target[q]
                                      /\ wanted'[q] = wanted[q]
      BY <1>5, <2>2, GotoStep DEF ProfileCheck
    <3>2. ASSUME NEW q \in Request \ late', pc'[q] = "profile", NEW w \in User \ {target'[q]},
                 username'[w] # None, Fold[username'[w]] = Fold[wanted'[q]]
          PROVE  w \in excused'
      BY <2>2, <3>1, <3>2 DEF NameInv
    <3> QED
      BY <3>1, <3>2 DEF NameInv, UsernamesDistinct
  <2> QED
    BY <2>1, <2>2
<1>6. ASSUME NEW r \in Request, PushSend(r) PROVE Quiet
  BY <1>6, AnswerStep, GotoStep DEF PushSend
<1>7. ASSUME NEW r \in Request,
             \/ RegisterCreate(r) \/ RefillInsert(r) \/ RotateCommit(r) \/ BundleConsume(r)
             \/ Abort(r) \/ PushClear(r)
      PROVE  Quiet
  <2>1. /\ late' = late /\ (Answer(r, "done") \/ Answer(r, "failed"))
        /\ username' = username /\ excused \subseteq excused'
    BY <1>7 DEF RegisterCreate, RefillInsert, RotateCommit, BundleConsume, Abort, PushClear
  <2> QED
    BY <2>1, AnswerStep
<1>8. ASSUME NEW r \in Request, ProfileUpdate(r) PROVE NameInv'
  <2>1. /\ pc[r] = "profile" /\ late' = late /\ target[r] \in User /\ wanted[r] \in Name
        /\ pc'[r] \in {"done", "failed"}
        /\ \A q \in Request \ {r} : /\ pc'[q] = pc[q] /\ target'[q] = target[q]
                                    /\ wanted'[q] = wanted[q]
    BY <1>8, AnswerStep DEF ProfileUpdate, RequestInv
  <2>2. CASE \E w \in User \ {target[r]} : username[w] = wanted[r]
    <3>1. Quiet
      BY <1>8, <2>1, <2>2 DEF ProfileUpdate
    <3> QED
      BY <3>1 DEF NameInv, UsernamesDistinct
  <2>3. CASE ~ \E w \in User \ {target[r]} : username[w] = wanted[r]
    <3>0. PICK u \in User : u = target[r]
      BY <2>1
    <3>1. /\ username'[u] = wanted[r] /\ \A w \in User \ {u} : username'[w] = username[w]
          /\ excused' = IF r \in late THEN excused \cup {u} ELSE excused
      BY <1>8, <2>1, <2>3, <3>0 DEF ProfileUpdate
    <3>2. ASSUME NEW w \in User \ {u}, username[w] # None
          PROVE  /\ username'[w] # username'[u]
                 /\ Fold[username'[w]] = Fold[username'[u]] => u \in excused' \/ w \in excused'
      BY <2>1, <2>3, <3>0, <3>1, <3>2 DEF NameInv
    <3>3. UsernamesDistinct'
      <4> SUFFICES ASSUME NEW v \in User, NEW w \in User, v # w,
                          username'[v] # None, username'[w] # None
                   PROVE  /\ username'[v] # username'[w]
                          /\ Fold[username'[v]] = Fold[username'[w]] =>
                               v \in excused' \/ w \in excused'
        BY DEF UsernamesDistinct
      <4>1. CASE v # u /\ w # u
        <5>1. /\ username'[v] = username[v] /\ username'[w] = username[w]
              /\ excused \subseteq excused'
          BY <3>1, <4>1
        <5> HIDE DEF TypeOK
        <5> QED
          BY <5>1 DEF NameInv, UsernamesDistinct
      <4>2. CASE v = u
        BY <3>1, <3>2, <4>2
      <4>3. CASE w = u
        BY <3>1, <3>2, <4>3
      <4> QED
        BY <4>1, <4>2, <4>3
    <3>4. ASSUME NEW q \in Request \ late', pc'[q] = "profile", NEW w \in User \ {target'[q]},
                 username'[w] # None, Fold[username'[w]] = Fold[wanted'[q]]
          PROVE  w \in excused'
      <4>1. q # r /\ pc[q] = "profile" /\ q \notin late /\ r \in late
        BY <2>1, <3>4 DEF FirstInv
      <4> QED
        BY <2>1, <3>0, <3>1, <3>4, <4>1 DEF NameInv
    <3> QED
      BY <3>3, <3>4 DEF NameInv
  <2> QED
    BY <2>2, <2>3
<1>9. Quiet => NameInv'
  BY DEF NameInv, UsernamesDistinct
<1>10. CASE UNCHANGED vars
  <2>1. Quiet
    BY <1>10 DEF vars
  <2> QED
    BY <1>9, <2>1
<1> HIDE DEF Quiet, TypeOK
<1> QED
  BY <1>1, <1>2, <1>3, <1>4, <1>5, <1>6, <1>7, <1>8, <1>9, <1>10 DEF Next, PushStep

-----------------------------------------------------------------------------
(* The signed prekey of a bundle.                                          *)

Unstamped == {k \in Key : stamp[k] = 0}

\* What a rotation does to the stamps: the new one is the greatest, the order of the
\* others stays.
LEMMA StampStep ==
  ASSUME TypeOK, StampInv, NEW new \in Key,
         stamp' = [k \in Key |-> IF k = new THEN Cardinality(Key)
                                 ELSE IF stamp[k] > stamp[new] THEN stamp[k] - 1 ELSE stamp[k]]
  PROVE  /\ \A k \in Key \ {new} : stamp'[k] < stamp'[new]
         /\ \A j, k \in Key \ {new} : stamp[j] < stamp[k] => stamp'[j] < stamp'[k]
         /\ \A k \in Key : /\ stamp'[k] <= Cardinality(Key)
                           /\ stamp'[k] # 0 => stamp'[k] > Cardinality(Unstamped')
                           /\ \A j \in Key \ {k} : stamp'[j] = stamp'[k] => stamp'[k] = 0
<1> DEFINE N == Cardinality(Key)  n == Cardinality(Unstamped)  m == Cardinality(Unstamped')
<1>1. /\ stamp \in [Key -> Nat] /\ N \in Nat /\ n \in Nat /\ IsFiniteSet(Unstamped)
      /\ \A k \in Key : /\ stamp[k] <= N /\ (stamp[k] # 0 => stamp[k] > n)
                        /\ \A j \in Key \ {k} : stamp[j] = stamp[k] => stamp[k] = 0
  <2>1. Unstamped \in SUBSET Key
    BY DEF Unstamped
  <2>2. IsFiniteSet(Unstamped) /\ n \in Nat /\ N \in Nat
    BY <2>1, KeySize, FS_Subset, FS_CardinalityType
  <2> QED
    BY <2>2 DEF TypeOK, StampInv, Unstamped
<1>2. n >= 1 \/ stamp[new] # 0
  <2>1. CASE Unstamped = {}
    BY <2>1 DEF Unstamped
  <2>2. CASE Unstamped # {}
    BY <1>1, <2>2, FS_EmptySet
  <2> QED
    BY <2>1, <2>2
<1>3. N >= 1
  BY <1>1, KeySize, FS_EmptySet
<1>4. /\ stamp'[new] = N
      /\ \A k \in Key \ {new} :
           stamp'[k] = IF stamp[k] > stamp[new] THEN stamp[k] - 1 ELSE stamp[k]
  OBVIOUS
<1> HIDE DEF N, n, m
<1>5. \A k \in Key \ {new} : stamp[k] # 0 => stamp'[k] # 0 /\ stamp'[k] \in Nat
  BY <1>1, <1>2, <1>4
<1>6. \A k \in Key \ {new} : stamp'[k] < N
  BY <1>1, <1>3, <1>4
<1>7. \A j, k \in Key \ {new} : stamp[j] < stamp[k] => stamp'[j] < stamp'[k]
  BY <1>1, <1>2, <1>4
<1>8. Unstamped' = Unstamped \ {new}
  BY <1>1, <1>3, <1>4, <1>5 DEF Unstamped
<1>9. m \in Nat /\ m = IF stamp[new] = 0 THEN n - 1 ELSE n
  <2>1. m = (IF new \in Unstamped THEN n - 1 ELSE n) /\ IsFiniteSet(Unstamped \ {new})
    BY <1>1, <1>8, FS_RemoveElement DEF n, m
  <2>2. m \in Nat
    BY <1>8, <2>1, FS_CardinalityType DEF m
  <2> QED
    BY <2>1, <2>2 DEF Unstamped
<1>10. m < N
  <2>1. Unstamped' \in SUBSET Key /\ Unstamped' # Key
    BY <1>8 DEF Unstamped
  <2> QED
    BY <1>1, <1>9, <2>1, KeySize, FS_Subset DEF m, N
<1>11. \A k \in Key : stamp'[k] # 0 => stamp'[k] > m
  BY <1>1, <1>4, <1>9, <1>10
<1>12. \A k \in Key : \A j \in Key \ {k} : stamp'[j] = stamp'[k] => stamp'[k] = 0
  BY <1>1, <1>3, <1>4, <1>6, <1>7
<1> QED
  BY <1>1, <1>4, <1>6, <1>7, <1>11, <1>12 DEF N, m

LEMMA LatestStep ==
  TypeOK /\ RequestInv /\ StampInv /\ [Next]_vars => StampInv'
<1> SUFFICES ASSUME TypeOK, RequestInv, StampInv, [Next]_vars PROVE StampInv'
  OBVIOUS
<1>1. ASSUME NEW r \in Request, RotateCommit(r) PROVE StampInv'
  <2>1. PICK d \in Device, new \in Key :
          /\ d = target[r] /\ new[1] = d /\ new = <<target[r], wanted[r]>>
          /\ latest' = [latest EXCEPT ![d] = wanted[r]]
          /\ rows[r] \subseteq KeysOf(d, Key)
          /\ signed' = (signed \ rows[r]) \cup {new}
          /\ stamp' = [k \in Key |-> IF k = new THEN Cardinality(Key)
                                     ELSE IF stamp[k] > stamp[new] THEN stamp[k] - 1 ELSE stamp[k]]
    BY <1>1, Rotated
  <2>2. /\ \A k \in Key \ {new} : stamp'[k] < stamp'[new]
        /\ \A j, k \in Key \ {new} : stamp[j] < stamp[k] => stamp'[j] < stamp'[k]
        /\ \A k \in Key : /\ stamp'[k] <= Cardinality(Key)
                          /\ stamp'[k] # 0 => stamp'[k] > Cardinality(Unstamped')
                          /\ \A j \in Key \ {k} : stamp'[j] = stamp'[k] => stamp'[k] = 0
    BY <2>1, StampStep
  <2>3. <<d, latest'[d]>> = new /\ \A e \in Device \ {d} : latest'[e] = latest[e]
    BY <2>1 DEF TypeOK
  <2>4. /\ <<d, latest'[d]>> \in signed'
        /\ \A j \in KeysOf(d, Key) \ {<<d, latest'[d]>>} : stamp'[j] < stamp'[<<d, latest'[d]>>]
    <3>1. new \in signed' /\ \A j \in KeysOf(d, Key) \ {new} : stamp'[j] < stamp'[new]
      BY <2>1, <2>2 DEF KeysOf
    <3> QED
      BY <2>3, <3>1, Zenon
  <2>5. ASSUME NEW e \in Device \ {d}, latest'[e] # None
        PROVE  /\ <<e, latest'[e]>> \in signed'
               /\ \A j \in KeysOf(e, Key) \ {<<e, latest'[e]>>} :
                    stamp'[j] < stamp'[<<e, latest'[e]>>]
    <3>1. PICK x \in Key : x = <<e, latest[e]>> /\ x[1] = e /\ x \in signed
      BY <2>3, <2>5 DEF StampInv, TypeOK
    <3>2. x \notin rows[r] /\ x # new
      BY <2>1, <3>1 DEF KeysOf
    <3>3. ASSUME NEW j \in KeysOf(e, Key) \ {x} PROVE stamp'[j] < stamp'[x]
      <4>1. j \in Key \ {new} /\ stamp[j] < stamp[x]
        BY <2>1, <2>3, <2>5, <3>1, <3>3 DEF KeysOf, StampInv
      <4> QED
        BY <2>2, <3>2, <4>1
    <3> QED
      BY <2>1, <2>3, <3>1, <3>2, <3>3
  <2>6. \A e \in Device : latest'[e] # None =>
          /\ <<e, latest'[e]>> \in signed'
          /\ \A j \in KeysOf(e, Key) \ {<<e, latest'[e]>>} :
               stamp'[j] < stamp'[<<e, latest'[e]>>]
    BY <2>4, <2>5
  <2>7. Unstamped' = {j \in Key : stamp'[j] = 0} /\ \A e \in Device : KeysOf(e, Key)' = KeysOf(e, Key)
    BY DEF Unstamped, KeysOf
  <2> QED
    BY <2>2, <2>6, <2>7 DEF StampInv
<1>2. CASE UNCHANGED <<stamp, signed, latest>>
  BY <1>2 DEF StampInv, KeysOf
<1> QED
  BY <1>1, <1>2
  DEF Next, PushStep, vars, table, history, push, RegisterKnown, RegisterCount, RegisterCreate,
      Deactivate, RefillCount, RefillInsert, RotateBegin, RotateLock, BundleDevices,
      BundlePrekeys, BundleConsume, Abort, ProfileCheck, ProfileUpdate, PushRead, PushSend,
      PushClear

\* The bundle shows the greatest stamp, and that is the last rotation's.
LEMMA Serves == TypeOK /\ StampInv => ServesLatestRotation
<1> SUFFICES ASSUME TypeOK, StampInv, NEW d \in Device, latest[d] # None
             PROVE  SignedPrekey(d) = <<d, latest[d]>>
  BY DEF ServesLatestRotation
<1>1. PICK x \in Key : x = <<d, latest[d]>> /\ x[1] = d /\ x \in signed
  BY DEF StampInv, TypeOK
<1>2. \A j \in KeysOf(d, signed) \ {x} : stamp[j] < stamp[x] /\ j \in Key
  BY <1>1 DEF StampInv, TypeOK, KeysOf
<1>3. stamp \in [Key -> Nat]
  BY DEF TypeOK
<1>4. x \in KeysOf(d, signed) /\ \A j \in KeysOf(d, signed) : stamp[j] <= stamp[x]
  BY <1>1, <1>2, <1>3 DEF KeysOf
<1>5. \A k \in KeysOf(d, signed) : (\A j \in KeysOf(d, signed) : stamp[j] <= stamp[k]) => k = x
  BY <1>1, <1>2, <1>3, <1>4
<1> QED
  BY <1>1, <1>4, <1>5 DEF SignedPrekey

-----------------------------------------------------------------------------
(* Push tokens.                                                            *)

TokenInv == \A d \in Device \ known : pushToken[d] = None

\* What a step does to the tokens.
LEMMA TokenStep ==
  TypeOK /\ RequestInv /\ TokenInv /\ [Next]_vars =>
    /\ TokenInv'
    /\ \A d \in Device : pushToken[d] # None /\ pushToken'[d] = None => pushToken[d] \in dropped
<1> SUFFICES ASSUME TypeOK, RequestInv, TokenInv, [Next]_vars
             PROVE  /\ TokenInv'
                    /\ \A d \in Device :
                         pushToken[d] # None /\ pushToken'[d] = None => pushToken[d] \in dropped
  OBVIOUS
<1> DEFINE Kept == /\ TokenInv'
                   /\ \A d \in Device :
                        pushToken[d] # None /\ pushToken'[d] = None => pushToken[d] \in dropped
<1>1. ASSUME NEW r \in Request, NEW d \in Device, RegisterKnown(r, d) PROVE Kept
  <2>1. /\ known' = known /\ d \in known
        /\ \A e \in Device \ {d} : pushToken'[e] = pushToken[e]
        /\ pushToken'[d] = None => pushToken[d] = None
    BY <1>1, AccountsAssumption DEF RegisterKnown, TypeOK
  <2> QED
    BY <2>1 DEF TokenInv
<1>2. ASSUME NEW r \in Request, RegisterCreate(r) PROVE Kept
  <2>1. CASE target[r] \in known
    <3>1. UNCHANGED <<known, pushToken>>
      BY <1>2, <2>1 DEF RegisterCreate
    <3> QED
      BY <3>1 DEF TokenInv
  <2>2. CASE target[r] \notin known
    <3>1. /\ target[r] \in Device /\ known' = known \cup {target[r]}
          /\ \A e \in Device \ {target[r]} : pushToken'[e] = pushToken[e]
      BY <1>2, <2>2 DEF RegisterCreate, RequestInv, TypeOK
    <3> QED
      BY <2>2, <3>1 DEF TokenInv
  <2> QED
    BY <2>1, <2>2
<1>3. ASSUME NEW r \in Request, PushClear(r) PROVE Kept
  <2>1. /\ known' = known /\ wanted[r] \in dropped
        /\ \A e \in Device :
             pushToken'[e] = IF pushToken[e] = wanted[r] THEN None ELSE pushToken[e]
    BY <1>3 DEF PushClear, RequestInv
  <2> QED
    BY <2>1 DEF TokenInv
<1>4. ASSUME UNCHANGED <<known, pushToken>> PROVE Kept
  BY <1>4 DEF TokenInv
<1> HIDE DEF Kept
<1>5. ASSUME NEW r \in Request, NEW d \in Device,
             \/ RegisterCount(r, d) \/ Deactivate(r, d) \/ PushRead(r, d)
             \/ \E K \in SUBSET KeyId : RefillCount(r, d, K)
             \/ \E k \in KeyId : RotateBegin(r, d, k)
      PROVE  UNCHANGED <<known, pushToken>>
  BY <1>5 DEF RegisterCount, Deactivate, PushRead, RefillCount, RotateBegin, table, push
<1>6. ASSUME NEW r \in Request,
             \/ RefillInsert(r) \/ RotateLock(r) \/ RotateCommit(r) \/ BundleDevices(r)
             \/ BundlePrekeys(r) \/ BundleConsume(r) \/ Abort(r) \/ ProfileUpdate(r) \/ PushSend(r)
             \/ \E u \in User, n \in Name : ProfileCheck(r, u, n)
      PROVE  UNCHANGED <<known, pushToken>>
  BY <1>6 DEF RefillInsert, RotateLock, RotateCommit, BundleDevices, BundlePrekeys, BundleConsume,
              Abort, ProfileUpdate, PushSend, ProfileCheck, table, push
<1>7. ASSUME UNCHANGED vars PROVE UNCHANGED <<known, pushToken>>
  BY <1>7 DEF vars, table, push
<1>8. Kept
  BY <1>1, <1>2, <1>3, <1>4, <1>5, <1>6, <1>7 DEF Next, PushStep
<1> QED
  BY <1>8 DEF Kept

-----------------------------------------------------------------------------
(* The theorems.                                                           *)

IndInv ==
  /\ TypeOK /\ RequestInv /\ FirstInv /\ DeviceInv /\ PrekeyInv /\ SignedInv /\ HandedInv
  /\ NameInv /\ StampInv /\ TokenInv

LEMMA InitInv == Init => IndInv
<1> SUFFICES ASSUME Init PROVE IndInv
  OBVIOUS
<1> USE AccountsAssumption, Kinds
<1>1. TypeOK
  BY DEF Init, TypeOK, Key
<1>2. RequestInv /\ FirstInv /\ TokenInv
  BY DEF Init, RequestInv, FirstInv, TokenInv
<1>3. DeviceInv
  <2>1. Cardinality(active \ excused) = Cardinality(active)
    BY DEF Init
  <2>2. Cardinality(active \ excused) <= MaxActiveDevices
    BY <2>1 DEF Init
  <2> QED
    BY <2>2 DEF Init, DeviceInv, DeviceLimit
<1>4. PrekeyInv
  <2>1. \A d \in Device : Stock(d) = {}
    BY DEF Init, Stock, KeysOf
  <2>2. \A d \in Device : Cardinality(Stock(d)) = 0
    BY <2>1, FS_EmptySet, Zenon
  <2>3. \A r \in Request : pc[r] # "insert"
    BY DEF Init
  <2>4. 0 <= PrekeyMaxTotal
    OBVIOUS
  <2> QED
    BY <2>2, <2>3, <2>4 DEF PrekeyInv
<1>5. SignedInv /\ HandedInv
  BY DEF Init, SignedInv, HandedInv, Unforked, KeysOf
<1>6. NameInv
  BY DEF Init, NameInv, UsernamesDistinct
<1>7. StampInv
  BY KeySize DEF Init, StampInv
<1> QED
  BY <1>1, <1>2, <1>3, <1>4, <1>5, <1>6, <1>7 DEF IndInv

LEMMA NextInv == IndInv /\ [Next]_vars => IndInv'
  BY TypeStep, FirstStep, DeviceStep, PrekeyStep, SignedStep, HandedStep, NameStep, LatestStep,
     TokenStep DEF IndInv

LEMMA Implied == IndInv => AccountInv /\ PrekeyHandedOnce /\ ServesLatestRotation
<1> SUFFICES ASSUME IndInv PROVE AccountInv /\ PrekeyHandedOnce /\ ServesLatestRotation
  OBVIOUS
<1>1. TypeOK /\ RequestInv /\ FirstInv /\ StampInv /\ DeviceLimit /\ UsernamesDistinct /\ RowInv
  BY DEF IndInv, DeviceInv, NameInv, HandedInv, TokenInv, RowInv
<1>2. PrekeyLimit
  BY DEF IndInv, PrekeyInv, Stock, PrekeyLimit
<1>3. OneSignedPrekey
  BY AtMostOne DEF IndInv, SignedInv, Unforked, OneSignedPrekey
<1>4. PrekeyHandedOnce
  BY AtMostOne DEF IndInv, HandedInv, PrekeyHandedOnce
<1>5. CheckedInv
  BY DEF IndInv, DeviceInv, PrekeyInv, SignedInv, HandedInv, NameInv, Stock, Unforked, CheckedInv
<1> QED
  BY <1>1, <1>2, <1>3, <1>4, <1>5, Serves DEF AccountInv

LEMMA Inductive == Spec => []IndInv
  BY InitInv, NextInv, PTL DEF Spec

\* register, refill, rotateSignedPrekey and updateProfile: the limit of devices, the limit
\* of prekeys, one signed prekey per device and distinct usernames hold, but for what
\* overlapping requests wrote.
THEOREM Invariant == Spec => []AccountInv
  BY Inductive, Implied, PTL

\* getDeviceKeyBundles and refill: a one-time prekey goes out in one bundle, not counting
\* bundles that read while another was about to consume.
THEOREM HandedOnce == Spec => []PrekeyHandedOnce
  BY Inductive, Implied, PTL

\* rotateSignedPrekey and getDeviceKeyBundles: whatever rows rotations left active, a
\* bundle shows the key of the rotation that committed last.
THEOREM ServesLatest == Spec => []ServesLatestRotation
  BY Inductive, Implied, PTL

\* sendFcmWakeup: a push token is cleared only when FCM has dropped it.
THEOREM TokensSurvive == Spec => NewTokenSurvives
<1>1. IndInv /\ [Next]_vars =>
        [\A d \in Device : pushToken[d] # None /\ pushToken'[d] = None => pushToken[d] \in dropped]_vars
  BY TokenStep DEF IndInv
<1> QED
  BY <1>1, Inductive, PTL DEF Spec, NewTokenSurvives
=============================================================================
