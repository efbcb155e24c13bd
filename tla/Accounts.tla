------------------------------ MODULE Accounts ------------------------------
(***************************************************************************)
(* What users keep on the server about themselves: the devices of one user *)
(* (devices.service.ts), their one-time and signed prekeys                 *)
(* (prekeys.service.ts), the key bundles other users fetch                 *)
(* (getDeviceKeyBundles, users.service.ts), the usernames of all           *)
(* (updateProfile), and the devices' push tokens, which a push job clears  *)
(* when FCM has dropped them (push-notification.processor.ts).             *)
(*                                                                         *)
(* Every handler reads, decides and writes in separate statements, and     *)
(* READ COMMITTED transactions do not keep others from writing in between. *)
(* Requests are taken from one pool and do any operation, so that the      *)
(* bound is on the number of requests and not on their kinds.  Callers own *)
(* the devices they name; what a device is called is left out.             *)
(***************************************************************************)
EXTENDS Naturals, FiniteSets

CONSTANTS Request,
          Device,                     \* the user's devices, registered or not
          KeyId,                      \* prekey numbers chosen by the clients
          MaxActiveDevices,           \* MAX_ACTIVE_DEVICES
          PrekeyMaxTotal,             \* PREKEY_MAX_TOTAL
          User, Name,                 \* users and the usernames they ask for
          Fold,                       \* what the case-insensitive comparison sees
          PushToken,                  \* tokens FCM gives to the apps
          None

Key == Device \X KeyId

ASSUME AccountsAssumption ==
  /\ MaxActiveDevices \in Nat \ {0} /\ PrekeyMaxTotal \in Nat
  /\ IsFiniteSet(Device) /\ IsFiniteSet(KeyId)
  /\ None \notin Name \cup Device \cup KeyId \cup PushToken
  /\ DOMAIN Fold = Name
  /\ Device \cap User = {} /\ Key \cap (Device \cup User) = {}

VARIABLES
  known, active,              \* Device rows, and those with active = true
  free, spent,                \* OneTimePrekey rows: consumedAt NULL, or set
  signed,                     \* SignedPrekey rows with active = true
  stamp,                      \* createdAt of the signed prekeys, as a rank
  username,
  pushToken, dropped,         \* of the devices; tokens FCM reported as unregistered
  pc,                         \* where each request is
  target,                     \* the device, user or bundle's devices it is about
  wanted,                     \* the key numbers, or the name, it brings
  rows,                       \* the rows it has read
  handed,                     \* history: the bundles a one-time prekey went out in,
  latest,                     \*   the signed prekey of the last rotation of a device,
  late,                       \*   requests that read while another had read and not written,
  excused,                    \*   the devices, prekeys and users they wrote,
  forked                      \*   and the signed prekeys

push    == <<pushToken, dropped>>
table   == <<known, active, free, spent, signed, stamp, username, push>>
request == <<pc, target, wanted, rows>>
history == <<handed, latest, late, excused, forked>>
vars    == <<table, request, history>>

Target == Device \cup User \cup {None} \cup (SUBSET Device)
Wanted == KeyId \cup Name \cup PushToken \cup {None} \cup (SUBSET KeyId)

TypeOK ==
  /\ known \in SUBSET Device /\ active \in SUBSET known
  /\ free \in SUBSET Key /\ spent \in SUBSET Key /\ free \cap spent = {}
  /\ signed \in SUBSET Key /\ stamp \in [Key -> Nat]
  /\ username \in [User -> Name \cup {None}]
  /\ pushToken \in [Device -> PushToken \cup {None}] /\ dropped \in SUBSET PushToken
  /\ pc \in [Request -> {"idle", "create", "insert", "lock", "rotate", "prekeys",
                         "consume", "profile", "send", "clear", "done", "failed"}]
  /\ target \in [Request -> Target] /\ wanted \in [Request -> Wanted]
  /\ rows \in [Request -> SUBSET Key]
  /\ handed \in [Key -> SUBSET Request]
  /\ latest \in [Device -> KeyId \cup {None}]
  /\ late \in SUBSET Request
  /\ excused \in SUBSET (Device \cup Key \cup User) /\ forked \in SUBSET Key

Init ==
  /\ known \in SUBSET Device /\ active \in SUBSET known
  /\ Cardinality(active) <= MaxActiveDevices
  /\ free = {} /\ spent = {} /\ signed = {} /\ stamp = [k \in Key |-> 0]
  /\ username = [u \in User |-> None]
  /\ pushToken = [d \in Device |-> None] /\ dropped = {}
  /\ pc = [r \in Request |-> "idle"] /\ target = [r \in Request |-> None]
  /\ wanted = [r \in Request |-> None] /\ rows = [r \in Request |-> {}]
  /\ handed = [k \in Key |-> {}] /\ latest = [d \in Device |-> None]
  /\ late = {} /\ excused = {} /\ forked = {}

-----------------------------------------------------------------------------
Goto(r, step) == pc' = [pc EXCEPT ![r] = step]

\* The end of a request, whose local variables are of no more use.
Answer(r, step) ==
  /\ Goto(r, step)
  /\ target' = [target EXCEPT ![r] = None]
  /\ wanted' = [wanted EXCEPT ![r] = None]
  /\ rows' = [rows EXCEPT ![r] = {}]

\* Another request has read what this one reads, and not yet written.
Overlaps(r, step, x) ==
  late' = IF \E q \in Request \ {r} : pc[q] = step /\ target[q] = x
          THEN late \cup {r} ELSE late

KeysOf(d, S) == {k \in S : k[1] = d}

-----------------------------------------------------------------------------
(* DevicesService.                                                         *)

\* register of a device that has a row: it is active again, whatever the limit, with
\* the push token it brings, if it does.
RegisterKnown(r, d) ==
  /\ pc[r] = "idle" /\ d \in known
  /\ Goto(r, "done")
  /\ active' = active \cup {d}
  /\ \E p \in (PushToken \ dropped) \cup {pushToken[d]} :
       pushToken' = [pushToken EXCEPT ![d] = p]
  /\ excused' = IF d \in active THEN excused ELSE excused \cup {d}
  /\ UNCHANGED <<known, free, spent, signed, stamp, username, dropped, target, wanted, rows,
                 handed, latest, late, forked>>

\* Mutant: an off-by-one in the comparison with the limit.
RegisterCountOneMore(r, d) ==
  /\ pc[r] = "idle" /\ d \notin known
  /\ IF Cardinality(active) > MaxActiveDevices
     THEN Goto(r, "failed") /\ UNCHANGED <<target, late>>
     ELSE /\ Goto(r, "create")
          /\ target' = [target EXCEPT ![r] = d]
          /\ late' = IF \E q \in Request \ {r} : pc[q] = "create" THEN late \cup {r} ELSE late
  /\ UNCHANGED <<table, wanted, rows, handed, latest, excused, forked>>

\* register of a new device: the number of active devices ...
RegisterCount(r, d) ==
  /\ pc[r] = "idle" /\ d \notin known
  /\ IF Cardinality(active) >= MaxActiveDevices
     THEN Goto(r, "failed") /\ UNCHANGED <<target, late>>
     ELSE /\ Goto(r, "create")
          /\ target' = [target EXCEPT ![r] = d]
          /\ late' = IF \E q \in Request \ {r} : pc[q] = "create" THEN late \cup {r} ELSE late
  /\ UNCHANGED <<table, wanted, rows, handed, latest, excused, forked>>

\* ... and the insert, which the primary key refuses for an id that exists by now.
RegisterCreate(r) ==
  /\ pc[r] = "create"
  /\ IF target[r] \in known
     THEN Answer(r, "failed") /\ UNCHANGED <<known, active, pushToken, excused>>
     ELSE /\ Answer(r, "done")
          /\ known' = known \cup {target[r]}
          /\ active' = active \cup {target[r]}
          /\ \E p \in (PushToken \ dropped) \cup {None} :
               pushToken' = [pushToken EXCEPT ![target[r]] = p]
          /\ excused' = IF r \in late THEN excused \cup {target[r]} ELSE excused
  /\ UNCHANGED <<free, spent, signed, stamp, username, dropped, handed, latest, late, forked>>

\* deactivate, or logout with a deviceId.
Deactivate(r, d) ==
  /\ pc[r] = "idle" /\ d \in known
  /\ Goto(r, "done")
  /\ active' = active \ {d}
  /\ excused' = excused \ {d}
  /\ UNCHANGED <<known, free, spent, signed, stamp, username, push, target, wanted, rows,
                 handed, latest, late, forked>>

-----------------------------------------------------------------------------
(* PreKeysService.  assertDeviceOwner is read together with what follows   *)
(* it: a device deactivated after it does not stop the handler.            *)

\* refill: the number of free prekeys, against the limit ...
RefillCount(r, d, K) ==
  /\ pc[r] = "idle"
  /\ IF d \notin active \/ Cardinality(KeysOf(d, free)) + Cardinality(K) > PrekeyMaxTotal
     THEN Goto(r, "failed") /\ UNCHANGED <<target, wanted, late>>
     ELSE /\ Goto(r, "insert")
          /\ target' = [target EXCEPT ![r] = d]
          /\ wanted' = [wanted EXCEPT ![r] = K]
          /\ Overlaps(r, "insert", d)
  /\ UNCHANGED <<table, rows, handed, latest, excused, forked>>

\* Mutant: a key that was consumed is stored again.
RefillReplaces(r) ==
  LET new == {target[r]} \X wanted[r]
  IN  /\ pc[r] = "insert"
      /\ Answer(r, "done")
      /\ free' = free \cup new /\ spent' = spent \ new
      /\ excused' = IF r \in late THEN excused \cup new ELSE excused
      /\ UNCHANGED <<known, active, signed, stamp, username, push, handed, latest, late, forked>>

\* ... and createMany, which skips the numbers that exist, consumed or not.
RefillInsert(r) ==
  LET new == ({target[r]} \X wanted[r]) \ (free \cup spent)
  IN  /\ pc[r] = "insert"
      /\ Answer(r, "done")
      /\ free' = free \cup new
      /\ excused' = IF r \in late THEN excused \cup new ELSE excused
      /\ UNCHANGED <<known, active, spent, signed, stamp, username, push, handed, latest,
                     late, forked>>

\* rotateSignedPrekey: its first update sees the rows active when it starts, ...
RotateBegin(r, d, k) ==
  /\ pc[r] = "idle"
  /\ IF d \notin active
     THEN Goto(r, "failed") /\ UNCHANGED <<target, wanted, rows, late>>
     ELSE /\ Goto(r, "lock")
          /\ target' = [target EXCEPT ![r] = d]
          /\ wanted' = [wanted EXCEPT ![r] = k]
          /\ rows' = [rows EXCEPT ![r] = KeysOf(d, signed)]
          /\ late' = IF \E q \in Request \ {r} : pc[q] \in {"lock", "rotate"} /\ target[q] = d
                     THEN late \cup {r} ELSE late
  /\ UNCHANGED <<table, handed, latest, excused, forked>>

\* ... waits for a transaction that has changed one of them, ...
RotateLock(r) ==
  /\ pc[r] = "lock"
  /\ \A q \in Request \ {r} : pc[q] = "rotate" => rows[q] \cap rows[r] = {}
  /\ Goto(r, "rotate")
  /\ UNCHANGED <<table, target, wanted, rows, history>>

\* Mutant: a number used before keeps its createdAt.
RotateOldStamp(r) ==
  LET new == <<target[r], wanted[r]>>
  IN  /\ pc[r] = "rotate"
      /\ Answer(r, "done")
      /\ signed' = (signed \ rows[r]) \cup {new}
      /\ stamp' = [stamp EXCEPT ![new] =
           IF @ = 0 THEN 1 + Cardinality({k \in Key : stamp[k] # 0}) ELSE @]
      /\ latest' = [latest EXCEPT ![target[r]] = wanted[r]]
      /\ forked' = IF r \in late THEN forked \cup {new} ELSE forked \ {new}
      /\ UNCHANGED <<known, active, free, spent, username, push, handed, late, excused>>

\* ... and commits with the upsert of the new row, the newest from now on.  Rows that
\* became active after the first statement stay so.  The upsert, which has the time that
\* becomes createdAt, and the commit after it are one step: rotations that overlap are taken
\* to commit in the order of their upserts.
RotateCommit(r) ==
  LET new == <<target[r], wanted[r]>>
  IN  /\ pc[r] = "rotate"
      /\ Answer(r, "done")
      /\ signed' = (signed \ rows[r]) \cup {new}
      /\ stamp' = [k \in Key |-> IF k = new THEN Cardinality(Key)
                                 ELSE IF stamp[k] > stamp[new] THEN stamp[k] - 1 ELSE stamp[k]]
      /\ latest' = [latest EXCEPT ![target[r]] = wanted[r]]
      /\ forked' = IF r \in late THEN forked \cup {new} ELSE forked \ {new}
      /\ UNCHANGED <<known, active, free, spent, username, push, handed, late, excused>>

\* orderBy createdAt desc, take 1: the signed prekey a bundle shows for the device.
SignedPrekey(d) ==
  CHOOSE k \in KeysOf(d, signed) : \A j \in KeysOf(d, signed) : stamp[j] <= stamp[k]

-----------------------------------------------------------------------------
(* getDeviceKeyBundles.                                                    *)

\* The active devices, before the transaction.
BundleDevices(r) ==
  /\ pc[r] = "idle"
  /\ IF active = {}
     THEN Goto(r, "failed") /\ UNCHANGED target
     ELSE Goto(r, "prekeys") /\ target' = [target EXCEPT ![r] = active]
  /\ UNCHANGED <<table, wanted, rows, history>>

\* A free prekey of each device that has one.  The code takes the oldest; those of one
\* refill have one createdAt, and the order of two refills is left out.
BundlePrekeys(r) ==
  /\ pc[r] = "prekeys"
  /\ Goto(r, "consume")
  /\ LET having == {d \in target[r] : KeysOf(d, free) # {}}
     IN  \E pick \in [having -> free] :
           /\ \A d \in having : pick[d] \in KeysOf(d, free)
           /\ rows' = [rows EXCEPT ![r] = {pick[d] : d \in having}]
  /\ late' = IF \E q \in Request \ {r} : pc[q] = "consume" THEN late \cup {r} ELSE late
  /\ UNCHANGED <<table, target, wanted, handed, latest, excused, forked>>

\* updateMany by id, whether the prekey is still free or not.
BundleConsume(r) ==
  /\ pc[r] = "consume"
  /\ Answer(r, "done")
  /\ free' = free \ rows[r] /\ spent' = spent \cup rows[r]
  /\ handed' = [k \in Key |-> IF k \in rows[r] THEN handed[k] \cup {r} ELSE handed[k]]
  /\ UNCHANGED <<known, active, signed, stamp, username, push, latest, late, excused, forked>>

\* A transaction that fails, or is lost with its process, leaves nothing.
Abort(r) ==
  /\ pc[r] \in {"lock", "rotate", "consume"}
  /\ Answer(r, "failed")
  /\ UNCHANGED <<table, history>>

-----------------------------------------------------------------------------
(* updateProfile.                                                          *)

ProfileCheck(r, u, n) ==
  /\ pc[r] = "idle"
  /\ IF \E w \in User \ {u} : username[w] # None /\ Fold[username[w]] = Fold[n]
     THEN Goto(r, "failed") /\ UNCHANGED <<target, wanted, late>>
     ELSE /\ Goto(r, "profile")
          /\ target' = [target EXCEPT ![r] = u]
          /\ wanted' = [wanted EXCEPT ![r] = n]
          /\ late' = IF \E q \in Request \ {r} : pc[q] = "profile" THEN late \cup {r} ELSE late
  /\ UNCHANGED <<table, rows, handed, latest, excused, forked>>

\* The update; the unique index compares the names as they are written (P2002).
ProfileUpdate(r) ==
  /\ pc[r] = "profile"
  /\ IF \E w \in User \ {target[r]} : username[w] = wanted[r]
     THEN Answer(r, "failed") /\ UNCHANGED <<username, excused>>
     ELSE /\ Answer(r, "done")
          /\ username' = [username EXCEPT ![target[r]] = wanted[r]]
          /\ excused' = IF r \in late THEN excused \cup {target[r]} ELSE excused
  /\ UNCHANGED <<known, active, free, spent, signed, stamp, push, handed, latest, late, forked>>

-----------------------------------------------------------------------------
(* A push job, for one device: sendFcmWakeup and sendSilentFcmWakeup.      *)

PushRead(r, d) ==
  /\ pc[r] = "idle"
  /\ IF d \in active /\ pushToken[d] # None
     THEN /\ Goto(r, "send")
          /\ target' = [target EXCEPT ![r] = d]
          /\ wanted' = [wanted EXCEPT ![r] = pushToken[d]]
     ELSE Goto(r, "done") /\ UNCHANGED <<target, wanted>>
  /\ UNCHANGED <<table, rows, history>>

\* sendEachForMulticast: accepted or refused, or refused because the token is not
\* registered any more.
PushSend(r) ==
  /\ pc[r] = "send"
  /\ \/ wanted[r] \notin dropped /\ Answer(r, "done") /\ UNCHANGED dropped
     \/ /\ Goto(r, "clear")
        /\ dropped' = dropped \cup {wanted[r]}
        /\ UNCHANGED <<target, wanted, rows>>
  /\ UNCHANGED <<known, active, free, spent, signed, stamp, username, pushToken, history>>

\* Mutant: the token of the device is cleared, whichever it is by now.
PushClearDevice(r) ==
  /\ pc[r] = "clear"
  /\ Answer(r, "done")
  /\ pushToken' = [pushToken EXCEPT ![target[r]] = None]
  /\ UNCHANGED <<known, active, free, spent, signed, stamp, username, dropped, history>>

\* updateMany by token: every device that has it now.
PushClear(r) ==
  /\ pc[r] = "clear"
  /\ Answer(r, "done")
  /\ pushToken' = [d \in Device |-> IF pushToken[d] = wanted[r] THEN None ELSE pushToken[d]]
  /\ UNCHANGED <<known, active, free, spent, signed, stamp, username, dropped, history>>

\* The rest of a job, whether it wakes a device up or tells it of an edit or a deletion.
PushStep(r) == PushSend(r) \/ PushClear(r)

Next ==
  \E r \in Request :
    \/ \E d \in Device :
         \/ RegisterKnown(r, d) \/ RegisterCount(r, d) \/ Deactivate(r, d) \/ PushRead(r, d)
         \/ \E K \in (SUBSET KeyId) \ {{}} : RefillCount(r, d, K)
         \/ \E k \in KeyId : RotateBegin(r, d, k)
    \/ RegisterCreate(r) \/ RefillInsert(r)
    \/ RotateLock(r) \/ RotateCommit(r)
    \/ BundleDevices(r) \/ BundlePrekeys(r) \/ BundleConsume(r) \/ Abort(r)
    \/ \E u \in User, n \in Name : ProfileCheck(r, u, n)
    \/ ProfileUpdate(r) \/ PushStep(r)

Spec == Init /\ [][Next]_vars

-----------------------------------------------------------------------------
(* Properties.                                                             *)

\* register: a user has at most MAX_ACTIVE_DEVICES active devices, not counting those
\* that were made active again and those registered while another registration was
\* between its count and its insert.
DeviceLimit == Cardinality(active \ excused) <= MaxActiveDevices

\* refill: a device has at most PREKEY_MAX_TOTAL free prekeys, not counting those of a
\* refill that counted while another refill of the device was about to insert.
PrekeyLimit ==
  \A d \in Device : Cardinality(KeysOf(d, free) \ excused) <= PrekeyMaxTotal

\* getDeviceKeyBundles and refill: a one-time prekey goes out in one bundle, not
\* counting bundles that read the prekeys while another was about to consume its own;
\* uploading its number again does not bring it back.
PrekeyHandedOnce ==
  \A k \in Key : Cardinality(handed[k] \ late) <= 1

\* rotateSignedPrekey: rotations that overlap may leave several active rows of a
\* device, one more for each; there is no other way to have two.
OneSignedPrekey ==
  \A d \in Device : Cardinality(KeysOf(d, signed) \ forked) <= 1

\* getDeviceKeyBundles: whatever rows rotations left active, a bundle shows the key of
\* the rotation that wrote its row last, by the order of the upserts.
ServesLatestRotation ==
  \A d \in Device : latest[d] # None => SignedPrekey(d) = <<d, latest[d]>>

\* updateProfile: no two users have the same name, and names that differ in case only
\* come from checks that overlapped.
UsernamesDistinct ==
  \A u, w \in User :
    u # w /\ username[u] # None /\ username[w] # None =>
      /\ username[u] # username[w]
      /\ Fold[username[u]] = Fold[username[w]] => {u, w} \cap excused # {}

\* sendFcmWakeup: a token is cleared only when FCM has dropped it; the one the device
\* registered while the push was under way stays.
NewTokenSurvives ==
  [][\A d \in Device : pushToken[d] # None /\ pushToken'[d] = None => pushToken[d] \in dropped]_vars

\* What a request keeps, by the place it is at.
RequestInv ==
  \A r \in Request :
    /\ pc[r] \in {"create", "insert", "lock", "rotate"} => target[r] \in Device
    /\ pc[r] = "insert" => wanted[r] \in SUBSET KeyId
    /\ pc[r] \in {"lock", "rotate"} => wanted[r] \in KeyId /\ rows[r] \subseteq KeysOf(target[r], Key)
    /\ pc[r] = "prekeys" => target[r] \subseteq Device
    /\ pc[r] = "profile" => target[r] \in User /\ wanted[r] \in Name
    /\ pc[r] \in {"send", "clear"} => wanted[r] \in PushToken
    /\ pc[r] = "clear" => wanted[r] \in dropped

\* Of the requests that have read the same rows and not yet written, one is not late.
FirstInv ==
  \A q, r \in Request \ late :
    \/ pc[q] = pc[r] /\ pc[r] \in {"create", "consume", "profile"}
    \/ pc[q] = pc[r] /\ pc[r] = "insert" /\ target[q] = target[r]
    \/ {pc[q], pc[r]} \subseteq {"lock", "rotate"} /\ target[q] = target[r]
    => q = r

\* What that one has checked still holds when it writes.
CheckedInv ==
  \A r \in Request \ late :
    /\ pc[r] = "create" => Cardinality(active \ excused) < MaxActiveDevices
    /\ pc[r] = "insert" =>
         Cardinality(KeysOf(target[r], free) \ excused) + Cardinality(wanted[r]) <= PrekeyMaxTotal
    /\ pc[r] \in {"lock", "rotate"} => KeysOf(target[r], signed) \ forked \subseteq rows[r]
    /\ pc[r] = "consume" => \A k \in rows[r] : handed[k] \subseteq late
    /\ pc[r] = "profile" =>
         \A w \in User \ {target[r]} :
           username[w] # None /\ Fold[username[w]] = Fold[wanted[r]] => w \in excused

\* Signed prekeys that were written have different stamps, with room below them for the
\* others, and of a device the last one written has the greatest.
StampInv ==
  /\ \A k \in Key :
       /\ stamp[k] <= Cardinality(Key)
       /\ stamp[k] # 0 => stamp[k] > Cardinality({j \in Key : stamp[j] = 0})
       /\ \A j \in Key \ {k} : stamp[j] = stamp[k] => stamp[k] = 0
  /\ \A d \in Device : latest[d] # None =>
       /\ <<d, latest[d]>> \in signed
       /\ \A j \in KeysOf(d, Key) \ {<<d, latest[d]>>} : stamp[j] < stamp[<<d, latest[d]>>]

\* A device without a row has no push token, and what was handed out is not free again.
RowInv ==
  /\ \A d \in Device \ known : pushToken[d] = None
  /\ \A k \in Key \ spent : handed[k] = {}

\* register, refill, rotateSignedPrekey and updateProfile: what each handler checks
\* before it writes still holds of what is stored, but for the overlaps above.
AccountInv ==
  /\ TypeOK /\ DeviceLimit /\ PrekeyLimit /\ OneSignedPrekey /\ UsernamesDistinct
  /\ RequestInv /\ FirstInv /\ CheckedInv /\ StampInv /\ RowInv
=============================================================================
