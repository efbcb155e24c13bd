# Verification of the birgap backend

birgap is the backend of an end-to-end encrypted messenger: a NestJS server
(HTTP controllers and a Socket.IO gateway), Postgres through Prisma, Redis for
presence and caches, BullMQ queues with their workers in the same process, and
an R2 bucket for media and backups. The server never sees plaintext. What it has
to get right is bookkeeping: a message is stored once however often a client
retries, numbered without gaps, delivered to the right devices, counted as
unread, edited, deleted and reclaimed; a session is rotated and ends, a one-time
key is handed out once, presence tells who needs a push; and an account's
sanctions are applied and lifted. All of it runs in handlers that interleave at every `await`, on several
instances, with retries, refused queue jobs and crashes in between. That is what
this project models.

Paths below are relative to the repository; `MODULE!Name` is a definition of a
module in this directory. `PROJECT.json` maps every definition to the source
lines it stands for.

## 1. Inventory

### Parts, state, operations

| Part | State it keeps | Operations that change it |
| --- | --- | --- |
| Direct messages (`src/messages/messages.service.ts`) | `DirectThread.latestSequence`, `Message`, `MessageEnvelope` | send, forwardToDirect, edit, delete, ack, markAllRead |
| Group messages (`src/groups`) | `Group`, `GroupMember`, `Message`, `group-fanout` and `group-edit-fanout` jobs | queueGroupMessage, forwardToGroup, fan-out job, edit, administration |
| Unread counters (`src/unread`) | `UserThreadState.unreadCount`, `unread-recalc` jobs | enqueueRecalc, the job, mark-all-read's reset |
| Media (`src/messages/media.service.ts`, `src/common/tasks/media-cleanup.processor.ts`, `src/backups/queue/storage-cleanup.processor.ts`) | `MessageMedia`, objects in R2, `storage-cleanup` jobs | initUpload, complete, attach, forward copy, cleanup on delete, the sweep |
| Backups (`src/backups`) | `BackupBlob` row, object in R2, `storage-cleanup` jobs | upload, putCurrent, storage-cleanup |
| Devices (`src/devices`) | `Device.active`, its push token | register, reactivate, deactivate |
| Prekeys (`src/prekeys`, `src/users`) | signed and one-time prekeys | refill, rotate, consume in getDeviceKeyBundles |
| Sessions (`src/auth`, `src/telegram`) | `RefreshToken` and `Otp` rows, accounts by phone hash, `telegram-otp` jobs | requestOtp, verifyOtp, refresh, logout, pruning |
| Realtime and presence (`src/realtime`, `src/redis`) | socket tickets, presence sets in Redis | connect, disconnect, kick, emit |
| Push (`src/push`) | `push-notification` jobs | wake devices without a socket, clear dead tokens |
| Moderation (`src/moderation`) | `User.status`, `strikeCount`, `UserSuspension`, `Report`, `AdminAuditLog` | suspend, unsuspend, reactivation job, tombstone, reports, roles |
| Reactions (`src/reactions`) | `MessageReaction` rows, counts cached in Redis | toggle, remove, fan-out |
| Group members (`src/groups`, `src/redis`) | `GroupMember` rows, the list cached in Redis | create, add, remove; events fill the cache |
| Profiles (`src/users`) | `User.username` | updateProfile |
| Others | thread listing, contacts, metrics roll-up, HTTP plumbing | mostly queries |

### Interactions

* A send handler commits rows in Postgres, then **calls** the realtime service
  (`message.created`) and **enqueues** an unread recalculation; a group send
  enqueues one fan-out job, which writes the envelopes, emits, and enqueues the
  recalculations. The commit and the enqueue are not atomic.
* `enqueueRecalc` names its job by user and thread (`jobId`); BullMQ ignores an
  `add` whose jobId exists in any state, so the queue itself is shared state
  between senders, readers and the worker.
* Deleting a message for everyone starts `cleanupMessageMedia` without awaiting
  it; the object is removed by a job of the *backups* queue. Forwarded copies
  share the object by `bucketKey`. A daily sweep removes stale uploads.
* Suspension is written by administrators and a daily job, read by the JWT guard
  (`User.status`) and by login (`UserSuspension`), and revokes refresh tokens
  that logins and refreshes are issuing. Its kick goes to every gateway by a
  Redis channel.
* The gateway writes presence sets that push jobs read: a device with a socket is
  not woken. Reaction and typing events go to the cached member list of a group.

### What is hard here

Interleavings at every `await` (READ COMMITTED, two checks followed by an act);
client retries that overlap the first attempt; crashes and refused enqueues after
a commit; at-least-once jobs that start over; job de-duplication; row locks held
over several awaits; unique indexes as the only arbiter; a denormalised column
(`status`, `unreadCount`, `latestSequence`) that must agree with the rows it
summarises. `PROJECT.json` lists 40 such hazards with their source lines and the
properties that would catch each.

### What makes each part correct

* Direct and group sends: idempotent keys, gapless numbers, visibility in order,
  attachments bound once, replies to live top-level messages of the same thread,
  every accepted message announced.
* Unread counters: the counter is the number of unread messages, or is about to be
  corrected.
* Media: what a live message refers to can be downloaded; what nobody refers to
  is reclaimed.
* Moderation: status agrees with the suspensions, everything is audited, strikes
  are counted, sessions of a suspended user end, lapsed suspensions are lifted.
* Reports: a closed report stays closed, a tombstone decides all reports, the
  audit log tells the status.
* Sessions: one live token per login, reuse ends the family, a suspension ends
  everything; a code is used once and guesses are limited; one account per phone.
* Devices and prekeys: the limits hold, a one-time prekey is handed out once, one
  signed prekey is active, the newest is served, names are distinct.
* Presence and push: an id in the set has its socket, an open socket is in the
  set, a device left out of a push was reached.
* Reactions and members: a cache is never older than the last invalidation, and
  whoever counts the events ends with the stored number of each emoji.
* Backups: the current backup's object exists, a replaced one is reclaimed.

## 2. Plan

1. **Done**: the message path (DirectSend, GroupSend, MessageLog), what hangs on
   it (UnreadCounter, MessageEdit, MediaStorage), sanctions (Suspension, Reports),
   authentication (Sessions, Otp), what users keep (Accounts, Backups), presence
   and push (Presence), reactions and group members (Reactions); for each of them
   but MessageEdit an inductive invariant and its proof, the proofs of the other
   safety properties, and the refinement of MessageLog by both send paths.
2. Left to prove: that the edit of a message keeps its envelope (once the first edit
   works, see below), and further consequences of the invariants as the code comes
   to rely on them.
3. Left to model: role changes against suspensions, and the group edit fan-out
   once edits reach it.

Every module is written to be proved about: constants with named assumptions, one
action per statement or job step, invariants as conjunctions of named parts, no
recursive operators.

## 3. Modules and the code

| Module | Models |
| --- | --- |
| MessageLog | abstract specification: requests are asked, appended once per key to a log, answered or failed |
| DirectSend, MCDirectSend, DirectSendProofs | `send` and `forwardToDirect` |
| GroupSend, MCGroupSend, GroupSendProofs | `queueGroupMessage`, `forwardToGroup`, the fan-out job |
| UnreadCounter | receipts, mark-all-read, the recalculation job |
| MessageEdit, MCMessageEdit | `edit` |
| MediaStorage | life of one uploaded object and of the messages that refer to it |
| Suspension | suspendUser, unsuspendUser, the reactivation job, and logins |
| Reports | create, markInReview, dismiss, tombstoneMessage, untombstoneMessage |
| MCModeration, ModerationProofs | compose Suspension and Reports |
| Sessions | verifyOtp's session, refresh, revokeTokenFamily, logout, pruning of tokens |
| Otp | requestOtp and its delivery, verifyOtp, findOrCreateUser, pruning of codes |
| MCSessions, SessionsProofs | compose Sessions and Otp |
| Accounts, AccountsProofs | devices, prekeys, key bundles, user names, push tokens |
| Backups | uploads, putCurrent, the clean-up of replaced backups |
| MCAccounts | composes Accounts and Backups |
| StorageProofs | proofs about Backups and MediaStorage, the two users of the bucket |
| Presence, MCPresence, PresenceProofs | tickets, connections, presence sets, kicks, wake-ups |
| Reactions, MCReactions | reactions, group members, both caches and the events |
| ClientViewProofs | proofs about UnreadCounter and Reactions, what a client is shown |

Conventions shared by the modules:

* A step is one awaited statement (or one transaction, where nothing else can
  see the inside of it). Several requests, on one instance or on many, are
  concurrent processes; `pc` holds how far each is.
* Postgres runs at READ COMMITTED. An uncommitted row is invisible to other
  transactions. An update takes the row lock to the end of the transaction; an
  insert that would violate a unique index waits for the other transaction and
  then fails. These are the only properties of the database the models use.
* BullMQ is modelled from how the queues are configured: at-least-once, a number
  of attempts, `jobId` unique among the jobs kept in Redis.
* A Redis pipeline is one step. Each of its commands may fail on its own; ioredis
  then puts the error into the results and does not throw, and the code goes on with
  what it takes the result for. Entries expire by a clock of coarse ticks, or at any
  time.
* Where the code leaves a race open, a history variable (`late`, `raced`,
  `excused`, `escaped`, `miscounted`, ...) names exactly the requests that met it,
  and the property holds of all others. The property therefore says that there is
  no *other* way to go wrong; a mutant that opens one is caught.
* Contents are abstract: a ciphertext, key, device or media row is a model value.

**DirectSend.** A message row is named by the request that inserted it. The
variables are `dto`, `pc`, `reply` (per request), the database (`latestSequence`,
`stored`, `bound`, `lock`), the numbers, the active devices and what has been
announced. Actions, in the order of the handler: `Receive`, `Lookup` (the
idempotency check), `ReadDevices`, `UpsertThread`/`CreateThread`, `NextSequence`,
`CheckBody` (reply target and attachments), `InsertMessage`, `AttachMedia`,
`Commit`, `Announce`; `Recover` is the catch branch that turns a unique violation
into the stored message; `Abort` and `Crash` may strike at any await.
`DeviceChange` is the rest of the system.

**GroupSend.** As above without a thread row: `ReadSequence` takes max+1 and no
lock, `InsertMessage` may then meet either unique index. `QueueFanout` adds the
job or fails (`QueueFails`); `FanoutDevices`, `FanoutCreate`, `FanoutEmit`,
`FanoutRecalc` are the job, `FanoutFails` starts it over until its attempts are
used up. `MemberChange` and `DeviceChange` are the environment.

**UnreadCounter.** One user and one thread: envelope statuses, the counter, the
job named by the pair (`job`, `attempts`), acknowledgements with their three
statements, and mark-all-read transactions with their row locks. The history
variable `drift` records which of five events happened since the last COUNT.

**MessageEdit.** `CheckAccess`, `Update` (the conditional `updateMany`, with SQL's
three-valued comparison in `Differs`), `UpdateEnvelope`, `Emit`, and a concurrent
deletion.

**MediaStorage.** One object and the rows that refer to it: the original message
and its forwards. Upload and completion, binding, forward as read then commit,
deletion by the sender, tombstone and its reversal by a moderator, the
un-awaited clean-up (`CleanupCount`, `CleanupAdd`), the storage-cleanup job with
its attempts, and the sweep as read, delete object, delete rows. The history
variable `raced` names the three races that can lose an object.

**Suspension.** One account. `SuspendCheck` is the status check before the
transaction, `SuspendCreate`, `SuspendUser`, `SuspendMessages`, `SuspendCommit`
the transaction; `UnsuspendCheck`, `UnsuspendFind`, `UnsuspendUser`,
`UnsuspendAudit`, `UnsuspendCommit`; `CronRead`, `CronUser`, `CronCommit`,
`CronFails`; `LoginCheck` and `issueTokenPair`; `Expire` is the clock. The user
row's lock is held from the update to the end of the transaction.

**Reports.** A report is a pair of a reporter and a message. `FileReport`,
`CheckDailyLimit`, `CheckIpRateLimit`, `UpsertReport` are create; `ReviewFind`,
`ReviewUpdate`, `ReviewAudit` and `DismissFind`, `DismissUpdate`, `DismissAudit`
the two handlers that read, overwrite and log in three statements;
`TombstoneFind` and `TombstoneMessage`, `RestoreFind` and `UntombstoneMessage` a
check and a transaction each. `logged` is the status that the latest entry about a
report tells. The counter of reports per message (`reports:collusion`), which
nothing reads, is left out, and so is the exemption of moderators from limits.

**Sessions.** The refresh tokens of one user, numbered as they are issued; a family
is the login it began with. `Claim` is the conditional update of refresh,
`ReadSession`, `Lookup`, `ReadFamily` its reads, `RefreshCheck` throwIfSuspended,
`RefreshIssue` the insert; `FindFamily` and `Sweep` are the answer to a late replay.
A client presents any token it ever got, since the answer to a refresh may be
lost. A suspension is a transaction: `SuspendRevoke` is its update of the tokens,
`SuspendCommit` makes it visible after the messages and the audit entries are written,
`SuspendRollback` undoes it. In between, `revoking` are the rows it has locked: others
still see them as live, a claim or a logout of one of them waits, and so does a sweep
(`SweepBlocked`), which goes on with the rows it had found (`SweepResumed`) and misses
what was inserted meanwhile. A login or a refresh that sees no suspension inserts in
that time a token that nobody revokes. What else a suspension writes, and suspensions
that overlap, are in Suspension.

**Otp.** The codes of one phone: `OtpCheck`, `OtpCreate`, `OtpQueue`, the delivery
job `SendOtp`; `Lockout`, `FindOtp`, `RecordMiss`, `UseOtp` of verifyOtp;
`FindUser`, `FindLegacy`, `MigrateUser`, `InsertUser` of findOrCreateUser, which
moves an account from the old hash of the phone to the new one.

**Accounts.** Requests from one pool do any operation. `RegisterKnown` reactivates,
`RegisterCount` and `RegisterCreate` are the limit and the insert; `RefillCount`,
`RefillInsert`; `RotateBegin`, `RotateLock` (the update of the active rows, whose
locks it takes), `RotateCommit`; `BundleDevices`, `BundlePrekeys`, `BundleConsume`;
`ProfileCheck`, `ProfileUpdate`; `PushRead`, `PushSend`, `PushClear`. The upsert of a
rotation, which sets `createdAt`, and its commit are one step: rotations that overlap
are taken to commit in the order of their upserts, and "rotated last" means last by
that order.

**Backups.** `PutFind`, `PutVerify`, `PutUpsert`, `PutCleanup` are putCurrent;
`CleanupDelete` and `CleanupGivesUp` the job. `returned` are keys that were put
again after another had replaced them, `leaked` those whose deletion was lost.

**Presence.** One device. `CheckTicket` and `ConsumeTicket` are consumeSocketTicket,
`Register`, `PruneStaleSockets`, `Settle` setDeviceSocket, `Disconnect` and `Remove`
handleDisconnect; `HandleUserKicked` and `KickLost` the channel; `OnMessageCreated`
and the push job `ReadDevice`, `FilterOnlineDevices`, `Send`. Socket ids and tickets
that nothing refers to any more are used again, so that the number of connections
is not bounded, and neither is that of messages, which come one after another. The
clock moves while no Redis command is in flight. Single commands fail in
`RegisterFails` (the id is not added, has no key, `keyless`, or the set gets no expiry,
`lasting`; the connection goes on to prune), in `PruneFails` (an EXISTS that failed
reads as "no key" and the id of an open socket is removed; an SREM that failed leaves a
stale one), in `RemoveFails` and in `FilterFails` (the device counts as offline and is
pushed to); `RegisterRejected` is a registration without a connection, and a filter
without one pushes nothing. `unlisted` are the open sockets that such a failure left
out of the set.

**Reactions.** One group message. toggle and remove as find, write, and invalidate
with the enqueue that follows (`InvalidateCounts`); getAggregated as a reader that fills the cache (`GetCached`,
`CountReactions`, `FillCounts`); addMembers and removeMember with the invalidation
that nobody awaits (`DropList`); the event job and the gateway's other events,
which fill the member list (`EventCached`, `EventMembers`, `FillList`). A stalled
job runs again (`EventAgain`). The client is the one that
`docs/mobile-api-integration.md:724` describes, of a user who gets all events: `shown`
has a number for each emoji, one up with each `reaction.new` and one down with each
`reaction.removed` (`removals` are the requests whose event is of the second kind).
`miscounted` are the emojis that had a change which no event tells, or an event that
was lost or came twice; they are not counted any further.

**Composition.** Three MC modules join two components that belong to one service
but share no row. A variable `part` chooses which of them moves in a behaviour, so
the states add up instead of multiplying. MCSessions joins the code and the
session halves of verifyOtp, MCModeration sanctions and reports, MCAccounts a
user's devices and backup.

**MessageLog** is what both send paths promise to clients. `ThreadLog`/`GroupLog`
map the stored rows, ordered by their numbers, to the abstract log, and
`ImplementsMessageLog == Log!Spec` is checked as a property.

## 4. Runs

All constants not named below have the value in the cfg file. Deadlock is not
checked: when all requests of a behaviour have ended, the system rests.

| Run | Instance | Shows |
| --- | --- | --- |
| `direct_send_race` | 3 requests from {ana→bek k1, ana→bek k2, ana→cem k1}; crash and abort anywhere | idempotent keys, gapless numbers, agreement of all answers of a key, errors store nothing, visibility in order, refinement of MessageLog, every request ends, every stored message is announced unless its server died |
| `direct_send_bodies` | 3 requests in both directions of a thread and to another one, one attachment offered to both threads, a reply and a reply to it, a second device of bek that comes and goes | an attachment belongs to one message, a retry shows what the message holds, replies are flat |
| `group_send_race` | 3 requests of two members, one attachment offered to 2 groups, a reply and a reply to it, crashes and aborts | the same for max+1 numbering |
| `group_send_fanout` | 2 requests, a member and a device that change, crash, refused job, failing job, 2 attempts | whoever is told of a message has an envelope; a job that is not given up reaches every steady device |
| `unread_drift` | 2 messages, 2 devices, 2 acknowledgements of either kind, 1 mark-all-read, all faults, 2 attempts | a counter that is wrong is explained by one of five events, or a correction is pending |
| `message_edit_first` (violation) | 2 edits of one message | the first edit is answered with success and not applied |
| `media_storage` | an attachment, 2 forwards, deletions and tombstones in any order, all faults | a live attachment is lost only by one of three races; one that was never forwarded is reclaimed |
| `moderation` | 2 suspensions, 1 revocation, 1 login, 1 message, the job, 1 failure anywhere; or 3 requests of any kind about the reports of 2 users on 2 messages, one of them older than the day | a suspended user has a suspension to revoke, the audit log is complete, no strike is lost, sessions end, lapsed suspensions are lifted; limits hold, and only overlapping or lost requests reopen a report, leave it undecided or make the log wrong |
| `sessions` | a login, 3 refreshes, 4 tokens, 2 suspensions that commit or roll back some time after they revoked, logouts, pruning; or 2 codes and 2 verifies, with and without an account under the old hash | a login forks only by a retry in the grace window, a swept family ends but for a refresh that overlaps the sweep, a suspended user has no session but one inserted after the revocation by a request that saw no suspension; a code is used once, guesses are limited, one account per phone |
| `accounts` | 4 requests of any kind, 2 devices, limits of 1, 2 key numbers, 2 users and two spellings of a name, 2 push tokens; or 3 puts of 3 backups | each limit is passed only by overlapping requests or a reactivation; a prekey goes out once; the newest signed prekey is served; names are distinct; a new push token survives; the current backup is stored and replaced ones are reclaimed but for named cases |
| `presence` | 2 sockets and 2 tickets at a time, any number one after another; every command fails on its own, crashes, a kick, expiry after 1 and 2 ticks; messages one after another | presence is wrong only for a named reason and not for longer than a key and a set live; a kicked user stays out but for a connection that overlapped; who is left out of a push had a socket |
| `reactions` | 4 requests and their jobs, 2 users, 2 emojis, a group of 1 or 2 members | caches are wrong only after a fill that overlapped a change or a lost invalidation; a client that counts the events of an emoji ends with the stored number, unless it was replaced or an event was lost or repeated |

The invariants of a part that are of one kind are conjoined, and the run checks the
conjunction; the parts keep their names and their comments.

| Invariant | Parts |
| --- | --- |
| `DirectInv`, `GroupInv`, `SuspensionInv` | the inductive invariants of section 5. They imply `TypeOK`, `OneMessagePerKey`, `GaplessSequence`, `RepliesAgree`, `FailedStoredNothing` and `MediaBoundOnce` of the send paths, and `SuspendedHasRow`, `ChangesAreAudited`, `StrikesAreCounted` and `OnlyRacingSessionsSurvive` of sanctions, each by a theorem |
| `BackupInv` | `BackupTypeOK`, `BackupIsStored`; `ReadInv`, `ReturnInv` |
| `UnreadInv` | `UnreadTypeOK`, `DriftIsExplained`; `FoundInv` |
| `MediaStorageInv` | `TypeOK`, `OnlyRacesLoseMedia`; `BoundInv`, `DecisionInv` |
| `ReportInv` | `ReportTypeOK`, `FiledWithinLimits`; `LimitInv`, `AboutInv` |
| `RefreshInv` | `TypeOK`, `NoForkWithoutRetry`; `GivenInv`, `ForkInv`, `SweepInv`, `BanInv` |
| `OtpInv` | `OtpTypeOK`, `OneAccountPerPhone`, `CodeUsedOnce`; `RowsInv`, `SoleInv`, `PhoneInv`, `AttemptInv` |
| `AccountInv` | `TypeOK`, `DeviceLimit`, `PrekeyLimit`, `OneSignedPrekey`, `UsernamesDistinct`; `RequestInv`, `FirstInv`, `CheckedInv`, `StampInv`, `RowInv` |
| `PresenceInv` | `TypeOK`, `PresenceIsExplained`, `OpenIsPresent`; `StepInv`, `AgeInv`, `KickInv`, `ReachInv` |
| `ReactionInv` | `TypeOK`, `CountsAreExplained`, `ListIsExplained`; `HeldInv`, `CountInv` |

The parts before the semicolon are what the code promises; those after it make the
conjunction inductive, and TLC checks them with it.

**Why the bounds are enough.** The arbiters are a unique index, a row lock or a
jobId, all of which decide between two parties; two parties in conflict and a
third that observes or retries reach every outcome. Three requests therefore
cover "first, concurrent retry, other message", and two threads (or groups) cover
what no lock orders. Two attempts cover a retry and an exhaustion. Two forwards
give a chain and a fork. Limits of 1 are passed by the second request. In
`sessions` a third refresh is the one that presents a token again, the clock
has a tick inside the grace window, one after it and one after the expiry, and the
second suspension meets what the first left behind. One login is enough there: a
family is only touched by its own tokens' requests, and what touches all families, a
suspension and the daily job, treats them alike. In
`reports` a review, a dismissal and a tombstone meet on a report that was there
before. In `reactions` a writer, a reader that fills, an event and one more change
meet. The proofs remove the bounds for every safety property of a passing run: they
hold for any numbers of requests, users, rows, keys, retries and failures. Two
bounds stay in the modules, as bounds of the state and not of the argument: the
clocks of Sessions and Otp stop at `MaxTime` and `OtpMaxTime`, any numbers, and
tokens are numbered up to `MaxTokens`, any number.

**Fairness.** `FairSpec` says that a handler that has started goes on
(`WF(ServerStep(r))`), that BullMQ's worker processes a waiting job and goes on
with an active one, and that the daily job runs again and again: Node's event
loop, the worker and the scheduler give exactly that. Nobody is obliged to send,
acknowledge, delete or suspend, and no failure is fair, so nothing relies on one
happening or not happening for ever. Properties that need a failure not to happen
say so in their statement.

### Known disagreements

One is a run, `message_edit_first`, and a finding. *First edit* (code bug):
`lastEditIdempotencyKey: { not: key }` compiles to `<>`, which is not true of NULL.
The comment above it intends "different or null". Group edits have the same
condition.

The others follow from what the properties leave out; the exception in the
property is the place where the code departs from what is written:

* *Lost fan-out* (`FanoutCompletes`): a retry that finds the row of a group message
  never adds the job, so a crash between commit and `fanoutQueue.add`
  (`groups.service.ts:211`) leaves an accepted message without envelopes.
  `docs/architecture.md:150` draws the flow in which the processor always follows.
* *Ignored recalculation* (`DriftIsExplained`): the job holds its jobId while
  active, so a request after its COUNT is dropped.
  `docs/plans/unread-counter-recalculation.md:103` says that "BullMQ deduplicates by
  jobId when job is in `waiting` state".
* *Leaked object* (`ReclaimedUnlessForwarded`): rows of tombstoned messages count as
  references, so the object of a forwarded message is never reclaimed.
  `docs/plans/message-media-attachments.md:16` says "on `FOR_EVERYONE` delete,
  enqueue `storage-cleanup` per `bucketKey`".
* *Status against history* (`SuspendedHasRow` has no converse): two concurrent
  suspensions leave two rows, and lifting one activates the user.
  `docs/security-model.md:251` calls `UserSuspension` "the source-of-truth history".
* *Reopened report* (`ClosedStaysClosed`): markInReview overwrites a status that a
  dismissal or a tombstone closed after it was read. `docs/architecture.md:241` gives
  the status machine `OPEN -> IN_REVIEW -> CLOSED`.
* *Expired refresh token*: `Claim` looks at `revokedAt` only, so a token past its
  `expiresAt` that the daily job has not deleted yet is still exchanged
  (`docs/api-reference.md:154`), and the grace window opens after a logout or a
  sweep as well as after a rotation.
* *Tickets*: two connections that overlap both pass with one ticket;
  `docs/api-reference.md:1155` says "Single-use only".
* *Device limit* (`DeviceLimit`): it is not checked when a device is activated again
  (`devices.service.ts:28`), and two registrations at once both pass the count.
  `docs/security-model.md:321` says "Maximum **3 active devices** per user",
  `docs/api-reference.md:223` and `README.md:46` say the same.
* *Counting reactions* (`EventsConverge`): an emoji that another one replaces is
  announced by `reaction.created` of the new one only (`reactions.service.ts:37`), and a
  repeated event is counted again. `docs/mobile-api-integration.md:724` has clients
  "increment local count for that emoji" and decrement it on `reaction.removed`: such a
  client keeps counting the replaced emoji until it reads the counts again.
* *Sessions after a suspension* (`SuspendedHasNoSession`): a token inserted between the
  revocation and the commit of suspendUser (`moderation.service.ts:204`), or after the
  commit by a request that had checked before, stays.
  `docs/security-model.md:253` says that "all unexpired `RefreshToken`s are revoked".
* *Presence after a failed command* (`OpenIsPresent`): pruneStaleSockets drops the error
  of an EXISTS (`redis.service.ts:111`) and removes the ids of open sockets, whose
  device is then pushed to as if it were offline.
* *Push during Redis errors* (`FilterFails`): a failed SCARD counts the device as
  offline (`redis.service.ts:78`). The comment at
  `push-notification.processor.ts:234` says "if the Redis presence check fails, return an
  empty list (assume online, skip push)", which happens only when the call throws.
* *Old backups* (`ReplacedIsReclaimed`, `BackupIsStored`): of two puts at once one
  replaced object is never deleted, and a key that is put again after it was
  replaced loses its object. `docs/api-reference.md:1240` says "Old backup deleted
  from R2 after new upload".

Other behaviour the models exhibit, which the repository makes no claim about:
two sends that offer one attachment are both accepted and one is stored without
it; the first answer of a send lists no media; concurrent group sends can be
rejected although nothing is wrong with them; a DELIVERED receipt processed after
READ makes a message unread again; mark-all-read may be overwritten by a job that
had counted before it; a forward, a reversed tombstone or a completed upload can
meet an object whose deletion was already decided; the audit entry of an
unsuspension whose transaction rolled back remains; names that differ in case only
can be taken at once; the only admin of a group may leave it without one; a socket that stays open
longer than its key is taken for absent at the device's next connection.

## 5. Proofs

Proved by TLAPS, for every value of the constants that satisfies the assumptions
below. A name in parentheses is the property that a run checks and the theorem
states.

* **DirectSendProofs**: TypeCorrect, Invariant (`DirectInv`), KeysAreIdempotent,
  SequencesAreGapless, RetriesAgree, ErrorsStoreNothing, MediaIsExclusive
  (`MediaBoundOnce`), VisibilityIsOrdered (`VisibleInOrder`), RepliesStayFlat
  (`RepliesAreFlat`), RetriesShowStored (`RetryShowsStored`), Refinement
  (`ImplementsMessageLog`).
* **GroupSendProofs**: TypeCorrect, Invariant (`GroupInv`), KeysAreIdempotent,
  SequencesAreGapless, RetriesAgree, MediaIsExclusive, AnnouncementsAreBacked
  (`AnnouncedIsStored`), VisibilityIsOrdered (`VisibleInOrder`), RepliesStayFlat
  (`RepliesAreFlat`), Refinement (`ImplementsMessageLog`).
* **ModerationProofs**: SuspensionInvariant (`SuspensionInv`), TypeCorrect,
  SuspendedIsRevocable, AuditIsComplete, NoStrikeIsLost, SessionsEnd;
  ReportInvariant (`ReportInv`), ClosedDoStayClosed (`ClosedStaysClosed`),
  TombstonedAreDecided (`TombstonedIsDecided`), LogDoesTellStatus
  (`LogTellsStatus`).
* **SessionsProofs**: RefreshInvariant (`RefreshInv`), SweptFamiliesDoEnd
  (`SweptFamiliesEnd`), SuspendedHaveNoSession (`SuspendedHasNoSession`);
  OtpInvariant (`OtpInv`), GuessesDoStayLimited (`GuessesAreLimited`).
* **AccountsProofs**: Invariant (`AccountInv`), HandedOnce (`PrekeyHandedOnce`),
  ServesLatest (`ServesLatestRotation`), TokensSurvive (`NewTokenSurvives`).
* **StorageProofs**: BackupInvariant (`BackupInv`), ReplacedAreReclaimed
  (`ReplacedIsReclaimed`); MediaInvariant (`MediaStorageInv`).
* **PresenceProofs**: Invariant (`PresenceInv`), KickedDoStayOut
  (`KickedStayOut`), GhostsDoExpire (`GhostsExpire`), LeftOutAreReached
  (`LeftOutIsReached`).
* **ClientViewProofs**: UnreadInvariant (`UnreadInv`); ReactionInvariant
  (`ReactionInv`), EventsDoConverge (`EventsConverge`).

### Assumptions

The constants are typed, the kinds of actors of a module are disjoint, a value that
stands for absence (`None`, `NoUser`, `NoBlob`, `NoStatus`) is not a value that can
be present, and what is counted is finite: the requests of a user or on a message,
its users, devices and key numbers, the messages of a thread. Limits and lifetimes are natural numbers, and
only a few have to be more: `MaxAttempts` of a job and `MaxSends` at least 1, as in
the queues' options, `MaxActiveDevices` at least 1, and `0 < KeyTtl <= SetTtl`, as in
`redis.service.ts`. Each module states its own (`DirectSendAssumption`, ...), and TLC
evaluates them in every run. One theorem has a hypothesis of its own, the group
refinement (see there).

### The arguments

*Direct sends.* The properties are not inductive: that two rows never share a
number depends on what open transactions are about to commit. `DirectSend!DirectInv`
adds `LockInv` (a transaction past the increment holds its thread's row lock, and
its number is `latestSequence + 1` of the committed state), `KeyInv` (past the
insert it is the only open or stored holder of its key), `StoredInv` (rows are
numbered within their thread and every number has its row), `MediaInv` (bound
attachments of committed and committing rows are disjoint) and `ReplyInv` (an
answer names a committed row of the request's own key). The lock gives mutual
exclusion per thread, hence the numbers of one thread are handed out one commit at a
time, which gives gapless numbering and visibility in order.

*Group sends.* There is no lock, so the invariant is weaker while a transaction is
open: `OpenInv` says a computed number is between 1 and last+1, `ClashInv` that
past the insert nobody, stored or open, has the same place or key. When it
commits, a number at most last must clash; hence it is last+1. The fan-out part
(`FanoutInv`, `AnnouncedIsStored`) says that the devices a job is about to tell
have their envelopes.

*Refinement.* A thread's log is the function from the numbers to the rows that have
them (`ThreadLog`, `GroupLog`). The step that makes a row visible is the commit: it
maps to `AppendMessage`, and by gaplessness and the numbering argument the new row's number
is the length of the log plus one, so the mapped log is extended at its end and
nowhere else. Answers map to `Answer` or `Fail`, and the invariant says that a failed
request has nothing in the log; everything else stutters. For groups the theorem
assumes that no enqueue is refused (`"redis" \notin Faults`, the setting of the run
that checks it): a refused `fanoutQueue.add` answers a request with an error after
its commit, which MessageLog does not allow a request to do.

*Suspensions.* `RowInv` ties every suspension row to how far its request is,
`PickInv` says that what an unsuspension or the job has picked was committed and,
for an unsuspension about to commit, that its audit entry is written, and
`SessionInv` that an open suspension will revoke every live session that is not
in its login's window. Whoever revokes a row also sets the status to ACTIVE in
the same transaction, which is why `SuspendedHasRow` survives a picked row that
someone else revoked first.

*Reports.* The limits are counters that are incremented before the row is inserted,
so what is filed is not what was counted. `LimitInv` adds the requests that have
passed both counters and not inserted yet to the filed reports: the sum is at most the
limit and at most the counter. `AboutInv` says what a request under way may rely on:
what it read still holds, or the report is in `raced` or `late`.

*Sessions.* A family does not fork because the rights to a session are conserved.
`ForkInv` counts the live sessions of a login together with the refreshes that have
claimed one and not yet inserted its successor, and with the login's own insert: a
claim trades a session for a right, an insert trades it back, and only a retry in the
grace window adds one. `SweepInv` says of a sweep that nobody is about to insert
either, or the family is in `escaped`. `BanInv` has a part for each end of the
transaction: while it is open every session that others see as live is one it has
revoked, or was inserted since and is marked in `escaped`; once it has committed nobody
is about to insert, or that is marked.

*One-time codes.* `PhoneInv` says that an account found under the old hash is still
under one hash or the other, and that nobody inserts while it is under the old one.
The limit of guesses is the delicate part, since `attempts` is overwritten with a value
that was read before. `AttemptInv` says that the column of a row is never below the
number of guesses of verifies that began alone: what a verify has read is at most one
guess behind, and not behind at all while the one that began alone has yet to record
its own; and while there is such a one, the guesses of the window are below
`MaxAttempts`. That it began below it is a fact about sums: `AttemptsBoundGuesses`
numbers the guesses of every row and maps each to the pair of its row and its number,
an injection into the pairs that `TotalAttempts` counts.

*Devices, keys and names.* All limits are checks followed by a write. `FirstInv` says
that of the requests between the check and the write of the same rows one is not
late, and `CheckedInv` that what this one has checked still holds. `StampInv` orders
the signed prekeys: written ones have distinct stamps and the last written of a
device the greatest, which is the one a bundle serves.

*Backups.* That the current backup is stored depends on which keys the job may
delete, and those were read long before. `ReadInv` says that a key some put has read
is the row's or was replaced since, and that only replaced keys are queued for
deletion; `ReturnInv` that a replaced key is the row's only if it was put again, and
that a key that was verified is gone only if it was replaced. So the job never takes
the row's object but in the case the property names. `ReplacedIsReclaimed` is then
inductive on top of `BackupInv`.

*Media.* `DecisionInv` is about decisions: as long as none was overtaken, a deletion of
the object is decided only when no message that refers to it is live, and no message
comes to live afterwards; only a decided deletion, or the sweep of an upload that is
not complete, removes the object. `BoundInv` ties rows, forwards and clean-ups.

*Presence.* `StepInv` ties what Redis has of a socket to how far its handlers are, the
sockets with a failed command in `unlisted` aside. `AgeInv` bounds ghosts: ids are no
younger than the set, and since every connection prunes ids whose key has expired
unless a command fails (`unpruned`), an id is at most a key's lifetime older than the
set. `KickInv` and `ReachInv` carry the other two properties over the awaits between
the check and the join, and between the announcement and the wake-up.

*Unread counters.* `DriftIsExplained` is stated of the value that the counter will
have once the job's write lands, so that it covers the time between COUNT and write:
it is the number of unread messages, or a correction is on its way (`Correcting`), or
one of the five events happened.

*Reactions.* `HeldInv` says that a fill is about to write what the table holds, or was
overtaken by a change and is known to be. `CountInv` is an equation per emoji: what the
client shows, plus the creations and minus the removals whose events are under way, is
the number of those who chose it. A write that the events tell adds to both sides, an
event moves one from the one term to the other, whatever the order, and every other
change of an emoji is in `miscounted`.

Each proof has one step per action of the next-state relation, and lemmas for what
the small operators (`Goto`, `Proceed`, `Revoke`, ...) change and leave alone; steps
that change little share a lemma (`QuietStep`, `MediaStays`, `SessionsStay`), and the
temporal step combines the initial and the inductive step with `PTL`.

**Only model-checked**: the liveness properties (`RequestsEnd`, `StoredIsAnnounced`,
`FanoutCompletes`, `ReclaimedUnlessForwarded`, `LapsedIsRevoked`; liveness under
fairness is out of the prover's reach), the refinement of MessageLog by group sends
whose job is refused (it does not hold there), and MessageEdit, whose one run shows
a disagreement.

## 6. Not modelled, and why

* Role changes, strike resets and the promotion of administrators at start: one
  update and one audit entry each, against the same races as Suspension.
* The fan-out of group edits: no edit reaches it.
* Queries (thread lists, sync and pending messages, analytics, moderation lists,
  contacts): no state of
  their own.
* The dialogue of the Telegram bot, SMS providers and FCM itself: calls of external
  services, modelled by their success or failure.
* `OTP_MOCK_CODE`, which production refuses; the silent pushes of edits and
  deletions, which have the shape of the others; a user's own socket set and the
  collusion counter, which nothing reads; reaction events of direct threads, which
  need no member list.
* Encryption and the content of messages: opaque to the server.
* Validation of DTO shapes, HTTP throttling, MIME and size rules, logging, HTTP
  errors' wording: they decide whether a handler runs, not what it does.
* Database failover and Redis data loss: the code relies on both being durable.
