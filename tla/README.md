# TAK Team Manager in TLA+

A verification project kept beside the source in `src/`.  It models the parts
of TAK Team Manager whose correctness depends on the order in which things
happen: the durable operation queue, the reconciliation of Authentik groups,
the transactions that move users between teams, the life of accounts, channels,
devices and requests, and the jobs that repeat.  Every definition is translated from
the code; paths below are relative to `src/`.

| module | what it is |
| --- | --- |
| `SyncQueue` | the rows of `sync_operations` and the Sync_Worker processes that claim, run and mark them |
| `SyncQueueProofs` | its inductive invariant and eight theorems |
| `OwnedGroupReconcile` | publishers, coalesced reconcile rows, workers that replace a group's member list, the sweep |
| `GroupProofs` | the inductive invariants of `OwnedGroupReconcile` and its four theorems; those of `ChannelAccess`, `CloudTakGroups` and `CustomChannels`, each an instance of its own |
| `TeamMembership` | addUserToTeam, removeUserFromTeam and executeTransfer as concurrent PostgreSQL transactions |
| `TeamHomes` | what those three promise together; `TeamMembership` is shown to implement it |
| `TeamMembershipProofs` | the rows of a user, the refinement and the channels, three theorems |
| `AccountLifecycle` | suspension, the paginated Authentik sync, External_Lock and External_Unlock, the Reconciliation_Sweep |
| `AccountLifecycleProofs` | its inductive invariants and three theorems |
| `DeviceInventory` | `tak_devices` and its writers: device sync, connection poller, certificate revocations; job locks |
| `DeviceInventoryProofs` | its inductive invariant and two theorems |
| `GlobalChannels` | region channels, their Authentik groups, the queued operations, the periodic repair, the import |
| `ServiceAccounts` | the service account of a BCH channel: provision, rotate, delete |
| `AccessRequests` | one person's sign-ups, approvals, denials, the account an approval makes, cleanup and sync |
| `CircuitBreaker` | one breaker and the calls that pass through it |
| `CallsignEpisodes` | one client's callsign, the latch of an episode, the polls and the notice |
| `CertExpiry` | the tiers of one expiring certificate, the runs that notify and resolve them |
| `TeamChannels` | the primary channel of every team and its Authentik group: create, rename, delete, the operations, the periodic description repair |
| `CustomChannels` | the custom channels of one team, the limit, a group per permission, members by queued operations |
| `CloudTakGroups` | one team's CloudTAK agency group: its name, its administrators, its deletion |
| `ChannelAccess` | one user's broadcast and region groups: tier flags, moves, assignments, resyncs |
| `RateLimiter` | one lane of the Authentik rate limiter: the bucket row and the statement that refills and consumes |
| `TeamDevices` | the devices of one team: creation with its compensations, edit, deletion, the deletion of the team |
| `ConnectionPool` | the web process's connections: plain queries, transactions that ask the pool again |
| `TeamTree` | the tree of teams: creation, change, reparenting, deletion; names, colours, depth |
| `ImportGraph` | the import of teams from a file: keys, cycles, the order of creation, rows that fail |
| `TeamScopes` | who administers, sees and lists whom: six ways the code asks the tree and the membership rows |
| `TransferRequests` | transfers between what is judged and what is written: at once, by request, by an addition |
| `TransferRequestsProofs` | what a session knows of what it judged, and the theorem about who is moved |
| `ComponentProofs` | the inductive invariants of `RateLimiter`, `CircuitBreaker`, `CallsignEpisodes`, `CertExpiry`, `TeamChannels`, `ConnectionPool`, `AccessRequests`, `TeamDevices` and `ServiceAccounts`, each an instance of its own, and the theorems of `MCIndependentLive` |
| `IndependentProofs` | carries what is proved of the components of `MCIndependentSafe` over to its specification, ten theorems |
| `MC*` | constants of the instances TLC checks; `MCIndependentSafe` and `MCIndependentLive` check components that share nothing, one per behaviour, in one run |

Run a module with `tlc -config SyncQueueSafety.cfg MCSyncQueue.tla`; check its
proofs with `tlapm SyncQueueProofs.tla`.

## 1. The system

TAK Team Manager administers the users, teams and channels of a TAK (Team
Awareness Kit) deployment.  Identities live in Authentik, certificates and
connections in a TAK server, everything else in one PostgreSQL database.

Two kinds of process share the database:

* the **web API** (`server/index.js`): Express routes and, on timers in the
  same process, the periodic Authentik sync (`authentikSync.startPeriodicSync`)
  and request escalation (`EscalationService`).  `cdk/cdk.json` runs two web
  tasks in production, one in development, so the timers of two processes may
  run at the same time.
* the **Sync_Worker** (`server/workers/syncWorker.js`): the consumer of
  `sync_operations`, plus timers for retention, daily statistics, the owned
  group sweep, certificate expiry notices, the admin credential, the
  subscription poller, the device sync and the callsign poller.  Production
  runs two tasks; the timers use a session advisory lock per job
  (`server/utils/jobLock.js`), the queue uses `FOR UPDATE SKIP LOCKED`.

They interact in four ways: rows of `sync_operations` that a web request
publishes inside its own transaction and a worker runs later; ordinary tables
that both read and write; HTTP calls to Authentik and the TAK server, which
are in no transaction; and Authentik's own console, where operators change
accounts and groups without the system knowing.

### Inventory

| component | state it keeps | operations | what is hard about it | what makes it correct |
| --- | --- | --- | --- | --- |
| Operation queue and worker (`workers/syncWorker.js`, `entityGrouping.js`, `backoff.js`, `failureClassification.js`, `config/syncOperationPriority.js`, `EventPublisher.js`) | `sync_operations`: status, retry_count, next_retry_at, priority, created_at; the batch in memory | publish, coalesced publish, claim, run, complete, retry, fail for good, drain, restart | two workers on one table; a crash or a failed UPDATE between claim and outcome; the unique index on pending reconciles; order within an entity | one owner per row; nothing stuck unaccounted; a bounded number of attempts; outcomes final; every operation settles; urgent first |
| Owned group reconciliation (`OwnedGroupReconciler.js`, `OwnedGroupReconcileEnqueuer.js`, `OwnedGroupSweepJob.js`) | the Authentik member lists of team, broadcast and region groups | compute desired members, keep ignored accounts, PATCH the full list, sweep | the read and the PATCH are apart; coalescing onto a row that may be claimed; late PATCHes; index waits between publishers | groups converge to the database; ignored accounts untouched; publishers never hang |
| Team membership and transfer (`TeamMembershipService.js`, `TeamTransferService.js`, `CallsignSuffixUniquenessService.js`, `routes/users.js`) | `team_memberships`, `channel_memberships`, published operations | add, remove, transfer | overlapping transactions at READ COMMITTED; checks outside the transaction; the order of queued operations | a user's rows are one team's chain; channels and groups follow; every success is atomic; no deadlock; removal revokes |
| Account lifecycle and Authentik sync (`AccountLifecycleService.js`, `authentikSync.js`) | `users.account_status`, Authentik's `is_active`, queued revocations | suspend, unsuspend, fetch, lock/unlock detection, push, sweep | a PATCH after the commit that may fail; decisions from a fetched list that is old; pages that shift; statements without a transaction | statuses follow the last deliberate act; whoever is cut off loses the certificates; both sides come to agree |
| Authentik rate limiter (`authentikRateLimiter.js`, `tokenBucket.js`) | `authentik_rate_limit` buckets | acquire, wait, give up after 30 s | one bucket for all processes, one UPDATE statement | no more than capacity plus refill is granted |
| Circuit breaker (`utils/circuitBreaker.js`) | state, failure count, probe flag, in memory | call, open, half-open probe, close | answers that arrive after the state changed | one probe at a time; closes only after success |
| Access requests (`RequestApprovalService.js`, `EscalationService.js`, `SignupFlowService.js`, ...) | `access_requests`, signup tokens, half-made Authentik accounts | submit, approve, deny, escalate, expire | approve, deny and expire racing; an account made before the transaction | one outcome per request; no account without a row |
| Device inventory (`DeviceSync.js`, `SubscriptionPoller.js`, `TakCertificateRevocationService.js`, the worker's `revokeTakCertificates`) | `tak_devices` | sync, poll, revoke, mark revoked | four writers, one stale list each | a revoked certificate is shown as revoked, a live one is not |
| Callsign poller (`CallsignPoller.js`) | episodes of mismatch | poll, confirm, notify, clear | two consecutive polls; send before record | one notice per episode |
| Certificate expiry notices (`CertExpiryNotificationService.js`) | notified tiers | tier, backlog, resolve | repeated runs over failures of delivery | no tier lost, none sent twice |
| Job locks and periodic jobs (`utils/jobLock.js`, ...) | session advisory locks | run under lock | locks on pooled sessions | one runner per job |
| Team tree and channels (`models/Team.js`, `models/Channel.js`) | `teams.parent_team_id`, names, colours, channels | create, rename, recolour, reparent, delete | checks before the write, inherited values that are copies, moves without checks | names apart, colours follow, depth bounded; channels have their groups |
| Global and region channels, CloudTAK groups (`GlobalChannelService.js`, ...) | assignments, group ids | create, assign, delete, resync | swallowed failures, creation that is not idempotent | assignments follow the tables |
| Provisioning, bulk import, identifiers | users, import progress, managed identifiers | create, compensate, import | half-made accounts, unique names under concurrency | no orphaned account, unique identifiers |
| Device enrolment | devices and tokens | enrol | mostly calls to Authentik | an enrolment belongs to one owner |
| Authentication and authorisation (`authorize.js`, `TeamVisibilityService.js`, `DirectoryScopeService.js`, `models/Team.js`) | none of its own; the tree and the membership rows | may administer, may see, lists, is managed | one question answered by different queries, from the tree or from copies of it; judged before a transaction | the answers agree; whoever moves a person was allowed to |
| Routes, rate limits, captcha, settings, e-mail, maps | single rows, counters | requests | check-then-count | limits hold |
| Web client, `cdk`, scripts | none the server relies on | | | |

`PROJECT.json` lists every component with its files and its state of
modelling, and under `hazards` what in the code is hard to test, at its line,
with the properties that would catch it.

## 2. SyncQueue

**State.** `row[r]` is the committed row of `sync_operations`; `due` stands
for `next_retry_at <= NOW()`.  Per worker: `pc` (its place in the loop of
`start`), `stopping` (`isRunning` cleared), `locked` (rows held
`FOR UPDATE` by its open claim transaction), `batch` (the fetched rows in
order), `job[w][r]` (how far operation `r` is: waiting, running, one of three
marking functions, done).  `attempts` and `stranded` are history; `faults`
is a bound.

**Actions.**

| code | actions |
| --- | --- |
| `EventPublisher.publishOperation`, `publishReconcileOwnedGroup` | `Publish` |
| `processNextOperation`: select, mark, commit, and its error paths | `BeginClaim`, `CommitClaim`, `AbortClaim`, `CommitClaimUnacknowledged` |
| `groupByEntityKey`, `p-limit`, `executeOperation` | `Execute` (with `MayStart`), `Return` |
| `markOperationCompleted`, `handleOperationError`, `markPermanentlyFailed` | `MarkApplied`, `MarkError`, `MarkUnacknowledged`, `MarkConflict` |
| end of a cycle | `FinishBatch` |
| signals, drain, process death, ECS | `BeginStop`, `Drained`, `DrainTimeout`, `Crash`, `Restart` |

What a handler does outside is its outcome: success, a retryable error or a
permanent one.  Priorities are a tier per type; payloads are records of type,
user and group, as much as the lanes and the index tell apart.

**Runs.**

| run | instance | shows |
| --- | --- | --- |
| `sync_queue_safety` | two workers, two rows of four kinds (malformed, coalesced, two of one entity), batch 2, two faults | no row has two workers; every `processing` row is held or was stranded by a fault; without a fault only superseded reconciles are stranded; lanes are sequential; outcomes are final |
| `sync_queue_liveness` | two workers, batch 1, one fault | urgent rows are claimed first; every operation settles or is stranded |

Two rows are enough for what the properties relate: two operations of one
lane, two of different tiers, two reconciles of one group, one row and its
duplicate owner.  Two workers are what production runs.  Two faults let a lost
reply follow a crash.  `MaxRetries = 3` over a cap of 2 exercises the minimum
of both.  `DbAttempts` is 2 instead of 3.

**Fairness.** Weak fairness on a worker's own steps as one disjunction (its
loop goes on: `start` catches every error), on restart (ECS replaces a stopped
task) and on time.  Publishing, faults and signals are never forced.

**Assumption to know of.** A row put back to pending becomes due only when
no worker still tries to write its outcome: the shortest backoff is 120 s, a
marking function gives up after about 3 s.  Without that gap the unconditional
UPDATE by id could overwrite the row of its next owner.

## 3. OwnedGroupReconcile

The queue is `SyncQueue`'s; here a row is "pending for group g" or held by a
worker.  `desired[g]` is what the committed tables say, `group[g]` what
Authentik has; `request[p]` and `mine[p]` are the open transactions of
publishers with the groups still to enqueue and the uncommitted rows they
inserted; `work[w]` is a reconcile under way, `late` holds the member lists of
PATCHes that timed out and may still be applied.  `missed`, `overtaken` and
`lost` record why a group may be behind and are cleared when a reconcile reads
the group; `edited` records an operator's edit made while a list fetched before
was still to be written.

| code | actions |
| --- | --- |
| a membership change and its enqueued reconciles | `Begin`, `PublishNext`, `Commit`, `Rollback`, `DeadlockVictim` |
| `reconcileOwnedGroup`: claim, `desiredTeamChannelMembers`, `preserveIgnoredMembers`, `replaceGroupMembers` | `Claim`, `ReadDesired`, `FetchPreserved`, `Patch` |
| its failures | `FailRetryable`, `PatchTimesOut`, `PutBack`, `FailForGood`, `LatePatch` |
| `OwnedGroupSweepJob` | `SweepEnqueue` |
| Authentik's console | `OperatorEdits` |

`PublishNext` waits while another open transaction holds the uncommitted row
of the same group, as an INSERT into a unique index does; additions enqueue
child before parent, removals in the order of a join, so two transactions may
wait for each other and PostgreSQL aborts one (`DeadlockVictim`).

| run | instance | shows |
| --- | --- | --- |
| `owned_group_safety` | two users, one ignored account, two groups enqueued in both orders, two requests, two workers, one failure, one edit by an operator | a group with nothing left to do agrees with the database, or one of three things happened since it was last read; an ignored account leaves or enters a group only by the operator's hand, unless the edit fell between the GET of a list and its PATCH |
| `owned_group_liveness` | two users, two groups in both orders, two requests, one worker, one failure, sweep on | `SweepConverges`: every request's transaction ends, and the groups agree with the database for good |

**Fairness.** Open transactions run to their end; the deadlock detector acts;
claims are strongly fair, because rows are taken oldest first and no group's
row can be passed over for ever; a started reconcile goes on (its calls have
timeouts); the sweep's timer fires; a late PATCH is applied or dropped in the
end.  Failures, operators and new requests are not forced.  The sweep is off
by default in the code, so `SweepConverges` is a promise only of a deployment
that turns it on: without it a `missed` group stays behind until something
else enqueues it.

## 4. TeamMembership and TeamHomes

Statement by statement: a transaction's `stage` is the next statement;
`locked` the rows it deleted or locked, `inserted` the rows it will commit,
`cut` and `joined` its channel rows, `ops` what it publishes.  READ COMMITTED
is modelled where it matters: a statement that waits for a row lock keeps the
snapshot it started with (`seen`, taken by `LockWaits` and `DeleteStarts`),
skips rows that were deleted meanwhile and does not see rows that were
inserted.  The DELETE of all of a user's rows takes them one by one
(`DeleteRow`), in no order the code asks for, and holds what it has taken while
it waits.  A transfer has locked the direct row before it starts its DELETE, a
removal has not, so the two can wait for each other.  `WaitsFor` says whom a
statement waits for, `Deadlocked` is a circle of them, and `Deadlock` is what
PostgreSQL does about it: the statement of one of them fails and its transaction
rolls back.  Rows carry the request that inserted them, so a deleted and a
re-inserted row differ.  The partial unique index on direct rows makes an
INSERT wait for the outcome of another one (`DirectUndecided`) and fail on a
committed one.

A team, its primary channel and that channel's Authentik group have one name.
`CheckAdd` is the route's membership check, made before the transaction.

| run | instance | shows |
| --- | --- | --- |
| `team_membership_mixed` | one user, a branch of two teams, three requests of any kind, two at a time, per-user operations | a user's rows are always those of one team's chain; no transaction waits for ever, deadlocks included |
| `team_membership_follow` | one user, an Organisation with two teams, three requests, transfers overlap freely, additions and removals come alone, reconciled groups | channel rows and groups end where the user ends; every success acts at once (refinement of `TeamHomes`) |
| `team_membership_revoke` | one removal, violated | a removed user's certificates are not revoked |

Why the second run restricts overlap: with additions or removals that overlap,
the code does break these properties, as section 12 tells.  The restriction is
the largest set of overlaps for which they hold.  Several users do not interact
except through the suffix check (`SuffixTaken`), so one user in the instance is
enough for rows, channels and locks; the check itself is in the model and a
transfer or addition it refuses is a stutter of `TeamHomes`.

**Fairness.** `TransactionsEnd` assumes that an open transaction goes on as
long as no lock stops it, and that PostgreSQL's detector ends a deadlock (it
looks for one after `deadlock_timeout`).  Without `Deadlock` the run fails.

## 5. AccountLifecycle

`local[u]` is `account_status` (the code always writes `is_active` with it),
`ak[u]` the account in Authentik, `patches` the PATCHes of committed requests
still to be made, `revoked` the users whose certificate revocation has been
enqueued since they were last active.  `run[s]` is a web process's sync run:
the page it is at, what it fetched (`saw`), the local status it read (`read`)
and the step each user is at (`at`).  `intent`, `disturbed`, `missed` and
`lag` are history: the status the last deliberate act asked for; users acted
upon while a run or a PATCH was under way; users a fault left between two
writes that belong together; users changed in Authentik and not yet followed.

| code | actions |
| --- | --- |
| `suspendAccount`, `unsuspendAccount`, their PATCH and its failure | `Suspend`, `Unsuspend`, `Patch`, `PatchFails` |
| provisioning; Authentik's console | `Provision`; `OperatorCreates`, `OperatorSets`, `OperatorDeletes` |
| `syncUsers`: the fetch, page by page | `StartRun`, `FetchPage`, `AbandonRun`, `EndRun` |
| `syncSingleUser` | `ReadLocal`, `ExternalLock`, `LockRevokes`, `LockFails`, `ExternalUnlock`, `UnlockFails`, `Push`, `SyncFails` |
| `reconcileOrphanedAccounts` | `StartSweep`, `SweepRevoke`, `SweepMark`, `SweepFails` |

The completeness guard (the number fetched equals the number reported) and the
refusal of an empty list are in `StartSweep`; a page past the end answers 404
and ends the run; an account deleted between two pages shifts the rest
(`Place`).  `Push` also happens when only an attribute differs and then carries
`is_active` with it.

| run | instance | shows |
| --- | --- | --- |
| `account_lifecycle` | one web process, two accounts, a page each, three deliberate acts, one fault | an undisturbed account has on both sides the status it was given; nobody is cut off with certificates; the two sides come to agree |

A page of one user makes two pages of two accounts, which is what the shifting
and the counts need.  Three acts are enough for a suspension, its reversal and
a third act by somebody else; the run has also been made with two faults
(581 000 states) and, for the safety properties, with two processes (one account, three acts, two faults; two accounts,
two acts, one fault, 4.6 million states).

**Fairness.** Weak fairness on the PATCH after a commit and on each process's
sync as a whole: `setInterval` starts the next run, and inside a run every
call has a timeout.  Which user a run takes next is not constrained.
With two processes `AgreeEventually` is not claimed: if an attribute is found
different in every run, two runs can push two old values in turn for ever.  In
the model that difference is a free choice; in the code it disappears once
pushed, and the ping-pong ends with it.

## 6. DeviceInventory

`row[u]` is the row of `tak_devices`: the certificate shown, `revoked`,
`connected`.  `cert[c]` is the certificate on the TAK server, `link[r]` the
connection it reports under the uid `r`, which may be an alias of several
client uids (`Candidates`).  `sync[w]` and `poll[w]` are runs with what they
have read, `lock[j]` is the session advisory lock of a job, `op[i]` a
`revoke_tak_certificates` operation from publication to its end (`SyncQueue`
owns its retries).

| code | actions |
| --- | --- |
| the TAK server: enrolment, its console, connections | `Enrol`, `OperatorRevokes`, `Connects` |
| `withJobLock`; a lost locking session | `Takes`, `Releases`, `LosesSession` |
| `DeviceSync.run`: two views, upserts, `deleteStaleDevices`, their failures | `StartSync`, `ReadActive`, `ReadRevoked`, `Upsert`, `DeleteStale`, `SyncFails`, `UpsertFails`, `DeleteFails`, `SyncDies` |
| `SubscriptionPoller.runOnce`: fetch, freshness, `recordLastSeen`, `clearUnreportedConnections` | `StartPoll`, `Merge`, `Record`, `ClearUnreported`, `MergeSkipped`, `RecordFails`, `ClearFails`, `PollDies` |
| requests that publish a revocation | `RevokeUser`, `RevokeDevice`, `Supersede` |
| `revokeTakCertificates`: resolve, cap, DELETE, re-query, `markDevicesRevoked` | `Resolve` (nothing to do, over the cap, not armed, or the list), `Delete`, `Verify`, `Mark`, `DeletePartly`, `VerifyFails`, `MarkFails`, `Strand` |

Run `device_inventory`: a phone whose certificate is renewed, a browser
session, both connected under one alias, two overlapping runs of the sync (a
lost session lets a second one start), one poller, one revocation of any
shape, three certificates over a cap of two, one event on the TAK server, one
fault.  A worker revokes only when `DEVICE_MGMT_REVOKE_ENABLED` is `true`, which is
not the default (`config/deviceMgmt.js:47`): otherwise `revokeTakCertificates`
logs what it would revoke and completes the operation (`syncWorker.js:3554-3569`).
`RevokeEnabled` is the set of settings the workers may run under, here both, so
an operation can end as a `"dry run"`.
The run shows that a revocation finished by an armed worker has revoked whatever it was about
when it was published (`DoneMeansRevoked`; of a dry run nothing is promised), that a revoked device is never
shown connected, that a row is marked only after the re-query has confirmed the
revocation and disappears only without a valid certificate, and that rows and
connections come to agree with the TAK server (`InventoryConverges`).  The run
numbers of the syncs are interchangeable, so a new run takes the lowest free
one; one certificate at least is unissued at the start, so that an enrolment
can always fall into a run.

**Fairness.** Timers fire again and started runs and operations go on.  Faults
and requests are never forced.

`last_seen_at` and daily activity, which no decision reads, are left out.

## 7. GlobalChannels

Region channels only: BCH channels have the same operations on a table of
their own.  `row[c]` is the
committed row, `groups[g]` the name of an Authentik group, `ops` the operations
in queue order (each is a lane of its own, so several run at once), `web` the
open transaction of a request: it publishes on the pool, so its operation can
be drained before the commit and outlives a rollback.  `past` is history.

| code | actions |
| --- | --- |
| `GlobalChannelService` create, rename, delete; commit, rollback | `CreateRegionChannel`, `UpdateRegionChannel`, `DeleteGlobalChannel`, `Commit`, `Rollback` |
| `createRegionChannelGroup` | `CreateRefused`, `CreateGroup`, `RecordGroup` |
| `updateRegionChannelGroup` | `RejectUpdate`, `UpdateGroup` |
| `deleteGlobalChannelGroup` | `DeleteGroup` |
| `syncExistingGlobalChannels` | `SyncExisting`, `ImportFetch`, `ImportApply` |
| `reconcileRegionChannelGroups` in the periodic sync | `FetchGroups`, `ReconcileRegionChannelGroups` |
| death of a worker | `Strand` |

Run `global_channels`: three ids, two names, three groups, three edits, one
import, one fault.  Rows never point at a group that is gone and never share
one, with the exceptions the invariants name (`GroupsSound`), and in the end
every channel that can have its group under its name has it
(`GroupsConverge`): no rename from the route ever succeeds (section 12), the
periodic repair does it.

**Fairness.** Requests end; the oldest operation not stranded is drained in the
end; the periodic sync runs again.

## 8. ServiceAccounts and AccessRequests

Both are checked by `independent_safety`, together with ten components of
section 10.  Twelve components that share nothing are checked in one run: a
behaviour belongs to the one that `part` names, so the states are the sum of
the components' states and not their product.  Because only one runs, they keep
their variables in the same twelve places (`x1` to `x12` of
`MCIndependentSafe`).  `SYMMETRY` exchanges visitors, deciders and the labels of
custom channels, which no definition tells apart; `TeamTree`, `TeamScopes` and
`TransferRequests` use them again as sessions, colours, names and users; the run
checks no liveness.

`ServiceAccounts`: `row[c]` holds a channel's credentials, `acct[k]` the
accounts of Authentik with their owner mark, `ops` the unfinished operations.
`CheckAvailability` is made before the transaction of
`ProvisionServiceAccount`; `RotateServiceAccountPassword` and
`DeleteServiceAccount` publish with the row.  The worker's steps are the calls
of its handlers: `CreateOrFind`, `FindToRotate`, `SetPassword`,
`RecordAccount`, `FindToDelete`, `DeleteAccount`, `CallFails`.  Once a
channel's operations are done its row and its account agree
(`AccountsFollowRows`) and no operation touches another channel's account
(`OnlyOwnAccounts`), unless something happened that the property names: two
operations of the channel overlapped, one failed for good, a username was taken
twice between check and write, an id was written under a later request.  For
another channel the last case matters only after six requests, beyond the run's
bound: a deletion by the old id leaves an account whose name another channel's
rotation finds.

`AccessRequests`: the requests of one e-mail address (`req`), sign-up sessions
(`form`), administrators' sessions (`dec`), accounts in Authentik (`acct`), the
one row in `users` (`user`), queued cleanups and the periodic sync.

| code | actions |
| --- | --- |
| `SignupFlowService`: state of the address, insert, token, submit | `DetermineEmailState`, `InitiateSignup`, `ReadToken`, `SubmitTeamAccess` |
| `approveRequest`: Claim_Row or Account_Reclaim, lookup, POST, transaction, compensation | `ApproveRequest`, `MintClaim`, `FindReclaimable`, `LookupAccount`, `CreateAccount`, `Transact`, `Compensate`, `Fails` |
| `denyRequest` | `DenyRequest`, `WriteDenial` |
| `cleanup_orphaned_authentik_user`, the periodic sync, an operator | `CleanupAccount`, `CleanupFails`, `FetchAccounts`, `UpsertUsers`, `SweepOrphans`, `OperatorDeletes` |

No account without a row or a cleanup, an approved request's person is a user
of the requested team, a pending request can still be approved
(`AccountsFollowRequests`), and a decision stands (`DecisionsStand`), each up to
the named exceptions of section 12.  Two requests, two sessions on either side,
two decisions, two accounts and one fault: two approvals of one request and
of two requests with one address, each cut off at every step.  With three
decisions, so a retry beside another approval, this part alone has 568 000
states and holds as well.
Escalation and expiry are left out: no statement ever sets `escalates_at`.

## 9. CircuitBreaker, CallsignEpisodes, CertExpiry

Checked by `independent_liveness` in the same manner, together with
`TeamChannels` (section 10).

`CircuitBreaker`: `Execute`, `HalfOpens`/`Probe`, `Succeeds`, `Fails`,
`Elapse`; a call may settle long after the breaker changed its state (`late`).
Three callers, threshold two, five failures.  One probe is at work at a time
unless such a late failure cleared the flag (`OneProbeAtWork`); the breaker
recovers when calls succeed (`Recovers`).  Fairness: calls settle, callers call
again.

`CallsignEpisodes`: `StartPoll`, `Fetch`, `RecordAcceptable`, `RecordMismatch`,
`SendNotice`, `MarkNotified`, failures and a lost lock session; two workers,
three changes of the callsign, two faults.  One notice per episode
(`NoticePerEpisode`); a callsign that stays wrong is told of (`WrongIsTold`), if
the user has an e-mail address (`addressed`): for others `RecordMismatch` only
logs (`CallsignPoller.js:230-241`).

`CertExpiry`: `DaysPass`, `DeviceIsSeen`, `AccountChanges`,
`FindEligibleCandidates`, `ResolveBacklog`, `SendDigest` per recipient,
`MarkResolved`, failures and a lost lock session.  A certificate is considered
only while it is `InUse`: unrevoked, of an active account, and with a session of
its device within the activity window (`CertExpiryNotificationService.js:94-104`,
`159-170`); the window is counted back from the day of expiry, so a device once
seen in it stays seen, while the account may change at any time.
three tiers, two recipients on two levels, one without an address, two faults.
No tier is resolved for nothing and nobody is told twice without a cause
(`TiersToldOnce`); the due tier of a certificate that stays in use is told to all
who have an address (`DueIsTold`).  In the run, `ToldOnce` and
`ToldInTheEnd` are the conjunctions of these with the callsigns' properties.

## 10. Teams, scopes, transfers, import, channels, agency groups, region access, rate limit, devices, pool

`TeamChannels` is a part of `independent_liveness`, the others are parts of
`independent_safety`.

### TeamTree

`team[t]` is a team's row: its parent (`Top` is NULL), its name, its colour.
`web[s]` is a request between its statements, none of which are in one
transaction, except those of a deletion.

| code | actions |
| --- | --- |
| `POST /`, `Team.create`: chain, name check, INSERT, channel, basic INSERT | `PostTeam`, `ReadChain`, `CheckName`, `Insert`, `CreateChannel`, `Fallback` |
| `PUT /:teamId`, `Team.update`: chain, name check, UPDATE, colour of the teams below | `PutTeam`, `ReadChain`, `CheckName`, `Update`, `Recolor` |
| `DELETE /:teamId`, `deleteWithSubtree` | `DeleteTeam`, `ListSubtree`, `DeleteListed` |

The two reads of a parent's depth and chain are one step; so are the rows that
a deletion removes one by one before it commits.  `ReadChain`, `CheckName`,
`Recolor` and the deletion of a team that is, or is below, its own ancestor are
recursive queries that do not end (`endless`).  `TreeSound`: names differ within
an Organisation (`NamesApart`), a sub-team has its Organisation's colour
(`ColorsFollow`), nothing loops or lies too deep (`DepthBounded`), a deleted
team's groups were asked to be removed (`GroupsRemoved`).  Four things excuse a
team, all needed: it was moved or was below a moved team; it was written by a
request that another write overtook between its reads and its own (`late`); it
was named while it was an Organisation, which is not checked (`unchecked`); its
colour was not handed down because a statement failed (`uncolored`).  Two
Organisations of one name and a sub-team at first, four names, two colours, two sessions, two
requests, one fault; `MaxDepth` is 2 where the code has 5, which two requests
reach.

### ImportGraph

`file[i]` is row `i`: the id it gives itself, the row it names as its parent, and
whether it names an existing team that is found or not.  `StartWalk` and `Walk`
are `detectCycles`, `MarkFailed`, `Spread`, `Take` are
`markFailedRowsAndComputeCreationOrder`, `ImportTeams`, `CreateRow`, `Answer`
the import itself.  `ImportSound` compares what the loops compute with the graph of
the file: the keys on cycles are those above themselves (`CyclesFound`), every
row without a dangling or cyclic ancestor is created once and after its parent
(`ParentsFirst`), gets its team where the file says unless it or an ancestor
fails (`RightTeams`), a file with an error as a whole makes nothing
(`AllOrNothing`), every row is answered, and as many are told of a team as teams
were made (`OneTeamPerAnswer`), unless an id equals a generated key.  All files of three rows,
with two ids, one of which is the key generated for row 2, three references, one
failing creation: three rows make a cycle with a tail, a chain, a fork and two
components.  Whether an existing team is found is a property of the file, not of
the moment; `TreesSound` is the conjunction of the two modules' properties.

### TeamScopes

The tree (`up`, `hidden` teams), and per person the direct row (`home`, `role`)
and the inherited rows written with it (`above`).  `IsAdmin` walks up from a
team, `ManagedTeamIds` down from a person's teams; `IsVisibleBranch` decides for
one team, `FilterVisibleBranches` for a list, from the list where it reaches up to
the Organisation and from the table where not; `IsManagedUser` joins rows,
inherited ones too; `MayRevoke` asks for the direct team; `ScopedOrganisations`
and `InDirectory` are the directory's; `OwnOrganisationTeams` starts from
whichever row is read first.  `AddUserToTeam`, `RemoveUserFromTeam`, `AddMember`
(and the approval of another role), `Reparent`, `SetVisibility` change tree and
rows, each in one step: `TeamMembership` has the statements.

`ScopesAgree`: up and down name the same teams (`AdminsAgree`); a list shows
what can be opened (`FiltersAgree`); nobody administers what is hidden from
them or whom the directory does not list (`AdminsSee`); whoever's devices one
manages are those whose certificates one may revoke, and one's teams are found
through any row (`RowsAgree`).  The last speaks only of people whose rows are
those of their branch: `Team.update` does not rewrite them when a branch moves
(`moved`), `addMember` does not write them (`bare`); both excuses are needed.  Two
people in any team and role, two Organisations and a branch of two teams, at
most one private team at the start, two changes.  A Global_Manager passes every
question and is left out; so are e-mail domains and origin, which only add
people to the directory.  A team does not come to lie below itself (`TeamTree`
has that).

### TransferRequests

Extends `TeamScopes` with sessions that judge, wait and write.

| code | actions |
| --- | --- |
| `POST /:userId/transfer` (and in bulk): the resolver and the checks; the sides; the INSERT | `StartTransfer`, `Judge`, `FileRequest` (`ApprovalTeam`) |
| approval: the resolver and the first read | `StartApproval` |
| `executeTransfer` under the locks of request and person; COMMIT or ROLLBACK | `LockAndCheck` (`SourceAsExpected`), `CommitTransfer` |
| denial: the read, the unconditional UPDATE | `StartDenial`, `WriteDenial` |
| `POST /add-to-team`: the check; `addUserToTeam` | `StartAddition`, `Add` |
| removals, roles, reparenting meanwhile | `Changes` |

`TransfersSound` is about steps: whoever is moved was moved by somebody for whom,
or after whom, both sides had agreed (`BothSidesAgree`); the move stays within
the Organisation (`WithinOrganisation`); what is approved was pending, and the
person moves from the team the request names (`RequestsDecide`).  Excused, and
each excuse is needed: an immediate transfer or an addition judged before the
people or the tree changed (`late`), a request filed by somebody who had just
lost the role (`said` is empty), a team moved between the comparison of the
Organisations and the commit (`since`), a Global_Manager.  An approval needs no `late`:
the source is compared under the lock.  A Global_Manager, two administrators of
any of three teams, one person in a team or in none, two sessions, one request;
three requests begun, or two and one change: a request, its decision and another
transfer in between.

### TeamChannels

`team[t]` is a team's name, `chan[t]` its primary channel, `group[g]` a group
in Authentik with its name and description, `web[s]` the request of a session,
statement by statement (most are in no transaction), `ops` the queued
operations, oldest first.  `past` is history: teams whose rename overlapped with
other work (`crossed`), that lost an operation (`lost`), groups that were given,
by name, to a second channel (`taken`).

| code | actions |
| --- | --- |
| `Team.create`, `createTeamChannel` and its fallbacks | `Create`, `PostGroup`, `Lookup`, `InsertChannel`, `Describe`, `InsertDeferred`, `EnqueueReconcile`, `Lost` |
| `Team.update`: the rename of the channel after that of the team | `Rename`, `SelectChannel`, `UpdateChannel`, `PublishRename` |
| `Team.delete` | `BeginDelete`, `CommitDelete` |
| the worker's channel operations | `ReconcileGroup`, `RecordGroup`, `ReadChannel`, `PatchGroup`, `RemoveGroup`, `Strand` |
| the periodic description repair | `ReconcileDescriptions` |

Two teams, two names, three groups, two sessions, three requests, one fault.
Two names make the collisions: a team renamed and another created under the old
name, a team deleted and created again.  Fairness: requests go on; the oldest
operations not stranded are drained (a stranded one stays in the queue, so one
place more than the faults is enough); the periodic sync repairs each channel.

### CustomChannels

`channels` holds the creations whose channel exists, `groups` the pairs of a
creation and a permission that have a group, `perms` the rows of
`channel_memberships`, `joined` the members of the groups.

| code | actions |
| --- | --- |
| the creation route: limit, groups, transaction with the second count | `PrepareCustomChannel`, `BeginInsert`, `CommitInsert` |
| members of a channel; the operation published after the commit | `AddMember`, `RemoveMember`, `PublishMember`, `RunMember` |
| a user leaves the team or is transferred | `Depart` |
| deletion and the removal of the groups | `DeleteCustomChannel`, `RemoveGroups` |
| failures | `Retry`, `GiveUp`, and the rollbacks of `CommitInsert` |

One user, two labels, two permissions, two sessions, two creations, two other
requests, one fault.  `Limit` is 2 where the code has 3, so that two creations meet it beside the
primary channel;
the initial state may lack a primary channel, as a team does whose creation
fell back to the bare INSERT.  A transfer or removal is one step here, since
`TeamMembership` models its statements.  Descriptions are left out.

### CloudTakGroups and ChannelAccess

Both have the shape of a record, what follows it in Authentik, and operations
that overlap because each is a lane of its own.

`CloudTakGroups`: `Create`, `Rename`, `SetRole` change the row and `Publish`
in a statement of its own; `ProvisionOrRemove` publishes with the row,
`ApproveRoleOrTransfer` publishes nothing; `DeleteTeam`.  The worker's
`ensure` is `ReadTeam`, `CreateOrFind`, `PatchAttributes`, `ReadAdmins`,
`ReadMembers`, `Apply` per member, its `delete` is `LookUp`, `Delete`; `Retry`
and `GiveUp` are their failures.  Two users, two names, three changes, one
fault.

`ChannelAccess`: `ReadFlag`, `UpdateFlag`, `PublishResync` are the tier switch,
`Move` and `Leave` the user's, `AssignAllUsers` the global one; `Resync`,
`ReadHome`, `ReadFlags`, `ReadCurrent`, `Assign` (one call per group, whose
failure is logged and forgotten), `Retry`, `GiveUp` the worker's.  Two
organisations, one tier, two sessions, three changes, one fault.

With nothing left to do the groups are what the records say, unless a change
published nothing, a call failed for good, or operations overlapped
(`CloudTakSound`, `GlobalAccessSound`, together `GroupsFollowRecords`); an operation that then runs alone makes
it right again, which the two properties require.

### RateLimiter

One row of `rate_limit_buckets`; the clock counts the time of one token, tokens
are whole.  A caller's statement is `Begin` (`now()`), `Snapshot` (what its FROM
subquery read) and `Update` (which, after waiting for the row lock, writes what
it computed from the snapshot).  In any window the grants are bounded by
capacity and elapsed time plus what overlapping statements hand out twice
(`RateKept`).  A caller may stop asking at any time, which covers the ceiling on
waiting; a missing bucket row is left out.  Two callers, capacity two, five
statements, three units of time.

### TeamDevices

A device is a row, an account and a membership.  `Ask`, `Claim`, `CreateUser`,
`CheckSuffix`, `Adopt` create one; `Unclaim`, `DeleteUser`, `Enqueue`,
`Cleanup` compensate; `Edit`, `Update`, `AskDelete`, `Remove`, `DeleteAccount`,
`DeleteRow` change and delete one; `Count`, `DropTeam` delete the team; `Dies`,
`Stops` are processes that end in between.  The device's id stands for the minted identifier: a name
that is taken is minted again and changes nothing.  People and authorisation are
left out, and so is the sync's sweep of accounts, which `AccountLifecycle` has.
Two devices, one suffix, two other sessions, one fault anywhere.

### ConnectionPool

`pg`'s pool is external: a FIFO queue of waiters and a count of free
connections, without a time limit, as `database.js` configures none.  `Query`
and `Answer` are a plain query; `Begin`, `CompareSuffix`, `Compared`, `NoSuffix`,
`Finish` a transaction that asks the pool for a second connection.  Three
requests over two connections reach the state in which all connections are held
by transactions that wait for another (`Starved`): it is the only one in which
somebody waits and nobody runs (`SomebodyRuns`).

## 11. What is proved

TLC shows the above for small instances; the following is proved by TLAPS for
every value of the constants that satisfies the modules' assumptions, which only
say of what kind the constants are: finite sets of ids, positive bounds, a tree
whose teams reach the top.

**SyncQueueProofs** (`SyncQueueAssumption`: the row ids are a finite
set of naturals, the payloads are records of type, user and group, the bounds
are positive): `TypeCorrect`,
`NoRowHasTwoWorkers` (`SoleOwner`), `ProcessingRowsAccounted`
(`ProcessingAccounted`), `AttemptsAreBounded` (`AttemptsBounded`, proved and no
longer also run), `OutcomesAreFinal` (`TerminalFinal`), `LanesRunInOrder`
(`LanesSequential`), `OnlySupersededStrand` (`StrandedOnlySuperseded`) and
`UrgentRowsFirst` (`UrgentFirst`).  None of the
invariants is inductive alone.  That no row has two workers rests on the
claim: a row can be claimed only while pending and not locked, so a locked row
must be known to be pending and unlocked by others (`LocksExclusive`), a
batch's jobs must be the rows of that batch (`WorkInBatch`), and a row in
flight must be `processing`, or already have its outcome while its worker
repeats an UPDATE whose reply was lost (`HeldRows`); in that case it is not
due, so it cannot be claimed.  `TriesLeft` relates a job's failed tries to
what its row may look like.  `HeldOrStranded` and the count of attempts then
follow step by step.  For the lanes, a batch keeps the rows it fetched in their
order, once each, and a lane starts a job only after the one before it has its
outcome (`LanesInv`); as long as nothing has failed, each stranded row is a
reconcile with a twin that is not stranded (`StrandedInv`).

**GroupProofs**, of `OwnedGroupReconcile` (`OwnedGroupAssumption`): `TypeCorrect`,
`OneRowPerGroup` (`OnePendingRow`, proved and no longer also run), `GroupsConverge`
(`ConvergedOrAccounted`) and `IgnoredAccountsStay` (`IgnoredUntouched`).  The
convergence argument rests on one invariant,
`SnapshotsCurrent`: if a group has no pending row, no worker about to read it,
and is in none of `missed`, `overtaken` and `lost`, then the snapshot some
worker holds, or the group itself when nobody holds one, equals the database.
Every commit that could falsify it either leaves a row pending or puts the
group in `missed`.  That ignored accounts stay needs that the list a worker is
about to write has the ignored accounts the group has, unless an operator edited
the group since the list was made (`ListsKeepIgnored`).

**TeamMembershipProofs** (the assumptions of `TeamMembership`): `RowsStaySound`
(`RowsSound`) for any teams, users, requests and overlap of the three
transactions.  The invariant says what each statement leaves (`OpenSound`): what
an open transaction has locked, seen and inserted are rows of its user; its
DELETE takes the user's whole chain or, if that was replaced while it waited,
nothing; it inserts only over a chain it has deleted; and what a waiting
statement saw in its snapshot is either all there or all gone.  Two open
transactions lock different rows and insert for different users (`Apart`).  `RequestsAreAtomic` (`Atomic`) is the
refinement of `TeamHomes`, step by step: every step but a successful commit
leaves each user's committed team alone, and a commit moves one user as
`TeamHomes` says.  `AccessIsRight` (`AccessFollowsTeams`) relates channel rows,
published operations and groups to the committed teams.  These two have a
hypothesis, that among overlapping transactions there are only transfers
(`Overlapping \subseteq {"transfer"}`), the second also that group operations
are recomputations (`Reconciling`): that is the instance of
`team_membership_follow`, and without them the statements are false, as section
12 tells.  The chain of a team is defined without recursion, as the least set
closed under parent that holds it (`Upward`, `Chain`), and the proofs use no
more of it than that equal chains have equal teams.

**AccountLifecycleProofs** (`AccountLifecycleAssumption`: the
accounts are a finite set of naturals, the page size is positive):
`TypeCorrect`; for one web process, `CutMeansRevoked` (`RevokedWhenCut`); for any
number of processes, `IntentIsKept` (`StatusFollowsIntent`).
Types need `HandledWereBorn`: a row is written only for an account the run saw
or a row that existed, never for an account Authentik has not had yet.
`RevokedWhenCut` speaks of accounts already cut off; `MarkingRevoked` adds what
the sweep has done for one it is about to cut off, and `SyncingBeforeSteps` that
no account is at a step while its run still fetches, so an administrator's act
between runs is overtaken by none.  With two processes the unlock of one could
a priori come between the sweep's revocation and its mark in the other; that it
cannot for an undisturbed account needs what the two runs saw to be related,
and is only model-checked (section 5).  `StatusFollowsIntent` does not need
that: `IntentInv` says of every account nobody disturbed that what a run has
read and is about to write agrees with the last deliberate act (`KnownTo`), and
that only its own PATCH may still be out (`Kept`).

**DeviceInventoryProofs** (the assumptions of `DeviceInventory`):
`RevocationsAlwaysHold` (`RevocationsHold`) and `RowChangesHaveCause`
(`RowsChangeWithCause`).  `DeviceInv` adds what a run of the sync knows from its
earlier reads (`ViewKnows`: what it saw valid was valid when it began, and
nothing becomes valid again) and what a revocation knows (`OpKnows`: a verified
target is revoked, and the targets hold all that was issued when it was
published; a dry run ends without being `done`).

**TransferRequestsProofs** (`IdsDiffer`: no team is the absent team, no request
is the absent request): `MovesAreAgreed` (`TransfersSound`).  `SessionSound` is
what a session knows after each of its steps: what it judged is so, or it is
`late`; what its transaction has checked is so, or a team was moved since; and
what it approves is what the request says.  `Apart` is the row locks: no two
transactions hold one person or one request.  A step of one session leaves the
others sound because it moves a person only under the lock, or makes those who
had judged him late (`SessionAges`).

**ComponentProofs** has nine components that share nothing, each with an
inductive invariant, and **GroupProofs** three more; **IndependentProofs** carries
those of `independent_safety`, and `TransferInv`, over to that run, where a
behaviour is one of the component that `part` names.  It takes `GroupProofs` with
no owned groups, for which the assumption of that module holds.  Assumed are finite sets, natural bounds, and that a
value that stands for "none" is none of the real ones.

* `RateIsKept` (`RateKept`) for any capacity and any bounds: in `LimiterInv`
  the bucket, and each snapshot an open statement works from, pays for all that
  was granted before it since the period began, or it is excused as an overlap
  (`Paid`).
* `ProbeAtWork` (`OneProbeAtWork`) for finitely many calls and any threshold;
  `BreakerInv` adds that a probe in flight means a half-open breaker with its
  flag, as long as no call failed late.
* `NoticesAreToldOnce` (`ToldOnce`): `CallsignInv` counts the notices that are
  not marked yet against the polls about to mark them and the faults spent, and
  says that a single poll at a time sends only what was not sent (`InTurn`);
  `ExpiryInv` says what a run knows of the tier it is sending, and, while nothing
  failed, that an open tier went to those only whom its run has told (`Orderly`).
* `ChannelsKeepGroups` (`ChannelGroupsSound`): in `ChannelInv` a team is created by
  one request, then by one operation, until its channel records a group
  (`RequestFits`, `OpFits`); a group that was not found in another's hands is held
  for one team, which finds it there as long as it exists (`Keeps`); and a group
  made for a team that still exists is recorded, in the hands of the creation, or
  still has the name by which the creation is to find it (`OnItsWay`), since only
  the channel that records a group renames it.
* `PoolIsSound` (`PoolSound`) for finitely many requests and any pool:
  the connections free and held add up to the pool (`Weights`, a sum over the
  requests), and the queue holds those who wait, once.
* `AccountsFollow` (`AccountsFollowRequests`) and `DecisionsHold`
  (`DecisionsStand`): in `SignUpInv` no two decisions hold one account
  (`AccountsApart`), an account that no decision holds, no cleanup will
  delete and no cleanup has given up on is that of a user with a team (`Accounted`), a Claim_Row has its decision
  (`ClaimKept`), and whoever an approval made a user stays one with an account that
  nothing is about to delete (`ApprovedKept`).
* `DevicesAreSound` (`DevicesSound`): `DevicesInv` says how far a creation is and
  what exists by then (`Making`), that a deletion takes membership, account and row
  in this order (`Serving`), and that a suffix claimed by two, in the team or past
  its check, was checked across (`ClaimsApart`); the last of these is what makes
  the comparison of members inductive.
* `CredentialsFollow` (`AccountsFollowRows`) and `OthersAccountsStay`
  (`OnlyOwnAccounts`): for a channel that nothing excuses, `Ordered` relates
  the order of its unfinished operations to its row and its accounts.  Only the
  oldest has started; what an operation is for is what the row wants or is deleted
  by a later one, and the last has the row's password (`Followed`); an account is
  the row's or some operation's to delete (`Wanted`); the id in a row or a deletion
  is that of the only account it can mean (`IdsRight`).  `Smooth` adds, as long as
  no operation failed, that a row nothing is about to provision has its account.
  A step of one channel leaves the others' as they are (`OthersKeep`), wherever
  their operations stand in the queue (`Matched`).  That an account found by its
  name is the channel's own follows from the unexcused usernames having one holder
  each (`HoldersApart`) and every account a holder (`FoundByName`).
* `GroupsFollow` (`GroupsFollowRecords`): in `AccessInv` and `AgencyInv` something
  was missed, or an operation that waits or a session that has still to publish
  will read the records again (`Reread`, `Renews`), or every operation that
  nothing overlapped leads from the groups as they are to what the records say
  now (`LeadsTo`, `Makes`), and so does what the last one left.  Only one operation
  at work can be unspoilt (`Alone`), so no other changes the groups under it
  (`OneBegins`).  For a deleted team what has begun before cannot finish unnoticed,
  as its deletion waits or has spoilt it (`FollowsDeleted`).
* `CustomChannelsAreSound` (`CustomChannelsSound`) for any limit of at least one:
  `CustomInv` counts the channels ever inserted against the creations under way, so
  that a transaction which counted below the limit and commits has counted right
  (`Counted`).  A creation's number is used by nothing before it (`Fresh`), so its
  groups stay until a removal that follows its channel's deletion (`GroupsKept`).
  For the members (`Told`): unless requests overlapped or an operation was lost,
  what the operations of a lane will make of a user (`Wills`: what the last of them
  says or, without any, what is so already) is what the row says, or the one
  request that changed the row has still to publish it.  The lemmas on `Wills` say
  what appending, cutting and replacing an operation does to it; a lane's oldest
  operation runs first, and that is why cutting it changes nothing.
* `TransfersAreAgreed` (`TransfersSound`) is `MovesAreAgreed` for that run, which
  also checks the inductive invariant itself, on an instance of the proofs' module.

**Only model-checked.**  Liveness (`EveryOperationSettles`, `SweepConverges`,
`TransactionsEnd`, `AgreeEventually`, `InventoryConverges`, `GroupsConverge`,
`ChannelsConverge`, `Recovers`, `ToldInTheEnd`), which is beyond the
prover.  `TreesSound` and `ScopesAgree` compare walks of the tree with the tree,
and `GroupsSound` speaks of an import that folds over a list: what a recursive
function or a fold computes for every input needs induction over data, which the
installed provers cannot do.  `RevokedWhenCut` is proved for one process and
checked for two.  No module uses a recursive operator.

## 12. Where the code and its documentation differ

One run is a counterexample to a statement of the repository:
`team_membership_revoke`.  `COUNT(*)` is a string and is compared with `=== 0`
(`TeamMembershipService.js:287`), so the "no teams left" branch never runs.

The rest was seen while modelling, and is in the models as the code does it.

Queue and groups:

* A claimed row is committed as `processing` (`syncWorker.js:930-935`) and
  nothing ever sets it back: a crash, a drain that exceeds 30 s or a marking
  UPDATE that failed three times loses the operation, although
  `.kiro/steering/server-conventions.md:59` says the retry queue guarantees
  reprocessing (`stranded` in `SyncQueue`).
* A reconcile is coalesced onto a committed pending row while the change it is
  for is uncommitted (`EventPublisher.js:129`); a worker may run that row in
  between, although the migration (`baseline-schema.cjs:1676`) says one pending
  operation suffices (`overtaken` in `OwnedGroupReconcile`).
* An operator's edit of a group between a reconcile's GET and its PATCH of the
  full list is overwritten, for ignored accounts as well.
* `created_at` is the start of the transaction, so the operations of two
  overlapping transfers may run in the order opposite to their commits.

Teams and accounts:

* Two overlapping additions of one user both pass the route's check; the second
  moves the user and leaves the first team's channels and groups behind.
* An immediate transfer passes no `expectedSourceTeamId` (`users.js:2084`): when
  the person moved after the sides were judged (2066), the transaction takes them
  out of a team whose administrators were not asked, although
  `TeamTransferService.js:248-253` calls its repeated checks the authoritative ones.
* A moved branch keeps its people's inherited rows (`Team.js:1655`), and
  `addMember` (`Team.js:1043`) writes none: the join of `isManagedUser`
  (`DeviceManagementService.js:411`) then differs from `isAdmin`, by which
  suspension and revocation are decided.
* A removal whose DELETE waited for a transfer does not see the rows the
  transfer inserted: it succeeds and the user stays in the destination team,
  without channel rows.
* A removal's DELETE (`TeamMembershipService.js:243`) takes the user's rows in no
  particular order; a transfer locks the direct row first
  (`TeamTransferService.js:255`) and the inherited ones with its DELETE.  The two
  can deadlock over one user, and so can two removals or additions.  PostgreSQL
  fails one of them; no code looks for `40P01`, so that request is answered with
  an error and has done nothing (`Deadlock` in `TeamMembership`).
* Two users with one callsign suffix, added to a team at once, both pass the
  suffix check.
* A suspension whose PATCH fails is taken for an unlock made in Authentik and
  undone by the next run; `AccountLifecycleService.js:103-109` says it
  self-heals.
* A sweep orphans an account provisioned during its run, since the candidates
  are read after the list was fetched (`docs/ARCHITECTURE.md:107` promises only
  accounts that are gone).
* When a statement of External_Lock fails after its UPDATE, nothing enqueues the
  revocation again, although the comment (`authentikSync.js:966-975`) promises
  a retry; the stale copy of the row then pushes `is_active = true` and
  re-enables the account.

Devices and notices:

* `upsertDevice` (`DeviceSync.js:451`) never clears `revoked`, so a device
  enrolled again under its uid stays marked, contrary to
  `DeviceEnrollmentService.js:1565-1567`.
* A revocation of a user marks the device of another user who holds a live
  certificate under the same client uid.
* When two reported uids stand for one row, the last one read decides whether
  it is connected.
* `CallsignPoller.js:340` reads with RETURNING the row its UPDATE has just
  filled in, so the first mismatch counts as the confirming second one.
* `markNotified` writes only over NULL, "so a concurrent clear (a correction
  observed by another worker) is not clobbered" (`CallsignPoller.js:354-357`).
  The clear leaves NULL, so a mark that comes after it is written, outside any
  episode, and silences the next one (`overlap` in `CallsignEpisodes`).
* A revocation drained by a worker that is not armed (the default) completes
  without a DELETE: the certificates stay valid, also those of a suspended,
  orphaned or removed user, and arming the worker later does not bring it back
  (`syncWorker.js:3549-3569`, which says why).
* A co-administrator without an e-mail address keeps a tier unresolved, and the
  others are told again with every daily run.
* A call that was admitted while the breaker was closed and fails late reopens
  it and clears the flag of a probe in flight (`circuitBreaker.js:168`), although
  lines 21-23 promise one probe.

Region and BCH channels:

* The routes pass a channel's id as a string, which the rename operation's
  schema refuses: only the periodic repair renames region groups, and BCH
  groups are never renamed.
* The delete operation reads the row when it is drained, which normally is
  after the deletion: the group stays, contrary to the comment in
  `operationSchemas.js`.  When it is drained before a rollback, the group is
  gone and the row stays.
* A create drained before its row is committed, or answered 400 because the name
  is taken, leaves the channel without a group; nothing else makes one.
* An import that meets a group under an old name inserts a second row sharing
  that group; one whose list is old brings deleted rows back.
* A stranded rename stops the periodic repair of its channel for ever
  (`authentikSync.js` counts `processing` rows).

Requests:

* A denial updates by id what an approval may have settled meanwhile
  (`RequestApprovalService.js:639`).
* An orphaned user keeps the direct membership, whose unique index
  (`baseline-schema.cjs:1712`) then refuses every approval; Account_Reclaim
  never applies in organisations with minted usernames.
* A Claim_Row left by an approval that failed, or an account left by one that
  was cut off, blocks later approvals of the address.
* An error of COMMIT whose transaction was committed after all makes the
  compensation delete the account of an existing user.
* The cleanup that is to delete the account of a failed approval can itself fail
  for good (`syncWorker.js:2410-2416`): the account stays with no row and nothing
  queued (`kept` in `AccessRequests`), and blocks later approvals of the address.
* `escalates_at` is never set by any statement, so `EscalationService` finds
  nothing to escalate or expire.

The tree of teams and the import:

* `Team.update` writes `parent_team_id = $5` without COALESCE (`Team.js:1655`).
  A request without `parentTeamId`, which the route accepts (`teams.js:366`), makes
  a sub-team an Organisation, although the comment at `Team.js:1630-1633` says
  an omitted parent means "keep current", because the route always sends it:
  the route passes on what the client sent.
* A move checks neither `MAX_TEAM_DEPTH` (`authorize.js:303` says so) nor whether
  the new parent lies below the team.  In the second case the recursive queries
  over the chain do not end.  The teams below a moved one keep their colour, and
  their names are not compared with those of the new Organisation.
* The names of an Organisation's hierarchy are to be unique (`Team.js:835-858`), but
  renaming the Organisation itself is not checked, because it has no parent
  (`Team.js:1639`): it can take the name of one of its sub-teams.
* Lines 1616-1622 leave two Organisations of one name to `UNIQUE (name,
  parent_team_id)`; for that constraint (`baseline-schema.cjs:1511`) NULL
  parents differ, so it refuses nothing.
* When an Organisation's channel cannot be made, the fallback of `Team.create` inserts a second
  Organisation of the same name (`Team.js:629`).
* An import's row with the id `__row_2` replaces row 2 if that has no id
  (`BulkImportService.js:445`): both lines are answered with one team.

Channels of teams:

* A team created while a renamed channel's group still has the old name finds
  that group by its name (`syncWorker.js:2390-2508`, `Team.js:575`) and shares
  it; a team deleted and created again takes over the group that the queued
  removal then deletes (`taken` in `TeamChannels`).
* A rename whose channel has no group yet leaves it to a pending reconcile that
  "will create it under the current name" (`syncWorker.js:2657-2661`), but the
  reconcile makes it under the name in its own, older payload
  (`syncWorker.js:2550`).
* Of two overlapping renames the older name may be the one that stays in the
  channel's row.  A deletion reads the group's id before a reconcile has
  recorded it: the group stays.
* `Team.create`'s last fallback (`Team.js:627-633`) inserts the team alone and
  it never gets a channel.
* A changed permission leaves the member in the old permission's group.
  `removeUserFromTeam` takes a user out of no custom channel's group, a transfer
  only out of the read-write ones (`TeamMembershipService.js:219-267`,
  `TeamTransferService.js:445-487`).
* A creation whose transaction fails leaves its groups; the next creation under
  that name is answered 400 for each of them, does not look, and makes a channel
  without groups.

Agency groups and region access:

* An approved change of role (`RequestApprovalService.js:834`) and a transfer
  publish nothing for CloudTAK: the administrators of the group stay as they
  were until something else enqueues it.
* An `ensure` that read the team before its deletion makes the group again; two
  that overlap may leave the older set of administrators.
* A removal from a team publishes no assignment, because of the `COUNT(*)`
  above, so the user keeps the region groups.
* The tier switch compares with a flag read before its UPDATE
  (`teams.js:645`): of two overlapping requests one may publish no resync.
* A group call that fails in an assignment is logged and the operation completes
  (`syncWorker.js:4203`).

Rate limit, devices, pool:

* `baseline-schema.cjs:621` calls refill and consumption "a single atomic
  UPDATE"; the FROM subquery is not read again by an UPDATE that waited, so two
  processes can be granted the same token.
* `DeviceEnrollmentService.js:1078-1082` promises a revocation that the
  `COUNT(*)` comparison never reaches.
* "Exactly one of the two compensations touches any given row"
  (`DeviceEnrollmentService.js:454`): after an adoption that was rolled back, both do.
  When the connection is broken, ROLLBACK rejects as well and neither does.
* Two devices, or a device and an edit, that are checked at the same time can
  share a callsign suffix.
* The members of a team are counted outside the transaction that deletes it: a
  device that joins in between is left without a team, and `deleteDevice` then
  refuses it.  The answer to the DELETE of a device's account is not checked.
* As many concurrent transactions as `DB_POOL_MAX`, each with a query on the pool
  inside, wait for ever: the pool has no `connectionTimeoutMillis`.

## 13. Plan

Done, most important first: the queue everything asynchronous goes through;
the groups it drives; the transactions that feed it; the accounts whose
suspension must reach Authentik and the certificates; the device inventory; the
channels with groups of their own; service accounts and requests; the small
timed components; the teams' channels, agency groups and region access; the rate
limiter, the devices of teams and the connection pool; the tree of teams and its
import; the scopes and the requests of transfers.

What is left out is in section 14: some of it has no state whose order matters,
some is an abstraction that later work could refine (the revocation switch
together with `AccountLifecycle`, BCH channels beside region channels, the calls
of one operation).

Of the safety properties within the provers' reach one is left:
`RevokedWhenCut` of `AccountLifecycle` for any number of processes, from an invariant that an
undisturbed account is seen alike by all runs under way.

## 14. Not modelled, and why

HTTP parsing and responses, sessions and the permission registry, e-mail texts, offline maps, statistics, settings, the web client,
infrastructure code and one-off scripts have no state whose order matters.  The
limits on requests and e-mails are counters per window. Escalation and expiry of requests
are code that no row ever reaches.

Within the modelled components: attributes other than `is_active`, `user_cache`
(a copy rewritten by the next transition), callsigns and colours except
where a group or a suffix depends on them, dry-run mode of the reconciler, the
descriptions of custom channels.  `last_seen_at` is, in `CertExpiry`, whether it
lies within the activity window, and nothing in `DeviceInventory`, where no
decision reads it.  The dry run of a revocation is in `DeviceInventory` only: in
`AccountLifecycle` and `TeamMembership`, `revoked` means that a revocation is
queued, which with `DEVICE_MGMT_REVOKE_ENABLED` unset revokes nothing.
`bulk_add_user_to_team` has a handler, but nothing calls `bulkAddUsersToTeam`,
which alone publishes it.  Inside the
queue's model a rate-limited call is "a call may fail retryably"; `RateLimiter`
has the limiter itself.  Authentik, the TAK server, PostgreSQL and `pg`'s pool
are modelled from how the code uses them and marked external in `PROJECT.json`.
