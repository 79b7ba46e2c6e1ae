----------------------------- MODULE SyncQueue -----------------------------
(***************************************************************************)
(* The durable operation queue between the web API and the Sync_Worker     *)
(* processes: the rows of sync_operations, the workers that claim batches  *)
(* of them (server/workers/syncWorker.js), run each row against Authentik  *)
(* or the TAK server and write its outcome back.                           *)
(*                                                                         *)
(* What a handler does to the outside is abstracted to its outcome: it     *)
(* succeeds, it fails in a way classified "retryable", or it fails in a    *)
(* way classified "permanent".  Everything that decides what becomes of a  *)
(* row is kept: the claim transaction with its row locks, the lanes, the   *)
(* three marking functions with their bounded database retries, the        *)
(* partial unique index on pending reconciles, crash, drain and restart.   *)
(***************************************************************************)
EXTENDS Integers, Sequences, FiniteSets

CONSTANTS
  Ids,          \* the row ids this instance may create, 1..n
  Workers,      \* sync-worker processes (production runs two tasks)
  Payloads,     \* operations callers enqueue: [type, user, group]
  Invalid,      \* payloads validatePayloadSchema rejects
  None,         \* "field absent from the payload"
  BatchSize,    \* SYNC_WORKER_BATCH_SIZE
  Concurrency,  \* SYNC_WORKER_CONCURRENCY, the p-limit bound
  MaxRetries,   \* sync_operations.max_retries
  RetryCap,     \* EFFECTIVE_MAX_RETRIES_CAP (48 in the code)
  DbAttempts,   \* SyncWorker.maxRetries: attempts of one status UPDATE
  MaxFaults     \* bound on crashes and failed database calls

ASSUME SyncQueueAssumption ==
  /\ Ids \subseteq Nat
  /\ IsFiniteSet(Ids)
  /\ Invalid \subseteq Payloads
  /\ \A p \in Payloads : DOMAIN p = {"type", "user", "group"}
  /\ BatchSize \in Nat \ {0}
  /\ Concurrency \in Nat \ {0}
  /\ MaxRetries \in Nat \ {0}
  /\ RetryCap \in Nat \ {0}
  /\ DbAttempts \in Nat \ {0}
  /\ MaxFaults \in Nat

VARIABLES
  row,       \* row[r]: the committed sync_operations row with id r
  pc,        \* pc[w]: where worker w is in its start() loop
  stopping,  \* stopping[w]: isRunning has been cleared by a signal
  locked,    \* locked[w]: rows held FOR UPDATE by w's open claim transaction
  batch,     \* batch[w]: the fetched operations, in fetch order
  job,       \* job[w][r]: how far w has got with operation r of its batch
  attempts,  \* attempts[r]: times the handler of r was started (history)
  stranded,  \* rows left 'processing' with no worker holding them (history)
  faults     \* faults spent so far, at most MaxFaults

vars == <<row, pc, stopping, locked, batch, job, attempts, stranded, faults>>

-----------------------------------------------------------------------------
(* Rows.                                                                   *)

Statuses == {"absent", "pending", "processing", "completed", "failed"}
Terminal == {"completed", "failed"}
Categories == {"none", "validation", "permanent"}

\* due abbreviates next_retry_at <= NOW(); created is created_at, the start
\* time of the enqueuing transaction.
Absent == [status |-> "absent", payload |-> None, created |-> 0,
           retry |-> 0, due |-> FALSE, category |-> "none"]

Rows == [status : Statuses, payload : Payloads \cup {None}, created : Nat,
         retry : Nat, due : BOOLEAN, category : Categories]

UrgentOperationTypes ==
  {"revoke_tak_certificates", "cleanup_orphaned_authentik_user",
   "delete_cloudtak_group", "remove_team_channel_group",
   "delete_global_channel", "delete_bch_service_account"}

PriorityForOperationType(type) == IF type \in UrgentOperationTypes THEN 10 ELSE 100

Coalescible(p) == p.type = "reconcile_owned_group"

\* The lane of a row: its (user, group) pair, or the row alone.
EntityKey(r) ==
  LET p == row[r].payload
  IN  IF p.user # None /\ p.group # None THEN <<p.user, p.group>> ELSE <<"id", r>>

RetryLimit == IF MaxRetries < RetryCap THEN MaxRetries ELSE RetryCap

PendingTwinOfAnyGroup(r) ==   \* mutant: the index without its payload column
  /\ Coalescible(row[r].payload)
  /\ \E q \in Ids \ {r} : row[q].status = "pending"

\* idx_sync_operations_pending_reconcile_dedup: no two pending reconciles
\* with one payload.
PendingTwin(r) ==
  /\ Coalescible(row[r].payload)
  /\ \E q \in Ids \ {r} : /\ row[q].status = "pending"
                          /\ row[q].payload = row[r].payload

-----------------------------------------------------------------------------
(* Jobs: an operation of a claimed batch.  retry is the retry_count the    *)
(* claim read; tries counts failed attempts of the status UPDATE.          *)

Idle == [stage |-> "none", retry |-> 0, tries |-> 0]

Stages == {"none", "waiting", "running",
           "completing", "retrying", "rejecting", "done"}
Marking == {"completing", "retrying", "rejecting"}

Jobs == [stage : Stages, retry : Nat, tries : 0..DbAttempts]

InFlight(w, r) == job[w][r].stage \in {"waiting", "running"} \cup Marking

BatchRows(w) == {batch[w][i] : i \in DOMAIN batch[w]}

-----------------------------------------------------------------------------

Init ==
  /\ row = [r \in Ids |-> Absent]
  /\ pc = [w \in Workers |-> "polling"]
  /\ stopping = [w \in Workers |-> FALSE]
  /\ locked = [w \in Workers |-> {}]
  /\ batch = [w \in Workers |-> <<>>]
  /\ job = [w \in Workers |-> [r \in Ids |-> Idle]]
  /\ attempts = [r \in Ids |-> 0]
  /\ stranded = {}
  /\ faults = 0

SpendFault == faults < MaxFaults /\ faults' = faults + 1

-----------------------------------------------------------------------------
(* EventPublisher, inside a caller's transaction.  A second pending        *)
(* reconcile of one payload inserts nothing (ON CONFLICT DO NOTHING), so   *)
(* publishing it changes no row; while a claim holds the pending one, the  *)
(* INSERT waits for that transaction.  created_at is the start of the      *)
(* publisher's transaction: rows of one transaction tie, and a long        *)
(* transaction commits a row older than rows already there.                *)

Unused == {r \in Ids : row[r].status = "absent"}

Publish(p, created) ==
  /\ ~ \E q \in Ids : Coalescible(p) /\ row[q].status = "pending" /\ row[q].payload = p
  /\ \E r \in Unused :
       /\ \A q \in Unused : r <= q
       /\ created \in 1..r
       /\ row' = [row EXCEPT ![r] =
                    [status |-> "pending", payload |-> p, created |-> created,
                     retry |-> 0, due |-> TRUE, category |-> "none"]]
  /\ UNCHANGED <<pc, stopping, locked, batch, job, attempts, stranded, faults>>

\* Time passes: next_retry_at of a pending row is reached.  The shortest
\* backoff is 120 s and a marking function gives up after about 3 s, so no
\* worker is still writing the outcome that set this next_retry_at.
BecomeDue(r) ==
  /\ row[r].status = "pending"
  /\ ~ row[r].due
  /\ \A w \in Workers : job[w][r].stage \notin Marking
  /\ row' = [row EXCEPT ![r].due = TRUE]
  /\ UNCHANGED <<pc, stopping, locked, batch, job, attempts, stranded, faults>>

-----------------------------------------------------------------------------
(* processNextOperation: the claim.                                        *)

LocksIgnored(w) == {}   \* mutant: a plain SELECT instead of FOR UPDATE SKIP LOCKED

\* Rows another transaction has locked are skipped, not waited for.
SkipLocked(w) == UNION {locked[v] : v \in Workers \ {w}}

ClaimableWithFailed(w) ==   \* mutant: failed rows are picked up again
  {r \in Ids : row[r].status \in {"pending", "failed"} /\ row[r].due} \ SkipLocked(w)

Claimable(w) == {r \in Ids : row[r].status = "pending" /\ row[r].due} \ SkipLocked(w)

PrecedesByAge(r, q) == row[r].created < row[q].created   \* mutant: no priority

\* ORDER BY priority ASC, created_at ASC; ties come in any order.
Precedes(r, q) ==
  LET pr == PriorityForOperationType(row[r].payload.type)
      pq == PriorityForOperationType(row[q].payload.type)
  IN  \/ pr < pq
      \/ pr = pq /\ row[r].created < row[q].created

\* The results LIMIT BatchSize may return when the candidates are C.
Fetches(C) ==
  LET k == IF Cardinality(C) < BatchSize THEN Cardinality(C) ELSE BatchSize
  IN  {s \in [1..k -> C] :
         /\ \A i, j \in 1..k : i < j => s[i] # s[j] /\ ~ Precedes(s[j], s[i])
         /\ \A r \in C \ {s[i] : i \in 1..k} : \A i \in 1..k : ~ Precedes(r, s[i])}

\* BEGIN; SELECT ... FOR UPDATE SKIP LOCKED.
BeginClaim(w) ==
  /\ pc[w] = "polling" /\ ~ stopping[w]
  /\ Claimable(w) # {}
  /\ \E s \in Fetches(Claimable(w)) :
       /\ batch' = [batch EXCEPT ![w] = s]
       /\ locked' = [locked EXCEPT ![w] = {s[i] : i \in DOMAIN s}]
  /\ pc' = [pc EXCEPT ![w] = "claiming"]
  /\ UNCHANGED <<row, stopping, job, attempts, stranded, faults>>

MarkedProcessing(w) ==
  [r \in Ids |-> IF r \in locked[w] THEN [row[r] EXCEPT !.status = "processing"]
                                    ELSE row[r]]

\* UPDATE ... SET status = 'processing'; COMMIT.
CommitClaim(w) ==
  /\ pc[w] = "claiming"
  /\ row' = MarkedProcessing(w)
  /\ job' = [job EXCEPT ![w] = [r \in Ids |->
               IF r \in locked[w]
               THEN [stage |-> "waiting", retry |-> row[r].retry, tries |-> 0]
               ELSE Idle]]
  /\ locked' = [locked EXCEPT ![w] = {}]
  /\ pc' = [pc EXCEPT ![w] = "batch"]
  /\ UNCHANGED <<stopping, batch, attempts, stranded, faults>>

\* A database error rolls the claim back; the worker tries again or sleeps.
AbortClaim(w) ==
  /\ pc[w] = "claiming"
  /\ SpendFault
  /\ locked' = [locked EXCEPT ![w] = {}]
  /\ batch' = [batch EXCEPT ![w] = <<>>]
  /\ pc' = [pc EXCEPT ![w] = "polling"]
  /\ UNCHANGED <<row, stopping, job, attempts, stranded>>

\* The COMMIT takes effect but its reply is lost: the worker sees an error
\* and selects again, and the rows it marked are nobody's.
CommitClaimUnacknowledged(w) ==
  /\ pc[w] = "claiming"
  /\ SpendFault
  /\ row' = MarkedProcessing(w)
  /\ stranded' = stranded \cup locked[w]
  /\ locked' = [locked EXCEPT ![w] = {}]
  /\ batch' = [batch EXCEPT ![w] = <<>>]
  /\ pc' = [pc EXCEPT ![w] = "polling"]
  /\ UNCHANGED <<stopping, job, attempts>>

-----------------------------------------------------------------------------
(* processNextOperation: the lanes.  groupByEntityKey keeps fetch order in *)
(* a lane, p-limit starts lanes in order of first appearance and runs at   *)
(* most Concurrency of them at a time.                                     *)

SetJob(w, r, j) == job' = [job EXCEPT ![w][r] = j]
SetStage(w, r, stage) == SetJob(w, r, [job[w][r] EXCEPT !.stage = stage])

Position(w, r) == CHOOSE i \in DOMAIN batch[w] : batch[w][i] = r

LaneOfOne(w, r) == {r}   \* mutant: every operation a lane of its own

Lane(w, r) == {q \in BatchRows(w) : EntityKey(q) = EntityKey(r)}

LaneStarted(w, r) == \E q \in Lane(w, r) : job[w][q].stage \notin {"none", "waiting"}
LaneFinished(w, r) == \A q \in Lane(w, r) : job[w][q].stage = "done"

RunningLanes(w) ==
  {Lane(w, r) : r \in {q \in BatchRows(w) : LaneStarted(w, q) /\ ~ LaneFinished(w, q)}}

MayStart(w, r) ==
  /\ pc[w] = "batch"
  /\ r \in BatchRows(w)
  /\ job[w][r].stage = "waiting"
  /\ \A q \in Lane(w, r) : Position(w, q) < Position(w, r) => job[w][q].stage = "done"
  /\ \/ LaneStarted(w, r)
     \/ /\ Cardinality(RunningLanes(w)) < Concurrency
        /\ \A q \in BatchRows(w) : Position(w, q) < Position(w, r) => LaneStarted(w, q)

\* executeOperation: a payload that fails its schema never reaches a handler.
Execute(w, r) ==
  /\ MayStart(w, r)
  /\ IF row[r].payload \in Invalid
     THEN SetStage(w, r, "rejecting") /\ UNCHANGED attempts
     ELSE SetStage(w, r, "running") /\ attempts' = [attempts EXCEPT ![r] = @ + 1]
  /\ UNCHANGED <<row, pc, stopping, locked, batch, stranded, faults>>

\* The handler returns, throws a retryable error (anything that is not a
\* permanent AuthentikApiError or TakServerApiError), or throws a permanent
\* one.
Return(w, r, outcome) ==
  /\ job[w][r].stage = "running"
  /\ SetStage(w, r, outcome)
  /\ UNCHANGED <<row, pc, stopping, locked, batch, attempts, stranded, faults>>

-----------------------------------------------------------------------------
(* markOperationCompleted, handleOperationError and markPermanentlyFailed: *)
(* one UPDATE by id, with no condition on the status it overwrites, tried  *)
(* DbAttempts times and then given up.                                     *)

RetriedInPlace(r, retry) ==   \* mutant: the status is not set back to pending
  IF retry + 1 >= RetryLimit
  THEN [row[r] EXCEPT !.status = "failed", !.retry = retry + 1]
  ELSE [row[r] EXCEPT !.retry = retry + 1, !.due = FALSE]

Retried(r, retry) ==
  IF retry + 1 >= RetryLimit
  THEN [row[r] EXCEPT !.status = "failed", !.retry = retry + 1]
  ELSE [row[r] EXCEPT !.status = "pending", !.retry = retry + 1, !.due = FALSE]

Outcome(w, r) ==
  CASE job[w][r].stage = "completing" -> [row[r] EXCEPT !.status = "completed"]
    [] job[w][r].stage = "rejecting"  ->
         [row[r] EXCEPT !.status = "failed",
                        !.category = IF row[r].payload \in Invalid
                                     THEN "validation" ELSE "permanent"]
    [] job[w][r].stage = "retrying"   -> Retried(r, job[w][r].retry)

\* The UPDATE would put a second pending reconcile in the unique index.
IndexConflict(w, r) == Outcome(w, r).status = "pending" /\ PendingTwin(r)

MarkApplied(w, r) ==
  /\ job[w][r].stage \in Marking
  /\ ~ IndexConflict(w, r)
  /\ row' = [row EXCEPT ![r] = Outcome(w, r)]
  /\ SetStage(w, r, "done")
  /\ UNCHANGED <<pc, stopping, locked, batch, attempts, stranded, faults>>

\* One more attempt has failed; after the last one the row stays as it is.
NextTry(w, r) ==
  LET n == job[w][r].tries + 1
  IN  /\ SetJob(w, r, [job[w][r] EXCEPT !.tries = n,
                                        !.stage = IF n >= DbAttempts THEN "done" ELSE @])
      /\ stranded' = IF n >= DbAttempts /\ row'[r].status = "processing"
                     THEN stranded \cup {r} ELSE stranded

MarkError(w, r) ==
  /\ job[w][r].stage \in Marking
  /\ SpendFault
  /\ UNCHANGED row
  /\ NextTry(w, r)
  /\ UNCHANGED <<pc, stopping, locked, batch, attempts>>

\* The UPDATE took effect, its reply was lost, and the worker tries again.
MarkUnacknowledged(w, r) ==
  /\ job[w][r].stage \in Marking
  /\ ~ IndexConflict(w, r)
  /\ SpendFault
  /\ row' = [row EXCEPT ![r] = Outcome(w, r)]
  /\ NextTry(w, r)
  /\ UNCHANGED <<pc, stopping, locked, batch, attempts>>

\* unique_violation: a fresh reconcile of the same group is already pending.
MarkConflict(w, r) ==
  /\ job[w][r].stage \in Marking
  /\ IndexConflict(w, r)
  /\ UNCHANGED row
  /\ NextTry(w, r)
  /\ UNCHANGED <<pc, stopping, locked, batch, attempts, faults>>

FinishBatchUnawaited(w) ==   \* mutant: the lanes are not awaited
  /\ pc[w] = "batch"
  /\ pc' = [pc EXCEPT ![w] = "polling"]
  /\ batch' = [batch EXCEPT ![w] = <<>>]
  /\ job' = [job EXCEPT ![w] = [r \in Ids |-> Idle]]
  /\ UNCHANGED <<row, stopping, locked, attempts, stranded, faults>>

\* Promise.all settles and the loop goes round.
FinishBatch(w) ==
  /\ pc[w] = "batch"
  /\ \A r \in BatchRows(w) : job[w][r].stage = "done"
  /\ pc' = [pc EXCEPT ![w] = "polling"]
  /\ batch' = [batch EXCEPT ![w] = <<>>]
  /\ job' = [job EXCEPT ![w] = [r \in Ids |-> Idle]]
  /\ UNCHANGED <<row, stopping, locked, attempts, stranded, faults>>

-----------------------------------------------------------------------------
(* start, stop and crash.                                                  *)

\* SIGINT or SIGTERM: isRunning is cleared, the active cycle goes on.
BeginStop(w) ==
  /\ pc[w] # "down" /\ ~ stopping[w]
  /\ SpendFault
  /\ stopping' = [stopping EXCEPT ![w] = TRUE]
  /\ UNCHANGED <<row, pc, locked, batch, job, attempts, stranded>>

\* The active cycle settled within SHUTDOWN_DRAIN_TIMEOUT_MS (or there was
\* none): the pool is closed and the process exits.
Drained(w) ==
  /\ stopping[w] /\ pc[w] = "polling"
  /\ pc' = [pc EXCEPT ![w] = "down"]
  /\ UNCHANGED <<row, stopping, locked, batch, job, attempts, stranded, faults>>

Vanish(w) ==
  /\ pc' = [pc EXCEPT ![w] = "down"]
  /\ locked' = [locked EXCEPT ![w] = {}]
  /\ batch' = [batch EXCEPT ![w] = <<>>]
  /\ job' = [job EXCEPT ![w] = [r \in Ids |-> Idle]]
  /\ stranded' = stranded \cup {r \in Ids : InFlight(w, r) /\ row[r].status = "processing"}
  /\ UNCHANGED <<row, stopping, attempts>>

\* The drain timeout elapsed first: the pool is closed under the batch.
DrainTimeout(w) == stopping[w] /\ pc[w] # "down" /\ Vanish(w) /\ UNCHANGED faults

Crash(w) == ~ stopping[w] /\ pc[w] # "down" /\ SpendFault /\ Vanish(w)

\* The service scheduler replaces the task with a fresh process.
Restart(w) ==
  /\ pc[w] = "down"
  /\ pc' = [pc EXCEPT ![w] = "polling"]
  /\ stopping' = [stopping EXCEPT ![w] = FALSE]
  /\ UNCHANGED <<row, locked, batch, job, attempts, stranded, faults>>

-----------------------------------------------------------------------------

Enqueue == \E p \in Payloads, t \in Ids : Publish(p, t)

Claim(w) == BeginClaim(w) \/ CommitClaim(w) \/ AbortClaim(w) \/ CommitClaimUnacknowledged(w)

Run(w, r) ==
  \/ Execute(w, r)
  \/ \E outcome \in Marking : Return(w, r, outcome)

Mark(w, r) ==
  MarkApplied(w, r) \/ MarkError(w, r) \/ MarkUnacknowledged(w, r) \/ MarkConflict(w, r)

Lifecycle(w) == BeginStop(w) \/ Drained(w) \/ DrainTimeout(w) \/ Crash(w) \/ Restart(w)

Next ==
  \/ Enqueue
  \/ \E r \in Ids : BecomeDue(r)
  \/ \E w \in Workers :
       \/ Claim(w)
       \/ \E r \in Ids : Run(w, r) \/ Mark(w, r)
       \/ FinishBatch(w)
       \/ Lifecycle(w)

Spec == Init /\ [][Next]_vars

\* What a live worker process does of its own accord, what ECS does to a
\* stopped task, and time.  Enqueuing, faults and stop signals are not fair.
WorkerStep(w) ==
  \/ BeginClaim(w) \/ CommitClaim(w) \/ FinishBatch(w)
  \/ \E r \in Ids : Run(w, r) \/ MarkApplied(w, r) \/ MarkConflict(w, r)
  \/ Drained(w) \/ Restart(w)

Fairness ==
  /\ \A w \in Workers : WF_vars(WorkerStep(w))
  /\ \A r \in Ids : WF_vars(BecomeDue(r))

FairSpec == Spec /\ Fairness

-----------------------------------------------------------------------------
(* Properties.                                                             *)

\* Every variable holds a value of its type.
TypeOK ==
  /\ row \in [Ids -> Rows]
  /\ pc \in [Workers -> {"polling", "claiming", "batch", "down"}]
  /\ stopping \in [Workers -> BOOLEAN]
  /\ locked \in [Workers -> SUBSET Ids]
  /\ batch \in [Workers -> Seq(Ids)]
  /\ job \in [Workers -> [Ids -> Jobs]]
  /\ attempts \in [Ids -> Nat]
  /\ stranded \subseteq Ids
  /\ faults \in 0..MaxFaults

\* No two workers ever work on one row: the claim's locks and the status it
\* commits keep a row out of every other batch until its outcome is written,
\* although the marking UPDATEs have no guard of their own
\* (syncWorker.js:913-935, 1403-1548).
SoleOwner ==
  \A r \in Ids : \A v, w \in Workers : InFlight(v, r) /\ InFlight(w, r) => v = w

\* A row says 'processing' exactly while a worker holds it or after it was
\* stranded by a crash, a given-up UPDATE or a lost COMMIT reply: there is no
\* other way to get stuck, and no way at all to come back from it
\* (syncWorker.js:889-992, 1403-1548; no job resets 'processing' rows).
ProcessingAccounted ==
  \A r \in Ids : row[r].status = "processing" =>
    (r \in stranded) # (\E w \in Workers : InFlight(w, r))

\* Without a fault, the only rows ever stranded are reconciles whose retry hit
\* the dedup index, and of the reconciles of one group at least one is never
\* stranded: the work of the others is still carried (syncWorker.js:1515-1520 against the partial unique index
\* of EventPublisher.publishReconcileOwnedGroup).
StrandedOnlySuperseded ==
  faults = 0 =>
    \A r \in stranded :
      /\ Coalescible(row[r].payload)
      /\ \E q \in Ids \ stranded : row[q].payload = row[r].payload

\* A handler is started at most RetryLimit times for one row, whatever
\* crashes, retries and lost replies happen, and a row waits for another
\* attempt only while it has one left (syncWorker.js:1486-1521).
AttemptsBounded ==
  \A r \in Ids :
    /\ attempts[r] <= RetryLimit
    /\ row[r].status = "pending" => attempts[r] = row[r].retry /\ row[r].retry < RetryLimit

\* Two operations on one (user, group) pair are never run concurrently by one
\* worker, and the later one of a batch is not started before the earlier one
\* has its outcome (entityGrouping.js:8-15, syncWorker.js:972-983).
LanesSequential ==
  \A w \in Workers : \A i, j \in DOMAIN batch[w] :
    /\ i < j
    /\ EntityKey(batch[w][i]) = EntityKey(batch[w][j])
    /\ job[w][batch[w][j]].stage \notin {"none", "waiting"}
    => job[w][batch[w][i]].stage = "done"

\* No urgent operation is left behind by a claim that takes a normal one, so a
\* certificate revocation never waits behind a bulk import
\* (syncOperationPriority.js:25-47, syncWorker.js:913-919).
UrgentFirst ==
  [][\A w \in Workers : BeginClaim(w) =>
       \A r \in Claimable(w) \ locked'[w] : \A q \in locked'[w] :
         row[r].payload.type \in UrgentOperationTypes
           => row[q].payload.type \in UrgentOperationTypes]_vars

\* A completed or failed row is never touched again: not claimed, not marked a
\* second time with another outcome, not set back to pending
\* (syncWorker.js:915, 1403-1548).
TerminalFinal ==
  [][\A r \in Ids : row[r].status \in Terminal => row'[r] = row[r]]_vars

\* Every enqueued operation reaches an outcome, unless it is stranded on the
\* way: no backoff, batch, lane, restart or priority keeps it pending for ever
\* (syncWorker.js:650-707).
EveryOperationSettles ==
  \A r \in Ids :
    row[r].status = "pending" ~> (row[r].status \in Terminal \/ r \in stranded)
=============================================================================
