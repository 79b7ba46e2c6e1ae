------------------------ MODULE OwnedGroupReconcile ------------------------
(***************************************************************************)
(* How the Authentik membership of the groups this system owns follows     *)
(* team_memberships when BULK_GROUP_RECONCILE_ENABLED is on and the        *)
(* reconciler is not in dry-run.                                           *)
(*                                                                         *)
(* A request changes memberships in one database transaction and enqueues, *)
(* in that transaction, one reconcile per affected group                   *)
(* (EventPublisher.publishReconcileOwnedGroup, coalesced by a partial      *)
(* unique index on pending rows).  A worker claims the row, reads the      *)
(* group's desired members from the committed tables, reads the members    *)
(* to preserve and replaces the group's member list                        *)
(* (syncWorker.reconcileOwnedGroup, OwnedGroupReconciler).  The optional   *)
(* sweep enqueues a reconcile for every group.                             *)
(*                                                                         *)
(* The queue itself is SyncQueue's; here a row is only "pending for group  *)
(* g" or held by a worker.                                                 *)
(***************************************************************************)
EXTENDS Integers, Sequences, FiniteSets, Functions

CONSTANTS
  Users,         \* users with a local row: their membership is decided by the database
  Ignored,       \* accounts with an ignored username prefix: never in the database
  Groups,        \* owned groups (team, broadcast and region channels)
  Chains,        \* the group sequences a request enqueues, in enqueue order
  Requests,      \* membership changes, each made once
  Workers,       \* sync-worker processes
  Sweeping,      \* OWNED_GROUP_SWEEP_ENABLED
  MaxFailures,   \* bound on failed reconciles
  MaxOperator    \* bound on membership changes an operator makes in Authentik

ASSUME OwnedGroupAssumption ==
  /\ Users \cap Ignored = {}
  /\ Chains \subseteq Seq(Groups)
  /\ Sweeping \in BOOLEAN
  /\ MaxFailures \in Nat
  /\ MaxOperator \in Nat

VARIABLES
  desired,   \* desired[g]: members by the committed team_memberships
  request,   \* request[p]: the transaction of request p
  mine,      \* mine[p]: groups whose pending row p inserted and has not committed
  pending,   \* groups with a committed pending reconcile
  work,      \* work[w]: the reconcile worker w is running
  late,      \* member lists of timed-out PATCHes Authentik may still apply
  group,     \* group[g]: members of g in Authentik
  missed,    \* groups changed after their reconcile was claimed, not read since (history)
  overtaken, \* groups whose last snapshot was not the only one around (history)
  lost,      \* groups whose reconcile failed for good, not read since (history)
  edited,    \* groups an operator edited while a list fetched before was out (history)
  failures,  \* failures so far, at most MaxFailures
  operator   \* operator changes so far, at most MaxOperator

vars == <<desired, request, mine, pending, work, late, group,
          missed, overtaken, lost, edited, failures, operator>>

-----------------------------------------------------------------------------

NoChange == [stage |-> "idle", users |-> {}, adds |-> TRUE, chain |-> <<>>, todo |-> <<>>]

Changes == [stage : {"idle", "open", "committed", "aborted"}, users : SUBSET Users,
            adds : BOOLEAN, chain : Seq(Groups), todo : Seq(Groups)]

NoWork == [stage |-> "idle", group |-> {}, members |-> {}, kept |-> {}]

\* group is a singleton: the group the reconcile is for.
Work == [stage : {"idle", "claimed", "read", "fetched", "retrying"},
         group : SUBSET Groups,
         members : SUBSET Users, kept : SUBSET Ignored]

On(w, g) == work[w].group = {g}

ToRead == {"claimed", "retrying"}

\* A worker on g that has the desired members still to read.
Unread(g) == \E w \in Workers : On(w, g) /\ work[w].stage \in ToRead

\* A worker on g that holds a snapshot of the desired members.
Holding(w, g) == On(w, g) /\ work[w].stage \in {"read", "fetched"}

Init ==
  /\ desired = [g \in Groups |-> {}]
  /\ request = [p \in Requests |-> NoChange]
  /\ mine = [p \in Requests |-> {}]
  /\ pending = {}
  /\ work = [w \in Workers |-> NoWork]
  /\ late = {}
  /\ group \in [Groups -> SUBSET Ignored]
  /\ missed = {}
  /\ overtaken = {}
  /\ lost = {}
  /\ edited = {}
  /\ failures = 0
  /\ operator = 0

SpendFailure ==
  /\ failures < MaxFailures
  /\ failures' = failures + 1

-----------------------------------------------------------------------------
(* Requests.                                                               *)

\* BEGIN and the membership writes of one user, whose rows stay locked until
\* the transaction ends.  A member is not added again (the route refuses), and
\* a removal enqueues what the user is a member of.
Begin(p) ==
  /\ request[p].stage = "idle"
  /\ \E u \in Users, adds \in BOOLEAN, chain \in Chains :
       /\ \A q \in Requests : request[q].stage = "open" => u \notin request[q].users
       /\ \E g \in Range(chain) : (u \in desired[g]) # adds
       /\ request' = [request EXCEPT ![p] =
            [stage |-> "open", users |-> {u}, adds |-> adds, chain |-> chain, todo |-> chain]]
  /\ UNCHANGED <<desired, mine, pending, work, late, group, missed, overtaken,
                 lost, failures, edited, operator>>

\* The next group to enqueue, and the open transaction whose uncommitted
\* row for it makes the INSERT wait.
WaitsFor(p, q) ==
  /\ p # q
  /\ request[p].stage = "open"
  /\ request[p].todo # <<>>
  /\ Head(request[p].todo) \in mine[q]

AlreadyEnqueued(p, g) == g \in pending \cup mine[p]

\* publishReconcileOwnedGroup: INSERT ... ON CONFLICT DO NOTHING.  A
\* committed pending row is enough; it is not locked.
PublishNext(p) ==
  /\ request[p].stage = "open"
  /\ request[p].todo # <<>>
  /\ \A q \in Requests : ~ WaitsFor(p, q)
  /\ LET g == Head(request[p].todo)
     IN  mine' = [mine EXCEPT ![p] = IF AlreadyEnqueued(p, g) THEN @ ELSE @ \cup {g}]
  /\ request' = [request EXCEPT ![p].todo = Tail(@)]
  /\ UNCHANGED <<desired, pending, work, late, group, missed, overtaken,
                 lost, failures, edited, operator>>

Changed(p, g) ==
  IF g \notin Range(request[p].chain) THEN desired[g]
  ELSE IF request[p].adds THEN desired[g] \cup request[p].users
  ELSE desired[g] \ request[p].users

\* The commit publishes the change and the rows p inserted.  A group whose
\* reconcile was coalesced onto a row that is no longer pending, and that no
\* worker is about to read, is missed.
Commit(p) ==
  /\ request[p].stage = "open"
  /\ request[p].todo = <<>>
  /\ desired' = [g \in Groups |-> Changed(p, g)]
  /\ pending' = pending \cup mine[p]
  /\ mine' = [mine EXCEPT ![p] = {}]
  /\ request' = [request EXCEPT ![p].stage = "committed"]
  /\ missed' = missed \cup
       {g \in Range(request[p].chain) : g \notin pending \cup mine[p] /\ ~ Unread(g)}
  /\ UNCHANGED <<work, late, group, overtaken, lost, failures, edited, operator>>

\* A failing statement, or the victim of a deadlock: ROLLBACK.
Abort(p) ==
  /\ request' = [request EXCEPT ![p].stage = "aborted", ![p].todo = <<>>]
  /\ mine' = [mine EXCEPT ![p] = {}]
  /\ UNCHANGED <<desired, pending, work, late, group, missed, overtaken, lost, edited, operator>>

Rollback(p) ==
  /\ request[p].stage = "open"
  /\ SpendFailure
  /\ Abort(p)

\* Two transactions that enqueue two groups in opposite orders wait for each
\* other; PostgreSQL aborts one.
DeadlockVictim(p) ==
  /\ \E q \in Requests : WaitsFor(p, q) /\ WaitsFor(q, p)
  /\ Abort(p)
  /\ UNCHANGED failures

\* One INSERT of sweepAllOwnedGroups, in its own transaction.
SweepEnqueue(g) ==
  /\ Sweeping
  /\ \A q \in Requests : g \notin mine[q]
  /\ g \notin pending
  /\ pending' = pending \cup {g}
  /\ UNCHANGED <<desired, request, mine, work, late, group, missed, overtaken,
                 lost, failures, edited, operator>>

-----------------------------------------------------------------------------
(* Workers.                                                                *)

Claim(w, g) ==
  /\ work[w].stage = "idle"
  /\ g \in pending
  /\ pending' = pending \ {g}
  /\ work' = [work EXCEPT ![w] = [NoWork EXCEPT !.stage = "claimed", !.group = {g}]]
  /\ UNCHANGED <<desired, request, mine, late, group, missed, overtaken, lost,
                 failures, edited, operator>>

\* desiredTeamChannelMembers and its siblings, on the worker's own pool:
\* committed rows only.
ReadDesired(w, g) ==
  /\ work[w].stage = "claimed"
  /\ On(w, g)
  /\ work' = [work EXCEPT ![w].stage = "read", ![w].members = desired[g]]
  /\ overtaken' = IF \E v \in Workers \ {w} : Holding(v, g)
                  THEN overtaken \cup {g} ELSE overtaken \ {g}
  /\ missed' = missed \ {g}
  /\ lost' = lost \ {g}
  /\ UNCHANGED <<desired, request, mine, pending, late, group, failures, edited, operator>>

IgnoredNotKept(g) == {}   \* mutant: the full replace without the GET

IgnoredNow(g) == group[g] \cap Ignored

\* preserveIgnoredMembers: GET the group, keep the ignored accounts in it.
FetchPreserved(w, g) ==
  /\ work[w].stage = "read"
  /\ On(w, g)
  /\ work' = [work EXCEPT ![w].stage = "fetched", ![w].kept = IgnoredNow(g)]
  /\ UNCHANGED <<desired, request, mine, pending, late, group, missed, overtaken,
                 lost, failures, edited, operator>>

PatchAppends(w, g) ==   \* mutant: PATCH taken to append to the list
  /\ work[w].stage = "fetched"
  /\ On(w, g)
  /\ group' = [group EXCEPT ![g] = @ \cup work[w].members \cup work[w].kept]
  /\ work' = [work EXCEPT ![w] = NoWork]
  /\ UNCHANGED <<desired, request, mine, pending, late, missed, overtaken, lost,
                 failures, edited, operator>>

\* replaceGroupMembers: PATCH replaces the whole list.
Patch(w, g) ==
  /\ work[w].stage = "fetched"
  /\ On(w, g)
  /\ group' = [group EXCEPT ![g] = work[w].members \cup work[w].kept]
  /\ work' = [work EXCEPT ![w] = NoWork]
  /\ UNCHANGED <<desired, request, mine, pending, late, missed, overtaken, lost,
                 failures, edited, operator>>

Retrying(w, g) ==
  work' = [work EXCEPT ![w] = [NoWork EXCEPT !.stage = "retrying", !.group = {g}]]

\* A retryable failure of a read, of the GET or of the PATCH.
FailRetryable(w, g) ==
  /\ On(w, g)
  /\ work[w].stage \in {"claimed", "read", "fetched"}
  /\ SpendFailure
  /\ Retrying(w, g)
  /\ UNCHANGED <<desired, request, mine, pending, late, group, missed, overtaken,
                 lost, edited, operator>>

\* fetchWithTimeout gives up on a PATCH that Authentik may still apply.
PatchTimesOut(w, g) ==
  /\ On(w, g)
  /\ work[w].stage = "fetched"
  /\ SpendFailure
  /\ Retrying(w, g)
  /\ late' = late \cup {<<g, work[w].members \cup work[w].kept>>}
  /\ UNCHANGED <<desired, request, mine, pending, group, missed, overtaken, lost, edited, operator>>

PutBackNothing(w, g) ==   \* mutant: a retryable failure completes the row
  /\ On(w, g)
  /\ work[w].stage = "retrying"
  /\ \A q \in Requests : g \notin mine[q]
  /\ work' = [work EXCEPT ![w] = NoWork]
  /\ UNCHANGED <<desired, request, mine, pending, late, group, missed, overtaken, lost,
                 failures, edited, operator>>

\* handleOperationError puts the row back.  The UPDATE waits for a
\* publisher's uncommitted row; if a twin is pending the index rejects it,
\* and the twin stands in for the row.
PutBack(w, g) ==
  /\ On(w, g)
  /\ work[w].stage = "retrying"
  /\ \A q \in Requests : g \notin mine[q]
  /\ pending' = pending \cup {g}
  /\ work' = [work EXCEPT ![w] = NoWork]
  /\ UNCHANGED <<desired, request, mine, late, group, missed, overtaken, lost,
                 failures, edited, operator>>

\* A permanent failure, the last attempt, a worker that dies: the row never
\* becomes pending again.
FailForGood(w, g) ==
  /\ On(w, g)
  /\ SpendFailure
  /\ work' = [work EXCEPT ![w] = NoWork]
  /\ lost' = lost \cup {g}
  /\ UNCHANGED <<desired, request, mine, pending, late, group, missed, overtaken, edited, operator>>

LatePatch(g, members) ==
  /\ <<g, members>> \in late
  /\ \/ group' = [group EXCEPT ![g] = members]
     \/ UNCHANGED group
  /\ late' = late \ {<<g, members>>}
  /\ overtaken' = overtaken \cup {g}
  /\ UNCHANGED <<desired, request, mine, pending, work, missed, lost, failures, edited, operator>>

\* A list for g that was fetched and may still be written.
ListOut(g) ==
  \/ \E w \in Workers : On(w, g) /\ work[w].stage = "fetched"
  \/ \E l \in late : l[1] = g

\* An operator adds or removes an ignored account in Authentik's own console.
OperatorEdits(g) ==
  /\ operator < MaxOperator
  /\ operator' = operator + 1
  /\ \E a \in Ignored :
       group' = [group EXCEPT ![g] = IF a \in @ THEN @ \ {a} ELSE @ \cup {a}]
  /\ edited' = IF ListOut(g) THEN edited \cup {g} ELSE edited
  /\ UNCHANGED <<desired, request, mine, pending, work, late, missed, overtaken,
                 lost, failures>>

-----------------------------------------------------------------------------

Next ==
  \/ \E p \in Requests : Begin(p) \/ PublishNext(p) \/ Commit(p) \/ Rollback(p) \/ DeadlockVictim(p)
  \/ \E g \in Groups : SweepEnqueue(g) \/ OperatorEdits(g)
  \/ \E w \in Workers, g \in Groups :
       \/ Claim(w, g) \/ ReadDesired(w, g) \/ FetchPreserved(w, g) \/ Patch(w, g)
       \/ FailRetryable(w, g) \/ PatchTimesOut(w, g) \/ PutBack(w, g) \/ FailForGood(w, g)
  \/ \E l \in late : LatePatch(l[1], l[2])

Spec == Init /\ [][Next]_vars

\* Workers poll for ever, take rows oldest first (so no group's row is
\* passed over for ever: strong fairness) and every call they make returns;
\* the sweep runs on a timer; an open transaction runs to its end.
\* Failures, operators and new requests are never forced.
Fairness ==
  /\ \A p \in Requests : WF_vars(PublishNext(p) \/ Commit(p)) /\ WF_vars(DeadlockVictim(p))
  /\ \A g \in Groups : WF_vars(SweepEnqueue(g))
  /\ \A g \in Groups : SF_vars(\E w \in Workers : Claim(w, g))
  /\ \A w \in Workers : WF_vars(\E g \in Groups : ReadDesired(w, g) \/ FetchPreserved(w, g)
                                               \/ Patch(w, g) \/ PutBack(w, g))
  /\ WF_vars(\E l \in late : LatePatch(l[1], l[2]))

FairSpec == Spec /\ Fairness

-----------------------------------------------------------------------------
(* Properties.                                                             *)

WorkShape(k) == IF k.stage = "idle" THEN k.group = {} ELSE \E g \in Groups : k.group = {g}

\* Every variable has its type; a worker is idle exactly when it is on no
\* group.
TypeOK ==
  /\ desired \in [Groups -> SUBSET Users]
  /\ request \in [Requests -> Changes]
  /\ mine \in [Requests -> SUBSET Groups]
  /\ pending \subseteq Groups
  /\ work \in [Workers -> Work]
  /\ \A w \in Workers : WorkShape(work[w])
  /\ late \subseteq Groups \X SUBSET (Users \cup Ignored)
  /\ group \in [Groups -> SUBSET (Users \cup Ignored)]
  /\ missed \subseteq Groups
  /\ overtaken \subseteq Groups
  /\ lost \subseteq Groups
  /\ edited \subseteq Groups
  /\ failures \in 0..MaxFailures
  /\ operator \in 0..MaxOperator

InStep(g) == group[g] \cap Users = desired[g]

\* No reconcile of g is pending or running, and no late PATCH of it is out.
Quiescent(g) ==
  /\ g \notin pending
  /\ \A w \in Workers : ~ On(w, g)
  /\ \A l \in late : l[1] # g

\* Two open transactions never hold an uncommitted row for one group, and
\* none holds one for a group already pending: the partial unique index,
\* with the waiting that publishReconcileOwnedGroup's INSERT does.
OnePendingRow ==
  \A p \in Requests : /\ mine[p] \cap pending = {}
                      /\ \A q \in Requests \ {p} : mine[p] \cap mine[q] = {}

\* When nothing is left to do for a group, Authentik agrees with the
\* committed team_memberships, unless one of three things happened and no
\* reconcile has read the group since: a change was coalesced onto a row
\* that was claimed before it committed, two snapshots of the group were
\* around at once, or a reconcile was given up.
ConvergedOrAccounted ==
  \A g \in Groups :
    Quiescent(g) /\ g \notin missed \cup overtaken \cup lost => InStep(g)

\* Only an operator changes which ignored accounts are in a group: the
\* full-list PATCH neither strips one nor brings one back, however late it
\* comes (the promise of preserveIgnoredMembers), unless the operator's edit
\* fell between the GET of that list and its PATCH.
IgnoredUntouched ==
  [][operator' = operator =>
       \A g \in Groups \ edited : group'[g] \cap Ignored = group[g] \cap Ignored]_vars

\* No request hangs on another's uncommitted reconcile row: each of the finitely
\* many leaves its transaction for good; and with the sweep on the groups then agree
\* with the database for good, whatever was missed, overtaken, lost or late.
SweepConverges ==
  <>[](/\ \A p \in Requests : request[p].stage # "open"
       /\ \A g \in Groups : InStep(g))
=============================================================================
