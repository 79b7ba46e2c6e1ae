--------------------------- MODULE AccountLifecycle ---------------------------
(***************************************************************************)
(* Suspending and unsuspending accounts (AccountLifecycleService) while    *)
(* the periodic Authentik sync (authentikSync) detects accounts locked,    *)
(* unlocked and deleted on Authentik's side and pushes local state back.   *)
(*                                                                         *)
(* An administrator's request commits locally and PATCHes Authentik        *)
(* afterwards.  A sync run fetches the directory page by page, then takes  *)
(* every fetched user through steps that rest on the fetched record and on *)
(* one local read, and last orphans the local accounts it did not fetch.   *)
(* is_active always equals "the status is active" where the two are        *)
(* written, so local is the status alone.                                  *)
(***************************************************************************)
EXTENDS Integers, FiniteSets

CONSTANTS
  Users,      \* Authentik pks, ordered as the fetch orders them
  Syncs,      \* web processes running the periodic sync
  PageSize,   \* users per page of GET /core/users/
  MaxActs,    \* bound on deliberate acts (administrators, operators, sign-ups)
  MaxFaults   \* bound on failed calls and crashes

ASSUME AccountLifecycleAssumption ==
  /\ Users \subseteq Nat
  /\ IsFiniteSet(Users)
  /\ PageSize \in Nat \ {0}
  /\ MaxActs \in Nat
  /\ MaxFaults \in Nat

VARIABLES
  local,      \* local[u]: users.account_status, "none" without a row
  ak,         \* ak[u]: the Authentik account
  patches,    \* <<u, value>>: PATCHes of committed requests not yet made
  revoked,    \* users whose certificate revocation was enqueued since last active
  run,        \* run[s]: the sync run of web process s
  intent,     \* intent[u]: the status the last deliberate act on u asked for
  disturbed,  \* users acted upon during a sync run or before a PATCH was made
  missed,     \* users a fault left between two writes that belong together
  lag,        \* users acted upon in Authentik, not followed by a run yet
  acts,       \* acts so far, at most MaxActs
  faults      \* faults so far, at most MaxFaults

accounts == <<local, ak, patches, revoked>>
history == <<intent, disturbed, missed, lag>>
vars == <<accounts, run, history, acts, faults>>

-----------------------------------------------------------------------------

\* saw: the fetched record; read: the local status syncSingleUser read; at:
\* how far the run is with u.
NoRun == [stage |-> "idle", page |-> 1, count |-> 0, reported |-> 0,
          saw |-> [u \in Users |-> "absent"],
          read |-> [u \in Users |-> "none"],
          at |-> [u \in Users |-> "none"]]

Exists(u) == ak[u] \in {"on", "off"}
Directory == {u \in Users : Exists(u)}

Status(value) == IF value = "on" THEN "active" ELSE "suspended"
Value(status) == IF status = "active" THEN "on" ELSE "off"

Patching(u) == \E value \in {"on", "off"} : <<u, value>> \in patches
Syncing == \E s \in Syncs : run[s].stage # "idle"

SpendFault == faults < MaxFaults /\ faults' = faults + 1

\* A deliberate act that sets the status of the account u.
Act(u, status) ==
  /\ acts < MaxActs
  /\ acts' = acts + 1
  /\ intent' = [intent EXCEPT ![u] = status]
  /\ UNCHANGED <<run, faults>>

\* An administrator's act overrides what went before, one made in Authentik
\* itself is to be followed by the next run.
Overrides(u) ==
  /\ disturbed' = IF Syncing \/ Patching(u) THEN disturbed \cup {u} ELSE disturbed \ {u}
  /\ missed' = missed \ {u}
  /\ lag' = IF Exists(u) THEN lag \ {u} ELSE lag

IsToBeFollowed(us, u) ==
  /\ disturbed' = IF Syncing \/ Patching(u) THEN disturbed \cup us ELSE disturbed
  /\ lag' = lag \cup {u}
  /\ UNCHANGED missed

Init ==
  \E known \in SUBSET Users :
    /\ \A u \in known, v \in Users : v < u => v \in known
    /\ local = [u \in Users |-> IF u \in known THEN "active" ELSE "none"]
    /\ ak = [u \in Users |-> IF u \in known THEN "on" ELSE "unborn"]
    /\ intent = local
    /\ patches = {}
    /\ revoked = {}
    /\ run = [s \in Syncs |-> NoRun]
    /\ disturbed = {}
    /\ missed = {}
    /\ lag = {}
    /\ acts = 0
    /\ faults = 0

-----------------------------------------------------------------------------
(* Administrators.                                                         *)

\* suspendAccount: the row lock makes check and write one step; the
\* revocation is enqueued in the transaction, the PATCH comes after it.
Suspend(u) ==
  /\ local[u] = "active"
  /\ Act(u, "suspended")
  /\ Overrides(u)
  /\ local' = [local EXCEPT ![u] = "suspended"]
  /\ revoked' = revoked \cup {u}
  /\ patches' = patches \cup {<<u, "off">>}
  /\ UNCHANGED ak

Unsuspend(u) ==
  /\ local[u] = "suspended"
  /\ Act(u, "active")
  /\ Overrides(u)
  /\ local' = [local EXCEPT ![u] = "active"]
  /\ revoked' = revoked \ {u}
  /\ patches' = patches \cup {<<u, "on">>}
  /\ UNCHANGED ak

\* The PATCH after the commit; a deleted account answers 404.
Patch(u, value) ==
  /\ <<u, value>> \in patches
  /\ patches' = patches \ {<<u, value>>}
  /\ ak' = [ak EXCEPT ![u] = IF Exists(u) THEN value ELSE @]
  /\ UNCHANGED <<local, revoked, run, history, acts, faults>>

\* Best effort: a failed PATCH is logged.
PatchFails(u, value) ==
  /\ SpendFault
  /\ <<u, value>> \in patches
  /\ patches' = patches \ {<<u, value>>}
  /\ missed' = missed \cup {u}
  /\ UNCHANGED <<local, ak, revoked, run, intent, disturbed, lag, acts>>

-----------------------------------------------------------------------------
(* New accounts, and Authentik's own side.                                 *)

\* Authentik numbers its accounts in the order of their creation.
NextPk(u) == ak[u] = "unborn" /\ \A v \in Users : v < u => ak[v] # "unborn"

\* A sign-up or an import: the Authentik account and the local row.
Provision(u) ==
  /\ NextPk(u)
  /\ Act(u, "active")
  /\ Overrides(u)
  /\ ak' = [ak EXCEPT ![u] = "on"]
  /\ local' = [local EXCEPT ![u] = "active"]
  /\ UNCHANGED <<patches, revoked>>

OperatorCreates(u) ==
  /\ NextPk(u)
  /\ Act(u, "active")
  /\ IsToBeFollowed({u}, u)
  /\ ak' = [ak EXCEPT ![u] = "on"]
  /\ UNCHANGED <<local, patches, revoked>>

OperatorSets(u, value) ==
  /\ Exists(u)
  /\ ak[u] # value
  /\ Act(u, Status(value))
  /\ IsToBeFollowed({u}, u)
  /\ ak' = [ak EXCEPT ![u] = value]
  /\ UNCHANGED <<local, patches, revoked>>

\* A deletion moves the accounts after it to an earlier page.
OperatorDeletes(u) ==
  /\ Exists(u)
  /\ Act(u, "orphaned")
  /\ IsToBeFollowed({v \in Users : v >= u}, u)
  /\ ak' = [ak EXCEPT ![u] = "gone"]
  /\ UNCHANGED <<local, patches, revoked>>

-----------------------------------------------------------------------------
(* A sync run: the fetch.                                                  *)

\* isRunning keeps a process to one run at a time.
StartRun(s) ==
  /\ run[s].stage = "idle"
  /\ run' = [run EXCEPT ![s] = [NoRun EXCEPT !.stage = "fetching"]]
  /\ disturbed' = disturbed \cup {u \in Users : Patching(u)}
  /\ UNCHANGED <<accounts, intent, missed, lag, acts, faults>>

\* u's place in the directory ordered by pk, from 0.
Place(u) == Cardinality({v \in Directory : v < u})

OnPage(page) == {u \in Directory : Place(u) \div PageSize = page - 1}

Pages == (Cardinality(Directory) + PageSize - 1) \div PageSize

\* The run after a page: every page reports the number of users at that
\* moment.
Fetched(r) ==
  [r EXCEPT !.page = @ + 1,
            !.count = @ + Cardinality(OnPage(r.page)),
            !.reported = Cardinality(Directory),
            !.saw = [u \in Users |-> IF u \in OnPage(r.page) THEN ak[u] ELSE @[u]]]

\* After the last page every fetched user is queued for syncSingleUser.
Queued(r) ==
  [r EXCEPT !.stage = "syncing",
            !.at = [u \in Users |-> IF r.saw[u] # "absent" THEN "queued" ELSE "none"]]

\* Mutant: a page past the end is asked for again.
FetchPageAgain(s) ==
  LET r == run[s]
  IN  /\ r.stage = "fetching"
      /\ run' = [run EXCEPT ![s] =
           IF r.page < Pages THEN Fetched(r)
           ELSE IF r.page > Pages /\ r.page > 1 THEN r
           ELSE Queued(Fetched(r))]
      /\ UNCHANGED <<accounts, history, acts, faults>>

\* Every page is a request of its own.  A page past the end answers 404,
\* which ends the run.
FetchPage(s) ==
  LET r == run[s]
  IN  /\ r.stage = "fetching"
      /\ run' = [run EXCEPT ![s] =
           IF r.page < Pages THEN Fetched(r)
           ELSE IF r.page > Pages /\ r.page > 1 THEN NoRun
           ELSE Queued(Fetched(r))]
      /\ UNCHANGED <<accounts, history, acts, faults>>

-----------------------------------------------------------------------------
(* A sync run: one fetched user (syncSingleUser).                          *)

\* u's handling by the run of s reaches a step, with what it now takes u's
\* local status to be.
Reach(s, u, step, status) ==
  run' = [run EXCEPT ![s].at[u] = step, ![s].read[u] = status]

At(s, u, step) == run[s].at[u] = step
Saw(s, u) == run[s].saw[u]
Read(s, u) == run[s].read[u]

\* The upsert, which inserts an account unknown so far and changes no
\* status, and the read that follows it.  An orphaned row is left alone.
ReadLocal(s, u) ==
  LET status == IF local[u] = "none" THEN "active" ELSE local[u]
  IN  /\ At(s, u, "queued")
      /\ local' = [local EXCEPT ![u] = status]
      /\ Reach(s, u, IF status = "orphaned" THEN "none" ELSE "read", status)
      /\ UNCHANGED <<ak, patches, revoked, history, acts, faults>>

NeedsLock(s, u) == At(s, u, "read") /\ Saw(s, u) = "off" /\ Read(s, u) = "active"
NeedsUnlock(s, u) == At(s, u, "read") /\ Saw(s, u) = "on" /\ Read(s, u) = "suspended"

\* Three statements without a transaction: the status, then the revocation.
ExternalLock(s, u) ==
  /\ NeedsLock(s, u)
  /\ local' = [local EXCEPT ![u] = "suspended"]
  /\ Reach(s, u, "locking", "active")
  /\ UNCHANGED <<ak, patches, revoked, history, acts, faults>>

\* Mutant: the copy of the row is not brought up to date.
LockRevokesOnly(s, u) ==
  /\ At(s, u, "locking")
  /\ revoked' = revoked \cup {u}
  /\ Reach(s, u, "push", "active")
  /\ UNCHANGED <<local, ak, patches, history, acts, faults>>

LockRevokes(s, u) ==
  /\ At(s, u, "locking")
  /\ revoked' = revoked \cup {u}
  /\ Reach(s, u, "push", "suspended")
  /\ UNCHANGED <<local, ak, patches, history, acts, faults>>

\* The copy of the row keeps "active", and the push goes on with it.
LockFails(s, u) ==
  /\ SpendFault
  /\ NeedsLock(s, u) \/ At(s, u, "locking")
  /\ Reach(s, u, "push", "active")
  /\ missed' = missed \cup {u}
  /\ UNCHANGED <<accounts, intent, disturbed, lag, acts>>

ExternalUnlock(s, u) ==
  /\ NeedsUnlock(s, u)
  /\ local' = [local EXCEPT ![u] = "active"]
  /\ revoked' = revoked \ {u}
  /\ Reach(s, u, "push", "active")
  /\ UNCHANGED <<ak, patches, history, acts, faults>>

\* The first statement, or one after it, fails.
UnlockFails(s, u) ==
  /\ SpendFault
  /\ NeedsUnlock(s, u)
  /\ \E status \in {local[u], "active"} :
       /\ local' = [local EXCEPT ![u] = status]
       /\ revoked' = IF status = "active" THEN revoked \ {u} ELSE revoked
  /\ Reach(s, u, "push", "suspended")
  /\ missed' = missed \cup {u}
  /\ UNCHANGED <<ak, patches, intent, disturbed, lag, acts>>

ReadyToPush(s, u) ==
  \/ At(s, u, "push")
  \/ At(s, u, "read") /\ ~NeedsLock(s, u) /\ ~NeedsUnlock(s, u)

\* The PATCH carries is_active with the attributes, so it is also made, and
\* sets is_active, when only an attribute differs.
Push(s, u, attributesDiffer) ==
  /\ ReadyToPush(s, u)
  /\ ak' = [ak EXCEPT ![u] =
       IF Exists(u) /\ (attributesDiffer \/ Saw(s, u) # Value(Read(s, u)))
       THEN Value(Read(s, u)) ELSE @]
  /\ Reach(s, u, "none", "none")
  /\ lag' = IF Exists(u) THEN lag \ {u} ELSE lag
  /\ UNCHANGED <<local, patches, revoked, intent, disturbed, missed, acts, faults>>

\* One user's failure is logged and the run goes on with the others.
SyncFails(s, u) ==
  /\ SpendFault
  /\ At(s, u, "queued") \/ ReadyToPush(s, u)
  /\ Reach(s, u, "none", "none")
  /\ UNCHANGED <<accounts, history, acts>>

-----------------------------------------------------------------------------
(* A sync run: the Reconciliation_Sweep and the end of the run.            *)

AllHandled(s) == \A u \in Users : At(s, u, "none")

\* The completeness guard, the refusal of an empty list and the candidates.
StartSweep(s) ==
  LET complete == run[s].count = run[s].reported /\ run[s].count > 0
      candidate(u) == Saw(s, u) = "absent" /\ local[u] \in {"active", "suspended"}
  IN  /\ run[s].stage = "syncing"
      /\ AllHandled(s)
      /\ run' = [run EXCEPT ![s].stage = "sweeping",
                            ![s].at = [u \in Users |->
                              IF complete /\ candidate(u) THEN "orphaning" ELSE "none"]]
      /\ UNCHANGED <<accounts, history, acts, faults>>

\* Candidates one after another, the revocation before the status.
SweepRevoke(s, u) ==
  /\ At(s, u, "orphaning")
  /\ \A v \in Users : ~At(s, v, "marking")
  /\ revoked' = revoked \cup {u}
  /\ Reach(s, u, "marking", "none")
  /\ UNCHANGED <<local, ak, patches, history, acts, faults>>

SweepMark(s, u) ==
  /\ At(s, u, "marking")
  /\ local' = [local EXCEPT ![u] = "orphaned"]
  /\ Reach(s, u, "none", "none")
  /\ lag' = lag \ {u}
  /\ UNCHANGED <<ak, patches, revoked, intent, disturbed, missed, acts, faults>>

\* Mutant: the row is marked although the revocation failed.
SweepFailsAndMarks(s, u) ==
  /\ SpendFault
  /\ At(s, u, "orphaning")
  /\ Reach(s, u, "marking", "none")
  /\ UNCHANGED <<accounts, history, acts>>

SweepFails(s, u) ==
  /\ SpendFault
  /\ At(s, u, "orphaning") \/ At(s, u, "marking")
  /\ Reach(s, u, "none", "none")
  /\ UNCHANGED <<accounts, history, acts>>

EndRun(s) ==
  /\ run[s].stage = "sweeping"
  /\ AllHandled(s)
  /\ run' = [run EXCEPT ![s] = NoRun]
  /\ UNCHANGED <<accounts, history, acts, faults>>

\* A page that cannot be fetched, or a restart of the process.
AbandonRun(s) ==
  /\ SpendFault
  /\ run[s].stage # "idle"
  /\ run' = [run EXCEPT ![s] = NoRun]
  /\ missed' = missed \cup {u \in Users : At(s, u, "locking")}
  /\ UNCHANGED <<accounts, intent, disturbed, lag, acts>>

-----------------------------------------------------------------------------

Administer ==
  \E u \in Users :
    \/ Suspend(u)
    \/ Unsuspend(u)
    \/ Provision(u)
    \/ \E value \in {"on", "off"} : PatchFails(u, value)

Operate ==
  \E u \in Users :
    \/ OperatorCreates(u)
    \/ OperatorDeletes(u)
    \/ \E value \in {"on", "off"} : OperatorSets(u, value)

PatchNext == \E u \in Users, value \in {"on", "off"} : Patch(u, value)

SyncUser(s, u) ==
  \/ ReadLocal(s, u)
  \/ ExternalLock(s, u)
  \/ LockRevokes(s, u)
  \/ ExternalUnlock(s, u)
  \/ \E attributesDiffer \in BOOLEAN : Push(s, u, attributesDiffer)
  \/ SweepRevoke(s, u)
  \/ SweepMark(s, u)

SyncNext(s) ==
  \/ StartRun(s)
  \/ FetchPage(s)
  \/ \E u \in Users : SyncUser(s, u)
  \/ StartSweep(s)
  \/ EndRun(s)

Fail(s) ==
  \/ AbandonRun(s)
  \/ \E u \in Users :
       LockFails(s, u) \/ UnlockFails(s, u) \/ SyncFails(s, u) \/ SweepFails(s, u)

Next ==
  \/ Administer
  \/ Operate
  \/ PatchNext
  \/ \E s \in Syncs : SyncNext(s) \/ Fail(s)

Spec == Init /\ [][Next]_vars

\* A request that committed makes its PATCH; setInterval starts a run again
\* and a run that has started goes on.
Fairness == WF_vars(PatchNext) /\ \A s \in Syncs : WF_vars(SyncNext(s))

FairSpec == Spec /\ Fairness

-----------------------------------------------------------------------------

Statuses == {"none", "active", "suspended", "orphaned"}
Steps == {"none", "queued", "read", "locking", "push", "orphaning", "marking"}

Runs == [stage : {"idle", "fetching", "syncing", "sweeping"},
         page : Nat \ {0}, count : Nat, reported : Nat,
         saw : [Users -> {"absent", "on", "off"}],
         read : [Users -> Statuses],
         at : [Users -> Steps]]

\* Every variable keeps its type; a row exists only for an account that was
\* created, and only users the run is with have a step.
TypeOK ==
  /\ local \in [Users -> Statuses]
  /\ ak \in [Users -> {"unborn", "on", "off", "gone"}]
  /\ \A u \in Users : ak[u] = "unborn" => local[u] = "none"
  /\ patches \subseteq Users \X {"on", "off"}
  /\ revoked \subseteq Users
  /\ run \in [Syncs -> Runs]
  /\ intent \in [Users -> Statuses]
  /\ disturbed \subseteq Users
  /\ missed \subseteq Users
  /\ lag \subseteq Users
  /\ acts \in 0..MaxActs
  /\ faults \in 0..MaxFaults

\* An account nobody touched during a sync run has, on both sides, the
\* status the last deliberate act gave it, whatever runs came after and
\* whatever failed in them, save a PATCH, a lock or an unlock half made
\* (AccountLifecycleService, authentikSync).
StatusFollowsIntent ==
  \A u \in Users \ (disturbed \cup missed \cup lag) :
    ak[u] \in {"on", "off"} =>
      /\ local[u] = intent[u]
      /\ Patching(u) \/ ak[u] = Value(intent[u])

\* An account that is cut off has had its certificates revoked since it was
\* last active: the sweep revokes before it marks, so a failure between the
\* two never leaves an orphan with certificates (authentikSync.js:526-606).
RevokedWhenCut ==
  \A u \in Users \ (disturbed \cup revoked) :
    /\ local[u] # "orphaned"
    /\ local[u] = "suspended" =>
         u \in missed \/ \E s \in Syncs : At(s, u, "locking")

Agree(u) ==
  CASE ak[u] = "gone" -> local[u] \in {"orphaned", "none"}
    [] Exists(u) -> local[u] \in {Status(ak[u]), "orphaned"}
    [] OTHER -> TRUE

\* Once nobody acts any more the two sides come to agree and stay so
\* ("Authentik-side drift is corrected"); an empty directory stops the sweep.
AgreeEventually == <>[](Directory # {} => \A u \in Users : Agree(u))
=============================================================================
