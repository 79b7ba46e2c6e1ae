--------------------------- MODULE AccessRequests ---------------------------
(***************************************************************************)
(* One person's way from signing up to being a user: the requests made     *)
(* with one e-mail address, the deciders who approve or deny them, the     *)
(* account an approval makes in Authentik before its transaction, the row  *)
(* in users, and the periodic sync that turns accounts into rows and       *)
(* orphans rows whose account is gone.  Everything that is not a           *)
(* transaction or a single statement is a step of its own.                 *)
(***************************************************************************)
EXTENDS Naturals, FiniteSets, FiniteSetsExt

CONSTANTS
  Rows,          \* ids of access_requests, 1 .. n, in the order of creation
  Teams,         \* teams a person can ask for
  Pseudonymous,  \* those whose organisation mints usernames
  Visitors,      \* sign-up sessions
  Deciders,      \* sessions of administrators
  Pks,           \* account ids of Authentik, 1 .. n
  MaxDecisions,  \* bound: approvals and denials begun
  MaxFaults      \* bound: crashes, lost answers, refusals, deletions

VARIABLES
  req,      \* access_requests of the address: [st, team]
  made,     \* rows and accounts made so far
  form,     \* what each sign-up session is about to do
  dec,      \* the decisions in progress
  acct,     \* accounts of the address: how the username came about
  user,     \* the row in users (the address is unique): [ak, st, team]
  cleanup,  \* accounts with a queued cleanup_orphaned_authentik_user
  sync,     \* the periodic sync: its stage and the accounts it fetched
  used,     \* decisions and faults so far
  past      \* history: what has happened that the properties excuse

vars == <<req, made, form, dec, acct, user, cleanup, sync, used, past>>

None == "none"
NoPk == 0
NoRow == 0
NoForm == [at |-> "idle", row |-> NoRow]
NoReq == [st |-> None, team |-> None]
NoUser == [ak |-> NoPk, st |-> None, team |-> None]
Idle == [pc |-> "idle", row |-> NoRow, team |-> None, pk |-> NoPk, claim |-> FALSE, reclaim |-> FALSE]

TypeOK ==
  /\ req \in [Rows -> [st : {None, "unverified", "pending", "approved", "denied"}, team : Teams \cup {None}]]
  /\ made \in [rows : Rows \cup {NoRow}, accts : Pks \cup {NoPk}]
  /\ form \in [Visitors -> [at : {"idle", "insert", "submit"}, row : Rows \cup {NoRow}]]
  /\ dec \in [Deciders -> [pc : {"idle", "identity", "lookup", "post", "transact", "compensate", "deny"},
                           row : Rows \cup {NoRow}, team : Teams \cup {None},
                           pk : Pks \cup {NoPk}, claim : BOOLEAN, reclaim : BOOLEAN]]
  /\ acct \in [Pks -> {None, "email", "minted"}]
  /\ user \in [ak : Pks \cup {NoPk}, st : {None, "claim", "active", "orphaned"}, team : Teams \cup {None}]
  /\ cleanup \subseteq Pks
  /\ sync \in [stage : {"idle", "upsert", "sweep"}, fetched : SUBSET Pks]
  /\ used \in [decisions : 0 .. MaxDecisions, faults : 0 .. MaxFaults]
  /\ past \in [stray : BOOLEAN, claimLeft : BOOLEAN, lostCommit : BOOLEAN, lateDenial : SUBSET Rows,
               resubmitted : SUBSET Rows, deleted : BOOLEAN, kept : SUBSET Pks]

Init ==
  /\ req = [r \in Rows |-> NoReq]
  /\ made = [rows |-> NoRow, accts |-> NoPk]
  /\ form = [v \in Visitors |-> NoForm]
  /\ dec = [d \in Deciders |-> Idle]
  /\ acct = [k \in Pks |-> None]
  /\ user = NoUser
  /\ cleanup = {}
  /\ sync = [stage |-> "idle", fetched |-> {}]
  /\ used = [decisions |-> 0, faults |-> 0]
  /\ past = [stray |-> FALSE, claimLeft |-> FALSE, lostCommit |-> FALSE, lateDenial |-> {},
             resubmitted |-> {}, deleted |-> FALSE, kept |-> {}]

Accounts == {k \in Pks : acct[k] # None}
Fault == used.faults < MaxFaults /\ used' = [used EXCEPT !.faults = @ + 1]
Decision == used.decisions < MaxDecisions /\ used' = [used EXCEPT !.decisions = @ + 1]

-----------------------------------------------------------------------------
(* Signing up.                                                             *)

\* Only the newest request of the address is looked at, whatever its type.
EmailState ==
  LET known == {r \in Rows : req[r] # NoReq} IN
  IF user.st \in {"active", "claim"} /\ user.team # None THEN "active"
  ELSE IF known = {} THEN "new"
  ELSE IF req[Max(known)].st = "pending" THEN "pending_approval"
  ELSE IF req[Max(known)].st = "unverified" THEN "pending_verification"
  ELSE "new"

DetermineEmailState(v) ==
  /\ form[v] = NoForm /\ made.rows + 1 \in Rows /\ EmailState = "new"
  /\ form' = [form EXCEPT ![v].at = "insert"]
  /\ UNCHANGED <<req, made, dec, acct, user, cleanup, sync, used, past>>

\* Two statements; what another session inserted meanwhile is not noticed.
InitiateSignup(v) ==
  /\ form[v].at = "insert"
  /\ form' = [form EXCEPT ![v] = NoForm]
  /\ IF made.rows + 1 \in Rows
     THEN /\ made' = [made EXCEPT !.rows = @ + 1]
          /\ req' = [r \in Rows |-> IF r = made.rows + 1 THEN [st |-> "unverified", team |-> None]
                                    ELSE IF req[r].st = "denied" THEN NoReq ELSE req[r]]
     ELSE UNCHANGED <<made, req>>
  /\ UNCHANGED <<dec, acct, user, cleanup, sync, used, past>>

ReadToken(v, r) ==
  /\ form[v] = NoForm /\ req[r].st = "unverified"
  /\ form' = [form EXCEPT ![v] = [at |-> "submit", row |-> r]]
  /\ UNCHANGED <<req, made, dec, acct, user, cleanup, sync, used, past>>

\* By id: a token submitted twice changes a request that is decided already.
SubmitTeamAccess(v, t) ==
  /\ form[v].at = "submit"
  /\ LET r == form[v].row IN
       /\ req' = [req EXCEPT ![r] = CASE @.st = None -> @
                                      [] @.st = "unverified" -> [st |-> "pending", team |-> t]
                                      [] OTHER -> [@ EXCEPT !.team = t]]
       /\ past' = IF req[r].st = "approved" THEN [past EXCEPT !.resubmitted = @ \cup {r}] ELSE past
  /\ form' = [form EXCEPT ![v] = NoForm]
  /\ UNCHANGED <<made, dec, acct, user, cleanup, sync, used>>

-----------------------------------------------------------------------------
(* Approving.                                                              *)

At(d, pc) == dec[d].pc = pc
Goto(d, pc) == dec' = [dec EXCEPT ![d].pc = pc]

\* An approval ends without its transaction; nothing removes its Claim_Row.
Abandon(d, stray) ==
  /\ dec' = [dec EXCEPT ![d] = Idle]
  /\ past' = [past EXCEPT !.claimLeft = @ \/ dec[d].claim, !.stray = @ \/ stray]

ApproveRequest(d, r) ==
  /\ At(d, "idle") /\ req[r].st = "pending" /\ Decision
  /\ dec' = [dec EXCEPT ![d] = [Idle EXCEPT !.pc = "identity", !.row = r, !.team = req[r].team]]
  /\ UNCHANGED <<req, made, form, acct, user, cleanup, sync, past>>

\* The address is unique: a Claim_Row cannot be inserted beside another row.
MintClaim(d) ==
  /\ At(d, "identity") /\ dec[d].team \in Pseudonymous
  /\ IF user.st # None THEN Abandon(d, FALSE) /\ UNCHANGED user
     ELSE /\ user' = [NoUser EXCEPT !.st = "claim"]
          /\ dec' = [dec EXCEPT ![d].pc = "lookup", ![d].claim = TRUE]
          /\ UNCHANGED past
  /\ UNCHANGED <<req, made, form, acct, cleanup, sync, used>>

FindReclaimable(d) ==
  /\ At(d, "identity") /\ dec[d].team \notin Pseudonymous
  /\ dec' = [dec EXCEPT ![d].pc = "lookup", ![d].reclaim = user.st = "orphaned"]
  /\ UNCHANGED <<req, made, form, acct, user, cleanup, sync, used, past>>

LookupAccount(d) ==
  /\ At(d, "lookup")
  /\ IF Accounts # {} THEN Abandon(d, FALSE) ELSE Goto(d, "post") /\ UNCHANGED past
  /\ UNCHANGED <<req, made, form, acct, user, cleanup, sync, used>>

\* Usernames are unique in Authentik; without a minted one it is the address.
Refuses(d) == ~dec[d].claim /\ \E k \in Pks : acct[k] = "email"

CreateAccount(d) ==
  /\ At(d, "post")
  /\ IF Refuses(d) THEN Abandon(d, FALSE) /\ UNCHANGED <<made, acct, used>>
     ELSE /\ made.accts + 1 \in Pks
          /\ made' = [made EXCEPT !.accts = @ + 1]
          /\ acct' = [acct EXCEPT ![made.accts + 1] = IF dec[d].claim THEN "minted" ELSE "email"]
          /\ \/ /\ dec' = [dec EXCEPT ![d].pc = "transact", ![d].pk = made.accts + 1]
                /\ UNCHANGED <<used, past>>
             \/ Fault /\ Abandon(d, TRUE)
  /\ UNCHANGED <<req, form, user, cleanup, sync>>

\* The row the transaction adopts or inserts, if its constraints allow it: the
\* address is unique, and a user has one direct membership.
Adoptable(d) ==
  /\ user.team = None
  /\ dec[d].claim \/ dec[d].reclaim \/ user.st = None \/ user.ak = dec[d].pk

Adopted(d) ==
  [ak |-> dec[d].pk, team |-> req[dec[d].row].team,
   st |-> IF dec[d].reclaim \/ user.st # "orphaned" THEN "active" ELSE user.st]

\* Mutant: the request is locked but its status is not asked again.
LockedAnyhow(d) == req[dec[d].row] # NoReq

Locked(d) == req[dec[d].row].st = "pending"

Commit(d) ==
  /\ req' = [req EXCEPT ![dec[d].row].st = "approved"]
  /\ user' = Adopted(d)

\* The locked row is read again.  An error of COMMIT is taken for a rollback.
Transact(d) ==
  /\ At(d, "transact")
  /\ IF Locked(d) /\ Adoptable(d)
     THEN \/ /\ Commit(d) /\ dec' = [dec EXCEPT ![d] = Idle]
             /\ UNCHANGED <<used, past>>
          \/ /\ Fault /\ Commit(d) /\ Goto(d, "compensate")
             /\ past' = [past EXCEPT !.lostCommit = TRUE]
          \/ Fault /\ Goto(d, "compensate") /\ UNCHANGED <<req, user, past>>
     ELSE Goto(d, "compensate") /\ UNCHANGED <<req, user, used, past>>
  /\ UNCHANGED <<made, form, acct, cleanup, sync>>

\* Mutant: a failed transaction leaves the account.
CompensateNothing(d) ==
  /\ At(d, "compensate") /\ Abandon(d, FALSE)
  /\ UNCHANGED <<req, made, form, acct, user, cleanup, sync, used>>

\* The deletion, else a queued one, else neither.
Compensate(d) ==
  /\ At(d, "compensate")
  /\ \/ /\ acct' = [acct EXCEPT ![dec[d].pk] = None]
        /\ Abandon(d, FALSE) /\ UNCHANGED <<cleanup, used>>
     \/ /\ Fault /\ cleanup' = cleanup \cup {dec[d].pk}
        /\ Abandon(d, FALSE) /\ UNCHANGED acct
     \/ Fault /\ Abandon(d, TRUE) /\ UNCHANGED <<acct, cleanup>>
  /\ UNCHANGED <<req, made, form, user, sync>>

\* A crash, or a call that fails before the account exists (the suffix is
\* checked after the claim, and may be taken).
Fails(d) ==
  /\ dec[d].pc \notin {"idle", "deny"} /\ Fault
  /\ Abandon(d, dec[d].pk # NoPk)
  /\ UNCHANGED <<req, made, form, acct, user, cleanup, sync>>

-----------------------------------------------------------------------------
(* Denying.                                                                *)

DenyRequest(d, r) ==
  /\ At(d, "idle") /\ req[r].st = "pending" /\ Decision
  /\ dec' = [dec EXCEPT ![d] = [Idle EXCEPT !.pc = "deny", !.row = r]]
  /\ UNCHANGED <<req, made, form, acct, user, cleanup, sync, past>>

\* The read takes no lock and the update has no condition on the status.
WriteDenial(d) ==
  /\ At(d, "deny")
  /\ LET r == dec[d].row IN
       /\ req' = IF req[r] = NoReq THEN req ELSE [req EXCEPT ![r].st = "denied"]
       /\ past' = IF req[r].st = "approved" THEN [past EXCEPT !.lateDenial = @ \cup {r}] ELSE past
  /\ dec' = [dec EXCEPT ![d] = Idle]
  /\ UNCHANGED <<made, form, acct, user, cleanup, sync, used>>

-----------------------------------------------------------------------------
(* The worker, the periodic sync and the operator.                         *)

CleanupAccount(k) ==
  /\ k \in cleanup
  /\ acct' = [acct EXCEPT ![k] = None]
  /\ cleanup' = cleanup \ {k}
  /\ UNCHANGED <<req, made, form, dec, user, sync, used, past>>

\* A refusal, or the last of the retries: the operation ends as failed.
CleanupFails(k) ==
  /\ k \in cleanup
  /\ cleanup' = cleanup \ {k}
  /\ past' = [past EXCEPT !.kept = @ \cup {k}]
  /\ UNCHANGED <<req, made, form, dec, acct, user, sync, used>>

FetchAccounts ==
  /\ sync.stage = "idle" /\ made.accts # NoPk
  /\ sync' = [stage |-> "upsert", fetched |-> Accounts]
  /\ UNCHANGED <<req, made, form, dec, acct, user, cleanup, used, past>>

\* A row of the address with another account id makes the upsert fail.
UpsertUsers ==
  /\ sync.stage = "upsert"
  /\ IF user.st = None /\ sync.fetched # {}
     THEN \E k \in sync.fetched : user' = [ak |-> k, st |-> "active", team |-> None]
     ELSE UNCHANGED user
  /\ sync' = [sync EXCEPT !.stage = "sweep"]
  /\ UNCHANGED <<req, made, form, dec, acct, cleanup, used, past>>

SweepOrphans ==
  /\ sync.stage = "sweep"
  /\ user' = IF user.ak # NoPk /\ user.ak \notin sync.fetched THEN [user EXCEPT !.st = "orphaned"] ELSE user
  /\ sync' = [stage |-> "idle", fetched |-> {}]
  /\ UNCHANGED <<req, made, form, dec, acct, cleanup, used, past>>

OperatorDeletes(k) ==
  /\ acct[k] # None /\ user.ak = k /\ Fault
  /\ acct' = [acct EXCEPT ![k] = None]
  /\ past' = [past EXCEPT !.deleted = TRUE]
  /\ UNCHANGED <<req, made, form, dec, user, cleanup, sync>>

Approves(d) ==
  \/ MintClaim(d)
  \/ FindReclaimable(d)
  \/ LookupAccount(d)
  \/ CreateAccount(d)
  \/ Transact(d)
  \/ Compensate(d)
  \/ Fails(d)

Next ==
  \/ \E v \in Visitors : \/ DetermineEmailState(v)
                         \/ InitiateSignup(v)
                         \/ \E r \in Rows : ReadToken(v, r)
                         \/ \E t \in Teams : SubmitTeamAccess(v, t)
  \/ \E d \in Deciders : \/ \E r \in Rows : ApproveRequest(d, r) \/ DenyRequest(d, r)
                         \/ Approves(d)
                         \/ WriteDenial(d)
  \/ \E k \in Pks : CleanupAccount(k) \/ CleanupFails(k) \/ OperatorDeletes(k)
  \/ FetchAccounts
  \/ UpsertUsers
  \/ SweepOrphans

Spec == Init /\ [][Next]_vars

-----------------------------------------------------------------------------
Working(k) == k \in cleanup \/ \E d \in Deciders : dec[d].pk = k

\* An account that no decision is working on and no cleanup will delete is the
\* account of the row in users, so there is one of them, whatever approvals of
\* one request or of two with one address overlapped: unless an approval was
\* cut off after it had made the account, or the answer was lost, or the cleanup
\* of this very account failed for good.
NoStrayAccount ==
  \A k \in Accounts : Working(k) \/ user.ak = k \/ k \in past.kept \/ past.stray

\* An approved request has made its person a user: the row has an account that
\* exists, and the team the request names.  Excused: the answer of COMMIT was
\* lost (the account is then deleted although the row is committed), an operator
\* deleted the account, the form was submitted again after the approval.
ApprovedIsUser ==
  \A r \in Rows : req[r].st = "approved" =>
    /\ user.ak \in Accounts \/ past.lostCommit \/ past.deleted
    /\ user.team = req[r].team \/ r \in past.resubmitted \/ past.deleted

CanApprove(r) ==
  /\ Accounts = {}
  /\ user.st = None \/ (user.st = "orphaned" /\ user.team = None /\ req[r].team \notin Pseudonymous)

Rest == cleanup = {} /\ sync.stage = "idle" /\ \A d \in Deciders : dec[d].pc = "idle"

\* A request left pending can still be approved, whatever was tried before:
\* unless the person is a user (or an orphaned one, who keeps the team), an
\* account or a Claim_Row was left behind by an approval or a cleanup that
\* failed, or the sync has made a row of an account that was then deleted.
PendingCanBeApproved ==
  Rest => \A r \in Rows : req[r].st = "pending" =>
    \/ CanApprove(r)
    \/ user.team # None
    \/ past.stray \/ past.claimLeft \/ past.kept \cap Accounts # {}
    \/ user.ak # NoPk /\ user.ak \notin Accounts

\* In every state accounts, users and requests fit together.
AccountsFollowRequests == TypeOK /\ NoStrayAccount /\ ApprovedIsUser /\ PendingCanBeApproved

\* What a step may do to a decided request.
KeepsDecisions ==
  \A r \in Rows : req[r].st # req'[r].st =>
    /\ req[r].st = "approved" => r \in past'.lateDenial
    /\ req[r].st = "denied" => req'[r].st = None

\* A decision stands: an approved request changes only by a denial that was read
\* while the request was pending, and a denied one is never approved.
DecisionsStand == [][KeepsDecisions]_vars
=============================================================================
