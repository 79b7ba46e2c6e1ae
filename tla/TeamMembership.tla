---------------------------- MODULE TeamMembership ----------------------------
(***************************************************************************)
(* Adding a user to a team, removing one and transferring one              *)
(* (TeamMembershipService, TeamTransferService), statement by statement,   *)
(* as concurrent PostgreSQL transactions at READ COMMITTED, and what the   *)
(* operations they publish make of the users' Authentik groups.            *)
(*                                                                         *)
(* Every team has a primary channel and that channel an Authentik group,   *)
(* so one name stands for the three.  A DELETE sees the rows committed     *)
(* when it starts and takes them one by one: at a row another transaction  *)
(* has locked it waits, holding those it has taken, and it skips a row     *)
(* that transaction deleted.  Rows inserted meanwhile are not seen, hence  *)
(* rows carry the request that inserted them.  Transactions that wait for  *)
(* each other are a deadlock, which PostgreSQL ends with an error for one  *)
(* of them.                                                                *)
(*                                                                         *)
(* Reconciling is BULK_GROUP_RECONCILE_ENABLED: the published operations   *)
(* are then one "recompute this group" per team (whose own races are       *)
(* OwnedGroupReconcile's subject; here it is one step), otherwise one      *)
(* "add/remove this user" per team, run oldest first.                      *)
(***************************************************************************)
EXTENDS Integers, FiniteSets

CONSTANTS
  Users, Teams, Requests,
  None,         \* "no parent", "no team"
  Seed,         \* the author of the rows an initial state starts with
  Parent,       \* Parent[t]: t's parent team, or None for an Organisation
  Suffix,       \* Suffix[u]: the user's callsign_suffix
  Kinds,        \* the kinds of request this instance makes
  MaxOpen,      \* bound on requests under way at once
  Overlapping,  \* the kinds of request that may overlap in this instance
  Reconciling   \* BULK_GROUP_RECONCILE_ENABLED

ASSUME TeamMembershipAssumption ==
  /\ None \notin Teams
  /\ Seed \notin Requests
  /\ IsFiniteSet(Requests)
  /\ Parent \in [Teams -> Teams \cup {None}]
  /\ Users \subseteq DOMAIN Suffix
  /\ Kinds \subseteq {"add", "remove", "transfer"}
  /\ MaxOpen \in Nat
  /\ Overlapping \subseteq Kinds
  /\ Reconciling \in BOOLEAN

VARIABLES
  rows,      \* committed team_memberships
  channels,  \* committed channel_memberships, as <<user, team>>
  tx,        \* tx[p]: the transaction of request p
  begun,     \* transactions begun: the clock of created_at
  queue,     \* committed membership operations not yet run
  group,     \* group[t]: Authentik members of t's group
  revoked    \* users whose certificates and global groups are being revoked

vars == <<rows, channels, tx, begun, queue, group, revoked>>

-----------------------------------------------------------------------------

\* Teams closed under "parent of".
Upward(S) == \A x \in S : Parent[x] = None \/ Parent[x] \in S

\* The teams of t's chain, t and its ancestors: what WITH RECURSIVE collects.
Chain(t) == {a \in Teams : \A S \in SUBSET Teams : t \in S /\ Upward(S) => a \in S}

Row == [user : Users, team : Teams, from : Teams \cup {None}, by : Requests \cup {Seed}]

\* The direct row in t and an inherited one per ancestor.
ChainRows(u, t, p) ==
  {[user |-> u, team |-> t, from |-> None, by |-> p]} \cup
  {[user |-> u, team |-> a, from |-> t, by |-> p] : a \in Chain(t) \ {t}}

RowsOf(u) == {r \in rows : r.user = u}
Direct(S) == {r \in S : r.from = None}

Op == [kind : {"add", "remove"}, user : Users, team : Teams, created : Nat] \cup
      [kind : {"reconcile"}, user : {None}, team : Teams, created : {0}]

Idle == [stage |-> "idle", kind |-> "add", user |-> None, team |-> None, created |-> 0,
         seen |-> {}, locked |-> {}, inserted |-> {}, captured |-> {},
         cut |-> {}, joined |-> {}, ops |-> {}]

\* An open transaction.  seen: the rows the statement under way has yet
\* to lock; locked: rows deleted or locked FOR UPDATE; captured: teams
\* removeUserFromTeam read before deleting; cut, joined: channel rows
\* deleted and inserted; ops: operations published.
Open(p) == tx[p].stage \notin {"idle", "checked", "committed", "aborted"}

UnderWay == {p \in Requests : tx[p].stage \notin {"idle", "committed", "aborted"}}

\* Rows of p's user that another open transaction has deleted or locked.
LockedBySomeone(p, S) == \E q \in Requests \ {p} : Open(q) /\ tx[q].locked \cap S # {}

\* Mutant: the error path forgets ROLLBACK.
AbortWithoutRollback(p) == UNCHANGED vars

Abort(p) ==
  /\ tx' = [tx EXCEPT ![p] = [Idle EXCEPT !.stage = "aborted"]]
  /\ UNCHANGED <<rows, channels, begun, queue, group, revoked>>

Init ==
  \E home \in [Users -> Teams \cup {None}] :
    /\ rows = UNION {IF home[u] = None THEN {} ELSE ChainRows(u, home[u], Seed) : u \in Users}
    /\ \A u, v \in Users : u # v /\ home[u] = home[v] /\ home[u] # None => Suffix[u] # Suffix[v]
    /\ channels = {<<r.user, r.team>> : r \in rows}
    /\ group = [t \in Teams |-> {u \in Users : \E r \in rows : r.user = u /\ r.team = t}]
    /\ tx = [p \in Requests |-> Idle]
    /\ begun = 0
    /\ queue = {}
    /\ revoked = {}

-----------------------------------------------------------------------------
(* Beginning.                                                              *)

Start(p, kind) ==
  /\ tx[p].stage = "idle"
  /\ kind \in Kinds
  /\ Cardinality(UnderWay) < MaxOpen
  /\ \A q \in UnderWay : {kind, tx[q].kind} \subseteq Overlapping

\* Mutant: the check reads the inherited rows instead of excluding them.
CheckAddInherited(p) ==
  \E u \in Users, t \in Teams :
    /\ Start(p, "add")
    /\ RowsOf(u) \ Direct(RowsOf(u)) = {}
    /\ tx' = [tx EXCEPT ![p] = [Idle EXCEPT !.stage = "checked", !.kind = "add",
                                            !.user = u, !.team = t]]
    /\ UNCHANGED <<rows, channels, begun, queue, group, revoked>>

\* POST /users/add-to-team: "User is already a member of another team" is
\* decided before the transaction.
CheckAdd(p) ==
  \E u \in Users, t \in Teams :
    /\ Start(p, "add")
    /\ Direct(RowsOf(u)) = {}
    /\ tx' = [tx EXCEPT ![p] = [Idle EXCEPT !.stage = "checked", !.kind = "add",
                                            !.user = u, !.team = t]]
    /\ UNCHANGED <<rows, channels, begun, queue, group, revoked>>

\* addUserToTeam up to its uniqueness check, which reads committed rows.
SuffixTaken(p) ==
  \E r \in rows : /\ r.team = tx[p].team
                  /\ r.user # tx[p].user
                  /\ Suffix[r.user] = Suffix[tx[p].user]

BeginAdd(p) ==
  /\ tx[p].stage = "checked"
  /\ begun' = begun + 1
  /\ tx' = [tx EXCEPT ![p].stage = IF SuffixTaken(p) THEN "aborted" ELSE "clear",
                      ![p].created = begun + 1]
  /\ UNCHANGED <<rows, channels, queue, group, revoked>>

\* removeUserFromTeam: the channels to leave are read first, unlocked.
BeginRemove(p) ==
  \E u \in Users :
    /\ Start(p, "remove")
    /\ begun' = begun + 1
    /\ tx' = [tx EXCEPT ![p] = [Idle EXCEPT !.stage = "clear", !.kind = "remove", !.user = u,
                                  !.created = begun + 1,
                                  !.captured = {r.team : r \in RowsOf(u)}]]
    /\ UNCHANGED <<rows, channels, queue, group, revoked>>

BeginTransfer(p) ==
  \E u \in Users, t \in Teams :
    /\ Start(p, "transfer")
    /\ begun' = begun + 1
    /\ tx' = [tx EXCEPT ![p] = [Idle EXCEPT !.stage = "lock", !.kind = "transfer", !.user = u,
                                  !.team = t, !.created = begun + 1]]
    /\ UNCHANGED <<rows, channels, queue, group, revoked>>

-----------------------------------------------------------------------------
(* Statements.                                                             *)

\* A statement that must lock rows someone else holds keeps its snapshot
\* and waits.
Wait(p, stage, S) ==
  /\ LockedBySomeone(p, S)
  /\ tx' = [tx EXCEPT ![p].stage = stage, ![p].seen = S]
  /\ UNCHANGED <<rows, channels, begun, queue, group, revoked>>

\* executeTransfer: SELECT ... FOR UPDATE of the direct row.
LockWaits(p) ==
  tx[p].stage = "lock" /\ Wait(p, "lock waiting", Direct(RowsOf(tx[p].user)))

LockDirect(p) ==
  LET seen == IF tx[p].stage = "lock" THEN Direct(RowsOf(tx[p].user)) ELSE tx[p].seen
      found == seen \cap rows
      source == {r.team : r \in found}
  IN  /\ tx[p].stage \in {"lock", "lock waiting"}
      /\ ~ LockedBySomeone(p, seen)
      /\ IF source = {} \/ source = {tx[p].team}
         THEN Abort(p)   \* NoCurrentTeamError, AlreadyInDestinationTeamError
         ELSE /\ tx' = [tx EXCEPT ![p].locked = found,
                          ![p].stage = IF SuffixTaken(p) THEN "aborted" ELSE "clear"]
              /\ UNCHANGED <<rows, channels, begun, queue, group, revoked>>

\* DELETE FROM team_memberships WHERE user_id = ...: the rows committed now,
\* those the transaction has not locked before ...
DeleteStarts(p) ==
  /\ tx[p].stage = "clear"
  /\ tx' = [tx EXCEPT ![p].stage = "deleting",
                      ![p].seen = RowsOf(tx[p].user) \ tx[p].locked]
  /\ UNCHANGED <<rows, channels, begun, queue, group, revoked>>

\* ... in no order the code asks for, each once nobody else holds it.
DeleteRow(p) ==
  /\ tx[p].stage = "deleting"
  /\ \E r \in tx[p].seen :
       /\ ~ LockedBySomeone(p, {r})
       /\ tx' = [tx EXCEPT ![p].locked = @ \cup ({r} \cap rows), ![p].seen = @ \ {r}]
  /\ UNCHANGED <<rows, channels, begun, queue, group, revoked>>

DeleteEnds(p) ==
  /\ tx[p].stage = "deleting"
  /\ tx[p].seen = {}
  /\ tx' = [tx EXCEPT ![p].stage = IF tx[p].kind = "remove" THEN "leave" ELSE "insert"]
  /\ UNCHANGED <<rows, channels, begun, queue, group, revoked>>

\* Another transaction's uncommitted direct row, inserted or deleted: the
\* unique index makes the INSERT wait for its outcome.
DirectUndecided(p) ==
  \E q \in Requests \ {p} :
    /\ Open(q)
    /\ \E r \in Direct(tx[q].inserted \cup tx[q].locked) : r.user = tx[p].user

\* Mutant: without idx_team_memberships_one_direct_per_user.
InsertWithoutIndex(p) ==
  /\ tx[p].stage = "insert"
  /\ tx' = [tx EXCEPT ![p].stage = "join", ![p].inserted = ChainRows(tx[p].user, tx[p].team, p)]
  /\ UNCHANGED <<rows, channels, begun, queue, group, revoked>>

\* INSERT of the direct row (idx_team_memberships_one_direct_per_user) and
\* of one inherited row per ancestor.
InsertRows(p) ==
  /\ tx[p].stage = "insert"
  /\ ~ DirectUndecided(p)
  /\ IF Direct(RowsOf(tx[p].user)) \ tx[p].locked # {}
     THEN Abort(p)
     ELSE /\ tx' = [tx EXCEPT ![p].stage = "join",
                      ![p].inserted = ChainRows(tx[p].user, tx[p].team, p)]
          /\ UNCHANGED <<rows, channels, begun, queue, group, revoked>>

\* Another open transaction has deleted channel rows of p's user.
ChannelsLocked(p) ==
  \E q \in Requests \ {p} : Open(q) /\ \E c \in tx[q].cut : c[1] = tx[p].user

Published(p, kind, teams) ==
  {IF Reconciling
   THEN [kind |-> "reconcile", user |-> None, team |-> t, created |-> 0]
   ELSE [kind |-> kind, user |-> tx[p].user, team |-> t, created |-> tx[p].created] :
   t \in teams}

\* The rest of addUserToTeam: a channel row and an operation per chain team.
JoinChannels(p) ==
  /\ tx[p].stage = "join"
  /\ ~ ChannelsLocked(p)
  /\ tx' = [tx EXCEPT ![p].joined = {tx[p].user} \X Chain(tx[p].team),
                      ![p].ops = Published(p, "add", Chain(tx[p].team)),
                      ![p].stage = IF tx[p].kind = "transfer" THEN "leave" ELSE "commit"]
  /\ UNCHANGED <<rows, channels, begun, queue, group, revoked>>

\* Mutant: the channel rows are deleted and nothing is published for them.
LeaveSilently(p) ==
  /\ tx[p].stage = "leave"
  /\ ~ ChannelsLocked(p)
  /\ tx' = [tx EXCEPT ![p].stage = "commit",
       ![p].cut = {c \in channels : c[1] = tx[p].user /\ c[2] \notin Chain(tx[p].team)}]
  /\ UNCHANGED <<rows, channels, begun, queue, group, revoked>>

\* What the transaction gives up: a transfer leaves the channels outside the
\* destination chain, as channel_memberships names them; a removal leaves
\* all, and publishes for the teams captured before the DELETE.
Leaving(p) ==
  {c \in channels : /\ c[1] = tx[p].user
                    /\ tx[p].kind = "remove" \/ c[2] \notin Chain(tx[p].team)}

LeaveChannels(p) ==
  LET cut == Leaving(p)
      left == IF tx[p].kind = "remove" THEN tx[p].captured ELSE {c[2] : c \in cut}
  IN  /\ tx[p].stage = "leave"
      /\ ~ ChannelsLocked(p)
      /\ tx' = [tx EXCEPT ![p].stage = "commit", ![p].cut = cut,
                          ![p].ops = @ \cup Published(p, "remove", left)]
      /\ UNCHANGED <<rows, channels, begun, queue, group, revoked>>

\* pg returns COUNT(*) as a string: "0" === 0 is false, always.
CountIsZero(n) == FALSE

\* A removal's "no teams left" branch, taken on the remaining rows.
RevokedBy(p) ==
  IF tx[p].kind = "remove" /\ CountIsZero(Cardinality(RowsOf(tx[p].user) \ tx[p].locked))
  THEN {tx[p].user} ELSE {}

Commit(p) ==
  /\ tx[p].stage = "commit"
  /\ rows' = (rows \ tx[p].locked) \cup tx[p].inserted
  /\ channels' = (channels \ tx[p].cut) \cup tx[p].joined
  /\ queue' = queue \cup tx[p].ops
  /\ revoked' = revoked \cup RevokedBy(p)
  /\ tx' = [tx EXCEPT ![p] = [Idle EXCEPT !.stage = "committed", !.kind = tx[p].kind,
                                  !.user = tx[p].user, !.team = tx[p].team]]
  /\ UNCHANGED <<begun, group>>

-----------------------------------------------------------------------------
(* Deadlock.                                                               *)

\* Whom p's statement waits for: the holder of a row it has yet to take, the
\* writer of a direct row its INSERT collides with, and, of two that take
\* the same channel rows, each the other.  (Who has all its channel rows has
\* only to commit.)
WaitsFor(p) ==
  {q \in Requests \ {p} : Open(q) /\
     \/ tx[p].stage = "deleting" /\ tx[q].locked \cap tx[p].seen # {}
     \/ /\ tx[p].stage = "insert"
        /\ \E r \in Direct(tx[q].inserted \cup tx[q].locked) : r.user = tx[p].user
     \/ /\ tx[p].stage = "leave" /\ tx[q].stage = "leave"
        /\ \E c, d \in Leaving(p) \cap Leaving(q) : c # d}

\* p waits, through others, for itself.
Deadlocked(p) ==
  \A S \in SUBSET Requests :
    WaitsFor(p) \subseteq S /\ (\A q \in S : WaitsFor(q) \subseteq S) => p \in S

\* PostgreSQL fails the statement of one transaction of the circle; nothing
\* in the code retries it.
Deadlock(p) == Deadlocked(p) /\ Abort(p)

-----------------------------------------------------------------------------
(* The Sync_Worker.                                                        *)

InTeam(u, t) == \E r \in rows : r.user = u /\ r.team = t

\* Rows come in created_at order, so an operation runs after the older ones
\* on its user and team that are in the queue with it.
Oldest(o) ==
  \A x \in queue : x.user = o.user /\ x.team = o.team => o.created <= x.created

Run(o) ==
  /\ Oldest(o)
  /\ queue' = queue \ {o}
  /\ group' = [group EXCEPT ![o.team] =
       CASE o.kind = "add" -> @ \cup {o.user}
         [] o.kind = "remove" -> @ \ {o.user}
         [] OTHER -> {u \in Users : InTeam(u, o.team)}]
  /\ UNCHANGED <<rows, channels, tx, begun, revoked>>

-----------------------------------------------------------------------------

Statement(p) ==
  \/ BeginAdd(p) \/ LockWaits(p) \/ LockDirect(p) \/ DeleteStarts(p)
  \/ DeleteRow(p) \/ DeleteEnds(p) \/ InsertRows(p) \/ JoinChannels(p)
  \/ LeaveChannels(p) \/ Commit(p) \/ Deadlock(p)

Next ==
  \/ \E p \in Requests : CheckAdd(p) \/ BeginRemove(p) \/ BeginTransfer(p) \/ Statement(p)
  \/ \E o \in queue : Run(o)

Spec == Init /\ [][Next]_vars

\* An open transaction goes on as long as no lock stops it, and PostgreSQL's
\* detector ends a deadlock.
FairSpec == Spec /\ \A p \in Requests : WF_vars(Statement(p))

-----------------------------------------------------------------------------
(* Properties.                                                             *)

Tx == [stage : {"idle", "checked", "lock", "lock waiting", "clear", "deleting",
                "insert", "join", "leave", "commit", "committed", "aborted"},
       kind : {"add", "remove", "transfer"}, user : Users \cup {None},
       team : Teams \cup {None}, created : Nat, seen : SUBSET Row, locked : SUBSET Row,
       inserted : SUBSET Row, captured : SUBSET Teams, cut : SUBSET (Users \X Teams),
       joined : SUBSET (Users \X Teams), ops : SUBSET Op]

\* Every variable has its type.
TypeOK ==
  /\ rows \subseteq Row
  /\ channels \subseteq Users \X Teams
  /\ tx \in [Requests -> Tx]
  /\ begun \in 0..Cardinality(Requests)
  /\ queue \subseteq Op
  /\ group \in [Teams -> SUBSET Users]
  /\ revoked \subseteq Users

\* However requests interleave, a user's rows are those of one team: a
\* direct row and an inherited one per ancestor, all written together.
RowsAreOneChain ==
  \A u \in Users :
    RowsOf(u) # {} =>
      \E t \in Teams, p \in Requests \cup {Seed} : RowsOf(u) = ChainRows(u, t, p)

\* The rows left by any interleaving are well-formed chains.
RowsSound == TypeOK /\ RowsAreOneChain

\* Between requests channel_memberships names the channels of the user's
\* chain: the next transfer revokes by it.
ChannelsFollowTeams ==
  UnderWay = {} => channels = {<<r.user, r.team>> : r \in rows}

\* Once the queue is empty, the Authentik group of a team holds exactly its
\* direct and inherited members.
GroupsFollowTeams ==
  UnderWay = {} /\ queue = {} => \A t \in Teams, u \in Users : u \in group[t] <=> InTeam(u, t)

\* Both: what a user can reach is what the user's teams give.
AccessFollowsTeams == ChannelsFollowTeams /\ GroupsFollowTeams

\* Requests behave as if each that succeeds happened at once: an addition
\* finds its user in no team, a transfer in another one, and after a removal
\* the user is in none (TeamHomes).
Homes == INSTANCE TeamHomes WITH
  home <- [u \in Users |->
    IF Direct(RowsOf(u)) = {} THEN None ELSE (CHOOSE r \in Direct(RowsOf(u)) : TRUE).team],
  done <- [p \in Requests |-> IF tx[p].stage = "committed" THEN tx[p].kind ELSE None]

Atomic == Homes!Spec

\* p's transaction, a removal of u, commits in this step.
Removes(p, u) ==
  tx[p].kind = "remove" /\ tx[p].user = u /\ tx[p].stage = "commit" /\ tx'[p].stage = "committed"

\* A removal that leaves the user in no team revokes the user's certificates
\* and global groups in the same transaction.
RemovalRevokes ==
  [][\A p \in Requests, u \in Users :
       Removes(p, u) /\ RowsOf(u)' = {} => u \in revoked']_vars

\* No transaction that began waits for ever, whatever rows the others hold:
\* each commits, or ends with an error and its rows free again.
TransactionsEnd ==
  \A p \in Requests : Open(p) ~> tx[p].stage \in {"committed", "aborted"}
=============================================================================
