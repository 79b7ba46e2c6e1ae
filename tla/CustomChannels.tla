---------------------------- MODULE CustomChannels ----------------------------
(***************************************************************************)
(* The custom channels of one team: created beside each other under a      *)
(* limit, each with an Authentik group per permission; their members are   *)
(* rows, which the members' groups follow by queued operations published   *)
(* in a statement of their own.  A group carries its permission in its     *)
(* name, so a group is a pair of the creation that made it and that.       *)
(***************************************************************************)
EXTENDS Naturals, FiniteSets, SequencesExt

CONSTANTS
  Labels,      \* what users call their channels
  Perms,       \* permissions, each with a group
  ReadWrite,   \* the permission a transfer knows of
  Users, Sessions,
  Limit,       \* channels a team may have, its primary one included
  MaxCreations, MaxEdits, MaxFaults  \* bounds: creations, other requests, faults

VARIABLES
  primary,     \* does the team have its primary channel?
  suffix,      \* suffix[k]: the name creation k is for
  made,        \* made[k]: the permissions whose group creation k was answered
  channels,    \* the creations whose channel exists
  groups,      \* <<k, p>>: groups that exist in Authentik
  perms,       \* <<k, u, p>>: rows of channel_memberships
  joined,      \* <<k, u, p>>: members of the groups
  web,         \* web[s]: the request of session s
  ops,         \* sync_operations pending or processing, oldest first
  born,        \* how many channels were ever inserted
  used,        \* requests and faults so far
  past         \* history: what the properties excuse

vars == <<primary, suffix, made, channels, groups, perms, joined, web, ops, born, used, past>>
rest == <<primary, suffix, made>>

Creations == 1 .. MaxCreations
None == "none"
Idle == [pc |-> "idle", k |-> 0, u |-> None, p |-> None, seen |-> 0]
Op(kind, k, u, p) == [kind |-> kind, k |-> k, u |-> u, ps |-> {p}]
Row == Creations \X Users \X Perms

TypeOK ==
  /\ primary \in BOOLEAN
  /\ suffix \in [Creations -> Labels \cup {None}]
  /\ made \in [Creations -> SUBSET Perms]
  /\ channels \subseteq Creations
  /\ groups \subseteq Creations \X Perms
  /\ perms \subseteq Row /\ joined \subseteq Row
  /\ web \in [Sessions -> [pc : {"idle", "insert", "commit", "join", "leave"},
                           k : 0 .. MaxCreations, u : Users \cup {None}, p : Perms \cup {None}, seen : 0 .. MaxCreations]]
  /\ \A i \in DOMAIN ops : ops[i] \in [kind : {"add", "remove", "delete"}, k : Creations,
                                       u : Users \cup {None}, ps : SUBSET Perms]
  /\ born \in 0 .. MaxCreations
  /\ used \in [creations : 0 .. MaxCreations, edits : 0 .. MaxEdits, faults : 0 .. MaxFaults]
  /\ past \in [kept : SUBSET Row, crossed : SUBSET (Creations \X Users), left : SUBSET Creations]

\* A team whose creation fell back to the bare INSERT has no primary channel.
Init ==
  /\ primary \in BOOLEAN
  /\ suffix = [k \in Creations |-> None]
  /\ made = [k \in Creations |-> {}]
  /\ channels = {} /\ groups = {} /\ perms = {} /\ joined = {}
  /\ web = [s \in Sessions |-> Idle]
  /\ ops = <<>>
  /\ born = 0
  /\ used = [creations |-> 0, edits |-> 0, faults |-> 0]
  /\ past = [kept |-> {}, crossed |-> {}, left |-> {}]

Edit == used.edits < MaxEdits /\ used' = [used EXCEPT !.edits = @ + 1]
Fault == used.faults < MaxFaults /\ used' = [used EXCEPT !.faults = @ + 1]
At(s, pc) == web[s].pc = pc
End(s) == web' = [web EXCEPT ![s] = Idle]
Count == Cardinality(channels) + (IF primary THEN 1 ELSE 0)
PermOf(k, u) == {p \in Perms : <<k, u, p>> \in perms}

-----------------------------------------------------------------------------
(* createCustomChannel.                                                    *)

\* The permissions whose group of the name n is not taken.
Free(n) == {p \in Perms : ~ \E j \in Creations : <<j, p>> \in groups /\ suffix[j] = n}

\* The route counts, prepareCustomChannelCreation POSTs: a refusal is not looked
\* at and leaves that group id empty; one unanswered call ends the creation, and
\* nothing takes back the groups of a creation that fails.
PrepareCustomChannel(s, n) ==
  /\ At(s, "idle") /\ Count < Limit /\ used.creations < MaxCreations
  /\ LET k == used.creations + 1 IN
     /\ suffix' = [suffix EXCEPT ![k] = n]
     /\ \/ /\ made' = [made EXCEPT ![k] = Free(n)]
           /\ groups' = groups \cup ({k} \X Free(n))
           /\ web' = [web EXCEPT ![s] = [Idle EXCEPT !.pc = "insert", !.k = k]]
           /\ used' = [used EXCEPT !.creations = k]
           /\ UNCHANGED past
        \/ /\ used.faults < MaxFaults
           /\ used' = [used EXCEPT !.creations = k, !.faults = @ + 1]
           /\ \E done \in SUBSET Free(n) : groups' = groups \cup ({k} \X done)
           /\ past' = [past EXCEPT !.left = @ \cup {k}]
           /\ UNCHANGED <<made, web>>
  /\ UNCHANGED <<primary, channels, perms, joined, ops, born>>

Abandon(s) == End(s) /\ past' = [past EXCEPT !.left = @ \cup {web[s].k}]

\* BEGIN ISOLATION LEVEL SERIALIZABLE, and the count again.
BeginInsert(s) ==
  /\ At(s, "insert")
  /\ IF Count >= Limit THEN Abandon(s)
     ELSE web' = [web EXCEPT ![s].pc = "commit", ![s].seen = born] /\ UNCHANGED past
  /\ UNCHANGED <<rest, channels, groups, perms, joined, ops, born, used>>

\* Mutant: the transaction is READ COMMITTED.
CommitsAnyhow(s) == \A k \in channels : suffix[k] # suffix[web[s].k]

\* Two transactions that counted and insert depend on each other; (name,
\* team_id) is unique.
Commits(s) == born = web[s].seen /\ \A k \in channels : suffix[k] # suffix[web[s].k]

\* The row, its members' rows and their operations.
CommitInsert(s) ==
  /\ At(s, "commit")
  /\ LET k == web[s].k IN
     \/ /\ Commits(s)
        /\ channels' = channels \cup {k} /\ born' = born + 1
        /\ \E chosen \in [Users -> Perms \cup {None}] :
             LET row == {<<k, u, chosen[u]>> : u \in {v \in Users : chosen[v] # None}}
             IN  /\ perms' = perms \cup row
                 /\ ops' = ops \o SetToSeq({Op("add", k, r[2], r[3]) : r \in {r \in row : r[3] \in made[k]}})
        /\ End(s) /\ UNCHANGED <<used, past>>
     \/ ~Commits(s) /\ Abandon(s) /\ UNCHANGED <<channels, perms, ops, born, used>>
     \/ Fault /\ Abandon(s) /\ UNCHANGED <<channels, perms, ops, born>>
  /\ UNCHANGED <<rest, groups, joined>>

-----------------------------------------------------------------------------
(* Members.  No route has a transaction around the row and its operation.  *)

\* Another request has changed the row and not published yet.
Publishing(k, u) == \E s \in Sessions : web[s].pc \in {"join", "leave"} /\ web[s].k = k /\ web[s].u = u
Crossed(k, u) == IF Publishing(k, u) THEN past.crossed \cup {<<k, u>>} ELSE past.crossed

\* ON CONFLICT (user_id, channel_id) DO UPDATE: the group of the permission a
\* member had is not left.
AddMember(s, k, u, p) ==
  /\ At(s, "idle") /\ k \in channels /\ Edit
  /\ LET had == {<<k, u, q>> : q \in PermOf(k, u) \ {p}} IN
     /\ perms' = (perms \ had) \cup {<<k, u, p>>}
     /\ past' = [past EXCEPT !.kept = (@ \cup had) \ {<<k, u, p>>}, !.crossed = Crossed(k, u)]
  /\ web' = [web EXCEPT ![s] = [Idle EXCEPT !.pc = "join", !.k = k, !.u = u, !.p = p]]
  /\ UNCHANGED <<rest, channels, groups, joined, ops, born>>

\* removeMember; without a row there is nothing to publish.
RemoveMember(s, k, u) ==
  /\ At(s, "idle") /\ Edit
  /\ \E p \in PermOf(k, u) :
       /\ perms' = perms \ {<<k, u, p>>}
       /\ web' = [web EXCEPT ![s] = [Idle EXCEPT !.pc = "leave", !.k = k, !.u = u, !.p = p]]
  /\ past' = [past EXCEPT !.crossed = Crossed(k, u)]
  /\ UNCHANGED <<rest, channels, groups, joined, ops, born>>

\* resolveGroupIdForPermission, then publishOperation, which may fail.
PublishMember(s) ==
  /\ web[s].pc \in {"join", "leave"}
  /\ LET k == web[s].k  u == web[s].u  p == web[s].p
         kind == IF At(s, "join") THEN "add" ELSE "remove" IN
     \/ /\ ops' = IF p \in made[k] THEN Append(ops, Op(kind, k, u, p)) ELSE ops
        /\ UNCHANGED <<used, past>>
     \/ Fault /\ past' = [past EXCEPT !.crossed = @ \cup {<<k, u>>}] /\ UNCHANGED ops
  /\ End(s)
  /\ UNCHANGED <<rest, channels, groups, perms, joined, born>>

\* removeUserFromTeam and executeTransfer delete the rows.  The first publishes
\* nothing for custom channels, the second leaves their read-write groups.
\* Each is one step here (TeamMembership has their statements).
Depart(u, transfer) ==
  /\ Edit
  /\ LET had == {r \in perms : r[2] = u}
         told == {r \in had : transfer /\ ReadWrite \in made[r[1]]} IN
     /\ had # {}
     /\ perms' = perms \ had
     /\ ops' = ops \o SetToSeq({Op("remove", r[1], u, ReadWrite) : r \in told})
     /\ past' = [past EXCEPT !.kept = (@ \cup had) \ {<<r[1], u, ReadWrite>> : r \in told},
                             !.crossed = @ \cup {<<r[1], u>> : r \in {r \in had : Publishing(r[1], u)}}]
  /\ UNCHANGED <<rest, channels, groups, joined, web, born>>

\* deleteCustomChannel: rows and operation in one transaction.
DeleteCustomChannel(k) ==
  /\ k \in channels /\ Edit
  /\ channels' = channels \ {k}
  /\ perms' = {r \in perms : r[1] # k}
  /\ ops' = Append(ops, [kind |-> "delete", k |-> k, u |-> None, ps |-> made[k]])
  /\ UNCHANGED <<rest, groups, joined, web, born, past>>

-----------------------------------------------------------------------------
(* The worker.  A lane is a user and a group; the others are one each.     *)

SameLane(i, j) == ops[i].kind # "delete" /\ [ops[i] EXCEPT !.kind = ops[j].kind] = ops[j]
First(i) == i \in DOMAIN ops /\ \A j \in 1 .. i - 1 : ~SameLane(i, j)
Member(i) == {<<ops[i].k, ops[i].u, p>> : p \in ops[i].ps}
Exists(i) == {ops[i].k} \X ops[i].ps \subseteq groups

\* A group that is gone is an error for good.
RunMember(i) ==
  /\ First(i) /\ ops[i].kind # "delete"
  /\ joined' = IF ~Exists(i) THEN joined
               ELSE IF ops[i].kind = "add" THEN joined \cup Member(i) ELSE joined \ Member(i)
  /\ ops' = RemoveAt(ops, i)
  /\ UNCHANGED <<rest, channels, groups, perms, web, born, used, past>>

\* removeTeamChannelGroup, group by group.
RemoveGroups(i) ==
  /\ First(i) /\ ops[i].kind = "delete"
  /\ IF ops[i].ps = {} THEN ops' = RemoveAt(ops, i) /\ UNCHANGED <<groups, joined>>
     ELSE \E p \in ops[i].ps :
            /\ groups' = groups \ {<<ops[i].k, p>>}
            /\ joined' = {r \in joined : ~(r[1] = ops[i].k /\ r[3] = p)}
            /\ ops' = [ops EXCEPT ![i].ps = @ \ {p}]
  /\ UNCHANGED <<rest, channels, perms, web, born, used, past>>

\* A call fails: the operation comes back after those enqueued meanwhile.
Retry(i) ==
  /\ First(i) /\ Fault
  /\ ops' = Append(RemoveAt(ops, i), ops[i])
  /\ past' = IF \E j \in DOMAIN ops : j # i /\ SameLane(i, j)
             THEN [past EXCEPT !.crossed = @ \cup {<<ops[i].k, ops[i].u>>}] ELSE past
  /\ UNCHANGED <<rest, channels, groups, perms, joined, web, born>>

\* It fails for good, or its worker dies.
GiveUp(i) ==
  /\ First(i) /\ Fault
  /\ ops' = RemoveAt(ops, i)
  /\ past' = IF ops[i].kind = "delete" THEN [past EXCEPT !.left = @ \cup {ops[i].k}]
             ELSE [past EXCEPT !.crossed = @ \cup {<<ops[i].k, ops[i].u>>}]
  /\ UNCHANGED <<rest, channels, groups, perms, joined, web, born>>

-----------------------------------------------------------------------------
Next ==
  \/ \E s \in Sessions :
       \/ \E n \in Labels : PrepareCustomChannel(s, n)
       \/ BeginInsert(s) \/ CommitInsert(s)
       \/ \E k \in Creations, u \in Users :
            RemoveMember(s, k, u) \/ \E p \in Perms : AddMember(s, k, u, p)
       \/ PublishMember(s)
  \/ \E u \in Users : Depart(u, TRUE) \/ Depart(u, FALSE)
  \/ \E k \in Creations : DeleteCustomChannel(k)
  \/ \E i \in DOMAIN ops : RunMember(i) \/ RemoveGroups(i) \/ Retry(i) \/ GiveUp(i)

-----------------------------------------------------------------------------
(* Properties.                                                             *)

\* However many administrators create channels at once.
AtMostLimit == Count <= Limit

\* The groups of a channel exist, and a group without a channel is about to be
\* one's, is being removed, or is what a failed creation or removal has left.
NoStrayGroup ==
  /\ \A k \in channels : {k} \X made[k] \subseteq groups
  /\ \A g \in groups : \/ g[1] \in channels \cup past.left
                       \/ \E s \in Sessions : web[s].k = g[1]
                       \/ \E i \in DOMAIN ops : ops[i].kind = "delete" /\ ops[i].k = g[1]

\* Nothing of the user's membership in the channel is on its way.
Quiet(k, u) ==
  /\ ~Publishing(k, u)
  /\ ~ \E i \in DOMAIN ops : ops[i].k = k /\ ops[i].u = u

\* Then a user is in the group of the permission the row gives, and in no other
\* than those of earlier permissions, which the code does not leave; unless two
\* requests overlapped on the row, or an operation was lost or overtaken.
GroupsMatchPermissions ==
  \A k \in channels, u \in Users :
    Quiet(k, u) /\ <<k, u>> \notin past.crossed =>
      {p \in Perms : <<k, u, p>> \in joined}
        = made[k] \cap {p \in Perms : <<k, u, p>> \in perms \cup past.kept}

\* Channels, groups and members of a team are sound in every state.
CustomChannelsSound == TypeOK /\ AtMostLimit /\ NoStrayGroup /\ GroupsMatchPermissions
=============================================================================
