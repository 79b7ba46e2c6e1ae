---------------------------- MODULE CloudTakGroups ----------------------------
(***************************************************************************)
(* The CloudTAK agency group of one team: it carries the team's name and   *)
(* holds its direct administrators.  What changes either publishes an      *)
(* operation, mostly in a statement of its own; every operation is a lane, *)
(* so several may be at work, each over many calls.                        *)
(***************************************************************************)
EXTENDS Naturals, FiniteSets, SequencesExt

CONSTANTS
  Users, Names,
  Sessions,    \* web requests under way at once
  MaxChanges, MaxFaults    \* bounds: requests, failed calls and statements

VARIABLES
  team,        \* the team's name, Unborn or Deleted
  admins,      \* users with a direct row of role admin
  group,       \* the group, NoGroup without one
  made,        \* how many times it was made: its id
  web,         \* web[s]: a request that has still to publish
  ops,         \* operations of the team that are not finished
  used,        \* requests and faults so far
  past         \* history: what the property excuses

vars == <<team, admins, group, made, web, ops, used, past>>

Unborn == "unborn"
Deleted == "deleted"
NoName == "no name"
NoGroup == [id |-> 0, name |-> NoName, members |-> {}]
Fresh(kind) == [kind |-> kind, pc |-> "pending", name |-> NoName, id |-> 0,
                target |-> {}, add |-> {}, drop |-> {}, alone |-> TRUE]
Requests == {"idle", "create", "update"}

TypeOK ==
  /\ team \in Names \cup {Unborn, Deleted}
  /\ admins \subseteq Users
  /\ group \in [id : 1 .. made, name : Names, members : SUBSET Users] \cup {NoGroup}
  /\ made \in Nat
  /\ web \in [Sessions -> Requests]
  /\ \A i \in DOMAIN ops :
       ops[i] \in [kind : {"ensure", "delete"}, pc : {"pending", "named", "found", "described", "resolved", "apply", "looked"},
                   name : Names \cup {NoName}, id : 0 .. made, target : SUBSET Users,
                   add : SUBSET Users, drop : SUBSET Users, alone : BOOLEAN]
  /\ used \in [changes : 0 .. MaxChanges, faults : 0 .. MaxFaults]
  /\ past \in [missed : BOOLEAN, crossed : BOOLEAN]

Init ==
  /\ team = Unborn /\ admins = {}
  /\ group = NoGroup /\ made = 0
  /\ web = [s \in Sessions |-> "idle"]
  /\ ops = <<>>
  /\ used = [changes |-> 0, faults |-> 0]
  /\ past = [missed |-> FALSE, crossed |-> FALSE]

Live == team \in Names
Change == used.changes < MaxChanges /\ used' = [used EXCEPT !.changes = @ + 1]
Fault == used.faults < MaxFaults /\ used' = [used EXCEPT !.faults = @ + 1]
Asks(s, what) == web[s] = "idle" /\ Change /\ web' = [web EXCEPT ![s] = what]
Missed == past' = [past EXCEPT !.missed = TRUE]

-----------------------------------------------------------------------------
(* Requests.                                                               *)

\* Team.create and Team.update commit, then publish.
Create(s, n) ==
  /\ team = Unborn /\ Asks(s, "create") /\ team' = n
  /\ UNCHANGED <<admins, group, made, ops, past>>

Rename(s, n) ==
  /\ Live /\ team # n /\ Asks(s, "update") /\ team' = n
  /\ UNCHANGED <<admins, group, made, ops, past>>

\* Team.addMember upserts the role in a statement of its own.
SetRole(s, u) ==
  /\ Live /\ Asks(s, "update")
  /\ admins' \in {admins \cup {u}, admins \ {u}} \ {admins}
  /\ UNCHANGED <<team, group, made, ops, past>>

\* A failed publication is logged.
Publish(s) ==
  /\ web[s] # "idle"
  /\ \/ ops' = Append(ops, Fresh("ensure")) /\ UNCHANGED <<used, past>>
     \/ Fault /\ Missed /\ UNCHANGED ops
  /\ web' = [web EXCEPT ![s] = "idle"]
  /\ UNCHANGED <<team, admins, group, made>>

\* A user provisioned as administrator and removeUserFromTeam publish in their
\* transaction.
ProvisionOrRemove(u) ==
  /\ Live /\ Change
  /\ admins' \in {admins \cup {u}, admins \ {u}} \ {admins}
  /\ ops' = Append(ops, Fresh("ensure"))
  /\ UNCHANGED <<team, group, made, web, past>>

\* An approved change of role and a transfer publish nothing for CloudTAK.
ApproveRoleOrTransfer(u) ==
  /\ Live /\ Change
  /\ admins' \in {admins \cup {u}, admins \ {u}} \ {admins}
  /\ Missed
  /\ UNCHANGED <<team, group, made, web, ops>>

DeleteTeam ==
  /\ Live /\ Change
  /\ team' = Deleted /\ admins' = {}
  /\ ops' = Append(ops, Fresh("delete"))
  /\ UNCHANGED <<group, made, web, past>>

-----------------------------------------------------------------------------
(* ensureCloudTakGroup.                                                    *)

Is(i, pc) == i \in DOMAIN ops /\ ops[i].pc = pc
AtWork(i) == ops[i].pc # "pending"
Others(i) == \E j \in DOMAIN ops : j # i /\ AtWork(j)
Set(i, op) == ops' = [ops EXCEPT ![i] = op]

\* An operation that begins beside others spoils all of them.
Begins(i, op) ==
  ops' = [j \in DOMAIN ops |->
            IF j = i THEN [op EXCEPT !.alone = ~Others(i)]
            ELSE IF AtWork(j) THEN [ops[j] EXCEPT !.alone = FALSE] ELSE ops[j]]

\* What ran alone leaves the group right.
Finish(i) == ops' = RemoveAt(ops, i) /\ past' = [past EXCEPT !.crossed = ~ops[i].alone]

\* Reading the team again makes good what was missed before.
ReadTeam(i) ==
  /\ Is(i, "pending") /\ ops[i].kind = "ensure"
  /\ IF Live THEN /\ Begins(i, [ops[i] EXCEPT !.pc = "named", !.name = team])
                  /\ past' = [past EXCEPT !.missed = FALSE]
     ELSE ops' = RemoveAt(ops, i) /\ UNCHANGED past
  /\ UNCHANGED <<team, admins, group, made, web, used>>

\* POST; a group that exists is looked up and still to be patched.
CreateOrFind(i) ==
  /\ Is(i, "named")
  /\ IF group = NoGroup
     THEN /\ made' = made + 1
          /\ group' = [id |-> made + 1, name |-> ops[i].name, members |-> {}]
          /\ Set(i, [ops[i] EXCEPT !.pc = "described", !.id = made + 1])
     ELSE Set(i, [ops[i] EXCEPT !.pc = "found", !.id = group.id]) /\ UNCHANGED <<group, made>>
  /\ UNCHANGED <<team, admins, web, used, past>>

There(i) == group.id = ops[i].id

PatchAttributes(i) ==
  /\ Is(i, "found") /\ There(i)
  /\ group' = [group EXCEPT !.name = ops[i].name]
  /\ Set(i, [ops[i] EXCEPT !.pc = "described"])
  /\ UNCHANGED <<team, admins, made, web, used, past>>

\* getDirectAdmins.
ReadAdmins(i) ==
  /\ Is(i, "described")
  /\ Set(i, [ops[i] EXCEPT !.pc = "resolved", !.target = admins])
  /\ UNCHANGED <<team, admins, group, made, web, used, past>>

\* Mutant: the diff has no members to remove.
ReadMembersToAdd(i) ==
  /\ Is(i, "resolved") /\ There(i)
  /\ Set(i, [ops[i] EXCEPT !.pc = "apply", !.add = ops[i].target \ group.members, !.target = {}])
  /\ UNCHANGED <<team, admins, group, made, web, used, past>>

\* GET the members; computeMembershipDiff.
ReadMembers(i) ==
  /\ Is(i, "resolved") /\ There(i)
  /\ Set(i, [ops[i] EXCEPT !.pc = "apply", !.add = ops[i].target \ group.members,
                           !.drop = group.members \ ops[i].target, !.target = {}])
  /\ UNCHANGED <<team, admins, group, made, web, used, past>>

\* reconcileMembership, one call per member, additions first; a group that is
\* gone (404) makes it a no-op.
Apply(i) ==
  /\ Is(i, "apply")
  /\ LET op == ops[i] IN
     IF op.add \cup op.drop = {} THEN Finish(i) /\ UNCHANGED group
     ELSE /\ \E u \in IF op.add # {} THEN op.add ELSE op.drop :
               /\ Set(i, [op EXCEPT !.add = @ \ {u}, !.drop = @ \ {u}])
               /\ group' = IF ~There(i) THEN group
                           ELSE [group EXCEPT !.members = IF u \in op.add THEN @ \cup {u} ELSE @ \ {u}]
          /\ UNCHANGED past
  /\ UNCHANGED <<team, admins, made, web, used>>

\* deleteCloudTakGroup: GET by name, DELETE by id.
LookUp(i) ==
  /\ Is(i, "pending") /\ ops[i].kind = "delete"
  /\ Begins(i, [ops[i] EXCEPT !.pc = "looked", !.id = group.id])
  /\ UNCHANGED <<team, admins, group, made, web, used, past>>

Delete(i) ==
  /\ Is(i, "looked")
  /\ group' = IF There(i) THEN NoGroup ELSE group
  /\ Finish(i)
  /\ UNCHANGED <<team, admins, made, web, used>>

\* A call fails, or meets a group that is gone: the operation starts again.
Retry(i) ==
  /\ i \in DOMAIN ops /\ AtWork(i)
  /\ \/ Fault
     \/ ops[i].pc \in {"found", "resolved"} /\ ~There(i) /\ UNCHANGED used
  /\ Set(i, Fresh(ops[i].kind))
  /\ UNCHANGED <<team, admins, group, made, web, past>>

\* It fails for good, or its worker dies.
GiveUp(i) ==
  /\ i \in DOMAIN ops /\ Fault /\ Missed
  /\ ops' = RemoveAt(ops, i)
  /\ UNCHANGED <<team, admins, group, made, web>>

Works(i) ==
  \/ ReadTeam(i) \/ CreateOrFind(i) \/ PatchAttributes(i)
  \/ ReadAdmins(i) \/ ReadMembers(i) \/ Apply(i)
  \/ LookUp(i) \/ Delete(i)

Next ==
  \/ \E s \in Sessions : \/ \E n \in Names : Create(s, n) \/ Rename(s, n)
                         \/ \E u \in Users : SetRole(s, u)
                         \/ Publish(s)
  \/ \E u \in Users : ProvisionOrRemove(u) \/ ApproveRoleOrTransfer(u)
  \/ DeleteTeam
  \/ \E i \in DOMAIN ops : Works(i) \/ Retry(i) \/ GiveUp(i)

-----------------------------------------------------------------------------
(* Properties.                                                             *)

Quiet == ops = <<>> /\ \A s \in Sessions : web[s] = "idle"

\* With nothing left to do the group is the team's: its name, exactly its direct
\* administrators, and no group once the team is deleted.  Excused are changes
\* that published nothing since the team was last read, and operations that
\* overlapped, until one has run alone.
AgencyGroupFollowsTeam ==
  Quiet /\ ~past.missed /\ ~past.crossed =>
    IF Live THEN group.name = team /\ group.members = admins ELSE group = NoGroup

\* In every state the group is what the team and its operations account for.
CloudTakSound == TypeOK /\ AgencyGroupFollowsTeam
=============================================================================
