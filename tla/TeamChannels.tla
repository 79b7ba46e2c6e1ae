---------------------------- MODULE TeamChannels ----------------------------
(***************************************************************************)
(* The primary channels of the teams of one Organisation and the Authentik *)
(* groups that carry them: teams are created, renamed and deleted by web   *)
(* requests, most of whose statements are in no transaction; the queued    *)
(* operations of a channel are a lane each and overlap; groups are found   *)
(* again by their name.                                                    *)
(***************************************************************************)
EXTENDS Naturals, FiniteSets, SequencesExt

CONSTANTS
  Teams,       \* ids of teams, 1 .. n, given in order and never again
  Names,       \* names of teams, and with them of channels and groups
  Gids,        \* ids of groups in Authentik, 1 .. n
  Sessions,    \* web requests under way at once
  MaxEdits,    \* bound: requests
  MaxFaults    \* bound: failed statements and calls, stranded operations

VARIABLES
  team,     \* team[t]: its name, Unborn or Deleted
  chan,     \* chan[t]: its primary channel [name, gid], NoChan without one
  group,    \* group[g]: [name, desc, by], by the team it was made for
  made,     \* how many group ids Authentik has given out
  web,      \* web[s]: the request of session s
  ops,      \* sync_operations pending or processing, oldest first
  used,     \* requests and faults so far
  past      \* history: what the properties excuse

vars == <<team, chan, group, made, web, ops, used, past>>

Unborn == "unborn"
Deleted == "deleted"
NoName == "no name"
NoGid == 0
NoTeam == 0
NoChan == [name |-> NoName, gid |-> NoGid]
NoGroup == [name |-> NoName, desc |-> NoName, by |-> NoTeam]
Idle == [pc |-> "idle", t |-> NoTeam, name |-> NoName, gid |-> NoGid]

Live == {t \in Teams : team[t] \in Names}
HasChan(t) == chan[t] # NoChan
Named(n) == {g \in Gids : group[g].name = n}
Op(kind, t, n, g) == [kind |-> kind, t |-> t, name |-> n, gid |-> g, st |-> "pending", desc |-> NoName]

TypeOK ==
  /\ team \in [Teams -> Names \cup {Unborn, Deleted}]
  /\ chan \in [Teams -> [name : Names, gid : Gids \cup {NoGid}] \cup {NoChan}]
  /\ group \in [Gids -> [name : Names, desc : Names, by : Teams] \cup {NoGroup}]
  /\ made \in 0 .. Cardinality(Gids)
  /\ web \in [Sessions -> [pc : {"idle", "post", "lookup", "insert", "describe", "defer", "enqueue",
                                 "select", "update", "publish", "delete"},
                           t : Teams \cup {NoTeam}, name : Names \cup {NoName}, gid : Gids \cup {NoGid}]]
  /\ \A i \in DOMAIN ops :
       ops[i] \in [kind : {"reconcile", "rename", "describe", "remove"}, t : Teams, name : Names \cup {NoName},
                   gid : Gids \cup {NoGid}, st : {"pending", "read", "made", "stuck"}, desc : Names \cup {NoName}]
  /\ used \in [edits : 0 .. MaxEdits, faults : 0 .. MaxFaults]
  /\ past \in [crossed : SUBSET Teams, lost : SUBSET Teams, taken : SUBSET Gids]

Init ==
  /\ team = [t \in Teams |-> Unborn]
  /\ chan = [t \in Teams |-> NoChan]
  /\ group = [g \in Gids |-> NoGroup]
  /\ made = 0
  /\ web = [s \in Sessions |-> Idle]
  /\ ops = <<>>
  /\ used = [edits |-> 0, faults |-> 0]
  /\ past = [crossed |-> {}, lost |-> {}, taken |-> {}]

Edit == used.edits < MaxEdits /\ used' = [used EXCEPT !.edits = @ + 1]
Fault == used.faults < MaxFaults /\ used' = [used EXCEPT !.faults = @ + 1]
FreeTeamName(n) == \A t \in Live : team[t] # n

At(s, pc) == web[s].pc = pc
Goto(s, pc) == web' = [web EXCEPT ![s].pc = pc]
End(s) == web' = [web EXCEPT ![s] = Idle]

\* A request or an operation is at work on the channel of t.
Busy(t) ==
  \/ \E s \in Sessions : web[s].t = t
  \/ \E i \in DOMAIN ops : ops[i].t = t /\ ops[i].kind # "describe"

\* Somebody has the group in hand, or is to remove it.
InHand(g) ==
  \/ \E s \in Sessions : web[s].gid = g
  \/ \E i \in DOMAIN ops : ops[i].gid = g

\* A group found by its name for t, although it is another's: made for another
\* team that exists, recorded by another channel, or still to be removed.
Taken(g, t) ==
  IF \/ group[g].by \in Live \ {t}
     \/ \E u \in Teams \ {t} : chan[u].gid = g
     \/ InHand(g)
  THEN past.taken \cup {g} ELSE past.taken

\* Authentik makes a group for t.
Make(t, n, d) ==
  /\ Named(n) = {} /\ made < Cardinality(Gids)
  /\ made' = made + 1
  /\ group' = [group EXCEPT ![made + 1] = [name |-> n, desc |-> d, by |-> t]]

-----------------------------------------------------------------------------
(* Creating a team: INSERT INTO teams, then createTeamChannel.             *)

NextTeam == CHOOSE t \in Teams : team[t] = Unborn /\ \A u \in Teams : team[u] = Unborn => t <= u

\* (name, parent_team_id) is unique.  The bulk import defers the group.
Create(s, n) ==
  /\ At(s, "idle") /\ FreeTeamName(n) /\ Edit
  /\ \E t \in Teams : team[t] = Unborn
  /\ team' = [team EXCEPT ![NextTeam] = n]
  /\ \E pc \in {"post", "defer"} :
       web' = [web EXCEPT ![s] = [Idle EXCEPT !.pc = pc, !.t = NextTeam, !.name = n]]
  /\ UNCHANGED <<chan, group, made, ops, past>>

\* POST; a lost answer is an error, and so is one that made no group.
PostGroup(s) ==
  /\ At(s, "post")
  /\ \/ Make(web[s].t, web[s].name, web[s].name)
        /\ \/ web' = [web EXCEPT ![s].pc = "insert", ![s].gid = made + 1] /\ UNCHANGED used
           \/ Fault /\ Goto(s, "defer")
     \/ Named(web[s].name) # {} /\ Goto(s, "lookup") /\ UNCHANGED <<group, made, used>>
     \/ Fault /\ Goto(s, "defer") /\ UNCHANGED <<group, made>>
  /\ UNCHANGED <<team, chan, ops, past>>

\* Mutant: the first group listed is taken, whatever its name.
LookupFirst(s) ==
  /\ At(s, "lookup")
  /\ \E g \in Gids :
       /\ group[g] # NoGroup
       /\ web' = [web EXCEPT ![s].pc = "insert", ![s].gid = g]
       /\ past' = past
  /\ UNCHANGED <<team, chan, group, made, ops, used>>

\* GET by name: the group found is taken, without it the creation is deferred.
Lookup(s) ==
  /\ At(s, "lookup")
  /\ IF Named(web[s].name) = {} THEN Goto(s, "defer") /\ UNCHANGED past
     ELSE \E g \in Named(web[s].name) :
            /\ web' = [web EXCEPT ![s].pc = "insert", ![s].gid = g]
            /\ past' = [past EXCEPT !.taken = Taken(g, web[s].t)]
  /\ UNCHANGED <<team, chan, group, made, ops, used>>

\* The foreign key refuses the row of a team that is gone, and the fallback's.
InsertChannel(s) ==
  /\ At(s, "insert")
  /\ LET t == web[s].t IN
     \/ /\ t \in Live
        /\ chan' = [chan EXCEPT ![t] = [name |-> web[s].name, gid |-> web[s].gid]]
        /\ Goto(s, "describe") /\ UNCHANGED used
     \/ t \notin Live /\ End(s) /\ UNCHANGED <<chan, used>>
     \/ Fault /\ web' = [web EXCEPT ![s].pc = "defer", ![s].gid = NoGid] /\ UNCHANGED chan
  /\ UNCHANGED <<team, group, made, ops, past>>

\* The attributes of the group; a failure is logged.
Describe(s) ==
  /\ At(s, "describe")
  /\ \/ /\ group' = [group EXCEPT ![web[s].gid] = IF @ = NoGroup THEN @ ELSE [@ EXCEPT !.desc = web[s].name]]
        /\ UNCHANGED used
     \/ Fault /\ UNCHANGED group
  /\ End(s)
  /\ UNCHANGED <<team, chan, made, ops, past>>

InsertDeferred(s) ==
  /\ At(s, "defer")
  /\ IF web[s].t \in Live
     THEN chan' = [chan EXCEPT ![web[s].t] = [name |-> web[s].name, gid |-> NoGid]] /\ Goto(s, "enqueue")
     ELSE End(s) /\ UNCHANGED chan
  /\ UNCHANGED <<team, group, made, ops, used, past>>

\* A publication that fails is logged; nothing repeats it.
Lost(s) == Fault /\ past' = [past EXCEPT !.lost = @ \cup {web[s].t}] /\ UNCHANGED ops

EnqueueReconcile(s) ==
  /\ At(s, "enqueue")
  /\ \/ ops' = Append(ops, Op("reconcile", web[s].t, web[s].name, NoGid)) /\ UNCHANGED <<used, past>>
     \/ Lost(s)
  /\ End(s)
  /\ UNCHANGED <<team, chan, group, made>>

-----------------------------------------------------------------------------
(* Renaming a team: UPDATE teams, then renameTeamChannelGroups.            *)

Rename(s, t, n) ==
  /\ At(s, "idle") /\ t \in Live /\ FreeTeamName(n) /\ Edit
  /\ team' = [team EXCEPT ![t] = n]
  /\ web' = [web EXCEPT ![s] = [Idle EXCEPT !.pc = "select", !.t = t]]
  /\ past' = IF Busy(t) THEN [past EXCEPT !.crossed = @ \cup {t}] ELSE past
  /\ UNCHANGED <<chan, group, made, ops>>

\* The name is read again; a channel that has it already is left alone.
SelectChannel(s) ==
  /\ At(s, "select")
  /\ LET t == web[s].t IN
     IF t \in Live /\ HasChan(t) /\ chan[t].name # team[t]
     THEN web' = [web EXCEPT ![s].pc = "update", ![s].name = team[t]]
     ELSE End(s)
  /\ UNCHANGED <<team, chan, group, made, ops, used, past>>

UpdateChannel(s) ==
  /\ At(s, "update")
  /\ chan' = IF HasChan(web[s].t) THEN [chan EXCEPT ![web[s].t].name = web[s].name] ELSE chan
  /\ Goto(s, "publish")
  /\ UNCHANGED <<team, group, made, ops, used, past>>

PublishRename(s) ==
  /\ At(s, "publish")
  /\ \/ ops' = Append(ops, Op("rename", web[s].t, web[s].name, NoGid)) /\ UNCHANGED <<used, past>>
     \/ Lost(s)
  /\ End(s)
  /\ UNCHANGED <<team, chan, group, made>>

-----------------------------------------------------------------------------
(* Deleting a team: one transaction, which reads the group ids first.      *)

BeginDelete(s, t) ==
  /\ At(s, "idle") /\ t \in Live /\ Edit
  /\ web' = [web EXCEPT ![s] = [Idle EXCEPT !.pc = "delete", !.t = t, !.gid = chan[t].gid]]
  /\ UNCHANGED <<team, chan, group, made, ops, past>>

\* The rows go and the removal of the group that was read is published.
CommitDelete(s) ==
  /\ At(s, "delete")
  /\ LET t == web[s].t IN
     IF t \in Live
     THEN /\ team' = [team EXCEPT ![t] = Deleted]
          /\ chan' = [chan EXCEPT ![t] = NoChan]
          /\ ops' = IF web[s].gid = NoGid THEN ops ELSE Append(ops, Op("remove", t, NoName, web[s].gid))
     ELSE UNCHANGED <<team, chan, ops>>
  /\ End(s)
  /\ UNCHANGED <<group, made, used, past>>

-----------------------------------------------------------------------------
(* The worker.  Finished and failed operations leave ops.                  *)

Is(i, kind, st) == i \in DOMAIN ops /\ ops[i].kind = kind /\ ops[i].st = st
Finish(i) == ops' = RemoveAt(ops, i)
Holds(i, g) == ops' = [ops EXCEPT ![i].st = "made", ![i].gid = g]

\* The group is made, or found, under the name of the payload.  The answer to a
\* POST can be lost: the next attempt finds what it has made.
ReconcileGroup(i) ==
  /\ Is(i, "reconcile", "pending")
  /\ LET t == ops[i].t  n == ops[i].name IN
     IF ~HasChan(t) \/ chan[t].gid # NoGid
     THEN Finish(i) /\ UNCHANGED <<group, made, used, past>>
     ELSE \/ /\ Make(t, n, chan[t].name)
             /\ \/ Holds(i, made + 1) /\ UNCHANGED used
                \/ Fault /\ UNCHANGED ops
             /\ UNCHANGED past
          \/ \E g \in Named(n) :
               /\ group' = [group EXCEPT ![g].desc = chan[t].name]
               /\ Holds(i, g)
               /\ past' = [past EXCEPT !.taken = Taken(g, t)]
               /\ UNCHANGED <<made, used>>
  /\ UNCHANGED <<team, chan, web>>

\* UPDATE ... WHERE authentik_group_id IS NULL.
RecordGroup(i) ==
  /\ Is(i, "reconcile", "made")
  /\ LET t == ops[i].t IN
     chan' = IF HasChan(t) /\ chan[t].gid = NoGid THEN [chan EXCEPT ![t].gid = ops[i].gid] ELSE chan
  /\ Finish(i)
  /\ UNCHANGED <<team, group, made, web, used, past>>

\* rename_team_channel_group and update_channel_group read the row first; one
\* without a group has nothing to be changed.
ReadChannel(i) ==
  /\ Is(i, "rename", "pending") \/ Is(i, "describe", "pending")
  /\ LET t == ops[i].t IN
     IF chan[t].gid # NoGid
     THEN ops' = [ops EXCEPT ![i].st = "read", ![i].gid = chan[t].gid, ![i].desc = chan[t].name]
     ELSE Finish(i)
  /\ UNCHANGED <<team, chan, group, made, web, used, past>>

\* Mutant: the PATCH carries the attributes and leaves the name out.
PatchAttributes(i) ==
  /\ Is(i, "rename", "read") \/ Is(i, "describe", "read")
  /\ LET g == ops[i].gid IN
     group' = IF group[g] = NoGroup THEN group ELSE [group EXCEPT ![g].desc = ops[i].desc]
  /\ Finish(i)
  /\ UNCHANGED <<team, chan, made, web, used, past>>

\* 404 is a no-op, a name that is taken is refused for good.
PatchGroup(i) ==
  /\ Is(i, "rename", "read") \/ Is(i, "describe", "read")
  /\ LET op == ops[i] IN
     IF group[op.gid] = NoGroup THEN UNCHANGED <<group, past>>
     ELSE IF op.kind = "describe" THEN group' = [group EXCEPT ![op.gid].desc = op.desc] /\ UNCHANGED past
     ELSE IF Named(op.name) \subseteq {op.gid}
          THEN group' = [group EXCEPT ![op.gid].name = op.name, ![op.gid].desc = op.desc] /\ UNCHANGED past
          ELSE past' = [past EXCEPT !.lost = @ \cup {op.t}] /\ UNCHANGED group
  /\ Finish(i)
  /\ UNCHANGED <<team, chan, made, web, used>>

\* removeTeamChannelGroup, by the ids of the payload; 404 counts as removed.
RemoveGroup(i) ==
  /\ Is(i, "remove", "pending")
  /\ group' = [group EXCEPT ![ops[i].gid] = NoGroup]
  /\ Finish(i)
  /\ UNCHANGED <<team, chan, made, web, used, past>>

\* An operation whose worker dies stays "processing" (SyncQueue!Crash).
Strand(i) ==
  /\ i \in DOMAIN ops /\ ops[i].st # "stuck" /\ Fault
  /\ ops' = [ops EXCEPT ![i].st = "stuck"]
  /\ past' = [past EXCEPT !.lost = @ \cup {ops[i].t}]
  /\ UNCHANGED <<team, chan, group, made, web>>

Works(i) ==
  \/ ReconcileGroup(i)
  \/ RecordGroup(i)
  \/ ReadChannel(i)
  \/ PatchGroup(i)
  \/ RemoveGroup(i)

-----------------------------------------------------------------------------
(* The periodic sync enqueues what restores a description.  An old list of *)
(* groups could only enqueue an update that changes nothing.               *)

DescriptionDrift(t) ==
  LET g == chan[t].gid IN g # NoGid /\ group[g] # NoGroup /\ group[g].desc # chan[t].name

InFlight(t) == \E i \in DOMAIN ops : ops[i].kind = "describe" /\ ops[i].t = t

ReconcileDescriptions(t) ==
  /\ DescriptionDrift(t) /\ ~InFlight(t)
  /\ ops' = Append(ops, Op("describe", t, NoName, NoGid))
  /\ UNCHANGED <<team, chan, group, made, web, used, past>>

-----------------------------------------------------------------------------
Requests ==
  \E s \in Sessions : \/ \E n \in Names : Create(s, n)
                      \/ \E t \in Teams, n \in Names : Rename(s, t, n)
                      \/ \E t \in Teams : BeginDelete(s, t)

Continues(s) ==
  \/ PostGroup(s) \/ Lookup(s) \/ InsertChannel(s) \/ Describe(s)
  \/ InsertDeferred(s) \/ EnqueueReconcile(s)
  \/ SelectChannel(s) \/ UpdateChannel(s) \/ PublishRename(s)
  \/ CommitDelete(s)

MaxOps == MaxEdits + Cardinality(Teams)

Next ==
  \/ Requests
  \/ \E s \in Sessions : Continues(s)
  \/ \E i \in 1 .. MaxOps : Works(i) \/ Strand(i)
  \/ \E t \in Teams : ReconcileDescriptions(t)

-----------------------------------------------------------------------------
(* Properties.                                                             *)

\* Two channels share a group only if one of them was given, by name, a group
\* that was in another's hands: a channel renamed but not yet its group, or a
\* team deleted but not yet its group (createTeamChannel, reconcileTeamChannelGroup).
OneChannelPerGroup ==
  \A t, u \in Teams : chan[t].gid = chan[u].gid /\ chan[t].gid # NoGid => t = u \/ chan[t].gid \in past.taken

\* And only such a group can be removed under a channel that records it.
RecordedGroupsExist ==
  \A t \in Teams : chan[t].gid # NoGid => group[chan[t].gid] # NoGroup \/ chan[t].gid \in past.taken

\* No group is left behind while its team exists: a channel records it, or a
\* request or operation for that team is still to find it; unless an operation
\* was lost or the group was given to another.
NoStrayGroup ==
  \A g \in Gids \ past.taken :
    group[g] # NoGroup /\ group[g].by \in Live \ past.lost =>
      (\E t \in Teams : chan[t].gid = g) \/ InHand(g) \/ Busy(group[g].by)

\* In every state channels and groups belong together.
ChannelGroupsSound == TypeOK /\ OneChannelPerGroup /\ RecordedGroupsExist /\ NoStrayGroup

Sound(t) == t \notin past.lost \cup past.crossed

\* A channel has its team's name, and its group has it too.
CarriesName(t) ==
  HasChan(t) /\ chan[t].name = team[t] /\ chan[t].gid # NoGid
    /\ (chan[t].gid \in past.taken \/ group[chan[t].gid].name = team[t])

\* The description, which only the periodic sync restores.
Described(t) ==
  chan[t].gid # NoGid /\ chan[t].gid \notin past.taken => group[chan[t].gid].desc = chan[t].name

\* In the end every team has its channel and that a group, both under the
\* team's name: unless an operation or a publication was lost, a rename overlapped
\* with other work on the team, or a group was given to two channels.  The
\* description comes right even then, while its update is not stranded.
ChannelsConverge ==
  <>[](/\ \A t \in Live : Sound(t) => CarriesName(t)
       /\ \A t \in Live \ past.lost : Described(t))
=============================================================================
