--------------------------- MODULE GlobalChannels ---------------------------
(***************************************************************************)
(* Region channels: rows of region_channels (one tier), the Authentik      *)
(* groups that carry them, the operations that keep the two together, the  *)
(* periodic sync that repairs names, and the import of existing groups.    *)
(*                                                                         *)
(* A request writes its row in a transaction but publishes its operation   *)
(* on the pool: the operation can be drained before the row is committed,  *)
(* and outlives a rollback.  Each operation is a lane of its own.          *)
(***************************************************************************)
EXTENDS Naturals, FiniteSets, SequencesExt

CONSTANTS
  Channels,     \* ids of region_channels, 1 .. n, given in order and never again
  Names,        \* names of channels, which decide the names of groups
  Gids,         \* ids of groups in Authentik, 1 .. n
  MaxEdits,     \* bound: requests
  MaxImports,   \* bound: imports asked for
  MaxFaults     \* bound: rollbacks, lost calls, stranded operations

VARIABLES
  row,      \* committed region_channels rows: Unused, Gone or [name, gid]
  groups,   \* Authentik: the name of each group, or NoName
  made,     \* how many group ids Authentik has given out
  ops,      \* sync_operations that are pending or processing, oldest first
  web,      \* the open transaction of a request, or Idle
  view,     \* the groups the running periodic sync has fetched, or NoView
  used,     \* edits, imports and faults so far
  past      \* history: what excuses a missing, shared or misnamed group

vars == <<row, groups, made, ops, web, view, used, past>>

Unused == [state |-> "unused"]
Gone == [state |-> "gone"]
Row(n, g) == [state |-> "row", name |-> n, gid |-> g]
NoName == "no name"
NoGid == 0
Idle == [kind |-> "idle"]
NoView == <<>>

Views == [Gids -> Names \cup {NoName}]
Rows == {c \in Channels : row[c].state = "row"}
Taken(n) == \E g \in Gids : groups[g] = n
Op(kind, c, n) == [kind |-> kind, ch |-> c, name |-> n, st |-> "pending", gid |-> NoGid, seen |-> NoView]
OpType == [kind : {"create", "update", "badupdate", "delete", "import"}, ch : Channels \cup {0},
           name : Names \cup {NoName}, st : {"pending", "made", "fetched", "stuck"},
           gid : Gids \cup {NoGid}, seen : Views \cup {NoView}]

TypeOK ==
  /\ row \in [Channels -> {Unused, Gone} \cup {Row(n, g) : n \in Names, g \in Gids \cup {NoGid}}]
  /\ groups \in Views
  /\ made \in 0 .. Cardinality(Gids)
  /\ \A i \in DOMAIN ops : ops[i] \in OpType
  /\ web \in {Idle} \cup [kind : {"create", "rename", "delete"}, ch : Channels, name : Names]
  /\ view \in Views \cup {NoView}
  /\ used \in [edits : 0 .. MaxEdits, imports : 0 .. MaxImports, faults : 0 .. MaxFaults]
  /\ past \in [groupless : SUBSET Channels, undone : SUBSET Channels, drift : BOOLEAN, stranded : SUBSET Channels]

Init ==
  /\ row = [c \in Channels |-> Unused]
  /\ groups = [g \in Gids |-> NoName]
  /\ made = 0
  /\ ops = <<>>
  /\ web = Idle
  /\ view = NoView
  /\ used = [edits |-> 0, imports |-> 0, faults |-> 0]
  /\ past = [groupless |-> {}, undone |-> {}, drift |-> FALSE, stranded |-> {}]

Edit == used.edits < MaxEdits /\ used' = [used EXCEPT !.edits = @ + 1]
Fault == used.faults < MaxFaults /\ used' = [used EXCEPT !.faults = @ + 1]
FreeName(n) == \A c \in Rows : row[c].name # n
NextId == CHOOSE c \in Channels : row[c] = Unused /\ \A d \in Channels : row[d] = Unused => c <= d
AnyUnused == \E c \in Channels : row[c] = Unused

-----------------------------------------------------------------------------
(* The requests.  The row is written in the transaction, the operation is  *)
(* published at once; the unique (name, tier) constraint is checked by the *)
(* write.                                                                  *)

CreateRegionChannel(n) ==
  /\ web = Idle /\ AnyUnused /\ FreeName(n) /\ Edit
  /\ web' = [kind |-> "create", ch |-> NextId, name |-> n]
  /\ ops' = Append(ops, Op("create", NextId, n))
  /\ UNCHANGED <<row, groups, made, view, past>>

\* The route passes the id as a string, which the operation's schema refuses.
UpdateRegionChannel(c, n) ==
  /\ web = Idle /\ c \in Rows /\ FreeName(n) /\ Edit
  /\ web' = [kind |-> "rename", ch |-> c, name |-> n]
  /\ ops' = Append(ops, Op("badupdate", c, n))
  /\ UNCHANGED <<row, groups, made, view, past>>

DeleteGlobalChannel(c) ==
  /\ web = Idle /\ c \in Rows /\ Edit
  /\ web' = [kind |-> "delete", ch |-> c, name |-> row[c].name]
  /\ ops' = Append(ops, Op("delete", c, NoName))
  /\ UNCHANGED <<row, groups, made, view, past>>

Commit ==
  /\ web # Idle
  /\ row' = [row EXCEPT ![web.ch] = CASE web.kind = "create" -> Row(web.name, NoGid)
                                      [] web.kind = "rename" -> [@ EXCEPT !.name = web.name]
                                      [] web.kind = "delete" -> Gone]
  /\ web' = Idle
  /\ UNCHANGED <<groups, made, ops, view, used, past>>

\* The sequence has given the id out all the same.
Rollback ==
  /\ web # Idle /\ Fault
  /\ row' = IF web.kind = "create" THEN [row EXCEPT ![web.ch] = Gone] ELSE row
  /\ web' = Idle
  /\ UNCHANGED <<groups, made, ops, view, past>>

SyncExisting ==
  /\ used.imports < MaxImports
  /\ used' = [used EXCEPT !.imports = @ + 1]
  /\ ops' = Append(ops, Op("import", 0, NoName))
  /\ UNCHANGED <<row, groups, made, web, view, past>>

-----------------------------------------------------------------------------
(* The worker.  Finished and failed operations leave ops.                  *)

Is(i, kind, st) == i \in DOMAIN ops /\ ops[i].kind = kind /\ ops[i].st = st

Finish(i) == ops' = RemoveAt(ops, i)

\* A group of the same name exists already: the answer is 400, for good.
CreateRefused(i) ==
  /\ Is(i, "create", "pending") /\ Taken(ops[i].name)
  /\ Finish(i)
  /\ past' = [past EXCEPT !.groupless = @ \cup {ops[i].ch}]
  /\ UNCHANGED <<row, groups, made, web, view, used>>

\* The answer can be lost on the way back: the retry then finds the name taken.
CreateGroup(i) ==
  /\ Is(i, "create", "pending") /\ ~Taken(ops[i].name) /\ made < Cardinality(Gids)
  /\ made' = made + 1
  /\ groups' = [groups EXCEPT ![made + 1] = ops[i].name]
  /\ \/ ops' = [ops EXCEPT ![i].st = "made", ![i].gid = made + 1] /\ UNCHANGED used
     \/ Fault /\ UNCHANGED ops
  /\ UNCHANGED <<row, web, view, past>>

\* A transaction holds the lock of the row it has written.
Locked(c) == web # Idle /\ web.kind # "create" /\ web.ch = c

\* Mutant: every row without a group gets the new one.
RecordGroupAnywhere(i) ==
  /\ Is(i, "create", "made") /\ ~Locked(ops[i].ch)
  /\ row' = [c \in Channels |-> IF c \in Rows /\ row[c].gid = NoGid
                                THEN [row[c] EXCEPT !.gid = ops[i].gid] ELSE row[c]]
  /\ Finish(i)
  /\ UNCHANGED <<groups, made, web, view, used, past>>

\* UPDATE ... WHERE id = $2 changes no row when the row is not committed yet.
RecordGroup(i) ==
  /\ Is(i, "create", "made") /\ ~Locked(ops[i].ch)
  /\ IF ops[i].ch \in Rows
     THEN row' = [row EXCEPT ![ops[i].ch].gid = ops[i].gid] /\ UNCHANGED past
     ELSE past' = [past EXCEPT !.groupless = @ \cup {ops[i].ch}] /\ UNCHANGED row
  /\ Finish(i)
  /\ UNCHANGED <<groups, made, web, view, used>>

\* The payload of a rename from the route never passes validation.
RejectUpdate(i) ==
  /\ Is(i, "badupdate", "pending")
  /\ Finish(i)
  /\ UNCHANGED <<row, groups, made, web, view, used, past>>

CanRename(g, n) == g # NoGid /\ groups[g] # NoName /\ \A h \in Gids \ {g} : groups[h] # n

\* Mutant: the PATCH leaves the name out.
UpdateGroupNot(i) ==
  /\ Is(i, "update", "pending")
  /\ Finish(i)
  /\ UNCHANGED <<row, groups, made, web, view, used, past>>

\* No row, no group, 404 and a name that is taken all end the operation.
UpdateGroup(i) ==
  /\ Is(i, "update", "pending")
  /\ LET c == ops[i].ch IN
     IF c \in Rows /\ CanRename(row[c].gid, ops[i].name)
     THEN groups' = [groups EXCEPT ![row[c].gid] = ops[i].name] ELSE UNCHANGED groups
  /\ Finish(i)
  /\ UNCHANGED <<row, made, web, view, used, past>>

\* The row is read when the operation is drained, so it is gone once the
\* deletion has been committed; the answer of Authentik is not looked at.
DeleteGroup(i) ==
  /\ Is(i, "delete", "pending")
  /\ LET c == ops[i].ch IN
     IF c \in Rows /\ row[c].gid # NoGid
     THEN /\ \/ groups' = [groups EXCEPT ![row[c].gid] = NoName] /\ UNCHANGED used
             \/ Fault /\ UNCHANGED groups
          /\ past' = [past EXCEPT !.undone = @ \cup {c}]
     ELSE UNCHANGED <<groups, used, past>>
  /\ Finish(i)
  /\ UNCHANGED <<row, made, web, view>>

\* An operation whose worker dies stays "processing": no one drains it again.
Strand(i) ==
  /\ i \in DOMAIN ops /\ ops[i].st # "stuck" /\ Fault
  /\ ops' = [ops EXCEPT ![i].st = "stuck"]
  /\ past' = [past EXCEPT !.stranded = @ \cup ({ops[i].ch} \cap Channels)]
  /\ UNCHANGED <<row, groups, made, web, view>>

ImportFetch(i) ==
  /\ Is(i, "import", "pending")
  /\ ops' = [ops EXCEPT ![i].st = "fetched", ![i].seen = groups]
  /\ UNCHANGED <<row, groups, made, web, view, used, past>>

\* One fetched group: the row of its name takes it, or a new row is inserted.
ImportGroup(rows, g, n) ==
  LET same == {c \in Channels : rows[c].state = "row" /\ rows[c].name = n}
      free == {c \in Channels : rows[c] = Unused}
  IN IF n = NoName THEN rows
     ELSE IF same # {} THEN [c \in Channels |-> IF c \in same THEN Row(n, g) ELSE rows[c]]
     ELSE [c \in Channels |-> IF c \in free /\ \A d \in free : c <= d THEN Row(n, g) ELSE rows[c]]

\* A fetched group whose channel is, or is about to be, under another name.
Drifted(seen) ==
  \E g \in Gids : /\ seen[g] # NoName
                  /\ \/ \E c \in Rows : row[c].gid = g /\ row[c].name # seen[g]
                     \/ \E i \in DOMAIN ops : /\ ops[i].kind = "create" /\ ops[i].st \in {"made", "stuck"} /\ ops[i].gid = g
                                              /\ (ops[i].ch \notin Rows \/ row[ops[i].ch].name # seen[g])

ImportApply(i) ==
  /\ Is(i, "import", "fetched") /\ web = Idle
  /\ row' = FoldLeft(LAMBDA rows, g : ImportGroup(rows, g, ops[i].seen[g]), row, [g \in Gids |-> g])
  /\ past' = [past EXCEPT !.drift = @ \/ Drifted(ops[i].seen),
                          !.undone = @ \cup {c \in Channels : /\ row'[c].state = "row" /\ row'[c].gid # NoGid
                                                            /\ ops[i].seen[row'[c].gid] # groups[row'[c].gid]}]
  /\ Finish(i)
  /\ UNCHANGED <<groups, made, web, view, used>>

-----------------------------------------------------------------------------
(* The periodic sync: fetch the groups, compare, enqueue renames.          *)

FetchGroups ==
  /\ view = NoView
  /\ view' = groups
  /\ UNCHANGED <<row, groups, made, ops, web, used, past>>

\* pending or processing, whatever made it; a stranded one counts for ever.
InFlight(c) == \E i \in DOMAIN ops : ops[i].ch = c /\ ops[i].kind \in {"update", "badupdate"}

Drift(c) ==
  /\ c \in Rows
  /\ row[c].gid # NoGid
  /\ view[row[c].gid] # NoName
  /\ view[row[c].gid] # row[c].name

ReconcileRegionChannelGroups ==
  /\ view # NoView
  /\ LET updates == [c \in {c \in Channels : Drift(c) /\ ~InFlight(c)} |-> Op("update", c, row[c].name)] IN
     ops' = FoldLeft(LAMBDA s, c : IF c \in DOMAIN updates THEN Append(s, updates[c]) ELSE s,
                     ops, [c \in Channels |-> c])
  /\ view' = NoView
  /\ UNCHANGED <<row, groups, made, web, used, past>>

-----------------------------------------------------------------------------
Requests ==
  \/ \E n \in Names : CreateRegionChannel(n)
  \/ \E c \in Channels, n \in Names : UpdateRegionChannel(c, n)
  \/ \E c \in Channels : DeleteGlobalChannel(c)
  \/ SyncExisting
  \/ Rollback

Works(i) ==
  \/ CreateRefused(i)
  \/ CreateGroup(i)
  \/ RecordGroup(i)
  \/ RejectUpdate(i)
  \/ UpdateGroup(i)
  \/ DeleteGroup(i)
  \/ ImportFetch(i)
  \/ ImportApply(i)

MaxOps == MaxEdits + MaxImports + Cardinality(Channels)
Worker == \E i \in 1 .. MaxOps : Works(i)
PeriodicSync == FetchGroups \/ ReconcileRegionChannelGroups

Next == Requests \/ Commit \/ Worker \/ (\E i \in 1 .. MaxOps : Strand(i)) \/ PeriodicSync

Spec == Init /\ [][Next]_vars

\* A request ends; the worker claims oldest first, so that the oldest operation
\* that is not stranded is drained in the end; the periodic sync runs again and
\* again.
Fairness ==
  /\ WF_vars(Commit)
  /\ \A i \in 1 .. MaxFaults + 1 : WF_vars(Works(i))
  /\ WF_vars(PeriodicSync)

FairSpec == Spec /\ Fairness

-----------------------------------------------------------------------------
\* A row never points at a group that is no longer there, except where a
\* deletion was drained while its row could still be seen (before the commit,
\* or after a rollback: deleteGlobalChannelGroup), or where an import wrote a
\* group that has changed since the import fetched the list, or has made two
\* channels share one.
RecordedGroupsExist ==
  past.drift \/ \A c \in Rows : row[c].gid # NoGid => groups[row[c].gid] # NoName \/ c \in past.undone

\* Two channels never share a group, unless an import met a group that had not
\* been renamed yet (syncExistingGlobalChannels matches by name).
OneChannelPerGroup ==
  past.drift \/ \A c, d \in Rows : row[c].gid = row[d].gid /\ row[c].gid # NoGid => c = d

Shared(c) == \E d \in Rows \ {c} : row[d].gid = row[c].gid
Repairable(c) ==
  /\ row[c].gid # NoGid /\ ~Shared(c) /\ c \notin past.stranded
  /\ CanRename(row[c].gid, row[c].name)

\* A group that exists, is not shared and whose new name is free has the name of
\* its channel; a committed channel has a group, unless its creation was refused
\* or drained before the commit, or stranded: nothing else makes one for it.
NamesAgree == \A c \in Rows : Repairable(c) => groups[row[c].gid] = row[c].name
ChannelsHaveGroups == \A c \in Rows : row[c].gid # NoGid \/ c \in past.groupless \cup past.stranded

\* In every state the groups recorded are there and not shared.
GroupsSound == TypeOK /\ RecordedGroupsExist /\ OneChannelPerGroup

\* In the end every channel that can have its group under its name has it, although
\* no rename from the route ever reaches Authentik: the periodic sync renames the
\* groups (reconcileRegionChannelGroups).
GroupsConverge == <>[](NamesAgree /\ ChannelsHaveGroups)
=============================================================================
