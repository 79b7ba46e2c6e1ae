----------------------------- MODULE ImportGraph -----------------------------
(***************************************************************************)
(* The import of teams from a file whose rows name their parents: by the   *)
(* id of another row, or as a team that exists.  Cycles are detected, rows *)
(* whose parent fails are given up, the others are created parents first.  *)
(* Keys of rows are numbers: a row without an id has its position as key,  *)
(* which an id written "__row_<position>" may equal.                       *)
(***************************************************************************)
EXTENDS Naturals, FiniteSets, SequencesExt

CONSTANTS
  RowIds,      \* ids rows may have
  Refs,        \* ids rows may name as their parent's
  Rows,        \* how many rows the file has
  MaxFaults    \* bound: creations that fail by themselves

VARIABLES
  file,        \* the rows
  pc,          \* which loop is running
  color, stack, cyclic,   \* detectCycles: colours, path, keys on cycles
  failed,      \* keys given up before anything is created
  queue, order,           \* keys to take next, keys in order of creation
  team,        \* team[k]: whether it was made, and under what
  faults,      \* how many faults so far
  spoilt       \* history: keys whose own creation failed

vars == <<file, pc, color, stack, cyclic, failed, queue, order, team, faults, spoilt>>

NoKey == 0
Position == 1 .. Rows
Row == [id : RowIds \cup {NoKey}, parent : Refs \cup {NoKey}, existing : {"none", "found", "missing"}]
Unmade == [made |-> FALSE, under |-> NoKey, existing |-> FALSE]

-----------------------------------------------------------------------------
(* buildImportGraph.                                                       *)

\* Its key, and the rows by key: a later row takes the place of an earlier one.
Key(i) == IF file[i].id # NoKey THEN file[i].id ELSE i
Nodes == {Key(i) : i \in Position}
With(k) == {i \in Position : Key(i) = k}
Node(k) == file[Max(With(k))]
Made == {k \in Nodes : team[k].made}
InFileOrder(S) == SetToSortSeq(S, LAMBDA j, k : Min(With(j)) < Min(With(k)))

\* parentRowRef counts only without a reference to an existing team.
Parent(k) == IF Node(k).existing = "none" THEN Node(k).parent ELSE NoKey
Dangling(k) == Parent(k) \notin Nodes \cup {NoKey}

\* wholeFileErrors.
DuplicateId == \E i, j \in Position : i # j /\ file[i].id # NoKey /\ file[i].id = file[j].id
TwoParents == \E i \in Position : file[i].parent # NoKey /\ file[i].existing # "none"

TypeOK ==
  /\ file \in [Position -> Row]
  /\ pc \in {"detect", "mark", "sort", "create", "done", "rejected"}
  /\ color \in [Nodes -> {"white", "grey", "black"}]
  /\ stack \in Seq(Nodes) /\ cyclic \subseteq Nodes /\ failed \subseteq Nodes
  /\ queue \in Seq(Nodes) /\ order \in Seq(Nodes)
  /\ team \in [Nodes -> [made : BOOLEAN, under : Nodes \cup {NoKey}, existing : BOOLEAN]]
  /\ faults \in 0 .. MaxFaults /\ spoilt \subseteq Nodes

\* Every file; one that names both parents is rejected whatever the second is.
Init ==
  /\ file \in [Position -> {r \in Row : r.parent = NoKey \/ r.existing # "missing"}]
  /\ pc = "detect"
  /\ color = [k \in Nodes |-> "white"]
  /\ stack = <<>> /\ cyclic = {} /\ failed = {}
  /\ queue = <<>> /\ order = <<>>
  /\ team = [k \in Nodes |-> Unmade]
  /\ faults = 0 /\ spoilt = {}

-----------------------------------------------------------------------------
(* detectCycles: a walk from each key that was not met yet to its parents. *)

White == {k \in Nodes : color[k] = "white"}
Paint(k, c) == color' = [color EXCEPT ![k] = c]
Leave(k) == Paint(k, "black") /\ stack' = Front(stack)

StartWalk ==
  /\ pc = "detect" /\ stack = <<>> /\ White # {}
  /\ LET k == Head(InFileOrder(White)) IN Paint(k, "grey") /\ stack' = <<k>>
  /\ UNCHANGED <<file, pc, cyclic, failed, queue, order, team, faults, spoilt>>

\* To the parent if it is new; a parent on the path closes a cycle.
Walk ==
  /\ pc = "detect" /\ stack # <<>>
  /\ LET k == Last(stack)
         p == Parent(k)
     IN \/ /\ p \in White
           /\ Paint(p, "grey") /\ stack' = Append(stack, p) /\ UNCHANGED cyclic
        \/ /\ p \in Nodes /\ color[p] = "grey"
           /\ cyclic' = cyclic \cup Range(SubSeq(stack, CHOOSE i \in DOMAIN stack : stack[i] = p, Len(stack)))
           /\ Leave(k)
        \/ /\ p \in Nodes => color[p] = "black"
           /\ Leave(k) /\ UNCHANGED cyclic
  /\ UNCHANGED <<file, pc, failed, queue, order, team, faults, spoilt>>

-----------------------------------------------------------------------------
(* markFailedRowsAndComputeCreationOrder.                                  *)

MarkFailed ==
  /\ pc = "detect" /\ stack = <<>> /\ White = {}
  /\ failed' = cyclic \cup {k \in Nodes : Dangling(k)}
  /\ pc' = "mark"
  /\ UNCHANGED <<file, color, stack, cyclic, queue, order, team, faults, spoilt>>

\* One pass over the rows; a row marked early fails those after it as well.
Pass == FoldLeft(LAMBDA f, k : IF Parent(k) \in f THEN f \cup {k} ELSE f, failed, InFileOrder(Nodes))
Children(S) == InFileOrder({k \in Nodes \ failed : Parent(k) \in S})

Spread ==
  /\ pc = "mark"
  /\ IF Pass # failed THEN failed' = Pass /\ UNCHANGED <<pc, queue>>
     ELSE /\ pc' = "sort" /\ UNCHANGED failed
          /\ queue' = Children({NoKey} \cup failed)
  /\ UNCHANGED <<file, color, stack, cyclic, order, team, faults, spoilt>>

Take ==
  /\ pc = "sort" /\ queue # <<>>
  /\ order' = Append(order, Head(queue))
  /\ queue' = Tail(queue) \o Children({Head(queue)})
  /\ UNCHANGED <<file, pc, color, stack, cyclic, failed, team, faults, spoilt>>

-----------------------------------------------------------------------------
(* importTeams and createRowsInOrder.                                      *)

ImportTeams ==
  /\ pc = "sort" /\ queue = <<>>
  /\ IF DuplicateId \/ TwoParents \/ cyclic # {}
     THEN pc' = "rejected" /\ UNCHANGED queue
     ELSE pc' = "create" /\ queue' = order
  /\ UNCHANGED <<file, color, stack, cyclic, failed, order, team, faults, spoilt>>

\* resolveNodeParentTeamId: where a row's team goes, if anywhere.
Resolved(k) ==
  IF Parent(k) # NoKey THEN {[made |-> TRUE, under |-> Parent(k), existing |-> FALSE] : j \in Made \cap {Parent(k)}}
  ELSE {[made |-> TRUE, under |-> NoKey, existing |-> e = "found"] : e \in {Node(k).existing} \ {"missing"}}

\* A row fails without a parent, or by itself: a field, a name, Team.create.
CreateRow ==
  /\ pc = "create" /\ queue # <<>>
  /\ queue' = Tail(queue)
  /\ LET k == Head(queue) IN
     \/ \E t \in Resolved(k) : team' = [team EXCEPT ![k] = t] /\ UNCHANGED <<faults, spoilt>>
     \/ Resolved(k) = {} /\ UNCHANGED <<team, faults, spoilt>>
     \/ /\ faults < MaxFaults /\ faults' = faults + 1
        /\ spoilt' = spoilt \cup {k} /\ UNCHANGED team
  /\ UNCHANGED <<file, pc, color, stack, cyclic, failed, order>>

\* A row is answered with the outcome of its key.
Answer ==
  /\ pc = "create" /\ queue = <<>> /\ pc' = "done"
  /\ UNCHANGED <<file, color, stack, cyclic, failed, queue, order, team, faults, spoilt>>

Next == StartWalk \/ Walk \/ MarkFailed \/ Spread \/ Take \/ ImportTeams \/ CreateRow \/ Answer

-----------------------------------------------------------------------------
(* Properties, against the graph as the file gives it.                     *)

\* The keys above k.
Upward[n \in 0 .. Rows, k \in Nodes] ==
  IF n = 0 \/ Parent(k) \notin Nodes THEN {} ELSE {Parent(k)} \cup Upward[n - 1, Parent(k)]
Above(k) == Upward[Rows, k]

\* detectCycles finds exactly the rows that are above themselves.
CyclesFound == pc # "detect" => cyclic = {k \in Nodes : k \in Above(k)}

\* The order of creation has every row without a missing or cyclic ancestor,
\* once and after its parent.
ParentsFirst ==
  pc \in {"create", "done"} =>
    /\ IsInjective(order)
    /\ Range(order) = {k \in Nodes : \A j \in {k} \cup Above(k) : ~Dangling(j) /\ j \notin Above(j)}
    /\ \A i \in DOMAIN order : Parent(order[i]) \in {NoKey} \cup {order[j] : j \in 1 .. i - 1}

\* A row gets its team where the file says, unless it or a row above it failed.
RightTeams ==
  pc = "done" =>
    /\ Made = {k \in Nodes : \A j \in {k} \cup Above(k) :
                               ~Dangling(j) /\ Node(j).existing # "missing" /\ j \notin spoilt}
    /\ \A k \in Made : team[k].under = Parent(k) /\ (team[k].existing <=> Node(k).existing = "found")

\* Every row has an answer, and as many are told of a team as there are teams,
\* unless an id is the key another row is given for its position.
OneTeamPerAnswer ==
  pc = "done" =>
    /\ Range(order) \cup failed = Nodes
    /\ \/ Cardinality({i \in Position : Key(i) \in Made}) = Cardinality(Made)
       \/ \E i, j \in Position : file[i].id = NoKey /\ file[j].id = i

\* Nothing is made of a file with a duplicate id, a cycle, or a row with two parents.
AllOrNothing ==
  pc = "rejected" \/ DuplicateId \/ TwoParents \/ (\E k \in Nodes : k \in Above(k)) => Made = {}

\* The import of a file does what the file says, or part of it for a reason.
ImportSound == TypeOK /\ CyclesFound /\ ParentsFirst /\ RightTeams /\ OneTeamPerAnswer /\ AllOrNothing
=============================================================================
