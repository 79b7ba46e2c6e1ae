------------------------------ MODULE TeamTree ------------------------------
(***************************************************************************)
(* The tree of teams.  A team without a parent is an Organisation; its     *)
(* sub-teams take its colour, and names are unique within it.  Creating    *)
(* and changing a team are sequences of statements on the pool, whose      *)
(* checks are not repeated when they write; deleting one is a transaction  *)
(* that reads the subtree first.                                           *)
(***************************************************************************)
EXTENDS Naturals, FiniteSets

CONSTANTS
  Teams,       \* ids of teams, 1 .. n, given in order and never again
  Names, Colors,
  OrgName, SubName,      \* names of the first teams
  Sessions,    \* web requests under way at once
  MaxDepth,    \* levels below an Organisation (MAX_TEAM_DEPTH)
  MaxEdits, MaxFaults    \* bounds: requests, failed statements

VARIABLES
  team,        \* team[t]: its row, NoTeam before and after
  born,        \* how many ids were given
  removed,     \* teams whose channels' groups were asked to be removed
  web,         \* web[s]: the request of session s
  used,        \* requests and faults so far
  past         \* history: what the properties excuse

vars == <<team, born, removed, web, used, past>>

Top == 0            \* the parent of an Organisation: NULL
NoId == 0
Absent == "absent"  \* a name or a colour that is not in the request
Unsaid == Cardinality(Teams) + 1    \* a parent that is not in the request
NoTeam == [up |-> Top, name |-> Absent, color |-> Absent]
Idle == [pc |-> "idle", t |-> NoId, up |-> Unsaid, name |-> Absent, color |-> Absent,
         kept |-> Absent, org |-> NoId, list |-> {}, late |-> FALSE]

Live == {t \in Teams : team[t] # NoTeam}

\* The team and those above it, the team and those below it.
Upward[n \in 0 .. Cardinality(Teams), t \in Teams \cup {Top}] ==
  IF n = 0 \/ t \notin Live THEN {} ELSE {t} \cup Upward[n - 1, team[t].up]
Chain(t) == Upward[Cardinality(Teams), t]
Subtree(t) == {u \in Live : t \in Chain(u)}

\* Among its own ancestors, or below such a team: its chain has no end.
Looped(t) == t \in Live /\ \A u \in Chain(t) : team[u].up # Top
Organisation(t) == CHOOSE u \in Chain(t) : team[u].up = Top
Depth(t) == Cardinality(Chain(t)) - 1

TypeOK ==
  /\ team \in [Teams -> [up : Teams \cup {Top}, name : Names, color : Colors \cup {Absent}] \cup {NoTeam}]
  /\ born \in 0 .. Cardinality(Teams) /\ removed \subseteq Teams
  /\ \A s \in Sessions :
       /\ web[s].pc \in {"idle", "chain", "name", "insert", "channel", "fallback", "update", "recolor",
                         "list", "delete", "endless"}
       /\ web[s].t \in Teams \cup {NoId} /\ web[s].org \in Teams \cup {NoId} /\ web[s].list \subseteq Teams
       /\ {web[s].name, web[s].kept} \subseteq Names \cup {Absent} /\ web[s].color \in Colors \cup {Absent}
  /\ used \in [edits : 0 .. MaxEdits, faults : 0 .. MaxFaults]
  /\ \A x \in DOMAIN past : past[x] \subseteq Teams

\* Two Organisations of one name, which no constraint forbids (NULLs differ),
\* and different colours; the first has a sub-team.
Init ==
  /\ \E colors \in [1 .. 2 -> Colors] :
       /\ colors[1] # colors[2]
       /\ team = [t \in Teams |->
                    CASE t \in {1, 2} -> [up |-> Top, name |-> OrgName, color |-> colors[t]]
                      [] t = 3 -> [up |-> 1, name |-> SubName, color |-> colors[1]]
                      [] OTHER -> NoTeam]
  /\ born = 3 /\ removed = {}
  /\ web = [s \in Sessions |-> Idle]
  /\ used = [edits |-> 0, faults |-> 0]
  /\ past = [moved |-> {}, carried |-> {}, late |-> {}, unchecked |-> {}, uncolored |-> {}]

-----------------------------------------------------------------------------
(* What the requests have in common.                                       *)

Starts(s) == web[s].pc = "idle" /\ used.edits < MaxEdits
Counted == used' = [used EXCEPT !.edits = @ + 1]
Fault == used.faults < MaxFaults /\ used' = [used EXCEPT !.faults = @ + 1]
Goes(s, w) == web' = [web EXCEPT ![s] = w]
At(s, pc) == [web[s] EXCEPT !.pc = pc]

\* A write: the requests that have read the tree and not yet written are late.
Writes(s, w) ==
  web' = [x \in Sessions |-> IF x = s THEN w
                             ELSE [web[x] EXCEPT !.late = web[x].pc \notin {"idle", "endless"}]]
Marked(h, x, S, on) == [h EXCEPT ![x] = IF on THEN @ \cup S ELSE @]

\* The constraints: the parent exists; its sub-teams' names differ.
Allowed(t, up, name) ==
  up # Top => up \in Live /\ \A u \in Live \ {t} : team[u].up = up => team[u].name # name

-----------------------------------------------------------------------------
(* Team.create and Team.update up to their write.                          *)

\* POST: a sub-team under a team that exists, or an Organisation.
PostTeam(s, p, n, c) ==
  /\ Counted
  /\ Goes(s, [Idle EXCEPT !.pc = IF p = Top THEN "insert" ELSE "chain", !.up = p, !.name = n,
                          !.color = IF p = Top THEN c ELSE Absent])
  /\ UNCHANGED <<team, born, removed, past>>

\* PUT: a sub-team's colour is dropped; the name is compared only below a parent.
PutTeam(s, t, p, n, c) ==
  /\ Counted
  /\ LET above == IF p = Unsaid THEN team[t].up ELSE p
         asks == p # Unsaid \/ n # Absent
     IN /\ Goes(s, [Idle EXCEPT !.pc = IF asks /\ above # Top THEN "chain" ELSE "update",
                                !.t = t, !.up = p, !.name = n, !.org = above,
                                !.kept = IF asks /\ above # Top THEN team[t].name ELSE Absent,
                                !.color = IF team[t].up = Top THEN c ELSE Absent])
        /\ past' = Marked(past, "unchecked", {t}, n # Absent /\ above = Top)
  /\ UNCHANGED <<team, born, removed>>

\* getTeamDepth and getAncestorChain: the depth counts for a creation alone,
\* which takes the Organisation's colour.
ReadChain(s) ==
  /\ web[s].pc = "chain"
  /\ LET p == IF web[s].t = NoId THEN web[s].up ELSE web[s].org
         write == IF web[s].t = NoId THEN "insert" ELSE "update"
     IN \/ p \notin Live /\ Goes(s, At(s, write))
        \/ p \in Live /\ Looped(p) /\ Goes(s, At(s, "endless"))
        \/ /\ p \in Live /\ ~Looped(p) /\ web[s].t = NoId /\ Depth(p) + 1 > MaxDepth
           /\ Goes(s, Idle)
        \/ /\ p \in Live /\ ~Looped(p) /\ (web[s].t = NoId => Depth(p) + 1 <= MaxDepth)
           /\ Goes(s, [At(s, "name") EXCEPT !.org = Organisation(p),
                       !.color = IF web[s].t = NoId THEN team[Organisation(p)].color ELSE @])
  /\ UNCHANGED <<team, born, removed, used, past>>

\* Mutant: only the teams just below the Organisation are compared.
TakenBelow(org, n, t) == \E u \in Live \ {t} : team[u].up = org /\ team[u].name = n

\* assertNameUniqueInOrganisation.
Taken(org, n, t) == \E u \in Subtree(org) \ {t} : team[u].name = n

CheckName(s) ==
  /\ web[s].pc = "name"
  /\ LET w == web[s]
         n == IF w.name = Absent THEN w.kept ELSE w.name
     IN Goes(s, CASE Looped(w.org) -> At(s, "endless")
                  [] ~Looped(w.org) /\ Taken(w.org, n, w.t) -> Idle
                  [] OTHER -> At(s, IF w.t = NoId THEN "insert" ELSE "update"))
  /\ UNCHANGED <<team, born, removed, used, past>>

-----------------------------------------------------------------------------
(* Team.create's writes.                                                   *)

\* An INSERT, if an id is left.
Inserts(s, row, w, gone) ==
  /\ born < Cardinality(Teams)
  /\ born' = born + 1
  /\ team' = [team EXCEPT ![born + 1] = row]
  /\ Writes(s, w)
  /\ past' = Marked(Marked(past, "late", {born + 1}, web[s].late), "uncolored", {born + 1}, gone)
  /\ UNCHANGED removed

Row(w) == [up |-> w.up, name |-> w.name, color |-> w.color]

\* A violated constraint fails the second INSERT like the first.
Insert(s) ==
  /\ web[s].pc = "insert"
  /\ \/ /\ Allowed(NoId, web[s].up, web[s].name)
        /\ Inserts(s, Row(web[s]), At(s, "channel"), FALSE) /\ UNCHANGED used
     \/ /\ ~Allowed(NoId, web[s].up, web[s].name)
        /\ Goes(s, Idle) /\ UNCHANGED <<team, born, removed, used, past>>
     \/ /\ Fault /\ Goes(s, At(s, "fallback")) /\ UNCHANGED <<team, born, removed, past>>

\* createTeamChannel, whose failure ends in the fallback too.
CreateChannel(s) ==
  /\ web[s].pc = "channel"
  /\ \/ Goes(s, Idle) /\ UNCHANGED used
     \/ Fault /\ Goes(s, At(s, "fallback"))
  /\ UNCHANGED <<team, born, removed, past>>

\* The basic INSERT: the default colour, and no channel.
Fallback(s) ==
  /\ web[s].pc = "fallback"
  /\ \/ /\ Allowed(NoId, web[s].up, web[s].name)
        /\ Inserts(s, [Row(web[s]) EXCEPT !.color = Absent], Idle, TRUE)
     \/ /\ ~Allowed(NoId, web[s].up, web[s].name)
        /\ Goes(s, Idle) /\ UNCHANGED <<team, born, removed, past>>
  /\ UNCHANGED used

-----------------------------------------------------------------------------
(* Team.update's writes.                                                   *)

\* The parent is written as sent: one that was not named becomes NULL.
Update(s) ==
  /\ web[s].pc = "update"
  /\ LET w == web[s]
         t == w.t
         up == IF w.up = Unsaid THEN Top ELSE w.up
         name == IF w.name = Absent THEN team[t].name ELSE w.name
         moves == up # team[t].up
     IN \/ /\ t \in Live /\ Allowed(t, up, name)
           /\ team' = [team EXCEPT ![t] = [up |-> up, name |-> name, color |-> IF w.color = Absent THEN @.color ELSE w.color]]
           /\ Writes(s, IF up = Top /\ w.color # Absent THEN At(s, "recolor") ELSE Idle)
           /\ past' = Marked(Marked(Marked(past, "moved", Subtree(t), moves), "carried", Subtree(t) \ {t}, moves),
                             "late", {t}, w.late)
           /\ UNCHANGED used
        \/ /\ t \notin Live \/ ~Allowed(t, up, name)
           /\ Goes(s, Idle) /\ UNCHANGED <<team, used, past>>
        \/ /\ Fault /\ Goes(s, Idle) /\ UNCHANGED <<team, past>>
  /\ UNCHANGED <<born, removed>>

\* An Organisation's colour goes to the teams below it, in a statement of its own.
Descendants(t) == Subtree(t) \ {t}

Recolor(s) ==
  /\ web[s].pc = "recolor"
  /\ LET w == web[s]
         S == Descendants(w.t)
     IN \/ /\ ~Looped(w.t)
           /\ team' = [t \in Teams |-> IF t \in S THEN [team[t] EXCEPT !.color = w.color] ELSE team[t]]
           /\ Writes(s, Idle)
           /\ past' = Marked(past, "late", S \cup ({w.t} \cap Live), w.late)
           /\ UNCHANGED used
        \/ /\ Looped(w.t) /\ Goes(s, At(s, "endless")) /\ UNCHANGED <<team, used, past>>
        \/ /\ Fault /\ Goes(s, Idle)
           /\ past' = Marked(past, "uncolored", S, TRUE) /\ UNCHANGED team
  /\ UNCHANGED <<born, removed>>

-----------------------------------------------------------------------------
(* DELETE and Team.deleteWithSubtree.                                      *)

\* The route counts the members of the subtree; here it has none.
DeleteTeam(s, t) ==
  /\ Counted
  /\ Goes(s, [Idle EXCEPT !.t = t, !.pc = IF Looped(t) THEN "endless" ELSE "list"])
  /\ UNCHANGED <<team, born, removed, past>>

ListSubtree(s) ==
  /\ web[s].pc = "list"
  /\ Goes(s, IF Looped(web[s].t) THEN At(s, "endless")
             ELSE [At(s, "delete") EXCEPT !.list = Subtree(web[s].t), !.late = FALSE])
  /\ UNCHANGED <<team, born, removed, used, past>>

\* The listed teams' groups are removed; the teams go, and what is below them
\* by ON DELETE CASCADE.  A failure rolls all of it back.
DeleteListed(s) ==
  /\ web[s].pc = "delete"
  /\ LET w == web[s]
         dead == {t \in Live : Chain(t) \cap w.list # {}}
     IN \/ /\ removed' = removed \cup (w.list \cap Live)
           /\ team' = [t \in Teams |-> IF t \in dead THEN NoTeam ELSE team[t]]
           /\ IF dead = {} THEN Goes(s, Idle) ELSE Writes(s, Idle)
           /\ past' = Marked(past, "late", dead \ w.list, w.late)
           /\ UNCHANGED used
        \/ /\ Fault /\ Goes(s, Idle) /\ UNCHANGED <<team, removed, past>>
  /\ UNCHANGED born

Step(s) ==
  \/ ReadChain(s) \/ CheckName(s) \/ Insert(s) \/ CreateChannel(s) \/ Fallback(s)
  \/ Update(s) \/ Recolor(s) \/ ListSubtree(s) \/ DeleteListed(s)

\* Bound: a request changes the name or the colour, and perhaps the parent.
Request(s) ==
  \/ \E p \in Live \cup {Top}, n \in Names, c \in Colors : PostTeam(s, p, n, c)
  \/ \E t \in Live, p \in Live \cup {Top, Unsaid}, n \in Names \cup {Absent}, c \in Colors \cup {Absent} :
       (n = Absent \/ c = Absent) /\ PutTeam(s, t, p, n, c)
  \/ \E t \in Live : DeleteTeam(s, t)

Next == \E s \in Sessions : \/ Starts(s) /\ Request(s)
                            \/ Step(s)

-----------------------------------------------------------------------------
(* Properties.  A team is excused where it was moved (the code checks      *)
(* neither depth nor loops then, nor the teams below it), was written by a *)
(* request that another write overtook, or by a path that skips the check. *)

\* Names are unique within an Organisation, its own name included.
NamesApart ==
  \A t, u \in Live \ (past.carried \cup past.late \cup past.unchecked) :
    t # u /\ team[t].name = team[u].name /\ ~Looped(t) /\ ~Looped(u) => Organisation(t) # Organisation(u)

\* A sub-team has the colour of its Organisation, once it was handed down.
ColorsFollow ==
  \A t \in Live \ (past.moved \cup past.uncolored \cup past.late) :
    \/ team[t].up = Top \/ team[t].color = team[Organisation(t)].color
    \/ \E s \in Sessions : web[s].pc = "recolor" /\ web[s].t = Organisation(t)

\* Without a move nothing loops and nothing lies deeper than it may.
DepthBounded ==
  \A t \in Live \ (past.moved \cup past.late) : ~Looped(t) /\ Depth(t) <= MaxDepth

\* The groups of a team that is gone were asked to be removed.
GroupsRemoved == \A t \in 1 .. born : t \in Live \cup removed \cup past.late

\* The tree stays an Organisation's tree, up to what moves and races do to it.
TreeSound == TypeOK /\ NamesApart /\ ColorsFollow /\ DepthBounded /\ GroupsRemoved
=============================================================================
