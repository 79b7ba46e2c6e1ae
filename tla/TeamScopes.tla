----------------------------- MODULE TeamScopes -----------------------------
(***************************************************************************)
(* Who administers whom, and who sees which team.  The code answers it     *)
(* from the tree of teams and the membership rows in half a dozen places:  *)
(* upward from one team, downward from a user's teams, by a join on the    *)
(* inherited rows, team by team or for a whole list.  A person has one     *)
(* direct row and, written with it, an inherited row per team above.       *)
(***************************************************************************)
EXTENDS Naturals, FiniteSets

CONSTANTS
  Users, Teams,
  Tree,        \* the parents at the start
  MaxEdits     \* bound: changes of the tree and of the rows

VARIABLES
  up,       \* teams.parent_team_id
  hidden,   \* teams whose visibility is 'private'
  home,     \* the team of a user's direct row
  role,     \* the role in that row
  above,    \* the teams in which a user has an inherited row
  edits,    \* changes so far
  past      \* history: users whose rows are not those of their branch

scopes == <<up, hidden, home, role, above, past>>
vars == <<scopes, edits>>

None == "none"
Top == "top"        \* the parent of an Organisation: NULL

TypeOK ==
  /\ up \in [Teams -> Teams \cup {Top}] /\ hidden \subseteq Teams
  /\ home \in [Users -> Teams \cup {None}] /\ role \in [Users -> {"admin", "member"}]
  /\ above \in [Users -> SUBSET Teams]
  /\ edits \in 0 .. MaxEdits
  /\ past \in [moved : SUBSET Users, bare : SUBSET Users]

\* A team and those above it, which getAncestorChain lists.
Upward[n \in 0 .. Cardinality(Teams), t \in Teams \cup {Top}] ==
  IF n = 0 \/ t = Top THEN {} ELSE {t} \cup Upward[n - 1, up[t]]
Chain(t) == Upward[Cardinality(Teams), t]
Organisation(t) == CHOOSE o \in Chain(t) : up[o] = Top

\* The teams below T, level by level.
Downward[n \in 0 .. Cardinality(Teams), T \in SUBSET Teams] ==
  IF n = 0 THEN T ELSE Downward[n - 1, T \cup {t \in Teams : up[t] \in T}]
Subtree(T) == Downward[Cardinality(Teams), T]

-----------------------------------------------------------------------------
(* The questions, as each place in the code asks them.                     *)

Memberships(u) == above[u] \cup ({home[u]} \ {None})

\* Only a direct row may say 'admin'.
AdminTeams(u) == IF role[u] = "admin" THEN {home[u]} \ {None} ELSE {}

\* Team.isAdmin: upward from the team.
IsAdmin(t, u) == AdminTeams(u) \cap Chain(t) # {}

\* Team.getManagedTeamIds: downward from the user's teams.
ManagedTeamIds(u) == Subtree(AdminTeams(u))

\* TeamVisibilityService.isVisibleBranch: within one's own Organisation, and
\* below a private team by a row in the chain or as its administrator.
IsVisibleBranch(t, u) ==
  /\ \E m \in Memberships(u) : Organisation(m) = Organisation(t)
  /\ Chain(t) \cap hidden # {} => Memberships(u) \cap Chain(t) # {} \/ IsAdmin(t, u)

\* What filterVisibleBranches finds out about a team: from the list alone,
Incomplete == [complete |-> FALSE, root |-> None, private |-> FALSE, chain |-> {}]

LocalInfo(list) ==
  LET info[t \in Teams] ==
        IF t \notin list THEN Incomplete
        ELSE IF up[t] = Top THEN [complete |-> TRUE, root |-> t, private |-> t \in hidden, chain |-> {t}]
        ELSE IF ~info[up[t]].complete THEN Incomplete
        ELSE [info[up[t]] EXCEPT !.private = @ \/ t \in hidden, !.chain = @ \cup {t}]
  IN info

\* or, if the list does not reach up to the Organisation, from the table.
AncestryInfo(info, t) ==
  IF info[t].complete THEN info[t]
  ELSE [complete |-> TRUE, root |-> Organisation(t), private |-> Chain(t) \cap hidden # {}, chain |-> Chain(t)]

FilterVisibleBranches(list, u) ==
  LET info == LocalInfo(list)
      organisations == {AncestryInfo(info, m).root : m \in Memberships(u)}
  IN {t \in list : LET a == AncestryInfo(info, t)
                   IN /\ a.root \in organisations
                      /\ a.private => a.chain \cap Memberships(u) # {} \/ IsAdmin(t, u)}

\* DeviceManagementService.isManagedUser: a join on the rows, the inherited too.
IsManagedUser(a, u) == AdminTeams(a) \cap Memberships(u) # {}

\* Suspension and revocation: isAdmin of the direct team.
MayRevoke(a, u) == home[u] # None /\ IsAdmin(home[u], a)

\* DirectoryScopeService.resolveScope, and whom a directory then shows as a
\* member of one of these Organisations.
ScopedOrganisations(u) == {o \in UNION {Chain(t) : t \in AdminTeams(u)} : up[o] = Top}
InDirectory(a, u) == home[u] # None /\ Organisation(home[u]) \in ScopedOrganisations(a)

\* GET /my-teams: the Organisation is found through any one row.
OwnOrganisationTeams(m) == Subtree({Organisation(m)})

-----------------------------------------------------------------------------
(* What changes the tree and the rows.                                     *)

Init ==
  /\ up = Tree /\ hidden \in SUBSET Teams
  /\ home \in [Users -> Teams \cup {None}] /\ role \in [Users -> {"admin", "member"}]
  /\ \A u \in Users : home[u] = None => role[u] = "member"
  /\ above = [u \in Users |-> IF home[u] = None THEN {} ELSE Chain(home[u]) \ {home[u]}]
  /\ edits = 0
  /\ past = [moved |-> {}, bare |-> {}]

\* Mutant: the team above has a row, those above it have none.
RowOfParent(t) == {up[t]} \ {Top}

InheritedRows(t) == Chain(t) \ {t}

\* addUserToTeam: all rows are deleted and written anew.
AddUserToTeam(u, t) ==
  /\ home' = [home EXCEPT ![u] = t] /\ role' = [role EXCEPT ![u] = "member"]
  /\ above' = [above EXCEPT ![u] = InheritedRows(t)]
  /\ past' = [moved |-> past.moved \ {u}, bare |-> past.bare \ {u}]
  /\ UNCHANGED <<up, hidden>>

RemoveUserFromTeam(u) ==
  /\ home[u] # None
  /\ home' = [home EXCEPT ![u] = None] /\ role' = [role EXCEPT ![u] = "member"]
  /\ above' = [above EXCEPT ![u] = {}]
  /\ past' = [moved |-> past.moved \ {u}, bare |-> past.bare \ {u}]
  /\ UNCHANGED <<up, hidden>>

\* Team.addMember, and the approval of another role: the direct row gets the
\* role, or is the only row written; an inherited row, or a direct one
\* elsewhere, is in the way.
AddMember(u, t, r) ==
  /\ \/ home[u] = t /\ role[u] # r
     \/ Memberships(u) = {}
  /\ home' = [home EXCEPT ![u] = t] /\ role' = [role EXCEPT ![u] = r]
  /\ past' = [past EXCEPT !.bare = IF home[u] = None /\ up[t] # Top THEN @ \cup {u} ELSE @]
  /\ UNCHANGED <<up, hidden, above>>

\* Team.update with another parent leaves the rows as they are.  Bound: a team
\* does not come to lie below itself, which the code does not rule out.
Reparent(t, p) ==
  /\ p # up[t] /\ p \notin Subtree({t})
  /\ up' = [up EXCEPT ![t] = p]
  /\ past' = [past EXCEPT !.moved = @ \cup {u \in Users : home[u] \in Subtree({t})}]
  /\ UNCHANGED <<hidden, home, role, above>>

SetVisibility(t) ==
  /\ hidden' = (hidden \cup {t}) \ (hidden \cap {t})
  /\ UNCHANGED <<up, home, role, above, past>>

Edit == edits < MaxEdits /\ edits' = edits + 1

Next ==
  \/ Edit /\ \E u \in Users, t \in Teams : t # home[u] /\ AddUserToTeam(u, t)
  \/ Edit /\ \E u \in Users : RemoveUserFromTeam(u)
  \/ Edit /\ \E u \in Users, t \in Teams, r \in {"admin", "member"} : AddMember(u, t, r)
  \/ Edit /\ \E t \in Teams, p \in Teams \cup {Top} : Reparent(t, p)
  \/ Edit /\ \E t \in Teams : SetVisibility(t)

Spec == Init /\ [][Next]_vars

-----------------------------------------------------------------------------
(* Properties.                                                             *)

\* The walk down and the walk up name the same teams: a list gates its rows
\* by one, the request on a row is gated by the other.
AdminsAgree == \A u \in Users : ManagedTeamIds(u) = {t \in Teams : IsAdmin(t, u)}

\* A list shows the teams that can be opened one by one, whether or not it
\* reaches up to the Organisation.
Lists == {Subtree({t}) : t \in Teams} \cup {{s \in Teams : up[s] = t} : t \in Teams}
FiltersAgree ==
  \A u \in Users, list \in Lists : FilterVisibleBranches(list, u) = {t \in list : IsVisibleBranch(t, u)}

\* Nobody administers what is not shown, or whom the directory does not list.
AdminsSee ==
  \A u \in Users :
    /\ \A t \in Teams : IsAdmin(t, u) => IsVisibleBranch(t, u)
    /\ home[u] # None => IsVisibleBranch(home[u], u)
    /\ \A v \in Users : MayRevoke(u, v) => InDirectory(u, v)

\* Whose devices one manages are those whose certificates one may revoke, and
\* one's teams are found through whichever row is read first: unless the branch
\* moved since the rows were written, or they were written without it.
Excused == past.moved \cup past.bare
RowsAgree ==
  \A u \in Users \ Excused :
    /\ \A a \in Users : IsManagedUser(a, u) <=> MayRevoke(a, u)
    /\ \A m \in Memberships(u) : ManagedTeamIds(u) \subseteq FilterVisibleBranches(OwnOrganisationTeams(m), u)

ScopesAgree == TypeOK /\ AdminsAgree /\ FiltersAgree /\ AdminsSee /\ RowsAgree
=============================================================================
