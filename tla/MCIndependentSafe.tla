-------------------------- MODULE MCIndependentSafe -------------------------
(***************************************************************************)
(* Components that share nothing, checked for safety in one run: each      *)
(* behaviour is a behaviour of the one that part names.  One component     *)
(* runs at a time, so they keep their variables in the same twelve places. *)
(***************************************************************************)
EXTENDS Naturals, TLC

CONSTANTS Channels, Usernames, Pks, MaxRequests, MaxFaults,
          Labels, Perms, ReadWrite, Users, Sessions, Limit, MaxCreations, MaxEdits,
          Rows, Teams, Pseudonymous, Visitors, Deciders, MaxDecisions,
          c1, c2, etl, etl2, t1, t2, v1, v2, d1, d2,
          Admins, TeamNames, MaxChanges, Callers, Capacity, MaxClock, MaxCalls,
          Orgs, Tiers, Devices, Suffixes, Queriers, PoolMax,
          RowIds, Refs, FileRows, TreeTeams, MaxDepth,
          x, y, rw, ro, u1, u2, s1, s2, n1, n2, w1, w2, oa, ob, coord, da, db, sx, q1, q2, q3

\* No component tells the members of these sets apart.
Alike == Permutations(Visitors) \cup Permutations(Deciders) \cup Permutations(Labels)

VARIABLES part, x1, x2, x3, x4, x5, x6, x7, x8, x9, x10, x11, x12

vars == <<part, x1, x2, x3, x4, x5, x6, x7, x8, x9, x10, x11, x12>>

None == "nothing"

Services == INSTANCE ServiceAccounts
  WITH row <- x1, acct <- x2, made <- x3, cand <- x4, ops <- x5, used <- x6, past <- x7
SignUps == INSTANCE AccessRequests
  WITH req <- x1, made <- x2, form <- x3, dec <- x4, acct <- x5, user <- x6,
       cleanup <- x7, sync <- x8, used <- x9, past <- x10
Customs == INSTANCE CustomChannels
  WITH primary <- x1, suffix <- x2, made <- x3, channels <- x4, groups <- x5,
       perms <- x6, joined <- x7, web <- x8, ops <- x9, born <- x10, used <- x11,
       past <- x12
CloudTak == INSTANCE CloudTakGroups
  WITH Users <- Admins, Names <- TeamNames, team <- x1, admins <- x2, group <- x3,
       made <- x4, web <- x5, ops <- x6, used <- x7, past <- x8
Limiter == INSTANCE RateLimiter
  WITH clock <- x1, bucket <- x2, call <- x3, asked <- x4, window <- x5
Access == INSTANCE ChannelAccess
  WITH home <- x1, access <- x2, joined <- x3, web <- x4, ops <- x5, used <- x6,
       past <- x7
Devs == INSTANCE TeamDevices
  WITH team <- x1, row <- x2, member <- x3, accts <- x4, make <- x5, web <- x6,
       cleanup <- x7, faults <- x8, past <- x9
Pool == INSTANCE ConnectionPool
  WITH stage <- x1, waiting <- x2, free <- x3
Import == INSTANCE ImportGraph
  WITH Rows <- FileRows, file <- x1, pc <- x2, color <- x3, stack <- x4, cyclic <- x5,
       failed <- x6, queue <- x7, order <- x8, team <- x9, faults <- x10, spoilt <- x11
\* Values that a component does not tell apart, as above.
Hierarchy == INSTANCE TeamTree
  WITH Teams <- TreeTeams, Names <- TeamNames \cup Labels, OrgName <- n1, SubName <- n2,
       Colors <- Deciders, Sessions <- Visitors,
       team <- x1, born <- x2, removed <- x3, web <- x4, used <- x5, past <- x6

\* Two Organisations and a branch of two teams.
BranchTeams == Orgs \cup Teams
BranchTree == (oa :> "top") @@ (ob :> "top") @@ (t1 :> oa) @@ (t2 :> t1)
Scopes == INSTANCE TeamScopes
  WITH Users <- Deciders, Teams <- BranchTeams, Tree <- BranchTree,
       up <- x1, hidden <- x2, home <- x3, role <- x4, above <- x5, edits <- x6, past <- x7

\* One Organisation of two teams, a Global_Manager, two administrators, a member;
People == Admins \cup Deciders
ForkTeams == Teams \cup {oa}
ForkTree == (oa :> "top") @@ (t1 :> oa) @@ (t2 :> oa)
\* with the invariant its proof rests on.
Transfers == INSTANCE TransferRequestsProofs
  WITH Users <- People, Managers <- {u1}, Teams <- ForkTeams, Tree <- ForkTree,
       Requests <- {1}, Sessions <- Visitors, MaxEdits <- 1, MaxStarts <- MaxRequests,
       up <- x1, hidden <- x2, home <- x3, role <- x4, above <- x5, edits <- x6, past <- x7,
       request <- x8, web <- x9, starts <- x10

Init ==
  \/ part = "services" /\ Services!Init /\ x8 = None /\ x9 = None /\ x10 = None /\ x11 = None /\ x12 = None
  \/ part = "requests" /\ SignUps!Init /\ x11 = None /\ x12 = None
  \/ part = "customs" /\ Customs!Init
  \/ part = "cloudtak" /\ CloudTak!Init /\ x9 = None /\ x10 = None /\ x11 = None /\ x12 = None
  \/ part = "limiter" /\ Limiter!Init /\ x6 = None /\ x7 = None /\ x8 = None /\ x9 = None /\ x10 = None /\ x11 = None /\ x12 = None
  \/ part = "access" /\ Access!Init /\ x8 = None /\ x9 = None /\ x10 = None /\ x11 = None /\ x12 = None
  \/ part = "devices" /\ Devs!Init /\ x10 = None /\ x11 = None /\ x12 = None
  \/ part = "pool" /\ Pool!Init /\ x4 = None /\ x5 = None /\ x6 = None /\ x7 = None /\ x8 = None /\ x9 = None /\ x10 = None /\ x11 = None /\ x12 = None
  \/ part = "import" /\ Import!Init /\ x12 = None
  \/ part = "tree" /\ Hierarchy!Init /\ x7 = None /\ x8 = None /\ x9 = None /\ x10 = None /\ x11 = None /\ x12 = None
  \/ /\ part = "scopes" /\ Scopes!Init /\ x8 = None /\ x9 = None /\ x10 = None /\ x11 = None /\ x12 = None
     /\ \E t \in BranchTeams : x2 \subseteq {t}
  \/ /\ part = "transfers" /\ Transfers!TransferInit /\ x11 = None /\ x12 = None
     /\ \A u \in Deciders : x4[u] = "admin"
     /\ x4[u2] = "member" /\ x3[u2] \in {Transfers!None, t1}

Next ==
  \/ part = "services" /\ Services!Next /\ UNCHANGED <<part, x8, x9, x10, x11, x12>>
  \/ part = "requests" /\ SignUps!Next /\ UNCHANGED <<part, x11, x12>>
  \/ part = "customs" /\ Customs!Next /\ UNCHANGED <<part>>
  \/ part = "cloudtak" /\ CloudTak!Next /\ UNCHANGED <<part, x9, x10, x11, x12>>
  \/ part = "limiter" /\ Limiter!Next /\ UNCHANGED <<part, x6, x7, x8, x9, x10, x11, x12>>
  \/ part = "access" /\ Access!Next /\ UNCHANGED <<part, x8, x9, x10, x11, x12>>
  \/ part = "devices" /\ Devs!Next /\ UNCHANGED <<part, x10, x11, x12>>
  \/ part = "pool" /\ Pool!Next /\ UNCHANGED <<part, x4, x5, x6, x7, x8, x9, x10, x11, x12>>
  \/ part = "import" /\ Import!Next /\ UNCHANGED <<part, x12>>
  \/ part = "tree" /\ Hierarchy!Next /\ UNCHANGED <<part, x7, x8, x9, x10, x11, x12>>
  \/ part = "scopes" /\ Scopes!Next /\ UNCHANGED <<part, x8, x9, x10, x11, x12>>
  \/ part = "transfers" /\ Transfers!TransferNext /\ UNCHANGED <<part, x11, x12>>

Spec == Init /\ [][Next]_vars

\* The parts' properties, under the names of this module.
AccountsFollowRows == part = "services" => Services!AccountsFollowRows
OnlyOwnAccounts == [][part = "services" => Services!ChangesOwn]_vars
AccountsFollowRequests == part = "requests" => SignUps!AccountsFollowRequests
DecisionsStand == [][part = "requests" => SignUps!KeepsDecisions]_vars
CustomChannelsSound == part = "customs" => Customs!CustomChannelsSound
GroupsFollowRecords ==
  /\ part = "cloudtak" => CloudTak!CloudTakSound
  /\ part = "access" => Access!GlobalAccessSound
RateKept == part = "limiter" => Limiter!RateKept
DevicesSound == part = "devices" => Devs!DevicesSound
PoolSound == part = "pool" => Pool!PoolSound
TreesSound ==
  /\ part = "tree" => Hierarchy!TreeSound
  /\ part = "import" => Import!ImportSound
ScopesAgree ==
  /\ part = "scopes" => Scopes!ScopesAgree
  /\ part = "transfers" => Transfers!TransferTypeOK /\ Transfers!TransferInv
TransfersSound == [][part = "transfers" => Transfers!TransfersSound]_vars
=============================================================================
