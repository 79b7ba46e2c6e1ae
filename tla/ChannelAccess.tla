---------------------------- MODULE ChannelAccess ----------------------------
(***************************************************************************)
(* One user's membership of the global channels' groups: every broadcast   *)
(* channel, and the region channels of the tiers the user's organisation   *)
(* has.  A tier is switched by a request that publishes a resync, a move   *)
(* of the user publishes an assignment; each operation is a lane, so       *)
(* several assignments may be at work, each over many calls.               *)
(***************************************************************************)
EXTENDS Naturals, SequencesExt

CONSTANTS
  Orgs, Tiers,
  Sessions,    \* requests of global managers under way at once
  MaxChanges, MaxFaults    \* bounds: requests, failed calls and statements

VARIABLES
  home,        \* the organisation of the user's direct team, or NoOrg
  access,      \* <<o, t>>: organisation o has tier t
  joined,      \* the user's groups in Authentik: Broadcast, a tier's group
  web,         \* web[s]: the request of session s
  ops,         \* operations that are not finished
  used,        \* requests and faults so far
  past         \* history: what the property excuses

vars == <<home, access, joined, web, ops, used, past>>

NoOrg == "no organisation"
NoTier == "no tier"
Broadcast == "broadcast"
Groups == Tiers \cup {Broadcast}
Idle == [pc |-> "idle", org |-> NoOrg, tier |-> NoTier, on |-> FALSE, saw |-> FALSE]
Op(kind, o) == [kind |-> kind, pc |-> "pending", org |-> o, add |-> {}, drop |-> {}, alone |-> TRUE]

TypeOK ==
  /\ home \in Orgs \cup {NoOrg}
  /\ access \subseteq Orgs \X Tiers
  /\ joined \subseteq Groups
  /\ web \in [Sessions -> [pc : {"idle", "update", "publish"}, org : Orgs \cup {NoOrg},
                           tier : Tiers \cup {NoTier}, on : BOOLEAN, saw : BOOLEAN]]
  /\ \A i \in DOMAIN ops :
       ops[i] \in [kind : {"resync", "assign"}, pc : {"pending", "placed", "resolved", "apply"},
                   org : Orgs \cup {NoOrg}, add : SUBSET Groups, drop : SUBSET Groups, alone : BOOLEAN]
  /\ used \in [changes : 0 .. MaxChanges, faults : 0 .. MaxFaults]
  /\ past \in [missed : BOOLEAN, crossed : BOOLEAN]

Init ==
  /\ home = NoOrg /\ access = {} /\ joined = {}
  /\ web = [s \in Sessions |-> Idle]
  /\ ops = <<>>
  /\ used = [changes |-> 0, faults |-> 0]
  /\ past = [missed |-> TRUE, crossed |-> FALSE]

Change == used.changes < MaxChanges /\ used' = [used EXCEPT !.changes = @ + 1]
Fault == used.faults < MaxFaults /\ used' = [used EXCEPT !.faults = @ + 1]
Missed == past' = [past EXCEPT !.missed = TRUE]
Wanted(o) == {Broadcast} \cup {t \in Tiers : <<o, t>> \in access}

-----------------------------------------------------------------------------
(* Requests.                                                               *)

Has(o, t) == <<o, t>> \in access

\* PUT channel-access reads the team,
ReadFlag(s, o, t, on) ==
  /\ web[s].pc = "idle" /\ Change
  /\ web' = [web EXCEPT ![s] = [pc |-> "update", org |-> o, tier |-> t, on |-> on, saw |-> Has(o, t)]]
  /\ UNCHANGED <<home, access, joined, ops, past>>

\* Mutant: only what is granted counts as a change.
Granted(r) == r.on /\ ~r.saw

Changed(r) == r.on # r.saw

\* updates it, whatever it is by then,
UpdateFlag(s) ==
  LET r == web[s] IN
  /\ r.pc = "update"
  /\ access' = IF r.on THEN access \cup {<<r.org, r.tier>>} ELSE access \ {<<r.org, r.tier>>}
  /\ web' = [web EXCEPT ![s] = IF Changed(r) THEN [r EXCEPT !.pc = "publish"] ELSE Idle]
  /\ past' = IF r.saw = Has(r.org, r.tier) THEN past ELSE [past EXCEPT !.missed = TRUE]
  /\ UNCHANGED <<home, joined, ops, used>>

\* and publishes; a failure is logged.
PublishResync(s) ==
  /\ web[s].pc = "publish"
  /\ \/ ops' = Append(ops, Op("resync", web[s].org)) /\ UNCHANGED <<used, past>>
     \/ Fault /\ Missed /\ UNCHANGED ops
  /\ web' = [web EXCEPT ![s] = Idle]
  /\ UNCHANGED <<home, access, joined>>

\* addUserToTeam, alone or in a transfer, publishes in its transaction.
Move(o) ==
  /\ home # o /\ Change
  /\ home' = o
  /\ ops' = Append(ops, Op("assign", NoOrg))
  /\ UNCHANGED <<access, joined, web, past>>

\* removeUserFromTeam publishes nothing: it takes the user for one who has teams.
Leave ==
  /\ home # NoOrg /\ Change
  /\ home' = NoOrg /\ Missed
  /\ UNCHANGED <<access, joined, web, ops>>

AssignAllUsers ==
  /\ Change
  /\ ops' = Append(ops, Op("assign", NoOrg))
  /\ UNCHANGED <<home, access, joined, web, past>>

-----------------------------------------------------------------------------
(* The worker.                                                             *)

Is(i, pc) == i \in DOMAIN ops /\ ops[i].pc = pc
AtWork(i) == ops[i].pc # "pending"
Others(i) == \E j \in DOMAIN ops : j # i /\ AtWork(j)
Set(i, op) == ops' = [ops EXCEPT ![i] = op]

\* An assignment that begins beside others spoils all of them.
Begins(i, op) ==
  ops' = [j \in DOMAIN ops |->
            IF j = i THEN [op EXCEPT !.alone = ~Others(i)]
            ELSE IF AtWork(j) THEN [ops[j] EXCEPT !.alone = FALSE] ELSE ops[j]]

\* resyncOrgChannelTierAccess: one assignment per user of the organisation.
Resync(i) ==
  /\ Is(i, "pending") /\ ops[i].kind = "resync"
  /\ ops' = IF home = ops[i].org THEN Append(RemoveAt(ops, i), Op("assign", NoOrg)) ELSE RemoveAt(ops, i)
  /\ UNCHANGED <<home, access, joined, web, used, past>>

\* assignUserToGlobalChannels reads the direct membership; from here on it makes
\* good what was missed before.
ReadHome(i) ==
  /\ Is(i, "pending") /\ ops[i].kind = "assign"
  /\ Begins(i, [ops[i] EXCEPT !.pc = "placed", !.org = home])
  /\ past' = [past EXCEPT !.missed = FALSE]
  /\ UNCHANGED <<home, access, joined, web, used>>

\* The organisation's flags and the channels: the groups wanted, in add.
ReadFlags(i) ==
  /\ Is(i, "placed")
  /\ Set(i, [ops[i] EXCEPT !.pc = "resolved", !.add = Wanted(ops[i].org)])
  /\ UNCHANGED <<home, access, joined, web, used, past>>

\* GET the user's groups; computeMembershipDiff.
ReadCurrent(i) ==
  /\ Is(i, "resolved")
  /\ Set(i, [ops[i] EXCEPT !.pc = "apply", !.add = @ \ joined, !.drop = joined \ ops[i].add])
  /\ UNCHANGED <<home, access, joined, web, used, past>>

\* One call per group, additions first; one that fails is logged and passed over.
Assign(i) ==
  /\ Is(i, "apply")
  /\ LET op == ops[i] IN
     IF op.add \cup op.drop = {}
     THEN /\ ops' = RemoveAt(ops, i)
          /\ past' = [past EXCEPT !.crossed = ~op.alone]
          /\ UNCHANGED <<joined, used>>
     ELSE \E g \in IF op.add # {} THEN op.add ELSE op.drop :
            /\ Set(i, [op EXCEPT !.add = @ \ {g}, !.drop = @ \ {g}])
            /\ \/ joined' = (IF g \in op.add THEN joined \cup {g} ELSE joined \ {g}) /\ UNCHANGED <<used, past>>
               \/ Fault /\ Missed /\ UNCHANGED joined
  /\ UNCHANGED <<home, access, web>>

\* A query or the GET fails: the operation starts again, or is given up.
Retry(i) ==
  /\ i \in DOMAIN ops /\ ops[i].pc \in {"placed", "resolved"} /\ Fault
  /\ Set(i, Op("assign", NoOrg))
  /\ UNCHANGED <<home, access, joined, web, past>>

GiveUp(i) ==
  /\ i \in DOMAIN ops /\ Fault /\ Missed
  /\ ops' = RemoveAt(ops, i)
  /\ UNCHANGED <<home, access, joined, web>>

Works(i) == Resync(i) \/ ReadHome(i) \/ ReadFlags(i) \/ ReadCurrent(i) \/ Assign(i)

Next ==
  \/ \E s \in Sessions :
       \/ \E o \in Orgs, t \in Tiers, on \in BOOLEAN : ReadFlag(s, o, t, on)
       \/ UpdateFlag(s) \/ PublishResync(s)
  \/ \E o \in Orgs : Move(o)
  \/ Leave \/ AssignAllUsers
  \/ \E i \in DOMAIN ops : Works(i) \/ Retry(i) \/ GiveUp(i)

-----------------------------------------------------------------------------
(* Properties.                                                             *)

Quiet == ops = <<>> /\ \A s \in Sessions : web[s].pc = "idle"

\* With nothing left to do the user is in the broadcast groups and in exactly the
\* region groups of the tiers the user's organisation has.  Excused are departures
\* and flags compared with an old value, which published nothing, and calls that
\* failed unnoticed, since the membership was last read, and assignments that
\* overlapped, until one has run alone.
GlobalAccessFollows ==
  Quiet /\ ~past.missed /\ ~past.crossed => joined = Wanted(home)

\* assignUserToGlobalChannels brings the groups to what the flags and the team give,
\* and every state is one the records and operations of the code can be in.
GlobalAccessSound == TypeOK /\ GlobalAccessFollows
=============================================================================
