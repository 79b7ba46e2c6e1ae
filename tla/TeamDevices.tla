----------------------------- MODULE TeamDevices -----------------------------
(***************************************************************************)
(* The devices of one team.  A device is a row of users, an account in     *)
(* Authentik and a membership; making and deleting one are sequences of    *)
(* autocommitted statements, one transaction and calls.  The id stands for *)
(* the identifier that was minted: it names the row and the account.       *)
(***************************************************************************)
EXTENDS Naturals, FiniteSets

CONSTANTS
  Devices, Suffixes,
  Sessions,    \* requests about existing devices and the team under way at once
  MaxFaults    \* bound: failed calls and statements, lost answers, dead processes

VARIABLES
  team,        \* the team exists
  row,         \* row[d]: the row of users
  member,      \* devices with a direct membership
  accts,       \* devices with an account in Authentik
  make,        \* make[d]: the request that makes device d
  web,         \* web[s]: another request
  cleanup,     \* cleanup_orphaned_authentik_user operations
  faults,      \* how many faults so far
  past         \* history: faults[d] that were met, and overlapping checks

vars == <<team, row, member, accts, make, web, cleanup, faults, past>>

NoSuffix == "no suffix"
NoRow == [kind |-> "none", suffix |-> NoSuffix]
NoDevice == "no device"
Idle == [pc |-> "idle", dev |-> NoDevice, suffix |-> NoSuffix, acct |-> FALSE]
Names == Suffixes \cup {NoSuffix}
Steps == {"unasked", "claim", "account", "check", "adopt", "unclaim", "unaccount", "enqueue", "done"}

TypeOK ==
  /\ team \in BOOLEAN
  /\ row \in [Devices -> [kind : {"none", "claim", "device"}, suffix : Names]]
  /\ member \subseteq Devices /\ accts \subseteq Devices /\ cleanup \subseteq Devices
  /\ make \in [Devices -> [pc : Steps, suffix : Names, acct : BOOLEAN]]
  /\ web \in [Sessions -> [pc : {"idle", "update", "remove", "account", "row", "drop"},
                           dev : Devices \cup {NoDevice}, suffix : Names, acct : BOOLEAN]]
  /\ faults \in 0 .. MaxFaults
  /\ past \in [cut : SUBSET Devices, raced : SUBSET Devices, crossed : SUBSET SUBSET Devices]

Init ==
  /\ team = TRUE
  /\ row = [d \in Devices |-> NoRow]
  /\ member = {} /\ accts = {} /\ cleanup = {}
  /\ make = [d \in Devices |-> [pc |-> "unasked", suffix |-> NoSuffix, acct |-> FALSE]]
  /\ web = [s \in Sessions |-> Idle]
  /\ faults = 0
  /\ past = [cut |-> {}, raced |-> {}, crossed |-> {}]

Fault == faults < MaxFaults /\ faults' = faults + 1
Cut(d) == past' = [past EXCEPT !.cut = @ \cup {d}]
At(d, pc) == make[d].pc = pc
Goes(d, pc) == make' = [make EXCEPT ![d].pc = pc]

\* checkCallsignSuffixUniqueness: no other member has the suffix.
Unique(x, d) == x = NoSuffix \/ \A e \in member \ {d} : row[e].suffix # x

\* Requests that have checked suffix x and have still to commit it.
Committing(x) ==
  {e \in Devices : \/ At(e, "adopt") /\ row[e].suffix = x
                   \/ \E s \in Sessions : web[s].pc = "update" /\ web[s].dev = e /\ web[s].suffix = x}
Crossed(x, d) ==
  past' = [past EXCEPT !.crossed = @ \cup {{d, e} : e \in Committing(x) \ {d}}]

-----------------------------------------------------------------------------
(* createDevice.                                                           *)

\* The ancestor chain and its prefix, and a first check of the suffix.
Ask(d, x) ==
  /\ At(d, "unasked") /\ team /\ Unique(x, d)
  /\ make' = [make EXCEPT ![d] = [pc |-> "claim", suffix |-> x, acct |-> FALSE]]
  /\ UNCHANGED <<team, row, member, accts, web, cleanup, faults, past>>

\* mintUniqueIdentifier: the INSERT that succeeds (one whose name is taken is
\* repeated with another).
Claim(d) ==
  /\ At(d, "claim") /\ Goes(d, "account")
  /\ row' = [row EXCEPT ![d] = [kind |-> "claim", suffix |-> make[d].suffix]]
  /\ UNCHANGED <<team, member, accts, web, cleanup, faults, past>>

\* createUser; without an answer no account is known of.
CreateUser(d) ==
  /\ At(d, "account")
  /\ \/ /\ accts' = accts \cup {d}
        /\ make' = [make EXCEPT ![d].pc = "check", ![d].acct = TRUE]
        /\ UNCHANGED <<faults, past>>
     \/ /\ Fault /\ Goes(d, "unclaim")
        /\ \/ accts' = accts \cup {d} /\ Cut(d)
           \/ UNCHANGED <<accts, past>>
  /\ UNCHANGED <<team, row, member, web, cleanup>>

\* Mutant: addUserToTeam leaves the check to its caller.
TrustTheFirst(d) ==
  /\ At(d, "check") /\ Goes(d, "adopt")
  /\ UNCHANGED <<team, row, member, accts, web, cleanup, faults, past>>

\* The transaction: addUserToTeam checks the suffix on committed rows,
CheckSuffix(d) ==
  /\ At(d, "check")
  /\ IF Unique(row[d].suffix, d)
     THEN Goes(d, "adopt") /\ Crossed(row[d].suffix, d)
     ELSE Goes(d, "unclaim") /\ UNCHANGED past
  /\ UNCHANGED <<team, row, member, accts, web, cleanup, faults>>

\* and inserts the membership, unless the team is gone or a statement fails.  A
\* broken connection fails the ROLLBACK as well: what follows it is not run.
Adopted(d) ==
  /\ team
  /\ row' = [row EXCEPT ![d].kind = "device"]
  /\ member' = member \cup {d}
Adopt(d) ==
  /\ At(d, "adopt")
  /\ \/ Adopted(d) /\ Goes(d, "done") /\ UNCHANGED <<faults, past>>
     \/ ~team /\ Goes(d, "unclaim") /\ UNCHANGED <<row, member, faults, past>>
     \/ Fault /\ Goes(d, "unclaim") /\ UNCHANGED <<row, member, past>>
     \/ /\ Fault /\ Goes(d, "done")
        /\ \/ Adopted(d) /\ UNCHANGED past
           \/ UNCHANGED <<row, member>> /\ Cut(d)
  /\ UNCHANGED <<team, accts, web, cleanup>>

\* #compensateClaimRow: the row goes if it was never adopted,
Unclaim(d) ==
  /\ At(d, "unclaim") /\ Goes(d, IF make[d].acct THEN "unaccount" ELSE "done")
  /\ \/ /\ row' = [row EXCEPT ![d] = IF @.kind = "claim" THEN NoRow ELSE @]
        /\ UNCHANGED <<faults, past>>
     \/ Fault /\ Cut(d) /\ UNCHANGED row
  /\ UNCHANGED <<team, member, accts, web, cleanup>>

\* then the account, by a call or else by an operation.
DeleteUser(d) ==
  /\ At(d, "unaccount")
  /\ \/ accts' = accts \ {d} /\ Goes(d, "done") /\ UNCHANGED faults
     \/ Fault /\ accts' \in {accts, accts \ {d}} /\ Goes(d, "enqueue")
  /\ UNCHANGED <<team, row, member, web, cleanup, past>>

Enqueue(d) ==
  /\ At(d, "enqueue") /\ Goes(d, "done")
  /\ \/ cleanup' = cleanup \cup {d} /\ UNCHANGED <<faults, past>>
     \/ Fault /\ Cut(d) /\ UNCHANGED cleanup
  /\ UNCHANGED <<team, row, member, accts, web>>

\* The process dies.
Dies(d) ==
  /\ make[d].pc \notin {"unasked", "done"} /\ Fault /\ Cut(d)
  /\ Goes(d, "done")
  /\ UNCHANGED <<team, row, member, accts, web, cleanup>>

\* cleanupOrphanedAuthentikUser; a failure is retried or gives the operation up.
Cleanup(d) ==
  /\ d \in cleanup
  /\ \/ accts' = accts \ {d} /\ cleanup' = cleanup \ {d} /\ UNCHANGED <<faults, past>>
     \/ Fault /\ Cut(d) /\ cleanup' = cleanup \ {d} /\ UNCHANGED accts
  /\ UNCHANGED <<team, row, member, make, web>>

-----------------------------------------------------------------------------
(* updateDevice, deleteDevice and the deletion of the team.                *)

Begins(s, pc, d, x) ==
  /\ web[s] = Idle
  /\ web' = [web EXCEPT ![s] = [pc |-> pc, dev |-> d, suffix |-> x,
                                acct |-> d \in member /\ row[d].kind = "device"]]
Proceeds(s, pc) == web' = [web EXCEPT ![s].pc = pc]
Ends(s) == web' = [web EXCEPT ![s] = Idle]
On(s, pc) == web[s].pc = pc

\* A device without a team is refused; the suffix is checked,
Edit(s, d, x) ==
  /\ d \in member /\ Unique(x, d)
  /\ Begins(s, "update", d, x) /\ Crossed(x, d)
  /\ UNCHANGED <<team, row, member, accts, make, cleanup, faults>>

\* then written by id.
Update(s) ==
  /\ On(s, "update") /\ Ends(s)
  /\ row' = [row EXCEPT ![web[s].dev] = IF @.kind = "none" THEN @ ELSE [@ EXCEPT !.suffix = web[s].suffix]]
  /\ UNCHANGED <<team, member, accts, make, cleanup, faults, past>>

\* deleteDevice reads the row and the membership, refuses a device without one,
AskDelete(s, d) ==
  /\ d \in member /\ Begins(s, "remove", d, NoSuffix)
  /\ UNCHANGED <<team, row, member, accts, make, cleanup, faults, past>>

\* takes it out of the team in a transaction,
Remove(s) ==
  /\ On(s, "remove")
  /\ \/ member' = member \ {web[s].dev} /\ Proceeds(s, IF web[s].acct THEN "account" ELSE "row") /\ UNCHANGED faults
     \/ Fault /\ Ends(s) /\ UNCHANGED member
  /\ UNCHANGED <<team, row, accts, make, cleanup, past>>

\* deletes the account, whatever the answer,
DeleteAccount(s) ==
  /\ On(s, "account") /\ Proceeds(s, "row")
  /\ \/ accts' = accts \ {web[s].dev} /\ UNCHANGED <<faults, past>>
     \/ Fault /\ Cut(web[s].dev) /\ UNCHANGED accts
  /\ UNCHANGED <<team, row, member, make, cleanup>>

\* and the row, with the memberships it may have by then.
DeleteRow(s) ==
  /\ On(s, "row") /\ Ends(s)
  /\ LET d == web[s].dev IN
     \/ /\ row' = [row EXCEPT ![d] = NoRow] /\ member' = member \ {d}
        /\ UNCHANGED <<faults, past>>
     \/ Fault /\ Cut(d) /\ UNCHANGED <<row, member>>
  /\ UNCHANGED <<team, accts, make, cleanup>>

\* A process dies between two steps, or the query on user_cache fails.
Stops(s) ==
  /\ web[s] # Idle /\ Fault /\ Ends(s)
  /\ past' = IF web[s].pc \in {"account", "row"} THEN [past EXCEPT !.cut = @ \cup {web[s].dev}] ELSE past
  /\ UNCHANGED <<team, row, member, accts, make, cleanup>>

\* DELETE /teams counts the members and devices,
Count(s) ==
  /\ team /\ member = {} /\ Begins(s, "drop", NoDevice, NoSuffix)
  /\ UNCHANGED <<team, row, member, accts, make, cleanup, faults, past>>

\* and deletes the team with whatever memberships it has by then.
DropTeam(s) ==
  /\ On(s, "drop") /\ Ends(s)
  /\ team' = FALSE /\ member' = {}
  /\ past' = [past EXCEPT !.raced = @ \cup member]
  /\ UNCHANGED <<row, accts, make, cleanup, faults>>

Creates(d) ==
  \/ \E x \in Names : Ask(d, x)
  \/ Claim(d) \/ CreateUser(d) \/ CheckSuffix(d) \/ Adopt(d)
  \/ Unclaim(d) \/ DeleteUser(d) \/ Enqueue(d) \/ Dies(d) \/ Cleanup(d)

Serves(s) ==
  \/ \E d \in Devices : AskDelete(s, d) \/ \E x \in Names : Edit(s, d, x)
  \/ Update(s) \/ Remove(s) \/ DeleteAccount(s) \/ DeleteRow(s) \/ Stops(s)
  \/ Count(s) \/ DropTeam(s)

Next == (\E d \in Devices : Creates(d)) \/ \E s \in Sessions : Serves(s)

-----------------------------------------------------------------------------
(* Properties.                                                             *)

Settled(d) ==
  /\ make[d].pc \in {"unasked", "done"} /\ d \notin cleanup
  /\ \A s \in Sessions : web[s].dev # d
Nothing(d) == row[d] = NoRow /\ d \notin accts /\ d \notin member
Complete(d) == row[d].kind = "device" /\ d \in accts /\ d \in member

\* Once every request about it has ended a device is there with its row, its
\* account and its membership, or no trace of it is.  Without the membership only,
\* which nothing in the code can delete any more, when its team was counted before it
\* joined; in any other way only when a process, a connection or a call that is not
\* repeated failed in a request of the device's own.
WholeOrNothing ==
  \A d \in Devices : Settled(d) =>
    \/ Nothing(d) \/ Complete(d) \/ d \in past.cut
    \/ d \in past.raced /\ row[d].kind = "device" /\ d \in accts

\* A device in a team can always sign in, whatever has failed: what deletes an
\* account deletes one that has no membership.
MembersHaveAccounts == member \subseteq accts

\* Two members have the same suffix only if one was checked while the other was
\* between its own check and its commit.
SuffixesApart ==
  \A d, e \in member :
    d # e /\ row[d].suffix = row[e].suffix => row[d].suffix = NoSuffix \/ {d, e} \in past.crossed

\* createDevice, updateDevice, deleteDevice and the deletion of the team keep the
\* three parts of a device together and the members' suffixes apart.
DevicesSound == TypeOK /\ WholeOrNothing /\ MembersHaveAccounts /\ SuffixesApart
=============================================================================
