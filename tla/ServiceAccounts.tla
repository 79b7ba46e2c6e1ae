--------------------------- MODULE ServiceAccounts --------------------------
(***************************************************************************)
(* The service account of a BCH channel: the credentials in bch_channels,  *)
(* the account in Authentik, and the operations that provision it, rotate  *)
(* its password and delete it.  A request changes its row and publishes    *)
(* its operation in one transaction that holds the row (FOR UPDATE); each  *)
(* operation is a lane of its own, so two of one channel can overlap.      *)
(***************************************************************************)
EXTENDS Naturals, FiniteSets, SequencesExt

CONSTANTS
  Channels,     \* active bch_channels
  Usernames,    \* usernames an account can have
  Pks,          \* account ids of Authentik, 1 .. n
  MaxRequests,  \* bound: requests; also the passwords, 1 .. MaxRequests
  MaxFaults     \* bound: calls that fail or lose their answer

VARIABLES
  row,     \* bch_channels: service_account_username, _password and _id
  acct,    \* accounts in Authentik: [user, pw, owner], or NoAcct
  made,    \* how many account ids have been given out
  cand,    \* the username each provisioning request has found available
  ops,     \* sync_operations pending or processing, oldest first
  used,    \* requests and faults so far
  past     \* history: channels with overlapping or failed operations, clashes

vars == <<row, acct, made, cand, ops, used, past>>

None == "none"
NoPk == 0
NoPw == 0
NoAcct == [user |-> None, pw |-> NoPw, owner |-> None]
NoRow == [user |-> None, pw |-> NoPw, id |-> NoPk]
Passwords == 1 .. MaxRequests

TypeOK ==
  /\ row \in [Channels -> [user : Usernames \cup {None}, pw : Passwords \cup {NoPw}, id : Pks \cup {NoPk}]]
  /\ acct \in [Pks -> [user : Usernames, pw : Passwords \cup {NoPw}, owner : Channels] \cup {NoAcct}]
  /\ made \in 0 .. Cardinality(Pks)
  /\ cand \in [Channels -> Usernames \cup {None}]
  /\ \A i \in DOMAIN ops :
       ops[i] \in [kind : {"provision", "rotate", "delete"}, ch : Channels, user : Usernames,
                   pw : Passwords \cup {NoPw}, pk : Pks \cup {NoPk}, st : {"pending", "found", "set"}]
  /\ used \in [requests : 0 .. MaxRequests, faults : 0 .. MaxFaults]
  /\ past \in [overlap : SUBSET Channels, failed : SUBSET Channels, stale : SUBSET Channels, clash : BOOLEAN, lost : BOOLEAN]

Init ==
  /\ row = [c \in Channels |-> NoRow]
  /\ acct = [k \in Pks |-> NoAcct]
  /\ made = 0
  /\ cand = [c \in Channels |-> None]
  /\ ops = <<>>
  /\ used = [requests |-> 0, faults |-> 0]
  /\ past = [overlap |-> {}, failed |-> {}, stale |-> {}, clash |-> FALSE, lost |-> FALSE]

With(u) == {k \in Pks : acct[k].user = u}
Request == used.requests < MaxRequests /\ used' = [used EXCEPT !.requests = @ + 1]
Fault == used.faults < MaxFaults /\ used' = [used EXCEPT !.faults = @ + 1]
NewPw == used.requests + 1
Op(kind, c, u, p, k) == [kind |-> kind, ch |-> c, user |-> u, pw |-> p, pk |-> k, st |-> "pending"]

-----------------------------------------------------------------------------
(* Requests.                                                               *)

\* Asked outside the transaction: of the other rows, then of Authentik.
CheckAvailability(c, u) ==
  /\ cand[c] = None /\ row[c].user = None
  /\ \A d \in Channels \ {c} : row[d].user # u
  /\ With(u) = {}
  /\ cand' = [cand EXCEPT ![c] = u]
  /\ UNCHANGED <<row, acct, made, ops, used, past>>

\* Another channel's row or unfinished operation names the username: neither a
\* row written since the check nor an operation is looked for.
Held(c, u) ==
  \/ \E d \in Channels \ {c} : row[d].user = u
  \/ \E i \in DOMAIN ops : ops[i].ch # c /\ ops[i].user = u

\* The row is locked and checked again, the username is not.
ProvisionServiceAccount(c) ==
  /\ cand[c] # None
  /\ cand' = [cand EXCEPT ![c] = None]
  /\ IF row[c].user # None THEN UNCHANGED <<row, ops, used, past>>
     ELSE /\ Request
          /\ row' = [row EXCEPT ![c].user = cand[c], ![c].pw = NewPw]
          /\ ops' = Append(ops, Op("provision", c, cand[c], NewPw, NoPk))
          /\ past' = [past EXCEPT !.clash = @ \/ Held(c, cand[c])]
  /\ UNCHANGED <<acct, made>>

RotateServiceAccountPassword(c) ==
  /\ row[c].user # None /\ Request
  /\ row' = [row EXCEPT ![c].pw = NewPw]
  /\ ops' = Append(ops, Op("rotate", c, row[c].user, NewPw, NoPk))
  /\ UNCHANGED <<acct, made, cand, past>>

\* The payload carries the account id the row knows, if it knows one.
DeleteServiceAccount(c) ==
  /\ row[c].user # None /\ Request
  /\ row' = [row EXCEPT ![c] = NoRow]
  /\ ops' = Append(ops, Op("delete", c, row[c].user, NoPw, row[c].id))
  /\ UNCHANGED <<acct, made, cand, past>>

-----------------------------------------------------------------------------
(* The worker.                                                             *)

Is(i, kind, st) == i \in DOMAIN ops /\ ops[i].kind = kind /\ ops[i].st = st

\* An operation that starts while an older one of its channel is unfinished.
Overlaps(i) ==
  IF \E j \in 1 .. i - 1 : ops[j].ch = ops[i].ch
  THEN past.overlap \cup {ops[i].ch} ELSE past.overlap
Started(i) == [past EXCEPT !.overlap = Overlaps(i)]
FailedFor(i) == [past EXCEPT !.failed = @ \cup {ops[i].ch}, !.overlap = Overlaps(i)]

Found(i, k) == ops' = [ops EXCEPT ![i].st = "found", ![i].pk = k]
Finish(i) == ops' = RemoveAt(ops, i)

\* POST, or the account of that name if it is marked as this channel's.
CreateOrFind(i) ==
  /\ Is(i, "provision", "pending")
  /\ LET op == ops[i] IN
     \/ /\ With(op.user) = {} /\ made < Cardinality(Pks)
        /\ made' = made + 1
        /\ acct' = [acct EXCEPT ![made + 1] = [user |-> op.user, pw |-> NoPw, owner |-> op.ch]]
        /\ Found(i, made + 1) /\ past' = Started(i)
     \/ \E k \in With(op.user) :
          /\ IF acct[k].owner = op.ch THEN Found(i, k) /\ past' = Started(i)
                                      ELSE Finish(i) /\ past' = FailedFor(i)
          /\ UNCHANGED <<acct, made>>
  /\ UNCHANGED <<row, cand, used>>

\* Mutant: the first result of the lookup is taken, whatever its username.
FindFirst(i) ==
  /\ Is(i, "rotate", "pending")
  /\ \E k \in Pks : acct[k] # NoAcct /\ Found(i, k)
  /\ past' = Started(i)
  /\ UNCHANGED <<row, acct, made, cand, used>>

FindToRotate(i) ==
  /\ Is(i, "rotate", "pending")
  /\ IF With(ops[i].user) = {} THEN Finish(i) /\ past' = FailedFor(i)
     ELSE \E k \in With(ops[i].user) : Found(i, k) /\ past' = Started(i)
  /\ UNCHANGED <<row, acct, made, cand, used>>

SetPassword(i) ==
  /\ i \in DOMAIN ops /\ ops[i].kind \in {"provision", "rotate"} /\ ops[i].st = "found"
  /\ IF acct[ops[i].pk] = NoAcct
     THEN Finish(i) /\ past' = FailedFor(i) /\ UNCHANGED acct
     ELSE /\ acct' = [acct EXCEPT ![ops[i].pk].pw = ops[i].pw]
          /\ IF ops[i].kind = "rotate" THEN Finish(i) ELSE ops' = [ops EXCEPT ![i].st = "set"]
          /\ UNCHANGED past
  /\ UNCHANGED <<row, made, cand, used>>

\* The groups have been joined; the id is written whatever the row says by now,
\* and stays in a row that a deletion has cleared meanwhile.
RecordAccount(i) ==
  /\ Is(i, "provision", "set")
  /\ row' = [row EXCEPT ![ops[i].ch].id = ops[i].pk]
  /\ past' = [past EXCEPT !.stale = IF row[ops[i].ch].user = ops[i].user THEN @ ELSE @ \cup {ops[i].ch}]
  /\ Finish(i)
  /\ UNCHANGED <<acct, made, cand, used>>

\* Mutant: the id is read from the row, which the request has cleared.
FindByRow(i) ==
  /\ Is(i, "delete", "pending")
  /\ IF row[ops[i].ch].id # NoPk THEN Found(i, row[ops[i].ch].id) ELSE Finish(i)
  /\ past' = Started(i)
  /\ UNCHANGED <<row, acct, made, cand, used>>

FindToDelete(i) ==
  /\ Is(i, "delete", "pending")
  /\ IF ops[i].pk # NoPk THEN Found(i, ops[i].pk)
     ELSE IF With(ops[i].user) = {} THEN Finish(i)
     ELSE \E k \in With(ops[i].user) : Found(i, k)
  /\ past' = Started(i)
  /\ UNCHANGED <<row, acct, made, cand, used>>

\* 404 counts as deleted.  When the answer is lost the account is looked up
\* again by the retry, by its name if the payload has no id.
DeleteAccount(i) ==
  /\ Is(i, "delete", "found")
  /\ acct' = [acct EXCEPT ![ops[i].pk] = NoAcct]
  /\ \/ Finish(i) /\ UNCHANGED <<used, past>>
     \/ Fault /\ ops' = [ops EXCEPT ![i].st = "pending"] /\ past' = [past EXCEPT !.lost = TRUE]
  /\ UNCHANGED <<row, made, cand>>

\* A call fails in between: the operation is pending again.
CallFails(i) ==
  /\ i \in DOMAIN ops /\ ops[i].kind # "delete" /\ ops[i].st # "pending" /\ Fault
  /\ ops' = [ops EXCEPT ![i].st = "pending", ![i].pk = NoPk]
  /\ UNCHANGED <<row, acct, made, cand, past>>

Works(i) ==
  \/ CreateOrFind(i)
  \/ FindToRotate(i)
  \/ SetPassword(i)
  \/ RecordAccount(i)
  \/ FindToDelete(i)
  \/ DeleteAccount(i)
  \/ CallFails(i)

Next ==
  \/ \E c \in Channels, u \in Usernames : CheckAvailability(c, u)
  \/ \E c \in Channels : \/ ProvisionServiceAccount(c)
                         \/ RotateServiceAccountPassword(c)
                         \/ DeleteServiceAccount(c)
  \/ \E i \in 1 .. MaxRequests : Works(i)

Spec == Init /\ [][Next]_vars

-----------------------------------------------------------------------------
Busy(c) == \E i \in DOMAIN ops : ops[i].ch = c
Undisturbed(c) == c \notin past.overlap \cup past.failed \cup past.stale /\ ~past.clash /\ ~past.lost

\* Once its operations are done, a channel's row and its account agree: the
\* account exists under the row's username and id, belongs to the channel, and
\* has the password the row shows; unless operations of the channel overlapped,
\* one failed for good, a deletion was asked for before the provisioning had
\* written its id, or two channels came to hold one username.
CredentialsMatch ==
  \A c \in Channels :
    Undisturbed(c) /\ ~Busy(c) /\ row[c].user # None =>
      row[c].id # NoPk /\ acct[row[c].id] = [user |-> row[c].user, pw |-> row[c].pw, owner |-> c]

\* And a channel without a service account has left none behind.
NothingLeftBehind ==
  \A c \in Channels :
    Undisturbed(c) /\ ~Busy(c) /\ row[c].user = None => \A k \in Pks : acct[k].owner # c

\* In every state the accounts and the rows belong together.
AccountsFollowRows == TypeOK /\ CredentialsMatch /\ NothingLeftBehind

\* An account changes only by an operation of the channel that owns it.
ChangesOwn ==
  \A k \in Pks : acct[k] # NoAcct /\ acct'[k] # acct[k] =>
    \/ \E i \in DOMAIN ops : ops[i].pk = k /\ ops[i].ch = acct[k].owner
    \/ past.clash \/ past.lost \/ acct[k].owner \in past.overlap \cup past.stale

\* No operation sets the password of, or deletes, another channel's account,
\* although rotations and deletions find it by its name alone: true while the
\* operations of a channel run in order, no answer of a deletion is lost, no
\* channel takes a username that another one holds or has yet to give up (the
\* check looks at rows and accounts only, and the write comes later), and no
\* provisioning writes its id under a later request (a deletion by that id then
\* leaves an account whose name another channel can find).
OnlyOwnAccounts == [][ChangesOwn]_vars
=============================================================================
