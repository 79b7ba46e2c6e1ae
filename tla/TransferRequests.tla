-------------------------- MODULE TransferRequests --------------------------
(***************************************************************************)
(* Moving a person to another team.  Whoever administers both sides moves  *)
(* at once; whoever administers one side files a request, which an         *)
(* administrator of the other side approves or denies.  The request, the   *)
(* approval and the addition of somebody without a team judge first, on    *)
(* the pool, and write later, in a transaction; teams are moved, people    *)
(* leave and roles change in between.                                      *)
(***************************************************************************)
EXTENDS TeamScopes

CONSTANTS
  Managers,    \* users who are Global_Manager
  Requests,    \* ids of access_requests, 1 .. n
  Sessions,
  MaxStarts    \* bound: web requests begun and changes made

VARIABLES
  request,     \* the pending and decided requests
  web,         \* web[s]: what session s is about to do
  starts

transfers == <<request, web, starts>>
allVars == <<vars, transfers>>

NoRequest == 0
Unused == [st |-> "unused", user |-> None, from |-> None, to |-> None, gate |-> None, said |-> {}]

\* said: the sides for which an administrator was found.  late: since the
\* session began, the tree or the rows of its two people changed; since: the
\* tree did, after the transaction had compared the Organisations.
Idle == [pc |-> "idle", actor |-> None, user |-> None, from |-> None, to |-> None,
         req |-> NoRequest, said |-> {}, late |-> FALSE, since |-> FALSE]

TransferTypeOK ==
  /\ request \in [Requests -> [st : {"unused", "pending", "approved", "denied"}, user : Users \cup {None},
                               from : Teams \cup {None}, to : Teams \cup {None}, gate : Teams \cup {None},
                               said : SUBSET Teams]]
  /\ \A s \in Sessions :
       /\ web[s].pc \in {"idle", "judge", "file", "transact", "write", "deny", "add"}
       /\ web[s].actor \in Users \cup {None} /\ web[s].user \in Users \cup {None}
       /\ {web[s].from, web[s].to} \subseteq Teams \cup {None}
       /\ web[s].req \in Requests \cup {NoRequest} /\ web[s].said \subseteq Teams
       /\ {web[s].late, web[s].since} \subseteq BOOLEAN
  /\ starts \in 0 .. MaxStarts

\* The parents, the members and the administrators at the start.
TransferInit ==
  /\ Init /\ hidden = {}
  /\ \A u \in Managers : home[u] = None
  /\ request = [r \in Requests |-> Unused]
  /\ web = [s \in Sessions |-> Idle]
  /\ starts = 0

Goes(s, w) == web' = [web EXCEPT ![s] = w]
Room == starts + edits < MaxStarts
Starts == Room /\ starts' = starts + 1

\* The sessions for which what was judged may have changed.
Outdated(W, U, tree) ==
  [s \in Sessions |->
     IF W[s].pc = "idle" THEN W[s]
     ELSE [W[s] EXCEPT !.late = @ \/ tree \/ W[s].user \in U \/ W[s].actor \in U,
                       !.since = @ \/ tree]]

Pending(u) == \E r \in Requests : request[r].st = "pending" /\ request[r].user = u

\* Rows locked by a transaction under way: a person's, a request's.
Locked(u) == \E s \in Sessions : web[s].pc = "write" /\ web[s].user = u
LockedRequest(r) == \E s \in Sessions : web[s].pc = "write" /\ web[s].req = r

\* What a resolver asks; a Global_Manager administers every team.
Administers(a, t) == a \in Managers \/ (t # None /\ IsAdmin(t, a))

-----------------------------------------------------------------------------
(* POST /users/:userId/transfer.                                      *)

\* The resolver, which asks for either side, and the checks up to the pending
\* request: what fails here leaves no trace.
StartTransfer(s, a, u, t) ==
  /\ web[s].pc = "idle" /\ Starts
  /\ Administers(a, t) \/ Administers(a, home[u])
  /\ a # u /\ home[u] \notin {None, t}
  /\ Organisation(home[u]) = Organisation(t) \/ a \in Managers
  /\ ~Pending(u)
  /\ Goes(s, [Idle EXCEPT !.pc = "judge", !.actor = a, !.user = u, !.from = home[u], !.to = t])
  /\ UNCHANGED <<vars, request>>

\* The sides are judged anew: both decide at once.
Judge(s) ==
  /\ web[s].pc = "judge"
  /\ LET said == {t \in {web[s].from, web[s].to} : Administers(web[s].actor, t)}
     IN Goes(s, [web[s] EXCEPT !.pc = IF Cardinality(said) = 2 THEN "transact" ELSE "file", !.said = said])
  /\ UNCHANGED <<vars, request, starts>>

\* Mutant: the side that has agreed is asked again.
SideThatAgreed(w) == IF w.to \in w.said THEN w.to ELSE w.from

\* The team whose administrators decide.
ApprovalTeam(w) == IF w.to \in w.said THEN w.from ELSE w.to

\* The unique index refuses a second pending request for one person.
FileRequest(s) ==
  /\ web[s].pc = "file"
  /\ LET w == web[s]
     IN \/ /\ ~Pending(w.user)
           /\ \E r \in Requests :
                /\ request[r] = Unused /\ \A x \in Requests : x < r => request[x] # Unused
                /\ request' = [request EXCEPT ![r] = [st |-> "pending", user |-> w.user, from |-> w.from,
                                                      to |-> w.to, gate |-> ApprovalTeam(w), said |-> w.said]]
        \/ Pending(w.user) /\ UNCHANGED request
  /\ Goes(s, Idle)
  /\ UNCHANGED <<vars, starts>>

-----------------------------------------------------------------------------
(* Approval and denial.                                                    *)

StartApproval(s, a, r) ==
  /\ web[s].pc = "idle" /\ Starts
  /\ request[r].st = "pending" /\ Administers(a, request[r].gate)
  /\ LET q == request[r]
     IN Goes(s, [Idle EXCEPT !.pc = "transact", !.actor = a, !.user = q.user, !.from = q.from, !.to = q.to,
                             !.req = r, !.said = q.said \cup {q.gate}])
  /\ UNCHANGED <<vars, request>>

StartDenial(s, a, r) ==
  /\ web[s].pc = "idle" /\ Starts
  /\ request[r].st = "pending" /\ Administers(a, request[r].gate)
  /\ Goes(s, [Idle EXCEPT !.pc = "deny", !.actor = a, !.user = request[r].user, !.req = r])
  /\ UNCHANGED <<vars, request>>

\* The read took no lock, and the update has no condition on the status.
WriteDenial(s) ==
  /\ web[s].pc = "deny" /\ ~LockedRequest(web[s].req)
  /\ request' = [request EXCEPT ![web[s].req].st = "denied"]
  /\ Goes(s, Idle)
  /\ UNCHANGED <<vars, starts>>

SourceAsExpected(w) == w.req # NoRequest => home[w.user] = w.from

\* executeTransfer up to its first write.  The request's row is locked first,
\* then the person's: the transactions wait for each other.
LockAndCheck(s) ==
  /\ web[s].pc = "transact"
  /\ LET w == web[s]
         source == home[w.user]
     IN /\ ~Locked(w.user) /\ (w.req # NoRequest => ~LockedRequest(w.req))
        /\ IF /\ w.req # NoRequest => request[w.req].st = "pending"
              /\ source \notin {None, w.to} /\ SourceAsExpected(w)
              /\ Organisation(source) = Organisation(w.to) \/ w.actor \in Managers
           THEN Goes(s, [w EXCEPT !.pc = "write", !.since = FALSE])
           ELSE Goes(s, Idle)
  /\ UNCHANGED <<vars, request, starts>>

\* The rest and the commit, or a suffix that is taken or a statement that fails.
CommitTransfer(s) ==
  /\ web[s].pc = "write"
  /\ LET w == web[s]
     IN \/ /\ AddUserToTeam(w.user, w.to)
           /\ request' = IF w.req = NoRequest THEN request ELSE [request EXCEPT ![w.req].st = "approved"]
           /\ web' = Outdated([web EXCEPT ![s] = Idle], {w.user}, FALSE)
        \/ Goes(s, Idle) /\ UNCHANGED <<scopes, request>>
  /\ UNCHANGED <<edits, starts>>

-----------------------------------------------------------------------------
(* Additions, and what else changes the tree and the rows.                 *)

\* Somebody without a team is added: that there is none is not checked again.
StartAddition(s, a, u, t) ==
  /\ web[s].pc = "idle" /\ Starts
  /\ Administers(a, t) /\ home[u] = None
  /\ Goes(s, [Idle EXCEPT !.pc = "add", !.actor = a, !.user = u, !.to = t, !.said = {t}])
  /\ UNCHANGED <<vars, request>>

Add(s) ==
  /\ web[s].pc = "add" /\ ~Locked(web[s].user)
  /\ AddUserToTeam(web[s].user, web[s].to)
  /\ web' = Outdated([web EXCEPT ![s] = Idle], {web[s].user}, FALSE)
  /\ UNCHANGED <<edits, request, starts>>

Changes ==
  /\ Room /\ Edit /\ UNCHANGED <<request, starts>>
  /\ \/ \E u \in Users \ Managers :
          /\ ~Locked(u)
          /\ RemoveUserFromTeam(u) \/ \E t \in Teams, r \in {"admin", "member"} : AddMember(u, t, r)
          /\ web' = Outdated(web, {u}, FALSE)
     \/ \E t \in Teams, p \in Teams \cup {Top} : Reparent(t, p) /\ web' = Outdated(web, {}, TRUE)

Handle(s) ==
  Judge(s) \/ FileRequest(s) \/ LockAndCheck(s) \/ CommitTransfer(s) \/ WriteDenial(s) \/ Add(s)

TransferNext ==
  \/ \E s \in Sessions, a \in Users, u \in Users \ Managers, t \in Teams :
       StartTransfer(s, a, u, t) \/ StartAddition(s, a, u, t)
  \/ \E s \in Sessions, a \in Users, r \in Requests : StartApproval(s, a, r) \/ StartDenial(s, a, r)
  \/ \E s \in Sessions : Handle(s)
  \/ Changes

TransferSpec == TransferInit /\ [][TransferNext]_allVars

-----------------------------------------------------------------------------
(* Properties of a step.                                                   *)

\* The sessions whose transaction this step commits, with the person moved.
Moves(u) == home[u] # None /\ home'[u] \notin {None, home[u]}
Committed(s) == web[s].pc \in {"write", "add"} /\ web'[s].pc = "idle" /\ home'[web[s].user] = web[s].to

\* Nobody is moved unless an administrator of the team they leave and one of
\* the team they join agreed, the one who asks or the one who approves.  At
\* once, or by an addition, this is what was found when it was judged, and a
\* request for which its maker's roles had just gone has one side only.
BothSidesAgree ==
  \A u \in Users : Moves(u) =>
    \E s \in Sessions :
      /\ Committed(s) /\ web[s].user = u
      /\ \/ web[s].actor \in Managers
         \/ {home[u], web[s].to} \subseteq web[s].said
         \/ web[s].req = NoRequest /\ web[s].late
         \/ web[s].req # NoRequest /\ request[web[s].req].said = {}

\* A transfer stays within the Organisation, unless a Global_Manager makes it
\* or a team is moved during the transaction.
WithinOrganisation ==
  \A s \in Sessions : web[s].pc = "write" /\ Committed(s) =>
    \/ web[s].actor \in Managers \/ web[s].since
    \/ Organisation(home[web[s].user]) = Organisation(web[s].to)

\* What is approved was pending, and the person moves from the team that the
\* request names to the other.  (A denial that began before may follow.)
RequestsDecide ==
  \A r \in Requests : request[r].st # "approved" /\ request'[r].st = "approved" =>
    request[r].st = "pending" /\ home[request[r].user] = request[r].from /\ home'[request[r].user] = request[r].to

TransfersSound == BothSidesAgree /\ WithinOrganisation /\ RequestsDecide
=============================================================================
