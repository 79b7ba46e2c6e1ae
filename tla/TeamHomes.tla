------------------------------ MODULE TeamHomes ------------------------------
(***************************************************************************)
(* What adding, transferring and removing a user promise together: every   *)
(* user is a direct member of at most one team, and every request that     *)
(* succeeds moves its user in one step.                                    *)
(***************************************************************************)
CONSTANTS
  Users, Teams, Requests,
  None  \* "no team", "not succeeded": neither a team nor a kind of request

VARIABLES
  home,   \* home[u]: the team u is a direct member of, or None
  done    \* done[p]: the kind of a request that succeeded, else None

Init ==
  /\ home \in [Users -> Teams \cup {None}]
  /\ done = [p \in Requests |-> None]

Succeed(p, kind, u, t) ==
  /\ done[p] = None
  /\ done' = [done EXCEPT ![p] = kind]
  /\ home' = [home EXCEPT ![u] = t]

\* "User is already a member of another team" (routes/users.js:1541).
Add(p, u, t) == home[u] = None /\ Succeed(p, "add", u, t)

\* NoCurrentTeamError, AlreadyInDestinationTeamError
\* (TeamTransferService.js:263-282).
Transfer(p, u, t) == home[u] \notin {None, t} /\ Succeed(p, "transfer", u, t)

\* "This call always leaves the user with zero teams" (routes/users.js:1717).
Remove(p, u) == Succeed(p, "remove", u, None)

Next ==
  \E p \in Requests, u \in Users :
    Remove(p, u) \/ \E t \in Teams : Add(p, u, t) \/ Transfer(p, u, t)

Spec == Init /\ [][Next]_<<home, done>>
=============================================================================
