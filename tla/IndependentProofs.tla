---------------------------- MODULE IndependentProofs ----------------------------
(* What ComponentProofs, GroupProofs and TransferRequestsProofs show of      *)
(* their components, shown of the run independent_safety: each of its        *)
(* behaviours is a behaviour of the component that part names.               *)
EXTENDS MCIndependentSafe, FiniteSets, TLAPS

\* What independent_liveness runs beside them.
CONSTANTS Calls, FailureThreshold, MaxFailures, Pollers, MaxSlips, MaxPollFaults,
          Notifiers, Recipients, MaxRunFaults, Names, Gids, c3, p1, p2, a1, a2, na, nb

VARIABLES breaker, call, failures, late,
          callsign, addressed, latch, poll, holder, told, spent, astray,
          due, device, mailless, resolved, run, locked, got, untidy,
          chan, group

\* The proofs, over the places in which the run keeps the components.
Guards == INSTANCE ComponentProofs
  WITH clock <- x1, bucket <- x2, acquiring <- x3, asked <- x4, window <- x5,
       stage <- x1, waiting <- x2, free <- x3,
       req <- x1, given <- x2, form <- x3, dec <- x4, acct <- x5, user <- x6,
       cleanup <- x7, sync <- x8, counts <- x9, events <- x10,
       team <- x1, row <- x2, member <- x3, accts <- x4, make <- x5, web <- x6,
       faults <- x8, past <- x9,
       creds <- x1, owned <- x2, made <- x3, cand <- x4, ops <- x5, used <- x6, marks <- x7

-----------------------------------------------------------------------------
(* The rate limiter.                                                       *)

LEMMA LimiterStarts ==
  ASSUME Init, part = "limiter"
  PROVE  Guards!Limiter!Init
BY DEF Init, Limiter!Init, Guards!Limiter!Init, Limiter!Idle, Guards!Limiter!Idle, Limiter!None, Guards!Limiter!None

LEMMA LimiterMoves ==
  ASSUME [Next]_vars, part = "limiter"
  PROVE  part' = part /\ [Guards!Limiter!Next]_(Guards!Limiter!vars)
<1>1. Limiter!Next => Guards!Limiter!Next
  BY DEF Limiter!Next, Guards!Limiter!Next, Limiter!Tick, Guards!Limiter!Tick,
     Limiter!Watch, Guards!Limiter!Watch, Limiter!Begin, Guards!Limiter!Begin,
     Limiter!Snapshot, Guards!Limiter!Snapshot, Limiter!Update, Guards!Limiter!Update,
     Limiter!Refilled, Guards!Limiter!Refilled, Limiter!Excuse, Guards!Limiter!Excuse,
     Limiter!Minus, Guards!Limiter!Minus, Limiter!AtMost, Guards!Limiter!AtMost,
     Limiter!Idle, Guards!Limiter!Idle, Limiter!None, Guards!Limiter!None
<1>2. part' = part /\ (Limiter!Next \/ UNCHANGED vars)
  BY DEF Next, vars
<1> QED
  BY <1>1, <1>2 DEF vars, Guards!Limiter!vars

\* The run's property of the rate limiter, for any capacity and any bounds: of
\* the calls all processes make no more are granted than the capacity and the
\* time that passed, but for what overlapping statements grant twice
\* (AuthentikRateLimiter.acquire, its single UPDATE).
THEOREM RateIsKept ==
  ASSUME Capacity \in Nat, MaxClock \in Nat, MaxCalls \in Nat
  PROVE  Spec => []RateKept
<1> DEFINE Inv == part = "limiter" => Guards!LimiterInv
<1>1. Init => Inv
  BY LimiterStarts, Guards!LimiterInit
<1>2. Inv /\ [Next]_vars => Inv'
  <2> SUFFICES ASSUME Inv, [Next]_vars, part' = "limiter" PROVE Guards!LimiterInv'
    OBVIOUS
  <2>1. part = "limiter"
    BY DEF Next, vars
  <2> QED
    BY <2>1, LimiterMoves, Guards!LimiterStep
<1>3. Inv => RateKept
  BY Guards!LimiterInvHolds DEF RateKept, Limiter!RateKept, Guards!Limiter!RateKept, Limiter!TypeOK, Guards!Limiter!TypeOK
<1> QED
  BY <1>1, <1>2, <1>3, PTL DEF Spec

-----------------------------------------------------------------------------
(* The pool of connections.                                                *)

PoolAssumption == IsFiniteSet(Queriers) /\ PoolMax \in Nat

LEMMA SamePool ==
  /\ Pool!Init <=> Guards!Pool!Init
  /\ Pool!Next <=> Guards!Pool!Next
  /\ Pool!PoolSound <=> Guards!Pool!PoolSound
<1>1. Pool!Granted = Guards!Pool!Granted
  BY DEF Pool!Granted, Guards!Pool!Granted
<1>2. \A r, f : Pool!Connect(r, f) <=> Guards!Pool!Connect(r, f)
  BY <1>1 DEF Pool!Connect, Guards!Pool!Connect
<1>3. \A r, n : Pool!Release(r, n) <=> Guards!Pool!Release(r, n)
  BY <1>1 DEF Pool!Release, Guards!Pool!Release
<1>4. Pool!Next <=> Guards!Pool!Next
  BY <1>2, <1>3 DEF Pool!Next, Guards!Pool!Next, Pool!Asks, Guards!Pool!Asks, Pool!Continues, Guards!Pool!Continues,
     Pool!Query, Guards!Pool!Query, Pool!Begin, Guards!Pool!Begin, Pool!Answer, Guards!Pool!Answer,
     Pool!CompareSuffix, Guards!Pool!CompareSuffix, Pool!NoSuffix, Guards!Pool!NoSuffix,
     Pool!Compared, Guards!Pool!Compared, Pool!Finish, Guards!Pool!Finish
<1>5. \A S : Pool!Count(S) = Guards!Pool!Count(S)
  BY DEF Pool!Count, Guards!Pool!Count, Pool!Cardinality, Guards!Pool!Cardinality,
     Pool!IsFiniteSet, Guards!Pool!IsFiniteSet
<1>6. Pool!PoolSound <=> Guards!Pool!PoolSound
  BY <1>1, <1>5 DEF Pool!PoolSound, Guards!Pool!PoolSound, Pool!TypeOK, Guards!Pool!TypeOK,
     Pool!NoneLost, Guards!Pool!NoneLost, Pool!SomebodyRuns, Guards!Pool!SomebodyRuns,
     Pool!Starved, Guards!Pool!Starved, Pool!Running, Guards!Pool!Running
<1> QED
  BY <1>4, <1>6 DEF Pool!Init, Guards!Pool!Init

\* The run's property of the pool, for any number of connections and requests:
\* none is lost, and somebody runs unless transactions that wait for a second
\* connection hold them all (the queries addUserToTeam makes inside its own).
THEOREM PoolIsSound ==
  ASSUME PoolAssumption
  PROVE  Spec => []PoolSound
<1> DEFINE Inv == part = "pool" => Guards!PoolInv
<1>a. Guards!PoolAssumption
  BY DEF PoolAssumption, Guards!PoolAssumption, IsFiniteSet, Guards!IsFiniteSet
<1>1. Init => Inv
  BY <1>a, SamePool, Guards!PoolInit DEF Init
<1>2. Inv /\ [Next]_vars => Inv'
  <2> SUFFICES ASSUME Inv, [Next]_vars, part' = "pool" PROVE Guards!PoolInv'
    OBVIOUS
  <2>1. part = "pool" /\ [Guards!Pool!Next]_(Guards!Pool!vars)
    BY SamePool DEF Next, vars, Guards!Pool!vars
  <2> QED
    BY <1>a, <2>1, Guards!PoolStep
<1>3. Inv => PoolSound
  BY <1>a, SamePool, Guards!PoolInvHolds DEF PoolSound
<1> QED
  BY <1>1, <1>2, <1>3, PTL DEF Spec

-----------------------------------------------------------------------------
(* The transfers.                                                          *)

\* The run's property of the transfers, for any people, teams, sessions and
\* bounds: a person is moved as an administrator of either side agreed, or as
\* what was judged has changed since (TransferService.executeTransfer).
THEOREM TransfersAreAgreed ==
  ASSUME Transfers!None \notin ForkTeams
  PROVE  Spec => TransfersSound
<1> DEFINE Inv == part = "transfers" => Transfers!TransferInv
           Sound == part = "transfers" => Transfers!TransfersSound
<1>a. Transfers!IdsDiffer
  BY DEF Transfers!IdsDiffer, Transfers!NoRequest
<1>0. ASSUME [Next]_vars, part = "transfers"
      PROVE  part' = part /\ [Transfers!TransferNext]_(Transfers!allVars)
  BY <1>0 DEF Next, vars, Transfers!allVars, Transfers!vars, Transfers!scopes, Transfers!transfers
<1>1. Init => Inv
  BY <1>a, Transfers!TransferStarts DEF Init
<1>2. Inv /\ [Next]_vars => Inv'
  <2> SUFFICES ASSUME Inv, [Next]_vars, part' = "transfers" PROVE Transfers!TransferInv'
    OBVIOUS
  <2>1. part = "transfers"
    BY DEF Next, vars
  <2> QED
    BY <1>a, <1>0, <2>1, Transfers!TransferStep
<1>3. Inv /\ [Next]_vars => Sound
  BY <1>a, <1>0, Transfers!StepIsSound
<1>4. Spec => [][Sound]_vars
  BY <1>1, <1>2, <1>3, PTL DEF Spec
<1> QED
  BY <1>4 DEF TransfersSound
-----------------------------------------------------------------------------
(* Requests for access.                                                    *)

LEMMA SameEmailState == SignUps!EmailState = Guards!SignUps!EmailState
BY DEF SignUps!EmailState, Guards!SignUps!EmailState, SignUps!NoReq, Guards!SignUps!NoReq, SignUps!NoRow,
   Guards!SignUps!NoRow, SignUps!None, Guards!SignUps!None, SignUps!Max, Guards!SignUps!Max

LEMMA SameSignUps ==
  /\ SignUps!Init <=> Guards!SignUps!Init
  /\ SignUps!Next <=> Guards!SignUps!Next
  /\ SignUps!AccountsFollowRequests <=> Guards!SignUps!AccountsFollowRequests
  /\ SignUps!KeepsDecisions <=> Guards!SignUps!KeepsDecisions
<1>1. SignUps!Init <=> Guards!SignUps!Init
  BY DEF SignUps!Init, Guards!SignUps!Init, SignUps!NoReq, Guards!SignUps!NoReq, SignUps!NoPk, Guards!SignUps!NoPk,
     SignUps!NoRow, Guards!SignUps!NoRow, SignUps!NoForm, Guards!SignUps!NoForm, SignUps!NoUser,
     Guards!SignUps!NoUser, SignUps!Idle, Guards!SignUps!Idle, SignUps!None, Guards!SignUps!None
<1>2. SignUps!Next <=> Guards!SignUps!Next
  BY SameEmailState, SMTT(60) DEF SignUps!None, Guards!SignUps!None, SignUps!NoPk, Guards!SignUps!NoPk,
     SignUps!NoRow, Guards!SignUps!NoRow, SignUps!NoForm, Guards!SignUps!NoForm, SignUps!NoReq,
     Guards!SignUps!NoReq, SignUps!NoUser, Guards!SignUps!NoUser, SignUps!Idle, Guards!SignUps!Idle,
     SignUps!Accounts, Guards!SignUps!Accounts, SignUps!Fault, Guards!SignUps!Fault, SignUps!Decision,
     Guards!SignUps!Decision, SignUps!DetermineEmailState, Guards!SignUps!DetermineEmailState,
     SignUps!InitiateSignup, Guards!SignUps!InitiateSignup, SignUps!ReadToken, Guards!SignUps!ReadToken,
     SignUps!SubmitTeamAccess, Guards!SignUps!SubmitTeamAccess, SignUps!At, Guards!SignUps!At, SignUps!Goto,
     Guards!SignUps!Goto, SignUps!Abandon, Guards!SignUps!Abandon, SignUps!ApproveRequest,
     Guards!SignUps!ApproveRequest, SignUps!MintClaim, Guards!SignUps!MintClaim, SignUps!FindReclaimable,
     Guards!SignUps!FindReclaimable, SignUps!LookupAccount, Guards!SignUps!LookupAccount, SignUps!Refuses,
     Guards!SignUps!Refuses, SignUps!CreateAccount, Guards!SignUps!CreateAccount, SignUps!Adoptable,
     Guards!SignUps!Adoptable, SignUps!Adopted, Guards!SignUps!Adopted, SignUps!Locked, Guards!SignUps!Locked,
     SignUps!Commit, Guards!SignUps!Commit, SignUps!Transact, Guards!SignUps!Transact, SignUps!Compensate,
     Guards!SignUps!Compensate, SignUps!Fails, Guards!SignUps!Fails, SignUps!DenyRequest,
     Guards!SignUps!DenyRequest, SignUps!WriteDenial, Guards!SignUps!WriteDenial, SignUps!CleanupAccount,
     SignUps!CleanupFails, Guards!SignUps!CleanupFails,
     Guards!SignUps!CleanupAccount, SignUps!FetchAccounts, Guards!SignUps!FetchAccounts, SignUps!UpsertUsers,
     Guards!SignUps!UpsertUsers, SignUps!SweepOrphans, Guards!SignUps!SweepOrphans, SignUps!OperatorDeletes,
     Guards!SignUps!OperatorDeletes, SignUps!Approves, Guards!SignUps!Approves, SignUps!Next, Guards!SignUps!Next
<1>3. SignUps!AccountsFollowRequests <=> Guards!SignUps!AccountsFollowRequests
  BY DEF SignUps!AccountsFollowRequests, Guards!SignUps!AccountsFollowRequests, SignUps!TypeOK,
     Guards!SignUps!TypeOK, SignUps!NoStrayAccount, Guards!SignUps!NoStrayAccount, SignUps!ApprovedIsUser,
     Guards!SignUps!ApprovedIsUser, SignUps!PendingCanBeApproved, Guards!SignUps!PendingCanBeApproved,
     SignUps!Working, Guards!SignUps!Working, SignUps!CanApprove, Guards!SignUps!CanApprove, SignUps!Rest,
     Guards!SignUps!Rest, SignUps!Accounts, Guards!SignUps!Accounts, SignUps!NoPk, Guards!SignUps!NoPk,
     SignUps!NoRow, Guards!SignUps!NoRow, SignUps!None, Guards!SignUps!None
<1> QED
  BY <1>1, <1>2, <1>3 DEF SignUps!KeepsDecisions, Guards!SignUps!KeepsDecisions,
     SignUps!None, Guards!SignUps!None

LEMMA SignUpsMove ==
  ASSUME [Next]_vars, part = "requests"
  PROVE  part' = part /\ [Guards!SignUps!Next]_(Guards!SignUps!vars)
<1>1. part' = part /\ [SignUps!Next]_(SignUps!vars)
  BY DEF Next, vars, SignUps!vars
<1> QED
  BY <1>1, SameSignUps DEF SignUps!vars, Guards!SignUps!vars

\* The run's properties of sign-ups, for any requests, visitors, deciders and
\* accounts: whichever approvals overlap, no account stays that belongs to
\* nobody, an approved person is a user with an account and the team asked for,
\* a request left pending can still be approved
\* (AccountCreationService.approveRequest, its transaction and compensation);
THEOREM AccountsFollow ==
  ASSUME Guards!SignUpAssumption
  PROVE  Spec => []AccountsFollowRequests
<1> DEFINE Inv == part = "requests" => Guards!SignUpInv
<1>1. Init => Inv
  BY SameSignUps, Guards!SignUpInit DEF Init
<1>2. Inv /\ [Next]_vars => Inv'
  <2> SUFFICES ASSUME Inv, [Next]_vars, part' = "requests" PROVE Guards!SignUpInv'
    OBVIOUS
  <2>1. part = "requests"
    BY DEF Next, vars
  <2> QED
    BY <2>1, SignUpsMove, Guards!SignUpStep
<1>3. Inv => AccountsFollowRequests
  BY SameSignUps, Guards!SignUpInvHolds DEF AccountsFollowRequests
<1> QED
  BY <1>1, <1>2, <1>3, PTL DEF Spec

\* and a decision stands but for a denial read while the request was pending
\* (denyRequest updates without asking for the status).
THEOREM DecisionsHold ==
  ASSUME Guards!SignUpAssumption
  PROVE  Spec => DecisionsStand
<1> DEFINE Inv == part = "requests" => Guards!SignUpInv
           Kept == part = "requests" => SignUps!KeepsDecisions
<1>1. Init => Inv
  BY SameSignUps, Guards!SignUpInit DEF Init
<1>2. Inv /\ [Next]_vars => Inv'
  <2> SUFFICES ASSUME Inv, [Next]_vars, part' = "requests" PROVE Guards!SignUpInv'
    OBVIOUS
  <2>1. part = "requests"
    BY DEF Next, vars
  <2> QED
    BY <2>1, SignUpsMove, Guards!SignUpStep
<1>3. Inv /\ [Next]_vars => Kept
  BY SignUpsMove, SameSignUps, Guards!SignUpDecides
<1>4. Spec => [][Kept]_vars
  BY <1>1, <1>2, <1>3, PTL DEF Spec
<1> QED
  BY <1>4 DEF DecisionsStand
-----------------------------------------------------------------------------
(* The devices of a team.                                                  *)

LEMMA SameDevices ==
  /\ Devs!Init <=> Guards!Devs!Init
  /\ Devs!Next <=> Guards!Devs!Next
  /\ Devs!DevicesSound <=> Guards!Devs!DevicesSound
<1>1. Devs!Init <=> Guards!Devs!Init
  BY DEF Devs!Init, Guards!Devs!Init, Devs!NoRow, Guards!Devs!NoRow, Devs!NoSuffix, Guards!Devs!NoSuffix,
     Devs!NoDevice, Guards!Devs!NoDevice, Devs!Idle, Guards!Devs!Idle
<1>2. \A suf, d : Devs!Crossed(suf, d) <=> Guards!Devs!Crossed(suf, d)
  BY DEF Devs!Crossed, Guards!Devs!Crossed, Devs!Committing, Guards!Devs!Committing, Devs!At, Guards!Devs!At
<1>3. Devs!Next <=> Guards!Devs!Next
  <2>1. \A d, suf : Devs!Ask(d, suf) <=> Guards!Devs!Ask(d, suf)
    BY <1>2 DEF Devs!Ask, Guards!Devs!Ask, Devs!At, Guards!Devs!At, Devs!Unique, Guards!Devs!Unique, Devs!NoSuffix,
       Guards!Devs!NoSuffix
  <2>2. \A d : Devs!Claim(d) <=> Guards!Devs!Claim(d)
    BY <1>2 DEF Devs!Claim, Guards!Devs!Claim, Devs!At, Guards!Devs!At, Devs!Goes, Guards!Devs!Goes
  <2>3. \A d : Devs!CreateUser(d) <=> Guards!Devs!CreateUser(d)
    BY <1>2 DEF Devs!CreateUser, Guards!Devs!CreateUser, Devs!At, Guards!Devs!At, Devs!Fault, Guards!Devs!Fault,
       Devs!Goes, Guards!Devs!Goes, Devs!Cut, Guards!Devs!Cut
  <2>4. \A d : Devs!CheckSuffix(d) <=> Guards!Devs!CheckSuffix(d)
    BY <1>2 DEF Devs!CheckSuffix, Guards!Devs!CheckSuffix, Devs!At, Guards!Devs!At, Devs!Unique,
       Guards!Devs!Unique, Devs!NoSuffix, Guards!Devs!NoSuffix, Devs!Goes, Guards!Devs!Goes
  <2>5. \A d : Devs!Adopt(d) <=> Guards!Devs!Adopt(d)
    BY <1>2 DEF Devs!Adopt, Guards!Devs!Adopt, Devs!At, Guards!Devs!At, Devs!Adopted, Guards!Devs!Adopted,
       Devs!Goes, Guards!Devs!Goes, Devs!Fault, Guards!Devs!Fault, Devs!Cut, Guards!Devs!Cut
  <2>6. \A d : Devs!Unclaim(d) <=> Guards!Devs!Unclaim(d)
    BY <1>2 DEF Devs!Unclaim, Guards!Devs!Unclaim, Devs!At, Guards!Devs!At, Devs!Goes, Guards!Devs!Goes,
       Devs!NoRow, Guards!Devs!NoRow, Devs!NoSuffix, Guards!Devs!NoSuffix, Devs!Fault, Guards!Devs!Fault, Devs!Cut,
       Guards!Devs!Cut
  <2>7. \A d : Devs!DeleteUser(d) <=> Guards!Devs!DeleteUser(d)
    BY <1>2 DEF Devs!DeleteUser, Guards!Devs!DeleteUser, Devs!At, Guards!Devs!At, Devs!Goes, Guards!Devs!Goes,
       Devs!Fault, Guards!Devs!Fault
  <2>8. \A d : Devs!Enqueue(d) <=> Guards!Devs!Enqueue(d)
    BY <1>2 DEF Devs!Enqueue, Guards!Devs!Enqueue, Devs!At, Guards!Devs!At, Devs!Goes, Guards!Devs!Goes,
       Devs!Fault, Guards!Devs!Fault, Devs!Cut, Guards!Devs!Cut
  <2>9. \A d : Devs!Dies(d) <=> Guards!Devs!Dies(d)
    BY <1>2 DEF Devs!Dies, Guards!Devs!Dies, Devs!Fault, Guards!Devs!Fault, Devs!Cut, Guards!Devs!Cut, Devs!Goes,
       Guards!Devs!Goes
  <2>10. \A d : Devs!Cleanup(d) <=> Guards!Devs!Cleanup(d)
    BY <1>2 DEF Devs!Cleanup, Guards!Devs!Cleanup, Devs!Fault, Guards!Devs!Fault, Devs!Cut, Guards!Devs!Cut
  <2>11. \A s, d, suf : Devs!Edit(s, d, suf) <=> Guards!Devs!Edit(s, d, suf)
    BY <1>2 DEF Devs!Edit, Guards!Devs!Edit, Devs!Unique, Guards!Devs!Unique, Devs!NoSuffix, Guards!Devs!NoSuffix,
       Devs!Begins, Guards!Devs!Begins, Devs!Idle, Guards!Devs!Idle, Devs!NoDevice, Guards!Devs!NoDevice, Devs!At,
       Guards!Devs!At
  <2>12. \A s : Devs!Update(s) <=> Guards!Devs!Update(s)
    BY <1>2 DEF Devs!Update, Guards!Devs!Update, Devs!On, Guards!Devs!On, Devs!Ends, Guards!Devs!Ends, Devs!Idle,
       Guards!Devs!Idle, Devs!NoDevice, Guards!Devs!NoDevice, Devs!NoSuffix, Guards!Devs!NoSuffix
  <2>13. \A s, d : Devs!AskDelete(s, d) <=> Guards!Devs!AskDelete(s, d)
    BY <1>2 DEF Devs!AskDelete, Guards!Devs!AskDelete, Devs!Begins, Guards!Devs!Begins, Devs!Idle,
       Guards!Devs!Idle, Devs!NoDevice, Guards!Devs!NoDevice, Devs!NoSuffix, Guards!Devs!NoSuffix
  <2>14. \A s : Devs!Remove(s) <=> Guards!Devs!Remove(s)
    BY <1>2 DEF Devs!Remove, Guards!Devs!Remove, Devs!On, Guards!Devs!On, Devs!Proceeds, Guards!Devs!Proceeds,
       Devs!Fault, Guards!Devs!Fault, Devs!Ends, Guards!Devs!Ends, Devs!Idle, Guards!Devs!Idle, Devs!NoDevice,
       Guards!Devs!NoDevice, Devs!NoSuffix, Guards!Devs!NoSuffix
  <2>15. \A s : Devs!DeleteAccount(s) <=> Guards!Devs!DeleteAccount(s)
    BY <1>2 DEF Devs!DeleteAccount, Guards!Devs!DeleteAccount, Devs!On, Guards!Devs!On, Devs!Proceeds,
       Guards!Devs!Proceeds, Devs!Fault, Guards!Devs!Fault, Devs!Cut, Guards!Devs!Cut
  <2>16. \A s : Devs!DeleteRow(s) <=> Guards!Devs!DeleteRow(s)
    BY <1>2 DEF Devs!DeleteRow, Guards!Devs!DeleteRow, Devs!On, Guards!Devs!On, Devs!Ends, Guards!Devs!Ends,
       Devs!Idle, Guards!Devs!Idle, Devs!NoDevice, Guards!Devs!NoDevice, Devs!NoSuffix, Guards!Devs!NoSuffix,
       Devs!NoRow, Guards!Devs!NoRow, Devs!Fault, Guards!Devs!Fault, Devs!Cut, Guards!Devs!Cut
  <2>17. \A s : Devs!Stops(s) <=> Guards!Devs!Stops(s)
    BY <1>2 DEF Devs!Stops, Guards!Devs!Stops, Devs!Idle, Guards!Devs!Idle, Devs!NoDevice, Guards!Devs!NoDevice,
       Devs!NoSuffix, Guards!Devs!NoSuffix, Devs!Fault, Guards!Devs!Fault, Devs!Ends, Guards!Devs!Ends
  <2>18. \A s : Devs!Count(s) <=> Guards!Devs!Count(s)
    BY <1>2 DEF Devs!Count, Guards!Devs!Count, Devs!Begins, Guards!Devs!Begins, Devs!Idle, Guards!Devs!Idle,
       Devs!NoDevice, Guards!Devs!NoDevice, Devs!NoSuffix, Guards!Devs!NoSuffix
  <2>19. \A s : Devs!DropTeam(s) <=> Guards!Devs!DropTeam(s)
    BY <1>2 DEF Devs!DropTeam, Guards!Devs!DropTeam, Devs!On, Guards!Devs!On, Devs!Ends, Guards!Devs!Ends,
       Devs!Idle, Guards!Devs!Idle, Devs!NoDevice, Guards!Devs!NoDevice, Devs!NoSuffix, Guards!Devs!NoSuffix
  <2> QED
    BY <2>1, <2>2, <2>3, <2>4, <2>5, <2>6, <2>7, <2>8, <2>9, <2>10, <2>11, <2>12, <2>13, <2>14, <2>15, <2>16, <2>17,
       <2>18, <2>19 DEF Devs!Next, Guards!Devs!Next, Devs!Creates, Guards!Devs!Creates, Devs!Serves,
       Guards!Devs!Serves, Devs!Names, Guards!Devs!Names, Devs!NoSuffix, Guards!Devs!NoSuffix
<1>4. Devs!DevicesSound <=> Guards!Devs!DevicesSound
  BY DEF Devs!DevicesSound, Guards!Devs!DevicesSound, Devs!TypeOK, Guards!Devs!TypeOK, Devs!WholeOrNothing,
     Guards!Devs!WholeOrNothing, Devs!MembersHaveAccounts, Guards!Devs!MembersHaveAccounts, Devs!SuffixesApart,
     Guards!Devs!SuffixesApart, Devs!Settled, Guards!Devs!Settled, Devs!Nothing, Guards!Devs!Nothing, Devs!Complete,
     Guards!Devs!Complete, Devs!NoRow, Guards!Devs!NoRow, Devs!NoSuffix, Guards!Devs!NoSuffix, Devs!NoDevice,
     Guards!Devs!NoDevice, Devs!Names, Guards!Devs!Names, Devs!Steps, Guards!Devs!Steps
<1> QED
  BY <1>1, <1>3, <1>4

\* The run's property of devices, for any devices, suffixes and sessions: the
\* row, the account and the membership of a device stay together whichever
\* requests overlap and whatever fails, but for what is excused by name
\* (DeviceManagementService.createDevice, its compensation, and deleteDevice).
THEOREM DevicesAreSound ==
  ASSUME Guards!DevicesAssumption
  PROVE  Spec => []DevicesSound
<1> DEFINE Inv == part = "devices" => Guards!DevicesInv
<1>1. Init => Inv
  BY SameDevices, Guards!DevicesStart DEF Init
<1>2. Inv /\ [Next]_vars => Inv'
  <2> SUFFICES ASSUME Inv, [Next]_vars, part' = "devices" PROVE Guards!DevicesInv'
    OBVIOUS
  <2>1. part = "devices" /\ [Guards!Devs!Next]_(Guards!Devs!vars)
    BY SameDevices DEF Next, vars, Guards!Devs!vars
  <2> QED
    BY <2>1, Guards!DevicesStep
<1>3. Inv => DevicesSound
  BY SameDevices, Guards!DevicesInvHolds DEF DevicesSound
<1> QED
  BY <1>1, <1>2, <1>3, PTL DEF Spec
-----------------------------------------------------------------------------
(* The service accounts.                                                   *)

LEMMA SameServices ==
  /\ Services!Init <=> Guards!Services!Init
  /\ Services!Next <=> Guards!Services!Next
  /\ Services!AccountsFollowRows <=> Guards!Services!AccountsFollowRows
  /\ Services!ChangesOwn <=> Guards!Services!ChangesOwn
<1>1. Services!Init <=> Guards!Services!Init
  BY DEF Services!Init, Guards!Services!Init, Services!NoRow, Guards!Services!NoRow, Services!None,
     Guards!Services!None, Services!NoPw, Guards!Services!NoPw, Services!NoPk, Guards!Services!NoPk,
     Services!NoAcct, Guards!Services!NoAcct
<1>2. /\ Services!Cardinality(Pks) = Guards!Services!Cardinality(Pks)
      /\ \A q, i : Services!RemoveAt(q, i) = Guards!Services!RemoveAt(q, i)
  BY DEF Services!Cardinality, Guards!Services!Cardinality, Services!IsFiniteSet, Guards!Services!IsFiniteSet,
     Services!RemoveAt, Guards!Services!RemoveAt
<1>3. Services!Next <=> Guards!Services!Next
  <2>1. \A c, u : Services!CheckAvailability(c, u) <=> Guards!Services!CheckAvailability(c, u)
    BY <1>2 DEF Services!CheckAvailability, Guards!Services!CheckAvailability, Services!None, Guards!Services!None,
       Services!With, Guards!Services!With
  <2>2. \A c : Services!ProvisionServiceAccount(c) <=> Guards!Services!ProvisionServiceAccount(c)
    BY <1>2 DEF Services!ProvisionServiceAccount, Guards!Services!ProvisionServiceAccount, Services!None,
       Guards!Services!None, Services!Request, Guards!Services!Request, Services!NewPw, Guards!Services!NewPw,
       Services!Op, Guards!Services!Op, Services!NoPk, Guards!Services!NoPk, Services!Held, Guards!Services!Held
  <2>3. \A c : Services!RotateServiceAccountPassword(c) <=> Guards!Services!RotateServiceAccountPassword(c)
    BY <1>2 DEF Services!RotateServiceAccountPassword, Guards!Services!RotateServiceAccountPassword, Services!None,
       Guards!Services!None, Services!Request, Guards!Services!Request, Services!NewPw, Guards!Services!NewPw,
       Services!Op, Guards!Services!Op, Services!NoPk, Guards!Services!NoPk
  <2>4. \A c : Services!DeleteServiceAccount(c) <=> Guards!Services!DeleteServiceAccount(c)
    BY <1>2 DEF Services!DeleteServiceAccount, Guards!Services!DeleteServiceAccount, Services!None,
       Guards!Services!None, Services!Request, Guards!Services!Request, Services!NoRow, Guards!Services!NoRow,
       Services!NoPw, Guards!Services!NoPw, Services!NoPk, Guards!Services!NoPk, Services!Op, Guards!Services!Op
  <2>5. \A i : Services!CreateOrFind(i) <=> Guards!Services!CreateOrFind(i)
    BY <1>2 DEF Services!CreateOrFind, Guards!Services!CreateOrFind, Services!Is, Guards!Services!Is, Services!With,
       Guards!Services!With, Services!NoPw, Guards!Services!NoPw, Services!Found, Guards!Services!Found,
       Services!Started, Guards!Services!Started, Services!Overlaps, Guards!Services!Overlaps, Services!Finish,
       Guards!Services!Finish, Services!FailedFor, Guards!Services!FailedFor
  <2>6. \A i : Services!FindToRotate(i) <=> Guards!Services!FindToRotate(i)
    BY <1>2 DEF Services!FindToRotate, Guards!Services!FindToRotate, Services!Is, Guards!Services!Is, Services!With,
       Guards!Services!With, Services!Finish, Guards!Services!Finish, Services!FailedFor, Guards!Services!FailedFor,
       Services!Overlaps, Guards!Services!Overlaps, Services!Found, Guards!Services!Found, Services!Started,
       Guards!Services!Started
  <2>7. \A i : Services!SetPassword(i) <=> Guards!Services!SetPassword(i)
    BY <1>2 DEF Services!SetPassword, Guards!Services!SetPassword, Services!NoAcct, Guards!Services!NoAcct,
       Services!None, Guards!Services!None, Services!NoPw, Guards!Services!NoPw, Services!Finish,
       Guards!Services!Finish, Services!FailedFor, Guards!Services!FailedFor, Services!Overlaps,
       Guards!Services!Overlaps
  <2>8. \A i : Services!RecordAccount(i) <=> Guards!Services!RecordAccount(i)
    BY <1>2 DEF Services!RecordAccount, Guards!Services!RecordAccount, Services!Is, Guards!Services!Is,
       Services!Finish, Guards!Services!Finish
  <2>9. \A i : Services!FindToDelete(i) <=> Guards!Services!FindToDelete(i)
    BY <1>2 DEF Services!FindToDelete, Guards!Services!FindToDelete, Services!Is, Guards!Services!Is, Services!NoPk,
       Guards!Services!NoPk, Services!Found, Guards!Services!Found, Services!With, Guards!Services!With,
       Services!Finish, Guards!Services!Finish, Services!Started, Guards!Services!Started, Services!Overlaps,
       Guards!Services!Overlaps
  <2>10. \A i : Services!DeleteAccount(i) <=> Guards!Services!DeleteAccount(i)
    BY <1>2 DEF Services!DeleteAccount, Guards!Services!DeleteAccount, Services!Is, Guards!Services!Is,
       Services!NoAcct, Guards!Services!NoAcct, Services!None, Guards!Services!None, Services!NoPw,
       Guards!Services!NoPw, Services!Finish, Guards!Services!Finish, Services!Fault, Guards!Services!Fault
  <2>11. \A i : Services!CallFails(i) <=> Guards!Services!CallFails(i)
    BY <1>2 DEF Services!CallFails, Guards!Services!CallFails, Services!Fault, Guards!Services!Fault, Services!NoPk,
       Guards!Services!NoPk
  <2> QED
    BY <2>1, <2>2, <2>3, <2>4, <2>5, <2>6, <2>7, <2>8, <2>9, <2>10, <2>11 DEF Services!Next, Guards!Services!Next,
       Services!Works, Guards!Services!Works
<1>4. Services!AccountsFollowRows <=> Guards!Services!AccountsFollowRows
  BY <1>2 DEF Services!AccountsFollowRows, Guards!Services!AccountsFollowRows, Services!TypeOK,
     Guards!Services!TypeOK, Services!None, Guards!Services!None, Services!Passwords, Guards!Services!Passwords,
     Services!NoPw, Guards!Services!NoPw, Services!NoPk, Guards!Services!NoPk, Services!NoAcct,
     Guards!Services!NoAcct, Services!CredentialsMatch, Guards!Services!CredentialsMatch, Services!Undisturbed,
     Guards!Services!Undisturbed, Services!Busy, Guards!Services!Busy, Services!NothingLeftBehind,
     Guards!Services!NothingLeftBehind
<1>5. Services!ChangesOwn <=> Guards!Services!ChangesOwn
  BY DEF Services!ChangesOwn, Guards!Services!ChangesOwn, Services!NoAcct, Guards!Services!NoAcct, Services!None,
     Guards!Services!None, Services!NoPw, Guards!Services!NoPw
<1> QED
  BY <1>1, <1>3, <1>4, <1>5

LEMMA ServicesMove ==
  ASSUME [Next]_vars, part = "services"
  PROVE  part' = part /\ (Guards!Services!Next \/ UNCHANGED Guards!Services!vars)
<1>1. part' = part /\ (Services!Next \/ UNCHANGED Services!vars)
  BY DEF Next, vars, Services!vars
<1> QED
  BY <1>1, SameServices DEF Services!vars, Guards!Services!vars

\* The run's properties of service accounts, for any channels, usernames and
\* bounds: whatever requests and operations interleave, a channel whose operations
\* are done has the account its row describes and no other, but for what is excused
\* by name (GlobalChannelService.provisionServiceAccount and the worker's handlers);
THEOREM CredentialsFollow ==
  ASSUME Guards!ServiceBounds
  PROVE  Spec => []AccountsFollowRows
<1> DEFINE Inv == part = "services" => Guards!ServicesInv
<1>1. Init => Inv
  BY SameServices, Guards!ServicesStart DEF Init
<1>2. Inv /\ [Next]_vars => Inv'
  <2> SUFFICES ASSUME Inv, [Next]_vars, part' = "services" PROVE Guards!ServicesInv'
    OBVIOUS
  <2>1. part = "services"
    BY DEF Next, vars
  <2> QED
    BY <2>1, ServicesMove, Guards!ServicesStep, Guards!ServicesStutter
<1>3. Inv => AccountsFollowRows
  BY SameServices, Guards!ServicesInvHolds DEF AccountsFollowRows
<1> QED
  BY <1>1, <1>2, <1>3, PTL DEF Spec

\* and no operation changes the account of another channel, although two of the
\* three find it by its name (rotateBchServiceAccountPassword and
\* deleteBchServiceAccount).
THEOREM OthersAccountsStay ==
  ASSUME Guards!ServiceBounds
  PROVE  Spec => OnlyOwnAccounts
<1> DEFINE Inv == part = "services" => Guards!ServicesInv
           Own == part = "services" => Services!ChangesOwn
<1>1. Init => Inv
  BY SameServices, Guards!ServicesStart DEF Init
<1>2. Inv /\ [Next]_vars => Inv'
  <2> SUFFICES ASSUME Inv, [Next]_vars, part' = "services" PROVE Guards!ServicesInv'
    OBVIOUS
  <2>1. part = "services"
    BY DEF Next, vars
  <2> QED
    BY <2>1, ServicesMove, Guards!ServicesStep, Guards!ServicesStutter
<1>3. Inv /\ [Next]_vars => Own
  <2> SUFFICES ASSUME Guards!ServicesInv, [Next]_vars, part = "services" PROVE Services!ChangesOwn
    OBVIOUS
  <2>1. CASE Guards!Services!Next
    BY <2>1, SameServices, Guards!ServicesChangeOwn
  <2>2. CASE UNCHANGED Guards!Services!vars
    BY <2>2 DEF Services!ChangesOwn, Guards!Services!vars
  <2> QED
    BY <2>1, <2>2, ServicesMove
<1>4. Spec => [][Own]_vars
  BY <1>1, <1>2, <1>3, PTL DEF Spec
<1> QED
  BY <1>4 DEF OnlyOwnAccounts
-----------------------------------------------------------------------------
(* The groups: of global channels, and the CloudTAK agency group.          *)

\* The proofs about groups; the run has none of the groups that the reconciler owns,
\* and what GroupProofs assumes of them is so without any.
Groups == INSTANCE GroupProofs
  WITH Users <- {}, Ignored <- {}, Groups <- {}, Chains <- {}, Requests <- {}, Workers <- {},
       Sweeping <- FALSE, MaxFailures <- 0, MaxOperator <- 0,
       desired <- None, request <- None, mine <- None, pending <- None, work <- None, late <- None,
       group <- None, missed <- None, overtaken <- None, lost <- None, edited <- None,
       failures <- None, operator <- None,
       home <- x1, access <- x2, joined <- x3, switches <- x4, ops <- x5, used <- x6, marks <- x7,
       team <- x1, admins <- x2, agency <- x3, makings <- x4, edits <- x5, jobs <- x6,
       spending <- x7, lapses <- x8,
       Members <- Users, primary <- x1, suffix <- x2, made <- x3, channels <- x4, groups <- x5, perms <- x6,
       within <- x7, posts <- x8, tasks <- x9, born <- x10, spent <- x11, slips <- x12

LEMMA SameAccess ==
  /\ Access!Init <=> Groups!Access!Init
  /\ Access!Next <=> Groups!Access!Next
  /\ Access!GlobalAccessSound <=> Groups!Access!GlobalAccessSound
<1>1. Access!Init <=> Groups!Access!Init
  BY DEF Access!Init, Groups!Access!Init, Access!NoOrg, Groups!Access!NoOrg, Access!Idle, Groups!Access!Idle,
     Access!NoTier, Groups!Access!NoTier
<1>2. \A q, i : Access!RemoveAt(q, i) = Groups!Access!RemoveAt(q, i)
  BY DEF Access!RemoveAt, Groups!Access!RemoveAt
<1>3. Access!Next <=> Groups!Access!Next
  <2>1. \A s, o, t, on : Access!ReadFlag(s, o, t, on) <=> Groups!Access!ReadFlag(s, o, t, on)
    BY <1>2 DEF Access!ReadFlag, Groups!Access!ReadFlag, Access!Change, Groups!Access!Change, Access!Has,
       Groups!Access!Has
  <2>2. \A s : Access!UpdateFlag(s) <=> Groups!Access!UpdateFlag(s)
    BY <1>2 DEF Access!UpdateFlag, Groups!Access!UpdateFlag, Access!Changed, Groups!Access!Changed, Access!Idle,
       Groups!Access!Idle, Access!NoOrg, Groups!Access!NoOrg, Access!NoTier, Groups!Access!NoTier, Access!Has,
       Groups!Access!Has
  <2>3. \A s : Access!PublishResync(s) <=> Groups!Access!PublishResync(s)
    BY <1>2 DEF Access!PublishResync, Groups!Access!PublishResync, Access!Op, Groups!Access!Op, Access!Fault,
       Groups!Access!Fault, Access!Missed, Groups!Access!Missed, Access!Idle, Groups!Access!Idle, Access!NoOrg,
       Groups!Access!NoOrg, Access!NoTier, Groups!Access!NoTier
  <2>4. \A o : Access!Move(o) <=> Groups!Access!Move(o)
    BY <1>2 DEF Access!Move, Groups!Access!Move, Access!Change, Groups!Access!Change, Access!Op, Groups!Access!Op,
       Access!NoOrg, Groups!Access!NoOrg
  <2>5. Access!Leave <=> Groups!Access!Leave
    BY <1>2 DEF Access!Leave, Groups!Access!Leave, Access!NoOrg, Groups!Access!NoOrg, Access!Change,
       Groups!Access!Change, Access!Missed, Groups!Access!Missed
  <2>6. Access!AssignAllUsers <=> Groups!Access!AssignAllUsers
    BY <1>2 DEF Access!AssignAllUsers, Groups!Access!AssignAllUsers, Access!Change, Groups!Access!Change, Access!Op,
       Groups!Access!Op, Access!NoOrg, Groups!Access!NoOrg
  <2>7. \A i : Access!Resync(i) <=> Groups!Access!Resync(i)
    BY <1>2 DEF Access!Resync, Groups!Access!Resync, Access!Is, Groups!Access!Is, Access!Op, Groups!Access!Op,
       Access!NoOrg, Groups!Access!NoOrg
  <2>8. \A i : Access!ReadHome(i) <=> Groups!Access!ReadHome(i)
    BY <1>2 DEF Access!ReadHome, Groups!Access!ReadHome, Access!Is, Groups!Access!Is, Access!Begins,
       Groups!Access!Begins, Access!Others, Groups!Access!Others, Access!AtWork, Groups!Access!AtWork
  <2>9. \A i : Access!ReadFlags(i) <=> Groups!Access!ReadFlags(i)
    BY <1>2 DEF Access!ReadFlags, Groups!Access!ReadFlags, Access!Is, Groups!Access!Is, Access!Set,
       Groups!Access!Set, Access!Wanted, Groups!Access!Wanted, Access!Broadcast, Groups!Access!Broadcast
  <2>10. \A i : Access!ReadCurrent(i) <=> Groups!Access!ReadCurrent(i)
    BY <1>2 DEF Access!ReadCurrent, Groups!Access!ReadCurrent, Access!Is, Groups!Access!Is, Access!Set,
       Groups!Access!Set
  <2>11. \A i : Access!Assign(i) <=> Groups!Access!Assign(i)
    BY <1>2 DEF Access!Assign, Groups!Access!Assign, Access!Is, Groups!Access!Is, Access!Set, Groups!Access!Set,
       Access!Fault, Groups!Access!Fault, Access!Missed, Groups!Access!Missed
  <2>12. \A i : Access!Retry(i) <=> Groups!Access!Retry(i)
    BY <1>2 DEF Access!Retry, Groups!Access!Retry, Access!Fault, Groups!Access!Fault, Access!Set, Groups!Access!Set,
       Access!Op, Groups!Access!Op, Access!NoOrg, Groups!Access!NoOrg
  <2>13. \A i : Access!GiveUp(i) <=> Groups!Access!GiveUp(i)
    BY <1>2 DEF Access!GiveUp, Groups!Access!GiveUp, Access!Fault, Groups!Access!Fault, Access!Missed,
       Groups!Access!Missed
  <2> QED
    BY <2>1, <2>2, <2>3, <2>4, <2>5, <2>6, <2>7, <2>8, <2>9, <2>10, <2>11, <2>12, <2>13 DEF Access!Next,
       Groups!Access!Next, Access!Works, Groups!Access!Works
<1>4. Access!GlobalAccessSound <=> Groups!Access!GlobalAccessSound
  BY DEF Access!GlobalAccessSound, Groups!Access!GlobalAccessSound, Access!TypeOK, Groups!Access!TypeOK,
     Access!NoOrg, Groups!Access!NoOrg, Access!Groups, Groups!Access!Groups, Access!Broadcast,
     Groups!Access!Broadcast, Access!NoTier, Groups!Access!NoTier, Access!GlobalAccessFollows,
     Groups!Access!GlobalAccessFollows, Access!Quiet, Groups!Access!Quiet, Access!Wanted, Groups!Access!Wanted
<1> QED
  BY <1>1, <1>3, <1>4

LEMMA SameCloudTak ==
  /\ CloudTak!Init <=> Groups!CloudTak!Init
  /\ CloudTak!Next <=> Groups!CloudTak!Next
  /\ CloudTak!CloudTakSound <=> Groups!CloudTak!CloudTakSound
<1>1. CloudTak!Init <=> Groups!CloudTak!Init
  BY DEF CloudTak!Init, Groups!CloudTak!Init, CloudTak!Unborn, Groups!CloudTak!Unborn, CloudTak!NoGroup,
     Groups!CloudTak!NoGroup, CloudTak!NoName, Groups!CloudTak!NoName
<1>2. \A q, i : CloudTak!RemoveAt(q, i) = Groups!CloudTak!RemoveAt(q, i)
  BY DEF CloudTak!RemoveAt, Groups!CloudTak!RemoveAt
<1>3. CloudTak!Next <=> Groups!CloudTak!Next
  <2>1. \A s, n : CloudTak!Create(s, n) <=> Groups!CloudTak!Create(s, n)
    BY <1>2 DEF CloudTak!Create, Groups!CloudTak!Create, CloudTak!Unborn, Groups!CloudTak!Unborn, CloudTak!Asks,
       Groups!CloudTak!Asks, CloudTak!Change, Groups!CloudTak!Change
  <2>2. \A s, n : CloudTak!Rename(s, n) <=> Groups!CloudTak!Rename(s, n)
    BY <1>2 DEF CloudTak!Rename, Groups!CloudTak!Rename, CloudTak!Live, Groups!CloudTak!Live, CloudTak!Asks,
       Groups!CloudTak!Asks, CloudTak!Change, Groups!CloudTak!Change
  <2>3. \A s, u : CloudTak!SetRole(s, u) <=> Groups!CloudTak!SetRole(s, u)
    BY <1>2 DEF CloudTak!SetRole, Groups!CloudTak!SetRole, CloudTak!Live, Groups!CloudTak!Live, CloudTak!Asks,
       Groups!CloudTak!Asks, CloudTak!Change, Groups!CloudTak!Change
  <2>4. \A s : CloudTak!Publish(s) <=> Groups!CloudTak!Publish(s)
    BY <1>2 DEF CloudTak!Publish, Groups!CloudTak!Publish, CloudTak!Fresh, Groups!CloudTak!Fresh, CloudTak!NoName,
       Groups!CloudTak!NoName, CloudTak!Fault, Groups!CloudTak!Fault, CloudTak!Missed, Groups!CloudTak!Missed,
       CloudTak!Requests, Groups!CloudTak!Requests
  <2>5. \A u : CloudTak!ProvisionOrRemove(u) <=> Groups!CloudTak!ProvisionOrRemove(u)
    BY <1>2 DEF CloudTak!ProvisionOrRemove, Groups!CloudTak!ProvisionOrRemove, CloudTak!Live, Groups!CloudTak!Live,
       CloudTak!Change, Groups!CloudTak!Change, CloudTak!Fresh, Groups!CloudTak!Fresh, CloudTak!NoName,
       Groups!CloudTak!NoName
  <2>6. \A u : CloudTak!ApproveRoleOrTransfer(u) <=> Groups!CloudTak!ApproveRoleOrTransfer(u)
    BY <1>2 DEF CloudTak!ApproveRoleOrTransfer, Groups!CloudTak!ApproveRoleOrTransfer, CloudTak!Live,
       Groups!CloudTak!Live, CloudTak!Change, Groups!CloudTak!Change, CloudTak!Missed, Groups!CloudTak!Missed,
       CloudTak!Requests, Groups!CloudTak!Requests
  <2>7. CloudTak!DeleteTeam <=> Groups!CloudTak!DeleteTeam
    BY <1>2 DEF CloudTak!DeleteTeam, Groups!CloudTak!DeleteTeam, CloudTak!Live, Groups!CloudTak!Live,
       CloudTak!Change, Groups!CloudTak!Change, CloudTak!Deleted, Groups!CloudTak!Deleted, CloudTak!Fresh,
       Groups!CloudTak!Fresh, CloudTak!NoName, Groups!CloudTak!NoName
  <2>8. \A i : CloudTak!ReadTeam(i) <=> Groups!CloudTak!ReadTeam(i)
    BY <1>2 DEF CloudTak!ReadTeam, Groups!CloudTak!ReadTeam, CloudTak!Is, Groups!CloudTak!Is, CloudTak!Live,
       Groups!CloudTak!Live, CloudTak!Begins, Groups!CloudTak!Begins, CloudTak!Others, Groups!CloudTak!Others,
       CloudTak!AtWork, Groups!CloudTak!AtWork
  <2>9. \A i : CloudTak!CreateOrFind(i) <=> Groups!CloudTak!CreateOrFind(i)
    BY <1>2 DEF CloudTak!CreateOrFind, Groups!CloudTak!CreateOrFind, CloudTak!Is, Groups!CloudTak!Is,
       CloudTak!NoGroup, Groups!CloudTak!NoGroup, CloudTak!NoName, Groups!CloudTak!NoName, CloudTak!Set,
       Groups!CloudTak!Set
  <2>10. \A i : CloudTak!PatchAttributes(i) <=> Groups!CloudTak!PatchAttributes(i)
    BY <1>2 DEF CloudTak!PatchAttributes, Groups!CloudTak!PatchAttributes, CloudTak!Is, Groups!CloudTak!Is,
       CloudTak!There, Groups!CloudTak!There, CloudTak!Set, Groups!CloudTak!Set
  <2>11. \A i : CloudTak!ReadAdmins(i) <=> Groups!CloudTak!ReadAdmins(i)
    BY <1>2 DEF CloudTak!ReadAdmins, Groups!CloudTak!ReadAdmins, CloudTak!Is, Groups!CloudTak!Is, CloudTak!Set,
       Groups!CloudTak!Set
  <2>12. \A i : CloudTak!ReadMembers(i) <=> Groups!CloudTak!ReadMembers(i)
    BY <1>2 DEF CloudTak!ReadMembers, Groups!CloudTak!ReadMembers, CloudTak!Is, Groups!CloudTak!Is, CloudTak!There,
       Groups!CloudTak!There, CloudTak!Set, Groups!CloudTak!Set
  <2>13. \A i : CloudTak!Apply(i) <=> Groups!CloudTak!Apply(i)
    BY <1>2 DEF CloudTak!Apply, Groups!CloudTak!Apply, CloudTak!Is, Groups!CloudTak!Is, CloudTak!Finish,
       Groups!CloudTak!Finish, CloudTak!Set, Groups!CloudTak!Set, CloudTak!There, Groups!CloudTak!There
  <2>14. \A i : CloudTak!LookUp(i) <=> Groups!CloudTak!LookUp(i)
    BY <1>2 DEF CloudTak!LookUp, Groups!CloudTak!LookUp, CloudTak!Is, Groups!CloudTak!Is, CloudTak!Begins,
       Groups!CloudTak!Begins, CloudTak!Others, Groups!CloudTak!Others, CloudTak!AtWork, Groups!CloudTak!AtWork
  <2>15. \A i : CloudTak!Delete(i) <=> Groups!CloudTak!Delete(i)
    BY <1>2 DEF CloudTak!Delete, Groups!CloudTak!Delete, CloudTak!Is, Groups!CloudTak!Is, CloudTak!There,
       Groups!CloudTak!There, CloudTak!NoGroup, Groups!CloudTak!NoGroup, CloudTak!NoName, Groups!CloudTak!NoName,
       CloudTak!Finish, Groups!CloudTak!Finish
  <2>16. \A i : CloudTak!Retry(i) <=> Groups!CloudTak!Retry(i)
    BY <1>2 DEF CloudTak!Retry, Groups!CloudTak!Retry, CloudTak!AtWork, Groups!CloudTak!AtWork, CloudTak!Fault,
       Groups!CloudTak!Fault, CloudTak!There, Groups!CloudTak!There, CloudTak!Set, Groups!CloudTak!Set,
       CloudTak!Fresh, Groups!CloudTak!Fresh, CloudTak!NoName, Groups!CloudTak!NoName
  <2>17. \A i : CloudTak!GiveUp(i) <=> Groups!CloudTak!GiveUp(i)
    BY <1>2 DEF CloudTak!GiveUp, Groups!CloudTak!GiveUp, CloudTak!Fault, Groups!CloudTak!Fault, CloudTak!Missed,
       Groups!CloudTak!Missed, CloudTak!Requests, Groups!CloudTak!Requests
  <2> QED
    BY <2>1, <2>2, <2>3, <2>4, <2>5, <2>6, <2>7, <2>8, <2>9, <2>10, <2>11, <2>12, <2>13, <2>14, <2>15, <2>16, <2>17
       DEF CloudTak!Next, Groups!CloudTak!Next, CloudTak!Works, Groups!CloudTak!Works
<1>4. CloudTak!CloudTakSound <=> Groups!CloudTak!CloudTakSound
  BY DEF CloudTak!CloudTakSound, Groups!CloudTak!CloudTakSound, CloudTak!TypeOK, Groups!CloudTak!TypeOK,
     CloudTak!Unborn, Groups!CloudTak!Unborn, CloudTak!Deleted, Groups!CloudTak!Deleted, CloudTak!NoGroup,
     Groups!CloudTak!NoGroup, CloudTak!NoName, Groups!CloudTak!NoName, CloudTak!Requests, Groups!CloudTak!Requests,
     CloudTak!AgencyGroupFollowsTeam, Groups!CloudTak!AgencyGroupFollowsTeam, CloudTak!Quiet, Groups!CloudTak!Quiet,
     CloudTak!Live, Groups!CloudTak!Live
<1> QED
  BY <1>1, <1>3, <1>4

\* The run's property of these groups, for any organisations, tiers, users, names,
\* sessions and bounds: however requests and overlapping operations interleave,
\* with nothing left to do a user is in exactly the region groups of the tiers the
\* user's organisation has, and the agency group of a team has its name and its
\* direct administrators, or is gone with it; excused are changes that published
\* nothing, failures that went unnoticed and operations that overlapped
\* (assignUserToGlobalChannels and ensureCloudTakGroup, their order of reads).
THEOREM GroupsFollow ==
  ASSUME Groups!AgencyAssumption
  PROVE  Spec => []GroupsFollowRecords
<1> DEFINE AccInv == part = "access" => Groups!AccessInv
           AgInv == part = "cloudtak" => Groups!AgencyInv
<1>a. Groups!ChangeBounds
  BY DEF Groups!AgencyAssumption
<1>1. Init => AccInv /\ AgInv
  BY <1>a, SameAccess, SameCloudTak, Groups!AccessStart, Groups!AgencyStart DEF Init
<1>2. AccInv /\ [Next]_vars => AccInv'
  <2> SUFFICES ASSUME AccInv, [Next]_vars, part' = "access" PROVE Groups!AccessInv'
    OBVIOUS
  <2>1. part = "access" /\ [Groups!Access!Next]_(Groups!Access!vars)
    BY SameAccess DEF Next, vars, Groups!Access!vars
  <2> QED
    BY <1>a, <2>1, Groups!AccessStep
<1>3. AgInv /\ [Next]_vars => AgInv'
  <2> SUFFICES ASSUME AgInv, [Next]_vars, part' = "cloudtak" PROVE Groups!AgencyInv'
    OBVIOUS
  <2>1. part = "cloudtak" /\ [Groups!CloudTak!Next]_(Groups!CloudTak!vars)
    BY SameCloudTak DEF Next, vars, Groups!CloudTak!vars
  <2> QED
    BY <2>1, Groups!AgencyStep
<1>4. AccInv /\ AgInv => GroupsFollowRecords
  BY SameAccess, SameCloudTak, Groups!AccessInvHolds, Groups!AgencyInvHolds DEF GroupsFollowRecords
<1> QED
  BY <1>1, <1>2, <1>3, <1>4, PTL DEF Spec
-----------------------------------------------------------------------------
(* The custom channels.                                                    *)

LEMMA SameCustoms ==
  /\ Customs!Init <=> Groups!Customs!Init
  /\ Customs!Next <=> Groups!Customs!Next
  /\ Customs!CustomChannelsSound <=> Groups!Customs!CustomChannelsSound
<1>1. Customs!Init <=> Groups!Customs!Init
  BY DEF Customs!Init, Groups!Customs!Init, Customs!Creations, Groups!Customs!Creations, Customs!None,
     Groups!Customs!None, Customs!Idle, Groups!Customs!Idle
<1>2. /\ \A q, i : Customs!RemoveAt(q, i) = Groups!Customs!RemoveAt(q, i)
      /\ \A S : Customs!Cardinality(S) = Groups!Customs!Cardinality(S)
      /\ \A S : Customs!SetToSeq(S) = Groups!Customs!SetToSeq(S)
  BY DEF Customs!RemoveAt, Groups!Customs!RemoveAt, Customs!Cardinality, Groups!Customs!Cardinality,
     Customs!IsFiniteSet, Groups!Customs!IsFiniteSet, Customs!SetToSeq, Groups!Customs!SetToSeq,
     Customs!IsInjective, Groups!Customs!IsInjective
<1>3. Customs!Next <=> Groups!Customs!Next
  <2>1. \A s, n : Customs!PrepareCustomChannel(s, n) <=> Groups!Customs!PrepareCustomChannel(s, n)
    BY <1>2 DEF Customs!PrepareCustomChannel, Groups!Customs!PrepareCustomChannel, Customs!At, Groups!Customs!At,
       Customs!Count, Groups!Customs!Count, Customs!Free, Groups!Customs!Free, Customs!Creations,
       Groups!Customs!Creations, Customs!Idle, Groups!Customs!Idle, Customs!None, Groups!Customs!None
  <2>2. \A s : Customs!BeginInsert(s) <=> Groups!Customs!BeginInsert(s)
    BY <1>2 DEF Customs!BeginInsert, Groups!Customs!BeginInsert, Customs!At, Groups!Customs!At, Customs!Count,
       Groups!Customs!Count, Customs!Abandon, Groups!Customs!Abandon, Customs!End, Groups!Customs!End, Customs!Idle,
       Groups!Customs!Idle, Customs!None, Groups!Customs!None, Customs!rest, Groups!Customs!rest
  <2>3. \A s : Customs!CommitInsert(s) <=> Groups!Customs!CommitInsert(s)
    BY <1>2 DEF Customs!CommitInsert, Groups!Customs!CommitInsert, Customs!At, Groups!Customs!At, Customs!Commits,
       Groups!Customs!Commits, Customs!None, Groups!Customs!None, Customs!Op, Groups!Customs!Op, Customs!End,
       Groups!Customs!End, Customs!Idle, Groups!Customs!Idle, Customs!Abandon, Groups!Customs!Abandon,
       Customs!Fault, Groups!Customs!Fault, Customs!rest, Groups!Customs!rest
  <2>4. \A s, k, u : Customs!RemoveMember(s, k, u) <=> Groups!Customs!RemoveMember(s, k, u)
    BY <1>2 DEF Customs!RemoveMember, Groups!Customs!RemoveMember, Customs!At, Groups!Customs!At, Customs!Edit,
       Groups!Customs!Edit, Customs!PermOf, Groups!Customs!PermOf, Customs!Idle, Groups!Customs!Idle, Customs!None,
       Groups!Customs!None, Customs!Crossed, Groups!Customs!Crossed, Customs!Publishing, Groups!Customs!Publishing,
       Customs!rest, Groups!Customs!rest
  <2>5. \A s, k, u, p : Customs!AddMember(s, k, u, p) <=> Groups!Customs!AddMember(s, k, u, p)
    BY <1>2 DEF Customs!AddMember, Groups!Customs!AddMember, Customs!At, Groups!Customs!At, Customs!Edit,
       Groups!Customs!Edit, Customs!PermOf, Groups!Customs!PermOf, Customs!Crossed, Groups!Customs!Crossed,
       Customs!Publishing, Groups!Customs!Publishing, Customs!Idle, Groups!Customs!Idle, Customs!None,
       Groups!Customs!None, Customs!rest, Groups!Customs!rest
  <2>6. \A s : Customs!PublishMember(s) <=> Groups!Customs!PublishMember(s)
    BY <1>2 DEF Customs!PublishMember, Groups!Customs!PublishMember, Customs!At, Groups!Customs!At, Customs!Op,
       Groups!Customs!Op, Customs!Fault, Groups!Customs!Fault, Customs!End, Groups!Customs!End, Customs!Idle,
       Groups!Customs!Idle, Customs!None, Groups!Customs!None, Customs!rest, Groups!Customs!rest
  <2>7. \A u, transfer : Customs!Depart(u, transfer) <=> Groups!Customs!Depart(u, transfer)
    BY <1>2 DEF Customs!Depart, Groups!Customs!Depart, Customs!Edit, Groups!Customs!Edit, Customs!Op,
       Groups!Customs!Op, Customs!Publishing, Groups!Customs!Publishing, Customs!rest, Groups!Customs!rest
  <2>8. \A k : Customs!DeleteCustomChannel(k) <=> Groups!Customs!DeleteCustomChannel(k)
    BY <1>2 DEF Customs!DeleteCustomChannel, Groups!Customs!DeleteCustomChannel, Customs!Edit, Groups!Customs!Edit,
       Customs!None, Groups!Customs!None, Customs!rest, Groups!Customs!rest
  <2>9. \A i : Customs!RunMember(i) <=> Groups!Customs!RunMember(i)
    BY <1>2 DEF Customs!RunMember, Groups!Customs!RunMember, Customs!First, Groups!Customs!First, Customs!SameLane,
       Groups!Customs!SameLane, Customs!Exists, Groups!Customs!Exists, Customs!Member, Groups!Customs!Member,
       Customs!rest, Groups!Customs!rest
  <2>10. \A i : Customs!RemoveGroups(i) <=> Groups!Customs!RemoveGroups(i)
    BY <1>2 DEF Customs!RemoveGroups, Groups!Customs!RemoveGroups, Customs!First, Groups!Customs!First,
       Customs!SameLane, Groups!Customs!SameLane, Customs!rest, Groups!Customs!rest
  <2>11. \A i : Customs!Retry(i) <=> Groups!Customs!Retry(i)
    BY <1>2 DEF Customs!Retry, Groups!Customs!Retry, Customs!First, Groups!Customs!First, Customs!SameLane,
       Groups!Customs!SameLane, Customs!Fault, Groups!Customs!Fault, Customs!rest, Groups!Customs!rest
  <2>12. \A i : Customs!GiveUp(i) <=> Groups!Customs!GiveUp(i)
    BY <1>2 DEF Customs!GiveUp, Groups!Customs!GiveUp, Customs!First, Groups!Customs!First, Customs!SameLane,
       Groups!Customs!SameLane, Customs!Fault, Groups!Customs!Fault, Customs!rest, Groups!Customs!rest
  <2> QED
    BY <2>1, <2>2, <2>3, <2>4, <2>5, <2>6, <2>7, <2>8, <2>9, <2>10, <2>11, <2>12 DEF Customs!Next,
       Groups!Customs!Next, Customs!Creations, Groups!Customs!Creations
<1>4. Customs!CustomChannelsSound <=> Groups!Customs!CustomChannelsSound
  BY <1>2 DEF Customs!CustomChannelsSound, Groups!Customs!CustomChannelsSound, Customs!TypeOK,
     Groups!Customs!TypeOK, Customs!Creations, Groups!Customs!Creations, Customs!None, Groups!Customs!None,
     Customs!Row, Groups!Customs!Row, Customs!AtMostLimit, Groups!Customs!AtMostLimit, Customs!Count,
     Groups!Customs!Count, Customs!NoStrayGroup, Groups!Customs!NoStrayGroup, Customs!GroupsMatchPermissions,
     Groups!Customs!GroupsMatchPermissions, Customs!Quiet, Groups!Customs!Quiet, Customs!Publishing,
     Groups!Customs!Publishing
<1> QED
  BY <1>1, <1>3, <1>4

\* The run's property of custom channels, for any labels, permissions, users,
\* sessions, limit and bounds: however creations, edits of members, departures,
\* deletions and failing operations interleave, a team has no more channels than
\* its limit, the groups of each exist and no other group stays that nothing has
\* left behind, and a user about whom nothing is on its way is in exactly the
\* groups of the permissions that the rows give or gave unrevoked
\* (createCustomChannel, CustomChannel.js, and the lanes of syncWorker.js).
THEOREM CustomChannelsAreSound ==
  ASSUME Groups!CustomAssumption
  PROVE  Spec => []CustomChannelsSound
<1> DEFINE Inv == part = "customs" => Groups!CustomInv
<1>1. Init => Inv
  BY SameCustoms, Groups!CustomStart DEF Init
<1>2. Inv /\ [Next]_vars => Inv'
  <2> SUFFICES ASSUME Inv, [Next]_vars, part' = "customs" PROVE Groups!CustomInv'
    OBVIOUS
  <2>1. part = "customs" /\ [Groups!Customs!Next]_(Groups!Customs!vars)
    BY SameCustoms DEF Next, vars, Groups!Customs!vars
  <2> QED
    BY <2>1, Groups!CustomStep
<1>3. Inv => CustomChannelsSound
  BY SameCustoms, Groups!CustomInvHolds DEF CustomChannelsSound
<1> QED
  BY <1>1, <1>2, <1>3, PTL DEF Spec
=============================================================================
