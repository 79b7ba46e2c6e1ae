----------------------------- MODULE RateLimiter -----------------------------
(***************************************************************************)
(* One lane of the Authentik rate limiter: a row of rate_limit_buckets     *)
(* that every process updates in one autocommitted statement.  The clock   *)
(* counts the time one token takes; tokens are whole.  An UPDATE that      *)
(* meets a row changed after its snapshot waits for that change and then   *)
(* writes what its subquery computed from the snapshot.                    *)
(***************************************************************************)
EXTENDS Naturals, FiniteSets

CONSTANTS
  Callers,
  Capacity,    \* of the bucket, which is also the refill per second
  MaxClock, MaxCalls   \* bounds: how long, how many statements

VARIABLES
  clock,       \* the database's clock
  bucket,      \* tokens and last_refill_at
  call,        \* call[c]: the statement of c, its now() and snapshot, grants since
  asked,       \* statements so far
  window       \* history: grants, and grants excused, since the time at

vars == <<clock, bucket, call, asked, window>>

None == [tokens |-> 0, last |-> 0]
Idle == [pc |-> "idle", now |-> 0, saw |-> None, grants |-> 0]

TypeOK ==
  /\ clock \in 0 .. MaxClock
  /\ bucket \in [tokens : Nat, last : 0 .. clock]
  /\ call \in [Callers -> [pc : {"idle", "begun", "read"}, now : 0 .. clock,
                           saw : [tokens : Nat, last : 0 .. clock], grants : Nat]]
  /\ asked \in 0 .. MaxCalls
  /\ window \in [at : 0 .. clock, granted : Nat, excused : Nat]

\* The migration seeds a full bucket.
Init ==
  /\ clock = 0
  /\ bucket = [tokens |-> Capacity, last |-> 0]
  /\ call = [c \in Callers |-> Idle]
  /\ asked = 0
  /\ window = [at |-> 0, granted |-> 0, excused |-> 0]

Tick ==
  /\ clock < MaxClock /\ clock' = clock + 1
  /\ UNCHANGED <<bucket, call, asked, window>>

\* acquire asks at once and again after each wait: now() is when its statement
\* reaches the database.
Begin(c) ==
  /\ call[c].pc = "idle" /\ asked < MaxCalls /\ asked' = asked + 1
  /\ call' = [call EXCEPT ![c].pc = "begun", ![c].now = clock]
  /\ UNCHANGED <<clock, bucket, window>>

Snapshot(c) ==
  /\ call[c].pc = "begun"
  /\ call' = [call EXCEPT ![c].pc = "read", ![c].saw = bucket]
  /\ UNCHANGED <<clock, bucket, asked, window>>

Minus(a, b) == IF a > b THEN a - b ELSE 0
AtMost(a, b) == IF a > b THEN b ELSE a

\* Mutant: the bucket has no capacity.
RefillAll(c) == call[c].saw.tokens + Minus(call[c].now, call[c].saw.last)

\* LEAST(capacity, tokens + GREATEST(0, elapsed) * rate).
Refilled(c) == AtMost(call[c].saw.tokens + Minus(call[c].now, call[c].saw.last), Capacity)

\* Excused: a statement that wrote over others brings back the tokens these
\* granted, and one whose now() is older than last_refill_at the time between.
Excuse(c) == Minus(call[c].saw.last, call[c].now) + call[c].grants

\* The row is written, granted or not.
Update(c) ==
  /\ call[c].pc = "read"
  /\ LET granted == IF Refilled(c) >= 1 THEN 1 ELSE 0 IN
     /\ bucket' = [tokens |-> Refilled(c) - granted, last |-> call[c].now]
     /\ call' = [d \in Callers |-> IF d = c THEN Idle
                                   ELSE IF call[d].pc = "read" THEN [call[d] EXCEPT !.grants = @ + granted]
                                   ELSE call[d]]
     /\ window' = [window EXCEPT !.granted = IF call[c].now >= window.at THEN @ + granted ELSE @,
                                 !.excused = @ + Excuse(c)]
  /\ UNCHANGED <<clock, asked>>

\* History: the window the property looks at begins.
Watch ==
  /\ window.at < clock
  /\ window' = [at |-> clock, granted |-> 0, excused |-> 0]
  /\ UNCHANGED <<clock, bucket, call, asked>>

Next ==
  \/ Tick \/ Watch
  \/ \E c \in Callers : Begin(c) \/ Snapshot(c) \/ Update(c)

Spec == Init /\ [][Next]_vars

-----------------------------------------------------------------------------
(* Properties.                                                             *)

\* Of the calls all processes make in any period no more are granted than the
\* capacity and the time that passed, but for what overlapping statements grant
\* twice.
RateKept ==
  /\ TypeOK
  /\ window.granted <= Capacity + (clock - window.at) + window.excused
=============================================================================
