--------------------------- MODULE ConnectionPool ---------------------------
(***************************************************************************)
(* The web process's pool of database connections.  Most requests take one *)
(* for one query; some hold one for a transaction and ask the pool for     *)
(* another inside it: addUserToTeam to compare callsign suffixes, a        *)
(* transfer to read ancestor chains, the creation of a global channel to   *)
(* publish its operation.  Nobody's wait has a limit.                      *)
(***************************************************************************)
EXTENDS Naturals, FiniteSets, Sequences

CONSTANTS Queriers, PoolMax

VARIABLES
  stage,      \* stage[r]: how far request r is
  waiting,    \* requests waiting for a connection, oldest first
  free        \* connections nobody has

vars == <<stage, waiting, free>>

\* What a request goes on with when it gets the connection it waits for.
Granted == [query |-> "querying", begin |-> "open", inner |-> "reading"]

TypeOK ==
  /\ stage \in [Queriers -> {"idle", "query", "querying", "begin", "open", "inner", "reading", "writing"}]
  /\ waiting \in Seq(Queriers)
  /\ free \in 0 .. PoolMax

Init ==
  /\ stage = [r \in Queriers |-> "idle"]
  /\ waiting = <<>>
  /\ free = PoolMax

-----------------------------------------------------------------------------
(* pg's pool.                                                              *)

\* connect(): a connection that is free, or a place in the queue.
Connect(r, for) ==
  IF free > 0
  THEN /\ stage' = [stage EXCEPT ![r] = Granted[for]]
       /\ free' = free - 1 /\ UNCHANGED waiting
  ELSE /\ stage' = [stage EXCEPT ![r] = for]
       /\ waiting' = Append(waiting, r) /\ UNCHANGED free

\* release(): the oldest in the queue gets the connection.
Release(r, next) ==
  IF waiting = <<>>
  THEN /\ stage' = [stage EXCEPT ![r] = next]
       /\ free' = free + 1 /\ UNCHANGED waiting
  ELSE /\ stage' = [stage EXCEPT ![r] = next, ![Head(waiting)] = Granted[@]]
       /\ waiting' = Tail(waiting) /\ UNCHANGED free

-----------------------------------------------------------------------------
(* The requests.                                                           *)

\* pool.query: a connection for one statement.
Query(r) == stage[r] = "idle" /\ Connect(r, "query")
Answer(r) == stage[r] = "querying" /\ Release(r, "idle")

\* addUserToTeam, or a caller that brings its client, begins a transaction;
Begin(r) == stage[r] = "idle" /\ Connect(r, "begin")

\* a suffix is compared with the members' by a query of the pool,
CompareSuffix(r) == stage[r] = "open" /\ Connect(r, "inner")
NoSuffix(r) == stage[r] = "open" /\ stage' = [stage EXCEPT ![r] = "writing"] /\ UNCHANGED <<waiting, free>>
Compared(r) == stage[r] = "reading" /\ Release(r, "writing")

\* Mutant: the error path returns before the release.
FinishOrLeak(r) ==
  /\ stage[r] = "writing"
  /\ \/ Release(r, "idle")
     \/ stage' = [stage EXCEPT ![r] = "idle"] /\ UNCHANGED <<waiting, free>>

\* COMMIT or ROLLBACK; the finally releases the connection either way.
Finish(r) == stage[r] = "writing" /\ Release(r, "idle")

Asks(r) == Query(r) \/ Begin(r)
Continues(r) == Answer(r) \/ CompareSuffix(r) \/ NoSuffix(r) \/ Compared(r) \/ Finish(r)
Next == \E r \in Queriers : Asks(r) \/ Continues(r)

Spec == Init /\ [][Next]_vars

-----------------------------------------------------------------------------
(* Properties.                                                             *)

Count(stages) == Cardinality({r \in Queriers : stage[r] \in stages})
Running == {"querying", "open", "reading", "writing"}

\* Whatever fails, each connection is free or held, and is free only while nobody waits.
NoneLost ==
  /\ free + Count({"querying", "open", "inner", "writing"}) + 2 * Count({"reading"}) = PoolMax
  /\ free > 0 => waiting = <<>>

\* Who waits is served some time: somebody who waits for nothing holds a connection,
\* unless as many such transactions are open at once as the pool has connections: each
\* holds one and waits for another, and nothing ever ends again.
Starved == Count({"inner"}) >= PoolMax
SomebodyRuns ==
  /\ {waiting[i] : i \in DOMAIN waiting} = {r \in Queriers : stage[r] \in DOMAIN Granted}
  /\ waiting # <<>> => Starved \/ \E r \in Queriers : stage[r] \in Running

\* A query inside a transaction is the only way requests block each other for good.
PoolSound == TypeOK /\ NoneLost /\ SomebodyRuns
=============================================================================
