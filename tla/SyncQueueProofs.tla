-------------------------- MODULE SyncQueueProofs --------------------------
(* Proofs about SyncQueue, for any rows, workers, payloads and bounds.     *)
EXTENDS SyncQueue, FiniteSetTheorems, TLAPS

(***************************************************************************)
(* The invariant behind SoleOwner, ProcessingAccounted and TerminalFinal.  *)
(***************************************************************************)

\* A row under an open claim is pending and due, and under one claim only.
LocksExclusive ==
  /\ \A w \in Workers : \A r \in locked[w] : row[r].status = "pending" /\ row[r].due
  /\ \A v, w \in Workers : v # w => locked[v] \cap locked[w] = {}
  /\ \A w \in Workers : pc[w] # "claiming" => locked[w] = {}

\* Work is under way only in a running batch, on rows of that batch.
WorkInBatch ==
  \A w \in Workers :
    /\ pc[w] = "claiming" => locked[w] = BatchRows(w)
    /\ \A r \in Ids : InFlight(w, r) => pc[w] = "batch" /\ r \in BatchRows(w)

\* A row under way is 'processing', unless its outcome has been written and
\* only the reply is missing.
HeldRows ==
  \A w \in Workers : \A r \in Ids :
    InFlight(w, r) => \/ row[r].status = "processing"
                      \/ job[w][r].stage \in Marking /\ row[r] = Outcome(w, r)

TriesLeft ==
  \A w \in Workers : \A r \in Ids : InFlight(w, r) => job[w][r].tries < DbAttempts

\* 'processing' means held or stranded, and never both.
HeldOrStranded ==
  \A r \in Ids :
    /\ row[r].status = "processing" => r \in stranded \/ \E w \in Workers : InFlight(w, r)
    /\ r \in stranded => /\ row[r].status = "processing"
                         /\ \A w \in Workers : ~ InFlight(w, r)

IInv ==
  /\ TypeOK
  /\ LocksExclusive
  /\ WorkInBatch
  /\ HeldRows
  /\ TriesLeft
  /\ SoleOwner
  /\ HeldOrStranded

-----------------------------------------------------------------------------

\* Every fetch is a sequence of candidates.
LEMMA FetchIsSeq ==
  ASSUME NEW C \in SUBSET Ids, NEW s \in Fetches(C)
  PROVE  s \in Seq(C) /\ {s[i] : i \in DOMAIN s} \subseteq C
<1> DEFINE k == IF Cardinality(C) < BatchSize THEN Cardinality(C) ELSE BatchSize
<1>1. IsFiniteSet(C) BY SyncQueueAssumption, FS_Subset
<1>2. k \in Nat BY <1>1, FS_CardinalityType, SyncQueueAssumption
<1>3. s \in [1..k -> C] BY DEF Fetches
<1>4. s \in Seq(C) BY <1>2, <1>3
<1>5. {s[i] : i \in DOMAIN s} \subseteq C BY <1>3
<1> QED BY <1>4, <1>5

\* What a marking function writes is a row, and writing it again changes
\* nothing; a row it leaves pending is not due.
LEMMA OutcomeWritten ==
  ASSUME TypeOK, NEW w \in Workers, NEW r \in Ids, job[w][r].stage \in Marking
  PROVE  /\ Outcome(w, r) \in Rows
         /\ Outcome(w, r).status \in Terminal \cup {"pending"}
         /\ Outcome(w, r).status = "pending" => ~ Outcome(w, r).due
         /\ row[r].status \in Terminal /\ row[r] = Outcome(w, r) => Outcome(w, r) = row[r]
<1>1. row[r] \in Rows /\ job[w][r] \in Jobs BY DEF TypeOK
<1>2. CASE job[w][r].stage = "completing"
  BY <1>1, <1>2 DEF Outcome, Rows, Statuses, Terminal
<1>3. CASE job[w][r].stage = "rejecting"
  BY <1>1, <1>3 DEF Outcome, Rows, Statuses, Terminal, Categories
<1>4. CASE job[w][r].stage = "retrying"
  <2>1. Outcome(w, r) = Retried(r, job[w][r].retry) BY <1>4 DEF Outcome
  <2>2. job[w][r].retry + 1 \in Nat BY <1>1 DEF Jobs
  <2> QED BY ZenonT(40), <1>1, <2>1, <2>2 DEF Retried, Rows, Statuses, Terminal
<1> QED BY <1>2, <1>3, <1>4 DEF Marking

-----------------------------------------------------------------------------

LEMMA InitInvariant == Init => IInv
<1> SUFFICES ASSUME Init PROVE IInv OBVIOUS
<1> USE DEF Init
<1>1. TypeOK
  BY SyncQueueAssumption DEF TypeOK, Rows, Absent, Statuses, Categories, Jobs, Idle, Stages
<1>2. \A w \in Workers : \A r \in Ids : ~ InFlight(w, r)
  BY DEF InFlight, Idle, Marking
<1> QED BY <1>1, <1>2 DEF IInv, LocksExclusive, WorkInBatch, HeldRows, TriesLeft,
             SoleOwner, HeldOrStranded, Absent

\* The claim's UPDATE changes the status of the locked rows and nothing else.
LEMMA MarkedRows ==
  ASSUME TypeOK, NEW w \in Workers, row' = MarkedProcessing(w)
  PROVE  /\ row' \in [Ids -> Rows]
         /\ \A r \in Ids : r \in locked[w] => row'[r].status = "processing"
         /\ \A r \in Ids : r \notin locked[w] => row'[r] = row[r]
         /\ \A r \in Ids : row'[r].payload = row[r].payload
<1>1. ASSUME NEW r \in Ids
      PROVE  /\ [row[r] EXCEPT !.status = "processing"] \in Rows
             /\ [row[r] EXCEPT !.status = "processing"].status = "processing"
             /\ [row[r] EXCEPT !.status = "processing"].payload = row[r].payload
             /\ row[r] \in Rows
  <2>1. row[r] \in Rows BY DEF TypeOK
  <2> QED BY <2>1 DEF Rows, Statuses
<1> QED BY <1>1 DEF MarkedProcessing

\* One worker moves one of its operations on.
LEMMA SetJobStep ==
  ASSUME job \in [Workers -> [Ids -> Jobs]], NEW w \in Workers, NEW r \in Ids,
         NEW j \in Jobs, SetJob(w, r, j)
  PROVE  /\ job' \in [Workers -> [Ids -> Jobs]]
         /\ \A v \in Workers : \A q \in Ids :
              job'[v][q] = IF v = w /\ q = r THEN j ELSE job[v][q]
BY DEF SetJob

\* The job a marking attempt leaves behind when it fails.
LEMMA NextTryJob ==
  ASSUME TypeOK, TriesLeft, NEW w \in Workers, NEW r \in Ids,
         job[w][r].stage \in Marking, NextTry(w, r)
  PROVE  \E j \in Jobs :
           /\ SetJob(w, r, j)
           /\ \/ j.stage = job[w][r].stage /\ j.tries < DbAttempts /\ stranded' = stranded
              \/ /\ j.stage = "done"
                 /\ stranded' = IF row'[r].status = "processing"
                                THEN stranded \cup {r} ELSE stranded
           /\ j.retry = job[w][r].retry
<1> DEFINE n == job[w][r].tries + 1
           j == [job[w][r] EXCEPT !.tries = n,
                                  !.stage = IF n >= DbAttempts THEN "done" ELSE @]
<1>1. job[w][r] \in Jobs BY DEF TypeOK
<1>2. n \in 0..DbAttempts
  BY <1>1, SyncQueueAssumption DEF TriesLeft, InFlight, Jobs
<1>3. j \in Jobs BY <1>1, <1>2 DEF Jobs, Stages
<1>4. SetJob(w, r, j) BY DEF NextTry
<1>5. stranded' = IF n >= DbAttempts /\ row'[r].status = "processing"
                  THEN stranded \cup {r} ELSE stranded
  BY DEF NextTry
<1>6. /\ j.retry = job[w][r].retry
      /\ j.tries = n
      /\ j.stage = IF n >= DbAttempts THEN "done" ELSE job[w][r].stage
  BY <1>1 DEF Jobs
<1>7. n >= DbAttempts \/ n < DbAttempts BY <1>2, SyncQueueAssumption
<1> HIDE DEF j, n
<1> QED BY <1>3, <1>4, <1>5, <1>6, <1>7, <1>2, SyncQueueAssumption

\* Each action keeps every variable in its type.
LEMMA TypeStep == IInv /\ [Next]_vars => TypeOK'
<1> SUFFICES ASSUME IInv, [Next]_vars PROVE TypeOK'
  OBVIOUS
<1> USE DEF IInv
<1>1. ASSUME NEW p \in Payloads, NEW t \in Ids, Publish(p, t) PROVE TypeOK'
  <2>1. t \in Nat BY SyncQueueAssumption
  <2> QED BY <1>1, <2>1 DEF Publish, Unused, TypeOK, Rows, Statuses, Categories
<1>2. ASSUME NEW r \in Ids, BecomeDue(r) PROVE TypeOK'
  BY ZenonT(40), <1>2 DEF BecomeDue, TypeOK, Rows
<1>3. ASSUME NEW w \in Workers, BeginClaim(w) PROVE TypeOK'
  <2>1. Claimable(w) \in SUBSET Ids BY DEF Claimable
  <2>2. PICK s \in Fetches(Claimable(w)) :
          /\ batch' = [batch EXCEPT ![w] = s]
          /\ locked' = [locked EXCEPT ![w] = {s[i] : i \in DOMAIN s}]
    BY <1>3 DEF BeginClaim
  <2>3. s \in Seq(Ids) /\ {s[i] : i \in DOMAIN s} \subseteq Ids
    BY <2>1, <2>2, FetchIsSeq
  <2> QED BY <1>3, <2>2, <2>3 DEF BeginClaim, TypeOK
<1>4. ASSUME NEW w \in Workers, CommitClaim(w) PROVE TypeOK'
  <2>1. row' \in [Ids -> Rows]
    BY <1>4, MarkedRows DEF CommitClaim
  <2>2. job' \in [Workers -> [Ids -> Jobs]]
    BY <1>4, SyncQueueAssumption DEF CommitClaim, TypeOK, Jobs, Idle, Stages, Rows
  <2> QED BY <1>4, <2>1, <2>2 DEF CommitClaim, TypeOK
<1>5. ASSUME NEW w \in Workers, AbortClaim(w) PROVE TypeOK'
  BY <1>5, SyncQueueAssumption DEF AbortClaim, SpendFault, TypeOK
<1>6. ASSUME NEW w \in Workers, CommitClaimUnacknowledged(w) PROVE TypeOK'
  <2>1. row' \in [Ids -> Rows]
    BY <1>6, MarkedRows DEF CommitClaimUnacknowledged
  <2>2. batch' \in [Workers -> Seq(Ids)] /\ locked' \in [Workers -> SUBSET Ids]
    BY <1>6 DEF CommitClaimUnacknowledged, TypeOK
  <2>3. faults' \in 0..MaxFaults
    BY <1>6, SyncQueueAssumption DEF CommitClaimUnacknowledged, SpendFault, TypeOK
  <2>4. stranded' \subseteq Ids BY <1>6 DEF CommitClaimUnacknowledged, TypeOK
  <2> QED BY <1>6, <2>1, <2>2, <2>3, <2>4 DEF CommitClaimUnacknowledged, TypeOK
<1>7. ASSUME NEW w \in Workers, NEW r \in Ids, NEW st \in Stages, SetStage(w, r, st)
      PROVE  job' \in [Workers -> [Ids -> Jobs]]
  <2>1. job[w][r] \in Jobs BY DEF TypeOK
  <2>2. [job[w][r] EXCEPT !.stage = st] \in Jobs BY <2>1 DEF Jobs
  <2> QED BY <1>7, <2>2, SetJobStep DEF SetStage, TypeOK
<1>8. ASSUME NEW w \in Workers, NEW r \in Ids, Execute(w, r) \/ \E o \in Marking : Return(w, r, o)
      PROVE  TypeOK'
  <2>1. job' \in [Workers -> [Ids -> Jobs]]
    BY <1>7, <1>8 DEF Execute, Return, Stages, Marking
  <2>2. attempts' \in [Ids -> Nat]
    <3>1. attempts \in [Ids -> Nat] /\ attempts[r] + 1 \in Nat BY DEF TypeOK
    <3>2. attempts' = attempts \/ attempts' = [attempts EXCEPT ![r] = attempts[r] + 1]
      BY <1>8 DEF Execute, Return
    <3> QED BY <3>1, <3>2
  <2> QED BY <1>8, <2>1, <2>2 DEF Execute, Return, TypeOK
<1>9. ASSUME NEW w \in Workers, NEW r \in Ids, MarkApplied(w, r) PROVE TypeOK'
  <2>1. Outcome(w, r) \in Rows BY <1>9, OutcomeWritten DEF MarkApplied
  <2>2. job' \in [Workers -> [Ids -> Jobs]] BY <1>7, <1>9 DEF MarkApplied, Stages
  <2> QED BY <1>9, <2>1, <2>2 DEF MarkApplied, TypeOK
<1>10. ASSUME NEW w \in Workers, NEW r \in Ids, NextTry(w, r), job[w][r].stage \in Marking
       PROVE  job' \in [Workers -> [Ids -> Jobs]] /\ stranded' \subseteq Ids
  <2>1. PICK j \in Jobs : SetJob(w, r, j) BY <1>10, NextTryJob
  <2>2. job' \in [Workers -> [Ids -> Jobs]] BY <2>1, SetJobStep DEF TypeOK
  <2> QED BY <1>10, <2>2 DEF NextTry, TypeOK
<1>11. ASSUME NEW w \in Workers, NEW r \in Ids, MarkError(w, r) PROVE TypeOK'
  BY <1>10, <1>11, SyncQueueAssumption DEF MarkError, SpendFault, TypeOK
<1>12. ASSUME NEW w \in Workers, NEW r \in Ids, MarkUnacknowledged(w, r) PROVE TypeOK'
  <2>1. Outcome(w, r) \in Rows BY <1>12, OutcomeWritten DEF MarkUnacknowledged
  <2> QED BY <1>10, <1>12, <2>1, SyncQueueAssumption
          DEF MarkUnacknowledged, SpendFault, TypeOK
<1>13. ASSUME NEW w \in Workers, NEW r \in Ids, MarkConflict(w, r) PROVE TypeOK'
  BY <1>10, <1>13 DEF MarkConflict, TypeOK
<1>14. Idle \in Jobs BY SyncQueueAssumption DEF Idle, Jobs, Stages
<1>15. ASSUME NEW w \in Workers, FinishBatch(w) PROVE TypeOK'
  BY <1>14, <1>15 DEF FinishBatch, TypeOK
<1>16. ASSUME NEW w \in Workers, Lifecycle(w) PROVE TypeOK'
  <2>1. CASE BeginStop(w) BY <2>1, SyncQueueAssumption DEF BeginStop, SpendFault, TypeOK
  <2>2. CASE Drained(w) BY <2>2 DEF Drained, TypeOK
  <2>3. CASE Restart(w) BY <2>3 DEF Restart, TypeOK
  <2>4. ASSUME Vanish(w), faults' \in 0..MaxFaults PROVE TypeOK'
    BY <1>14, <2>4 DEF Vanish, TypeOK
  <2>5. CASE DrainTimeout(w) BY <2>4, <2>5 DEF DrainTimeout, TypeOK
  <2>6. CASE Crash(w) BY <2>4, <2>6, SyncQueueAssumption DEF Crash, SpendFault, TypeOK
  <2> QED BY <1>16, <2>1, <2>2, <2>3, <2>5, <2>6 DEF Lifecycle
<1>17. CASE UNCHANGED vars
  BY <1>17 DEF vars, TypeOK
<1> QED
  BY <1>1, <1>2, <1>3, <1>4, <1>5, <1>6, <1>8, <1>9, <1>11, <1>12, <1>13, <1>15,
     <1>16, <1>17 DEF Next, Enqueue, Claim, Run, Mark

-----------------------------------------------------------------------------
(* The invariant, by the shape of the step.                                *)

\* What a marking function would write depends only on its row and its job.
LEMMA OutcomeFrame ==
  ASSUME NEW w \in Workers, NEW r \in Ids,
         row'[r] = row[r], job'[w][r].stage = job[w][r].stage,
         job'[w][r].retry = job[w][r].retry
  PROVE  Outcome(w, r)' = Outcome(w, r)
BY DEF Outcome, Retried

\* Writing an outcome twice is writing it once.
LEMMA OutcomeTwice ==
  ASSUME TypeOK, NEW w \in Workers, NEW r \in Ids, job[w][r].stage \in Marking,
         row'[r] = Outcome(w, r), job'[w][r].stage = job[w][r].stage,
         job'[w][r].retry = job[w][r].retry
  PROVE  Outcome(w, r)' = Outcome(w, r)
<1>1. row[r] \in Rows /\ job[w][r] \in Jobs BY DEF TypeOK
<1>2. CASE job[w][r].stage = "completing" BY <1>1, <1>2 DEF Outcome, Rows
<1>3. CASE job[w][r].stage = "rejecting" BY <1>1, <1>3 DEF Outcome, Rows
<1>4. CASE job[w][r].stage = "retrying" BY <1>1, <1>4 DEF Outcome, Retried, Rows
<1> QED BY <1>2, <1>3, <1>4 DEF Marking

\* A step that moves workers between states outside a claim or a batch.
LEMMA IdleStep ==
  ASSUME IInv, TypeOK', UNCHANGED <<row, locked, batch, job, stranded>>,
         \A w \in Workers : pc'[w] # pc[w] => /\ pc[w] \notin {"claiming", "batch"}
                                               /\ pc'[w] # "claiming"
  PROVE  IInv'
<1>1. \A w \in Workers : \A r \in Ids : InFlight(w, r)' <=> InFlight(w, r)
  BY DEF InFlight
<1>2. \A w \in Workers : \A r \in Ids : Outcome(w, r)' = Outcome(w, r)
  BY OutcomeFrame
<1>3. LocksExclusive' BY DEF IInv, LocksExclusive
<1>4. WorkInBatch' BY <1>1 DEF IInv, WorkInBatch, BatchRows
<1>5. HeldRows' BY <1>1, <1>2 DEF IInv, HeldRows
<1>6. TriesLeft' BY <1>1 DEF IInv, TriesLeft
<1>7. SoleOwner' BY <1>1 DEF IInv, SoleOwner
<1>8. HeldOrStranded' BY <1>1 DEF IInv, HeldOrStranded
<1> QED BY <1>3, <1>4, <1>5, <1>6, <1>7, <1>8 DEF IInv

\* A step of the queue itself: a row nobody holds becomes, or stays, a
\* pending row that is due.
LEMMA FreeRowStep ==
  ASSUME IInv, TypeOK', NEW r \in Ids, NEW x \in Rows,
         row[r].status # "processing", \A w \in Workers : ~ InFlight(w, r),
         x.status = "pending", x.due,
         row' = [row EXCEPT ![r] = x],
         UNCHANGED <<pc, locked, batch, job, stranded>>
  PROVE  IInv'
<1>1. row'[r] = x /\ \A q \in Ids \ {r} : row'[q] = row[q]
  BY DEF IInv, TypeOK
<1>2. \A w \in Workers : \A q \in Ids : InFlight(w, q)' <=> InFlight(w, q)
  BY DEF InFlight
<1>3. \A w \in Workers : \A q \in Ids \ {r} : Outcome(w, q)' = Outcome(w, q)
  BY <1>1, OutcomeFrame
<1>4. LocksExclusive' BY <1>1 DEF IInv, LocksExclusive, TypeOK
<1>5. WorkInBatch' BY <1>2 DEF IInv, WorkInBatch, BatchRows
<1>6. HeldRows' BY <1>1, <1>2, <1>3 DEF IInv, HeldRows
<1>7. TriesLeft' BY <1>2 DEF IInv, TriesLeft
<1>8. SoleOwner' BY <1>2 DEF IInv, SoleOwner
<1>9. HeldOrStranded' BY <1>1, <1>2 DEF IInv, HeldOrStranded
<1> QED BY <1>4, <1>5, <1>6, <1>7, <1>8, <1>9 DEF IInv

\* A step of a worker on an operation it holds: it moves its job on, and may
\* write the outcome.
LEMMA JobStep ==
  ASSUME IInv, TypeOK', NEW w \in Workers, NEW r \in Ids, NEW j \in Jobs,
         InFlight(w, r), SetJob(w, r, j),
         \A q \in Ids \ {r} : row'[q] = row[q],
         row'[r] = row[r] \/ (job[w][r].stage \in Marking /\ row'[r] = Outcome(w, r)),
         UNCHANGED <<pc, locked, batch>>,
         \/ /\ j.stage \in {"waiting", "running"} \cup Marking
            /\ j.tries < DbAttempts
            /\ \/ row'[r].status = "processing"
               \/ j.stage \in Marking /\ row'[r] = Outcome(w, r)'
            /\ stranded' = stranded
         \/ /\ j.stage = "done"
            /\ stranded' = IF row'[r].status = "processing"
                           THEN stranded \cup {r} ELSE stranded
  PROVE  IInv'
<1>1. job'[w][r] = j /\ \A v \in Workers : \A q \in Ids : v # w \/ q # r => job'[v][q] = job[v][q]
  BY SetJobStep DEF IInv, TypeOK
<1>2. \A v \in Workers : \A q \in Ids : v # w \/ q # r => (InFlight(v, q)' <=> InFlight(v, q))
  BY <1>1 DEF InFlight
<1>3. \A v \in Workers \ {w} : ~ InFlight(v, r)
  BY DEF IInv, SoleOwner
<1>4. \A v \in Workers : \A q \in Ids \ {r} : Outcome(v, q)' = Outcome(v, q)
  BY <1>1, OutcomeFrame
<1>5. InFlight(w, r)' <=> j.stage \in {"waiting", "running"} \cup Marking
  BY <1>1 DEF InFlight
<1>6. row[r].status = "processing" \/ (job[w][r].stage \in Marking /\ row[r] = Outcome(w, r))
  BY DEF IInv, HeldRows
<1>7. job[w][r].stage \in Marking =>
        /\ Outcome(w, r).status \in Terminal \cup {"pending"}
        /\ Outcome(w, r).status = "pending" => ~ Outcome(w, r).due
  BY OutcomeWritten DEF IInv
<1>8. \A v \in Workers : r \notin locked[v]
  BY <1>6, <1>7 DEF IInv, LocksExclusive, Terminal
<1>9. r \notin stranded
  BY DEF IInv, HeldOrStranded
<1>10. LocksExclusive'
  <2>1. \A v \in Workers : \A q \in locked[v] : q \in Ids \ {r} BY <1>8 DEF IInv, TypeOK
  <2> QED BY <2>1 DEF IInv, LocksExclusive
<1>11. WorkInBatch'
  <2>1. \A v \in Workers : BatchRows(v)' = BatchRows(v) BY DEF BatchRows
  <2> QED BY <1>2, <2>1 DEF IInv, WorkInBatch
<1>12. HeldRows' BY <1>1, <1>2, <1>3, <1>4, <1>5 DEF IInv, HeldRows, Marking
<1>13. TriesLeft' BY <1>1, <1>2, <1>5 DEF IInv, TriesLeft, Marking
<1>14. SoleOwner' BY <1>2, <1>3 DEF IInv, SoleOwner
<1>15. ASSUME NEW q \in Ids
       PROVE  /\ row'[q].status = "processing"
                 => q \in stranded' \/ \E v \in Workers : InFlight(v, q)'
              /\ q \in stranded' => /\ row'[q].status = "processing"
                                    /\ \A v \in Workers : ~ InFlight(v, q)'
  <2>1. CASE q # r BY <1>2, <2>1 DEF IInv, HeldOrStranded
  <2>2. CASE q = r BY <1>2, <1>3, <1>5, <1>9, <2>2 DEF Marking
  <2> QED BY <2>1, <2>2
<1>16. HeldOrStranded' BY <1>15 DEF HeldOrStranded
<1> QED BY <1>10, <1>11, <1>12, <1>13, <1>14, <1>16 DEF IInv

\* A step in which a worker drops its claim or its batch, whatever state the
\* operations are in.
LEMMA ReleaseStep ==
  ASSUME IInv, TypeOK', NEW w \in Workers,
         \A v \in Workers \ {w} : /\ locked'[v] = locked[v] /\ batch'[v] = batch[v]
                                   /\ job'[v] = job[v] /\ pc'[v] = pc[v],
         locked'[w] = {}, pc'[w] \notin {"claiming", "batch"},
         \A r \in Ids : ~ InFlight(w, r)',
         UNCHANGED row,
         stranded' = stranded \cup {r \in Ids : InFlight(w, r) /\ row[r].status = "processing"}
  PROVE  IInv'
<1>1. \A v \in Workers \ {w} : \A r \in Ids :
        /\ InFlight(v, r)' <=> InFlight(v, r)
        /\ Outcome(v, r)' = Outcome(v, r)
        /\ job'[v][r] = job[v][r]
  BY OutcomeFrame DEF InFlight
<1>2. \A v \in Workers \ {w} : BatchRows(v)' = BatchRows(v) BY DEF BatchRows
<1>3. LocksExclusive' BY DEF IInv, LocksExclusive
<1>4. WorkInBatch' BY <1>1, <1>2 DEF IInv, WorkInBatch
<1>5. HeldRows' BY <1>1 DEF IInv, HeldRows
<1>6. TriesLeft' BY <1>1 DEF IInv, TriesLeft
<1>7. SoleOwner' BY <1>1 DEF IInv, SoleOwner
<1>8. ASSUME NEW r \in Ids
      PROVE  /\ row[r].status = "processing"
                => r \in stranded' \/ \E v \in Workers : InFlight(v, r)'
             /\ r \in stranded' => /\ row[r].status = "processing"
                                   /\ \A v \in Workers : ~ InFlight(v, r)'
  <2>1. CASE InFlight(w, r) BY <1>1, <2>1 DEF IInv, HeldOrStranded, SoleOwner
  <2>2. CASE ~ InFlight(w, r) BY <1>1, <2>2 DEF IInv, HeldOrStranded
  <2> QED BY <2>1, <2>2
<1>9. HeldOrStranded' BY <1>8 DEF HeldOrStranded
<1> QED BY <1>3, <1>4, <1>5, <1>6, <1>7, <1>9 DEF IInv

\* A step in which a claim takes rows, whose status and order do not matter.
LEMMA BeginClaimStep ==
  ASSUME IInv, TypeOK', NEW w \in Workers, BeginClaim(w)
  PROVE  IInv'
<1>1. PICK s \in Fetches(Claimable(w)) :
        /\ batch' = [batch EXCEPT ![w] = s]
        /\ locked' = [locked EXCEPT ![w] = {s[i] : i \in DOMAIN s}]
  BY DEF BeginClaim
<1>2. /\ UNCHANGED <<row, stopping, job, attempts, stranded, faults>>
      /\ pc' = [pc EXCEPT ![w] = "claiming"]
      /\ pc[w] = "polling"
  BY DEF BeginClaim
<1>3. locked'[w] \subseteq Claimable(w)
  <2>1. Claimable(w) \in SUBSET Ids BY DEF Claimable
  <2>2. {s[i] : i \in DOMAIN s} \subseteq Claimable(w) BY <1>1, <2>1, FetchIsSeq
  <2> QED BY <1>1, <2>2 DEF IInv, TypeOK
<1>4. /\ batch'[w] = s /\ locked'[w] = {s[i] : i \in DOMAIN s} /\ pc'[w] = "claiming"
      /\ \A v \in Workers \ {w} : locked'[v] = locked[v] /\ batch'[v] = batch[v] /\ pc'[v] = pc[v]
  BY <1>1, <1>2 DEF IInv, TypeOK
<1>5. \A v \in Workers : \A r \in Ids : InFlight(v, r)' <=> InFlight(v, r)
  BY <1>2 DEF InFlight
<1>6. \A v \in Workers : \A r \in Ids : Outcome(v, r)' = Outcome(v, r)
  BY <1>2, OutcomeFrame
<1>7. LocksExclusive'
  <2>1. \A r \in locked'[w] : /\ row[r].status = "pending" /\ row[r].due
                              /\ \A v \in Workers \ {w} : r \notin locked[v]
    BY <1>3 DEF Claimable, SkipLocked
  <2>2. \A v \in Workers : \A r \in locked'[v] : row[r].status = "pending" /\ row[r].due
    BY <1>4, <2>1 DEF IInv, LocksExclusive
  <2>3. \A u, v \in Workers : u # v => locked'[u] \cap locked'[v] = {}
    BY <1>4, <2>1 DEF IInv, LocksExclusive
  <2>4. \A v \in Workers : pc'[v] # "claiming" => locked'[v] = {}
    BY <1>4 DEF IInv, LocksExclusive
  <2> QED BY <1>2, <2>2, <2>3, <2>4 DEF LocksExclusive
<1>8. \A v \in Workers \ {w} : BatchRows(v)' = BatchRows(v) BY <1>4 DEF BatchRows
<1>9. BatchRows(w)' = locked'[w] BY <1>4 DEF BatchRows
<1>10. WorkInBatch' BY <1>2, <1>4, <1>5, <1>8, <1>9 DEF IInv, WorkInBatch
<1>11. HeldRows' BY <1>2, <1>5, <1>6 DEF IInv, HeldRows
<1>12. TriesLeft' BY <1>2, <1>5 DEF IInv, TriesLeft
<1>13. SoleOwner' BY <1>5 DEF IInv, SoleOwner
<1>14. HeldOrStranded' BY <1>2, <1>5 DEF IInv, HeldOrStranded
<1> QED BY <1>7, <1>10, <1>11, <1>12, <1>13, <1>14 DEF IInv

\* A claim commits, and its worker holds the rows or (its reply lost) nobody.
LEMMA CommitClaimStep ==
  ASSUME IInv, TypeOK', NEW w \in Workers, pc[w] = "claiming",
         row' = MarkedProcessing(w),
         locked' = [locked EXCEPT ![w] = {}],
         \/ CommitClaim(w)
         \/ CommitClaimUnacknowledged(w)
  PROVE  IInv'
<1> USE DEF IInv
<1>1. /\ \A r \in locked[w] : row'[r].status = "processing"
      /\ \A r \in Ids \ locked[w] : row'[r] = row[r]
      /\ locked[w] \subseteq Ids
  BY MarkedRows DEF TypeOK
<1>2. locked'[w] = {} /\ \A v \in Workers \ {w} : locked'[v] = locked[v]
  BY DEF TypeOK
<1>3. \A v \in Workers : \A r \in locked[w] : ~ InFlight(v, r)
  <2>1. SUFFICES ASSUME NEW v \in Workers, NEW r \in locked[w], InFlight(v, r) PROVE FALSE
    OBVIOUS
  <2>2. row[r].status = "pending" /\ row[r].due BY DEF LocksExclusive
  <2>3. job[v][r].stage \in Marking /\ row[r] = Outcome(v, r)
    BY <2>1, <2>2, <1>1 DEF HeldRows
  <2> QED BY <1>1, <2>2, <2>3, OutcomeWritten
<1>4. \A r \in Ids : ~ InFlight(w, r) BY DEF WorkInBatch
<1>5. \A r \in locked[w] : r \notin stranded BY <1>1 DEF HeldOrStranded, LocksExclusive
<1>6. LocksExclusive'
  <2>1. \A v \in Workers : v # w => locked[v] \cap locked[w] = {} BY DEF LocksExclusive
  <2>2. pc'[w] # "claiming" /\ \A v \in Workers \ {w} : pc'[v] = pc[v]
    BY DEF CommitClaim, CommitClaimUnacknowledged, TypeOK
  <2> QED BY <1>1, <1>2, <2>1, <2>2 DEF LocksExclusive, TypeOK
<1>7. CASE CommitClaim(w)
  <2>1. /\ \A r \in Ids : job'[w][r] = IF r \in locked[w]
              THEN [stage |-> "waiting", retry |-> row[r].retry, tries |-> 0] ELSE Idle
        /\ \A v \in Workers \ {w} : job'[v] = job[v]
        /\ pc'[w] = "batch" /\ \A v \in Workers \ {w} : pc'[v] = pc[v]
        /\ UNCHANGED <<batch, stranded>>
    BY <1>7 DEF CommitClaim, TypeOK
  <2>11. \A r \in Ids : /\ r \in locked[w] => job'[w][r].stage = "waiting"
                        /\ r \notin locked[w] => job'[w][r].stage = "none"
                        /\ job'[w][r].tries = 0
    <3>1. SUFFICES ASSUME NEW r \in Ids
                   PROVE  /\ r \in locked[w] => job'[w][r].stage = "waiting"
                          /\ r \notin locked[w] => job'[w][r].stage = "none"
                          /\ job'[w][r].tries = 0
      OBVIOUS
    <3>2. CASE r \in locked[w]
      <4>1. job'[w][r] = [stage |-> "waiting", retry |-> row[r].retry, tries |-> 0]
        BY <2>1, <3>2
      <4> QED BY <3>2, <4>1
    <3>3. CASE r \notin locked[w]
      <4>1. job'[w][r] = Idle BY <2>1, <3>3
      <4> QED BY <3>3, <4>1 DEF Idle
    <3> QED BY <3>2, <3>3
  <2>2. ASSUME NEW r \in Ids PROVE InFlight(w, r)' <=> r \in locked[w]
    <3>1. CASE r \in locked[w] BY <2>11, <3>1 DEF InFlight
    <3>2. CASE r \notin locked[w]
      <4>1. job'[w][r].stage = "none" BY <2>11, <3>2
      <4>2. ~ InFlight(w, r)' BY <4>1 DEF InFlight, Marking
      <4> QED BY <3>2, <4>2
    <3> QED BY <3>1, <3>2
  <2>3. \A v \in Workers \ {w} : \A r \in Ids : InFlight(v, r)' <=> InFlight(v, r)
    BY <2>1 DEF InFlight
  <2>4. \A v \in Workers \ {w} : \A r \in Ids \ locked[w] : Outcome(v, r)' = Outcome(v, r)
    BY <1>1, <2>1, OutcomeFrame
  <2>5. \A v \in Workers : BatchRows(v)' = BatchRows(v) BY <2>1 DEF BatchRows
  <2>6. WorkInBatch' BY <1>2, <2>1, <2>2, <2>3, <2>5 DEF WorkInBatch
  <2>7. HeldRows'
    <3>1. ASSUME NEW r \in Ids, InFlight(w, r)' PROVE row'[r].status = "processing"
      BY <1>1, <2>2, <3>1
    <3>2. ASSUME NEW v \in Workers \ {w}, NEW r \in Ids, InFlight(v, r)'
          PROVE  \/ row'[r].status = "processing"
                 \/ job'[v][r].stage \in Marking /\ row'[r] = Outcome(v, r)'
      BY <1>1, <1>3, <2>1, <2>3, <2>4, <3>2 DEF HeldRows
    <3> QED BY <3>1, <3>2 DEF HeldRows
  <2>8. TriesLeft' BY <2>1, <2>11, <2>3, SyncQueueAssumption DEF TriesLeft
  <2>9. SoleOwner' BY <1>3, <2>2, <2>3 DEF SoleOwner
  <2>10. HeldOrStranded'
    <3>1. \A r \in locked[w] : InFlight(w, r)' /\ r \notin stranded'
      BY <1>1, <1>5, <2>1, <2>2
    <3>2. \A r \in Ids \ locked[w] : \A v \in Workers : InFlight(v, r)' <=> InFlight(v, r)
      BY <1>4, <2>2, <2>3
    <3> QED BY <1>1, <2>1, <3>1, <3>2 DEF HeldOrStranded
  <2> QED BY <1>6, <2>6, <2>7, <2>8, <2>9, <2>10
<1>8. CASE CommitClaimUnacknowledged(w)
  <2>1. /\ UNCHANGED job
        /\ stranded' = stranded \cup locked[w]
        /\ pc'[w] = "polling" /\ \A v \in Workers \ {w} : pc'[v] = pc[v] /\ batch'[v] = batch[v]
    BY <1>8 DEF CommitClaimUnacknowledged, TypeOK
  <2>2. \A v \in Workers : \A r \in Ids : InFlight(v, r)' <=> InFlight(v, r)
    BY <2>1 DEF InFlight
  <2>3. \A v \in Workers : \A r \in Ids \ locked[w] : Outcome(v, r)' = Outcome(v, r)
    BY <1>1, <2>1, OutcomeFrame
  <2>4. \A v \in Workers \ {w} : BatchRows(v)' = BatchRows(v) BY <2>1 DEF BatchRows
  <2>5. WorkInBatch' BY <1>2, <1>4, <2>1, <2>2, <2>4 DEF WorkInBatch
  <2>6. HeldRows' BY <1>1, <1>3, <2>1, <2>2, <2>3 DEF HeldRows
  <2>7. TriesLeft' BY <2>1, <2>2 DEF TriesLeft
  <2>8. SoleOwner' BY <2>2 DEF SoleOwner
  <2>9. HeldOrStranded' BY <1>1, <1>3, <2>1, <2>2 DEF HeldOrStranded
  <2> QED BY <1>6, <2>5, <2>6, <2>7, <2>8, <2>9
<1> QED BY <1>7, <1>8

-----------------------------------------------------------------------------

LEMMA NextInvariant == IInv /\ [Next]_vars => IInv'
<1> SUFFICES ASSUME IInv, [Next]_vars PROVE IInv'
  OBVIOUS
<1>1. TypeOK' BY TypeStep
<1>2. ASSUME NEW p \in Payloads, NEW t \in Ids, Publish(p, t) PROVE IInv'
  <2>1. PICK r \in Unused :
          row' = [row EXCEPT ![r] = [status |-> "pending", payload |-> p, created |-> t,
                                     retry |-> 0, due |-> TRUE, category |-> "none"]]
    BY <1>2 DEF Publish
  <2> DEFINE x == [status |-> "pending", payload |-> p, created |-> t,
                   retry |-> 0, due |-> TRUE, category |-> "none"]
  <2>2. r \in Ids /\ row[r].status = "absent" BY DEF Unused
  <2>3. x \in Rows BY SyncQueueAssumption DEF Rows, Statuses, Categories
  <2>4. \A w \in Workers : ~ InFlight(w, r)
    BY <2>2, OutcomeWritten DEF IInv, HeldRows, Terminal
  <2>5. UNCHANGED <<pc, locked, batch, job, stranded>> BY <1>2 DEF Publish
  <2> QED BY <1>1, <2>1, <2>2, <2>3, <2>4, <2>5, FreeRowStep
<1>3. ASSUME NEW r \in Ids, BecomeDue(r) PROVE IInv'
  <2>1. /\ row[r].status = "pending" /\ ~ row[r].due
        /\ row' = [row EXCEPT ![r] = [row[r] EXCEPT !.due = TRUE]]
        /\ UNCHANGED <<pc, locked, batch, job, stranded>>
        /\ \A w \in Workers : job[w][r].stage \notin Marking
    BY <1>3 DEF BecomeDue
  <2>2. row[r] \in Rows BY DEF IInv, TypeOK
  <2>3. /\ [row[r] EXCEPT !.due = TRUE] \in Rows
        /\ [row[r] EXCEPT !.due = TRUE].status = "pending"
        /\ [row[r] EXCEPT !.due = TRUE].due
    BY <2>1, <2>2 DEF Rows
  <2>4. \A w \in Workers : ~ InFlight(w, r) BY <2>1 DEF IInv, HeldRows
  <2> QED BY <1>1, <2>1, <2>3, <2>4, FreeRowStep
<1>4. ASSUME NEW w \in Workers, BeginClaim(w) PROVE IInv'
  BY <1>1, <1>4, BeginClaimStep
<1>5. ASSUME NEW w \in Workers, CommitClaim(w) PROVE IInv'
  BY <1>1, <1>5, CommitClaimStep DEF CommitClaim
<1>6. ASSUME NEW w \in Workers, CommitClaimUnacknowledged(w) PROVE IInv'
  BY <1>1, <1>6, CommitClaimStep DEF CommitClaimUnacknowledged
<1>7. ASSUME NEW w \in Workers, AbortClaim(w) PROVE IInv'
  <2>1. /\ UNCHANGED <<row, job, stranded>>
        /\ locked'[w] = {} /\ pc'[w] = "polling" /\ pc[w] = "claiming"
        /\ \A v \in Workers \ {w} : locked'[v] = locked[v] /\ batch'[v] = batch[v] /\ pc'[v] = pc[v]
    BY <1>7 DEF AbortClaim, IInv, TypeOK
  <2>2. \A r \in Ids : ~ InFlight(w, r) BY <2>1 DEF IInv, WorkInBatch
  <2>3. \A r \in Ids : ~ InFlight(w, r)' BY <2>1, <2>2 DEF InFlight
  <2>4. {r \in Ids : InFlight(w, r) /\ row[r].status = "processing"} = {} BY <2>2
  <2> QED BY <1>1, <2>1, <2>3, <2>4, ReleaseStep
<1>8. ASSUME NEW w \in Workers, NEW r \in Ids, NEW st \in {"running"} \cup Marking,
             job[w][r].stage \in {"waiting", "running"}, SetStage(w, r, st),
             UNCHANGED <<row, pc, locked, batch, stranded>>
      PROVE  IInv'
  <2> DEFINE j == [job[w][r] EXCEPT !.stage = st]
  <2>1. job[w][r] \in Jobs BY DEF IInv, TypeOK
  <2>2. j \in Jobs /\ j.stage = st /\ j.tries = job[w][r].tries
    BY <2>1 DEF Jobs, Stages, Marking
  <2>3. InFlight(w, r) BY <1>8 DEF InFlight
  <2>4. job[w][r].tries < DbAttempts BY <2>3 DEF IInv, TriesLeft
  <2>5. row[r].status = "processing" BY <1>8, <2>3 DEF IInv, HeldRows, Marking
  <2>6. SetJob(w, r, j) BY <1>8 DEF SetStage
  <2> HIDE DEF j
  <2> QED BY <1>1, <1>8, <2>2, <2>3, <2>4, <2>5, <2>6, JobStep
<1>9. ASSUME NEW w \in Workers, NEW r \in Ids, Run(w, r) PROVE IInv'
  <2>1. CASE Execute(w, r)
    BY <1>8, <2>1 DEF Execute, MayStart, Marking
  <2>2. ASSUME NEW o \in Marking, Return(w, r, o) PROVE IInv'
    BY <1>8, <2>2 DEF Return
  <2> QED BY <1>9, <2>1, <2>2 DEF Run
<1>10. ASSUME NEW w \in Workers, NEW r \in Ids, MarkApplied(w, r) PROVE IInv'
  <2> DEFINE j == [job[w][r] EXCEPT !.stage = "done"]
  <2>1. job[w][r] \in Jobs /\ job[w][r].stage \in Marking
    BY <1>10 DEF IInv, TypeOK, MarkApplied
  <2>2. j \in Jobs /\ j.stage = "done" BY <2>1 DEF Jobs, Stages
  <2>3. InFlight(w, r) BY <2>1 DEF InFlight
  <2>4. /\ row'[r] = Outcome(w, r) /\ \A q \in Ids \ {r} : row'[q] = row[q]
        /\ SetJob(w, r, j)
        /\ UNCHANGED <<pc, locked, batch, stranded>>
    BY <1>10 DEF MarkApplied, SetStage, IInv, TypeOK
  <2>5. row'[r].status # "processing" BY <2>1, <2>4, OutcomeWritten DEF IInv, Terminal
  <2> HIDE DEF j
  <2> QED BY <1>1, <2>1, <2>2, <2>3, <2>4, <2>5, JobStep
<1>11. ASSUME NEW w \in Workers, NEW r \in Ids, job[w][r].stage \in Marking,
              NextTry(w, r), UNCHANGED <<pc, locked, batch>>,
              \A q \in Ids \ {r} : row'[q] = row[q],
              row'[r] = row[r] \/ row'[r] = Outcome(w, r)
       PROVE  IInv'
  <2>1. PICK j \in Jobs :
           /\ SetJob(w, r, j)
           /\ \/ j.stage = job[w][r].stage /\ j.tries < DbAttempts /\ stranded' = stranded
              \/ /\ j.stage = "done"
                 /\ stranded' = IF row'[r].status = "processing"
                                THEN stranded \cup {r} ELSE stranded
           /\ j.retry = job[w][r].retry
    BY <1>11, NextTryJob DEF IInv
  <2>2. InFlight(w, r) BY <1>11 DEF InFlight
  <2>3. job'[w][r] = j BY <2>1, SetJobStep DEF IInv, TypeOK
  <2>4. row[r].status = "processing" \/ row[r] = Outcome(w, r)
    BY <1>11, <2>2 DEF IInv, HeldRows
  <2>5. CASE j.stage = "done"
    <3>1. stranded' = IF row'[r].status = "processing" THEN stranded \cup {r} ELSE stranded
      BY <1>11, <2>1, <2>5 DEF Marking
    <3> QED BY <1>1, <1>11, <2>1, <2>2, <2>5, <3>1, JobStep
  <2>6. CASE j.stage = job[w][r].stage /\ j.tries < DbAttempts /\ stranded' = stranded
    <3>1. row'[r] = Outcome(w, r) => Outcome(w, r)' = Outcome(w, r)
      <4>1. SUFFICES ASSUME row'[r] = Outcome(w, r) PROVE Outcome(w, r)' = Outcome(w, r)
        OBVIOUS
      <4>2. job'[w][r].stage = job[w][r].stage /\ job'[w][r].retry = job[w][r].retry
        BY <2>1, <2>3, <2>6
      <4> QED BY <1>11, <4>1, <4>2, OutcomeTwice DEF IInv
    <3>2. row'[r].status = "processing" \/ row'[r] = Outcome(w, r)'
      BY <1>11, <2>4, <3>1
    <3> QED BY <1>1, <1>11, <2>1, <2>2, <2>6, <3>2, JobStep
  <2> QED BY <2>1, <2>5, <2>6
<1>12. ASSUME NEW w \in Workers, NEW r \in Ids, Mark(w, r) PROVE IInv'
  <2>1. CASE MarkError(w, r) BY <1>11, <2>1 DEF MarkError
  <2>2. CASE MarkConflict(w, r) BY <1>11, <2>2 DEF MarkConflict
  <2>3. CASE MarkUnacknowledged(w, r)
    <3>1. row'[r] = Outcome(w, r) /\ \A q \in Ids \ {r} : row'[q] = row[q]
      BY <2>3 DEF MarkUnacknowledged, IInv, TypeOK
    <3> QED BY <1>11, <2>3, <3>1 DEF MarkUnacknowledged
  <2> QED BY <1>10, <1>12, <2>1, <2>2, <2>3 DEF Mark
<1>13. \A r \in Ids, w \in Workers : job'[w] = [q \in Ids |-> Idle] => ~ InFlight(w, r)'
  BY DEF InFlight, Idle, Marking
<1>14. ASSUME NEW w \in Workers, FinishBatch(w) PROVE IInv'
  <2>1. /\ UNCHANGED <<row, locked, stranded>>
        /\ job'[w] = [r \in Ids |-> Idle] /\ pc'[w] = "polling" /\ pc[w] = "batch"
        /\ \A v \in Workers \ {w} : job'[v] = job[v] /\ batch'[v] = batch[v] /\ pc'[v] = pc[v]
    BY <1>14 DEF FinishBatch, IInv, TypeOK
  <2>2. locked[w] = {} BY <2>1 DEF IInv, LocksExclusive
  <2>3. \A r \in Ids : ~ InFlight(w, r)
    BY <1>14 DEF FinishBatch, IInv, WorkInBatch, InFlight, Marking
  <2>4. {r \in Ids : InFlight(w, r) /\ row[r].status = "processing"} = {} BY <2>3
  <2> QED BY <1>1, <1>13, <2>1, <2>2, <2>4, ReleaseStep
<1>15. ASSUME NEW w \in Workers, Vanish(w) PROVE IInv'
  <2>1. /\ UNCHANGED row
        /\ stranded' = stranded \cup {r \in Ids : InFlight(w, r) /\ row[r].status = "processing"}
        /\ job'[w] = [r \in Ids |-> Idle] /\ pc'[w] = "down" /\ locked'[w] = {}
        /\ \A v \in Workers \ {w} : /\ locked'[v] = locked[v] /\ job'[v] = job[v]
                                     /\ batch'[v] = batch[v] /\ pc'[v] = pc[v]
    BY <1>15 DEF Vanish, IInv, TypeOK
  <2> QED BY <1>1, <1>13, <2>1, ReleaseStep
<1>16. ASSUME NEW w \in Workers, Lifecycle(w) PROVE IInv'
  <2>1. CASE BeginStop(w) BY <1>1, <2>1, IdleStep DEF BeginStop
  <2>2. CASE Drained(w) BY <1>1, <2>2, IdleStep DEF Drained, IInv, TypeOK
  <2>3. CASE Restart(w) BY <1>1, <2>3, IdleStep DEF Restart, IInv, TypeOK
  <2>4. CASE DrainTimeout(w) \/ Crash(w) BY <1>15, <2>4 DEF DrainTimeout, Crash
  <2> QED BY <1>16, <2>1, <2>2, <2>3, <2>4 DEF Lifecycle
<1>17. CASE UNCHANGED vars BY <1>1, <1>17, IdleStep DEF vars
<1> QED
  BY <1>2, <1>3, <1>4, <1>5, <1>6, <1>7, <1>9, <1>12, <1>14, <1>16, <1>17
  DEF Next, Enqueue, Claim

THEOREM Invariance == Spec => []IInv
<1>1. Init => IInv BY InitInvariant
<1>2. IInv /\ [Next]_vars => IInv' BY NextInvariant
<1> QED BY <1>1, <1>2, PTL DEF Spec

-----------------------------------------------------------------------------
(* The theorems.                                                           *)

\* Every variable keeps its type, for any number of rows, workers, retries
\* and faults (the columns of sync_operations and the worker's loop state).
THEOREM TypeCorrect == Spec => []TypeOK
<1>1. IInv => TypeOK BY DEF IInv
<1> QED BY <1>1, Invariance, PTL

\* However many workers run, no row is ever worked on by two of them: FOR
\* UPDATE SKIP LOCKED and the committed status are enough, given that no row
\* falls due while its outcome is still being written (syncWorker.js:889-992).
THEOREM NoRowHasTwoWorkers == Spec => []SoleOwner
<1>1. IInv => SoleOwner BY DEF IInv
<1> QED BY <1>1, Invariance, PTL

\* A 'processing' row is held by a worker or was stranded by a fault, never
\* both and never neither (syncWorker.js:930, 1403-1548).
THEOREM ProcessingRowsAccounted == Spec => []ProcessingAccounted
<1>1. IInv => ProcessingAccounted BY DEF IInv, HeldOrStranded, ProcessingAccounted
<1> QED BY <1>1, Invariance, PTL

\* No step ever changes a completed or failed row, although the three marking
\* UPDATEs are unconditional and may be repeated (syncWorker.js:1403-1548).
THEOREM OutcomesAreFinal == Spec => TerminalFinal
<1>1. ASSUME IInv, [Next]_vars, NEW r \in Ids, row[r].status \in Terminal
      PROVE  row'[r] = row[r]
  <2> USE DEF IInv
  <2>1. ASSUME NEW p \in Payloads, NEW t \in Ids, Publish(p, t) PROVE row'[r] = row[r]
    BY <1>1, <2>1 DEF Publish, Unused, TypeOK, Terminal
  <2>2. ASSUME NEW q \in Ids, BecomeDue(q) PROVE row'[r] = row[r]
    BY <1>1, <2>2 DEF BecomeDue, TypeOK, Terminal
  <2>3. ASSUME NEW w \in Workers, row' = MarkedProcessing(w) PROVE row'[r] = row[r]
    BY <1>1, <2>3 DEF MarkedProcessing, LocksExclusive, Terminal
  <2>4. ASSUME NEW w \in Workers, Claim(w) PROVE row'[r] = row[r]
    BY <2>3, <2>4 DEF Claim, BeginClaim, CommitClaim, AbortClaim, CommitClaimUnacknowledged
  <2>5. ASSUME NEW w \in Workers, NEW q \in Ids, job[w][q].stage \in Marking,
               row' = [row EXCEPT ![q] = Outcome(w, q)]
        PROVE  row'[r] = row[r]
    <3>1. CASE q # r BY <2>5, <3>1 DEF TypeOK
    <3>2. CASE q = r
      <4>1. InFlight(w, r) BY <2>5, <3>2 DEF InFlight
      <4>2. row[r] = Outcome(w, r) BY <1>1, <4>1 DEF HeldRows, Terminal
      <4> QED BY <2>5, <3>2, <4>2 DEF TypeOK
    <3> QED BY <3>1, <3>2
  <2>6. ASSUME NEW w \in Workers, NEW q \in Ids, Mark(w, q) PROVE row'[r] = row[r]
    BY <2>5, <2>6 DEF Mark, MarkApplied, MarkError, MarkUnacknowledged, MarkConflict
  <2>7. ASSUME NEW w \in Workers, NEW q \in Ids, Run(w, q) PROVE row'[r] = row[r]
    BY <2>7 DEF Run, Execute, Return
  <2>8. ASSUME NEW w \in Workers, FinishBatch(w) \/ Lifecycle(w) PROVE row'[r] = row[r]
    BY <2>8 DEF FinishBatch, Lifecycle, BeginStop, Drained, DrainTimeout, Crash, Restart, Vanish
  <2>9. CASE UNCHANGED vars BY <2>9 DEF vars
  <2> QED BY <1>1, <2>1, <2>2, <2>4, <2>6, <2>7, <2>8, <2>9 DEF Next, Enqueue
<1>2. IInv /\ [Next]_vars => [\A r \in Ids : row[r].status \in Terminal => row'[r] = row[r]]_vars
  BY <1>1
<1> QED BY <1>2, Invariance, PTL DEF Spec, TerminalFinal

-----------------------------------------------------------------------------
(* Attempts.                                                               *)

\* An operation under way was claimed with an attempt left, and its handler
\* has run once since unless it was refused.
AttemptsInv ==
  /\ AttemptsBounded
  /\ \A r \in Ids : row[r].status = "absent" => attempts[r] = 0
  /\ \A w \in Workers : \A r \in Ids :
       InFlight(w, r) =>
         /\ job[w][r].retry < RetryLimit
         /\ job[w][r].stage = "waiting" => attempts[r] = job[w][r].retry
         /\ job[w][r].stage \in {"running", "retrying"} => attempts[r] = job[w][r].retry + 1

LEMMA RetryLimitType == RetryLimit \in Nat \ {0}
BY SyncQueueAssumption DEF RetryLimit

\* A step that moves one job on, without touching attempts: the new job, if
\* still under way, was claimed for the same attempt.
LEMMA AttemptsJobStep ==
  ASSUME IInv, AttemptsInv, NEW w \in Workers, NEW r \in Ids, NEW j \in Jobs,
         InFlight(w, r), SetJob(w, r, j), j.retry = job[w][r].retry, j.stage # "waiting",
         j.stage \in {"running", "retrying"} => job[w][r].stage \in {"running", "retrying"},
         UNCHANGED attempts,
         \A q \in Ids \ {r} : row'[q] = row[q],
         row'[r] = row[r] \/ (job[w][r].stage \in Marking /\ row'[r] = Outcome(w, r))
  PROVE  AttemptsInv'
<1>1. /\ job'[w][r] = j
      /\ \A v \in Workers : \A q \in Ids : v # w \/ q # r => job'[v][q] = job[v][q]
  BY SetJobStep DEF IInv, TypeOK
<1>2. job[w][r] \in Jobs /\ row[r] \in Rows /\ attempts[r] \in Nat BY DEF IInv, TypeOK
<1>3. /\ row'[r].status # "absent"
      /\ row'[r].status = "pending" => attempts[r] = row'[r].retry /\ row'[r].retry < RetryLimit
  <2>1. row[r].status # "absent"
    BY OutcomeWritten DEF IInv, HeldRows, Terminal
  <2>2. CASE row'[r] = row[r] BY <2>1, <2>2 DEF AttemptsInv, AttemptsBounded
  <2>3. CASE job[w][r].stage \in Marking /\ row'[r] = Outcome(w, r)
    <3>1. row'[r].status \in Terminal \cup {"pending"} BY <2>3, OutcomeWritten DEF IInv
    <3>2. CASE job[w][r].stage \in {"completing", "rejecting"}
      <4>1. row'[r].status # "pending" BY <1>2, <2>3, <3>2 DEF Outcome, Rows
      <4> QED BY <3>1, <4>1 DEF Terminal
    <3>3. CASE job[w][r].stage = "retrying"
      <4>1. row'[r] = Retried(r, job[w][r].retry) BY <2>3, <3>3 DEF Outcome
      <4>2. attempts[r] = job[w][r].retry + 1 BY <3>3 DEF AttemptsInv
      <4>3. job[w][r].retry + 1 \in Nat BY <1>2 DEF Jobs
      <4>4. row'[r].status = "pending" => /\ row'[r].retry = job[w][r].retry + 1
                                         /\ ~ (job[w][r].retry + 1 >= RetryLimit)
        BY <1>2, <4>1, <4>3 DEF Retried, Rows
      <4> QED BY <3>1, <4>2, <4>3, <4>4, RetryLimitType DEF Terminal
    <3> QED BY <2>3, <3>2, <3>3 DEF Marking
  <2> QED BY <2>2, <2>3
<1>4. AttemptsBounded' BY <1>3 DEF AttemptsInv, AttemptsBounded, RetryLimit
<1>5. \A q \in Ids : row'[q].status = "absent" => attempts[q] = 0 BY <1>3 DEF AttemptsInv
<1>6. ASSUME NEW v \in Workers, NEW q \in Ids, InFlight(v, q)'
      PROVE  /\ job'[v][q].retry < RetryLimit
             /\ job'[v][q].stage = "waiting" => attempts[q] = job'[v][q].retry
             /\ job'[v][q].stage \in {"running", "retrying"} => attempts[q] = job'[v][q].retry + 1
  <2>1. CASE v = w /\ q = r BY <1>1, <2>1 DEF AttemptsInv
  <2>2. CASE v # w \/ q # r BY <1>1, <1>6, <2>2 DEF AttemptsInv, InFlight
  <2> QED BY <2>1, <2>2
<1> QED BY <1>4, <1>5, <1>6 DEF AttemptsInv, RetryLimit

\* A step that starts no handler, marks nothing and puts no new work under way.
LEMMA AttemptsFrame ==
  ASSUME IInv, AttemptsInv, UNCHANGED <<row, attempts>>,
         \A v \in Workers : \A q \in Ids : InFlight(v, q)' => job'[v][q] = job[v][q]
  PROVE  AttemptsInv'
<1>1. \A v \in Workers : \A q \in Ids : InFlight(v, q)' => InFlight(v, q) BY DEF InFlight
<1> QED BY <1>1 DEF AttemptsInv, AttemptsBounded, RetryLimit

LEMMA AttemptsStep == IInv /\ AttemptsInv /\ [Next]_vars => AttemptsInv'
<1> SUFFICES ASSUME IInv, AttemptsInv, [Next]_vars PROVE AttemptsInv'
  OBVIOUS
<1>1. ASSUME NEW p \in Payloads, NEW t \in Ids, Publish(p, t) PROVE AttemptsInv'
  <2>1. PICK r \in Unused :
          row' = [row EXCEPT ![r] = [status |-> "pending", payload |-> p, created |-> t,
                                     retry |-> 0, due |-> TRUE, category |-> "none"]]
    BY <1>1 DEF Publish
  <2>2. r \in Ids /\ row[r].status = "absent" /\ attempts[r] = 0
    BY DEF Unused, AttemptsInv
  <2>3. /\ row'[r].status = "pending" /\ row'[r].retry = 0
        /\ \A q \in Ids \ {r} : row'[q] = row[q]
    BY <2>1, <2>2 DEF IInv, TypeOK
  <2>4. UNCHANGED <<job, attempts>> BY <1>1 DEF Publish
  <2>5. AttemptsBounded'
    BY <2>2, <2>3, <2>4, RetryLimitType DEF AttemptsInv, AttemptsBounded, RetryLimit
  <2>6. \A q \in Ids : row'[q].status = "absent" => attempts'[q] = 0
    BY <2>2, <2>3, <2>4 DEF AttemptsInv
  <2> QED BY <2>4, <2>5, <2>6 DEF AttemptsInv, InFlight, RetryLimit
<1>2. ASSUME NEW r \in Ids, BecomeDue(r) PROVE AttemptsInv'
  <2>1. row[r] \in Rows /\ row' = [row EXCEPT ![r].due = TRUE] /\ UNCHANGED <<job, attempts>>
    BY <1>2 DEF BecomeDue, IInv, TypeOK
  <2>2. \A q \in Ids : row'[q].status = row[q].status /\ row'[q].retry = row[q].retry
    BY <2>1 DEF IInv, TypeOK, Rows
  <2>3. AttemptsBounded' BY <2>1, <2>2 DEF AttemptsInv, AttemptsBounded, RetryLimit
  <2>4. \A q \in Ids : row'[q].status = "absent" => attempts'[q] = 0
    BY <2>1, <2>2 DEF AttemptsInv
  <2> QED BY <2>1, <2>3, <2>4 DEF AttemptsInv, InFlight, RetryLimit
<1>3. ASSUME NEW w \in Workers, row' = MarkedProcessing(w), UNCHANGED attempts,
             \A v \in Workers : \A q \in Ids :
               InFlight(v, q)' => \/ job'[v][q] = job[v][q]
                                 \/ /\ q \in locked[w]
                                    /\ job'[v][q].stage = "waiting"
                                    /\ job'[v][q].retry = row[q].retry
      PROVE  AttemptsInv'
  <2>1. /\ \A r \in Ids : r \in locked[w] => row'[r].status = "processing"
        /\ \A r \in Ids : r \notin locked[w] => row'[r] = row[r]
    BY <1>3, MarkedRows DEF IInv
  <2>2. \A r \in locked[w] : row[r].status = "pending" BY DEF IInv, LocksExclusive
  <2>3. AttemptsBounded' BY <1>3, <2>1 DEF AttemptsInv, AttemptsBounded, RetryLimit
  <2>4. \A q \in Ids : row'[q].status = "absent" => attempts'[q] = 0
    BY <1>3, <2>1 DEF AttemptsInv
  <2>5. ASSUME NEW v \in Workers, NEW q \in Ids, InFlight(v, q)'
        PROVE  /\ job'[v][q].retry < RetryLimit
               /\ job'[v][q].stage = "waiting" => attempts[q] = job'[v][q].retry
               /\ job'[v][q].stage \in {"running", "retrying"}
                    => attempts[q] = job'[v][q].retry + 1
    <3>1. CASE job'[v][q] = job[v][q] BY <2>5, <3>1 DEF AttemptsInv, InFlight
    <3>2. CASE /\ q \in locked[w]
               /\ job'[v][q].stage = "waiting" /\ job'[v][q].retry = row[q].retry
      BY <2>2, <3>2 DEF AttemptsInv, AttemptsBounded
    <3> QED BY <1>3, <2>5, <3>1, <3>2
  <2> QED BY <1>3, <2>3, <2>4, <2>5 DEF AttemptsInv, RetryLimit
<1>4. ASSUME NEW w \in Workers, Claim(w) PROVE AttemptsInv'
  <2>1. CASE BeginClaim(w) BY <2>1, AttemptsFrame DEF BeginClaim
  <2>2. CASE AbortClaim(w) BY <2>2, AttemptsFrame DEF AbortClaim
  <2>3. CASE CommitClaimUnacknowledged(w) BY <1>3, <2>3 DEF CommitClaimUnacknowledged
  <2>4. CASE CommitClaim(w)
    <3>1. ASSUME NEW v \in Workers, NEW q \in Ids, InFlight(v, q)'
          PROVE  \/ job'[v][q] = job[v][q]
                 \/ /\ q \in locked[w]
                    /\ job'[v][q].stage = "waiting" /\ job'[v][q].retry = row[q].retry
      <4>1. CASE v # w BY <2>4, <4>1 DEF CommitClaim, IInv, TypeOK
      <4>2. CASE v = w /\ q \in locked[w]
        <5>1. job'[v][q] = [stage |-> "waiting", retry |-> row[q].retry, tries |-> 0]
          BY <2>4, <4>2 DEF CommitClaim, IInv, TypeOK
        <5> QED BY <4>2, <5>1
      <4>3. CASE v = w /\ q \notin locked[w]
        <5>1. job'[v][q] = Idle BY <2>4, <4>3 DEF CommitClaim, IInv, TypeOK
        <5> QED BY <3>1, <5>1 DEF InFlight, Idle, Marking
      <4> QED BY <4>1, <4>2, <4>3
    <3> QED BY <1>3, <2>4, <3>1 DEF CommitClaim
  <2> QED BY <1>4, <2>1, <2>2, <2>3, <2>4 DEF Claim
<1>5. ASSUME NEW w \in Workers, NEW r \in Ids, Execute(w, r) PROVE AttemptsInv'
  <2> DEFINE Started(st) == [job[w][r] EXCEPT !.stage = st]
  <2>1. /\ job[w][r] \in Jobs /\ attempts[r] \in Nat /\ job[w][r].stage = "waiting"
        /\ UNCHANGED row
    BY <1>5 DEF IInv, TypeOK, Execute, MayStart
  <2>2. InFlight(w, r) BY <2>1 DEF InFlight
  <2>3. \A st \in {"running", "rejecting"} : /\ Started(st) \in Jobs
                                             /\ Started(st).stage = st
                                             /\ Started(st).retry = job[w][r].retry
    BY <2>1 DEF Jobs, Stages
  <2>4. CASE SetStage(w, r, "rejecting") /\ UNCHANGED attempts
    BY <2>1, <2>2, <2>3, <2>4, AttemptsJobStep DEF SetStage
  <2>5. CASE SetStage(w, r, "running") /\ attempts' = [attempts EXCEPT ![r] = @ + 1]
    <3>1. /\ job'[w][r] = Started("running")
          /\ \A v \in Workers : \A q \in Ids : v # w \/ q # r => job'[v][q] = job[v][q]
      BY <2>3, <2>5, SetJobStep DEF SetStage, IInv, TypeOK
    <3>2. attempts'[r] = attempts[r] + 1 /\ \A q \in Ids \ {r} : attempts'[q] = attempts[q]
      BY <2>5 DEF IInv, TypeOK
    <3>3. attempts[r] = job[w][r].retry /\ job[w][r].retry < RetryLimit
      BY <2>1, <2>2 DEF AttemptsInv
    <3>4. row[r].status = "processing" BY <2>1, <2>2 DEF IInv, HeldRows, Marking
    <3>5. AttemptsBounded'
      BY <2>1, <3>2, <3>3, <3>4, RetryLimitType DEF AttemptsInv, AttemptsBounded, RetryLimit
    <3>6. \A q \in Ids : row'[q].status = "absent" => attempts'[q] = 0
      BY <2>1, <3>2, <3>4 DEF AttemptsInv
    <3>7. ASSUME NEW v \in Workers, NEW q \in Ids, InFlight(v, q)'
          PROVE  /\ job'[v][q].retry < RetryLimit
                 /\ job'[v][q].stage = "waiting" => attempts'[q] = job'[v][q].retry
                 /\ job'[v][q].stage \in {"running", "retrying"}
                      => attempts'[q] = job'[v][q].retry + 1
      <4>1. CASE v = w /\ q = r BY <2>3, <3>1, <3>2, <3>3, <4>1
      <4>2. CASE q # r BY <3>1, <3>2, <3>7, <4>2 DEF AttemptsInv, InFlight
      <4>3. CASE v # w /\ q = r
        <5>1. InFlight(v, r) BY <3>1, <3>7, <4>3 DEF InFlight
        <5> QED BY <2>2, <4>3, <5>1 DEF IInv, SoleOwner
      <4> QED BY <4>1, <4>2, <4>3
    <3> QED BY <3>5, <3>6, <3>7 DEF AttemptsInv, RetryLimit
  <2> QED BY <1>5, <2>4, <2>5 DEF Execute
<1>6. ASSUME NEW w \in Workers, NEW r \in Ids, NEW o \in Marking, Return(w, r, o)
      PROVE  AttemptsInv'
  <2> DEFINE j == [job[w][r] EXCEPT !.stage = o]
  <2>1. job[w][r] \in Jobs /\ job[w][r].stage = "running" BY <1>6 DEF IInv, TypeOK, Return
  <2>2. j \in Jobs /\ j.stage = o /\ j.retry = job[w][r].retry
    BY <2>1 DEF Jobs, Stages, Marking
  <2>3. InFlight(w, r) /\ SetJob(w, r, j) /\ UNCHANGED <<attempts, row>>
    BY <1>6, <2>1 DEF InFlight, Return, SetStage
  <2> HIDE DEF j
  <2> QED BY <2>1, <2>2, <2>3, AttemptsJobStep DEF Marking
<1>7. ASSUME NEW w \in Workers, NEW r \in Ids, Mark(w, r) PROVE AttemptsInv'
  <2>1. /\ job[w][r].stage \in Marking /\ job[w][r] \in Jobs /\ UNCHANGED attempts
        /\ \A q \in Ids \ {r} : row'[q] = row[q]
        /\ row'[r] = row[r] \/ row'[r] = Outcome(w, r)
    BY <1>7 DEF Mark, MarkApplied, MarkError, MarkUnacknowledged, MarkConflict, IInv, TypeOK
  <2>2. InFlight(w, r) BY <2>1 DEF InFlight
  <2>3. CASE MarkApplied(w, r)
    <3> DEFINE j == [job[w][r] EXCEPT !.stage = "done"]
    <3>1. j \in Jobs /\ j.stage = "done" /\ j.retry = job[w][r].retry
      BY <2>1 DEF Jobs, Stages
    <3>2. SetJob(w, r, j) BY <2>3 DEF MarkApplied, SetStage
    <3> HIDE DEF j
    <3> QED BY <2>1, <2>2, <3>1, <3>2, AttemptsJobStep
  <2>4. CASE NextTry(w, r)
    <3>1. PICK j \in Jobs : /\ SetJob(w, r, j)
                            /\ j.stage = job[w][r].stage \/ j.stage = "done"
                            /\ j.retry = job[w][r].retry
      BY <2>1, <2>4, NextTryJob DEF IInv
    <3> QED BY <2>1, <2>2, <3>1, AttemptsJobStep DEF Marking
  <2> QED BY <1>7, <2>3, <2>4 DEF Mark, MarkError, MarkUnacknowledged, MarkConflict
<1>8. ASSUME NEW w \in Workers, FinishBatch(w) \/ Vanish(w) PROVE AttemptsInv'
  <2>1. /\ UNCHANGED <<row, attempts>>
        /\ job'[w] = [q \in Ids |-> Idle] /\ \A v \in Workers \ {w} : job'[v] = job[v]
    BY <1>8 DEF FinishBatch, Vanish, IInv, TypeOK
  <2>2. \A q \in Ids : ~ InFlight(w, q)' BY <2>1 DEF InFlight, Idle, Marking
  <2> QED BY <2>1, <2>2, AttemptsFrame
<1>9. ASSUME NEW w \in Workers, Lifecycle(w) PROVE AttemptsInv'
  <2>1. CASE BeginStop(w) \/ Drained(w) \/ Restart(w)
    BY <2>1, AttemptsFrame DEF BeginStop, Drained, Restart
  <2> QED BY <1>8, <1>9, <2>1 DEF Lifecycle, DrainTimeout, Crash
<1>10. CASE UNCHANGED vars BY <1>10, AttemptsFrame DEF vars
<1> QED
  BY <1>1, <1>2, <1>4, <1>5, <1>6, <1>7, <1>8, <1>9, <1>10 DEF Next, Enqueue, Run

\* A handler is started at most min(max_retries, 48) times for a row, whatever
\* crashes, lost replies and give-ups happen on the way
\* (syncWorker.js:1486-1521).
THEOREM AttemptsAreBounded == Spec => []AttemptsBounded
<1>1. Init => AttemptsInv
  <2> SUFFICES ASSUME Init PROVE AttemptsInv OBVIOUS
  <2>1. \A w \in Workers : \A r \in Ids : ~ InFlight(w, r)
    BY DEF Init, InFlight, Idle, Marking
  <2> QED BY <2>1, RetryLimitType DEF Init, AttemptsInv, AttemptsBounded, Absent
<1>2. IInv /\ AttemptsInv /\ [Next]_vars => AttemptsInv' BY AttemptsStep
<1>3. AttemptsInv => AttemptsBounded BY DEF AttemptsInv
<1> QED BY <1>1, <1>2, <1>3, Invariance, PTL DEF Spec

-----------------------------------------------------------------------------
(* Lanes.                                                                  *)

\* What a marking function writes leaves the operation of the row alone.
LEMMA OutcomeKeepsPayload ==
  ASSUME TypeOK, NEW w \in Workers, NEW r \in Ids, job[w][r].stage \in Marking
  PROVE  Outcome(w, r).payload = row[r].payload
<1>1. row[r] \in Rows BY DEF TypeOK
<1>2. CASE job[w][r].stage = "completing" BY <1>1, <1>2 DEF Outcome, Rows
<1>3. CASE job[w][r].stage = "rejecting" BY <1>1, <1>3 DEF Outcome, Rows
<1>4. CASE job[w][r].stage = "retrying" BY <1>1, <1>4 DEF Outcome, Retried, Rows
<1> QED BY <1>2, <1>3, <1>4 DEF Marking

\* A row is never deleted and its operation never rewritten.
LEMMA RowsKeepPayload ==
  ASSUME IInv, [Next]_vars, NEW r \in Ids, row[r].status # "absent"
  PROVE  row'[r].status # "absent" /\ row'[r].payload = row[r].payload
<1> DEFINE Kept == row'[r].status # "absent" /\ row'[r].payload = row[r].payload
<1> USE DEF IInv
<1>1. CASE row' = row BY <1>1
<1>2. ASSUME NEW p \in Payloads, NEW t \in Ids, Publish(p, t) PROVE Kept
  BY <1>2 DEF Publish, Unused, TypeOK
<1>3. ASSUME NEW q \in Ids, BecomeDue(q) PROVE Kept
  BY <1>3 DEF BecomeDue, TypeOK, Rows
<1>4. ASSUME NEW w \in Workers, row' = MarkedProcessing(w) PROVE Kept
  BY <1>4, MarkedRows
<1>5. ASSUME NEW w \in Workers, Claim(w) PROVE Kept
  BY <1>1, <1>4, <1>5 DEF Claim, BeginClaim, CommitClaim, AbortClaim, CommitClaimUnacknowledged
<1>6. ASSUME NEW w \in Workers, NEW q \in Ids, job[w][q].stage \in Marking,
             row' = [row EXCEPT ![q] = Outcome(w, q)]
      PROVE  Kept
  BY ZenonT(40), <1>6, OutcomeWritten, OutcomeKeepsPayload DEF TypeOK, Terminal
<1>7. ASSUME NEW w \in Workers, NEW q \in Ids, Mark(w, q) PROVE Kept
  BY <1>1, <1>6, <1>7 DEF Mark, MarkApplied, MarkError, MarkUnacknowledged, MarkConflict
<1>8. ASSUME NEW w \in Workers, NEW q \in Ids, Run(w, q) PROVE Kept
  BY <1>1, <1>8 DEF Run, Execute, Return
<1>9. ASSUME NEW w \in Workers, FinishBatch(w) \/ Lifecycle(w) PROVE Kept
  BY <1>1, <1>9 DEF FinishBatch, Lifecycle, BeginStop, Drained, DrainTimeout, Crash, Restart, Vanish
<1>10. CASE UNCHANGED vars BY <1>1, <1>10 DEF vars
<1> QED BY <1>2, <1>3, <1>5, <1>7, <1>8, <1>9, <1>10 DEF Next, Enqueue

\* LanesSequential for one worker.
LaneInOrder(w) ==
  \A i, j \in DOMAIN batch[w] :
    /\ i < j
    /\ EntityKey(batch[w][i]) = EntityKey(batch[w][j])
    /\ job[w][batch[w][j]].stage \notin {"none", "waiting"}
    => job[w][batch[w][i]].stage = "done"

\* A batch lists each of its rows once, the rows exist, and no job is left over
\* from an earlier batch.
BatchSound(w) ==
  /\ \A i, j \in DOMAIN batch[w] : i # j => batch[w][i] # batch[w][j]
  /\ \A r \in BatchRows(w) : row[r].status # "absent"
  /\ pc[w] # "batch" => \A r \in Ids : job[w][r].stage = "none"

LanesInv == \A w \in Workers : LaneInOrder(w) /\ BatchSound(w)

\* In a batch without repetitions a row has one position.
LEMMA PositionOf ==
  ASSUME NEW w \in Workers, BatchSound(w), NEW i \in DOMAIN batch[w]
  PROVE  Position(w, batch[w][i]) = i
<1>1. \E k \in DOMAIN batch[w] : batch[w][k] = batch[w][i] OBVIOUS
<1>2. /\ Position(w, batch[w][i]) \in DOMAIN batch[w]
      /\ batch[w][Position(w, batch[w][i])] = batch[w][i]
  BY <1>1 DEF Position
<1> QED BY <1>2 DEF BatchSound

\* A fetch names a row once.
LEMMA FetchIsInjective ==
  ASSUME NEW C \in SUBSET Ids, NEW s \in Fetches(C)
  PROVE  \A i, j \in DOMAIN s : i # j => s[i] # s[j]
<1> DEFINE k == IF Cardinality(C) < BatchSize THEN Cardinality(C) ELSE BatchSize
<1>1. IsFiniteSet(C) BY SyncQueueAssumption, FS_Subset
<1>2. k \in Nat BY <1>1, FS_CardinalityType, SyncQueueAssumption
<1>3. s \in [1..k -> C] /\ \A i, j \in 1..k : i < j => s[i] # s[j] BY DEF Fetches
<1>4. \A i, j \in 1..k : i # j => s[i] # s[j]
  <2> HIDE DEF k
  <2> QED BY <1>2, <1>3
<1> QED BY <1>3, <1>4

\* A worker whose batch and jobs the step leaves alone, or that is left without
\* a batch.
LEMMA LaneFrame ==
  ASSUME IInv, LanesInv, [Next]_vars, NEW w \in Workers, job'[w] = job[w] \/ BatchRows(w)' = {},
         batch'[w] = batch[w] \/ BatchRows(w)' = {}
  PROVE  LaneInOrder(w)'
<1>1. CASE BatchRows(w)' = {} BY <1>1 DEF LaneInOrder, BatchRows
<1>2. CASE job'[w] = job[w] /\ batch'[w] = batch[w]
  <2>1. \A i \in DOMAIN batch[w] : batch[w][i] \in Ids /\ row[batch[w][i]].status # "absent"
    BY DEF LanesInv, BatchSound, BatchRows, IInv, TypeOK
  <2>2. \A i \in DOMAIN batch[w] : EntityKey(batch[w][i])' = EntityKey(batch[w][i])
    BY <1>2, <2>1, RowsKeepPayload DEF EntityKey
  <2> QED BY <1>2, <2>2 DEF LanesInv, LaneInOrder
<1> QED BY <1>1, <1>2

\* A step that moves one job of a batch on keeps the order of its lane, if the
\* job had been started before or everything earlier in its lane is done.
LEMMA LaneJobStep ==
  ASSUME IInv, LanesInv, [Next]_vars, NEW w \in Workers, NEW r \in Ids, NEW j \in Jobs,
         InFlight(w, r), SetJob(w, r, j), UNCHANGED <<pc, batch>>,
         \/ job[w][r].stage # "waiting"
         \/ \A k, m \in DOMAIN batch[w] :
              k < m /\ EntityKey(batch[w][k]) = EntityKey(batch[w][m]) /\ batch[w][m] = r
                => job[w][batch[w][k]].stage = "done"
  PROVE  LanesInv'
<1>1. /\ job'[w][r] = j
      /\ \A v \in Workers : \A q \in Ids : v # w \/ q # r => job'[v][q] = job[v][q]
      /\ \A v \in Workers \ {w} : job'[v] = job[v]
  BY SetJobStep DEF IInv, TypeOK, SetJob
<1>2. ASSUME NEW v \in Workers PROVE BatchSound(v)'
  <2>1. BatchRows(v)' = BatchRows(v) /\ BatchRows(v) \subseteq Ids
    BY DEF BatchRows, IInv, TypeOK
  <2>2. \A q \in BatchRows(v)' : row'[q].status # "absent"
    BY <2>1, RowsKeepPayload DEF LanesInv, BatchSound
  <2>3. pc'[v] # "batch" => \A q \in Ids : job'[v][q].stage = "none"
    BY <1>1 DEF LanesInv, BatchSound, IInv, WorkInBatch
  <2> QED BY <2>2, <2>3 DEF LanesInv, BatchSound
<1>3. ASSUME NEW v \in Workers \ {w} PROVE LaneInOrder(v)'
  BY <1>1, LaneFrame
<1>4. LaneInOrder(w)'
  <2>1. \A k \in DOMAIN batch[w] : batch[w][k] \in Ids /\ row[batch[w][k]].status # "absent"
    BY DEF LanesInv, BatchSound, BatchRows, IInv, TypeOK
  <2>2. \A k \in DOMAIN batch[w] : EntityKey(batch[w][k])' = EntityKey(batch[w][k])
    BY <2>1, RowsKeepPayload DEF EntityKey
  <2>3. job[w][r].stage \notin {"none", "done"} BY DEF InFlight, Marking
  <2>4. SUFFICES ASSUME NEW k \in DOMAIN batch[w], NEW m \in DOMAIN batch[w], k < m,
                        EntityKey(batch[w][k]) = EntityKey(batch[w][m]),
                        job'[w][batch[w][m]].stage \notin {"none", "waiting"}
                 PROVE  job'[w][batch[w][k]].stage = "done"
    BY <2>2 DEF LaneInOrder
  <2>5. batch[w][k] # batch[w][m] BY <2>4 DEF LanesInv, BatchSound, IInv, TypeOK
  <2>6. job[w][batch[w][k]].stage = "done"
    <3>1. CASE batch[w][m] = r BY <2>3, <2>4, <3>1 DEF LanesInv, LaneInOrder
    <3>2. CASE batch[w][m] # r BY <1>1, <2>1, <2>4, <3>2 DEF LanesInv, LaneInOrder
    <3> QED BY <3>1, <3>2
  <2>7. batch[w][k] # r BY <2>3, <2>6
  <2> QED BY <1>1, <2>1, <2>6, <2>7
<1> QED BY <1>2, <1>3, <1>4 DEF LanesInv

\* A step that gives a worker another batch, or none, and leaves the others
\* alone: the new batch lists rows once, and is not being worked on.
LEMMA LaneBatchStep ==
  ASSUME IInv, LanesInv, [Next]_vars, NEW w \in Workers,
         \A v \in Workers \ {w} : job'[v] = job[v] /\ batch'[v] = batch[v] /\ pc'[v] = pc[v],
         \A k, m \in DOMAIN batch'[w] : k # m => batch'[w][k] # batch'[w][m],
         BatchRows(w)' \subseteq {r \in Ids : row[r].status # "absent"},
         \/ \A r \in Ids : job'[w][r].stage = "none"
         \/ pc'[w] = "batch" /\ \A r \in Ids : job'[w][r].stage \in {"none", "waiting"}
  PROVE  LanesInv'
<1>1. ASSUME NEW v \in Workers \ {w} PROVE LaneInOrder(v)' /\ BatchSound(v)'
  <2>1. BatchRows(v)' = BatchRows(v) /\ BatchRows(v) \subseteq Ids
    BY DEF BatchRows, IInv, TypeOK
  <2>2. \A q \in BatchRows(v)' : row'[q].status # "absent"
    BY <2>1, RowsKeepPayload DEF LanesInv, BatchSound
  <2> QED BY <2>2, LaneFrame DEF LanesInv, BatchSound
<1>2. BatchSound(w)'
  <2>1. \A q \in BatchRows(w)' : row'[q].status # "absent" BY RowsKeepPayload
  <2> QED BY <2>1 DEF BatchSound
<1>3. LaneInOrder(w)'
  <2>1. \A k \in DOMAIN batch'[w] : batch'[w][k] \in Ids BY DEF BatchRows
  <2>2. \A k \in DOMAIN batch'[w] : job'[w][batch'[w][k]].stage \in {"none", "waiting"} BY <2>1
  <2> QED BY <2>2 DEF LaneInOrder
<1> QED BY <1>1, <1>2, <1>3 DEF LanesInv

LEMMA LanesStep == IInv /\ LanesInv /\ [Next]_vars => LanesInv'
<1> SUFFICES ASSUME IInv, LanesInv, [Next]_vars PROVE LanesInv'
  OBVIOUS
<1> USE DEF IInv
\* No job and no batch moves.
<1>1. ASSUME UNCHANGED <<job, batch>>, \A w \in Workers : pc[w] = "batch" => pc'[w] = "batch"
      PROVE  LanesInv'
  <2>1. ASSUME NEW w \in Workers PROVE LaneInOrder(w)' /\ BatchSound(w)'
    <3>1. BatchRows(w)' = BatchRows(w) /\ BatchRows(w) \subseteq Ids
      BY <1>1 DEF BatchRows, TypeOK
    <3>2. \A q \in BatchRows(w)' : row'[q].status # "absent"
      BY <3>1, RowsKeepPayload DEF LanesInv, BatchSound
    <3> QED BY <1>1, <3>2, LaneFrame DEF LanesInv, BatchSound
  <2> QED BY <2>1 DEF LanesInv
<1>2. ASSUME NEW w \in Workers, BeginClaim(w) PROVE LanesInv'
  <2>1. Claimable(w) \in SUBSET Ids /\ \A r \in Claimable(w) : row[r].status # "absent"
    BY DEF Claimable
  <2>2. PICK s \in Fetches(Claimable(w)) : batch' = [batch EXCEPT ![w] = s]
    BY <1>2 DEF BeginClaim
  <2>3. batch'[w] = s /\ \A v \in Workers \ {w} : batch'[v] = batch[v] BY <2>2 DEF TypeOK
  <2>4. {s[i] : i \in DOMAIN s} \subseteq Claimable(w) BY <2>1, <2>2, FetchIsSeq
  <2>5. BatchRows(w)' \subseteq {r \in Ids : row[r].status # "absent"}
    BY <2>1, <2>3, <2>4 DEF BatchRows
  <2>6. \A k, m \in DOMAIN batch'[w] : k # m => batch'[w][k] # batch'[w][m]
    BY <2>1, <2>2, <2>3, FetchIsInjective
  <2>7. \A r \in Ids : job'[w][r].stage = "none"
    BY <1>2 DEF BeginClaim, LanesInv, BatchSound
  <2>8. \A v \in Workers \ {w} : job'[v] = job[v] /\ pc'[v] = pc[v]
    BY <1>2 DEF BeginClaim, TypeOK
  <2> QED BY <2>3, <2>5, <2>6, <2>7, <2>8, LaneBatchStep
<1>3. ASSUME NEW w \in Workers, CommitClaim(w) PROVE LanesInv'
  <2>1. /\ batch' = batch /\ pc'[w] = "batch"
        /\ \A v \in Workers \ {w} : job'[v] = job[v] /\ pc'[v] = pc[v]
        /\ \A r \in Ids : job'[w][r] = IF r \in locked[w]
              THEN [stage |-> "waiting", retry |-> row[r].retry, tries |-> 0] ELSE Idle
    BY <1>3 DEF CommitClaim, TypeOK
  <2>2. ASSUME NEW r \in Ids PROVE job'[w][r].stage \in {"none", "waiting"}
    <3>1. CASE r \in locked[w]
      <4>1. job'[w][r] = [stage |-> "waiting", retry |-> row[r].retry, tries |-> 0]
        BY <2>1, <3>1
      <4> QED BY <4>1
    <3>2. CASE r \notin locked[w]
      <4>1. job'[w][r] = Idle BY <2>1, <3>2
      <4> QED BY <4>1 DEF Idle
    <3> QED BY <3>1, <3>2
  <2>3. BatchRows(w)' \subseteq {r \in Ids : row[r].status # "absent"}
    BY <2>1 DEF BatchRows, LanesInv, BatchSound, TypeOK
  <2>4. \A k, m \in DOMAIN batch'[w] : k # m => batch'[w][k] # batch'[w][m]
    BY <2>1 DEF LanesInv, BatchSound
  <2> QED BY <2>1, <2>2, <2>3, <2>4, LaneBatchStep
\* A batch is dropped.
<1>4. ASSUME NEW w \in Workers, batch' = [batch EXCEPT ![w] = <<>>],
             \A v \in Workers \ {w} : job'[v] = job[v] /\ pc'[v] = pc[v],
             \A r \in Ids : job'[w][r].stage = "none"
      PROVE  LanesInv'
  <2>1. batch'[w] = <<>> /\ \A v \in Workers \ {w} : batch'[v] = batch[v]
    BY <1>4 DEF TypeOK
  <2>2. BatchRows(w)' = {} BY <2>1 DEF BatchRows
  <2> QED BY <1>4, <2>1, <2>2, LaneBatchStep
<1>5. ASSUME NEW w \in Workers, AbortClaim(w) \/ CommitClaimUnacknowledged(w) PROVE LanesInv'
  <2>1. /\ batch' = [batch EXCEPT ![w] = <<>>] /\ job' = job /\ pc[w] = "claiming"
        /\ \A v \in Workers \ {w} : pc'[v] = pc[v]
    BY <1>5 DEF AbortClaim, CommitClaimUnacknowledged, TypeOK
  <2> QED BY <1>4, <2>1 DEF LanesInv, BatchSound
<1>6. ASSUME NEW w \in Workers, FinishBatch(w) \/ Vanish(w) PROVE LanesInv'
  <2>1. /\ batch' = [batch EXCEPT ![w] = <<>>] /\ \A r \in Ids : job'[w][r] = Idle
        /\ \A v \in Workers \ {w} : job'[v] = job[v] /\ pc'[v] = pc[v]
    BY <1>6 DEF FinishBatch, Vanish, TypeOK
  <2>2. \A r \in Ids : job'[w][r].stage = "none"
    <3>1. Idle.stage = "none" BY DEF Idle
    <3> QED BY <2>1, <3>1
  <2> QED BY <1>4, <2>1, <2>2
<1>7. ASSUME NEW w \in Workers, Lifecycle(w) PROVE LanesInv'
  <2>1. CASE BeginStop(w) BY <1>1, <2>1 DEF BeginStop
  <2>2. CASE Drained(w) BY <1>1, <2>2 DEF Drained, TypeOK
  <2>3. CASE Restart(w) BY <1>1, <2>3 DEF Restart, TypeOK
  <2> QED BY <1>6, <1>7, <2>1, <2>2, <2>3 DEF Lifecycle, DrainTimeout, Crash
<1>8. ASSUME NEW w \in Workers, NEW r \in Ids, Execute(w, r) PROVE LanesInv'
  <2>1. PICK st \in {"running", "rejecting"} : SetStage(w, r, st)
    BY <1>8 DEF Execute
  <2> DEFINE j == [job[w][r] EXCEPT !.stage = st]
  <2>2. j \in Jobs
    <3>1. job[w][r] \in Jobs BY DEF TypeOK
    <3> QED BY <3>1 DEF Jobs, Stages
  <2>3. InFlight(w, r) BY <1>8 DEF Execute, MayStart, InFlight
  <2>4. ASSUME NEW k \in DOMAIN batch[w], NEW m \in DOMAIN batch[w], k < m,
               EntityKey(batch[w][k]) = EntityKey(batch[w][m]), batch[w][m] = r
        PROVE  job[w][batch[w][k]].stage = "done"
    <3>1. Position(w, batch[w][k]) = k /\ Position(w, r) = m
      BY <2>4, PositionOf DEF LanesInv
    <3>2. batch[w][k] \in Lane(w, r) BY <2>4 DEF Lane, BatchRows
    <3> QED BY <1>8, <2>4, <3>1, <3>2 DEF Execute, MayStart
  <2>5. SetJob(w, r, j) /\ UNCHANGED <<pc, batch>> BY <1>8, <2>1 DEF Execute, SetStage
  <2> HIDE DEF j
  <2> QED BY <2>2, <2>3, <2>4, <2>5, LaneJobStep
\* An operation that has been started moves on.
<1>9. ASSUME NEW w \in Workers, NEW r \in Ids, NEW j \in Jobs, SetJob(w, r, j),
             job[w][r].stage \in {"running"} \cup Marking, UNCHANGED <<pc, batch>>
      PROVE  LanesInv'
  BY <1>9, LaneJobStep DEF InFlight, Marking
<1>10. ASSUME NEW w \in Workers, NEW r \in Ids, NEW st \in Stages, SetStage(w, r, st),
              job[w][r].stage \in {"running"} \cup Marking, UNCHANGED <<pc, batch>>
       PROVE  LanesInv'
  <2>1. [job[w][r] EXCEPT !.stage = st] \in Jobs
    <3>1. job[w][r] \in Jobs BY DEF TypeOK
    <3> QED BY <3>1 DEF Jobs
  <2> QED BY <1>9, <1>10, <2>1 DEF SetStage
<1>11. ASSUME NEW w \in Workers, NEW r \in Ids, NEW o \in Marking, Return(w, r, o) PROVE LanesInv'
  BY <1>10, <1>11 DEF Return, Marking, Stages
<1>12. ASSUME NEW w \in Workers, NEW r \in Ids, MarkApplied(w, r) PROVE LanesInv'
  BY <1>10, <1>12 DEF MarkApplied, Stages
<1>13. ASSUME NEW w \in Workers, NEW r \in Ids,
              MarkError(w, r) \/ MarkUnacknowledged(w, r) \/ MarkConflict(w, r)
       PROVE  LanesInv'
  <2>1. job[w][r].stage \in Marking /\ NextTry(w, r) /\ UNCHANGED <<pc, batch>>
    BY <1>13 DEF MarkError, MarkUnacknowledged, MarkConflict
  <2>2. PICK j \in Jobs : SetJob(w, r, j) BY <2>1, NextTryJob
  <2> QED BY <1>9, <2>1, <2>2
<1>14. ASSUME NEW p \in Payloads, NEW t \in Ids, Publish(p, t) PROVE LanesInv'
  BY <1>1, <1>14 DEF Publish
<1>15. ASSUME NEW r \in Ids, BecomeDue(r) PROVE LanesInv'
  BY <1>1, <1>15 DEF BecomeDue
<1>16. CASE UNCHANGED vars BY <1>1, <1>16 DEF vars
<1> QED
  BY <1>2, <1>3, <1>5, <1>6, <1>7, <1>8, <1>11, <1>12, <1>13, <1>14, <1>15, <1>16
  DEF Next, Enqueue, Claim, Run, Mark

\* A worker runs the operations on one (user, group) pair one after the other,
\* in the order it fetched them, whatever the batch size, the concurrency and
\* the other workers (entityGrouping.js:8-15, syncWorker.js:972-983).
THEOREM LanesRunInOrder == Spec => []LanesSequential
<1>1. Init => LanesInv
  BY DEF Init, LanesInv, LaneInOrder, BatchSound, BatchRows, Idle
<1>2. IInv /\ LanesInv /\ [Next]_vars => LanesInv' BY LanesStep
<1>3. LanesInv => LanesSequential BY DEF LanesInv, LaneInOrder, LanesSequential
<1> QED BY <1>1, <1>2, <1>3, Invariance, PTL DEF Spec

-----------------------------------------------------------------------------
(* Stranded reconciles.                                                    *)

\* While nothing has failed, no worker has been told to stop, and each stranded
\* row is a reconcile with a twin that exists and is not stranded.
StrandedInv ==
  faults = 0 =>
    /\ \A w \in Workers : ~ stopping[w]
    /\ \A r \in stranded :
         /\ Coalescible(row[r].payload)
         /\ \E q \in Ids \ stranded : row[q].status # "absent" /\ row[q].payload = row[r].payload

LEMMA StrandedStep == IInv /\ StrandedInv /\ [Next]_vars => StrandedInv'
<1> SUFFICES ASSUME IInv, StrandedInv, [Next]_vars PROVE StrandedInv'
  OBVIOUS
<1> USE DEF IInv
<1>1. stranded \subseteq Ids /\ \A r \in stranded : row[r].status # "absent"
  BY DEF TypeOK, HeldOrStranded
\* Nothing is stranded and no signal arrives.
<1>2. ASSUME UNCHANGED <<faults, stranded>>, \A w \in Workers : stopping'[w] => stopping[w]
      PROVE  StrandedInv'
  <2>1. ASSUME faults = 0, NEW r \in stranded
        PROVE  /\ Coalescible(row'[r].payload)
               /\ \E q \in Ids \ stranded :
                    row'[q].status # "absent" /\ row'[q].payload = row'[r].payload
    <3>1. PICK q \in Ids \ stranded : row[q].status # "absent" /\ row[q].payload = row[r].payload
      BY <2>1 DEF StrandedInv
    <3>2. row'[r].payload = row[r].payload BY <1>1, <2>1, RowsKeepPayload
    <3>3. row'[q].status # "absent" /\ row'[q].payload = row[q].payload BY <3>1, RowsKeepPayload
    <3> QED BY <2>1, <3>1, <3>2, <3>3 DEF StrandedInv
  <2> QED BY <1>2, <2>1 DEF StrandedInv
\* The step spends a fault.
<1>3. CASE SpendFault
  <2>1. faults' # 0 BY <1>3 DEF SpendFault, TypeOK
  <2> QED BY <2>1 DEF StrandedInv
<1>4. ASSUME NEW p \in Payloads, NEW t \in Ids, Publish(p, t) PROVE StrandedInv'
  BY <1>2, <1>4 DEF Publish
<1>5. ASSUME NEW r \in Ids, BecomeDue(r) PROVE StrandedInv'
  BY <1>2, <1>5 DEF BecomeDue
<1>6. ASSUME NEW w \in Workers, Claim(w) PROVE StrandedInv'
  BY <1>2, <1>3, <1>6 DEF Claim, BeginClaim, CommitClaim, AbortClaim, CommitClaimUnacknowledged
<1>7. ASSUME NEW w \in Workers, NEW r \in Ids, Run(w, r) PROVE StrandedInv'
  BY <1>2, <1>7 DEF Run, Execute, Return
<1>8. ASSUME NEW w \in Workers, NEW r \in Ids, MarkConflict(w, r) PROVE StrandedInv'
  <2>1. job[w][r].stage \in Marking /\ UNCHANGED <<row, faults, stopping>>
    BY <1>8 DEF MarkConflict
  <2>2. stranded' \in {stranded, stranded \cup {r}} BY <1>8 DEF MarkConflict, NextTry
  <2>3. Coalescible(row[r].payload) BY <1>8 DEF MarkConflict, IndexConflict, PendingTwin
  <2>4. PICK q \in Ids \ {r} : row[q].status = "pending" /\ row[q].payload = row[r].payload
    BY <1>8 DEF MarkConflict, IndexConflict, PendingTwin
  <2>5. q \notin stranded BY <2>4 DEF HeldOrStranded
  <2>6. CASE stranded' = stranded BY <1>2, <2>1, <2>6
  <2>7. CASE stranded' = stranded \cup {r}
    <3>1. ASSUME faults = 0, NEW x \in stranded'
          PROVE  /\ Coalescible(row[x].payload)
                 /\ \E y \in Ids \ stranded' :
                      row[y].status # "absent" /\ row[y].payload = row[x].payload
      <4>1. CASE x = r \/ row[x].payload = row[r].payload
        BY <2>3, <2>4, <2>5, <2>7, <4>1
      <4>2. CASE x \in stranded /\ row[x].payload # row[r].payload
        BY <2>7, <3>1, <4>2 DEF StrandedInv
      <4> QED BY <2>7, <4>1, <4>2
    <3> QED BY <2>1, <3>1 DEF StrandedInv
  <2> QED BY <2>2, <2>6, <2>7
<1>9. ASSUME NEW w \in Workers, NEW r \in Ids, Mark(w, r) PROVE StrandedInv'
  BY <1>2, <1>3, <1>8, <1>9 DEF Mark, MarkApplied, MarkError, MarkUnacknowledged
<1>10. ASSUME NEW w \in Workers, FinishBatch(w) PROVE StrandedInv'
  BY <1>2, <1>10 DEF FinishBatch
<1>11. ASSUME NEW w \in Workers, Lifecycle(w) PROVE StrandedInv'
  <2>1. CASE DrainTimeout(w) BY <2>1 DEF DrainTimeout, StrandedInv
  <2>2. CASE Restart(w) BY <1>2, <2>2 DEF Restart, TypeOK
  <2> QED BY <1>2, <1>3, <1>11, <2>1, <2>2 DEF Lifecycle, BeginStop, Drained, Crash
<1>12. CASE UNCHANGED vars BY <1>2, <1>12 DEF vars
<1> QED
  BY <1>4, <1>5, <1>6, <1>7, <1>9, <1>10, <1>11, <1>12 DEF Next, Enqueue

\* While no call fails and no process is stopped, the dedup index strands only
\* reconciles, and never the last one of a group, for any number of workers and
\* groups (syncWorker.js:1515-1520).
THEOREM OnlySupersededStrand == Spec => []StrandedOnlySuperseded
<1>1. Init => StrandedInv BY DEF Init, StrandedInv
<1>2. IInv /\ StrandedInv /\ [Next]_vars => StrandedInv' BY StrandedStep
<1>3. StrandedInv => StrandedOnlySuperseded BY DEF StrandedInv, StrandedOnlySuperseded
<1> QED BY <1>1, <1>2, <1>3, Invariance, PTL DEF Spec

\* A claim takes urgent rows first, for any batch size: a certificate revocation
\* is never left behind by a batch that holds a normal operation
\* (syncOperationPriority.js:25-47, syncWorker.js:913-919).
THEOREM UrgentRowsFirst == Spec => UrgentFirst
<1>1. ASSUME TypeOK, NEW w \in Workers, BeginClaim(w),
             NEW r \in Claimable(w) \ locked'[w], NEW q \in locked'[w],
             row[r].payload.type \in UrgentOperationTypes
      PROVE  row[q].payload.type \in UrgentOperationTypes
  <2>1. PICK s \in Fetches(Claimable(w)) :
          locked' = [locked EXCEPT ![w] = {s[i] : i \in DOMAIN s}]
    BY <1>1 DEF BeginClaim
  <2>2. locked'[w] = {s[i] : i \in DOMAIN s} BY <1>1, <2>1 DEF TypeOK
  <2> DEFINE C == Claimable(w)
             k == IF Cardinality(C) < BatchSize THEN Cardinality(C) ELSE BatchSize
  <2>3. /\ s \in [1..k -> C]
        /\ \A x \in C \ {s[i] : i \in 1..k} : \A i \in 1..k : ~ Precedes(x, s[i])
    BY <2>1 DEF Fetches
  <2>4. PICK i \in DOMAIN s : q = s[i] BY <1>1, <2>2
  <2>5. DOMAIN s = 1..k BY <2>3
  <2> HIDE DEF k, C
  <2>6. r \in C \ {s[j] : j \in 1..k} BY <1>1, <2>2, <2>5 DEF C
  <2>7. ~ Precedes(r, q) BY <2>3, <2>4, <2>5, <2>6
  <2> QED BY <1>1, <2>7 DEF Precedes, PriorityForOperationType
<1>2. TypeOK /\ [Next]_vars =>
        [\A w \in Workers : BeginClaim(w) =>
           \A r \in Claimable(w) \ locked'[w] : \A q \in locked'[w] :
             row[r].payload.type \in UrgentOperationTypes
               => row[q].payload.type \in UrgentOperationTypes]_vars
  BY <1>1
<1> QED BY <1>2, TypeCorrect, PTL DEF Spec, UrgentFirst
=============================================================================
