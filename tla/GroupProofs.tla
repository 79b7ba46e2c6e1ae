------------------------------- MODULE GroupProofs -------------------------------
(***************************************************************************)
(* Proofs about the groups in Authentik that follow the records: those     *)
(* which the reconciler owns (OwnedGroupReconcile), for every set of       *)
(* users, groups, requests and workers, every chain and every bound; then, *)
(* with variables of their own, the groups of global channels, the         *)
(* CloudTAK agency group and the custom channels of the run                *)
(* independent_safety, to which IndependentProofs carries over what is     *)
(* shown of them.                                                          *)
(***************************************************************************)
EXTENDS OwnedGroupReconcile, Integers, Sequences, FiniteSets, FiniteSetTheorems, WellFoundedInduction, TLAPS

LEMMA TailType ==
  ASSUME NEW S, NEW s \in Seq(S), s # <<>>
  PROVE  Tail(s) \in Seq(S) /\ Head(s) \in S
  OBVIOUS

LEMMA EmptyType ==
  ASSUME NEW S
  PROVE  <<>> \in Seq(S)
  OBVIOUS

LEMMA ChainType ==
  ASSUME NEW chain \in Chains
  PROVE  chain \in Seq(Groups)
  BY OwnedGroupAssumption

USE DEF SpendFailure

\* The variables keep their types through every step.
LEMMA TypeInit == Init => TypeOK
  BY OwnedGroupAssumption DEF Init, TypeOK, NoChange, Changes, NoWork, Work, WorkShape

LEMMA TypeStep == TypeOK /\ [Next]_vars => TypeOK'
<1> SUFFICES ASSUME TypeOK, [Next]_vars PROVE TypeOK'
  OBVIOUS
<1> USE OwnedGroupAssumption
<1>1. ASSUME NEW p \in Requests, Begin(p) PROVE TypeOK'
  <2>1. PICK us \in {{u} : u \in Users}, adds \in BOOLEAN, chain \in Chains :
          request' = [request EXCEPT ![p] =
            [stage |-> "open", users |-> us, adds |-> adds, chain |-> chain, todo |-> chain]]
    BY <1>1 DEF Begin
  <2>2. [stage |-> "open", users |-> us, adds |-> adds, chain |-> chain, todo |-> chain] \in Changes
    BY ChainType DEF Changes
  <2>3. request' \in [Requests -> Changes]
    BY <2>1, <2>2 DEF TypeOK
  <2> QED
    BY <1>1, <2>3 DEF Begin, TypeOK
<1>2. ASSUME NEW p \in Requests, PublishNext(p) PROVE TypeOK'
  <2>1. request[p] \in Changes /\ request[p].todo \in Seq(Groups)
    BY DEF TypeOK, Changes
  <2>2. Tail(request[p].todo) \in Seq(Groups) /\ Head(request[p].todo) \in Groups
    BY <1>2, <2>1, TailType DEF PublishNext
  <2>3. [request[p] EXCEPT !.todo = Tail(request[p].todo)] \in Changes
    BY <2>1, <2>2 DEF Changes
  <2>4. request' \in [Requests -> Changes]
    BY <1>2, <2>3 DEF PublishNext, TypeOK
  <2>5. mine' \in [Requests -> SUBSET Groups]
    BY <1>2, <2>2 DEF PublishNext, TypeOK
  <2> QED
    BY <1>2, <2>4, <2>5 DEF PublishNext, TypeOK
<1>3. ASSUME NEW p \in Requests, Commit(p) PROVE TypeOK'
  <2>1. request[p] \in Changes
    BY DEF TypeOK
  <2>2. [request[p] EXCEPT !.stage = "committed"] \in Changes
    BY <2>1 DEF Changes
  <2>3. request' \in [Requests -> Changes]
    BY <1>3, <2>2 DEF Commit, TypeOK
  <2>4. \A g \in Groups : Changed(p, g) \in SUBSET Users
    BY <2>1 DEF Changed, TypeOK, Changes
  <2>5. Range(request[p].chain) \subseteq Groups
    BY <2>1 DEF Range, Changes
  <2> QED
    BY <1>3, <2>3, <2>4, <2>5 DEF Commit, TypeOK
<1>4. ASSUME NEW p \in Requests, Rollback(p) \/ DeadlockVictim(p) PROVE TypeOK'
  <2>1. request[p] \in Changes
    BY DEF TypeOK
  <2>2. [request[p] EXCEPT !.stage = "aborted", !.todo = <<>>] \in Changes
    BY <2>1, EmptyType DEF Changes
  <2>3. request' = [request EXCEPT ![p] = [request[p] EXCEPT !.stage = "aborted", !.todo = <<>>]]
    BY <1>4 DEF Rollback, DeadlockVictim, Abort, TypeOK, Changes
  <2>4. request' \in [Requests -> Changes]
    BY <2>2, <2>3 DEF TypeOK
  <2>5. failures' \in 0..MaxFailures
    BY <1>4 DEF Rollback, DeadlockVictim, TypeOK
  <2> QED
    BY <1>4, <2>4, <2>5 DEF Rollback, DeadlockVictim, Abort, TypeOK
<1>5. ASSUME NEW g \in Groups, SweepEnqueue(g) PROVE TypeOK'
  BY <1>5 DEF SweepEnqueue, TypeOK
<1>6. ASSUME NEW g \in Groups, OperatorEdits(g) PROVE TypeOK'
  BY <1>6 DEF OperatorEdits, TypeOK
<1>a. ASSUME NEW w \in Workers, NEW k \in Work, WorkShape(k), work' = [work EXCEPT ![w] = k]
      PROVE  work' \in [Workers -> Work] /\ \A v \in Workers : WorkShape(work'[v])
  BY <1>a DEF TypeOK
<1>b. NoWork \in Work /\ WorkShape(NoWork)
  BY DEF NoWork, Work, WorkShape
<1>c. ASSUME NEW g \in Groups, NEW st \in {"claimed", "retrying"}
      PROVE  /\ [NoWork EXCEPT !.stage = st, !.group = {g}] \in Work
             /\ WorkShape([NoWork EXCEPT !.stage = st, !.group = {g}])
  BY DEF NoWork, Work, WorkShape
<1>d. \A w \in Workers : work[w].members \cup work[w].kept \in SUBSET (Users \cup Ignored)
  BY DEF TypeOK, Work
<1>7. ASSUME NEW w \in Workers, NEW g \in Groups, Claim(w, g) PROVE TypeOK'
  BY <1>7, <1>a, <1>c DEF Claim, TypeOK
<1>8. ASSUME NEW w \in Workers, NEW g \in Groups, ReadDesired(w, g) PROVE TypeOK'
  <2> DEFINE k == [work[w] EXCEPT !.stage = "read", !.members = desired[g]]
  <2>1. work' = [work EXCEPT ![w] = k]
    BY <1>8 DEF ReadDesired, TypeOK, Work
  <2>2. k \in Work /\ WorkShape(k)
    BY ZenonT(40), <1>8 DEF TypeOK, Work, WorkShape, On, ReadDesired
  <2> HIDE DEF k
  <2> QED
    BY <1>8, <1>a, <2>1, <2>2 DEF ReadDesired, TypeOK
<1>9. ASSUME NEW w \in Workers, NEW g \in Groups, FetchPreserved(w, g) PROVE TypeOK'
  <2> DEFINE k == [work[w] EXCEPT !.stage = "fetched", !.kept = IgnoredNow(g)]
  <2>1. work' = [work EXCEPT ![w] = k]
    BY <1>9 DEF FetchPreserved, TypeOK, Work
  <2>2. k \in Work /\ WorkShape(k)
    BY ZenonT(40), <1>9 DEF TypeOK, Work, WorkShape, On, IgnoredNow, FetchPreserved
  <2> HIDE DEF k
  <2> QED
    BY <1>9, <1>a, <2>1, <2>2 DEF FetchPreserved, TypeOK
<1>10. ASSUME NEW w \in Workers, NEW g \in Groups, Patch(w, g) PROVE TypeOK'
  BY <1>10, <1>a, <1>b, <1>d DEF Patch, TypeOK
<1>11. ASSUME NEW w \in Workers, NEW g \in Groups,
              FailRetryable(w, g) \/ PatchTimesOut(w, g)
       PROVE  TypeOK'
  <2>1. late' \subseteq Groups \X SUBSET (Users \cup Ignored)
    BY <1>11, <1>d DEF FailRetryable, PatchTimesOut, TypeOK
  <2>2. failures' \in 0..MaxFailures
    BY <1>11 DEF FailRetryable, PatchTimesOut, TypeOK
  <2>3. Retrying(w, g)
    BY <1>11 DEF FailRetryable, PatchTimesOut
  <2>4. work' \in [Workers -> Work] /\ \A v \in Workers : WorkShape(work'[v])
    BY <2>3, <1>a, <1>c DEF Retrying
  <2> QED
    BY <1>11, <2>1, <2>2, <2>4 DEF FailRetryable, PatchTimesOut, TypeOK
<1>12. ASSUME NEW w \in Workers, NEW g \in Groups,
              PutBack(w, g) \/ FailForGood(w, g)
       PROVE  TypeOK'
  <2>1. failures' \in 0..MaxFailures
    BY <1>12 DEF PutBack, FailForGood, TypeOK
  <2>2. work' \in [Workers -> Work] /\ \A v \in Workers : WorkShape(work'[v])
    BY <1>12, <1>a, <1>b DEF PutBack, FailForGood
  <2> QED
    BY <1>12, <2>1, <2>2 DEF PutBack, FailForGood, TypeOK
<1>13. ASSUME NEW l \in late, LatePatch(l[1], l[2]) PROVE TypeOK'
  <2>1. l[1] \in Groups /\ l[2] \in SUBSET (Users \cup Ignored)
    BY DEF TypeOK
  <2> QED
    BY <1>13, <2>1 DEF LatePatch, TypeOK
<1>14. CASE UNCHANGED vars
  BY <1>14 DEF vars, TypeOK
<1> QED
  BY <1>1, <1>2, <1>3, <1>4, <1>5, <1>6, <1>7, <1>8, <1>9, <1>10, <1>11, <1>12,
     <1>13, <1>14 DEF Next

-----------------------------------------------------------------------------

\* The uncommitted rows of two transactions, and the committed ones, never
\* collide.
LEMMA RowsInit == Init => OnePendingRow
  BY DEF Init, OnePendingRow

LEMMA RowsStep == TypeOK /\ OnePendingRow /\ [Next]_vars => OnePendingRow'
<1> SUFFICES ASSUME TypeOK, OnePendingRow, [Next]_vars PROVE OnePendingRow'
  OBVIOUS
<1>1. ASSUME NEW p \in Requests, PublishNext(p) PROVE OnePendingRow'
  <2> DEFINE g == Head(request[p].todo)
  <2>1. \A q \in Requests \ {p} : g \notin mine[q]
    BY <1>1 DEF PublishNext, WaitsFor
  <2>2. CASE AlreadyEnqueued(p, g)
    <3>1. mine' = mine
      BY <1>1, <2>2 DEF PublishNext, TypeOK
    <3> QED
      BY <3>1, <1>1 DEF PublishNext, OnePendingRow
  <2>3. CASE ~ AlreadyEnqueued(p, g)
    <3>1. mine' = [mine EXCEPT ![p] = mine[p] \cup {g}]
      BY <1>1, <2>3 DEF PublishNext
    <3>2. pending' = pending /\ g \notin pending
      BY <1>1, <2>3 DEF PublishNext, AlreadyEnqueued
    <3> HIDE DEF g
    <3> QED
      BY <2>1, <3>1, <3>2 DEF OnePendingRow, TypeOK
  <2> QED
    BY <2>2, <2>3
<1>2. ASSUME NEW p \in Requests, Commit(p) PROVE OnePendingRow'
  BY <1>2 DEF Commit, OnePendingRow, TypeOK
<1>3. ASSUME NEW p \in Requests, Abort(p) PROVE OnePendingRow'
  BY <1>3 DEF Abort, OnePendingRow, TypeOK
<1>4. ASSUME NEW g \in Groups, SweepEnqueue(g) PROVE OnePendingRow'
  BY <1>4 DEF SweepEnqueue, OnePendingRow
<1>5. ASSUME NEW w \in Workers, NEW g \in Groups, PutBack(w, g) PROVE OnePendingRow'
  BY <1>5 DEF PutBack, OnePendingRow
<1>6. ASSUME NEW w \in Workers, NEW g \in Groups, Claim(w, g) PROVE OnePendingRow'
  BY <1>6 DEF Claim, OnePendingRow
<1>7. CASE UNCHANGED <<mine, pending>>
  BY <1>7 DEF OnePendingRow
<1>8. CASE UNCHANGED vars
  BY <1>7, <1>8 DEF vars
<1>9. ASSUME NEW p \in Requests, Begin(p) \/ Rollback(p) \/ DeadlockVictim(p) PROVE OnePendingRow'
  BY <1>3, <1>7, <1>9 DEF Begin, Rollback, DeadlockVictim
<1>10. ASSUME NEW w \in Workers, NEW g \in Groups,
              \/ ReadDesired(w, g) \/ FetchPreserved(w, g) \/ Patch(w, g)
              \/ FailRetryable(w, g) \/ PatchTimesOut(w, g) \/ FailForGood(w, g)
       PROVE  OnePendingRow'
  BY <1>7, <1>10 DEF ReadDesired, FetchPreserved, Patch, FailRetryable, PatchTimesOut, FailForGood
<1> QED
  BY <1>1, <1>2, <1>3, <1>4, <1>5, <1>6, <1>7, <1>8, <1>9, <1>10 DEF Next, OperatorEdits, LatePatch

-----------------------------------------------------------------------------

Exempt(g) == g \in missed \cup overtaken \cup lost

\* A snapshot that nothing pending or unread will correct is current: what
\* makes ConvergedOrAccounted inductive.
SnapshotsCurrent ==
  \A g \in Groups : g \notin pending /\ ~ Unread(g) /\ ~ Exempt(g) =>
    \A w \in Workers : Holding(w, g) => work[w].members = desired[g]

Accounted == TypeOK /\ SnapshotsCurrent /\ ConvergedOrAccounted

LEMMA AccountedInit == Init => Accounted
<1> SUFFICES ASSUME Init PROVE Accounted
  OBVIOUS
<1>1. TypeOK
  BY TypeInit
<1>2. SnapshotsCurrent
  BY DEF Init, SnapshotsCurrent, Holding, On, NoWork
<1>3. ConvergedOrAccounted
  BY OwnedGroupAssumption DEF Init, ConvergedOrAccounted, InStep
<1> QED
  BY <1>1, <1>2, <1>3 DEF Accounted

\* It is enough to check the two invariants group by group.
CurrentAt(g) ==
  g \notin pending /\ ~ Unread(g) /\ ~ Exempt(g) =>
    \A w \in Workers : Holding(w, g) => work[w].members = desired[g]

SettledAt(g) == Quiescent(g) /\ ~ Exempt(g) => InStep(g)

LEMMA AccountedAtAll ==
  Accounted <=> TypeOK /\ \A g \in Groups : CurrentAt(g) /\ SettledAt(g)
  BY DEF Accounted, SnapshotsCurrent, ConvergedOrAccounted, CurrentAt, SettledAt, Exempt

\* A group of which no state the invariants mention changes.
LEMMA GroupUntouched ==
  ASSUME NEW g \in Groups, CurrentAt(g), SettledAt(g),
         g \in pending' <=> g \in pending, Exempt(g)' <=> Exempt(g),
         Unread(g) <=> Unread(g)', desired'[g] = desired[g],
         group'[g] \cap Users = group[g] \cap Users,
         \A l \in late : l[1] = g => l \in late',
         \A v \in Workers : /\ Holding(v, g) <=> Holding(v, g)'
                            /\ Holding(v, g) => work'[v].members = work[v].members
                            /\ On(v, g) <=> On(v, g)'
  PROVE  CurrentAt(g)' /\ SettledAt(g)'
<1>1. CurrentAt(g)'
  BY DEF CurrentAt
<1>2. Quiescent(g)' => Quiescent(g)
  BY DEF Quiescent
<1>3. SettledAt(g)'
  BY <1>2 DEF SettledAt, InStep
<1> QED
  BY <1>1, <1>3

\* A step of worker w on g leaves every other group h untouched.
LEMMA OtherGroup ==
  ASSUME TypeOK, NEW w \in Workers, NEW g \in Groups, NEW k,
         work' = [work EXCEPT ![w] = k],
         On(w, g) \/ work[w].stage = "idle", k.group \subseteq {g},
         NEW h \in Groups, g # h, CurrentAt(h), SettledAt(h),
         h \in pending' <=> h \in pending, Exempt(h)' <=> Exempt(h),
         desired'[h] = desired[h], group'[h] = group[h], late \subseteq late'
  PROVE  CurrentAt(h)' /\ SettledAt(h)'
<1>1. \A v \in Workers \ {w} : work'[v] = work[v]
  BY DEF TypeOK
<1>2. work'[w] = k
  BY DEF TypeOK
<1>3. WorkShape(work[w])
  BY DEF TypeOK
<1>4. ~ On(w, h) /\ ~ On(w, h)'
  BY <1>2, <1>3 DEF On, WorkShape
<1>5. \A v \in Workers : On(v, h) <=> On(v, h)'
  BY <1>1, <1>4 DEF On
<1>6. Unread(h) <=> Unread(h)'
  <2>1. \A v \in Workers : (On(v, h) /\ work[v].stage \in ToRead)
                            <=> (On(v, h)' /\ work'[v].stage \in ToRead)
    BY <1>1, <1>4, <1>5
  <2> QED
    BY <2>1 DEF Unread
<1>7. \A v \in Workers : /\ Holding(v, h) <=> Holding(v, h)'
                         /\ Holding(v, h) => work'[v].members = work[v].members
                         /\ On(v, h) <=> On(v, h)'
  BY <1>1, <1>4, <1>5 DEF Holding
<1>8. group'[h] \cap Users = group[h] \cap Users /\ \A l \in late : l[1] = h => l \in late'
  OBVIOUS
<1> QED
  BY <1>6, <1>7, <1>8, GroupUntouched

LEMMA AccountedStep == Accounted /\ [Next]_vars => Accounted'
<1> SUFFICES ASSUME Accounted, [Next]_vars PROVE Accounted'
  OBVIOUS
<1>t. TypeOK /\ TypeOK'
  BY TypeStep DEF Accounted
<1>s. \A g \in Groups : CurrentAt(g) /\ SettledAt(g)
  BY AccountedAtAll
<1> SUFFICES ASSUME NEW g \in Groups PROVE CurrentAt(g)' /\ SettledAt(g)'
  BY <1>t DEF Accounted, SnapshotsCurrent, ConvergedOrAccounted, CurrentAt, SettledAt, Exempt
<1>g. CurrentAt(g) /\ SettledAt(g)
  BY <1>s
<1>1. CASE UNCHANGED <<desired, pending, work, late, group, missed, overtaken, lost>>
  BY <1>1, <1>g DEF CurrentAt, SettledAt, Quiescent, Exempt, Unread, Holding, On, InStep
<1>2. ASSUME NEW p \in Requests, Commit(p) PROVE CurrentAt(g)' /\ SettledAt(g)'
  <2>1. Unread(g) <=> Unread(g)'
    BY <1>2 DEF Commit, Unread, On
  <2>2. CASE g \in Range(request[p].chain)
    <3>1. g \in pending' \/ Unread(g)' \/ g \in missed'
      BY <1>2, <2>1, <2>2 DEF Commit
    <3>2. CurrentAt(g)'
      BY <3>1 DEF CurrentAt, Exempt
    <3>3. Quiescent(g)' => ~ Unread(g)'
      BY DEF Quiescent, Unread
    <3>4. SettledAt(g)'
      BY <3>1, <3>3 DEF SettledAt, Exempt, Quiescent
    <3> QED
      BY <3>2, <3>4
  <2>3. CASE g \notin Range(request[p].chain)
    <3>1. desired'[g] = desired[g]
      BY <1>2, <2>3 DEF Commit, Changed
    <3>2. Exempt(g)' <=> Exempt(g)
      BY <1>2, <2>3 DEF Commit, Exempt
    <3>3. pending \subseteq pending'
      BY <1>2 DEF Commit
    <3> QED
      BY <1>2, <1>g, <2>1, <3>1, <3>2, <3>3
      DEF Commit, CurrentAt, SettledAt, Quiescent, Holding, On, InStep
  <2> QED
    BY <2>2, <2>3
<1>3. ASSUME NEW h \in Groups, SweepEnqueue(h) PROVE CurrentAt(g)' /\ SettledAt(g)'
  BY <1>3, <1>g DEF SweepEnqueue, CurrentAt, SettledAt, Quiescent, Exempt, Unread,
     Holding, On, InStep
<1>4. ASSUME NEW h \in Groups, OperatorEdits(h) PROVE CurrentAt(g)' /\ SettledAt(g)'
  <2>1. group'[g] \cap Users = group[g] \cap Users
    BY <1>4, <1>t, OwnedGroupAssumption DEF OperatorEdits, TypeOK
  <2> QED
    BY <1>4, <1>g, <2>1 DEF OperatorEdits, CurrentAt, SettledAt, Quiescent, Exempt, Unread,
       Holding, On, InStep
<1>5. ASSUME NEW w \in Workers, NEW h \in Groups, Claim(w, h)
      PROVE  CurrentAt(g)' /\ SettledAt(g)'
  <2> DEFINE k == [NoWork EXCEPT !.stage = "claimed", !.group = {h}]
  <2>1. k.stage = "claimed" /\ k.group = {h}
    BY DEF NoWork
  <2>2. work' = [work EXCEPT ![w] = k] /\ work[w].stage = "idle"
    BY <1>5 DEF Claim
  <2> HIDE DEF k
  <2>3. CASE h = g
    <3>1. On(w, g)' /\ work'[w].stage = "claimed"
      BY <1>t, <2>1, <2>2, <2>3 DEF TypeOK, On
    <3>2. Unread(g)'
      BY <3>1 DEF Unread, ToRead
    <3> QED
      BY <3>1, <3>2 DEF CurrentAt, SettledAt, Quiescent
  <2>4. CASE h # g
    <3>1. /\ g \in pending' <=> g \in pending
          /\ Exempt(g)' <=> Exempt(g)
          /\ UNCHANGED <<desired, group, late>>
      BY <1>5, <2>4 DEF Claim, Exempt
    <3> QED
      BY <1>t, <1>g, <2>1, <2>2, <2>4, <3>1, OtherGroup
  <2> QED
    BY <2>3, <2>4
<1>6. ASSUME NEW w \in Workers, NEW h \in Groups, ReadDesired(w, h)
      PROVE  CurrentAt(g)' /\ SettledAt(g)'
  <2> DEFINE k == [work[w] EXCEPT !.stage = "read", !.members = desired[h]]
  <2>1. k.stage = "read" /\ k.group = {h} /\ k.members = desired[h]
    BY <1>6, <1>t DEF ReadDesired, On, TypeOK, Work
  <2>2. work' = [work EXCEPT ![w] = k] /\ On(w, h)
    BY <1>6, <1>t DEF ReadDesired, TypeOK, Work
  <2> HIDE DEF k
  <2>3. CASE h = g
    <3>1. On(w, g)' /\ work'[w] = k
      BY <1>t, <2>1, <2>2, <2>3 DEF TypeOK, On
    <3>2. SettledAt(g)'
      BY <3>1 DEF SettledAt, Quiescent
    <3>3. CASE \E v \in Workers \ {w} : Holding(v, g)
      BY <1>6, <2>3, <3>2, <3>3 DEF ReadDesired, CurrentAt, Exempt
    <3>4. CASE ~ \E v \in Workers \ {w} : Holding(v, g)
      <4>1. \A v \in Workers \ {w} : ~ Holding(v, g)'
        BY <1>t, <2>2, <3>4 DEF TypeOK, Holding, On
      <4>2. work'[w].members = desired'[g]
        BY <1>6, <2>1, <2>3, <3>1 DEF ReadDesired
      <4> QED
        BY <3>2, <4>1, <4>2 DEF CurrentAt
    <3> QED
      BY <3>2, <3>3, <3>4
  <2>4. CASE h # g
    <3>1. Exempt(g)' <=> Exempt(g)
      BY <1>6, <2>4 DEF ReadDesired, Exempt
    <3>2. UNCHANGED <<pending, desired, group, late>>
      BY <1>6 DEF ReadDesired
    <3> QED
      BY <1>t, <1>g, <2>1, <2>2, <2>4, <3>1, <3>2, OtherGroup
  <2> QED
    BY <2>3, <2>4
<1>7. ASSUME NEW w \in Workers, NEW h \in Groups, FetchPreserved(w, h)
      PROVE  CurrentAt(g)' /\ SettledAt(g)'
  <2>1. /\ work'[w].stage = "fetched" /\ work'[w].group = work[w].group
        /\ work'[w].members = work[w].members /\ work[w].stage = "read"
        /\ \A v \in Workers \ {w} : work'[v] = work[v]
    BY <1>7, <1>t DEF FetchPreserved, TypeOK, Work
  <2>2. \A v \in Workers : /\ On(v, g) <=> On(v, g)'
                           /\ work'[v].members = work[v].members
                           /\ Holding(v, g) <=> Holding(v, g)'
                           /\ work[v].stage \in ToRead <=> work'[v].stage \in ToRead
    BY <2>1 DEF On, Holding, ToRead
  <2>3. Unread(g) <=> Unread(g)'
    BY <2>2 DEF Unread
  <2> QED
    BY <1>7, <1>g, <2>2, <2>3, GroupUntouched DEF FetchPreserved, Exempt
<1>8. ASSUME NEW w \in Workers, NEW h \in Groups, Patch(w, h)
      PROVE  CurrentAt(g)' /\ SettledAt(g)'
  <2>1. work' = [work EXCEPT ![w] = NoWork] /\ On(w, h)
    BY <1>8 DEF Patch
  <2>2. NoWork.group = {} /\ NoWork.stage = "idle"
    BY DEF NoWork
  <2>3. CASE h = g
    <3>1. \A v \in Workers \ {w} : work'[v] = work[v]
      BY <1>t, <2>1 DEF TypeOK
    <3>2. work'[w] = NoWork
      BY <1>t, <2>1 DEF TypeOK
    <3>3. ~ On(w, g)' /\ work[w].stage \notin ToRead
      BY <1>8, <3>2, <2>2 DEF On, Patch, ToRead
    <3>4. Unread(g) => Unread(g)'
      BY <3>1, <3>3 DEF Unread, On
    <3>5. \A v \in Workers : Holding(v, g)' => Holding(v, g) /\ work'[v] = work[v]
      BY <3>1, <3>3 DEF Holding, On
    <3>6. CurrentAt(g)'
      BY <1>8, <1>g, <3>4, <3>5 DEF Patch, CurrentAt, Exempt
    <3>7. SettledAt(g)'
      <4> SUFFICES ASSUME Quiescent(g)', ~ Exempt(g)' PROVE InStep(g)'
        BY DEF SettledAt
      <4>1. g \notin pending /\ ~ Unread(g) /\ ~ Exempt(g)
        BY <1>8, <3>4 DEF Patch, Exempt, Quiescent, Unread
      <4>2. work[w].members = desired[g]
        BY <1>8, <1>g, <2>3, <4>1 DEF CurrentAt, Holding, Patch
      <4>3. group'[g] = work[w].members \cup work[w].kept
        BY <1>8, <1>t, <2>3 DEF Patch, TypeOK
      <4>4. work[w].kept \subseteq Ignored /\ desired[g] \subseteq Users
        BY <1>t DEF TypeOK, Work
      <4> QED
        BY <1>8, <4>2, <4>3, <4>4, OwnedGroupAssumption DEF Patch, InStep
    <3> QED
      BY <3>6, <3>7
  <2>4. CASE h # g
    <3>1. group'[g] = group[g]
      BY <1>8, <1>t, <2>4 DEF Patch, TypeOK
    <3> QED
      BY <1>8, <1>t, <1>g, <2>1, <2>2, <2>4, <3>1, OtherGroup DEF Patch, Exempt
  <2> QED
    BY <2>3, <2>4
<1>9. ASSUME NEW w \in Workers, NEW h \in Groups, FailRetryable(w, h) \/ PatchTimesOut(w, h)
      PROVE  CurrentAt(g)' /\ SettledAt(g)'
  <2> DEFINE k == [NoWork EXCEPT !.stage = "retrying", !.group = {h}]
  <2>1. k.stage = "retrying" /\ k.group = {h}
    BY DEF NoWork
  <2>2. work' = [work EXCEPT ![w] = k] /\ On(w, h)
    BY <1>9 DEF FailRetryable, PatchTimesOut, Retrying
  <2>3. late \subseteq late' /\ UNCHANGED <<desired, group, missed, overtaken, lost, pending>>
    BY <1>9 DEF FailRetryable, PatchTimesOut
  <2> HIDE DEF k
  <2>4. CASE h = g
    <3>1. On(w, g)' /\ work'[w] = k /\ \A v \in Workers \ {w} : work'[v] = work[v]
      BY <1>t, <2>1, <2>2, <2>4 DEF TypeOK, On
    <3>2. SettledAt(g)'
      BY <3>1 DEF SettledAt, Quiescent
    <3>3. Unread(g)'
      BY <3>1, <2>1 DEF Unread, ToRead
    <3> QED
      BY <3>2, <3>3 DEF CurrentAt
  <2>5. CASE h # g
    BY <1>t, <1>g, <2>1, <2>2, <2>3, <2>5, OtherGroup DEF Exempt
  <2> QED
    BY <2>4, <2>5
<1>10. ASSUME NEW w \in Workers, NEW h \in Groups, PutBack(w, h) \/ FailForGood(w, h)
       PROVE  CurrentAt(g)' /\ SettledAt(g)'
  <2>1. work' = [work EXCEPT ![w] = NoWork] /\ On(w, h)
    BY <1>10 DEF PutBack, FailForGood
  <2>2. NoWork.group = {} /\ NoWork.stage = "idle"
    BY DEF NoWork
  <2>3. CASE h = g
    <3>1. g \in pending' \/ g \in lost'
      BY <1>10, <2>3 DEF PutBack, FailForGood
    <3> QED
      BY <3>1 DEF CurrentAt, SettledAt, Quiescent, Exempt
  <2>4. CASE h # g
    BY <1>10, <1>t, <1>g, <2>1, <2>2, <2>4, OtherGroup
    DEF PutBack, FailForGood, Exempt
  <2> QED
    BY <2>3, <2>4
<1>11. ASSUME NEW l \in late, LatePatch(l[1], l[2]) PROVE CurrentAt(g)' /\ SettledAt(g)'
  <2>1. CASE l[1] = g
    BY <1>11, <2>1 DEF LatePatch, CurrentAt, SettledAt, Exempt
  <2>2. CASE l[1] # g
    <3>1. group'[g] = group[g]
      BY <1>11, <1>t, <2>2 DEF LatePatch, TypeOK
    <3>2. \A m \in late : m[1] = g => m \in late'
      BY <1>11, <2>2 DEF LatePatch
    <3>3. Unread(g) <=> Unread(g)'
      BY <1>11 DEF LatePatch, Unread, On
    <3> QED
      BY <1>11, <1>g, <2>2, <3>1, <3>2, <3>3, GroupUntouched DEF LatePatch, Exempt, Holding, On
  <2> QED
    BY <2>1, <2>2
<1> QED
  BY <1>1, <1>2, <1>3, <1>4, <1>5, <1>6, <1>7, <1>8, <1>9, <1>10, <1>11
  DEF Next, vars, Begin, PublishNext, Rollback, DeadlockVictim, Abort

-----------------------------------------------------------------------------

\* In every behaviour each variable keeps its type.
THEOREM TypeCorrect == Spec => []TypeOK
<1>1. Init => TypeOK
  BY TypeInit
<1>2. TypeOK /\ [Next]_vars => TypeOK'
  BY TypeStep
<1> QED
  BY <1>1, <1>2, PTL DEF Spec

\* No two transactions, and no transaction and the table, hold pending
\* reconcile rows of one group: what publishReconcileOwnedGroup's
\* ON CONFLICT on the partial unique index is for.
THEOREM OneRowPerGroup == Spec => []OnePendingRow
<1>1. Init => TypeOK /\ OnePendingRow
  BY TypeInit, RowsInit
<1>2. TypeOK /\ OnePendingRow /\ [Next]_vars => (TypeOK /\ OnePendingRow)'
  BY TypeStep, RowsStep
<1> QED
  BY <1>1, <1>2, PTL DEF Spec

\* Whatever the number of requests, workers and failures, a group with
\* nothing left to do agrees with team_memberships unless a change was
\* missed, two snapshots overlapped or a reconcile was given up since it was
\* last read.
THEOREM GroupsConverge == Spec => []ConvergedOrAccounted
<1>1. Init => Accounted
  BY AccountedInit
<1>2. Accounted /\ [Next]_vars => Accounted'
  BY AccountedStep
<1>3. Accounted => ConvergedOrAccounted
  BY DEF Accounted
<1> QED
  BY <1>1, <1>2, <1>3, PTL DEF Spec

-----------------------------------------------------------------------------
(* Ignored accounts.                                                       *)

\* Every list that may still be written keeps the ignored accounts of its
\* group, unless an operator edited the group since it was fetched.
ListsKeepIgnored ==
  \A g \in Groups \ edited :
    /\ \A w \in Workers :
         On(w, g) /\ work[w].stage = "fetched" => work[w].kept = group[g] \cap Ignored
    /\ \A l \in late : l[1] = g => l[2] \cap Ignored = group[g] \cap Ignored

\* The list a worker writes holds the ignored accounts it kept, and no other.
LEMMA WrittenList ==
  ASSUME TypeOK, NEW w \in Workers
  PROVE  (work[w].members \cup work[w].kept) \cap Ignored = work[w].kept
BY OwnedGroupAssumption DEF TypeOK, Work

\* A step that writes no list and edits no group changes no ignored account.
LEMMA IgnoredFrame ==
  ASSUME TypeOK, ListsKeepIgnored, UNCHANGED <<group, edited>>, late' \subseteq late,
         \A w \in Workers, g \in Groups :
           On(w, g)' /\ work'[w].stage = "fetched" => work'[w] = work[w]
  PROVE  ListsKeepIgnored'
BY DEF ListsKeepIgnored, On

LEMMA IgnoredStep ==
  ASSUME TypeOK, ListsKeepIgnored, [Next]_vars
  PROVE  /\ ListsKeepIgnored'
         /\ operator' = operator =>
              \A g \in Groups \ edited : group'[g] \cap Ignored = group[g] \cap Ignored
<1>1. ASSUME UNCHANGED <<work, late, group, edited>>
      PROVE  ListsKeepIgnored'
  BY <1>1, IgnoredFrame
<1>2. CASE \E p \in Requests : Begin(p) \/ PublishNext(p) \/ Commit(p) \/ Rollback(p) \/ DeadlockVictim(p)
  BY <1>1, <1>2 DEF Begin, PublishNext, Commit, Rollback, DeadlockVictim, Abort
<1>3. CASE \E g \in Groups : SweepEnqueue(g) BY <1>1, <1>3 DEF SweepEnqueue
<1>4. CASE UNCHANGED vars BY <1>1, <1>4 DEF vars
<1>5. ASSUME NEW g \in Groups, OperatorEdits(g)
      PROVE  ListsKeepIgnored' /\ operator' # operator
  <2>1. operator' = operator + 1 /\ operator \in Nat /\ UNCHANGED <<work, late>>
    BY <1>5, OwnedGroupAssumption DEF OperatorEdits, TypeOK
  <2>2. /\ \A h \in Groups \ {g} : group'[h] = group[h]
        /\ edited' = IF ListOut(g) THEN edited \cup {g} ELSE edited
    BY <1>5 DEF OperatorEdits, TypeOK
  <2>3. ASSUME NEW h \in Groups \ edited'
        PROVE  /\ \A w \in Workers :
                    On(w, h) /\ work[w].stage = "fetched" => work[w].kept = group'[h] \cap Ignored
               /\ \A l \in late : l[1] = h => l[2] \cap Ignored = group'[h] \cap Ignored
    <3>1. CASE h = g BY <2>2, <2>3, <3>1 DEF ListOut
    <3>2. CASE h # g BY <2>2, <2>3, <3>2 DEF ListsKeepIgnored
    <3> QED BY <3>1, <3>2
  <2> QED BY <2>1, <2>3 DEF ListsKeepIgnored, On
<1>6. ASSUME NEW w \in Workers, NEW g \in Groups,
             \/ Claim(w, g) \/ ReadDesired(w, g) \/ FailRetryable(w, g) \/ PutBack(w, g)
             \/ FailForGood(w, g)
      PROVE  ListsKeepIgnored' /\ UNCHANGED group
  <2>1. \A v \in Workers \ {w} : work'[v] = work[v]
    BY <1>6 DEF Claim, ReadDesired, FailRetryable, Retrying, PutBack, FailForGood, TypeOK
  <2>2. work'[w].stage # "fetched"
    <3>1. CASE Claim(w, g) BY <3>1 DEF Claim, TypeOK, NoWork
    <3>2. CASE ReadDesired(w, g) BY <3>2 DEF ReadDesired, TypeOK, Work
    <3>3. CASE FailRetryable(w, g) BY <3>3 DEF FailRetryable, Retrying, TypeOK, NoWork
    <3>4. CASE PutBack(w, g) BY <3>4 DEF PutBack, TypeOK, NoWork
    <3>5. CASE FailForGood(w, g) BY <3>5 DEF FailForGood, TypeOK, NoWork
    <3> QED BY <1>6, <3>1, <3>2, <3>3, <3>4, <3>5
  <2>3. UNCHANGED <<group, edited, late>>
    BY <1>6 DEF Claim, ReadDesired, FailRetryable, PutBack, FailForGood
  <2> QED BY <2>1, <2>2, <2>3, IgnoredFrame
<1>7. ASSUME NEW w \in Workers, NEW g \in Groups, FetchPreserved(w, g)
      PROVE  ListsKeepIgnored' /\ UNCHANGED group
  <2>1. /\ \A v \in Workers \ {w} : work'[v] = work[v]
        /\ work'[w].kept = group[g] \cap Ignored /\ work'[w].group = {g}
        /\ UNCHANGED <<group, edited, late>>
    BY <1>7 DEF FetchPreserved, IgnoredNow, On, TypeOK, Work
  <2> QED BY <2>1 DEF ListsKeepIgnored, On
<1>8. ASSUME NEW w \in Workers, NEW g \in Groups, Patch(w, g)
      PROVE  /\ ListsKeepIgnored'
             /\ \A h \in Groups \ edited : group'[h] \cap Ignored = group[h] \cap Ignored
  <2>1. /\ \A v \in Workers \ {w} : work'[v] = work[v]
        /\ work'[w].stage # "fetched" /\ UNCHANGED <<edited, late>>
        /\ group'[g] = work[w].members \cup work[w].kept
        /\ \A h \in Groups \ {g} : group'[h] = group[h]
        /\ On(w, g) /\ work[w].stage = "fetched"
    BY <1>8 DEF Patch, NoWork, TypeOK
  <2>2. g \notin edited => group'[g] \cap Ignored = group[g] \cap Ignored
    BY <2>1, WrittenList DEF ListsKeepIgnored
  <2>3. \A h \in Groups \ edited : group'[h] \cap Ignored = group[h] \cap Ignored BY <2>1, <2>2
  <2> QED BY <2>1, <2>3 DEF ListsKeepIgnored, On
<1>9. ASSUME NEW w \in Workers, NEW g \in Groups, PatchTimesOut(w, g)
      PROVE  ListsKeepIgnored' /\ UNCHANGED group
  <2>1. /\ \A v \in Workers \ {w} : work'[v] = work[v]
        /\ work'[w].stage # "fetched" /\ UNCHANGED <<edited, group>>
        /\ late' = late \cup {<<g, work[w].members \cup work[w].kept>>}
        /\ On(w, g) /\ work[w].stage = "fetched"
    BY <1>9 DEF PatchTimesOut, Retrying, NoWork, TypeOK
  <2> QED BY <2>1, WrittenList DEF ListsKeepIgnored, On
<1>10. ASSUME NEW l \in late, LatePatch(l[1], l[2])
       PROVE  /\ ListsKeepIgnored'
              /\ \A h \in Groups \ edited : group'[h] \cap Ignored = group[h] \cap Ignored
  <2>1. /\ l[1] \in Groups /\ late' \subseteq late /\ UNCHANGED <<edited, work>>
        /\ \A h \in Groups \ {l[1]} : group'[h] = group[h]
        /\ group'[l[1]] \in {l[2], group[l[1]]}
    BY <1>10 DEF LatePatch, TypeOK
  <2>2. \A h \in Groups \ edited : group'[h] \cap Ignored = group[h] \cap Ignored
    BY <2>1 DEF ListsKeepIgnored
  <2> QED BY <2>1, <2>2 DEF ListsKeepIgnored, On
<1>11. CASE \E w \in Workers, g \in Groups :
              \/ Claim(w, g) \/ ReadDesired(w, g) \/ FetchPreserved(w, g) \/ Patch(w, g)
              \/ FailRetryable(w, g) \/ PatchTimesOut(w, g) \/ PutBack(w, g) \/ FailForGood(w, g)
  BY <1>6, <1>7, <1>8, <1>9, <1>11
<1>12. CASE \E g \in Groups : OperatorEdits(g) BY <1>5, <1>12
<1>13. \/ UNCHANGED group
       \/ operator' # operator
       \/ \A g \in Groups \ edited : group'[g] \cap Ignored = group[g] \cap Ignored
  BY <1>5, <1>6, <1>7, <1>8, <1>9, <1>10
  DEF Next, vars, Begin, PublishNext, Commit, Rollback, DeadlockVictim, Abort, SweepEnqueue
<1> QED BY <1>2, <1>3, <1>4, <1>10, <1>11, <1>12, <1>13 DEF Next

\* Whatever reconciles overlap, fail or arrive late, none changes which ignored
\* accounts are in a group, unless an operator edited the group while a list
\* for it was out (OwnedGroupReconciler.preserveIgnoredMembers).
THEOREM IgnoredAccountsStay == Spec => IgnoredUntouched
<1>1. Init => ListsKeepIgnored
  BY DEF Init, ListsKeepIgnored, NoWork
<1>2. TypeOK /\ ListsKeepIgnored /\ [Next]_vars =>
        /\ ListsKeepIgnored'
        /\ [operator' = operator =>
              \A g \in Groups \ edited : group'[g] \cap Ignored = group[g] \cap Ignored]_vars
  BY IgnoredStep
<1> QED BY <1>1, <1>2, TypeCorrect, PTL DEF Spec, IgnoredUntouched
-----------------------------------------------------------------------------
(* Queues that lose an operation.                                          *)

LEMMA Joined ==
  ASSUME NEW S, NEW s \in Seq(S), NEW t \in Seq(S)
  PROVE  /\ s \o t \in Seq(S) /\ Len(s \o t) = Len(s) + Len(t)
         /\ \A j \in 1 .. Len(s) : (s \o t)[j] = s[j]
         /\ \A j \in 1 .. Len(t) : (s \o t)[Len(s) + j] = t[j]
OBVIOUS

\* A queue without its i-th operation (SequencesExt!RemoveAt).
CutAt(q, i) == SubSeq(q, 1, i - 1) \o SubSeq(q, i + 1, Len(q))

LEMMA Without ==
  ASSUME NEW S, NEW q \in Seq(S), NEW i \in DOMAIN q, NEW p, p = CutAt(q, i)
  PROVE  /\ p \in Seq(S) /\ Len(p) = Len(q) - 1 /\ DOMAIN p = 1 .. Len(q) - 1
         /\ \A j \in 1 .. Len(q) - 1 : p[j] = IF j < i THEN q[j] ELSE q[j + 1]
<1>2. i \in 1 .. Len(q) /\ Len(q) \in Nat /\ DOMAIN q = 1 .. Len(q)
  OBVIOUS
<1>a. /\ SubSeq(q, 1, i - 1) \in Seq(S) /\ Len(SubSeq(q, 1, i - 1)) = i - 1
      /\ \A j \in 1 .. i - 1 : SubSeq(q, 1, i - 1)[j] = q[j]
  BY <1>2
<1>b. /\ SubSeq(q, i + 1, Len(q)) \in Seq(S) /\ Len(SubSeq(q, i + 1, Len(q))) = Len(q) - i
      /\ \A j \in 1 .. Len(q) - i : SubSeq(q, i + 1, Len(q))[j] = q[i + j]
  BY <1>2
<1>c. PICK s : s = SubSeq(q, 1, i - 1)
  OBVIOUS
<1>d. PICK t : t = SubSeq(q, i + 1, Len(q))
  OBVIOUS
<1>e. s \in Seq(S) /\ t \in Seq(S) /\ Len(s) = i - 1 /\ Len(t) = Len(q) - i /\ p = s \o t
  BY <1>a, <1>b, <1>c, <1>d DEF CutAt
<1>f. /\ p \in Seq(S) /\ Len(p) = Len(s) + Len(t)
      /\ \A j \in 1 .. Len(s) : p[j] = s[j]
      /\ \A j \in 1 .. Len(t) : p[Len(s) + j] = t[j]
  <2>1. s \in Seq(S) /\ t \in Seq(S) /\ p = s \o t
    BY <1>e
  <2> QED
    BY <2>1, Joined
<1>3. p \in Seq(S) /\ Len(p) = Len(q) - 1 /\ DOMAIN p = 1 .. Len(q) - 1
  <2>1. Len(p) = Len(q) - 1
    BY <1>2, <1>e, <1>f
  <2> QED
    BY <2>1, <1>f
<1>4. ASSUME NEW j \in 1 .. Len(q) - 1 PROVE p[j] = IF j < i THEN q[j] ELSE q[j + 1]
  <2>1. CASE j < i
    BY <2>1, <1>2, <1>a, <1>c, <1>e, <1>f
  <2>2. CASE ~(j < i)
    <3>1. j - (i - 1) \in 1 .. Len(q) - i /\ i + (j - (i - 1)) = j + 1 /\ (i - 1) + (j - (i - 1)) = j
      BY <2>2, <1>2
    <3>2. p[j] = t[j - (i - 1)]
      BY <3>1, <1>e, <1>f
    <3> QED
      BY <2>2, <3>1, <3>2, <1>b, <1>d
  <2> QED
    BY <2>1, <2>2
<1> QED
  BY <1>3, <1>4

\* The queue p has the operations of q but the i-th.
Rest(q, p, i) ==
  \E f \in [DOMAIN p -> DOMAIN q \ {i}] :
    /\ \A j \in DOMAIN p : p[j] = q[f[j]]
    /\ \A j, k \in DOMAIN p : f[j] = f[k] => j = k
    /\ \A k \in DOMAIN q \ {i} : \E j \in DOMAIN p : f[j] = k

LEMMA RestLeft ==
  ASSUME NEW S, NEW q \in Seq(S), NEW i \in DOMAIN q, NEW p, p = CutAt(q, i)
  PROVE  p \in Seq(S) /\ Rest(q, p, i)
<1>1. /\ p \in Seq(S) /\ Len(p) = Len(q) - 1 /\ DOMAIN p = 1 .. Len(q) - 1
      /\ \A j \in 1 .. Len(q) - 1 : p[j] = IF j < i THEN q[j] ELSE q[j + 1]
  BY Without
<1>2. i \in 1 .. Len(q) /\ Len(q) \in Nat /\ DOMAIN q = 1 .. Len(q)
  OBVIOUS
<1> DEFINE f == [j \in DOMAIN p |-> IF j < i THEN j ELSE j + 1]
<1>3. f \in [DOMAIN p -> DOMAIN q \ {i}]
  BY <1>1, <1>2
<1>4. \A j \in DOMAIN p : p[j] = q[f[j]]
  BY <1>1, <1>2
<1>5. \A j, k \in DOMAIN p : f[j] = f[k] => j = k
  BY <1>1, <1>2
<1>6. ASSUME NEW k \in DOMAIN q \ {i} PROVE \E j \in DOMAIN p : f[j] = k
  <2>1. CASE k < i
    BY <1>1, <1>2, <2>1
  <2>2. CASE k > i
    <3>1. k - 1 \in DOMAIN p /\ f[k - 1] = k
      BY <1>1, <1>2, <2>2
    <3> QED
      BY <3>1
  <2> QED
    BY <1>2, <2>1, <2>2
<1> QED
  BY <1>1, <1>3, <1>4, <1>5, <1>6 DEF Rest

-----------------------------------------------------------------------------
(* Queues of operations that may overlap.                                  *)

\* An operation of the queue q that nothing has overlapped has the work to itself.
Alone(q) == \A i, j \in DOMAIN q : i # j /\ q[i].pc # "pending" /\ q[i].alone => q[j].pc = "pending"

\* A request puts its operation behind the others.
LEMMA OneMore ==
  ASSUME NEW S, NEW q \in Seq(S), NEW o \in S, NEW p, p = Append(q, o)
  PROVE  /\ p \in Seq(S) /\ DOMAIN p = DOMAIN q \cup {Len(q) + 1} /\ Len(q) + 1 \notin DOMAIN q
         /\ p[Len(q) + 1] = o /\ \A j \in DOMAIN q : p[j] = q[j]
OBVIOUS

\* An operation that is over.
LEMMA Taken ==
  ASSUME NEW S, NEW q \in Seq(S), NEW i \in DOMAIN q, NEW p, p = CutAt(q, i), Alone(q)
  PROVE  /\ p \in Seq(S) /\ Alone(p)
         /\ \A j \in DOMAIN p : \E k \in DOMAIN q \ {i} : p[j] = q[k]
         /\ \A k \in DOMAIN q \ {i} : \E j \in DOMAIN p : p[j] = q[k]
<1>1. p \in Seq(S) /\ Rest(q, p, i)
  BY RestLeft
<1>2. PICK f \in [DOMAIN p -> DOMAIN q \ {i}] :
        /\ \A j \in DOMAIN p : p[j] = q[f[j]]
        /\ \A j, k \in DOMAIN p : f[j] = f[k] => j = k
        /\ \A k \in DOMAIN q \ {i} : \E j \in DOMAIN p : f[j] = k
  BY <1>1 DEF Rest
<1>3. Alone(p)
  BY <1>2 DEF Alone
<1> QED
  BY <1>1, <1>2, <1>3

\* An operation goes on.
WentOn(q, p, i, o) == p = [q EXCEPT ![i] = o]

LEMMA OneStep ==
  ASSUME NEW S, NEW q \in Seq(S), NEW i \in DOMAIN q, NEW o \in S, NEW p, WentOn(q, p, i, o),
         Alone(q), q[i].pc # "pending", o.pc # "pending" => o.alone = q[i].alone
  PROVE  /\ p \in Seq(S) /\ Alone(p) /\ DOMAIN p = DOMAIN q
         /\ \A j \in DOMAIN q : p[j] = IF j = i THEN o ELSE q[j]
<1>1. /\ p \in Seq(S) /\ DOMAIN p = DOMAIN q
      /\ \A j \in DOMAIN q : p[j] = IF j = i THEN o ELSE q[j]
  BY DEF WentOn
<1> QED
  BY <1>1 DEF Alone

\* One that begins spoils those at work, which spoil it.
Spoilt(r) == [r EXCEPT !.alone = FALSE]
Begun(q, p, i, o) ==
  p = [j \in DOMAIN q |-> IF j = i THEN o ELSE IF q[j].pc # "pending" THEN Spoilt(q[j]) ELSE q[j]]

LEMMA OneBegins ==
  ASSUME NEW S, \A r \in S : Spoilt(r) \in S /\ Spoilt(r).pc = r.pc /\ ~Spoilt(r).alone,
         NEW q \in Seq(S), NEW i \in DOMAIN q, NEW o \in S, NEW p, Begun(q, p, i, o),
         o.alone <=> \A j \in DOMAIN q : j # i => q[j].pc = "pending"
  PROVE  /\ p \in Seq(S) /\ Alone(p) /\ DOMAIN p = DOMAIN q /\ p[i] = o
         /\ \A j \in DOMAIN q \ {i} : p[j].pc = q[j].pc /\ (p[j].pc # "pending" => ~p[j].alone)
         /\ \A j \in DOMAIN q \ {i} : p[j] = IF q[j].pc # "pending" THEN Spoilt(q[j]) ELSE q[j]
<1>1. \E n \in Nat : DOMAIN q = 1 .. n
  OBVIOUS
<1>2. \A j \in DOMAIN q : q[j] \in S
  OBVIOUS
<1>3. p \in [DOMAIN q -> S]
  BY <1>2 DEF Begun
<1>4. p \in Seq(S) /\ DOMAIN p = DOMAIN q
  BY <1>1, <1>3
<1>5. /\ p[i] = o
      /\ \A j \in DOMAIN q \ {i} : p[j] = IF q[j].pc # "pending" THEN Spoilt(q[j]) ELSE q[j]
  BY DEF Begun
<1>6. \A j \in DOMAIN q \ {i} : p[j].pc = q[j].pc /\ (p[j].pc # "pending" => ~p[j].alone)
  BY <1>2, <1>5
<1>7. Alone(p)
  BY <1>4, <1>5, <1>6 DEF Alone
<1> QED
  BY <1>4, <1>5, <1>6, <1>7

-----------------------------------------------------------------------------
(* The groups of global channels.                                          *)

CONSTANTS Orgs, Tiers, Sessions, MaxChanges, MaxFaults
VARIABLES home, access, joined, switches, ops, used, marks

Access == INSTANCE ChannelAccess WITH web <- switches, past <- marks

FlagType == [pc : {"idle", "update", "publish"}, org : Orgs \cup {Access!NoOrg},
             tier : Tiers \cup {Access!NoTier}, on : BOOLEAN, saw : BOOLEAN]
AssignType == [kind : {"resync", "assign"}, pc : {"pending", "placed", "resolved", "apply"},
               org : Orgs \cup {Access!NoOrg}, add : SUBSET Access!Groups, drop : SUBSET Access!Groups, alone : BOOLEAN]
\* What requests and faults are counted in, and what is excused.
UseType == [changes : 0 .. MaxChanges, faults : 0 .. MaxFaults]
PastType == [missed : BOOLEAN, crossed : BOOLEAN]

AccessTyped ==
  /\ home \in Orgs \cup {Access!NoOrg}
  /\ access \subseteq Orgs \X Tiers
  /\ joined \subseteq Access!Groups
  /\ switches \in [Sessions -> FlagType]
  /\ \A s \in Sessions : switches[s].pc # "idle" => switches[s].org \in Orgs /\ switches[s].tier \in Tiers
  /\ ops \in Seq(AssignType)
  /\ used \in UseType
  /\ marks \in PastType

\* The records of the user in organisation h are still to be read, for an
\* operation that waits or one that the sessions w have to publish.
Reread(q, h, w) ==
  \/ \E i \in DOMAIN q : q[i].pc = "pending" /\ (q[i].kind = "assign" \/ q[i].org = h)
  \/ \E s \in Sessions : w[s].pc = "publish" /\ w[s].org = h

\* Where the operation o leads from the groups g is where the records lead.
LeadsTo(o, h, g, wanted) ==
  /\ o.pc = "placed" => o.org = h
  /\ o.pc = "resolved" => o.add = wanted
  /\ o.pc = "apply" => (g \cup o.add) \ o.drop = wanted /\ o.add \cap o.drop = {}

AllRead(q, h, g, wanted, crossed) ==
  /\ \A i \in DOMAIN q : q[i].pc # "pending" /\ q[i].alone => LeadsTo(q[i], h, g, wanted)
  /\ (\A i \in DOMAIN q : q[i].pc = "pending") /\ ~crossed => g = wanted

AccessInv ==
  /\ AccessTyped /\ Alone(ops)
  /\ marks.missed \/ Reread(ops, home, switches) \/ AllRead(ops, home, joined, Access!Wanted(home), marks.crossed)

ChangeBounds == MaxChanges \in Nat /\ MaxFaults \in Nat

LEMMA SameCut == \A q, i : Access!RemoveAt(q, i) = CutAt(q, i)
BY DEF Access!RemoveAt, CutAt

LEMMA AccessInvHolds == AccessInv => Access!GlobalAccessSound
<1> SUFFICES ASSUME AccessInv PROVE Access!TypeOK /\ Access!GlobalAccessFollows
  BY DEF Access!GlobalAccessSound
<1>1. Access!TypeOK
  <2>1. \A i \in DOMAIN ops : ops[i] \in AssignType
    BY DEF AccessInv, AccessTyped
  <2> QED
    BY <2>1 DEF AccessInv, AccessTyped, Access!TypeOK, FlagType, AssignType, UseType, PastType
<1>2. ASSUME Access!Quiet, ~marks.missed, ~marks.crossed PROVE joined = Access!Wanted(home)
  <2>1. DOMAIN ops = {} /\ \A s \in Sessions : switches[s].pc # "publish"
    BY <1>2 DEF Access!Quiet
  <2> QED
    BY <1>2, <2>1 DEF AccessInv, Reread, AllRead
<1> QED
  BY <1>1, <1>2 DEF Access!GlobalAccessFollows

LEMMA AccessStart == ASSUME ChangeBounds PROVE Access!Init => AccessInv
BY DEF ChangeBounds, Access!Init, AccessInv, AccessTyped, Alone, FlagType, AssignType, UseType, PastType, Access!Idle, Access!Groups

LEMMA Appended ==
  ASSUME NEW q \in Seq(AssignType), NEW o \in AssignType, o.pc = "pending", NEW p, p = Append(q, o), Alone(q)
  PROVE  /\ p \in Seq(AssignType) /\ Alone(p)
         /\ \A h, w : Reread(q, h, w) => Reread(p, h, w)
         /\ \A h, w : o.kind = "assign" \/ o.org = h => Reread(p, h, w)
<1>1. /\ p \in Seq(AssignType) /\ DOMAIN p = DOMAIN q \cup {Len(q) + 1} /\ Len(q) + 1 \notin DOMAIN q
      /\ p[Len(q) + 1] = o /\ \A j \in DOMAIN q : p[j] = q[j]
  BY OneMore
<1> QED
  BY <1>1 DEF Alone, Reread

LEMMA ReadAgain ==
  ASSUME NEW q \in Seq(AssignType), NEW o \in AssignType, o.pc = "pending", NEW p, p = Append(q, o)
  PROVE  \A h, g, wanted, crossed : AllRead(q, h, g, wanted, crossed) => AllRead(p, h, g, wanted, crossed)
<1>1. /\ DOMAIN p = DOMAIN q \cup {Len(q) + 1}
      /\ p[Len(q) + 1] = o /\ \A j \in DOMAIN q : p[j] = q[j]
  BY OneMore
<1> QED
  BY <1>1 DEF AllRead

\* A bound is counted towards.
LEMMA Spends ==
  ASSUME ChangeBounds, NEW u \in UseType, NEW v,
         \/ u.changes < MaxChanges /\ v = [u EXCEPT !.changes = @ + 1]
         \/ u.faults < MaxFaults /\ v = [u EXCEPT !.faults = @ + 1]
  PROVE  v \in UseType
<1>1. CASE u.changes < MaxChanges /\ v = [u EXCEPT !.changes = @ + 1]
  <2>1. u.changes + 1 \in 0 .. MaxChanges
    BY <1>1 DEF ChangeBounds, UseType
  <2> QED
    BY <1>1, <2>1 DEF UseType
<1>2. CASE u.faults < MaxFaults /\ v = [u EXCEPT !.faults = @ + 1]
  <2>1. u.faults + 1 \in 0 .. MaxFaults
    BY <1>2 DEF ChangeBounds, UseType
  <2> QED
    BY <1>2, <2>1 DEF UseType
<1> QED
  BY <1>1, <1>2

LEMMA UseCounts ==
  ASSUME ChangeBounds, used \in UseType, Access!Change \/ Access!Fault PROVE used' \in UseType
BY Spends DEF Access!Change, Access!Fault

LEMMA Missing ==
  ASSUME marks \in PastType, Access!Missed PROVE marks' \in PastType /\ marks'.missed
BY DEF Access!Missed, PastType

LEMMA FlagRead ==
  ASSUME ChangeBounds, AccessInv, NEW s \in Sessions, NEW o \in Orgs, NEW t \in Tiers, NEW on \in BOOLEAN,
         Access!ReadFlag(s, o, t, on)
  PROVE  AccessInv'
<1>0. AccessTyped /\ switches[s].pc = "idle"
  BY DEF AccessInv, Access!ReadFlag
<1>a. PICK r : r = [pc |-> "update", org |-> o, tier |-> t, on |-> on, saw |-> Access!Has(o, t)]
  OBVIOUS
<1>b. Access!Has(o, t) \in BOOLEAN
  BY DEF Access!Has
<1>1. r \in FlagType /\ switches' = [switches EXCEPT ![s] = r] /\ r.pc = "update" /\ r.org = o /\ r.tier = t
  BY <1>a, <1>b DEF Access!ReadFlag, FlagType
<1>2. /\ UNCHANGED <<home, access, joined, ops, marks>>
      /\ used' \in UseType
  BY <1>0, UseCounts DEF Access!ReadFlag, AccessTyped
<1>3. switches' \in [Sessions -> FlagType] /\ \A v \in Sessions : switches'[v] = IF v = s THEN r ELSE switches[v]
  BY <1>0, <1>1 DEF AccessTyped
<1>4. AccessTyped'
  BY <1>0, <1>1, <1>2, <1>3 DEF AccessTyped
<1>5. Reread(ops, home, switches) => Reread(ops, home, switches')
  BY <1>0, <1>3 DEF Reread
<1> QED
  BY <1>2, <1>4, <1>5 DEF AccessInv, Access!Wanted

LEMMA FlagUpdated ==
  ASSUME ChangeBounds, AccessInv, NEW s \in Sessions, Access!UpdateFlag(s)
  PROVE  AccessInv'
<1>0. AccessTyped /\ switches[s].pc = "update"
  BY DEF AccessInv, Access!UpdateFlag
<1>1. PICK r : r = switches[s]
  OBVIOUS
<1>2. r \in FlagType /\ r.pc = "update" /\ r.org \in Orgs /\ r.tier \in Tiers
  BY <1>0, <1>1 DEF AccessTyped
<1>3. PICK w \in FlagType : /\ switches' = [switches EXCEPT ![s] = w]
                            /\ IF r.on # r.saw THEN w.pc = "publish" /\ w.org = r.org /\ w.tier = r.tier ELSE w.pc = "idle"
  <2>1. switches' = [switches EXCEPT ![s] = IF r.on # r.saw THEN [r EXCEPT !.pc = "publish"] ELSE Access!Idle]
    BY <1>1 DEF Access!UpdateFlag, Access!Changed
  <2>2. [r EXCEPT !.pc = "publish"] \in FlagType /\ Access!Idle \in FlagType /\ Access!Idle.pc = "idle"
    BY <1>2 DEF FlagType, Access!Idle
  <2> QED
    BY <1>2, <2>1, <2>2 DEF FlagType
<1>4. /\ UNCHANGED <<home, joined, ops, used>>
      /\ access' = IF r.on THEN access \cup {<<r.org, r.tier>>} ELSE access \ {<<r.org, r.tier>>}
      /\ marks' = IF r.saw = (<<r.org, r.tier>> \in access) THEN marks ELSE [marks EXCEPT !.missed = TRUE]
  BY <1>1 DEF Access!UpdateFlag, Access!Has
<1>5. switches' \in [Sessions -> FlagType] /\ \A v \in Sessions : switches'[v] = IF v = s THEN w ELSE switches[v]
  BY <1>0, <1>3 DEF AccessTyped
<1>6. AccessTyped'
  <2>1. access' \subseteq Orgs \X Tiers
    BY <1>0, <1>2, <1>4 DEF AccessTyped
  <2>2. marks' \in PastType
    BY <1>0, <1>4 DEF AccessTyped, PastType
  <2>3. \A v \in Sessions : switches'[v].pc # "idle" => switches'[v].org \in Orgs /\ switches'[v].tier \in Tiers
    BY <1>0, <1>2, <1>3, <1>5 DEF AccessTyped
  <2> QED
    BY <1>0, <1>4, <1>5, <2>1, <2>2, <2>3 DEF AccessTyped
<1>7. Reread(ops, home, switches) => Reread(ops, home, switches')
  BY <1>0, <1>5 DEF Reread
<1>8. CASE r.saw # (<<r.org, r.tier>> \in access)
  <2>1. marks'.missed
    BY <1>0, <1>4, <1>8 DEF AccessTyped
  <2> QED
    BY <1>4, <1>6, <2>1 DEF AccessInv
<1>9. CASE r.saw = (<<r.org, r.tier>> \in access)
  <2>1. marks' = marks
    BY <1>4, <1>9
  <2>2. CASE r.on # r.saw /\ r.org = home
    <3>1. Reread(ops, home, switches')
      BY <1>3, <1>5, <2>2 DEF Reread
    <3> QED
      BY <1>4, <1>6, <3>1 DEF AccessInv
  <2>3. CASE r.on = r.saw \/ r.org # home
    <3>1. \A t \in Tiers : <<home, t>> \in access' <=> <<home, t>> \in access
      <4>1. CASE r.on = r.saw
        <5>1. access' = access
          BY <1>4, <1>9, <1>2, <4>1 DEF FlagType
        <5> QED
          BY <5>1
      <4>2. CASE r.org # home
        BY <1>4, <4>2
      <4> QED
        BY <2>3, <4>1, <4>2
    <3>2. Access!Wanted(home)' = Access!Wanted(home)
      BY <1>4, <3>1 DEF Access!Wanted
    <3> QED
      BY <1>4, <1>6, <1>7, <2>1, <3>2 DEF AccessInv
  <2> QED
    BY <2>2, <2>3
<1> QED
  BY <1>8, <1>9

LEMMA ResyncPublished ==
  ASSUME ChangeBounds, AccessInv, NEW s \in Sessions, Access!PublishResync(s)
  PROVE  AccessInv'
<1>0. AccessTyped /\ switches[s].pc = "publish" /\ switches[s].org \in Orgs
  BY DEF AccessInv, Access!PublishResync, AccessTyped
<1>1. UNCHANGED <<home, access, joined>> /\ switches' = [switches EXCEPT ![s] = Access!Idle]
  BY DEF Access!PublishResync
<1>2. switches' \in [Sessions -> FlagType] /\ \A v \in Sessions : switches'[v] = IF v = s THEN Access!Idle ELSE switches[v]
  <2>1. Access!Idle \in FlagType
    BY DEF Access!Idle, FlagType
  <2> QED
    BY <1>0, <1>1, <2>1 DEF AccessTyped
<1>3. \A v \in Sessions : switches'[v].pc # "idle" => switches'[v].org \in Orgs /\ switches'[v].tier \in Tiers
  BY <1>0, <1>2 DEF AccessTyped, Access!Idle
<1>4. CASE ops' = Append(ops, Access!Op("resync", switches[s].org)) /\ UNCHANGED <<used, marks>>
  <2>1. PICK o : o = Access!Op("resync", switches[s].org)
    OBVIOUS
  <2>2. o \in AssignType /\ o.pc = "pending" /\ o.org = switches[s].org /\ ops' = Append(ops, o)
    BY <1>0, <1>4, <2>1 DEF Access!Op, AssignType
  <2>3. ops \in Seq(AssignType) /\ Alone(ops)
    BY DEF AccessInv, AccessTyped
  <2>4. PICK p : p = ops'
    OBVIOUS
  <2>5. /\ p \in Seq(AssignType) /\ Alone(p)
        /\ \A h, w : Reread(ops, h, w) => Reread(p, h, w)
        /\ \A h, w : o.org = h => Reread(p, h, w)
    BY <2>2, <2>3, <2>4, Appended
  <2>6. \A h, g, wanted, crossed : AllRead(ops, h, g, wanted, crossed) => AllRead(p, h, g, wanted, crossed)
    BY <2>2, <2>3, <2>4, ReadAgain
  <2>7. Reread(ops, home, switches) => Reread(p, home, switches')
    <3>1. Reread(ops, home, switches) /\ switches[s].org # home => Reread(ops, home, switches')
      BY <1>0, <1>2 DEF Reread
    <3> QED
      BY <3>1, <2>2, <2>5
  <2>8. AccessTyped'
    BY <1>0, <1>1, <1>2, <1>3, <1>4, <2>4, <2>5 DEF AccessTyped
  <2> QED
    BY <1>1, <1>4, <2>4, <2>5, <2>6, <2>7, <2>8 DEF AccessInv, Access!Wanted
<1>5. CASE Access!Fault /\ Access!Missed /\ UNCHANGED ops
  <2>1. /\ used' \in UseType
        /\ marks' \in PastType /\ marks'.missed
    BY <1>0, <1>5, UseCounts, Missing DEF AccessTyped
  <2>2. AccessTyped'
    BY <1>0, <1>1, <1>2, <1>3, <1>5, <2>1 DEF AccessTyped
  <2> QED
    BY <1>5, <2>1, <2>2 DEF AccessInv
<1> QED
  BY <1>4, <1>5 DEF Access!PublishResync

\* An assignment is asked for.
LEMMA AssignmentAsked ==
  ASSUME ChangeBounds, AccessInv, home' \in Orgs \cup {Access!NoOrg}, UNCHANGED <<access, joined, switches, marks>>, Access!Change,
         ops' = Append(ops, Access!Op("assign", Access!NoOrg))
  PROVE  AccessInv'
<1>1. PICK o : o = Access!Op("assign", Access!NoOrg)
  OBVIOUS
<1>2. o \in AssignType /\ o.pc = "pending" /\ o.kind = "assign" /\ ops' = Append(ops, o)
  BY <1>1 DEF Access!Op, AssignType
<1>3. PICK p : p = ops'
  OBVIOUS
<1>4. p \in Seq(AssignType) /\ Alone(p) /\ \A h, w : Reread(p, h, w)
  <2>1. ops \in Seq(AssignType) /\ Alone(ops)
    BY DEF AccessInv, AccessTyped
  <2> QED
    BY <1>2, <1>3, <2>1, Appended
<1>5. AccessTyped'
  BY <1>3, <1>4, UseCounts DEF AccessInv, AccessTyped
<1> QED
  BY <1>3, <1>4, <1>5 DEF AccessInv

LEMMA UserLeaves ==
  ASSUME ChangeBounds, AccessInv, Access!Leave PROVE AccessInv'
<1>1. UNCHANGED <<access, joined, switches, ops>> /\ home' = Access!NoOrg
  BY DEF Access!Leave
<1>2. /\ used' \in UseType
      /\ marks' \in PastType /\ marks'.missed
  BY UseCounts, Missing DEF Access!Leave, AccessInv, AccessTyped
<1> QED
  BY <1>1, <1>2 DEF AccessInv, AccessTyped

LEMMA OrganisationResynced ==
  ASSUME ChangeBounds, AccessInv, NEW i \in DOMAIN ops, Access!Resync(i) PROVE AccessInv'
<1>0. AccessTyped /\ ops[i].pc = "pending" /\ UNCHANGED <<home, access, joined, switches, used, marks>>
  BY DEF AccessInv, Access!Resync, Access!Is
<1>1. PICK q : q = ops
  OBVIOUS
<1>2. PICK r : r = Access!RemoveAt(q, i)
  OBVIOUS
<1>3. q \in Seq(AssignType) /\ Alone(q) /\ i \in DOMAIN q
  BY <1>1 DEF AccessInv, AccessTyped
<1>4. /\ r \in Seq(AssignType) /\ Alone(r)
      /\ \A j \in DOMAIN r : \E k \in DOMAIN q \ {i} : r[j] = q[k]
      /\ \A k \in DOMAIN q \ {i} : \E j \in DOMAIN r : r[j] = q[k]
  BY <1>2, <1>3, Taken, SameCut
<1>5. PICK p : p = ops'
  OBVIOUS
<1>6. CASE home = q[i].org
  <2>1. PICK o : o = Access!Op("assign", Access!NoOrg)
    OBVIOUS
  <2>2. o \in AssignType /\ o.pc = "pending" /\ o.kind = "assign" /\ p = Append(r, o)
    BY <1>1, <1>2, <1>5, <1>6, <2>1 DEF Access!Resync, Access!Op, AssignType
  <2>3. p \in Seq(AssignType) /\ Alone(p) /\ \A h, w : Reread(p, h, w)
    BY <1>4, <2>2, Appended
  <2>4. AccessTyped'
    BY <1>0, <1>5, <2>3 DEF AccessTyped
  <2> QED
    BY <1>5, <2>3, <2>4 DEF AccessInv
<1>7. CASE home # q[i].org
  <2>1. p = r
    BY <1>1, <1>2, <1>5, <1>7 DEF Access!Resync
  <2>2. AccessTyped'
    BY <1>0, <1>5, <1>4, <2>1 DEF AccessTyped
  <2>3. Reread(q, home, switches) => Reread(r, home, switches)
    <3>1. q[i].kind = "resync"
      BY <1>1 DEF Access!Resync
    <3> QED
      BY <1>4, <1>7, <3>1 DEF Reread
  <2>4. \A h, g, wanted, crossed : AllRead(q, h, g, wanted, crossed) => AllRead(r, h, g, wanted, crossed)
    <3>1. q[i].pc = "pending"
      BY <1>0, <1>1
    <3> QED
      BY <1>4, <3>1 DEF AllRead
  <2> QED
    BY <1>0, <1>1, <1>4, <1>5, <2>1, <2>2, <2>3, <2>4 DEF AccessInv, Access!Wanted
<1> QED
  BY <1>6, <1>7

LEMMA HomeRead ==
  ASSUME ChangeBounds, AccessInv, NEW i \in DOMAIN ops, Access!ReadHome(i) PROVE AccessInv'
<1>0. AccessTyped /\ ops[i].pc = "pending" /\ UNCHANGED <<home, access, joined, switches, used>>
  BY DEF AccessInv, Access!ReadHome, Access!Is
<1>1. PICK q : q = ops
  OBVIOUS
<1>2. q \in Seq(AssignType) /\ Alone(q) /\ i \in DOMAIN q /\ q[i] \in AssignType /\ q[i].pc = "pending"
  BY <1>0, <1>1 DEF AccessInv, AccessTyped
<1>3. PICK p : p = ops'
  OBVIOUS
<1>4. PICK o : o = [[q[i] EXCEPT !.pc = "placed", !.org = home] EXCEPT !.alone = ~Access!Others(i)]
  OBVIOUS
<1>5. o \in AssignType /\ o.pc = "placed" /\ o.org = home /\ (o.alone <=> \A j \in DOMAIN q : j # i => q[j].pc = "pending")
  <2>1. Access!Others(i) \in BOOLEAN /\ (~Access!Others(i) <=> \A j \in DOMAIN q : j # i => q[j].pc = "pending")
    BY <1>1 DEF Access!Others, Access!AtWork
  <2>2. home \in Orgs \cup {Access!NoOrg}
    BY <1>0 DEF AccessTyped
  <2> QED
    BY <1>2, <1>4, <2>1, <2>2 DEF AssignType
<1>6. Begun(q, p, i, o)
  BY <1>1, <1>3, <1>4 DEF Access!ReadHome, Access!Begins, Access!AtWork, Begun, Spoilt
<1>7. \A r \in AssignType : Spoilt(r) \in AssignType /\ Spoilt(r).pc = r.pc /\ ~Spoilt(r).alone
  BY DEF AssignType, Spoilt
<1>8. /\ p \in Seq(AssignType) /\ Alone(p) /\ DOMAIN p = DOMAIN q /\ p[i] = o
      /\ \A j \in DOMAIN q \ {i} : p[j].pc = q[j].pc /\ (p[j].pc # "pending" => ~p[j].alone)
  BY <1>2, <1>5, <1>6, <1>7, OneBegins
<1>10. marks' \in PastType
  BY <1>0 DEF Access!ReadHome, AccessTyped, PastType
<1>11. AllRead(p, home, joined, Access!Wanted(home), marks'.crossed)
  BY <1>2, <1>5, <1>8 DEF AllRead, LeadsTo
<1>12. AccessTyped'
  BY <1>0, <1>3, <1>8, <1>10 DEF AccessTyped
<1> QED
  BY <1>0, <1>3, <1>8, <1>11, <1>12 DEF AccessInv, Access!Wanted

LEMMA FlagsRead ==
  ASSUME ChangeBounds, AccessInv, NEW i \in DOMAIN ops, Access!ReadFlags(i) PROVE AccessInv'
<1>0. AccessTyped /\ ops[i].pc = "placed" /\ UNCHANGED <<home, access, joined, switches, used, marks>>
  BY DEF AccessInv, Access!ReadFlags, Access!Is
<1>1. PICK q : q = ops
  OBVIOUS
<1>2. q \in Seq(AssignType) /\ Alone(q) /\ i \in DOMAIN q /\ q[i] \in AssignType /\ q[i].pc = "placed"
  BY <1>0, <1>1 DEF AccessInv, AccessTyped
<1>3. PICK p : p = ops'
  OBVIOUS
<1>4. PICK wanted : wanted = Access!Wanted(q[i].org)
  OBVIOUS
<1>5. PICK o : o = [q[i] EXCEPT !.pc = "resolved", !.add = wanted]
  OBVIOUS
<1>6. o \in AssignType /\ o.pc = "resolved" /\ o.add = wanted /\ o.alone = q[i].alone
  <2>1. wanted \in SUBSET Access!Groups
    BY <1>4 DEF Access!Wanted, Access!Groups
  <2> QED
    BY <1>2, <1>5, <2>1 DEF AssignType
<1>7. WentOn(q, p, i, o)
  BY <1>1, <1>3, <1>4, <1>5 DEF Access!ReadFlags, Access!Set, WentOn
<1>8. /\ p \in Seq(AssignType) /\ Alone(p) /\ DOMAIN p = DOMAIN q
      /\ \A j \in DOMAIN q : p[j] = IF j = i THEN o ELSE q[j]
      /\ \A h, w : Reread(q, h, w) => Reread(p, h, w)
  <2>1. /\ p \in Seq(AssignType) /\ Alone(p) /\ DOMAIN p = DOMAIN q
        /\ \A j \in DOMAIN q : p[j] = IF j = i THEN o ELSE q[j]
    BY <1>2, <1>6, <1>7, OneStep
  <2> QED
    BY <1>2, <2>1 DEF Reread
<1>9. \A g, crossed : AllRead(q, home, g, Access!Wanted(home), crossed) => AllRead(p, home, g, Access!Wanted(home), crossed)
  BY <1>2, <1>4, <1>6, <1>8 DEF AllRead, LeadsTo
<1>10. AccessTyped'
  BY <1>0, <1>3, <1>8 DEF AccessTyped
<1> QED
  BY <1>0, <1>1, <1>3, <1>8, <1>9, <1>10 DEF AccessInv, Access!Wanted

LEMMA CurrentRead ==
  ASSUME ChangeBounds, AccessInv, NEW i \in DOMAIN ops, Access!ReadCurrent(i) PROVE AccessInv'
<1>0. AccessTyped /\ ops[i].pc = "resolved" /\ UNCHANGED <<home, access, joined, switches, used, marks>>
  BY DEF AccessInv, Access!ReadCurrent, Access!Is
<1>1. PICK q : q = ops
  OBVIOUS
<1>2. q \in Seq(AssignType) /\ Alone(q) /\ i \in DOMAIN q /\ q[i] \in AssignType /\ q[i].pc = "resolved"
  BY <1>0, <1>1 DEF AccessInv, AccessTyped
<1>3. PICK p : p = ops'
  OBVIOUS
<1>4. PICK a, d : a = q[i].add \ joined /\ d = joined \ q[i].add
  OBVIOUS
<1>5. PICK o : o = [q[i] EXCEPT !.pc = "apply", !.add = a, !.drop = d]
  OBVIOUS
<1>6. o \in AssignType /\ o.pc = "apply" /\ o.add = a /\ o.drop = d /\ o.alone = q[i].alone
  <2>1. a \in SUBSET Access!Groups /\ d \in SUBSET Access!Groups
    BY <1>0, <1>2, <1>4 DEF AccessTyped, AssignType
  <2> QED
    BY <1>2, <1>5, <2>1 DEF AssignType
<1>7. WentOn(q, p, i, o)
  <2>1. [q[i] EXCEPT !.pc = "apply", !.add = @ \ joined, !.drop = joined \ q[i].add] = o
    BY <1>2, <1>4, <1>5 DEF AssignType
  <2> QED
    BY <1>1, <1>3, <2>1 DEF Access!ReadCurrent, Access!Set, WentOn
<1>8. /\ p \in Seq(AssignType) /\ Alone(p) /\ DOMAIN p = DOMAIN q
      /\ \A j \in DOMAIN q : p[j] = IF j = i THEN o ELSE q[j]
      /\ \A h, w : Reread(q, h, w) => Reread(p, h, w)
  <2>1. /\ p \in Seq(AssignType) /\ Alone(p) /\ DOMAIN p = DOMAIN q
        /\ \A j \in DOMAIN q : p[j] = IF j = i THEN o ELSE q[j]
    BY <1>2, <1>6, <1>7, OneStep
  <2> QED
    BY <1>2, <2>1 DEF Reread
<1>9. \A wanted, crossed : AllRead(q, home, joined, wanted, crossed) => AllRead(p, home, joined, wanted, crossed)
  <2>1. (joined \cup a) \ d = q[i].add /\ a \cap d = {}
    BY <1>4
  <2> QED
    BY <1>2, <1>6, <1>8, <2>1 DEF AllRead, LeadsTo
<1>10. AccessTyped'
  BY <1>0, <1>3, <1>8 DEF AccessTyped
<1> QED
  BY <1>0, <1>1, <1>3, <1>8, <1>9, <1>10 DEF AccessInv, Access!Wanted

LEMMA AssignmentRetried ==
  ASSUME ChangeBounds, AccessInv, NEW i \in DOMAIN ops, Access!Retry(i) PROVE AccessInv'
<1>0. /\ AccessTyped /\ ops[i].pc # "pending" /\ UNCHANGED <<home, access, joined, switches, marks>>
      /\ ops' = [ops EXCEPT ![i] = Access!Op("assign", Access!NoOrg)] /\ used' \in UseType
  BY UseCounts DEF AccessInv, Access!Retry, Access!Set, AccessTyped
<1>1. PICK q, p, o : q = ops /\ p = ops' /\ o = Access!Op("assign", Access!NoOrg)
  OBVIOUS
<1>2. q \in Seq(AssignType) /\ Alone(q) /\ i \in DOMAIN q /\ q[i].pc # "pending" /\ WentOn(q, p, i, o)
  BY <1>0, <1>1 DEF AccessInv, AccessTyped, WentOn
<1>3. o \in AssignType /\ o.pc = "pending" /\ o.kind = "assign"
  BY <1>1 DEF Access!Op, AssignType
<1>4. /\ p \in Seq(AssignType) /\ Alone(p) /\ DOMAIN p = DOMAIN q
      /\ \A j \in DOMAIN q : p[j] = IF j = i THEN o ELSE q[j]
  BY <1>2, <1>3, OneStep
<1>5. Reread(p, home, switches)
  BY <1>2, <1>3, <1>4 DEF Reread
<1>6. AccessTyped'
  BY <1>0, <1>1, <1>4 DEF AccessTyped
<1> QED
  BY <1>0, <1>1, <1>4, <1>5, <1>6 DEF AccessInv

LEMMA AssignmentGivenUp ==
  ASSUME ChangeBounds, AccessInv, NEW i \in DOMAIN ops, Access!GiveUp(i) PROVE AccessInv'
<1>0. AccessTyped /\ UNCHANGED <<home, access, joined, switches>> /\ used' \in UseType /\ marks' \in PastType /\ marks'.missed
  BY UseCounts, Missing DEF AccessInv, Access!GiveUp, AccessTyped
<1>1. PICK q, p : q = ops /\ p = ops'
  OBVIOUS
<1>2. q \in Seq(AssignType) /\ Alone(q) /\ i \in DOMAIN q /\ p = Access!RemoveAt(q, i)
  BY <1>0, <1>1 DEF AccessInv, AccessTyped, Access!GiveUp
<1>3. p \in Seq(AssignType) /\ Alone(p)
  BY <1>2, Taken, SameCut
<1>4. AccessTyped'
  BY <1>0, <1>1, <1>3 DEF AccessTyped
<1> QED
  BY <1>0, <1>1, <1>3, <1>4 DEF AccessInv

\* An assignment with nothing left to call for is over.
LEMMA AssignmentEnds ==
  ASSUME ChangeBounds, AccessInv, NEW i \in DOMAIN ops, ops[i].pc = "apply", ops[i].add \cup ops[i].drop = {},
         UNCHANGED <<home, access, joined, switches, used>>, ops' = Access!RemoveAt(ops, i),
         marks' = [marks EXCEPT !.crossed = ~ops[i].alone]
  PROVE  AccessInv'
<1>1. PICK q, p : q = ops /\ p = ops'
  OBVIOUS
<1>2. /\ AccessTyped /\ q \in Seq(AssignType) /\ Alone(q) /\ i \in DOMAIN q /\ q[i] \in AssignType
      /\ p = Access!RemoveAt(q, i)
  BY <1>1 DEF AccessInv, AccessTyped
<1>3. /\ p \in Seq(AssignType) /\ Alone(p)
      /\ \A j \in DOMAIN p : \E k \in DOMAIN q \ {i} : p[j] = q[k]
      /\ \A k \in DOMAIN q \ {i} : \E j \in DOMAIN p : p[j] = q[k]
  BY <1>2, Taken, SameCut
<1>4. marks' \in PastType /\ marks'.missed = marks.missed /\ marks'.crossed = ~q[i].alone
  BY <1>1, <1>2 DEF AccessTyped, PastType, AssignType
<1>5. Reread(q, home, switches) => Reread(p, home, switches)
  BY <1>1, <1>3 DEF Reread
<1>6. \A wanted : AllRead(q, home, joined, wanted, marks.crossed) => AllRead(p, home, joined, wanted, marks'.crossed)
  <2>1. q[i].pc = "apply" /\ q[i].add = {} /\ q[i].drop = {}
    BY <1>1
  <2>2. \A wanted : q[i].alone /\ AllRead(q, home, joined, wanted, marks.crossed) => joined = wanted
    BY <1>2, <2>1 DEF AllRead, LeadsTo
  <2> QED
    BY ZenonT(40), <1>3, <1>4, <2>2 DEF AllRead
<1>7. AccessTyped'
  BY <1>1, <1>2, <1>3, <1>4 DEF AccessTyped
<1> QED
  BY <1>1, <1>3, <1>4, <1>5, <1>6, <1>7 DEF AccessInv, Access!Wanted

\* One call: additions first.
CallsFor(g, add, drop) == g \in IF add # {} THEN add ELSE drop

LEMMA GroupAssigned ==
  ASSUME ChangeBounds, AccessInv, NEW i \in DOMAIN ops, ops[i].pc = "apply", NEW g,
         CallsFor(g, ops[i].add, ops[i].drop), UNCHANGED <<home, access, switches>>,
         ops' = [ops EXCEPT ![i] = [ops[i] EXCEPT !.add = @ \ {g}, !.drop = @ \ {g}]],
         \/ joined' = (IF g \in ops[i].add THEN joined \cup {g} ELSE joined \ {g}) /\ UNCHANGED <<used, marks>>
         \/ Access!Fault /\ Access!Missed /\ UNCHANGED joined
  PROVE  AccessInv'
<1>1. PICK q, p, add, drop : q = ops /\ p = ops' /\ add = ops[i].add /\ drop = ops[i].drop
  OBVIOUS
<1>2. /\ AccessTyped /\ q \in Seq(AssignType) /\ Alone(q) /\ i \in DOMAIN q /\ q[i] \in AssignType
      /\ q[i].pc = "apply" /\ q[i].add = add /\ q[i].drop = drop
      /\ add \in SUBSET Access!Groups /\ drop \in SUBSET Access!Groups
  <2>1. AccessTyped /\ q \in Seq(AssignType) /\ Alone(q) /\ i \in DOMAIN q /\ q[i].pc = "apply"
    BY <1>1 DEF AccessInv, AccessTyped
  <2>2. q[i] \in AssignType
    BY <2>1
  <2> QED
    BY <1>1, <2>1, <2>2 DEF AssignType
<1>3. PICK o : o = [q[i] EXCEPT !.add = add \ {g}, !.drop = drop \ {g}]
  OBVIOUS
<1>4. o \in AssignType /\ o.pc = "apply" /\ o.add = add \ {g} /\ o.drop = drop \ {g} /\ o.alone = q[i].alone
  BY <1>2, <1>3 DEF AssignType
<1>5. WentOn(q, p, i, o)
  BY <1>1, <1>2, <1>3 DEF WentOn, AssignType
<1>6. /\ p \in Seq(AssignType) /\ Alone(p) /\ DOMAIN p = DOMAIN q
      /\ \A j \in DOMAIN q : p[j] = IF j = i THEN o ELSE q[j]
      /\ \A h, w : Reread(q, h, w) => Reread(p, h, w)
  <2>1. /\ p \in Seq(AssignType) /\ Alone(p) /\ DOMAIN p = DOMAIN q
        /\ \A j \in DOMAIN q : p[j] = IF j = i THEN o ELSE q[j]
    BY <1>2, <1>4, <1>5, OneStep
  <2> QED
    BY <1>2, <2>1 DEF Reread
<1>7. CASE joined' = (IF g \in add THEN joined \cup {g} ELSE joined \ {g}) /\ UNCHANGED <<used, marks>>
  <2>1. \A wanted : LeadsTo(q[i], home, joined, wanted) => LeadsTo(o, home, joined', wanted)
    <3> SUFFICES ASSUME NEW wanted, (joined \cup add) \ drop = wanted, add \cap drop = {}
                 PROVE  (joined' \cup (add \ {g})) \ (drop \ {g}) = wanted /\ (add \ {g}) \cap (drop \ {g}) = {}
      BY <1>2, <1>4 DEF LeadsTo
    <3>1. CASE add # {}
      BY <1>1, <1>7, <3>1 DEF CallsFor
    <3>2. CASE add = {}
      BY <1>1, <1>7, <3>2 DEF CallsFor
    <3> QED
      BY <3>1, <3>2
  <2>2. \A j \in DOMAIN q \ {i} : q[i].pc # "pending" /\ q[j].pc # "pending" => ~q[j].alone
    BY <1>2 DEF Alone
  <2>3. \A wanted : AllRead(q, home, joined, wanted, marks.crossed) => AllRead(p, home, joined', wanted, marks.crossed)
    BY <1>2, <1>4, <1>6, <2>1, <2>2 DEF AllRead
  <2>4. AccessTyped'
    <3>1. joined' \subseteq Access!Groups
      BY <1>1, <1>2, <1>7 DEF AccessTyped, CallsFor
    <3> QED
      BY <1>1, <1>2, <1>6, <1>7, <3>1 DEF AccessTyped
  <2> QED
    BY <1>1, <1>6, <1>7, <2>3, <2>4 DEF AccessInv, Access!Wanted
<1>8. CASE Access!Fault /\ Access!Missed /\ UNCHANGED joined
  <2>1. used' \in UseType /\ marks' \in PastType /\ marks'.missed
    BY <1>2, <1>8, UseCounts, Missing DEF AccessTyped
  <2>2. AccessTyped'
    BY <1>1, <1>2, <1>6, <1>8, <2>1 DEF AccessTyped
  <2> QED
    BY <1>1, <1>6, <2>1, <2>2 DEF AccessInv
<1> QED
  BY <1>1, <1>7, <1>8

LEMMA AccessStep == ASSUME ChangeBounds PROVE AccessInv /\ [Access!Next]_(Access!vars) => AccessInv'
<1> SUFFICES ASSUME AccessInv, [Access!Next]_(Access!vars) PROVE AccessInv'
  OBVIOUS
<1>1. ASSUME NEW o \in Orgs, Access!Move(o) PROVE AccessInv'
  <2>1. /\ home' \in Orgs \cup {Access!NoOrg} /\ UNCHANGED <<access, joined, switches, marks>> /\ Access!Change
        /\ ops' = Append(ops, Access!Op("assign", Access!NoOrg))
    BY <1>1 DEF Access!Move
  <2> QED
    BY <2>1, AssignmentAsked
<1>2. CASE Access!AssignAllUsers
  <2>1. /\ home' \in Orgs \cup {Access!NoOrg} /\ UNCHANGED <<access, joined, switches, marks>> /\ Access!Change
        /\ ops' = Append(ops, Access!Op("assign", Access!NoOrg))
    BY <1>2 DEF Access!AssignAllUsers, AccessInv, AccessTyped
  <2> QED
    BY <2>1, AssignmentAsked
<1>3. ASSUME NEW i \in DOMAIN ops, Access!Assign(i) PROVE AccessInv'
  <2>1. ops[i].pc = "apply" /\ UNCHANGED <<home, access, switches>>
    BY <1>3 DEF Access!Assign, Access!Is
  <2>2. CASE ops[i].add \cup ops[i].drop = {}
    <3>1. /\ UNCHANGED <<home, access, joined, switches, used>> /\ ops' = Access!RemoveAt(ops, i)
          /\ marks' = [marks EXCEPT !.crossed = ~ops[i].alone]
      BY <1>3, <2>1, <2>2 DEF Access!Assign
    <3> QED
      BY <2>1, <2>2, <3>1, AssignmentEnds
  <2>3. CASE ops[i].add \cup ops[i].drop # {}
    <3>1. PICK g :
            /\ CallsFor(g, ops[i].add, ops[i].drop)
            /\ ops' = [ops EXCEPT ![i] = [ops[i] EXCEPT !.add = @ \ {g}, !.drop = @ \ {g}]]
            /\ \/ joined' = (IF g \in ops[i].add THEN joined \cup {g} ELSE joined \ {g}) /\ UNCHANGED <<used, marks>>
               \/ Access!Fault /\ Access!Missed /\ UNCHANGED joined
      BY <1>3, <2>3 DEF Access!Assign, Access!Set, CallsFor
    <3> QED
      BY <2>1, <3>1, GroupAssigned
  <2> QED
    BY <2>2, <2>3
<1>4. CASE UNCHANGED Access!vars
  BY <1>4 DEF Access!vars, AccessInv, AccessTyped, Access!Wanted
<1> QED
  BY <1>1, <1>2, <1>3, <1>4, FlagRead, FlagUpdated, ResyncPublished, UserLeaves, OrganisationResynced, HomeRead,
     FlagsRead, CurrentRead, AssignmentRetried, AssignmentGivenUp DEF Access!Next, Access!Works

-----------------------------------------------------------------------------
(* The CloudTAK agency group.                                              *)

CONSTANTS Admins, TeamNames
VARIABLES team, admins, agency, makings, edits, jobs, spending, lapses

CloudTak == INSTANCE CloudTakGroups
  WITH Users <- Admins, Names <- TeamNames, group <- agency, made <- makings, web <- edits,
       ops <- jobs, used <- spending, past <- lapses

AgencyAssumption ==
  ChangeBounds /\ CloudTak!Unborn \notin TeamNames /\ CloudTak!Deleted \notin TeamNames

AgencyType == [kind : {"ensure", "delete"},
               pc : {"pending", "named", "found", "described", "resolved", "apply", "looked"},
               name : TeamNames \cup {CloudTak!NoName}, id : Nat,
               target : SUBSET Admins, add : SUBSET Admins, drop : SUBSET Admins, alone : BOOLEAN]
GroupType == [id : Nat \ {0}, name : TeamNames, members : SUBSET Admins] \cup {CloudTak!NoGroup}

\* Of an operation, for team t and n ids: only a deleted team's group is to be deleted.
JobRight(o, t, n) ==
  /\ o.id <= n
  /\ o.kind = "delete" => t = CloudTak!Deleted
  /\ o.pc # "pending" => (o.kind = "delete" <=> o.pc = "looked")
  /\ o.pc \notin {"pending", "looked"} => o.name \in TeamNames
  /\ o.pc \notin {"pending", "looked", "named"} => o.id # 0

\* Ids are given out once, and a team that is not there yet has nothing.
AgencyTyped ==
  /\ team \in TeamNames \cup {CloudTak!Unborn, CloudTak!Deleted}
  /\ admins \subseteq Admins
  /\ agency \in GroupType /\ makings \in Nat /\ agency.id <= makings
  /\ edits \in [Sessions -> CloudTak!Requests]
  /\ jobs \in Seq(AgencyType)
  /\ \A i \in DOMAIN jobs : JobRight(jobs[i], team, makings)
  /\ team = CloudTak!Unborn => jobs = <<>> /\ agency = CloudTak!NoGroup /\ \A s \in Sessions : edits[s] = "idle"
  /\ spending \in UseType
  /\ lapses \in PastType

\* The team t is still to be read, for a request of the sessions w or an operation
\* of the queue q; or its group is still to be looked up.
Renews(q, t, w) ==
  IF t \in TeamNames
  THEN (\E s \in Sessions : w[s] # "idle") \/ \E i \in DOMAIN q : q[i].pc = "pending" /\ q[i].kind = "ensure"
  ELSE \E i \in DOMAIN q : q[i].pc = "pending" /\ q[i].kind = "delete"

\* The operation o makes the group g that of the team named t with its administrators.
Makes(o, t, heads, g) ==
  /\ o.pc \in {"named", "found"} => o.name = t
  /\ o.pc \in {"found", "described", "resolved", "apply"} => o.id = g.id
  /\ o.pc \in {"described", "resolved", "apply"} => g.name = t
  /\ o.pc = "resolved" => o.target = heads
  /\ o.pc = "apply" => (g.members \cup o.add) \ o.drop = heads /\ o.add \cap o.drop = {}

AllPending(q) == \A i \in DOMAIN q : q[i].pc = "pending"

\* All that is at work, and what finished work left, follows a team that exists;
FollowsLive(q, t, heads, g, crossed) ==
  /\ \A i \in DOMAIN q : q[i].pc # "pending" /\ q[i].alone => Makes(q[i], t, heads, g)
  /\ AllPending(q) /\ ~crossed => g.name = t /\ g.members = heads

\* or follows its deletion: what has begun before cannot finish unnoticed.
FollowsDeleted(q, g, crossed) ==
  /\ \A i \in DOMAIN q : q[i].pc # "pending" /\ q[i].alone => q[i].kind = "delete" /\ q[i].id = g.id
  /\ AllPending(q) /\ ~crossed => g = CloudTak!NoGroup
  /\ (\E i \in DOMAIN q : q[i].kind = "delete") \/ AllPending(q) \/ crossed

Follows(q, t, heads, g, crossed) ==
  IF t \in TeamNames THEN FollowsLive(q, t, heads, g, crossed)
  ELSE t = CloudTak!Deleted => FollowsDeleted(q, g, crossed)

AgencyInv ==
  /\ AgencyTyped /\ Alone(jobs)
  /\ lapses.missed \/ Renews(jobs, team, edits) \/ Follows(jobs, team, admins, agency, lapses.crossed)

LEMMA AgencyCut == \A q, i : CloudTak!RemoveAt(q, i) = CutAt(q, i)
BY DEF CloudTak!RemoveAt, CutAt

LEMMA AgencyCounts ==
  ASSUME ChangeBounds, spending \in UseType, CloudTak!Change \/ CloudTak!Fault PROVE spending' \in UseType
BY Spends DEF CloudTak!Change, CloudTak!Fault

LEMMA AgencyMissing ==
  ASSUME lapses \in PastType, CloudTak!Missed PROVE lapses' \in PastType /\ lapses'.missed
BY DEF CloudTak!Missed, PastType

LEMMA AgencyInvHolds == ASSUME AgencyAssumption PROVE AgencyInv => CloudTak!CloudTakSound
<1> SUFFICES ASSUME AgencyInv PROVE CloudTak!TypeOK /\ CloudTak!AgencyGroupFollowsTeam
  BY DEF CloudTak!CloudTakSound
<1>0. AgencyTyped
  BY DEF AgencyInv
<1>1. CloudTak!TypeOK
  <2>1. ASSUME NEW i \in DOMAIN jobs
        PROVE  jobs[i] \in [kind : {"ensure", "delete"},
                           pc : {"pending", "named", "found", "described", "resolved", "apply", "looked"},
                           name : TeamNames \cup {CloudTak!NoName}, id : 0 .. makings,
                           target : SUBSET Admins, add : SUBSET Admins, drop : SUBSET Admins, alone : BOOLEAN]
    <3>1. jobs[i] \in AgencyType /\ jobs[i].id <= makings /\ makings \in Nat
      BY <1>0 DEF AgencyTyped, JobRight
    <3>2. jobs[i].id \in 0 .. makings
      BY <3>1 DEF AgencyType
    <3> QED
      BY <3>1, <3>2 DEF AgencyType
  <2>2. agency \in [id : 1 .. makings, name : TeamNames, members : SUBSET Admins] \cup {CloudTak!NoGroup}
    <3>1. CASE agency # CloudTak!NoGroup
      <4>1. agency \in [id : Nat \ {0}, name : TeamNames, members : SUBSET Admins] /\ agency.id <= makings /\ makings \in Nat
        BY <1>0, <3>1 DEF AgencyTyped, GroupType
      <4>2. agency.id \in 1 .. makings
        BY <4>1
      <4> QED
        BY <4>1, <4>2
    <3> QED
      BY <3>1
  <2> QED
    BY <1>0, <2>1, <2>2 DEF AgencyTyped, CloudTak!TypeOK, UseType, PastType
<1>2. ASSUME CloudTak!Quiet, ~lapses.missed, ~lapses.crossed
      PROVE  IF CloudTak!Live THEN agency.name = team /\ agency.members = admins ELSE agency = CloudTak!NoGroup
  <2>1. DOMAIN jobs = {} /\ \A s \in Sessions : edits[s] = "idle"
    BY <1>2 DEF CloudTak!Quiet
  <2>2. ~Renews(jobs, team, edits)
    BY <2>1 DEF Renews
  <2>3. Follows(jobs, team, admins, agency, lapses.crossed)
    BY <1>2, <2>2 DEF AgencyInv
  <2> QED
    BY <1>0, <1>2, <2>1, <2>3 DEF Follows, FollowsLive, FollowsDeleted, AllPending, CloudTak!Live, AgencyTyped
<1> QED
  BY <1>1, <1>2 DEF CloudTak!AgencyGroupFollowsTeam

LEMMA AgencyStart == ASSUME AgencyAssumption PROVE CloudTak!Init => AgencyInv
<1> SUFFICES ASSUME CloudTak!Init PROVE AgencyInv
  OBVIOUS
<1>1. /\ team = CloudTak!Unborn /\ admins = {} /\ agency = CloudTak!NoGroup /\ makings = 0 /\ jobs = <<>>
      /\ edits = [s \in Sessions |-> "idle"]
  BY DEF CloudTak!Init
<1>2. spending \in UseType /\ lapses \in PastType
  BY DEF CloudTak!Init, AgencyAssumption, ChangeBounds, UseType, PastType
<1>3. AgencyTyped
  BY <1>1, <1>2 DEF AgencyTyped, GroupType, CloudTak!NoGroup, CloudTak!Requests
<1>4. Alone(jobs) /\ Follows(jobs, team, admins, agency, lapses.crossed)
  BY <1>1 DEF Alone, Follows, AgencyAssumption, CloudTak!Unborn, CloudTak!Deleted
<1> QED
  BY <1>3, <1>4 DEF AgencyInv

-----------------------------------------------------------------------------
(* Its requests.                                                           *)

\* A session that has a change of the team to publish.
LEMMA ChangeToPublish ==
  ASSUME AgencyAssumption, AgencyInv, NEW s \in Sessions, NEW what \in {"create", "update"}, CloudTak!Asks(s, what),
         team' \in TeamNames, team # CloudTak!Deleted, admins' \subseteq Admins, UNCHANGED <<agency, makings, jobs, lapses>>
  PROVE  AgencyInv'
<1>0. AgencyTyped
  BY DEF AgencyInv
<1>1. edits' = [edits EXCEPT ![s] = what] /\ spending' \in UseType
  BY <1>0, AgencyCounts DEF CloudTak!Asks, AgencyTyped, AgencyAssumption
<1>2. edits' \in [Sessions -> CloudTak!Requests] /\ edits'[s] = what
  BY <1>0, <1>1 DEF AgencyTyped, CloudTak!Requests
<1>3. \A i \in DOMAIN jobs : JobRight(jobs[i], team', makings')
  BY <1>0 DEF AgencyTyped, JobRight
<1>4. team' # CloudTak!Unborn
  BY DEF AgencyAssumption
<1>5. AgencyTyped'
  BY <1>0, <1>1, <1>2, <1>3, <1>4 DEF AgencyTyped
<1>6. Renews(jobs', team', edits')
  BY <1>2 DEF Renews
<1> QED
  BY <1>5, <1>6 DEF AgencyInv

\* An operation that a request appends.
Asked(q, p, kind) == p = Append(q, CloudTak!Fresh(kind))

LEMMA AgencyAsked ==
  ASSUME NEW q \in Seq(AgencyType), NEW kind \in {"ensure", "delete"}, NEW p, Asked(q, p, kind), Alone(q)
  PROVE  /\ p \in Seq(AgencyType) /\ Alone(p) /\ DOMAIN p = DOMAIN q \cup {Len(q) + 1}
         /\ \A j \in DOMAIN q : p[j] = q[j]
         /\ p[Len(q) + 1].kind = kind /\ p[Len(q) + 1].pc = "pending" /\ p[Len(q) + 1].id = 0
         /\ \E j \in DOMAIN p : p[j].pc = "pending" /\ p[j].kind = kind
<1>1. PICK o : o = CloudTak!Fresh(kind)
  OBVIOUS
<1>2. o \in AgencyType /\ o.kind = kind /\ o.pc = "pending" /\ o.id = 0
  BY <1>1 DEF CloudTak!Fresh, AgencyType
<1>3. /\ p \in Seq(AgencyType) /\ DOMAIN p = DOMAIN q \cup {Len(q) + 1} /\ Len(q) + 1 \notin DOMAIN q
      /\ p[Len(q) + 1] = o /\ \A j \in DOMAIN q : p[j] = q[j]
  <2>1. p = Append(q, o)
    BY <1>1 DEF Asked
  <2> QED
    BY <1>2, <2>1, OneMore
<1>4. Alone(p)
  BY <1>2, <1>3 DEF Alone
<1> QED
  BY <1>2, <1>3, <1>4

LEMMA EnsureAsked ==
  ASSUME AgencyAssumption, AgencyInv, team # CloudTak!Unborn, UNCHANGED <<team, agency, makings, lapses>>,
         admins' \subseteq Admins, team \in TeamNames \/ admins' = admins,
         edits' \in [Sessions -> CloudTak!Requests], spending' \in UseType,
         jobs' = Append(jobs, CloudTak!Fresh("ensure"))
  PROVE  AgencyInv'
<1>0. AgencyTyped /\ jobs \in Seq(AgencyType) /\ Alone(jobs)
  BY DEF AgencyInv, AgencyTyped
<1>1. PICK q, p : q = jobs /\ p = jobs'
  OBVIOUS
<1>2. /\ p \in Seq(AgencyType) /\ Alone(p) /\ DOMAIN p = DOMAIN q \cup {Len(q) + 1}
      /\ \A j \in DOMAIN q : p[j] = q[j]
      /\ p[Len(q) + 1].kind = "ensure" /\ p[Len(q) + 1].pc = "pending" /\ p[Len(q) + 1].id = 0
      /\ \E j \in DOMAIN p : p[j].pc = "pending" /\ p[j].kind = "ensure"
  <2>1. /\ q \in Seq(AgencyType) /\ Alone(q) /\ Asked(q, p, "ensure")
    BY <1>0, <1>1 DEF Asked
  <2> QED
    BY <2>1, AgencyAsked
<1>3. AgencyTyped'
  <2>1. makings \in Nat /\ \A j \in DOMAIN q : JobRight(q[j], team, makings)
    BY <1>0, <1>1 DEF AgencyTyped
  <2>2. \A j \in DOMAIN p : JobRight(p[j], team, makings)
    BY <1>2, <2>1 DEF JobRight
  <2> QED
    BY <1>0, <1>1, <1>2, <2>2 DEF AgencyTyped
<1>4. CASE team \in TeamNames
  <2>1. Renews(p, team', edits')
    BY <1>2, <1>4 DEF Renews
  <2> QED
    BY <1>1, <1>2, <1>3, <2>1 DEF AgencyInv
<1>5. CASE team \notin TeamNames
  <2>1. Renews(q, team, edits) => Renews(p, team, edits')
    BY <1>2, <1>5 DEF Renews
  <2>2. \A g, crossed : FollowsDeleted(q, g, crossed) => FollowsDeleted(p, g, crossed)
    BY <1>2 DEF FollowsDeleted, AllPending
  <2>3. Follows(q, team, admins, agency, lapses.crossed) => Follows(p, team, admins, agency, lapses.crossed)
    BY <1>5, <2>2 DEF Follows
  <2> QED
    BY <1>1, <1>2, <1>3, <1>5, <2>1, <2>3 DEF AgencyInv
<1> QED
  BY <1>4, <1>5

LEMMA AgencyPublished ==
  ASSUME AgencyAssumption, AgencyInv, NEW s \in Sessions, CloudTak!Publish(s) PROVE AgencyInv'
<1>0. AgencyTyped /\ edits[s] # "idle" /\ team # CloudTak!Unborn
  BY DEF AgencyInv, AgencyTyped, CloudTak!Publish
<1>1. edits' \in [Sessions -> CloudTak!Requests] /\ UNCHANGED <<team, admins, agency, makings>>
  BY <1>0 DEF AgencyTyped, CloudTak!Publish, CloudTak!Requests
<1>2. CASE jobs' = Append(jobs, CloudTak!Fresh("ensure")) /\ UNCHANGED <<spending, lapses>>
  BY <1>0, <1>1, <1>2, EnsureAsked DEF AgencyTyped
<1>3. CASE CloudTak!Fault /\ CloudTak!Missed /\ UNCHANGED jobs
  <2>1. spending' \in UseType /\ lapses' \in PastType /\ lapses'.missed
    BY <1>0, <1>3, AgencyCounts, AgencyMissing DEF AgencyTyped, AgencyAssumption
  <2>2. AgencyTyped'
    BY <1>0, <1>1, <1>3, <2>1 DEF AgencyTyped
  <2> QED
    BY <1>3, <2>1, <2>2 DEF AgencyInv
<1> QED
  BY <1>2, <1>3 DEF CloudTak!Publish

LEMMA RoleApproved ==
  ASSUME AgencyAssumption, AgencyInv, NEW u \in Admins, CloudTak!ApproveRoleOrTransfer(u) PROVE AgencyInv'
<1>0. AgencyTyped /\ admins' \subseteq Admins /\ UNCHANGED <<team, agency, makings, edits, jobs>>
  BY DEF AgencyInv, AgencyTyped, CloudTak!ApproveRoleOrTransfer
<1>1. spending' \in UseType /\ lapses' \in PastType /\ lapses'.missed
  BY <1>0, AgencyCounts, AgencyMissing DEF AgencyTyped, AgencyAssumption, CloudTak!ApproveRoleOrTransfer
<1>2. AgencyTyped'
  BY <1>0, <1>1 DEF AgencyTyped
<1> QED
  BY <1>0, <1>1, <1>2 DEF AgencyInv

LEMMA AgencyDeleted ==
  ASSUME AgencyAssumption, AgencyInv, CloudTak!DeleteTeam PROVE AgencyInv'
<1>0. /\ AgencyTyped /\ jobs \in Seq(AgencyType) /\ Alone(jobs) /\ team \in TeamNames /\ team' = CloudTak!Deleted /\ admins' = {}
      /\ UNCHANGED <<agency, makings, edits, lapses>> /\ spending' \in UseType
  BY AgencyCounts DEF AgencyInv, AgencyTyped, AgencyAssumption, CloudTak!DeleteTeam, CloudTak!Live
<1>1. PICK q, p : q = jobs /\ p = jobs'
  OBVIOUS
<1>2. /\ p \in Seq(AgencyType) /\ Alone(p) /\ DOMAIN p = DOMAIN q \cup {Len(q) + 1}
      /\ \A j \in DOMAIN q : p[j] = q[j]
      /\ p[Len(q) + 1].kind = "delete" /\ p[Len(q) + 1].pc = "pending" /\ p[Len(q) + 1].id = 0
      /\ \E j \in DOMAIN p : p[j].pc = "pending" /\ p[j].kind = "delete"
  <2>1. /\ q \in Seq(AgencyType) /\ Alone(q) /\ Asked(q, p, "delete")
    BY <1>0, <1>1 DEF CloudTak!DeleteTeam, Asked
  <2> QED
    BY <2>1, AgencyAsked
<1>3. \A j \in DOMAIN p : JobRight(p[j], CloudTak!Deleted, makings)
  <2>1. makings \in Nat /\ \A j \in DOMAIN q : JobRight(q[j], team, makings)
    BY <1>0, <1>1 DEF AgencyTyped
  <2> QED
    BY <1>2, <2>1 DEF JobRight
<1>4. team' # CloudTak!Unborn
  BY <1>0 DEF CloudTak!Unborn, CloudTak!Deleted
<1>5. AgencyTyped'
  BY <1>0, <1>1, <1>2, <1>3, <1>4 DEF AgencyTyped
<1>6. Renews(p, team', edits')
  BY <1>0, <1>2 DEF Renews, AgencyAssumption
<1> QED
  BY <1>1, <1>2, <1>5, <1>6 DEF AgencyInv

-----------------------------------------------------------------------------
(* Its worker.                                                             *)

\* The record of an operation at work, as it is.
LEMMA JobAt ==
  ASSUME AgencyTyped, NEW i \in DOMAIN jobs
  PROVE  jobs[i] \in AgencyType /\ JobRight(jobs[i], team, makings) /\ makings \in Nat
BY DEF AgencyTyped

\* An operation that makes the group goes on.
LEMMA EnsureGoesOn ==
  ASSUME AgencyAssumption, AgencyInv, NEW i \in DOMAIN jobs, jobs[i].pc \notin {"pending", "looked"},
         NEW o \in AgencyType, WentOn(jobs, jobs', i, o),
         o.kind = "ensure", o.pc \notin {"pending", "looked"}, o.alone = jobs[i].alone, JobRight(o, team, makings'),
         UNCHANGED <<team, admins, edits, spending, lapses>>, agency' \in GroupType, makings' \in Nat, agency'.id <= makings',
         makings <= makings',
         team \in TeamNames /\ Makes(jobs[i], team, admins, agency) => Makes(o, team, admins, agency')
  PROVE  AgencyInv'
<1>0. AgencyTyped /\ jobs \in Seq(AgencyType) /\ Alone(jobs)
  BY DEF AgencyInv, AgencyTyped
<1>1. PICK q, p : q = jobs /\ p = jobs'
  OBVIOUS
<1>2. /\ p \in Seq(AgencyType) /\ Alone(p) /\ DOMAIN p = DOMAIN q
      /\ \A j \in DOMAIN q : p[j] = IF j = i THEN o ELSE q[j]
  <2>1. q \in Seq(AgencyType) /\ i \in DOMAIN q /\ WentOn(q, p, i, o) /\ Alone(q) /\ q[i].pc # "pending" /\ o.alone = q[i].alone
    BY <1>0, <1>1
  <2> QED
    BY <2>1, OneStep
<1>3. q[i].kind = "ensure"
  BY <1>0, <1>1, JobAt DEF JobRight, AgencyType
<1>4. AgencyTyped'
  <2>1. ASSUME NEW j \in DOMAIN p PROVE JobRight(p[j], team, makings')
    <3>1. CASE j = i
      BY <1>2, <3>1 DEF JobRight
    <3>2. CASE j # i
      <4>1. JobRight(q[j], team, makings) /\ q[j].id \in Nat /\ makings \in Nat
        BY <1>0, <1>1, <1>2, JobAt DEF AgencyType
      <4> QED
        BY <1>2, <3>2, <4>1 DEF JobRight
    <3> QED
      BY <3>1, <3>2
  <2>2. team # CloudTak!Unborn
    BY <1>0 DEF AgencyTyped
  <2> QED
    BY <1>0, <1>1, <1>2, <2>1, <2>2 DEF AgencyTyped
<1>5. Renews(q, team, edits) => Renews(p, team, edits)
  BY <1>1, <1>2 DEF Renews
<1>6. \A j \in DOMAIN q \ {i} : q[j].pc # "pending" => ~q[j].alone
  BY <1>0, <1>1 DEF Alone
<1>7. \A crossed : Follows(q, team, admins, agency, crossed) => Follows(p, team, admins, agency', crossed)
  <2>1. ASSUME NEW crossed, team \in TeamNames, FollowsLive(q, team, admins, agency, crossed)
        PROVE  FollowsLive(p, team, admins, agency', crossed)
    BY <1>1, <1>2, <1>6, <2>1 DEF FollowsLive, AllPending
  <2>2. ASSUME NEW crossed, FollowsDeleted(q, agency, crossed)
        PROVE  FollowsDeleted(p, agency', crossed)
    <3>1. ~q[i].alone
      BY <1>1, <1>3, <2>2 DEF FollowsDeleted
    <3>2. (\E j \in DOMAIN q : q[j].kind = "delete") => \E j \in DOMAIN p : p[j].kind = "delete"
      BY <1>2, <1>3
    <3> QED
      BY <1>1, <1>2, <1>6, <2>2, <3>1, <3>2 DEF FollowsDeleted, AllPending
  <2> QED
    BY <2>1, <2>2 DEF Follows
<1> QED
  BY <1>1, <1>2, <1>4, <1>5, <1>7 DEF AgencyInv

LEMMA GroupMadeOrFound ==
  ASSUME AgencyAssumption, AgencyInv, NEW i \in DOMAIN jobs, CloudTak!CreateOrFind(i) PROVE AgencyInv'
<1>0. AgencyTyped /\ jobs[i].pc = "named" /\ UNCHANGED <<team, admins, edits, spending, lapses>>
  BY DEF AgencyInv, CloudTak!CreateOrFind, CloudTak!Is
<1>1. PICK r : r = jobs[i]
  OBVIOUS
<1>2. r \in AgencyType /\ r.pc = "named" /\ r.kind = "ensure" /\ r.id <= makings /\ makings \in Nat /\ r.name \in TeamNames
  BY <1>0, <1>1, JobAt DEF JobRight, AgencyType
<1>3. CASE agency = CloudTak!NoGroup
  <2>1. PICK n, o, g : /\ n = makings + 1 /\ o = [r EXCEPT !.pc = "described", !.id = n]
                       /\ g = [id |-> n, name |-> r.name, members |-> {}]
    OBVIOUS
  <2>2. n \in Nat \ {0}
    BY <1>2, <2>1
  <2>3. /\ o \in AgencyType /\ o.kind = "ensure" /\ o.pc = "described" /\ o.alone = r.alone /\ o.id = n
        /\ o.name = r.name /\ g.id = n /\ g.name = r.name /\ g \in GroupType
    BY <1>2, <2>1, <2>2 DEF AgencyType, GroupType
  <2>4. WentOn(jobs, jobs', i, o) /\ agency' = g /\ makings' = n
    BY <1>1, <1>3, <2>1 DEF CloudTak!CreateOrFind, CloudTak!Set, WentOn
  <2>5. team \in TeamNames /\ Makes(r, team, admins, agency) => Makes(o, team, admins, g)
    BY <1>2, <2>3 DEF Makes
  <2>6. makings <= makings' /\ JobRight(o, team, makings') /\ g.id <= makings' /\ makings' \in Nat
    BY <1>2, <2>1, <2>2, <2>3, <2>4 DEF JobRight
  <2> QED
    BY <1>0, <1>1, <1>2, <2>3, <2>4, <2>5, <2>6, EnsureGoesOn
<1>4. CASE agency # CloudTak!NoGroup
  <2>0. agency \in GroupType /\ agency.id <= makings /\ agency.id \in Nat
    BY <1>0 DEF AgencyTyped, GroupType, CloudTak!NoGroup
  <2>1. PICK n, o : n = agency.id /\ o = [r EXCEPT !.pc = "found", !.id = n]
    OBVIOUS
  <2>2. /\ o \in AgencyType /\ o.kind = "ensure" /\ o.pc = "found" /\ o.alone = r.alone /\ o.id = n
        /\ o.name = r.name
    BY <1>2, <2>0, <2>1 DEF AgencyType
  <2>3. WentOn(jobs, jobs', i, o) /\ UNCHANGED <<agency, makings>>
    BY <1>1, <1>4, <2>1 DEF CloudTak!CreateOrFind, CloudTak!Set, WentOn
  <2>4. team \in TeamNames /\ Makes(r, team, admins, agency) => Makes(o, team, admins, agency)
    BY <1>2, <2>1, <2>2 DEF Makes
  <2>5. makings <= makings' /\ JobRight(o, team, makings') /\ agency'.id <= makings' /\ makings' \in Nat /\ agency' \in GroupType
    <3>1. n # 0
      BY <1>4, <2>0, <2>1 DEF GroupType
    <3> QED
      BY <1>2, <2>0, <2>1, <2>2, <2>3, <3>1 DEF JobRight
  <2>6. team \in TeamNames /\ Makes(r, team, admins, agency) => Makes(o, team, admins, agency')
    BY <2>3, <2>4
  <2> QED
    BY <1>0, <1>1, <1>2, <2>2, <2>3, <2>5, <2>6, EnsureGoesOn
<1> QED
  BY <1>3, <1>4

\* Of the steps after it: the record, and the group while it is there.
LEMMA AtGroup ==
  ASSUME AgencyInv, NEW i \in DOMAIN jobs, jobs[i].pc \notin {"pending", "looked", "named"}
  PROVE  /\ jobs[i] \in AgencyType /\ jobs[i].kind = "ensure" /\ JobRight(jobs[i], team, makings) /\ makings \in Nat
         /\ agency \in GroupType /\ agency.id <= makings
         /\ CloudTak!There(i) => agency \in [id : Nat \ {0}, name : TeamNames, members : SUBSET Admins]
<1>1. AgencyTyped
  BY DEF AgencyInv
<1>2. jobs[i] \in AgencyType /\ JobRight(jobs[i], team, makings) /\ makings \in Nat
  BY <1>1, JobAt
<1>3. jobs[i].kind = "ensure" /\ jobs[i].id # 0
  BY <1>2 DEF JobRight, AgencyType
<1> QED
  BY <1>1, <1>2, <1>3 DEF AgencyTyped, CloudTak!There, GroupType, CloudTak!NoGroup

LEMMA GroupPatched ==
  ASSUME AgencyAssumption, AgencyInv, NEW i \in DOMAIN jobs, CloudTak!PatchAttributes(i) PROVE AgencyInv'
<1>0. jobs[i].pc = "found" /\ UNCHANGED <<team, admins, makings, edits, spending, lapses>> /\ CloudTak!There(i)
  BY DEF CloudTak!PatchAttributes, CloudTak!Is
<1>1. PICK r : r = jobs[i]
  OBVIOUS
<1>2. /\ r \in AgencyType /\ r.pc = "found" /\ r.kind = "ensure" /\ JobRight(r, team, makings) /\ makings \in Nat
      /\ agency \in [id : Nat \ {0}, name : TeamNames, members : SUBSET Admins] /\ agency.id <= makings
      /\ r.name \in TeamNames
  BY <1>0, <1>1, AtGroup DEF JobRight
<1>3. PICK o, g : o = [r EXCEPT !.pc = "described"] /\ g = [agency EXCEPT !.name = r.name]
  OBVIOUS
<1>4. /\ o \in AgencyType /\ o.kind = "ensure" /\ o.pc = "described" /\ o.alone = r.alone /\ o.id = r.id /\ o.name = r.name
  BY <1>2, <1>3 DEF AgencyType
<1>5. g.id = agency.id /\ g.name = r.name /\ g.members = agency.members /\ g \in GroupType
  BY <1>2, <1>3 DEF GroupType
<1>6. WentOn(jobs, jobs', i, o) /\ agency' = g
  BY <1>1, <1>3 DEF CloudTak!PatchAttributes, CloudTak!Set, WentOn
<1>7. team \in TeamNames /\ Makes(r, team, admins, agency) => Makes(o, team, admins, g)
  BY <1>2, <1>4, <1>5 DEF Makes
<1>8. JobRight(o, team, makings)
  BY <1>2, <1>4 DEF JobRight
<1>9. makings <= makings' /\ JobRight(o, team, makings') /\ agency'.id <= makings' /\ makings' \in Nat
  BY <1>0, <1>2, <1>5, <1>6, <1>8
<1> QED
  BY <1>0, <1>1, <1>2, <1>4, <1>5, <1>6, <1>7, <1>9, EnsureGoesOn

LEMMA AdminsRead ==
  ASSUME AgencyAssumption, AgencyInv, NEW i \in DOMAIN jobs, CloudTak!ReadAdmins(i) PROVE AgencyInv'
<1>0. jobs[i].pc = "described" /\ UNCHANGED <<team, admins, agency, makings, edits, spending, lapses>>
  BY DEF CloudTak!ReadAdmins, CloudTak!Is
<1>1. PICK r : r = jobs[i]
  OBVIOUS
<1>2. /\ r \in AgencyType /\ r.pc = "described" /\ r.kind = "ensure" /\ JobRight(r, team, makings) /\ makings \in Nat
      /\ agency \in GroupType /\ agency.id <= makings
  BY <1>0, <1>1, AtGroup
<1>3. PICK heads : heads = admins
  OBVIOUS
<1>4. PICK o : o = [r EXCEPT !.pc = "resolved", !.target = heads]
  OBVIOUS
<1>5. heads \in SUBSET Admins
  BY <1>3 DEF AgencyInv, AgencyTyped
<1>6. /\ o \in AgencyType /\ o.kind = "ensure" /\ o.pc = "resolved" /\ o.alone = r.alone /\ o.id = r.id /\ o.name = r.name
      /\ o.target = heads
  BY <1>2, <1>4, <1>5 DEF AgencyType
<1>7. WentOn(jobs, jobs', i, o)
  BY <1>1, <1>3, <1>4 DEF CloudTak!ReadAdmins, CloudTak!Set, WentOn
<1>8. team \in TeamNames /\ Makes(r, team, admins, agency) => Makes(o, team, admins, agency')
  BY <1>0, <1>2, <1>3, <1>6 DEF Makes
<1>9. JobRight(o, team, makings)
  BY <1>2, <1>6 DEF JobRight
<1>10. makings <= makings' /\ JobRight(o, team, makings') /\ agency'.id <= makings' /\ makings' \in Nat /\ agency' \in GroupType
  BY <1>0, <1>2, <1>9
<1> QED
  BY <1>0, <1>1, <1>2, <1>6, <1>7, <1>8, <1>10, EnsureGoesOn

LEMMA MembersRead ==
  ASSUME AgencyAssumption, AgencyInv, NEW i \in DOMAIN jobs, CloudTak!ReadMembers(i) PROVE AgencyInv'
<1>0. jobs[i].pc = "resolved" /\ UNCHANGED <<team, admins, agency, makings, edits, spending, lapses>> /\ CloudTak!There(i)
  BY DEF CloudTak!ReadMembers, CloudTak!Is
<1>1. PICK r : r = jobs[i]
  OBVIOUS
<1>2. /\ r \in AgencyType /\ r.pc = "resolved" /\ r.kind = "ensure" /\ JobRight(r, team, makings) /\ makings \in Nat
      /\ agency \in GroupType /\ agency.id <= makings /\ agency.members \in SUBSET Admins
  BY <1>0, <1>1, AtGroup
<1>3. PICK a, d : a = r.target \ agency.members /\ d = agency.members \ r.target
  OBVIOUS
<1>4. PICK o : o = [r EXCEPT !.pc = "apply", !.add = a, !.drop = d, !.target = {}]
  OBVIOUS
<1>5. a \in SUBSET Admins /\ d \in SUBSET Admins
  BY <1>2, <1>3 DEF AgencyType
<1>6. /\ o \in AgencyType /\ o.kind = "ensure" /\ o.pc = "apply" /\ o.alone = r.alone /\ o.id = r.id /\ o.name = r.name
      /\ o.add = a /\ o.drop = d
  BY <1>2, <1>4, <1>5 DEF AgencyType
<1>7. WentOn(jobs, jobs', i, o)
  BY <1>1, <1>3, <1>4 DEF CloudTak!ReadMembers, CloudTak!Set, WentOn
<1>8. team \in TeamNames /\ Makes(r, team, admins, agency) => Makes(o, team, admins, agency')
  <2>1. (agency.members \cup a) \ d = r.target /\ a \cap d = {}
    BY <1>3
  <2> QED
    BY <1>0, <1>2, <1>6, <2>1 DEF Makes
<1>9. JobRight(o, team, makings)
  BY <1>2, <1>6 DEF JobRight
<1>10. makings <= makings' /\ JobRight(o, team, makings') /\ agency'.id <= makings' /\ makings' \in Nat /\ agency' \in GroupType
  BY <1>0, <1>2, <1>9
<1> QED
  BY <1>0, <1>1, <1>2, <1>6, <1>7, <1>8, <1>10, EnsureGoesOn

\* One call per member: additions first.
LEMMA MemberChanged ==
  ASSUME AgencyAssumption, AgencyInv, NEW i \in DOMAIN jobs, jobs[i].pc = "apply", NEW u,
         CallsFor(u, jobs[i].add, jobs[i].drop), UNCHANGED <<team, admins, makings, edits, spending, lapses>>,
         jobs' = [jobs EXCEPT ![i] = [jobs[i] EXCEPT !.add = @ \ {u}, !.drop = @ \ {u}]],
         agency' = IF ~CloudTak!There(i) THEN agency
                  ELSE [agency EXCEPT !.members = IF u \in jobs[i].add THEN @ \cup {u} ELSE @ \ {u}]
  PROVE  AgencyInv'
<1>1. PICK r, add, drop : r = jobs[i] /\ add = jobs[i].add /\ drop = jobs[i].drop
  OBVIOUS
<1>2. /\ r \in AgencyType /\ r.pc = "apply" /\ r.kind = "ensure" /\ JobRight(r, team, makings) /\ makings \in Nat
      /\ agency \in GroupType /\ agency.id <= makings
      /\ CloudTak!There(i) => agency \in [id : Nat \ {0}, name : TeamNames, members : SUBSET Admins]
  BY <1>1, AtGroup
<1>3. r.add = add /\ r.drop = drop /\ add \in SUBSET Admins /\ drop \in SUBSET Admins
  BY <1>1, <1>2 DEF AgencyType
<1>4. PICK o : o = [r EXCEPT !.add = add \ {u}, !.drop = drop \ {u}]
  OBVIOUS
<1>5. /\ o \in AgencyType /\ o.kind = "ensure" /\ o.pc = "apply" /\ o.alone = r.alone /\ o.id = r.id /\ o.name = r.name
      /\ o.add = add \ {u} /\ o.drop = drop \ {u}
  BY <1>2, <1>3, <1>4 DEF AgencyType
<1>6. WentOn(jobs, jobs', i, o)
  BY <1>1, <1>2, <1>3, <1>4 DEF WentOn, AgencyType
<1>7. JobRight(o, team, makings)
  BY <1>2, <1>5 DEF JobRight
<1>8. CASE ~CloudTak!There(i)
  <2>1. ~Makes(r, team, admins, agency)
    BY <1>1, <1>2, <1>8 DEF Makes, CloudTak!There
  <2>2. makings <= makings' /\ JobRight(o, team, makings') /\ agency'.id <= makings' /\ makings' \in Nat /\ agency' \in GroupType
    BY <1>2, <1>7, <1>8
  <2> QED
    BY <1>1, <1>2, <1>5, <1>6, <2>1, <2>2, EnsureGoesOn
<1>9. CASE CloudTak!There(i)
  <2>1. PICK m, g : /\ m = (IF u \in add THEN agency.members \cup {u} ELSE agency.members \ {u})
                    /\ g = [agency EXCEPT !.members = m]
    OBVIOUS
  <2>2. m \in SUBSET Admins
    BY <1>2, <1>3, <1>9, <2>1
  <2>3. g.id = agency.id /\ g.name = agency.name /\ g.members = m /\ g \in GroupType
    BY <1>2, <1>9, <2>1, <2>2 DEF GroupType
  <2>4. agency' = g
    BY <1>1, <1>2, <1>9, <2>1
  <2>5. \A heads : (agency.members \cup add) \ drop = heads /\ add \cap drop = {} =>
                     (m \cup (add \ {u})) \ (drop \ {u}) = heads /\ (add \ {u}) \cap (drop \ {u}) = {}
    <3> SUFFICES ASSUME add \cap drop = {}
                 PROVE  (m \cup (add \ {u})) \ (drop \ {u}) = (agency.members \cup add) \ drop
      OBVIOUS
    <3>1. CASE add # {}
      BY <1>1, <2>1, <3>1 DEF CallsFor
    <3>2. CASE add = {}
      BY <1>1, <2>1, <3>2 DEF CallsFor
    <3> QED
      BY <3>1, <3>2
  <2>6. team \in TeamNames /\ Makes(r, team, admins, agency) => Makes(o, team, admins, g)
    BY <1>2, <1>3, <1>5, <2>3, <2>5 DEF Makes
  <2>8. makings' = makings /\ makings \in Nat /\ JobRight(o, team, makings)
    BY <1>2, <1>7
  <2>9. agency' \in GroupType /\ agency'.id <= makings
    BY <1>2, <2>3, <2>4
  <2>7. makings <= makings' /\ JobRight(o, team, makings') /\ agency'.id <= makings' /\ makings' \in Nat /\ agency' \in GroupType
    BY <2>8, <2>9
  <2> QED
    BY <1>1, <1>2, <1>5, <1>6, <2>4, <2>6, <2>7, EnsureGoesOn
<1> QED
  BY <1>8, <1>9

\* What is left of a queue when an operation is over.
LEMMA QueueLeft ==
  ASSUME AgencyInv, NEW i \in DOMAIN jobs, NEW p, p = CloudTak!RemoveAt(jobs, i)
  PROVE  /\ p \in Seq(AgencyType) /\ Alone(p)
         /\ \A j \in DOMAIN p : \E k \in DOMAIN jobs \ {i} : p[j] = jobs[k]
         /\ \A k \in DOMAIN jobs \ {i} : \E j \in DOMAIN p : p[j] = jobs[k]
         /\ \A j \in DOMAIN p : JobRight(p[j], team, makings)
<1>1. /\ jobs \in Seq(AgencyType) /\ Alone(jobs) /\ p = CutAt(jobs, i)
      /\ \A j \in DOMAIN jobs : JobRight(jobs[j], team, makings)
  BY AgencyCut DEF AgencyInv, AgencyTyped
<1>2. /\ p \in Seq(AgencyType) /\ Alone(p)
      /\ \A j \in DOMAIN p : \E k \in DOMAIN jobs \ {i} : p[j] = jobs[k]
      /\ \A k \in DOMAIN jobs \ {i} : \E j \in DOMAIN p : p[j] = jobs[k]
  BY <1>1, Taken
<1> QED
  BY <1>1, <1>2

\* An operation at work is over.
LEMMA AgencyFinishes ==
  ASSUME AgencyAssumption, AgencyInv, NEW i \in DOMAIN jobs, jobs[i].pc # "pending", CloudTak!Finish(i),
         UNCHANGED <<team, admins, makings, edits, spending>>, agency' \in GroupType, agency'.id <= makings,
         team \in TeamNames /\ Makes(jobs[i], team, admins, agency) => agency'.name = team /\ agency'.members = admins,
         jobs[i].kind = "delete" /\ jobs[i].id = agency.id => agency' = CloudTak!NoGroup
  PROVE  AgencyInv'
<1>1. PICK q, p : q = jobs /\ p = jobs'
  OBVIOUS
<1>2. /\ p \in Seq(AgencyType) /\ Alone(p)
      /\ \A j \in DOMAIN p : \E k \in DOMAIN q \ {i} : p[j] = q[k]
      /\ \A k \in DOMAIN q \ {i} : \E j \in DOMAIN p : p[j] = q[k]
      /\ \A j \in DOMAIN p : JobRight(p[j], team, makings)
  BY <1>1, QueueLeft DEF CloudTak!Finish
<1>3. AgencyTyped /\ Alone(q) /\ q[i] \in AgencyType /\ JobRight(q[i], team, makings) /\ q[i].pc # "pending"
  BY <1>1, JobAt DEF AgencyInv
<1>4. lapses' \in PastType /\ lapses'.missed = lapses.missed /\ lapses'.crossed = ~q[i].alone
  BY <1>1, <1>3 DEF CloudTak!Finish, AgencyTyped, PastType, AgencyType
<1>5. AgencyTyped'
  <2>1. team # CloudTak!Unborn
    BY <1>3 DEF AgencyTyped
  <2> QED
    BY <1>1, <1>2, <1>3, <1>4, <2>1 DEF AgencyTyped
<1>6. Renews(q, team, edits) => Renews(p, team, edits)
  BY <1>2, <1>3 DEF Renews
<1>7. \A j \in DOMAIN q \ {i} : q[i].alone => q[j].pc = "pending"
  BY <1>1, <1>3 DEF Alone
<1>8. \A j \in DOMAIN q \ {i} : q[j].pc # "pending" => ~q[j].alone
  BY <1>1, <1>3 DEF Alone
<1>9. Follows(q, team, admins, agency, lapses.crossed) => Follows(p, team, admins, agency', lapses'.crossed)
  <2>1. ASSUME team \in TeamNames, FollowsLive(q, team, admins, agency, lapses.crossed)
        PROVE  FollowsLive(p, team, admins, agency', lapses'.crossed)
    <3>1. q[i].alone => agency'.name = team /\ agency'.members = admins
      BY <1>1, <1>3, <2>1 DEF FollowsLive
    <3> QED
      BY <1>2, <1>4, <1>8, <3>1 DEF FollowsLive, AllPending
  <2>2. ASSUME FollowsDeleted(q, agency, lapses.crossed)
        PROVE  FollowsDeleted(p, agency', lapses'.crossed)
    <3>1. q[i].alone => agency' = CloudTak!NoGroup
      BY <1>1, <1>3, <2>2 DEF FollowsDeleted
    <3>2. q[i].alone => AllPending(p)
      BY <1>2, <1>7 DEF AllPending
    <3> QED
      BY <1>2, <1>4, <1>8, <3>1, <3>2 DEF FollowsDeleted, AllPending
  <2> QED
    BY <2>1, <2>2 DEF Follows
<1> QED
  BY <1>1, <1>2, <1>4, <1>5, <1>6, <1>9 DEF AgencyInv

LEMMA MembersApplied ==
  ASSUME AgencyAssumption, AgencyInv, NEW i \in DOMAIN jobs, CloudTak!Apply(i) PROVE AgencyInv'
<1>0. jobs[i].pc = "apply" /\ UNCHANGED <<team, admins, makings, edits, spending>>
  BY DEF CloudTak!Apply, CloudTak!Is
<1>1. /\ jobs[i] \in AgencyType /\ jobs[i].kind = "ensure" /\ agency \in GroupType /\ agency.id <= makings
  BY <1>0, AtGroup
<1>2. CASE jobs[i].add \cup jobs[i].drop = {}
  <2>1. CloudTak!Finish(i) /\ agency' = agency
    BY <1>2 DEF CloudTak!Apply
  <2>2. Makes(jobs[i], team, admins, agency) => agency.name = team /\ agency.members = admins
    BY <1>0, <1>2 DEF Makes
  <2> QED
    BY <1>0, <1>1, <2>1, <2>2, AgencyFinishes
<1>3. CASE jobs[i].add \cup jobs[i].drop # {}
  <2>1. PICK u : /\ CallsFor(u, jobs[i].add, jobs[i].drop) /\ UNCHANGED lapses
                 /\ jobs' = [jobs EXCEPT ![i] = [jobs[i] EXCEPT !.add = @ \ {u}, !.drop = @ \ {u}]]
                 /\ agency' = IF ~CloudTak!There(i) THEN agency
                             ELSE [agency EXCEPT !.members = IF u \in jobs[i].add THEN @ \cup {u} ELSE @ \ {u}]
    BY <1>3 DEF CloudTak!Apply, CloudTak!Set, CallsFor
  <2> QED
    BY <1>0, <2>1, MemberChanged
<1> QED
  BY <1>2, <1>3

LEMMA AgencyRemoved ==
  ASSUME AgencyAssumption, AgencyInv, NEW i \in DOMAIN jobs, CloudTak!Delete(i) PROVE AgencyInv'
<1>0. /\ jobs[i].pc = "looked" /\ UNCHANGED <<team, admins, makings, edits, spending>> /\ CloudTak!Finish(i)
      /\ agency' = IF agency.id = jobs[i].id THEN CloudTak!NoGroup ELSE agency
  BY DEF CloudTak!Delete, CloudTak!Is, CloudTak!There
<1>1. AgencyTyped /\ jobs[i].kind = "delete" /\ team = CloudTak!Deleted
  BY <1>0, JobAt DEF AgencyInv, JobRight
<1>2. agency' \in GroupType /\ agency'.id <= makings
  BY <1>0, <1>1 DEF AgencyTyped, GroupType, CloudTak!NoGroup
<1>3. team \notin TeamNames
  BY <1>1 DEF AgencyAssumption
<1> QED
  BY <1>0, <1>2, <1>3, AgencyFinishes

\* An operation that begins.
LEMMA AgencyBegins ==
  ASSUME AgencyAssumption, AgencyInv, NEW i \in DOMAIN jobs, jobs[i].pc = "pending",
         NEW r \in AgencyType, r.pc # "pending", CloudTak!Begins(i, r), JobRight(r, team, makings),
         UNCHANGED <<team, admins, agency, makings, edits, spending>>, lapses' \in PastType,
         team \in TeamNames => Makes(r, team, admins, agency),
         team \notin TeamNames => r.kind = "delete" /\ r.id = agency.id
  PROVE  AgencyInv'
<1>0. AgencyTyped
  BY DEF AgencyInv
<1>1. PICK q, p : q = jobs /\ p = jobs'
  OBVIOUS
<1>2. q \in Seq(AgencyType) /\ i \in DOMAIN q
  BY <1>0, <1>1 DEF AgencyTyped
<1>3. PICK o : o = [r EXCEPT !.alone = ~CloudTak!Others(i)]
  OBVIOUS
<1>4. CloudTak!Others(i) \in BOOLEAN /\ (~CloudTak!Others(i) <=> \A j \in DOMAIN q : j # i => q[j].pc = "pending")
  BY <1>1 DEF CloudTak!Others, CloudTak!AtWork
<1>5. /\ o \in AgencyType /\ o.kind = r.kind /\ o.pc = r.pc /\ o.id = r.id /\ o.name = r.name /\ o.target = r.target
      /\ o.add = r.add /\ o.drop = r.drop /\ (o.alone <=> \A j \in DOMAIN q : j # i => q[j].pc = "pending")
  BY <1>3, <1>4 DEF AgencyType
<1>6. Begun(q, p, i, o)
  BY <1>1, <1>3 DEF CloudTak!Begins, CloudTak!AtWork, Begun, Spoilt
<1>7. \A s \in AgencyType : Spoilt(s) \in AgencyType /\ Spoilt(s).pc = s.pc /\ ~Spoilt(s).alone
  BY DEF AgencyType, Spoilt
<1>8. /\ p \in Seq(AgencyType) /\ Alone(p) /\ DOMAIN p = DOMAIN q /\ p[i] = o
      /\ \A j \in DOMAIN q \ {i} : p[j].pc = q[j].pc /\ (p[j].pc # "pending" => ~p[j].alone)
      /\ \A j \in DOMAIN q \ {i} : p[j] = IF q[j].pc # "pending" THEN Spoilt(q[j]) ELSE q[j]
  BY <1>2, <1>5, <1>6, <1>7, OneBegins
<1>9. AgencyTyped'
  <2>1. ASSUME NEW j \in DOMAIN p PROVE JobRight(p[j], team, makings)
    <3>1. CASE j = i
      BY <1>5, <1>8, <3>1 DEF JobRight
    <3>2. CASE j # i
      <4>1. q[j] \in AgencyType /\ JobRight(q[j], team, makings)
        BY <1>0, <1>1, <1>8, JobAt
      <4>2. JobRight(Spoilt(q[j]), team, makings)
        BY <4>1 DEF AgencyType, JobRight, Spoilt
      <4> QED
        BY <1>8, <3>2, <4>1, <4>2
    <3> QED
      BY <3>1, <3>2
  <2>2. team # CloudTak!Unborn
    BY <1>0 DEF AgencyTyped
  <2> QED
    BY <1>0, <1>1, <1>8, <2>1, <2>2 DEF AgencyTyped
<1>10. Follows(p, team, admins, agency, lapses'.crossed)
  <2>1. ASSUME team \in TeamNames PROVE FollowsLive(p, team, admins, agency, lapses'.crossed)
    <3>1. Makes(o, team, admins, agency)
      BY <1>5, <2>1 DEF Makes
    <3> QED
      BY <1>2, <1>5, <1>8, <3>1 DEF FollowsLive, AllPending
  <2>2. ASSUME team \notin TeamNames PROVE FollowsDeleted(p, agency, lapses'.crossed)
    BY <1>2, <1>5, <1>8, <2>2 DEF FollowsDeleted, AllPending
  <2> QED
    BY <2>1, <2>2 DEF Follows
<1> QED
  BY <1>1, <1>8, <1>9, <1>10 DEF AgencyInv

LEMMA TeamRead ==
  ASSUME AgencyAssumption, AgencyInv, NEW i \in DOMAIN jobs, CloudTak!ReadTeam(i) PROVE AgencyInv'
<1>0. /\ jobs[i].pc = "pending" /\ jobs[i].kind = "ensure" /\ UNCHANGED <<team, admins, agency, makings, edits, spending>>
      /\ AgencyTyped
  BY DEF CloudTak!ReadTeam, CloudTak!Is, AgencyInv
<1>1. PICK r : r = jobs[i]
  OBVIOUS
<1>2. r \in AgencyType /\ JobRight(r, team, makings) /\ r.pc = "pending" /\ r.kind = "ensure"
  BY <1>0, <1>1, JobAt
<1>3. CASE CloudTak!Live
  <2>1. PICK n : n = team
    OBVIOUS
  <2>2. PICK o : o = [r EXCEPT !.pc = "named", !.name = n]
    OBVIOUS
  <2>3. n \in TeamNames
    BY <1>3, <2>1 DEF CloudTak!Live
  <2>4. o \in AgencyType /\ o.pc = "named" /\ o.name = n /\ o.kind = "ensure" /\ o.id = r.id
    BY <1>2, <2>2, <2>3 DEF AgencyType
  <2>5. CloudTak!Begins(i, o) /\ lapses' = [lapses EXCEPT !.missed = FALSE]
    BY <1>1, <1>3, <2>1, <2>2 DEF CloudTak!ReadTeam
  <2>6. lapses' \in PastType
    BY <1>0, <2>5 DEF AgencyTyped, PastType
  <2>7. JobRight(o, team, makings)
    BY <1>2, <2>3, <2>4 DEF JobRight
  <2>8. Makes(o, team, admins, agency)
    BY <2>1, <2>4 DEF Makes
  <2> QED
    BY <1>0, <2>1, <2>3, <2>4, <2>5, <2>6, <2>7, <2>8, AgencyBegins
<1>4. CASE ~CloudTak!Live
  <2>0. team \notin TeamNames
    BY <1>4 DEF CloudTak!Live
  <2>1. PICK q, p : q = jobs /\ p = jobs'
    OBVIOUS
  <2>2. UNCHANGED lapses /\ p = CloudTak!RemoveAt(q, i) /\ q[i].pc = "pending" /\ q[i].kind = "ensure"
    BY <1>0, <1>4, <2>1 DEF CloudTak!ReadTeam
  <2>3. /\ p \in Seq(AgencyType) /\ Alone(p)
        /\ \A j \in DOMAIN p : \E k \in DOMAIN q \ {i} : p[j] = q[k]
        /\ \A k \in DOMAIN q \ {i} : \E j \in DOMAIN p : p[j] = q[k]
        /\ \A j \in DOMAIN p : JobRight(p[j], team, makings)
    BY <2>1, <2>2, QueueLeft
  <2>4. AgencyTyped'
    <3>1. team # CloudTak!Unborn
      BY <1>0 DEF AgencyTyped
    <3> QED
      BY <1>0, <2>1, <2>2, <2>3, <3>1 DEF AgencyTyped
  <2>5. Renews(q, team, edits) => Renews(p, team, edits)
    BY <2>0, <2>2, <2>3 DEF Renews
  <2>6. \A g, crossed : FollowsDeleted(q, g, crossed) => FollowsDeleted(p, g, crossed)
    BY <2>2, <2>3 DEF FollowsDeleted, AllPending
  <2>7. Follows(q, team, admins, agency, lapses.crossed) => Follows(p, team, admins, agency, lapses.crossed)
    BY <2>0, <2>6 DEF Follows
  <2> QED
    BY <1>0, <2>1, <2>2, <2>3, <2>4, <2>5, <2>7 DEF AgencyInv
<1> QED
  BY <1>3, <1>4

LEMMA GroupLookedUp ==
  ASSUME AgencyAssumption, AgencyInv, NEW i \in DOMAIN jobs, CloudTak!LookUp(i) PROVE AgencyInv'
<1>0. /\ jobs[i].pc = "pending" /\ jobs[i].kind = "delete" /\ UNCHANGED <<team, admins, agency, makings, edits, spending, lapses>>
      /\ AgencyTyped
  BY DEF CloudTak!LookUp, CloudTak!Is, AgencyInv
<1>1. PICK r, n : r = jobs[i] /\ n = agency.id
  OBVIOUS
<1>2. r \in AgencyType /\ JobRight(r, team, makings) /\ r.pc = "pending" /\ r.kind = "delete"
  BY <1>0, <1>1, JobAt
<1>3. n \in Nat /\ n <= makings
  BY <1>0, <1>1 DEF AgencyTyped, GroupType, CloudTak!NoGroup
<1>4. PICK o : o = [r EXCEPT !.pc = "looked", !.id = n]
  OBVIOUS
<1>5. o \in AgencyType /\ o.pc = "looked" /\ o.kind = "delete" /\ o.id = n
  BY <1>2, <1>3, <1>4 DEF AgencyType
<1>6. CloudTak!Begins(i, o)
  BY <1>1, <1>4 DEF CloudTak!LookUp
<1>7. JobRight(o, team, makings) /\ team \notin TeamNames
  BY <1>2, <1>3, <1>5 DEF JobRight, AgencyAssumption
<1>8. lapses' \in PastType
  BY <1>0 DEF AgencyTyped
<1> QED
  BY <1>0, <1>1, <1>5, <1>6, <1>7, <1>8, AgencyBegins

LEMMA AgencyRetried ==
  ASSUME AgencyAssumption, AgencyInv, NEW i \in DOMAIN jobs, CloudTak!Retry(i) PROVE AgencyInv'
<1>0. /\ AgencyTyped /\ jobs[i].pc # "pending" /\ UNCHANGED <<team, admins, agency, makings, edits, lapses>>
      /\ spending' \in UseType
  <2>1. CloudTak!Fault \/ UNCHANGED spending
    BY DEF CloudTak!Retry
  <2> QED
    BY <2>1, AgencyCounts DEF AgencyInv, AgencyTyped, AgencyAssumption, CloudTak!Retry, CloudTak!AtWork
<1>1. PICK q, p, o : q = jobs /\ p = jobs' /\ o = CloudTak!Fresh(jobs[i].kind)
  OBVIOUS
<1>2. q \in Seq(AgencyType) /\ Alone(q) /\ i \in DOMAIN q /\ q[i].pc # "pending" /\ WentOn(q, p, i, o)
      /\ q[i] \in AgencyType /\ JobRight(q[i], team, makings)
  BY <1>0, <1>1, JobAt DEF AgencyInv, AgencyTyped, WentOn, CloudTak!Retry, CloudTak!Set
<1>3. o \in AgencyType /\ o.pc = "pending" /\ o.kind = q[i].kind /\ o.id = 0
  BY <1>1, <1>2 DEF CloudTak!Fresh, AgencyType
<1>4. /\ p \in Seq(AgencyType) /\ Alone(p) /\ DOMAIN p = DOMAIN q
      /\ \A j \in DOMAIN q : p[j] = IF j = i THEN o ELSE q[j]
  BY <1>2, <1>3, OneStep
<1>5. AgencyTyped'
  <2>1. ASSUME NEW j \in DOMAIN p PROVE JobRight(p[j], team, makings)
    <3>1. makings \in Nat /\ JobRight(q[j], team, makings)
      BY <1>0, <1>1, <1>4, JobAt
    <3> QED
      BY <1>2, <1>3, <1>4, <3>1 DEF JobRight
  <2>2. team # CloudTak!Unborn
    BY <1>0 DEF AgencyTyped
  <2> QED
    BY <1>0, <1>1, <1>4, <2>1, <2>2 DEF AgencyTyped
<1>6. CASE team \in TeamNames \/ q[i].kind = "delete"
  <2>1. Renews(p, team, edits)
    <3>1. CASE team \in TeamNames
      <4>1. q[i].kind # "delete"
        BY <1>2, <3>1 DEF JobRight, AgencyAssumption
      <4> QED
        BY <1>2, <1>3, <1>4, <3>1, <4>1 DEF Renews, AgencyType
    <3>2. CASE q[i].kind = "delete"
      <4>1. team \notin TeamNames
        BY <1>2, <3>2 DEF JobRight, AgencyAssumption
      <4> QED
        BY <1>2, <1>3, <1>4, <3>2, <4>1 DEF Renews
    <3> QED
      BY <1>6, <3>1, <3>2
  <2> QED
    BY <1>0, <1>1, <1>4, <1>5, <2>1 DEF AgencyInv
<1>7. CASE team \notin TeamNames /\ q[i].kind # "delete"
  <2>1. Renews(q, team, edits) => Renews(p, team, edits)
    BY <1>2, <1>4, <1>7 DEF Renews
  <2>2. \A g, crossed : ~Renews(q, team, edits) /\ FollowsDeleted(q, g, crossed) => FollowsDeleted(p, g, crossed)
    <3> SUFFICES ASSUME NEW g, NEW crossed, ~Renews(q, team, edits), FollowsDeleted(q, g, crossed)
                 PROVE  FollowsDeleted(p, g, crossed)
      OBVIOUS
    <3>1. \A k \in DOMAIN q : q[k].kind = "delete" => q[k].pc # "pending"
      BY <1>7 DEF Renews
    <3>2. \A k \in DOMAIN q : q[k].kind = "delete" => p[k] = q[k]
      BY <1>4, <1>7
    <3>3. ~AllPending(q)
      BY <1>2 DEF AllPending
    <3>4. CASE \E k \in DOMAIN q : q[k].kind = "delete"
      <4>1. ~AllPending(p) /\ \E k \in DOMAIN p : p[k].kind = "delete"
        BY <1>4, <3>1, <3>2, <3>4 DEF AllPending
      <4> QED
        BY <1>3, <1>4, <4>1 DEF FollowsDeleted
    <3>5. CASE ~ \E k \in DOMAIN q : q[k].kind = "delete"
      BY <1>3, <1>4, <3>3, <3>5 DEF FollowsDeleted
    <3> QED
      BY <3>4, <3>5
  <2>3. ~Renews(q, team, edits) /\ Follows(q, team, admins, agency, lapses.crossed)
          => Follows(p, team, admins, agency, lapses.crossed)
    BY <1>7, <2>2 DEF Follows
  <2> QED
    BY <1>0, <1>1, <1>4, <1>5, <2>1, <2>3 DEF AgencyInv
<1> QED
  BY <1>6, <1>7

LEMMA AgencyGivenUp ==
  ASSUME AgencyAssumption, AgencyInv, NEW i \in DOMAIN jobs, CloudTak!GiveUp(i) PROVE AgencyInv'
<1>0. /\ AgencyTyped /\ UNCHANGED <<team, admins, agency, makings, edits>> /\ spending' \in UseType
      /\ lapses' \in PastType /\ lapses'.missed
  BY AgencyCounts, AgencyMissing DEF AgencyInv, AgencyTyped, AgencyAssumption, CloudTak!GiveUp
<1>1. PICK p : p = jobs'
  OBVIOUS
<1>2. p \in Seq(AgencyType) /\ Alone(p) /\ \A j \in DOMAIN p : JobRight(p[j], team, makings)
  BY <1>1, QueueLeft DEF CloudTak!GiveUp
<1>3. AgencyTyped'
  <2>1. team # CloudTak!Unborn
    BY <1>0 DEF AgencyTyped
  <2> QED
    BY <1>0, <1>1, <1>2, <2>1 DEF AgencyTyped
<1> QED
  BY <1>0, <1>1, <1>2, <1>3 DEF AgencyInv

LEMMA AgencyStep == ASSUME AgencyAssumption PROVE AgencyInv /\ [CloudTak!Next]_(CloudTak!vars) => AgencyInv'
<1> SUFFICES ASSUME AgencyInv, [CloudTak!Next]_(CloudTak!vars) PROVE AgencyInv'
  OBVIOUS
<1>0. AgencyTyped
  BY DEF AgencyInv
<1>1. ASSUME NEW s \in Sessions, NEW n \in TeamNames, CloudTak!Create(s, n) \/ CloudTak!Rename(s, n) PROVE AgencyInv'
  <2>1. /\ CloudTak!Asks(s, "create") \/ CloudTak!Asks(s, "update")
        /\ team' \in TeamNames /\ team # CloudTak!Deleted /\ UNCHANGED <<admins, agency, makings, jobs, lapses>>
    BY <1>1 DEF CloudTak!Create, CloudTak!Rename, CloudTak!Live, AgencyAssumption, CloudTak!Unborn, CloudTak!Deleted
  <2>2. admins' \subseteq Admins
    BY <1>0, <2>1 DEF AgencyTyped
  <2> QED
    BY <2>1, <2>2, ChangeToPublish
<1>2. ASSUME NEW s \in Sessions, NEW u \in Admins, CloudTak!SetRole(s, u) PROVE AgencyInv'
  <2>1. CloudTak!Asks(s, "update") /\ team' \in TeamNames /\ team # CloudTak!Deleted /\ UNCHANGED <<agency, makings, jobs, lapses>>
    BY <1>2 DEF CloudTak!SetRole, CloudTak!Live, AgencyAssumption
  <2>2. admins' \subseteq Admins
    BY <1>0, <1>2 DEF AgencyTyped, CloudTak!SetRole
  <2> QED
    BY <2>1, <2>2, ChangeToPublish
<1>3. ASSUME NEW u \in Admins, CloudTak!ProvisionOrRemove(u) PROVE AgencyInv'
  <2>1. /\ team \in TeamNames /\ UNCHANGED <<team, agency, makings, edits, lapses>> /\ admins' \subseteq Admins
        /\ jobs' = Append(jobs, CloudTak!Fresh("ensure")) /\ edits' \in [Sessions -> CloudTak!Requests]
    BY <1>0, <1>3 DEF AgencyTyped, CloudTak!ProvisionOrRemove, CloudTak!Live
  <2>2. spending' \in UseType /\ team # CloudTak!Unborn
    BY <1>0, <1>3, <2>1, AgencyCounts DEF AgencyTyped, CloudTak!ProvisionOrRemove, AgencyAssumption
  <2> QED
    BY <2>1, <2>2, EnsureAsked
<1>4. CASE UNCHANGED CloudTak!vars
  BY <1>4 DEF CloudTak!vars, AgencyInv, AgencyTyped
<1> QED
  BY <1>1, <1>2, <1>3, <1>4, AgencyPublished, RoleApproved, AgencyDeleted, TeamRead, GroupMadeOrFound, GroupPatched,
     AdminsRead, MembersRead, MembersApplied, GroupLookedUp, AgencyRemoved, AgencyRetried, AgencyGivenUp
     DEF CloudTak!Next, CloudTak!Works

LEMMA LastOfAll ==
  ASSUME NEW A \in SUBSET Nat, A # {}, NEW n \in Nat, \A j \in A : j <= n
  PROVE  \E i \in A : \A j \in A : j <= i
<1> DEFINE T == {n - j : j \in A}
<1>a. \A j \in A : n - j \in Nat
  OBVIOUS
<1>1. T \in SUBSET Nat /\ T # {}
  BY <1>a
<1>2. PICK x \in T : \A y \in T : ~(<<y, x>> \in OpToRel(<, Nat))
  <2> HIDE DEF T
  <2> QED
    BY <1>1, NatLessThanWellFounded, WFMin
<1>3. \A y \in T : ~(y < x)
  BY <1>1, <1>2 DEF OpToRel
<1>4. PICK i \in A : x = n - i
  OBVIOUS
<1>5. \A j \in A : ~(n - j < n - i)
  BY <1>3, <1>4
<1> QED
  BY <1>5

-----------------------------------------------------------------------------
(* What a queue of operations will make of a member.                       *)

\* The operations of a queue.
Held(q) == {q[i] : i \in DOMAIN q}

LEMMA HeldAppended ==
  ASSUME NEW S, NEW q \in Seq(S), NEW o \in S, NEW p, p = Append(q, o)
  PROVE  p \in Seq(S) /\ Held(p) \subseteq Held(q) \cup {o} /\ Held(q) \subseteq Held(p) /\ o \in Held(p)
<1>1. /\ p \in Seq(S) /\ DOMAIN p = DOMAIN q \cup {Len(q) + 1} /\ Len(q) + 1 \notin DOMAIN q
      /\ p[Len(q) + 1] = o /\ \A j \in DOMAIN q : p[j] = q[j]
  BY OneMore
<1> QED
  BY <1>1 DEF Held

LEMMA HeldCut ==
  ASSUME NEW S, NEW q \in Seq(S), NEW i \in DOMAIN q, NEW p, p = CutAt(q, i)
  PROVE  p \in Seq(S) /\ Held(p) \subseteq Held(q) /\ Held(q) \subseteq Held(p) \cup {q[i]}
<1>1. p \in Seq(S) /\ Rest(q, p, i)
  BY RestLeft
<1>2. PICK f \in [DOMAIN p -> DOMAIN q \ {i}] :
        /\ \A j \in DOMAIN p : p[j] = q[f[j]]
        /\ \A k \in DOMAIN q \ {i} : \E j \in DOMAIN p : f[j] = k
  BY <1>1 DEF Rest
<1>3. Held(p) \subseteq Held(q)
  BY <1>2 DEF Held
<1>4. ASSUME NEW k \in DOMAIN q, k # i PROVE q[k] \in Held(p)
  BY <1>2, <1>4 DEF Held
<1> QED
  BY <1>1, <1>3, <1>4 DEF Held

LEMMA HeldJoined ==
  ASSUME NEW S, NEW q \in Seq(S), NEW t \in Seq(S), NEW p, p = q \o t
  PROVE  /\ p \in Seq(S) /\ Held(p) \subseteq Held(q) \cup Held(t)
         /\ Held(q) \subseteq Held(p) /\ Held(t) \subseteq Held(p)
<1>1. /\ p \in Seq(S) /\ Len(p) = Len(q) + Len(t)
      /\ \A j \in 1 .. Len(q) : p[j] = q[j]
      /\ \A j \in 1 .. Len(t) : p[Len(q) + j] = t[j]
  BY Joined
<1>2. Len(q) \in Nat /\ Len(t) \in Nat /\ DOMAIN q = 1 .. Len(q) /\ DOMAIN t = 1 .. Len(t) /\ DOMAIN p = 1 .. Len(p)
  BY <1>1
<1>3. ASSUME NEW j \in DOMAIN p PROVE p[j] \in Held(q) \cup Held(t)
  <2>1. CASE j <= Len(q)
    BY <1>1, <1>2, <2>1 DEF Held
  <2>2. CASE j > Len(q)
    <3>1. j - Len(q) \in 1 .. Len(t) /\ Len(q) + (j - Len(q)) = j
      BY <1>1, <1>2, <2>2
    <3>2. p[j] = t[j - Len(q)]
      BY <1>1, <3>1
    <3> QED
      BY <1>2, <3>1, <3>2 DEF Held
  <2> QED
    BY <1>1, <1>2, <2>1, <2>2
<1>4. ASSUME NEW j \in DOMAIN q PROVE q[j] \in Held(p)
  <2>1. j \in DOMAIN p /\ p[j] = q[j]
    BY <1>1, <1>2
  <2> QED
    BY <2>1 DEF Held
<1>5. ASSUME NEW j \in DOMAIN t PROVE t[j] \in Held(p)
  <2>1. Len(q) + j \in DOMAIN p /\ p[Len(q) + j] = t[j]
    BY <1>1, <1>2
  <2> QED
    BY <2>1 DEF Held
<1> QED
  BY <1>1, <1>3, <1>4, <1>5 DEF Held

LEMMA HeldReplaced ==
  ASSUME NEW S, NEW q \in Seq(S), NEW i \in DOMAIN q, NEW o \in S, NEW p, p = [q EXCEPT ![i] = o]
  PROVE  p \in Seq(S) /\ Held(p) \subseteq Held(q) \cup {o} /\ Held(q) \subseteq Held(p) \cup {q[i]} /\ o \in Held(p)
<1>1. p \in Seq(S) /\ DOMAIN p = DOMAIN q /\ \A j \in DOMAIN q : p[j] = IF j = i THEN o ELSE q[j]
  OBVIOUS
<1> QED
  BY <1>1 DEF Held

\* With the operations of q on the lane L done, is r among the members, now j?
Wills(q, L, r, j) ==
  \/ \E i \in DOMAIN q : q[i] \in L /\ q[i].kind = "add" /\ \A n \in DOMAIN q : n > i => q[n] \notin L
  \/ r \in j /\ Held(q) \cap L = {}

LEMMA WillsAppended ==
  ASSUME NEW S, NEW q \in Seq(S), NEW o \in S, NEW p, p = Append(q, o), NEW L, NEW r, NEW now
  PROVE  Wills(p, L, r, now) <=> IF o \in L THEN o.kind = "add" ELSE Wills(q, L, r, now)
<1>1. /\ p \in Seq(S) /\ DOMAIN p = DOMAIN q \cup {Len(q) + 1} /\ Len(q) + 1 \notin DOMAIN q
      /\ p[Len(q) + 1] = o /\ \A j \in DOMAIN q : p[j] = q[j]
  BY OneMore
<1>2. Len(q) \in Nat /\ DOMAIN q = 1 .. Len(q) /\ DOMAIN p = 1 .. Len(q) + 1
  BY <1>1
<1>3. CASE o \in L
  BY <1>1, <1>2, <1>3 DEF Wills, Held
<1>4. CASE o \notin L
  <2>1. Held(p) \cap L = {} <=> Held(q) \cap L = {}
    BY <1>1, <1>4 DEF Held
  <2>2. (\E i \in DOMAIN p : p[i] \in L /\ p[i].kind = "add" /\ \A j \in DOMAIN p : j > i => p[j] \notin L)
          <=> \E i \in DOMAIN q : q[i] \in L /\ q[i].kind = "add" /\ \A j \in DOMAIN q : j > i => q[j] \notin L
    BY <1>1, <1>2, <1>4
  <2> QED
    BY <1>4, <2>1, <2>2 DEF Wills
<1> QED
  BY <1>3, <1>4

\* Behind it operations that, on this lane, are all adds or all removals.
OfKind(t, L, kind) == \A o \in Held(t) \cap L : o.kind = kind

LEMMA WillsJoined ==
  ASSUME NEW S, NEW q \in Seq(S), NEW t \in Seq(S), NEW p, p = q \o t, NEW L, NEW r, NEW now,
         NEW kind, OfKind(t, L, kind)
  PROVE  Wills(p, L, r, now) <=> IF Held(t) \cap L # {} THEN kind = "add" ELSE Wills(q, L, r, now)
<1>1. /\ p \in Seq(S) /\ Len(p) = Len(q) + Len(t)
      /\ \A j \in 1 .. Len(q) : p[j] = q[j]
      /\ \A j \in 1 .. Len(t) : p[Len(q) + j] = t[j]
  BY Joined
<1>2. Len(q) \in Nat /\ Len(t) \in Nat /\ DOMAIN q = 1 .. Len(q) /\ DOMAIN t = 1 .. Len(t) /\ DOMAIN p = 1 .. Len(p)
  BY <1>1
<1>3. Held(p) \subseteq Held(q) \cup Held(t) /\ Held(q) \subseteq Held(p) /\ Held(t) \subseteq Held(p)
  BY HeldJoined
<1>b. \A j \in DOMAIN p : j > Len(q) => p[j] \in Held(t)
  <2>1. ASSUME NEW j \in DOMAIN p, j > Len(q) PROVE p[j] \in Held(t)
    <3>1. j - Len(q) \in DOMAIN t /\ Len(q) + (j - Len(q)) = j
      BY <1>1, <1>2, <2>1
    <3>2. p[j] = t[j - Len(q)]
      BY <1>1, <1>2, <3>1
    <3> QED
      BY <3>1, <3>2 DEF Held
  <2> QED
    BY <2>1
<1>4. CASE Held(t) \cap L = {}
  <2>1. Held(p) \cap L = {} <=> Held(q) \cap L = {}
    BY <1>3, <1>4
  <2>2. \A j \in DOMAIN p : p[j] \in L => j \in DOMAIN q
    BY <1>b, <1>1, <1>2, <1>4
  <2>3. DOMAIN q \subseteq DOMAIN p /\ \A j \in DOMAIN q : p[j] = q[j]
    BY <1>1, <1>2
  <2>4. (\E i \in DOMAIN p : p[i] \in L /\ p[i].kind = "add" /\ \A j \in DOMAIN p : j > i => p[j] \notin L)
          <=> \E i \in DOMAIN q : q[i] \in L /\ q[i].kind = "add" /\ \A j \in DOMAIN q : j > i => q[j] \notin L
    BY <2>2, <2>3
  <2> QED
    BY <1>4, <2>1, <2>4 DEF Wills
<1>5. CASE Held(t) \cap L # {}
  <2>0. \A o \in Held(t) \cap L : o.kind = kind
    BY DEF OfKind
  <2>1. PICK m \in DOMAIN t : t[m] \in L
    BY <1>5 DEF Held
  <2>2. Len(q) + m \in DOMAIN p /\ p[Len(q) + m] \in L
    BY <1>1, <1>2, <2>1
  <2>3. Held(p) \cap L # {}
    BY <1>3, <1>5
  <2>4. \A i \in DOMAIN p : p[i] \in L /\ (\A j \in DOMAIN p : j > i => p[j] \notin L) => p[i].kind = kind
    BY <1>b, <1>1, <1>2, <2>0, <2>1, <2>2
  <2>5. \E i \in DOMAIN p : p[i] \in L /\ \A j \in DOMAIN p : j > i => p[j] \notin L
    <3> DEFINE At == {j \in DOMAIN p : p[j] \in L}
    <3>1. \E i \in At : \A j \in At : j <= i
      <4>1. At \in SUBSET Nat /\ At # {} /\ Len(p) \in Nat
        BY <1>1, <1>2, <2>2
      <4>2. \A j \in At : j <= Len(p)
        BY <1>2
      <4> HIDE DEF At
      <4> QED
        BY <4>1, <4>2, LastOfAll
    <3> QED
      BY <1>1, <1>2, <3>1
  <2> QED
    BY <1>5, <2>3, <2>4, <2>5 DEF Wills
<1> QED
  BY <1>4, <1>5

LEMMA WillsCut ==
  ASSUME NEW S, NEW q \in Seq(S), NEW i \in DOMAIN q, NEW p, p = CutAt(q, i), NEW L, NEW r, NEW now,
         NEW then, r \in then <=> q[i].kind = "add"
  PROVE  /\ q[i] \notin L => (Wills(p, L, r, now) <=> Wills(q, L, r, now))
         /\ q[i] \in L /\ (\A j \in DOMAIN q : j < i => q[j] \notin L) =>
              (Wills(p, L, r, then) <=> Wills(q, L, r, now))
<1>1. /\ p \in Seq(S) /\ Len(p) = Len(q) - 1 /\ DOMAIN p = 1 .. Len(q) - 1
      /\ \A j \in 1 .. Len(q) - 1 : p[j] = IF j < i THEN q[j] ELSE q[j + 1]
  BY SMTT(30), Without
<1>2. i \in 1 .. Len(q) /\ Len(q) \in Nat /\ DOMAIN q = 1 .. Len(q)
  OBVIOUS
<1>3. Held(p) \subseteq Held(q) /\ Held(q) \subseteq Held(p) \cup {q[i]}
  BY HeldCut
\* Where an operation of q goes, and where one of p was.
<1> DEFINE to(j) == IF j < i THEN j ELSE j - 1
           of(j) == IF j < i THEN j ELSE j + 1
<1>4. \A j \in DOMAIN p : of(j) \in DOMAIN q \ {i} /\ p[j] = q[of(j)]
  BY <1>1, <1>2
<1>5. \A j \in DOMAIN q \ {i} : to(j) \in DOMAIN p /\ p[to(j)] = q[j]
  <2> SUFFICES ASSUME NEW j \in DOMAIN q \ {i} PROVE to(j) \in DOMAIN p /\ p[to(j)] = q[j]
    OBVIOUS
  <2>1. CASE j < i
    BY <1>1, <1>2, <2>1
  <2>2. CASE j > i
    <3>1. j - 1 \in 1 .. Len(q) - 1 /\ ~(j - 1 < i) /\ (j - 1) + 1 = j
      BY <1>2, <2>2
    <3>2. p[j - 1] = q[j]
      BY <1>1, <3>1
    <3> QED
      BY <1>1, <2>2, <3>1, <3>2
  <2> QED
    BY <1>2, <2>1, <2>2
<1>6. /\ \A j, k \in DOMAIN p : j > k <=> of(j) > of(k)
      /\ \A j, k \in DOMAIN q \ {i} : j > k <=> to(j) > to(k)
  BY <1>1, <1>2
<1>7. (\E j \in DOMAIN p : p[j] \in L /\ p[j].kind = "add" /\ \A k \in DOMAIN p : k > j => p[k] \notin L)
        <=> \E j \in DOMAIN q \ {i} :
              q[j] \in L /\ q[j].kind = "add" /\ \A k \in DOMAIN q \ {i} : k > j => q[k] \notin L
  <2>1. ASSUME NEW j \in DOMAIN p, p[j] \in L, p[j].kind = "add", \A k \in DOMAIN p : k > j => p[k] \notin L
        PROVE  /\ of(j) \in DOMAIN q \ {i} /\ q[of(j)] \in L /\ q[of(j)].kind = "add"
               /\ \A k \in DOMAIN q \ {i} : k > of(j) => q[k] \notin L
    <3>1. ASSUME NEW k \in DOMAIN q \ {i}, k > of(j) PROVE to(k) > j
      BY <1>1, <1>2, <3>1
    <3> QED
      BY <1>4, <1>5, <2>1, <3>1
  <2>2. ASSUME NEW j \in DOMAIN q \ {i}, q[j] \in L, q[j].kind = "add",
               \A k \in DOMAIN q \ {i} : k > j => q[k] \notin L
        PROVE  /\ to(j) \in DOMAIN p /\ p[to(j)] \in L /\ p[to(j)].kind = "add"
               /\ \A k \in DOMAIN p : k > to(j) => p[k] \notin L
    <3>1. ASSUME NEW k \in DOMAIN p, k > to(j) PROVE of(k) > j
      BY <1>1, <1>2, <3>1
    <3> QED
      BY <1>4, <1>5, <2>2, <3>1
  <2> QED
    BY <2>1, <2>2
<1> HIDE DEF to, of
<1>8. ASSUME q[i] \notin L PROVE Wills(p, L, r, now) <=> Wills(q, L, r, now)
  <2>1. Held(p) \cap L = {} <=> Held(q) \cap L = {}
    BY <1>3, <1>8
  <2>2. (\E j \in DOMAIN q \ {i} :
           q[j] \in L /\ q[j].kind = "add" /\ \A k \in DOMAIN q \ {i} : k > j => q[k] \notin L)
          <=> \E j \in DOMAIN q : q[j] \in L /\ q[j].kind = "add" /\ \A k \in DOMAIN q : k > j => q[k] \notin L
    BY <1>8
  <2> QED
    BY <1>7, <2>1, <2>2 DEF Wills
<1>9. ASSUME q[i] \in L, \A j \in DOMAIN q : j < i => q[j] \notin L
      PROVE  Wills(p, L, r, then) <=> Wills(q, L, r, now)
  <2>1. Held(q) \cap L # {}
    BY <1>9 DEF Held
  <2>2. CASE Held(p) \cap L = {}
    <3>1. \A j \in DOMAIN q \ {i} : q[j] \notin L
      BY <1>5, <2>2 DEF Held
    <3> QED
      BY <1>7, <1>9, <2>1, <2>2, <3>1 DEF Wills
  <2>3. CASE Held(p) \cap L # {}
    <3>1. PICK m \in DOMAIN p : p[m] \in L
      BY <2>3 DEF Held
    <3>2. of(m) \in DOMAIN q \ {i} /\ q[of(m)] \in L
      BY <1>4, <3>1
    <3>3. PICK n \in DOMAIN q \ {i} : q[n] \in L
      BY <3>2
    <3>4. n > i
      BY <1>2, <1>9, <3>3
    <3>5. \A j \in DOMAIN q : (\A k \in DOMAIN q : k > j => q[k] \notin L) => j # i
      BY <3>3, <3>4
    <3>6. \A j \in DOMAIN q \ {i} : q[j] \in L => ~(i > j)
      BY <1>2, <1>9
    <3>7. (\E j \in DOMAIN q \ {i} :
             q[j] \in L /\ q[j].kind = "add" /\ \A k \in DOMAIN q \ {i} : k > j => q[k] \notin L)
            <=> \E j \in DOMAIN q : q[j] \in L /\ q[j].kind = "add" /\ \A k \in DOMAIN q : k > j => q[k] \notin L
      BY <3>5, <3>6
    <3> QED
      BY <1>7, <2>1, <2>3, <3>7 DEF Wills
  <2> QED
    BY <2>2, <2>3
<1> QED
  BY <1>8, <1>9

\* The only one on its lane.
LEMMA WillsOfOne ==
  ASSUME NEW S, NEW q \in Seq(S), NEW i \in DOMAIN q, NEW L, NEW r, NEW now,
         q[i] \in L, \A j \in DOMAIN q \ {i} : q[j] \notin L
  PROVE  Wills(q, L, r, now) <=> q[i].kind = "add"
<1>1. Held(q) \cap L # {}
  BY DEF Held
<1>2. \A j \in DOMAIN q : j > i => j # i
  OBVIOUS
<1> QED
  BY <1>1, <1>2 DEF Wills

LEMMA WillsReplaced ==
  ASSUME NEW S, NEW q \in Seq(S), NEW i \in DOMAIN q, NEW o \in S, NEW p, p = [q EXCEPT ![i] = o],
         NEW L, NEW r, NEW now, q[i] \notin L, o \notin L
  PROVE  Wills(p, L, r, now) <=> Wills(q, L, r, now)
<1>1. DOMAIN p = DOMAIN q /\ \A j \in DOMAIN q : p[j] = IF j = i THEN o ELSE q[j]
  OBVIOUS
<1>2. Held(p) \cap L = {} <=> Held(q) \cap L = {}
  BY <1>1 DEF Held
<1> QED
  BY <1>1, <1>2 DEF Wills

-----------------------------------------------------------------------------
(* The custom channels of a team.                                          *)

CONSTANTS Labels, Perms, ReadWrite, Members, Limit, MaxCreations, MaxEdits
VARIABLES primary, suffix, made, channels, groups, perms, within, posts, tasks, born, spent, slips

Customs == INSTANCE CustomChannels
  WITH Users <- Members, joined <- within, web <- posts, ops <- tasks, used <- spent, past <- slips

CustomAssumption ==
  /\ Limit \in Nat \ {0} /\ MaxCreations \in Nat /\ MaxEdits \in Nat /\ MaxFaults \in Nat
  /\ IsFiniteSet(Members)

NumberType == Customs!Creations
PostType ==
  {Customs!Idle}
  \cup [pc : {"insert", "commit"}, k : NumberType, u : {Customs!None}, p : {Customs!None}, seen : 0 .. MaxCreations]
  \cup [pc : {"join", "leave"}, k : NumberType, u : Members, p : Perms, seen : {0}]
MemberTask == [kind : {"add", "remove"}, k : NumberType, u : Members, ps : {{p} : p \in Perms}]
DeleteTask == [kind : {"delete"}, k : NumberType, u : {Customs!None}, ps : SUBSET Perms]
TaskType == MemberTask \cup DeleteTask
SpentType == [creations : 0 .. MaxCreations, edits : 0 .. MaxEdits, faults : 0 .. MaxFaults]
SlipType == [kept : SUBSET Customs!Row, crossed : SUBSET (NumberType \X Members), left : SUBSET NumberType]

CustomTyped ==
  /\ primary \in BOOLEAN
  /\ suffix \in [NumberType -> Labels \cup {Customs!None}] /\ made \in [NumberType -> SUBSET Perms]
  /\ channels \subseteq NumberType /\ groups \subseteq NumberType \X Perms
  /\ perms \subseteq Customs!Row /\ within \subseteq Customs!Row
  /\ posts \in [Sessions -> PostType]
  /\ tasks \in Seq(TaskType)
  /\ spent \in SpentType /\ slips \in SlipType

Opens(s) == posts[s].pc \in {"insert", "commit"}
Publishes(s) == posts[s].pc \in {"join", "leave"}
Openings == {k \in NumberType : \E s \in Sessions : Opens(s) /\ posts[s].k = k}

\* A channel is inserted once, and a transaction that counted commits only when
\* no other has inserted since.
Counted ==
  /\ Customs!Count <= Limit
  /\ born \in Nat /\ born + Cardinality(Openings) <= spent.creations
  /\ \A s \in Sessions : posts[s].pc = "commit" =>
       posts[s].seen <= born /\ (posts[s].seen = born => Customs!Count < Limit)

\* Rows that say, or said when nobody acted upon it, that a user is to be a member.
Due == perms \cup slips.kept
InUse(k) ==
  \/ k \in channels
  \/ \E r \in Due \cup within : r[1] = k
  \/ \E o \in Held(tasks) : o.k = k

\* A creation's number is its own: nothing has it that the creation did not make.
Known ==
  /\ \A k \in NumberType : InUse(k) => k <= spent.creations
  /\ \A g \in groups : g[1] <= spent.creations
  /\ \A s \in Sessions : posts[s].k <= spent.creations
Fresh ==
  \A s \in Sessions : Opens(s) =>
    ~InUse(posts[s].k) /\ \A r \in Sessions \ {s} : posts[r].k # posts[s].k

Deletes(q, k) == {o \in Held(q) : o.kind = "delete" /\ o.k = k}
GroupsKept ==
  /\ \A k \in channels \cup Openings : {k} \X made[k] \subseteq groups
  /\ \A g \in groups : g[1] \in slips.left \/ g[2] \in made[g[1]]
  /\ \A g \in groups : g[1] \in channels \cup slips.left \cup Openings \/ \E o \in Deletes(tasks, g[1]) : g[2] \in o.ps
  /\ \A k \in channels : Deletes(tasks, k) = {}

Membered ==
  /\ perms \cap slips.kept = {}
  /\ \A r \in within : r[3] \in made[r[1]]
  /\ \A o \in Held(tasks) : o.kind # "delete" => o.ps \subseteq made[o.k]

\* Of the row of user u in channel k, for the sessions' requests w, the queue q,
\* the rows d, the groups' members j and the groups m that the channel has.
Says(r, k, u) == r.pc \in {"join", "leave"} /\ r.k = k /\ r.u = u
Lane(k, u, p) == {Customs!Op("add", k, u, p), Customs!Op("remove", k, u, p)}
ToldOf(w, q, d, j, m, k, u) ==
  /\ \A s, r \in Sessions : Says(w[s], k, u) /\ Says(w[r], k, u) => s = r
  /\ \A s \in Sessions : Says(w[s], k, u) => (<<k, u, w[s].p>> \in d <=> w[s].pc = "join")
  /\ \A p \in Perms : (\A s \in Sessions : ~(Says(w[s], k, u) /\ w[s].p = p)) =>
       (Wills(q, Lane(k, u, p), <<k, u, p>>, j) <=> p \in m /\ <<k, u, p>> \in d)
Told ==
  \A k \in channels, u \in Members :
    <<k, u>> \notin slips.crossed => ToldOf(posts, tasks, Due, within, made[k], k, u)

CustomInv == CustomTyped /\ Counted /\ Known /\ Fresh /\ GroupsKept /\ Membered /\ Told

LEMMA CustomCuts == \A q, i : Customs!RemoveAt(q, i) = CutAt(q, i)
BY DEF Customs!RemoveAt, CutAt

LEMMA CustomCounts == \A S : Customs!Cardinality(S) = Cardinality(S)
BY DEF Customs!Cardinality, Cardinality, Customs!IsFiniteSet, IsFiniteSet

LEMMA RangeFinite ==
  ASSUME NEW A, IsFiniteSet(A), NEW f, DOMAIN f = A, NEW S \in SUBSET {f[a] : a \in A}
  PROVE  IsFiniteSet(S)
<1> DEFINE T == {f[a] : a \in A}
<1>1. [a \in A |-> f[a]] \in Surjection(A, T)
  BY DEF Surjection
<1>2. IsFiniteSet(T)
  <2> HIDE DEF T
  <2> QED
    BY <1>1, FS_Surjection
<1> QED
  BY <1>2, FS_Subset

\* A set of operations published one after the other.
LEMMA ListOf ==
  ASSUME NEW T, NEW S \in SUBSET T, IsFiniteSet(S), NEW t, t = Customs!SetToSeq(S)
  PROVE  t \in Seq(T) /\ Held(t) \subseteq S /\ S \subseteq Held(t)
<1> DEFINE n == Cardinality(S)
<1>1. n \in Nat /\ ExistsBijection(1 .. n, S)
  BY FS_CardinalityType
<1> HIDE DEF n
<1>2. \E f \in [1 .. n -> S] : Customs!IsInjective(f)
  <2>1. PICK f : f \in Bijection(1 .. n, S)
    BY <1>1 DEF ExistsBijection
  <2> QED
    BY <2>1 DEF Bijection, Injection, IsInjective, Customs!IsInjective
<1>3. t = CHOOSE f \in [1 .. n -> S] : Customs!IsInjective(f)
  BY CustomCounts DEF Customs!SetToSeq, n
<1>4. t \in [1 .. n -> S] /\ Customs!IsInjective(t)
  BY <1>2, <1>3
<1>5. t \in Injection(1 .. n, S)
  BY <1>4 DEF Injection, IsInjective, Customs!IsInjective
<1>6. IsFiniteSet(1 .. n) /\ Cardinality(1 .. n) = n
  BY <1>1, FS_Interval
<1>7. t \in Surjection(1 .. n, S)
  BY <1>5, <1>6, FS_Injection DEF n
<1>8. S \subseteq Held(t)
  BY <1>4, <1>7 DEF Surjection, Held
<1> QED
  BY <1>1, <1>4, <1>8 DEF Held

LEMMA NumbersFinite ==
  ASSUME CustomAssumption, NEW S \in SUBSET NumberType
  PROVE  IsFiniteSet(S) /\ Cardinality(S) \in Nat
<1>1. MaxCreations \in Int /\ NumberType = 1 .. MaxCreations
  BY DEF CustomAssumption, NumberType, Customs!Creations
<1>2. IsFiniteSet(NumberType)
  BY <1>1, FS_Interval
<1> QED
  BY <1>2, FS_Subset, FS_CardinalityType

LEMMA OpeningsFinite ==
  ASSUME CustomAssumption PROVE IsFiniteSet(Openings) /\ Cardinality(Openings) \in Nat
BY NumbersFinite DEF Openings

LEMMA CustomInvHolds == ASSUME CustomAssumption PROVE CustomInv => Customs!CustomChannelsSound
<1> SUFFICES ASSUME CustomInv PROVE Customs!CustomChannelsSound
  OBVIOUS
<1> USE DEF NumberType
<1>0. CustomTyped /\ Counted /\ Known /\ Fresh /\ GroupsKept /\ Membered /\ Told
  BY DEF CustomInv
<1>1. Customs!TypeOK
  <2>1. posts \in [Sessions -> [pc : {"idle", "insert", "commit", "join", "leave"}, k : 0 .. MaxCreations,
                     u : Members \cup {Customs!None}, p : Perms \cup {Customs!None}, seen : 0 .. MaxCreations]]
    BY <1>0 DEF CustomTyped, PostType, Customs!Idle, Customs!Creations, CustomAssumption
  <2>2. \A o \in TaskType : o \in [kind : {"add", "remove", "delete"}, k : Customs!Creations,
                                   u : Members \cup {Customs!None}, ps : SUBSET Perms]
    BY DEF TaskType, MemberTask, DeleteTask
  <2>3. \A i \in DOMAIN tasks : tasks[i] \in TaskType
    BY <1>0 DEF CustomTyped
  <2>4. born \in 0 .. MaxCreations
    BY <1>0, OpeningsFinite DEF Counted, CustomTyped, SpentType, CustomAssumption
  <2> QED
    BY <1>0, <2>1, <2>2, <2>3, <2>4 DEF CustomTyped, SpentType, SlipType, Customs!TypeOK
<1>2. Customs!AtMostLimit
  BY <1>0 DEF Counted, Customs!AtMostLimit
<1>3. Customs!NoStrayGroup
  <2>1. \A k \in channels : {k} \X made[k] \subseteq groups
    BY <1>0 DEF GroupsKept
  <2>2. ASSUME NEW g \in groups
        PROVE  \/ g[1] \in channels \cup slips.left
               \/ \E s \in Sessions : posts[s].k = g[1]
               \/ \E i \in DOMAIN tasks : tasks[i].kind = "delete" /\ tasks[i].k = g[1]
    BY <1>0 DEF GroupsKept, Openings, Deletes, Held
  <2> QED
    BY <2>1, <2>2 DEF Customs!NoStrayGroup
<1>4. Customs!GroupsMatchPermissions
  <2> SUFFICES ASSUME NEW k \in channels, NEW u \in Members, Customs!Quiet(k, u), <<k, u>> \notin slips.crossed
               PROVE  {p \in Perms : <<k, u, p>> \in within}
                        = made[k] \cap {p \in Perms : <<k, u, p>> \in perms \cup slips.kept}
    BY DEF Customs!GroupsMatchPermissions
  <2>1. ToldOf(posts, tasks, Due, within, made[k], k, u)
    BY <1>0 DEF Told
  <2>2. \A s \in Sessions : ~Says(posts[s], k, u)
    BY DEF Customs!Quiet, Customs!Publishing, Says
  <2>3. ASSUME NEW p \in Perms PROVE <<k, u, p>> \in within <=> p \in made[k] /\ <<k, u, p>> \in Due
    <3>1. \A i \in DOMAIN tasks : tasks[i] \notin Lane(k, u, p)
      BY DEF Customs!Quiet, Lane, Customs!Op
    <3>2. Held(tasks) \cap Lane(k, u, p) = {}
      BY <3>1 DEF Held
    <3>3. Wills(tasks, Lane(k, u, p), <<k, u, p>>, within) <=> <<k, u, p>> \in within
      BY <3>1, <3>2 DEF Wills
    <3> QED
      BY <2>1, <2>2, <3>3 DEF ToldOf
  <2>4. made[k] \subseteq Perms
    BY <1>0 DEF CustomTyped
  <2> QED
    BY <2>3, <2>4 DEF Due
<1> QED
  BY <1>1, <1>2, <1>3, <1>4 DEF Customs!CustomChannelsSound

LEMMA CustomStart == ASSUME CustomAssumption PROVE Customs!Init => CustomInv
<1> SUFFICES ASSUME Customs!Init PROVE CustomInv
  OBVIOUS
<1>0. /\ primary \in BOOLEAN /\ channels = {} /\ groups = {} /\ perms = {} /\ within = {} /\ tasks = <<>> /\ born = 0
      /\ spent = [creations |-> 0, edits |-> 0, faults |-> 0] /\ slips = [kept |-> {}, crossed |-> {}, left |-> {}]
      /\ posts = [s \in Sessions |-> Customs!Idle]
  BY DEF Customs!Init
<1>1. \A s \in Sessions : posts[s] = Customs!Idle /\ posts[s].pc = "idle" /\ posts[s].k = 0
  BY <1>0 DEF Customs!Idle
<1>2. Held(tasks) = {}
  BY <1>0 DEF Held
<1>3. CustomTyped
  <2>1. spent \in SpentType /\ slips \in SlipType
    BY <1>0 DEF SpentType, SlipType, CustomAssumption
  <2>2. posts \in [Sessions -> PostType]
    BY <1>0 DEF PostType
  <2> QED
    BY <1>0, <2>1, <2>2 DEF CustomTyped, Customs!Init, NumberType
<1>4. Counted
  <2>1. Openings = {}
    BY <1>1 DEF Openings, Opens
  <2>2. Cardinality(Openings) = 0 /\ Cardinality(channels) = 0
    BY <1>0, <2>1, FS_EmptySet
  <2> QED
    BY <1>0, <1>1, <2>2, CustomCounts DEF Counted, Customs!Count, CustomAssumption
<1>5. \A k : ~InUse(k)
  BY <1>0, <1>2 DEF InUse, Due
<1>6. Known /\ Fresh
  BY <1>0, <1>1, <1>5 DEF Known, Fresh, Opens
<1>7. GroupsKept
  <2>1. Openings = {}
    BY <1>1 DEF Openings, Opens
  <2> QED
    BY <1>0, <2>1 DEF GroupsKept
<1>8. Membered
  BY <1>0, <1>2 DEF Membered
<1>9. Told
  BY <1>0 DEF Told
<1> QED
  BY <1>3, <1>4, <1>6, <1>7, <1>8, <1>9 DEF CustomInv

\* What a step leaves as it is.
LEMMA ToldKept ==
  ASSUME NEW w, NEW q, NEW d, NEW j, NEW m, NEW k, NEW u, ToldOf(w, q, d, j, m, k, u),
         NEW x, NEW r, NEW e, NEW i, NEW n, n = m,
         \A s \in Sessions : (Says(x[s], k, u) <=> Says(w[s], k, u)) /\ (Says(w[s], k, u) => x[s] = w[s]),
         \A p : <<k, u, p>> \in e <=> <<k, u, p>> \in d,
         \A p \in Perms : Wills(r, Lane(k, u, p), <<k, u, p>>, i) <=> Wills(q, Lane(k, u, p), <<k, u, p>>, j)
  PROVE  ToldOf(x, r, e, i, n, k, u)
<1>1. \A s, t \in Sessions : Says(x[s], k, u) /\ Says(x[t], k, u) => s = t
  BY DEF ToldOf
<1>2. ASSUME NEW s \in Sessions, Says(x[s], k, u) PROVE <<k, u, x[s].p>> \in e <=> x[s].pc = "join"
  <2>1. Says(w[s], k, u) /\ x[s] = w[s]
    BY <1>2
  <2>2. <<k, u, w[s].p>> \in d <=> w[s].pc = "join"
    BY <2>1 DEF ToldOf
  <2> QED
    BY <2>1, <2>2
<1>3. \A p \in Perms : (\A s \in Sessions : ~(Says(x[s], k, u) /\ x[s].p = p)) =>
        (Wills(r, Lane(k, u, p), <<k, u, p>>, i) <=> p \in n /\ <<k, u, p>> \in e)
  BY DEF ToldOf
<1> QED
  BY <1>1, <1>2, <1>3 DEF ToldOf

\* A step that begins no creation and inserts no channel.
LEMMA NothingNew ==
  ASSUME CustomTyped, CustomTyped', Known, Fresh, groups' \subseteq groups, spent'.creations = spent.creations,
         \A k \in NumberType : InUse(k)' => InUse(k) \/ \E s \in Sessions : Publishes(s) /\ posts[s].k = k,
         \A t \in Sessions :
           \/ posts'[t] = posts[t] \/ posts'[t] = Customs!Idle
           \/ Publishes(t)' /\ posts'[t].k \in NumberType /\ InUse(posts'[t].k)
           \/ Opens(t) /\ posts'[t].k = posts[t].k
  PROVE  Known' /\ Fresh'
<1>0. \A s \in Sessions : posts[s] \in PostType /\ posts'[s] \in PostType
  BY DEF CustomTyped
<1>1. /\ \A w \in PostType : w.pc # "idle" => w.k \in NumberType
      /\ Customs!Idle.pc = "idle" /\ Customs!Idle.k = 0 /\ 0 \notin NumberType
  BY DEF PostType, Customs!Idle, NumberType, Customs!Creations
<1>2. spent.creations \in Nat /\ \A k \in NumberType : k \in Nat
  BY DEF CustomTyped, SpentType, NumberType, Customs!Creations
<1>3. \A s \in Sessions : Publishes(s) => posts[s].k <= spent.creations
  BY DEF Known
<1>4. \A s \in Sessions : posts'[s].k <= spent.creations
  BY <1>0, <1>1, <1>2 DEF Known
<1>5. Known'
  <2>1. \A k \in NumberType : InUse(k)' => k <= spent.creations
    BY <1>3 DEF Known
  <2> QED
    BY <1>4, <2>1 DEF Known
<1>6. Fresh'
  <2> SUFFICES ASSUME NEW s \in Sessions, Opens(s)'
               PROVE  ~InUse(posts[s].k)' /\ \A r \in Sessions \ {s} : posts'[r].k # posts'[s].k
    BY DEF Fresh
  <2>1. PICK k \in NumberType : Opens(s) /\ posts[s].k = k /\ posts'[s].k = k
    BY <1>0, <1>1 DEF Opens, Publishes
  <2>2. ~InUse(k) /\ \A r \in Sessions \ {s} : posts[r].k # k
    BY <2>1 DEF Fresh
  <2>3. \A r \in Sessions : Publishes(r) => posts[r].k # k
    BY <2>1, <2>2 DEF Opens, Publishes
  <2>4. ~InUse(k)'
    BY <2>2, <2>3
  <2>5. \A r \in Sessions \ {s} : posts'[r].k # k
    BY <1>1, <2>1, <2>2
  <2> QED
    BY <2>1, <2>4, <2>5 DEF InUse
<1> QED
  BY <1>5, <1>6

\* Of the groups, a step that leaves them, the channels and the openings.
LEMMA GroupsStay ==
  ASSUME GroupsKept, made' = made, groups' = groups, channels' = channels, Openings' = Openings,
         slips.left \subseteq slips'.left,
         \A k \in NumberType : Deletes(tasks', k) = Deletes(tasks, k), groups \subseteq NumberType \X Perms,
         channels \subseteq NumberType
  PROVE  GroupsKept'
BY DEF GroupsKept

LEMMA OpeningsStay ==
  ASSUME NEW s \in Sessions, NEW w, posts' = [posts EXCEPT ![s] = w], DOMAIN posts = Sessions,
         ~Opens(s) \/ posts[s].k = w.k, Opens(s) <=> w.pc \in {"insert", "commit"}
  PROVE  Openings' = Openings
<1>1. posts'[s] = w /\ \A t \in Sessions \ {s} : posts'[t] = posts[t]
  OBVIOUS
<1>2. \A t \in Sessions : (Opens(t)' <=> Opens(t)) /\ (Opens(t) => posts'[t].k = posts[t].k)
  BY <1>1 DEF Opens
<1> QED
  BY <1>2 DEF Openings

LEMMA CountStays ==
  ASSUME Counted, channels' = channels, primary' = primary, Openings' = Openings, born' = born,
         spent'.creations = spent.creations,
         \A s \in Sessions : posts'[s].pc = "commit" => posts'[s] = posts[s]
  PROVE  Counted'
<1>1. Customs!Count' = Customs!Count
  BY DEF Customs!Count
<1> QED
  BY <1>1 DEF Counted

\* The steps, one by one: a creation asks for its groups,
LEMMA CreationPrepared ==
  ASSUME CustomAssumption, CustomInv, NEW s \in Sessions, NEW n \in Labels, Customs!PrepareCustomChannel(s, n)
  PROVE  CustomInv'
<1>0. CustomTyped /\ Counted /\ Known /\ Fresh /\ GroupsKept /\ Membered /\ Told
  BY DEF CustomInv
<1>1. PICK k \in NumberType :
        /\ k = spent.creations + 1 /\ posts[s].pc = "idle"
        /\ suffix' = [suffix EXCEPT ![k] = n]
        /\ UNCHANGED <<primary, channels, perms, within, tasks, born>>
        /\ \/ /\ made' = [made EXCEPT ![k] = Customs!Free(n)]
              /\ groups' = groups \cup ({k} \X Customs!Free(n))
              /\ posts' = [posts EXCEPT ![s] = [Customs!Idle EXCEPT !.pc = "insert", !.k = k]]
              /\ spent' = [spent EXCEPT !.creations = k]
              /\ UNCHANGED slips
           \/ /\ spent.faults < MaxFaults
              /\ spent' = [spent EXCEPT !.creations = k, !.faults = @ + 1]
              /\ \E done \in SUBSET Customs!Free(n) : groups' = groups \cup ({k} \X done)
              /\ slips' = [slips EXCEPT !.left = @ \cup {k}]
              /\ UNCHANGED <<made, posts>>
  <2>1. spent.creations + 1 \in NumberType
    BY <1>0 DEF CustomTyped, SpentType, NumberType, Customs!Creations, Customs!PrepareCustomChannel, CustomAssumption
  <2> QED
    BY <2>1 DEF Customs!PrepareCustomChannel, Customs!At
<1>2. PICK done \in SUBSET Perms, w \in PostType :
        /\ groups' = groups \cup ({k} \X done) /\ posts' = [posts EXCEPT ![s] = w]
        /\ spent' \in SpentType /\ spent'.creations = k
        /\ slips' \in SlipType /\ slips'.kept = slips.kept /\ slips'.crossed = slips.crossed /\ slips.left \subseteq slips'.left
        /\ w.pc \in {"idle", "insert"}
        /\ \/ w.pc = "insert" /\ w.k = k /\ made' = [made EXCEPT ![k] = done]
           \/ w = posts[s] /\ made' = made /\ k \in slips'.left
  <2>1. spent \in SpentType /\ slips \in SlipType /\ posts \in [Sessions -> PostType]
    BY <1>0 DEF CustomTyped
  <2>2. Customs!Free(n) \in SUBSET Perms
    BY DEF Customs!Free
  <2>3. k \in 0 .. MaxCreations /\ spent.faults \in 0 .. MaxFaults /\ MaxFaults \in Nat
    BY <2>1 DEF NumberType, Customs!Creations, SpentType, CustomAssumption
  <2>4. CASE /\ made' = [made EXCEPT ![k] = Customs!Free(n)]
             /\ groups' = groups \cup ({k} \X Customs!Free(n))
             /\ posts' = [posts EXCEPT ![s] = [Customs!Idle EXCEPT !.pc = "insert", !.k = k]]
             /\ spent' = [spent EXCEPT !.creations = k]
             /\ UNCHANGED slips
    <3> DEFINE w == [Customs!Idle EXCEPT !.pc = "insert", !.k = k]
    <3>a. 0 \in 0 .. MaxCreations
      BY DEF CustomAssumption
    <3>1. w \in PostType /\ w.pc = "insert" /\ w.k = k
      BY <3>a DEF PostType, Customs!Idle
    <3>2. spent' \in SpentType /\ spent'.creations = k
      BY <2>1, <2>3, <2>4 DEF SpentType
    <3> HIDE DEF w
    <3>3. posts' = [posts EXCEPT ![s] = w]
      BY <2>4 DEF w
    <3> QED
      BY <2>1, <2>2, <2>4, <3>1, <3>2, <3>3
  <2>5. CASE /\ spent.faults < MaxFaults
             /\ spent' = [spent EXCEPT !.creations = k, !.faults = @ + 1]
             /\ \E done \in SUBSET Customs!Free(n) : groups' = groups \cup ({k} \X done)
             /\ slips' = [slips EXCEPT !.left = @ \cup {k}]
             /\ UNCHANGED <<made, posts>>
    <3>a. spent.faults + 1 \in 0 .. MaxFaults
      BY <2>3, <2>5
    <3>1. spent' \in SpentType /\ spent'.creations = k
      BY <2>1, <2>3, <2>5, <3>a DEF SpentType
    <3>2. slips' \in SlipType /\ slips'.kept = slips.kept /\ slips'.crossed = slips.crossed
          /\ slips'.left = slips.left \cup {k}
      BY <2>1, <2>5 DEF SlipType
    <3>3. posts' = [posts EXCEPT ![s] = posts[s]] /\ posts[s] \in PostType
      BY <2>1, <2>5
    <3>4. PICK done \in SUBSET Perms : groups' = groups \cup ({k} \X done)
      BY <2>2, <2>5
    <3> QED
      BY <1>1, <2>5, <3>1, <3>2, <3>3, <3>4
  <2> QED
    BY <1>1, <2>4, <2>5
<1>3. /\ k > spent.creations /\ spent.creations \in Nat /\ ~InUse(k)
      /\ (\A g \in groups : g[1] # k) /\ \A t \in Sessions : posts[t].k # k
  <2>1. spent.creations \in Nat
    BY <1>0 DEF CustomTyped, SpentType
  <2> QED
    BY <1>0, <1>1, <2>1 DEF Known
<1>4. /\ posts \in [Sessions -> PostType] /\ posts'[s] = w /\ \A t \in Sessions \ {s} : posts'[t] = posts[t]
  BY <1>0, <1>2 DEF CustomTyped
<1>5. made' \in [NumberType -> SUBSET Perms] /\ \A j \in NumberType \ {k} : made'[j] = made[j]
  BY <1>0, <1>2 DEF CustomTyped
<1>6. CustomTyped'
  <2>1. posts' \in [Sessions -> PostType]
    BY <1>2, <1>4
  <2>2. groups' \subseteq NumberType \X Perms
    BY <1>0, <1>2 DEF CustomTyped
  <2>3. suffix' \in [NumberType -> Labels \cup {Customs!None}]
    BY <1>0, <1>1 DEF CustomTyped
  <2> QED
    BY <1>0, <1>1, <1>2, <1>5, <2>1, <2>2, <2>3 DEF CustomTyped
<1>7. /\ \A t \in Sessions \ {s} : Opens(t)' <=> Opens(t)
      /\ ~Opens(s) /\ (Opens(s)' => w.k = k /\ w.pc = "insert")
  BY <1>1, <1>2, <1>4 DEF Opens
<1>8. Openings \subseteq Openings' /\ Openings' \subseteq Openings \cup {k} /\ k \notin Openings
  BY <1>3, <1>4, <1>7 DEF Openings
<1>9. Counted'
  <2>1. IsFiniteSet(Openings)
    BY OpeningsFinite
  <2>2. IsFiniteSet(Openings \cup {k}) /\ Cardinality(Openings \cup {k}) = Cardinality(Openings) + 1
    BY <1>8, <2>1, FS_AddElement
  <2>3. PICK O : O = Openings'
    OBVIOUS
  <2>4. Cardinality(O) <= Cardinality(Openings \cup {k}) /\ Cardinality(O) \in Nat /\ Cardinality(Openings) \in Nat
    BY <1>8, <2>1, <2>2, <2>3, FS_Subset, FS_CardinalityType
  <2>5. Customs!Count' = Customs!Count /\ born' = born /\ born \in Nat
    BY <1>0, <1>1 DEF Customs!Count, Counted
  <2>6. born' + Cardinality(O) <= spent'.creations
    BY <1>0, <1>1, <1>2, <1>3, <2>2, <2>4, <2>5 DEF Counted
  <2>7. \A t \in Sessions : posts'[t].pc = "commit" => posts'[t] = posts[t]
    BY <1>2, <1>4
  <2> QED
    BY <1>0, <2>3, <2>5, <2>6, <2>7 DEF Counted
<1>10. \A j : InUse(j)' <=> InUse(j)
  BY <1>1, <1>2 DEF InUse, Due
<1>11. Known'
  <2>1. \A t \in Sessions : posts'[t].k <= spent'.creations
    <3>1. \A t \in Sessions : posts[t].k <= spent.creations /\ posts[t].k \in Int
      BY <1>0, <1>4 DEF Known, PostType, Customs!Idle, NumberType, Customs!Creations
    <3> QED
      BY <1>1, <1>2, <1>3, <1>4, <3>1
  <2>2. \A j \in NumberType : j \in Int
    BY DEF NumberType, Customs!Creations
  <2>3. \A g \in groups : g[1] \in NumberType /\ g[1] <= spent.creations
    BY <1>0 DEF CustomTyped, Known
  <2>4. \A g \in groups' : g[1] <= spent'.creations
    BY <1>1, <1>2, <1>3, <2>2, <2>3
  <2> QED
    BY <1>0, <1>1, <1>2, <1>3, <1>10, <2>1, <2>2, <2>4 DEF Known
<1>12. Fresh'
  <2> SUFFICES ASSUME NEW t \in Sessions, Opens(t)'
               PROVE  ~InUse(posts[t].k)' /\ \A r \in Sessions \ {t} : posts'[r].k # posts'[t].k
    BY DEF Fresh
  <2>1. CASE t = s
    <3>1. posts'[t].k = k /\ \A r \in Sessions \ {t} : posts'[r].k # k
      BY <1>3, <1>4, <1>7, <2>1
    <3>2. ~InUse(k)'
      BY <1>3, <1>10
    <3> QED
      BY <3>1, <3>2 DEF InUse
  <2>2. CASE t # s
    <3>1. PICK j : j = posts[t].k /\ j = posts'[t].k /\ Opens(t)
      BY <1>4, <1>7, <2>2
    <3>2. ~InUse(j)' /\ \A r \in Sessions \ {t} : posts[r].k # j
      BY <1>0, <1>10, <3>1 DEF Fresh
    <3>3. posts'[s].k # j
      BY <1>2, <1>3, <1>4, <2>2, <3>1, <3>2
    <3> QED
      BY <1>4, <3>1, <3>2, <3>3 DEF InUse
  <2> QED
    BY <2>1, <2>2
<1>13. k \notin channels
  BY <1>3 DEF InUse
<1>14. GroupsKept'
  <2>1. ASSUME NEW j \in channels \cup Openings' PROVE {j} \X made'[j] \subseteq groups'
    <3>1. CASE j = k
      <4>1. k \in Openings'
        BY <1>13, <2>1, <3>1
      <4>2. w.pc = "insert"
        BY <1>4, <1>7, <1>8, <4>1 DEF Openings
      <4>3. w # posts[s]
        BY <1>1, <4>2
      <4>4. made'[k] = done
        BY <1>0, <1>2, <4>3 DEF CustomTyped
      <4> QED
        BY <1>2, <3>1, <4>4
    <3>2. CASE j # k
      <4>1. j \in channels \cup Openings /\ j \in NumberType
        BY <1>0, <1>8, <2>1, <3>2 DEF CustomTyped, Openings
      <4> QED
        BY <1>0, <1>2, <1>5, <3>2, <4>1 DEF GroupsKept
    <3> QED
      BY <3>1, <3>2
  <2>2. ASSUME NEW g \in groups' PROVE g[1] \in slips'.left \/ g[2] \in made'[g[1]]
    <3>1. CASE g \in groups
      <4>1. g[1] \in NumberType \ {k}
        BY <1>0, <1>3, <3>1 DEF CustomTyped
      <4> QED
        BY <1>0, <1>2, <1>5, <3>1, <4>1 DEF GroupsKept
    <3>2. CASE g \in {k} \X done
      BY <1>0, <1>2, <3>2 DEF CustomTyped
    <3> QED
      BY <1>2, <3>1, <3>2
  <2>3. ASSUME NEW g \in groups'
        PROVE  g[1] \in channels \cup slips'.left \cup Openings' \/ \E o \in Deletes(tasks, g[1]) : g[2] \in o.ps
    <3>1. CASE g \in groups
      BY <1>0, <1>2, <1>8, <3>1 DEF GroupsKept
    <3>2. CASE g \in {k} \X done
      <4>1. CASE w.pc = "insert" /\ w.k = k
        BY <1>4, <3>2, <4>1 DEF Openings, Opens
      <4> QED
        BY <1>2, <3>2, <4>1
    <3> QED
      BY <1>2, <3>1, <3>2
  <2> QED
    BY <1>0, <1>1, <2>1, <2>2, <2>3 DEF GroupsKept, Deletes
<1>15. Membered'
  <2>1. \A r \in within : r[1] \in NumberType \ {k}
    BY <1>0, <1>3 DEF CustomTyped, InUse, Customs!Row, NumberType
  <2>2. \A o \in Held(tasks) : o.k \in NumberType \ {k}
    BY <1>0, <1>3 DEF CustomTyped, InUse, TaskType, MemberTask, DeleteTask, Held
  <2> QED
    BY <1>0, <1>1, <1>2, <1>5, <2>1, <2>2 DEF Membered
<1>16. Told'
  <2> SUFFICES ASSUME NEW j \in channels, NEW u \in Members, <<j, u>> \notin slips.crossed
               PROVE  ToldOf(posts', tasks, Due, within, made'[j], j, u)
    BY <1>1, <1>2 DEF Told, Due
  <2>1. ToldOf(posts, tasks, Due, within, made[j], j, u)
    BY <1>0 DEF Told
  <2>2. made'[j] = made[j]
    BY <1>0, <1>5, <1>13 DEF CustomTyped
  <2>3. \A t \in Sessions : (Says(posts'[t], j, u) <=> Says(posts[t], j, u)) /\ (Says(posts[t], j, u) => posts'[t] = posts[t])
    BY <1>1, <1>2, <1>4 DEF Says
  <2> QED
    BY <2>1, <2>2, <2>3, ToldKept
<1> QED
  BY <1>6, <1>9, <1>11, <1>12, <1>14, <1>15, <1>16 DEF CustomInv

\* ends,
LEMMA CreationAbandoned ==
  ASSUME CustomAssumption, CustomInv, NEW s \in Sessions, Opens(s), Customs!Abandon(s),
         spent' \in SpentType, spent'.creations = spent.creations,
         UNCHANGED <<primary, suffix, made, channels, groups, perms, within, tasks, born>>
  PROVE  CustomInv'
<1>0. CustomTyped /\ Counted /\ Known /\ Fresh /\ GroupsKept /\ Membered /\ Told
  BY DEF CustomInv
<1>1. PICK k \in NumberType : k = posts[s].k
  BY <1>0 DEF CustomTyped, PostType, Opens, Customs!Idle
<1>2. /\ posts' = [posts EXCEPT ![s] = Customs!Idle] /\ slips' = [slips EXCEPT !.left = @ \cup {k}]
      /\ posts \in [Sessions -> PostType] /\ slips \in SlipType
  BY <1>0, <1>1 DEF Customs!Abandon, Customs!End, CustomTyped
<1>3. /\ posts' \in [Sessions -> PostType] /\ posts'[s] = Customs!Idle /\ \A t \in Sessions \ {s} : posts'[t] = posts[t]
      /\ slips' \in SlipType /\ slips'.kept = slips.kept /\ slips'.crossed = slips.crossed
      /\ slips'.left = slips.left \cup {k}
  BY <1>2 DEF PostType, SlipType
<1>4. CustomTyped'
  BY <1>0, <1>3 DEF CustomTyped
<1>5. Customs!Idle.pc = "idle"
  BY DEF Customs!Idle
<1>6. Openings' \subseteq Openings /\ Openings \subseteq Openings' \cup {k}
  BY <1>1, <1>3, <1>5 DEF Openings, Opens
<1>7. Counted'
  <2>1. IsFiniteSet(Openings)
    BY OpeningsFinite
  <2>2. PICK O : O = Openings'
    OBVIOUS
  <2>3. Cardinality(O) <= Cardinality(Openings) /\ Cardinality(O) \in Nat /\ Cardinality(Openings) \in Nat
    BY <1>6, <2>1, <2>2, FS_Subset, FS_CardinalityType
  <2>4. Customs!Count' = Customs!Count /\ born' = born /\ born \in Nat
    BY <1>0 DEF Customs!Count, Counted
  <2>5. born' + Cardinality(O) <= spent'.creations
    BY <1>0, <2>3, <2>4 DEF Counted, CustomTyped, SpentType
  <2>6. \A t \in Sessions : posts'[t].pc = "commit" => posts'[t] = posts[t]
    BY <1>3, <1>5
  <2> QED
    BY <1>0, <2>2, <2>4, <2>5, <2>6 DEF Counted
<1>8. \A j : InUse(j)' <=> InUse(j)
  BY <1>3 DEF InUse, Due
<1>9. Known' /\ Fresh'
  BY <1>0, <1>3, <1>4, <1>8, NothingNew
<1>10. GroupsKept'
  BY <1>0, <1>3, <1>6 DEF GroupsKept, Deletes
<1>11. Membered'
  BY <1>0, <1>3 DEF Membered
<1>12. Told'
  <2> SUFFICES ASSUME NEW j \in channels, NEW u \in Members, <<j, u>> \notin slips.crossed
               PROVE  ToldOf(posts', tasks, Due, within, made[j], j, u)
    BY <1>3 DEF Told, Due
  <2>1. ToldOf(posts, tasks, Due, within, made[j], j, u)
    BY <1>0 DEF Told
  <2>2. \A t \in Sessions : (Says(posts'[t], j, u) <=> Says(posts[t], j, u)) /\ (Says(posts[t], j, u) => posts'[t] = posts[t])
    BY <1>3, <1>5 DEF Says, Opens
  <2> QED
    BY <2>1, <2>2, ToldKept
<1> QED
  BY <1>4, <1>7, <1>9, <1>10, <1>11, <1>12 DEF CustomInv

\* counts again,
LEMMA InsertBegun ==
  ASSUME CustomAssumption, CustomInv, NEW s \in Sessions, Customs!BeginInsert(s)
  PROVE  CustomInv'
<1>0. CustomTyped /\ Counted /\ Known /\ Fresh /\ GroupsKept /\ Membered /\ Told
  BY DEF CustomInv
<1>1. posts[s].pc = "insert" /\ UNCHANGED <<primary, suffix, made, channels, groups, perms, within, tasks, born, spent>>
  BY DEF Customs!BeginInsert, Customs!At, Customs!rest
<1>2. CASE Customs!Count >= Limit
  BY <1>0, <1>1, <1>2, CreationAbandoned DEF Customs!BeginInsert, Opens, CustomTyped
<1>3. CASE ~(Customs!Count >= Limit)
  <2>1. PICK k \in NumberType :
          posts[s].k = k /\ posts[s] \in [pc : {"insert", "commit"}, k : NumberType, u : {Customs!None},
                                         p : {Customs!None}, seen : 0 .. MaxCreations]
    BY <1>0, <1>1 DEF CustomTyped, PostType, Customs!Idle
  <2>2. PICK w : w = [posts[s] EXCEPT !.pc = "commit", !.seen = born]
    OBVIOUS
  <2>3. posts' = [posts EXCEPT ![s].pc = "commit", ![s].seen = born] /\ slips' = slips
    BY <1>3 DEF Customs!BeginInsert
  <2>4. posts \in [Sessions -> PostType]
    BY <1>0 DEF CustomTyped
  <2>5. posts' = [posts EXCEPT ![s] = w]
    BY <2>2, <2>3, <2>4
  <2>7. born \in 0 .. MaxCreations
    BY <1>0, OpeningsFinite DEF Counted, CustomTyped, SpentType, CustomAssumption
  <2>8. w \in PostType /\ w.pc = "commit" /\ w.k = k /\ w.seen = born
    BY <2>1, <2>2, <2>7 DEF PostType
  <2>6. Openings' = Openings
    BY <1>1, <2>1, <2>8, <2>4, <2>5, OpeningsStay DEF Opens
  <2>9. /\ posts' \in [Sessions -> PostType] /\ posts'[s] = w /\ \A t \in Sessions \ {s} : posts'[t] = posts[t]
    BY <2>4, <2>5, <2>8
  <2>10. CustomTyped'
    BY <1>0, <1>1, <2>3, <2>9 DEF CustomTyped
  <2>11. Counted'
    <3>1. Customs!Count' = Customs!Count
      BY <1>1 DEF Customs!Count
    <3>2. Customs!Count < Limit
      <4>1. Cardinality(channels) \in Nat
        BY <1>0, NumbersFinite DEF CustomTyped
      <4> QED
        BY <1>3, <4>1, CustomCounts DEF Customs!Count, CustomAssumption
    <3> QED
      BY <1>0, <1>1, <2>6, <2>7, <2>8, <2>9, <3>1, <3>2 DEF Counted
  <2>12. \A j : InUse(j)' <=> InUse(j)
    BY <1>1, <2>3 DEF InUse, Due
  <2>13. \A t \in Sessions : posts'[t] = posts[t] \/ (Opens(t) /\ posts'[t].k = posts[t].k)
    BY <1>1, <2>1, <2>8, <2>9 DEF Opens
  <2>14. Known' /\ Fresh'
    BY <1>0, <1>1, <2>10, <2>12, <2>13, NothingNew
  <2>15. GroupsKept'
    BY <1>0, <1>1, <2>3, <2>6 DEF GroupsKept, Deletes
  <2>16. Membered'
    BY <1>0, <1>1, <2>3 DEF Membered
  <2>17. Told'
    <3> SUFFICES ASSUME NEW j \in channels, NEW u \in Members, <<j, u>> \notin slips.crossed
                 PROVE  ToldOf(posts', tasks, Due, within, made[j], j, u)
      BY <1>1, <2>3 DEF Told, Due
    <3>1. ToldOf(posts, tasks, Due, within, made[j], j, u)
      BY <1>0 DEF Told
    <3>2. \A t \in Sessions : (Says(posts'[t], j, u) <=> Says(posts[t], j, u)) /\ (Says(posts[t], j, u) => posts'[t] = posts[t])
      BY <1>1, <2>8, <2>9 DEF Says
    <3> QED
      BY <3>1, <3>2, ToldKept
  <2> QED
    BY <2>10, <2>11, <2>14, <2>15, <2>16, <2>17 DEF CustomInv
<1> QED
  BY <1>2, <1>3

LEMMA OnLane ==
  ASSUME NEW o \in TaskType, NEW k, NEW u, NEW p
  PROVE  o \in Lane(k, u, p) <=> o.kind # "delete" /\ o.k = k /\ o.u = u /\ o.ps = {p}
<1>1. CASE o \in MemberTask
  <2>1. PICK kind \in {"add", "remove"}, i \in NumberType, v \in Members, ps \in {{q} : q \in Perms} :
          o = [kind |-> kind, k |-> i, u |-> v, ps |-> ps]
    BY <1>1 DEF MemberTask
  <2> QED
    BY <2>1 DEF Lane, Customs!Op
<1>2. CASE o \in DeleteTask
  BY <1>2 DEF DeleteTask, Lane, Customs!Op
<1> QED
  BY <1>1, <1>2 DEF TaskType

LEMMA FaultCounted ==
  ASSUME CustomAssumption, spent \in SpentType, Customs!Fault
  PROVE  spent' \in SpentType /\ spent'.creations = spent.creations
<1>1. spent.faults + 1 \in 0 .. MaxFaults
  BY DEF Customs!Fault, SpentType, CustomAssumption
<1> QED
  BY <1>1 DEF Customs!Fault, SpentType

LEMMA EditCounted ==
  ASSUME CustomAssumption, spent \in SpentType, Customs!Edit
  PROVE  spent' \in SpentType /\ spent'.creations = spent.creations
<1>1. spent.edits + 1 \in 0 .. MaxEdits
  BY DEF Customs!Edit, SpentType, CustomAssumption
<1> QED
  BY <1>1 DEF Customs!Edit, SpentType

\* The rows of the members that the creation k starts with, and their operations.
FirstRows(k, chosen) == {<<k, u, chosen[u]>> : u \in {v \in Members : chosen[v] # Customs!None}}
FirstAdds(k, row) == {Customs!Op("add", k, r[2], r[3]) : r \in {r \in row : r[3] \in made[k]}}

FirstSound(k, row, S) ==
  /\ \A r \in row : \E u \in Members, p \in Perms : r = <<k, u, p>>
  /\ S \subseteq MemberTask /\ IsFiniteSet(S)
  /\ \A o \in S : /\ o.kind = "add" /\ o.k = k
                  /\ \E u \in Members, p \in made[k] : <<k, u, p>> \in row /\ o = Customs!Op("add", k, u, p)
  /\ \A u, p : <<k, u, p>> \in row /\ p \in made[k] => Customs!Op("add", k, u, p) \in S

LEMMA FirstOnes ==
  ASSUME CustomAssumption, NEW k \in NumberType, NEW chosen \in [Members -> Perms \cup {Customs!None}],
         NEW row, row = FirstRows(k, chosen), NEW S, S = FirstAdds(k, row)
  PROVE  FirstSound(k, row, S)
<1>1. \A r \in row : \E u \in Members : r = <<k, u, chosen[u]>> /\ chosen[u] \in Perms
  BY DEF FirstRows
<1>2. ASSUME NEW o \in S
      PROVE  \E u \in Members : /\ o = Customs!Op("add", k, u, chosen[u]) /\ chosen[u] \in made[k] /\ chosen[u] \in Perms
                                /\ <<k, u, chosen[u]>> \in row
  <2>1. PICK r \in row : r[3] \in made[k] /\ o = Customs!Op("add", k, r[2], r[3])
    BY DEF FirstAdds
  <2>2. PICK u \in Members : r = <<k, u, chosen[u]>> /\ chosen[u] \in Perms
    BY <1>1
  <2> QED
    BY <2>1, <2>2
<1>a. /\ \A u \in Members, p \in Perms : Customs!Op("add", k, u, p) \in MemberTask
      /\ \A u, p : Customs!Op("add", k, u, p).kind = "add" /\ Customs!Op("add", k, u, p).k = k
  BY DEF MemberTask, Customs!Op
<1>3. S \subseteq MemberTask
  <2>1. ASSUME NEW o \in S PROVE o \in MemberTask
    <3>1. PICK u \in Members : o = Customs!Op("add", k, u, chosen[u]) /\ chosen[u] \in Perms
      BY <1>2
    <3> QED
      BY <1>a, <3>1
  <2> QED
    BY <2>1
<1>4. IsFiniteSet(S)
  <2>1. PICK f : f = [u \in Members |-> Customs!Op("add", k, u, chosen[u])]
    OBVIOUS
  <2>2. DOMAIN f = Members /\ \A u \in Members : f[u] = Customs!Op("add", k, u, chosen[u])
    BY <2>1
  <2>3. ASSUME NEW o \in S PROVE o \in {f[u] : u \in Members}
    <3>1. PICK u \in Members : o = Customs!Op("add", k, u, chosen[u])
      BY <1>2
    <3> QED
      BY <2>2, <3>1
  <2> QED
    BY <2>2, <2>3, RangeFinite DEF CustomAssumption
<1>5. \A u, p : <<k, u, p>> \in row /\ p \in made[k] => Customs!Op("add", k, u, p) \in S
  <2> SUFFICES ASSUME NEW u, NEW p, <<k, u, p>> \in row, p \in made[k] PROVE Customs!Op("add", k, u, p) \in S
    OBVIOUS
  <2>1. PICK r \in row : r = <<k, u, p>> /\ r[2] = u /\ r[3] = p
    OBVIOUS
  <2> QED
    BY <2>1 DEF FirstAdds
<1>6. ASSUME NEW o \in S
      PROVE  /\ o.kind = "add" /\ o.k = k
             /\ \E u \in Members, p \in made[k] : <<k, u, p>> \in row /\ o = Customs!Op("add", k, u, p)
  <2>1. PICK u \in Members : /\ o = Customs!Op("add", k, u, chosen[u]) /\ chosen[u] \in made[k]
                             /\ <<k, u, chosen[u]>> \in row
    BY <1>2
  <2> QED
    BY <1>a, <2>1
<1> QED
  BY <1>1, <1>3, <1>4, <1>5, <1>6 DEF FirstSound

\* and inserts its channel, with its first members.
LEMMA ChannelInserted ==
  ASSUME CustomAssumption, CustomInv, NEW s \in Sessions, Customs!CommitInsert(s)
  PROVE  CustomInv'
<1>0. CustomTyped /\ Counted /\ Known /\ Fresh /\ GroupsKept /\ Membered /\ Told
  BY DEF CustomInv
<1>1. posts[s].pc = "commit" /\ Opens(s) /\ UNCHANGED <<primary, suffix, made, groups, within>>
  BY DEF Customs!CommitInsert, Customs!At, Opens, Customs!rest
<1>2. CASE Customs!Abandon(s) /\ UNCHANGED <<channels, perms, tasks, born>> /\ (UNCHANGED spent \/ Customs!Fault)
  BY <1>0, <1>1, <1>2, CreationAbandoned, FaultCounted DEF CustomTyped
<1>3. CASE ~(Customs!Abandon(s) /\ UNCHANGED <<channels, perms, tasks, born>> /\ (UNCHANGED spent \/ Customs!Fault))
  <2>1. PICK k \in NumberType : k = posts[s].k
    BY <1>0, <1>1 DEF CustomTyped, PostType, Customs!Idle
  <2>2. PICK chosen, row, S, t :
          /\ chosen \in [Members -> Perms \cup {Customs!None}]
          /\ row = FirstRows(k, chosen) /\ S = FirstAdds(k, row) /\ t = Customs!SetToSeq(S)
          /\ posts[s].seen = born /\ channels' = channels \cup {k} /\ born' = born + 1
          /\ perms' = perms \cup row /\ tasks' = tasks \o t
          /\ posts' = [posts EXCEPT ![s] = Customs!Idle] /\ UNCHANGED <<spent, slips>>
    <3>0. /\ Customs!Commits(s) /\ channels' = channels \cup {posts[s].k} /\ born' = born + 1
          /\ \E chosen \in [Members -> Perms \cup {Customs!None}] :
               /\ perms' = perms \cup FirstRows(posts[s].k, chosen)
               /\ tasks' = tasks \o Customs!SetToSeq(FirstAdds(posts[s].k, FirstRows(posts[s].k, chosen)))
          /\ Customs!End(s) /\ UNCHANGED <<spent, slips>>
      BY <1>3 DEF Customs!CommitInsert, FirstRows, FirstAdds
    <3>1. /\ Customs!Commits(s) /\ channels' = channels \cup {k} /\ born' = born + 1
          /\ \E chosen \in [Members -> Perms \cup {Customs!None}] :
               /\ perms' = perms \cup FirstRows(k, chosen)
               /\ tasks' = tasks \o Customs!SetToSeq(FirstAdds(k, FirstRows(k, chosen)))
          /\ Customs!End(s) /\ UNCHANGED <<spent, slips>>
      BY <2>1, <3>0
    <3>2. PICK chosen \in [Members -> Perms \cup {Customs!None}] :
            /\ perms' = perms \cup FirstRows(k, chosen)
            /\ tasks' = tasks \o Customs!SetToSeq(FirstAdds(k, FirstRows(k, chosen)))
      BY <3>1
    <3> QED
      BY <3>1, <3>2 DEF Customs!Commits, Customs!End
  <2>3. /\ \A r \in row : \E u \in Members, p \in Perms : r = <<k, u, p>>
        /\ S \subseteq MemberTask /\ IsFiniteSet(S)
        /\ \A o \in S : /\ o.kind = "add" /\ o.k = k
                        /\ \E u \in Members, p \in made[k] : <<k, u, p>> \in row /\ o = Customs!Op("add", k, u, p)
        /\ \A u, p : <<k, u, p>> \in row /\ p \in made[k] => Customs!Op("add", k, u, p) \in S
    <3>1. FirstSound(k, row, S)
      BY <2>2, FirstOnes
    <3> QED
      BY <3>1 DEF FirstSound
  <2>4. t \in Seq(TaskType) /\ Held(t) \subseteq S /\ S \subseteq Held(t)
    <3>1. S \in SUBSET TaskType
      BY <2>3 DEF TaskType
    <3> QED
      BY <2>2, <2>3, <3>1, ListOf
  <2>5. tasks \in Seq(TaskType)
    BY <1>0 DEF CustomTyped
  <2>6. /\ tasks' \in Seq(TaskType) /\ Held(tasks') \subseteq Held(tasks) \cup Held(t)
        /\ Held(tasks) \subseteq Held(tasks') /\ Held(t) \subseteq Held(tasks')
    <3>1. PICK q : q = tasks'
      OBVIOUS
    <3>2. q = tasks \o t
      BY <2>2, <3>1
    <3>3. /\ q \in Seq(TaskType) /\ Held(q) \subseteq Held(tasks) \cup Held(t)
          /\ Held(tasks) \subseteq Held(q) /\ Held(t) \subseteq Held(q)
      BY <2>4, <2>5, <3>2, HeldJoined
    <3> QED
      BY <3>1, <3>3 DEF Held
  <2>7. /\ ~InUse(k) /\ \A r \in Sessions \ {s} : posts[r].k # k
    BY <1>0, <1>1, <2>1 DEF Fresh
  <2>8. Customs!Idle \in PostType /\ Customs!Idle.pc = "idle" /\ Customs!Idle.k = 0
    BY DEF PostType, Customs!Idle
  <2>9. /\ posts' \in [Sessions -> PostType] /\ posts'[s] = Customs!Idle /\ \A r \in Sessions \ {s} : posts'[r] = posts[r]
    BY <1>0, <2>2, <2>8 DEF CustomTyped
  <2>10. row \subseteq Customs!Row
    BY <2>3 DEF Customs!Row, NumberType
  <2>11. CustomTyped'
    BY <1>0, <1>1, <2>2, <2>6, <2>9, <2>10 DEF CustomTyped
  <2>12. Openings' = Openings \ {k} /\ k \in Openings
    BY <1>1, <2>1, <2>7, <2>8, <2>9 DEF Openings, Opens
  <2>13. k \notin channels /\ (\A r \in Due \cup within : r[1] # k) /\ \A o \in Held(tasks) : o.k # k
    BY <2>7 DEF InUse
  <2>14. Counted'
    <3>1. /\ Cardinality(Openings') = Cardinality(Openings) - 1
          /\ Cardinality(Openings') \in Nat /\ Cardinality(Openings) \in Nat
      <4>1. PICK O : O = Openings \ {k}
        OBVIOUS
      <4>2. Cardinality(O) = Cardinality(Openings) - 1 /\ Cardinality(O) \in Nat
        BY <2>12, <4>1, OpeningsFinite, FS_RemoveElement, FS_CardinalityType
      <4> QED
        BY <2>12, <4>1, <4>2, OpeningsFinite
    <3>2. Cardinality(channels') = Cardinality(channels) + 1 /\ Cardinality(channels) \in Nat
      <4>1. channels \in SUBSET NumberType
        BY <1>0 DEF CustomTyped
      <4>2. IsFiniteSet(channels) /\ Cardinality(channels) \in Nat
        BY <4>1, NumbersFinite
      <4>3. Cardinality(channels \cup {k}) = Cardinality(channels) + 1
        BY <2>13, <4>2, FS_AddElement
      <4> QED
        BY <2>2, <4>2, <4>3
    <3>3. Customs!Count' = Customs!Count + 1 /\ Customs!Count \in Nat
      BY <1>1, <3>2, CustomCounts DEF Customs!Count
    <3>4. Customs!Count < Limit /\ born \in Nat
      BY <1>0, <1>1, <2>2 DEF Counted
    <3>5. Customs!Count' <= Limit
      BY <3>3, <3>4 DEF CustomAssumption
    <3>6. \A r \in Sessions : posts'[r].pc = "commit" => posts'[r].seen <= born /\ posts'[r].seen \in Nat
      <4>1. \A r \in Sessions \ {s} : posts[r].pc = "commit" => posts[r].seen <= born /\ posts[r].seen \in Nat
        BY <1>0 DEF Counted, CustomTyped, PostType, Customs!Idle
      <4> QED
        BY <2>8, <2>9, <4>1
    <3>7. born' \in Nat /\ born' + Cardinality(Openings') <= spent'.creations
      BY <1>0, <2>2, <3>1, <3>4 DEF Counted, CustomTyped, SpentType
    <3>8. \A r \in Sessions : posts'[r].pc = "commit" => posts'[r].seen <= born' /\ posts'[r].seen # born'
      BY <2>2, <3>4, <3>6
    <3> QED
      BY <3>5, <3>7, <3>8 DEF Counted
  <2>15. ASSUME NEW j, InUse(j)' PROVE InUse(j) \/ j = k
    <3>1. CASE j \in channels'
      BY <2>2, <3>1 DEF InUse
    <3>2. ASSUME NEW r \in Due' \cup within', r[1] = j PROVE InUse(j) \/ j = k
      BY <1>1, <2>2, <2>3, <3>2 DEF InUse, Due
    <3>3. ASSUME NEW o \in Held(tasks'), o.k = j PROVE InUse(j) \/ j = k
      BY <2>3, <2>4, <2>6, <3>3 DEF InUse
    <3> QED
      BY <2>15, <3>1, <3>2, <3>3 DEF InUse, Held
  <2>16. Known'
    <3>1. k <= spent.creations
      BY <1>0, <2>1 DEF Known
    <3>2. \A r \in Sessions : posts'[r].k <= spent.creations
      BY <1>0, <2>8, <2>9 DEF Known, CustomTyped, SpentType
    <3> QED
      BY <1>0, <1>1, <2>2, <2>15, <3>1, <3>2 DEF Known
  <2>17. Fresh'
    <3> SUFFICES ASSUME NEW r \in Sessions, Opens(r)'
                 PROVE  ~InUse(posts[r].k)' /\ \A v \in Sessions \ {r} : posts'[v].k # posts'[r].k
      BY DEF Fresh
    <3>1. r # s /\ Opens(r)
      BY <2>8, <2>9 DEF Opens
    <3>2. PICK j \in NumberType : j = posts[r].k /\ j = posts'[r].k
      BY <1>0, <2>9, <3>1 DEF CustomTyped, PostType, Opens, Customs!Idle
    <3>3. ~InUse(j) /\ j # k /\ \A v \in Sessions \ {r} : posts[v].k # j
      BY <1>0, <2>7, <3>1, <3>2 DEF Fresh
    <3>4. ~InUse(j)'
      BY <2>15, <3>3
    <3>5. j # 0
      BY DEF NumberType, Customs!Creations
    <3>6. \A v \in Sessions \ {r} : posts'[v].k # j
      BY <2>8, <2>9, <3>3, <3>5
    <3> QED
      BY <3>2, <3>4, <3>6 DEF InUse
  <2>18. \A j : Deletes(tasks', j) = Deletes(tasks, j)
    BY <2>3, <2>4, <2>6 DEF Deletes
  <2>19. GroupsKept'
    <3>1. channels' \cup Openings' = channels \cup Openings
      BY <2>2, <2>12
    <3>2. Deletes(tasks, k) = {}
      BY <2>13 DEF Deletes
    <3>3. \A j \in channels' \cup Openings' : {j} \X made[j] \subseteq groups
      BY <1>0, <3>1 DEF GroupsKept
    <3>4. \A g \in groups : g[1] \in channels' \cup slips.left \cup Openings' \/ \E o \in Deletes(tasks, g[1]) : g[2] \in o.ps
      BY <1>0, <3>1 DEF GroupsKept
    <3>5. \A j \in channels' : Deletes(tasks, j) = {}
      BY <1>0, <2>2, <3>2 DEF GroupsKept
    <3> QED
      BY <1>0, <1>1, <2>2, <2>18, <3>3, <3>4, <3>5 DEF GroupsKept
  <2>20. Membered'
    <3>1. perms' \cap slips.kept = {}
      BY <1>0, <2>2, <2>3, <2>13 DEF Membered, Due
    <3>2. \A o \in Held(t) : o.ps \subseteq made[o.k]
      <4>1. ASSUME NEW o \in Held(t) PROVE o.ps \subseteq made[o.k]
        <5>1. PICK u \in Members, p \in made[k] : o = Customs!Op("add", k, u, p)
          BY <2>3, <2>4
        <5> QED
          BY <5>1 DEF Customs!Op
      <4> QED
        BY <4>1
    <3>3. \A o \in Held(tasks') : o.kind # "delete" => o.ps \subseteq made[o.k]
      BY <1>0, <2>6, <3>2 DEF Membered
    <3> QED
      BY <1>0, <1>1, <2>2, <3>1, <3>3 DEF Membered, Held
  <2>21. Told'
    <3> SUFFICES ASSUME NEW j \in channels \cup {k}, NEW u \in Members, <<j, u>> \notin slips.crossed
                 PROVE  ToldOf(posts', tasks', Due', within, made[j], j, u)
      BY <1>1, <2>2 DEF Told
    <3>1. \A p : <<j, u, p>> \in Due' <=> <<j, u, p>> \in Due \/ <<j, u, p>> \in row
      BY <2>2 DEF Due
    <3>2. ASSUME NEW p \in Perms
          PROVE  Wills(tasks', Lane(j, u, p), <<j, u, p>>, within)
                   <=> IF Held(t) \cap Lane(j, u, p) # {} THEN "add" = "add" ELSE Wills(tasks, Lane(j, u, p), <<j, u, p>>, within)
      <4>1. \A o \in Held(t) \cap Lane(j, u, p) : o.kind = "add"
        BY <2>3, <2>4
      <4>2. PICK q, L, kind : q = tasks' /\ L = Lane(j, u, p) /\ kind = "add"
        OBVIOUS
      <4>3. q = tasks \o t /\ OfKind(t, L, kind)
        BY <2>2, <4>1, <4>2 DEF OfKind
      <4>4. Wills(q, L, <<j, u, p>>, within) <=> IF Held(t) \cap L # {} THEN kind = "add" ELSE Wills(tasks, L, <<j, u, p>>, within)
        BY <2>4, <2>5, <4>3, WillsJoined
      <4> QED
        BY <4>2, <4>4
    <3>3. CASE j # k
      <4>1. j \in channels
        BY <3>3
      <4>2. ToldOf(posts, tasks, Due, within, made[j], j, u)
        BY <1>0, <4>1 DEF Told
      <4>3. \A p : Held(t) \cap Lane(j, u, p) = {}
        BY <2>3, <2>4, <3>3 DEF Lane, Customs!Op
      <4>4. \A p \in Perms : Wills(tasks', Lane(j, u, p), <<j, u, p>>, within)
                               <=> Wills(tasks, Lane(j, u, p), <<j, u, p>>, within)
        BY <3>2, <4>3
      <4>5. \A p : <<j, u, p>> \in Due' <=> <<j, u, p>> \in Due
        BY <2>3, <3>1, <3>3
      <4>6. \A r \in Sessions : /\ Says(posts'[r], j, u) <=> Says(posts[r], j, u)
                                /\ Says(posts[r], j, u) => posts'[r] = posts[r]
        BY <1>1, <2>8, <2>9 DEF Says
      <4> QED
        BY <4>2, <4>4, <4>5, <4>6, ToldKept
    <3>4. CASE j = k
      <4>1. \A r \in Sessions : ~Says(posts'[r], k, u)
        BY <2>7, <2>8, <2>9 DEF Says
      <4>2. ASSUME NEW p \in Perms
            PROVE  Wills(tasks', Lane(k, u, p), <<k, u, p>>, within) <=> p \in made[k] /\ <<k, u, p>> \in Due'
        <5>1. <<k, u, p>> \in Due' <=> <<k, u, p>> \in row
          BY <2>13, <3>1, <3>4
        <5>2. CASE p \in made[k] /\ <<k, u, p>> \in row
          <6>1. Customs!Op("add", k, u, p) \in Held(t) \cap Lane(k, u, p)
            BY <2>3, <2>4, <5>2 DEF Lane
          <6> QED
            BY <3>2, <3>4, <5>1, <5>2, <6>1
        <5>3. CASE ~(p \in made[k] /\ <<k, u, p>> \in row)
          <6>1. ASSUME NEW o \in Held(t) \cap Lane(k, u, p) PROVE FALSE
            <7>1. PICK v \in Members, r \in made[k] : <<k, v, r>> \in row /\ o = Customs!Op("add", k, v, r)
              BY <2>3, <2>4
            <7>2. v = u /\ r = p
              BY <6>1, <7>1 DEF Lane, Customs!Op
            <7> QED
              BY <5>3, <7>1, <7>2
          <6>2. Held(tasks) \cap Lane(k, u, p) = {}
            BY <2>13 DEF Lane, Customs!Op
          <6>3. ~Wills(tasks, Lane(k, u, p), <<k, u, p>>, within)
            BY <2>13, <6>2 DEF Wills, Held
          <6> QED
            BY <3>2, <3>4, <5>1, <5>3, <6>1, <6>3
        <5> QED
          BY <5>2, <5>3
      <4> QED
        BY <3>4, <4>1, <4>2 DEF ToldOf
    <3> QED
      BY <3>3, <3>4
  <2> QED
    BY <2>11, <2>14, <2>16, <2>17, <2>19, <2>20, <2>21 DEF CustomInv
<1> QED
  BY <1>2, <1>3

LEMMA OthersPublish == \A k, u : Customs!Publishing(k, u) <=> \E s \in Sessions : Says(posts[s], k, u)
BY DEF Customs!Publishing, Says

\* A request has changed the row of u in k to say p, or nothing.
LEMMA RowChanged ==
  ASSUME CustomAssumption, CustomInv, NEW s \in Sessions, posts[s].pc = "idle",
         NEW k \in NumberType, NEW u \in Members, NEW p \in Perms, InUse(k),
         NEW w \in PostType, w.pc \in {"join", "leave"}, w.k = k, w.u = u, w.p = p, posts' = [posts EXCEPT ![s] = w],
         perms' \subseteq Customs!Row, slips' \in SlipType, perms' \cap slips'.kept = {},
         slips'.crossed = Customs!Crossed(k, u), slips'.left = slips.left,
         \A r : r \in Due' <=> IF r = <<k, u, p>> THEN w.pc = "join" ELSE r \in Due,
         spent' \in SpentType, spent'.creations = spent.creations,
         UNCHANGED <<primary, suffix, made, channels, groups, within, tasks, born>>
  PROVE  CustomInv'
<1>0. CustomTyped /\ Counted /\ Known /\ Fresh /\ GroupsKept /\ Membered /\ Told
  BY DEF CustomInv
<1>1. /\ posts \in [Sessions -> PostType] /\ posts' \in [Sessions -> PostType]
      /\ posts'[s] = w /\ \A r \in Sessions \ {s} : posts'[r] = posts[r]
  BY <1>0 DEF CustomTyped
<1>2. CustomTyped'
  BY <1>0, <1>1 DEF CustomTyped
<1>3. Openings' = Openings
  BY <1>1, OpeningsStay DEF Opens
<1>4. Counted'
  <2>1. \A r \in Sessions : posts'[r].pc = "commit" => posts'[r] = posts[r]
    BY <1>1
  <2> QED
    BY <1>0, <1>3, <2>1, CountStays
<1>5. ASSUME NEW j, InUse(j)' PROVE InUse(j)
  <2>1. CASE \E r \in Due' : r[1] = j
    <3>1. PICK r \in Due' : r[1] = j
      BY <2>1
    <3>2. CASE r = <<k, u, p>>
      BY <3>1, <3>2
    <3>3. CASE r # <<k, u, p>>
      BY <3>1, <3>3 DEF InUse
    <3> QED
      BY <3>2, <3>3
  <2>2. CASE ~ \E r \in Due' : r[1] = j
    BY <1>5, <2>2 DEF InUse
  <2> QED
    BY <2>1, <2>2
<1>6. Known' /\ Fresh'
  <2>1. \A r \in Sessions : posts'[r] = posts[r] \/ (Publishes(r)' /\ posts'[r].k \in NumberType /\ InUse(posts'[r].k))
    BY <1>1 DEF Publishes
  <2> QED
    BY <1>0, <1>2, <1>5, <2>1, NothingNew
<1>7. GroupsKept'
  BY <1>0, <1>3 DEF GroupsKept, Deletes
<1>8. Membered'
  BY <1>0 DEF Membered
<1>9. Told'
  <2> SUFFICES ASSUME NEW j \in channels, NEW v \in Members, <<j, v>> \notin slips'.crossed
               PROVE  ToldOf(posts', tasks, Due', within, made[j], j, v)
    BY DEF Told
  <2>1. <<j, v>> \notin slips.crossed /\ (j = k /\ v = u => \A r \in Sessions : ~Says(posts[r], j, v))
    BY OthersPublish DEF Customs!Crossed
  <2>2. ToldOf(posts, tasks, Due, within, made[j], j, v)
    BY <1>0, <2>1 DEF Told
  <2>3. CASE j = k /\ v = u
    <3>1. \A r \in Sessions : Says(posts'[r], k, u) <=> r = s
      BY <1>1, <2>1, <2>3 DEF Says
    <3>2. \A r, t \in Sessions : Says(posts'[r], k, u) /\ Says(posts'[t], k, u) => r = t
      BY <3>1
    <3>3. \A r \in Sessions : Says(posts'[r], k, u) => (<<k, u, posts'[r].p>> \in Due' <=> posts'[r].pc = "join")
      BY <1>1, <3>1
    <3>4. ASSUME NEW q \in Perms, \A r \in Sessions : ~(Says(posts'[r], k, u) /\ posts'[r].p = q)
          PROVE  Wills(tasks, Lane(k, u, q), <<k, u, q>>, within) <=> q \in made[k] /\ <<k, u, q>> \in Due'
      <4>1. q # p
        BY <1>1, <3>1, <3>4
      <4>2. <<k, u, q>> \in Due' <=> <<k, u, q>> \in Due
        BY <4>1
      <4> QED
        BY <2>1, <2>2, <2>3, <4>2 DEF ToldOf
    <3> QED
      BY <2>3, <3>2, <3>3, <3>4 DEF ToldOf
  <2>4. CASE ~(j = k /\ v = u)
    <3>1. \A q : <<j, v, q>> \in Due' <=> <<j, v, q>> \in Due
      BY <2>4
    <3>2. \A r \in Sessions : (Says(posts'[r], j, v) <=> Says(posts[r], j, v)) /\ (Says(posts[r], j, v) => posts'[r] = posts[r])
      BY <1>1, <2>4 DEF Says
    <3>3. \A q \in Perms : Wills(tasks, Lane(j, v, q), <<j, v, q>>, within) <=> Wills(tasks, Lane(j, v, q), <<j, v, q>>, within)
      OBVIOUS
    <3> QED
      BY <2>2, <3>1, <3>2, <3>3, ToldKept, ZenonT(60)
  <2> QED
    BY <2>3, <2>4
<1> QED
  BY <1>2, <1>4, <1>6, <1>7, <1>8, <1>9 DEF CustomInv

\* A request that is to publish.
PostOf(kind, k, u, p) == [Customs!Idle EXCEPT !.pc = kind, !.k = k, !.u = u, !.p = p]

LEMMA ToPublish ==
  ASSUME NEW kind \in {"join", "leave"}, NEW k \in NumberType, NEW u \in Members, NEW p \in Perms,
         NEW w, w = PostOf(kind, k, u, p)
  PROVE  w \in PostType /\ w.pc = kind /\ w.k = k /\ w.u = u /\ w.p = p
BY DEF PostType, Customs!Idle, PostOf

LEMMA MemberAdded ==
  ASSUME CustomAssumption, CustomInv, NEW s \in Sessions, NEW k \in NumberType, NEW u \in Members, NEW p \in Perms,
         Customs!AddMember(s, k, u, p)
  PROVE  CustomInv'
<1>0. CustomTyped /\ Membered
  BY DEF CustomInv
<1>1. PICK w : w = PostOf("join", k, u, p)
  OBVIOUS
<1>2. w \in PostType /\ w.pc = "join" /\ w.k = k /\ w.u = u /\ w.p = p
  BY <1>1, ToPublish
<1>3. PICK had : had = {<<k, u, q>> : q \in Customs!PermOf(k, u) \ {p}}
  OBVIOUS
<1>4. /\ posts[s].pc = "idle" /\ k \in channels /\ Customs!Edit
      /\ perms' = (perms \ had) \cup {<<k, u, p>>}
      /\ slips' = [slips EXCEPT !.kept = (@ \cup had) \ {<<k, u, p>>}, !.crossed = Customs!Crossed(k, u)]
      /\ posts' = [posts EXCEPT ![s] = w]
      /\ UNCHANGED <<primary, suffix, made, channels, groups, within, tasks, born>>
  BY <1>1, <1>3 DEF PostOf, Customs!AddMember, Customs!At, Customs!rest
<1>5. had \subseteq perms /\ <<k, u, p>> \notin had /\ <<k, u, p>> \in Customs!Row /\ perms \subseteq Customs!Row
  BY <1>0, <1>3 DEF Customs!PermOf, Customs!Row, CustomTyped, NumberType
<1>6. Customs!Crossed(k, u) \in SUBSET (NumberType \X Members) /\ slips \in SlipType
  BY <1>0 DEF Customs!Crossed, CustomTyped, SlipType
<1>7. /\ slips' \in SlipType /\ slips'.kept = (slips.kept \cup had) \ {<<k, u, p>>}
      /\ slips'.crossed = Customs!Crossed(k, u) /\ slips'.left = slips.left
  BY <1>4, <1>5, <1>6 DEF SlipType
<1>8. perms' \subseteq Customs!Row /\ perms' \cap slips'.kept = {}
  BY <1>0, <1>4, <1>5, <1>7 DEF Membered
<1>9. \A r : r \in Due' <=> IF r = <<k, u, p>> THEN w.pc = "join" ELSE r \in Due
  BY <1>2, <1>4, <1>5, <1>7 DEF Due
<1>10. spent' \in SpentType /\ spent'.creations = spent.creations
  BY <1>0, <1>4, EditCounted DEF CustomTyped
<1>11. InUse(k)
  BY <1>4 DEF InUse
<1> QED
  BY <1>2, <1>4, <1>7, <1>8, <1>9, <1>10, <1>11, RowChanged, ZenonT(60)

LEMMA MemberRemoved ==
  ASSUME CustomAssumption, CustomInv, NEW s \in Sessions, NEW k \in NumberType, NEW u \in Members,
         Customs!RemoveMember(s, k, u)
  PROVE  CustomInv'
<1>0. CustomTyped /\ Membered
  BY DEF CustomInv
<1>1. PICK p \in Perms :
        /\ p \in Customs!PermOf(k, u) /\ perms' = perms \ {<<k, u, p>>}
        /\ posts' = [posts EXCEPT ![s] = [Customs!Idle EXCEPT !.pc = "leave", !.k = k, !.u = u, !.p = p]]
  BY DEF Customs!RemoveMember, Customs!PermOf
<1>2. PICK w : w = PostOf("leave", k, u, p)
  OBVIOUS
<1>3. w \in PostType /\ w.pc = "leave" /\ w.k = k /\ w.u = u /\ w.p = p
  BY <1>2, ToPublish
<1>4. /\ posts[s].pc = "idle" /\ Customs!Edit /\ posts' = [posts EXCEPT ![s] = w]
      /\ slips' = [slips EXCEPT !.crossed = Customs!Crossed(k, u)]
      /\ UNCHANGED <<primary, suffix, made, channels, groups, within, tasks, born>>
  BY <1>1, <1>2 DEF PostOf, Customs!RemoveMember, Customs!At, Customs!rest
<1>5. <<k, u, p>> \in perms /\ perms \subseteq Customs!Row
  BY <1>0, <1>1 DEF Customs!PermOf, CustomTyped
<1>6. Customs!Crossed(k, u) \in SUBSET (NumberType \X Members) /\ slips \in SlipType
  BY <1>0 DEF Customs!Crossed, CustomTyped, SlipType
<1>7. /\ slips' \in SlipType /\ slips'.kept = slips.kept
      /\ slips'.crossed = Customs!Crossed(k, u) /\ slips'.left = slips.left
  BY <1>4, <1>6 DEF SlipType
<1>8. perms' \subseteq Customs!Row /\ perms' \cap slips'.kept = {}
  BY <1>0, <1>1, <1>5, <1>7 DEF Membered
<1>9. \A r : r \in Due' <=> IF r = <<k, u, p>> THEN w.pc = "join" ELSE r \in Due
  BY <1>0, <1>1, <1>3, <1>5, <1>7 DEF Due, Membered
<1>10. spent' \in SpentType /\ spent'.creations = spent.creations
  BY <1>0, <1>4, EditCounted DEF CustomTyped
<1>11. InUse(k)
  <2>1. PICK r \in Due : r = <<k, u, p>>
    BY <1>5 DEF Due
  <2> QED
    BY <2>1 DEF InUse
<1> QED
  BY <1>3, <1>4, <1>7, <1>8, <1>9, <1>10, <1>11, RowChanged, ZenonT(60)

LEMMA TaskAppended ==
  ASSUME tasks \in Seq(TaskType), NEW o \in TaskType, tasks' = Append(tasks, o)
  PROVE  /\ tasks' \in Seq(TaskType) /\ Held(tasks) \subseteq Held(tasks') /\ o \in Held(tasks')
         /\ \A t \in Held(tasks') : t \in Held(tasks) \/ t = o
         /\ \A k, u, p, j : o \in Lane(k, u, p) =>
              (Wills(tasks', Lane(k, u, p), <<k, u, p>>, j) <=> o.kind = "add")
         /\ \A k, u, p, j : o \notin Lane(k, u, p) =>
              (Wills(tasks', Lane(k, u, p), <<k, u, p>>, j) <=> Wills(tasks, Lane(k, u, p), <<k, u, p>>, j))
<1>1. PICK q : q = tasks'
  OBVIOUS
<1>2. q = Append(tasks, o)
  BY <1>1
<1>3. q \in Seq(TaskType) /\ Held(q) \subseteq Held(tasks) \cup {o} /\ Held(tasks) \subseteq Held(q) /\ o \in Held(q)
  BY <1>2, HeldAppended
<1>4. ASSUME NEW k, NEW u, NEW p, NEW j
      PROVE  Wills(q, Lane(k, u, p), <<k, u, p>>, j)
               <=> IF o \in Lane(k, u, p) THEN o.kind = "add" ELSE Wills(tasks, Lane(k, u, p), <<k, u, p>>, j)
  <2>1. PICK L, r : L = Lane(k, u, p) /\ r = <<k, u, p>>
    OBVIOUS
  <2>2. Wills(q, L, r, j) <=> IF o \in L THEN o.kind = "add" ELSE Wills(tasks, L, r, j)
    BY <1>2, WillsAppended
  <2> QED
    BY <2>1, <2>2
<1> QED
  BY <1>1, <1>3, <1>4

LEMMA MemberPublished ==
  ASSUME CustomAssumption, CustomInv, NEW s \in Sessions, Customs!PublishMember(s)
  PROVE  CustomInv'
<1>0. CustomTyped /\ Counted /\ Known /\ Fresh /\ GroupsKept /\ Membered /\ Told
  BY DEF CustomInv
<1>1. posts \in [Sessions -> PostType] /\ posts[s] \in PostType /\ posts[s].pc \in {"join", "leave"}
  BY <1>0 DEF CustomTyped, Customs!PublishMember
<1>2. PICK k \in NumberType, u \in Members, p \in Perms : posts[s].k = k /\ posts[s].u = u /\ posts[s].p = p
  BY <1>1 DEF PostType, Customs!Idle
<1>3. PICK kind \in {"add", "remove"} : kind = (IF posts[s].pc = "join" THEN "add" ELSE "remove")
  OBVIOUS
<1>4. PICK o : o = Customs!Op(kind, k, u, p)
  OBVIOUS
<1>5. o \in TaskType /\ o.kind = kind /\ o.k = k /\ o.u = u /\ o.ps = {p}
  BY <1>4 DEF TaskType, MemberTask, Customs!Op
<1>6. \/ tasks' = (IF p \in made[k] THEN Append(tasks, o) ELSE tasks) /\ UNCHANGED <<spent, slips>>
      \/ Customs!Fault /\ slips' = [slips EXCEPT !.crossed = @ \cup {<<k, u>>}] /\ UNCHANGED tasks
  BY <1>2, <1>3, <1>4 DEF Customs!PublishMember, Customs!At
<1>7. posts' = [posts EXCEPT ![s] = Customs!Idle] /\ UNCHANGED <<primary, suffix, made, channels, groups, perms, within, born>>
  BY DEF Customs!PublishMember, Customs!End, Customs!rest
<1>8. posts'[s] = Customs!Idle /\ Customs!Idle.pc = "idle" /\ \A r \in Sessions \ {s} : posts'[r] = posts[r]
  BY <1>1, <1>7 DEF Customs!Idle
<1>9. /\ tasks' \in Seq(TaskType) /\ Held(tasks) \subseteq Held(tasks')
      /\ \A t \in Held(tasks') : t \in Held(tasks) \/ (t = o /\ p \in made[k])
  <2>1. CASE tasks' = tasks
    BY <1>0, <2>1 DEF CustomTyped
  <2>2. CASE tasks' = Append(tasks, o) /\ p \in made[k]
    <3>1. tasks \in Seq(TaskType)
      BY <1>0 DEF CustomTyped
    <3> QED
      BY <1>5, <2>2, <3>1, TaskAppended
  <2> QED
    BY <1>6, <2>1, <2>2
<1>10. /\ slips' \in SlipType /\ slips'.kept = slips.kept /\ slips'.left = slips.left
       /\ slips.crossed \subseteq slips'.crossed /\ slips.left \subseteq slips'.left
       /\ spent' \in SpentType /\ spent'.creations = spent.creations
  <2>1. slips \in SlipType /\ spent \in SpentType
    BY <1>0 DEF CustomTyped
  <2>2. CASE UNCHANGED <<spent, slips>>
    BY <2>1, <2>2
  <2>3. CASE Customs!Fault /\ slips' = [slips EXCEPT !.crossed = @ \cup {<<k, u>>}]
    <3>1. spent' \in SpentType /\ spent'.creations = spent.creations
      BY <2>1, <2>3, FaultCounted
    <3> QED
      BY <2>1, <2>3, <3>1 DEF SlipType
  <2> QED
    BY <1>6, <2>2, <2>3
<1>11. \A r : r \in Due' <=> r \in Due
  BY <1>7, <1>10 DEF Due
<1>12. CustomTyped'
  <2>1. posts' \in [Sessions -> PostType]
    BY <1>1, <1>7 DEF PostType
  <2> QED
    BY <1>0, <1>7, <1>9, <1>10, <2>1 DEF CustomTyped
<1>13. Openings' = Openings
  BY <1>1, <1>8 DEF Openings, Opens
<1>14. Counted'
  <2>1. \A r \in Sessions : posts'[r].pc = "commit" => posts'[r] = posts[r]
    BY <1>8
  <2> QED
    BY <1>0, <1>7, <1>10, <1>13, <2>1, CountStays
<1>15. Known' /\ Fresh'
  <2>1. ASSUME NEW j \in NumberType, InUse(j)' PROVE InUse(j) \/ \E r \in Sessions : Publishes(r) /\ posts[r].k = j
    BY <1>1, <1>2, <1>5, <1>7, <1>9, <1>11, <2>1 DEF InUse, Publishes
  <2>2. \A r \in Sessions : posts'[r] = posts[r] \/ posts'[r] = Customs!Idle
    BY <1>8
  <2> QED
    BY <1>0, <1>7, <1>10, <1>12, <2>1, <2>2, NothingNew
<1>16. GroupsKept'
  <2>1. \A j \in NumberType : Deletes(tasks', j) = Deletes(tasks, j)
    BY <1>5, <1>9 DEF Deletes
  <2>2. groups \subseteq NumberType \X Perms /\ channels \subseteq NumberType
    BY <1>0 DEF CustomTyped
  <2> QED
    BY <1>0, <1>7, <1>10, <1>13, <2>1, <2>2, GroupsStay
<1>17. Membered'
  BY <1>0, <1>5, <1>7, <1>9, <1>10 DEF Membered
<1>18. Told'
  <2> SUFFICES ASSUME NEW j \in channels, NEW v \in Members, <<j, v>> \notin slips'.crossed
               PROVE  ToldOf(posts', tasks', Due', within, made[j], j, v)
    BY <1>7 DEF Told
  <2>0. tasks \in Seq(TaskType)
    BY <1>0 DEF CustomTyped
  <2>1. ToldOf(posts, tasks, Due, within, made[j], j, v)
    BY <1>0, <1>10 DEF Told
  <2>2. ASSUME NEW q \in Perms, o \notin Lane(j, v, q)
        PROVE  Wills(tasks', Lane(j, v, q), <<j, v, q>>, within) <=> Wills(tasks, Lane(j, v, q), <<j, v, q>>, within)
    <3>1. CASE tasks' = tasks
      BY <3>1
    <3>2. CASE tasks' = Append(tasks, o)
      BY <1>5, <2>0, <2>2, <3>2, TaskAppended
    <3> QED
      BY <1>6, <3>1, <3>2
  <2>3. CASE j = k /\ v = u
    <3>1. \A r \in Sessions : ~Says(posts'[r], k, u)
      <4>1. Says(posts[s], k, u)
        BY <1>1, <1>2 DEF Says
      <4>2. \A r \in Sessions : Says(posts[r], k, u) => r = s
        BY <2>1, <2>3, <4>1 DEF ToldOf
      <4> QED
        BY <1>8, <4>2 DEF Says
    <3>2. <<k, u, p>> \in Due <=> posts[s].pc = "join"
      BY <1>1, <1>2, <2>1, <2>3 DEF ToldOf, Says
    <3>3. ASSUME NEW q \in Perms
          PROVE  Wills(tasks', Lane(k, u, q), <<k, u, q>>, within) <=> q \in made[k] /\ <<k, u, q>> \in Due
      <4>1. CASE q # p
        <5>1. \A r \in Sessions : ~(Says(posts[r], k, u) /\ posts[r].p = q)
          <6>1. Says(posts[s], k, u)
            BY <1>1, <1>2 DEF Says
          <6>2. \A r \in Sessions : Says(posts[r], k, u) => r = s
            BY <2>1, <2>3, <6>1 DEF ToldOf
          <6> QED
            BY <1>2, <4>1, <6>2
        <5>2. Wills(tasks, Lane(k, u, q), <<k, u, q>>, within) <=> q \in made[k] /\ <<k, u, q>> \in Due
          BY <2>1, <2>3, <5>1 DEF ToldOf
        <5>3. o \notin Lane(k, u, q)
          BY <1>5, <4>1, OnLane
        <5> QED
          BY <2>2, <2>3, <5>2, <5>3
      <4>2. CASE q = p /\ p \in made[k]
        <5>1. tasks' = Append(tasks, o)
          <6>1. <<k, u>> \notin slips'.crossed
            BY <2>3
          <6>2. slips \in SlipType
            BY <1>0 DEF CustomTyped
          <6> QED
            BY <1>6, <4>2, <6>1, <6>2 DEF SlipType
        <5>2. o \in Lane(k, u, p)
          BY <1>5, OnLane
        <5>3. Wills(tasks', Lane(k, u, p), <<k, u, p>>, within) <=> o.kind = "add"
          BY <1>5, <2>0, <5>1, <5>2, TaskAppended
        <5> QED
          BY <1>1, <1>3, <1>5, <3>2, <4>2, <5>3
      <4>3. CASE q = p /\ p \notin made[k]
        <5>1. \A t \in Held(tasks') : t \notin Lane(k, u, p)
          <6>1. \A t \in Held(tasks') : t \in TaskType
            BY <1>9 DEF Held
          <6>2. \A t \in Held(tasks') : t.kind # "delete" /\ t.k = k => t.ps \subseteq made[k]
            BY <1>7, <1>17 DEF Membered
          <6> QED
            BY <4>3, <6>1, <6>2, OnLane
        <5>2. <<k, u, p>> \notin within
          <6>1. ASSUME <<k, u, p>> \in within PROVE FALSE
            <7>1. PICK r \in within : r = <<k, u, p>>
              BY <6>1
            <7> QED
              BY <1>0, <4>3, <7>1 DEF Membered
          <6> QED
            BY <6>1
        <5> QED
          BY <4>3, <5>1, <5>2 DEF Wills, Held
      <4> QED
        BY <4>1, <4>2, <4>3
    <3> QED
      BY <1>11, <2>3, <3>1, <3>3 DEF ToldOf
  <2>4. CASE ~(j = k /\ v = u)
    <3>1. \A q : <<j, v, q>> \in Due' <=> <<j, v, q>> \in Due
      BY <1>11
    <3>2. \A r \in Sessions : (Says(posts'[r], j, v) <=> Says(posts[r], j, v)) /\ (Says(posts[r], j, v) => posts'[r] = posts[r])
      BY <1>2, <1>8, <2>4 DEF Says
    <3>3. \A q \in Perms : Wills(tasks', Lane(j, v, q), <<j, v, q>>, within) <=> Wills(tasks, Lane(j, v, q), <<j, v, q>>, within)
      <4>1. \A q \in Perms : o \notin Lane(j, v, q)
        BY <1>5, <2>4, OnLane
      <4> QED
        BY <2>2, <4>1
    <3> QED
      BY <2>1, <3>1, <3>2, <3>3, ToldKept, ZenonT(60)
  <2> QED
    BY <2>3, <2>4
<1> QED
  BY <1>12, <1>14, <1>15, <1>16, <1>17, <1>18 DEF CustomInv

LEMMA ChannelDeleted ==
  ASSUME CustomAssumption, CustomInv, NEW k \in NumberType, Customs!DeleteCustomChannel(k)
  PROVE  CustomInv'
<1>0. CustomTyped /\ Counted /\ Known /\ Fresh /\ GroupsKept /\ Membered /\ Told
  BY DEF CustomInv
<1>1. PICK o : o = [kind |-> "delete", k |-> k, u |-> Customs!None, ps |-> made[k]]
  OBVIOUS
<1>2. o \in TaskType /\ o.kind = "delete" /\ o.k = k /\ o.ps = made[k]
  BY <1>0, <1>1 DEF TaskType, DeleteTask, CustomTyped
<1>3. /\ k \in channels /\ Customs!Edit /\ channels' = channels \ {k} /\ perms' = {r \in perms : r[1] # k}
      /\ tasks' = Append(tasks, o)
      /\ UNCHANGED <<primary, suffix, made, groups, within, posts, born, slips>>
  BY <1>1 DEF Customs!DeleteCustomChannel, Customs!rest
<1>4. /\ tasks' \in Seq(TaskType) /\ Held(tasks) \subseteq Held(tasks') /\ o \in Held(tasks')
      /\ \A t \in Held(tasks') : t \in Held(tasks) \/ t = o
      /\ \A j, v, q, i : o \notin Lane(j, v, q) =>
           (Wills(tasks', Lane(j, v, q), <<j, v, q>>, i) <=> Wills(tasks, Lane(j, v, q), <<j, v, q>>, i))
  <2>1. tasks \in Seq(TaskType)
    BY <1>0 DEF CustomTyped
  <2> QED
    BY <1>2, <1>3, <2>1, TaskAppended
<1>5. spent' \in SpentType /\ spent'.creations = spent.creations
  BY <1>0, <1>3, EditCounted DEF CustomTyped
<1>6. CustomTyped'
  BY <1>0, <1>3, <1>4, <1>5 DEF CustomTyped
<1>7. Openings' = Openings
  BY <1>3 DEF Openings, Opens
<1>8. Counted'
  <2>1. IsFiniteSet(channels) /\ Cardinality(channels) \in Nat /\ Cardinality(channels') \in Nat
    BY <1>0, <1>6, NumbersFinite DEF CustomTyped
  <2>2. Cardinality(channels') <= Cardinality(channels)
    BY <1>3, <2>1, FS_Subset
  <2>3. Customs!Count \in Nat /\ Customs!Count' \in Nat /\ Customs!Count' <= Customs!Count
    BY <1>3, <2>1, <2>2, CustomCounts DEF Customs!Count
  <2>4. Limit \in Nat
    BY DEF CustomAssumption
  <2>5. Customs!Count' <= Limit /\ (Customs!Count < Limit => Customs!Count' < Limit)
    BY <1>0, <2>3, <2>4 DEF Counted
  <2> QED
    BY <1>0, <1>3, <1>5, <1>7, <2>5 DEF Counted
<1>9. Known' /\ Fresh'
  <2>1. ASSUME NEW j \in NumberType, InUse(j)' PROVE InUse(j)
    BY <1>2, <1>3, <1>4, <2>1 DEF InUse, Due
  <2>2. \A s \in Sessions : posts'[s] = posts[s]
    BY <1>3
  <2> QED
    BY <1>0, <1>3, <1>5, <1>6, <2>1, <2>2, NothingNew
<1>10. GroupsKept'
  <2>1. \A g \in groups : Deletes(tasks, g[1]) \subseteq Deletes(tasks', g[1])
    BY <1>4 DEF Deletes
  <2>2. o \in Deletes(tasks', k)
    BY <1>2, <1>4 DEF Deletes
  <2>3. ASSUME NEW g \in groups
        PROVE  g[1] \in channels' \cup slips.left \cup Openings \/ \E d \in Deletes(tasks', g[1]) : g[2] \in d.ps
    <3>1. CASE g[1] = k
      BY <1>0, <1>2, <2>2, <3>1 DEF GroupsKept
    <3>2. CASE g[1] # k
      BY <1>0, <1>3, <2>1, <3>2 DEF GroupsKept
    <3> QED
      BY <3>1, <3>2
  <2>4. ASSUME NEW j \in channels' PROVE Deletes(tasks', j) = {}
    <3>1. j \in channels /\ j # k /\ Deletes(tasks, j) = {}
      BY <1>0, <1>3 DEF GroupsKept
    <3> QED
      BY <1>2, <1>4, <3>1 DEF Deletes
  <2>5. \A j \in channels' \cup Openings' : {j} \X made[j] \subseteq groups
    BY <1>0, <1>3, <1>7 DEF GroupsKept
  <2>6. \A g \in groups : g[1] \in slips.left \/ g[2] \in made[g[1]]
    BY <1>0 DEF GroupsKept
  <2> QED
    BY <1>3, <1>7, <2>3, <2>4, <2>5, <2>6 DEF GroupsKept
<1>11. Membered'
  <2>1. perms' \cap slips'.kept = {}
    BY <1>0, <1>3 DEF Membered
  <2> QED
    BY <1>0, <1>2, <1>3, <1>4, <2>1 DEF Membered
<1>12. Told'
  <2> SUFFICES ASSUME NEW j \in channels', NEW v \in Members, <<j, v>> \notin slips.crossed
               PROVE  ToldOf(posts, tasks', Due', within, made[j], j, v)
    BY <1>3 DEF Told
  <2>1. j \in channels /\ j # k
    BY <1>3
  <2>2. ToldOf(posts, tasks, Due, within, made[j], j, v)
    BY <1>0, <2>1 DEF Told
  <2>3. \A q : <<j, v, q>> \in Due' <=> <<j, v, q>> \in Due
    BY <1>3, <2>1 DEF Due
  <2>4. \A r \in Sessions : (Says(posts[r], j, v) <=> Says(posts[r], j, v)) /\ (Says(posts[r], j, v) => posts[r] = posts[r])
    OBVIOUS
  <2>5. \A q \in Perms : Wills(tasks', Lane(j, v, q), <<j, v, q>>, within) <=> Wills(tasks, Lane(j, v, q), <<j, v, q>>, within)
    <3>1. \A q : o \notin Lane(j, v, q)
      BY <1>2, OnLane
    <3> QED
      BY <1>4, <3>1
  <2> QED
    BY <2>2, <2>3, <2>4, <2>5, ToldKept, ZenonT(60)
<1> QED
  BY <1>6, <1>8, <1>9, <1>10, <1>11, <1>12 DEF CustomInv

LEMMA TasksJoined ==
  ASSUME tasks \in Seq(TaskType), NEW t \in Seq(TaskType), tasks' = tasks \o t, \A o \in Held(t) : o.kind = "remove"
  PROVE  /\ tasks' \in Seq(TaskType) /\ Held(tasks) \subseteq Held(tasks')
         /\ \A o \in Held(tasks') : o \in Held(tasks) \/ o \in Held(t)
         /\ \A k, u, p, j : (\E o \in Held(t) : o \in Lane(k, u, p)) =>
              ~Wills(tasks', Lane(k, u, p), <<k, u, p>>, j)
         /\ \A k, u, p, j : (\A o \in Held(t) : o \notin Lane(k, u, p)) =>
              (Wills(tasks', Lane(k, u, p), <<k, u, p>>, j) <=> Wills(tasks, Lane(k, u, p), <<k, u, p>>, j))
<1>1. PICK q : q = tasks'
  OBVIOUS
<1>2. q = tasks \o t
  BY <1>1
<1>3. q \in Seq(TaskType) /\ Held(q) \subseteq Held(tasks) \cup Held(t) /\ Held(tasks) \subseteq Held(q)
  BY <1>2, HeldJoined
<1>4. ASSUME NEW k, NEW u, NEW p, NEW j
      PROVE  /\ (\E o \in Held(t) : o \in Lane(k, u, p)) => ~Wills(q, Lane(k, u, p), <<k, u, p>>, j)
             /\ (\A o \in Held(t) : o \notin Lane(k, u, p)) =>
                  (Wills(q, Lane(k, u, p), <<k, u, p>>, j) <=> Wills(tasks, Lane(k, u, p), <<k, u, p>>, j))
  <2>1. PICK L, r, kind : L = Lane(k, u, p) /\ r = <<k, u, p>> /\ kind = "remove"
    OBVIOUS
  <2>2. OfKind(t, L, kind)
    BY <2>1 DEF OfKind
  <2>3. Wills(q, L, r, j) <=> IF Held(t) \cap L # {} THEN kind = "add" ELSE Wills(tasks, L, r, j)
    BY <1>2, <2>2, WillsJoined
  <2>4. /\ (\E o \in Held(t) : o \in L) => ~Wills(q, L, r, j)
        /\ (\A o \in Held(t) : o \notin L) => (Wills(q, L, r, j) <=> Wills(tasks, L, r, j))
    BY <2>1, <2>3
  <2> QED
    BY <2>1, <2>4
<1> QED
  BY <1>1, <1>3, <1>4

\* What a user who leaves the team no longer is to be a member of, and the
\* operations for it.
Removals(told, u) == {Customs!Op("remove", r[1], u, ReadWrite) : r \in told}

LEMMA LeavingTold ==
  ASSUME CustomAssumption, CustomTyped, NEW u \in Members, NEW told \in SUBSET perms,
         \A r \in told : r[2] = u /\ ReadWrite \in made[r[1]],
         NEW S, S = Removals(told, u)
  PROVE  /\ IsFiniteSet(S) /\ S \subseteq TaskType
         /\ \A o \in S : o.kind = "remove" /\ \E r \in told : o.k = r[1] /\ o.ps = {ReadWrite}
         /\ \A j, q, v : (\E o \in S : o \in Lane(j, v, q)) <=> v = u /\ q = ReadWrite /\ \E r \in told : r[1] = j
<1>1. \A r \in told : r[1] \in NumberType /\ ReadWrite \in Perms
  BY DEF CustomTyped, Customs!Row, NumberType
<1>2. \A r \in told : /\ Customs!Op("remove", r[1], u, ReadWrite) \in TaskType
                      /\ Customs!Op("remove", r[1], u, ReadWrite).kind = "remove"
                      /\ Customs!Op("remove", r[1], u, ReadWrite).k = r[1]
                      /\ Customs!Op("remove", r[1], u, ReadWrite).u = u
                      /\ Customs!Op("remove", r[1], u, ReadWrite).ps = {ReadWrite}
  BY <1>1 DEF Customs!Op, TaskType, MemberTask
<1>3. ASSUME NEW o \in S
      PROVE  o \in TaskType /\ o.kind = "remove" /\ o.u = u /\ \E r \in told : o.k = r[1] /\ o.ps = {ReadWrite}
  BY <1>2 DEF Removals
<1>4. IsFiniteSet(S)
  <2>1. PICK f : f = [k \in NumberType |-> Customs!Op("remove", k, u, ReadWrite)]
    OBVIOUS
  <2>2. DOMAIN f = NumberType /\ \A k \in NumberType : f[k] = Customs!Op("remove", k, u, ReadWrite)
    BY <2>1
  <2>3. ASSUME NEW o \in S PROVE o \in {f[k] : k \in NumberType}
    <3>1. PICK r \in told : o = Customs!Op("remove", r[1], u, ReadWrite)
      BY DEF Removals
    <3>2. r[1] \in NumberType /\ f[r[1]] = o
      BY <1>1, <2>2, <3>1
    <3> QED
      BY <3>2
  <2>4. NumberType \subseteq NumberType
    OBVIOUS
  <2>5. IsFiniteSet(NumberType)
    BY <2>4, NumbersFinite
  <2> QED
    BY <2>2, <2>3, <2>5, RangeFinite
<1>5. ASSUME NEW j, NEW q, NEW v
      PROVE  (\E o \in S : o \in Lane(j, v, q)) <=> v = u /\ q = ReadWrite /\ \E r \in told : r[1] = j
  <2>1. ASSUME NEW o \in S, o \in Lane(j, v, q) PROVE v = u /\ q = ReadWrite /\ \E r \in told : r[1] = j
    BY <1>3, <2>1, OnLane
  <2>2. ASSUME v = u, q = ReadWrite, NEW r \in told, r[1] = j PROVE \E o \in S : o \in Lane(j, v, q)
    BY <2>2 DEF Lane, Removals
  <2> QED
    BY <2>1, <2>2
<1> QED
  BY <1>3, <1>4, <1>5

LEMMA UserDeparted ==
  ASSUME CustomAssumption, CustomInv, NEW u \in Members, NEW transfer \in BOOLEAN, Customs!Depart(u, transfer)
  PROVE  CustomInv'
<1>0. CustomTyped /\ Counted /\ Known /\ Fresh /\ GroupsKept /\ Membered /\ Told
  BY DEF CustomInv
<1>1. PICK had : had = {r \in perms : r[2] = u}
  OBVIOUS
<1>2. PICK told : told = {r \in had : transfer /\ ReadWrite \in made[r[1]]}
  OBVIOUS
<1>3. PICK S : S = Removals(told, u)
  OBVIOUS
<1>4. PICK X, Y : /\ X = {<<r[1], u, ReadWrite>> : r \in told}
                  /\ Y = {<<r[1], u>> : r \in {r \in had : Customs!Publishing(r[1], u)}}
  OBVIOUS
<1>5. PICK t : t = Customs!SetToSeq(S)
  OBVIOUS
<1>6. /\ Customs!Edit /\ perms' = perms \ had /\ tasks' = tasks \o t
      /\ slips' = [slips EXCEPT !.kept = (@ \cup had) \ X, !.crossed = @ \cup Y]
      /\ UNCHANGED <<primary, suffix, made, channels, groups, within, posts, born>>
  BY <1>1, <1>2, <1>3, <1>4, <1>5 DEF Removals, Customs!Depart, Customs!rest
<1>7. had \subseteq perms /\ told \subseteq perms /\ \A r \in told : r[2] = u /\ ReadWrite \in made[r[1]]
  BY <1>1, <1>2
<1>8. /\ IsFiniteSet(S) /\ S \subseteq TaskType
      /\ \A o \in S : o.kind = "remove" /\ \E r \in told : o.k = r[1] /\ o.ps = {ReadWrite}
      /\ \A j, q, v : (\E o \in S : o \in Lane(j, v, q)) <=> v = u /\ q = ReadWrite /\ \E r \in told : r[1] = j
  BY <1>0, <1>3, <1>7, LeavingTold
<1>9. t \in Seq(TaskType) /\ Held(t) \subseteq S /\ S \subseteq Held(t)
  BY <1>5, <1>8, ListOf
<1>10. /\ tasks' \in Seq(TaskType) /\ Held(tasks) \subseteq Held(tasks')
       /\ \A o \in Held(tasks') : o \in Held(tasks) \/ o \in S
       /\ \A k, v, p, j : (\E o \in S : o \in Lane(k, v, p)) =>
            ~Wills(tasks', Lane(k, v, p), <<k, v, p>>, j)
       /\ \A k, v, p, j : (\A o \in S : o \notin Lane(k, v, p)) =>
            (Wills(tasks', Lane(k, v, p), <<k, v, p>>, j) <=> Wills(tasks, Lane(k, v, p), <<k, v, p>>, j))
  <2>1. tasks \in Seq(TaskType) /\ \A o \in Held(t) : o.kind = "remove"
    BY <1>0, <1>8, <1>9 DEF CustomTyped
  <2>2. \A o : o \in S <=> o \in Held(t)
    BY <1>9
  <2> QED
    BY <1>6, <1>9, <2>1, <2>2, TasksJoined
<1>11. \A x : x \in X <=> \E r \in told : x = <<r[1], u, ReadWrite>>
  BY <1>4
<1>12. /\ slips' \in SlipType /\ slips'.kept = (slips.kept \cup had) \ X /\ slips'.left = slips.left
       /\ slips'.crossed = slips.crossed \cup Y
  <2>1. slips \in SlipType /\ perms \subseteq Customs!Row
    BY <1>0 DEF CustomTyped
  <2>2. Y \subseteq NumberType \X Members
    BY <1>1, <1>4, <2>1 DEF Customs!Row, NumberType
  <2> QED
    BY <1>6, <1>7, <2>1, <2>2 DEF SlipType
<1>13. spent' \in SpentType /\ spent'.creations = spent.creations
  BY <1>0, <1>6, EditCounted DEF CustomTyped
<1>14. \A r : r \in Due' <=> r \in Due /\ r \notin X
  <2>1. \A r \in perms : r \in X => r \in had
    BY <1>1, <1>11
  <2> QED
    BY <1>6, <1>7, <1>12, <2>1 DEF Due
<1>15. CustomTyped'
  BY <1>0, <1>6, <1>10, <1>12, <1>13 DEF CustomTyped
<1>16. Openings' = Openings
  BY <1>6 DEF Openings, Opens
<1>17. Counted'
  BY <1>0, <1>6, <1>13, <1>16, CountStays
<1>18. Known' /\ Fresh'
  <2>1. ASSUME NEW j \in NumberType, InUse(j)' PROVE InUse(j)
    <3>1. \A r \in told : InUse(r[1])
      BY <1>7 DEF InUse, Due
    <3>2. \A o \in Held(tasks') : o \in Held(tasks) \/ InUse(o.k)
      BY <1>8, <1>10, <3>1
    <3> QED
      BY <1>6, <1>14, <2>1, <3>2 DEF InUse
  <2>2. \A s \in Sessions : posts'[s] = posts[s]
    BY <1>6
  <2> QED
    BY <1>0, <1>6, <1>13, <1>15, <2>1, <2>2, NothingNew
<1>19. GroupsKept'
  <2>1. \A j \in NumberType : Deletes(tasks', j) = Deletes(tasks, j)
    BY <1>8, <1>10 DEF Deletes
  <2>2. groups \subseteq NumberType \X Perms /\ channels \subseteq NumberType /\ slips.left \subseteq slips'.left
    BY <1>0, <1>12 DEF CustomTyped
  <2> QED
    BY <1>0, <1>6, <1>16, <2>1, <2>2, GroupsStay
<1>20. Membered'
  <2>1. perms' \cap slips'.kept = {}
    BY <1>0, <1>6, <1>12 DEF Membered
  <2>2. \A o \in S : o.ps \subseteq made[o.k]
    BY <1>7, <1>8
  <2> QED
    BY <1>0, <1>6, <1>10, <2>1, <2>2 DEF Membered
<1>21. Told'
  <2> SUFFICES ASSUME NEW j \in channels, NEW v \in Members, <<j, v>> \notin slips'.crossed
               PROVE  ToldOf(posts, tasks', Due', within, made[j], j, v)
    BY <1>6 DEF Told
  <2>1. ToldOf(posts, tasks, Due, within, made[j], j, v)
    BY <1>0, <1>12 DEF Told
  <2>2. \A q : <<j, v, q>> \in X <=> \E o \in S : o \in Lane(j, v, q)
    <3>1. \A q : <<j, v, q>> \in X <=> v = u /\ q = ReadWrite /\ \E r \in told : r[1] = j
      BY <1>11
    <3> QED
      BY <1>8, <3>1
  <2>3. CASE \E s \in Sessions : Says(posts[s], j, v)
    <3>1. \A q : <<j, v, q>> \notin X
      <4>1. ASSUME NEW q, <<j, v, q>> \in X PROVE FALSE
        <5>1. PICK r \in told : r[1] = j /\ v = u
          BY <1>11, <4>1
        <5>2. r \in had /\ Customs!Publishing(r[1], u)
          BY <1>2, <2>3, <5>1, OthersPublish
        <5>3. <<j, v>> \in Y
          BY <1>4, <5>1, <5>2
        <5> QED
          BY <1>12, <5>3
      <4> QED
        BY <4>1
    <3>2. \A q : <<j, v, q>> \in Due' <=> <<j, v, q>> \in Due
      BY <1>14, <3>1
    <3>3. \A s \in Sessions : (Says(posts[s], j, v) <=> Says(posts[s], j, v)) /\ (Says(posts[s], j, v) => posts[s] = posts[s])
      OBVIOUS
    <3>4. \A q \in Perms : Wills(tasks', Lane(j, v, q), <<j, v, q>>, within) <=> Wills(tasks, Lane(j, v, q), <<j, v, q>>, within)
      <4>1. \A q, o : o \in S => o \notin Lane(j, v, q)
        BY <2>2, <3>1
      <4> QED
        BY <1>10, <4>1
    <3> QED
      BY <2>1, <3>2, <3>3, <3>4, ToldKept, ZenonT(60)
  <2>4. CASE \A s \in Sessions : ~Says(posts[s], j, v)
    <3>1. ASSUME NEW q \in Perms
          PROVE  Wills(tasks', Lane(j, v, q), <<j, v, q>>, within) <=> q \in made[j] /\ <<j, v, q>> \in Due'
      <4>1. Wills(tasks, Lane(j, v, q), <<j, v, q>>, within) <=> q \in made[j] /\ <<j, v, q>> \in Due
        BY <2>1, <2>4 DEF ToldOf
      <4>2. CASE <<j, v, q>> \in X
        BY <1>10, <1>14, <2>2, <4>2
      <4>3. CASE <<j, v, q>> \notin X
        BY <1>10, <1>14, <2>2, <4>1, <4>3
      <4> QED
        BY <4>2, <4>3
    <3> QED
      BY <2>4, <3>1 DEF ToldOf
  <2> QED
    BY <2>3, <2>4
<1> QED
  BY <1>15, <1>17, <1>18, <1>19, <1>20, <1>21 DEF CustomInv

\* A step of the worker, by what it makes of the members' operations.
Kept(o) == \E t \in Held(tasks) : o.k = t.k
Awaits(j, v) == \A q \in Perms :
  Wills(tasks', Lane(j, v, q), <<j, v, q>>, within') <=> Wills(tasks, Lane(j, v, q), <<j, v, q>>, within)

LEMMA WorkDone ==
  ASSUME CustomAssumption, CustomInv, UNCHANGED <<primary, suffix, made, channels, perms, posts, born>>,
         tasks' \in Seq(TaskType), groups' \subseteq groups, within' \subseteq Customs!Row,
         spent' \in SpentType, spent'.creations = spent.creations,
         slips' \in SlipType, slips'.kept = slips.kept, slips.crossed \subseteq slips'.crossed,
         \A o \in Held(tasks') : Kept(o),
         \A r \in within' : r \in within \/ \E t \in Held(tasks) : r[1] = t.k,
         GroupsKept', Membered',
         \A j \in channels, v \in Members : <<j, v>> \notin slips'.crossed => Awaits(j, v)
  PROVE  CustomInv'
<1>0. CustomTyped /\ Counted /\ Known /\ Fresh /\ GroupsKept /\ Membered /\ Told
  BY DEF CustomInv
<1>1. CustomTyped'
  BY <1>0 DEF CustomTyped
<1>2. Openings' = Openings
  BY DEF Openings, Opens
<1>3. Counted'
  BY <1>0, <1>2, CountStays
<1>4. \A r : r \in Due' <=> r \in Due
  BY DEF Due
<1>5. Known' /\ Fresh'
  <2>1. ASSUME NEW j \in NumberType, InUse(j)' PROVE InUse(j)
    BY <1>4, <2>1 DEF InUse, Kept
  <2>2. \A s \in Sessions : posts'[s] = posts[s]
    OBVIOUS
  <2> QED
    BY <1>0, <1>1, <2>1, <2>2, NothingNew
<1>6. Told'
  <2> SUFFICES ASSUME NEW j \in channels, NEW v \in Members, <<j, v>> \notin slips'.crossed
               PROVE  ToldOf(posts, tasks', Due', within', made[j], j, v)
    BY DEF Told
  <2>1. ToldOf(posts, tasks, Due, within, made[j], j, v)
    BY <1>0 DEF Told
  <2>2. \A q : <<j, v, q>> \in Due' <=> <<j, v, q>> \in Due
    BY <1>4
  <2>3. \A r \in Sessions : (Says(posts[r], j, v) <=> Says(posts[r], j, v)) /\ (Says(posts[r], j, v) => posts[r] = posts[r])
    OBVIOUS
  <2>4. \A q \in Perms : Wills(tasks', Lane(j, v, q), <<j, v, q>>, within') <=> Wills(tasks, Lane(j, v, q), <<j, v, q>>, within)
    BY DEF Awaits
  <2> QED
    BY <2>1, <2>2, <2>3, <2>4, ToldKept, ZenonT(60)
<1> QED
  BY <1>0, <1>1, <1>3, <1>5, <1>6 DEF CustomInv

LEMMA TaskCut ==
  ASSUME tasks \in Seq(TaskType), NEW i \in DOMAIN tasks, tasks' = CutAt(tasks, i)
  PROVE  /\ tasks' \in Seq(TaskType) /\ Held(tasks') \subseteq Held(tasks)
         /\ \A t \in Held(tasks) : t \in Held(tasks') \/ t = tasks[i]
         /\ \A k, u, p, j : tasks[i] \notin Lane(k, u, p) =>
              (Wills(tasks', Lane(k, u, p), <<k, u, p>>, j) <=> Wills(tasks, Lane(k, u, p), <<k, u, p>>, j))
         /\ \A k, u, p, j, n :
              tasks[i] \in Lane(k, u, p) /\ (\A m \in DOMAIN tasks : m < i => tasks[m] \notin Lane(k, u, p))
                /\ (<<k, u, p>> \in n <=> tasks[i].kind = "add") =>
              (Wills(tasks', Lane(k, u, p), <<k, u, p>>, n) <=> Wills(tasks, Lane(k, u, p), <<k, u, p>>, j))
<1>1. PICK q : q = tasks'
  OBVIOUS
<1>2. q = CutAt(tasks, i)
  BY <1>1
<1>3. q \in Seq(TaskType) /\ Held(q) \subseteq Held(tasks) /\ Held(tasks) \subseteq Held(q) \cup {tasks[i]}
  BY <1>2, HeldCut
<1>4. ASSUME NEW k, NEW u, NEW p, NEW j, NEW n, <<k, u, p>> \in n <=> tasks[i].kind = "add"
      PROVE  /\ tasks[i] \notin Lane(k, u, p) =>
                  (Wills(q, Lane(k, u, p), <<k, u, p>>, j) <=> Wills(tasks, Lane(k, u, p), <<k, u, p>>, j))
             /\ tasks[i] \in Lane(k, u, p) /\ (\A m \in DOMAIN tasks : m < i => tasks[m] \notin Lane(k, u, p)) =>
                  (Wills(q, Lane(k, u, p), <<k, u, p>>, n) <=> Wills(tasks, Lane(k, u, p), <<k, u, p>>, j))
  <2>1. PICK L, r : L = Lane(k, u, p) /\ r = <<k, u, p>>
    OBVIOUS
  <2>2. r \in n <=> tasks[i].kind = "add"
    BY <1>4, <2>1
  <2>3. /\ tasks[i] \notin L => (Wills(q, L, r, j) <=> Wills(tasks, L, r, j))
        /\ tasks[i] \in L /\ (\A m \in DOMAIN tasks : m < i => tasks[m] \notin L) =>
             (Wills(q, L, r, n) <=> Wills(tasks, L, r, j))
    BY <1>2, <2>2, WillsCut
  <2> QED
    BY <2>1, <2>3
<1>5. \A k, u, p : \E n : <<k, u, p>> \in n <=> tasks[i].kind = "add"
  <2> SUFFICES ASSUME NEW k, NEW u, NEW p PROVE \E n : <<k, u, p>> \in n <=> tasks[i].kind = "add"
    OBVIOUS
  <2>1. PICK n : n = IF tasks[i].kind = "add" THEN {<<k, u, p>>} ELSE {}
    OBVIOUS
  <2>2. <<k, u, p>> \in n <=> tasks[i].kind = "add"
    BY <2>1
  <2> QED
    BY <2>2
<1>6. \A k, u, p, j : tasks[i] \notin Lane(k, u, p) =>
        (Wills(q, Lane(k, u, p), <<k, u, p>>, j) <=> Wills(tasks, Lane(k, u, p), <<k, u, p>>, j))
  BY <1>4, <1>5
<1>7. \A k, u, p, j, n :
        tasks[i] \in Lane(k, u, p) /\ (\A m \in DOMAIN tasks : m < i => tasks[m] \notin Lane(k, u, p))
          /\ (<<k, u, p>> \in n <=> tasks[i].kind = "add") =>
        (Wills(q, Lane(k, u, p), <<k, u, p>>, n) <=> Wills(tasks, Lane(k, u, p), <<k, u, p>>, j))
  BY <1>4
<1> QED
  BY <1>1, <1>3, <1>6, <1>7

LEMMA TaskMoved ==
  ASSUME tasks \in Seq(TaskType), NEW i \in DOMAIN tasks, tasks' = Append(CutAt(tasks, i), tasks[i])
  PROVE  /\ tasks' \in Seq(TaskType) /\ \A t : t \in Held(tasks') <=> t \in Held(tasks)
         /\ \A k, u, p, j : tasks[i] \in Lane(k, u, p) =>
              (Wills(tasks', Lane(k, u, p), <<k, u, p>>, j) <=> tasks[i].kind = "add")
         /\ \A k, u, p, j : tasks[i] \notin Lane(k, u, p) =>
              (Wills(tasks', Lane(k, u, p), <<k, u, p>>, j) <=> Wills(tasks, Lane(k, u, p), <<k, u, p>>, j))
<1>1. PICK q, s, o : q = CutAt(tasks, i) /\ s = tasks' /\ o = tasks[i]
  OBVIOUS
<1>2. q \in Seq(TaskType) /\ Held(q) \subseteq Held(tasks) /\ Held(tasks) \subseteq Held(q) \cup {tasks[i]}
  BY <1>1, HeldCut
<1>a. q \in Seq(TaskType)
  BY <1>2
<1>3. s = Append(q, o) /\ o \in TaskType
  BY <1>1
<1>b. o \in Held(tasks)
  BY <1>1 DEF Held
<1>4. s \in Seq(TaskType) /\ Held(s) \subseteq Held(q) \cup {o} /\ Held(q) \subseteq Held(s) /\ o \in Held(s)
  BY <1>a, <1>3, HeldAppended
<1>5. ASSUME NEW k, NEW u, NEW p, NEW j
      PROVE  /\ o \in Lane(k, u, p) => (Wills(s, Lane(k, u, p), <<k, u, p>>, j) <=> o.kind = "add")
             /\ o \notin Lane(k, u, p) =>
                  (Wills(s, Lane(k, u, p), <<k, u, p>>, j) <=> Wills(tasks, Lane(k, u, p), <<k, u, p>>, j))
  <2>1. PICK L, r : L = Lane(k, u, p) /\ r = <<k, u, p>>
    OBVIOUS
  <2>2. Wills(s, L, r, j) <=> IF o \in L THEN o.kind = "add" ELSE Wills(q, L, r, j)
    BY <1>2, <1>3, WillsAppended
  <2>3. PICK then : then = IF tasks[i].kind = "add" THEN {r} ELSE {}
    OBVIOUS
  <2>4. r \in then <=> tasks[i].kind = "add"
    BY <2>3
  <2>5. tasks[i] \notin L => (Wills(q, L, r, j) <=> Wills(tasks, L, r, j))
    BY <1>1, <2>4, WillsCut
  <2> QED
    BY <1>1, <2>1, <2>2, <2>5
<1> QED
  BY <1>1, <1>2, <1>b, <1>4, <1>5

LEMMA LaneShared ==
  ASSUME NEW i, NEW m, NEW k, NEW u, NEW p, tasks[i] \in Lane(k, u, p), tasks[m] \in Lane(k, u, p)
  PROVE  Customs!SameLane(i, m)
<1>1. PICK c, d \in {"add", "remove"} : tasks[i] = Customs!Op(c, k, u, p) /\ tasks[m] = Customs!Op(d, k, u, p)
  BY DEF Lane
<1>2. /\ Customs!Op(c, k, u, p).kind = c /\ Customs!Op(d, k, u, p).kind = d
      /\ [Customs!Op(c, k, u, p) EXCEPT !.kind = d] = Customs!Op(d, k, u, p)
  BY DEF Customs!Op
<1>3. Customs!Op(c, k, u, p).kind # "delete"
  BY <1>2
<1> QED
  BY <1>1, <1>2, <1>3 DEF Customs!SameLane

LEMMA LaneOfMember ==
  ASSUME NEW o \in TaskType, o.kind # "delete"
  PROVE  o \in MemberTask /\ o.k \in NumberType /\ o.u \in Members /\ \E p \in Perms : o.ps = {p}
BY DEF TaskType, MemberTask, DeleteTask

LEMMA MemberRun ==
  ASSUME CustomAssumption, CustomInv, NEW i \in DOMAIN tasks, Customs!RunMember(i)
  PROVE  CustomInv'
<1>0. CustomTyped /\ Counted /\ Known /\ Fresh /\ GroupsKept /\ Membered /\ Told
  BY DEF CustomInv
<1>1. PICK o : o = tasks[i]
  OBVIOUS
<1>2. tasks \in Seq(TaskType) /\ o \in TaskType /\ o \in Held(tasks) /\ o.kind # "delete"
  BY <1>0, <1>1 DEF CustomTyped, Held, Customs!RunMember
<1>3. PICK k \in NumberType, u \in Members, p \in Perms : o.k = k /\ o.u = u /\ o.ps = {p}
  BY <1>2, LaneOfMember
<1>4. /\ Customs!First(i)
      /\ within' = IF ~({k} \X {p} \subseteq groups) THEN within
                   ELSE IF o.kind = "add" THEN within \cup {<<k, u, q>> : q \in {p}} ELSE within \ {<<k, u, q>> : q \in {p}}
      /\ tasks' = CutAt(tasks, i)
      /\ UNCHANGED <<primary, suffix, made, channels, groups, perms, posts, born, spent, slips>>
  BY <1>1, <1>3, CustomCuts DEF Customs!RunMember, Customs!Exists, Customs!Member, Customs!rest
<1>5. /\ within' = IF <<k, p>> \notin groups THEN within
                   ELSE IF o.kind = "add" THEN within \cup {<<k, u, p>>} ELSE within \ {<<k, u, p>>}
  <2>1. ({k} \X {p} \subseteq groups) <=> <<k, p>> \in groups
    OBVIOUS
  <2>2. {<<k, u, q>> : q \in {p}} = {<<k, u, p>>}
    OBVIOUS
  <2> QED
    BY <1>4, <2>1, <2>2
<1>6. /\ tasks' \in Seq(TaskType) /\ Held(tasks') \subseteq Held(tasks)
      /\ \A t \in Held(tasks) : t \in Held(tasks') \/ t = tasks[i]
      /\ \A j, v, q, x : tasks[i] \notin Lane(j, v, q) =>
           (Wills(tasks', Lane(j, v, q), <<j, v, q>>, x) <=> Wills(tasks, Lane(j, v, q), <<j, v, q>>, x))
      /\ \A j, v, q, x, n :
           tasks[i] \in Lane(j, v, q) /\ (\A m \in DOMAIN tasks : m < i => tasks[m] \notin Lane(j, v, q))
             /\ (<<j, v, q>> \in n <=> tasks[i].kind = "add") =>
           (Wills(tasks', Lane(j, v, q), <<j, v, q>>, n) <=> Wills(tasks, Lane(j, v, q), <<j, v, q>>, x))
  BY <1>2, <1>4, TaskCut
<1>7. p \in made[k]
  BY <1>0, <1>2, <1>3 DEF Membered
<1>8. within' \subseteq Customs!Row /\ \A r \in within' : r \in within \/ r = <<k, u, p>>
  BY <1>0, <1>5 DEF CustomTyped, Customs!Row, NumberType
<1>9. \A t \in Held(tasks') : Kept(t)
  BY <1>6 DEF Kept
<1>10. \A r \in within' : r \in within \/ \E t \in Held(tasks) : r[1] = t.k
  BY <1>2, <1>3, <1>8
<1>11. GroupsKept'
  <2>1. \A j \in NumberType : Deletes(tasks', j) = Deletes(tasks, j)
    BY <1>1, <1>2, <1>6 DEF Deletes
  <2>2. groups \subseteq NumberType \X Perms /\ channels \subseteq NumberType /\ Openings' = Openings
    BY <1>0, <1>4 DEF CustomTyped, Openings, Opens
  <2> QED
    BY <1>0, <1>4, <2>1, <2>2, GroupsStay
<1>12. Membered'
  BY <1>0, <1>4, <1>6, <1>7, <1>8 DEF Membered
<1>13. ASSUME NEW j \in channels, NEW v \in Members PROVE Awaits(j, v)
  <2> SUFFICES ASSUME NEW q \in Perms
               PROVE  Wills(tasks', Lane(j, v, q), <<j, v, q>>, within') <=> Wills(tasks, Lane(j, v, q), <<j, v, q>>, within)
    BY DEF Awaits
  <2>1. CASE o \in Lane(j, v, q)
    <3>1. j = k /\ v = u /\ q = p
      BY <1>2, <1>3, <2>1, OnLane
    <3>2. <<k, p>> \in groups
      BY <1>0, <1>7, <3>1 DEF GroupsKept
    <3>3. <<j, v, q>> \in within' <=> tasks[i].kind = "add"
      BY <1>1, <1>5, <3>1, <3>2
    <3>4. \A m \in DOMAIN tasks : m < i => tasks[m] \notin Lane(j, v, q)
      <4>1. ASSUME NEW m \in DOMAIN tasks, m < i, tasks[m] \in Lane(j, v, q) PROVE FALSE
        <5>1. Customs!SameLane(i, m)
          BY <1>1, <2>1, <4>1, LaneShared
        <5>2. m \in 1 .. i - 1
          BY <1>2, <4>1
        <5> QED
          BY <1>4, <5>1, <5>2 DEF Customs!First
      <4> QED
        BY <4>1
    <3> QED
      BY <1>1, <1>6, <2>1, <3>3, <3>4
  <2>2. CASE o \notin Lane(j, v, q)
    <3>1. ~(j = k /\ v = u /\ q = p)
      BY <1>2, <1>3, <2>2, OnLane
    <3>2. <<j, v, q>> # <<k, u, p>>
      BY <3>1
    <3>3. <<j, v, q>> \in within' <=> <<j, v, q>> \in within
      BY <1>5, <3>2
    <3>4. Wills(tasks', Lane(j, v, q), <<j, v, q>>, within') <=> Wills(tasks, Lane(j, v, q), <<j, v, q>>, within')
      BY <1>1, <1>6, <2>2
    <3>5. Wills(tasks, Lane(j, v, q), <<j, v, q>>, within') <=> Wills(tasks, Lane(j, v, q), <<j, v, q>>, within)
      BY <3>3 DEF Wills
    <3> QED
      BY <3>4, <3>5
  <2> QED
    BY <2>1, <2>2
<1> QED
  BY <1>0, <1>4, <1>6, <1>8, <1>9, <1>10, <1>11, <1>12, <1>13, WorkDone DEF CustomTyped

LEMMA TaskRetried ==
  ASSUME CustomAssumption, CustomInv, NEW i \in DOMAIN tasks, Customs!Retry(i)
  PROVE  CustomInv'
<1>0. CustomTyped /\ Counted /\ Known /\ Fresh /\ GroupsKept /\ Membered /\ Told
  BY DEF CustomInv
<1>1. tasks \in Seq(TaskType) /\ tasks[i] \in TaskType
  BY <1>0 DEF CustomTyped
<1>2. /\ Customs!Fault /\ tasks' = Append(CutAt(tasks, i), tasks[i])
      /\ slips' = IF \E j \in DOMAIN tasks : j # i /\ Customs!SameLane(i, j)
                  THEN [slips EXCEPT !.crossed = @ \cup {<<tasks[i].k, tasks[i].u>>}] ELSE slips
      /\ UNCHANGED <<primary, suffix, made, channels, groups, perms, within, posts, born>>
  BY CustomCuts DEF Customs!Retry, Customs!rest
<1>3. /\ tasks' \in Seq(TaskType) /\ \A t : t \in Held(tasks') <=> t \in Held(tasks)
      /\ \A k, u, p, j : tasks[i] \in Lane(k, u, p) =>
           (Wills(tasks', Lane(k, u, p), <<k, u, p>>, j) <=> tasks[i].kind = "add")
      /\ \A k, u, p, j : tasks[i] \notin Lane(k, u, p) =>
           (Wills(tasks', Lane(k, u, p), <<k, u, p>>, j) <=> Wills(tasks, Lane(k, u, p), <<k, u, p>>, j))
  BY <1>1, <1>2, TaskMoved
<1>4. spent' \in SpentType /\ spent'.creations = spent.creations
  BY <1>0, <1>2, FaultCounted DEF CustomTyped
<1>5. slips' \in SlipType /\ slips'.kept = slips.kept /\ slips'.left = slips.left /\ slips.crossed \subseteq slips'.crossed
  <2>1. slips \in SlipType
    BY <1>0 DEF CustomTyped
  <2>2. CASE \E j \in DOMAIN tasks : j # i /\ Customs!SameLane(i, j)
    <3>1. tasks[i].k \in NumberType /\ tasks[i].u \in Members
      BY <1>1, <2>2, LaneOfMember DEF Customs!SameLane
    <3> QED
      BY <1>2, <2>1, <2>2, <3>1 DEF SlipType
  <2>3. CASE ~ \E j \in DOMAIN tasks : j # i /\ Customs!SameLane(i, j)
    BY <1>2, <2>1, <2>3
  <2> QED
    BY <2>2, <2>3
<1>6. \A t \in Held(tasks') : Kept(t)
  BY <1>3 DEF Kept
<1>7. GroupsKept'
  <2>1. \A j \in NumberType : Deletes(tasks', j) = Deletes(tasks, j)
    BY <1>3 DEF Deletes
  <2>2. groups \subseteq NumberType \X Perms /\ channels \subseteq NumberType /\ Openings' = Openings
    BY <1>0, <1>2 DEF CustomTyped, Openings, Opens
  <2> QED
    BY <1>0, <1>2, <1>5, <2>1, <2>2, GroupsStay
<1>8. Membered'
  BY <1>0, <1>2, <1>3, <1>5 DEF Membered
<1>9. ASSUME NEW j \in channels, NEW v \in Members, <<j, v>> \notin slips'.crossed PROVE Awaits(j, v)
  <2> SUFFICES ASSUME NEW q \in Perms
               PROVE  Wills(tasks', Lane(j, v, q), <<j, v, q>>, within) <=> Wills(tasks, Lane(j, v, q), <<j, v, q>>, within)
    BY <1>2 DEF Awaits
  <2>1. CASE tasks[i] \in Lane(j, v, q)
    <3>1. tasks[i].k = j /\ tasks[i].u = v
      BY <1>1, <2>1, OnLane
    <3>2. ~ \E m \in DOMAIN tasks : m # i /\ Customs!SameLane(i, m)
      <4>1. slips \in SlipType
        BY <1>0 DEF CustomTyped
      <4> QED
        BY <1>2, <1>9, <3>1, <4>1 DEF SlipType
    <3>3. \A m \in DOMAIN tasks \ {i} : tasks[m] \notin Lane(j, v, q)
      BY <2>1, <3>2, LaneShared
    <3>4. PICK L, r : L = Lane(j, v, q) /\ r = <<j, v, q>>
      OBVIOUS
    <3>5. Wills(tasks, L, r, within) <=> tasks[i].kind = "add"
      BY <1>1, <2>1, <3>3, <3>4, WillsOfOne
    <3> QED
      BY <1>3, <2>1, <3>4, <3>5
  <2>2. CASE tasks[i] \notin Lane(j, v, q)
    BY <1>3, <2>2
  <2> QED
    BY <2>1, <2>2
<1> QED
  <2>1. within' \subseteq Customs!Row /\ \A r \in within' : r \in within \/ \E t \in Held(tasks) : r[1] = t.k
    BY <1>0, <1>2 DEF CustomTyped
  <2> QED
    BY <1>2, <1>3, <1>4, <1>5, <1>6, <1>7, <1>8, <1>9, <2>1, WorkDone

LEMMA TaskGivenUp ==
  ASSUME CustomAssumption, CustomInv, NEW i \in DOMAIN tasks, Customs!GiveUp(i)
  PROVE  CustomInv'
<1>0. CustomTyped /\ Counted /\ Known /\ Fresh /\ GroupsKept /\ Membered /\ Told
  BY DEF CustomInv
<1>1. PICK o : o = tasks[i]
  OBVIOUS
<1>2. tasks \in Seq(TaskType) /\ o \in TaskType /\ o \in Held(tasks)
  BY <1>0, <1>1 DEF CustomTyped, Held
<1>3. /\ Customs!Fault /\ tasks' = CutAt(tasks, i)
      /\ slips' = IF o.kind = "delete" THEN [slips EXCEPT !.left = @ \cup {o.k}]
                  ELSE [slips EXCEPT !.crossed = @ \cup {<<o.k, o.u>>}]
      /\ UNCHANGED <<primary, suffix, made, channels, groups, perms, within, posts, born>>
  BY <1>1, CustomCuts DEF Customs!GiveUp, Customs!rest
<1>4. /\ tasks' \in Seq(TaskType) /\ Held(tasks') \subseteq Held(tasks)
      /\ \A t \in Held(tasks) : t \in Held(tasks') \/ t = tasks[i]
      /\ \A j, v, q, x : tasks[i] \notin Lane(j, v, q) =>
           (Wills(tasks', Lane(j, v, q), <<j, v, q>>, x) <=> Wills(tasks, Lane(j, v, q), <<j, v, q>>, x))
  BY <1>2, <1>3, TaskCut
<1>5. spent' \in SpentType /\ spent'.creations = spent.creations
  BY <1>0, <1>3, FaultCounted DEF CustomTyped
<1>6. /\ slips' \in SlipType /\ slips'.kept = slips.kept
      /\ slips.left \subseteq slips'.left /\ slips.crossed \subseteq slips'.crossed
      /\ IF o.kind = "delete" THEN o.k \in slips'.left ELSE <<o.k, o.u>> \in slips'.crossed
  <2>1. slips \in SlipType
    BY <1>0 DEF CustomTyped
  <2>2. CASE o.kind = "delete"
    <3>1. o.k \in NumberType
      BY <1>2 DEF TaskType, MemberTask, DeleteTask
    <3> QED
      BY <1>3, <2>1, <2>2, <3>1 DEF SlipType
  <2>3. CASE o.kind # "delete"
    <3>1. o.k \in NumberType /\ o.u \in Members
      BY <1>2, <2>3, LaneOfMember
    <3> QED
      BY <1>3, <2>1, <2>3, <3>1 DEF SlipType
  <2> QED
    BY <2>2, <2>3
<1>7. \A t \in Held(tasks') : Kept(t)
  BY <1>4 DEF Kept
<1>8. GroupsKept'
  <2>1. Openings' = Openings
    BY <1>3 DEF Openings, Opens
  <2>2. \A j : Deletes(tasks', j) \subseteq Deletes(tasks, j)
    BY <1>4 DEF Deletes
  <2>3. \A j : \A d \in Deletes(tasks, j) : d \in Deletes(tasks', j) \/ j \in slips'.left
    BY <1>1, <1>4, <1>6 DEF Deletes
  <2>4. \A k \in channels : Deletes(tasks', k) = {}
    BY <1>0, <2>2 DEF GroupsKept
  <2>5. \A g \in groups : g[1] \in channels \cup slips'.left \cup Openings \/ \E d \in Deletes(tasks', g[1]) : g[2] \in d.ps
    BY <1>0, <1>6, <2>3 DEF GroupsKept
  <2>6. /\ \A k \in channels \cup Openings : {k} \X made[k] \subseteq groups
        /\ \A g \in groups : g[1] \in slips'.left \/ g[2] \in made[g[1]]
    BY <1>0, <1>6 DEF GroupsKept
  <2> QED
    BY <1>3, <2>1, <2>4, <2>5, <2>6 DEF GroupsKept
<1>9. Membered'
  BY <1>0, <1>3, <1>4, <1>6 DEF Membered
<1>10. ASSUME NEW j \in channels, NEW v \in Members, <<j, v>> \notin slips'.crossed PROVE Awaits(j, v)
  <2> SUFFICES ASSUME NEW q \in Perms
               PROVE  Wills(tasks', Lane(j, v, q), <<j, v, q>>, within) <=> Wills(tasks, Lane(j, v, q), <<j, v, q>>, within)
    BY <1>3 DEF Awaits
  <2>1. o \notin Lane(j, v, q)
    BY <1>2, <1>6, <1>10, OnLane
  <2> QED
    BY <1>1, <1>4, <2>1
<1> QED
  <2>1. within' \subseteq Customs!Row /\ \A r \in within' : r \in within \/ \E t \in Held(tasks) : r[1] = t.k
    BY <1>0, <1>3 DEF CustomTyped
  <2> QED
    BY <1>3, <1>4, <1>5, <1>6, <1>7, <1>8, <1>9, <1>10, <2>1, WorkDone

LEMMA GroupsRemoved ==
  ASSUME CustomAssumption, CustomInv, NEW i \in DOMAIN tasks, Customs!RemoveGroups(i)
  PROVE  CustomInv'
<1>0. CustomTyped /\ Counted /\ Known /\ Fresh /\ GroupsKept /\ Membered /\ Told
  BY DEF CustomInv
<1>1. PICK o, k : o = tasks[i] /\ k = tasks[i].k
  OBVIOUS
<1>2. /\ tasks \in Seq(TaskType) /\ o \in TaskType /\ o \in Held(tasks) /\ o.kind = "delete"
      /\ o.k = k /\ o \in Deletes(tasks, k)
  BY <1>0, <1>1 DEF CustomTyped, Held, Deletes, Customs!RemoveGroups
<1>3. o \in DeleteTask /\ k \in NumberType
  BY <1>2 DEF TaskType, MemberTask, DeleteTask
<1>4. UNCHANGED <<primary, suffix, made, channels, perms, posts, born, spent, slips>>
  BY DEF Customs!RemoveGroups, Customs!rest
<1>5. k \notin channels /\ k \notin Openings
  <2>1. InUse(k)
    BY <1>2 DEF InUse
  <2> QED
    BY <1>0, <1>2, <2>1 DEF GroupsKept, Fresh, Openings
<1>6. Openings' = Openings
  BY <1>4 DEF Openings, Opens
<1>7. \A j, v, q : o \notin Lane(j, v, q)
  BY <1>2, OnLane
<1>8. CASE o.ps = {}
  <2>1. tasks' = CutAt(tasks, i) /\ UNCHANGED <<groups, within>>
    BY <1>1, <1>8, CustomCuts DEF Customs!RemoveGroups
  <2>2. /\ tasks' \in Seq(TaskType) /\ Held(tasks') \subseteq Held(tasks)
        /\ \A t \in Held(tasks) : t \in Held(tasks') \/ t = tasks[i]
        /\ \A j, v, q, x : tasks[i] \notin Lane(j, v, q) =>
             (Wills(tasks', Lane(j, v, q), <<j, v, q>>, x) <=> Wills(tasks, Lane(j, v, q), <<j, v, q>>, x))
    BY <1>2, <2>1, TaskCut
  <2>3. GroupsKept'
    <3>1. \A j : Deletes(tasks', j) \subseteq Deletes(tasks, j)
      BY <2>2 DEF Deletes
    <3>2. \A j : \A d \in Deletes(tasks, j) : d \in Deletes(tasks', j) \/ d.ps = {}
      BY <1>1, <1>8, <2>2 DEF Deletes
    <3>3. \A j \in channels : Deletes(tasks', j) = {}
      BY <1>0, <3>1 DEF GroupsKept
    <3>4. \A g \in groups : g[1] \in channels \cup slips.left \cup Openings \/ \E d \in Deletes(tasks', g[1]) : g[2] \in d.ps
      BY <1>0, <3>2 DEF GroupsKept
    <3> QED
      BY <1>0, <1>4, <1>6, <2>1, <3>3, <3>4 DEF GroupsKept
  <2>4. Membered'
    BY <1>0, <1>4, <2>1, <2>2 DEF Membered
  <2>5. \A t \in Held(tasks') : Kept(t)
    BY <2>2 DEF Kept
  <2>6. \A j, v : Awaits(j, v)
    BY <1>1, <1>7, <2>1, <2>2 DEF Awaits
  <2>7. /\ within' \subseteq Customs!Row /\ \A r \in within' : r \in within \/ \E t \in Held(tasks) : r[1] = t.k
        /\ spent' \in SpentType /\ slips' \in SlipType
    BY <1>0, <1>4, <2>1 DEF CustomTyped
  <2> QED
    BY <1>4, <2>1, <2>2, <2>3, <2>4, <2>5, <2>6, <2>7, WorkDone
<1>9. CASE o.ps # {}
  <2>1. PICK p \in o.ps :
          /\ groups' = groups \ {<<k, p>>} /\ within' = {r \in within : ~(r[1] = k /\ r[3] = p)}
          /\ tasks' = [tasks EXCEPT ![i].ps = @ \ {p}]
    BY <1>1, <1>9 DEF Customs!RemoveGroups
  <2>2. PICK d : d = [o EXCEPT !.ps = @ \ {p}]
    OBVIOUS
  <2>3. d \in TaskType /\ d.kind = "delete" /\ d.k = k /\ d.ps = o.ps \ {p}
    BY <1>2, <1>3, <2>2 DEF DeleteTask, TaskType
  <2>4. tasks' = [tasks EXCEPT ![i] = d]
    BY <1>1, <1>2, <2>1, <2>2
  <2>5. /\ tasks' \in Seq(TaskType) /\ Held(tasks') \subseteq Held(tasks) \cup {d}
        /\ Held(tasks) \subseteq Held(tasks') \cup {o} /\ d \in Held(tasks')
    <3>1. PICK s : s = tasks'
      OBVIOUS
    <3>2. s = [tasks EXCEPT ![i] = d]
      BY <2>4, <3>1
    <3>3. /\ s \in Seq(TaskType) /\ Held(s) \subseteq Held(tasks) \cup {d}
          /\ Held(tasks) \subseteq Held(s) \cup {tasks[i]} /\ d \in Held(s)
      <4>1. tasks \in Seq(TaskType) /\ d \in TaskType
        BY <1>2, <2>3
      <4> QED
        BY <3>2, <4>1, HeldReplaced, ZenonT(60)
    <3> QED
      BY <1>1, <3>1, <3>3
  <2>6. GroupsKept'
    <3>1. \A j \in channels : Deletes(tasks', j) = {}
      BY <1>0, <1>5, <2>3, <2>5 DEF GroupsKept, Deletes
    <3>2. \A j \in channels \cup Openings : {j} \X made[j] \subseteq groups'
      BY <1>0, <1>5, <2>1 DEF GroupsKept
    <3>3. ASSUME NEW g \in groups'
          PROVE  g[1] \in channels \cup slips.left \cup Openings \/ \E e \in Deletes(tasks', g[1]) : g[2] \in e.ps
      <4>1. g \in groups /\ groups \subseteq NumberType \X Perms /\ g # <<k, p>>
        BY <1>0, <2>1 DEF CustomTyped
      <4>2. CASE \E e \in Deletes(tasks, g[1]) : g[2] \in e.ps
        <5>1. PICK e \in Deletes(tasks, g[1]) : g[2] \in e.ps
          BY <4>2
        <5>2. CASE e = o
          <6>1. g[1] = k /\ g[2] # p
            BY <1>2, <4>1, <5>1, <5>2 DEF Deletes
          <6>2. d \in Deletes(tasks', g[1]) /\ g[2] \in d.ps
            BY <2>3, <2>5, <5>1, <5>2, <6>1 DEF Deletes
          <6> QED
            BY <6>2
        <5>3. CASE e # o
          BY <2>5, <5>1, <5>3 DEF Deletes
        <5> QED
          BY <5>2, <5>3
      <4>3. CASE ~ \E e \in Deletes(tasks, g[1]) : g[2] \in e.ps
        BY <1>0, <4>1, <4>3 DEF GroupsKept
      <4> QED
        BY <4>2, <4>3
    <3>4. \A g \in groups' : g[1] \in slips.left \/ g[2] \in made[g[1]]
      BY <1>0, <2>1 DEF GroupsKept
    <3> QED
      BY <1>4, <1>6, <3>1, <3>2, <3>3, <3>4 DEF GroupsKept
  <2>7. Membered'
    BY <1>0, <1>4, <2>1, <2>3, <2>5 DEF Membered
  <2>8. \A t \in Held(tasks') : Kept(t)
    BY <1>2, <2>3, <2>5 DEF Kept
  <2>9. ASSUME NEW j \in channels, NEW v \in Members PROVE Awaits(j, v)
    <3> SUFFICES ASSUME NEW q \in Perms
                 PROVE  Wills(tasks', Lane(j, v, q), <<j, v, q>>, within') <=> Wills(tasks, Lane(j, v, q), <<j, v, q>>, within)
      BY DEF Awaits
    <3>1. PICK s, L, r : s = tasks' /\ L = Lane(j, v, q) /\ r = <<j, v, q>>
      OBVIOUS
    <3>2. s = [tasks EXCEPT ![i] = d] /\ tasks[i] \notin L /\ d \notin L
      BY <1>1, <1>7, <2>3, <2>4, <3>1, OnLane
    <3>3. Wills(s, L, r, within) <=> Wills(tasks, L, r, within)
      BY <1>2, <2>3, <3>2, WillsReplaced
    <3>4. <<j, v, q>> \in within' <=> <<j, v, q>> \in within
      BY <1>5, <2>1
    <3>5. Wills(tasks', Lane(j, v, q), <<j, v, q>>, within') <=> Wills(tasks', Lane(j, v, q), <<j, v, q>>, within)
      BY <3>4 DEF Wills
    <3> QED
      BY <3>1, <3>3, <3>5
  <2>10. /\ within' \subseteq Customs!Row /\ \A r \in within' : r \in within \/ \E t \in Held(tasks) : r[1] = t.k
         /\ groups' \subseteq groups /\ spent' \in SpentType /\ slips' \in SlipType
    BY <1>0, <1>4, <2>1 DEF CustomTyped
  <2> QED
    BY <1>4, <2>5, <2>6, <2>7, <2>8, <2>9, <2>10, WorkDone
<1> QED
  BY <1>8, <1>9

LEMMA CustomStep == ASSUME CustomAssumption PROVE CustomInv /\ [Customs!Next]_(Customs!vars) => CustomInv'
<1> SUFFICES ASSUME CustomInv, [Customs!Next]_(Customs!vars) PROVE CustomInv'
  OBVIOUS
<1>1. ASSUME NEW s \in Sessions, NEW n \in Labels, Customs!PrepareCustomChannel(s, n) PROVE CustomInv'
  BY <1>1, CreationPrepared
<1>2. ASSUME NEW s \in Sessions, Customs!BeginInsert(s) PROVE CustomInv'
  BY <1>2, InsertBegun
<1>3. ASSUME NEW s \in Sessions, Customs!CommitInsert(s) PROVE CustomInv'
  BY <1>3, ChannelInserted
<1>4. ASSUME NEW s \in Sessions, NEW k \in NumberType, NEW u \in Members, Customs!RemoveMember(s, k, u) PROVE CustomInv'
  BY <1>4, MemberRemoved
<1>5. ASSUME NEW s \in Sessions, NEW k \in NumberType, NEW u \in Members, NEW p \in Perms, Customs!AddMember(s, k, u, p)
      PROVE  CustomInv'
  BY <1>5, MemberAdded
<1>6. ASSUME NEW s \in Sessions, Customs!PublishMember(s) PROVE CustomInv'
  BY <1>6, MemberPublished
<1>7. ASSUME NEW u \in Members, NEW transfer \in BOOLEAN, Customs!Depart(u, transfer) PROVE CustomInv'
  BY <1>7, UserDeparted
<1>8. ASSUME NEW k \in NumberType, Customs!DeleteCustomChannel(k) PROVE CustomInv'
  BY <1>8, ChannelDeleted
<1>9. ASSUME NEW i \in DOMAIN tasks, Customs!RunMember(i) \/ Customs!RemoveGroups(i) \/ Customs!Retry(i) \/ Customs!GiveUp(i)
      PROVE  CustomInv'
  <2>1. CASE Customs!RunMember(i)
    BY <2>1, MemberRun
  <2>2. CASE Customs!RemoveGroups(i)
    BY <2>2, GroupsRemoved
  <2>3. CASE Customs!Retry(i)
    BY <2>3, TaskRetried
  <2>4. CASE Customs!GiveUp(i)
    BY <2>4, TaskGivenUp
  <2> QED
    BY <1>9, <2>1, <2>2, <2>3, <2>4
<1>10. CASE UNCHANGED Customs!vars
  <2>1. UNCHANGED <<primary, suffix, made, channels, groups, perms, within, posts, tasks, born, spent, slips>>
    BY <1>10 DEF Customs!vars
  <2>2. CustomTyped' /\ Counted'
    BY <2>1 DEF CustomInv, CustomTyped, Counted, Customs!Count, Openings, Opens
  <2>3. Known' /\ Fresh' /\ GroupsKept' /\ Membered'
    BY <2>1 DEF CustomInv, Known, Fresh, InUse, Due, Opens, GroupsKept, Openings, Deletes, Membered
  <2>4. Told'
    BY <2>1 DEF CustomInv, Told, Due
  <2> QED
    BY <2>2, <2>3, <2>4 DEF CustomInv
<1>11. CASE Customs!Next
  BY <1>1, <1>2, <1>3, <1>4, <1>5, <1>6, <1>7, <1>8, <1>9, <1>11 DEF Customs!Next, NumberType
<1> QED
  BY <1>10, <1>11
=============================================================================
