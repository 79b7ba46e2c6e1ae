------------------------ MODULE DeviceInventoryProofs ------------------------
(* Proofs about DeviceInventory, for any devices, certificates, runs and   *)
(* revocations and any bounds.                                             *)
EXTENDS DeviceInventory, FiniteSetTheorems, WellFoundedInduction, TLAPS

-----------------------------------------------------------------------------
(* The newest certificate of a device.                                     *)

LEMMA LeastNatural ==
  ASSUME NEW T \in SUBSET Nat, T # {}
  PROVE  \E n \in T : \A m \in T : n <= m
<1>1. PICK x \in T : \A y \in T : ~(<<y, x>> \in OpToRel(<, Nat))
  BY NatLessThanWellFounded, WFMin
<1>2. \A y \in T : ~(y < x)
  BY <1>1 DEF OpToRel
<1> QED
  BY <1>2

\* The one with the fewest members above it is the greatest.
LEMMA GreatestMember ==
  ASSUME NEW S \in SUBSET Int, IsFiniteSet(S), S # {}
  PROVE  \E x \in S : \A y \in S : y <= x
<1> DEFINE above(x) == {y \in S : y > x}
           T == {Cardinality(above(x)) : x \in S}
<1>1. ASSUME NEW x \in S PROVE IsFiniteSet(above(x)) /\ Cardinality(above(x)) \in Nat
  <2>1. above(x) \in SUBSET S
    OBVIOUS
  <2> QED
    BY <2>1, FS_Subset, FS_CardinalityType
<1>2. PICK n \in T : \A m \in T : n <= m
  <2>1. T \in SUBSET Nat /\ T # {}
    BY <1>1
  <2> HIDE DEF T
  <2> QED
    BY <2>1, LeastNatural
<1>3. PICK x \in S : n = Cardinality(above(x))
  OBVIOUS
<1>4. ASSUME NEW y \in S, y > x PROVE FALSE
  <2>1. above(y) \in SUBSET above(x) /\ y \in above(x) /\ y \notin above(y)
    <3>1. x \in Int /\ y \in Int /\ \A z \in S : z \in Int
      OBVIOUS
    <3>2. \A z \in S : z > y => z > x
      BY <1>4, <3>1
    <3>3. ~(y > y)
      BY <3>1
    <3>4. above(y) \in SUBSET above(x)
      BY <3>2
    <3>5. y \in above(x) /\ y \notin above(y)
      BY <1>4, <3>3
    <3> QED
      BY <3>4, <3>5
  <2>2. Cardinality(above(y)) <= Cardinality(above(x))
        /\ Cardinality(above(y)) # Cardinality(above(x))
    <3> HIDE DEF above
    <3> QED
      BY <1>1, <2>1, FS_Subset
  <2>3. Cardinality(above(x)) <= Cardinality(above(y))
    BY <1>2, <1>3
  <2>4. Cardinality(above(x)) \in Nat /\ Cardinality(above(y)) \in Nat
    BY <1>1
  <2> HIDE DEF above
  <2> QED
    BY <2>2, <2>3, <2>4
<1> QED
  BY <1>4

LEMMA NewestType ==
  ASSUME NEW cs \in SUBSET Certs, NEW u \in Carriers(cs)
  PROVE  Newest(cs, u) \in cs /\ Carrier[Newest(cs, u)] = u
<1> DEFINE S == cs \cap CarriedBy({u})
<1>1. S \in SUBSET Certs /\ S # {} /\ S \in SUBSET Int
  BY DeviceInventoryAssumption DEF Carriers, CarriedBy
<1>2. IsFiniteSet(S)
  BY <1>1, FS_Subset, DeviceInventoryAssumption
<1>3. \E c \in S : \A d \in S : d <= c
  <2> HIDE DEF S
  <2> QED
    BY <1>1, <1>2, GreatestMember
<1>4. Newest(cs, u) \in S
  BY <1>3 DEF Newest
<1> QED
  BY <1>4 DEF CarriedBy

-----------------------------------------------------------------------------
(* The invariant: what a row, a run of the sync and a revocation know of   *)
(* the certificates they were told of.                                     *)

\* What TypeOK says of a row; it names an issued certificate of its device.
RowSound(u) ==
  /\ row[u].cert = 0 => row[u] = NoRow
  /\ HasRow(u) => Carrier[row[u].cert] = u /\ row[u].cert \in Issued
  /\ row[u].revoked => ~row[u].connected

\* Whatever was valid when the run began and still is, is in the view of the
\* valid ones.
ViewKnows(w) ==
  /\ sync[w].active \subseteq Issued
  /\ sync[w].before \subseteq Issued
  /\ sync[w].revoked \subseteq Issued \ Live
  /\ ~sync[w].on => sync[w].got = {}
  /\ "active" \in sync[w].got => sync[w].before \cap Live \subseteq sync[w].active

Scope(i) ==
  CASE op[i].shape = "user" -> OwnedBy(op[i].of)
    [] op[i].shape = "device" -> CarriedBy(op[i].of)
    [] OTHER -> op[i].of

\* Whatever a revocation is about is among its targets from when they are
\* resolved, unless it was revoked already.
OpKnows(i) ==
  /\ op[i].issued \subseteq Issued \cap Scope(i)
  /\ op[i].targets \subseteq Issued
  /\ op[i].shape \notin {"user", "device"} => op[i].of \subseteq Issued
  /\ op[i].stage \in {"listed", "asked", "verified"} => op[i].issued \cap Live \subseteq op[i].targets
  /\ op[i].stage = "verified" => op[i].targets \cap Live = {}
  /\ op[i].stage = "done" => op[i].issued \cap Live = {}

\* TypeOK without the rows.
PartsTyped ==
  /\ cert \in [Certs -> {"none", "live", "revoked"}]
  /\ link \in [Reports -> {"absent", "off", "on"}]
  /\ sync \in [Syncers -> SyncType]
  /\ poll \in [Pollers -> PollType]
  /\ lock \in [Jobs -> SUBSET (Syncers \cup Pollers)]
  /\ op \in [Ops -> OpType]
  /\ events \in 0..MaxEvents
  /\ faults \in 0..MaxFaults

RowsSound == row \in [Uids -> RowType] /\ \A u \in Uids : RowSound(u)

DeviceInv ==
  /\ PartsTyped
  /\ RowsSound
  /\ \A w \in Syncers : ViewKnows(w)
  /\ \A i \in Ops : OpKnows(i)

LEMMA InvHolds == DeviceInv => RevocationsHold
<1> SUFFICES ASSUME DeviceInv PROVE RevocationsHold
  OBVIOUS
<1>2. TypeOK
  BY DEF DeviceInv, PartsTyped, RowsSound, RowSound, TypeOK
<1>3. RevokedNeverConnected /\ DoneMeansRevoked
  BY DEF DeviceInv, RowsSound, RowSound, OpKnows, RevokedNeverConnected, DoneMeansRevoked
<1> QED
  BY <1>2, <1>3 DEF RevocationsHold

\* Certificates are issued and revoked for good.
LEMMA CertsAge ==
  ASSUME PartsTyped, \A i \in Ops : op[i].targets \subseteq Issued, [Next]_vars
  PROVE  \A c \in Issued : c \in Issued' /\ (c \in Live' => c \in Live)
<1>1. CASE cert' = cert
  BY <1>1 DEF Issued, Live
<1>2. ASSUME NEW cs \in SUBSET Issued,
             cert' = [c \in Certs |-> IF c \in cs THEN "revoked" ELSE cert[c]]
      PROVE  \A c \in Issued : c \in Issued' /\ (c \in Live' => c \in Live)
  BY <1>2 DEF Issued, Live
<1>3. CASE ServerNext
  BY <1>1, <1>3 DEF ServerNext, Enrol, OperatorRevokes, Connects, PartsTyped, Issued, Live
<1>4. ASSUME NEW i \in Ops, Delete(i) PROVE \A c \in Issued : c \in Issued' /\ (c \in Live' => c \in Live)
  BY <1>2, <1>4 DEF Delete
<1>5. ASSUME NEW i \in Ops, DeletePartly(i)
      PROVE  \A c \in Issued : c \in Issued' /\ (c \in Live' => c \in Live)
  <2>1. PICK part \in SUBSET op[i].targets :
          cert' = [c \in Certs |-> IF c \in part THEN "revoked" ELSE cert[c]]
    BY <1>5 DEF DeletePartly
  <2>2. part \in SUBSET Issued
    BY <2>1
  <2> QED
    BY <1>2, <2>1, <2>2
<1>6. CASE RequestNext
  BY <1>1, <1>6 DEF RequestNext, RevokeUser, RevokeDevice, Supersede, Publish, server
<1>7. CASE \E w \in Syncers : Sync(w)
  BY <1>1, <1>7 DEF Sync, StartSync, ReadActive, ReadRevoked, DeleteStale, Upsert, EndSync, server
<1>8. CASE \E w \in Pollers : Poll(w)
  BY <1>1, <1>8 DEF Poll, StartPoll, Merge, ClearUnreported, Record, EndPoll, server
<1>9. CASE \E i \in Ops : Revocation(i)
  BY <1>1, <1>4, <1>9 DEF Revocation, Resolve, Verify, Mark, server
<1>10. CASE FaultNext
  BY <1>1, <1>5, <1>10 DEF FaultNext, LosesSession, SyncFails, DeleteFails, SyncDies, EndSync, UpsertFails,
     MergeSkipped, ClearFails, PollDies, EndPoll, RecordFails, VerifyFails, MarkFails, Strand, server
<1>11. CASE UNCHANGED vars
  BY <1>1, <1>11 DEF vars, server
<1> QED
  BY <1>3, <1>6, <1>7, <1>8, <1>9, <1>10, <1>11 DEF Next

-----------------------------------------------------------------------------
(* Types.                                                                  *)

\* A run of the sync, or an operation, keeps its type whatever is stored in it.
LEMMA SyncFields ==
  ASSUME NEW r \in SyncType, NEW got \in SUBSET {"active", "revoked"}, NEW active \in SUBSET Certs,
         NEW revoked \in SUBSET Certs, NEW done \in SUBSET Uids, NEW before \in SUBSET Certs
  PROVE  /\ [r EXCEPT !.on = TRUE, !.before = before] \in SyncType
         /\ [r EXCEPT !.got = got, !.active = active, !.revoked = revoked] \in SyncType
         /\ [r EXCEPT !.done = done] \in SyncType
BY DEF SyncType

LEMMA OpFields ==
  ASSUME NEW r \in OpType, NEW targets \in SUBSET Certs,
         NEW stage \in {"pending", "listed", "asked", "verified", "done", "dry run", "refused",
                        "stranded"}
  PROVE  /\ [r EXCEPT !.stage = stage] \in OpType
         /\ [r EXCEPT !.stage = stage, !.targets = targets] \in OpType
         /\ [r EXCEPT !.targets = targets, !.stage = stage] \in OpType
BY DEF OpType

LEMMA PartsStep ==
  ASSUME PartsTyped, RowsSound, \A i \in Ops : OpKnows(i), [Next]_vars
  PROVE  PartsTyped'
<1> USE DeviceInventoryAssumption
<1>f. ASSUME SpendFault PROVE faults' \in 0..MaxFaults
  BY <1>f DEF SpendFault, PartsTyped
<1>r. ASSUME NEW j \in Jobs, NEW w, Releases(j, w)
      PROVE  lock' \in [Jobs -> SUBSET (Syncers \cup Pollers)]
  BY <1>r DEF Releases, PartsTyped
<1>s. ASSUME NEW w \in Syncers, EndSync(w)
      PROVE  sync' \in [Syncers -> SyncType] /\ lock' \in [Jobs -> SUBSET (Syncers \cup Pollers)]
             /\ UNCHANGED <<cert, link, poll, op, events>>
  <2>1. NoSync \in SyncType
    BY DEF NoSync, SyncType
  <2>2. "sync" \in Jobs
    BY DEF Jobs
  <2> QED
    BY <1>s, <1>r, <2>1, <2>2 DEF EndSync, PartsTyped, server
<1>p. ASSUME NEW w \in Pollers, EndPoll(w)
      PROVE  poll' \in [Pollers -> PollType] /\ lock' \in [Jobs -> SUBSET (Syncers \cup Pollers)]
             /\ UNCHANGED <<cert, link, sync, op, events>>
  <2>1. NoPoll \in PollType
    BY DEF NoPoll, PollType
  <2>2. "poll" \in Jobs
    BY DEF Jobs
  <2> QED
    BY <1>p, <1>r, <2>1, <2>2 DEF EndPoll, PartsTyped, server
<1>1. CASE ServerNext
  <2>1. events' \in 0..MaxEvents /\ UNCHANGED <<sync, poll, lock, op, faults>>
    BY <1>1 DEF ServerNext, Enrol, OperatorRevokes, Connects, Event, jobs, PartsTyped
  <2>2. cert' \in [Certs -> {"none", "live", "revoked"}] /\ link' \in [Reports -> {"absent", "off", "on"}]
    BY <1>1 DEF ServerNext, Enrol, OperatorRevokes, Connects, PartsTyped
  <2> QED
    BY <2>1, <2>2 DEF PartsTyped
<1>2. CASE RequestNext
  <2>1. ASSUME NEW i \in Ops, NEW shape \in {"user", "device", "certs"},
               NEW of \in SUBSET (Users \cup Uids \cup Certs), NEW issued \in SUBSET Certs,
               Publish(i, shape, of, issued)
        PROVE  PartsTyped'
    <3>1. [stage |-> "pending", shape |-> shape, of |-> of, issued |-> issued, targets |-> {}] \in OpType
      BY DEF OpType
    <3> QED
      BY <2>1, <3>1 DEF Publish, PartsTyped, server, jobs
  <2>2. ASSUME NEW i \in Ops, NEW user \in Users, RevokeUser(i, user) PROVE PartsTyped'
    <3>1. {user} \in SUBSET (Users \cup Uids \cup Certs) /\ Issued \cap OwnedBy({user}) \in SUBSET Certs
      BY DEF Issued
    <3> QED
      BY <2>1, <2>2, <3>1 DEF RevokeUser
  <2>3. ASSUME NEW i \in Ops, NEW u \in Uids, RevokeDevice(i, u) PROVE PartsTyped'
    <3>1. {u} \in SUBSET (Users \cup Uids \cup Certs) /\ Issued \cap CarriedBy({u}) \in SUBSET Certs
      BY DEF Issued
    <3> QED
      BY <2>1, <2>3, <3>1 DEF RevokeDevice
  <2>4. ASSUME NEW i \in Ops, NEW user \in Users, Supersede(i, user) PROVE PartsTyped'
    <3>1. PICK u \in Uids : HasRow(u) /\ Publish(i, "certs", {row[u].cert}, {row[u].cert})
      BY <2>4 DEF Supersede
    <3>2. row[u].cert \in Certs
      BY <3>1 DEF RowsSound, RowSound, Issued
    <3>3. {row[u].cert} \in SUBSET (Users \cup Uids \cup Certs) /\ {row[u].cert} \in SUBSET Certs
      BY <3>2
    <3> QED
      BY <2>1, <3>1, <3>3
  <2> QED
    BY <1>2, <2>2, <2>3, <2>4 DEF RequestNext
<1>3. ASSUME NEW w \in Syncers, Sync(w) PROVE PartsTyped'
  <2>1. CASE StartSync(w)
    <3>1. Issued \in SUBSET Certs /\ sync[w] \in SyncType
      BY DEF Issued, PartsTyped
    <3>3. sync' = [sync EXCEPT ![w] = [sync[w] EXCEPT !.on = TRUE, !.before = Issued]]
      BY <2>1 DEF StartSync, PartsTyped
    <3>4. sync' \in [Syncers -> SyncType]
      BY <3>1, <3>3, SyncFields DEF PartsTyped
    <3>2. lock' \in [Jobs -> SUBSET (Syncers \cup Pollers)]
      BY <2>1 DEF StartSync, Takes, PartsTyped
    <3> QED
      BY <2>1, <3>2, <3>4 DEF StartSync, PartsTyped, server
  <2>2. CASE ReadActive(w)
    <3> DEFINE got == sync[w].got \cup {"active"}
               active == Issued \ sync[w].revoked
    <3>1. /\ active \in SUBSET Certs /\ {} \in SUBSET Certs /\ sync[w] \in SyncType
          /\ got \in SUBSET {"active", "revoked"}
      BY DEF Issued, PartsTyped, SyncType
    <3>3. sync' = [sync EXCEPT ![w] =
            [sync[w] EXCEPT !.got = got, !.active = active, !.revoked = {}]]
      BY <2>2 DEF ReadActive, PartsTyped
    <3> HIDE DEF got, active
    <3>2. sync' \in [Syncers -> SyncType]
      BY <3>1, <3>3, SyncFields DEF PartsTyped
    <3> QED
      BY <2>2, <3>2 DEF ReadActive, PartsTyped, server
  <2>3. CASE ReadRevoked(w)
    <3> DEFINE got == sync[w].got \cup {"revoked"}
               active == sync[w].active \cap Live
               revoked == IF "active" \in sync[w].got THEN {} ELSE Issued \ Live
    <3>1. /\ active \in SUBSET Certs /\ revoked \in SUBSET Certs /\ sync[w] \in SyncType
          /\ got \in SUBSET {"active", "revoked"}
      BY DEF Issued, PartsTyped, SyncType
    <3>3. sync' = [sync EXCEPT ![w] =
            [sync[w] EXCEPT !.got = got, !.active = active, !.revoked = revoked]]
      BY <2>3 DEF ReadRevoked, PartsTyped
    <3> HIDE DEF got, active, revoked
    <3>2. sync' \in [Syncers -> SyncType]
      BY <3>1, <3>3, SyncFields DEF PartsTyped
    <3> QED
      BY <2>3, <3>2 DEF ReadRevoked, PartsTyped, server
  <2>4. CASE DeleteStale(w)
    BY <1>s, <2>4 DEF DeleteStale, PartsTyped
  <2>5. ASSUME NEW u \in Uids, Upsert(w, u) PROVE PartsTyped'
    <3>2. sync[w] \in SyncType /\ sync[w].done \cup {u} \in SUBSET Uids
      BY DEF PartsTyped, SyncType
    <3>3. sync' = [sync EXCEPT ![w] = [sync[w] EXCEPT !.done = sync[w].done \cup {u}]]
      BY <2>5 DEF Upsert, PartsTyped
    <3>1. sync' \in [Syncers -> SyncType]
      BY ZenonT(40), <3>2, <3>3, SyncFields DEF PartsTyped
    <3> QED
      BY <2>5, <3>1 DEF Upsert, PartsTyped, server
  <2> QED
    BY <1>3, <2>1, <2>2, <2>3, <2>4, <2>5 DEF Sync
<1>4. ASSUME NEW w \in Pollers, Poll(w) PROVE PartsTyped'
  <2>1. CASE StartPoll(w)
    <3>1. [stage |-> "fetched", report |-> link, todo |-> {}] \in PollType
      BY DEF PartsTyped, PollType
    <3>2. lock' \in [Jobs -> SUBSET (Syncers \cup Pollers)]
      BY <2>1 DEF StartPoll, Takes, PartsTyped
    <3> QED
      BY <2>1, <3>1, <3>2 DEF StartPoll, PartsTyped, server
  <2>2. CASE Merge(w)
    <3> DEFINE report == [r \in Reports |->
                 IF r \in Reported(w) /\ link[r] = "on" THEN "on" ELSE poll[w].report[r]]
    <3>1. report \in [Reports -> {"absent", "off", "on"}] /\ Reported(w) \in SUBSET Reports
      BY DEF PartsTyped, PollType, Reported
    <3>2. poll' = [poll EXCEPT ![w] = [poll[w] EXCEPT !.stage = "recording", !.todo = Reported(w),
                                                      !.report = report]]
      BY <2>2 DEF Merge, PartsTyped, PollType
    <3> HIDE DEF report
    <3>3. poll' \in [Pollers -> PollType]
      BY ZenonT(40), <3>1, <3>2 DEF PartsTyped, PollType
    <3> QED
      BY <2>2, <3>3 DEF Merge, PartsTyped, server
  <2>3. CASE ClearUnreported(w)
    BY <1>p, <2>3 DEF ClearUnreported, PartsTyped
  <2>4. ASSUME NEW r \in Reports, Record(w, r) PROVE PartsTyped'
    <3>1. poll[w] \in PollType
      BY DEF PartsTyped
    <3>2. [poll[w] EXCEPT !.todo = @ \ {r}] \in PollType
      BY <3>1 DEF PollType
    <3>3. poll' = [poll EXCEPT ![w] = [poll[w] EXCEPT !.todo = @ \ {r}]]
      BY <2>4 DEF Record, PartsTyped
    <3>4. poll' \in [Pollers -> PollType]
      BY <3>2, <3>3 DEF PartsTyped
    <3> QED
      BY <2>4, <3>4 DEF Record, PartsTyped, server
  <2> QED
    BY <1>4, <2>1, <2>2, <2>3, <2>4 DEF Poll
<1>o. ASSUME NEW i \in Ops, NEW stage \in {"pending", "asked", "verified", "done", "stranded"},
             \/ op' = [op EXCEPT ![i].stage = stage]
             \/ op' = [op EXCEPT ![i].stage = stage, ![i].targets = {}]
      PROVE  op' \in [Ops -> OpType]
  <2>1. op[i] \in OpType /\ {} \in SUBSET Certs
    BY DEF PartsTyped
  <2>2. \/ op' = [op EXCEPT ![i] = [op[i] EXCEPT !.stage = stage]]
        \/ op' = [op EXCEPT ![i] = [op[i] EXCEPT !.stage = stage, !.targets = {}]]
    BY <1>o DEF PartsTyped
  <2>3. /\ [op[i] EXCEPT !.stage = stage] \in OpType
        /\ [op[i] EXCEPT !.stage = stage, !.targets = {}] \in OpType
    BY <2>1, OpFields
  <2> QED
    BY <2>2, <2>3 DEF PartsTyped
<1>5. ASSUME NEW i \in Ops, Revocation(i) PROVE PartsTyped'
  <2>1. CASE Resolve(i)
    <3>1. Targets(i) \in SUBSET Certs
      BY DEF Targets, Issued, Live, OpKnows
    <3>3. PICK stage \in {"refused", "done", "listed", "dry run"} :
            op' = [op EXCEPT ![i] = [op[i] EXCEPT !.targets = Targets(i), !.stage = stage]]
      BY <2>1 DEF Resolve, PartsTyped
    <3>4. op[i] \in OpType
      BY DEF PartsTyped
    <3>2. op' \in [Ops -> OpType]
      BY <3>1, <3>3, <3>4, OpFields DEF PartsTyped
    <3> QED
      BY <2>1, <3>2 DEF Resolve, PartsTyped, server, jobs
  <2>2. CASE Delete(i)
    <3>1. cert' \in [Certs -> {"none", "live", "revoked"}]
      BY <2>2 DEF Delete, PartsTyped
    <3>2. op' \in [Ops -> OpType]
      BY <1>o, <2>2 DEF Delete
    <3> QED
      BY <2>2, <3>1, <3>2 DEF Delete, PartsTyped, jobs
  <2>3. CASE Verify(i)
    <3>1. op' \in [Ops -> OpType]
      BY <1>o, <2>3 DEF Verify, Back
    <3> QED
      BY <2>3, <3>1 DEF Verify, PartsTyped, server, jobs
  <2>4. CASE Mark(i)
    <3>1. op' \in [Ops -> OpType]
      BY <1>o, <2>4 DEF Mark
    <3> QED
      BY <2>4, <3>1 DEF Mark, PartsTyped, server, jobs
  <2> QED
    BY <1>5, <2>1, <2>2, <2>3, <2>4 DEF Revocation
<1>6. CASE FaultNext
  <2>1. ASSUME NEW j \in Jobs, LosesSession(j) PROVE PartsTyped'
    <3>1. lock' \in [Jobs -> SUBSET (Syncers \cup Pollers)]
      BY <2>1 DEF LosesSession, PartsTyped
    <3> QED
      BY <1>f, <2>1, <3>1 DEF LosesSession, PartsTyped, server
  <2>2. ASSUME NEW w \in Syncers, SyncFails(w) \/ DeleteFails(w) \/ SyncDies(w) PROVE PartsTyped'
    BY <1>f, <1>s, <2>2 DEF SyncFails, DeleteFails, SyncDies, PartsTyped
  <2>3. ASSUME NEW w \in Syncers, NEW u \in Uids, UpsertFails(w, u) PROVE PartsTyped'
    <3>2. sync[w] \in SyncType /\ sync[w].done \cup {u} \in SUBSET Uids
      BY DEF PartsTyped, SyncType
    <3>3. sync' = [sync EXCEPT ![w] = [sync[w] EXCEPT !.done = sync[w].done \cup {u}]]
      BY <2>3 DEF UpsertFails, PartsTyped
    <3>1. sync' \in [Syncers -> SyncType]
      BY ZenonT(40), <3>2, <3>3, SyncFields DEF PartsTyped
    <3> QED
      BY <1>f, <2>3, <3>1 DEF UpsertFails, PartsTyped, server
  <2>4. ASSUME NEW w \in Pollers, ClearFails(w) \/ PollDies(w) PROVE PartsTyped'
    BY <1>f, <1>p, <2>4 DEF ClearFails, PollDies, PartsTyped
  <2>5. ASSUME NEW w \in Pollers, MergeSkipped(w) \/ \E r \in Reports : RecordFails(w, r)
        PROVE  PartsTyped'
    <3>1. Reported(w) \in SUBSET Reports
      BY DEF Reported
    <3>3. CASE MergeSkipped(w)
      BY ZenonT(40), <1>f, <3>1, <3>3 DEF MergeSkipped, PartsTyped, PollType, server
    <3>4. ASSUME NEW r \in Reports, RecordFails(w, r) PROVE PartsTyped'
      <4>1. poll' \in [Pollers -> PollType]
        BY SMTT(30), <3>4 DEF RecordFails, PartsTyped, PollType
      <4> QED
        BY <1>f, <3>4, <4>1 DEF RecordFails, PartsTyped, server
    <3> QED
      BY <2>5, <3>3, <3>4
  <2>6. ASSUME NEW i \in Ops, DeletePartly(i) PROVE PartsTyped'
    <3>1. cert' \in [Certs -> {"none", "live", "revoked"}]
      BY <2>6 DEF DeletePartly, PartsTyped
    <3>2. op' \in [Ops -> OpType]
      BY <1>o, <2>6 DEF DeletePartly, Back
    <3> QED
      BY <1>f, <2>6, <3>1, <3>2 DEF DeletePartly, PartsTyped, jobs
  <2>7. ASSUME NEW i \in Ops, VerifyFails(i) \/ MarkFails(i) \/ Strand(i) PROVE PartsTyped'
    <3>1. op' \in [Ops -> OpType]
      BY <1>o, <2>7 DEF VerifyFails, MarkFails, Strand, Back
    <3> QED
      BY <1>f, <2>7, <3>1 DEF VerifyFails, MarkFails, Strand, PartsTyped, server, jobs
  <2> QED
    BY <1>6, <2>1, <2>2, <2>3, <2>4, <2>5, <2>6, <2>7 DEF FaultNext
<1>7. CASE UNCHANGED vars
  BY <1>7 DEF vars, server, jobs, PartsTyped
<1> QED
  BY <1>1, <1>2, <1>3, <1>4, <1>5, <1>6, <1>7 DEF Next

-----------------------------------------------------------------------------
(* Rows.                                                                   *)

LEMMA RowAges ==
  ASSUME NEW u \in Uids, RowSound(u), Issued \subseteq Issued',
         \/ row'[u] = row[u]
         \/ row'[u] = NoRow
         \/ /\ HasRow(u) /\ row[u] \in RowType
            /\ \E revoked, connected \in BOOLEAN :
                 /\ row'[u] = [row[u] EXCEPT !.revoked = revoked, !.connected = connected]
                 /\ revoked => ~connected
  PROVE  RowSound(u)'
<1>1. CASE row'[u] = row[u]
  BY <1>1 DEF RowSound, HasRow
<1>2. CASE row'[u] = NoRow
  BY <1>2 DEF RowSound, HasRow, NoRow
<1>3. ASSUME HasRow(u), row[u] \in RowType, NEW revoked \in BOOLEAN, NEW connected \in BOOLEAN,
             row'[u] = [row[u] EXCEPT !.revoked = revoked, !.connected = connected],
             revoked => ~connected
      PROVE  RowSound(u)'
  <2>1. row'[u].cert = row[u].cert /\ row'[u].revoked = revoked /\ row'[u].connected = connected
    BY <1>3 DEF RowType
  <2>2. row[u].cert # 0
    BY <1>3 DEF RowSound, HasRow
  <2> QED
    BY <1>3, <2>1, <2>2 DEF RowSound, HasRow
<1> QED
  BY <1>1, <1>2, <1>3

\* The five ways to write rows.
RowUpserted ==
  \E w \in Syncers, u \in Uids :
    /\ ReadBoth(w) /\ u \in Carriers(Listed(w))
    /\ row' = [row EXCEPT ![u].cert = Newest(Listed(w), u)]

StaleDeleted ==
  \E w \in Syncers :
    /\ ReadBoth(w)
    /\ row' = [u \in Uids |-> IF u \in Carriers(Listed(w)) THEN row[u] ELSE NoRow]

SightRecorded ==
  \E w \in Pollers, r \in Reports :
    row' = [u \in Uids |->
      IF u \in Candidates[r] /\ HasRow(u)
      THEN [row[u] EXCEPT !.connected = poll[w].report[r] = "on" /\ ~row[u].revoked]
      ELSE row[u]]

UnreportedCleared ==
  \E reached \in SUBSET Uids :
    row' = [u \in Uids |->
      IF u \in reached THEN row[u] ELSE [row[u] EXCEPT !.connected = FALSE]]

RevokedMarked ==
  \E i \in Ops :
    /\ op[i].stage = "verified"
    /\ row' = [u \in Uids |->
         IF u \in Carriers(op[i].targets) /\ HasRow(u)
         THEN [row[u] EXCEPT !.revoked = TRUE, !.connected = FALSE] ELSE row[u]]

LEMMA RowWrites ==
  ASSUME [Next]_vars
  PROVE  UNCHANGED row \/ RowUpserted \/ StaleDeleted \/ SightRecorded \/ UnreportedCleared
         \/ RevokedMarked
<1> DEFINE Goal == UNCHANGED row \/ RowUpserted \/ StaleDeleted \/ SightRecorded \/ UnreportedCleared
                   \/ RevokedMarked
<1>1. ASSUME NEW w \in Syncers, NEW u \in Uids, Upsert(w, u) PROVE Goal
  BY <1>1 DEF Upsert, RowUpserted
<1>2. ASSUME NEW w \in Syncers, DeleteStale(w) PROVE Goal
  BY <1>2 DEF DeleteStale, StaleDeleted
<1>3. ASSUME NEW w \in Pollers, NEW r \in Reports, Record(w, r) PROVE Goal
  BY <1>3 DEF Record, SightRecorded
<1>4. ASSUME NEW w \in Pollers, ClearUnreported(w) PROVE Goal
  <2> DEFINE reached == UNION {Candidates[r] : r \in Reported(w)}
  <2>1. reached \in SUBSET Uids
    BY DeviceInventoryAssumption DEF Reported
  <2>2. row' = [u \in Uids |->
          IF u \in reached THEN row[u] ELSE [row[u] EXCEPT !.connected = FALSE]]
    BY <1>4 DEF ClearUnreported
  <2> HIDE DEF reached
  <2> QED
    BY <2>1, <2>2 DEF UnreportedCleared
<1>5. ASSUME NEW i \in Ops, Mark(i) PROVE Goal
  BY <1>5 DEF Mark, RevokedMarked
<1> HIDE DEF Goal
<1>6. ASSUME UNCHANGED row PROVE Goal
  BY <1>6 DEF Goal
<1>7. ASSUME ServerNext \/ RequestNext PROVE Goal
  BY <1>6, <1>7 DEF ServerNext, Enrol, OperatorRevokes, Connects, Event, RequestNext, RevokeUser,
     RevokeDevice, Supersede, Publish
<1>8. ASSUME NEW w \in Syncers, Sync(w) PROVE Goal
  BY <1>1, <1>2, <1>6, <1>8 DEF Sync, StartSync, ReadActive, ReadRevoked
<1>9. ASSUME NEW w \in Pollers, Poll(w) PROVE Goal
  BY <1>3, <1>4, <1>6, <1>9 DEF Poll, StartPoll, Merge
<1>10. ASSUME NEW i \in Ops, Revocation(i) PROVE Goal
  BY <1>5, <1>6, <1>10 DEF Revocation, Resolve, Delete, Verify
<1>11. ASSUME FaultNext PROVE Goal
  BY <1>6, <1>11 DEF FaultNext, LosesSession, SyncFails, DeleteFails, SyncDies, UpsertFails,
     MergeSkipped, ClearFails, PollDies, RecordFails, DeletePartly, VerifyFails, MarkFails, Strand
<1> QED
  BY <1>6, <1>7, <1>8, <1>9, <1>10, <1>11 DEF Next, vars, Goal

LEMMA RowsStep ==
  ASSUME PartsTyped, RowsSound, \A w \in Syncers : ViewKnows(w), Issued \subseteq Issued', [Next]_vars
  PROVE  RowsSound'
<1>0. row \in [Uids -> RowType] /\ \A u \in Uids : RowSound(u)
  BY DEF RowsSound
<1>1. ASSUME UNCHANGED row PROVE RowsSound'
  BY <1>0, <1>1, RowAges DEF RowsSound
<1>2. ASSUME RowUpserted PROVE RowsSound'
  <2>1. PICK w \in Syncers, u \in Uids :
          /\ u \in Carriers(Listed(w))
          /\ row' = [row EXCEPT ![u].cert = Newest(Listed(w), u)]
    BY <1>2 DEF RowUpserted
  <2> DEFINE c == Newest(Listed(w), u)
  <2>2. Listed(w) \in SUBSET Certs /\ Listed(w) \subseteq Issued
    BY DEF Listed, ViewKnows, Issued
  <2>3. c \in Certs /\ Carrier[c] = u /\ c \in Issued
    BY <2>1, <2>2, NewestType
  <2> HIDE DEF c
  <2>4. /\ row'[u] = [row[u] EXCEPT !.cert = c] /\ \A v \in Uids \ {u} : row'[v] = row[v]
        /\ row'[u] \in RowType /\ row' \in [Uids -> RowType]
    BY <1>0, <2>1, <2>3 DEF RowType, c
  <2>5. RowSound(u)'
    BY <1>0, <2>3, <2>4, DeviceInventoryAssumption DEF RowSound, HasRow, RowType, NoRow
  <2>6. ASSUME NEW v \in Uids \ {u} PROVE RowSound(v)'
    BY <1>0, <2>4, RowAges
  <2> QED
    BY <2>4, <2>5, <2>6 DEF RowsSound
<1>3. ASSUME StaleDeleted PROVE RowsSound'
  <2>1. \A u \in Uids : row'[u] \in {row[u], NoRow}
    BY <1>3 DEF StaleDeleted
  <2>2. NoRow \in RowType
    BY DEF NoRow, RowType
  <2>3. row' \in [Uids -> RowType]
    BY <1>0, <1>3, <2>2 DEF StaleDeleted
  <2> QED
    BY <1>0, <2>1, <2>3, RowAges DEF RowsSound
<1>f. ASSUME NEW u \in Uids, NEW revoked \in BOOLEAN, NEW connected \in BOOLEAN
      PROVE  [row[u] EXCEPT !.revoked = revoked, !.connected = connected] \in RowType
  <2>1. row[u] \in RowType
    BY <1>0
  <2> QED
    BY <2>1 DEF RowType
<1>c. ASSUME NEW u \in Uids, NEW connected \in BOOLEAN
      PROVE  [row[u] EXCEPT !.connected = connected] =
                [row[u] EXCEPT !.revoked = row[u].revoked, !.connected = connected]
  <2>1. row[u] \in RowType
    BY <1>0
  <2> QED
    BY <2>1 DEF RowType
<1>t. \A u \in Uids : row[u] \in RowType /\ row[u].revoked \in BOOLEAN
  BY <1>0 DEF RowType
<1>4. ASSUME SightRecorded PROVE RowsSound'
  <2>1. PICK w \in Pollers, r \in Reports : row' = [u \in Uids |->
          IF u \in Candidates[r] /\ HasRow(u)
          THEN [row[u] EXCEPT !.connected = poll[w].report[r] = "on" /\ ~row[u].revoked]
          ELSE row[u]]
    BY <1>4 DEF SightRecorded
  <2>2. ASSUME NEW u \in Uids PROVE row'[u] \in RowType /\ RowSound(u)'
    <3>1. CASE u \in Candidates[r] /\ HasRow(u)
      <4> DEFINE on == poll[w].report[r] = "on" /\ ~row[u].revoked
      <4>1. on \in BOOLEAN /\ (row[u].revoked => ~on)
        OBVIOUS
      <4>2. row'[u] = [row[u] EXCEPT !.connected = on]
        BY <2>1, <3>1
      <4> HIDE DEF on
      <4>3. row'[u] = [row[u] EXCEPT !.revoked = row[u].revoked, !.connected = on]
        BY <1>c, <4>1, <4>2
      <4> QED
        BY <1>0, <1>f, <1>t, <3>1, <4>1, <4>3, RowAges
    <3>2. CASE ~(u \in Candidates[r] /\ HasRow(u))
      BY <1>0, <2>1, <3>2, RowAges
    <3> QED
      BY <3>1, <3>2
  <2>3. row' \in [Uids -> RowType]
    BY <2>1, <2>2
  <2> QED
    BY <2>2, <2>3 DEF RowsSound
<1>5. ASSUME UnreportedCleared PROVE RowsSound'
  <2>1. PICK reached \in SUBSET Uids : row' = [u \in Uids |->
          IF u \in reached THEN row[u] ELSE [row[u] EXCEPT !.connected = FALSE]]
    BY <1>5 DEF UnreportedCleared
  <2>2. ASSUME NEW u \in Uids PROVE row'[u] \in RowType /\ RowSound(u)'
    <3>1. CASE u \notin reached /\ HasRow(u)
      <4>1. row'[u] = [row[u] EXCEPT !.revoked = row[u].revoked, !.connected = FALSE]
        BY <1>c, <2>1, <3>1
      <4> QED
        BY <1>0, <1>f, <1>t, <3>1, <4>1, RowAges
    <3>2. CASE u \in reached
      BY <1>0, <2>1, <3>2, RowAges
    <3>3. CASE ~HasRow(u)
      <4>1. [NoRow EXCEPT !.connected = FALSE] = NoRow
        <5>1. NoRow \in RowType /\ NoRow.connected = FALSE
          BY DEF NoRow, RowType
        <5>2. \A r \in RowType : [r EXCEPT !.connected = r.connected] = r
          BY DEF RowType
        <5> QED
          BY <5>1, <5>2
      <4>2. row'[u] = row[u]
        BY <2>1, <3>3, <4>1 DEF HasRow
      <4> QED
        BY <1>0, <4>2, RowAges
    <3> QED
      BY <3>1, <3>2, <3>3
  <2>3. row' \in [Uids -> RowType]
    BY <2>1, <2>2
  <2> QED
    BY <2>2, <2>3 DEF RowsSound
<1>6. ASSUME RevokedMarked PROVE RowsSound'
  <2>1. PICK i \in Ops : row' = [u \in Uids |->
          IF u \in Carriers(op[i].targets) /\ HasRow(u)
          THEN [row[u] EXCEPT !.revoked = TRUE, !.connected = FALSE] ELSE row[u]]
    BY <1>6 DEF RevokedMarked
  <2>2. ASSUME NEW u \in Uids PROVE row'[u] \in RowType /\ RowSound(u)'
    <3>1. CASE u \in Carriers(op[i].targets) /\ HasRow(u)
      <4>1. row'[u] = [row[u] EXCEPT !.revoked = TRUE, !.connected = FALSE]
        BY <2>1, <3>1
      <4> QED
        BY <1>0, <1>f, <1>t, <3>1, <4>1, RowAges
    <3>2. CASE ~(u \in Carriers(op[i].targets) /\ HasRow(u))
      BY <1>0, <2>1, <3>2, RowAges
    <3> QED
      BY <3>1, <3>2
  <2>3. row' \in [Uids -> RowType]
    BY <2>1, <2>2
  <2> QED
    BY <2>2, <2>3 DEF RowsSound
<1> QED
  BY <1>1, <1>2, <1>3, <1>4, <1>5, <1>6, RowWrites

-----------------------------------------------------------------------------
(* Views.                                                                  *)

LEMMA ViewsStep ==
  ASSUME PartsTyped, \A c \in Issued : c \in Issued' /\ (c \in Live' => c \in Live),
         \A w \in Syncers : ViewKnows(w), [Next]_vars
  PROVE  \A w \in Syncers : ViewKnows(w)'
<1> DEFINE Goal == \A w \in Syncers : ViewKnows(w)'
<1>a. ASSUME NEW w \in Syncers,
             sync'[w].on = sync[w].on, sync'[w].active = sync[w].active, sync'[w].got = sync[w].got,
             sync'[w].before = sync[w].before, sync'[w].revoked = sync[w].revoked
      PROVE  ViewKnows(w)'
  <2>1. ViewKnows(w)
    OBVIOUS
  <2> QED
    BY <1>a, <2>1 DEF ViewKnows
<1>b. ASSUME NEW w \in Syncers, \A v \in Syncers \ {w} : sync'[v] = sync[v], ViewKnows(w)'
      PROVE  Goal
  BY <1>a, <1>b
<1>1. ASSUME UNCHANGED sync PROVE Goal
  BY <1>1, <1>a
<1>e. ASSUME NEW w \in Syncers, EndSync(w) PROVE Goal
  <2>1. sync'[w] = NoSync /\ \A v \in Syncers \ {w} : sync'[v] = sync[v]
    BY <1>e DEF EndSync, PartsTyped
  <2> QED
    BY <1>b, <2>1 DEF ViewKnows, NoSync
<1>2. ASSUME NEW w \in Syncers, Sync(w) PROVE Goal
  <2>k. ViewKnows(w) /\ sync[w] \in SyncType
    BY DEF PartsTyped
  <2>1. CASE StartSync(w)
    <3>1. \A v \in Syncers \ {w} : sync'[v] = sync[v]
      BY <2>1 DEF StartSync, PartsTyped
    <3>2. /\ sync'[w].before = Issued /\ sync'[w].on /\ sync'[w].got = {}
          /\ sync'[w].active = sync[w].active /\ sync'[w].revoked = sync[w].revoked
      BY <2>1, <2>k DEF StartSync, PartsTyped, SyncType, ViewKnows
    <3> QED
      BY <1>b, <2>k, <3>1, <3>2 DEF ViewKnows
  <2>2. CASE ReadActive(w)
    <3>1. \A v \in Syncers \ {w} : sync'[v] = sync[v]
      BY <2>2 DEF ReadActive, PartsTyped
    <3>2. /\ sync'[w].before = sync[w].before /\ sync'[w].on
          /\ sync'[w].active = Issued \ sync[w].revoked /\ sync'[w].revoked = {}
      BY <2>2, <2>k DEF ReadActive, PartsTyped, SyncType
    <3> QED
      BY <1>b, <2>k, <3>1, <3>2 DEF ViewKnows
  <2>3. CASE ReadRevoked(w)
    <3>1. \A v \in Syncers \ {w} : sync'[v] = sync[v]
      BY <2>3 DEF ReadRevoked, PartsTyped
    <3>2. /\ sync'[w].before = sync[w].before /\ sync'[w].on
          /\ sync'[w].active = sync[w].active \cap Live
          /\ sync'[w].revoked \subseteq Issued \ Live
          /\ "active" \in sync'[w].got => "active" \in sync[w].got
      BY <2>3, <2>k DEF ReadRevoked, PartsTyped, SyncType
    <3> QED
      BY <1>b, <2>k, <3>1, <3>2 DEF ViewKnows
  <2>4. CASE DeleteStale(w)
    BY <1>e, <2>4 DEF DeleteStale
  <2>5. ASSUME NEW u \in Uids, Upsert(w, u) PROVE Goal
    <3>1. \A v \in Syncers : /\ sync'[v].on = sync[v].on /\ sync'[v].active = sync[v].active
                             /\ sync'[v].got = sync[v].got /\ sync'[v].before = sync[v].before
                             /\ sync'[v].revoked = sync[v].revoked
      BY <2>5 DEF Upsert, PartsTyped, SyncType
    <3> QED
      BY <1>a, <3>1
  <2> QED
    BY <1>2, <2>1, <2>2, <2>3, <2>4, <2>5 DEF Sync
<1>3. ASSUME NEW w \in Syncers, NEW u \in Uids, UpsertFails(w, u) PROVE Goal
  <2>1. \A v \in Syncers : /\ sync'[v].on = sync[v].on /\ sync'[v].active = sync[v].active
                           /\ sync'[v].got = sync[v].got /\ sync'[v].before = sync[v].before
                           /\ sync'[v].revoked = sync[v].revoked
    BY <1>3 DEF UpsertFails, PartsTyped, SyncType
  <2> QED
    BY <1>a, <2>1
<1>4. ASSUME NEW w \in Syncers, SyncFails(w) \/ DeleteFails(w) \/ SyncDies(w) PROVE Goal
  BY <1>4, <1>e DEF SyncFails, DeleteFails, SyncDies
<1> HIDE DEF Goal
<1>5. ASSUME ServerNext \/ RequestNext PROVE Goal
  BY <1>1, <1>5 DEF ServerNext, Enrol, OperatorRevokes, Connects, Event, RequestNext, RevokeUser,
     RevokeDevice, Supersede, Publish, jobs
<1>6. ASSUME NEW w \in Pollers, Poll(w) PROVE Goal
  BY <1>1, <1>6 DEF Poll, StartPoll, Merge, Record, ClearUnreported, EndPoll
<1>7. ASSUME NEW i \in Ops, Revocation(i) PROVE Goal
  BY <1>1, <1>7 DEF Revocation, Resolve, Delete, Verify, Mark, jobs
<1>8. ASSUME FaultNext PROVE Goal
  BY <1>1, <1>3, <1>4, <1>8 DEF FaultNext, LosesSession, MergeSkipped, ClearFails, PollDies, EndPoll,
     RecordFails, DeletePartly, VerifyFails, MarkFails, Strand, jobs
<1>9. Goal
  BY <1>1, <1>2, <1>5, <1>6, <1>7, <1>8 DEF Next, vars, jobs
<1> QED
  BY <1>9 DEF Goal

-----------------------------------------------------------------------------
(* Revocations.                                                            *)

LEMMA OpAges ==
  ASSUME NEW i \in Ops, OpKnows(i),
         \A c \in Issued : c \in Issued' /\ (c \in Live' => c \in Live),
         op'[i].shape = op[i].shape, op'[i].of = op[i].of, op'[i].issued = op[i].issued,
         op'[i].targets \in {op[i].targets, {}},
         op'[i].stage \in {"listed", "asked", "verified"} =>
            op'[i].targets = op[i].targets /\ op[i].stage \in {"listed", "asked", "verified"},
         op'[i].stage = "verified" => op[i].stage = "verified" \/ op[i].targets \cap Live = {},
         op'[i].stage = "done" => op[i].stage \in {"verified", "done"}
  PROVE  OpKnows(i)'
<1>1. Scope(i)' = Scope(i)
  BY DEF Scope
<1>2. op[i].issued \subseteq Issued /\ op[i].targets \subseteq Issued
  BY DEF OpKnows
<1>3. \A c \in Issued : c \in Live' => c \in Live
  OBVIOUS
<1>4. op'[i].issued \subseteq Issued' \cap Scope(i)' /\ op'[i].targets \subseteq Issued'
  BY <1>1, <1>2 DEF OpKnows
<1>5. op'[i].shape \notin {"user", "device"} => op'[i].of \subseteq Issued'
  BY DEF OpKnows
<1>6. op'[i].stage \in {"listed", "asked", "verified"} => op'[i].issued \cap Live' \subseteq op'[i].targets
  BY <1>2 DEF OpKnows
<1>7. op'[i].stage = "verified" => op'[i].targets \cap Live' = {}
  BY <1>2 DEF OpKnows
<1>8. op'[i].stage = "done" => op'[i].issued \cap Live' = {}
  BY <1>2 DEF OpKnows
<1> QED
  BY <1>4, <1>5, <1>6, <1>7, <1>8 DEF OpKnows

LEMMA OpsStep ==
  ASSUME PartsTyped, RowsSound, \A c \in Issued : c \in Issued' /\ (c \in Live' => c \in Live),
         \A i \in Ops : OpKnows(i), [Next]_vars
  PROVE  \A i \in Ops : OpKnows(i)'
<1> DEFINE Goal == \A i \in Ops : OpKnows(i)'
<1>1. ASSUME UNCHANGED op PROVE Goal
  BY <1>1, OpAges
<1>b. ASSUME NEW i \in Ops, \A k \in Ops \ {i} : op'[k] = op[k], OpKnows(i)' PROVE Goal
  BY <1>b, OpAges
\* A step that moves i on, or puts it back.
<1>m. ASSUME NEW i \in Ops, NEW stage \in {"pending", "asked", "verified", "done", "stranded"},
             \/ op' = [op EXCEPT ![i].stage = stage]
             \/ op' = [op EXCEPT ![i].stage = stage, ![i].targets = {}] /\ stage = "pending",
             stage = "asked" => op[i].stage = "listed",
             stage = "verified" => op[i].stage = "asked" /\ op[i].targets \cap Live = {},
             stage = "done" => op[i].stage = "verified"
      PROVE  Goal
  <2>1. op[i] \in OpType /\ \A k \in Ops \ {i} : op'[k] = op[k]
    BY <1>m DEF PartsTyped
  <2>2. /\ op'[i].shape = op[i].shape /\ op'[i].of = op[i].of /\ op'[i].issued = op[i].issued
        /\ op'[i].stage = stage
        /\ op'[i].targets = op[i].targets \/ (op'[i].targets = {} /\ stage = "pending")
    <3>1. CASE op' = [op EXCEPT ![i].stage = stage]
      <4>1. op'[i] = [op[i] EXCEPT !.stage = stage]
        BY <3>1 DEF PartsTyped
      <4> QED
        BY <2>1, <4>1 DEF OpType
    <3>2. CASE op' = [op EXCEPT ![i].stage = stage, ![i].targets = {}] /\ stage = "pending"
      <4>1. op'[i] = [op[i] EXCEPT !.stage = stage, !.targets = {}]
        BY <2>1, <3>2 DEF PartsTyped, OpType
      <4>2. \A r \in OpType :
              LET q == [r EXCEPT !.stage = stage, !.targets = {}]
              IN /\ q.shape = r.shape /\ q.of = r.of /\ q.issued = r.issued
                 /\ q.stage = stage /\ q.targets = {}
        BY DEF OpType
      <4> QED
        BY <2>1, <3>2, <4>1, <4>2
    <3> QED
      BY <1>m, <3>1, <3>2
  <2>3. OpKnows(i)'
    BY <1>m, <2>2, OpAges
  <2> QED
    BY <1>b, <2>1, <2>3
<1>2. ASSUME NEW i \in Ops, NEW shape \in {"user", "device", "certs"}, NEW of, NEW issued,
             Publish(i, shape, of, issued), issued \subseteq Issued,
             shape = "user" => issued \subseteq OwnedBy(of),
             shape = "device" => issued \subseteq CarriedBy(of),
             shape = "certs" => issued = of
      PROVE  Goal
  <2>1. /\ \A k \in Ops \ {i} : op'[k] = op[k]
        /\ op'[i] = [stage |-> "pending", shape |-> shape, of |-> of, issued |-> issued, targets |-> {}]
    BY <1>2 DEF Publish, PartsTyped
  <2>2. op'[i].stage = "pending" /\ op'[i].shape = shape /\ op'[i].of = of /\ op'[i].issued = issued
        /\ op'[i].targets = {}
    BY <2>1
  <2>3. issued \subseteq Scope(i)'
    BY <1>2, <2>2 DEF Scope, OwnedBy, CarriedBy
  <2>4. OpKnows(i)'
    BY <1>2, <2>2, <2>3 DEF OpKnows
  <2> QED
    BY <1>b, <2>1, <2>4
<1>3. ASSUME RequestNext PROVE Goal
  <2>1. ASSUME NEW i \in Ops, NEW user \in Users, RevokeUser(i, user) PROVE Goal
    BY <1>2, <2>1 DEF RevokeUser
  <2>2. ASSUME NEW i \in Ops, NEW u \in Uids, RevokeDevice(i, u) PROVE Goal
    BY <1>2, <2>2 DEF RevokeDevice
  <2>3. ASSUME NEW i \in Ops, NEW user \in Users, Supersede(i, user) PROVE Goal
    <3>1. PICK u \in Uids : HasRow(u) /\ Publish(i, "certs", {row[u].cert}, {row[u].cert})
      BY <2>3 DEF Supersede
    <3>2. {row[u].cert} \subseteq Issued
      BY <3>1 DEF RowsSound, RowSound
    <3> QED
      BY <1>2, <3>1, <3>2
  <2> QED
    BY <1>3, <2>1, <2>2, <2>3 DEF RequestNext
<1>4. ASSUME NEW i \in Ops, Resolve(i) PROVE Goal
  <2>1. PICK stage \in {"refused", "done", "listed", "dry run"} :
          /\ op' = [op EXCEPT ![i] = [op[i] EXCEPT !.targets = Targets(i), !.stage = stage]]
          /\ stage = "done" => Targets(i) = {}
    BY <1>4 DEF Resolve, PartsTyped
  <2>2. op[i] \in OpType /\ \A k \in Ops \ {i} : op'[k] = op[k]
    BY <2>1 DEF PartsTyped
  <2>3. op'[i].shape = op[i].shape /\ op'[i].of = op[i].of /\ op'[i].issued = op[i].issued
        /\ op'[i].stage = stage /\ op'[i].targets = Targets(i)
    BY <2>1, <2>2 DEF PartsTyped, OpType
  <2>4. op[i].issued \cap Live \subseteq Targets(i) /\ Targets(i) \subseteq Issued
    <3>1. op[i].issued \subseteq Issued \cap Scope(i)
      BY DEF OpKnows
    <3>2. Live \subseteq Issued /\ (op[i].shape \notin {"user", "device"} => op[i].of \subseteq Issued)
      BY DEF Live, Issued, OpKnows
    <3> QED
      BY <3>1, <3>2 DEF Targets, Scope
  <2>5. cert' = cert /\ Issued' = Issued /\ Live' = Live /\ Scope(i)' = Scope(i)
    BY <1>4, <2>3 DEF Resolve, server, Issued, Live, Scope
  <2>6. OpKnows(i)'
    BY <2>1, <2>3, <2>4, <2>5 DEF OpKnows
  <2> QED
    BY <1>b, <2>2, <2>6
<1> HIDE DEF Goal
<1>5. ASSUME NEW i \in Ops, Revocation(i) PROVE Goal
  <2>1. ASSUME Delete(i) PROVE Goal
    BY <1>m, <2>1 DEF Delete
  <2>2. ASSUME Verify(i) PROVE Goal
    BY <1>m, <2>2 DEF Verify, Back
  <2>3. ASSUME Mark(i) PROVE Goal
    BY <1>m, <2>3 DEF Mark
  <2> QED
    BY <1>4, <1>5, <2>1, <2>2, <2>3 DEF Revocation
<1>6. ASSUME NEW i \in Ops, DeletePartly(i) \/ VerifyFails(i) \/ MarkFails(i) \/ Strand(i) PROVE Goal
  <2>1. ASSUME DeletePartly(i) PROVE Goal
    BY <1>m, <2>1 DEF DeletePartly, Back
  <2>2. ASSUME VerifyFails(i) PROVE Goal
    BY <1>m, <2>2 DEF VerifyFails, Back
  <2>3. ASSUME MarkFails(i) PROVE Goal
    BY <1>m, <2>3 DEF MarkFails
  <2>4. ASSUME Strand(i) PROVE Goal
    BY <1>m, <2>4 DEF Strand
  <2> QED
    BY <1>6, <2>1, <2>2, <2>3, <2>4
<1>7. ASSUME ServerNext PROVE Goal
  BY <1>1, <1>7 DEF ServerNext, Enrol, OperatorRevokes, Connects, Event
<1>8. ASSUME NEW w \in Syncers, Sync(w) PROVE Goal
  BY <1>1, <1>8 DEF Sync, StartSync, ReadActive, ReadRevoked, DeleteStale, EndSync, Upsert
<1>9. ASSUME NEW w \in Pollers, Poll(w) PROVE Goal
  BY <1>1, <1>9 DEF Poll, StartPoll, Merge, Record, ClearUnreported, EndPoll
<1>10. ASSUME FaultNext PROVE Goal
  BY <1>1, <1>6, <1>10 DEF FaultNext, LosesSession, SyncFails, DeleteFails, SyncDies, EndSync,
     UpsertFails, MergeSkipped, ClearFails, PollDies, EndPoll, RecordFails
<1>11. Goal
  BY <1>1, <1>3, <1>5, <1>7, <1>8, <1>9, <1>10 DEF Next, vars
<1> QED
  BY <1>11 DEF Goal

-----------------------------------------------------------------------------
(* Theorems.                                                               *)

LEMMA DeviceInit == Init => DeviceInv
<1> SUFFICES ASSUME Init PROVE DeviceInv
  OBVIOUS
<1> USE DeviceInventoryAssumption
<1>1. PICK known \in (SUBSET Certs) \ {Certs} :
        /\ cert = [c \in Certs |-> IF c \in known THEN "live" ELSE "none"]
        /\ row = [u \in Uids |-> IF u \in Carriers(known)
                                 THEN [NoRow EXCEPT !.cert = Newest(known, u)] ELSE NoRow]
        /\ link = [r \in Reports |-> IF Candidates[r] \cap Carriers(known) = {}
                                     THEN "absent" ELSE "on"]
  BY DEF Init
<1>2. PartsTyped
  <2>1. NoSync \in SyncType /\ NoPoll \in PollType /\ NoOp \in OpType
    BY DEF NoSync, NoPoll, NoOp, SyncType, PollType, OpType
  <2>2. 0 \in 0..MaxEvents /\ 0 \in 0..MaxFaults
    OBVIOUS
  <2> QED
    BY <1>1, <2>1, <2>2 DEF Init, PartsTyped
<1>3. RowsSound
  <2>1. ASSUME NEW u \in Uids PROVE row[u] \in RowType /\ RowSound(u)
    <3>1. CASE u \in Carriers(known)
      <4> DEFINE c == Newest(known, u)
      <4>1. c \in known /\ Carrier[c] = u
        BY <3>1, NewestType
      <4>2. row[u] = [NoRow EXCEPT !.cert = c]
        BY <1>1, <3>1
      <4> HIDE DEF c
      <4>3. row[u] = [cert |-> c, revoked |-> FALSE, connected |-> FALSE]
        BY <4>2 DEF NoRow
      <4>4. c \in Issued /\ c # 0
        BY <1>1, <4>1 DEF Issued
      <4> QED
        BY <4>1, <4>3, <4>4 DEF RowSound, RowType, HasRow, NoRow
    <3>2. CASE u \notin Carriers(known)
      <4>1. row[u] = NoRow
        BY <1>1, <3>2
      <4> QED
        BY <4>1 DEF RowSound, RowType, HasRow, NoRow
    <3> QED
      BY <3>1, <3>2
  <2>2. row \in [Uids -> RowType]
    BY <1>1, <2>1
  <2> QED
    BY <2>1, <2>2 DEF RowsSound
<1>4. ASSUME NEW w \in Syncers PROVE ViewKnows(w)
  BY DEF Init, ViewKnows, NoSync
<1>5. ASSUME NEW i \in Ops PROVE OpKnows(i)
  <2>1. op[i] = NoOp
    BY DEF Init
  <2> QED
    BY <2>1 DEF OpKnows, NoOp
<1> QED
  BY <1>2, <1>3, <1>4, <1>5 DEF DeviceInv

LEMMA DeviceStep == DeviceInv /\ [Next]_vars => DeviceInv'
<1> SUFFICES ASSUME DeviceInv, [Next]_vars PROVE DeviceInv'
  OBVIOUS
<1>1. /\ PartsTyped /\ RowsSound
      /\ \A w \in Syncers : ViewKnows(w)
      /\ \A i \in Ops : OpKnows(i)
  BY DEF DeviceInv
<1>2. \A i \in Ops : op[i].targets \subseteq Issued
  BY <1>1 DEF OpKnows
<1>3. \A c \in Issued : c \in Issued' /\ (c \in Live' => c \in Live)
  BY <1>1, <1>2, CertsAge
<1>4. PartsTyped'
  BY <1>1, PartsStep
<1>5. RowsSound'
  BY <1>1, <1>3, RowsStep
<1>6. \A w \in Syncers : ViewKnows(w)'
  BY <1>1, <1>3, ViewsStep
<1>7. \A i \in Ops : OpKnows(i)'
  BY <1>1, <1>3, OpsStep
<1> QED
  BY <1>4, <1>5, <1>6, <1>7 DEF DeviceInv

LEMMA DeviceInvariant == Spec => []DeviceInv
BY DeviceInit, DeviceStep, PTL DEF Spec

\* Whatever the sync, the poller, the revocations and the faults do in whatever
\* order: rows are well formed, a device marked revoked is never shown
\* connected, and a revocation that ended as done left none of the certificates
\* it was about valid (revokeTakCertificates, recordLastSeen).
THEOREM RevocationsAlwaysHold == Spec => []RevocationsHold
BY DeviceInvariant, InvHolds, PTL

LEMMA RowChange ==
  ASSUME DeviceInv, [Next]_vars
  PROVE  MarkedOnlyWhenConfirmed /\ NoLiveDeviceDropped
<1>1. /\ PartsTyped /\ RowsSound
      /\ \A w \in Syncers : ViewKnows(w)
      /\ \A i \in Ops : OpKnows(i)
  BY DEF DeviceInv
<1>2. row \in [Uids -> RowType] /\ \A u \in Uids : RowSound(u)
  BY <1>1 DEF RowsSound
<1>m. ASSUME NEW u \in Uids, ~row[u].revoked, row'[u].revoked
      PROVE  \E i \in Ops : /\ op[i].stage = "verified"
                            /\ u \in Carriers(op[i].targets)
                            /\ op[i].targets \cap Live = {}
  <2>0. row[u] \in RowType
    BY <1>2
  <2>1. ~UNCHANGED row
    BY <1>m
  <2>2. ~RowUpserted
    BY <1>2, <1>m, <2>0 DEF RowUpserted, RowType
  <2>3. ~StaleDeleted
    BY <1>m DEF StaleDeleted, NoRow
  <2>4. ~SightRecorded
    BY <1>m, <2>0 DEF SightRecorded, RowType
  <2>5. ~UnreportedCleared
    BY <1>m, <2>0 DEF UnreportedCleared, RowType
  <2>6. RevokedMarked
    BY <2>1, <2>2, <2>3, <2>4, <2>5, RowWrites
  <2>7. PICK i \in Ops : /\ op[i].stage = "verified"
                         /\ u \in Carriers(op[i].targets)
    BY <1>m, <2>6 DEF RevokedMarked
  <2> QED
    BY <1>1, <2>7 DEF OpKnows
<1>d. ASSUME NEW u \in Uids, HasRow(u), row'[u] = NoRow
      PROVE  \E w \in Syncers : ReadBoth(w) /\ Live \cap CarriedBy({u}) \cap sync[w].before = {}
  <2>0. row[u] \in RowType /\ row[u] # NoRow /\ row[u].cert # 0 /\ row'[u].cert = 0
    BY <1>2, <1>d DEF HasRow, RowSound, NoRow
  <2>1. ~UNCHANGED row
    BY <2>0
  <2>2. ~RowUpserted
    <3>1. ASSUME NEW w \in Syncers, NEW v \in Uids, v \in Carriers(Listed(w)),
                 row' = [row EXCEPT ![v].cert = Newest(Listed(w), v)]
          PROVE  FALSE
      <4>1. Listed(w) \in SUBSET Certs
        BY <1>1 DEF Listed, ViewKnows, Issued
      <4>2. Newest(Listed(w), v) \in Certs
        BY <3>1, <4>1, NewestType
      <4>3. Newest(Listed(w), v) # 0
        BY <4>2, DeviceInventoryAssumption
      <4>4. row'[u].cert \in {row[u].cert, Newest(Listed(w), v)}
        BY <1>2, <2>0, <3>1 DEF RowType
      <4> QED
        BY <2>0, <4>3, <4>4
    <3> QED
      BY <3>1 DEF RowUpserted
  <2>4. ~SightRecorded
    BY <2>0 DEF SightRecorded, RowType
  <2>5. ~UnreportedCleared
    BY <2>0 DEF UnreportedCleared, RowType
  <2>6. ~RevokedMarked
    BY <2>0 DEF RevokedMarked, RowType
  <2>7. StaleDeleted
    BY <2>1, <2>2, <2>4, <2>5, <2>6, RowWrites
  <2>8. PICK w \in Syncers : ReadBoth(w) /\ u \notin Carriers(Listed(w))
    BY <2>0, <2>7, <1>d DEF StaleDeleted
  <2>9. sync[w].before \cap Live \subseteq Listed(w)
    BY <1>1, <2>8 DEF ViewKnows, ReadBoth, Listed
  <2>10. \A c \in Listed(w) : Carrier[c] # u
    BY <2>8 DEF Carriers
  <2> QED
    BY <2>8, <2>9, <2>10 DEF CarriedBy
<1> QED
  BY <1>m, <1>d DEF MarkedOnlyWhenConfirmed, NoLiveDeviceDropped

\* No step marks a device revoked but the end of a revocation whose targets were
\* all found revoked; none drops a row whose device had a valid certificate
\* when the run of the sync began and still has it (DeviceSync.run).
THEOREM RowChangesHaveCause == Spec => RowsChangeWithCause
BY DeviceInvariant, RowChange, PTL DEF Spec, RowsChangeWithCause
=============================================================================
