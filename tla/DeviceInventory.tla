--------------------------- MODULE DeviceInventory ---------------------------
(***************************************************************************)
(* tak_devices, the local inventory of enrolled devices, and its four      *)
(* writers: the device sync, the connection poller, the certificate        *)
(* revocations the Sync_Worker runs, and (through what they publish) the   *)
(* requests that ask for a revocation.                                     *)
(*                                                                         *)
(* Each writer works from what it read earlier: the sync from two views of *)
(* the TAK server's certificates, the poller from a list of connections, a *)
(* revocation from the certificates it resolved its payload to.  The two   *)
(* periodic jobs run under session advisory locks (withJobLock).           *)
(***************************************************************************)
EXTENDS Integers, FiniteSets

CONSTANTS
  Uids,        \* client_uids of devices
  Users,       \* owners of certificates
  Certs,       \* certificate ids, in the order of issue
  Carrier,     \* Carrier[c]: the client_uid certificate c is issued to
  Owner,       \* Owner[c]: the user whose name is in c's creatorDn
  Reports,     \* uids under which the TAK server reports connections
  Candidates,  \* Candidates[r]: the client_uids a reported uid may stand for
  Syncers,     \* runs of the device sync under way at once, numbered from 1
  Pollers,     \* worker processes that run the subscription poller
  Ops,         \* ids of the revoke_tak_certificates operations
  RevokeMaxCerts, \* DEVICE_MGMT_REVOKE_MAX_CERTS
  RevokeEnabled,  \* the settings of DEVICE_MGMT_REVOKE_ENABLED workers run under
  MaxEvents,   \* bound on what happens on the TAK server by itself
  MaxFaults    \* bound on failed calls, lost sessions and crashes

ASSUME DeviceInventoryAssumption ==
  /\ Certs \subseteq Nat \ {0}
  /\ IsFiniteSet(Certs)
  /\ Syncers \subseteq Nat \ {0}
  /\ Carrier \in [Certs -> Uids]
  /\ Owner \in [Certs -> Users]
  /\ Candidates \in [Reports -> SUBSET Uids]
  /\ RevokeMaxCerts \in Nat
  /\ RevokeEnabled \subseteq BOOLEAN
  /\ MaxEvents \in Nat
  /\ MaxFaults \in Nat

Jobs == {"sync", "poll"}

VARIABLES
  cert,    \* cert[c]: certificate c on the TAK server
  link,    \* link[r]: the connection the TAK server reports under r
  row,     \* row[u]: the row of tak_devices, NoRow without one
  sync,    \* sync[w]: a run of the device sync
  poll,    \* poll[w]: a run of the poller
  lock,    \* lock[j]: the process whose session holds j's advisory lock, if any
  op,      \* op[i]: a revocation, from its publication to its end
  events,  \* events on the TAK server so far, at most MaxEvents
  faults   \* faults so far, at most MaxFaults

server == <<cert, link>>
jobs == <<sync, poll, lock>>
vars == <<server, row, jobs, op, events, faults>>

-----------------------------------------------------------------------------

NoRow == [cert |-> 0, revoked |-> FALSE, connected |-> FALSE]
HasRow(u) == row[u] # NoRow

\* got: the views read so far; done: the devices upserted; before: the
\* certificates that existed when the run began (history).
NoSync == [on |-> FALSE, got |-> {}, active |-> {}, revoked |-> {}, done |-> {}, before |-> {}]
NoPoll == [stage |-> "idle", report |-> [r \in Reports |-> "absent"], todo |-> {}]

\* of: the user, device or certificates of the payload; issued: the
\* certificates it is about that existed when it was published (history).
NoOp == [stage |-> "none", shape |-> "none", of |-> {}, issued |-> {}, targets |-> {}]

Issued == {c \in Certs : cert[c] # "none"}
Live == {c \in Certs : cert[c] = "live"}

Carriers(cs) == {Carrier[c] : c \in cs}
OwnedBy(us) == {c \in Certs : Owner[c] \in us}
CarriedBy(us) == {c \in Certs : Carrier[c] \in us}

\* groupByClientUid, isNewerCertificate: of several live certificates of one
\* device the row shows the one issued last.
Newest(cs, u) ==
  CHOOSE c \in cs \cap CarriedBy({u}) : \A d \in cs \cap CarriedBy({u}) : d <= c

SpendFault == faults < MaxFaults /\ faults' = faults + 1

\* The first devices are enrolled, known and connected already, not polled yet;
\* one certificate at least is still to be issued.
Init ==
  /\ \E known \in (SUBSET Certs) \ {Certs} :
       /\ \A c \in known, d \in Certs : d < c => d \in known
       /\ cert = [c \in Certs |-> IF c \in known THEN "live" ELSE "none"]
       /\ row = [u \in Uids |-> IF u \in Carriers(known)
                                THEN [NoRow EXCEPT !.cert = Newest(known, u)] ELSE NoRow]
       /\ link = [r \in Reports |-> IF Candidates[r] \cap Carriers(known) = {}
                                   THEN "absent" ELSE "on"]
  /\ sync = [w \in Syncers |-> NoSync]
  /\ poll = [w \in Pollers |-> NoPoll]
  /\ lock = [j \in Jobs |-> {}]
  /\ op = [i \in Ops |-> NoOp]
  /\ events = 0
  /\ faults = 0

-----------------------------------------------------------------------------
(* The TAK server.                                                         *)

Event ==
  /\ events < MaxEvents
  /\ events' = events + 1
  /\ UNCHANGED <<row, jobs, op, faults>>

\* A device redeems an enrolment token.
Enrol(c) ==
  /\ Event
  /\ cert[c] = "none"
  /\ \A d \in Certs : d < c => cert[d] # "none"
  /\ cert' = [cert EXCEPT ![c] = "live"]
  /\ UNCHANGED link

\* Revoked on the TAK server's own console.
OperatorRevokes(c) ==
  /\ Event
  /\ cert[c] = "live"
  /\ cert' = [cert EXCEPT ![c] = "revoked"]
  /\ UNCHANGED link

\* A client connects, disconnects or is dropped from the report.
Connects(r, status) ==
  /\ Event
  /\ link[r] # status
  /\ link' = [link EXCEPT ![r] = status]
  /\ UNCHANGED cert

-----------------------------------------------------------------------------
(* withJobLock.                                                            *)

\* pg_try_advisory_lock: without the lock the tick is skipped.
Takes(j, w) ==
  /\ lock[j] = {}
  /\ lock' = [lock EXCEPT ![j] = {w}]

\* pg_advisory_unlock releases what the session still holds.
Releases(j, w) ==
  lock' = [lock EXCEPT ![j] = @ \ {w}]

\* The locking session breaks; the run itself goes on with other connections.
LosesSession(j) ==
  /\ SpendFault
  /\ lock[j] # {}
  /\ lock' = [lock EXCEPT ![j] = {}]
  /\ UNCHANGED <<server, row, sync, poll, op, events>>

-----------------------------------------------------------------------------
(* The device sync.                                                        *)

\* The certificates listed as valid, once both views are read.
Listed(w) == sync[w].active
ReadBoth(w) == sync[w].on /\ sync[w].got = {"active", "revoked"}

EndSync(w) ==
  /\ sync' = [sync EXCEPT ![w] = NoSync]
  /\ Releases("sync", w)
  /\ UNCHANGED <<server, poll, op, events>>

\* A worker keeps nothing but its run: a new run takes the first free number.
StartSync(w) ==
  /\ ~sync[w].on
  /\ \A v \in Syncers : v < w => sync[v].on
  /\ Takes("sync", w)
  /\ sync' = [sync EXCEPT ![w].on = TRUE, ![w].before = Issued]
  /\ UNCHANGED <<server, row, poll, op, events, faults>>

\* listLiveCertificates asks for both views at once; the answers are taken at
\* two moments, in either order, and the revoked ones then left out.
ReadActive(w) ==
  /\ sync[w].on /\ "active" \notin sync[w].got
  /\ sync' = [sync EXCEPT ![w].got = @ \cup {"active"},
       ![w].active = Issued \ sync[w].revoked, ![w].revoked = {}]
  /\ UNCHANGED <<server, row, poll, lock, op, events, faults>>

ReadRevoked(w) ==
  /\ sync[w].on /\ "revoked" \notin sync[w].got
  /\ sync' = [sync EXCEPT ![w].got = @ \cup {"revoked"},
       ![w].active = @ \cap Live,
       ![w].revoked = IF "active" \in sync[w].got THEN {} ELSE Issued \ Live]
  /\ UNCHANGED <<server, row, poll, lock, op, events, faults>>

\* Mutant: a view that cannot be read counts as empty.
SyncFailsEmpty(w) ==
  /\ SpendFault
  /\ sync[w].on /\ ~ReadBoth(w)
  /\ sync' = [sync EXCEPT ![w].got = {"active", "revoked"}]
  /\ UNCHANGED <<server, row, poll, lock, op, events>>

\* If either view fails the run ends and changes nothing.
SyncFails(w) ==
  /\ SpendFault
  /\ sync[w].on /\ ~ReadBoth(w)
  /\ EndSync(w)
  /\ UNCHANGED row

\* Mutant: the first certificate listed wins, not the newest.
UpsertOldest(w, u) ==
  /\ ReadBoth(w)
  /\ u \in Carriers(Listed(w)) \ sync[w].done
  /\ row' = [row EXCEPT ![u].cert =
       CHOOSE c \in Listed(w) \cap CarriedBy({u}) :
         \A d \in Listed(w) \cap CarriedBy({u}) : c <= d]
  /\ sync' = [sync EXCEPT ![w].done = @ \cup {u}]
  /\ UNCHANGED <<server, poll, lock, op, events, faults>>

\* upsertDevice leaves revoked and connected of an existing row alone.
Upsert(w, u) ==
  /\ ReadBoth(w)
  /\ u \in Carriers(Listed(w)) \ sync[w].done
  /\ row' = [row EXCEPT ![u].cert = Newest(Listed(w), u)]
  /\ sync' = [sync EXCEPT ![w].done = @ \cup {u}]
  /\ UNCHANGED <<server, poll, lock, op, events, faults>>

UpsertFails(w, u) ==
  /\ SpendFault
  /\ ReadBoth(w)
  /\ u \in Carriers(Listed(w)) \ sync[w].done
  /\ sync' = [sync EXCEPT ![w].done = @ \cup {u}]
  /\ UNCHANGED <<server, row, poll, lock, op, events>>

\* deleteStaleDevices, after the last upsert.
DeleteStale(w) ==
  /\ ReadBoth(w)
  /\ Carriers(Listed(w)) \subseteq sync[w].done
  /\ row' = [u \in Uids |-> IF u \in Carriers(Listed(w)) THEN row[u] ELSE NoRow]
  /\ EndSync(w)
  /\ UNCHANGED faults

DeleteFails(w) ==
  /\ SpendFault
  /\ ReadBoth(w)
  /\ Carriers(Listed(w)) \subseteq sync[w].done
  /\ EndSync(w)
  /\ UNCHANGED row

SyncDies(w) ==
  /\ SpendFault
  /\ sync[w].on
  /\ EndSync(w)
  /\ UNCHANGED row

Sync(w) ==
  \/ StartSync(w) \/ ReadActive(w) \/ ReadRevoked(w) \/ DeleteStale(w)
  \/ \E u \in Uids : Upsert(w, u)

-----------------------------------------------------------------------------
(* The subscription poller.                                                *)

Reported(w) == {r \in Reports : poll[w].report[r] # "absent"}

EndPoll(w) ==
  /\ poll' = [poll EXCEPT ![w] = NoPoll]
  /\ Releases("poll", w)
  /\ UNCHANGED <<server, sync, op, events>>

\* A poll that cannot fetch the endpoints changes nothing.
StartPoll(w) ==
  /\ poll[w].stage = "idle"
  /\ Takes("poll", w)
  /\ poll' = [poll EXCEPT ![w] = [stage |-> "fetched", report |-> link, todo |-> {}]]
  /\ UNCHANGED <<server, row, sync, op, events, faults>>

\* mergeSubscriptionFreshness: only reported uids are made connected.
Merge(w) ==
  /\ poll[w].stage = "fetched"
  /\ poll' = [poll EXCEPT ![w].stage = "recording", ![w].todo = Reported(w),
       ![w].report = [r \in Reports |->
          IF r \in Reported(w) /\ link[r] = "on" THEN "on" ELSE @[r]]]
  /\ UNCHANGED <<server, row, sync, lock, op, events, faults>>

\* The live subscriptions cannot be read: the poll goes on without them.
MergeSkipped(w) ==
  /\ SpendFault
  /\ poll[w].stage = "fetched"
  /\ poll' = [poll EXCEPT ![w].stage = "recording", ![w].todo = Reported(w)]
  /\ UNCHANGED <<server, row, sync, lock, op, events>>

\* recordLastSeen for every candidate of a reported uid.
Record(w, r) ==
  /\ poll[w].stage = "recording" /\ r \in poll[w].todo
  /\ row' = [u \in Uids |->
       IF u \in Candidates[r] /\ HasRow(u)
       THEN [row[u] EXCEPT !.connected = poll[w].report[r] = "on" /\ ~row[u].revoked]
       ELSE row[u]]
  /\ poll' = [poll EXCEPT ![w].todo = @ \ {r}]
  /\ UNCHANGED <<server, sync, lock, op, events, faults>>

RecordFails(w, r) ==
  /\ SpendFault
  /\ poll[w].stage = "recording" /\ r \in poll[w].todo
  /\ poll' = [poll EXCEPT ![w].todo = @ \ {r}]
  /\ UNCHANGED <<server, row, sync, lock, op, events>>

\* clearUnreportedConnections: all but the union of the candidates.
ClearUnreported(w) ==
  /\ poll[w].stage = "recording" /\ poll[w].todo = {}
  /\ LET reached == UNION {Candidates[r] : r \in Reported(w)}
     IN row' = [u \in Uids |->
          IF u \in reached THEN row[u] ELSE [row[u] EXCEPT !.connected = FALSE]]
  /\ EndPoll(w)
  /\ UNCHANGED faults

ClearFails(w) ==
  /\ SpendFault
  /\ poll[w].stage = "recording" /\ poll[w].todo = {}
  /\ EndPoll(w)
  /\ UNCHANGED row

PollDies(w) ==
  /\ SpendFault
  /\ poll[w].stage # "idle"
  /\ EndPoll(w)
  /\ UNCHANGED row

Poll(w) ==
  \/ StartPoll(w) \/ Merge(w) \/ ClearUnreported(w)
  \/ \E r \in Reports : Record(w, r)

-----------------------------------------------------------------------------
(* Requests that publish a revocation.                                     *)

Publish(i, shape, of, issued) ==
  /\ op[i] = NoOp
  /\ op' = [op EXCEPT ![i] = [stage |-> "pending", shape |-> shape, of |-> of,
                              issued |-> issued, targets |-> {}]]
  /\ UNCHANGED <<server, row, jobs, events, faults>>

\* Suspension, removal, revokeUserTakCertificates: everything of a user.
RevokeUser(i, user) ==
  Publish(i, "user", {user}, Issued \cap OwnedBy({user}))

\* The device routes: the requester, or whoever the requester manages, owns
\* the row.
RevokeDevice(i, u) ==
  /\ HasRow(u)
  /\ Publish(i, "device", {u}, Issued \cap CarriedBy({u}))

\* enqueueSupersedingRevoke, after a new enrolment token was minted: only an
\* unambiguous predecessor is retired.
Supersede(i, user) ==
  LET rows == {u \in Uids : HasRow(u) /\ Owner[row[u].cert] = user /\ ~row[u].revoked}
  IN \E u \in rows :
       /\ rows = {u}
       /\ Publish(i, "certs", {row[u].cert}, {row[u].cert})

-----------------------------------------------------------------------------
(* revoke_tak_certificates.  A failed attempt is put back (SyncQueue).     *)

Running(i) == op[i].stage \in {"listed", "asked", "verified"}
Back(i) == op' = [op EXCEPT ![i].stage = "pending", ![i].targets = {}]

\* resolveRevokeTargets.  A user's payload resolves against every certificate,
\* a device's against the live ones (the two views are read as one: a
\* certificate revoked in between is revoked once more).
Targets(i) ==
  CASE op[i].shape = "user" -> Issued \cap OwnedBy(op[i].of)
    [] op[i].shape = "device" -> Live \cap CarriedBy(op[i].of)
    [] OTHER -> op[i].of

\* Over the cap the whole operation is refused; with no target it is done; a
\* worker that is not armed only logs what it would revoke and completes the
\* operation, for good.
Resolve(i) ==
  /\ op[i].stage = "pending"
  /\ \E armed \in RevokeEnabled :
       op' = [op EXCEPT ![i].targets = Targets(i),
         ![i].stage = IF Cardinality(Targets(i)) > RevokeMaxCerts THEN "refused"
                      ELSE IF Targets(i) = {} THEN "done"
                      ELSE IF armed THEN "listed" ELSE "dry run"]
  /\ UNCHANGED <<server, row, jobs, events, faults>>

\* The DELETE of all targets; a faulty one does part of it, and fails or not.
Delete(i) ==
  /\ op[i].stage = "listed"
  /\ cert' = [c \in Certs |-> IF c \in op[i].targets THEN "revoked" ELSE cert[c]]
  /\ op' = [op EXCEPT ![i].stage = "asked"]
  /\ UNCHANGED <<link, row, jobs, events, faults>>

DeletePartly(i) ==
  /\ SpendFault
  /\ op[i].stage = "listed"
  /\ \E part \in SUBSET op[i].targets :
       /\ part # op[i].targets
       /\ cert' = [c \in Certs |-> IF c \in part THEN "revoked" ELSE cert[c]]
  /\ Back(i) \/ op' = [op EXCEPT ![i].stage = "asked"]
  /\ UNCHANGED <<link, row, jobs, events>>

\* Mutant: the answer to the DELETE is trusted.
VerifyNothing(i) ==
  /\ op[i].stage = "asked"
  /\ op' = [op EXCEPT ![i].stage = "verified"]
  /\ UNCHANGED <<server, row, jobs, events, faults>>

\* The targets are looked up in the revoked view.
Verify(i) ==
  /\ op[i].stage = "asked"
  /\ IF op[i].targets \subseteq Issued \ Live
     THEN op' = [op EXCEPT ![i].stage = "verified"]
     ELSE Back(i)
  /\ UNCHANGED <<server, row, jobs, events, faults>>

VerifyFails(i) ==
  /\ SpendFault
  /\ op[i].stage = "asked"
  /\ Back(i)
  /\ UNCHANGED <<server, row, jobs, events>>

\* markDevicesRevoked, for every device a target was issued to.
Mark(i) ==
  /\ op[i].stage = "verified"
  /\ row' = [u \in Uids |->
       IF u \in Carriers(op[i].targets) /\ HasRow(u)
       THEN [row[u] EXCEPT !.revoked = TRUE, !.connected = FALSE] ELSE row[u]]
  /\ op' = [op EXCEPT ![i].stage = "done"]
  /\ UNCHANGED <<server, jobs, events, faults>>

\* A failed UPDATE is logged, the operation is done all the same.
MarkFails(i) ==
  /\ SpendFault
  /\ op[i].stage = "verified"
  /\ op' = [op EXCEPT ![i].stage = "done"]
  /\ UNCHANGED <<server, row, jobs, events>>

\* The worker dies with the operation (SyncQueue!Crash).
Strand(i) ==
  /\ SpendFault
  /\ Running(i)
  /\ op' = [op EXCEPT ![i].stage = "stranded"]
  /\ UNCHANGED <<server, row, jobs, events>>

Revocation(i) == Resolve(i) \/ Delete(i) \/ Verify(i) \/ Mark(i)

-----------------------------------------------------------------------------

ServerNext ==
  \/ \E c \in Certs : Enrol(c) \/ OperatorRevokes(c)
  \/ \E r \in Reports, status \in {"absent", "off", "on"} : Connects(r, status)

RequestNext ==
  \E i \in Ops :
    \/ \E user \in Users : RevokeUser(i, user) \/ Supersede(i, user)
    \/ \E u \in Uids : RevokeDevice(i, u)

FaultNext ==
  \/ \E j \in Jobs : LosesSession(j)
  \/ \E w \in Syncers : SyncFails(w) \/ DeleteFails(w) \/ SyncDies(w)
  \/ \E w \in Syncers, u \in Uids : UpsertFails(w, u)
  \/ \E w \in Pollers : MergeSkipped(w) \/ ClearFails(w) \/ PollDies(w)
  \/ \E w \in Pollers, r \in Reports : RecordFails(w, r)
  \/ \E i \in Ops : DeletePartly(i) \/ VerifyFails(i) \/ MarkFails(i) \/ Strand(i)

Next ==
  \/ ServerNext
  \/ RequestNext
  \/ \E w \in Syncers : Sync(w)
  \/ \E w \in Pollers : Poll(w)
  \/ \E i \in Ops : Revocation(i)
  \/ FaultNext

Spec == Init /\ [][Next]_vars

\* The timers go on firing, a started run or operation goes on.
Fairness ==
  /\ \A w \in Syncers : WF_vars(Sync(w))
  /\ \A w \in Pollers : WF_vars(Poll(w))
  /\ \A i \in Ops : WF_vars(Revocation(i))

FairSpec == Spec /\ Fairness

-----------------------------------------------------------------------------
(* Properties.                                                             *)

RowType == [cert : Certs \cup {0}, revoked : BOOLEAN, connected : BOOLEAN]
SyncType == [on : BOOLEAN, got : SUBSET {"active", "revoked"}, active : SUBSET Certs,
             revoked : SUBSET Certs, done : SUBSET Uids, before : SUBSET Certs]
PollType == [stage : {"idle", "fetched", "recording"},
             report : [Reports -> {"absent", "off", "on"}], todo : SUBSET Reports]
OpType == [stage : {"none", "pending", "listed", "asked", "verified", "done", "dry run", "refused",
                    "stranded"},
           shape : {"none", "user", "device", "certs"},
           of : SUBSET (Users \cup Uids \cup Certs),
           issued : SUBSET Certs, targets : SUBSET Certs]

\* The type invariant.  A row always names a certificate: no flag is written
\* for a device without one (the code's UPDATEs match existing rows only).
TypeOK ==
  /\ cert \in [Certs -> {"none", "live", "revoked"}]
  /\ link \in [Reports -> {"absent", "off", "on"}]
  /\ row \in [Uids -> RowType]
  /\ \A u \in Uids : row[u].cert = 0 => row[u] = NoRow
  /\ \A u \in Uids : HasRow(u) => Carrier[row[u].cert] = u
  /\ sync \in [Syncers -> SyncType]
  /\ poll \in [Pollers -> PollType]
  /\ lock \in [Jobs -> SUBSET (Syncers \cup Pollers)]
  /\ op \in [Ops -> OpType]
  /\ events \in 0..MaxEvents
  /\ faults \in 0..MaxFaults

\* A device marked revoked is never shown connected, however the poller's
\* writes and a revocation's fall (recordLastSeen, markDevicesRevoked).
RevokedNeverConnected == \A u \in Uids : row[u].revoked => ~row[u].connected

\* A revocation that an armed worker finished has revoked every certificate it
\* was about when it was published, whatever failed on the way
\* (revokeTakCertificates' re-query).  A worker that is not armed ends it in a
\* "dry run", which promises nothing: the certificates stay valid.
DoneMeansRevoked ==
  \A i \in Ops : op[i].stage = "done" => op[i].issued \cap Live = {}

\* In every state the rows are well formed, a revoked device is off, and what
\* was to be revoked is.
RevocationsHold == TypeOK /\ RevokedNeverConnected /\ DoneMeansRevoked

\* A device is marked revoked only by a revocation that was confirmed for one
\* of its certificates, and then none it was sent for is still valid.
MarkedOnlyWhenConfirmed ==
  \A u \in Uids : ~row[u].revoked /\ row'[u].revoked =>
    \E i \in Ops : /\ op[i].stage = "verified"
                   /\ u \in Carriers(op[i].targets)
                   /\ op[i].targets \cap Live = {}

\* A row disappears only when its device has no valid certificate, or only ones
\* issued since the run began: a view of the TAK server that cannot be
\* read never empties the inventory (DeviceSync.run).
NoLiveDeviceDropped ==
  \A u \in Uids : HasRow(u) /\ row'[u] = NoRow =>
    \E w \in Syncers : ReadBoth(w) /\ Live \cap CarriedBy({u}) \cap sync[w].before = {}

\* Both, of every step.
RowsChangeWithCause == [][MarkedOnlyWhenConfirmed /\ NoLiveDeviceDropped]_vars

\* Every device with a valid certificate has its row, with the newest one, and
\* no other device has a row.
InventoryAgrees ==
  \A u \in Uids :
    LET valid == Live \cap CarriedBy({u})
    IN IF valid = {} THEN ~HasRow(u) ELSE row[u].cert = Newest(valid, u)

\* The devices shown as connected are those reported so, under their own uid or
\* an alias, and not marked revoked.
ConnectionsAgree ==
  \A u \in Uids : HasRow(u) =>
    (row[u].connected <=>
       /\ ~row[u].revoked
       /\ \E r \in Reports : u \in Candidates[r] /\ link[r] = "on")

\* Once the TAK server and the requests rest, the inventory and its connections
\* come to agree with the server (DeviceSync.run, SubscriptionPoller.runOnce).
InventoryConverges == <>[](InventoryAgrees /\ ConnectionsAgree)
=============================================================================
