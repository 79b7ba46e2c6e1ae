----------------------- MODULE AccountLifecycleProofs -----------------------
(* Proofs about AccountLifecycle, for every set of accounts, every page    *)
(* size and every bound.                                                   *)
EXTENDS AccountLifecycle, FiniteSetTheorems, TLAPS

LEMMA PageType ==
  ASSUME NEW page
  PROVE  Cardinality(OnPage(page)) \in Nat /\ Cardinality(Directory) \in Nat
<1>1. OnPage(page) \in SUBSET Users /\ Directory \in SUBSET Users
  BY DEF OnPage, Directory
<1> QED
  BY <1>1, FS_Subset, FS_CardinalityType, AccountLifecycleAssumption

-----------------------------------------------------------------------------
(* Types.  A row is only ever written for an account that was created:     *)
(* the run handles what it saw, or rows that existed already.              *)

HandledWereBorn ==
  \A s \in Syncs, u \in Users :
    /\ Saw(s, u) # "absent" => ak[u] # "unborn"
    /\ At(s, u, "queued") => Saw(s, u) # "absent"
    /\ At(s, u, "orphaning") \/ At(s, u, "marking") => ak[u] # "unborn"

TypeInv == TypeOK /\ HandledWereBorn

LEMMA NoRunType == NoRun \in Runs
  BY DEF NoRun, Runs, Statuses, Steps

LEMMA TypeInit == Init => TypeInv
<1> SUFFICES ASSUME Init PROVE TypeInv
  OBVIOUS
<1> USE AccountLifecycleAssumption
<1>1. PICK known \in SUBSET Users :
        /\ local = [u \in Users |-> IF u \in known THEN "active" ELSE "none"]
        /\ ak = [u \in Users |-> IF u \in known THEN "on" ELSE "unborn"]
        /\ intent = local
  BY DEF Init
<1>2. local \in [Users -> Statuses] /\ \A u \in Users : ak[u] = "unborn" => local[u] = "none"
  BY <1>1 DEF Statuses
<1>3. run \in [Syncs -> Runs]
  BY NoRunType DEF Init
<1>4. TypeOK
  BY <1>1, <1>2, <1>3 DEF Init, TypeOK
<1>5. HandledWereBorn
  BY DEF Init, HandledWereBorn, Saw, At, NoRun
<1> QED
  BY <1>4, <1>5 DEF TypeInv

\* A run that brings u to a step keeps its type, and only u's step and read
\* status change.
LEMMA ReachType ==
  ASSUME TypeOK, NEW s \in Syncs, NEW u \in Users, NEW step \in Steps,
         NEW status \in Statuses, Reach(s, u, step, status)
  PROVE  /\ run' \in [Syncs -> Runs]
         /\ \A t \in Syncs : run'[t].saw = run[t].saw /\ run'[t].stage = run[t].stage
         /\ \A t \in Syncs, v \in Users :
              run'[t].at[v] = IF t = s /\ v = u THEN step ELSE run[t].at[v]
<1>1. run \in [Syncs -> Runs]
  BY DEF TypeOK
<1>2. run' = [run EXCEPT ![s] = [run[s] EXCEPT
        !.at = [run[s].at EXCEPT ![u] = step], !.read = [run[s].read EXCEPT ![u] = status]]]
  BY <1>1 DEF Reach, Runs
<1>3. [run[s] EXCEPT !.at = [run[s].at EXCEPT ![u] = step],
                     !.read = [run[s].read EXCEPT ![u] = status]] \in Runs
  BY <1>1 DEF Runs
<1> QED
  BY <1>1, <1>2, <1>3 DEF Runs

\* Only FetchPage queues users and only StartSweep makes them candidates.
LEMMA HandledType ==
  ASSUME TypeInv, NEW s \in Syncs, NEW u \in Users, NEW step \in Steps,
         step \notin {"queued", "orphaning"}, step = "marking" => At(s, u, "orphaning"),
         NEW status \in Statuses, Reach(s, u, step, status),
         \A v \in Users : ak[v] # "unborn" => ak'[v] # "unborn"
  PROVE  run' \in [Syncs -> Runs] /\ HandledWereBorn'
<1>1. TypeOK
  BY DEF TypeInv
<1>2. /\ run' \in [Syncs -> Runs]
      /\ \A t \in Syncs : run'[t].saw = run[t].saw
      /\ \A t \in Syncs, v \in Users :
           run'[t].at[v] = IF t = s /\ v = u THEN step ELSE run[t].at[v]
  BY <1>1, ReachType
<1>3. ASSUME NEW t \in Syncs, NEW v \in Users
      PROVE  /\ run'[t].saw[v] # "absent" => ak'[v] # "unborn"
             /\ run'[t].at[v] = "queued" => run'[t].saw[v] # "absent"
             /\ run'[t].at[v] \in {"orphaning", "marking"} => ak'[v] # "unborn"
  BY <1>2 DEF TypeInv, HandledWereBorn, Saw, At
<1> QED
  BY <1>2, <1>3 DEF HandledWereBorn, Saw, At

LEMMA StageFields ==
  ASSUME NEW r \in Runs, NEW stage \in {"syncing", "sweeping"}, NEW at \in [Users -> Steps]
  PROVE  LET q == [r EXCEPT !.stage = stage, !.at = at]
         IN  q \in Runs /\ q.saw = r.saw /\ q.at = at
  BY DEF Runs

\* A page adds what it lists; the last one queues every user listed.
LEMMA FetchedType ==
  ASSUME NEW r \in Runs
  PROVE  /\ Fetched(r) \in Runs /\ Fetched(r).at = r.at
         /\ \A u \in Users :
              Fetched(r).saw[u] # "absent" => ak[u] # "unborn" \/ r.saw[u] # "absent"
<1> DEFINE saw == [u \in Users |-> IF u \in OnPage(r.page) THEN ak[u] ELSE r.saw[u]]
           page == r.page + 1
           reported == Cardinality(Directory)
           count == r.count + Cardinality(OnPage(r.page))
<1>1. saw \in [Users -> {"absent", "on", "off"}]
  BY DEF Runs, OnPage, Directory, Exists
<1>2. \A u \in Users : saw[u] # "absent" => ak[u] # "unborn" \/ r.saw[u] # "absent"
  BY DEF OnPage, Directory, Exists
<1>3. count \in Nat /\ page \in Nat \ {0} /\ reported \in Nat
  BY PageType DEF Runs
<1>4. Fetched(r) = [r EXCEPT !.page = page, !.count = count,
                             !.reported = reported, !.saw = saw]
  BY DEF Fetched
<1> HIDE DEF saw, count, page, reported
<1>5. LET q == [r EXCEPT !.page = page, !.count = count,
                         !.reported = reported, !.saw = saw]
      IN  q \in Runs /\ q.saw = saw /\ q.at = r.at
  BY <1>1, <1>3 DEF Runs
<1>6. Fetched(r) \in Runs /\ Fetched(r).saw = saw /\ Fetched(r).at = r.at
  BY <1>4, <1>5, Zenon
<1> QED
  BY <1>2, <1>6

LEMMA QueuedType ==
  ASSUME NEW r \in Runs
  PROVE  /\ Queued(r) \in Runs /\ Queued(r).saw = r.saw
         /\ \A u \in Users : Queued(r).at[u] \in {"none", "queued"}
         /\ \A u \in Users : Queued(r).at[u] = "queued" => r.saw[u] # "absent"
<1> DEFINE at == [u \in Users |-> IF r.saw[u] # "absent" THEN "queued" ELSE "none"]
<1>1. at \in [Users -> Steps]
      /\ \A u \in Users : at[u] \in {"none", "queued"} /\ (at[u] = "queued" => r.saw[u] # "absent")
  BY DEF Steps
<1>2. Queued(r) = [r EXCEPT !.stage = "syncing", !.at = at]
  BY DEF Queued
<1> HIDE DEF at
<1>3. LET q == [r EXCEPT !.stage = "syncing", !.at = at]
      IN  q \in Runs /\ q.saw = r.saw /\ q.at = at
  BY <1>1, StageFields
<1>4. Queued(r) \in Runs /\ Queued(r).saw = r.saw /\ Queued(r).at = at
  BY <1>2, <1>3, Zenon
<1> QED
  BY <1>1, <1>4

\* StartSweep makes candidates only of rows that exist and were not fetched.
LEMMA SweepSteps ==
  ASSUME TypeOK, NEW s \in Syncs, StartSweep(s)
  PROVE  \E at \in [Users -> {"none", "orphaning"}] :
           /\ run' = [run EXCEPT ![s] = [run[s] EXCEPT !.stage = "sweeping", !.at = at]]
           /\ \A u \in Users : at[u] = "orphaning" =>
                Saw(s, u) = "absent" /\ local[u] \in {"active", "suspended"}
<1> DEFINE swept(u) == Saw(s, u) = "absent" /\ local[u] \in {"active", "suspended"}
           complete == run[s].count = run[s].reported /\ run[s].count > 0
           at == [u \in Users |-> IF complete /\ swept(u) THEN "orphaning" ELSE "none"]
<1>1. at \in [Users -> {"none", "orphaning"}]
      /\ \A u \in Users : at[u] = "orphaning" => swept(u)
  OBVIOUS
<1>2. run' = [run EXCEPT ![s] = [run[s] EXCEPT !.stage = "sweeping", !.at = at]]
  BY DEF StartSweep, TypeOK, Runs
<1> QED
  BY <1>1, <1>2

-----------------------------------------------------------------------------
LEMMA ActType ==
  ASSUME TypeOK, NEW u \in Users, NEW status \in Statuses, Act(u, status)
  PROVE  intent' \in [Users -> Statuses] /\ acts' \in 0..MaxActs
         /\ faults' \in 0..MaxFaults /\ run' = run
  BY AccountLifecycleAssumption DEF Act, TypeOK

LEMMA TypeStep == TypeInv /\ [Next]_vars => TypeInv'
<1> SUFFICES ASSUME TypeInv, [Next]_vars PROVE TypeInv'
  OBVIOUS
<1> USE AccountLifecycleAssumption
<1>0. TypeOK /\ HandledWereBorn
  BY DEF TypeInv
<1>a. ASSUME run' = run, \A u \in Users : ak[u] # "unborn" => ak'[u] # "unborn"
      PROVE  HandledWereBorn'
  BY <1>0, <1>a DEF HandledWereBorn, Saw, At
<1>c. ASSUME SpendFault PROVE faults' \in 0..MaxFaults
  BY <1>0, <1>c DEF SpendFault, TypeOK
<1>1. ASSUME NEW u \in Users, Suspend(u) PROVE TypeInv'
  <2>1. intent' \in [Users -> Statuses] /\ acts' \in 0..MaxActs /\ faults' = faults /\ run' = run
    BY <1>0, <1>1, ActType DEF Suspend, Act, Statuses
  <2>2. HandledWereBorn'
    BY <1>1, <1>a, <2>1 DEF Suspend
  <2>3. patches' \subseteq Users \X {"on", "off"}
    BY <1>0, <1>1 DEF Suspend, TypeOK
  <2>4. local' \in [Users -> Statuses] /\ \A v \in Users : ak[v] = "unborn" => local'[v] = "none"
    BY <1>0, <1>1 DEF Suspend, TypeOK, Statuses
  <2> QED
    BY <1>0, <1>1, <2>1, <2>2, <2>3, <2>4 DEF Suspend, Overrides, TypeOK, TypeInv
<1>2. ASSUME NEW u \in Users, Unsuspend(u) PROVE TypeInv'
  <2>1. intent' \in [Users -> Statuses] /\ acts' \in 0..MaxActs /\ faults' = faults /\ run' = run
    BY <1>0, <1>2, ActType DEF Unsuspend, Act, Statuses
  <2>2. HandledWereBorn'
    BY <1>2, <1>a, <2>1 DEF Unsuspend
  <2>3. patches' \subseteq Users \X {"on", "off"}
    BY <1>0, <1>2 DEF Unsuspend, TypeOK
  <2>4. local' \in [Users -> Statuses] /\ \A v \in Users : ak[v] = "unborn" => local'[v] = "none"
    BY <1>0, <1>2 DEF Unsuspend, TypeOK, Statuses
  <2> QED
    BY <1>0, <1>2, <2>1, <2>2, <2>3, <2>4 DEF Unsuspend, Overrides, TypeOK, TypeInv
<1>3. ASSUME PatchNext PROVE TypeInv'
  <2>1. PICK u \in Users, value \in {"on", "off"} : Patch(u, value)
    BY <1>3 DEF PatchNext
  <2>2. HandledWereBorn'
    BY <1>0, <1>a, <2>1 DEF Patch, TypeOK, Exists
  <2> QED
    BY <1>0, <2>1, <2>2 DEF Patch, TypeOK, TypeInv, Exists, history
<1>4. ASSUME NEW u \in Users, NEW value \in {"on", "off"}, PatchFails(u, value) PROVE TypeInv'
  <2>1. HandledWereBorn'
    BY <1>4, <1>a DEF PatchFails
  <2> QED
    BY <1>0, <1>4, <1>c, <2>1 DEF PatchFails, TypeOK, TypeInv
<1>5. ASSUME NEW u \in Users, Provision(u) PROVE TypeInv'
  <2>1. intent' \in [Users -> Statuses] /\ acts' \in 0..MaxActs /\ faults' = faults /\ run' = run
    BY <1>0, <1>5, ActType DEF Provision, Act, Statuses
  <2>2. HandledWereBorn'
    BY <1>0, <1>5, <1>a, <2>1 DEF Provision, TypeOK
  <2> QED
    BY <1>0, <1>5, <2>1, <2>2 DEF Provision, Overrides, TypeOK, TypeInv, Statuses
<1>6. ASSUME NEW u \in Users, OperatorCreates(u) PROVE TypeInv'
  <2>1. intent' \in [Users -> Statuses] /\ acts' \in 0..MaxActs /\ faults' = faults /\ run' = run
    BY <1>0, <1>6, ActType DEF OperatorCreates, Act, Statuses
  <2>2. HandledWereBorn'
    BY <1>0, <1>6, <1>a, <2>1 DEF OperatorCreates, TypeOK
  <2> QED
    BY <1>0, <1>6, <2>1, <2>2 DEF OperatorCreates, IsToBeFollowed, TypeOK, TypeInv
<1>7. ASSUME NEW u \in Users, NEW value \in {"on", "off"}, OperatorSets(u, value) PROVE TypeInv'
  <2>1. intent' \in [Users -> Statuses] /\ acts' \in 0..MaxActs /\ faults' = faults /\ run' = run
    BY <1>0, <1>7, ActType DEF OperatorSets, Act, Statuses, Status
  <2>2. HandledWereBorn'
    BY <1>0, <1>7, <1>a, <2>1 DEF OperatorSets, TypeOK
  <2> QED
    BY <1>0, <1>7, <2>1, <2>2 DEF OperatorSets, IsToBeFollowed, TypeOK, TypeInv, Exists
<1>8. ASSUME NEW u \in Users, OperatorDeletes(u) PROVE TypeInv'
  <2>1. intent' \in [Users -> Statuses] /\ acts' \in 0..MaxActs /\ faults' = faults /\ run' = run
    BY <1>0, <1>8, ActType DEF OperatorDeletes, Act, Statuses
  <2>2. HandledWereBorn'
    BY <1>0, <1>8, <1>a, <2>1 DEF OperatorDeletes, TypeOK
  <2> QED
    BY <1>0, <1>8, <2>1, <2>2 DEF OperatorDeletes, IsToBeFollowed, TypeOK, TypeInv, Exists
<1>9. ASSUME NEW s \in Syncs, StartRun(s) PROVE TypeInv'
  <2>1. run' = [run EXCEPT ![s] = [NoRun EXCEPT !.stage = "fetching"]]
    BY <1>9 DEF StartRun
  <2>2. [NoRun EXCEPT !.stage = "fetching"] \in Runs
    BY DEF NoRun, Runs, Statuses, Steps
  <2>3. HandledWereBorn'
    BY <1>0, <1>9, <2>1 DEF HandledWereBorn, Saw, At, NoRun, StartRun, accounts, TypeOK
  <2> QED
    BY <1>0, <1>9, <2>1, <2>2, <2>3 DEF StartRun, TypeOK, TypeInv, accounts
<1>10. ASSUME NEW s \in Syncs, FetchPage(s) PROVE TypeInv'
  <2> DEFINE r == run[s]
             fetched == Fetched(r)
             queued == Queued(fetched)
  <2>1. r \in Runs
    BY <1>0 DEF TypeOK
  <2>2. fetched \in Runs /\ fetched.at = r.at
        /\ \A u \in Users : fetched.saw[u] # "absent" => ak[u] # "unborn" \/ r.saw[u] # "absent"
    BY <2>1, FetchedType
  <2>3. \A u \in Users : fetched.saw[u] # "absent" => ak[u] # "unborn"
    BY <1>0, <2>2 DEF HandledWereBorn, Saw
  <2>4. /\ queued \in Runs /\ queued.saw = fetched.saw
        /\ \A u \in Users : queued.at[u] \in {"none", "queued"}
        /\ \A u \in Users : queued.at[u] = "queued" => fetched.saw[u] # "absent"
    BY <2>2, QueuedType
  <2>5. r.stage = "fetching"
        /\ run' \in {[run EXCEPT ![s] = fetched], [run EXCEPT ![s] = NoRun],
                    [run EXCEPT ![s] = queued]}
    BY <1>10 DEF FetchPage
  <2>6. UNCHANGED <<accounts, history, acts, faults>>
    BY <1>10 DEF FetchPage
  <2>f. ASSUME NEW u \in Users, fetched.saw[u] = "absent" PROVE r.saw[u] = "absent"
    BY <2>1, <2>f DEF Fetched, Runs, OnPage, Directory, Exists
  <2> HIDE DEF fetched, queued
  <2>7. run' \in [Syncs -> Runs]
    BY <1>0, <2>2, <2>4, <2>5, NoRunType DEF TypeOK
  <2>8. ASSUME NEW t \in Syncs, NEW u \in Users
        PROVE  /\ run'[t].saw[u] # "absent" => ak[u] # "unborn"
               /\ run'[t].at[u] = "queued" => run'[t].saw[u] # "absent"
               /\ run'[t].at[u] \in {"orphaning", "marking"} => ak[u] # "unborn"
    <3>1. CASE run' = [run EXCEPT ![s] = fetched]
      BY <1>0, <2>2, <2>3, <2>f, <3>1 DEF TypeOK, HandledWereBorn, Saw, At
    <3>2. CASE run' = [run EXCEPT ![s] = NoRun]
      BY <1>0, <3>2 DEF TypeOK, HandledWereBorn, Saw, At, NoRun
    <3>3. CASE run' = [run EXCEPT ![s] = queued]
      BY <1>0, <2>3, <2>4, <3>3 DEF TypeOK, HandledWereBorn, Saw, At
    <3> QED
      BY <2>5, <3>1, <3>2, <3>3
  <2>9. HandledWereBorn'
    BY <2>6, <2>8 DEF HandledWereBorn, Saw, At, accounts
  <2> QED
    BY <1>0, <2>6, <2>7, <2>9 DEF TypeOK, TypeInv, accounts, history
<1>11. ASSUME NEW s \in Syncs, NEW u \in Users, SyncUser(s, u) PROVE TypeInv'
  <2>1. CASE ReadLocal(s, u)
    <3>1. local[u] \in Statuses /\ Saw(s, u) # "absent" /\ ak[u] # "unborn"
      BY <1>0, <2>1 DEF ReadLocal, TypeOK, HandledWereBorn
    <3>2. PICK status \in Statuses, step \in {"none", "read"} :
            local' = [local EXCEPT ![u] = status] /\ Reach(s, u, step, status)
      BY <2>1, <3>1 DEF ReadLocal, Statuses
    <3>3. run' \in [Syncs -> Runs] /\ HandledWereBorn'
      BY HandledType, <2>1, <3>2 DEF ReadLocal, Steps
    <3> QED
      BY <1>0, <2>1, <3>1, <3>2, <3>3 DEF ReadLocal, TypeOK, TypeInv, history
  <2>2. CASE ExternalLock(s, u)
    <3>1. run' \in [Syncs -> Runs] /\ HandledWereBorn'
      BY HandledType, <2>2 DEF ExternalLock, Steps, Statuses
    <3>2. ak[u] # "unborn"
      BY <1>0, <2>2 DEF ExternalLock, NeedsLock, HandledWereBorn
    <3> QED
      BY <1>0, <2>2, <3>1, <3>2 DEF ExternalLock, TypeOK, TypeInv, history, Statuses
  <2>3. CASE LockRevokes(s, u)
    <3>1. run' \in [Syncs -> Runs] /\ HandledWereBorn'
      BY HandledType, <2>3 DEF LockRevokes, Steps, Statuses
    <3> QED
      BY <1>0, <2>3, <3>1 DEF LockRevokes, TypeOK, TypeInv, history
  <2>4. CASE ExternalUnlock(s, u)
    <3>1. run' \in [Syncs -> Runs] /\ HandledWereBorn'
      BY HandledType, <2>4 DEF ExternalUnlock, Steps, Statuses
    <3>2. ak[u] # "unborn"
      BY <1>0, <2>4 DEF ExternalUnlock, NeedsUnlock, HandledWereBorn
    <3> QED
      BY <1>0, <2>4, <3>1, <3>2 DEF ExternalUnlock, TypeOK, TypeInv, history, Statuses
  <2>5. ASSUME NEW differ \in BOOLEAN, Push(s, u, differ) PROVE TypeInv'
    <3>1. \A v \in Users : ak[v] # "unborn" <=> ak'[v] # "unborn"
      BY <1>0, <2>5 DEF Push, TypeOK, Exists, Value
    <3>2. run' \in [Syncs -> Runs] /\ HandledWereBorn'
      BY HandledType, <2>5, <3>1 DEF Push, Steps, Statuses
    <3> QED
      BY <1>0, <2>5, <3>1, <3>2 DEF Push, TypeOK, TypeInv, Value
  <2>6. CASE SweepRevoke(s, u)
    <3>1. run' \in [Syncs -> Runs] /\ HandledWereBorn'
      BY HandledType, <2>6 DEF SweepRevoke, Steps, Statuses
    <3> QED
      BY <1>0, <2>6, <3>1 DEF SweepRevoke, TypeOK, TypeInv, history
  <2>7. CASE SweepMark(s, u)
    <3>1. run' \in [Syncs -> Runs] /\ HandledWereBorn'
      BY HandledType, <2>7 DEF SweepMark, Steps, Statuses
    <3>2. ak[u] # "unborn"
      BY <1>0, <2>7 DEF SweepMark, HandledWereBorn
    <3> QED
      BY <1>0, <2>7, <3>1, <3>2 DEF SweepMark, TypeOK, TypeInv, Statuses
  <2> QED
    BY <1>11, <2>1, <2>2, <2>3, <2>4, <2>5, <2>6, <2>7 DEF SyncUser
<1>12. ASSUME NEW s \in Syncs, StartSweep(s) PROVE TypeInv'
  <2> DEFINE swept(u) == Saw(s, u) = "absent" /\ local[u] \in {"active", "suspended"}
  <2>1. PICK at \in [Users -> {"none", "orphaning"}] :
          /\ run' = [run EXCEPT ![s] = [run[s] EXCEPT !.stage = "sweeping", !.at = at]]
          /\ \A u \in Users : at[u] = "orphaning" => swept(u)
    BY <1>0, <1>12, SweepSteps
  <2>2. [run[s] EXCEPT !.stage = "sweeping", !.at = at] \in Runs
    <3>1. at \in [Users -> Steps]
      BY <2>1 DEF Steps
    <3>2. run[s] \in Runs
      BY <1>0 DEF TypeOK
    <3> QED
      BY <3>1, <3>2, StageFields
  <2>3. \A u \in Users : swept(u) => ak[u] # "unborn"
    BY <1>0 DEF TypeOK
  <2>4. UNCHANGED <<accounts, history, acts, faults>>
    BY <1>12 DEF StartSweep
  <2>5. HandledWereBorn'
    BY <1>0, <2>1, <2>3, <2>4 DEF HandledWereBorn, Saw, At, accounts, TypeOK, Runs
  <2> QED
    BY <1>0, <2>1, <2>2, <2>4, <2>5 DEF TypeOK, TypeInv, accounts, history
<1>13. ASSUME NEW s \in Syncs, EndRun(s) \/ AbandonRun(s) PROVE TypeInv'
  <2>1. run' = [run EXCEPT ![s] = NoRun] /\ UNCHANGED accounts
    BY <1>13 DEF EndRun, AbandonRun
  <2>2. run' \in [Syncs -> Runs]
    BY <1>0, <2>1, NoRunType DEF TypeOK
  <2>3. HandledWereBorn'
    BY <1>0, <2>1 DEF HandledWereBorn, Saw, At, NoRun, accounts, TypeOK
  <2>4. missed' \subseteq Users /\ faults' \in 0..MaxFaults
    BY <1>0, <1>13, <1>c DEF EndRun, AbandonRun, TypeOK, history
  <2> QED
    BY <1>0, <1>13, <2>1, <2>2, <2>3, <2>4 DEF EndRun, AbandonRun, TypeOK, TypeInv, accounts, history
<1>14. ASSUME NEW s \in Syncs, NEW u \in Users,
              LockFails(s, u) \/ SyncFails(s, u) \/ SweepFails(s, u)
       PROVE  TypeInv'
  <2>1. UNCHANGED accounts /\ (Reach(s, u, "push", "active") \/ Reach(s, u, "none", "none"))
    BY <1>14 DEF LockFails, SyncFails, SweepFails
  <2>2. run' \in [Syncs -> Runs] /\ HandledWereBorn'
    BY HandledType, <2>1 DEF Steps, Statuses, accounts
  <2>3. missed' \subseteq Users /\ faults' \in 0..MaxFaults /\ UNCHANGED <<intent, disturbed, lag, acts>>
    BY <1>0, <1>14, <1>c DEF LockFails, SyncFails, SweepFails, TypeOK, history
  <2> QED
    BY <1>0, <2>1, <2>2, <2>3 DEF TypeOK, TypeInv, accounts
<1>15. ASSUME NEW s \in Syncs, NEW u \in Users, UnlockFails(s, u) PROVE TypeInv'
  <2>1. run' \in [Syncs -> Runs] /\ HandledWereBorn'
    BY HandledType, <1>15 DEF UnlockFails, Steps, Statuses
  <2>2. ak[u] # "unborn"
    BY <1>0, <1>15 DEF UnlockFails, NeedsUnlock, HandledWereBorn
  <2>3. PICK status \in {local[u], "active"} :
          /\ local' = [local EXCEPT ![u] = status]
          /\ revoked' \subseteq revoked
    BY <1>15 DEF UnlockFails
  <2>4. local' \in [Users -> Statuses] /\ (\A v \in Users : ak[v] = "unborn" => local'[v] = "none")
    BY <1>0, <2>2, <2>3 DEF TypeOK, Statuses
  <2> QED
    BY <1>0, <1>15, <1>c, <2>1, <2>3, <2>4 DEF UnlockFails, TypeOK, TypeInv
<1>16. ASSUME UNCHANGED vars PROVE TypeInv'
  BY <1>0, <1>16 DEF vars, accounts, history, TypeInv, TypeOK, HandledWereBorn, Saw, At
<1> QED
  BY <1>1, <1>2, <1>3, <1>4, <1>5, <1>6, <1>7, <1>8, <1>9, <1>10, <1>11, <1>12, <1>13,
     <1>14, <1>15, <1>16
     DEF Next, Administer, Operate, SyncNext, Fail

\* Every variable of AccountLifecycle keeps its type, and no row exists for
\* an account that was never created.
THEOREM TypeCorrect == Spec => []TypeOK
<1>1. TypeInv => TypeOK
  BY DEF TypeInv
<1> QED
  BY TypeInit, TypeStep, <1>1, PTL DEF Spec

-----------------------------------------------------------------------------
(* Certificates.  RevokedWhenCut looks at accounts that are cut off; what  *)
(* makes it inductive is what the sweep has already done for an account it *)
(* is about to cut off.  An unlock by another process's run could come in  *)
(* between, so the theorem is about one process.                           *)

MarkingRevoked ==
  \A s \in Syncs, u \in Users : At(s, u, "marking") => u \in revoked \cup disturbed

\* No account is at a step before its run has fetched everything, so what an
\* administrator does between runs is not overtaken by one.
SyncingBeforeSteps ==
  \A s \in Syncs, u \in Users : run[s].stage \in {"idle", "fetching"} => At(s, u, "none")

CutInv == TypeInv /\ RevokedWhenCut /\ MarkingRevoked /\ SyncingBeforeSteps

LEMMA CutInit == Init => CutInv
<1> SUFFICES ASSUME Init PROVE CutInv
  OBVIOUS
<1>1. TypeInv
  BY TypeInit
<1>2. \A s \in Syncs, u \in Users : At(s, u, "none")
  BY DEF Init, NoRun, At
<1>3. \A u \in Users : local[u] \in {"none", "active"}
  BY DEF Init
<1>4. RevokedWhenCut
  BY <1>3 DEF RevokedWhenCut
<1> QED
  BY <1>1, <1>2, <1>4 DEF CutInv, MarkingRevoked, SyncingBeforeSteps, At

LEMMA CutStep ==
  ASSUME \A s, t \in Syncs : s = t
  PROVE  CutInv /\ [Next]_vars => CutInv'
<1> SUFFICES ASSUME CutInv, [Next]_vars PROVE CutInv'
  OBVIOUS
<1>0. TypeInv /\ TypeOK /\ RevokedWhenCut /\ MarkingRevoked /\ SyncingBeforeSteps
  BY DEF CutInv, TypeInv
<1>t. TypeInv' /\ TypeOK'
  BY <1>0, TypeStep DEF TypeInv
<1>a. ASSUME NEW u \in Users, NEW status \in {"active", "suspended"},
             run' = run, Overrides(u), local' = [local EXCEPT ![u] = status],
             \A v \in Users : v # u => (v \in revoked' <=> v \in revoked),
             status = "suspended" => u \in revoked'
      PROVE  CutInv'
  <2>1. \A v \in Users : v # u => /\ local'[v] = local[v]
                                  /\ v \in disturbed' <=> v \in disturbed
                                  /\ v \in missed' <=> v \in missed
                                  /\ v \in revoked' <=> v \in revoked
    BY <1>0, <1>a DEF Overrides, TypeOK
  <2>2. local'[u] = status /\ (status = "suspended" => u \in revoked')
    BY <1>0, <1>a DEF TypeOK
  <2>3. RevokedWhenCut'
    BY <1>0, <1>a, <2>1, <2>2 DEF RevokedWhenCut, At
  <2>4. ASSUME NEW s \in Syncs, At(s, u, "marking") PROVE u \in disturbed'
    <3>1. Syncing
      BY <1>0, <2>4 DEF SyncingBeforeSteps, Syncing, At
    <3> QED
      BY <1>a, <3>1 DEF Overrides
  <2>5. MarkingRevoked'
    BY <1>0, <1>a, <2>1, <2>4 DEF MarkingRevoked, At
  <2>6. SyncingBeforeSteps'
    BY <1>0, <1>a DEF SyncingBeforeSteps, At
  <2> QED
    BY <1>t, <2>3, <2>5, <2>6 DEF CutInv
<1>b. ASSUME run' = run, local' = local, revoked' = revoked,
             disturbed \subseteq disturbed', missed \subseteq missed'
      PROVE  CutInv'
  <2>1. RevokedWhenCut' /\ MarkingRevoked' /\ SyncingBeforeSteps'
    BY <1>0, <1>b DEF RevokedWhenCut, MarkingRevoked, SyncingBeforeSteps, At
  <2> QED
    BY <1>t, <2>1 DEF CutInv
<1>1. ASSUME Administer PROVE CutInv'
  <2>1. ASSUME NEW u \in Users, Suspend(u) PROVE CutInv'
    <3>1. run' = run /\ Overrides(u) /\ local' = [local EXCEPT ![u] = "suspended"]
      BY <2>1 DEF Suspend, Act
    <3>2. /\ \A v \in Users : v # u => (v \in revoked' <=> v \in revoked)
          /\ "suspended" = "suspended" => u \in revoked'
      BY <2>1 DEF Suspend
    <3> QED
      BY <1>a, <3>1, <3>2
  <2>2. ASSUME NEW u \in Users, Unsuspend(u) PROVE CutInv'
    <3>1. run' = run /\ Overrides(u) /\ local' = [local EXCEPT ![u] = "active"]
      BY <2>2 DEF Unsuspend, Act
    <3>2. /\ \A v \in Users : v # u => (v \in revoked' <=> v \in revoked)
          /\ "active" = "suspended" => u \in revoked'
      BY <2>2 DEF Unsuspend
    <3> QED
      BY <1>a, <3>1, <3>2
  <2>3. ASSUME NEW u \in Users, Provision(u) PROVE CutInv'
    BY <1>a, <2>3 DEF Provision, Act
  <2>4. ASSUME NEW u \in Users, NEW value \in {"on", "off"}, PatchFails(u, value) PROVE CutInv'
    BY <1>b, <2>4 DEF PatchFails
  <2> QED
    BY <1>1, <2>1, <2>2, <2>3, <2>4 DEF Administer
<1>2. ASSUME Operate PROVE CutInv'
  <2>1. ASSUME NEW us \in SUBSET Users, NEW u \in Users, IsToBeFollowed(us, u)
        PROVE  disturbed \subseteq disturbed' /\ missed' = missed
    BY <2>1 DEF IsToBeFollowed
  <2>2. ASSUME NEW u \in Users, OperatorCreates(u) PROVE CutInv'
    BY <1>b, <2>1, <2>2 DEF OperatorCreates, Act
  <2>3. ASSUME NEW u \in Users, NEW value \in {"on", "off"}, OperatorSets(u, value) PROVE CutInv'
    BY <1>b, <2>1, <2>3 DEF OperatorSets, Act
  <2>4. ASSUME NEW u \in Users, OperatorDeletes(u) PROVE CutInv'
    <3>1. {v \in Users : v >= u} \in SUBSET Users
      OBVIOUS
    <3> QED
      BY <1>b, <2>1, <2>4, <3>1 DEF OperatorDeletes, Act
  <2> QED
    BY <1>2, <2>2, <2>3, <2>4 DEF Operate
<1>3. ASSUME PatchNext PROVE CutInv'
  BY <1>3, <1>b DEF PatchNext, Patch, history
<1>c. ASSUME NEW s \in Syncs, NEW u \in Users, NEW step \in Steps, NEW status \in Statuses,
             Reach(s, u, step, status), ~At(s, u, "none") \/ step = "none",
             \A v \in Users : v # u => local'[v] = local[v] /\ (v \in revoked' <=> v \in revoked),
             disturbed' = disturbed, missed \subseteq missed',
             u \in revoked' \cup disturbed \/
               /\ local'[u] # "orphaned"
               /\ local'[u] = "suspended" => u \in missed' \/ step = "locking"
               /\ step # "marking"
      PROVE  CutInv'
  <2>1. /\ \A t \in Syncs : run'[t].stage = run[t].stage
        /\ \A t \in Syncs, v \in Users :
             run'[t].at[v] = IF t = s /\ v = u THEN step ELSE run[t].at[v]
    BY <1>0, <1>c, ReachType
  <2>2. RevokedWhenCut'
    BY <1>0, <1>c, <2>1 DEF RevokedWhenCut, At
  <2>3. MarkingRevoked'
    BY <1>0, <1>c, <2>1 DEF MarkingRevoked, At
  <2>4. SyncingBeforeSteps'
    BY <1>0, <1>c, <2>1 DEF SyncingBeforeSteps, At
  <2> QED
    BY <1>t, <2>2, <2>3, <2>4 DEF CutInv
\* What RevokedWhenCut says of an account that the run of s has in hand.
<1>d. ASSUME NEW s \in Syncs, NEW u \in Users, ~At(s, u, "locking")
      PROVE  u \in revoked \cup disturbed \/
               /\ local[u] # "orphaned"
               /\ local[u] = "suspended" => u \in missed
  BY <1>0, <1>d DEF RevokedWhenCut, At
<1>4. ASSUME NEW s \in Syncs, NEW u \in Users, SyncUser(s, u) PROVE CutInv'
  <2>1. CASE ReadLocal(s, u)
    <3>1. local[u] \in Statuses /\ At(s, u, "queued")
      BY <1>0, <2>1 DEF ReadLocal, TypeOK
    <3>2. PICK status \in Statuses, step \in {"none", "read"} :
            /\ local' = [local EXCEPT ![u] = status] /\ Reach(s, u, step, status)
            /\ status = local[u] \/ status = "active"
      BY <2>1, <3>1 DEF ReadLocal, Statuses
    <3> QED
      BY <1>0, <1>c, <1>d, <2>1, <3>1, <3>2 DEF ReadLocal, Steps, At, TypeOK, history
  <2>2. CASE ExternalLock(s, u)
    BY <1>0, <1>c, <2>2 DEF ExternalLock, NeedsLock, Steps, Statuses, At, TypeOK, history
  <2>3. CASE LockRevokes(s, u)
    BY <1>0, <1>c, <2>3 DEF LockRevokes, Steps, Statuses, At, TypeOK, history
  <2>4. CASE ExternalUnlock(s, u)
    BY <1>0, <1>c, <2>4 DEF ExternalUnlock, NeedsUnlock, Steps, Statuses, At, TypeOK, history
  <2>5. ASSUME NEW differ \in BOOLEAN, Push(s, u, differ) PROVE CutInv'
    <3>1. ~At(s, u, "locking") /\ ~At(s, u, "none")
      BY <2>5 DEF Push, ReadyToPush, At
    <3> QED
      BY <1>c, <1>d, <2>5, <3>1 DEF Push, Steps, Statuses
  <2>6. CASE SweepRevoke(s, u)
    BY <1>0, <1>c, <2>6 DEF SweepRevoke, Steps, Statuses, At, history
  <2>7. CASE SweepMark(s, u)
    <3>1. u \in revoked \cup disturbed /\ ~At(s, u, "none")
      BY <1>0, <2>7 DEF SweepMark, MarkingRevoked, At
    <3> QED
      BY <1>0, <1>c, <2>7, <3>1 DEF SweepMark, Steps, Statuses, TypeOK
  <2> QED
    BY <1>4, <2>1, <2>2, <2>3, <2>4, <2>5, <2>6, <2>7 DEF SyncUser
<1>5. ASSUME NEW s \in Syncs, NEW u \in Users,
             LockFails(s, u) \/ SyncFails(s, u) \/ SweepFails(s, u)
      PROVE  CutInv'
  <2>1. CASE LockFails(s, u)
    <3>1. Reach(s, u, "push", "active") /\ u \in missed' /\ ~At(s, u, "none")
      BY <2>1 DEF LockFails, NeedsLock, At
    <3>2. u \in revoked \cup disturbed \/ local[u] # "orphaned"
      BY <1>0 DEF RevokedWhenCut
    <3> QED
      BY <1>c, <2>1, <3>1, <3>2 DEF LockFails, Steps, Statuses, accounts
  <2>2. CASE SyncFails(s, u) \/ SweepFails(s, u)
    <3>1. Reach(s, u, "none", "none") /\ ~At(s, u, "locking")
      BY <2>2 DEF SyncFails, SweepFails, ReadyToPush, At
    <3> QED
      BY <1>c, <1>d, <2>2, <3>1 DEF SyncFails, SweepFails, Steps, Statuses, accounts, history
  <2> QED
    BY <1>5, <2>1, <2>2
<1>6. ASSUME NEW s \in Syncs, NEW u \in Users, UnlockFails(s, u) PROVE CutInv'
  <2>1. Reach(s, u, "push", "suspended") /\ u \in missed' /\ At(s, u, "read")
    BY <1>6 DEF UnlockFails, NeedsUnlock
  <2>2. PICK status \in {local[u], "active"} :
          /\ local' = [local EXCEPT ![u] = status]
          /\ revoked' = IF status = "active" THEN revoked \ {u} ELSE revoked
    BY <1>6 DEF UnlockFails
  <2>3. u \in revoked \cup disturbed \/ local[u] # "orphaned"
    BY <1>0 DEF RevokedWhenCut
  <2> QED
    BY <1>0, <1>c, <1>6, <2>1, <2>2, <2>3 DEF UnlockFails, Steps, Statuses, At, TypeOK
<1>7. ASSUME NEW s \in Syncs,
             StartRun(s) \/ FetchPage(s) \/ StartSweep(s) \/ EndRun(s) \/ AbandonRun(s)
      PROVE  CutInv'
  <2>1. /\ local' = local /\ revoked' = revoked
        /\ disturbed \subseteq disturbed' /\ missed \subseteq missed'
    BY <1>7 DEF StartRun, FetchPage, StartSweep, EndRun, AbandonRun, accounts, history
  <2>2. /\ \A t \in Syncs : t # s => run'[t] = run[t]
        /\ \A u \in Users : run'[s].at[u] \in {"none", "queued", "orphaning"}
        /\ run'[s].stage \in {"idle", "fetching"} => \A u \in Users : run'[s].at[u] = "none"
        /\ \A u \in Users : At(s, u, "locking") => u \in missed'
    <3>1. CASE StartRun(s)
      BY <1>0, <3>1 DEF StartRun, SyncingBeforeSteps, At, NoRun, TypeOK
    <3>2. CASE FetchPage(s)
      <4>1. run[s] \in Runs /\ \A u \in Users : run[s].at[u] = "none"
        BY <1>0, <3>2 DEF FetchPage, SyncingBeforeSteps, At, TypeOK
      <4> DEFINE fetched == Fetched(run[s])
                 queued == Queued(fetched)
      <4>2. fetched \in Runs /\ fetched.at = run[s].at
        BY <4>1, FetchedType
      <4>3. \A u \in Users : queued.at[u] \in {"none", "queued"}
        BY <4>2, QueuedType
      <4>4. queued.stage = "syncing"
        BY <4>2 DEF Queued, Runs
      <4>5. run' \in {[run EXCEPT ![s] = fetched], [run EXCEPT ![s] = NoRun],
                      [run EXCEPT ![s] = queued]}
        BY <3>2 DEF FetchPage
      <4>6. NoRun.stage = "idle" /\ \A u \in Users : NoRun.at[u] = "none"
        BY DEF NoRun
      <4> HIDE DEF fetched, queued
      <4> QED
        BY <1>0, <4>1, <4>2, <4>3, <4>4, <4>5, <4>6 DEF TypeOK, At
    <3>3. CASE StartSweep(s)
      <4>1. PICK at \in [Users -> {"none", "orphaning"}] :
              run' = [run EXCEPT ![s] = [run[s] EXCEPT !.stage = "sweeping", !.at = at]]
        BY <1>0, <3>3, SweepSteps
      <4> QED
        BY <1>0, <3>3, <4>1 DEF StartSweep, AllHandled, At, TypeOK, Runs
    <3>4. CASE EndRun(s) \/ AbandonRun(s)
      BY <1>0, <3>4 DEF EndRun, AbandonRun, AllHandled, At, NoRun, TypeOK
    <3> QED
      BY <1>7, <3>1, <3>2, <3>3, <3>4
  <2>3. RevokedWhenCut'
    BY <1>0, <2>1, <2>2 DEF RevokedWhenCut, At
  <2>4. MarkingRevoked' /\ SyncingBeforeSteps'
    BY <1>0, <2>1, <2>2 DEF MarkingRevoked, SyncingBeforeSteps, At
  <2> QED
    BY <1>t, <2>3, <2>4 DEF CutInv
<1>8. ASSUME UNCHANGED vars PROVE CutInv'
  BY <1>8, <1>b DEF vars, accounts, history
<1> QED
  BY <1>1, <1>2, <1>3, <1>4, <1>5, <1>6, <1>7, <1>8 DEF Next, SyncNext, Fail

\* With one web process, an account is never cut off with its certificates
\* left valid: whatever fails and whenever the process stops, an orphaned
\* account nobody disturbed has had its certificates revoked since it was
\* last active, and so has a suspended one unless External_Lock was
\* interrupted half-way (authentikSync.js:520-606, 926-965).
THEOREM CutMeansRevoked ==
  ASSUME \A s, t \in Syncs : s = t
  PROVE  Spec => []RevokedWhenCut
<1>1. CutInv => RevokedWhenCut
  BY DEF CutInv
<1>2. CutInv /\ [Next]_vars => CutInv'
  BY CutStep
<1> QED
  BY CutInit, <1>1, <1>2, PTL DEF Spec

-----------------------------------------------------------------------------
(* Pages.  An account keeps its place while the accounts before it do, and *)
(* the pages announced cover every account.                                *)

PageOf(u) == Place(u) \div PageSize + 1

LEMMA Quotient ==
  ASSUME NEW a \in Nat, NEW n \in Nat, a < n, NEW size \in Nat \ {0}
  PROVE  a \div size \in Nat /\ a \div size + 1 <= (n + size - 1) \div size
<1> DEFINE q == a \div size
           p == (n + size - 1) \div size
<1>1. q \in Int /\ size * q <= a /\ a < size * q + size
  OBVIOUS
<1>2. p \in Int /\ n + size - 1 < size * p + size
  OBVIOUS
<1> HIDE DEF q, p
<1>3. q >= 0
  <2> SUFFICES ASSUME q <= -1 PROVE FALSE BY <1>1
  <2>1. size * q <= size * (-1) BY <1>1
  <2> QED BY <1>1, <2>1
<1>4. q + 1 <= p
  <2> SUFFICES ASSUME p <= q PROVE FALSE BY <1>1, <1>2
  <2>1. size * p <= size * q BY <1>1, <1>2
  <2> QED BY <1>1, <1>2, <2>1
<1> QED BY <1>1, <1>3, <1>4 DEF q, p

LEMMA PlaceType ==
  ASSUME NEW u \in Users
  PROVE  /\ Place(u) \in Nat
         /\ Exists(u) => Place(u) < Cardinality(Directory)
<1> DEFINE before == {v \in Directory : v < u}
<1>1. IsFiniteSet(Directory)
  BY FS_Subset, AccountLifecycleAssumption DEF Directory
<1>2. IsFiniteSet(before) /\ Cardinality(before) \in Nat /\ Cardinality(Directory) \in Nat
      /\ Cardinality(before) <= Cardinality(Directory)
      /\ (Cardinality(before) = Cardinality(Directory) => before = Directory)
  <2>1. before \in SUBSET Directory OBVIOUS
  <2> HIDE DEF before
  <2> QED BY <1>1, <2>1, FS_Subset, FS_CardinalityType
<1>3. Exists(u) => u \in Directory /\ u \notin before
  BY AccountLifecycleAssumption DEF Directory
<1>4. Exists(u) => Cardinality(before) < Cardinality(Directory)
  BY <1>2, <1>3
<1> QED BY <1>2, <1>4 DEF Place

LEMMA PageOfType ==
  ASSUME NEW u \in Users
  PROVE  /\ PageOf(u) \in Nat \ {0}
         /\ Exists(u) => PageOf(u) <= Pages /\ (\A page \in Nat : u \in OnPage(page) <=> page = PageOf(u))
<1> DEFINE n == Cardinality(Directory)
           a == Place(u)
<1>1. a \in Nat /\ n \in Nat /\ (Exists(u) => a < n) /\ a < a + 1
  BY PlaceType, PageType
<1>2. PageSize \in Nat \ {0} BY AccountLifecycleAssumption
<1>3. PageOf(u) = a \div PageSize + 1 /\ Pages = (n + PageSize - 1) \div PageSize
  BY DEF PageOf, Pages
<1>4. \A page \in Nat : Exists(u) => (u \in OnPage(page) <=> a \div PageSize = page - 1)
  BY DEF OnPage, Directory
<1> HIDE DEF a, n
<1>5. a \div PageSize \in Nat
  BY <1>1, <1>2, Quotient
<1>6. a < n => a \div PageSize + 1 <= (n + PageSize - 1) \div PageSize
  BY <1>1, <1>2, Quotient
<1> QED BY <1>1, <1>3, <1>4, <1>5, <1>6

-----------------------------------------------------------------------------
(* Intents.  What is known of an account nobody touched while a run was on *)
(* or a PATCH was out, and that no fault left half changed.                *)

\* Accounts are created in the order of their pks.
Orderly == \A u, v \in Users : v < u /\ ak[v] = "unborn" => ak[u] = "unborn"

\* What the run of s knows of u: nothing before u's page, its true record
\* after it; and what it is about to write is what u was meant to be.
KnownTo(s, u) ==
  /\ run[s].stage = "fetching" =>
       Saw(s, u) = IF PageOf(u) < run[s].page THEN ak[u] ELSE "absent"
  /\ run[s].stage \in {"syncing", "sweeping"} => Saw(s, u) = ak[u]
  /\ run[s].stage = "sweeping" => At(s, u, "none")
  /\ run[s].at[u] \notin {"orphaning", "marking"}
  /\ At(s, u, "read") =>
       /\ Read(s, u) \in {"active", "suspended"}
       /\ Read(s, u) = intent[u] => local[u] = intent[u]
  /\ At(s, u, "locking") => local[u] = "suspended" /\ intent[u] = "suspended"
  /\ At(s, u, "push") => Read(s, u) = intent[u] /\ local[u] = intent[u]

\* Only u's own PATCH may still separate Authentik from the intent, and no
\* run is on while it is out; only a run may still separate the local row.
Kept(u) ==
  /\ local[u] # "orphaned" /\ intent[u] \in {"active", "suspended"}
  /\ \A value \in {"on", "off"} : <<u, value>> \in patches => value = Value(intent[u])
  /\ Patching(u) => ~Syncing
  /\ Patching(u) \/ ak[u] = Value(intent[u])
  /\ u \in lag \/ local[u] = intent[u]
  /\ \A s \in Syncs : KnownTo(s, u)

Untouched == Users \ (disturbed \cup missed)

AllKept == \A u \in Untouched : Exists(u) => Kept(u)

IntentInv == TypeInv /\ SyncingBeforeSteps /\ Orderly /\ AllKept

\* What the run of s knows stays as it is.
SameRun(s, u) ==
  /\ run'[s].stage = run[s].stage /\ run'[s].page = run[s].page
  /\ Saw(s, u)' = Saw(s, u) /\ Read(s, u)' = Read(s, u) /\ run'[s].at[u] = run[s].at[u]
  /\ Place(u)' = Place(u)

LEMMA IdleKnows ==
  ASSUME NEW s \in Syncs, NEW u \in Users, run[s].stage = "idle", SyncingBeforeSteps
  PROVE  KnownTo(s, u)
BY DEF SyncingBeforeSteps, KnownTo, At

\* The frame: a step that writes u's row only to what u was meant to be.
LEMMA StaysKept ==
  ASSUME NEW u \in Users, Kept(u), intent'[u] = intent[u], ak'[u] = ak[u],
         \/ local'[u] \in {local[u], intent[u]}
         \/ local[u] = "none" /\ local'[u] = "active",
         \A value \in {"on", "off"} : <<u, value>> \in patches' <=> <<u, value>> \in patches,
         u \in lag' \/ local'[u] = intent[u],
         Patching(u) => (Syncing' => Syncing),
         \A s \in Syncs : SameRun(s, u) \/ KnownTo(s, u)'
  PROVE  Kept(u)'
<1>1. Patching(u)' <=> Patching(u) BY DEF Patching
<1>2. ASSUME NEW s \in Syncs, SameRun(s, u) PROVE KnownTo(s, u)'
  <2>1. KnownTo(s, u) BY DEF Kept
  <2>2. PageOf(u)' = PageOf(u) BY <1>2 DEF SameRun, PageOf
  <2>3. local[u] \in {"active", "suspended"} => local'[u] \in {local[u], intent[u]}
    OBVIOUS
  <2>4. intent[u] \in {"active", "suspended"} BY DEF Kept
  <2> QED BY <1>2, <2>1, <2>2, <2>3, <2>4 DEF SameRun, KnownTo, At, Saw, Read
<1>3. \A s \in Syncs : KnownTo(s, u)' BY <1>2
<1> QED BY <1>1, <1>3 DEF Kept

\* After an administrator's act no run and no PATCH of before is left.
LEMMA FreshKept ==
  ASSUME NEW u \in Users, SyncingBeforeSteps', ~Syncing',
         intent'[u] \in {"active", "suspended"}, local'[u] # "orphaned",
         \A value \in {"on", "off"} : <<u, value>> \in patches' => value = Value(intent[u])',
         Patching(u)' \/ ak'[u] = Value(intent[u])',
         u \in lag' \/ local'[u] = intent'[u]
  PROVE  Kept(u)'
<1>1. ASSUME NEW s \in Syncs PROVE KnownTo(s, u)'
  BY <1>1 DEF Syncing, SyncingBeforeSteps, KnownTo, At
<1> QED BY <1>1 DEF Kept

LEMMA SamePlace ==
  ASSUME NEW u \in Users, Directory' = Directory
  PROVE  Place(u)' = Place(u)
BY DEF Place

\* A new account comes after every account there is.
LEMMA BornLast ==
  ASSUME TypeOK, Orderly, NEW u \in Users, NextPk(u), ak' = [ak EXCEPT ![u] = "on"]
  PROVE  /\ Orderly'
         /\ \A v \in Users : Exists(v) => Place(v)' = Place(v)
<1> USE AccountLifecycleAssumption
<1>1. ak[u] = "unborn" /\ ak'[u] = "on" /\ \A v \in Users \ {u} : ak'[v] = ak[v]
  BY DEF NextPk, TypeOK
<1>2. Orderly'
  BY <1>1 DEF Orderly, NextPk
<1>3. ASSUME NEW v \in Users, Exists(v) PROVE Place(v)' = Place(v)
  <2>1. ~(u < v) BY <1>1, <1>3 DEF Orderly, Exists
  <2>2. {w \in Directory' : w < v} = {w \in Directory : w < v}
    BY <1>1, <2>1 DEF Directory, Exists
  <2> QED BY <2>2 DEF Place
<1> QED BY <1>2, <1>3

LEMMA AdministratorKeeps ==
  ASSUME IntentInv, SyncingBeforeSteps', NEW u \in Users, NEW status \in {"active", "suspended"},
         run' = run, Overrides(u),
         intent' = [intent EXCEPT ![u] = status], local' = [local EXCEPT ![u] = status],
         \A v \in Users \ {u} : ak'[v] = ak[v],
         \A v \in Users \ {u}, value \in {"on", "off"} :
           <<v, value>> \in patches' <=> <<v, value>> \in patches,
         \A value \in {"on", "off"} :
           <<u, value>> \in patches' => value = Value(status) \/ <<u, value>> \in patches,
         Patching(u)' \/ ak'[u] = Value(status),
         \A v \in Users : Exists(v) => Place(v)' = Place(v)
  PROVE  AllKept'
<1>0. TypeOK /\ AllKept
  BY DEF IntentInv, TypeInv
<1>1. ASSUME NEW v \in Untouched', Exists(v)', v # u PROVE Kept(v)'
  <2>1. v \in Users \ {u} /\ v \in Untouched /\ Exists(v)
    BY <1>1 DEF Untouched, Overrides, Exists
  <2>2. Kept(v)
    BY <1>0, <2>1 DEF AllKept
  <2>3. intent'[v] = intent[v] /\ local'[v] = local[v] /\ (v \in lag' <=> v \in lag)
    BY <1>0, <2>1 DEF TypeOK, Overrides
  <2>4. v \in lag' \/ local'[v] = intent[v]
    BY <2>2, <2>3 DEF Kept
  <2>5. Syncing' => Syncing
    BY DEF Syncing
  <2>6. \A s \in Syncs : SameRun(s, v)
    BY <2>1 DEF SameRun, Saw, Read
  <2> QED
    BY <2>1, <2>2, <2>3, <2>4, <2>5, <2>6, StaysKept
<1>2. ASSUME u \in Untouched' PROVE Kept(u)'
  <2>1. ~Syncing /\ ~Patching(u)
    BY <1>2 DEF Untouched, Overrides
  <2>2. ~Syncing' /\ intent'[u] = status /\ local'[u] = status
    BY <1>0, <2>1 DEF Syncing, TypeOK
  <2>3. \A value \in {"on", "off"} : <<u, value>> \in patches' => value = Value(status)
    BY <2>1 DEF Patching
  <2> QED
    BY <2>2, <2>3, FreshKept
<1> QED
  BY <1>1, <1>2 DEF AllKept

LEMMA AdministerKeeps ==
  ASSUME IntentInv, SyncingBeforeSteps', Administer
  PROVE  Orderly' /\ AllKept'
<1>0. TypeOK /\ AllKept /\ Orderly
  BY DEF IntentInv, TypeInv
<1>1. ASSUME ak' = ak PROVE Orderly' /\ \A v \in Users : Place(v)' = Place(v)
  BY <1>0, <1>1 DEF Orderly, Place, Directory, Exists
<1>2. ASSUME NEW u \in Users, Suspend(u) PROVE Orderly' /\ AllKept'
  <2>1. /\ run' = run /\ Overrides(u) /\ intent' = [intent EXCEPT ![u] = "suspended"]
        /\ local' = [local EXCEPT ![u] = "suspended"] /\ ak' = ak
        /\ patches' = patches \cup {<<u, "off">>}
    BY <1>2 DEF Suspend, Act
  <2>2. Patching(u)' /\ Value("suspended") = "off"
    BY <2>1 DEF Patching, Value
  <2>3. AllKept'
    BY <1>1, <2>1, <2>2, AdministratorKeeps
  <2> QED
    BY <1>1, <2>1, <2>3
<1>3. ASSUME NEW u \in Users, Unsuspend(u) PROVE Orderly' /\ AllKept'
  <2>1. /\ run' = run /\ Overrides(u) /\ intent' = [intent EXCEPT ![u] = "active"]
        /\ local' = [local EXCEPT ![u] = "active"] /\ ak' = ak
        /\ patches' = patches \cup {<<u, "on">>}
    BY <1>3 DEF Unsuspend, Act
  <2>2. Patching(u)' /\ Value("active") = "on"
    BY <2>1 DEF Patching, Value
  <2>3. AllKept'
    BY <1>1, <2>1, <2>2, AdministratorKeeps
  <2> QED
    BY <1>1, <2>1, <2>3
<1>4. ASSUME NEW u \in Users, Provision(u) PROVE Orderly' /\ AllKept'
  <2>1. /\ run' = run /\ Overrides(u) /\ intent' = [intent EXCEPT ![u] = "active"]
        /\ local' = [local EXCEPT ![u] = "active"] /\ ak' = [ak EXCEPT ![u] = "on"]
        /\ patches' = patches
    BY <1>4 DEF Provision, Act
  <2>2. ak'[u] = Value("active") /\ \A v \in Users \ {u} : ak'[v] = ak[v]
    BY <1>0, <2>1 DEF Value, TypeOK
  <2>3. Orderly' /\ \A v \in Users : Exists(v) => Place(v)' = Place(v)
    BY <1>0, <1>4, <2>1, BornLast DEF Provision
  <2> QED
    BY <2>1, <2>2, <2>3, AdministratorKeeps
<1>5. ASSUME NEW u \in Users, NEW value \in {"on", "off"}, PatchFails(u, value)
      PROVE  Orderly' /\ AllKept'
  <2>1. ASSUME NEW v \in Untouched', Exists(v)' PROVE Kept(v)'
    <3>1. v \in Users \ {u} /\ v \in Untouched /\ Exists(v)
      BY <1>5, <2>1 DEF PatchFails, Untouched, Exists
    <3>2. Kept(v)
      BY <1>0, <3>1 DEF AllKept
    <3>3. \A x \in {"on", "off"} : <<v, x>> \in patches' <=> <<v, x>> \in patches
      BY <1>5, <3>1 DEF PatchFails
    <3>4. v \in lag' \/ local'[v] = intent[v]
      BY <1>5, <3>2 DEF PatchFails, Kept
    <3>5. (Syncing' => Syncing) /\ \A s \in Syncs : SameRun(s, v)
      BY <1>1, <1>5, <3>1 DEF PatchFails, Syncing, SameRun, Saw, Read
    <3> QED
      BY <1>5, <3>1, <3>2, <3>3, <3>4, <3>5, StaysKept DEF PatchFails
  <2> QED
    BY <1>1, <1>5, <2>1 DEF AllKept, PatchFails
<1> QED
  BY <1>2, <1>3, <1>4, <1>5 DEF Administer

\* What an operator does in Authentik's console while a run is on disturbs
\* the account, and a deletion those after it on the pages.
LEMMA OperatorKeeps ==
  ASSUME IntentInv, SyncingBeforeSteps', NEW u \in Users, NEW us \in SUBSET Users, u \in us,
         run' = run, local' = local, patches' = patches, IsToBeFollowed(us, u),
         \A v \in Users \ {u} : ak'[v] = ak[v] /\ intent'[v] = intent[v],
         u \in Untouched' /\ Exists(u)' =>
                       /\ intent'[u] \in {"active", "suspended"} /\ local[u] # "orphaned"
                       /\ Patching(u) \/ ak'[u] = Value(intent[u])',
         \A v \in Users \ us : Exists(v) => Place(v)' = Place(v)
  PROVE  AllKept'
<1>0. TypeOK /\ AllKept
  BY DEF IntentInv, TypeInv
<1>s. (Syncing' <=> Syncing) /\ \A v \in Users : Patching(v)' <=> Patching(v)
  BY DEF Syncing, Patching
<1>1. ASSUME NEW v \in Untouched', Exists(v)', v # u PROVE Kept(v)'
  <2>1. v \in Users \ {u} /\ v \in Untouched /\ Exists(v)
    BY <1>1 DEF Untouched, IsToBeFollowed, Exists
  <2>2. Kept(v)
    BY <1>0, <2>1 DEF AllKept
  <2>3. v \in lag' \/ local'[v] = intent[v]
    BY <2>1, <2>2 DEF Kept, IsToBeFollowed
  <2>4. ASSUME NEW s \in Syncs PROVE SameRun(s, v) \/ KnownTo(s, v)'
    <3>1. CASE Syncing
      <4>1. v \notin us
        BY <1>1, <3>1 DEF Untouched, IsToBeFollowed
      <4> QED
        BY <2>1, <4>1 DEF SameRun, Saw, Read
    <3>2. CASE ~Syncing
      BY <2>1, <3>2 DEF Syncing, KnownTo, SyncingBeforeSteps, At
    <3> QED
      BY <3>1, <3>2
  <2> QED
    BY <1>s, <2>1, <2>2, <2>3, <2>4, StaysKept
<1>2. ASSUME u \in Untouched', Exists(u)' PROVE Kept(u)'
  <2>1. ~Syncing /\ ~Patching(u) /\ u \in lag'
    BY <1>2 DEF Untouched, IsToBeFollowed
  <2>2. \A value \in {"on", "off"} : <<u, value>> \notin patches'
    BY <2>1 DEF Patching
  <2> QED
    BY <1>2, <1>s, <2>1, <2>2, FreshKept
<1> QED
  BY <1>1, <1>2 DEF AllKept

LEMMA OperateKeeps ==
  ASSUME IntentInv, SyncingBeforeSteps', Operate
  PROVE  Orderly' /\ AllKept'
<1>0. TypeOK /\ AllKept /\ Orderly
  BY DEF IntentInv, TypeInv
<1>1. ASSUME NEW u \in Users, OperatorCreates(u) PROVE Orderly' /\ AllKept'
  <2>1. /\ run' = run /\ IsToBeFollowed({u}, u) /\ intent' = [intent EXCEPT ![u] = "active"]
        /\ ak' = [ak EXCEPT ![u] = "on"] /\ local' = local /\ patches' = patches
        /\ NextPk(u)
    BY <1>1 DEF OperatorCreates, Act
  <2>2. /\ intent'[u] = "active" /\ ak'[u] = "on" /\ local[u] = "none"
        /\ \A v \in Users \ {u} : ak'[v] = ak[v] /\ intent'[v] = intent[v]
    BY <1>0, <2>1 DEF TypeOK, NextPk
  <2>3. ak'[u] = Value(intent[u])'
    BY <2>2 DEF Value
  <2>4. Orderly' /\ \A v \in Users : Exists(v) => Place(v)' = Place(v)
    BY <1>0, <2>1, BornLast
  <2>5. {u} \in SUBSET Users /\ u \in {u}
    OBVIOUS
  <2> QED
    BY <2>1, <2>2, <2>3, <2>4, <2>5, OperatorKeeps
<1>2. ASSUME NEW u \in Users, NEW value \in {"on", "off"}, OperatorSets(u, value)
      PROVE  Orderly' /\ AllKept'
  <2>1. /\ run' = run /\ IsToBeFollowed({u}, u)
        /\ intent' = [intent EXCEPT ![u] = Status(value)]
        /\ ak' = [ak EXCEPT ![u] = value] /\ local' = local /\ patches' = patches
        /\ Exists(u)
    BY <1>2 DEF OperatorSets, Act
  <2>2. /\ intent'[u] = Status(value) /\ ak'[u] = value
        /\ \A v \in Users \ {u} : ak'[v] = ak[v] /\ intent'[v] = intent[v]
    BY <1>0, <2>1 DEF TypeOK
  <2>3. intent'[u] \in {"active", "suspended"} /\ ak'[u] = Value(intent[u])'
    BY <2>2 DEF Value, Status
  <2>4. Orderly' /\ Directory' = Directory
    BY <1>0, <2>1, <2>2 DEF Orderly, Directory, Exists
  <2>5. ASSUME u \in Untouched' PROVE local[u] # "orphaned"
    BY <1>0, <2>1, <2>5 DEF IsToBeFollowed, Untouched, AllKept, Kept
  <2>6. {u} \in SUBSET Users /\ u \in {u}
    OBVIOUS
  <2>7. \A v \in Users : Place(v)' = Place(v)
    BY <2>4, SamePlace
  <2> QED
    BY <2>1, <2>2, <2>3, <2>4, <2>5, <2>6, <2>7, OperatorKeeps
<1>3. ASSUME NEW u \in Users, OperatorDeletes(u) PROVE Orderly' /\ AllKept'
  <2> DEFINE us == {v \in Users : v >= u}
  <2>1. /\ run' = run /\ IsToBeFollowed(us, u) /\ intent' = [intent EXCEPT ![u] = "orphaned"]
        /\ ak' = [ak EXCEPT ![u] = "gone"] /\ local' = local /\ patches' = patches
        /\ Exists(u)
    BY <1>3 DEF OperatorDeletes, Act
  <2>2. /\ ak'[u] = "gone"
        /\ \A v \in Users \ {u} : ak'[v] = ak[v] /\ intent'[v] = intent[v]
    BY <1>0, <2>1 DEF TypeOK
  <2>3. ~Exists(u)' /\ us \in SUBSET Users /\ u \in us
    BY <2>2, AccountLifecycleAssumption DEF Exists
  <2>4. Orderly'
    BY <1>0, <2>1, <2>2 DEF Orderly, Exists
  <2>5. ASSUME NEW v \in Users \ us PROVE Place(v)' = Place(v)
    <3>1. v < u
      BY <2>5, AccountLifecycleAssumption
    <3>2. \A w \in Users : w < v => w # u
      BY <2>5, <3>1, AccountLifecycleAssumption
    <3>3. \A w \in Users : w < v => (Exists(w)' <=> Exists(w))
      BY <2>2, <3>2 DEF Exists
    <3>4. {w \in Directory' : w < v} = {w \in Directory : w < v}
      BY <3>3 DEF Directory
    <3> QED
      BY <3>4 DEF Place
  <2> HIDE DEF us
  <2> QED
    BY <2>1, <2>2, <2>3, <2>4, <2>5, OperatorKeeps
<1> QED
  BY <1>1, <1>2, <1>3 DEF Operate

\* The PATCH of a request says what the request asked for.
LEMMA PatchKeeps ==
  ASSUME IntentInv, SyncingBeforeSteps', PatchNext
  PROVE  Orderly' /\ AllKept'
<1>0. TypeOK /\ AllKept /\ Orderly
  BY DEF IntentInv, TypeInv
<1>1. PICK u \in Users, value \in {"on", "off"} : Patch(u, value)
  BY DEF PatchNext
<1>2. \A v \in Users : (Exists(v)' <=> Exists(v)) /\ (ak'[v] = "unborn" <=> ak[v] = "unborn")
  BY <1>0, <1>1 DEF Patch, Exists, TypeOK
<1>3. Orderly' /\ Directory' = Directory
  BY <1>0, <1>2 DEF Orderly, Directory
<1>4. \A v \in Users : Place(v)' = Place(v)
  BY <1>3, SamePlace
<1>5. run' = run /\ local' = local /\ intent' = intent /\ lag' = lag /\ Untouched' = Untouched
      /\ (Syncing' <=> Syncing)
  BY <1>1 DEF Patch, history, Untouched, Syncing
<1>6. ASSUME NEW v \in Untouched, Exists(v)', v # u PROVE Kept(v)'
  <2>1. v \in Users /\ Kept(v)
    BY <1>0, <1>2, <1>6 DEF AllKept, Untouched
  <2>2. ak'[v] = ak[v]
    BY <1>0, <1>1, <1>6, <2>1 DEF Patch, TypeOK
  <2>3. \A x \in {"on", "off"} : <<v, x>> \in patches' <=> <<v, x>> \in patches
    BY <1>1, <1>6 DEF Patch
  <2>4. v \in lag' \/ local'[v] = intent[v]
    BY <1>5, <2>1 DEF Kept
  <2>5. \A s \in Syncs : SameRun(s, v)
    BY <1>4, <1>5, <2>1 DEF SameRun, Saw, Read
  <2> QED
    BY <1>5, <2>1, <2>2, <2>3, <2>4, <2>5, StaysKept
<1>7. ASSUME u \in Untouched, Exists(u)' PROVE Kept(u)'
  <2>1. Kept(u) /\ Exists(u) /\ Patching(u) /\ <<u, value>> \in patches
    BY <1>0, <1>1, <1>2, <1>7 DEF AllKept, Patch, Patching
  <2>2. ~Syncing' /\ value = Value(intent[u]) /\ local[u] # "orphaned"
        /\ intent[u] \in {"active", "suspended"} /\ (u \in lag \/ local[u] = intent[u])
    BY <1>5, <2>1 DEF Kept
  <2>3. ak'[u] = Value(intent[u])' /\ patches' \subseteq patches
    BY <1>0, <1>1, <1>5, <2>1, <2>2 DEF Patch, TypeOK
  <2>4. \A x \in {"on", "off"} : <<u, x>> \in patches' => x = Value(intent[u])'
    BY <1>5, <2>1, <2>3 DEF Kept
  <2> QED
    BY <1>5, <2>2, <2>3, <2>4, FreshKept
<1> QED
  BY <1>3, <1>5, <1>6, <1>7 DEF AllKept

\* A page turns what the run knew before it into what it knows after it.
LEMMA FetchedKnows ==
  ASSUME NEW r \in Runs, NEW u \in Users, Exists(u),
         r.saw[u] = IF PageOf(u) < r.page THEN ak[u] ELSE "absent"
  PROVE  /\ Fetched(r).saw[u] = IF PageOf(u) < r.page + 1 THEN ak[u] ELSE "absent"
         /\ Fetched(r).page = r.page + 1 /\ Fetched(r).stage = r.stage
<1> DEFINE saw == [v \in Users |-> IF v \in OnPage(r.page) THEN ak[v] ELSE r.saw[v]]
           page == r.page + 1
           reported == Cardinality(Directory)
           count == r.count + Cardinality(OnPage(r.page))
<1>1. r.page \in Nat \ {0} /\ r.saw \in [Users -> {"absent", "on", "off"}]
  BY DEF Runs
<1>2. PageOf(u) \in Nat \ {0} /\ (u \in OnPage(r.page) <=> r.page = PageOf(u))
  BY <1>1, PageOfType
<1>3. saw[u] = IF PageOf(u) < r.page + 1 THEN ak[u] ELSE "absent"
  BY <1>1, <1>2
<1>4. Fetched(r) = [r EXCEPT !.page = page, !.count = count,
                             !.reported = reported, !.saw = saw]
  BY DEF Fetched
<1> HIDE DEF saw, count, reported
<1>5. LET q == [r EXCEPT !.page = page, !.count = count,
                         !.reported = reported, !.saw = saw]
      IN  q.saw = saw /\ q.page = page /\ q.stage = r.stage
  BY DEF Runs
<1>6. Fetched(r).saw = saw /\ Fetched(r).page = page /\ Fetched(r).stage = r.stage
  BY <1>4, <1>5, Zenon
<1> QED
  BY <1>3, <1>6

LEMMA QueuedFields ==
  ASSUME NEW r \in Runs
  PROVE  Queued(r).stage = "syncing" /\ Queued(r).saw = r.saw
BY DEF Queued, Runs

LEMMA FetchKnows ==
  ASSUME IntentInv, NEW s \in Syncs, FetchPage(s), NEW u \in Users, Exists(u), Kept(u)
  PROVE  KnownTo(s, u)'
<1> DEFINE r == run[s]
           fetched == Fetched(r)
           queued == Queued(fetched)
<1>1. r \in Runs /\ r.stage = "fetching" /\ KnownTo(s, u) /\ r.at[u] = "none"
  BY DEF IntentInv, TypeInv, TypeOK, FetchPage, Kept, SyncingBeforeSteps, At
<1>2. ak' = ak /\ (PageOf(u)' = PageOf(u))
  BY DEF FetchPage, accounts, PageOf, Place, Directory, Exists
<1>3. r.page \in Nat \ {0} /\ r.saw[u] = IF PageOf(u) < r.page THEN ak[u] ELSE "absent"
  BY <1>1 DEF KnownTo, Saw, Runs
<1>4. /\ fetched \in Runs /\ fetched.at = r.at /\ fetched.page = r.page + 1
      /\ fetched.saw[u] = IF PageOf(u) < r.page + 1 THEN ak[u] ELSE "absent"
      /\ fetched.stage = "fetching"
  BY <1>1, <1>3, FetchedType, FetchedKnows
<1>5. queued.stage = "syncing" /\ queued.saw = fetched.saw /\ queued.at[u] \in {"none", "queued"}
  BY <1>4, QueuedFields, QueuedType
<1>6. PageOf(u) \in Nat \ {0} /\ PageOf(u) <= Pages /\ Pages \in Int
  <2>1. Pages \in Int BY PageType, AccountLifecycleAssumption DEF Pages
  <2> QED BY <2>1, PageOfType
<1>7. \/ run' = [run EXCEPT ![s] = fetched]
      \/ run' = [run EXCEPT ![s] = NoRun]
      \/ run' = [run EXCEPT ![s] = queued] /\ ~(r.page < Pages) /\ ~(r.page > Pages /\ r.page > 1)
  BY DEF FetchPage
<1> HIDE DEF fetched, queued
<1>8. CASE run' = [run EXCEPT ![s] = fetched]
  <2>1. run'[s] = fetched
    BY <1>8 DEF IntentInv, TypeInv, TypeOK
  <2> QED
    BY <1>1, <1>2, <1>4, <2>1 DEF KnownTo, Saw, At
<1>9. CASE run' = [run EXCEPT ![s] = NoRun]
  <2>1. run'[s] = NoRun
    BY <1>9 DEF IntentInv, TypeInv, TypeOK
  <2> QED
    BY <2>1 DEF KnownTo, At, NoRun
<1>10. CASE run' = [run EXCEPT ![s] = queued] /\ ~(r.page < Pages) /\ ~(r.page > Pages /\ r.page > 1)
  <2>1. run'[s] = queued
    BY <1>10 DEF IntentInv, TypeInv, TypeOK
  <2>2. PageOf(u) < r.page + 1
    BY <1>3, <1>6, <1>10
  <2>3. queued.saw[u] = ak[u]
    BY <1>4, <1>5, <2>2
  <2> QED
    BY <1>2, <1>5, <2>1, <2>3 DEF KnownTo, Saw, At
<1> QED
  BY <1>7, <1>8, <1>9, <1>10

LEMMA RunBeforeSteps ==
  ASSUME TypeOK, SyncingBeforeSteps, NEW s \in Syncs,
         StartRun(s) \/ FetchPage(s) \/ StartSweep(s) \/ EndRun(s) \/ AbandonRun(s)
  PROVE  SyncingBeforeSteps'
<1>1. \E r : run' = [run EXCEPT ![s] = r]
  BY DEF StartRun, FetchPage, StartSweep, EndRun, AbandonRun
<1>2. \A t \in Syncs \ {s} : run'[t] = run[t]
  BY <1>1 DEF TypeOK
<1>3. run'[s].stage \in {"idle", "fetching"} => \A u \in Users : run'[s].at[u] = "none"
  <2>1. CASE StartRun(s)
    BY <2>1 DEF StartRun, NoRun, TypeOK
  <2>2. CASE FetchPage(s)
    <3> DEFINE fetched == Fetched(run[s])
               queued == Queued(fetched)
    <3>1. run[s] \in Runs /\ \A u \in Users : run[s].at[u] = "none"
      BY <2>2 DEF FetchPage, SyncingBeforeSteps, At, TypeOK
    <3>2. fetched.at = run[s].at /\ queued.stage = "syncing"
      BY <3>1, FetchedType, QueuedFields
    <3>3. run'[s] \in {fetched, NoRun, queued}
      BY <2>2 DEF FetchPage, TypeOK
    <3>4. \A u \in Users : NoRun.at[u] = "none"
      BY DEF NoRun
    <3> HIDE DEF fetched, queued
    <3> QED
      BY <3>1, <3>2, <3>3, <3>4
  <2>3. CASE StartSweep(s)
    <3>1. run'[s].stage = "sweeping"
      BY <2>3 DEF StartSweep, TypeOK, Runs
    <3> QED
      BY <3>1
  <2>4. CASE EndRun(s) \/ AbandonRun(s)
    BY <2>4 DEF EndRun, AbandonRun, NoRun, TypeOK
  <2> QED
    BY <2>1, <2>2, <2>3, <2>4
<1> QED
  BY <1>2, <1>3 DEF SyncingBeforeSteps, At

\* The run itself, from its first page to its end.
LEMMA RunKeeps ==
  ASSUME IntentInv, SyncingBeforeSteps', NEW s \in Syncs,
         StartRun(s) \/ FetchPage(s) \/ StartSweep(s) \/ EndRun(s) \/ AbandonRun(s)
  PROVE  Orderly' /\ AllKept'
<1>0. TypeOK /\ AllKept /\ Orderly
  BY DEF IntentInv, TypeInv
<1>a. /\ local' = local /\ ak' = ak /\ patches' = patches /\ intent' = intent /\ lag' = lag
      /\ disturbed \subseteq disturbed' /\ missed \subseteq missed'
  BY DEF StartRun, FetchPage, StartSweep, EndRun, AbandonRun, accounts, history
<1>b. \E r : run' = [run EXCEPT ![s] = r]
  BY DEF StartRun, FetchPage, StartSweep, EndRun, AbandonRun
<1>1. /\ local' = local /\ ak' = ak /\ patches' = patches /\ intent' = intent /\ lag' = lag
      /\ Untouched' \subseteq Untouched
      /\ \A t \in Syncs \ {s} : run'[t] = run[t]
  BY <1>0, <1>a, <1>b DEF Untouched, TypeOK
<1>2. Orderly' /\ \A u \in Users : Place(u)' = Place(u)
  BY <1>0, <1>1 DEF Orderly, Place, Directory, Exists
<1>3. ASSUME NEW u \in Untouched', Exists(u)' PROVE Kept(u)'
  <2>1. u \in Users /\ u \in Untouched /\ Exists(u) /\ Kept(u)
    BY <1>0, <1>1, <1>3 DEF Untouched, AllKept, Exists
  <2>2. KnownTo(s, u) /\ KnownTo(s, u)'
    <3>k. KnownTo(s, u)
      BY <2>1 DEF Kept
    <3>1. CASE StartRun(s)
      <4>1. run'[s] = [NoRun EXCEPT !.stage = "fetching"]
        BY <1>0, <3>1 DEF StartRun, TypeOK
      <4>2. run'[s].stage = "fetching" /\ run'[s].page = 1 /\ run'[s].saw[u] = "absent"
            /\ run'[s].at[u] = "none"
        BY <2>1, <4>1 DEF NoRun
      <4>3. PageOf(u) \in Nat \ {0} /\ PageOf(u)' = PageOf(u)
        BY <1>2, <2>1, PageOfType DEF PageOf
      <4> QED
        BY <3>k, <4>2, <4>3 DEF KnownTo, Saw, At
    <3>2. CASE FetchPage(s)
      BY <2>1, <3>2, <3>k, FetchKnows
    <3>3. CASE StartSweep(s)
      <4>1. PICK at \in [Users -> {"none", "orphaning"}] :
              /\ run' = [run EXCEPT ![s] = [run[s] EXCEPT !.stage = "sweeping", !.at = at]]
              /\ \A v \in Users : at[v] = "orphaning" => Saw(s, v) = "absent"
        BY ZenonT(40), <1>0, <3>3, SweepSteps
      <4>2. run[s] \in Runs /\ run'[s] = [run[s] EXCEPT !.stage = "sweeping", !.at = at]
        BY <1>0, <4>1 DEF TypeOK
      <4>3. run'[s].stage = "sweeping" /\ run'[s].saw = run[s].saw /\ run'[s].at = at
        BY <4>2 DEF Runs
      <4>4. Saw(s, u) = ak[u] /\ at[u] = "none"
        BY <2>1, <3>3, <3>k, <4>1 DEF StartSweep, KnownTo, Exists
      <4> QED
        BY <1>1, <3>k, <4>3, <4>4 DEF KnownTo, Saw, At
    <3>4. CASE EndRun(s) \/ AbandonRun(s)
      <4>1. run'[s] = NoRun
        BY <1>0, <3>4 DEF EndRun, AbandonRun, TypeOK
      <4> QED
        BY <2>1, <3>k, <4>1 DEF KnownTo, At, NoRun
    <3> QED
      BY <3>1, <3>2, <3>3, <3>4
  <2>3. \A t \in Syncs : SameRun(t, u) \/ KnownTo(t, u)'
    BY <1>1, <1>2, <2>1, <2>2 DEF SameRun, Saw, Read
  <2>4. Patching(u) => (Syncing' => Syncing)
    <3>1. CASE StartRun(s)
      BY <1>3, <2>1, <3>1 DEF StartRun, Untouched
    <3>2. CASE ~StartRun(s)
      <4>1. run[s].stage # "idle" \/ run' = run \/ run'[s].stage = "idle"
        BY <3>2 DEF FetchPage, StartSweep, EndRun, AbandonRun
      <4> QED
        BY <1>1, <4>1 DEF Syncing
    <3> QED
      BY <3>1, <3>2
  <2>5. u \in lag' \/ local'[u] = intent[u]
    BY <1>1, <2>1 DEF Kept
  <2> QED
    BY <1>1, <2>1, <2>3, <2>4, <2>5, StaysKept
<1> QED
  BY <1>2, <1>3 DEF AllKept

\* A step of a run on u changes what the run read of u, and nothing it fetched.
LEMMA ReachFrame ==
  ASSUME TypeOK, NEW s \in Syncs, NEW u \in Users, NEW step, NEW status,
         Reach(s, u, step, status)
  PROVE  /\ \A t \in Syncs : run'[t].page = run[t].page
         /\ \A t \in Syncs, v \in Users :
              run'[t].read[v] = IF t = s /\ v = u THEN status ELSE run[t].read[v]
<1>1. run \in [Syncs -> Runs]
  BY DEF TypeOK
<1>2. run' = [run EXCEPT ![s] = [run[s] EXCEPT
        !.at = [run[s].at EXCEPT ![u] = step], !.read = [run[s].read EXCEPT ![u] = status]]]
  BY <1>1 DEF Reach, Runs
<1> QED
  BY <1>1, <1>2 DEF Runs

\* A run brings u to a step: the other accounts are as they were, so what is
\* left to show is that u is.
LEMMA ReachKeeps ==
  ASSUME IntentInv, NEW s \in Syncs, NEW u \in Users, NEW step \in Steps, NEW status \in Statuses,
         Reach(s, u, step, status), step # "queued",
         \A v \in Users \ {u} : local'[v] = local[v] /\ ak'[v] = ak[v] /\ (v \in lag => v \in lag'),
         Exists(u)' <=> Exists(u), ak'[u] = "unborn" <=> ak[u] = "unborn",
         patches' = patches, intent' = intent, disturbed' = disturbed, missed \subseteq missed',
         ~At(s, u, "none") \/ step = "none",
         u \in Untouched' /\ Exists(u) /\ Kept(u) =>
           /\ ak'[u] = ak[u]
           /\ \/ local'[u] \in {local[u], intent[u]}
              \/ local[u] = "none" /\ local'[u] = "active"
           /\ u \in lag' \/ local'[u] = intent[u]
           /\ step \notin {"orphaning", "marking"}
           /\ step = "read" => /\ status \in {"active", "suspended"}
                               /\ status = intent[u] => local'[u] = intent[u]
           /\ step = "locking" => local'[u] = "suspended" /\ intent[u] = "suspended"
           /\ step = "push" => status = intent[u] /\ local'[u] = intent[u]
  PROVE  SyncingBeforeSteps' /\ Orderly' /\ AllKept'
<1>0. TypeOK /\ AllKept /\ Orderly /\ SyncingBeforeSteps
  BY DEF IntentInv, TypeInv
<1>1. /\ \A t \in Syncs : run'[t].saw = run[t].saw /\ run'[t].stage = run[t].stage
      /\ \A t \in Syncs, v \in Users :
           run'[t].at[v] = IF t = s /\ v = u THEN step ELSE run[t].at[v]
  BY <1>0, ReachType
<1>2. /\ \A t \in Syncs : run'[t].page = run[t].page
      /\ \A t \in Syncs, v \in Users :
           run'[t].read[v] = IF t = s /\ v = u THEN status ELSE run[t].read[v]
  BY <1>0, ReachFrame
<1>3. SyncingBeforeSteps'
  BY <1>0, <1>1 DEF SyncingBeforeSteps, At
<1>4. Orderly' /\ Directory' = Directory
  BY <1>0 DEF Orderly, Directory, Exists
<1>5. \A v \in Users : Place(v)' = Place(v)
  BY <1>4, SamePlace
<1>6. (Syncing' <=> Syncing) /\ Untouched' \subseteq Untouched
  BY <1>1 DEF Syncing, Untouched
<1>7. ASSUME NEW v \in Untouched', Exists(v)' PROVE Kept(v)'
  <2>1. v \in Users /\ v \in Untouched /\ Exists(v) /\ Kept(v)
    BY <1>0, <1>6, <1>7 DEF AllKept, Untouched, Exists
  <2>2. CASE v # u
    <3>1. \A t \in Syncs : SameRun(t, v)
      BY <1>1, <1>2, <1>5, <2>1, <2>2 DEF SameRun, Saw, Read
    <3>2. v \in lag' \/ local'[v] = intent[v]
      BY <2>1, <2>2 DEF Kept
    <3> QED
      BY <1>6, <2>1, <2>2, <3>1, <3>2, StaysKept
  <2>3. CASE v = u
    <3>1. \A t \in Syncs \ {s} : SameRun(t, u)
      BY <1>1, <1>2, <1>5, <2>1 DEF SameRun, Saw, Read
    <3>2. KnownTo(s, u) /\ (run[s].stage = "fetching" => At(s, u, "none")) /\ PageOf(u)' = PageOf(u)
      BY <1>0, <1>5, <2>1, <2>3 DEF Kept, SyncingBeforeSteps, PageOf
    <3>3. KnownTo(s, u)'
      BY <1>1, <1>2, <1>7, <2>1, <2>3, <3>2 DEF KnownTo, Saw, At, Read
    <3> QED
      BY <1>6, <1>7, <2>1, <2>3, <3>1, <3>3, StaysKept
  <2> QED
    BY <2>2, <2>3
<1> QED
  BY <1>3, <1>4, <1>7 DEF AllKept

\* What is known of an account that a run has in hand.
LEMMA InHand ==
  ASSUME IntentInv, NEW s \in Syncs, NEW u \in Users, Kept(u), ~At(s, u, "none")
  PROVE  /\ KnownTo(s, u) /\ Saw(s, u) = ak[u] /\ ak[u] = Value(intent[u])
         /\ intent[u] \in {"active", "suspended"} /\ local[u] # "orphaned"
         /\ u \in lag \/ local[u] = intent[u]
<1>1. run[s].stage \in {"syncing", "sweeping"} /\ Syncing
  BY DEF IntentInv, TypeInv, TypeOK, Runs, SyncingBeforeSteps, Syncing
<1> QED
  BY <1>1 DEF Kept, KnownTo

LEMMA SyncUserKeeps ==
  ASSUME IntentInv, NEW s \in Syncs, NEW u \in Users, SyncUser(s, u)
  PROVE  SyncingBeforeSteps' /\ Orderly' /\ AllKept'
<1>0. TypeOK
  BY DEF IntentInv, TypeInv
<1> DEFINE Goal == SyncingBeforeSteps' /\ Orderly' /\ AllKept'
<1>1. CASE ReadLocal(s, u)
  <2>1. local[u] \in Statuses /\ ~At(s, u, "none")
    BY <1>0, <1>1 DEF ReadLocal, TypeOK, At
  <2>2. PICK status \in Statuses, step \in {"none", "read"} :
          /\ local' = [local EXCEPT ![u] = status] /\ Reach(s, u, step, status)
          /\ status = IF local[u] = "none" THEN "active" ELSE local[u]
          /\ status = "orphaned" <=> step = "none"
    BY <1>1, <2>1 DEF ReadLocal, Statuses
  <2>3. step \in Steps /\ local'[u] = status /\ \A v \in Users \ {u} : local'[v] = local[v]
    BY <1>0, <2>2 DEF Steps, TypeOK
  <2>4. ASSUME Kept(u) PROVE /\ u \in lag \/ local'[u] = intent[u]
                             /\ step = "read" => status \in {"active", "suspended"}
    BY <2>1, <2>2, <2>3, <2>4, InHand DEF Statuses
  <2> QED
    BY <1>1, <2>1, <2>2, <2>3, <2>4, ReachKeeps DEF ReadLocal, history, Exists
<1>2. CASE ExternalLock(s, u)
  <2>1. /\ Reach(s, u, "locking", "active") /\ ~At(s, u, "none") /\ Saw(s, u) = "off"
        /\ local' = [local EXCEPT ![u] = "suspended"]
    BY <1>2 DEF ExternalLock, NeedsLock, At
  <2>2. local'[u] = "suspended" /\ \A v \in Users \ {u} : local'[v] = local[v]
    BY <1>0, <2>1 DEF TypeOK
  <2>3. Kept(u) => intent[u] = "suspended"
    BY <2>1, InHand DEF Value
  <2>4. "locking" \in Steps /\ "active" \in Statuses
    BY DEF Steps, Statuses
  <2> QED
    BY <1>2, <2>1, <2>2, <2>3, <2>4, ReachKeeps DEF ExternalLock, history, Exists
<1>3. CASE LockRevokes(s, u)
  <2>1. Reach(s, u, "push", "suspended") /\ At(s, u, "locking") /\ ~At(s, u, "none")
    BY <1>3 DEF LockRevokes, At
  <2>2. Kept(u) => local[u] = "suspended" /\ intent[u] = "suspended"
    BY <2>1, InHand DEF KnownTo
  <2>3. "push" \in Steps /\ "suspended" \in Statuses
    BY DEF Steps, Statuses
  <2> QED
    BY <1>3, <2>1, <2>2, <2>3, ReachKeeps DEF LockRevokes, history, Exists
<1>4. CASE ExternalUnlock(s, u)
  <2>1. /\ Reach(s, u, "push", "active") /\ ~At(s, u, "none") /\ Saw(s, u) = "on"
        /\ local' = [local EXCEPT ![u] = "active"]
    BY <1>4 DEF ExternalUnlock, NeedsUnlock, At
  <2>2. local'[u] = "active" /\ \A v \in Users \ {u} : local'[v] = local[v]
    BY <1>0, <2>1 DEF TypeOK
  <2>3. Kept(u) => intent[u] = "active"
    BY <2>1, InHand DEF Value
  <2>4. "push" \in Steps /\ "active" \in Statuses
    BY DEF Steps, Statuses
  <2> QED
    BY <1>4, <2>1, <2>2, <2>3, <2>4, ReachKeeps DEF ExternalUnlock, history, Exists
<1>5. ASSUME NEW differ \in BOOLEAN, Push(s, u, differ) PROVE Goal
  <2>1. Reach(s, u, "none", "none") /\ ~At(s, u, "none")
    BY <1>5 DEF Push, ReadyToPush, At
  <2>2. ASSUME Kept(u), Exists(u)
        PROVE  Read(s, u) = intent[u] /\ local[u] = intent[u] /\ Value(Read(s, u)) = ak[u]
    <3>1. KnownTo(s, u) /\ Saw(s, u) = ak[u] /\ ak[u] = Value(intent[u])
          /\ intent[u] \in {"active", "suspended"}
      BY <2>1, <2>2, InHand
    <3>2. CASE At(s, u, "push")
      BY <3>1, <3>2 DEF KnownTo
    <3>3. CASE At(s, u, "read") /\ ~NeedsLock(s, u) /\ ~NeedsUnlock(s, u)
      <4>1. Read(s, u) \in {"active", "suspended"} /\ (Read(s, u) = intent[u] => local[u] = intent[u])
        BY <3>1, <3>3 DEF KnownTo
      <4>2. Value(Read(s, u)) = ak[u]
        BY <2>2, <3>1, <3>3, <4>1 DEF NeedsLock, NeedsUnlock, Value, Exists
      <4> QED
        BY <3>1, <4>1, <4>2 DEF Value
    <3> QED
      BY <1>5, <3>2, <3>3 DEF Push, ReadyToPush
  <2>3. /\ \A v \in Users \ {u} : ak'[v] = ak[v]
        /\ ak'[u] \in {ak[u], Value(Read(s, u))}
        /\ Exists(u)' <=> Exists(u)
        /\ ak'[u] = "unborn" <=> ak[u] = "unborn"
    BY <1>0, <1>5 DEF Push, TypeOK, Exists, Value
  <2>4. \A v \in Users \ {u} : v \in lag => v \in lag'
    BY <1>5 DEF Push
  <2>5. "none" \in Steps /\ "none" \in Statuses
    BY DEF Steps, Statuses
  <2> QED
    BY <1>5, <2>1, <2>2, <2>3, <2>4, <2>5, ReachKeeps DEF Push
<1>6. CASE SweepRevoke(s, u)
  <2>1. Reach(s, u, "marking", "none") /\ At(s, u, "orphaning") /\ ~At(s, u, "none")
    BY <1>6 DEF SweepRevoke, At
  <2>2. ~Kept(u)
    BY <2>1, InHand DEF KnownTo, At
  <2>3. "marking" \in Steps /\ "none" \in Statuses
    BY DEF Steps, Statuses
  <2> QED
    BY <1>6, <2>1, <2>2, <2>3, ReachKeeps DEF SweepRevoke, history, Exists
<1>7. CASE SweepMark(s, u)
  <2>1. Reach(s, u, "none", "none") /\ At(s, u, "marking") /\ ~At(s, u, "none")
    BY <1>7 DEF SweepMark, At
  <2>2. ~Kept(u)
    BY <2>1, InHand DEF KnownTo, At
  <2>3. "none" \in Steps /\ "none" \in Statuses
    BY DEF Steps, Statuses
  <2>4. \A v \in Users \ {u} : local'[v] = local[v] /\ (v \in lag => v \in lag')
    BY <1>0, <1>7 DEF SweepMark, TypeOK
  <2> QED
    BY <1>7, <2>1, <2>2, <2>3, <2>4, ReachKeeps DEF SweepMark, Exists
<1> QED
  BY <1>1, <1>2, <1>3, <1>4, <1>5, <1>6, <1>7 DEF SyncUser

\* A failing step is logged and skipped; the accounts it leaves half changed
\* are remembered in missed.
LEMMA FailKeeps ==
  ASSUME IntentInv, NEW s \in Syncs, NEW u \in Users,
         LockFails(s, u) \/ UnlockFails(s, u) \/ SyncFails(s, u) \/ SweepFails(s, u)
  PROVE  SyncingBeforeSteps' /\ Orderly' /\ AllKept'
<1>0. TypeOK
  BY DEF IntentInv, TypeInv
<1>1. CASE LockFails(s, u)
  <2>1. Reach(s, u, "push", "active") /\ ~At(s, u, "none") /\ u \notin Untouched'
    BY <1>1 DEF LockFails, NeedsLock, At, Untouched
  <2>2. "push" \in Steps /\ "active" \in Statuses
    BY DEF Steps, Statuses
  <2> QED
    BY <1>1, <2>1, <2>2, ReachKeeps DEF LockFails, accounts, Exists
<1>2. CASE UnlockFails(s, u)
  <2>1. Reach(s, u, "push", "suspended") /\ ~At(s, u, "none") /\ u \notin Untouched'
    BY <1>2 DEF UnlockFails, NeedsUnlock, At, Untouched
  <2>2. "push" \in Steps /\ "suspended" \in Statuses
    BY DEF Steps, Statuses
  <2>3. \A v \in Users \ {u} : local'[v] = local[v]
    BY <1>0, <1>2 DEF UnlockFails, TypeOK
  <2> QED
    BY <1>2, <2>1, <2>2, <2>3, ReachKeeps DEF UnlockFails, Exists
<1>3. CASE SyncFails(s, u) \/ SweepFails(s, u)
  <2>1. /\ Reach(s, u, "none", "none")
        /\ UNCHANGED <<local, ak, patches, intent, disturbed, missed, lag>>
    BY <1>3 DEF SyncFails, SweepFails, accounts, history
  <2>2. "none" \in Steps /\ "none" \in Statuses
    BY DEF Steps, Statuses
  <2>3. Kept(u) => u \in lag' \/ local'[u] = intent[u]
    BY <2>1 DEF Kept
  <2> QED
    BY <2>1, <2>2, <2>3, ReachKeeps DEF Exists
<1> QED
  BY <1>1, <1>2, <1>3

LEMMA IntentStep == IntentInv /\ [Next]_vars => IntentInv'
<1> SUFFICES ASSUME IntentInv, [Next]_vars PROVE IntentInv'
  OBVIOUS
<1>0. TypeInv /\ TypeOK /\ SyncingBeforeSteps /\ Orderly /\ AllKept
  BY DEF IntentInv, TypeInv
<1>1. TypeInv'
  BY <1>0, TypeStep
<1> DEFINE Goal == SyncingBeforeSteps' /\ Orderly' /\ AllKept'
<1>2. ASSUME run' = run PROVE SyncingBeforeSteps'
  BY <1>0, <1>2 DEF SyncingBeforeSteps, At
<1>3. ASSUME Administer PROVE Goal
  <2>1. run' = run
    BY <1>3 DEF Administer, Suspend, Unsuspend, Provision, PatchFails, Act
  <2> QED
    BY <1>2, <1>3, <2>1, AdministerKeeps
<1>4. ASSUME Operate PROVE Goal
  <2>1. run' = run
    BY <1>4 DEF Operate, OperatorCreates, OperatorDeletes, OperatorSets, Act
  <2> QED
    BY <1>2, <1>4, <2>1, OperateKeeps
<1>5. ASSUME PatchNext PROVE Goal
  BY <1>2, <1>5, PatchKeeps DEF PatchNext, Patch
<1>6. ASSUME NEW s \in Syncs,
             StartRun(s) \/ FetchPage(s) \/ StartSweep(s) \/ EndRun(s) \/ AbandonRun(s)
      PROVE  Goal
  BY <1>0, <1>6, RunBeforeSteps, RunKeeps
<1>7. ASSUME NEW s \in Syncs, NEW u \in Users, SyncUser(s, u) PROVE Goal
  BY <1>7, SyncUserKeeps
<1>8. ASSUME NEW s \in Syncs, NEW u \in Users,
             LockFails(s, u) \/ UnlockFails(s, u) \/ SyncFails(s, u) \/ SweepFails(s, u)
      PROVE  Goal
  BY <1>8, FailKeeps
<1>9. ASSUME UNCHANGED vars PROVE Goal
  <2>1. UNCHANGED <<local, ak, patches, run, intent, disturbed, missed, lag>>
    BY <1>9 DEF vars, accounts, history
  <2>2. Orderly'
    BY <1>0, <2>1 DEF Orderly
  <2>3. ASSUME NEW u \in Untouched', Exists(u)' PROVE Kept(u)'
    <3>1. u \in Users /\ Kept(u)
      BY <1>0, <2>1, <2>3 DEF AllKept, Untouched, Exists
    <3>2. Syncing' => Syncing
      BY <2>1 DEF Syncing
    <3>3. \A s \in Syncs : SameRun(s, u)
      BY <2>1 DEF SameRun, Saw, Read, Place, Directory, Exists
    <3>4. u \in lag' \/ local'[u] = intent[u]
      BY <2>1, <3>1 DEF Kept
    <3> QED
      BY <2>1, <3>1, <3>2, <3>3, <3>4, StaysKept
  <2> QED
    BY <1>2, <2>1, <2>2, <2>3 DEF AllKept
<1>10. Goal
  BY <1>3, <1>4, <1>5, <1>6, <1>7, <1>8, <1>9 DEF Next, SyncNext, Fail
<1> QED
  BY <1>1, <1>10 DEF IntentInv

LEMMA IntentInit == Init => IntentInv
<1> SUFFICES ASSUME Init PROVE IntentInv
  OBVIOUS
<1>1. TypeInv
  BY TypeInit
<1>2. \A s \in Syncs : run[s].stage = "idle" /\ \A u \in Users : At(s, u, "none")
  BY DEF Init, NoRun, At
<1>3. SyncingBeforeSteps
  BY <1>2 DEF SyncingBeforeSteps
<1>4. PICK known \in SUBSET Users :
        /\ \A u \in known, v \in Users : v < u => v \in known
        /\ local = [u \in Users |-> IF u \in known THEN "active" ELSE "none"]
        /\ ak = [u \in Users |-> IF u \in known THEN "on" ELSE "unborn"]
        /\ intent = local
  BY DEF Init
<1>5. Orderly
  BY <1>4 DEF Orderly
<1>6. ASSUME NEW u \in Users, Exists(u) PROVE Kept(u)
  <2>1. local[u] = "active" /\ ak[u] = "on" /\ intent[u] = "active" /\ patches = {}
    BY <1>4, <1>6 DEF Exists, Init
  <2>2. \A s \in Syncs : KnownTo(s, u)
    BY <1>2, <1>3, IdleKnows
  <2> QED
    BY <1>2, <2>1, <2>2 DEF Kept, Patching, Syncing, Value
<1> QED
  BY <1>1, <1>3, <1>5, <1>6 DEF IntentInv, AllKept, Untouched

\* However many web processes run the sync, whatever interleaves and whatever
\* fails: an account that was not acted on during a run or before an earlier
\* PATCH was made keeps, on both sides, the status of the last deliberate act
\* (AccountLifecycleService, authentikSync).
THEOREM IntentIsKept == Spec => []StatusFollowsIntent
<1>1. IntentInv => StatusFollowsIntent
  BY DEF IntentInv, AllKept, Untouched, Kept, StatusFollowsIntent, Exists
<1> QED
  BY IntentInit, IntentStep, <1>1, PTL DEF Spec
=============================================================================
