------------------------- MODULE TransferRequestsProofs -------------------------
(* Proofs about TransferRequests, for any tree of teams, people, sessions   *)
(* and requests and any bounds: whoever judged what, a person is moved only *)
(* as both sides agreed.                                                    *)
EXTENDS TransferRequests, FiniteSetTheorems, TLAPS

-----------------------------------------------------------------------------
(* The invariant: what a session knows from when it judged or read.        *)

RequestType == [st : {"unused", "pending", "approved", "denied"}, user : Users \cup {None},
                from : Teams \cup {None}, to : Teams \cup {None}, gate : Teams \cup {None},
                said : SUBSET Teams]
SessionType == [pc : {"idle", "judge", "file", "transact", "write", "deny", "add"},
                actor : Users \cup {None}, user : Users \cup {None},
                from : Teams \cup {None}, to : Teams \cup {None},
                req : Requests \cup {NoRequest}, said : SUBSET Teams,
                late : BOOLEAN, since : BOOLEAN]

Typed ==
  /\ home \in [Users -> Teams \cup {None}]
  /\ request \in [Requests -> RequestType]
  /\ web \in [Sessions -> SessionType]

\* The gate of a request is the side that has not agreed yet.
RequestSound(q) ==
  q.st # "unused" =>
    /\ q.user \in Users /\ q.from \in Teams /\ q.to \in Teams /\ q.from # q.to
    /\ q.gate \in {q.from, q.to}
    /\ q.said = {} \/ q.said \cup {q.gate} = {q.from, q.to}

Moving(w) == w.pc \in {"judge", "file", "transact", "write"}
Transacts(w) == w.pc \in {"transact", "write"}

\* The approval of a request is about what the request says.
Approves(w) ==
  LET q == request[w.req]
  IN /\ q.st # "unused" /\ q.user = w.user /\ q.from = w.from /\ q.to = w.to
     /\ w.said = q.said \cup {q.gate}

\* What was judged is so, or the session is late; what a transaction has
\* checked is so, or a team was moved since.
SessionSound(w) ==
  /\ Moving(w) => w.user \in Users /\ w.from \in Teams /\ w.to \in Teams /\ w.from # w.to
  /\ Moving(w) /\ w.req = NoRequest => w.late \/ home[w.user] = w.from
  /\ w.pc \in {"judge", "file"} => w.req = NoRequest
  /\ w.pc = "file" => w.said \subseteq {w.from, w.to} /\ w.said # {w.from, w.to}
  /\ Transacts(w) => IF w.req = NoRequest THEN w.said = {w.from, w.to} ELSE Approves(w)
  /\ w.pc = "deny" => w.req \in Requests /\ request[w.req].st # "unused"
  /\ w.pc = "write" =>
       /\ home[w.user] \notin {None, w.to}
       /\ w.req # NoRequest => home[w.user] = w.from /\ request[w.req].st = "pending"
       /\ w.since \/ w.actor \in Managers \/ Organisation(home[w.user]) = Organisation(w.to)
  /\ w.pc = "add" =>
       w.user \in Users /\ w.to \in Teams /\ w.req = NoRequest /\ (w.late \/ home[w.user] = None)

\* The locks of the rows of people and requests.
Apart(w, v) ==
  w.pc = "write" /\ v.pc = "write" =>
    w.user # v.user /\ (w.req = v.req => w.req = NoRequest)

TransferInv ==
  /\ Typed
  /\ \A r \in Requests : RequestSound(request[r])
  /\ \A s \in Sessions : SessionSound(web[s])
  /\ \A s \in Sessions : \A z \in Sessions \ {s} : Apart(web[s], web[z])

IdsDiffer == None \notin Teams /\ NoRequest \notin Requests

-----------------------------------------------------------------------------
(* What a step leaves of it to the sessions that do not take it.           *)

\* The fields that no other session's step changes; w may have become late.
SameSession(w, v) ==
  /\ v.pc = w.pc /\ v.actor = w.actor /\ v.user = w.user /\ v.from = w.from /\ v.to = w.to
  /\ v.req = w.req /\ v.said = w.said
  /\ w.late => v.late
  /\ w.since => v.since

\* A request keeps what it says once it is filed.
RequestsKept ==
  \A r \in Requests : request[r].st # "unused" =>
    /\ request'[r].st # "unused"
    /\ request'[r].user = request[r].user /\ request'[r].from = request[r].from
    /\ request'[r].to = request[r].to /\ request'[r].gate = request[r].gate
    /\ request'[r].said = request[r].said

LEMMA SameOrganisations == ASSUME up' = up, NEW t PROVE Organisation(t)' = Organisation(t)
BY DEF Organisation, Chain, Upward

LEMMA SessionAges ==
  ASSUME IdsDiffer, NEW w \in SessionType, NEW v \in SessionType, SameSession(w, v), SessionSound(w),
         RequestsKept,
         w.pc \notin {"idle", "deny"} => home'[w.user] = home[w.user] \/ (v.late /\ w.pc # "write"),
         w.pc # "idle" => up' = up \/ v.since,
         w.pc = "write" /\ w.req # NoRequest => request'[w.req].st = request[w.req].st
  PROVE  SessionSound(v)'
<1>1. /\ v.pc = w.pc /\ v.actor = w.actor /\ v.user = w.user /\ v.from = w.from /\ v.to = w.to
      /\ v.req = w.req /\ v.said = w.said /\ (w.late => v.late) /\ (w.since => v.since)
  BY DEF SameSession
<1>2. w.req \in Requests \cup {NoRequest}
  BY DEF SessionType
<1>3. Moving(v)' = Moving(w) /\ Transacts(v)' = Transacts(w)
  BY <1>1 DEF Moving, Transacts
<1>4. Moving(v)' => v.user \in Users /\ v.from \in Teams /\ v.to \in Teams /\ v.from # v.to
  BY <1>1, <1>3 DEF SessionSound
<1>5. Moving(v)' /\ v.req = NoRequest => v.late \/ home'[v.user] = v.from
  BY <1>1, <1>3 DEF SessionSound, Moving
<1>6. ASSUME Transacts(w), w.req # NoRequest, Approves(w) PROVE Approves(v)'
  BY <1>1, <1>2, <1>6 DEF Approves, RequestsKept
<1>7. Transacts(v)' => IF v.req = NoRequest THEN v.said = {v.from, v.to} ELSE Approves(v)'
  BY <1>1, <1>3, <1>6 DEF SessionSound
<1>8. v.pc = "deny" => v.req \in Requests /\ request'[v.req].st # "unused"
  BY <1>1 DEF SessionSound, RequestsKept
<1>9. ASSUME v.pc = "write"
      PROVE  /\ home'[v.user] \notin {None, v.to}
             /\ v.req # NoRequest => home'[v.user] = v.from /\ request'[v.req].st = "pending"
             /\ v.since \/ v.actor \in Managers \/ Organisation(home[v.user])' = Organisation(v.to)'
  <2>1. w.pc = "write" /\ home'[w.user] = home[w.user]
    BY <1>1, <1>9
  <2>2. /\ home[w.user] \notin {None, w.to}
        /\ w.req # NoRequest => home[w.user] = w.from /\ request[w.req].st = "pending"
        /\ w.since \/ w.actor \in Managers \/ Organisation(home[w.user]) = Organisation(w.to)
    BY <2>1 DEF SessionSound
  <2>3. CASE v.since
    BY <1>1, <2>1, <2>2, <2>3
  <2>4. CASE up' = up
    <3>1. Organisation(v.to)' = Organisation(w.to)
      BY <1>1, <2>4, SameOrganisations
    <3>2. Organisation(home[v.user])' = Organisation(home[w.user])
      BY <1>1, <2>1, <2>4, SameOrganisations DEF Organisation, Chain, Upward
    <3> QED
      BY <1>1, <2>1, <2>2, <3>1, <3>2
  <2> QED
    BY <2>1, <2>3, <2>4
<1>10. v.pc = "add" =>
         v.user \in Users /\ v.to \in Teams /\ v.req = NoRequest /\ (v.late \/ home'[v.user] = None)
  BY <1>1 DEF SessionSound
<1>11. /\ v.pc \in {"judge", "file"} => v.req = NoRequest
       /\ v.pc = "file" => v.said \subseteq {v.from, v.to} /\ v.said # {v.from, v.to}
  BY <1>1 DEF SessionSound
<1> QED
  BY <1>4, <1>5, <1>7, <1>8, <1>9, <1>10, <1>11 DEF SessionSound

LEMMA SoundNext ==
  ASSUME NEW z, NEW v, v = web'[z], SessionSound(v)'
  PROVE  SessionSound(web[z])'
BY DEF SessionSound, Moving, Transacts, Approves

LEMMA IdleSound == Idle \in SessionType /\ SessionSound(Idle) /\ SessionSound(Idle)' /\ Idle.pc = "idle"
BY DEF Idle, SessionType, SessionSound, Moving, Transacts

\* A step of session s that changes neither the tree nor the rows.
LEMMA GoesKeeps ==
  ASSUME IdsDiffer, TransferInv, NEW s \in Sessions, NEW w \in SessionType, Goes(s, w),
         home' = home, up' = up,
         request' \in [Requests -> RequestType], RequestsKept,
         \A r \in Requests : RequestSound(request'[r]),
         \A z \in Sessions \ {s} : web[z].pc = "write" /\ web[z].req # NoRequest =>
            request'[web[z].req].st = request[web[z].req].st,
         SessionSound(w)',
         \A z \in Sessions \ {s} : Apart(w, web[z])
  PROVE  TransferInv'
<1>1. web \in [Sessions -> SessionType] /\ home \in [Users -> Teams \cup {None}]
  BY DEF TransferInv, Typed
<1>2. /\ web' \in [Sessions -> SessionType] /\ web'[s] = w
      /\ \A z \in Sessions \ {s} : web'[z] = web[z]
  BY <1>1 DEF Goes
<1>3. ASSUME NEW z \in Sessions \ {s} PROVE SessionSound(web[z])'
  <2>1. PICK v \in SessionType : v = web[z]
    BY <1>1
  <2>2. web'[z] = v /\ SessionSound(v)
    BY <1>2, <2>1 DEF TransferInv
  <2>3. SameSession(v, v)
    BY DEF SameSession
  <2>4. SessionSound(v)'
    BY <2>1, <2>2, <2>3, SessionAges
  <2> QED
    BY <2>2, <2>4, SoundNext
<1>4. \A z \in Sessions : SessionSound(web[z])'
  BY <1>2, <1>3
<1>5. \A y \in Sessions : \A z \in Sessions \ {y} : Apart(web'[y], web'[z])
  BY <1>2 DEF TransferInv, Apart
<1>6. Typed'
  BY <1>1, <1>2 DEF Typed
<1> QED
  BY <1>4, <1>5, <1>6 DEF TransferInv

\* A step that changes the rows of the people in U, or the tree.
LEMMA OutdatedKeeps ==
  ASSUME IdsDiffer, NEW W \in [Sessions -> SessionType], NEW U, NEW tree \in BOOLEAN,
         Typed,
         \A z \in Sessions : SessionSound(W[z]),
         \A y \in Sessions : \A z \in Sessions \ {y} : Apart(W[y], W[z]),
         web' = Outdated(W, U, tree),
         home' \in [Users -> Teams \cup {None}],
         \A u \in Users : home'[u] = home[u]
                          \/ (u \in U /\ \A z \in Sessions : W[z].pc = "write" => W[z].user # u),
         up' = up \/ tree,
         request' \in [Requests -> RequestType], RequestsKept,
         \A r \in Requests : RequestSound(request'[r]),
         \A z \in Sessions : W[z].pc = "write" /\ W[z].req # NoRequest =>
            request'[W[z].req].st = request[W[z].req].st
  PROVE  TransferInv'
<1>1. ASSUME NEW z \in Sessions
      PROVE  /\ web'[z] \in SessionType /\ SameSession(W[z], web'[z])
             /\ W[z].pc # "idle" /\ (W[z].user \in U \/ tree) => web'[z].late
             /\ W[z].pc # "idle" /\ tree => web'[z].since
  <2>0. W[z] \in SessionType
    OBVIOUS
  <2>1. CASE W[z].pc = "idle"
    <3>1. web'[z] = W[z]
      BY <2>1 DEF Outdated
    <3> QED
      BY <2>0, <2>1, <3>1 DEF SameSession
  <2>2. CASE W[z].pc # "idle"
    <3> DEFINE late == W[z].late \/ tree \/ W[z].user \in U \/ W[z].actor \in U
               since == W[z].since \/ tree
    <3>1. web'[z] = [W[z] EXCEPT !.late = late, !.since = since]
      BY <2>2, <2>0 DEF Outdated, SessionType
    <3>2. late \in BOOLEAN /\ since \in BOOLEAN /\ (W[z].late => late) /\ (W[z].since => since)
          /\ (W[z].user \in U \/ tree => late) /\ (tree => since)
      BY <2>0 DEF SessionType
    <3> HIDE DEF late, since
    <3> QED
      BY <2>0, <3>1, <3>2 DEF SessionType, SameSession
  <2> QED
    BY <2>1, <2>2
<1>2. ASSUME NEW z \in Sessions PROVE SessionSound(web[z])'
  <2>0. PICK v \in SessionType : v = web'[z]
    BY <1>1
  <2>1. W[z] \in SessionType /\ SameSession(W[z], v) /\ SessionSound(W[z])
    BY <1>1, <2>0
  <2>2. W[z].pc \notin {"idle", "deny"} => W[z].user \in Users
    BY <2>1 DEF SessionSound, SessionType, Moving
  <2>3. W[z].pc \notin {"idle", "deny"} =>
          home'[W[z].user] = home[W[z].user] \/ (v.late /\ W[z].pc # "write")
    BY <1>1, <2>0, <2>2
  <2>4. W[z].pc # "idle" => up' = up \/ v.since
    BY <1>1, <2>0
  <2>5. SessionSound(v)'
    BY <2>1, <2>3, <2>4, SessionAges
  <2> QED
    BY <2>0, <2>5, SoundNext
<1>3. \A y \in Sessions : \A z \in Sessions \ {y} : Apart(web'[y], web'[z])
  BY <1>1 DEF Apart, SameSession
<1>4. web' \in [Sessions -> SessionType]
  BY <1>1 DEF Outdated
<1>5. Typed'
  BY <1>4 DEF Typed
<1> QED
  BY <1>2, <1>3, <1>5 DEF TransferInv

-----------------------------------------------------------------------------
(* One lemma per operation.                                                *)

\* The requests are left alone.
LEMMA SameRequests ==
  ASSUME TransferInv, request' = request
  PROVE  /\ request' \in [Requests -> RequestType] /\ RequestsKept
         /\ \A r \in Requests : RequestSound(request'[r])
BY DEF TransferInv, Typed, RequestsKept

LEMMA StartSteps ==
  ASSUME IdsDiffer, TransferInv, NEW s \in Sessions, NEW a \in Users, NEW u \in Users, NEW t \in Teams,
         StartTransfer(s, a, u, t) \/ StartAddition(s, a, u, t)
  PROVE  TransferInv'
<1>1. UNCHANGED <<home, up, request>>
  BY DEF StartTransfer, StartAddition, vars, scopes
<1>2. home[u] \in Teams \cup {None}
  BY DEF TransferInv, Typed
<1>3. CASE StartTransfer(s, a, u, t)
  <2>1. PICK w : w = [Idle EXCEPT !.pc = "judge", !.actor = a, !.user = u, !.from = home[u], !.to = t]
    OBVIOUS
  <2>2. Goes(s, w) /\ home[u] \in Teams /\ home[u] # t
    BY <1>2, <1>3, <2>1 DEF StartTransfer
  <2>3. /\ w \in SessionType /\ w.pc = "judge" /\ w.user = u /\ w.from = home[u] /\ w.to = t
        /\ w.req = NoRequest
    BY <2>1, <2>2 DEF Idle, SessionType
  <2>4. SessionSound(w)'
    BY <1>1, <2>2, <2>3 DEF SessionSound, Moving, Transacts
  <2>5. \A z \in Sessions : Apart(w, web[z])
    BY <2>3 DEF Apart
  <2> QED
    BY <1>1, <2>2, <2>3, <2>4, <2>5, SameRequests, GoesKeeps
<1>4. CASE StartAddition(s, a, u, t)
  <2>1. PICK w : w = [Idle EXCEPT !.pc = "add", !.actor = a, !.user = u, !.to = t, !.said = {t}]
    OBVIOUS
  <2>2. Goes(s, w) /\ home[u] = None
    BY <1>4, <2>1 DEF StartAddition
  <2>3. w \in SessionType /\ w.pc = "add" /\ w.user = u /\ w.to = t /\ w.req = NoRequest
    BY <2>1 DEF Idle, SessionType
  <2>4. SessionSound(w)'
    BY <1>1, <2>2, <2>3 DEF SessionSound, Moving, Transacts
  <2>5. \A z \in Sessions : Apart(w, web[z])
    BY <2>3 DEF Apart
  <2> QED
    BY <1>1, <2>2, <2>3, <2>4, <2>5, SameRequests, GoesKeeps
<1> QED
  BY <1>3, <1>4

LEMMA DecisionSteps ==
  ASSUME IdsDiffer, TransferInv, NEW s \in Sessions, NEW a \in Users, NEW r \in Requests,
         StartApproval(s, a, r) \/ StartDenial(s, a, r)
  PROVE  TransferInv'
<1>0. PICK q \in RequestType : q = request[r]
  BY DEF TransferInv, Typed
<1>1. UNCHANGED <<home, up, request>> /\ q.st = "pending" /\ request'[r] = q
  BY <1>0 DEF StartApproval, StartDenial, vars, scopes
<1>2. RequestSound(q)
  BY <1>0 DEF TransferInv
<1>3. /\ q.user \in Users /\ q.from \in Teams /\ q.to \in Teams /\ q.from # q.to
      /\ q.gate \in {q.from, q.to} /\ q.said \cup {q.gate} \in SUBSET Teams
  BY <1>1, <1>2 DEF RequestSound, RequestType
<1>4. CASE StartApproval(s, a, r)
  <2>1. PICK w : w = [Idle EXCEPT !.pc = "transact", !.actor = a, !.user = q.user, !.from = q.from,
                                  !.to = q.to, !.req = r, !.said = q.said \cup {q.gate}]
    OBVIOUS
  <2>2. Goes(s, w)
    BY <1>0, <1>4, <2>1 DEF StartApproval
  <2>3. /\ w \in SessionType /\ w.pc = "transact" /\ w.user = q.user /\ w.from = q.from /\ w.to = q.to
        /\ w.req = r /\ w.said = q.said \cup {q.gate}
    BY <1>3, <2>1 DEF Idle, SessionType
  <2>4. r # NoRequest
    BY DEF IdsDiffer
  <2>5. Approves(w)'
    BY <1>1, <2>3 DEF Approves
  <2>6. SessionSound(w)'
    BY <1>3, <2>3, <2>4, <2>5 DEF SessionSound, Moving, Transacts
  <2>7. \A z \in Sessions : Apart(w, web[z])
    BY <2>3 DEF Apart
  <2> QED
    BY <1>1, <2>2, <2>3, <2>6, <2>7, SameRequests, GoesKeeps
<1>5. CASE StartDenial(s, a, r)
  <2>1. PICK w : w = [Idle EXCEPT !.pc = "deny", !.actor = a, !.user = q.user, !.req = r]
    OBVIOUS
  <2>2. Goes(s, w)
    BY <1>0, <1>5, <2>1 DEF StartDenial
  <2>3. w \in SessionType /\ w.pc = "deny" /\ w.req = r
    BY <1>3, <2>1 DEF Idle, SessionType
  <2>4. SessionSound(w)'
    BY <1>1, <2>3 DEF SessionSound, Moving, Transacts
  <2>5. \A z \in Sessions : Apart(w, web[z])
    BY <2>3 DEF Apart
  <2> QED
    BY <1>1, <2>2, <2>3, <2>4, <2>5, SameRequests, GoesKeeps
<1> QED
  BY <1>4, <1>5

LEMMA TwoOfTwo ==
  ASSUME NEW a, NEW b, a # b, NEW S \in SUBSET {a, b}
  PROVE  Cardinality(S) = 2 <=> S = {a, b}
<1>1. Cardinality({}) = 0 /\ Cardinality({a}) = 1 /\ Cardinality({b}) = 1
  BY FS_EmptySet, FS_Singleton
<1>2. Cardinality({a, b}) = 2
  <2>1. IsFiniteSet({a}) /\ {a, b} = {a} \cup {b} /\ b \notin {a}
    BY FS_Singleton
  <2>2. Cardinality({a} \cup {b}) = Cardinality({a}) + 1
    BY <2>1, FS_AddElement
  <2> QED
    BY <1>1, <2>1, <2>2
<1>3. S = {} \/ S = {a} \/ S = {b} \/ S = {a, b}
  OBVIOUS
<1> QED
  BY <1>1, <1>2, <1>3

LEMMA JudgeStep ==
  ASSUME IdsDiffer, TransferInv, NEW s \in Sessions, Judge(s)
  PROVE  TransferInv'
<1>1. UNCHANGED <<home, up, request>> /\ web[s].pc = "judge"
  BY DEF Judge, vars, scopes
<1>2. PICK w \in SessionType : w = web[s]
  BY DEF TransferInv, Typed
<1>3. SessionSound(w) /\ w.pc = "judge"
  BY <1>1, <1>2 DEF TransferInv
<1>4. /\ w.user \in Users /\ w.from \in Teams /\ w.to \in Teams /\ w.from # w.to
      /\ w.req = NoRequest /\ (w.late \/ home[w.user] = w.from)
  BY <1>3 DEF SessionSound, Moving
<1>5. PICK said : said = {t \in {w.from, w.to} : Administers(w.actor, t)}
  OBVIOUS
<1>6. said \in SUBSET {w.from, w.to} /\ (Cardinality(said) = 2 <=> said = {w.from, w.to})
  <2>1. said \in SUBSET {w.from, w.to}
    BY <1>5
  <2>2. PICK a, b : a = w.from /\ b = w.to
    OBVIOUS
  <2>3. a # b /\ said \in SUBSET {a, b}
    BY <1>4, <2>1, <2>2
  <2>4. Cardinality(said) = 2 <=> said = {a, b}
    BY <2>3, TwoOfTwo
  <2> QED
    BY <2>1, <2>2, <2>4
<1>7. PICK v : v = [w EXCEPT !.pc = IF Cardinality(said) = 2 THEN "transact" ELSE "file", !.said = said]
  OBVIOUS
<1>8. Goes(s, v)
  BY <1>2, <1>5, <1>7 DEF Judge
<1>9. /\ v \in SessionType /\ v.user = w.user /\ v.from = w.from /\ v.to = w.to /\ v.req = NoRequest
      /\ v.late = w.late /\ v.said = said
      /\ v.pc \in {"transact", "file"} /\ (v.pc = "transact" <=> said = {w.from, w.to})
  BY <1>4, <1>6, <1>7 DEF SessionType
<1>10. SessionSound(v)'
  BY <1>1, <1>4, <1>6, <1>9 DEF SessionSound, Moving, Transacts
<1>11. \A z \in Sessions : Apart(v, web[z])
  BY <1>9 DEF Apart
<1> QED
  BY <1>1, <1>8, <1>9, <1>10, <1>11, SameRequests, GoesKeeps

\* A session ends and leaves what others rely on.
LEMMA EndStep ==
  ASSUME IdsDiffer, TransferInv, NEW s \in Sessions, Goes(s, Idle), home' = home, up' = up,
         request' \in [Requests -> RequestType], RequestsKept,
         \A r \in Requests : RequestSound(request'[r]),
         \A z \in Sessions \ {s} : web[z].pc = "write" /\ web[z].req # NoRequest =>
            request'[web[z].req].st = request[web[z].req].st
  PROVE  TransferInv'
<1>1. \A z \in Sessions : Apart(Idle, web[z])
  BY IdleSound DEF Apart
<1> QED
  BY <1>1, IdleSound, GoesKeeps

\* Who writes for a request holds it pending.
LEMMA Holds ==
  ASSUME TransferInv, NEW z \in Sessions, web[z].pc = "write"
  PROVE  /\ web[z].user \in Users
         /\ web[z].req # NoRequest => web[z].req \in Requests /\ request[web[z].req].st = "pending"
<1>1. web[z] \in SessionType /\ SessionSound(web[z])
  BY DEF TransferInv, Typed
<1> QED
  BY <1>1 DEF SessionSound, SessionType, Moving

LEMMA FileStep ==
  ASSUME IdsDiffer, TransferInv, NEW s \in Sessions, FileRequest(s)
  PROVE  TransferInv'
<1>1. UNCHANGED <<home, up>> /\ web[s].pc = "file" /\ Goes(s, Idle)
  BY DEF FileRequest, vars, scopes
<1>2. PICK w \in SessionType : w = web[s]
  BY DEF TransferInv, Typed
<1>3. SessionSound(w) /\ w.pc = "file"
  BY <1>1, <1>2 DEF TransferInv
<1>4. /\ w.user \in Users /\ w.from \in Teams /\ w.to \in Teams /\ w.from # w.to
      /\ w.said \subseteq {w.from, w.to} /\ w.said # {w.from, w.to}
  BY <1>3 DEF SessionSound, Moving
<1>5. CASE request' = request
  BY <1>1, <1>5, SameRequests, EndStep
<1>6. ASSUME NEW r \in Requests, request[r] = Unused,
             request' = [request EXCEPT ![r] = [st |-> "pending", user |-> w.user, from |-> w.from,
                                                to |-> w.to, gate |-> ApprovalTeam(w), said |-> w.said]]
      PROVE  TransferInv'
  <2>1. PICK q : q = [st |-> "pending", user |-> w.user, from |-> w.from,
                      to |-> w.to, gate |-> ApprovalTeam(w), said |-> w.said]
    OBVIOUS
  <2>2. q \in RequestType /\ RequestSound(q)
    BY <1>4, <2>1 DEF RequestType, RequestSound, ApprovalTeam
  <2>3. request[r].st = "unused"
    BY <1>6 DEF Unused
  <2>4. request \in [Requests -> RequestType] /\ \A x \in Requests : RequestSound(request[x])
    BY DEF TransferInv, Typed
  <2>5. request' \in [Requests -> RequestType] /\ request'[r] = q
        /\ \A x \in Requests \ {r} : request'[x] = request[x]
    BY <1>6, <2>1, <2>2, <2>4
  <2>6. RequestsKept
    BY <2>3, <2>5 DEF RequestsKept
  <2>7. \A x \in Requests : RequestSound(request'[x])
    BY <2>2, <2>4, <2>5
  <2>8. \A z \in Sessions \ {s} : web[z].pc = "write" /\ web[z].req # NoRequest =>
          request'[web[z].req].st = request[web[z].req].st
    BY <2>3, <2>5, Holds
  <2> QED
    BY <1>1, <2>5, <2>6, <2>7, <2>8, EndStep
<1> QED
  BY <1>2, <1>5, <1>6 DEF FileRequest

LEMMA DenialStep ==
  ASSUME IdsDiffer, TransferInv, NEW s \in Sessions, WriteDenial(s)
  PROVE  TransferInv'
<1>1. UNCHANGED <<home, up>> /\ web[s].pc = "deny" /\ Goes(s, Idle) /\ ~LockedRequest(web[s].req)
  BY DEF WriteDenial, vars, scopes
<1>2. PICK r : r = web[s].req
  OBVIOUS
<1>3. r \in Requests /\ request[r].st # "unused"
  <2>1. SessionSound(web[s])
    BY DEF TransferInv
  <2> QED
    BY <1>1, <1>2, <2>1 DEF SessionSound
<1>4. request \in [Requests -> RequestType] /\ \A x \in Requests : RequestSound(request[x])
  BY DEF TransferInv, Typed
<1>5. request' = [request EXCEPT ![r] = [request[r] EXCEPT !.st = "denied"]]
  BY <1>2, <1>3, <1>4 DEF WriteDenial
<1>6. PICK q \in RequestType : q = [request[r] EXCEPT !.st = "denied"]
  BY <1>3, <1>4 DEF RequestType
<1>7. /\ q.st = "denied" /\ q.user = request[r].user /\ q.from = request[r].from /\ q.to = request[r].to
      /\ q.gate = request[r].gate /\ q.said = request[r].said
  <2>1. request[r] \in RequestType
    BY <1>3, <1>4
  <2> QED
    BY <1>6, <2>1 DEF RequestType
<1>8. request' \in [Requests -> RequestType] /\ request'[r] = q
      /\ \A x \in Requests \ {r} : request'[x] = request[x]
  BY <1>3, <1>4, <1>5, <1>6
<1>9. RequestsKept
  BY <1>7, <1>8 DEF RequestsKept
<1>10. \A x \in Requests : RequestSound(request'[x])
  <2>1. RequestSound(q)
    BY <1>3, <1>4, <1>7 DEF RequestSound
  <2> QED
    BY <1>4, <1>8, <2>1
<1>11. \A z \in Sessions \ {s} : web[z].pc = "write" /\ web[z].req # NoRequest =>
         request'[web[z].req].st = request[web[z].req].st
  BY <1>1, <1>2, <1>8, Holds DEF LockedRequest
<1> QED
  BY <1>1, <1>8, <1>9, <1>10, <1>11, EndStep

LEMMA LockStep ==
  ASSUME IdsDiffer, TransferInv, NEW s \in Sessions, LockAndCheck(s)
  PROVE  TransferInv'
<1>1. UNCHANGED <<home, up, request>> /\ web[s].pc = "transact"
  BY DEF LockAndCheck, vars, scopes
<1>2. PICK w \in SessionType : w = web[s]
  BY DEF TransferInv, Typed
<1>3. SessionSound(w) /\ w.pc = "transact"
  BY <1>1, <1>2 DEF TransferInv
<1>4. /\ w.user \in Users /\ w.from \in Teams /\ w.to \in Teams /\ w.from # w.to
      /\ w.req = NoRequest => w.late \/ home[w.user] = w.from
      /\ IF w.req = NoRequest THEN w.said = {w.from, w.to} ELSE Approves(w)
  BY <1>3 DEF SessionSound, Moving, Transacts
<1>5. CASE Goes(s, Idle)
  BY <1>1, <1>5, SameRequests, EndStep
<1>6. ASSUME Goes(s, [w EXCEPT !.pc = "write", !.since = FALSE]),
             ~Locked(w.user), w.req # NoRequest => ~LockedRequest(w.req),
             w.req # NoRequest => request[w.req].st = "pending",
             home[w.user] \notin {None, w.to}, SourceAsExpected(w),
             Organisation(home[w.user]) = Organisation(w.to) \/ w.actor \in Managers
      PROVE  TransferInv'
  <2>1. PICK v : v = [w EXCEPT !.pc = "write", !.since = FALSE]
    OBVIOUS
  <2>2. /\ v \in SessionType /\ v.pc = "write" /\ v.actor = w.actor /\ v.user = w.user
        /\ v.from = w.from /\ v.to = w.to /\ v.req = w.req /\ v.said = w.said /\ v.late = w.late
    BY <2>1 DEF SessionType
  <2>3. w.req # NoRequest => Approves(v)'
    BY <1>1, <1>4, <2>2 DEF Approves
  <2>4. Organisation(home[v.user])' = Organisation(v.to)' \/ v.actor \in Managers
    <3>1. Organisation(v.to)' = Organisation(w.to)
      BY <1>1, <2>2, SameOrganisations
    <3>2. Organisation(home[v.user])' = Organisation(home[w.user])
      BY <1>1, <2>2, SameOrganisations DEF Organisation, Chain, Upward
    <3> QED
      BY <1>6, <2>2, <3>1, <3>2
  <2>5. w.req # NoRequest => home[w.user] = w.from
    BY <1>6 DEF SourceAsExpected
  <2>6. SessionSound(v)'
    BY <1>1, <1>4, <1>6, <2>2, <2>3, <2>4, <2>5 DEF SessionSound, Moving, Transacts
  <2>7. \A z \in Sessions \ {s} : Apart(v, web[z])
    BY <1>6, <2>2 DEF Apart, Locked, LockedRequest
  <2> QED
    BY <1>1, <1>6, <2>1, <2>2, <2>6, <2>7, SameRequests, GoesKeeps
<1> QED
  BY <1>2, <1>5, <1>6 DEF LockAndCheck

\* addUserToTeam changes the rows of one person, who is nobody else's.
LEMMA AddStep ==
  ASSUME IdsDiffer, TransferInv, NEW W \in [Sessions -> SessionType], NEW u \in Users, NEW t \in Teams,
         \A z \in Sessions : SessionSound(W[z]),
         \A y \in Sessions : \A z \in Sessions \ {y} : Apart(W[y], W[z]),
         \A z \in Sessions : W[z].pc = "write" => W[z].user # u,
         AddUserToTeam(u, t), web' = Outdated(W, {u}, FALSE),
         request' \in [Requests -> RequestType], RequestsKept,
         \A r \in Requests : RequestSound(request'[r]),
         \A z \in Sessions : W[z].pc = "write" /\ W[z].req # NoRequest =>
            request'[W[z].req].st = request[W[z].req].st
  PROVE  TransferInv'
<1>1. Typed
  BY DEF TransferInv
<1>2. home' = [home EXCEPT ![u] = t] /\ up' = up
  BY DEF AddUserToTeam
<1>3. home' \in [Users -> Teams \cup {None}] /\ \A v \in Users \ {u} : home'[v] = home[v]
  BY <1>1, <1>2 DEF Typed
<1>4. \A v \in Users : home'[v] = home[v]
                       \/ (v \in {u} /\ \A z \in Sessions : W[z].pc = "write" => W[z].user # v)
  BY <1>3
<1> QED
  BY <1>1, <1>2, <1>3, <1>4, OutdatedKeeps

\* The sessions once s has ended.
LEMMA WithoutSession ==
  ASSUME TransferInv, NEW s \in Sessions, NEW W, W = [web EXCEPT ![s] = Idle]
  PROVE  /\ W \in [Sessions -> SessionType] /\ W[s] = Idle
         /\ \A z \in Sessions \ {s} : W[z] = web[z]
         /\ \A z \in Sessions : SessionSound(W[z])
         /\ \A y \in Sessions : \A z \in Sessions \ {y} : Apart(W[y], W[z])
<1>1. web \in [Sessions -> SessionType]
  BY DEF TransferInv, Typed
<1>2. W \in [Sessions -> SessionType] /\ W[s] = Idle /\ \A z \in Sessions \ {s} : W[z] = web[z]
  BY <1>1, IdleSound
<1>3. \A z \in Sessions : SessionSound(W[z])
  BY <1>2, IdleSound DEF TransferInv
<1>4. \A y \in Sessions : \A z \in Sessions \ {y} : Apart(W[y], W[z])
  BY <1>2, IdleSound DEF TransferInv, Apart
<1> QED
  BY <1>2, <1>3, <1>4

LEMMA CommitStep ==
  ASSUME IdsDiffer, TransferInv, NEW s \in Sessions, CommitTransfer(s)
  PROVE  TransferInv'
<1>1. web[s].pc = "write"
  BY DEF CommitTransfer
<1>2. PICK w \in SessionType : w = web[s]
  BY DEF TransferInv, Typed
<1>3. w.user \in Users /\ w.to \in Teams /\ (w.req # NoRequest => w.req \in Requests /\ request[w.req].st = "pending")
  <2>1. SessionSound(w)
    BY <1>2 DEF TransferInv
  <2> QED
    BY <1>1, <1>2, <2>1, Holds DEF SessionSound, Moving
<1>4. CASE Goes(s, Idle) /\ UNCHANGED <<scopes, request>>
  BY <1>4, SameRequests, EndStep DEF scopes
<1>5. ASSUME AddUserToTeam(w.user, w.to), web' = Outdated([web EXCEPT ![s] = Idle], {w.user}, FALSE),
             request' = IF w.req = NoRequest THEN request ELSE [request EXCEPT ![w.req].st = "approved"]
      PROVE  TransferInv'
  <2>1. PICK W : W = [web EXCEPT ![s] = Idle]
    OBVIOUS
  <2>2. /\ W \in [Sessions -> SessionType] /\ W[s] = Idle
        /\ \A z \in Sessions \ {s} : W[z] = web[z]
        /\ \A z \in Sessions : SessionSound(W[z])
        /\ \A y \in Sessions : \A z \in Sessions \ {y} : Apart(W[y], W[z])
    BY <2>1, WithoutSession
  <2>3. \A z \in Sessions : W[z].pc = "write" =>
          z # s /\ W[z] = web[z] /\ W[z].user # w.user /\ (W[z].req = w.req => w.req = NoRequest)
    BY <1>1, <1>2, <2>2, IdleSound DEF TransferInv, Apart
  <2>4. request \in [Requests -> RequestType] /\ \A r \in Requests : RequestSound(request[r])
    BY DEF TransferInv, Typed
  <2>5. /\ request' \in [Requests -> RequestType] /\ RequestsKept
        /\ \A r \in Requests : RequestSound(request'[r])
        /\ \A r \in Requests : r # w.req => request'[r] = request[r]
    <3>1. CASE w.req = NoRequest
      BY <1>5, <2>4, <3>1, SameRequests
    <3>2. CASE w.req # NoRequest
      <4>1. request' = [request EXCEPT ![w.req] = [request[w.req] EXCEPT !.st = "approved"]]
        BY <1>3, <1>5, <2>4, <3>2
      <4>2. request[w.req] \in RequestType /\ request[w.req].st = "pending" /\ w.req \in Requests
        BY <1>3, <2>4, <3>2
      <4>3. PICK q \in RequestType : q = [request[w.req] EXCEPT !.st = "approved"]
        BY <4>2 DEF RequestType
      <4>4. /\ q.st = "approved" /\ q.user = request[w.req].user /\ q.from = request[w.req].from
            /\ q.to = request[w.req].to /\ q.gate = request[w.req].gate /\ q.said = request[w.req].said
        BY <4>2, <4>3 DEF RequestType
      <4>5. request' \in [Requests -> RequestType] /\ request'[w.req] = q
            /\ \A r \in Requests \ {w.req} : request'[r] = request[r]
        BY <2>4, <4>1, <4>2, <4>3
      <4>6. RequestSound(q)
        BY <2>4, <4>2, <4>4 DEF RequestSound
      <4>7. RequestsKept
        BY <4>2, <4>4, <4>5 DEF RequestsKept
      <4> QED
        BY <2>4, <4>5, <4>6, <4>7
    <3> QED
      BY <3>1, <3>2
  <2>6. \A z \in Sessions : W[z].pc = "write" /\ W[z].req # NoRequest =>
          request'[W[z].req].st = request[W[z].req].st
    <3>1. \A z \in Sessions : W[z].pc = "write" /\ W[z].req # NoRequest =>
            W[z].req \in Requests /\ W[z].req # w.req
      BY <2>3, Holds
    <3> QED
      BY <2>5, <3>1
  <2> QED
    BY ZenonT(40), <1>3, <1>5, <2>1, <2>2, <2>3, <2>5, <2>6, AddStep
<1> QED
  BY <1>2, <1>4, <1>5 DEF CommitTransfer

LEMMA AdditionStep ==
  ASSUME IdsDiffer, TransferInv, NEW s \in Sessions, Add(s)
  PROVE  TransferInv'
<1>1. web[s].pc = "add" /\ ~Locked(web[s].user) /\ request' = request
  BY DEF Add
<1>2. PICK w \in SessionType : w = web[s]
  BY DEF TransferInv, Typed
<1>3. w.user \in Users /\ w.to \in Teams
  <2>1. SessionSound(w)
    BY <1>2 DEF TransferInv
  <2> QED
    BY <1>1, <1>2, <2>1 DEF SessionSound
<1>4. PICK W : W = [web EXCEPT ![s] = Idle]
  OBVIOUS
<1>5. /\ W \in [Sessions -> SessionType] /\ W[s] = Idle
      /\ \A z \in Sessions \ {s} : W[z] = web[z]
      /\ \A z \in Sessions : SessionSound(W[z])
      /\ \A y \in Sessions : \A z \in Sessions \ {y} : Apart(W[y], W[z])
  BY <1>4, WithoutSession
<1>6. \A z \in Sessions : W[z].pc = "write" => W[z].user # w.user
  BY <1>1, <1>2, <1>5, IdleSound DEF Locked
<1>7. AddUserToTeam(w.user, w.to) /\ web' = Outdated(W, {w.user}, FALSE)
  BY <1>2, <1>4 DEF Add
<1> QED
  BY <1>1, <1>3, <1>5, <1>6, <1>7, SameRequests, AddStep

LEMMA ChangeStep ==
  ASSUME IdsDiffer, TransferInv, Changes
  PROVE  TransferInv'
<1>1. request' = request
  BY DEF Changes
<1>2. /\ Typed /\ web \in [Sessions -> SessionType]
      /\ \A z \in Sessions : SessionSound(web[z])
      /\ \A y \in Sessions : \A z \in Sessions \ {y} : Apart(web[y], web[z])
  BY DEF TransferInv, Typed
<1>3. PICK W \in [Sessions -> SessionType] : W = web
  BY <1>2
<1>4. ASSUME NEW u \in Users, NEW h \in Teams \cup {None}, ~Locked(u), home' = [home EXCEPT ![u] = h],
             up' = up, web' = Outdated(web, {u}, FALSE)
      PROVE  TransferInv'
  <2>1. home' \in [Users -> Teams \cup {None}] /\ \A v \in Users \ {u} : home'[v] = home[v]
    BY <1>2, <1>4 DEF Typed
  <2>2. \A v \in Users : home'[v] = home[v]
                         \/ (v \in {u} /\ \A z \in Sessions : W[z].pc = "write" => W[z].user # v)
    BY <1>3, <1>4, <2>1 DEF Locked
  <2>3. /\ web' = Outdated(W, {u}, FALSE)
        /\ \A z \in Sessions : SessionSound(W[z])
        /\ \A y \in Sessions : \A z \in Sessions \ {y} : Apart(W[y], W[z])
    BY <1>2, <1>3, <1>4
  <2>4. /\ request' \in [Requests -> RequestType] /\ RequestsKept
        /\ \A r \in Requests : RequestSound(request'[r])
    BY <1>1, SameRequests
  <2>5. \A z \in Sessions : W[z].pc = "write" /\ W[z].req # NoRequest =>
          request'[W[z].req].st = request[W[z].req].st
    BY <1>1
  <2> QED
    BY <1>2, <1>4, <2>1, <2>2, <2>3, <2>4, <2>5, OutdatedKeeps
<1>5. ASSUME NEW t \in Teams, NEW p \in Teams \cup {Top}, Reparent(t, p), web' = Outdated(web, {}, TRUE)
      PROVE  TransferInv'
  <2>1. home' = home
    BY <1>5 DEF Reparent
  <2> QED
    BY <1>1, <1>2, <1>3, <1>5, <2>1, SameRequests, OutdatedKeeps DEF Typed
<1>6. ASSUME NEW u \in Users, ~Locked(u), web' = Outdated(web, {u}, FALSE),
             RemoveUserFromTeam(u) \/ \E t \in Teams, r \in {"admin", "member"} : AddMember(u, t, r)
      PROVE  TransferInv'
  <2>1. CASE RemoveUserFromTeam(u)
    BY <1>4, <1>6, <2>1 DEF RemoveUserFromTeam
  <2>2. ASSUME NEW t \in Teams, NEW r \in {"admin", "member"}, AddMember(u, t, r) PROVE TransferInv'
    BY <1>4, <1>6, <2>2 DEF AddMember
  <2> QED
    BY <1>6, <2>1, <2>2
<1> QED
  BY <1>5, <1>6 DEF Changes

LEMMA TransferStep ==
  ASSUME IdsDiffer, TransferInv, [TransferNext]_allVars
  PROVE  TransferInv'
<1>1. CASE UNCHANGED allVars
  <2>1. UNCHANGED <<home, up, request, web>>
    BY <1>1 DEF allVars, vars, scopes, transfers
  <2>2. ASSUME NEW z \in Sessions PROVE SessionSound(web[z])'
    <3>1. PICK v \in SessionType : v = web[z]
      BY DEF TransferInv, Typed
    <3>2. web'[z] = v /\ SessionSound(v) /\ SameSession(v, v)
      BY <2>1, <3>1 DEF TransferInv, SameSession
    <3>3. SessionSound(v)'
      BY <2>1, <3>2, SameRequests, SessionAges
    <3> QED
      BY <3>2, <3>3, SoundNext
  <2> QED
    BY <2>1, <2>2 DEF TransferInv, Typed
<1>2. ASSUME NEW s \in Sessions, NEW a \in Users, NEW u \in Users \ Managers, NEW t \in Teams,
             StartTransfer(s, a, u, t) \/ StartAddition(s, a, u, t)
      PROVE  TransferInv'
  BY <1>2, StartSteps
<1>3. ASSUME NEW s \in Sessions, NEW a \in Users, NEW r \in Requests,
             StartApproval(s, a, r) \/ StartDenial(s, a, r)
      PROVE  TransferInv'
  BY <1>3, DecisionSteps
<1>4. ASSUME NEW s \in Sessions, Handle(s) PROVE TransferInv'
  BY <1>4, JudgeStep, FileStep, LockStep, CommitStep, DenialStep, AdditionStep DEF Handle
<1>5. CASE Changes
  BY <1>5, ChangeStep
<1> QED
  BY <1>1, <1>2, <1>3, <1>4, <1>5 DEF TransferNext

LEMMA TransferStarts == ASSUME IdsDiffer PROVE TransferInit => TransferInv
<1> SUFFICES ASSUME TransferInit PROVE TransferInv
  OBVIOUS
<1>1. Unused \in RequestType /\ RequestSound(Unused)
  BY DEF Unused, RequestType, RequestSound
<1>2. Typed
  BY <1>1, IdleSound DEF TransferInit, Init, Typed
<1>3. \A s \in Sessions : SessionSound(web[s])
  BY IdleSound DEF TransferInit
<1>4. \A r \in Requests : RequestSound(request[r])
  BY <1>1 DEF TransferInit
<1>5. \A s \in Sessions : \A z \in Sessions \ {s} : Apart(web[s], web[z])
  BY IdleSound DEF TransferInit, Apart
<1> QED
  BY <1>2, <1>3, <1>4, <1>5 DEF TransferInv

-----------------------------------------------------------------------------
(* The theorem.                                                            *)

\* The transaction of s is committed: an addition or a transfer.
Writes(s) ==
  /\ web[s].pc \in {"write", "add"} /\ web'[s].pc = "idle"
  /\ home' = [home EXCEPT ![web[s].user] = web[s].to]
  /\ request' = IF web[s].pc = "add" \/ web[s].req = NoRequest THEN request
                ELSE [request EXCEPT ![web[s].req].st = "approved"]

\* Nobody is moved from a team to another, and nothing is approved.
Quiet ==
  /\ \A u \in Users : ~Moves(u)
  /\ \A r \in Requests : request'[r].st = "approved" => request[r].st = "approved"

\* Only the commits of the model's transactions do either.
LEMMA WhoMoves ==
  ASSUME TransferInv, [TransferNext]_allVars
  PROVE  \/ \E s \in Sessions : Writes(s)
         \/ Quiet
<1> DEFINE Goal == (\E s \in Sessions : Writes(s)) \/ Quiet
<1>0. /\ home \in [Users -> Teams \cup {None}] /\ request \in [Requests -> RequestType]
      /\ web \in [Sessions -> SessionType]
  BY DEF TransferInv, Typed
<1>1. ASSUME UNCHANGED <<home, request>> PROVE Quiet
  BY <1>1 DEF Moves, Quiet
<1>w. ASSUME NEW s \in Sessions, NEW U, web' = Outdated([web EXCEPT ![s] = Idle], U, FALSE)
      PROVE  web'[s].pc = "idle"
  <2>1. PICK W : W = [web EXCEPT ![s] = Idle]
    OBVIOUS
  <2>2. W[s] = Idle /\ web' = Outdated(W, U, FALSE)
    BY <1>0, <1>w, <2>1
  <2> QED
    BY <2>2, IdleSound DEF Outdated
<1>2. ASSUME NEW s \in Sessions, CommitTransfer(s) PROVE Goal
  <2>1. CASE UNCHANGED <<scopes, request>>
    BY <1>1, <2>1 DEF scopes
  <2>2. ASSUME AddUserToTeam(web[s].user, web[s].to),
               request' = IF web[s].req = NoRequest THEN request
                          ELSE [request EXCEPT ![web[s].req].st = "approved"],
               web' = Outdated([web EXCEPT ![s] = Idle], {web[s].user}, FALSE)
        PROVE  Writes(s)
    <3>1. web[s].pc = "write"
      BY <1>2 DEF CommitTransfer
    <3> QED
      BY <1>w, <2>2, <3>1 DEF Writes, AddUserToTeam
  <2> QED
    BY <1>2, <2>1, <2>2 DEF CommitTransfer
<1>3. ASSUME NEW s \in Sessions, Add(s) PROVE Goal
  <2>1. web'[s].pc = "idle"
    BY <1>w, <1>3 DEF Add
  <2>2. Writes(s)
    BY <1>3, <2>1 DEF Add, AddUserToTeam, Writes
  <2> QED
    BY <2>2
<1>4. ASSUME NEW s \in Sessions, WriteDenial(s) PROVE Quiet
  <2>1. home' = home /\ request' = [request EXCEPT ![web[s].req].st = "denied"]
    BY <1>4 DEF WriteDenial, vars, scopes
  <2>2. \A r \in Requests : request'[r].st \in {request[r].st, "denied"}
    BY <1>0, <2>1 DEF RequestType
  <2> QED
    BY <2>1, <2>2 DEF Moves, Quiet
<1>5. ASSUME NEW s \in Sessions, FileRequest(s) PROVE Quiet
  <2>1. home' = home
    BY <1>5 DEF FileRequest, vars, scopes
  <2>2. CASE request' = request
    BY <2>1, <2>2 DEF Moves, Quiet
  <2>3. ASSUME NEW r \in Requests, NEW q, request' = [request EXCEPT ![r] = q], q.st = "pending"
        PROVE  Quiet
    <3>1. \A x \in Requests : request'[x] = request[x] \/ request'[x] = q
      BY <1>0, <2>3
    <3> QED
      BY <2>1, <2>3, <3>1 DEF Moves, Quiet
  <2> QED
    BY <1>5, <2>2, <2>3 DEF FileRequest
<1>6. ASSUME NEW s \in Sessions, Judge(s) \/ LockAndCheck(s) PROVE Quiet
  BY <1>1, <1>6 DEF Judge, LockAndCheck, vars, scopes
<1>7. ASSUME NEW s \in Sessions, NEW a, NEW u, NEW t, StartTransfer(s, a, u, t) \/ StartAddition(s, a, u, t)
      PROVE  Quiet
  BY <1>1, <1>7 DEF StartTransfer, StartAddition, vars, scopes
<1>8. ASSUME NEW s \in Sessions, NEW a, NEW r, StartApproval(s, a, r) \/ StartDenial(s, a, r)
      PROVE  Quiet
  BY <1>1, <1>8 DEF StartApproval, StartDenial, vars, scopes
<1>9. CASE Changes
  <2>1. request' = request
    BY <1>9 DEF Changes
  <2>2. ASSUME NEW u \in Users, NEW h, home' = [home EXCEPT ![u] = h], h = None \/ home[u] \in {None, h}
        PROVE  Quiet
    <3>1. \A v \in Users : home'[v] = home[v] \/ (v = u /\ home'[v] = h)
      BY <1>0, <2>2
    <3> QED
      BY <2>1, <2>2, <3>1 DEF Moves, Quiet
  <2>3. ASSUME NEW u \in Users, RemoveUserFromTeam(u) PROVE Quiet
    BY <2>2, <2>3 DEF RemoveUserFromTeam
  <2>4. ASSUME NEW u \in Users, NEW t \in Teams, NEW r, AddMember(u, t, r) PROVE Quiet
    <3>1. home[u] = t \/ home[u] = None
      BY <2>4 DEF AddMember, Memberships
    <3> QED
      BY <2>2, <2>4, <3>1 DEF AddMember
  <2>5. ASSUME NEW t, NEW p, Reparent(t, p) PROVE Quiet
    BY <1>1, <2>1, <2>5 DEF Reparent
  <2>6. CASE \E t \in Teams, p \in Teams \cup {Top} : Reparent(t, p)
    BY <2>5, <2>6
  <2>7. ASSUME NEW u \in Users,
               RemoveUserFromTeam(u) \/ \E t \in Teams, r \in {"admin", "member"} : AddMember(u, t, r)
        PROVE  Quiet
    <3>1. CASE RemoveUserFromTeam(u)
      BY <2>3, <3>1
    <3>2. CASE \E t \in Teams, r \in {"admin", "member"} : AddMember(u, t, r)
      <4>1. PICK t \in Teams, r \in {"admin", "member"} : AddMember(u, t, r)
        BY <3>2
      <4> QED
        BY <2>4, <4>1
    <3> QED
      BY <2>7, <3>1, <3>2
  <2>8. \/ \E u \in Users : RemoveUserFromTeam(u) \/ \E t \in Teams, r \in {"admin", "member"} : AddMember(u, t, r)
        \/ \E t \in Teams, p \in Teams \cup {Top} : Reparent(t, p)
    BY <1>9 DEF Changes
  <2> QED
    BY <2>6, <2>7, <2>8
<1>10. CASE UNCHANGED allVars
  BY <1>1, <1>10 DEF allVars, vars, scopes, transfers
<1>11. ASSUME NEW s \in Sessions, Handle(s) PROVE Goal
  BY <1>2, <1>3, <1>4, <1>5, <1>6, <1>11 DEF Handle
<1>12. CASE \E s \in Sessions, a \in Users, u \in Users \ Managers, t \in Teams :
              StartTransfer(s, a, u, t) \/ StartAddition(s, a, u, t)
  <2>1. PICK s \in Sessions, a \in Users, u \in Users \ Managers, t \in Teams :
          StartTransfer(s, a, u, t) \/ StartAddition(s, a, u, t)
    BY <1>12
  <2> QED
    BY <1>7, <2>1
<1>13. CASE \E s \in Sessions, a \in Users, r \in Requests : StartApproval(s, a, r) \/ StartDenial(s, a, r)
  <2>1. PICK s \in Sessions, a \in Users, r \in Requests : StartApproval(s, a, r) \/ StartDenial(s, a, r)
    BY <1>13
  <2> QED
    BY <1>8, <2>1
<1>14. Goal
  BY <1>9, <1>10, <1>11, <1>12, <1>13 DEF TransferNext
<1> QED
  BY <1>14

LEMMA StepIsSound ==
  ASSUME IdsDiffer, TransferInv, [TransferNext]_allVars
  PROVE  TransfersSound
<1>0. /\ home \in [Users -> Teams \cup {None}] /\ request \in [Requests -> RequestType]
      /\ web \in [Sessions -> SessionType]
      /\ \A s \in Sessions : SessionSound(web[s])
      /\ \A r \in Requests : RequestSound(request[r])
  BY DEF TransferInv, Typed
<1>1. WithinOrganisation
  <2>1. ASSUME NEW s \in Sessions, web[s].pc = "write"
        PROVE  \/ web[s].actor \in Managers \/ web[s].since
               \/ Organisation(home[web[s].user]) = Organisation(web[s].to)
    <3>1. SessionSound(web[s])
      BY <1>0
    <3> QED
      BY <2>1, <3>1 DEF SessionSound
  <2> QED
    BY <2>1 DEF WithinOrganisation
<1>2. CASE Quiet
  BY <1>1, <1>2 DEF TransfersSound, BothSidesAgree, RequestsDecide, Quiet
<1>3. ASSUME NEW s \in Sessions, Writes(s) PROVE BothSidesAgree /\ RequestsDecide
  <2>1. PICK w \in SessionType : w = web[s]
    BY <1>0
  <2>2. SessionSound(w) /\ w.pc \in {"write", "add"}
    BY <1>0, <1>3, <2>1 DEF Writes
  <2>3. w.user \in Users /\ w.to \in Teams
    BY <2>2 DEF SessionSound, Moving
  <2>4. home'[w.user] = w.to /\ \A u \in Users \ {w.user} : home'[u] = home[u]
    BY <1>0, <1>3, <2>1, <2>3 DEF Writes
  <2>5. Committed(s)
    BY <1>3, <2>1, <2>4 DEF Writes, Committed
  <2>6. ASSUME home[w.user] # None
        PROVE  \/ w.actor \in Managers \/ {home[w.user], w.to} \subseteq w.said
               \/ (w.req = NoRequest /\ w.late)
               \/ (w.req # NoRequest /\ request[w.req].said = {})
    <3>1. CASE w.pc = "add"
      BY <2>2, <2>6, <3>1 DEF SessionSound
    <3>2. CASE w.pc = "write" /\ w.req = NoRequest
      BY <2>2, <3>2 DEF SessionSound, Moving, Transacts
    <3>3. CASE w.pc = "write" /\ w.req # NoRequest
      <4>1. Approves(w) /\ home[w.user] = w.from /\ w.req \in Requests
        BY <2>1, <2>2, <3>3 DEF SessionSound, Transacts, SessionType
      <4>2. RequestSound(request[w.req]) /\ request[w.req].st # "unused"
        BY <1>0, <4>1 DEF Approves
      <4>3. request[w.req].said = {} \/ w.said = {w.from, w.to}
        BY <4>1, <4>2 DEF Approves, RequestSound
      <4> QED
        BY <3>3, <4>1, <4>3
    <3> QED
      BY <2>2, <3>1, <3>2, <3>3
  <2>7. BothSidesAgree
    <3>1. ASSUME NEW u \in Users, Moves(u) PROVE u = w.user /\ home[w.user] # None
      BY <2>4, <3>1 DEF Moves
    <3> QED
      BY <2>1, <2>5, <2>6, <3>1 DEF BothSidesAgree
  <2>8. ASSUME NEW r \in Requests, request[r].st # "approved", request'[r].st = "approved"
        PROVE  /\ request[r].st = "pending" /\ home[request[r].user] = request[r].from
               /\ home'[request[r].user] = request[r].to
    <3>1. w.pc = "write" /\ w.req = r /\ w.req # NoRequest
      <4>1. request' # request
        BY <2>8
      <4>2. w.pc = "write" /\ w.req # NoRequest
        BY <1>3, <2>1, <2>2, <4>1 DEF Writes
      <4>3. request' = [request EXCEPT ![w.req].st = "approved"]
        BY <1>3, <2>1, <4>2 DEF Writes
      <4> QED
        BY <1>0, <2>8, <4>2, <4>3
    <3>2. Approves(w) /\ home[w.user] = w.from /\ request[w.req].st = "pending"
      BY <2>2, <3>1 DEF SessionSound, Transacts
    <3> QED
      BY <2>4, <3>1, <3>2 DEF Approves
  <2> QED
    BY <2>7, <2>8 DEF RequestsDecide
<1> QED
  BY <1>1, <1>2, <1>3, WhoMoves DEF TransfersSound

\* For any tree and any number of people, sessions and changes in between: a
\* person is moved only as an administrator of either side agreed or what was
\* judged had just changed, within the Organisation, and by a request that was
\* pending and named both teams (TransferService.executeTransfer).
THEOREM MovesAreAgreed ==
  ASSUME IdsDiffer
  PROVE  TransferSpec => [][TransfersSound]_allVars
<1>1. TransferSpec => []TransferInv
  BY TransferStarts, TransferStep, PTL DEF TransferSpec
<1> QED
  BY <1>1, StepIsSound, PTL DEF TransferSpec
=============================================================================
