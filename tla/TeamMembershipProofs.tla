------------------------ MODULE TeamMembershipProofs ------------------------
(* Proofs about TeamMembership, for any users, teams, tree and requests.   *)
EXTENDS TeamMembership, FiniteSetTheorems, TLAPS

-----------------------------------------------------------------------------
(* Chains and their rows.                                                  *)

LEMMA ChainSound ==
  ASSUME NEW t \in Teams
  PROVE  t \in Chain(t) /\ Chain(t) \subseteq Teams
BY DEF Chain

\* The direct row of a chain.
HomeRow(u, t, p) == [user |-> u, team |-> t, from |-> None, by |-> p]

\* A chain's rows are rows of its user written by its author, one of them
\* direct, and their teams are the chain.
LEMMA ChainRowsSound ==
  ASSUME NEW u \in Users, NEW t \in Teams, NEW p \in Requests \cup {Seed}
  PROVE  /\ ChainRows(u, t, p) \subseteq Row
         /\ \A r \in ChainRows(u, t, p) : r.user = u /\ r.by = p
         /\ HomeRow(u, t, p) \in ChainRows(u, t, p)
         /\ Direct(ChainRows(u, t, p)) = {HomeRow(u, t, p)}
         /\ {r.team : r \in ChainRows(u, t, p)} = Chain(t)
<1>1. t \in Chain(t) /\ Chain(t) \subseteq Teams BY ChainSound
<1>2. ChainRows(u, t, p) \subseteq Row BY <1>1 DEF ChainRows, Row
<1>3. \A r \in ChainRows(u, t, p) : r.user = u /\ r.by = p BY DEF ChainRows
<1>4. HomeRow(u, t, p) \in ChainRows(u, t, p) BY DEF ChainRows, HomeRow
<1>5. \A r \in ChainRows(u, t, p) : r.from = None => r = HomeRow(u, t, p)
  BY TeamMembershipAssumption DEF ChainRows, HomeRow
<1>6. Direct(ChainRows(u, t, p)) = {HomeRow(u, t, p)}
  BY <1>4, <1>5 DEF Direct, HomeRow
<1>7. \A r \in ChainRows(u, t, p) : r.team \in Chain(t) BY <1>1 DEF ChainRows
<1>8. \A a \in Chain(t) : \E r \in ChainRows(u, t, p) : r.team = a
  <2>1. SUFFICES ASSUME NEW a \in Chain(t) PROVE \E r \in ChainRows(u, t, p) : r.team = a
    OBVIOUS
  <2>2. CASE a = t BY <1>4, <2>2 DEF HomeRow
  <2>3. CASE a # t
    <3>1. [user |-> u, team |-> a, from |-> t, by |-> p] \in ChainRows(u, t, p)
      BY <2>3 DEF ChainRows
    <3> QED BY <3>1
  <2> QED BY <2>2, <2>3
<1>9. {r.team : r \in ChainRows(u, t, p)} = Chain(t) BY <1>7, <1>8
<1> QED BY <1>2, <1>3, <1>4, <1>6, <1>9

-----------------------------------------------------------------------------
(* The invariant behind RowsSound.                                         *)

Stages == {"idle", "checked", "lock", "lock waiting", "clear", "deleting",
           "insert", "join", "leave", "commit", "committed", "aborted"}

\* The requests that have begun a transaction.
Begun == {p \in Requests : tx[p].stage \notin {"idle", "checked"}}

\* The request that wrote r has committed.
Written(r) == r.by = Seed \/ tx[r.by].stage = "committed"

\* The committed rows of p's user.
Mine(p) == RowsOf(tx[p].user)

\* p's DELETE has run; p's rows have been inserted.
Deleted(p) == tx[p].stage \in {"insert", "join", "leave", "commit"}
Inserted(p) == \/ tx[p].stage = "join"
               \/ tx[p].stage \in {"leave", "commit"} /\ tx[p].kind # "remove"

\* Before BEGIN an addition has nothing.
CheckedSound(p) ==
  tx[p].stage = "checked" =>
    /\ tx[p].kind = "add" /\ tx[p].user \in Users /\ tx[p].team \in Teams
    /\ tx[p].locked = {} /\ tx[p].seen = {} /\ tx[p].inserted = {}

\* What an open transaction has locked, seen and inserted are rows of its user;
\* its DELETE takes and will take the user's whole chain or, if that was replaced
\* meanwhile, nothing of it; and it inserts only over a chain it has deleted.
OpenSound(p) ==
  Open(p) =>
    /\ tx[p].user \in Users
    /\ tx[p].kind # "remove" => tx[p].team \in Teams
    /\ tx[p].stage \in {"insert", "join"} => tx[p].kind # "remove"
    /\ tx[p].inserted = IF Inserted(p) THEN ChainRows(tx[p].user, tx[p].team, p) ELSE {}
    /\ \A r \in tx[p].locked \cup tx[p].seen : r.user = tx[p].user /\ Written(r)
    /\ Inserted(p) => Mine(p) \subseteq tx[p].locked
    /\ Deleted(p) => tx[p].locked \cap rows = {} \/ Mine(p) \subseteq tx[p].locked
    /\ tx[p].stage = "deleting" =>
         \/ Mine(p) \subseteq tx[p].locked \cup tx[p].seen
         \/ (tx[p].locked \cup tx[p].seen) \cap rows = {}

\* Two open transactions lock different rows and insert for different users.
Apart(p, q) ==
  Open(p) /\ Open(q) /\ p # q =>
    /\ tx[p].locked \cap tx[q].locked = {}
    /\ Inserted(p) /\ Inserted(q) => tx[p].user # tx[q].user

IInv ==
  /\ TypeOK
  /\ begun = Cardinality(Begun)
  /\ RowsAreOneChain
  /\ \A r \in rows : Written(r)
  /\ \A p \in Requests : CheckedSound(p) /\ OpenSound(p)
  /\ \A p, q \in Requests : Apart(p, q)

LEMMA IdleType == Idle \in Tx
BY DEF Idle, Tx, Row, Op

LEMMA InitInvariant == Init => IInv
<1> SUFFICES ASSUME Init PROVE IInv OBVIOUS
<1>1. PICK home \in [Users -> Teams \cup {None}] :
        /\ rows = UNION {IF home[u] = None THEN {} ELSE ChainRows(u, home[u], Seed) : u \in Users}
        /\ channels = {<<r.user, r.team>> : r \in rows}
        /\ group = [t \in Teams |-> {u \in Users : \E r \in rows : r.user = u /\ r.team = t}]
        /\ tx = [p \in Requests |-> Idle]
        /\ begun = 0 /\ queue = {} /\ revoked = {}
  BY DEF Init
<1>2. \A r \in rows : \E u \in Users : home[u] # None /\ r \in ChainRows(u, home[u], Seed)
  BY <1>1
<1>3. \A u \in Users : home[u] # None =>
        /\ home[u] \in Teams
        /\ ChainRows(u, home[u], Seed) \subseteq Row
        /\ \A r \in ChainRows(u, home[u], Seed) : r.user = u /\ r.by = Seed
  BY ChainRowsSound
<1>4. rows \subseteq Row /\ \A r \in rows : r.by = Seed
  <2>1. SUFFICES ASSUME NEW r \in rows PROVE r \in Row /\ r.by = Seed OBVIOUS
  <2>2. PICK u \in Users : home[u] # None /\ r \in ChainRows(u, home[u], Seed) BY <1>2
  <2> QED BY <1>3, <2>2
<1>5. \A u \in Users : RowsOf(u) = IF home[u] = None THEN {} ELSE ChainRows(u, home[u], Seed)
  <2>1. SUFFICES ASSUME NEW u \in Users
                 PROVE  RowsOf(u) = IF home[u] = None THEN {} ELSE ChainRows(u, home[u], Seed)
    OBVIOUS
  <2>2. \A r \in RowsOf(u) : home[u] # None /\ r \in ChainRows(u, home[u], Seed)
    BY <1>2, <1>3 DEF RowsOf
  <2>3. home[u] # None => ChainRows(u, home[u], Seed) \subseteq RowsOf(u)
    <3>1. SUFFICES ASSUME home[u] # None, NEW r \in ChainRows(u, home[u], Seed)
                   PROVE  r \in RowsOf(u)
      OBVIOUS
    <3>2. r \in rows BY <1>1, <3>1
    <3> QED BY <1>3, <3>1, <3>2 DEF RowsOf
  <2> QED BY <2>2, <2>3
<1>6. RowsAreOneChain BY <1>3, <1>5 DEF RowsAreOneChain
<1>7. \A p \in Requests : tx[p].stage = "idle" BY <1>1 DEF Idle
<1>8. Begun = {} BY <1>7 DEF Begun
<1>9. begun = Cardinality(Begun) BY <1>1, <1>8, FS_EmptySet
<1>10. TypeOK
  <2>1. channels \subseteq Users \X Teams BY <1>1, <1>4 DEF Row
  <2>2. tx \in [Requests -> Tx] BY <1>1, IdleType
  <2>3. begun \in 0..Cardinality(Requests)
    BY <1>1, TeamMembershipAssumption, FS_CardinalityType
  <2>4. group \in [Teams -> SUBSET Users] BY <1>1
  <2> QED BY <1>1, <1>4, <2>1, <2>2, <2>3, <2>4 DEF TypeOK
<1> QED
  BY <1>4, <1>6, <1>7, <1>9, <1>10 DEF IInv, Written, CheckedSound, OpenSound, Apart, Open

-----------------------------------------------------------------------------
(* Steps of one request.                                                   *)

\* begun counts the transactions begun, so it stays within its bound.
LEMMA BegunStep ==
  ASSUME IInv, NEW p \in Requests, \A q \in Requests \ {p} : tx'[q] = tx[q],
         \/ begun' = begun /\ (p \in Begun' <=> p \in Begun)
         \/ begun' = begun + 1 /\ p \notin Begun /\ p \in Begun'
  PROVE  begun' = Cardinality(Begun') /\ begun' \in 0..Cardinality(Requests)
<1>1. IsFiniteSet(Begun) /\ begun = Cardinality(Begun) /\ begun \in Nat
  BY TeamMembershipAssumption, FS_Subset, FS_CardinalityType DEF IInv, Begun
<1>2. IsFiniteSet(Begun') /\ Cardinality(Begun') \in 0..Cardinality(Requests)
  <2>1. Begun' \subseteq Requests BY DEF Begun
  <2>2. IsFiniteSet(Begun') /\ Cardinality(Begun') <= Cardinality(Requests)
    BY <2>1, TeamMembershipAssumption, FS_Subset
  <2> QED BY <2>2, TeamMembershipAssumption, FS_CardinalityType
<1>3. CASE begun' = begun /\ (p \in Begun' <=> p \in Begun)
  <2>1. Begun' = Begun BY <1>3 DEF Begun
  <2> QED BY <1>1, <1>2, <1>3, <2>1
<1>4. CASE begun' = begun + 1 /\ p \notin Begun /\ p \in Begun'
  <2>1. Begun' = Begun \cup {p} BY <1>4 DEF Begun
  <2>2. Cardinality(Begun') = Cardinality(Begun) + 1 BY <1>1, <1>4, <2>1, FS_AddElement
  <2> QED BY <1>1, <1>2, <1>4, <2>2
<1> QED BY <1>3, <1>4

\* A step that changes the transaction of one request and commits nothing.
LEMMA TxStep ==
  ASSUME IInv, NEW p \in Requests, NEW x \in Tx, tx' = [tx EXCEPT ![p] = x],
         UNCHANGED <<rows, channels, queue, group, revoked>>,
         tx[p].stage # "committed", x.stage # "committed",
         \/ begun' = begun /\ (p \in Begun' <=> p \in Begun)
         \/ begun' = begun + 1 /\ p \notin Begun /\ p \in Begun',
         CheckedSound(p)', OpenSound(p)',
         \A q \in Requests \ {p} : Apart(p, q)'
  PROVE  IInv'
<1>1. tx'[p] = x /\ \A q \in Requests \ {p} : tx'[q] = tx[q]
  BY DEF IInv, TypeOK
<1>2. begun' = Cardinality(Begun') /\ begun' \in 0..Cardinality(Requests)
  BY <1>1, BegunStep
<1>3. TypeOK' BY <1>2 DEF IInv, TypeOK
<1>4. RowsAreOneChain' BY DEF IInv, RowsAreOneChain, RowsOf
<1>5. \A r \in Row : Written(r)' <=> Written(r) BY <1>1 DEF Written, Row
<1>6. \A r \in rows' : Written(r)' BY <1>5 DEF IInv, TypeOK
<1>7. ASSUME NEW q \in Requests \ {p} PROVE CheckedSound(q)' /\ OpenSound(q)'
  <2>1. CheckedSound(q)' BY <1>1 DEF IInv, CheckedSound
  <2>2. tx[q] \in Tx BY DEF IInv, TypeOK
  <2>3. \A r \in tx[q].locked \cup tx[q].seen : Written(r)' <=> Written(r)
    BY <1>5, <2>2 DEF Tx
  <2>4. Mine(q)' = Mine(q) /\ (Inserted(q)' <=> Inserted(q)) /\ (Deleted(q)' <=> Deleted(q))
        /\ (Open(q)' <=> Open(q))
    BY <1>1 DEF Mine, RowsOf, Inserted, Deleted, Open
  <2>5. OpenSound(q)' BY <1>1, <2>3, <2>4 DEF IInv, OpenSound
  <2> QED BY <2>1, <2>5
<1>8. ASSUME NEW q \in Requests, NEW s \in Requests PROVE Apart(q, s)'
  <2>1. CASE q # p /\ s # p BY <1>1, <2>1 DEF IInv, Apart, Open, Inserted
  <2>2. CASE q = p BY <2>2 DEF Apart
  <2>3. CASE s = p /\ q # p
    <3>1. Apart(p, q)' BY <2>3
    <3> QED BY <2>3, <3>1 DEF Apart
  <2> QED BY <2>1, <2>2, <2>3
<1> QED BY <1>2, <1>3, <1>4, <1>6, <1>7, <1>8 DEF IInv

\* A request that has no transaction any more.
LEMMA ClosedStep ==
  ASSUME IInv, NEW p \in Requests, NEW x \in Tx, tx' = [tx EXCEPT ![p] = x],
         x.stage = "aborted", p \in Begun \/ begun' = begun + 1, p \in Begun => begun' = begun,
         tx[p].stage # "committed",
         UNCHANGED <<rows, channels, queue, group, revoked>>
  PROVE  IInv'
<1>1. tx'[p] = x BY DEF IInv, TypeOK
<1>2. ~ Open(p)' /\ p \in Begun' BY <1>1 DEF Open, Begun
<1>3. CheckedSound(p)' /\ OpenSound(p)' BY <1>1, <1>2 DEF CheckedSound, OpenSound
<1>4. \A q \in Requests \ {p} : Apart(p, q)' BY <1>2 DEF Apart
<1> QED BY <1>2, <1>3, <1>4, TxStep

\* Checking and beginning.
LEMMA CheckAddStep ==
  ASSUME IInv, NEW p \in Requests, CheckAdd(p)
  PROVE  IInv'
<1>1. PICK u \in Users, t \in Teams :
        /\ tx[p].stage = "idle"
        /\ tx' = [tx EXCEPT ![p] = [Idle EXCEPT !.stage = "checked", !.kind = "add",
                                                !.user = u, !.team = t]]
  BY DEF CheckAdd, Start
<1> DEFINE x == [Idle EXCEPT !.stage = "checked", !.kind = "add", !.user = u, !.team = t]
<1>2. x \in Tx BY DEF Idle, Tx, Row, Op
<1>3. x.stage = "checked" /\ x.kind = "add" /\ x.user = u /\ x.team = t
      /\ x.locked = {} /\ x.seen = {} /\ x.inserted = {}
  BY DEF Idle
<1> HIDE DEF x
<1>4. tx'[p] = x BY <1>1 DEF IInv, TypeOK, x
<1>5. p \notin Begun /\ p \notin Begun' /\ ~ Open(p)' BY <1>1, <1>3, <1>4 DEF Begun, Open
<1>6. CheckedSound(p)' /\ OpenSound(p)' BY <1>3, <1>4, <1>5 DEF CheckedSound, OpenSound
<1>7. \A q \in Requests \ {p} : Apart(p, q)' BY <1>5 DEF Apart
<1>8. UNCHANGED <<rows, channels, begun, queue, group, revoked>> BY DEF CheckAdd
<1>9. tx' = [tx EXCEPT ![p] = x] BY <1>1 DEF x
<1> QED BY <1>1, <1>2, <1>3, <1>5, <1>6, <1>7, <1>8, <1>9, TxStep

\* A transaction that has neither locked nor inserted a row.
LEMMA FreshStep ==
  ASSUME IInv, NEW p \in Requests, NEW x \in Tx, tx' = [tx EXCEPT ![p] = x],
         tx[p].stage \in {"idle", "checked"}, begun' = begun + 1,
         x.stage \in {"lock", "clear"}, x.user \in Users,
         x.kind # "remove" => x.team \in Teams,
         x.locked = {}, x.seen = {}, x.inserted = {},
         UNCHANGED <<rows, channels, queue, group, revoked>>
  PROVE  IInv'
<1>1. tx'[p] = x BY DEF IInv, TypeOK
<1>2. p \notin Begun /\ p \in Begun' /\ ~ Inserted(p)' /\ ~ Deleted(p)'
  BY <1>1 DEF Begun, Inserted, Deleted
<1>3. CheckedSound(p)' BY <1>1 DEF CheckedSound
<1>4. OpenSound(p)' BY <1>1, <1>2 DEF OpenSound
<1>5. \A q \in Requests \ {p} : Apart(p, q)' BY <1>1, <1>2 DEF Apart
<1> QED BY <1>2, <1>3, <1>4, <1>5, TxStep

LEMMA BeginStep ==
  ASSUME IInv, NEW p \in Requests, BeginAdd(p) \/ BeginRemove(p) \/ BeginTransfer(p)
  PROVE  IInv'
<1>1. begun \in Nat /\ begun + 1 \in Nat /\ tx[p] \in Tx BY DEF IInv, TypeOK
<1>2. CASE BeginAdd(p)
  <2> DEFINE st == IF SuffixTaken(p) THEN "aborted" ELSE "clear"
             x == [tx[p] EXCEPT !.stage = st, !.created = begun + 1]
  <2>1. tx' = [tx EXCEPT ![p] = x] BY <1>2 DEF BeginAdd, IInv, TypeOK
  <2>2. x \in Tx
    <3>1. st \in {"aborted", "clear"} OBVIOUS
    <3> HIDE DEF st
    <3> QED BY <1>1, <3>1 DEF Tx
  <2>3. x.stage = st /\ x.kind = tx[p].kind /\ x.user = tx[p].user /\ x.team = tx[p].team
        /\ x.locked = tx[p].locked /\ x.seen = tx[p].seen /\ x.inserted = tx[p].inserted
    BY <1>1 DEF Tx
  <2>4. tx[p].stage = "checked" /\ begun' = begun + 1
        /\ UNCHANGED <<rows, channels, queue, group, revoked>>
    BY <1>2 DEF BeginAdd
  <2>5. CheckedSound(p) BY DEF IInv
  <2>6. p \notin Begun BY <2>4 DEF Begun
  <2> HIDE DEF x
  <2>7. CASE st = "aborted" BY <2>1, <2>2, <2>3, <2>4, <2>6, <2>7, ClosedStep
  <2>8. CASE st = "clear" BY <2>1, <2>2, <2>3, <2>4, <2>5, <2>8, FreshStep DEF CheckedSound
  <2> QED BY <2>7, <2>8
<1>3. CASE BeginRemove(p)
  <2>1. PICK u \in Users : tx' = [tx EXCEPT ![p] = [Idle EXCEPT !.stage = "clear",
                                !.kind = "remove", !.user = u, !.created = begun + 1,
                                !.captured = {r.team : r \in RowsOf(u)}]]
    BY <1>3 DEF BeginRemove
  <2> DEFINE x == [Idle EXCEPT !.stage = "clear", !.kind = "remove", !.user = u,
                               !.created = begun + 1, !.captured = {r.team : r \in RowsOf(u)}]
  <2>2. {r.team : r \in RowsOf(u)} \subseteq Teams BY DEF IInv, TypeOK, RowsOf, Row
  <2>3. x \in Tx BY ZenonT(40), <1>1, <2>2 DEF Idle, Tx, Row, Op
  <2>4. x.stage = "clear" /\ x.kind = "remove" /\ x.user = u /\ x.locked = {} /\ x.seen = {}
        /\ x.inserted = {}
    BY DEF Idle
  <2> HIDE DEF x
  <2>5. tx' = [tx EXCEPT ![p] = x] BY <2>1 DEF x
  <2> QED BY <1>3, <2>3, <2>4, <2>5, FreshStep DEF BeginRemove, Start
<1>4. CASE BeginTransfer(p)
  <2>1. PICK u \in Users, t \in Teams :
          tx' = [tx EXCEPT ![p] = [Idle EXCEPT !.stage = "lock", !.kind = "transfer",
                                     !.user = u, !.team = t, !.created = begun + 1]]
    BY <1>4 DEF BeginTransfer
  <2> DEFINE x == [Idle EXCEPT !.stage = "lock", !.kind = "transfer",
                               !.user = u, !.team = t, !.created = begun + 1]
  <2>2. x \in Tx BY ZenonT(40), <1>1 DEF Idle, Tx, Row, Op
  <2>3. x.stage = "lock" /\ x.user = u /\ x.team = t /\ x.locked = {} /\ x.seen = {}
        /\ x.inserted = {}
    BY DEF Idle
  <2> HIDE DEF x
  <2>4. tx' = [tx EXCEPT ![p] = x] BY <2>1 DEF x
  <2> QED BY <1>4, <2>2, <2>3, <2>4, FreshStep DEF BeginTransfer, Start
<1> QED BY <1>2, <1>3, <1>4

OpenStages == {"lock", "lock waiting", "clear", "deleting", "insert", "join", "leave", "commit"}

\* p, whose transaction becomes x, has its rows inserted over a deleted chain.
HoldsRows(p, x) ==
  /\ \/ x.stage = "join"
     \/ x.stage \in {"leave", "commit"} /\ x.kind # "remove"
  /\ x.inserted = ChainRows(x.user, x.team, p)
  /\ Mine(p) \subseteq x.locked
  /\ \A q \in Requests \ {p} : Open(q) /\ Inserted(q) => tx[q].user # x.user

\* It has inserted nothing, and if its DELETE runs or has run, that meets the
\* user's whole chain or nothing of it.
HoldsNone(p, x) ==
  /\ x.stage # "join"
  /\ ~ (x.stage \in {"leave", "commit"} /\ x.kind # "remove")
  /\ x.inserted = {}
  /\ x.stage \in {"insert", "leave", "commit"}
       => x.locked \cap rows = {} \/ Mine(p) \subseteq x.locked
  /\ x.stage = "deleting"
       => Mine(p) \subseteq x.locked \cup x.seen \/ (x.locked \cup x.seen) \cap rows = {}

\* An open transaction goes on to x: it locks or sees more of its user's rows,
\* and satisfies what its new stage asks for.
LEMMA OpenStep ==
  ASSUME IInv, NEW p \in Requests, NEW x \in Tx, tx' = [tx EXCEPT ![p] = x],
         UNCHANGED <<rows, channels, begun, queue, group, revoked>>,
         Open(p), x.stage \in OpenStages,
         x.kind = tx[p].kind, x.user = tx[p].user, x.team = tx[p].team,
         x.locked \cup x.seen \subseteq tx[p].locked \cup tx[p].seen \cup Mine(p),
         \A q \in Requests \ {p} : Open(q) => x.locked \cap tx[q].locked = {},
         x.stage \in {"insert", "join"} => x.kind # "remove",
         HoldsRows(p, x) \/ HoldsNone(p, x)
  PROVE  IInv'
<1>1. tx'[p] = x /\ \A q \in Requests \ {p} : tx'[q] = tx[q] BY DEF IInv, TypeOK
<1>2. p \in Begun /\ p \in Begun' BY <1>1 DEF Begun, Open, OpenStages
<1>3. CheckedSound(p)' BY <1>1 DEF CheckedSound, OpenStages
<1>4. Mine(p)' = Mine(p) BY <1>1 DEF Mine, RowsOf
<1>5. \A r \in Mine(p) : r.user = tx[p].user /\ Written(r) BY DEF Mine, RowsOf, IInv
<1>6. \A r \in x.locked \cup x.seen : r.user = tx[p].user /\ Written(r)
  BY <1>5 DEF IInv, OpenSound
<1>7. \A r \in x.locked \cup x.seen : Written(r)'
  <2>1. \A r \in Row : Written(r)' <=> Written(r)
    BY <1>1 DEF Written, Row, Open, OpenStages
  <2>2. x.locked \cup x.seen \subseteq Row BY DEF Tx
  <2> QED BY <1>6, <2>1, <2>2
<1>8. Inserted(p)' <=> x.stage = "join" \/ (x.stage \in {"leave", "commit"} /\ x.kind # "remove")
  BY <1>1 DEF Inserted
<1>9. Deleted(p)' <=> x.stage \in {"insert", "join", "leave", "commit"} BY <1>1 DEF Deleted
<1>10. OpenSound(p)'
  <2> USE DEF HoldsRows, HoldsNone
  <2>1. /\ x.user \in Users /\ (x.kind # "remove" => x.team \in Teams)
    BY DEF IInv, OpenSound
  <2>2. x.inserted = IF Inserted(p)' THEN ChainRows(x.user, x.team, p) ELSE {} BY <1>8
  <2>3. Inserted(p)' => Mine(p) \subseteq x.locked BY <1>8
  <2>4. Deleted(p)' => x.locked \cap rows = {} \/ Mine(p) \subseteq x.locked BY <1>8, <1>9
  <2>5. x.stage = "deleting" => \/ Mine(p) \subseteq x.locked \cup x.seen
                                \/ (x.locked \cup x.seen) \cap rows = {}
    OBVIOUS
  <2> QED BY <1>1, <1>4, <1>6, <1>7, <2>1, <2>2, <2>3, <2>4, <2>5 DEF OpenSound, Open, OpenStages
<1>11. ASSUME NEW q \in Requests \ {p} PROVE Apart(p, q)'
  <2>1. (Open(q)' <=> Open(q)) /\ (Inserted(q)' <=> Inserted(q)) BY <1>1 DEF Open, Inserted
  <2> QED BY <1>1, <1>8, <2>1 DEF Apart, HoldsRows, HoldsNone
<1>12. tx[p].stage # "committed" /\ x.stage # "committed" BY DEF Open, OpenStages
<1> QED BY <1>2, <1>3, <1>10, <1>11, <1>12, TxStep

LEMMA LockWaitsStep ==
  ASSUME IInv, NEW p \in Requests, LockWaits(p)
  PROVE  IInv'
<1> DEFINE S == Direct(RowsOf(tx[p].user))
           x == [tx[p] EXCEPT !.stage = "lock waiting", !.seen = S]
<1>1. tx[p].stage = "lock" /\ UNCHANGED <<rows, channels, begun, queue, group, revoked>>
  BY DEF LockWaits, Wait
<1>2. tx[p] \in Tx /\ S \subseteq Row /\ S \subseteq Mine(p)
  BY DEF IInv, TypeOK, Mine, RowsOf, Direct
<1>3. x \in Tx BY <1>2 DEF Tx
<1>4. tx' = [tx EXCEPT ![p] = x] BY DEF LockWaits, Wait, IInv, TypeOK
<1>5. /\ x.stage = "lock waiting" /\ x.kind = tx[p].kind /\ x.user = tx[p].user
      /\ x.team = tx[p].team /\ x.locked = tx[p].locked /\ x.inserted = tx[p].inserted
      /\ x.seen = S
  BY <1>2 DEF Tx
<1>6. Open(p) /\ ~ Inserted(p) BY <1>1 DEF Open, Inserted
<1>7. tx[p].inserted = {} BY <1>6 DEF IInv, OpenSound
<1>8. \A q \in Requests \ {p} : Open(q) => x.locked \cap tx[q].locked = {}
  BY <1>5, <1>6 DEF IInv, Apart
<1> HIDE DEF x, S
<1>9. HoldsNone(p, x) BY <1>5, <1>7 DEF HoldsNone
<1>10. x.locked \cup x.seen \subseteq tx[p].locked \cup tx[p].seen \cup Mine(p)
  BY <1>2, <1>5
<1> QED BY <1>1, <1>3, <1>4, <1>5, <1>6, <1>8, <1>9, <1>10, OpenStep DEF OpenStages

LEMMA LockDirectStep ==
  ASSUME IInv, NEW p \in Requests, LockDirect(p)
  PROVE  IInv'
<1> DEFINE seen == IF tx[p].stage = "lock" THEN Direct(RowsOf(tx[p].user)) ELSE tx[p].seen
           found == seen \cap rows
           st == IF SuffixTaken(p) THEN "aborted" ELSE "clear"
           x == [tx[p] EXCEPT !.locked = found, !.stage = st]
<1>1. /\ tx[p].stage \in {"lock", "lock waiting"} /\ ~ LockedBySomeone(p, seen)
      /\ \/ Abort(p)
         \/ /\ tx' = [tx EXCEPT ![p].locked = found, ![p].stage = st]
            /\ UNCHANGED <<rows, channels, begun, queue, group, revoked>>
  BY DEF LockDirect
<1>2. tx[p] \in Tx /\ Open(p) /\ p \in Begun /\ ~ Inserted(p)
  BY <1>1 DEF IInv, TypeOK, Open, Begun, Inserted
<1>3. CASE Abort(p)
  <2>1. [Idle EXCEPT !.stage = "aborted"] \in Tx BY DEF Idle, Tx, Row, Op
  <2>2. [Idle EXCEPT !.stage = "aborted"].stage = "aborted" BY DEF Idle
  <2> QED BY <1>1, <1>2, <1>3, <2>1, <2>2, ClosedStep DEF Abort
<1>4. CASE /\ tx' = [tx EXCEPT ![p].locked = found, ![p].stage = st]
           /\ UNCHANGED <<rows, channels, begun, queue, group, revoked>>
  <2>1. found \subseteq Row /\ st \in {"aborted", "clear"} BY DEF IInv, TypeOK
  <2>2. x \in Tx
    <3> HIDE DEF found, st
    <3> QED BY <1>2, <2>1 DEF Tx
  <2>3. tx' = [tx EXCEPT ![p] = x] BY <1>4 DEF IInv, TypeOK
  <2>4. /\ x.stage = st /\ x.kind = tx[p].kind /\ x.user = tx[p].user /\ x.team = tx[p].team
        /\ x.locked = found /\ x.inserted = tx[p].inserted /\ x.seen = tx[p].seen
    BY <1>2 DEF Tx
  <2>5. found \subseteq Mine(p) \cup tx[p].seen BY DEF Direct, Mine
  <2>6. \A q \in Requests \ {p} : Open(q) => found \cap tx[q].locked = {}
    BY <1>1 DEF LockedBySomeone
  <2>7. tx[p].inserted = {} BY <1>2 DEF IInv, OpenSound
  <2> HIDE DEF x, found, st
  <2>8. CASE st = "aborted" BY ZenonT(40), <1>1, <1>2, <1>4, <2>2, <2>3, <2>4, <2>8, ClosedStep
  <2>9. CASE st = "clear"
    <3>1. HoldsNone(p, x) BY <2>4, <2>7, <2>9 DEF HoldsNone
    <3>2. x.locked \cup x.seen \subseteq tx[p].locked \cup tx[p].seen \cup Mine(p)
      BY <2>4, <2>5
    <3>3. \A q \in Requests \ {p} : Open(q) => x.locked \cap tx[q].locked = {} BY <2>4, <2>6
    <3>4. UNCHANGED <<rows, channels, begun, queue, group, revoked>> BY <1>4
    <3>5. x.stage \in OpenStages /\ x.stage \notin {"insert", "join"}
      BY <2>4, <2>9 DEF OpenStages
    <3> QED BY <1>2, <2>2, <2>3, <2>4, <3>1, <3>2, <3>3, <3>4, <3>5, OpenStep
  <2> QED BY <2>1, <2>8, <2>9
<1> QED BY <1>1, <1>3, <1>4

\* The statement's snapshot is the user's whole chain.
LEMMA DeleteStartsStep ==
  ASSUME IInv, NEW p \in Requests, DeleteStarts(p)
  PROVE  IInv'
<1> DEFINE S == RowsOf(tx[p].user) \ tx[p].locked
           x == [tx[p] EXCEPT !.stage = "deleting", !.seen = S]
<1>1. tx[p].stage = "clear" /\ UNCHANGED <<rows, channels, begun, queue, group, revoked>>
  BY DEF DeleteStarts
<1>2. tx[p] \in Tx /\ S \subseteq Row /\ S \subseteq Mine(p) /\ Mine(p) \subseteq tx[p].locked \cup S
  BY DEF IInv, TypeOK, Mine, RowsOf
<1>3. x \in Tx BY <1>2 DEF Tx
<1>4. tx' = [tx EXCEPT ![p] = x] BY DEF DeleteStarts, IInv, TypeOK
<1>5. /\ x.stage = "deleting" /\ x.kind = tx[p].kind /\ x.user = tx[p].user
      /\ x.team = tx[p].team /\ x.locked = tx[p].locked /\ x.inserted = tx[p].inserted
      /\ x.seen = S
  BY <1>2 DEF Tx
<1>6. Open(p) /\ ~ Inserted(p) BY <1>1 DEF Open, Inserted
<1>7. tx[p].inserted = {} BY <1>6 DEF IInv, OpenSound
<1>8. \A q \in Requests \ {p} : Open(q) => x.locked \cap tx[q].locked = {}
  BY <1>5, <1>6 DEF IInv, Apart
<1> HIDE DEF x, S
<1>9. HoldsNone(p, x) BY <1>2, <1>5, <1>7 DEF HoldsNone
<1>10. x.locked \cup x.seen \subseteq tx[p].locked \cup tx[p].seen \cup Mine(p)
  BY <1>2, <1>5
<1> QED BY <1>1, <1>3, <1>4, <1>5, <1>6, <1>8, <1>9, <1>10, OpenStep DEF OpenStages

\* A row taken stays among those taken or to be taken; one skipped is no row
\* any more.
LEMMA DeleteRowStep ==
  ASSUME IInv, NEW p \in Requests, DeleteRow(p)
  PROVE  IInv'
<1>1. PICK r \in tx[p].seen :
        /\ ~ LockedBySomeone(p, {r})
        /\ tx' = [tx EXCEPT ![p].locked = @ \cup ({r} \cap rows), ![p].seen = @ \ {r}]
  BY DEF DeleteRow
<1>2. tx[p].stage = "deleting" /\ UNCHANGED <<rows, channels, begun, queue, group, revoked>>
  BY DEF DeleteRow
<1> DEFINE L == tx[p].locked \cup ({r} \cap rows)
           S == tx[p].seen \ {r}
           x == [tx[p] EXCEPT !.locked = L, !.seen = S]
<1>3. tx[p] \in Tx /\ L \subseteq Row /\ S \subseteq Row BY DEF IInv, TypeOK, Tx
<1>4. x \in Tx
  <2> HIDE DEF L, S
  <2> QED BY <1>3 DEF Tx
<1>5. tx' = [tx EXCEPT ![p] = x] BY <1>1 DEF IInv, TypeOK
<1>6. /\ x.stage = "deleting" /\ x.kind = tx[p].kind /\ x.user = tx[p].user
      /\ x.team = tx[p].team /\ x.locked = L /\ x.inserted = tx[p].inserted /\ x.seen = S
  BY <1>2, <1>3 DEF Tx
<1>7. Open(p) /\ ~ Inserted(p) BY <1>2 DEF Open, Inserted
<1>8. tx[p].inserted = {} BY <1>7 DEF IInv, OpenSound
<1>9. \A q \in Requests \ {p} : Open(q) => x.locked \cap tx[q].locked = {}
  BY <1>1, <1>6, <1>7 DEF IInv, Apart, LockedBySomeone
<1>10. x.locked \cup x.seen \subseteq tx[p].locked \cup tx[p].seen BY <1>6
<1>11. Mine(p) \subseteq x.locked \cup x.seen \/ (x.locked \cup x.seen) \cap rows = {}
  <2>1. \/ Mine(p) \subseteq tx[p].locked \cup tx[p].seen
        \/ (tx[p].locked \cup tx[p].seen) \cap rows = {}
    BY <1>2, <1>7 DEF IInv, OpenSound
  <2>2. \A s \in rows : s \in tx[p].locked \cup tx[p].seen => s \in x.locked \cup x.seen
    BY <1>6
  <2>3. Mine(p) \subseteq rows BY DEF Mine, RowsOf
  <2> QED BY <1>10, <2>1, <2>2, <2>3
<1> HIDE DEF x, L, S
<1>12. HoldsNone(p, x) BY <1>6, <1>8, <1>11 DEF HoldsNone
<1>13. x.locked \cup x.seen \subseteq tx[p].locked \cup tx[p].seen \cup Mine(p) BY <1>10
<1> QED BY <1>2, <1>4, <1>5, <1>6, <1>7, <1>9, <1>12, <1>13, OpenStep DEF OpenStages

LEMMA DeleteEndsStep ==
  ASSUME IInv, NEW p \in Requests, DeleteEnds(p)
  PROVE  IInv'
<1> DEFINE st == IF tx[p].kind = "remove" THEN "leave" ELSE "insert"
           x == [tx[p] EXCEPT !.stage = st]
<1>1. /\ tx[p].stage = "deleting" /\ tx[p].seen = {}
      /\ UNCHANGED <<rows, channels, begun, queue, group, revoked>>
  BY DEF DeleteEnds
<1>2. tx[p] \in Tx /\ Open(p) /\ ~ Inserted(p)
  BY <1>1 DEF IInv, TypeOK, Open, Inserted
<1>3. st \in {"leave", "insert"} OBVIOUS
<1>4. tx' = [tx EXCEPT ![p] = x] BY DEF DeleteEnds, IInv, TypeOK
<1>5. x \in Tx
  <2> HIDE DEF st
  <2> QED BY <1>2, <1>3 DEF Tx
<1>6. /\ x.stage = st /\ x.kind = tx[p].kind /\ x.user = tx[p].user /\ x.team = tx[p].team
      /\ x.locked = tx[p].locked /\ x.inserted = tx[p].inserted /\ x.seen = {}
  BY <1>1, <1>2 DEF Tx
<1>7. \A q \in Requests \ {p} : Open(q) => x.locked \cap tx[q].locked = {}
  BY <1>2, <1>6 DEF IInv, Apart
<1>8. tx[p].inserted = {} BY <1>2 DEF IInv, OpenSound
<1>9. x.locked \cap rows = {} \/ Mine(p) \subseteq x.locked
  BY <1>1, <1>2, <1>6 DEF IInv, OpenSound
<1>10. x.locked \cup x.seen \subseteq tx[p].locked \cup tx[p].seen \cup Mine(p) BY <1>6
<1>11. x.kind = "remove" <=> x.stage = "leave" BY <1>6
<1>12. HoldsNone(p, x)
  <2> HIDE DEF x, st
  <2> QED BY <1>3, <1>6, <1>8, <1>9, <1>11 DEF HoldsNone
<1> HIDE DEF x, st
<1> QED
  BY ZenonT(40), <1>1, <1>2, <1>3, <1>4, <1>5, <1>6, <1>7, <1>10, <1>11, <1>12, OpenStep DEF OpenStages

\* The victim of a deadlock has no transaction any more.
LEMMA DeadlockStep ==
  ASSUME IInv, NEW p \in Requests, Deadlock(p)
  PROVE  Open(p) /\ IInv'
<1>1. Deadlocked(p) /\ Abort(p) BY DEF Deadlock
<1>2. tx[p].stage \in {"deleting", "insert", "leave"}
  <2>1. SUFFICES ASSUME tx[p].stage \notin {"deleting", "insert", "leave"} PROVE FALSE OBVIOUS
  <2>2. WaitsFor(p) = {} BY <2>1 DEF WaitsFor
  <2>3. {} \in SUBSET Requests /\ p \notin {} OBVIOUS
  <2> QED BY <1>1, <2>2, <2>3 DEF Deadlocked
<1>3. Open(p) /\ p \in Begun /\ tx[p].stage # "committed" BY <1>2 DEF Open, Begun
<1>4. [Idle EXCEPT !.stage = "aborted"] \in Tx BY DEF Idle, Tx, Row, Op
<1>5. [Idle EXCEPT !.stage = "aborted"].stage = "aborted" BY DEF Idle
<1>6. IInv' BY <1>1, <1>3, <1>4, <1>5, ClosedStep DEF Abort
<1> QED BY <1>3, <1>6

LEMMA InsertRowsStep ==
  ASSUME IInv, NEW p \in Requests, InsertRows(p)
  PROVE  IInv'
<1> DEFINE mine == ChainRows(tx[p].user, tx[p].team, p)
           x == [tx[p] EXCEPT !.stage = "join", !.inserted = mine]
<1>1. /\ tx[p].stage = "insert" /\ ~ DirectUndecided(p)
      /\ \/ Abort(p)
         \/ /\ Direct(RowsOf(tx[p].user)) \subseteq tx[p].locked
            /\ tx' = [tx EXCEPT ![p].stage = "join", ![p].inserted = mine]
            /\ UNCHANGED <<rows, channels, begun, queue, group, revoked>>
  BY DEF InsertRows
<1>2. tx[p] \in Tx /\ Open(p) /\ p \in Begun /\ Deleted(p)
  BY <1>1 DEF IInv, TypeOK, Open, Begun, Deleted
<1>3. tx[p].user \in Users /\ tx[p].team \in Teams /\ tx[p].kind # "remove"
  BY <1>1, <1>2 DEF IInv, OpenSound
<1>4. CASE Abort(p)
  <2>1. [Idle EXCEPT !.stage = "aborted"] \in Tx BY DEF Idle, Tx, Row, Op
  <2>2. [Idle EXCEPT !.stage = "aborted"].stage = "aborted" BY DEF Idle
  <2> QED BY <1>1, <1>2, <1>4, <2>1, <2>2, ClosedStep DEF Abort
<1>5. CASE /\ Direct(RowsOf(tx[p].user)) \subseteq tx[p].locked
           /\ tx' = [tx EXCEPT ![p].stage = "join", ![p].inserted = mine]
           /\ UNCHANGED <<rows, channels, begun, queue, group, revoked>>
  <2>1. mine \subseteq Row BY <1>3, ChainRowsSound
  <2>2. x \in Tx
    <3> HIDE DEF mine
    <3> QED BY <1>2, <2>1 DEF Tx
  <2>3. tx' = [tx EXCEPT ![p] = x] BY <1>5 DEF IInv, TypeOK
  <2>4. /\ x.stage = "join" /\ x.kind = tx[p].kind /\ x.user = tx[p].user
        /\ x.team = tx[p].team /\ x.locked = tx[p].locked /\ x.inserted = mine
        /\ x.seen = tx[p].seen
    BY <1>2 DEF Tx
  <2>5. Mine(p) \subseteq tx[p].locked
    <3>1. tx[p].locked \cap rows = {} \/ Mine(p) \subseteq tx[p].locked
      BY <1>2 DEF IInv, OpenSound
    <3>2. CASE Mine(p) # {}
      <4>1. PICK t \in Teams, q \in Requests \cup {Seed} : Mine(p) = ChainRows(tx[p].user, t, q)
        BY <1>3, <3>2 DEF IInv, RowsAreOneChain, Mine
      <4>2. HomeRow(tx[p].user, t, q) \in Direct(RowsOf(tx[p].user))
        BY <1>3, <4>1, ChainRowsSound DEF Mine
      <4>3. HomeRow(tx[p].user, t, q) \in tx[p].locked \cap rows
        BY <1>5, <4>2 DEF Direct, RowsOf
      <4> QED BY <3>1, <4>3
    <3> QED BY <3>2
  <2>6. ASSUME NEW q \in Requests \ {p}, Open(q), Inserted(q) PROVE tx[q].user # tx[p].user
    <3>1. /\ tx[q].user \in Users /\ tx[q].team \in Teams
          /\ tx[q].inserted = ChainRows(tx[q].user, tx[q].team, q)
      BY <2>6 DEF IInv, OpenSound, Inserted
    <3>2. HomeRow(tx[q].user, tx[q].team, q) \in Direct(tx[q].inserted \cup tx[q].locked)
      BY <3>1, ChainRowsSound DEF Direct, HomeRow
    <3>3. HomeRow(tx[q].user, tx[q].team, q).user = tx[q].user BY DEF HomeRow
    <3> QED BY <1>1, <2>6, <3>2, <3>3 DEF DirectUndecided
  <2>7. \A q \in Requests \ {p} : Open(q) => tx[p].locked \cap tx[q].locked = {}
    BY <1>2 DEF IInv, Apart
  <2> HIDE DEF x, mine
  <2>8. HoldsRows(p, x) BY <2>4, <2>5, <2>6 DEF HoldsRows, mine
  <2>9. x.locked \cup x.seen \subseteq tx[p].locked \cup tx[p].seen \cup Mine(p) BY <2>4
  <2>10. \A q \in Requests \ {p} : Open(q) => x.locked \cap tx[q].locked = {} BY <2>4, <2>7
  <2>11. UNCHANGED <<rows, channels, begun, queue, group, revoked>> BY <1>5
  <2>12. x.stage \in OpenStages /\ x.kind # "remove" BY <1>3, <2>4 DEF OpenStages
  <2> QED BY <1>2, <2>2, <2>3, <2>4, <2>8, <2>9, <2>10, <2>11, <2>12, OpenStep
<1> QED BY <1>1, <1>4, <1>5

\* Operations published by an open transaction.
LEMMA PublishedType ==
  ASSUME IInv, NEW p \in Requests, tx[p].user \in Users, NEW S \in SUBSET Teams,
         NEW kind \in {"add", "remove"}
  PROVE  Published(p, kind, S) \in SUBSET Op
<1>1. tx[p].created \in Nat BY DEF IInv, TypeOK, Tx
<1> QED BY <1>1 DEF Published, Op

\* The rest of a transaction changes no row, lock or insertion.
LEMMA WindUpStep ==
  ASSUME IInv, NEW p \in Requests, JoinChannels(p) \/ LeaveChannels(p)
  PROVE  IInv'
<1>1. tx[p] \in Tx /\ Open(p) /\ Deleted(p) /\ tx[p].stage \in {"join", "leave"}
      /\ UNCHANGED <<rows, channels, begun, queue, group, revoked>>
  BY DEF JoinChannels, LeaveChannels, IInv, TypeOK, Open, Deleted
<1>2. /\ tx[p].user \in Users
      /\ tx[p].kind # "remove" => tx[p].team \in Teams
      /\ tx[p].stage = "join" => tx[p].kind # "remove"
  BY <1>1 DEF IInv, OpenSound
<1>3. ASSUME NEW x \in Tx, tx' = [tx EXCEPT ![p] = x],
             x.stage \in {"leave", "commit"}, x.kind = tx[p].kind, x.user = tx[p].user,
             x.team = tx[p].team, x.locked = tx[p].locked, x.seen = tx[p].seen,
             x.inserted = tx[p].inserted
      PROVE  IInv'
  <2>1. x.locked \cup x.seen \subseteq tx[p].locked \cup tx[p].seen \cup Mine(p) BY <1>3
  <2>2. \A q \in Requests \ {p} : Open(q) => x.locked \cap tx[q].locked = {}
    BY <1>1, <1>3 DEF IInv, Apart
  <2>3. CASE tx[p].kind = "remove"
    <3>1. ~ Inserted(p) BY <1>1, <1>2, <2>3 DEF Inserted
    <3>2. tx[p].inserted = {} /\ (tx[p].locked \cap rows = {} \/ Mine(p) \subseteq tx[p].locked)
      BY <1>1, <3>1 DEF IInv, OpenSound
    <3>3. HoldsNone(p, x) BY <1>3, <2>3, <3>2 DEF HoldsNone
    <3> QED BY <1>1, <1>3, <2>1, <2>2, <3>3, OpenStep DEF OpenStages
  <2>4. CASE tx[p].kind # "remove"
    <3>1. Inserted(p) BY <1>1, <2>4 DEF Inserted
    <3>2. tx[p].inserted = ChainRows(tx[p].user, tx[p].team, p) /\ Mine(p) \subseteq tx[p].locked
      BY <1>1, <3>1 DEF IInv, OpenSound
    <3>3. \A q \in Requests \ {p} : Open(q) /\ Inserted(q) => tx[q].user # tx[p].user
      BY <1>1, <3>1 DEF IInv, Apart
    <3>4. HoldsRows(p, x) BY <1>3, <2>4, <3>2, <3>3 DEF HoldsRows
    <3> QED BY <1>1, <1>3, <2>1, <2>2, <3>4, OpenStep DEF OpenStages
  <2> QED BY <2>3, <2>4
<1>4. CASE JoinChannels(p)
  <2> DEFINE j == {tx[p].user} \X Chain(tx[p].team)
             o == Published(p, "add", Chain(tx[p].team))
             st == IF tx[p].kind = "transfer" THEN "leave" ELSE "commit"
             x == [tx[p] EXCEPT !.joined = j, !.ops = o, !.stage = st]
  <2>1. tx[p].team \in Teams BY <1>2, <1>4 DEF JoinChannels
  <2>2. Chain(tx[p].team) \in SUBSET Teams BY <2>1, ChainSound
  <2>3. j \subseteq Users \X Teams /\ o \in SUBSET Op /\ st \in {"leave", "commit"}
    BY <1>2, <2>2, PublishedType
  <2>4. tx' = [tx EXCEPT ![p] = x] BY <1>4 DEF JoinChannels, IInv, TypeOK
  <2> HIDE DEF j, o, st
  <2>5. x \in Tx BY <1>1, <2>3 DEF Tx
  <2>6. /\ x.stage = st /\ x.kind = tx[p].kind /\ x.user = tx[p].user /\ x.team = tx[p].team
        /\ x.locked = tx[p].locked /\ x.seen = tx[p].seen /\ x.inserted = tx[p].inserted
    BY <1>1 DEF Tx
  <2> HIDE DEF x
  <2> QED BY <1>3, <2>3, <2>4, <2>5, <2>6
<1>5. CASE LeaveChannels(p)
  <2> DEFINE cut == Leaving(p)
             left == IF tx[p].kind = "remove" THEN tx[p].captured ELSE {c[2] : c \in cut}
             o == tx[p].ops \cup Published(p, "remove", left)
             x == [tx[p] EXCEPT !.stage = "commit", !.cut = cut, !.ops = o]
  <2>1. cut \subseteq channels /\ channels \subseteq Users \X Teams BY DEF IInv, TypeOK, Leaving
  <2>2. left \in SUBSET Teams
    <3>1. tx[p].captured \subseteq Teams BY <1>1 DEF Tx
    <3>2. {c[2] : c \in cut} \subseteq Teams BY <2>1
    <3> QED BY <3>1, <3>2
  <2>3. o \subseteq Op
    <3>1. Published(p, "remove", left) \in SUBSET Op BY <1>2, <2>2, PublishedType
    <3>2. tx[p].ops \subseteq Op BY <1>1 DEF Tx
    <3> QED BY <3>1, <3>2
  <2>4. tx' = [tx EXCEPT ![p] = x] BY <1>5 DEF LeaveChannels, IInv, TypeOK
  <2> HIDE DEF cut, o
  <2>5. x \in Tx BY <1>1, <2>1, <2>3 DEF Tx
  <2>6. /\ x.stage = "commit" /\ x.kind = tx[p].kind /\ x.user = tx[p].user
        /\ x.team = tx[p].team /\ x.locked = tx[p].locked /\ x.seen = tx[p].seen
        /\ x.inserted = tx[p].inserted
    BY <1>1 DEF Tx
  <2> HIDE DEF x
  <2> QED BY <1>3, <2>4, <2>5, <2>6
<1> QED BY <1>4, <1>5

-----------------------------------------------------------------------------
(* The commit.                                                             *)

\* A commit leaves other users' rows alone; it replaces its own user's rows by
\* its own chain, or a removal takes all of them or none.
LEMMA CommittedRows ==
  ASSUME IInv, NEW p \in Requests, Commit(p), NEW u \in Users
  PROVE  /\ u # tx[p].user => RowsOf(u)' = RowsOf(u)
         /\ u = tx[p].user /\ Inserted(p) => /\ RowsOf(u) \subseteq tx[p].locked
                                            /\ RowsOf(u)' = ChainRows(u, tx[p].team, p)
         /\ u = tx[p].user /\ ~ Inserted(p) =>
              \/ RowsOf(u)' = RowsOf(u) /\ tx[p].locked \cap rows = {}
              \/ RowsOf(u)' = {} /\ RowsOf(u) \subseteq tx[p].locked
<1>1. /\ rows' = (rows \ tx[p].locked) \cup tx[p].inserted
      /\ Open(p) /\ Deleted(p) /\ tx[p].stage = "commit"
  BY DEF Commit, Open, Deleted
<1>2. /\ tx[p].user \in Users
      /\ tx[p].kind # "remove" => tx[p].team \in Teams
      /\ tx[p].inserted = IF Inserted(p) THEN ChainRows(tx[p].user, tx[p].team, p) ELSE {}
      /\ \A r \in tx[p].locked : r.user = tx[p].user
      /\ Inserted(p) => Mine(p) \subseteq tx[p].locked
      /\ tx[p].locked \cap rows = {} \/ Mine(p) \subseteq tx[p].locked
  BY <1>1 DEF IInv, OpenSound
<1>3. Inserted(p) => tx[p].team \in Teams BY <1>1, <1>2 DEF Inserted
<1>4. Inserted(p) => \A r \in tx[p].inserted : r.user = tx[p].user
  BY <1>2, <1>3, ChainRowsSound
<1>5. \A r \in tx[p].inserted : r.user = tx[p].user BY <1>2, <1>4
<1>6. CASE u # tx[p].user BY <1>1, <1>2, <1>5, <1>6 DEF RowsOf
<1>7. CASE u = tx[p].user /\ Inserted(p)
  <2>1. RowsOf(u) \subseteq tx[p].locked BY <1>2, <1>7 DEF Mine
  <2>2. tx[p].inserted = ChainRows(u, tx[p].team, p) BY <1>2, <1>7
  <2> QED BY <1>1, <1>5, <1>7, <2>1, <2>2 DEF RowsOf
<1>8. CASE u = tx[p].user /\ ~ Inserted(p)
  <2>1. rows' = rows \ tx[p].locked BY <1>1, <1>2, <1>8
  <2>2. CASE tx[p].locked \cap rows = {} BY <1>8, <2>1, <2>2 DEF RowsOf
  <2>3. CASE RowsOf(u) \subseteq tx[p].locked BY <1>8, <2>1, <2>3 DEF RowsOf
  <2> QED BY <1>2, <1>8, <2>2, <2>3 DEF Mine
<1> QED BY <1>6, <1>7, <1>8

\* Rows another open transaction has locked or seen are not p's.
LEMMA OthersRows ==
  ASSUME IInv, NEW p \in Requests, Open(p), NEW q \in Requests, Open(q),
         NEW r \in tx[q].locked \cup tx[q].seen
  PROVE  r.by # p
<1>1. Written(r) BY DEF IInv, OpenSound
<1> QED BY <1>1, TeamMembershipAssumption DEF Written, Open

LEMMA CommitStep ==
  ASSUME IInv, NEW p \in Requests, Commit(p)
  PROVE  IInv'
<1> DEFINE x == [Idle EXCEPT !.stage = "committed", !.kind = tx[p].kind,
                             !.user = tx[p].user, !.team = tx[p].team]
<1>1. /\ rows' = (rows \ tx[p].locked) \cup tx[p].inserted
      /\ channels' = (channels \ tx[p].cut) \cup tx[p].joined
      /\ queue' = queue \cup tx[p].ops /\ revoked' = revoked \cup RevokedBy(p)
      /\ tx' = [tx EXCEPT ![p] = x] /\ UNCHANGED <<begun, group>>
      /\ tx[p].stage = "commit" /\ Open(p) /\ tx[p] \in Tx
  BY DEF Commit, Open, IInv, TypeOK
<1>2. x \in Tx /\ x.stage = "committed" BY ZenonT(40), <1>1 DEF Idle, Tx, Row, Op
<1>3. tx'[p] = x /\ \A q \in Requests \ {p} : tx'[q] = tx[q] BY <1>1 DEF IInv, TypeOK
<1> HIDE DEF x
<1>4. tx[p].user \in Users /\ (tx[p].kind # "remove" => tx[p].team \in Teams)
  BY <1>1 DEF IInv, OpenSound
<1>5. /\ begun' = Cardinality(Begun') /\ begun' \in 0..Cardinality(Requests)
  <2>1. p \in Begun /\ p \in Begun' BY <1>1, <1>2, <1>3 DEF Begun
  <2> QED BY <1>1, <1>3, <2>1, BegunStep
<1>6. TypeOK'
  <2>1. rows' \subseteq Row /\ channels' \subseteq Users \X Teams /\ queue' \subseteq Op
    BY <1>1 DEF IInv, TypeOK, Tx
  <2>2. tx' \in [Requests -> Tx] BY <1>1, <1>2 DEF IInv, TypeOK
  <2>3. revoked' \subseteq Users BY <1>1, <1>4 DEF IInv, TypeOK, RevokedBy
  <2> QED BY <1>1, <1>5, <2>1, <2>2, <2>3 DEF IInv, TypeOK
<1>7. RowsAreOneChain'
  <2>1. SUFFICES ASSUME NEW u \in Users, RowsOf(u)' # {}
                 PROVE  \E t \in Teams, q \in Requests \cup {Seed} :
                          RowsOf(u)' = ChainRows(u, t, q)
    BY DEF RowsAreOneChain
  <2>2. CASE RowsOf(u)' = RowsOf(u) BY <2>1, <2>2 DEF IInv, RowsAreOneChain
  <2>3. CASE Inserted(p) /\ RowsOf(u)' = ChainRows(u, tx[p].team, p)
    BY <1>1, <1>4, <2>3 DEF Inserted
  <2> QED BY <2>1, <2>2, <2>3, CommittedRows
<1>8. \A r \in Row : Written(r) => Written(r)' BY <1>1, <1>2, <1>3 DEF Written, Row
<1>9. \A r \in rows' : Written(r)'
  <2>1. \A r \in tx[p].inserted : r.by = p
    <3>1. Inserted(p) => tx[p].team \in Teams BY <1>1, <1>4 DEF Inserted
    <3>2. tx[p].inserted = IF Inserted(p) THEN ChainRows(tx[p].user, tx[p].team, p) ELSE {}
      BY <1>1 DEF IInv, OpenSound
    <3> QED BY <1>4, <3>1, <3>2, ChainRowsSound
  <2>2. \A r \in tx[p].inserted : Written(r)' BY <1>2, <1>3, <2>1 DEF Written
  <2> QED BY <1>1, <1>8, <2>2 DEF IInv, TypeOK
<1>10. ~ Open(p)' /\ CheckedSound(p)' /\ OpenSound(p)'
  BY <1>2, <1>3 DEF Open, CheckedSound, OpenSound
<1>11. ASSUME NEW q \in Requests \ {p} PROVE CheckedSound(q)' /\ OpenSound(q)'
  <2>1. CheckedSound(q)' BY <1>3 DEF IInv, CheckedSound
  <2>2. (Open(q)' <=> Open(q)) /\ (Inserted(q)' <=> Inserted(q)) /\ (Deleted(q)' <=> Deleted(q))
    BY <1>3 DEF Open, Inserted, Deleted
  <2>3. SUFFICES ASSUME Open(q) PROVE OpenSound(q)'
    BY <2>1, <2>2 DEF OpenSound
  <2>4. tx[q].user \in Users BY <2>3 DEF IInv, OpenSound
  <2>5. tx[q] \in Tx /\ \A r \in tx[q].locked \cup tx[q].seen : r.user = tx[q].user /\ Written(r)
    BY <2>3 DEF IInv, OpenSound, TypeOK
  <2>6. \A r \in tx[q].locked \cup tx[q].seen : Written(r)' BY <1>8, <2>5 DEF Tx
  <2>7. \A r \in tx[q].locked \cup tx[q].seen : r.by # p BY <1>1, <2>3, OthersRows
  <2>8. PICK u \in Users : u = tx[q].user BY <2>4
  <2>8a. Mine(q) = RowsOf(u) /\ Mine(q)' = RowsOf(u)' BY <1>3, <2>8 DEF Mine, RowsOf
  \* No row a waiting or open transaction holds comes back.
  <2>9. \A r \in tx[q].locked \cup tx[q].seen : r \in rows' => r \in rows
    <3>1. \A r \in tx[p].inserted : r.by = p
      <4>1. Inserted(p) => tx[p].team \in Teams BY <1>1, <1>4 DEF Inserted
      <4>2. tx[p].inserted = IF Inserted(p) THEN ChainRows(tx[p].user, tx[p].team, p) ELSE {}
        BY <1>1 DEF IInv, OpenSound
      <4> QED BY <1>4, <4>1, <4>2, ChainRowsSound
    <3> QED BY <1>1, <2>7, <3>1
  <2>10. CASE tx[q].user # tx[p].user
    <3>1. Mine(q)' = Mine(q) BY <2>8, <2>8a, <2>10, CommittedRows
    <3>2. (tx[q].locked \cup tx[q].seen) \cap rows = {}
            => (tx[q].locked \cup tx[q].seen) \cap rows' = {}
      BY <2>9
    <3>3. tx[q].locked \cap rows = {} => tx[q].locked \cap rows' = {} BY <2>9
    <3> QED BY <1>3, <2>2, <2>3, <2>6, <3>1, <3>2, <3>3 DEF IInv, OpenSound
  <2>11. CASE tx[q].user = tx[p].user
    <3>1. \A r \in tx[q].locked \cup tx[q].seen : r \in rows => r \in Mine(q)
      BY <2>5 DEF Mine, RowsOf
    <3>2. tx[p].locked \cap tx[q].locked = {} BY <1>1, <2>3 DEF IInv, Apart
    <3>3. CASE Inserted(p)
      <4>1. Mine(q) \subseteq tx[p].locked /\ Mine(q)' = ChainRows(tx[q].user, tx[p].team, p)
        BY <2>8, <2>8a, <2>11, <3>3, CommittedRows
      <4>2. ~ Inserted(q) BY <1>1, <2>3, <2>11, <3>3 DEF IInv, Apart
      <4>3. tx[p].team \in Teams BY <1>1, <1>4, <3>3 DEF Inserted
      <4>4. \A r \in Mine(q)' : r.by = p BY <2>4, <4>1, <4>3, ChainRowsSound
      <4>5. \A r \in tx[q].locked \cup tx[q].seen : r \in rows' => r \in Mine(q)'
        BY <1>3, <2>5 DEF Mine, RowsOf
      <4>6. (tx[q].locked \cup tx[q].seen) \cap rows' = {} BY <2>7, <4>4, <4>5
      <4> QED BY <1>3, <2>2, <2>3, <2>6, <4>2, <4>6 DEF IInv, OpenSound
    <3>4. CASE ~ Inserted(p) /\ Mine(q)' = Mine(q) /\ tx[p].locked \cap rows = {}
      <4>1. rows' = rows
        <5>1. tx[p].inserted = {} BY <1>1, <3>4 DEF IInv, OpenSound
        <5> QED BY <1>1, <3>4, <5>1
      <4> QED BY <1>3, <2>2, <2>3, <2>6, <3>4, <4>1 DEF IInv, OpenSound
    <3>5. CASE ~ Inserted(p) /\ Mine(q)' = {}
      <4>1. \A r \in tx[q].locked \cup tx[q].seen : r \notin rows'
        BY <1>3, <2>5, <3>5 DEF Mine, RowsOf
      <4>2. (tx[q].locked \cup tx[q].seen) \cap rows' = {} BY <4>1
      <4> QED BY <1>3, <2>2, <2>3, <2>6, <3>5, <4>2 DEF IInv, OpenSound
    <3> QED BY <2>8, <2>8a, <2>11, <3>3, <3>4, <3>5, CommittedRows
  <2> QED BY <2>10, <2>11
<1>12. ASSUME NEW q \in Requests, NEW s \in Requests PROVE Apart(q, s)'
  <2>1. CASE q # p /\ s # p BY <1>3, <2>1 DEF IInv, Apart, Open, Inserted
  <2>2. CASE q = p \/ s = p BY <1>10, <2>2 DEF Apart
  <2> QED BY <2>1, <2>2
<1> QED BY <1>5, <1>6, <1>7, <1>9, <1>10, <1>11, <1>12 DEF IInv

-----------------------------------------------------------------------------

\* A step that touches neither rows nor transactions.
LEMMA RestStep ==
  ASSUME IInv, TypeOK', UNCHANGED <<rows, tx, begun>>
  PROVE  IInv'
<1>1. begun' = Cardinality(Begun') BY DEF IInv, Begun
<1>2. RowsAreOneChain' BY DEF IInv, RowsAreOneChain, RowsOf
<1>3. \A r \in rows' : Written(r)' BY DEF IInv, Written
<1>4. \A p \in Requests : CheckedSound(p)' BY DEF IInv, CheckedSound
<1>5. \A p \in Requests : OpenSound(p)'
  BY DEF IInv, OpenSound, Open, Mine, RowsOf, Written, Inserted, Deleted
<1>6. \A p, q \in Requests : Apart(p, q)' BY DEF IInv, Apart, Open, Inserted
<1> QED BY <1>1, <1>2, <1>3, <1>4, <1>5, <1>6 DEF IInv

LEMMA NextInvariant == IInv /\ [Next]_vars => IInv'
<1> SUFFICES ASSUME IInv, [Next]_vars PROVE IInv'
  OBVIOUS
<1>1. ASSUME NEW o \in queue, Run(o) PROVE IInv'
  <2>1. o \in Op /\ queue' \subseteq Op /\ group' \in [Teams -> SUBSET Users]
    <3>1. o \in Op /\ queue' \subseteq Op BY <1>1 DEF Run, IInv, TypeOK
    <3>2. o.team \in Teams /\ (o.kind = "add" => o.user \in Users) BY <3>1 DEF Op
    <3> DEFINE now == CASE o.kind = "add" -> group[o.team] \cup {o.user}
                        [] o.kind = "remove" -> group[o.team] \ {o.user}
                        [] OTHER -> {u \in Users : InTeam(u, o.team)}
    <3>3. group[o.team] \subseteq Users BY <3>2 DEF IInv, TypeOK
    <3>4. now \in SUBSET Users
      <4>1. CASE o.kind = "add" BY <3>2, <3>3, <4>1
      <4>2. CASE o.kind = "remove" BY <3>3, <4>2
      <4>3. CASE o.kind \notin {"add", "remove"} BY <4>3
      <4> QED BY <4>1, <4>2, <4>3
    <3>5. group' = [group EXCEPT ![o.team] = now] BY <1>1 DEF Run
    <3> HIDE DEF now
    <3> QED BY <3>1, <3>4, <3>5 DEF IInv, TypeOK
  <2>2. TypeOK' BY <1>1, <2>1 DEF Run, IInv, TypeOK
  <2> QED BY <1>1, <2>2, RestStep DEF Run
<1>2. CASE UNCHANGED vars
  <2>1. TypeOK' BY <1>2 DEF vars, IInv, TypeOK
  <2> QED BY <1>2, <2>1, RestStep DEF vars
<1> QED
  BY <1>1, <1>2, CheckAddStep, BeginStep, LockWaitsStep, LockDirectStep, DeleteStartsStep,
     DeleteRowStep, DeleteEndsStep, InsertRowsStep, WindUpStep, CommitStep, DeadlockStep DEF Next, Statement

THEOREM Invariance == Spec => []IInv
<1>1. Init => IInv BY InitInvariant
<1>2. IInv /\ [Next]_vars => IInv' BY NextInvariant
<1> QED BY <1>1, <1>2, PTL DEF Spec

\* However many additions, removals and transfers of however many users
\* overlap, statement by statement, the rows they leave are for each user one
\* team's chain or none (TeamMembershipService.js:37-181, 204-361,
\* TeamTransferService.js:215-489).
THEOREM RowsStaySound == Spec => []RowsSound
<1>1. IInv => RowsSound BY DEF IInv, RowsSound
<1> QED BY <1>1, Invariance, PTL

-----------------------------------------------------------------------------
(* The steps before a commit.                                              *)

Step(p) ==
  \/ CheckAdd(p) \/ BeginAdd(p) \/ BeginRemove(p) \/ BeginTransfer(p) \/ LockWaits(p)
  \/ LockDirect(p) \/ DeleteStarts(p) \/ DeleteRow(p) \/ DeleteEnds(p) \/ InsertRows(p)
  \/ JoinChannels(p) \/ LeaveChannels(p) \/ Deadlock(p)

\* What a request asks for; the channel rows it will change, with their operations.
Asked(p) == <<tx[p].kind, tx[p].user, tx[p].team, tx[p].captured>>
Changes(p) == <<tx[p].cut, tx[p].joined, tx[p].ops>>

\* A request that starts has changed nothing yet.
Starts(p) ==
  /\ tx[p].stage = "idle"
  /\ \A q \in UnderWay : {tx'[p].kind, tx[q].kind} \subseteq Overlapping
  /\ tx'[p].cut = {} /\ tx'[p].joined = {} /\ tx'[p].ops = {}
  /\ tx'[p].user \in Users
  /\ \/ tx'[p].stage = "checked" /\ tx'[p].kind = "add" /\ Direct(RowsOf(tx'[p].user)) = {}
     \/ /\ tx'[p].stage = "clear" /\ tx'[p].kind = "remove"
        /\ tx'[p].captured = {r.team : r \in RowsOf(tx'[p].user)}
     \/ tx'[p].stage = "lock" /\ tx'[p].kind = "transfer"

\* Up to its INSERT a transaction only sees and locks rows.
Locks(p) ==
  /\ UNCHANGED Changes(p)
  /\ \/ /\ tx[p].stage = "checked" /\ tx'[p].stage = "clear" /\ tx'[p].locked = tx[p].locked
        /\ tx[p].kind = "add"
     \/ /\ tx[p].stage = "lock" /\ tx'[p].stage = "lock waiting"
        /\ tx'[p].seen = Direct(Mine(p))
     \/ /\ tx[p].stage \in {"lock", "lock waiting"} /\ tx'[p].stage = "clear"
        /\ tx'[p].locked \subseteq rows
        /\ tx'[p].locked \subseteq IF tx[p].stage = "lock" THEN Direct(Mine(p)) ELSE tx[p].seen
        /\ \E d \in tx'[p].locked : d.team # tx[p].team
     \/ /\ tx[p].stage = "clear" /\ tx'[p].stage = "deleting"
        /\ tx'[p].locked = tx[p].locked /\ Mine(p) \subseteq tx'[p].locked \cup tx'[p].seen
     \/ /\ tx[p].stage = "deleting" /\ tx'[p].stage = "deleting"
        /\ tx[p].locked \subseteq tx'[p].locked
        /\ (tx[p].locked \cup tx[p].seen) \cap rows \subseteq tx'[p].locked \cup tx'[p].seen
     \/ /\ tx[p].stage = "deleting" /\ tx[p].seen = {}
        /\ tx'[p].stage = IF tx[p].kind = "remove" THEN "leave" ELSE "insert"
        /\ tx'[p].locked = tx[p].locked
     \/ tx[p].stage = "insert" /\ tx'[p].stage = "join" /\ tx'[p].locked = tx[p].locked

\* Then it writes channel rows and operations.
Writes(p) ==
  /\ tx'[p].locked = tx[p].locked
  /\ \/ /\ tx[p].stage = "join" /\ tx'[p].cut = tx[p].cut
        /\ tx'[p].stage = IF tx[p].kind = "transfer" THEN "leave" ELSE "commit"
        /\ tx'[p].joined = {tx[p].user} \X Chain(tx[p].team)
        /\ tx'[p].ops = Published(p, "add", Chain(tx[p].team))
     \/ /\ tx[p].stage = "leave" /\ tx'[p].stage = "commit" /\ tx'[p].joined = tx[p].joined
        /\ tx'[p].cut = {c \in channels : /\ c[1] = tx[p].user
                                          /\ tx[p].kind = "remove" \/ c[2] \notin Chain(tx[p].team)}
        /\ tx'[p].ops = tx[p].ops \cup
             Published(p, "remove", IF tx[p].kind = "remove" THEN tx[p].captured
                                    ELSE {c[2] : c \in tx'[p].cut})

LEMMA StepFrame ==
  ASSUME IInv, NEW p \in Requests, Step(p)
  PROVE  /\ UNCHANGED <<rows, channels, queue, group>>
         /\ \A q \in Requests \ {p} : tx'[q] = tx[q]
         /\ tx[p].stage # "committed" /\ tx'[p].stage # "committed"
<1> USE DEF IInv, TypeOK
<1>1. tx[p] \in Tx /\ Idle \in Tx BY IdleType
<1>2. CASE CheckAdd(p) BY <1>1, <1>2 DEF CheckAdd, Start, Idle
<1>3. CASE BeginAdd(p) BY <1>1, <1>3 DEF BeginAdd, Tx
<1>4. CASE BeginRemove(p) BY <1>1, <1>4 DEF BeginRemove, Start, Idle
<1>5. CASE BeginTransfer(p) BY <1>1, <1>5 DEF BeginTransfer, Start, Idle
<1>6. CASE LockWaits(p) BY <1>1, <1>6 DEF LockWaits, Wait, Tx
<1>7. CASE LockDirect(p)
  <2>1. tx[p].stage \in {"lock", "lock waiting"} BY <1>7 DEF LockDirect
  <2>2. CASE Abort(p) BY <1>1, <2>1, <2>2 DEF Abort, Idle
  <2>3. CASE ~ Abort(p)
    <3>1. PICK S : tx' = [tx EXCEPT ![p].locked = S,
                            ![p].stage = IF SuffixTaken(p) THEN "aborted" ELSE "clear"]
      BY <1>7, <2>3 DEF LockDirect
    <3> QED BY <1>1, <1>7, <2>1, <2>3, <3>1 DEF LockDirect, Tx
  <2> QED BY <2>2, <2>3
<1>8. CASE DeleteStarts(p) BY <1>1, <1>8 DEF DeleteStarts, Tx
<1>9. CASE DeleteRow(p)
  <2>1. PICK r : tx' = [tx EXCEPT ![p].locked = @ \cup ({r} \cap rows), ![p].seen = @ \ {r}]
    BY <1>9 DEF DeleteRow
  <2> QED BY <1>1, <1>9, <2>1 DEF DeleteRow, Tx
<1>9a. CASE DeleteEnds(p) BY <1>1, <1>9a DEF DeleteEnds, Tx
<1>9b. CASE Deadlock(p)
  <2>1. Open(p) /\ Abort(p) BY <1>9b, DeadlockStep DEF Deadlock
  <2> QED BY <1>1, <2>1 DEF Open, Abort, Idle
<1>10. CASE InsertRows(p)
  <2>1. CASE Abort(p) BY <1>1, <1>10, <2>1 DEF InsertRows, Abort, Idle
  <2>2. CASE ~ Abort(p)
    <3> DEFINE mine == ChainRows(tx[p].user, tx[p].team, p)
    <3>1. /\ tx[p].stage = "insert" /\ UNCHANGED <<rows, channels, queue, group>>
          /\ tx' = [tx EXCEPT ![p].stage = "join", ![p].inserted = mine]
      BY <1>10, <2>2 DEF InsertRows
    <3> HIDE DEF mine
    <3> QED BY <1>1, <3>1 DEF Tx
  <2> QED BY <2>1, <2>2
<1>11. CASE JoinChannels(p) BY <1>1, <1>11 DEF JoinChannels, Tx
<1>12. CASE LeaveChannels(p) BY <1>1, <1>12 DEF LeaveChannels, Tx
<1> QED
  BY <1>2, <1>3, <1>4, <1>5, <1>6, <1>7, <1>8, <1>9, <1>9a, <1>9b, <1>10, <1>11, <1>12 DEF Step

LEMMA StepEffect ==
  ASSUME IInv, NEW p \in Requests, Step(p)
  PROVE  \/ tx'[p].stage = "aborted"
         \/ Starts(p)
         \/ UNCHANGED Asked(p) /\ (Locks(p) \/ Writes(p))
<1>1. tx[p] \in Tx /\ tx \in [Requests -> Tx] BY DEF IInv, TypeOK
<1>2. CASE CheckAdd(p)
  BY <1>1, <1>2 DEF CheckAdd, Start, Starts, Idle, UnderWay
<1>3. CASE BeginAdd(p)
  <2>1. tx[p].kind = "add" BY <1>3 DEF BeginAdd, IInv, CheckedSound
  <2> QED BY <1>1, <1>3, <2>1 DEF BeginAdd, Tx, Asked, Locks, Changes
<1>4. CASE BeginRemove(p)
  BY <1>1, <1>4 DEF BeginRemove, Start, Starts, Idle
<1>5. CASE BeginTransfer(p)
  BY <1>1, <1>5 DEF BeginTransfer, Start, Starts, Idle
<1>6. CASE LockWaits(p)
  BY <1>1, <1>6 DEF LockWaits, Wait, Tx, Asked, Locks, Changes, Mine
<1>7. CASE LockDirect(p)
  <2> DEFINE seen == IF tx[p].stage = "lock" THEN Direct(RowsOf(tx[p].user)) ELSE tx[p].seen
             found == seen \cap rows
             source == {r.team : r \in found}
  <2>1. CASE Abort(p) BY <1>1, <2>1 DEF Abort, Idle
  <2>2. CASE /\ source # {} /\ source # {tx[p].team}
             /\ tx' = [tx EXCEPT ![p].locked = found,
                          ![p].stage = IF SuffixTaken(p) THEN "aborted" ELSE "clear"]
    <3>1. \E d \in found : d.team # tx[p].team BY <2>2
    <3>2. found \subseteq rows
          /\ found \subseteq IF tx[p].stage = "lock" THEN Direct(Mine(p)) ELSE tx[p].seen
      BY DEF Mine
    <3>3. tx[p].stage \in {"lock", "lock waiting"} BY <1>7 DEF LockDirect
    <3> HIDE DEF found
    <3> QED BY <1>1, <2>2, <3>1, <3>2, <3>3 DEF Tx, Asked, Locks, Changes
  <2> QED BY <1>7, <2>1, <2>2 DEF LockDirect
<1>8. CASE DeleteStarts(p)
  BY <1>1, <1>8 DEF DeleteStarts, Tx, Asked, Locks, Changes, Mine
<1>9. CASE DeleteRow(p)
  <2>1. PICK r \in tx[p].seen :
          tx' = [tx EXCEPT ![p].locked = @ \cup ({r} \cap rows), ![p].seen = @ \ {r}]
    BY <1>9 DEF DeleteRow
  <2>2. /\ tx[p].stage = "deleting" /\ tx'[p].stage = "deleting"
        /\ tx'[p].locked = tx[p].locked \cup ({r} \cap rows) /\ tx'[p].seen = tx[p].seen \ {r}
        /\ UNCHANGED Asked(p) /\ UNCHANGED Changes(p)
    BY <1>1, <1>9, <2>1 DEF DeleteRow, Tx, Asked, Changes
  <2>3. /\ tx[p].locked \subseteq tx'[p].locked
        /\ (tx[p].locked \cup tx[p].seen) \cap rows \subseteq tx'[p].locked \cup tx'[p].seen
    BY <2>2
  <2> QED BY <2>2, <2>3 DEF Locks
<1>9a. CASE DeleteEnds(p)
  BY <1>1, <1>9a DEF DeleteEnds, Tx, Asked, Locks, Changes
<1>9b. CASE Deadlock(p) BY <1>1, <1>9b DEF Deadlock, Abort, Idle
<1>10. CASE InsertRows(p)
  <2>1. CASE Abort(p) BY <1>1, <2>1 DEF Abort, Idle
  <2>2. CASE tx' = [tx EXCEPT ![p].stage = "join",
                             ![p].inserted = ChainRows(tx[p].user, tx[p].team, p)]
    <3>1. tx[p].stage = "insert" BY <1>10 DEF InsertRows
    <3> QED BY <1>1, <2>2, <3>1 DEF Tx, Asked, Locks, Changes
  <2> QED BY <1>10, <2>1, <2>2 DEF InsertRows
<1>11. CASE JoinChannels(p)
  BY <1>1, <1>11 DEF JoinChannels, Tx, Asked, Writes
<1>12. CASE LeaveChannels(p)
  <2> DEFINE cut == Leaving(p)
             left == IF tx[p].kind = "remove" THEN tx[p].captured ELSE {c[2] : c \in cut}
             ops == tx[p].ops \cup Published(p, "remove", left)
             now == [tx[p] EXCEPT !.stage = "commit", !.cut = cut, !.ops = ops]
  <2>1. tx'[p] = now /\ tx[p].stage = "leave" BY <1>1, <1>12 DEF LeaveChannels
  <2>2. cut = {c \in channels : /\ c[1] = tx[p].user
                                /\ tx[p].kind = "remove" \/ c[2] \notin Chain(tx[p].team)}
    BY DEF Leaving
  <2>3. left = IF tx[p].kind = "remove" THEN tx[p].captured ELSE {c[2] : c \in cut} OBVIOUS
  <2> HIDE DEF cut, left
  <2>4. /\ tx'[p].stage = "commit" /\ tx'[p].cut = cut
        /\ tx'[p].ops = tx[p].ops \cup Published(p, "remove", left)
        /\ tx'[p].joined = tx[p].joined /\ tx'[p].locked = tx[p].locked
        /\ UNCHANGED Asked(p)
    BY <1>1, <2>1 DEF Tx, Asked
  <2> QED BY <2>1, <2>2, <2>3, <2>4 DEF Writes
<1> QED
  BY <1>2, <1>3, <1>4, <1>5, <1>6, <1>7, <1>8, <1>9, <1>9a, <1>9b, <1>10, <1>11, <1>12 DEF Step

-----------------------------------------------------------------------------
(* Requests happen at once.                                                *)

\* Requests under way together are transfers.
Alone == \A p, q \in UnderWay : p # q => tx[p].kind = "transfer"

\* An addition's user has no row; a removal takes every row of its user; a
\* transfer holds the lock on its user's direct row, in another team.
HomeSound(p) ==
  p \in UnderWay =>
    /\ tx[p].kind = "add" => Mine(p) = {}
    /\ tx[p].kind = "remove" =>
         /\ tx[p].stage = "deleting" => Mine(p) \subseteq tx[p].locked \cup tx[p].seen
         /\ Deleted(p) => Mine(p) \subseteq tx[p].locked
    /\ tx[p].kind = "transfer" =>
         /\ tx[p].stage = "lock waiting" => \A r \in tx[p].seen : r.from = None
         /\ tx[p].stage \notin {"lock", "lock waiting"} =>
              \E d \in tx[p].locked \cap Direct(Mine(p)) : d.team # tx[p].team

HomeInv == Alone /\ \A p \in Requests : HomeSound(p)

\* A user without a direct row has no row.
LEMMA NoHome ==
  ASSUME IInv, NEW u \in Users, Direct(RowsOf(u)) = {}
  PROVE  RowsOf(u) = {}
<1>1. SUFFICES ASSUME RowsOf(u) # {} PROVE FALSE OBVIOUS
<1>2. PICK t \in Teams, q \in Requests \cup {Seed} : RowsOf(u) = ChainRows(u, t, q)
  BY <1>1 DEF IInv, RowsAreOneChain
<1> QED BY <1>2, ChainRowsSound

\* Steps before a commit keep it.
LEMMA HomeStep ==
  ASSUME IInv, HomeInv, Overlapping \subseteq {"transfer"}, NEW p \in Requests, Step(p)
  PROVE  HomeInv'
<1>1. rows' = rows /\ \A q \in Requests \ {p} : tx'[q] = tx[q] BY StepFrame
<1>2. ASSUME NEW q \in Requests \ {p} PROVE HomeSound(q)'
  <2>1. (q \in UnderWay' <=> q \in UnderWay) /\ Mine(q)' = Mine(q) /\ (Deleted(q)' <=> Deleted(q))
    BY <1>1 DEF UnderWay, Mine, RowsOf, Deleted
  <2> QED BY <1>1, <2>1 DEF HomeInv, HomeSound, Direct
<1>3. ASSUME \/ tx'[p].stage = "aborted"
             \/ tx'[p].kind = tx[p].kind /\ p \in UnderWay
             \/ \A q \in UnderWay : {tx'[p].kind, tx[q].kind} \subseteq Overlapping
      PROVE  Alone'
  <2>1. SUFFICES ASSUME NEW q \in UnderWay', NEW s \in UnderWay', q # s
                 PROVE  tx'[q].kind = "transfer"
    BY DEF Alone
  <2>2. \A r \in Requests \ {p} : r \in UnderWay' <=> r \in UnderWay BY <1>1 DEF UnderWay
  <2>3. tx'[p].stage = "aborted" => p \notin UnderWay' BY DEF UnderWay
  <2>4. UnderWay' \subseteq Requests /\ UnderWay \subseteq Requests BY DEF UnderWay
  <2>5. CASE q # p /\ s # p BY <1>1, <2>1, <2>2, <2>4, <2>5 DEF HomeInv, Alone
  <2>6. CASE q = p /\ s # p BY <1>3, <2>1, <2>2, <2>3, <2>4, <2>6 DEF HomeInv, Alone
  <2>7. CASE q # p /\ s = p
    <3>1. q \in UnderWay /\ tx'[q] = tx[q] BY <1>1, <2>1, <2>2, <2>4, <2>7
    <3>2. tx'[p].stage # "aborted" BY <2>1, <2>3, <2>7
    <3>3. p \in UnderWay => tx[q].kind = "transfer" BY <2>7, <3>1 DEF HomeInv, Alone
    <3> QED BY <1>3, <3>1, <3>2, <3>3
  <2> QED BY <2>1, <2>5, <2>6, <2>7
<1>4. CASE tx'[p].stage = "aborted"
  <2>1. HomeSound(p)' BY <1>4 DEF HomeSound, UnderWay
  <2>2. Alone' BY <1>3, <1>4
  <2> QED BY <1>2, <2>1, <2>2 DEF HomeInv
<1>5. CASE Starts(p)
  <2>1. RowsOf(tx'[p].user) = Mine(p)' BY <1>1 DEF Mine, RowsOf
  <2>2. tx'[p].kind = "add" => Mine(p)' = {}
    <3>1. SUFFICES ASSUME tx'[p].kind = "add" PROVE Mine(p)' = {} OBVIOUS
    <3>2. PICK u \in Users : u = tx'[p].user BY <1>5 DEF Starts
    <3>3. Direct(RowsOf(u)) = {} BY <1>5, <3>1, <3>2 DEF Starts
    <3> QED BY <2>1, <3>2, <3>3, NoHome
  <2>3. HomeSound(p)' BY <1>5, <2>2 DEF Starts, HomeSound, Deleted
  <2> QED BY <1>2, <1>3, <1>5, <2>3 DEF HomeInv, Starts
<1>6. CASE UNCHANGED Asked(p) /\ (Locks(p) \/ Writes(p))
  <2>1. p \in UnderWay BY <1>6 DEF UnderWay, Locks, Writes
  <2>2. Mine(p)' = Mine(p) /\ tx'[p].kind = tx[p].kind /\ tx'[p].team = tx[p].team
    BY <1>1, <1>6 DEF Mine, RowsOf, Asked
  <2>3. HomeSound(p) BY DEF HomeInv
  <2>4. Mine(p) = {r \in rows : r.user = tx[p].user} BY DEF Mine, RowsOf
  <2>5. HomeSound(p)'
    <3>1. CASE tx[p].kind = "add" BY <2>1, <2>2, <2>3, <3>1 DEF HomeSound
    <3>2. CASE tx[p].kind = "remove"
      <4>1. /\ tx[p].stage = "deleting" => Mine(p) \subseteq tx[p].locked \cup tx[p].seen
            /\ Deleted(p) => Mine(p) \subseteq tx[p].locked
        BY <2>1, <2>3, <3>2 DEF HomeSound
      <4>2. tx'[p].stage = "deleting" => Mine(p) \subseteq tx'[p].locked \cup tx'[p].seen
        BY <1>6, <2>4, <4>1 DEF Locks, Writes
      <4>3. Deleted(p)' => Mine(p) \subseteq tx'[p].locked
        BY <1>6, <4>1 DEF Locks, Writes, Deleted
      <4> QED BY <2>2, <3>2, <4>2, <4>3 DEF HomeSound
    <3>3. CASE tx[p].kind = "transfer"
      <4>1. tx'[p].stage = "lock waiting" => \A r \in tx'[p].seen : r.from = None
        BY <1>6 DEF Locks, Writes, Direct
      <4>2. CASE tx[p].stage \in {"lock", "lock waiting"} /\ tx'[p].stage = "clear"
        <5>1. tx[p].stage = "lock waiting" => \A r \in tx[p].seen : r.from = None
          BY <2>1, <2>3, <3>3 DEF HomeSound
        <5>2. /\ tx'[p].locked \subseteq rows
              /\ tx'[p].locked \subseteq IF tx[p].stage = "lock" THEN Direct(Mine(p)) ELSE tx[p].seen
              /\ \E d \in tx'[p].locked : d.team # tx[p].team
          BY <1>6, <4>2 DEF Locks, Writes
        <5>3. \A r \in tx[p].seen : r.user = tx[p].user
          <6>1. Open(p) BY <4>2 DEF Open
          <6> QED BY <6>1 DEF IInv, OpenSound
        <5>4. tx'[p].locked \subseteq Direct(Mine(p)) BY <2>4, <4>2, <5>1, <5>2, <5>3 DEF Direct
        <5> QED BY <2>2, <3>3, <4>1, <4>2, <5>2, <5>4 DEF HomeSound, Direct
      <4>3. CASE tx[p].stage = "lock" /\ tx'[p].stage = "lock waiting"
        BY <2>2, <3>3, <4>1, <4>3 DEF HomeSound
      <4>4. CASE tx[p].stage \notin {"lock", "lock waiting"}
        <5>1. \E d \in tx[p].locked \cap Direct(Mine(p)) : d.team # tx[p].team
          BY <2>1, <2>3, <3>3, <4>4 DEF HomeSound
        <5>2. tx[p].locked \subseteq tx'[p].locked
          BY <1>6, <3>3, <4>4 DEF Locks, Writes
        <5> QED BY <2>2, <3>3, <4>1, <5>1, <5>2 DEF HomeSound, Direct
      <4> QED BY <1>6, <4>2, <4>3, <4>4 DEF Locks, Writes
    <3>4. tx[p].kind \in {"add", "remove", "transfer"} BY DEF IInv, TypeOK, Tx
    <3> QED BY <3>1, <3>2, <3>3, <3>4
  <2>6. Alone' BY <1>3, <2>1, <2>2
  <2> QED BY <1>2, <2>5, <2>6 DEF HomeInv
<1> QED BY <1>4, <1>5, <1>6, StepEffect

LEMMA HomeCommit ==
  ASSUME IInv, HomeInv, NEW p \in Requests, Commit(p)
  PROVE  HomeInv'
<1>1. /\ rows' = (rows \ tx[p].locked) \cup tx[p].inserted
      /\ tx'[p].stage = "committed" /\ \A q \in Requests \ {p} : tx'[q] = tx[q]
      /\ Open(p) /\ p \in UnderWay
  BY DEF Commit, IInv, TypeOK, Idle, Open, UnderWay
<1>2. p \notin UnderWay' /\ \A q \in Requests \ {p} : q \in UnderWay' <=> q \in UnderWay
  BY <1>1 DEF UnderWay
<1>3. UnderWay' \subseteq UnderWay \ {p} BY <1>2 DEF UnderWay
<1>4. Alone'
  <2>1. \A q \in UnderWay' : tx'[q] = tx[q] BY <1>1, <1>3 DEF UnderWay
  <2> QED BY <1>3, <2>1 DEF HomeInv, Alone
<1>5. HomeSound(p)' BY <1>2 DEF HomeSound
<1>6. ASSUME NEW q \in Requests \ {p} PROVE HomeSound(q)'
  <2>1. SUFFICES ASSUME q \in UnderWay PROVE HomeSound(q)' BY <1>2 DEF HomeSound
  <2>2. tx[q].kind = "transfer" BY <1>1, <2>1 DEF HomeInv, Alone
  <2>3. tx[q].stage # "checked" BY <2>2 DEF IInv, CheckedSound
  <2>4. Open(q) BY <2>1, <2>3 DEF Open, UnderWay
  <2>5. tx[p].locked \cap tx[q].locked = {} BY <1>1, <2>4 DEF IInv, Apart
  <2>6. /\ tx[q].stage = "lock waiting" => \A r \in tx[q].seen : r.from = None
        /\ tx[q].stage \notin {"lock", "lock waiting"} =>
             \E d \in tx[q].locked \cap Direct(Mine(q)) : d.team # tx[q].team
    BY <2>1, <2>2 DEF HomeInv, HomeSound
  <2>7. ASSUME NEW d \in tx[q].locked \cap Direct(Mine(q)) PROVE d \in Direct(Mine(q))'
    BY <1>1, <2>5, <2>7 DEF Direct, Mine, RowsOf
  <2>8. tx'[q] = tx[q] BY <1>1
  <2> QED BY <2>2, <2>6, <2>7, <2>8 DEF HomeSound
<1> QED BY <1>4, <1>5, <1>6 DEF HomeInv

LEMMA HomeNext ==
  ASSUME Overlapping \subseteq {"transfer"}
  PROVE  IInv /\ HomeInv /\ [Next]_vars => HomeInv'
<1> SUFFICES ASSUME IInv, HomeInv, [Next]_vars PROVE HomeInv' OBVIOUS
<1>1. ASSUME UNCHANGED <<rows, tx>> PROVE HomeInv'
  BY <1>1 DEF HomeInv, Alone, HomeSound, UnderWay, Mine, RowsOf, Direct, Deleted
<1>2. CASE UNCHANGED vars BY <1>1, <1>2 DEF vars
<1>3. CASE \E o \in queue : Run(o) BY <1>1, <1>3 DEF Run
<1>4. CASE \E p \in Requests : Step(p) BY <1>4, HomeStep
<1>5. CASE \E p \in Requests : Commit(p) BY <1>5, HomeCommit
<1> QED BY <1>2, <1>3, <1>4, <1>5 DEF Next, Statement, Step

LEMMA HomeInit == Init => HomeInv
BY DEF Init, HomeInv, Alone, HomeSound, UnderWay, Idle

\* The refinement mapping: a user's team, and what a request has done.
HomeOf(u) ==
  IF Direct(RowsOf(u)) = {} THEN None ELSE (CHOOSE r \in Direct(RowsOf(u)) : TRUE).team
home == [u \in Users |-> HomeOf(u)]
done == [p \in Requests |-> IF tx[p].stage = "committed" THEN tx[p].kind ELSE None]

\* The team of a user's rows is the team of the chain they are.
LEMMA HomeOfChain ==
  ASSUME NEW u \in Users, NEW t \in Teams, NEW p \in Requests \cup {Seed},
         RowsOf(u) = ChainRows(u, t, p)
  PROVE  HomeOf(u) = t
<1>1. Direct(RowsOf(u)) = {HomeRow(u, t, p)} BY ChainRowsSound
<1>2. (CHOOSE r \in Direct(RowsOf(u)) : TRUE) = HomeRow(u, t, p) BY <1>1
<1> QED BY <1>1, <1>2 DEF HomeOf, HomeRow

LEMMA HomeOfChainNext ==
  ASSUME NEW u \in Users, NEW t \in Teams, NEW p \in Requests \cup {Seed},
         RowsOf(u)' = ChainRows(u, t, p)
  PROVE  HomeOf(u)' = t
<1>1. Direct(RowsOf(u))' = {HomeRow(u, t, p)} BY ChainRowsSound DEF Direct
<1>2. (CHOOSE r \in Direct(RowsOf(u))' : TRUE) = HomeRow(u, t, p) BY <1>1
<1> QED BY <1>1, <1>2 DEF HomeOf, HomeRow

\* A commit is one step of TeamHomes.
LEMMA CommitMoves ==
  ASSUME IInv, HomeInv, NEW p \in Requests, Commit(p)
  PROVE  \E u \in Users :
           /\ home' = [home EXCEPT ![u] = HomeOf(u)']
           /\ done[p] = None /\ done' = [done EXCEPT ![p] = tx[p].kind]
           /\ \/ tx[p].kind = "remove" /\ HomeOf(u)' = None
              \/ tx[p].kind = "add" /\ HomeOf(u)' \in Teams /\ HomeOf(u) = None
              \/ /\ tx[p].kind = "transfer" /\ HomeOf(u)' \in Teams
                 /\ HomeOf(u) \notin {None, HomeOf(u)'}
<1>1. /\ tx[p].stage = "commit" /\ tx'[p].stage = "committed" /\ tx'[p].kind = tx[p].kind
      /\ \A q \in Requests \ {p} : tx'[q] = tx[q]
      /\ Open(p) /\ p \in UnderWay /\ Deleted(p)
  BY DEF Commit, IInv, TypeOK, Idle, Open, UnderWay, Deleted
<1>2. done[p] = None /\ done' = [done EXCEPT ![p] = tx[p].kind]
  BY <1>1 DEF done
<1>3. PICK u \in Users : u = tx[p].user BY <1>1 DEF IInv, OpenSound
<1>4. \A v \in Users \ {u} : RowsOf(v)' = RowsOf(v) BY <1>3, CommittedRows
<1>5. ASSUME NEW v \in Users \ {u} PROVE HomeOf(v)' = HomeOf(v)
  <2>1. Direct(RowsOf(v))' = Direct(RowsOf(v)) BY <1>4 DEF Direct
  <2> QED BY <2>1 DEF HomeOf
<1>6. home' = [home EXCEPT ![u] = HomeOf(u)'] BY <1>5 DEF home
<1>7. tx[p].kind \in {"add", "remove", "transfer"} BY DEF IInv, TypeOK, Tx
<1>8. Mine(p) = RowsOf(u) BY <1>3 DEF Mine
<1>9. CASE tx[p].kind = "remove"
  <2>1. ~ Inserted(p) BY <1>1, <1>9 DEF Inserted
  <2>2. RowsOf(u) \subseteq tx[p].locked BY <1>1, <1>8, <1>9 DEF HomeInv, HomeSound
  <2>3. RowsOf(u)' = {}
    <3>1. RowsOf(u) \subseteq rows BY DEF RowsOf
    <3>2. tx[p].locked \cap rows = {} => RowsOf(u) = {} BY <2>2, <3>1
    <3> QED BY <1>3, <2>1, <3>2, CommittedRows
  <2>4. HomeOf(u)' = None BY <2>3 DEF HomeOf, Direct
  <2> QED BY <1>2, <1>6, <1>9, <2>4
<1>10. CASE tx[p].kind # "remove"
  <2>1. Inserted(p) BY <1>1, <1>10 DEF Inserted
  <2>2. PICK t \in Teams : t = tx[p].team BY <1>1, <1>10 DEF IInv, OpenSound
  <2>3. RowsOf(u)' = ChainRows(u, t, p) BY <1>3, <2>1, <2>2, CommittedRows
  <2>4. HomeOf(u)' = t BY <2>3, HomeOfChainNext
  <2>5. CASE tx[p].kind = "add"
    <3>1. RowsOf(u) = {} BY <1>1, <1>8, <2>5 DEF HomeInv, HomeSound
    <3>2. HomeOf(u) = None BY <3>1 DEF HomeOf, Direct
    <3> QED BY <1>2, <1>6, <2>4, <2>5, <3>2
  <2>6. CASE tx[p].kind = "transfer"
    <3>1. PICK d \in Direct(RowsOf(u)) : d.team # t
      BY <1>1, <1>8, <2>2, <2>6 DEF HomeInv, HomeSound
    <3>2. PICK s \in Teams, q \in Requests \cup {Seed} : RowsOf(u) = ChainRows(u, s, q)
      BY <3>1 DEF IInv, RowsAreOneChain, Direct
    <3>3. d = HomeRow(u, s, q) BY <3>1, <3>2, ChainRowsSound
    <3>4. HomeOf(u) = s /\ s # t BY <3>1, <3>2, <3>3, HomeOfChain DEF HomeRow
    <3>5. s # None BY TeamMembershipAssumption
    <3> QED BY <1>2, <1>6, <2>4, <2>6, <3>4, <3>5
  <2> QED BY <1>7, <1>10, <2>5, <2>6
<1> QED BY <1>9, <1>10

LEMMA HomesInit == Init => Homes!Init
<1> SUFFICES ASSUME Init PROVE Homes!Init OBVIOUS
<1>1. IInv BY InitInvariant
<1>2. ASSUME NEW u \in Users PROVE HomeOf(u) \in Teams \cup {None}
  <2>1. CASE RowsOf(u) = {} BY <2>1 DEF HomeOf, Direct
  <2>2. CASE RowsOf(u) # {}
    <3>1. PICK t \in Teams, q \in Requests \cup {Seed} : RowsOf(u) = ChainRows(u, t, q)
      BY <1>1, <2>2 DEF IInv, RowsAreOneChain
    <3> QED BY <3>1, HomeOfChain
  <2> QED BY <2>1, <2>2
<1>3. home \in [Users -> Teams \cup {None}] BY <1>2 DEF home
<1>4. done = [p \in Requests |-> None] BY DEF Init, done, Idle
<1> QED BY <1>3, <1>4 DEF Homes!Init, home, HomeOf, done

LEMMA HomesStep ==
  ASSUME Overlapping \subseteq {"transfer"}
  PROVE  IInv /\ HomeInv /\ [Next]_vars => [Homes!Next]_<<home, done>>
<1> SUFFICES ASSUME IInv, HomeInv, [Next]_vars
             PROVE  Homes!Next \/ UNCHANGED <<home, done>>
  OBVIOUS
<1>1. ASSUME rows' = rows, \A p \in Requests : \/ tx'[p] = tx[p]
                                               \/ tx[p].stage # "committed" /\ tx'[p].stage # "committed"
      PROVE  UNCHANGED <<home, done>>
  BY <1>1 DEF home, HomeOf, RowsOf, Direct, done
<1>2. CASE UNCHANGED vars BY <1>1, <1>2 DEF vars
<1>3. CASE \E o \in queue : Run(o) BY <1>1, <1>3 DEF Run
<1>4. CASE \E p \in Requests : Step(p) BY <1>1, <1>4, StepFrame
<1>5. ASSUME NEW p \in Requests, Commit(p) PROVE Homes!Next
  <2>1. PICK u \in Users :
           /\ home' = [home EXCEPT ![u] = HomeOf(u)']
           /\ done[p] = None /\ done' = [done EXCEPT ![p] = tx[p].kind]
           /\ \/ tx[p].kind = "remove" /\ HomeOf(u)' = None
              \/ tx[p].kind = "add" /\ HomeOf(u)' \in Teams /\ HomeOf(u) = None
              \/ /\ tx[p].kind = "transfer" /\ HomeOf(u)' \in Teams
                 /\ HomeOf(u) \notin {None, HomeOf(u)'}
    BY <1>5, CommitMoves
  <2>2. home[u] = HomeOf(u) BY DEF home
  <2>3. ASSUME NEW kind \in {"add", "remove", "transfer"}, NEW t, kind = tx[p].kind, t = HomeOf(u)'
        PROVE  Homes!Succeed(p, kind, u, t)
    BY <2>1, <2>3 DEF Homes!Succeed, home, HomeOf, done
  <2>4. CASE tx[p].kind = "remove" /\ HomeOf(u)' = None
    <3>1. Homes!Remove(p, u) BY <2>3, <2>4 DEF Homes!Remove
    <3> QED BY <3>1 DEF Homes!Next
  <2>5. CASE tx[p].kind = "add" /\ HomeOf(u)' \in Teams /\ HomeOf(u) = None
    <3>1. PICK t \in Teams : t = HomeOf(u)' BY <2>5
    <3>2. Homes!Add(p, u, t) BY <2>2, <2>3, <2>5, <3>1 DEF Homes!Add, home, HomeOf
    <3> QED BY <3>2 DEF Homes!Next
  <2>6. CASE tx[p].kind = "transfer" /\ HomeOf(u)' \in Teams /\ HomeOf(u) \notin {None, HomeOf(u)'}
    <3>1. PICK t \in Teams : t = HomeOf(u)' BY <2>6
    <3>2. Homes!Transfer(p, u, t) BY <2>2, <2>3, <2>6, <3>1 DEF Homes!Transfer, home, HomeOf
    <3> QED BY <3>2 DEF Homes!Next
  <2> QED BY <2>1, <2>4, <2>5, <2>6
<1> QED BY <1>2, <1>3, <1>4, <1>5 DEF Next, Statement, Step

\* Where only transfers overlap, TeamMembership implements TeamHomes: however
\* the statements of the transactions interleave, every request that succeeds
\* moves its user in one step, an addition from no team, a transfer from
\* another team (TeamMembershipService.js:37-181, 204-361,
\* TeamTransferService.js:215-489).
THEOREM RequestsAreAtomic ==
  ASSUME Overlapping \subseteq {"transfer"}
  PROVE  Spec => Atomic
<1>1. Init => Homes!Init BY HomesInit
<1>2. Init => HomeInv BY HomeInit
<1>3. IInv /\ HomeInv /\ [Next]_vars => HomeInv' BY HomeNext
<1>4. IInv /\ HomeInv /\ [Next]_vars => [Homes!Next]_<<home, done>> BY HomesStep
<1> QED
  BY <1>1, <1>2, <1>3, <1>4, Invariance, PTL
  DEF Spec, Atomic, Homes!Spec, home, HomeOf, done

-----------------------------------------------------------------------------
(* Channels and groups follow teams.                                       *)

Recompute(t) == [kind |-> "reconcile", user |-> None, team |-> t, created |-> 0]

\* p has inserted, deleted its channel rows.
Joined(p) == tx[p].stage \in {"leave", "commit"} /\ tx[p].kind # "remove"
Left(p) == tx[p].stage = "commit" /\ tx[p].kind # "add"

\* The channel rows p gives up.
Leaves(p, c) == c[1] = tx[p].user /\ (tx[p].kind = "remove" \/ c[2] \notin Chain(tx[p].team))

\* The channel rows a request deletes and inserts are still the right ones,
\* and it publishes a recomputation for each team among them.
AccessSound(p) ==
  p \in UnderWay =>
    /\ tx[p].stage = "leave" => tx[p].kind # "add"
    /\ tx[p].joined = IF Joined(p) THEN {tx[p].user} \X Chain(tx[p].team) ELSE {}
    /\ tx[p].cut = IF Left(p) THEN {c \in channels : Leaves(p, c)} ELSE {}
    /\ tx[p].kind = "remove" => tx[p].captured = {r.team : r \in Mine(p)}
    /\ tx[p].ops \subseteq {Recompute(t) : t \in Teams}
    /\ Joined(p) => \A t \in Chain(tx[p].team) : Recompute(t) \in tx[p].ops
    /\ Left(p) => \A c \in tx[p].cut : Recompute(c[2]) \in tx[p].ops

\* The channel rows are those of the users' teams; a group that differs from its
\* team is about to be recomputed.
AccessInv ==
  /\ \A u \in Users, t \in Teams : <<u, t>> \in channels <=> InTeam(u, t)
  /\ queue \subseteq {Recompute(t) : t \in Teams}
  /\ \A t \in Teams : Recompute(t) \in queue \/ \A u \in Users : u \in group[t] <=> InTeam(u, t)
  /\ \A p \in Requests : AccessSound(p)

LEMMA AccessInit == Init => AccessInv
<1> SUFFICES ASSUME Init PROVE AccessInv OBVIOUS
<1>1. /\ channels = {<<r.user, r.team>> : r \in rows}
      /\ group = [t \in Teams |-> {u \in Users : \E r \in rows : r.user = u /\ r.team = t}]
      /\ tx = [p \in Requests |-> Idle] /\ queue = {}
  BY DEF Init
<1>2. \A u \in Users, t \in Teams : <<u, t>> \in channels <=> InTeam(u, t)
  BY <1>1 DEF InTeam
<1>3. \A t \in Teams, u \in Users : u \in group[t] <=> InTeam(u, t) BY <1>1 DEF InTeam
<1>4. \A p \in Requests : AccessSound(p) BY <1>1 DEF AccessSound, UnderWay, Idle
<1> QED BY <1>1, <1>2, <1>3, <1>4 DEF AccessInv

\* With BULK_GROUP_RECONCILE_ENABLED only recomputations are published.
LEMMA PublishedRecomputes ==
  ASSUME Reconciling, NEW p, NEW kind, NEW S
  PROVE  Published(p, kind, S) = {Recompute(t) : t \in S}
BY DEF Published, Recompute

LEMMA AccessStep ==
  ASSUME Reconciling, IInv, HomeInv, AccessInv, NEW p \in Requests, Step(p)
  PROVE  AccessInv'
<1>1. UNCHANGED <<rows, channels, queue, group>> /\ \A q \in Requests \ {p} : tx'[q] = tx[q]
  BY StepFrame
<1>2. \A u \in Users, t \in Teams : InTeam(u, t)' <=> InTeam(u, t) BY <1>1 DEF InTeam
<1>3. ASSUME NEW q \in Requests \ {p} PROVE AccessSound(q)'
  <2>1. (q \in UnderWay' <=> q \in UnderWay) /\ Mine(q)' = Mine(q)
        /\ (Joined(q)' <=> Joined(q)) /\ (Left(q)' <=> Left(q))
        /\ \A c \in channels : Leaves(q, c)' <=> Leaves(q, c)
    BY <1>1 DEF UnderWay, Mine, RowsOf, Joined, Left, Leaves
  <2>2. {c \in channels : Leaves(q, c)}' = {c \in channels : Leaves(q, c)} BY <1>1, <2>1
  <2>3. AccessSound(q) BY DEF AccessInv
  <2> QED BY <1>1, <2>1, <2>2, <2>3 DEF AccessSound
<1>4. AccessSound(p)'
  <2>1. CASE tx'[p].stage = "aborted" BY <2>1 DEF AccessSound, UnderWay
  <2>2. CASE Starts(p)
    <3>1. ~ Joined(p)' /\ ~ Left(p)' /\ tx'[p].stage # "leave" BY <2>2 DEF Starts, Joined, Left
    <3>2. tx'[p].kind = "remove" => tx'[p].captured = {r.team : r \in Mine(p)'}
      BY <1>1, <2>2 DEF Starts, Mine, RowsOf
    <3> QED BY <2>2, <3>1, <3>2 DEF Starts, AccessSound
  <2>3. ASSUME UNCHANGED Asked(p), Locks(p) \/ Writes(p) PROVE AccessSound(p)'
    <3>1. p \in UnderWay BY <2>3 DEF UnderWay, Locks, Writes
    <3>2. /\ tx'[p].kind = tx[p].kind /\ tx'[p].user = tx[p].user
          /\ tx'[p].team = tx[p].team /\ tx'[p].captured = tx[p].captured
      BY <2>3 DEF Asked
    <3>3. Mine(p)' = Mine(p) BY <1>1, <3>2 DEF Mine, RowsOf
    <3>4. AccessSound(p) BY DEF AccessInv
    <3>5. tx[p].kind = "remove" => tx'[p].captured = {r.team : r \in Mine(p)'}
      BY <3>1, <3>2, <3>3, <3>4 DEF AccessSound
    <3>6. tx[p].kind \in {"add", "remove", "transfer"} BY DEF IInv, TypeOK, Tx
    <3>7. CASE Locks(p)
      <4>1. ~ Joined(p) /\ ~ Left(p) /\ ~ Joined(p)' /\ ~ Left(p)'
        BY <3>2, <3>7 DEF Locks, Joined, Left
      <4>2. tx'[p].stage = "leave" => tx[p].kind # "add" BY <3>7 DEF Locks
      <4>3. tx[p].cut = {} /\ tx[p].joined = {} /\ tx[p].ops \subseteq {Recompute(t) : t \in Teams}
        BY <3>1, <3>4, <4>1 DEF AccessSound
      <4>4. tx'[p].cut = {} /\ tx'[p].joined = {} /\ tx'[p].ops = tx[p].ops
        BY <3>7, <4>3 DEF Locks, Changes
      <4> QED BY <3>2, <3>5, <4>1, <4>2, <4>3, <4>4 DEF AccessSound
    <3>8. CASE Writes(p) /\ tx[p].stage = "join"
      <4>1. tx[p].kind # "remove"
        <5>1. Open(p) BY <3>8 DEF Open
        <5> QED BY <3>8, <5>1 DEF IInv, OpenSound
      <4>2. tx[p].team \in Teams /\ Chain(tx[p].team) \subseteq Teams
        <5>1. Open(p) BY <3>8 DEF Open
        <5>2. tx[p].team \in Teams BY <4>1, <5>1 DEF IInv, OpenSound
        <5> QED BY <5>2, ChainSound
      <4>3. Joined(p)' /\ ~ Left(p)' /\ ~ Left(p) /\ (tx'[p].stage = "leave" => tx[p].kind # "add")
        BY <3>2, <3>6, <3>8, <4>1 DEF Writes, Joined, Left
      <4>4. tx'[p].ops = {Recompute(t) : t \in Chain(tx[p].team)}
        BY <3>8, PublishedRecomputes DEF Writes
      <4>5. tx'[p].cut = {} BY <3>1, <3>4, <3>8, <4>3 DEF AccessSound, Writes
      <4>6. tx'[p].joined = {tx[p].user} \X Chain(tx[p].team) BY <3>8 DEF Writes
      <4> QED BY <3>2, <3>5, <4>1, <4>2, <4>3, <4>4, <4>5, <4>6 DEF AccessSound
    <3>9. CASE Writes(p) /\ tx[p].stage = "leave"
      <4>1. Joined(p)' <=> Joined(p) BY <3>2, <3>9 DEF Writes, Joined
      <4>2. tx[p].kind # "add" /\ Left(p)' /\ tx'[p].stage = "commit"
        BY <3>1, <3>2, <3>4, <3>9 DEF AccessSound, Writes, Left
      <4>3. tx'[p].cut = {c \in channels : Leaves(p, c)} BY <3>9 DEF Writes, Leaves
      <4>4. tx'[p].cut = {c \in channels : Leaves(p, c)}'
        <5>1. \A c \in channels : Leaves(p, c)' <=> Leaves(p, c) BY <3>2 DEF Leaves
        <5> QED BY <1>1, <4>3, <5>1
      <4>5. tx'[p].joined = IF Joined(p)' THEN {tx'[p].user} \X Chain(tx'[p].team) ELSE {}
        BY <3>1, <3>2, <3>4, <3>9, <4>1 DEF AccessSound, Writes
      <4> DEFINE left == IF tx[p].kind = "remove" THEN tx[p].captured
                         ELSE {c[2] : c \in tx'[p].cut}
      <4>6. tx'[p].ops = tx[p].ops \cup {Recompute(t) : t \in left}
        <5>1. tx'[p].ops = tx[p].ops \cup Published(p, "remove", left) BY <3>9 DEF Writes
        <5> HIDE DEF left
        <5> QED BY <5>1, PublishedRecomputes
      <4>7. left \subseteq Teams
        <5>1. tx[p].captured \subseteq Teams BY DEF IInv, TypeOK, Tx
        <5>2. tx'[p].cut \subseteq Users \X Teams BY <4>3 DEF IInv, TypeOK
        <5> QED BY <5>1, <5>2
      <4>8. \A c \in tx'[p].cut : c[2] \in left
        <5>1. SUFFICES ASSUME NEW c \in tx'[p].cut, tx[p].kind = "remove" PROVE c[2] \in left
          OBVIOUS
        <5>2. c \in channels /\ c \in Users \X Teams /\ c[1] = tx[p].user
          BY <4>3 DEF IInv, TypeOK, Leaves
        <5>3. InTeam(c[1], c[2]) BY <5>2 DEF AccessInv
        <5>4. tx[p].captured = {r.team : r \in Mine(p)} BY <3>1, <3>4, <5>1 DEF AccessSound
        <5> QED BY <5>1, <5>2, <5>3, <5>4 DEF InTeam, Mine, RowsOf
      <4>9. /\ tx[p].ops \subseteq {Recompute(t) : t \in Teams}
            /\ Joined(p) => \A t \in Chain(tx[p].team) : Recompute(t) \in tx[p].ops
        BY <3>1, <3>4 DEF AccessSound
      <4> HIDE DEF left
      <4>10. tx'[p].ops \subseteq {Recompute(t) : t \in Teams} BY <4>6, <4>7, <4>9
      <4>11. \A c \in tx'[p].cut : Recompute(c[2]) \in tx'[p].ops BY <4>6, <4>8
      <4>12. Joined(p)' => \A t \in Chain(tx'[p].team) : Recompute(t) \in tx'[p].ops
        BY <3>2, <4>1, <4>6, <4>9
      <4> QED BY <3>2, <3>5, <4>2, <4>4, <4>5, <4>10, <4>11, <4>12 DEF AccessSound
    <3> QED BY <2>3, <3>7, <3>8, <3>9 DEF Writes
  <2> QED BY <2>1, <2>2, <2>3, StepEffect
<1>5. \A q \in Requests : AccessSound(q)' BY <1>3, <1>4
<1> QED BY <1>1, <1>2, <1>5 DEF AccessInv

\* At its commit a request inserts and deletes channel rows of its user only,
\* all those by which the user's teams change, and publishes their teams.
LEMMA CommitAccess ==
  ASSUME IInv, HomeInv, AccessInv, NEW p \in Requests, Commit(p), NEW u \in Users, NEW t \in Teams
  PROVE  /\ <<u, t>> \in channels' <=> InTeam(u, t)'
         /\ Recompute(t) \in tx[p].ops \/ (InTeam(u, t)' <=> InTeam(u, t))
<1>1. /\ channels' = (channels \ tx[p].cut) \cup tx[p].joined
      /\ Open(p) /\ p \in UnderWay /\ Deleted(p) /\ tx[p].stage = "commit"
  BY DEF Commit, Open, UnderWay, Deleted
<1>2. /\ InTeam(u, t) <=> \E r \in RowsOf(u) : r.team = t
      /\ InTeam(u, t)' <=> \E r \in RowsOf(u)' : r.team = t
  BY DEF InTeam, RowsOf
<1>3. AccessSound(p) /\ HomeSound(p) /\ (<<u, t>> \in channels <=> InTeam(u, t))
  BY DEF AccessInv, HomeInv
<1>4. /\ tx[p].joined = IF Joined(p) THEN {tx[p].user} \X Chain(tx[p].team) ELSE {}
      /\ tx[p].cut = IF Left(p) THEN {c \in channels : Leaves(p, c)} ELSE {}
      /\ Joined(p) => \A a \in Chain(tx[p].team) : Recompute(a) \in tx[p].ops
      /\ Left(p) => \A c \in tx[p].cut : Recompute(c[2]) \in tx[p].ops
  BY <1>1, <1>3 DEF AccessSound
<1>5. tx[p].kind \in {"add", "remove", "transfer"} BY DEF IInv, TypeOK, Tx
<1>6. CASE u # tx[p].user
  <2>1. RowsOf(u)' = RowsOf(u) BY <1>6, CommittedRows
  <2>2. <<u, t>> \notin tx[p].cut /\ <<u, t>> \notin tx[p].joined BY <1>4, <1>6 DEF Leaves
  <2> QED BY <1>1, <1>2, <1>3, <2>1, <2>2
<1>7. CASE u = tx[p].user /\ tx[p].kind = "remove"
  <2>1. ~ Inserted(p) /\ Mine(p) = RowsOf(u) BY <1>1, <1>7 DEF Inserted, Mine
  <2>2. RowsOf(u) \subseteq tx[p].locked BY <1>1, <1>3, <1>7, <2>1 DEF HomeSound
  <2>3. RowsOf(u)' = {}
    <3>1. RowsOf(u) \subseteq rows BY DEF RowsOf
    <3>2. tx[p].locked \cap rows = {} => RowsOf(u) = {} BY <2>2, <3>1
    <3> QED BY <1>7, <2>1, <3>2, CommittedRows
  <2>4. ~ InTeam(u, t)' BY <1>2, <2>3
  <2>5. tx[p].joined = {} /\ (<<u, t>> \in channels => <<u, t>> \in tx[p].cut)
    BY <1>1, <1>4, <1>7 DEF Joined, Left, Leaves
  <2>6. <<u, t>> \in tx[p].cut => Recompute(t) \in tx[p].ops BY <1>1, <1>4, <1>7 DEF Left
  <2> QED BY <1>1, <1>3, <2>4, <2>5, <2>6
<1>8. CASE u = tx[p].user /\ tx[p].kind # "remove"
  <2>1. Inserted(p) /\ Joined(p) /\ Mine(p) = RowsOf(u) BY <1>1, <1>8 DEF Inserted, Joined, Mine
  <2>2. PICK a \in Teams : a = tx[p].team BY <1>1, <1>8 DEF IInv, OpenSound
  <2>3. RowsOf(u)' = ChainRows(u, a, p) BY <1>8, <2>1, <2>2, CommittedRows
  <2>4. InTeam(u, t)' <=> t \in Chain(a)
    <3>1. {r.team : r \in ChainRows(u, a, p)} = Chain(a) BY ChainRowsSound
    <3> QED BY <1>2, <2>3, <3>1
  <2>5. t \in Chain(a) => <<u, t>> \in tx[p].joined /\ Recompute(t) \in tx[p].ops
    BY <1>4, <1>8, <2>1, <2>2
  <2>6. t \notin Chain(a) => <<u, t>> \notin tx[p].joined BY <1>4, <1>8, <2>1, <2>2
  <2>7. CASE tx[p].kind = "add"
    <3>1. RowsOf(u) = {} BY <1>1, <1>3, <2>1, <2>7 DEF HomeSound
    <3>2. ~ InTeam(u, t) BY <1>2, <3>1
    <3> QED BY <1>1, <1>3, <2>4, <2>5, <2>6, <3>2
  <2>8. CASE tx[p].kind = "transfer"
    <3>1. Left(p) BY <1>1, <2>8 DEF Left
    <3>2. t \notin Chain(a) /\ <<u, t>> \in channels => <<u, t>> \in tx[p].cut
      BY <1>4, <1>8, <2>2, <3>1 DEF Leaves
    <3>3. <<u, t>> \in tx[p].cut => Recompute(t) \in tx[p].ops BY <1>4, <3>1
    <3> QED BY <1>1, <1>3, <2>4, <2>5, <2>6, <3>2, <3>3
  <2> QED BY <1>5, <1>8, <2>7, <2>8
<1> QED BY <1>6, <1>7, <1>8

LEMMA AccessCommit ==
  ASSUME IInv, HomeInv, AccessInv, NEW p \in Requests, Commit(p)
  PROVE  AccessInv'
<1>1. /\ queue' = queue \cup tx[p].ops /\ group' = group
      /\ channels' = (channels \ tx[p].cut) \cup tx[p].joined
      /\ tx'[p].stage = "committed" /\ \A q \in Requests \ {p} : tx'[q] = tx[q]
      /\ Open(p) /\ p \in UnderWay /\ tx[p].stage = "commit"
  BY DEF Commit, IInv, TypeOK, Idle, Open, UnderWay
<1>2. tx[p].ops \subseteq {Recompute(t) : t \in Teams} BY <1>1 DEF AccessInv, AccessSound
<1>3. queue' \subseteq {Recompute(t) : t \in Teams} BY <1>1, <1>2 DEF AccessInv
<1>4. \A u \in Users, t \in Teams : <<u, t>> \in channels' <=> InTeam(u, t)' BY CommitAccess
<1>5. ASSUME NEW t \in Teams, Recompute(t) \notin queue', NEW u \in Users
      PROVE  u \in group'[t] <=> InTeam(u, t)'
  <2>1. Recompute(t) \notin queue /\ Recompute(t) \notin tx[p].ops BY <1>1, <1>5
  <2>2. u \in group[t] <=> InTeam(u, t) BY <2>1 DEF AccessInv
  <2>3. InTeam(u, t)' <=> InTeam(u, t) BY <2>1, CommitAccess
  <2> QED BY <1>1, <2>2, <2>3
<1>6. AccessSound(p)' BY <1>1 DEF AccessSound, UnderWay
<1>7. ASSUME NEW q \in Requests \ {p} PROVE AccessSound(q)'
  <2>1. q \in UnderWay' <=> q \in UnderWay BY <1>1 DEF UnderWay
  <2>2. SUFFICES ASSUME q \in UnderWay PROVE AccessSound(q)' BY <2>1 DEF AccessSound
  <2>3. tx[q].kind = "transfer" /\ tx[p].kind = "transfer" BY <1>1, <2>2 DEF HomeInv, Alone
  <2>4. AccessSound(q) BY DEF AccessInv
  <2>5. (Joined(q)' <=> Joined(q)) /\ (Left(q)' <=> Left(q)) BY <1>1 DEF Joined, Left
  <2>6. Left(q) => {c \in channels : Leaves(q, c)}' = {c \in channels : Leaves(q, c)}
    <3>1. SUFFICES ASSUME Left(q)
                   PROVE  {c \in channels : Leaves(q, c)}' = {c \in channels : Leaves(q, c)}
      OBVIOUS
    <3>2. Open(q) /\ Inserted(q) /\ Inserted(p)
      BY <1>1, <2>3, <3>1 DEF Left, Open, Inserted
    <3>3. tx[q].user # tx[p].user BY <1>1, <3>2 DEF IInv, Apart
    <3>4. \A c \in tx[p].cut \cup tx[p].joined : c[1] = tx[p].user
      <4>1. /\ tx[p].joined = IF Joined(p) THEN {tx[p].user} \X Chain(tx[p].team) ELSE {}
            /\ tx[p].cut = IF Left(p) THEN {c \in channels : Leaves(p, c)} ELSE {}
        BY <1>1 DEF AccessInv, AccessSound
      <4>2. \A c \in tx[p].cut : c[1] = tx[p].user BY <4>1 DEF Leaves
      <4>3. \A c \in tx[p].joined : c[1] = tx[p].user BY <4>1
      <4> QED BY <4>2, <4>3
    <3>5. \A c : Leaves(q, c)' <=> Leaves(q, c) BY <1>1 DEF Leaves
    <3>6. \A c : Leaves(q, c) => c[1] # tx[p].user BY <3>3 DEF Leaves
    <3>7. \A c : Leaves(q, c) => (c \in channels' <=> c \in channels) BY <1>1, <3>4, <3>6
    <3> QED BY <3>5, <3>7
  <2>7. tx'[q] = tx[q] BY <1>1
  <2> QED BY <2>2, <2>3, <2>4, <2>5, <2>6, <2>7 DEF AccessSound
<1>8. \A q \in Requests : AccessSound(q)' BY <1>6, <1>7
<1> QED BY <1>3, <1>4, <1>5, <1>8 DEF AccessInv

\* Running a recomputation makes its group agree with its team.
LEMMA AccessRun ==
  ASSUME IInv, AccessInv, NEW o \in queue, Run(o)
  PROVE  AccessInv'
<1>1. PICK a \in Teams : o = Recompute(a) BY DEF AccessInv
<1>2. o.kind = "reconcile" /\ o.team = a BY <1>1 DEF Recompute
<1>3. /\ queue' = queue \ {o} /\ UNCHANGED <<rows, channels, tx>>
      /\ group' = [group EXCEPT ![a] = {u \in Users : InTeam(u, a)}]
  BY <1>2 DEF Run
<1>4. \A u \in Users, t \in Teams : InTeam(u, t)' <=> InTeam(u, t) BY <1>3 DEF InTeam
<1>5. ASSUME NEW t \in Teams, Recompute(t) \notin queue', NEW u \in Users
      PROVE  u \in group'[t] <=> InTeam(u, t)'
  <2>1. CASE t = a BY <1>3, <1>4, <2>1 DEF IInv, TypeOK
  <2>2. CASE t # a
    <3>1. Recompute(t) # o BY <1>1, <2>2 DEF Recompute
    <3>2. u \in group[t] <=> InTeam(u, t) BY <1>3, <1>5, <3>1 DEF AccessInv
    <3> QED BY <1>3, <1>4, <2>2, <3>2 DEF IInv, TypeOK
  <2> QED BY <2>1, <2>2
<1>6. \A p \in Requests : AccessSound(p)'
  BY <1>3 DEF AccessInv, AccessSound, UnderWay, Joined, Left, Leaves, Mine, RowsOf
<1> QED BY <1>3, <1>4, <1>5, <1>6 DEF AccessInv

LEMMA AccessNext ==
  ASSUME Reconciling
  PROVE  IInv /\ HomeInv /\ AccessInv /\ [Next]_vars => AccessInv'
<1> SUFFICES ASSUME IInv, HomeInv, AccessInv, [Next]_vars PROVE AccessInv' OBVIOUS
<1>1. CASE UNCHANGED vars
  <2>1. \A p \in Requests : AccessSound(p)'
    BY <1>1 DEF vars, AccessInv, AccessSound, UnderWay, Joined, Left, Leaves, Mine, RowsOf
  <2> QED BY <1>1, <2>1 DEF vars, AccessInv, InTeam
<1>2. CASE \E o \in queue : Run(o) BY <1>2, AccessRun
<1>3. CASE \E p \in Requests : Step(p) BY <1>3, AccessStep
<1>4. CASE \E p \in Requests : Commit(p) BY <1>4, AccessCommit
<1> QED BY <1>1, <1>2, <1>3, <1>4 DEF Next, Statement, Step

\* Where only transfers overlap and groups are reconciled, the channel rows are
\* always those of the users' committed teams, although a transfer names the
\* channels it leaves before it commits; and once the queue is empty every
\* Authentik group holds exactly its team's members, whatever the order the
\* recomputations ran in (TeamTransferService.js:442-489,
\* TeamMembershipService.js:130-165, 287-361).
THEOREM AccessIsRight ==
  ASSUME Overlapping \subseteq {"transfer"}, Reconciling
  PROVE  Spec => []AccessFollowsTeams
<1>1. Init => HomeInv /\ AccessInv BY HomeInit, AccessInit
<1>2. IInv /\ HomeInv /\ AccessInv /\ [Next]_vars => HomeInv' /\ AccessInv'
  BY HomeNext, AccessNext
<1>3. IInv /\ AccessInv => AccessFollowsTeams
  <2> SUFFICES ASSUME IInv, AccessInv PROVE AccessFollowsTeams OBVIOUS
  <2>1. channels = {<<r.user, r.team>> : r \in rows}
    <3>1. channels \subseteq Users \X Teams /\ rows \subseteq Row BY DEF IInv, TypeOK
    <3>2. \A c \in channels : c \in {<<r.user, r.team>> : r \in rows}
      <4>1. SUFFICES ASSUME NEW u \in Users, NEW t \in Teams, <<u, t>> \in channels
                     PROVE  <<u, t>> \in {<<r.user, r.team>> : r \in rows}
        BY <3>1
      <4>2. PICK r \in rows : r.user = u /\ r.team = t BY <4>1 DEF AccessInv, InTeam
      <4> QED BY <4>2
    <3>3. \A r \in rows : <<r.user, r.team>> \in channels BY <3>1 DEF AccessInv, InTeam, Row
    <3> QED BY <3>2, <3>3
  <2>2. queue = {} => \A t \in Teams, u \in Users : u \in group[t] <=> InTeam(u, t)
    BY DEF AccessInv
  <2> QED BY <2>1, <2>2 DEF AccessFollowsTeams, ChannelsFollowTeams, GroupsFollowTeams
<1> QED BY <1>1, <1>2, <1>3, Invariance, PTL DEF Spec
=============================================================================
