----------------------------- MODULE ComponentProofs -----------------------------
(***************************************************************************)
(* Proofs about components that share nothing, for any members, sizes and  *)
(* bounds: the circuit breaker, the callsign poller, the expiry notices    *)
(* and the channels of teams of the run independent_liveness; then, with   *)
(* variables of their own, the rate limiter, the pool of connections, the  *)
(* devices of a team, the requests for access and the service accounts of  *)
(* channels of the run independent_safety, to which IndependentProofs      *)
(* carries over what is shown of them.  Variables of one name (team, web,  *)
(* past and others) stand for those of each component in turn.             *)
(***************************************************************************)
EXTENDS MCIndependentLive, Integers, Sequences, FiniteSets, FiniteSetTheorems, WellFoundedInduction, TLAPS

-----------------------------------------------------------------------------
(* Counting.                                                               *)

Within(Q, f, S) == {q \in Q : f[q] \in S}

\* One member of Q goes from f[r] to g[r].
LEMMA Recount ==
  ASSUME NEW Q, IsFiniteSet(Q), NEW f, NEW g, NEW S, NEW r \in Q, \A q \in Q \ {r} : g[q] = f[q]
  PROVE  /\ Cardinality(Within(Q, f, S)) \in Nat /\ Cardinality(Within(Q, g, S)) \in Nat
         /\ Cardinality(Within(Q, g, S)) + (IF f[r] \in S THEN 1 ELSE 0)
              = Cardinality(Within(Q, f, S)) + (IF g[r] \in S THEN 1 ELSE 0)
<1> DEFINE rest == {q \in Q \ {r} : f[q] \in S}
<1>1. rest \in SUBSET Q /\ r \notin rest
  OBVIOUS
<1>2. IsFiniteSet(rest) /\ Cardinality(rest) \in Nat
  BY <1>1, FS_Subset, FS_CardinalityType
<1>3. Within(Q, f, S) = (IF f[r] \in S THEN rest \cup {r} ELSE rest)
  BY DEF Within
<1>4. Within(Q, g, S) = (IF g[r] \in S THEN rest \cup {r} ELSE rest)
  BY DEF Within
<1>5. Cardinality(rest \cup {r}) = Cardinality(rest) + 1
  BY <1>1, <1>2, FS_AddElement
<1> HIDE DEF rest
<1> QED
  BY <1>2, <1>3, <1>4, <1>5

\* What two sequences make together.
LEMMA Joined ==
  ASSUME NEW S, NEW s \in Seq(S), NEW t \in Seq(S)
  PROVE  /\ s \o t \in Seq(S) /\ Len(s \o t) = Len(s) + Len(t)
         /\ \A j \in 1 .. Len(s) : (s \o t)[j] = s[j]
         /\ \A j \in 1 .. Len(t) : (s \o t)[Len(s) + j] = t[j]
OBVIOUS

-----------------------------------------------------------------------------
(* The circuit breaker.                                                    *)

BreakerAssumption ==
  IsFiniteSet(Calls) /\ FailureThreshold \in Nat \ {0} /\ MaxFailures \in Nat

Normals == {c \in Calls : call[c] = "normal"}

BreakerTyped ==
  /\ breaker \in [state : {"closed", "open", "half_open"}, count : Nat, probing : BOOLEAN, elapsed : BOOLEAN]
  /\ call \in [Calls -> {"none", "normal", "probe"}]
  /\ failures \in 0 .. MaxFailures
  /\ late \in BOOLEAN

\* Each failure counted past the threshold is one of a call admitted before; the
\* flag is set while, and only while, the breaker waits for its probe; until a
\* late failure reopens it, it has no other.
BreakerInv ==
  /\ BreakerTyped
  /\ breaker.state = "closed" => breaker.count < FailureThreshold
  /\ breaker.count + Cardinality(Normals) <= FailureThreshold - 1 + Cardinality(Calls)
  /\ breaker.probing <=> breaker.state = "half_open"
  /\ breaker.state = "half_open" => Breaker!Probes # {}
  /\ ~late => /\ Breaker!Probes # {} => breaker.state = "half_open"
              /\ \A c, d \in Breaker!Probes : c = d

LEMMA BreakerCounts == \A S : Breaker!Cardinality(S) = Cardinality(S)
BY DEF Breaker!Cardinality, Cardinality, Breaker!IsFiniteSet, IsFiniteSet

LEMMA OneAtMost ==
  ASSUME NEW S, IsFiniteSet(S), \A c, d \in S : c = d
  PROVE  Cardinality(S) <= 1
<1>1. CASE S = {}
  BY <1>1, FS_EmptySet
<1>2. ASSUME NEW c \in S PROVE Cardinality(S) <= 1
  <2>1. S = {c}
    OBVIOUS
  <2> QED
    BY <2>1, FS_Singleton
<1> QED
  BY <1>1, <1>2

LEMMA BreakerInvHolds == ASSUME BreakerAssumption PROVE BreakerInv => Breaker!OneProbeAtWork
<1> SUFFICES ASSUME BreakerInv PROVE Breaker!OneProbeAtWork
  OBVIOUS
<1>1. Breaker!Probes \in SUBSET Calls /\ Normals \in SUBSET Calls
  BY DEF Breaker!Probes, Normals
<1>2. IsFiniteSet(Breaker!Probes) /\ Cardinality(Normals) \in Nat /\ Cardinality(Calls) \in Nat
  BY <1>1, FS_Subset, FS_CardinalityType DEF BreakerAssumption
<1>3. breaker.count \in 0 .. FailureThreshold - 1 + Cardinality(Calls)
  BY <1>2 DEF BreakerInv, BreakerTyped, BreakerAssumption
<1>4. Breaker!TypeOK
  <2>1. breaker \in [state : {"closed", "open", "half_open"}, count : Nat, probing : BOOLEAN, elapsed : BOOLEAN]
    BY DEF BreakerInv, BreakerTyped
  <2>2. breaker \in [state : {"closed", "open", "half_open"},
                     count : 0 .. FailureThreshold - 1 + Cardinality(Calls), probing : BOOLEAN, elapsed : BOOLEAN]
    BY <1>3, <2>1
  <2> QED
    BY <2>2, BreakerCounts DEF BreakerInv, BreakerTyped, Breaker!TypeOK
<1>5. Breaker!NeverWedged
  BY DEF BreakerInv, Breaker!NeverWedged
<1>6. Breaker!OneProbe
  <2>1. CASE ~late
    BY <1>2, <2>1, OneAtMost, BreakerCounts DEF BreakerInv, Breaker!OneProbe
  <2> QED
    BY <2>1 DEF Breaker!OneProbe
<1> QED
  BY <1>4, <1>5, <1>6 DEF Breaker!OneProbeAtWork

LEMMA BreakerInit == ASSUME BreakerAssumption PROVE Breaker!Init => BreakerInv
<1> SUFFICES ASSUME Breaker!Init PROVE BreakerInv
  OBVIOUS
<1>1. Breaker!Probes = {} /\ Normals = {}
  BY DEF Breaker!Init, Breaker!Probes, Normals
<1>2. Cardinality(Normals) = 0 /\ Cardinality(Calls) \in Nat
  BY <1>1, FS_EmptySet, FS_CardinalityType DEF BreakerAssumption
<1>3. breaker.count = 0 /\ breaker.state = "closed" /\ ~breaker.probing
  BY DEF Breaker!Init
<1>4. BreakerTyped
  <2>1. 0 \in 0 .. MaxFailures
    BY DEF BreakerAssumption
  <2>2. [state |-> "closed", count |-> 0, probing |-> FALSE, elapsed |-> FALSE]
          \in [state : {"closed", "open", "half_open"}, count : Nat, probing : BOOLEAN, elapsed : BOOLEAN]
    OBVIOUS
  <2> QED
    BY <2>1, <2>2 DEF Breaker!Init, BreakerTyped
<1>5. breaker.count < FailureThreshold
      /\ breaker.count + Cardinality(Normals) <= FailureThreshold - 1 + Cardinality(Calls)
  BY <1>2, <1>3 DEF BreakerAssumption
<1> QED
  BY <1>1, <1>3, <1>4, <1>5 DEF BreakerInv

\* The call that a step is about.
LEMMA CallChanges ==
  ASSUME BreakerAssumption, BreakerTyped, NEW c \in Calls, NEW how \in {"none", "normal", "probe"},
         call' = [call EXCEPT ![c] = how]
  PROVE  /\ call' \in [Calls -> {"none", "normal", "probe"}]
         /\ Breaker!Probes' = IF how = "probe" THEN Breaker!Probes \cup {c} ELSE Breaker!Probes \ {c}
         /\ how = "normal" => Cardinality(Normals') <= Cardinality(Calls)
         /\ call[c] = "normal" /\ how # "normal" => Cardinality(Normals') = Cardinality(Normals) - 1
         /\ call[c] # "normal" /\ how # "normal" => Cardinality(Normals') = Cardinality(Normals)
         /\ Cardinality(Normals) \in Nat /\ Cardinality(Normals') \in Nat /\ Cardinality(Calls) \in Nat
<1>1. call'[c] = how /\ \A d \in Calls \ {c} : call'[d] = call[d]
  BY DEF BreakerTyped
<1>2. call' \in [Calls -> {"none", "normal", "probe"}]
  BY DEF BreakerTyped
<1>3. Breaker!Probes' = IF how = "probe" THEN Breaker!Probes \cup {c} ELSE Breaker!Probes \ {c}
  BY <1>1 DEF Breaker!Probes
<1>4. Normals' = IF how = "normal" THEN Normals \cup {c} ELSE Normals \ {c}
  BY <1>1 DEF Normals
<1>5. Normals \in SUBSET Calls /\ Normals' \in SUBSET Calls
  BY DEF Normals
<1>6. /\ IsFiniteSet(Normals) /\ IsFiniteSet(Normals')
      /\ Cardinality(Normals) \in Nat /\ Cardinality(Normals') \in Nat /\ Cardinality(Calls) \in Nat
      /\ Cardinality(Normals') <= Cardinality(Calls)
  BY <1>5, FS_Subset, FS_CardinalityType DEF BreakerAssumption
<1>7. ASSUME call[c] = "normal", how # "normal" PROVE Cardinality(Normals') = Cardinality(Normals) - 1
  <2>1. c \in Normals /\ Normals' = Normals \ {c}
    BY <1>4, <1>7 DEF Normals
  <2> QED
    BY <1>6, <2>1, FS_RemoveElement
<1>8. ASSUME call[c] # "normal", how # "normal" PROVE Normals' = Normals
  BY <1>4, <1>8 DEF Normals
<1> QED
  BY <1>2, <1>3, <1>6, <1>7, <1>8

LEMMA BreakerStep ==
  ASSUME BreakerAssumption, BreakerInv, [Breaker!Next]_(Breaker!breakerVars)
  PROVE  BreakerInv'
<1>0. /\ BreakerTyped
      /\ breaker \in [state : {"closed", "open", "half_open"}, count : Nat, probing : BOOLEAN, elapsed : BOOLEAN]
  BY DEF BreakerInv, BreakerTyped
<1>1. CASE Breaker!Elapse
  <2>1. /\ breaker' \in [state : {"closed", "open", "half_open"}, count : Nat, probing : BOOLEAN, elapsed : BOOLEAN]
        /\ breaker'.state = breaker.state /\ breaker'.count = breaker.count /\ breaker'.probing = breaker.probing
        /\ UNCHANGED <<call, failures, late>>
    BY <1>0, <1>1 DEF Breaker!Elapse
  <2>2. Normals' = Normals /\ Breaker!Probes' = Breaker!Probes
    BY <2>1 DEF Normals, Breaker!Probes
  <2> QED
    BY <2>1, <2>2 DEF BreakerInv, BreakerTyped
<1>2. ASSUME NEW c \in Calls, Breaker!Execute(c) PROVE BreakerInv'
  <2>0. call[c] = "none" /\ UNCHANGED <<failures, late>>
    BY <1>2 DEF Breaker!Execute
  <2>1. CASE breaker.state = "closed" /\ call' = [call EXCEPT ![c] = "normal"] /\ UNCHANGED breaker
    <3>1. Breaker!Probes' = Breaker!Probes
      BY <1>0, <2>0, <2>1, CallChanges DEF Breaker!Probes
    <3>2. /\ call' \in [Calls -> {"none", "normal", "probe"}]
          /\ Cardinality(Normals') <= Cardinality(Calls)
          /\ Cardinality(Normals') \in Nat /\ Cardinality(Calls) \in Nat
      BY <1>0, <2>1, CallChanges
    <3> QED
      BY <1>0, <2>0, <2>1, <3>1, <3>2 DEF BreakerInv, BreakerTyped, BreakerAssumption
  <2>2. CASE Breaker!HalfOpens /\ Breaker!Probe(c)
    <3>1. /\ breaker' = [breaker EXCEPT !.state = "half_open", !.probing = TRUE]
          /\ breaker' \in [state : {"closed", "open", "half_open"}, count : Nat, probing : BOOLEAN, elapsed : BOOLEAN]
          /\ breaker'.state = "half_open" /\ breaker'.probing /\ breaker'.count = breaker.count
      BY <1>0, <2>2 DEF Breaker!Probe
    <3>2. CASE breaker.probing
      <4>1. call' = call /\ Normals' = Normals /\ Breaker!Probes' = Breaker!Probes
        BY <2>2, <3>2 DEF Breaker!Probe, Normals, Breaker!Probes
      <4> QED
        BY <2>0, <3>1, <3>2, <4>1 DEF BreakerInv, BreakerTyped
    <3>3. CASE ~breaker.probing
      <4>1. call' = [call EXCEPT ![c] = "probe"]
        BY <2>2, <3>3 DEF Breaker!Probe
      <4>2. /\ call' \in [Calls -> {"none", "normal", "probe"}]
            /\ Breaker!Probes' = Breaker!Probes \cup {c}
            /\ Cardinality(Normals') = Cardinality(Normals)
        BY <1>0, <2>0, <4>1, CallChanges
      <4>3. ~late => Breaker!Probes = {}
        BY <3>3 DEF BreakerInv
      <4> QED
        BY <2>0, <3>1, <4>2, <4>3 DEF BreakerInv, BreakerTyped
    <3> QED
      BY <3>2, <3>3
  <2> QED
    BY <1>2, <2>1, <2>2 DEF Breaker!Execute
\* The call of c ends.
<1>e. ASSUME NEW c \in Calls, call[c] # "none", call' = [call EXCEPT ![c] = "none"]
      PROVE  /\ call' \in [Calls -> {"none", "normal", "probe"}]
             /\ Breaker!Probes' = Breaker!Probes \ {c}
             /\ call[c] # "probe" => Breaker!Probes' = Breaker!Probes /\ Cardinality(Normals') = Cardinality(Normals) - 1
             /\ call[c] = "probe" => c \in Breaker!Probes /\ Cardinality(Normals') = Cardinality(Normals)
             /\ Cardinality(Normals) \in Nat /\ Cardinality(Normals') \in Nat /\ Cardinality(Calls) \in Nat
  <2>1. /\ call' \in [Calls -> {"none", "normal", "probe"}]
        /\ Breaker!Probes' = Breaker!Probes \ {c}
        /\ call[c] = "normal" => Cardinality(Normals') = Cardinality(Normals) - 1
        /\ call[c] # "normal" => Cardinality(Normals') = Cardinality(Normals)
        /\ Cardinality(Normals) \in Nat /\ Cardinality(Normals') \in Nat /\ Cardinality(Calls) \in Nat
    BY <1>0, <1>e, CallChanges
  <2>2. call[c] \in {"normal", "probe"}
    BY <1>0, <1>e DEF BreakerTyped
  <2> QED
    BY <2>1, <2>2 DEF Breaker!Probes
<1>3. ASSUME NEW c \in Calls, Breaker!Succeeds(c) PROVE BreakerInv'
  <2>0. call[c] # "none" /\ call' = [call EXCEPT ![c] = "none"] /\ UNCHANGED <<failures, late>>
    BY <1>3 DEF Breaker!Succeeds
  <2>1. CASE call[c] = "probe"
    <3>1. /\ breaker' \in [state : {"closed", "open", "half_open"}, count : Nat, probing : BOOLEAN, elapsed : BOOLEAN]
          /\ breaker'.state = "closed" /\ ~breaker'.probing /\ breaker'.count = 0
      BY <1>0, <1>3, <2>1 DEF Breaker!Succeeds, Breaker!Closed
    <3>2. ~late => Breaker!Probes' = {}
      BY ZenonT(40), <1>e, <2>0, <2>1 DEF BreakerInv
    <3>3. Cardinality(Normals') <= Cardinality(Calls)
      <4>1. Normals' \in SUBSET Calls
        BY DEF Normals
      <4> QED
        BY <4>1, FS_Subset DEF BreakerAssumption
    <3>4. breaker'.count < FailureThreshold
          /\ breaker'.count + Cardinality(Normals') <= FailureThreshold - 1 + Cardinality(Calls)
      <4>1. Cardinality(Normals') \in Nat /\ Cardinality(Calls) \in Nat
        BY <1>e, <2>0
      <4> QED
        BY <3>1, <3>3, <4>1 DEF BreakerAssumption
    <3>5. BreakerTyped'
      BY <1>0, <1>e, <2>0, <3>1 DEF BreakerTyped
    <3> QED
      BY <3>1, <3>2, <3>4, <3>5, <2>0 DEF BreakerInv
  <2>2. CASE call[c] # "probe"
    <3>1. /\ breaker' \in [state : {"closed", "open", "half_open"}, count : Nat, probing : BOOLEAN, elapsed : BOOLEAN]
          /\ breaker'.state = breaker.state /\ breaker'.probing = breaker.probing /\ breaker'.count = 0
      BY <1>0, <1>3, <2>2 DEF Breaker!Succeeds
    <3>2. breaker.count \in Nat /\ breaker'.count <= breaker.count
      BY <1>0, <3>1
    <3>3. /\ call' \in [Calls -> {"none", "normal", "probe"}] /\ Breaker!Probes' = Breaker!Probes
          /\ Cardinality(Normals') = Cardinality(Normals) - 1
          /\ Cardinality(Normals) \in Nat /\ Cardinality(Calls) \in Nat
      BY <1>e, <2>0, <2>2
    <3> QED
      BY <1>0, <2>0, <3>1, <3>2, <3>3 DEF BreakerInv, BreakerTyped, BreakerAssumption
  <2> QED
    BY <2>1, <2>2
<1>4. ASSUME NEW c \in Calls, Breaker!Fails(c) PROVE BreakerInv'
  <2>0. /\ call[c] # "none" /\ call' = [call EXCEPT ![c] = "none"]
        /\ failures' \in 0 .. MaxFailures
    BY <1>0, <1>4 DEF Breaker!Fails, BreakerTyped, BreakerAssumption
  <2>1. CASE call[c] = "probe"
    <3>1. /\ breaker' \in [state : {"closed", "open", "half_open"}, count : Nat, probing : BOOLEAN, elapsed : BOOLEAN]
          /\ breaker'.state = "open" /\ ~breaker'.probing /\ breaker'.count = breaker.count /\ late' = late
      BY <1>0, <1>4, <2>1 DEF Breaker!Fails, Breaker!Opened
    <3>2. ~late => Breaker!Probes' = {}
      BY <1>e, <2>0, <2>1 DEF BreakerInv
    <3>3. call' \in [Calls -> {"none", "normal", "probe"}] /\ Cardinality(Normals') = Cardinality(Normals)
      BY <1>e, <2>0, <2>1
    <3> QED
      BY <1>0, <2>0, <3>1, <3>2, <3>3 DEF BreakerInv, BreakerTyped
  <2>2. CASE call[c] # "probe"
    <3> DEFINE counted == [breaker EXCEPT !.count = @ + 1]
               trips == counted.count >= FailureThreshold
    <3>1. /\ counted \in [state : {"closed", "open", "half_open"}, count : Nat, probing : BOOLEAN, elapsed : BOOLEAN]
          /\ counted.state = breaker.state /\ counted.count = breaker.count + 1 /\ counted.probing = breaker.probing
          /\ breaker.count \in Nat
      BY <1>0
    <3>2. /\ breaker' = IF trips THEN Breaker!Opened(counted) ELSE counted
          /\ late' = (late \/ (trips /\ breaker.state # "closed"))
      BY <1>4, <2>2 DEF Breaker!Fails
    <3>3. /\ call' \in [Calls -> {"none", "normal", "probe"}] /\ Breaker!Probes' = Breaker!Probes
          /\ Cardinality(Normals') = Cardinality(Normals) - 1
          /\ Cardinality(Normals) \in Nat /\ Cardinality(Calls) \in Nat
      BY <1>e, <2>0, <2>2
    <3> HIDE DEF counted
    <3>4. CASE trips
      <4>1. /\ breaker' \in [state : {"closed", "open", "half_open"}, count : Nat, probing : BOOLEAN, elapsed : BOOLEAN]
            /\ breaker'.state = "open" /\ ~breaker'.probing /\ breaker'.count = breaker.count + 1
        BY <3>1, <3>2, <3>4 DEF Breaker!Opened
      <4>2. late' \in BOOLEAN /\ (~late' => ~late /\ breaker.state = "closed")
        BY <3>2, <3>4
      <4>3. ~late' => Breaker!Probes' = {}
        BY <3>3, <4>2 DEF BreakerInv
      <4>4. breaker'.count + Cardinality(Normals') <= FailureThreshold - 1 + Cardinality(Calls)
        BY <3>1, <3>3, <4>1 DEF BreakerInv, BreakerAssumption
      <4> QED
        BY <2>0, <3>3, <4>1, <4>2, <4>3, <4>4 DEF BreakerInv, BreakerTyped
    <3>5. CASE ~trips
      <4>1. breaker' = counted /\ late' = late
        BY <1>0, <3>2, <3>5 DEF BreakerTyped
      <4>2. breaker'.count < FailureThreshold
        BY <3>1, <3>5, <4>1 DEF BreakerAssumption
      <4>4. breaker'.count + Cardinality(Normals') <= FailureThreshold - 1 + Cardinality(Calls)
        BY <3>1, <3>3, <4>1 DEF BreakerInv, BreakerAssumption
      <4> QED
        BY <2>0, <3>1, <3>3, <4>1, <4>2, <4>4 DEF BreakerInv, BreakerTyped
    <3> QED
      BY <3>4, <3>5
  <2> QED
    BY <2>1, <2>2
<1>5. CASE UNCHANGED Breaker!breakerVars
  BY <1>5 DEF Breaker!breakerVars, BreakerInv, BreakerTyped, Normals, Breaker!Probes
<1> QED
  BY <1>1, <1>2, <1>3, <1>4, <1>5 DEF Breaker!Next

\* A half-open breaker always waits for a probe that is in flight, and for one
\* only until a call admitted before fails late, for any number of calls in
\* flight (CircuitBreaker.execute and what settles under it).
THEOREM ProbeAtWork ==
  ASSUME BreakerAssumption
  PROVE  Spec => []OneProbeAtWork
<1> DEFINE Inv == part = "breaker" => BreakerInv
<1>1. Init => Inv
  BY BreakerInit DEF Init
<1>2. Inv /\ [Next]_vars => Inv'
  <2> SUFFICES ASSUME Inv, [Next]_vars, part' = "breaker" PROVE BreakerInv'
    OBVIOUS
  <2>1. part = "breaker" /\ [Breaker!Next]_(Breaker!breakerVars)
    BY DEF Next, vars, breakerVars, Breaker!breakerVars, OnlyBreaker, OnlyCallsigns, OnlyExpiry, OnlyChannels
  <2> QED
    BY <2>1, BreakerStep
<1>3. Inv => OneProbeAtWork
  BY BreakerInvHolds DEF OneProbeAtWork
<1> QED
  BY <1>1, <1>2, <1>3, PTL DEF Spec

-----------------------------------------------------------------------------
(* The callsign poller.                                                    *)

CallsignAssumption == IsFiniteSet(Pollers) /\ MaxPollFaults \in Nat /\ MaxSlips \in Nat

Sending == {p \in Pollers : poll[p] \in {"send"}}
Marking == {p \in Pollers : poll[p] \in {"mark"}}
PollType == [Pollers -> {"idle", "fetch", "assigned", "other", "send", "mark"}]

CallsignTyped ==
  /\ callsign \in {"assigned", "other"} /\ addressed \in BOOLEAN
  /\ latch \in [first : BOOLEAN, notified : BOOLEAN]
  /\ poll \in PollType
  /\ holder \subseteq Pollers
  /\ told \in Nat
  /\ spent \in [slips : 0 .. MaxSlips, faults : 0 .. MaxPollFaults]
  /\ astray \in [unmarked : BOOLEAN, overlap : BOOLEAN]

\* A notice that is not marked yet has a poll about to mark it, or cost a fault.
NoticesCounted ==
  /\ ~latch.notified => told <= Cardinality(Marking) + spent.faults
  /\ told + Cardinality(Sending) <= Cardinality(Pollers) + spent.faults

\* One poll at a time: what it is about to send has not been sent.
InTurn ==
  /\ \A p, q \in Pollers : poll[p] # "idle" /\ poll[q] # "idle" => p = q
  /\ \A p \in Pollers : poll[p] \in {"send", "mark"} => latch.first
  /\ latch.notified => latch.first
  /\ ~astray.unmarked =>
       /\ told <= 1
       /\ told = 1 => latch.notified \/ Marking # {}
       /\ \A p \in Sending : told = 0
       /\ \A p \in Marking : told = 1

CallsignInv ==
  /\ CallsignTyped
  /\ NoticesCounted
  /\ ~astray.overlap => InTurn

LEMMA CallsignInvHolds == ASSUME CallsignAssumption PROVE CallsignInv => Callsigns!NoticePerEpisode
<1> USE DEF PollType
<1> SUFFICES ASSUME CallsignInv PROVE Callsigns!NoticePerEpisode
  OBVIOUS
<1>1. Sending \in SUBSET Pollers
  BY DEF Sending
<1>2. Cardinality(Sending) \in Nat /\ Cardinality(Pollers) \in Nat
  BY <1>1, FS_Subset, FS_CardinalityType DEF CallsignAssumption
<1>3. told \in 0 .. 1 + Cardinality(Pollers) + MaxPollFaults
  BY <1>2 DEF CallsignInv, CallsignTyped, NoticesCounted, CallsignAssumption
<1>4. Callsigns!Cardinality(Pollers) = Cardinality(Pollers)
  BY DEF Callsigns!Cardinality, Cardinality, Callsigns!IsFiniteSet, IsFiniteSet
<1>5. Callsigns!TypeOK
  BY <1>3, <1>4 DEF CallsignInv, CallsignTyped, Callsigns!TypeOK
<1> QED
  BY <1>5 DEF CallsignInv, InTurn, Callsigns!NoticePerEpisode, Callsigns!OneNotice, Callsigns!MarkInEpisode

LEMMA CallsignInit == ASSUME CallsignAssumption PROVE Callsigns!Init => CallsignInv
<1> USE DEF PollType
<1> SUFFICES ASSUME Callsigns!Init PROVE CallsignInv
  OBVIOUS
<1>1. Sending = {} /\ Marking = {}
  BY DEF Callsigns!Init, Sending, Marking
<1>2. Cardinality(Sending) = 0 /\ Cardinality(Marking) = 0 /\ Cardinality(Pollers) \in Nat
  BY <1>1, FS_EmptySet, FS_CardinalityType DEF CallsignAssumption
<1>3. CallsignTyped
  BY DEF Callsigns!Init, CallsignTyped, CallsignAssumption
<1> QED
  BY <1>1, <1>2, <1>3 DEF Callsigns!Init, CallsignInv, NoticesCounted, InTurn

PollMoved(p, to) ==
  /\ poll' \in PollType
  /\ poll'[p] = to /\ \A q \in Pollers \ {p} : poll'[q] = poll[q]
  /\ Cardinality(Sending) \in Nat /\ Cardinality(Sending') \in Nat
  /\ Cardinality(Marking) \in Nat /\ Cardinality(Marking') \in Nat
  /\ Cardinality(Sending') + (IF poll[p] = "send" THEN 1 ELSE 0)
       = Cardinality(Sending) + (IF to = "send" THEN 1 ELSE 0)
  /\ Cardinality(Marking') + (IF poll[p] = "mark" THEN 1 ELSE 0)
       = Cardinality(Marking) + (IF to = "mark" THEN 1 ELSE 0)

\* The poll that a step is about.
LEMMA PollMoves ==
  ASSUME CallsignAssumption, CallsignTyped, NEW p \in Pollers,
         NEW to \in {"idle", "fetch", "assigned", "other", "send", "mark"},
         poll' = [poll EXCEPT ![p] = to]
  PROVE  PollMoved(p, to)
<1> USE DEF PollType
<1>1. /\ poll' \in PollType
      /\ poll'[p] = to /\ \A q \in Pollers \ {p} : poll'[q] = poll[q]
  BY DEF CallsignTyped
<1>2. PICK f : f = poll
  OBVIOUS
<1>3. PICK g : g = poll'
  OBVIOUS
<1>4. Sending = Within(Pollers, f, {"send"}) /\ Sending' = Within(Pollers, g, {"send"})
  BY <1>2, <1>3 DEF Sending, Within
<1>5. Marking = Within(Pollers, f, {"mark"}) /\ Marking' = Within(Pollers, g, {"mark"})
  BY <1>2, <1>3 DEF Marking, Within
<1>6. \A q \in Pollers \ {p} : g[q] = f[q]
  BY <1>1, <1>2, <1>3
<1>7. /\ Cardinality(Sending) \in Nat /\ Cardinality(Sending') \in Nat
      /\ Cardinality(Sending') + (IF f[p] \in {"send"} THEN 1 ELSE 0)
           = Cardinality(Sending) + (IF g[p] \in {"send"} THEN 1 ELSE 0)
  BY <1>4, <1>6, Recount DEF CallsignAssumption
<1>8. /\ Cardinality(Marking) \in Nat /\ Cardinality(Marking') \in Nat
      /\ Cardinality(Marking') + (IF f[p] \in {"mark"} THEN 1 ELSE 0)
           = Cardinality(Marking) + (IF g[p] \in {"mark"} THEN 1 ELSE 0)
  BY <1>5, <1>6, Recount DEF CallsignAssumption
<1> QED
  BY <1>1, <1>2, <1>3, <1>7, <1>8 DEF PollMoved

LEMMA PollsInFlight ==
  ASSUME IsFiniteSet(Pollers)
  PROVE  (Cardinality(Marking) + Cardinality(Sending) <= Cardinality(Pollers))'
<1>1. Marking' \in SUBSET Pollers /\ Sending' \in SUBSET Pollers /\ Marking' \cap Sending' = {}
  BY DEF Marking, Sending
<1>2. /\ IsFiniteSet(Marking') /\ IsFiniteSet(Sending')
      /\ Cardinality(Marking') \in Nat /\ Cardinality(Sending') \in Nat /\ Cardinality(Pollers) \in Nat
  BY <1>1, FS_Subset, FS_CardinalityType
<1>3. Marking' \cup Sending' \in SUBSET Pollers
  BY <1>1
<1>4. Cardinality(Marking' \cup Sending') <= Cardinality(Pollers)
  BY <1>3, FS_Subset
<1>5. Cardinality(Marking' \cup Sending')
        = Cardinality(Marking') + Cardinality(Sending') - Cardinality(Marking' \cap Sending')
  BY <1>2, FS_Union
<1>6. Cardinality(Marking' \cap Sending') = 0
  BY <1>1, FS_EmptySet
<1> QED
  BY <1>2, <1>4, <1>5, <1>6

LEMMA CallsignStep ==
  ASSUME CallsignAssumption, CallsignInv, [Callsigns!Next]_(Callsigns!callsignVars)
  PROVE  CallsignInv'
<1> USE DEF PollType
<1>0. /\ callsign \in {"assigned", "other"}
      /\ latch \in [first : BOOLEAN, notified : BOOLEAN]
      /\ poll \in PollType
      /\ holder \subseteq Pollers /\ told \in Nat
      /\ spent \in [slips : 0 .. MaxSlips, faults : 0 .. MaxPollFaults]
      /\ astray \in [unmarked : BOOLEAN, overlap : BOOLEAN]
      /\ CallsignTyped
  BY DEF CallsignInv, CallsignTyped
<1>n. NoticesCounted
  BY DEF CallsignInv
<1>f. spent.faults \in Nat /\ Cardinality(Pollers) \in Nat /\ told \in Nat
  BY <1>0, FS_CardinalityType DEF CallsignAssumption
<1>s. \A b \in 0 .. MaxPollFaults : b < MaxPollFaults => b + 1 \in 0 .. MaxPollFaults
  BY DEF CallsignAssumption
<1>p. ASSUME Callsigns!PollFault
      PROVE  /\ spent' \in [slips : 0 .. MaxSlips, faults : 0 .. MaxPollFaults]
             /\ spent'.faults = spent.faults + 1
  BY <1>0, <1>s, <1>p DEF Callsigns!PollFault
<1>a. addressed' \in BOOLEAN
  BY <1>0 DEF Callsigns!Next, Callsigns!Polls, Callsigns!callsignVars, Callsigns!ChangeCallsign, Callsigns!StartPoll,
     Callsigns!Fetch, Callsigns!RecordAcceptable, Callsigns!RecordMismatch, Callsigns!SendNotice, Callsigns!MarkNotified,
     Callsigns!LoseSession, Callsigns!PollFails, CallsignTyped
<1>1. CASE Callsigns!ChangeCallsign
  <2>1. UNCHANGED <<latch, poll, holder, told, astray>> /\ callsign' \in {"assigned", "other"}
        /\ spent' \in [slips : 0 .. MaxSlips, faults : 0 .. MaxPollFaults] /\ spent'.faults = spent.faults
    BY <1>0, <1>1 DEF Callsigns!ChangeCallsign, CallsignAssumption
  <2>2. Sending' = Sending /\ Marking' = Marking
    BY <2>1 DEF Sending, Marking
  <2> QED
    BY <1>0, <1>a, <2>1, <2>2 DEF CallsignInv, CallsignTyped, NoticesCounted, InTurn
<1>2. ASSUME NEW p \in Pollers, Callsigns!StartPoll(p) PROVE CallsignInv'
  <2>1. /\ UNCHANGED <<callsign, latch, told, spent>> /\ holder' = {p} /\ poll[p] = "idle"
        /\ poll' = [poll EXCEPT ![p] = "fetch"]
        /\ astray' = [astray EXCEPT !.overlap = @ \/ Callsigns!Polling # {}]
    BY <1>2 DEF Callsigns!StartPoll
  <2>m. PollMoved(p, "fetch")
    BY <1>0, <2>1, PollMoves
  <2>2. /\ poll' \in PollType
        /\ poll'[p] = "fetch" /\ \A q \in Pollers \ {p} : poll'[q] = poll[q]
        /\ Cardinality(Sending') = Cardinality(Sending) /\ Cardinality(Marking') = Cardinality(Marking)
    BY <1>0, <2>1, <2>m DEF PollMoved
  <2>3. Sending' = Sending /\ Marking' = Marking
    BY <2>1, <2>2 DEF Sending, Marking
  <2>4. CallsignTyped'
    BY <1>0, <1>a, <2>1, <2>2 DEF CallsignTyped
  <2>5. NoticesCounted'
    BY <1>n, <2>1, <2>2 DEF NoticesCounted
  <2>6. ~astray'.overlap => InTurn'
    <3> SUFFICES ASSUME ~astray'.overlap PROVE InTurn'
      OBVIOUS
    <3>1. ~astray.overlap /\ Callsigns!Polling = {} /\ astray'.unmarked = astray.unmarked
      BY <1>0, <2>1
    <3>2. \A q \in Pollers : poll[q] = "idle"
      BY <3>1 DEF Callsigns!Polling
    <3> QED
      BY <2>1, <2>2, <2>3, <3>1, <3>2 DEF CallsignInv, InTurn
  <2> QED
    BY <2>4, <2>5, <2>6 DEF CallsignInv
<1>3. ASSUME NEW p \in Pollers, Callsigns!Fetch(p) PROVE CallsignInv'
  <2>1. UNCHANGED <<callsign, latch, holder, told, spent, astray>> /\ poll[p] = "fetch"
        /\ poll' = [poll EXCEPT ![p] = callsign]
    BY <1>3 DEF Callsigns!Fetch
  <2>m. PollMoved(p, callsign)
    BY <1>0, <2>1, PollMoves
  <2>2. /\ poll' \in PollType
        /\ poll'[p] = callsign /\ \A q \in Pollers \ {p} : poll'[q] = poll[q]
    BY <1>0, <2>1, <2>m DEF PollMoved
  <2>3. Sending' = Sending /\ Marking' = Marking
    BY <1>0, <2>1, <2>2 DEF Sending, Marking
  <2> QED
    BY <1>0, <1>a, <2>1, <2>2, <2>3 DEF CallsignInv, CallsignTyped, NoticesCounted, InTurn
<1>4. ASSUME NEW p \in Pollers, Callsigns!RecordAcceptable(p) PROVE CallsignInv'
  <2>1. UNCHANGED <<callsign, spent, astray>> /\ poll[p] = "assigned" /\ told' = 0
        /\ latch' = [first |-> FALSE, notified |-> FALSE]
        /\ poll' = [poll EXCEPT ![p] = "idle"] /\ holder' = holder \ {p}
    BY <1>4 DEF Callsigns!RecordAcceptable, Callsigns!Done
  <2>m. PollMoved(p, "idle")
    BY <1>0, <2>1, PollMoves
  <2>2. /\ poll' \in PollType
        /\ poll'[p] = "idle" /\ \A q \in Pollers \ {p} : poll'[q] = poll[q]
        /\ Cardinality(Sending') = Cardinality(Sending) /\ Cardinality(Marking') = Cardinality(Marking)
        /\ Cardinality(Sending) \in Nat /\ Cardinality(Marking) \in Nat
    BY <1>0, <2>1, <2>m DEF PollMoved
  <2>3. CallsignTyped'
    BY <1>0, <1>a, <2>1, <2>2 DEF CallsignTyped
  <2>4. NoticesCounted'
    BY <1>n, <1>f, <2>1, <2>2 DEF NoticesCounted
  <2>5. ~astray'.overlap => InTurn'
    <3> SUFFICES ASSUME ~astray'.overlap PROVE InTurn'
      OBVIOUS
    <3>1. \A q \in Pollers \ {p} : poll[q] = "idle"
      BY <2>1 DEF CallsignInv, InTurn
    <3>2. \A q \in Pollers : poll'[q] = "idle"
      BY <2>2, <3>1
    <3> QED
      BY <2>1, <3>2 DEF InTurn, Sending, Marking
  <2> QED
    BY <2>3, <2>4, <2>5 DEF CallsignInv
<1>5. ASSUME NEW p \in Pollers, Callsigns!RecordMismatch(p) PROVE CallsignInv'
  <2>1. UNCHANGED <<callsign, told, spent, astray>> /\ poll[p] = "other"
        /\ latch' = [latch EXCEPT !.first = TRUE]
        /\ poll' = [poll EXCEPT ![p] = IF latch.notified \/ ~addressed THEN "idle" ELSE "send"]
        /\ holder' \subseteq Pollers
    BY <1>0, <1>5 DEF Callsigns!RecordMismatch, Callsigns!Done
  <2>2. /\ poll' \in PollType
        /\ poll'[p] = (IF latch.notified \/ ~addressed THEN "idle" ELSE "send") /\ \A q \in Pollers \ {p} : poll'[q] = poll[q]
        /\ Cardinality(Sending) \in Nat /\ Cardinality(Sending') \in Nat /\ Cardinality(Marking) \in Nat
        /\ Cardinality(Sending') = Cardinality(Sending) + (IF latch.notified \/ ~addressed THEN 0 ELSE 1)
        /\ Cardinality(Marking') = Cardinality(Marking)
    <3>1. CASE latch.notified \/ ~addressed
      <4>1. PollMoved(p, "idle")
        BY <1>0, <2>1, <3>1, PollMoves
      <4> QED
        BY <1>0, <2>1, <3>1, <4>1 DEF PollMoved
    <3>2. CASE ~(latch.notified \/ ~addressed)
      <4>1. PollMoved(p, "send")
        BY <1>0, <2>1, <3>2, PollMoves
      <4> QED
        BY <1>0, <2>1, <3>2, <4>1 DEF PollMoved
    <3> QED
      BY <3>1, <3>2
  <2>3. CallsignTyped' /\ latch'.first /\ latch'.notified = latch.notified
    BY <1>0, <1>a, <2>1, <2>2 DEF CallsignTyped
  <2>4. NoticesCounted'
    <3>1. CASE latch.notified \/ ~addressed
      BY <1>n, <2>1, <2>2, <2>3, <3>1 DEF NoticesCounted
    <3>2. CASE ~(latch.notified \/ ~addressed)
      <4>1. Cardinality(Marking') + Cardinality(Sending') <= Cardinality(Pollers)
        BY <2>2, PollsInFlight DEF CallsignAssumption
      <4> QED
        BY <1>n, <1>f, <2>1, <2>2, <2>3, <3>2, <4>1 DEF NoticesCounted
    <3> QED
      BY <3>1, <3>2
  <2>5. ~astray'.overlap => InTurn'
    <3> SUFFICES ASSUME ~astray'.overlap PROVE InTurn'
      OBVIOUS
    <3>1. InTurn /\ astray' = astray /\ told' = told /\ poll[p] # "idle"
      BY <2>1 DEF CallsignInv
    <3>2. \A q \in Pollers \ {p} : poll[q] = "idle"
      BY <3>1 DEF InTurn
    <3>3. Marking = {} /\ Marking' = {} /\ Sending' \subseteq {p}
      BY <2>1, <2>2, <3>2 DEF Marking, Sending
    <3>4. ~astray.unmarked /\ ~latch.notified => told = 0
      BY <1>0, <3>1, <3>3 DEF InTurn
    <3>5. \A q, r \in Pollers : poll'[q] # "idle" /\ poll'[r] # "idle" => q = r
      BY <2>2, <3>2
    <3>6. Sending' # {} => ~latch.notified
      BY <2>2, <3>3 DEF Sending
    <3> QED
      BY <2>3, <3>1, <3>3, <3>4, <3>5, <3>6 DEF InTurn
  <2> QED
    BY <2>3, <2>4, <2>5 DEF CallsignInv
<1>6. ASSUME NEW p \in Pollers, Callsigns!SendNotice(p) PROVE CallsignInv'
  <2>0. poll[p] = "send" /\ UNCHANGED <<callsign, latch, astray>>
    BY <1>6 DEF Callsigns!SendNotice
  <2>1. CASE told' = told + 1 /\ poll' = [poll EXCEPT ![p] = "mark"] /\ UNCHANGED <<holder, spent>>
    <3>m. PollMoved(p, "mark")
      BY <1>0, <2>0, <2>1, PollMoves
    <3>2. /\ poll' \in PollType
          /\ poll'[p] = "mark" /\ \A q \in Pollers \ {p} : poll'[q] = poll[q]
          /\ Cardinality(Sending) \in Nat /\ Cardinality(Sending') \in Nat /\ Cardinality(Marking) \in Nat
          /\ Cardinality(Sending') + 1 = Cardinality(Sending)
          /\ Cardinality(Marking') = Cardinality(Marking) + 1
      BY <1>0, <2>0, <2>1, <3>m DEF PollMoved
    <3>3. CallsignTyped'
      BY <1>0, <1>a, <2>0, <2>1, <3>2 DEF CallsignTyped
    <3>4. NoticesCounted'
      BY <1>n, <1>f, <2>0, <2>1, <3>2 DEF NoticesCounted
    <3>5. ~astray'.overlap => InTurn'
      <4> SUFFICES ASSUME ~astray'.overlap PROVE InTurn'
        OBVIOUS
      <4>1. InTurn /\ \A q \in Pollers \ {p} : poll[q] = "idle"
        BY <2>0 DEF CallsignInv, InTurn
      <4>2. p \in Sending /\ Sending' = {} /\ Marking' = {p}
        BY <2>0, <3>2, <4>1 DEF Sending, Marking
      <4>3. ~astray.unmarked => told' = 1
        BY <1>f, <2>1, <4>1, <4>2 DEF InTurn
      <4> QED
        BY <2>0, <3>2, <4>1, <4>2, <4>3 DEF InTurn
    <3> QED
      BY <3>3, <3>4, <3>5 DEF CallsignInv
  <2>2. CASE Callsigns!PollFault /\ Callsigns!Done(p) /\ UNCHANGED told
    <3>1. poll' = [poll EXCEPT ![p] = "idle"] /\ holder' = holder \ {p}
      BY <2>2 DEF Callsigns!Done
    <3>m. PollMoved(p, "idle")
      BY <1>0, <2>0, <3>1, PollMoves
    <3>2. /\ poll' \in PollType
          /\ poll'[p] = "idle" /\ \A q \in Pollers \ {p} : poll'[q] = poll[q]
          /\ Cardinality(Sending) \in Nat /\ Cardinality(Sending') \in Nat /\ Cardinality(Marking) \in Nat
          /\ Cardinality(Sending') + 1 = Cardinality(Sending)
          /\ Cardinality(Marking') = Cardinality(Marking)
      BY <1>0, <2>0, <3>1, <3>m DEF PollMoved
    <3>3. CallsignTyped'
      BY <1>0, <1>a, <1>p, <2>0, <2>2, <3>1, <3>2 DEF CallsignTyped
    <3>4. NoticesCounted'
      BY <1>n, <1>f, <1>p, <2>0, <2>2, <3>2 DEF NoticesCounted
    <3>5. ~astray'.overlap => InTurn'
      <4> SUFFICES ASSUME ~astray'.overlap PROVE InTurn'
        OBVIOUS
      <4>1. InTurn /\ \A q \in Pollers \ {p} : poll[q] = "idle"
        BY <2>0 DEF CallsignInv, InTurn
      <4>2. p \in Sending /\ Sending' = {} /\ Marking' = {} /\ \A q \in Pollers : poll'[q] = "idle"
        BY <2>0, <3>2, <4>1 DEF Sending, Marking
      <4> QED
        BY <1>f, <2>0, <2>2, <4>1, <4>2 DEF InTurn
    <3> QED
      BY <3>3, <3>4, <3>5 DEF CallsignInv
  <2> QED
    BY <1>6, <2>1, <2>2 DEF Callsigns!SendNotice
<1>7. ASSUME NEW p \in Pollers, Callsigns!MarkNotified(p) PROVE CallsignInv'
  <2>0. /\ poll[p] = "mark" /\ UNCHANGED <<callsign, told>>
        /\ poll' = [poll EXCEPT ![p] = "idle"] /\ holder' = holder \ {p}
    BY <1>7 DEF Callsigns!MarkNotified, Callsigns!Done
  <2>m. PollMoved(p, "idle")
    BY <1>0, <2>0, PollMoves
  <2>2. /\ poll' \in PollType
        /\ poll'[p] = "idle" /\ \A q \in Pollers \ {p} : poll'[q] = poll[q]
        /\ Cardinality(Sending) \in Nat /\ Cardinality(Marking) \in Nat /\ Cardinality(Marking') \in Nat
        /\ Cardinality(Sending') = Cardinality(Sending)
        /\ Cardinality(Marking') + 1 = Cardinality(Marking)
    BY <1>0, <2>0, <2>m DEF PollMoved
  <2>3. ~astray.overlap => /\ InTurn /\ \A q \in Pollers : poll'[q] = "idle"
                           /\ p \in Marking /\ Sending' = {} /\ Marking' = {}
    BY <2>0, <2>2 DEF CallsignInv, InTurn, Sending, Marking
  <2>4. CASE latch' = [latch EXCEPT !.notified = TRUE] /\ UNCHANGED <<spent, astray>>
    <3>1. CallsignTyped' /\ latch'.notified /\ latch'.first = latch.first
      BY <1>0, <1>a, <2>0, <2>2, <2>4 DEF CallsignTyped
    <3>2. NoticesCounted'
      BY <1>n, <1>f, <2>0, <2>2, <2>4, <3>1 DEF NoticesCounted
    <3>3. ~astray'.overlap => InTurn'
      <4> SUFFICES ASSUME ~astray'.overlap PROVE InTurn'
        OBVIOUS
      <4>1. InTurn /\ latch.first
        BY <2>0, <2>3, <2>4 DEF InTurn
      <4> QED
        BY <2>0, <2>3, <2>4, <3>1, <4>1 DEF InTurn
    <3> QED
      BY <3>1, <3>2, <3>3 DEF CallsignInv
  <2>5. CASE Callsigns!PollFault /\ astray' = [astray EXCEPT !.unmarked = TRUE] /\ UNCHANGED latch
    <3>1. CallsignTyped' /\ astray'.unmarked /\ astray'.overlap = astray.overlap
      BY <1>0, <1>a, <1>p, <2>0, <2>2, <2>5 DEF CallsignTyped
    <3>2. NoticesCounted'
      BY <1>n, <1>f, <1>p, <2>0, <2>2, <2>5 DEF NoticesCounted
    <3>3. ~astray'.overlap => InTurn'
      BY <2>3, <2>5, <3>1 DEF InTurn
    <3> QED
      BY <3>1, <3>2, <3>3 DEF CallsignInv
  <2> QED
    BY <1>7, <2>4, <2>5 DEF Callsigns!MarkNotified
<1>8. ASSUME NEW p \in Pollers, Callsigns!LoseSession(p) PROVE CallsignInv'
  <2>1. /\ UNCHANGED <<callsign, latch, poll, told, astray>> /\ Callsigns!PollFault /\ holder' \subseteq Pollers
    BY <1>0, <1>8 DEF Callsigns!LoseSession
  <2>2. Sending' = Sending /\ Marking' = Marking
    BY <2>1 DEF Sending, Marking
  <2>3. Cardinality(Marking) \in Nat /\ Cardinality(Sending) \in Nat
    BY FS_Subset, FS_CardinalityType DEF Marking, Sending, CallsignAssumption
  <2>4. NoticesCounted'
    BY <1>n, <1>f, <1>p, <2>1, <2>2, <2>3 DEF NoticesCounted
  <2>5. CallsignTyped'
    BY <1>0, <1>a, <1>p, <2>1 DEF CallsignTyped
  <2> QED
    BY <2>1, <2>2, <2>4, <2>5 DEF CallsignInv, InTurn
<1>9. ASSUME NEW p \in Pollers, Callsigns!PollFails(p) PROVE CallsignInv'
  <2>1. /\ poll[p] # "idle" /\ Callsigns!PollFault /\ UNCHANGED <<callsign, latch, told>>
        /\ astray' = [astray EXCEPT !.unmarked = @ \/ poll[p] = "mark"]
        /\ poll' = [poll EXCEPT ![p] = "idle"] /\ holder' = holder \ {p}
    BY <1>9 DEF Callsigns!PollFails, Callsigns!Done
  <2>m. PollMoved(p, "idle")
    BY <1>0, <2>1, PollMoves
  <2>2. /\ poll' \in PollType
        /\ poll'[p] = "idle" /\ \A q \in Pollers \ {p} : poll'[q] = poll[q]
        /\ Cardinality(Sending) \in Nat /\ Cardinality(Sending') \in Nat
        /\ Cardinality(Marking) \in Nat /\ Cardinality(Marking') \in Nat
        /\ Cardinality(Sending') <= Cardinality(Sending)
        /\ Cardinality(Marking) <= Cardinality(Marking') + 1
    BY <1>0, <2>1, <2>m DEF PollMoved
  <2>3. CallsignTyped' /\ astray'.overlap = astray.overlap
        /\ (astray'.unmarked <=> astray.unmarked \/ poll[p] = "mark")
    BY <1>0, <1>a, <1>p, <2>1, <2>2 DEF CallsignTyped
  <2>4. NoticesCounted'
    BY <1>n, <1>f, <1>p, <2>1, <2>2 DEF NoticesCounted
  <2>5. ~astray'.overlap => InTurn'
    <3> SUFFICES ASSUME ~astray'.overlap PROVE InTurn'
      OBVIOUS
    <3>1. InTurn /\ \A q \in Pollers : poll'[q] = "idle"
      BY <2>1, <2>2, <2>3 DEF CallsignInv, InTurn
    <3>2. Sending' = {} /\ Marking' = {}
      BY <3>1 DEF Sending, Marking
    <3>3. poll[p] # "mark" => Marking = {}
      BY <2>1, <2>3 DEF CallsignInv, InTurn, Marking
    <3> QED
      BY <2>1, <2>3, <3>1, <3>2, <3>3 DEF InTurn
  <2> QED
    BY <2>3, <2>4, <2>5 DEF CallsignInv
<1>10. CASE UNCHANGED Callsigns!callsignVars
  BY <1>10 DEF Callsigns!callsignVars, CallsignInv, CallsignTyped, NoticesCounted, InTurn, Sending, Marking
<1> QED
  BY <1>1, <1>2, <1>3, <1>4, <1>5, <1>6, <1>7, <1>8, <1>9, <1>10 DEF Callsigns!Next, Callsigns!Polls

-----------------------------------------------------------------------------
(* The notices that a certificate expires.                                 *)

ExpiryAssumption == (\E n \in Nat \ {0} : Tiers = 1 .. n) /\ MaxRunFaults \in Nat

LEMMA LeastNatural ==
  ASSUME NEW T \in SUBSET Nat, T # {}
  PROVE  \E n \in T : \A m \in T : n <= m
<1>1. PICK x \in T : \A y \in T : ~(<<y, x>> \in OpToRel(<, Nat))
  BY NatLessThanWellFounded, WFMin
<1>2. \A y \in T : ~(y < x)
  BY <1>1 DEF OpToRel
<1> QED
  BY <1>2

\* The most urgent of some tiers is one of them.
LEMMA MostUrgent ==
  ASSUME NEW n \in Nat, NEW S \in SUBSET (1 .. n), S # {}
  PROVE  Expiry!Max(S) \in S /\ \A t \in S : t <= Expiry!Max(S)
<1> DEFINE T == {n - t : t \in S}
<1>0. \A t \in S : t \in Nat /\ t <= n
  OBVIOUS
<1>1. T \in SUBSET Nat /\ T # {}
  <2>1. \A t \in S : n - t \in Nat
    BY <1>0
  <2> QED
    BY <2>1
<1>2. PICK k \in T : \A m \in T : k <= m
  BY <1>1, LeastNatural
<1>3. PICK x \in S : k = n - x
  OBVIOUS
<1>4. ASSUME NEW y \in S PROVE x >= y
  <2>1. n - x <= n - y
    BY <1>2, <1>3
  <2> QED
    BY <1>0, <2>1
<1>5. \E z \in S : \A y \in S : z >= y
  BY <1>4
<1>6. Expiry!Max(S) \in S /\ \A y \in S : Expiry!Max(S) >= y
  BY <1>5 DEF Expiry!Max
<1> QED
  BY <1>6

RunType == [pc : {"idle", "backlog", "send"}, tier : Tiers \cup {0}, backlog : SUBSET Tiers,
            to : SUBSET Recipients, ok : SUBSET Recipients]

\* A run speaks for the most urgent tier that was due, and its backlog for less.
RunSound(r) ==
  IF r.pc = "idle" THEN r = Expiry!NoRun
  ELSE /\ r.tier \in Tiers /\ r.tier <= due
       /\ \A b \in r.backlog : b < r.tier
       /\ r.ok \subseteq got[r.tier]

\* One run at a time, and nothing fails: a tier that is not resolved has been
\* sent to those only whom the run that is sending it has told.
Orderly ==
  /\ ~untidy.twice
  /\ \A v, w \in Notifiers : run[v].pc # "idle" /\ run[w].pc # "idle" => v = w
  /\ \A w \in Notifiers : run[w].pc # "idle" =>
       /\ run[w].tier \notin resolved
       /\ run[w].to \cap run[w].ok = {}
       /\ run[w].to \cup run[w].ok = Expiry!RecipientsOf(run[w].tier)
       /\ got[run[w].tier] = run[w].ok
  /\ \A t \in Tiers \ resolved :
       (\A w \in Notifiers : run[w].pc # "idle" => run[w].tier # t) => got[t] = {}

ExpiryInv ==
  /\ Expiry!TypeOK
  /\ \A w \in Notifiers : RunSound(run[w])
  /\ Expiry!ResolvedIsTold
  /\ ~untidy.cut /\ ~untidy.overlap /\ mailless = {} => Orderly

LEMMA ExpiryInvHolds == ExpiryInv => Expiry!TiersToldOnce
BY DEF ExpiryInv, Orderly, Expiry!TiersToldOnce, Expiry!NobodyTwice

LEMMA ExpiryInit == ASSUME ExpiryAssumption PROVE Expiry!Init => ExpiryInv
<1> SUFFICES ASSUME Expiry!Init PROVE ExpiryInv
  OBVIOUS
<1>1. /\ due = 0 /\ mailless \in SUBSET Recipients /\ resolved = {} /\ locked = {} /\ faults = 0
      /\ run = [w \in Notifiers |-> Expiry!NoRun] /\ got = [t \in Tiers |-> {}]
      /\ untidy = [twice |-> FALSE, overlap |-> FALSE, cut |-> FALSE]
  BY DEF Expiry!Init
<1>2. Expiry!NoRun \in RunType /\ Expiry!NoRun.pc = "idle"
  BY DEF Expiry!NoRun, RunType
<1>3. Expiry!TypeOK
  BY <1>1, <1>2 DEF Expiry!Init, Expiry!TypeOK, RunType, ExpiryAssumption
<1> QED
  BY <1>1, <1>2, <1>3 DEF ExpiryInv, RunSound, Orderly, Expiry!ResolvedIsTold

LEMMA ExpiryStep ==
  ASSUME ExpiryAssumption, ExpiryInv, [Expiry!Next]_(Expiry!certVars)
  PROVE  ExpiryInv'
<1>d. device' \in [seen : BOOLEAN, valid : BOOLEAN]
  BY DEF ExpiryInv, Expiry!TypeOK, Expiry!Next, Expiry!Runs, Expiry!certVars, Expiry!DaysPass, Expiry!DeviceIsSeen,
     Expiry!AccountChanges, Expiry!FindEligibleCandidates, Expiry!ResolveBacklog, Expiry!SendDigest, Expiry!MarkResolved,
     Expiry!RunLosesSession, Expiry!RunFails
<1>0. /\ due \in Tiers \cup {0} /\ mailless \subseteq Recipients /\ resolved \subseteq Tiers
      /\ device' \in [seen : BOOLEAN, valid : BOOLEAN]
      /\ run \in [Notifiers -> RunType] /\ locked \subseteq Notifiers
      /\ got \in [Tiers -> SUBSET Recipients] /\ faults \in 0 .. MaxRunFaults
      /\ untidy \in [twice : BOOLEAN, overlap : BOOLEAN, cut : BOOLEAN]
  BY <1>d DEF ExpiryInv, Expiry!TypeOK, RunType
<1>n. PICK n \in Nat \ {0} : Tiers = 1 .. n
  BY DEF ExpiryAssumption
<1>r. ASSUME NEW w \in Notifiers PROVE run[w] \in RunType /\ RunSound(run[w])
  BY <1>0 DEF ExpiryInv
<1>f. ASSUME Expiry!RunFault PROVE faults' \in 0 .. MaxRunFaults
  BY <1>0, <1>f DEF Expiry!RunFault, ExpiryAssumption
<1>i. Expiry!NoRun \in RunType /\ Expiry!NoRun.pc = "idle"
  BY DEF Expiry!NoRun, RunType
<1>1. CASE Expiry!DaysPass
  <2>1. UNCHANGED <<mailless, resolved, run, locked, got, faults, untidy>> /\ due' \in due + 1 .. Expiry!Max(Tiers)
    BY <1>1 DEF Expiry!DaysPass
  <2>2. Expiry!Max(Tiers) \in Tiers
    <3>1. 1 \in Tiers /\ Tiers \in SUBSET (1 .. n)
      BY <1>n
    <3> QED
      BY <3>1, MostUrgent
  <2>3. due' \in Tiers /\ due' > due
    BY <1>0, <1>n, <2>1, <2>2
  <2>4. Expiry!TypeOK'
    BY <1>0, <2>1, <2>3 DEF Expiry!TypeOK, RunType
  <2>5. Expiry!ResolvedIsTold'
    BY <1>0, <1>n, <2>1, <2>3 DEF ExpiryInv, Expiry!ResolvedIsTold, Expiry!Delivered, Expiry!RecipientsOf
  <2>6. ASSUME NEW w \in Notifiers PROVE RunSound(run[w])'
    BY <1>0, <1>n, <1>r, <2>1, <2>3 DEF RunSound
  <2>7. Orderly => Orderly'
    BY <2>1 DEF Orderly, Expiry!RecipientsOf
  <2> QED
    BY <2>1, <2>4, <2>5, <2>6, <2>7 DEF ExpiryInv
<1>2. ASSUME NEW w \in Notifiers, Expiry!FindEligibleCandidates(w) PROVE ExpiryInv'
  <2> DEFINE D == Expiry!DueUnresolved
             t == Expiry!Max(D)
             r == [pc |-> "backlog", tier |-> t, ok |-> {}, backlog |-> Expiry!Backlog(D), to |-> Expiry!RecipientsOf(t)]
  <2>1. /\ run[w] = Expiry!NoRun /\ D # {} /\ locked' = {w}
        /\ untidy' = [untidy EXCEPT !.overlap = @ \/ \E v \in Notifiers : run[v] # Expiry!NoRun]
        /\ run' = [run EXCEPT ![w] = r]
        /\ UNCHANGED <<due, mailless, resolved, got, faults>>
    BY <1>2 DEF Expiry!FindEligibleCandidates
  <2>2. D \in SUBSET (1 .. n) /\ \A d \in D : d <= due /\ d \notin resolved
    BY <1>0, <1>n DEF Expiry!DueUnresolved
  <2>3. t \in D /\ \A d \in D : d <= t
    BY <2>1, <2>2, MostUrgent
  <2>4. t \in Tiers /\ t <= due /\ t \notin resolved /\ D \in SUBSET Tiers
    BY <1>n, <2>2, <2>3
  <2>b. Expiry!Backlog(D) = D \ {t}
    BY DEF Expiry!Backlog
  <2>c. Expiry!RecipientsOf(t) \in SUBSET Recipients
    BY DEF Expiry!RecipientsOf
  <2> HIDE DEF D, t
  <2>5. r \in RunType /\ r.pc = "backlog" /\ r.tier = t /\ r.ok = {} /\ r.to = Expiry!RecipientsOf(t) /\ r.backlog = D \ {t}
    BY <2>4, <2>b, <2>c DEF RunType
  <2> HIDE DEF r
  <2>6. /\ run' \in [Notifiers -> RunType] /\ run'[w] = r /\ \A v \in Notifiers \ {w} : run'[v] = run[v]
    BY <1>0, <2>1, <2>5
  <2>7. Expiry!TypeOK'
    BY <1>0, <2>1, <2>6 DEF Expiry!TypeOK, RunType
  <2>8. ASSUME NEW v \in Notifiers PROVE RunSound(run[v])'
    <3>1. CASE v = w
      <4>1. \A b \in D \ {t} : b < t
        BY <1>n, <2>2, <2>3, <2>4
      <4> QED
        BY <2>1, <2>4, <2>5, <2>6, <3>1, <4>1 DEF RunSound
    <3>2. CASE v # w
      BY <1>r, <2>1, <2>6, <3>2 DEF RunSound
    <3> QED
      BY <3>1, <3>2
  <2>9. Expiry!ResolvedIsTold'
    BY <2>1 DEF ExpiryInv, Expiry!ResolvedIsTold, Expiry!Delivered, Expiry!RecipientsOf
  <2>10. ASSUME ~untidy'.cut, ~untidy'.overlap, mailless' = {} PROVE Orderly'
    <3>1. /\ ~untidy.cut /\ ~untidy.overlap /\ untidy'.twice = untidy.twice
          /\ \A v \in Notifiers : run[v] = Expiry!NoRun
      BY <1>0, <2>1, <2>10
    <3>2. Orderly /\ mailless = {}
      BY <2>1, <2>10, <3>1 DEF ExpiryInv
    <3>3. \A v \in Notifiers \ {w} : run'[v].pc = "idle"
      BY <1>i, <2>6, <3>1
    <3>4. \A d \in Tiers \ resolved : got[d] = {}
      BY <1>i, <3>1, <3>2 DEF Orderly
    <3>5. got[t] = {}
      BY <2>4, <3>4
    <3> QED
      BY <2>1, <2>4, <2>5, <2>6, <3>1, <3>2, <3>3, <3>4, <3>5 DEF Orderly, Expiry!RecipientsOf
  <2> QED
    BY <2>7, <2>8, <2>9, <2>10 DEF ExpiryInv
<1>3. ASSUME NEW w \in Notifiers, Expiry!ResolveBacklog(w) PROVE ExpiryInv'
  <2>1. /\ run[w].pc = "backlog" /\ resolved' = resolved \cup run[w].backlog
        /\ run' = [run EXCEPT ![w] = [run[w] EXCEPT !.pc = "send"]]
        /\ UNCHANGED <<due, mailless, locked, got, faults, untidy>>
    BY <1>3 DEF Expiry!ResolveBacklog
  <2> DEFINE r == run[w]
             s == [run[w] EXCEPT !.pc = "send"]
  <2>2. r \in RunType /\ r.tier \in Tiers /\ r.tier <= due /\ r.ok \subseteq got[r.tier]
        /\ r.backlog \subseteq Tiers /\ \A b \in r.backlog : b < r.tier
    BY <1>r, <2>1 DEF RunSound, RunType
  <2>3. s \in RunType /\ s.pc = "send" /\ s.tier = r.tier /\ s.backlog = r.backlog /\ s.to = r.to /\ s.ok = r.ok
    BY <2>2 DEF RunType
  <2>m. run' = [run EXCEPT ![w] = s]
    BY <2>1
  <2> HIDE DEF s
  <2>4. run' \in [Notifiers -> RunType] /\ run'[w] = s /\ \A v \in Notifiers \ {w} : run'[v] = run[v]
    BY <1>0, <2>m, <2>3
  <2>5. Expiry!TypeOK'
    BY <1>0, <2>1, <2>2, <2>4 DEF Expiry!TypeOK, RunType
  <2>6. ASSUME NEW v \in Notifiers PROVE RunSound(run[v])'
    BY <1>r, <2>1, <2>2, <2>3, <2>4 DEF RunSound
  <2>8. \E u \in Tiers : u >= r.tier /\ (Expiry!Delivered(u) \/ (u <= due /\ u \notin resolved'))
    <3>1. CASE r.tier \notin resolved
      BY <1>n, <2>1, <2>2, <3>1
    <3>2. CASE r.tier \in resolved
      <4>1. PICK u \in Tiers : u >= r.tier /\ (Expiry!Delivered(u) \/ (u > r.tier /\ u <= due /\ u \notin resolved))
        BY <3>2 DEF ExpiryInv, Expiry!ResolvedIsTold
      <4> QED
        BY <1>n, <2>1, <2>2, <4>1
    <3> QED
      BY <3>1, <3>2
  <2>9. ASSUME NEW b \in resolved'
        PROVE  \E u \in Tiers : u >= b /\ (Expiry!Delivered(u) \/ (u > b /\ u <= due /\ u \notin resolved'))
    <3>1. b \in Tiers /\ \A u \in Tiers : u \in Nat
      BY <1>0, <1>n, <2>1, <2>2, <2>9
    <3>2. CASE b < r.tier
      BY <2>2, <2>8, <3>1, <3>2
    <3>3. CASE ~(b < r.tier)
      <4>1. b \in resolved
        BY <2>1, <2>2, <2>9, <3>3
      <4>2. PICK u \in Tiers : u >= b /\ (Expiry!Delivered(u) \/ (u > b /\ u <= due /\ u \notin resolved))
        BY <4>1 DEF ExpiryInv, Expiry!ResolvedIsTold
      <4>3. u > b => u \notin r.backlog
        BY <2>2, <3>1, <3>3, <4>2
      <4> QED
        BY <2>1, <4>2, <4>3
    <3> QED
      BY <3>2, <3>3
  <2>10. Expiry!ResolvedIsTold'
    BY <2>1, <2>9 DEF Expiry!ResolvedIsTold, Expiry!Delivered, Expiry!RecipientsOf
  <2>11. ASSUME ~untidy'.cut, ~untidy'.overlap, mailless' = {} PROVE Orderly'
    <3>1. Orderly
      BY <2>1, <2>11 DEF ExpiryInv
    <3>2. r.tier \notin r.backlog
      BY <1>n, <2>2
    <3>3. \A v \in Notifiers : run'[v].pc # "idle" <=> run[v].pc # "idle"
      BY <2>1, <2>3, <2>4
    <3>4. \A v \in Notifiers : run'[v].tier = run[v].tier /\ run'[v].to = run[v].to /\ run'[v].ok = run[v].ok
      BY <2>3, <2>4
    <3>5. \A v \in Notifiers : run[v].pc # "idle" => v = w
      BY <2>1, <3>1 DEF Orderly
    <3> QED
      BY <2>1, <3>1, <3>2, <3>3, <3>4, <3>5 DEF Orderly, Expiry!RecipientsOf
  <2> QED
    BY <2>5, <2>6, <2>10, <2>11 DEF ExpiryInv
<1>4. ASSUME NEW w \in Notifiers, NEW a \in Recipients, Expiry!SendDigest(w, a) PROVE ExpiryInv'
  <2> DEFINE r == run[w]
             t == run[w].tier
  <2>0. /\ r.pc = "send" /\ a \in r.to /\ UNCHANGED <<due, mailless, resolved, locked>>
    BY <1>4 DEF Expiry!SendDigest
  <2>r. r \in RunType /\ t \in Tiers /\ t <= due /\ r.ok \subseteq got[t] /\ \A b \in r.backlog : b < t
    BY <1>r, <2>0 DEF RunSound
  <2>1. CASE /\ a \notin mailless
             /\ run' = [run EXCEPT ![w].to = @ \ {a}, ![w].ok = @ \cup {a}]
             /\ got' = [got EXCEPT ![t] = @ \cup {a}]
             /\ untidy' = [untidy EXCEPT !.twice = @ \/ a \in got[t]]
             /\ UNCHANGED faults
    <3> DEFINE s == [r EXCEPT !.to = @ \ {a}, !.ok = @ \cup {a}]
    <3>1. s \in RunType /\ s.pc = "send" /\ s.tier = t /\ s.backlog = r.backlog /\ s.to = r.to \ {a} /\ s.ok = r.ok \cup {a}
      BY <2>r, <2>0 DEF RunType
    <3>2. run' = [run EXCEPT ![w] = s]
      BY <1>0, <2>1
    <3> HIDE DEF s
    <3>3. run' \in [Notifiers -> RunType] /\ run'[w] = s /\ \A v \in Notifiers \ {w} : run'[v] = run[v]
      BY <1>0, <3>1, <3>2
    <3>4. /\ got' \in [Tiers -> SUBSET Recipients] /\ got'[t] = got[t] \cup {a}
          /\ \A u \in Tiers \ {t} : got'[u] = got[u]
      BY <1>0, <2>1, <2>r
    <3>5. /\ untidy' \in [twice : BOOLEAN, overlap : BOOLEAN, cut : BOOLEAN]
          /\ untidy'.cut = untidy.cut /\ untidy'.overlap = untidy.overlap
          /\ (untidy'.twice <=> untidy.twice \/ a \in got[t])
      BY <1>0, <2>1
    <3>6. Expiry!TypeOK'
      BY <1>0, <2>0, <2>1, <3>3, <3>4, <3>5 DEF Expiry!TypeOK, RunType
    <3>7. \A u \in Tiers : got[u] \subseteq got'[u]
      BY <3>4
    <3>8. ASSUME NEW v \in Notifiers PROVE RunSound(run[v])'
      <4>1. CASE v = w
        BY <2>0, <2>r, <3>1, <3>3, <3>4, <4>1 DEF RunSound
      <4>2. CASE v # w
        BY <1>r, <2>0, <3>3, <3>7, <4>2 DEF RunSound
      <4> QED
        BY <4>1, <4>2
    <3>9. Expiry!ResolvedIsTold'
      BY <2>0, <3>7 DEF ExpiryInv, Expiry!ResolvedIsTold, Expiry!Delivered, Expiry!RecipientsOf
    <3>10. ASSUME ~untidy'.cut, ~untidy'.overlap, mailless' = {} PROVE Orderly'
      <4>1. Orderly
        BY <2>0, <3>5, <3>10 DEF ExpiryInv
      <4>2. got[t] = r.ok /\ a \notin r.ok /\ t \notin resolved
        BY <2>0, <4>1 DEF Orderly
      <4>3. \A v \in Notifiers : run'[v].pc = run[v].pc /\ run'[v].tier = run[v].tier
        BY <2>0, <3>1, <3>3
      <4>4. \A v \in Notifiers : run[v].pc # "idle" => v = w
        BY <2>0, <4>1 DEF Orderly
      <4>5. r.to \cap r.ok = {} /\ r.to \cup r.ok = Expiry!RecipientsOf(t)
        BY <2>0, <4>1 DEF Orderly
      <4>6. s.to \cap s.ok = {} /\ s.to \cup s.ok = Expiry!RecipientsOf(t) /\ got'[t] = s.ok
        BY <2>0, <3>1, <3>4, <4>2, <4>5
      <4>8. \A u \in Tiers \ resolved' :
              (\A v \in Notifiers : run'[v].pc # "idle" => run'[v].tier # u) => got'[u] = {}
        BY <2>0, <3>4, <4>1, <4>3 DEF Orderly
      <4>9. ~untidy'.twice
        BY <3>5, <4>1, <4>2 DEF Orderly
      <4> QED
        <5>1. ASSUME NEW v \in Notifiers, run'[v].pc # "idle"
              PROVE  /\ run'[v].tier \notin resolved'
                     /\ run'[v].to \cap run'[v].ok = {}
                     /\ run'[v].to \cup run'[v].ok = Expiry!RecipientsOf(run'[v].tier)
                     /\ got'[run'[v].tier] = run'[v].ok
          <6>1. v = w
            BY <4>3, <4>4, <5>1
          <6> QED
            BY <2>0, <3>1, <3>3, <4>2, <4>6, <6>1
        <5>2. \A u, v \in Notifiers : run'[u].pc # "idle" /\ run'[v].pc # "idle" => u = v
          BY <4>3, <4>4
        <5> QED
          BY <4>8, <4>9, <5>1, <5>2 DEF Orderly, Expiry!RecipientsOf
    <3> QED
      BY <3>6, <3>8, <3>9, <3>10 DEF ExpiryInv
  <2>2. CASE /\ IF a \in mailless THEN UNCHANGED <<faults, untidy>>
                ELSE Expiry!RunFault /\ untidy' = [untidy EXCEPT !.cut = TRUE]
             /\ run' = [run EXCEPT ![w].to = @ \ {a}]
             /\ UNCHANGED got
    <3> DEFINE s == [r EXCEPT !.to = @ \ {a}]
    <3>1. s \in RunType /\ s.pc = "send" /\ s.tier = t /\ s.backlog = r.backlog /\ s.ok = r.ok
      BY <2>r, <2>0 DEF RunType
    <3>2. run' = [run EXCEPT ![w] = s]
      BY <1>0, <2>2
    <3> HIDE DEF s
    <3>3. run' \in [Notifiers -> RunType] /\ run'[w] = s /\ \A v \in Notifiers \ {w} : run'[v] = run[v]
      BY <1>0, <3>1, <3>2
    <3>4. /\ untidy' \in [twice : BOOLEAN, overlap : BOOLEAN, cut : BOOLEAN] /\ faults' \in 0 .. MaxRunFaults
          /\ untidy'.cut \/ mailless # {}
      BY <1>0, <1>f, <2>2
    <3>5. Expiry!TypeOK'
      BY <1>0, <2>0, <2>2, <3>3, <3>4 DEF Expiry!TypeOK, RunType
    <3>6. ASSUME NEW v \in Notifiers PROVE RunSound(run[v])'
      <4>1. CASE v = w
        BY <2>0, <2>r, <2>2, <3>1, <3>3, <4>1 DEF RunSound
      <4>2. CASE v # w
        BY <1>r, <2>0, <2>2, <3>3, <4>2 DEF RunSound
      <4> QED
        BY <4>1, <4>2
    <3>7. Expiry!ResolvedIsTold'
      BY <2>0, <2>2 DEF ExpiryInv, Expiry!ResolvedIsTold, Expiry!Delivered, Expiry!RecipientsOf
    <3> QED
      BY <2>0, <3>4, <3>5, <3>6, <3>7 DEF ExpiryInv
  <2> QED
    BY <1>4, <2>1, <2>2 DEF Expiry!SendDigest
<1>5. ASSUME NEW w \in Notifiers, Expiry!MarkResolved(w) PROVE ExpiryInv'
  <2>1. run' = [run EXCEPT ![w] = Expiry!NoRun] /\ locked' = locked \ {w} /\ UNCHANGED <<due, mailless, got>>
    BY <1>5 DEF Expiry!MarkResolved, Expiry!EndRun
  <2>2. run' \in [Notifiers -> RunType] /\ run'[w] = Expiry!NoRun /\ \A v \in Notifiers \ {w} : run'[v] = run[v]
    BY <1>0, <1>i, <2>1
  <2>3. ASSUME NEW v \in Notifiers PROVE RunSound(run[v])'
    BY <1>i, <1>r, <2>1, <2>2 DEF RunSound
  <2> DEFINE t == run[w].tier
  <2>4. /\ run[w].pc = "send" /\ run[w].to = {} /\ UNCHANGED <<faults, untidy>>
        /\ resolved' = IF Expiry!EveryoneTold(w) THEN resolved \cup {t} ELSE resolved
    BY <1>5 DEF Expiry!MarkResolved
  <2>5. t \in Tiers /\ run[w].ok \subseteq got[t]
    BY <1>r, <2>4 DEF RunSound
  <2>6. Expiry!EveryoneTold(w) => Expiry!Delivered(t)
    BY <2>5 DEF Expiry!EveryoneTold, Expiry!Delivered
  <2>7. Expiry!TypeOK'
    BY <1>0, <2>1, <2>2, <2>4, <2>5 DEF Expiry!TypeOK, RunType
  <2>8. ASSUME NEW b \in resolved'
        PROVE  \E u \in Tiers : u >= b /\ (Expiry!Delivered(u) \/ (u > b /\ u <= due /\ u \notin resolved'))
    <3>1. t \in Nat
      BY <1>n, <2>5
    <3>2. CASE b \in resolved
      <4>1. PICK u \in Tiers : u >= b /\ (Expiry!Delivered(u) \/ (u > b /\ u <= due /\ u \notin resolved))
        BY <3>2 DEF ExpiryInv, Expiry!ResolvedIsTold
      <4> QED
        BY <2>4, <2>6, <4>1
    <3>3. CASE b \notin resolved
      BY <2>4, <2>5, <2>6, <2>8, <3>1, <3>3
    <3> QED
      BY <3>2, <3>3
  <2>9. Expiry!ResolvedIsTold'
    BY <2>1, <2>8 DEF Expiry!ResolvedIsTold, Expiry!Delivered, Expiry!RecipientsOf
  <2>10. ASSUME ~untidy'.cut, ~untidy'.overlap, mailless' = {} PROVE Orderly'
    <3>1. Orderly /\ untidy' = untidy
      BY <2>1, <2>4, <2>10 DEF ExpiryInv
    <3>2. \A v \in Notifiers : run'[v].pc = "idle"
      BY <1>i, <2>2, <2>4, <3>1 DEF Orderly
    <3>3. run[w].ok = Expiry!RecipientsOf(t) /\ got[t] = run[w].ok
      BY <2>4, <3>1 DEF Orderly
    <3>4. t \in resolved' \/ got[t] = {}
      BY <2>4, <3>3 DEF Expiry!EveryoneTold
    <3>5. \A u \in Tiers \ resolved' : got[u] = {}
      <4> SUFFICES ASSUME NEW u \in Tiers, u \notin resolved', u # t PROVE got[u] = {}
        BY <3>4
      <4>1. u \notin resolved
        BY <2>4
      <4>2. \A v \in Notifiers : run[v].pc # "idle" => run[v].tier # u
        BY <2>4, <3>1 DEF Orderly
      <4> QED
        BY <3>1, <4>1, <4>2 DEF Orderly
    <3> QED
      BY <2>1, <3>1, <3>2, <3>5 DEF Orderly
  <2> QED
    BY <2>3, <2>7, <2>9, <2>10 DEF ExpiryInv
<1>6. ASSUME NEW w \in Notifiers, Expiry!RunLosesSession(w) PROVE ExpiryInv'
  <2>1. /\ Expiry!RunFault /\ locked' \subseteq Notifiers
        /\ UNCHANGED <<due, mailless, resolved, run, got, untidy>>
    BY <1>0, <1>6 DEF Expiry!RunLosesSession
  <2>2. Expiry!TypeOK'
    BY <1>0, <1>f, <2>1 DEF Expiry!TypeOK, RunType
  <2> QED
    BY <2>1, <2>2 DEF ExpiryInv, RunSound, Orderly, Expiry!ResolvedIsTold, Expiry!Delivered, Expiry!RecipientsOf
<1>7. ASSUME NEW w \in Notifiers, Expiry!RunFails(w) PROVE ExpiryInv'
  <2>1. run' = [run EXCEPT ![w] = Expiry!NoRun] /\ locked' = locked \ {w} /\ UNCHANGED <<due, mailless, got>>
    BY <1>7 DEF Expiry!RunFails, Expiry!EndRun
  <2>2. run' \in [Notifiers -> RunType] /\ run'[w] = Expiry!NoRun /\ \A v \in Notifiers \ {w} : run'[v] = run[v]
    BY <1>0, <1>i, <2>1
  <2>3. ASSUME NEW v \in Notifiers PROVE RunSound(run[v])'
    BY <1>i, <1>r, <2>1, <2>2 DEF RunSound
  <2>4. Expiry!RunFault /\ untidy' = [untidy EXCEPT !.cut = TRUE] /\ UNCHANGED resolved
    BY <1>7 DEF Expiry!RunFails
  <2>5. untidy' \in [twice : BOOLEAN, overlap : BOOLEAN, cut : BOOLEAN] /\ untidy'.cut
    BY <1>0, <2>4
  <2>6. Expiry!TypeOK'
    BY <1>0, <1>f, <2>1, <2>2, <2>4, <2>5 DEF Expiry!TypeOK, RunType
  <2>7. Expiry!ResolvedIsTold'
    BY <2>1, <2>4 DEF ExpiryInv, Expiry!ResolvedIsTold, Expiry!Delivered, Expiry!RecipientsOf
  <2> QED
    BY <2>3, <2>5, <2>6, <2>7 DEF ExpiryInv
<1>9. CASE Expiry!DeviceIsSeen \/ Expiry!AccountChanges
  <2>1. UNCHANGED <<due, mailless, resolved, run, locked, got, faults, untidy>>
    BY <1>9 DEF Expiry!DeviceIsSeen, Expiry!AccountChanges
  <2> QED
    BY <1>0, <2>1 DEF ExpiryInv, RunSound, Orderly, Expiry!TypeOK, Expiry!ResolvedIsTold, Expiry!Delivered,
       Expiry!RecipientsOf
<1>8. CASE UNCHANGED Expiry!certVars
  BY <1>8 DEF Expiry!certVars, ExpiryInv, RunSound, Orderly, Expiry!TypeOK, Expiry!ResolvedIsTold, Expiry!Delivered,
     Expiry!RecipientsOf
<1> QED
  BY <1>1, <1>2, <1>3, <1>4, <1>5, <1>6, <1>7, <1>8, <1>9 DEF Expiry!Next, Expiry!Runs

-----------------------------------------------------------------------------
(* Both kinds of notices.                                                  *)

\* For any number of pollers and notifiers, tiers and recipients: one notice per
\* episode of a wrong callsign (CallsignPoller), and of a certificate no tier is
\* resolved for nothing or sent twice (CertExpiryNotificationService), unless
\* what the properties name happened: runs that overlapped, were cut off, or
\* had a recipient without an address.
THEOREM NoticesAreToldOnce ==
  ASSUME CallsignAssumption, ExpiryAssumption
  PROVE  Spec => []ToldOnce
<1> DEFINE Inv == (part = "callsigns" => CallsignInv) /\ (part = "expiry" => ExpiryInv)
<1>1. Init => Inv
  BY CallsignInit, ExpiryInit DEF Init
<1>2. Inv /\ [Next]_vars => Inv'
  <2> SUFFICES ASSUME Inv, [Next]_vars PROVE Inv'
    OBVIOUS
  <2>1. part' = part
    BY DEF Next, vars, OnlyBreaker, OnlyCallsigns, OnlyExpiry, OnlyChannels
  <2>2. part = "callsigns" => [Callsigns!Next]_(Callsigns!callsignVars)
    BY DEF Next, vars, callsignVars, Callsigns!callsignVars, OnlyBreaker, OnlyCallsigns, OnlyExpiry, OnlyChannels
  <2>3. part = "expiry" => [Expiry!Next]_(Expiry!certVars)
    BY DEF Next, vars, certVars, Expiry!certVars, OnlyBreaker, OnlyCallsigns, OnlyExpiry, OnlyChannels
  <2> QED
    BY <2>1, <2>2, <2>3, CallsignStep, ExpiryStep
<1>3. Inv => ToldOnce
  BY CallsignInvHolds, ExpiryInvHolds DEF ToldOnce
<1> QED
  BY <1>1, <1>2, <1>3, PTL DEF Spec

-----------------------------------------------------------------------------
(* The channels of teams and their groups.                                 *)

ChannelAssumption ==
  /\ Teams \subseteq Nat \ {0}
  /\ IsFiniteSet(Gids) /\ Gids = 1 .. Cardinality(Gids)
  /\ Names \cap {TeamGroups!NoName, TeamGroups!Unborn, TeamGroups!Deleted} = {}
  /\ MaxEdits \in Nat /\ MaxFaults \in Nat

Unrecorded == {"post", "lookup", "insert", "defer"}
Founders == Unrecorded \cup {"enqueue"}

ChanType == [name : Names, gid : Gids \cup {0}] \cup {TeamGroups!NoChan}
GroupType == [name : Names, desc : Names, by : Teams] \cup {TeamGroups!NoGroup}

\* A request knows its team and, once it has them, the name and the group.
WebRequest ==
  {w \in [pc : {"idle", "post", "lookup", "insert", "describe", "defer", "enqueue", "select", "update", "publish", "delete"},
          t : Teams \cup {0}, name : Names \cup {TeamGroups!NoName}, gid : Gids \cup {0}] :
     /\ w.pc = "idle" => w = TeamGroups!Idle
     /\ w.pc # "idle" => w.t \in Teams
     /\ w.pc \in Founders \cup {"describe", "update", "publish"} => w.name \in Names
     /\ w.pc \in {"insert", "describe"} => w.gid \in Gids
     /\ w.pc \notin {"insert", "describe", "delete"} => w.gid = 0}

\* An operation has its group as a removal or once it was read or made.
TeamOp ==
  {o \in [kind : {"reconcile", "rename", "describe", "remove"}, t : Teams, name : Names \cup {TeamGroups!NoName},
          gid : Gids \cup {0}, st : {"pending", "read", "made", "stuck"}, desc : Names \cup {TeamGroups!NoName}] :
     /\ o.kind \in {"reconcile", "rename"} => o.name \in Names
     /\ o.kind = "remove" => o.gid \in Gids /\ o.st \in {"pending", "stuck"}
     /\ o.kind # "remove" /\ o.st = "pending" => o.gid = 0
     /\ o.st = "made" => o.kind = "reconcile" /\ o.gid \in Gids
     /\ o.st = "read" => o.kind \in {"rename", "describe"} /\ o.gid \in Gids /\ o.desc \in Names}

ChannelsTyped ==
  /\ team \in [Teams -> Names \cup {TeamGroups!Unborn, TeamGroups!Deleted}]
  /\ chan \in [Teams -> ChanType]
  /\ group \in [Gids -> GroupType]
  /\ made \in 0 .. Cardinality(Gids)
  /\ web \in [Sessions -> WebRequest]
  /\ ops \in Seq(TeamOp)
  /\ used \in [edits : 0 .. MaxEdits, faults : 0 .. MaxFaults]
  /\ past \in [crossed : SUBSET Teams, lost : SUBSET Teams, taken : SUBSET Gids]

All(q) == {q[i] : i \in DOMAIN q}
OneReconcile(q) ==
  \A i, j \in DOMAIN q : q[i].kind = "reconcile" /\ q[j].kind = "reconcile" /\ q[i].t = q[j].t => i = j

HeldFor(g, t) ==
  \/ chan[t].gid = g
  \/ \E s \in Sessions : web[s].t = t /\ web[s].gid = g
  \/ \E o \in All(ops) : o.t = t /\ o.gid = g

\* The group is recorded, or the creation of t has it or is to find it by name.
OnItsWay(g, t) ==
  \/ chan[t].gid = g
  \/ \E s \in Sessions :
       /\ web[s].t = t /\ web[s].name = group[g].name
       /\ (web[s].pc = "insert" /\ web[s].gid = g) \/ web[s].pc \in {"defer", "enqueue"}
  \/ \E o \in All(ops) :
       /\ o.t = t /\ o.kind = "reconcile"
       /\ (o.st = "made" /\ o.gid = g) \/ (o.st = "pending" /\ o.name = group[g].name)

Alive(t) == team[t] \in Names
GroupsApart == \A g, h \in Gids : group[g] # TeamGroups!NoGroup /\ group[g].name = group[h].name => g = h

TeamFits(t) == chan[t] # TeamGroups!NoChan => Alive(t)

\* A team is created by one request, then by one operation, until it records a group.
RequestFits(s) ==
  LET t == web[s].t IN
  /\ web[s].pc # "idle" => team[t] # TeamGroups!Unborn
  /\ web[s].pc \in Unrecorded => chan[t] = TeamGroups!NoChan
  /\ web[s].pc = "enqueue" /\ Alive(t) => chan[t] # TeamGroups!NoChan /\ chan[t].gid = 0
  /\ web[s].pc \in Founders => \A r \in Sessions : web[r].t = t /\ web[r].pc \in Founders => r = s

OpFits(o) ==
  /\ team[o.t] # TeamGroups!Unborn
  /\ o.kind = "reconcile" =>
       /\ Alive(o.t) => chan[o.t] # TeamGroups!NoChan /\ chan[o.t].gid = 0
       /\ \A s \in Sessions : web[s].t = o.t => web[s].pc \notin Founders
  /\ o.kind \in {"rename", "describe"} /\ o.gid # 0 /\ Alive(o.t) => chan[o.t].gid = o.gid
  /\ o.kind = "remove" => ~Alive(o.t)

GroupFits(g) ==
  /\ group[g] # TeamGroups!NoGroup => g <= made /\ team[group[g].by] # TeamGroups!Unborn
  /\ \A t \in Teams : HeldFor(g, t) => g <= made

\* Until it is given to another, a group is in the hands of one team, exists
\* while that team does, and was made for it or for one that is gone.
Keeps(g, t) ==
  /\ \A u \in Teams : HeldFor(g, u) => u = t
  /\ Alive(t) => group[g] # TeamGroups!NoGroup
  /\ group[g] # TeamGroups!NoGroup => group[g].by = t \/ ~Alive(group[g].by)

HeldByOne == \A g \in Gids \ past.taken : \A t \in Teams : HeldFor(g, t) => Keeps(g, t)

NoneLeft ==
  \A g \in Gids \ past.taken :
    group[g] # TeamGroups!NoGroup /\ Alive(group[g].by) /\ group[g].by \notin past.lost => OnItsWay(g, group[g].by)

ChannelInv ==
  /\ ChannelsTyped /\ GroupsApart /\ OneReconcile(ops) /\ HeldByOne /\ NoneLeft
  /\ \A t \in Teams : TeamFits(t)
  /\ \A s \in Sessions : RequestFits(s)
  /\ \A o \in All(ops) : OpFits(o)
  /\ \A g \in Gids : GroupFits(g)

LEMMA ChannelCounts == \A S : TeamGroups!Cardinality(S) = Cardinality(S)
BY DEF TeamGroups!Cardinality, Cardinality, TeamGroups!IsFiniteSet, IsFiniteSet

LEMMA ChannelSize == ASSUME ChannelAssumption PROVE Cardinality(Gids) \in Nat /\ 0 \notin Gids /\ Gids \subseteq Nat
<1>1. Cardinality(Gids) \in Nat
  BY FS_CardinalityType DEF ChannelAssumption
<1> QED
  BY <1>1 DEF ChannelAssumption

LEMMA ChannelInvHolds == ASSUME ChannelAssumption PROVE ChannelInv => TeamGroups!ChannelGroupsSound
<1> SUFFICES ASSUME ChannelInv PROVE TeamGroups!ChannelGroupsSound
  OBVIOUS
<1>0. 0 \notin Gids /\ \A g \in Gids : g # 0
  BY ChannelSize
<1>1. TeamGroups!TypeOK
  <2>1. \A i \in DOMAIN ops : ops[i] \in TeamOp
    BY DEF ChannelInv, ChannelsTyped
  <2>2. web \in [Sessions -> WebRequest]
    BY DEF ChannelInv, ChannelsTyped
  <2> QED
    BY <2>1, <2>2, ChannelCounts DEF ChannelInv, ChannelsTyped, ChanType, GroupType, TeamOp, WebRequest, TeamGroups!TypeOK,
       TeamGroups!NoGid, TeamGroups!NoTeam
<1>2. ASSUME NEW t \in Teams, chan[t].gid # 0 PROVE chan[t].gid \in Gids /\ HeldFor(chan[t].gid, t)
  <2>1. chan[t] \in ChanType
    BY DEF ChannelInv, ChannelsTyped
  <2> QED
    BY <1>2, <2>1 DEF ChanType, TeamGroups!NoChan, TeamGroups!NoGid, HeldFor
<1>3. TeamGroups!OneChannelPerGroup
  BY <1>2 DEF ChannelInv, HeldByOne, Keeps, TeamGroups!OneChannelPerGroup, TeamGroups!NoGid
<1>4. TeamGroups!RecordedGroupsExist
  <2> SUFFICES ASSUME NEW t \in Teams, chan[t].gid # 0, chan[t].gid \notin past.taken
               PROVE  group[chan[t].gid] # TeamGroups!NoGroup
    BY DEF TeamGroups!RecordedGroupsExist, TeamGroups!NoGid
  <2>1. Alive(t)
    BY DEF ChannelInv, TeamFits, TeamGroups!NoChan, TeamGroups!NoGid
  <2> QED
    BY <1>2, <2>1 DEF ChannelInv, HeldByOne, Keeps
<1>5. TeamGroups!NoStrayGroup
  <2> SUFFICES ASSUME NEW g \in Gids \ past.taken, group[g] # TeamGroups!NoGroup,
                      group[g].by \in TeamGroups!Live \ past.lost
               PROVE  \/ \E t \in Teams : chan[t].gid = g
                      \/ TeamGroups!InHand(g) \/ TeamGroups!Busy(group[g].by)
    BY DEF TeamGroups!NoStrayGroup
  <2>1. OnItsWay(g, group[g].by) /\ group[g].by \in Teams
    BY DEF ChannelInv, NoneLeft, Alive, TeamGroups!Live
  <2> QED
    BY <2>1 DEF OnItsWay, All, TeamGroups!InHand, TeamGroups!Busy
<1> QED
  BY <1>1, <1>3, <1>4, <1>5 DEF TeamGroups!ChannelGroupsSound

LEMMA ChannelInit == ASSUME ChannelAssumption PROVE TeamGroups!Init => ChannelInv
<1> SUFFICES ASSUME TeamGroups!Init PROVE ChannelInv
  OBVIOUS
<1>0. Cardinality(Gids) \in Nat /\ 0 \notin Gids
  BY ChannelSize
<1>1. ChannelsTyped
  <2>1. TeamGroups!Idle \in WebRequest
    BY DEF WebRequest, Founders, Unrecorded, TeamGroups!Idle, TeamGroups!NoName, TeamGroups!NoTeam, TeamGroups!NoGid
  <2> QED
    BY <1>0, <2>1 DEF ChannelAssumption, ChannelsTyped, TeamGroups!Init, ChanType, GroupType
<1>2. All(ops) = {} /\ DOMAIN ops = {}
  BY DEF All, TeamGroups!Init
<1>3. \A g \in Gids, t \in Teams : ~HeldFor(g, t)
  BY <1>0, <1>2 DEF HeldFor, TeamGroups!Init, TeamGroups!Idle, TeamGroups!NoChan, TeamGroups!NoGid
<1> QED
  BY <1>1, <1>2, <1>3 DEF ChannelInv, GroupsApart, OneReconcile, HeldByOne, NoneLeft, TeamFits, RequestFits, GroupFits,
     Founders, Unrecorded, TeamGroups!Init, TeamGroups!Idle

\* A reconciliation of a team that has none queued, or any other operation.
FirstFor(q, o) == o.kind = "reconcile" => \A x \in All(q) : x.kind = "reconcile" => x.t # o.t

\* An operation appended, removed or changed in its place leaves the others.
LEMMA QueueGrows ==
  ASSUME NEW q \in Seq(TeamOp), NEW o \in TeamOp, NEW p, p = Append(q, o)
  PROVE  /\ p \in Seq(TeamOp) /\ All(p) = All(q) \cup {o}
         /\ OneReconcile(q) /\ FirstFor(q, o) => OneReconcile(p)
<1>1. /\ p \in Seq(TeamOp) /\ DOMAIN p = DOMAIN q \cup {Len(q) + 1} /\ p[Len(q) + 1] = o
      /\ \A i \in DOMAIN q : p[i] = q[i] /\ i # Len(q) + 1
  OBVIOUS
<1>2. All(p) = All(q) \cup {o}
  BY <1>1 DEF All
<1>3. ASSUME OneReconcile(q), FirstFor(q, o) PROVE OneReconcile(p)
  <2> SUFFICES ASSUME NEW i \in DOMAIN p, NEW j \in DOMAIN p, p[i].kind = "reconcile", p[j].kind = "reconcile", p[i].t = p[j].t
               PROVE  i = j
    BY DEF OneReconcile
  <2>1. \A k \in DOMAIN q : q[k] \in All(q)
    BY DEF All
  <2> QED
    BY <1>1, <1>3, <2>1 DEF OneReconcile, FirstFor
<1> QED
  BY <1>1, <1>2, <1>3

LEMMA QueueChanges ==
  ASSUME NEW q \in Seq(TeamOp), NEW i \in DOMAIN q, NEW x \in TeamOp, NEW p, p = [q EXCEPT ![i] = x],
         x.kind = q[i].kind, x.t = q[i].t
  PROVE  /\ p \in Seq(TeamOp) /\ x \in All(p) /\ All(p) \subseteq All(q) \cup {x}
         /\ \A o \in All(q) : o = q[i] \/ o \in All(p)
         /\ OneReconcile(q) => OneReconcile(p)
<1>1. p \in Seq(TeamOp) /\ DOMAIN p = DOMAIN q /\ p[i] = x /\ \A j \in DOMAIN q : j # i => p[j] = q[j]
  OBVIOUS
<1>2. \A j \in DOMAIN q : p[j].kind = q[j].kind /\ p[j].t = q[j].t
  BY <1>1
<1> QED
  BY <1>1, <1>2 DEF All, OneReconcile

LEMMA QueueShrinks ==
  ASSUME NEW q \in Seq(TeamOp), NEW i \in DOMAIN q, NEW p, p = TeamGroups!RemoveAt(q, i)
  PROVE  /\ p \in Seq(TeamOp) /\ All(p) \subseteq All(q)
         /\ \A o \in All(q) : o = q[i] \/ o \in All(p)
         /\ OneReconcile(q) =>
              /\ OneReconcile(p)
              /\ q[i].kind = "reconcile" => \A o \in All(p) : o.kind = "reconcile" => o.t # q[i].t
<1> DEFINE f == [j \in 1 .. Len(q) |-> IF j < i THEN j ELSE j + 1]
<1>1. i \in 1 .. Len(q) /\ Len(q) \in Nat /\ DOMAIN q = 1 .. Len(q)
  OBVIOUS
<1>2. p = SubSeq(q, 1, i - 1) \o SubSeq(q, i + 1, Len(q))
  BY DEF TeamGroups!RemoveAt
<1>a. PICK a : a = SubSeq(q, 1, i - 1)
  OBVIOUS
<1>b. PICK b : b = SubSeq(q, i + 1, Len(q))
  OBVIOUS
<1>c. a \in Seq(TeamOp) /\ Len(a) = i - 1 /\ \A j \in 1 .. i - 1 : a[j] = q[j]
  BY <1>1, <1>a
<1>d. b \in Seq(TeamOp) /\ Len(b) = Len(q) - i /\ \A j \in 1 .. Len(q) - i : b[j] = q[i + j]
  BY <1>1, <1>b
<1>e. /\ p \in Seq(TeamOp) /\ Len(p) = Len(a) + Len(b)
      /\ \A j \in 1 .. Len(a) : p[j] = a[j]
      /\ \A j \in 1 .. Len(b) : p[Len(a) + j] = b[j]
  <2>1. a \in Seq(TeamOp) /\ b \in Seq(TeamOp) /\ p = a \o b
    BY <1>2, <1>a, <1>b, <1>c, <1>d
  <2> QED
    BY <2>1, Joined
<1>3. Len(p) = Len(q) - 1 /\ DOMAIN p = 1 .. Len(q) - 1
  <2>1. Len(p) = Len(q) - 1
    BY <1>1, <1>c, <1>d, <1>e
  <2> QED
    BY <2>1, <1>e
<1>4. ASSUME NEW j \in 1 .. Len(q) - 1 PROVE p[j] = q[f[j]] /\ f[j] \in DOMAIN q \ {i}
  <2>1. CASE j < i
    <3>1. j \in 1 .. i - 1 /\ j \in 1 .. Len(a) /\ f[j] = j
      BY <2>1, <1>1, <1>c
    <3> QED
      BY <2>1, <3>1, <1>1, <1>c, <1>e
  <2>2. CASE ~(j < i)
    <3>1. PICK k : k = j - (i - 1)
      OBVIOUS
    <3>2. k \in 1 .. Len(q) - i /\ i + k = j + 1 /\ (i - 1) + k = j /\ f[j] = j + 1
      BY <2>2, <3>1, <1>1
    <3>3. k \in 1 .. Len(b) /\ Len(a) + k = j
      BY <3>2, <1>c, <1>d
    <3>4. p[j] = b[k] /\ b[k] = q[i + k]
      BY <3>2, <3>3, <1>d, <1>e
    <3>5. f[j] \in DOMAIN q \ {i}
      BY <2>2, <3>2, <1>1
    <3> QED
      BY <3>2, <3>4, <3>5
  <2> QED
    BY <2>1, <2>2
<1>5. \A j \in DOMAIN p : f[j] \in DOMAIN q \ {i} /\ q[f[j]] = p[j]
  BY <1>3, <1>4
<1>6. \A j, k \in DOMAIN p : f[j] = f[k] => j = k
  BY <1>1, <1>3
<1>7. ASSUME NEW k \in DOMAIN q \ {i} PROVE \E j \in DOMAIN p : p[j] = q[k]
  <2>1. PICK j \in 1 .. Len(q) - 1 : f[j] = k
    <3>1. CASE k < i
      BY <3>1, <1>1
    <3>2. CASE k > i
      <4>1. k - 1 \in 1 .. Len(q) - 1 /\ f[k - 1] = k
        BY <3>2, <1>1
      <4> QED
        BY <4>1
    <3>3. k < i \/ k > i
      BY <1>1
    <3> QED
      BY <3>1, <3>2, <3>3
  <2> QED
    BY <2>1, <1>3, <1>4
<1> HIDE DEF f
<1>8. All(p) \subseteq All(q)
  BY <1>5 DEF All
<1>9. \A o \in All(q) : o = q[i] \/ o \in All(p)
  BY <1>7 DEF All
<1>10. ASSUME OneReconcile(q)
       PROVE  /\ OneReconcile(p)
              /\ q[i].kind = "reconcile" => \A o \in All(p) : o.kind = "reconcile" => o.t # q[i].t
  <2>1. \A j, k \in DOMAIN q : q[j].kind = "reconcile" /\ q[k].kind = "reconcile" /\ q[j].t = q[k].t => j = k
    BY <1>10 DEF OneReconcile
  <2>2. OneReconcile(p)
    BY <1>5, <1>6, <2>1 DEF OneReconcile
  <2> QED
    BY <1>5, <2>1, <2>2 DEF All
<1> QED
  BY <1>e, <1>8, <1>9, <1>10

\* A team that is not created yet holds nothing.
LEMMA UnbornHoldsNone ==
  ASSUME ChannelAssumption, ChannelInv, NEW g \in Gids, NEW t \in Teams, HeldFor(g, t)
  PROVE  team[t] # TeamGroups!Unborn
<1>0. g # 0
  BY ChannelSize
<1>1. CASE chan[t].gid = g
  <2>1. chan[t] # TeamGroups!NoChan
    BY <1>0, <1>1 DEF TeamGroups!NoChan, TeamGroups!NoGid
  <2> QED
    BY <2>1 DEF ChannelInv, TeamFits, Alive, ChannelAssumption
<1>2. ASSUME NEW s \in Sessions, web[s].t = t, web[s].gid = g PROVE team[t] # TeamGroups!Unborn
  <2>1. web[s] \in WebRequest
    BY DEF ChannelInv, ChannelsTyped
  <2>2. web[s].pc # "idle"
    BY <1>0, <1>2, <2>1 DEF WebRequest
  <2> QED
    BY <1>2, <2>2 DEF ChannelInv, RequestFits
<1>3. ASSUME NEW o \in All(ops), o.t = t PROVE team[t] # TeamGroups!Unborn
  BY <1>3 DEF ChannelInv, OpFits
<1> QED
  BY <1>1, <1>2, <1>3 DEF HeldFor

\* A group found under its name.
Found(g, t) ==
  /\ group'[g] # TeamGroups!NoGroup
  /\ \/ g \in past'.taken
     \/ /\ \A u \in Teams : HeldFor(g, u) \/ HeldFor(g, u)' => u = t
        /\ group'[g].by = t \/ ~Alive(group[g].by)'

GroupStays(g) ==
  (group'[g] = TeamGroups!NoGroup <=> group[g] = TeamGroups!NoGroup) /\ group'[g].by = group[g].by

GroupGoes(g) ==
  /\ group'[g] = TeamGroups!NoGroup
  /\ g \in past'.taken \/ \A t \in Teams : Alive(t)' => ~HeldFor(g, t)'

GroupComes(g) ==
  /\ group[g] = TeamGroups!NoGroup /\ group'[g] # TeamGroups!NoGroup /\ g <= made'
  /\ team'[group'[g].by] # TeamGroups!Unborn /\ OnItsWay(g, group[g].by)'
  /\ \A t \in Teams : ~HeldFor(g, t) /\ (HeldFor(g, t)' => t = group'[g].by)

\* What a step has to keep.
LEMMA ChannelsKept ==
  ASSUME ChannelAssumption, ChannelInv, ChannelsTyped',
         past.taken \subseteq past'.taken, past.lost \subseteq past'.lost, made <= made',
         \A t \in Teams : /\ team'[t] = TeamGroups!Unborn => team[t] = TeamGroups!Unborn
                          /\ Alive(t)' => Alive(t) \/ team[t] = TeamGroups!Unborn,
         \A g \in Gids : GroupStays(g) \/ GroupGoes(g) \/ GroupComes(g),
         \A g \in Gids, t \in Teams : HeldFor(g, t)' => HeldFor(g, t) \/ GroupComes(g) \/ Found(g, t),
         \A g \in Gids \ past'.taken :
           \A t \in Teams :
             group[g] # TeamGroups!NoGroup /\ group[g].by = t /\ Alive(t) /\ Alive(t)' /\ OnItsWay(g, t)
               => OnItsWay(g, t)' \/ t \in past'.lost,
         GroupsApart', OneReconcile(ops)',
         (\A t \in Teams : TeamFits(t))', (\A s \in Sessions : RequestFits(s))', (\A o \in All(ops) : OpFits(o))'
  PROVE  ChannelInv'
<1>0. /\ Cardinality(Gids) \in Nat /\ Gids \subseteq Nat /\ made \in Nat /\ made' \in Nat
      /\ \A g \in Gids : group[g] \in GroupType /\ group'[g] \in GroupType
      /\ TeamGroups!Unborn \notin Names
  BY ChannelSize DEF ChannelInv, ChannelsTyped, ChannelAssumption
<1>1. \A g \in Gids : group[g] # TeamGroups!NoGroup => group[g].by \in Teams
  BY <1>0 DEF GroupType
<1>2. ASSUME NEW t \in Teams, team[t] # TeamGroups!Unborn PROVE team'[t] # TeamGroups!Unborn /\ (Alive(t)' => Alive(t))
  BY <1>2
<1>3. ASSUME NEW g \in Gids PROVE GroupFits(g)'
  <2>1. GroupFits(g)
    BY DEF ChannelInv
  <2>2. group'[g] # TeamGroups!NoGroup => g <= made' /\ team'[group'[g].by] # TeamGroups!Unborn
    <3>1. CASE GroupStays(g)
      BY <3>1, <1>0, <1>1, <1>2, <2>1 DEF GroupStays, GroupFits
    <3>2. CASE GroupGoes(g) \/ GroupComes(g)
      BY <3>2 DEF GroupGoes, GroupComes
    <3> QED
      BY <3>1, <3>2
  <2>3. ASSUME NEW t \in Teams, HeldFor(g, t)' PROVE g <= made'
    BY <1>0, <2>1, <2>2, <2>3 DEF GroupFits, GroupComes, Found
  <2> QED
    BY <2>2, <2>3 DEF GroupFits
<1>4. HeldByOne'
  <2> SUFFICES ASSUME NEW g \in Gids, g \notin past'.taken, NEW t \in Teams, HeldFor(g, t)' PROVE Keeps(g, t)'
    BY DEF HeldByOne
  <2>1. CASE GroupComes(g)
    <3>1. \A u \in Teams : HeldFor(g, u)' => u = t
      BY <2>1 DEF GroupComes
    <3>2. group'[g] # TeamGroups!NoGroup /\ group'[g].by = t
      BY <2>1 DEF GroupComes
    <3> QED
      BY <3>1, <3>2 DEF Keeps
  <2>2. CASE Found(g, t)
    BY <2>2 DEF Found, Keeps
  <2>3. CASE HeldFor(g, t) /\ ~GroupComes(g)
    <3>1. Keeps(g, t)
      BY <2>3 DEF ChannelInv, HeldByOne
    <3>2. ASSUME NEW u \in Teams, HeldFor(g, u)' PROVE u = t
      BY <2>3, <3>1, <3>2 DEF Keeps, Found
    <3>3. team[t] # TeamGroups!Unborn
      BY <2>3, UnbornHoldsNone
    <3>4. Alive(t)' => group'[g] # TeamGroups!NoGroup
      BY <2>3, <3>1, <3>3, <1>2 DEF Keeps, GroupStays, GroupGoes
    <3>5. group'[g] # TeamGroups!NoGroup => group'[g].by = t \/ ~Alive(group[g].by)'
      <4> SUFFICES ASSUME group'[g] # TeamGroups!NoGroup PROVE group'[g].by = t \/ ~Alive(group[g].by)'
        OBVIOUS
      <4>1. GroupStays(g)
        BY <2>3 DEF GroupGoes
      <4>2. group[g] # TeamGroups!NoGroup /\ team[group[g].by] # TeamGroups!Unborn /\ group[g].by \in Teams
        BY <4>1, <1>1 DEF GroupStays, ChannelInv, GroupFits
      <4> QED
        BY <3>1, <4>1, <4>2, <1>2 DEF Keeps, GroupStays
    <3> QED
      BY <3>2, <3>4, <3>5 DEF Keeps
  <2> QED
    BY <2>1, <2>2, <2>3
<1>5. NoneLeft'
  <2> SUFFICES ASSUME NEW g \in Gids, g \notin past'.taken, group'[g] # TeamGroups!NoGroup,
                      Alive(group[g].by)', group'[g].by \notin past'.lost
               PROVE  OnItsWay(g, group[g].by)'
    BY DEF NoneLeft
  <2>1. CASE GroupComes(g)
    BY <2>1 DEF GroupComes
  <2>2. CASE GroupStays(g)
    <3>1. group[g] # TeamGroups!NoGroup /\ group'[g].by = group[g].by /\ group[g].by \in Teams
      BY <2>2, <1>1 DEF GroupStays
    <3>2. Alive(group[g].by)
      BY <3>1, <1>2 DEF ChannelInv, GroupFits
    <3>3. OnItsWay(g, group[g].by)
      BY <3>1, <3>2 DEF ChannelInv, NoneLeft
    <3> QED
      BY <3>1, <3>2, <3>3
  <2> QED
    BY <2>1, <2>2 DEF GroupGoes
<1> QED
  BY <1>3, <1>4, <1>5 DEF ChannelInv

\* A step that creates no team, finds no group and records none.
LEMMA CreationsKept ==
  ASSUME ChannelAssumption, ChannelInv, ChannelsTyped',
         past.taken \subseteq past'.taken, past.lost \subseteq past'.lost, made' = made,
         \A t \in Teams : /\ team'[t] = TeamGroups!Unborn => team[t] = TeamGroups!Unborn
                          /\ Alive(t)' => Alive(t)
                          /\ IF Alive(t)'
                             THEN (chan'[t] = TeamGroups!NoChan <=> chan[t] = TeamGroups!NoChan) /\ chan'[t].gid = chan[t].gid
                             ELSE chan'[t] = TeamGroups!NoChan,
         \A g \in Gids : GroupStays(g) \/ GroupGoes(g),
         \A g \in Gids \ past'.taken :
           \/ group[g] = TeamGroups!NoGroup \/ group'[g].name = group[g].name
           \/ Alive(group[g].by) => chan[group[g].by].gid = g,
         GroupsApart', OneReconcile(ops)',
         \A s \in Sessions :
           \/ web'[s] = web[s]
           \/ /\ web[s].pc \notin Founders /\ web'[s].pc \notin Founders
              /\ web'[s].pc # "idle" => team[web'[s].t] # TeamGroups!Unborn
              /\ \A g \in Gids : web'[s].gid = g => HeldFor(g, web'[s].t),
         \A o \in All(ops') :
           \/ \E x \in All(ops) : x.t = o.t /\ x.kind = o.kind /\ x.gid = o.gid
           \/ /\ o.kind # "reconcile" /\ OpFits(o)'
              /\ \A g \in Gids : o.gid = g => HeldFor(g, o.t),
         \A o \in All(ops) : o.kind = "reconcile" => o \in All(ops') \/ o.t \in past'.lost
  PROVE  ChannelInv'
<1>0. /\ \A g \in Gids : g # 0
      /\ \A s \in Sessions : web[s] \in WebRequest /\ web'[s] \in WebRequest
      /\ \A o \in All(ops) : o \in TeamOp
      /\ \A o \in All(ops') : o \in TeamOp
      /\ made <= made'
      /\ \A t \in Teams : team[t] # TeamGroups!Unborn => team'[t] # TeamGroups!Unborn
  BY ChannelSize DEF ChannelInv, ChannelsTyped, All
<1>1. \A t \in Teams : TeamFits(t)'
  BY DEF TeamFits
<1>2. ASSUME NEW s \in Sessions PROVE RequestFits(s)'
  <2>1. web'[s].pc # "idle" => web'[s].t \in Teams /\ team'[web'[s].t] # TeamGroups!Unborn
    BY <1>0 DEF ChannelInv, RequestFits, WebRequest
  <2>2. CASE web'[s].pc \in Founders
    <3>1. web'[s] = web[s] /\ RequestFits(s) /\ web[s].t \in Teams
      BY <2>1, <2>2 DEF ChannelInv, Founders, Unrecorded
    <3>2. web[s].pc \in Unrecorded => chan'[web[s].t] = TeamGroups!NoChan
      BY <3>1 DEF RequestFits
    <3>3. web[s].pc = "enqueue" /\ Alive(web[s].t)' => chan'[web[s].t] # TeamGroups!NoChan /\ chan'[web[s].t].gid = 0
      BY <3>1 DEF RequestFits
    <3>4. ASSUME NEW r \in Sessions, web'[r].t = web'[s].t, web'[r].pc \in Founders PROVE r = s
      BY <2>2, <3>1, <3>4 DEF RequestFits
    <3>5. web[s].pc = "enqueue" /\ Alive(web[s].t)' <=> (web[s].pc = "enqueue" /\ Alive(web[s].t))'
      BY <3>1 DEF Alive
    <3> QED
      BY <2>1, <3>1, <3>2, <3>3, <3>4, <3>5 DEF RequestFits, Alive
  <2> QED
    BY <2>1, <2>2 DEF RequestFits, Founders
<1>3. ASSUME NEW o \in All(ops') PROVE OpFits(o)'
  <2>1. CASE \E x \in All(ops) : x.t = o.t /\ x.kind = o.kind /\ x.gid = o.gid
    <3>1. PICK x \in All(ops) : x.t = o.t /\ x.kind = o.kind /\ x.gid = o.gid
      BY <2>1
    <3>2. OpFits(x) /\ o.t \in Teams
      BY <1>0 DEF ChannelInv, TeamOp
    <3>3. ASSUME o.kind = "reconcile", NEW s \in Sessions, web'[s].t = o.t PROVE web'[s].pc \notin Founders
      BY <3>1, <3>2, <3>3 DEF OpFits
    <3> QED
      BY <3>1, <3>2, <3>3, <1>0 DEF OpFits
  <2> QED
    BY <2>1
<1>4. ASSUME NEW g \in Gids, NEW t \in Teams, HeldFor(g, t)' PROVE HeldFor(g, t)
  <2>1. CASE chan'[t].gid = g
    BY <2>1, <1>0 DEF HeldFor, TeamGroups!NoChan, TeamGroups!NoGid
  <2>2. ASSUME NEW s \in Sessions, web'[s].t = t, web'[s].gid = g PROVE HeldFor(g, t)
    BY <2>2 DEF HeldFor
  <2>3. ASSUME NEW o \in All(ops'), o.t = t, o.gid = g PROVE HeldFor(g, t)
    BY <2>3 DEF HeldFor
  <2> QED
    BY <1>4, <2>1, <2>2, <2>3 DEF HeldFor
<1>5. ASSUME NEW g \in Gids \ past'.taken, NEW t \in Teams, group[g] # TeamGroups!NoGroup, group[g].by = t,
             Alive(t), Alive(t)', OnItsWay(g, t)
      PROVE  OnItsWay(g, t)' \/ t \in past'.lost
  <2>1. CASE chan[t].gid = g
    BY <1>5, <2>1 DEF OnItsWay
  <2>2. CASE group'[g].name # group[g].name
    BY <1>5, <2>1, <2>2
  <2>3. CASE group'[g].name = group[g].name /\ \E s \in Sessions :
               /\ web[s].t = t /\ web[s].name = group[g].name
               /\ (web[s].pc = "insert" /\ web[s].gid = g) \/ web[s].pc \in {"defer", "enqueue"}
    <3>1. PICK s \in Sessions :
               /\ web[s].t = t /\ web[s].name = group[g].name
               /\ (web[s].pc = "insert" /\ web[s].gid = g) \/ web[s].pc \in {"defer", "enqueue"}
      BY <2>3
    <3>2. web'[s] = web[s]
      BY <3>1 DEF Founders, Unrecorded
    <3> QED
      BY <2>3, <3>1, <3>2 DEF OnItsWay
  <2>4. CASE group'[g].name = group[g].name /\ \E o \in All(ops) :
               /\ o.t = t /\ o.kind = "reconcile"
               /\ (o.st = "made" /\ o.gid = g) \/ (o.st = "pending" /\ o.name = group[g].name)
    BY <2>4 DEF OnItsWay
  <2> QED
    BY <1>5, <2>1, <2>2, <2>3, <2>4 DEF OnItsWay
<1> QED
  BY <1>0, <1>1, <1>2, <1>3, <1>4, <1>5, ChannelsKept

LEMMA BudgetKept ==
  ASSUME ChannelAssumption, ChannelsTyped, TeamGroups!Edit \/ TeamGroups!Fault \/ UNCHANGED used
  PROVE  used' \in [edits : 0 .. MaxEdits, faults : 0 .. MaxFaults]
<1>1. /\ used \in [edits : 0 .. MaxEdits, faults : 0 .. MaxFaults] /\ MaxEdits \in Nat /\ MaxFaults \in Nat
      /\ used.edits \in 0 .. MaxEdits /\ used.faults \in 0 .. MaxFaults
  BY DEF ChannelAssumption, ChannelsTyped
<1>2. CASE TeamGroups!Edit
  <2>1. used' = [used EXCEPT !.edits = used.edits + 1] /\ used.edits + 1 \in 0 .. MaxEdits
    BY <1>1, <1>2 DEF TeamGroups!Edit
  <2> QED
    BY <1>1, <2>1
<1>3. CASE TeamGroups!Fault
  <2>1. used' = [used EXCEPT !.faults = used.faults + 1] /\ used.faults + 1 \in 0 .. MaxFaults
    BY <1>1, <1>3 DEF TeamGroups!Fault
  <2> QED
    BY <1>1, <2>1
<1> QED
  BY <1>1, <1>2, <1>3

LEMMA RequestGoes ==
  ASSUME ChannelsTyped, NEW s \in Sessions, NEW x \in WebRequest, web' = [web EXCEPT ![s] = x]
  PROVE  web' \in [Sessions -> WebRequest] /\ web'[s] = x /\ \A r \in Sessions \ {s} : web'[r] = web[r]
BY DEF ChannelsTyped

LEMMA IdleRequest ==
  TeamGroups!Idle \in WebRequest /\ TeamGroups!Idle.pc = "idle" /\ TeamGroups!Idle.t = 0 /\ TeamGroups!Idle.gid = 0
BY DEF WebRequest, Founders, Unrecorded, TeamGroups!Idle, TeamGroups!NoName, TeamGroups!NoTeam, TeamGroups!NoGid

LEMMA GroupIsDescribed ==
  ASSUME ChannelAssumption, ChannelInv, NEW s \in Sessions, TeamGroups!Describe(s)
  PROVE  ChannelInv'
<1>0. ChannelsTyped /\ web[s] \in WebRequest /\ web[s].pc = "describe" /\ 0 \notin Gids /\ TeamGroups!NoName \notin Names
  BY ChannelSize DEF ChannelAssumption, ChannelInv, ChannelsTyped, TeamGroups!Describe, TeamGroups!At
<1>1. web[s].gid \in Gids /\ web[s].name \in Names
  BY <1>0 DEF WebRequest
<1>2. /\ web' \in [Sessions -> WebRequest] /\ web'[s] = TeamGroups!Idle
      /\ \A r \in Sessions \ {s} : web'[r] = web[r]
  <2>1. web' = [web EXCEPT ![s] = TeamGroups!Idle]
    BY DEF TeamGroups!Describe, TeamGroups!End
  <2> QED
    BY <2>1, <1>0, IdleRequest, RequestGoes
<1>3. /\ group' \in [Gids -> GroupType]
      /\ \A g \in Gids : GroupStays(g) /\ group'[g].name = group[g].name
  <2>1. group \in [Gids -> GroupType]
    BY <1>0 DEF ChannelsTyped
  <2>2. \/ UNCHANGED group
        \/ /\ group[web[s].gid] # TeamGroups!NoGroup
           /\ group' = [group EXCEPT ![web[s].gid] = [group[web[s].gid] EXCEPT !.desc = web[s].name]]
    BY <1>1, <2>1 DEF TeamGroups!Describe
  <2>3. group[web[s].gid] # TeamGroups!NoGroup =>
          LET x == [group[web[s].gid] EXCEPT !.desc = web[s].name] IN
          x \in GroupType /\ x # TeamGroups!NoGroup /\ x.by = group[web[s].gid].by /\ x.name = group[web[s].gid].name
    BY <1>0, <1>1, <2>1 DEF GroupType, TeamGroups!NoGroup, TeamGroups!NoName
  <2> QED
    BY <1>1, <2>1, <2>2, <2>3 DEF GroupStays
<1>4. UNCHANGED <<team, chan, made, ops, past>> /\ used' \in [edits : 0 .. MaxEdits, faults : 0 .. MaxFaults]
  BY <1>0, BudgetKept DEF TeamGroups!Describe
<1>5. ChannelsTyped'
  BY <1>0, <1>2, <1>3, <1>4 DEF ChannelsTyped
<1>6. GroupsApart' /\ OneReconcile(ops)'
  BY <1>3, <1>4 DEF ChannelInv, GroupsApart, GroupStays
<1>7. \A t \in Teams : (Alive(t)' <=> Alive(t)) /\ (~Alive(t) => chan[t] = TeamGroups!NoChan)
  BY <1>4 DEF ChannelInv, TeamFits, Alive
<1> QED
  BY <1>0, <1>2, <1>3, <1>4, <1>5, <1>6, <1>7, IdleRequest, CreationsKept DEF Founders, Unrecorded

LEMMA ChannelIsRenamed ==
  ASSUME ChannelAssumption, ChannelInv, NEW s \in Sessions,
         \/ \E t \in Teams, n \in Names : TeamGroups!Rename(s, t, n)
         \/ TeamGroups!SelectChannel(s) \/ TeamGroups!UpdateChannel(s) \/ TeamGroups!PublishRename(s)
         \/ \E t \in Teams : TeamGroups!BeginDelete(s, t)
  PROVE  ChannelInv'
<1>0. /\ ChannelsTyped /\ web[s] \in WebRequest /\ RequestFits(s) /\ (\A t \in Teams : TeamFits(t))
      /\ (\A g \in Gids : g # 0) /\ TeamGroups!Unborn \notin Names /\ TeamGroups!NoName \notin Names
  BY ChannelSize DEF ChannelInv, ChannelsTyped, ChannelAssumption
<1>1. web[s].pc \in {"idle", "select", "update", "publish"} /\ web[s].pc \notin Founders
  BY DEF TeamGroups!Rename, TeamGroups!SelectChannel, TeamGroups!UpdateChannel, TeamGroups!PublishRename, TeamGroups!BeginDelete,
     TeamGroups!At, Founders, Unrecorded
<1>2. PICK x \in WebRequest : /\ web' = [web EXCEPT ![s] = x] /\ x.pc \notin Founders
                              /\ x.pc # "idle" => team[x.t] # TeamGroups!Unborn
                              /\ \A g \in Gids : x.gid = g => chan[x.t].gid = g
  <2>1. CASE \E t \in Teams, n \in Names : TeamGroups!Rename(s, t, n)
    <3>1. PICK t \in Teams : t \in TeamGroups!Live /\ web' = [web EXCEPT ![s] = [TeamGroups!Idle EXCEPT !.pc = "select", !.t = t]]
      BY <2>1 DEF TeamGroups!Rename
    <3>2. PICK x : x = [TeamGroups!Idle EXCEPT !.pc = "select", !.t = t]
      OBVIOUS
    <3>3. x \in WebRequest /\ x.pc = "select" /\ x.gid = 0 /\ x.t = t
      BY <3>2, IdleRequest DEF WebRequest, Founders, Unrecorded
    <3>4. web' = [web EXCEPT ![s] = x] /\ team[t] # TeamGroups!Unborn
      BY <3>1, <3>2, <1>0 DEF TeamGroups!Live
    <3> QED
      BY <3>3, <3>4, <1>0 DEF Founders, Unrecorded
  <2>2. CASE TeamGroups!SelectChannel(s)
    <3>1. \/ web' = [web EXCEPT ![s] = TeamGroups!Idle]
          \/ /\ web' = [web EXCEPT ![s] = [web[s] EXCEPT !.pc = "update", !.name = team[web[s].t]]]
             /\ team[web[s].t] \in Names /\ web[s].pc = "select"
      BY <1>0, <2>2 DEF TeamGroups!SelectChannel, TeamGroups!End, TeamGroups!At, TeamGroups!Live, ChannelsTyped
    <3>2. PICK x : x = [web[s] EXCEPT !.pc = "update", !.name = team[web[s].t]]
      OBVIOUS
    <3>3. CASE web' = [web EXCEPT ![s] = x] /\ team[web[s].t] \in Names /\ web[s].pc = "select"
      <4>1. x \in WebRequest /\ x.pc = "update" /\ x.gid = 0 /\ x.t = web[s].t
        BY <3>2, <3>3, <1>0 DEF WebRequest, Founders, Unrecorded
      <4> QED
        BY <3>3, <4>1, <1>0 DEF Founders, Unrecorded, RequestFits
    <3> QED
      BY <3>1, <3>2, <3>3, <1>0, IdleRequest DEF Founders, Unrecorded
  <2>3. CASE TeamGroups!UpdateChannel(s)
    <3>1. web' = [web EXCEPT ![s] = [web[s] EXCEPT !.pc = "publish"]] /\ web[s].pc = "update"
      BY <1>0, <2>3 DEF TeamGroups!UpdateChannel, TeamGroups!Goto, TeamGroups!At, ChannelsTyped
    <3>2. PICK x : x = [web[s] EXCEPT !.pc = "publish"]
      OBVIOUS
    <3>3. x \in WebRequest /\ x.pc = "publish" /\ x.gid = 0 /\ x.t = web[s].t
      BY <3>1, <3>2, <1>0 DEF WebRequest, Founders, Unrecorded
    <3> QED
      BY <3>1, <3>2, <3>3, <1>0 DEF Founders, Unrecorded, RequestFits
  <2>4. CASE TeamGroups!PublishRename(s)
    BY <1>0, <2>4, IdleRequest DEF TeamGroups!PublishRename, TeamGroups!End, Founders, Unrecorded
  <2>5. CASE \E t \in Teams : TeamGroups!BeginDelete(s, t)
    <3>1. PICK t \in Teams : /\ t \in TeamGroups!Live
                             /\ web' = [web EXCEPT ![s] = [TeamGroups!Idle EXCEPT !.pc = "delete", !.t = t, !.gid = chan[t].gid]]
      BY <2>5 DEF TeamGroups!BeginDelete
    <3>2. chan[t].gid \in Gids \cup {0}
      BY <1>0 DEF ChannelsTyped, ChanType, TeamGroups!NoChan, TeamGroups!NoGid
    <3>3. PICK x : x = [TeamGroups!Idle EXCEPT !.pc = "delete", !.t = t, !.gid = chan[t].gid]
      OBVIOUS
    <3>4. x \in WebRequest /\ x.pc = "delete" /\ x.gid = chan[t].gid /\ x.t = t
      BY <3>2, <3>3, IdleRequest DEF WebRequest, Founders, Unrecorded
    <3>5. web' = [web EXCEPT ![s] = x] /\ team[t] # TeamGroups!Unborn
      BY <3>1, <3>3, <1>0 DEF TeamGroups!Live
    <3> QED
      BY <3>4, <3>5 DEF Founders, Unrecorded
  <2> QED
    BY <2>1, <2>2, <2>3, <2>4, <2>5
<1>3. web' \in [Sessions -> WebRequest] /\ web'[s] = x /\ \A r \in Sessions \ {s} : web'[r] = web[r]
  BY <1>0, <1>2, RequestGoes
<1>4. /\ UNCHANGED <<group, made>> /\ used' \in [edits : 0 .. MaxEdits, faults : 0 .. MaxFaults]
  BY <1>0, BudgetKept DEF TeamGroups!Rename, TeamGroups!SelectChannel, TeamGroups!UpdateChannel, TeamGroups!PublishRename,
     TeamGroups!Lost, TeamGroups!BeginDelete
<1>5. /\ past' \in [crossed : SUBSET Teams, lost : SUBSET Teams, taken : SUBSET Gids]
      /\ past'.taken = past.taken /\ past.lost \subseteq past'.lost
  <2>1. TeamGroups!PublishRename(s) => web[s].t \in Teams
    BY <1>0 DEF WebRequest, TeamGroups!PublishRename, TeamGroups!At
  <2>2. \/ UNCHANGED past
        \/ \E t \in Teams : past' = [past EXCEPT !.lost = past.lost \cup {t}]
        \/ \E t \in Teams : past' = [past EXCEPT !.crossed = past.crossed \cup {t}]
    BY <2>1 DEF TeamGroups!Rename, TeamGroups!SelectChannel, TeamGroups!UpdateChannel, TeamGroups!PublishRename,
       TeamGroups!Lost, TeamGroups!BeginDelete
  <2>3. past \in [crossed : SUBSET Teams, lost : SUBSET Teams, taken : SUBSET Gids]
    BY <1>0 DEF ChannelsTyped
  <2>4. ASSUME NEW t \in Teams, past' = [past EXCEPT !.lost = past.lost \cup {t}]
        PROVE  /\ past' \in [crossed : SUBSET Teams, lost : SUBSET Teams, taken : SUBSET Gids]
               /\ past'.taken = past.taken /\ past.lost \subseteq past'.lost
    BY <2>3, <2>4
  <2>5. ASSUME NEW t \in Teams, past' = [past EXCEPT !.crossed = past.crossed \cup {t}]
        PROVE  /\ past' \in [crossed : SUBSET Teams, lost : SUBSET Teams, taken : SUBSET Gids]
               /\ past'.taken = past.taken /\ past.lost \subseteq past'.lost
    BY <2>3, <2>5
  <2> QED
    BY <2>2, <2>3, <2>4, <2>5
<1>6. /\ team' \in [Teams -> Names \cup {TeamGroups!Unborn, TeamGroups!Deleted}]
      /\ \A t \in Teams : (Alive(t)' <=> Alive(t)) /\ (team'[t] = TeamGroups!Unborn <=> team[t] = TeamGroups!Unborn)
  <2>1. \/ UNCHANGED team
        \/ \E t \in Teams, n \in Names : team[t] \in Names /\ team' = [team EXCEPT ![t] = n]
    BY DEF TeamGroups!Rename, TeamGroups!SelectChannel, TeamGroups!UpdateChannel, TeamGroups!PublishRename,
       TeamGroups!BeginDelete, TeamGroups!Live
  <2>2. team \in [Teams -> Names \cup {TeamGroups!Unborn, TeamGroups!Deleted}]
    BY <1>0 DEF ChannelsTyped
  <2>3. ASSUME NEW t \in Teams, NEW n \in Names, team[t] \in Names, team' = [team EXCEPT ![t] = n]
        PROVE  /\ team' \in [Teams -> Names \cup {TeamGroups!Unborn, TeamGroups!Deleted}]
               /\ \A u \in Teams : (Alive(u)' <=> Alive(u)) /\ (team'[u] = TeamGroups!Unborn <=> team[u] = TeamGroups!Unborn)
    BY <1>0, <2>2, <2>3 DEF Alive
  <2>4. CASE UNCHANGED team
    BY <2>2, <2>4 DEF Alive
  <2> QED
    BY <2>1, <2>3, <2>4
<1>7. /\ chan' \in [Teams -> ChanType]
      /\ \A t \in Teams : (chan'[t] = TeamGroups!NoChan <=> chan[t] = TeamGroups!NoChan) /\ chan'[t].gid = chan[t].gid
  <2>1. CASE UNCHANGED chan
    BY <1>0, <2>1 DEF ChannelsTyped
  <2>2. CASE TeamGroups!UpdateChannel(s)
    <3>1. web[s].t \in Teams /\ web[s].name \in Names
      BY <1>0, <2>2 DEF TeamGroups!UpdateChannel, TeamGroups!At, WebRequest
    <3>2. \/ chan' = [chan EXCEPT ![web[s].t].name = web[s].name] /\ chan[web[s].t] # TeamGroups!NoChan
          \/ UNCHANGED chan
      BY <2>2 DEF TeamGroups!UpdateChannel, TeamGroups!HasChan
    <3>3. PICK z : z = [chan[web[s].t] EXCEPT !.name = web[s].name]
      OBVIOUS
    <3>4. chan \in [Teams -> ChanType]
      BY <1>0 DEF ChannelsTyped
    <3>5. chan[web[s].t] # TeamGroups!NoChan => z \in ChanType /\ z # TeamGroups!NoChan /\ z.gid = chan[web[s].t].gid
      BY <1>0, <3>1, <3>3, <3>4 DEF ChanType, TeamGroups!NoChan
    <3>6. CASE UNCHANGED chan
      BY <3>4, <3>6
    <3>7. CASE chan' = [chan EXCEPT ![web[s].t] = z] /\ chan[web[s].t] # TeamGroups!NoChan
      BY <3>1, <3>4, <3>5, <3>7
    <3> QED
      BY <3>2, <3>3, <3>4, <3>6, <3>7
  <2> QED
    BY <2>1, <2>2 DEF TeamGroups!Rename, TeamGroups!SelectChannel, TeamGroups!PublishRename, TeamGroups!BeginDelete
<1>8. /\ ops' \in Seq(TeamOp) /\ OneReconcile(ops') /\ All(ops) \subseteq All(ops')
      /\ \A o \in All(ops') : o \in All(ops) \/ (o.kind = "rename" /\ o.gid = 0 /\ team'[o.t] # TeamGroups!Unborn)
  <2>1. CASE UNCHANGED ops
    BY <1>0, <2>1 DEF ChannelsTyped, ChannelInv
  <2>2. CASE TeamGroups!PublishRename(s)
    <3>1. web[s].t \in Teams /\ web[s].name \in Names /\ team[web[s].t] # TeamGroups!Unborn
      BY <1>0, <2>2 DEF TeamGroups!PublishRename, TeamGroups!At, WebRequest, RequestFits
    <3>2. PICK o : o = TeamGroups!Op("rename", web[s].t, web[s].name, TeamGroups!NoGid)
      OBVIOUS
    <3>3. o \in TeamOp /\ o.kind = "rename" /\ o.gid = 0 /\ o.t = web[s].t
      BY <3>1, <3>2 DEF TeamGroups!Op, TeamOp, TeamGroups!NoGid
    <3>4. CASE ops' = Append(ops, o)
      <4>1. ops \in Seq(TeamOp) /\ OneReconcile(ops)
        BY <1>0 DEF ChannelsTyped, ChannelInv
      <4>2. ops' \in Seq(TeamOp) /\ All(ops') = All(ops) \cup {o} /\ OneReconcile(ops')
        <5>1. PICK q, p : q = ops /\ p = ops'
          OBVIOUS
        <5>2. p \in Seq(TeamOp) /\ All(p) = All(q) \cup {o} /\ OneReconcile(p)
          <6>1. q \in Seq(TeamOp) /\ OneReconcile(q) /\ p = Append(q, o) /\ FirstFor(q, o) /\ o \in TeamOp
            BY <3>3, <3>4, <4>1, <5>1 DEF FirstFor
          <6> QED
            BY <6>1, QueueGrows
        <5> QED
          BY <5>1, <5>2
      <4> QED
        BY <1>6, <3>1, <3>3, <4>2
    <3> QED
      BY <2>1, <2>2, <3>2, <3>4 DEF TeamGroups!PublishRename, TeamGroups!Lost
  <2> QED
    BY <2>1, <2>2 DEF TeamGroups!Rename, TeamGroups!SelectChannel, TeamGroups!UpdateChannel, TeamGroups!BeginDelete
<1>9. ChannelsTyped'
  BY <1>0, <1>3, <1>4, <1>5, <1>6, <1>7, <1>8 DEF ChannelsTyped
<1>10. GroupsApart' /\ \A g \in Gids : GroupStays(g) /\ group'[g].name = group[g].name
  BY <1>4 DEF ChannelInv, GroupsApart, GroupStays
<1>11. \A r \in Sessions :
         \/ web'[r] = web[r]
         \/ /\ web[r].pc \notin Founders /\ web'[r].pc \notin Founders
            /\ web'[r].pc # "idle" => team[web'[r].t] # TeamGroups!Unborn
            /\ \A g \in Gids : web'[r].gid = g => HeldFor(g, web'[r].t)
  BY <1>1, <1>2, <1>3 DEF HeldFor
<1>12. \A o \in All(ops') :
         \/ o \in All(ops)
         \/ /\ o.kind # "reconcile" /\ OpFits(o)'
            /\ \A g \in Gids : o.gid = g => HeldFor(g, o.t)
  BY <1>0, <1>8 DEF OpFits
<1>13. \A t \in Teams : ~Alive(t) => chan'[t] = TeamGroups!NoChan
  BY <1>0, <1>7 DEF TeamFits
<1> QED
  BY <1>4, <1>5, <1>6, <1>7, <1>8, <1>9, <1>10, <1>11, <1>12, <1>13, CreationsKept

LEMMA TeamIsDeleted ==
  ASSUME ChannelAssumption, ChannelInv, NEW s \in Sessions, TeamGroups!CommitDelete(s)
  PROVE  ChannelInv'
<1>t. PICK t : t = web[s].t
  OBVIOUS
<1>0. /\ ChannelsTyped /\ web[s] \in WebRequest /\ web[s].pc = "delete" /\ t \in Teams
      /\ (\A g \in Gids : g # 0) /\ TeamGroups!Deleted \notin Names /\ TeamGroups!Deleted # TeamGroups!Unborn
      /\ \A u \in Teams : TeamFits(u)
  BY <1>t, ChannelSize DEF ChannelInv, ChannelsTyped, ChannelAssumption, TeamGroups!CommitDelete, TeamGroups!At, WebRequest,
     TeamGroups!Deleted, TeamGroups!Unborn
<1>1. /\ web' \in [Sessions -> WebRequest] /\ web'[s] = TeamGroups!Idle
      /\ \A r \in Sessions \ {s} : web'[r] = web[r]
  <2>1. web' = [web EXCEPT ![s] = TeamGroups!Idle]
    BY DEF TeamGroups!CommitDelete, TeamGroups!End
  <2> QED
    BY <2>1, <1>0, IdleRequest, RequestGoes
<1>2. UNCHANGED <<group, made, used, past>>
  BY DEF TeamGroups!CommitDelete
<1>3. /\ team' \in [Teams -> Names \cup {TeamGroups!Unborn, TeamGroups!Deleted}] /\ chan' \in [Teams -> ChanType]
      /\ \A u \in Teams : /\ team'[u] = TeamGroups!Unborn => team[u] = TeamGroups!Unborn
                          /\ Alive(u)' => Alive(u) /\ chan'[u] = chan[u]
                          /\ ~Alive(u)' => chan'[u] = TeamGroups!NoChan
      /\ UNCHANGED ops \/ ~Alive(t)'
  <2>1. CASE t \in TeamGroups!Live
    <3>1. team' = [team EXCEPT ![t] = TeamGroups!Deleted] /\ chan' = [chan EXCEPT ![t] = TeamGroups!NoChan]
      BY <1>t, <2>1 DEF TeamGroups!CommitDelete
    <3>2. TeamGroups!NoChan \in ChanType
      BY DEF ChanType
    <3>3. /\ team \in [Teams -> Names \cup {TeamGroups!Unborn, TeamGroups!Deleted}] /\ chan \in [Teams -> ChanType]
          /\ \A u \in Teams : chan[u] # TeamGroups!NoChan => team[u] \in Names
      BY <1>0 DEF ChannelsTyped, TeamFits, Alive
    <3> QED
      BY <1>0, <3>1, <3>2, <3>3 DEF Alive
  <2>2. CASE t \notin TeamGroups!Live
    <3>1. UNCHANGED <<team, chan, ops>>
      BY <1>t, <2>2 DEF TeamGroups!CommitDelete
    <3> QED
      BY <1>0, <3>1 DEF ChannelsTyped, TeamFits, Alive
  <2> QED
    BY <2>1, <2>2
<1>4. \A g \in Gids : web[s].gid = g => HeldFor(g, t)
  BY <1>t, <1>0 DEF HeldFor
<1>5. /\ ops' \in Seq(TeamOp) /\ OneReconcile(ops') /\ All(ops) \subseteq All(ops')
      /\ \A o \in All(ops') : \/ o \in All(ops)
                              \/ /\ o.kind = "remove" /\ ~Alive(o.t)' /\ team'[o.t] # TeamGroups!Unborn
                                 /\ \A g \in Gids : o.gid = g => HeldFor(g, o.t)
  <2>1. CASE UNCHANGED ops
    BY <1>0, <2>1 DEF ChannelsTyped, ChannelInv
  <2>2. PICK o : o = TeamGroups!Op("remove", t, TeamGroups!NoName, web[s].gid)
    OBVIOUS
  <2>3. CASE web[s].gid # 0 /\ ops' = Append(ops, o) /\ t \in TeamGroups!Live
    <3>1. o \in TeamOp /\ o.kind = "remove" /\ o.gid = web[s].gid /\ o.t = t
      <4>1. web[s].gid \in Gids
        BY <1>0, <2>3 DEF WebRequest
      <4> QED
        BY <1>0, <2>2, <4>1 DEF TeamGroups!Op, TeamOp
    <3>2. ~Alive(t)' /\ team'[t] # TeamGroups!Unborn
      <4>1. team' = [team EXCEPT ![t] = TeamGroups!Deleted] /\ team \in [Teams -> Names \cup {TeamGroups!Unborn, TeamGroups!Deleted}]
        BY <1>t, <1>0, <2>3 DEF TeamGroups!CommitDelete, ChannelsTyped
      <4>2. team'[t] = TeamGroups!Deleted
        BY <1>0, <4>1
      <4> QED
        BY <1>0, <4>2 DEF Alive
    <3>3. PICK q, p : q = ops /\ p = ops'
      OBVIOUS
    <3>4. p \in Seq(TeamOp) /\ All(p) = All(q) \cup {o} /\ OneReconcile(p)
      <4>1. q \in Seq(TeamOp) /\ OneReconcile(q) /\ p = Append(q, o) /\ FirstFor(q, o) /\ o \in TeamOp
        BY <2>3, <3>1, <3>3, <1>0 DEF FirstFor, ChannelsTyped, ChannelInv
      <4> QED
        BY <4>1, QueueGrows
    <3>5. \A g \in Gids : o.gid = g => HeldFor(g, o.t)
      BY <1>4, <3>1
    <3> QED
      BY <3>1, <3>2, <3>3, <3>4, <3>5
  <2> QED
    BY <1>t, <2>1, <2>2, <2>3 DEF TeamGroups!CommitDelete, TeamGroups!NoGid
<1>6. ChannelsTyped'
  BY <1>0, <1>1, <1>2, <1>3, <1>5 DEF ChannelsTyped
<1>7. GroupsApart' /\ \A g \in Gids : GroupStays(g) /\ group'[g].name = group[g].name
  BY <1>2 DEF ChannelInv, GroupsApart, GroupStays
<1>8. \A r \in Sessions :
        \/ web'[r] = web[r]
        \/ /\ web[r].pc \notin Founders /\ web'[r].pc \notin Founders
           /\ web'[r].pc # "idle" => team[web'[r].t] # TeamGroups!Unborn
           /\ \A g \in Gids : web'[r].gid = g => HeldFor(g, web'[r].t)
  BY <1>t, <1>0, <1>1, IdleRequest DEF Founders, Unrecorded
<1>9. \A o \in All(ops') :
        \/ o \in All(ops)
        \/ /\ o.kind # "reconcile" /\ OpFits(o)'
           /\ \A g \in Gids : o.gid = g => HeldFor(g, o.t)
  BY <1>5 DEF OpFits
<1> QED
  BY <1>2, <1>3, <1>5, <1>6, <1>7, <1>8, <1>9, CreationsKept

\* A queued operation that ends or is changed in its place, while no request moves.
LEMMA OperationMoves ==
  ASSUME ChannelAssumption, ChannelInv, NEW i \in DOMAIN ops, UNCHANGED <<team, chan, made, web>>,
         \/ ops' = TeamGroups!RemoveAt(ops, i) /\ ops[i].kind # "reconcile"
         \/ \E x \in TeamOp :
              /\ ops' = [ops EXCEPT ![i] = x] /\ x.kind = ops[i].kind /\ x.t = ops[i].t
              /\ \/ x.gid = ops[i].gid
                 \/ x.kind \in {"rename", "describe"} /\ x.gid \in Gids /\ x.gid = chan[x.t].gid
              /\ x.kind = "reconcile" => x.t \in past'.lost,
         used' \in [edits : 0 .. MaxEdits, faults : 0 .. MaxFaults],
         past' \in [crossed : SUBSET Teams, lost : SUBSET Teams, taken : SUBSET Gids],
         past.taken \subseteq past'.taken, past.lost \subseteq past'.lost,
         group' \in [Gids -> GroupType], GroupsApart',
         \A g \in Gids : \/ GroupStays(g)
                         \/ /\ group'[g] = TeamGroups!NoGroup
                            /\ g \in past'.taken \/ \A t \in Teams : Alive(t) => ~HeldFor(g, t),
         \A g \in Gids \ past'.taken :
           \/ group[g] = TeamGroups!NoGroup \/ group'[g].name = group[g].name
           \/ Alive(group[g].by) => chan[group[g].by].gid = g
  PROVE  ChannelInv'
<1>0. /\ ChannelsTyped /\ OneReconcile(ops) /\ ops[i] \in All(ops) /\ (\A t \in Teams : TeamFits(t))
      /\ (\A o \in All(ops) : OpFits(o) /\ o \in TeamOp) /\ \A g \in Gids : g # 0
  BY ChannelSize DEF ChannelInv, ChannelsTyped, All
<1>1. /\ ops' \in Seq(TeamOp) /\ OneReconcile(ops')
      /\ \A o \in All(ops) : o.kind = "reconcile" => o \in All(ops') \/ o.t \in past'.lost
      /\ \A o \in All(ops') :
           \/ \E x \in All(ops) : x.t = o.t /\ x.kind = o.kind /\ x.gid = o.gid
           \/ /\ o.kind \in {"rename", "describe"} /\ o.gid \in Gids /\ o.gid = chan[o.t].gid /\ o.t \in Teams
              /\ team[o.t] # TeamGroups!Unborn
  <2>1. PICK q, p : q = ops /\ p = ops'
    OBVIOUS
  <2>2. q \in Seq(TeamOp) /\ i \in DOMAIN q /\ OneReconcile(q)
    BY <1>0, <2>1 DEF ChannelsTyped
  <2>3. CASE p = TeamGroups!RemoveAt(q, i) /\ q[i].kind # "reconcile"
    <3>1. /\ p \in Seq(TeamOp) /\ All(p) \subseteq All(q) /\ OneReconcile(p)
          /\ \A o \in All(q) : o = q[i] \/ o \in All(p)
      BY <2>2, <2>3, QueueShrinks
    <3> QED
      BY <2>1, <2>3, <3>1
  <2>4. ASSUME NEW x \in TeamOp, p = [q EXCEPT ![i] = x], x.kind = q[i].kind, x.t = q[i].t,
               x.gid = q[i].gid \/ (x.kind \in {"rename", "describe"} /\ x.gid \in Gids /\ x.gid = chan[x.t].gid),
               x.kind = "reconcile" => x.t \in past'.lost
        PROVE  /\ p \in Seq(TeamOp) /\ OneReconcile(p)
               /\ \A o \in All(q) : o.kind = "reconcile" => o \in All(p) \/ o.t \in past'.lost
               /\ \A o \in All(p) :
                    \/ \E y \in All(q) : y.t = o.t /\ y.kind = o.kind /\ y.gid = o.gid
                    \/ /\ o.kind \in {"rename", "describe"} /\ o.gid \in Gids /\ o.gid = chan[o.t].gid /\ o.t \in Teams
                       /\ team[o.t] # TeamGroups!Unborn
    <3>1. /\ p \in Seq(TeamOp) /\ All(p) \subseteq All(q) \cup {x} /\ OneReconcile(p)
          /\ \A o \in All(q) : o = q[i] \/ o \in All(p)
      BY <2>2, <2>4, QueueChanges
    <3>2. x.t \in Teams /\ team[x.t] # TeamGroups!Unborn /\ q[i] \in All(q)
      BY <1>0, <2>1, <2>4 DEF OpFits, TeamOp
    <3> QED
      BY <2>4, <3>1, <3>2
  <2> QED
    BY <2>1, <2>3, <2>4
<1>2. ChannelsTyped'
  BY <1>0, <1>1 DEF ChannelsTyped
<1>3. \A t \in Teams : (Alive(t)' <=> Alive(t)) /\ (~Alive(t) => chan[t] = TeamGroups!NoChan)
  BY <1>0 DEF TeamFits, Alive
<1>4. ASSUME NEW o \in All(ops')
      PROVE  \/ \E x \in All(ops) : x.t = o.t /\ x.kind = o.kind /\ x.gid = o.gid
             \/ /\ o.kind # "reconcile" /\ OpFits(o)'
                /\ \A g \in Gids : o.gid = g => HeldFor(g, o.t)
  BY <1>1 DEF OpFits, HeldFor
<1>5. ASSUME NEW g \in Gids, NEW t \in Teams, HeldFor(g, t)' PROVE HeldFor(g, t)
  BY <1>5, <1>4 DEF HeldFor
<1>6. \A g \in Gids : GroupStays(g) \/ GroupGoes(g)
  BY <1>3, <1>5 DEF GroupGoes
<1> QED
  BY <1>1, <1>2, <1>3, <1>4, <1>6, CreationsKept

LEMMA ChannelIsRead ==
  ASSUME ChannelAssumption, ChannelInv, NEW i \in DOMAIN ops, TeamGroups!ReadChannel(i)
  PROVE  ChannelInv'
<1>0. /\ ChannelsTyped /\ GroupsApart /\ ops[i] \in TeamOp /\ ops[i].kind \in {"rename", "describe"} /\ ops[i].st = "pending"
      /\ chan[ops[i].t] \in ChanType
  BY DEF ChannelInv, ChannelsTyped, TeamGroups!ReadChannel, TeamGroups!Is, TeamOp
<1>1. UNCHANGED <<team, chan, group, made, web, used, past>>
  BY DEF TeamGroups!ReadChannel
<1>2. CASE chan[ops[i].t].gid = 0
  <2>1. ops' = TeamGroups!RemoveAt(ops, i) /\ ops[i].kind # "reconcile"
    BY <1>0, <1>2 DEF TeamGroups!ReadChannel, TeamGroups!Finish, TeamGroups!NoGid
  <2> QED
    BY <1>0, <1>1, <2>1, OperationMoves DEF ChannelsTyped, GroupsApart, GroupStays
<1>3. CASE chan[ops[i].t].gid # 0
  <2>1. PICK x : x = [ops[i] EXCEPT !.st = "read", !.gid = chan[ops[i].t].gid, !.desc = chan[ops[i].t].name]
    OBVIOUS
  <2>2. ops' = [ops EXCEPT ![i] = x]
    BY <1>0, <1>3, <2>1 DEF TeamGroups!ReadChannel, TeamGroups!NoGid, ChannelsTyped
  <2>3. chan[ops[i].t].gid \in Gids /\ chan[ops[i].t].name \in Names
    BY <1>0, <1>3 DEF ChanType, TeamGroups!NoChan, TeamGroups!NoGid
  <2>4. x \in TeamOp /\ x.kind = ops[i].kind /\ x.t = ops[i].t /\ x.gid = chan[x.t].gid /\ x.gid \in Gids
    BY <1>0, <2>1, <2>3 DEF TeamOp
  <2>5. x.kind \in {"rename", "describe"} /\ x.kind # "reconcile"
    BY <1>0, <2>4
  <2> QED
    BY <1>0, <1>1, <2>2, <2>4, <2>5, OperationMoves DEF ChannelsTyped, GroupsApart, GroupStays
<1> QED
  BY <1>2, <1>3

\* The group written to is the one the channel records, while its team exists.
LEMMA GroupIsPatched ==
  ASSUME ChannelAssumption, ChannelInv, NEW i \in DOMAIN ops, TeamGroups!PatchGroup(i)
  PROVE  ChannelInv'
<1>1. PICK o, h : o = ops[i] /\ h = ops[i].gid
  OBVIOUS
<1>0. /\ ChannelsTyped /\ GroupsApart /\ o \in TeamOp /\ o \in All(ops) /\ o.kind \in {"rename", "describe"} /\ o.st = "read"
      /\ TeamGroups!NoName \notin Names
  BY <1>1 DEF ChannelInv, ChannelsTyped, TeamGroups!PatchGroup, TeamGroups!Is, All, ChannelAssumption
<1>2. h \in Gids /\ h # 0 /\ o.desc \in Names /\ (o.kind = "rename" => o.name \in Names) /\ o.t \in Teams /\ h = o.gid
  BY <1>0, <1>1, ChannelSize DEF TeamOp
<1>3. UNCHANGED <<team, chan, made, web, used>> /\ ops' = TeamGroups!RemoveAt(ops, i)
  BY DEF TeamGroups!PatchGroup, TeamGroups!Finish
<1>4. group \in [Gids -> GroupType] /\ past \in [crossed : SUBSET Teams, lost : SUBSET Teams, taken : SUBSET Gids]
  BY <1>0 DEF ChannelsTyped
<1>5. /\ past' \in [crossed : SUBSET Teams, lost : SUBSET Teams, taken : SUBSET Gids]
      /\ past.taken = past'.taken /\ past.lost \subseteq past'.lost
  <2>1. UNCHANGED past \/ past' = [past EXCEPT !.lost = past.lost \cup {o.t}]
    BY <1>1 DEF TeamGroups!PatchGroup
  <2> QED
    BY <1>2, <1>4, <2>1
<1>6. \/ UNCHANGED group
      \/ /\ group[h] # TeamGroups!NoGroup
         /\ \E x \in GroupType : /\ group' = [group EXCEPT ![h] = x] /\ x # TeamGroups!NoGroup /\ x.by = group[h].by
                                 /\ x.name = group[h].name \/ TeamGroups!Named(x.name) \subseteq {h}
  <2>1. CASE group[h] # TeamGroups!NoGroup /\ o.kind = "describe"
    <3>1. PICK x : x = [group[h] EXCEPT !.desc = o.desc]
      OBVIOUS
    <3>2. group' = [group EXCEPT ![h] = x]
      BY <1>1, <1>2, <1>4, <2>1, <3>1 DEF TeamGroups!PatchGroup
    <3>3. x \in GroupType /\ x # TeamGroups!NoGroup /\ x.by = group[h].by /\ x.name = group[h].name
      BY <1>0, <1>2, <1>4, <2>1, <3>1 DEF GroupType, TeamGroups!NoGroup
    <3> QED
      BY <2>1, <3>2, <3>3
  <2>2. CASE group[h] # TeamGroups!NoGroup /\ o.kind = "rename" /\ TeamGroups!Named(o.name) \subseteq {h}
    <3>1. PICK x : x = [group[h] EXCEPT !.name = o.name, !.desc = o.desc]
      OBVIOUS
    <3>2. group' = [group EXCEPT ![h] = x]
      BY <1>1, <1>2, <1>4, <2>2, <3>1 DEF TeamGroups!PatchGroup
    <3>3. x \in GroupType /\ x # TeamGroups!NoGroup /\ x.by = group[h].by /\ x.name = o.name
      BY <1>0, <1>2, <1>4, <2>2, <3>1 DEF GroupType, TeamGroups!NoGroup
    <3> QED
      BY <2>2, <3>2, <3>3
  <2>3. group[h] = TeamGroups!NoGroup => UNCHANGED group
    BY <1>1 DEF TeamGroups!PatchGroup
  <2>4. ~(TeamGroups!Named(o.name) \subseteq {h}) /\ o.kind = "rename" => UNCHANGED group
    BY <1>1 DEF TeamGroups!PatchGroup
  <2> QED
    BY <1>0, <2>1, <2>2, <2>3, <2>4
<1>7. CASE UNCHANGED group
  BY <1>0, <1>1, <1>3, <1>4, <1>5, <1>7, OperationMoves DEF ChannelsTyped, GroupsApart, GroupStays
<1>8. ASSUME group[h] # TeamGroups!NoGroup, NEW x \in GroupType, group' = [group EXCEPT ![h] = x], x # TeamGroups!NoGroup,
             x.by = group[h].by, x.name = group[h].name \/ TeamGroups!Named(x.name) \subseteq {h}
      PROVE  ChannelInv'
  <2>1. group' \in [Gids -> GroupType] /\ group'[h] = x /\ \A g \in Gids \ {h} : group'[g] = group[g]
    BY <1>2, <1>4, <1>8
  <2>2. \A g \in Gids : GroupStays(g)
    BY <1>8, <2>1 DEF GroupStays
  <2>3. GroupsApart'
    <3> SUFFICES ASSUME NEW g \in Gids, NEW k \in Gids, group'[g] # TeamGroups!NoGroup, group'[g].name = group'[k].name
                 PROVE  g = k
      BY DEF GroupsApart
    <3>1. \A j \in Gids : group[j].name = x.name => j \in TeamGroups!Named(x.name)
      BY DEF TeamGroups!Named
    <3>2. CASE g = h
      BY <1>0, <1>2, <1>8, <2>1, <3>1, <3>2 DEF GroupsApart
    <3>3. CASE k = h
      BY <1>0, <1>2, <1>8, <2>1, <3>1, <3>3 DEF GroupsApart
    <3> QED
      BY <1>0, <2>1, <3>2, <3>3 DEF GroupsApart
  <2>4. ASSUME NEW g \in Gids \ past'.taken, group[g] # TeamGroups!NoGroup, group'[g].name # group[g].name, Alive(group[g].by)
        PROVE  chan[group[g].by].gid = g
    <3>1. g = h /\ HeldFor(g, o.t) /\ OpFits(o)
      BY <1>0, <1>2, <2>1, <2>4 DEF HeldFor, ChannelInv
    <3>2. Keeps(g, o.t)
      BY <1>2, <1>5, <3>1 DEF ChannelInv, HeldByOne
    <3> QED
      BY <1>0, <1>2, <2>4, <3>1, <3>2 DEF Keeps, OpFits
  <2>5. \A g \in Gids \ past'.taken :
          \/ group[g] = TeamGroups!NoGroup \/ group'[g].name = group[g].name
          \/ Alive(group[g].by) => chan[group[g].by].gid = g
    BY <2>4
  <2>6. used' \in [edits : 0 .. MaxEdits, faults : 0 .. MaxFaults] /\ ops[i].kind # "reconcile"
    BY <1>0, <1>1, <1>3 DEF ChannelsTyped
  <2> QED
    BY <1>3, <1>5, <2>1, <2>2, <2>3, <2>5, <2>6, OperationMoves
<1> QED
  BY <1>6, <1>7, <1>8

\* A group is removed for a team that is gone.
LEMMA GroupIsRemoved ==
  ASSUME ChannelAssumption, ChannelInv, NEW i \in DOMAIN ops, TeamGroups!RemoveGroup(i)
  PROVE  ChannelInv'
<1>1. PICK o, h : o = ops[i] /\ h = ops[i].gid
  OBVIOUS
<1>0. /\ ChannelsTyped /\ GroupsApart /\ o \in TeamOp /\ o \in All(ops) /\ o.kind = "remove" /\ OpFits(o)
      /\ TeamGroups!NoName \notin Names /\ group \in [Gids -> GroupType]
  BY <1>1 DEF ChannelInv, ChannelsTyped, TeamGroups!RemoveGroup, TeamGroups!Is, All, ChannelAssumption
<1>2. h \in Gids /\ o.t \in Teams /\ HeldFor(h, o.t) /\ ~Alive(o.t)
  BY <1>0, <1>1 DEF TeamOp, HeldFor, OpFits
<1>3. /\ UNCHANGED <<team, chan, made, web, used, past>> /\ ops' = TeamGroups!RemoveAt(ops, i)
      /\ group' = [group EXCEPT ![h] = TeamGroups!NoGroup]
  BY <1>1 DEF TeamGroups!RemoveGroup, TeamGroups!Finish
<1>4. /\ group' \in [Gids -> GroupType] /\ group'[h] = TeamGroups!NoGroup
      /\ \A g \in Gids \ {h} : group'[g] = group[g]
  BY <1>0, <1>2, <1>3 DEF GroupType
<1>5. GroupsApart'
  <2> SUFFICES ASSUME NEW g \in Gids, NEW k \in Gids, group'[g] # TeamGroups!NoGroup, group'[g].name = group'[k].name
               PROVE  g = k
    BY DEF GroupsApart
  <2>1. g # h /\ group[g].name \in Names
    BY <1>0, <1>4 DEF GroupType
  <2>2. k # h
    BY <1>0, <1>4, <2>1 DEF TeamGroups!NoGroup
  <2> QED
    BY <1>0, <1>4, <2>1, <2>2 DEF GroupsApart
<1>6. h \in past.taken \/ \A t \in Teams : Alive(t) => ~HeldFor(h, t)
  BY <1>2 DEF ChannelInv, HeldByOne, Keeps
<1>7. ASSUME NEW g \in Gids \ past'.taken, group[g] # TeamGroups!NoGroup, group'[g].name # group[g].name, Alive(group[g].by)
      PROVE  chan[group[g].by].gid = g
  <2>1. g = h
    BY <1>4, <1>7
  <2>2. Keeps(h, o.t)
    BY <1>2, <1>3, <1>7, <2>1 DEF ChannelInv, HeldByOne
  <2> QED
    BY <1>2, <1>7, <2>1, <2>2 DEF Keeps
<1>8. \A g \in Gids : \/ GroupStays(g)
                      \/ /\ group'[g] = TeamGroups!NoGroup
                         /\ g \in past'.taken \/ \A t \in Teams : Alive(t) => ~HeldFor(g, t)
  BY <1>3, <1>4, <1>6 DEF GroupStays
<1>9. \A g \in Gids \ past'.taken :
        \/ group[g] = TeamGroups!NoGroup \/ group'[g].name = group[g].name
        \/ Alive(group[g].by) => chan[group[g].by].gid = g
  BY <1>7
<1>10. /\ used' \in [edits : 0 .. MaxEdits, faults : 0 .. MaxFaults] /\ ops[i].kind # "reconcile"
       /\ past' \in [crossed : SUBSET Teams, lost : SUBSET Teams, taken : SUBSET Gids] /\ UNCHANGED past
  BY <1>0, <1>1, <1>3 DEF ChannelsTyped
<1> QED
  BY <1>3, <1>4, <1>5, <1>8, <1>9, <1>10, OperationMoves

LEMMA OperationStrands ==
  ASSUME ChannelAssumption, ChannelInv, NEW i \in DOMAIN ops, TeamGroups!Strand(i)
  PROVE  ChannelInv'
<1>0. ChannelsTyped /\ GroupsApart /\ ops[i] \in TeamOp
  BY DEF ChannelInv, ChannelsTyped
<1>1. PICK x : x = [ops[i] EXCEPT !.st = "stuck"]
  OBVIOUS
<1>2. x \in TeamOp /\ x.kind = ops[i].kind /\ x.t = ops[i].t /\ x.gid = ops[i].gid /\ x.t \in Teams
  BY <1>0, <1>1 DEF TeamOp
<1>3. /\ UNCHANGED <<team, chan, group, made, web>> /\ ops' = [ops EXCEPT ![i] = x]
      /\ past' = [past EXCEPT !.lost = past.lost \cup {x.t}]
  BY <1>0, <1>1, <1>2 DEF TeamGroups!Strand, ChannelsTyped
<1>4. /\ past' \in [crossed : SUBSET Teams, lost : SUBSET Teams, taken : SUBSET Gids]
      /\ past'.taken = past.taken /\ past.lost \subseteq past'.lost /\ x.t \in past'.lost
  BY <1>0, <1>2, <1>3 DEF ChannelsTyped
<1>5. used' \in [edits : 0 .. MaxEdits, faults : 0 .. MaxFaults]
  BY <1>0, BudgetKept DEF TeamGroups!Strand
<1> QED
  BY <1>0, <1>2, <1>3, <1>4, <1>5, OperationMoves DEF ChannelsTyped, GroupsApart, GroupStays

LEMMA DescriptionIsRestored ==
  ASSUME ChannelAssumption, ChannelInv, NEW t \in Teams, TeamGroups!ReconcileDescriptions(t)
  PROVE  ChannelInv'
<1>0. ChannelsTyped /\ GroupsApart /\ OneReconcile(ops) /\ TeamFits(t) /\ \A g \in Gids : g # 0
  BY ChannelSize DEF ChannelInv
<1>1. UNCHANGED <<team, chan, group, made, web, used, past>> /\ chan[t].gid # 0
  BY DEF TeamGroups!ReconcileDescriptions, TeamGroups!DescriptionDrift, TeamGroups!NoGid
<1>2. Alive(t) /\ team[t] # TeamGroups!Unborn
  BY <1>0, <1>1 DEF TeamFits, Alive, TeamGroups!NoChan, TeamGroups!NoGid, ChannelAssumption
<1>3. PICK o : o = TeamGroups!Op("describe", t, TeamGroups!NoName, TeamGroups!NoGid)
  OBVIOUS
<1>4. o \in TeamOp /\ o.kind = "describe" /\ o.gid = 0 /\ o.t = t
  BY <1>3 DEF TeamOp, TeamGroups!Op, TeamGroups!NoGid
<1>5. ops' \in Seq(TeamOp) /\ All(ops') = All(ops) \cup {o} /\ OneReconcile(ops')
  <2>1. PICK q, p : q = ops /\ p = ops'
    OBVIOUS
  <2>2. q \in Seq(TeamOp) /\ OneReconcile(q) /\ p = Append(q, o) /\ FirstFor(q, o) /\ o \in TeamOp
    BY <1>0, <1>3, <1>4, <2>1 DEF FirstFor, ChannelsTyped, TeamGroups!ReconcileDescriptions
  <2>3. p \in Seq(TeamOp) /\ All(p) = All(q) \cup {o} /\ OneReconcile(p)
    BY <2>2, QueueGrows
  <2> QED
    BY <2>1, <2>3
<1>6. ChannelsTyped'
  BY <1>0, <1>1, <1>5 DEF ChannelsTyped
<1>7. OpFits(o)'
  BY <1>1, <1>2, <1>4 DEF OpFits
<1>8. GroupsApart' /\ \A g \in Gids : GroupStays(g) /\ group'[g].name = group[g].name
  BY <1>0, <1>1 DEF GroupsApart, GroupStays
<1>9. \A u \in Teams : (Alive(u)' <=> Alive(u)) /\ (~Alive(u) => chan[u] = TeamGroups!NoChan)
  BY <1>1 DEF ChannelInv, TeamFits, Alive
<1> QED
  BY <1>0, <1>1, <1>4, <1>5, <1>6, <1>7, <1>8, <1>9, CreationsKept

\* The one request that creates team t goes on, ends or hands over: x is what
\* becomes of it.
FounderGoes(s, t, x) ==
  /\ web[s].pc \in Founders /\ web[s].t = t /\ UNCHANGED team
  /\ \A u \in Teams \ {t} : chan'[u] = chan[u]
  /\ x \in WebRequest /\ web' = [web EXCEPT ![s] = x] /\ (x.pc = "idle" \/ x.t = t)
  /\ x.pc \in Unrecorded => chan'[t] = TeamGroups!NoChan
  /\ x.pc = "enqueue" /\ Alive(t) => chan'[t] # TeamGroups!NoChan /\ chan'[t].gid = 0

LEMMA FounderMoves ==
  ASSUME ChannelAssumption, ChannelInv, NEW s \in Sessions, NEW t \in Teams, NEW x, FounderGoes(s, t, x)
  PROVE  /\ (\A r \in Sessions : RequestFits(r))'
         /\ \A o \in All(ops) : OpFits(o)' /\ (o.t = t => o.kind # "reconcile")
         /\ \A r \in Sessions \ {s} : web'[r] = web[r] /\ (web[r].t = t => web[r].pc \notin Founders)
         /\ web'[s] = x /\ web' \in [Sessions -> WebRequest]
         /\ Alive(t) => chan[t].gid = 0
<1>0. /\ web[s].pc \in Founders /\ web[s].t = t /\ UNCHANGED team
      /\ \A u \in Teams \ {t} : chan'[u] = chan[u]
      /\ x \in WebRequest /\ web' = [web EXCEPT ![s] = x] /\ (x.pc = "idle" \/ x.t = t)
      /\ x.pc \in Unrecorded => chan'[t] = TeamGroups!NoChan
      /\ x.pc = "enqueue" /\ Alive(t) => chan'[t] # TeamGroups!NoChan /\ chan'[t].gid = 0
  BY DEF FounderGoes
<1>1. /\ \A r \in Sessions : RequestFits(r) /\ web[r] \in WebRequest
      /\ \A o \in All(ops) : OpFits(o) /\ o \in TeamOp
      /\ web' \in [Sessions -> WebRequest] /\ web'[s] = x /\ \A r \in Sessions \ {s} : web'[r] = web[r]
  BY <1>0, RequestGoes DEF ChannelInv, ChannelsTyped, All
<1>2. team[t] # TeamGroups!Unborn /\ Founders = Unrecorded \cup {"enqueue"} /\ "idle" \notin Founders
  BY <1>0, <1>1 DEF RequestFits, Founders, Unrecorded
<1>3. \A r \in Sessions \ {s} : web[r].t = t => web[r].pc \notin Founders
  BY <1>0, <1>1 DEF RequestFits
<1>4. \A o \in All(ops) : o.kind = "reconcile" => o.t # t
  BY <1>0, <1>1 DEF OpFits
<1>5. Alive(t) => chan[t].gid = 0
  BY <1>0, <1>1 DEF RequestFits, Founders, TeamGroups!NoChan, TeamGroups!NoGid
<1>6. ASSUME NEW r \in Sessions PROVE RequestFits(r)'
  <2>1. CASE r = s
    <3>1. \A q \in Sessions : web'[q].t = t /\ web'[q].pc \in Founders => q = s
      BY <1>0, <1>1, <1>3
    <3> QED
      BY <1>0, <1>1, <1>2, <2>1, <3>1 DEF RequestFits, Alive
  <2>2. CASE r # s
    <3>1. web'[r] = web[r] /\ RequestFits(r) /\ web[r].pc \in Founders => web[r].t # t
      BY <1>0, <1>1, <1>3, <2>2
    <3>2. web[r].pc # "idle" => web[r].t \in Teams
      BY <1>0, <1>1 DEF WebRequest
    <3>3. \A q \in Sessions : web'[q].t = web[r].t /\ web'[q].pc \in Founders /\ web[r].pc \in Founders => q = r
      BY <1>0, <1>1, <1>2, <2>2, <3>1 DEF RequestFits
    <3> QED
      BY <1>0, <1>1, <1>2, <2>2, <3>1, <3>2, <3>3 DEF RequestFits, Alive
  <2> QED
    BY <1>0, <2>1, <2>2
<1>7. ASSUME NEW o \in All(ops) PROVE OpFits(o)'
  <2>1. OpFits(o) /\ o.t \in Teams
    BY <1>0, <1>1 DEF TeamOp
  <2>2. CASE o.t = t
    BY <1>0, <1>2, <1>4, <1>5, <2>1, <2>2 DEF OpFits, Alive
  <2>3. CASE o.t # t
    <3>1. ASSUME o.kind = "reconcile", NEW r \in Sessions, web'[r].t = o.t PROVE web'[r].pc \notin Founders
      BY <1>0, <1>1, <1>2, <2>1, <2>3, <3>1 DEF OpFits
    <3> QED
      BY <1>0, <2>1, <2>3, <3>1 DEF OpFits, Alive
  <2> QED
    BY <1>0, <2>2, <2>3
<1> QED
  BY <1>0, <1>1, <1>3, <1>4, <1>5, <1>6, <1>7

\* What is on its way for other teams is so still, and what another part of the
\* system has in hand for this one.
LEMMA OthersOnTheirWay ==
  ASSUME NEW g, NEW t, OnItsWay(g, t), group'[g].name = group[g].name,
         chan[t].gid = g => chan'[t].gid = g,
         \A s \in Sessions : web[s].t = t /\ web[s].pc \in {"insert", "defer", "enqueue"} => web'[s] = web[s],
         \A o \in All(ops) : o.t = t /\ o.kind = "reconcile" => o \in All(ops')
  PROVE  OnItsWay(g, t)'
<1>1. CASE chan[t].gid = g
  BY <1>1 DEF OnItsWay
<1>2. ASSUME NEW s \in Sessions, web[s].t = t, web[s].name = group[g].name,
             (web[s].pc = "insert" /\ web[s].gid = g) \/ web[s].pc \in {"defer", "enqueue"}
      PROVE  OnItsWay(g, t)'
  <2>1. web'[s] = web[s]
    BY <1>2
  <2> QED
    BY <1>2, <2>1 DEF OnItsWay
<1>3. ASSUME NEW o \in All(ops), o.t = t, o.kind = "reconcile",
             (o.st = "made" /\ o.gid = g) \/ (o.st = "pending" /\ o.name = group[g].name)
      PROVE  OnItsWay(g, t)'
  BY <1>3 DEF OnItsWay
<1> QED
  BY <1>1, <1>2, <1>3 DEF OnItsWay

LEMMA TeamIsCreated ==
  ASSUME ChannelAssumption, ChannelInv, NEW s \in Sessions, NEW n \in Names, TeamGroups!Create(s, n)
  PROVE  ChannelInv'
<1>0. /\ ChannelsTyped /\ GroupsApart /\ OneReconcile(ops)
      /\ (\A g \in Gids : g # 0 /\ GroupFits(g)) /\ (\A u \in Teams : TeamFits(u) /\ u # 0)
      /\ (\A r \in Sessions : web[r] \in WebRequest /\ RequestFits(r))
      /\ (\A o \in All(ops) : OpFits(o) /\ o \in TeamOp)
      /\ TeamGroups!Unborn \notin Names /\ made \in Nat
      /\ "idle" \notin Founders /\ {"post", "defer"} \subseteq Unrecorded /\ Unrecorded \subseteq Founders
  BY ChannelSize DEF ChannelInv, ChannelsTyped, ChannelAssumption, All, Founders, Unrecorded
<1>1. PICK t : t = TeamGroups!NextTeam
  OBVIOUS
<1>2. t \in Teams /\ team[t] = TeamGroups!Unborn
  <2> DEFINE U == {u \in Teams : team[u] = TeamGroups!Unborn}
  <2>1. U # {} /\ U \subseteq Nat
    BY DEF TeamGroups!Create, ChannelAssumption
  <2>2. \E u \in U : \A v \in U : u <= v
    BY <2>1, LeastNatural
  <2> QED
    BY <1>1, <2>2 DEF TeamGroups!NextTeam
<1>3. PICK x : /\ x \in [pc : {"post", "defer"}, t : {t}, name : {n}, gid : {0}]
               /\ web' = [web EXCEPT ![s] = x]
  <2>1. PICK pc \in {"post", "defer"} :
          web' = [web EXCEPT ![s] = [TeamGroups!Idle EXCEPT !.pc = pc, !.t = t, !.name = n]]
    BY <1>1 DEF TeamGroups!Create
  <2>2. [TeamGroups!Idle EXCEPT !.pc = pc, !.t = t, !.name = n] \in [pc : {"post", "defer"}, t : {t}, name : {n}, gid : {0}]
    BY DEF TeamGroups!Idle, TeamGroups!NoGid
  <2> QED
    BY <2>1, <2>2
<1>4. x \in WebRequest /\ x.pc \in Unrecorded /\ x.t = t /\ x.gid = 0
  BY <1>0, <1>2, <1>3 DEF WebRequest
<1>5. /\ web' \in [Sessions -> WebRequest] /\ web'[s] = x /\ web[s].pc = "idle"
      /\ \A r \in Sessions \ {s} : web'[r] = web[r]
  BY <1>0, <1>3, <1>4, RequestGoes DEF TeamGroups!Create, TeamGroups!At
<1>6. /\ UNCHANGED <<chan, group, made, ops, past>> /\ used' \in [edits : 0 .. MaxEdits, faults : 0 .. MaxFaults]
      /\ team' = [team EXCEPT ![t] = n]
  BY <1>0, <1>1, BudgetKept DEF TeamGroups!Create
<1>7. /\ team' \in [Teams -> Names \cup {TeamGroups!Unborn, TeamGroups!Deleted}]
      /\ team'[t] = n /\ \A u \in Teams \ {t} : team'[u] = team[u]
  BY <1>0, <1>2, <1>6 DEF ChannelsTyped
<1>8. ChannelsTyped'
  BY <1>0, <1>5, <1>6, <1>7 DEF ChannelsTyped
<1>9. /\ chan[t] = TeamGroups!NoChan
      /\ \A r \in Sessions : web[r].t # t
      /\ \A o \in All(ops) : o.t # t
  <2>1. chan[t] = TeamGroups!NoChan
    BY <1>0, <1>2 DEF TeamFits, Alive
  <2>2. ASSUME NEW r \in Sessions PROVE web[r].t # t
    <3>1. CASE web[r].pc = "idle"
      BY <1>0, <1>2, <3>1, IdleRequest DEF WebRequest
    <3> QED
      BY <1>0, <1>2, <3>1 DEF RequestFits
  <2> QED
    BY <1>0, <1>2, <2>1, <2>2 DEF OpFits
<1>10. \A u \in Teams : TeamFits(u)'
  BY <1>0, <1>6, <1>7 DEF TeamFits, Alive
<1>11. ASSUME NEW r \in Sessions PROVE RequestFits(r)'
  <2>1. CASE r = s
    <3>1. \A q \in Sessions : web'[q].t = t => q = s
      BY <1>5, <1>9
    <3> QED
      BY <1>0, <1>4, <1>5, <1>6, <1>7, <1>9, <2>1, <3>1 DEF RequestFits, Unrecorded
  <2>2. CASE r # s
    <3>1. web'[r] = web[r] /\ RequestFits(r) /\ web[r].t # t /\ (web[r].pc # "idle" => web[r].t \in Teams)
      BY <1>0, <1>5, <1>9, <2>2 DEF WebRequest
    <3>2. web[r].pc # "idle" => team'[web[r].t] = team[web[r].t]
      BY <1>7, <3>1
    <3>3. \A q \in Sessions : web'[q].t = web[r].t /\ web'[q].pc \in Founders /\ web[r].pc \in Founders => q = r
      BY <1>4, <1>5, <3>1 DEF RequestFits
    <3> QED
      BY <1>0, <1>6, <3>1, <3>2, <3>3 DEF RequestFits, Alive
  <2> QED
    BY <2>1, <2>2
<1>12. ASSUME NEW o \in All(ops) PROVE OpFits(o)'
  <2>1. OpFits(o) /\ o.t \in Teams /\ o.t # t
    BY <1>0, <1>9 DEF TeamOp
  <2>2. ASSUME o.kind = "reconcile", NEW r \in Sessions, web'[r].t = o.t PROVE web'[r].pc \notin Founders
    BY <1>4, <1>5, <2>1, <2>2 DEF OpFits
  <2> QED
    BY <1>6, <1>7, <2>1, <2>2 DEF OpFits, Alive
<1>13. ASSUME NEW g \in Gids, NEW u \in Teams, HeldFor(g, u)' PROVE HeldFor(g, u)
  BY <1>0, <1>4, <1>5, <1>6, <1>13 DEF HeldFor
<1>14. ASSUME NEW g \in Gids, NEW u \in Teams, OnItsWay(g, u) PROVE OnItsWay(g, u)'
  BY <1>5, <1>6, <1>14, OthersOnTheirWay
<1>15. \A g \in Gids : GroupStays(g)
  BY <1>6 DEF GroupStays
<1>16. GroupsApart' /\ OneReconcile(ops)' /\ made <= made'
  BY <1>0, <1>6 DEF GroupsApart
<1>17. \A u \in Teams : /\ team'[u] = TeamGroups!Unborn => team[u] = TeamGroups!Unborn
                        /\ Alive(u)' => Alive(u) \/ team[u] = TeamGroups!Unborn
  BY <1>0, <1>2, <1>7 DEF Alive
<1> QED
  BY <1>6, <1>8, <1>10, <1>11, <1>12, <1>13, <1>14, <1>15, <1>16, <1>17, ChannelsKept

\* A request that creates a team goes on: others' groups stay as they are, a
\* group in its hands is one it made, found or had already.
LEMMA CreationGoesOn ==
  ASSUME ChannelAssumption, ChannelInv, NEW s \in Sessions, NEW t \in Teams, web[s].pc \in Founders, web[s].t = t,
         UNCHANGED team, chan' \in [Teams -> ChanType], \A u \in Teams \ {t} : chan'[u] = chan[u],
         chan'[t] # TeamGroups!NoChan => Alive(t),
         NEW x \in WebRequest, web' = [web EXCEPT ![s] = x], x.pc = "idle" \/ x.t = t,
         x.pc \in Unrecorded => chan'[t] = TeamGroups!NoChan,
         x.pc = "enqueue" /\ Alive(t) => chan'[t] # TeamGroups!NoChan /\ chan'[t].gid = 0,
         ops' \in Seq(TeamOp), OneReconcile(ops'), All(ops) \subseteq All(ops'),
         \A o \in All(ops') : o \in All(ops) \/ (OpFits(o)' /\ o.gid = 0),
         made' \in 0 .. Cardinality(Gids), made <= made', group' \in [Gids -> GroupType], GroupsApart',
         used' \in [edits : 0 .. MaxEdits, faults : 0 .. MaxFaults],
         past' \in [crossed : SUBSET Teams, lost : SUBSET Teams, taken : SUBSET Gids],
         past.taken \subseteq past'.taken, past.lost \subseteq past'.lost,
         \A g \in Gids : (GroupStays(g) /\ group'[g].name = group[g].name) \/ GroupComes(g),
         \A g \in Gids : (x.pc # "idle" /\ x.gid = g) \/ chan'[t].gid = g => HeldFor(g, t) \/ GroupComes(g) \/ Found(g, t),
         \A g \in Gids \ past'.taken :
           /\ group[g] # TeamGroups!NoGroup /\ Alive(t) /\ web[s].name = group[g].name
           /\ (web[s].pc = "insert" /\ web[s].gid = g) \/ web[s].pc \in {"defer", "enqueue"}
           => OnItsWay(g, t)' \/ t \in past'.lost
  PROVE  ChannelInv'
<1>0. /\ ChannelsTyped /\ (\A g \in Gids : g # 0) /\ (\A u \in Teams : TeamFits(u))
      /\ (\A r \in Sessions : web[r] \in WebRequest)
  BY ChannelSize DEF ChannelInv, ChannelsTyped
<1>a. FounderGoes(s, t, x)
  BY DEF FounderGoes
<1>1. /\ (\A r \in Sessions : RequestFits(r))'
      /\ \A o \in All(ops) : OpFits(o)' /\ (o.t = t => o.kind # "reconcile")
      /\ \A r \in Sessions \ {s} : web'[r] = web[r] /\ (web[r].t = t => web[r].pc \notin Founders)
      /\ web'[s] = x /\ web' \in [Sessions -> WebRequest]
      /\ Alive(t) => chan[t].gid = 0
  BY <1>a, FounderMoves
<1>2. ChannelsTyped'
  BY <1>0, <1>1 DEF ChannelsTyped
<1>3. ASSUME NEW g \in Gids, NEW u \in Teams, HeldFor(g, u)' PROVE HeldFor(g, u) \/ GroupComes(g) \/ Found(g, u)
  <2>1. CASE chan'[u].gid = g
    BY <2>1 DEF HeldFor
  <2>2. ASSUME NEW r \in Sessions, web'[r].t = u, web'[r].gid = g PROVE HeldFor(g, u) \/ GroupComes(g) \/ Found(g, u)
    <3>1. CASE r = s
      <4>1. x.pc # "idle"
        BY <1>0, <1>1, <2>2, <3>1, IdleRequest DEF WebRequest
      <4> QED
        BY <1>1, <2>2, <3>1, <4>1
    <3>2. CASE r # s
      BY <1>1, <2>2, <3>2 DEF HeldFor
    <3> QED
      BY <3>1, <3>2
  <2>3. ASSUME NEW o \in All(ops'), o.t = u, o.gid = g PROVE HeldFor(g, u)
    BY <1>0, <2>3 DEF HeldFor
  <2> QED
    BY <1>3, <2>1, <2>2, <2>3 DEF HeldFor
<1>4. ASSUME NEW g \in Gids \ past'.taken, NEW u \in Teams, group[g] # TeamGroups!NoGroup, group[g].by = u,
             Alive(u), Alive(u)', OnItsWay(g, u)
      PROVE  OnItsWay(g, u)' \/ u \in past'.lost
  <2>0. group'[g].name = group[g].name
    BY <1>4 DEF GroupComes
  <2>1. CASE chan[u].gid = g
    <3>1. u # t
      BY <1>0, <1>1, <1>4, <2>1
    <3> QED
      BY <2>1, <3>1 DEF OnItsWay
  <2>2. ASSUME NEW r \in Sessions, web[r].t = u, web[r].name = group[g].name,
               (web[r].pc = "insert" /\ web[r].gid = g) \/ web[r].pc \in {"defer", "enqueue"}
        PROVE  OnItsWay(g, u)' \/ u \in past'.lost
    <3>1. CASE r = s
      BY <1>4, <2>2, <3>1
    <3>2. CASE r # s
      BY <1>1, <2>0, <2>2, <3>2 DEF OnItsWay
    <3> QED
      BY <3>1, <3>2
  <2>3. ASSUME NEW o \in All(ops), o.t = u, o.kind = "reconcile",
               (o.st = "made" /\ o.gid = g) \/ (o.st = "pending" /\ o.name = group[g].name)
        PROVE  OnItsWay(g, u)'
    BY <2>0, <2>3 DEF OnItsWay
  <2> QED
    BY <1>4, <2>1, <2>2, <2>3 DEF OnItsWay
<1>5. (\A u \in Teams : TeamFits(u))' /\ \A u \in Teams : Alive(u)' <=> Alive(u)
  BY <1>0 DEF TeamFits, Alive
<1>6. (\A o \in All(ops) : OpFits(o))'
  BY <1>1
<1>7. \A g \in Gids : GroupStays(g) \/ GroupGoes(g) \/ GroupComes(g)
  OBVIOUS
<1>8. \A u \in Teams : /\ team'[u] = TeamGroups!Unborn => team[u] = TeamGroups!Unborn
                       /\ Alive(u)' => Alive(u) \/ team[u] = TeamGroups!Unborn
  BY <1>5
<1> QED
  BY <1>1, <1>2, <1>3, <1>4, <1>5, <1>6, <1>7, <1>8, ChannelsKept

LEMMA GroupIsMade ==
  ASSUME ChannelAssumption, ChannelInv, NEW t \in Teams, NEW n \in Names, NEW d \in Names, TeamGroups!Make(t, n, d)
  PROVE  /\ made' = made + 1 /\ made' \in 0 .. Cardinality(Gids) /\ made <= made' /\ made + 1 \in Gids
         /\ group' \in [Gids -> GroupType] /\ GroupsApart'
         /\ group[made + 1] = TeamGroups!NoGroup /\ group'[made + 1] # TeamGroups!NoGroup
         /\ group'[made + 1].by = t /\ group'[made + 1].name = n
         /\ \A g \in Gids \ {made + 1} : group'[g] = group[g]
         /\ \A u \in Teams : ~HeldFor(made + 1, u)
<1>0. /\ ChannelsTyped /\ GroupsApart /\ (\A g \in Gids : GroupFits(g)) /\ TeamGroups!NoName \notin Names
      /\ Cardinality(Gids) \in Nat /\ Gids = 1 .. Cardinality(Gids)
  BY ChannelSize DEF ChannelInv, ChannelAssumption
<1>1. /\ made' = made + 1 /\ made < Cardinality(Gids) /\ TeamGroups!Named(n) = {}
      /\ group' = [group EXCEPT ![made + 1] = [name |-> n, desc |-> d, by |-> t]]
  BY ChannelCounts DEF TeamGroups!Make
<1>2. made \in 0 .. Cardinality(Gids) /\ made' \in 0 .. Cardinality(Gids) /\ made <= made' /\ made + 1 \in Gids
  BY <1>0, <1>1 DEF ChannelsTyped
<1>3. PICK h : h = made + 1
  OBVIOUS
<1>4. ~(h <= made) /\ h \in Gids
  BY <1>2, <1>3
<1>5. group[h] = TeamGroups!NoGroup /\ \A u \in Teams : ~HeldFor(h, u)
  BY <1>0, <1>4 DEF GroupFits
<1>6. PICK x : x = [name |-> n, desc |-> d, by |-> t]
  OBVIOUS
<1>7. x \in GroupType /\ x # TeamGroups!NoGroup /\ x.by = t /\ x.name = n
  BY <1>0, <1>6 DEF GroupType, TeamGroups!NoGroup
<1>8. group' \in [Gids -> GroupType] /\ group'[h] = x /\ \A g \in Gids \ {h} : group'[g] = group[g]
  BY <1>0, <1>1, <1>3, <1>4, <1>6, <1>7 DEF ChannelsTyped
<1>9. \A g \in Gids : group[g].name # n
  BY <1>1 DEF TeamGroups!Named
<1>10. GroupsApart'
  BY <1>0, <1>7, <1>8, <1>9 DEF GroupsApart
<1> QED
  BY <1>1, <1>2, <1>3, <1>5, <1>7, <1>8, <1>10

\* A group found by its name is nobody else's, unless that is on record.
LEMMA GroupFoundByName ==
  ASSUME ChannelAssumption, ChannelInv, NEW g \in Gids, NEW t \in Teams, past'.taken = TeamGroups!Taken(g, t), UNCHANGED team,
         group'[g] # TeamGroups!NoGroup, GroupStays(g), \A u \in Teams : HeldFor(g, u)' => HeldFor(g, u) \/ u = t
  PROVE  Found(g, t)
<1> SUFFICES ASSUME g \notin past'.taken
             PROVE  /\ \A u \in Teams : HeldFor(g, u) => u = t
                    /\ group'[g].by = t \/ ~Alive(group[g].by)'
  BY DEF Found
<1>1. /\ group[g].by \notin TeamGroups!Live \ {t} /\ (\A u \in Teams \ {t} : chan[u].gid # g) /\ ~TeamGroups!InHand(g)
  BY DEF TeamGroups!Taken
<1>2. (\A s \in Sessions : web[s].gid # g) /\ \A o \in All(ops) : o.gid # g
  BY <1>1 DEF TeamGroups!InHand, All
<1>3. group[g].by \in Teams
  BY DEF ChannelInv, ChannelsTyped, GroupType, GroupStays
<1> QED
  BY <1>1, <1>2, <1>3 DEF HeldFor, GroupStays, Alive, TeamGroups!Live

LEMMA GroupIsPosted ==
  ASSUME ChannelAssumption, ChannelInv, NEW s \in Sessions, TeamGroups!PostGroup(s)
  PROVE  ChannelInv'
<1>1. PICK t, w : t = web[s].t /\ w = web[s]
  OBVIOUS
<1>0. /\ ChannelsTyped /\ OneReconcile(ops) /\ w \in WebRequest /\ w.pc = "post" /\ t \in Teams /\ w.t = t /\ w.name \in Names
      /\ w.gid = 0 /\ w.pc \in Founders /\ "post" \in Unrecorded /\ {"lookup", "insert", "defer"} \subseteq Unrecorded
      /\ "enqueue" \notin Unrecorded /\ "idle" \notin Unrecorded
      /\ chan[t] = TeamGroups!NoChan /\ team[t] # TeamGroups!Unborn /\ \A g \in Gids : g # 0
  BY <1>1, ChannelSize DEF ChannelInv, ChannelsTyped, TeamGroups!PostGroup, TeamGroups!At, WebRequest, RequestFits,
     Founders, Unrecorded
<1>2. UNCHANGED <<team, chan, ops, past>> /\ used' \in [edits : 0 .. MaxEdits, faults : 0 .. MaxFaults]
  BY <1>0, BudgetKept DEF TeamGroups!PostGroup
<1>3. web \in [Sessions -> WebRequest] /\ past \in [crossed : SUBSET Teams, lost : SUBSET Teams, taken : SUBSET Gids]
      /\ ops \in Seq(TeamOp) /\ chan \in [Teams -> ChanType] /\ group \in [Gids -> GroupType] /\ made \in 0 .. Cardinality(Gids)
  BY <1>0 DEF ChannelsTyped
<1>4. /\ ops' \in Seq(TeamOp) /\ OneReconcile(ops') /\ All(ops) \subseteq All(ops') /\ (\A o \in All(ops') : o \in All(ops))
      /\ past' \in [crossed : SUBSET Teams, lost : SUBSET Teams, taken : SUBSET Gids]
      /\ past.taken \subseteq past'.taken /\ past.lost \subseteq past'.lost
      /\ chan' \in [Teams -> ChanType] /\ (\A u \in Teams : chan'[u] = chan[u]) /\ UNCHANGED team
  BY <1>0, <1>2, <1>3
<1>5. \/ /\ TeamGroups!Make(t, w.name, w.name)
         /\ \/ web' = [web EXCEPT ![s] = [w EXCEPT !.pc = "insert", !.gid = made + 1]]
            \/ web' = [web EXCEPT ![s] = [w EXCEPT !.pc = "defer"]]
      \/ UNCHANGED <<group, made>> /\ \E pc \in {"lookup", "defer"} : web' = [web EXCEPT ![s] = [w EXCEPT !.pc = pc]]
  BY <1>1, <1>3 DEF TeamGroups!PostGroup, TeamGroups!Goto
<1>6. CASE UNCHANGED <<group, made>> /\ \E pc \in {"lookup", "defer"} : web' = [web EXCEPT ![s] = [w EXCEPT !.pc = pc]]
  <2>1. PICK pc \in {"lookup", "defer"} : web' = [web EXCEPT ![s] = [w EXCEPT !.pc = pc]]
    BY <1>6
  <2>2. PICK x : x = [w EXCEPT !.pc = pc]
    OBVIOUS
  <2>3. x \in WebRequest /\ x.pc \in Unrecorded /\ x.t = t /\ x.gid = 0 /\ (x.pc = "idle" \/ x.t = t)
    BY <1>0, <2>2 DEF WebRequest, Founders, Unrecorded
  <2>4. web' = [web EXCEPT ![s] = x]
    BY <2>1, <2>2
  <2>5. /\ made' \in 0 .. Cardinality(Gids) /\ made <= made' /\ group' \in [Gids -> GroupType] /\ GroupsApart'
        /\ \A g \in Gids : (GroupStays(g) /\ group'[g].name = group[g].name) \/ GroupComes(g)
    BY <1>3, <1>6, ChannelSize DEF ChannelInv, GroupsApart, GroupStays
  <2>6. /\ x.pc # "enqueue" /\ web[s].pc \notin {"insert", "defer", "enqueue"}
        /\ web[s].pc \in Founders /\ web[s].t = t /\ chan'[t] = TeamGroups!NoChan
        /\ \A g \in Gids : (x.pc # "idle" /\ x.gid = g) \/ chan'[t].gid = g => HeldFor(g, t) \/ GroupComes(g) \/ Found(g, t)
    BY <1>0, <1>1, <1>4, <2>3 DEF TeamGroups!NoChan, TeamGroups!NoGid, Unrecorded
  <2> QED
    BY <1>0, <1>2, <1>4, <2>3, <2>4, <2>5, <2>6, CreationGoesOn, ZenonT(60)
<1>7. ASSUME TeamGroups!Make(t, w.name, w.name), NEW x \in WebRequest, web' = [web EXCEPT ![s] = x], x.t = t, x.name = w.name,
             \/ x.pc = "insert" /\ x.gid = made + 1
             \/ x.pc = "defer"
      PROVE  ChannelInv'
  <2>1. /\ made' = made + 1 /\ made' \in 0 .. Cardinality(Gids) /\ made <= made' /\ made + 1 \in Gids
        /\ group' \in [Gids -> GroupType] /\ GroupsApart'
        /\ group[made + 1] = TeamGroups!NoGroup /\ group'[made + 1] # TeamGroups!NoGroup
        /\ group'[made + 1].by = t /\ group'[made + 1].name = w.name
        /\ \A g \in Gids \ {made + 1} : group'[g] = group[g]
        /\ \A u \in Teams : ~HeldFor(made + 1, u)
    BY <1>0, <1>7, GroupIsMade
  <2>2. web'[s] = x /\ \A r \in Sessions \ {s} : web'[r] = web[r]
    BY <1>0, <1>7, RequestGoes
  <2>3. PICK h : h = made + 1
    OBVIOUS
  <2>4. h \in Gids /\ h <= made' /\ x.gid \in {0, h}
    BY <1>0, <1>3, <1>7, <2>1, <2>3 DEF WebRequest
  <2>5. OnItsWay(h, t)'
    BY <1>7, <2>1, <2>2, <2>3 DEF OnItsWay
  <2>6. ASSUME NEW u \in Teams, HeldFor(h, u)' PROVE u = t
    <3>1. ~HeldFor(h, u)
      BY <2>1, <2>3
    <3>2. chan'[u].gid # h /\ \A o \in All(ops') : o.t = u => o.gid # h
      BY <1>4, <3>1 DEF HeldFor
    <3>3. \A r \in Sessions \ {s} : ~(web'[r].t = u /\ web'[r].gid = h)
      BY <2>2, <3>1 DEF HeldFor
    <3> QED
      BY <1>7, <2>2, <2>6, <3>2, <3>3 DEF HeldFor
  <2>7. GroupComes(h)
    BY <1>0, <1>2, <2>1, <2>3, <2>4, <2>5, <2>6 DEF GroupComes
  <2>8. \A g \in Gids : (GroupStays(g) /\ group'[g].name = group[g].name) \/ GroupComes(g)
    BY <2>1, <2>3, <2>7 DEF GroupStays
  <2>9. \A g \in Gids : (x.pc # "idle" /\ x.gid = g) \/ chan'[t].gid = g => HeldFor(g, t) \/ GroupComes(g) \/ Found(g, t)
    BY <1>0, <1>4, <2>4, <2>7 DEF TeamGroups!NoChan, TeamGroups!NoGid
  <2>10. /\ x.pc \in Unrecorded /\ x.pc # "enqueue" /\ web[s].pc \notin {"insert", "defer", "enqueue"}
         /\ web[s].pc \in Founders /\ web[s].t = t /\ chan'[t] = TeamGroups!NoChan
    BY <1>0, <1>1, <1>4, <1>7
  <2> QED
    BY <1>0, <1>2, <1>4, <1>7, <2>1, <2>8, <2>9, <2>10, CreationGoesOn, ZenonT(60)
<1>8. ASSUME TeamGroups!Make(t, w.name, w.name), web' = [web EXCEPT ![s] = [w EXCEPT !.pc = "insert", !.gid = made + 1]]
      PROVE  ChannelInv'
  <2>1. made + 1 \in Gids
    BY <1>0, <1>8, GroupIsMade
  <2>2. PICK x : x = [w EXCEPT !.pc = "insert", !.gid = made + 1]
    OBVIOUS
  <2>3. x \in WebRequest /\ x.pc = "insert" /\ x.gid = made + 1 /\ x.t = t /\ x.name = w.name
    BY <1>0, <2>1, <2>2 DEF WebRequest, Founders, Unrecorded
  <2> QED
    BY <1>7, <1>8, <2>2, <2>3
<1>9. ASSUME TeamGroups!Make(t, w.name, w.name), web' = [web EXCEPT ![s] = [w EXCEPT !.pc = "defer"]]
      PROVE  ChannelInv'
  <2>2. PICK x : x = [w EXCEPT !.pc = "defer"]
    OBVIOUS
  <2>3. x \in WebRequest /\ x.pc = "defer" /\ x.t = t /\ x.name = w.name
    BY <1>0, <2>2 DEF WebRequest, Founders, Unrecorded
  <2> QED
    BY <1>7, <1>9, <2>2, <2>3
<1> QED
  BY <1>5, <1>6, <1>8, <1>9

LEMMA GroupIsLookedUp ==
  ASSUME ChannelAssumption, ChannelInv, NEW s \in Sessions, TeamGroups!Lookup(s)
  PROVE  ChannelInv'
<1>1. PICK t, w : t = web[s].t /\ w = web[s]
  OBVIOUS
<1>0. /\ ChannelsTyped /\ OneReconcile(ops) /\ w \in WebRequest /\ w.pc = "lookup" /\ t \in Teams /\ w.t = t /\ w.name \in Names
      /\ w.gid = 0 /\ w.pc \in Founders /\ {"insert", "defer"} \subseteq Unrecorded
      /\ chan[t] = TeamGroups!NoChan /\ team[t] # TeamGroups!Unborn /\ (\A g \in Gids : g # 0) /\ TeamGroups!NoName \notin Names
  BY <1>1, ChannelSize DEF ChannelInv, ChannelsTyped, TeamGroups!Lookup, TeamGroups!At, WebRequest, RequestFits, Founders,
     Unrecorded,
     ChannelAssumption
<1>2. UNCHANGED <<team, chan, ops, group, made, used>>
  BY DEF TeamGroups!Lookup
<1>3. web \in [Sessions -> WebRequest] /\ past \in [crossed : SUBSET Teams, lost : SUBSET Teams, taken : SUBSET Gids]
      /\ ops \in Seq(TeamOp) /\ chan \in [Teams -> ChanType] /\ group \in [Gids -> GroupType] /\ made \in 0 .. Cardinality(Gids)
  BY <1>0 DEF ChannelsTyped
<1>4. /\ ops' \in Seq(TeamOp) /\ OneReconcile(ops') /\ All(ops) \subseteq All(ops') /\ (\A o \in All(ops') : o \in All(ops))
      /\ chan' \in [Teams -> ChanType] /\ (\A u \in Teams : chan'[u] = chan[u]) /\ chan'[t] = TeamGroups!NoChan
      /\ used' \in [edits : 0 .. MaxEdits, faults : 0 .. MaxFaults]
      /\ made' \in 0 .. Cardinality(Gids) /\ made <= made' /\ group' \in [Gids -> GroupType] /\ GroupsApart'
      /\ \A g \in Gids : GroupStays(g) /\ group'[g].name = group[g].name
      /\ \A g \in Gids : (GroupStays(g) /\ group'[g].name = group[g].name) \/ GroupComes(g)
  BY <1>0, <1>2, <1>3, ChannelSize DEF ChannelsTyped, ChannelInv, GroupsApart, GroupStays
<1>5. /\ web[s].pc \notin {"insert", "defer", "enqueue"} /\ web[s].pc \in Founders /\ web[s].t = t
      /\ \A g \in Gids : chan'[t].gid # g
  BY <1>0, <1>1, <1>4 DEF TeamGroups!NoChan, TeamGroups!NoGid
<1>6. CASE web' = [web EXCEPT ![s] = [w EXCEPT !.pc = "defer"]] /\ UNCHANGED past
  <2>1. PICK x : x = [w EXCEPT !.pc = "defer"]
    OBVIOUS
  <2>2. x \in WebRequest /\ x.pc = "defer" /\ x.t = t /\ x.gid = 0 /\ x.pc # "enqueue" /\ x.pc \in Unrecorded
    BY <1>0, <2>1 DEF WebRequest, Founders, Unrecorded
  <2>3. web' = [web EXCEPT ![s] = x] /\ \A g \in Gids : (x.pc # "idle" /\ x.gid = g) \/ chan'[t].gid = g => HeldFor(g, t)
    BY <1>0, <1>5, <1>6, <2>1, <2>2
  <2>4. /\ past' \in [crossed : SUBSET Teams, lost : SUBSET Teams, taken : SUBSET Gids]
        /\ past.taken \subseteq past'.taken /\ past.lost \subseteq past'.lost
    BY <1>3, <1>6
  <2> QED
    BY <1>0, <1>2, <1>4, <1>5, <2>2, <2>3, <2>4, CreationGoesOn, ZenonT(60)
<1>7. ASSUME NEW g \in Gids, group[g].name = w.name, web' = [web EXCEPT ![s] = [w EXCEPT !.pc = "insert", !.gid = g]],
             past' = [past EXCEPT !.taken = TeamGroups!Taken(g, t)]
      PROVE  ChannelInv'
  <2>1. PICK x : x = [w EXCEPT !.pc = "insert", !.gid = g]
    OBVIOUS
  <2>2. x \in WebRequest /\ x.pc = "insert" /\ x.t = t /\ x.gid = g /\ x.pc # "enqueue" /\ x.pc \in Unrecorded
    BY <1>0, <2>1 DEF WebRequest, Founders, Unrecorded
  <2>3. web' = [web EXCEPT ![s] = x]
    BY <1>7, <2>1
  <2>4. web'[s] = x /\ \A r \in Sessions \ {s} : web'[r] = web[r]
    BY <1>0, <2>2, <2>3, RequestGoes
  <2>5. /\ past' \in [crossed : SUBSET Teams, lost : SUBSET Teams, taken : SUBSET Gids]
        /\ past.taken \subseteq past'.taken /\ past.lost \subseteq past'.lost /\ past'.taken = TeamGroups!Taken(g, t)
    BY <1>3, <1>7 DEF TeamGroups!Taken
  <2>6. group'[g] # TeamGroups!NoGroup
    BY <1>0, <1>2, <1>7 DEF TeamGroups!NoGroup
  <2>7. ASSUME NEW u \in Teams, HeldFor(g, u)' PROVE HeldFor(g, u) \/ u = t
    BY <1>4, <2>2, <2>4, <2>7 DEF HeldFor
  <2>8. Found(g, t)
    BY <1>0, <1>2, <1>4, <2>5, <2>6, <2>7, GroupFoundByName
  <2>9. \A h \in Gids : (x.pc # "idle" /\ x.gid = h) \/ chan'[t].gid = h => HeldFor(h, t) \/ GroupComes(h) \/ Found(h, t)
    BY <1>5, <2>2, <2>8
  <2> QED
    BY <1>0, <1>2, <1>4, <1>5, <2>2, <2>3, <2>5, <2>9, CreationGoesOn, ZenonT(60)
<1>8. \/ web' = [web EXCEPT ![s] = [w EXCEPT !.pc = "defer"]] /\ UNCHANGED past
      \/ \E g \in Gids : /\ group[g].name = w.name
                         /\ web' = [web EXCEPT ![s] = [w EXCEPT !.pc = "insert", !.gid = g]]
                         /\ past' = [past EXCEPT !.taken = TeamGroups!Taken(g, t)]
  BY <1>1, <1>3 DEF TeamGroups!Lookup, TeamGroups!Goto, TeamGroups!Named
<1> QED
  BY <1>6, <1>7, <1>8

LEMMA ChannelIsInserted ==
  ASSUME ChannelAssumption, ChannelInv, NEW s \in Sessions, TeamGroups!InsertChannel(s)
  PROVE  ChannelInv'
<1>1. PICK t, w : t = web[s].t /\ w = web[s]
  OBVIOUS
<1>0. /\ ChannelsTyped /\ OneReconcile(ops) /\ w \in WebRequest /\ w.pc = "insert" /\ t \in Teams /\ w.t = t /\ w.name \in Names
      /\ w.gid \in Gids /\ w.pc \in Founders /\ "defer" \in Unrecorded /\ {"idle", "describe"} \cap Founders = {}
      /\ chan[t] = TeamGroups!NoChan /\ team[t] # TeamGroups!Unborn /\ (\A g \in Gids : g # 0) /\ TeamGroups!NoName \notin Names
      /\ Unrecorded \subseteq Founders
  BY <1>1, ChannelSize DEF ChannelInv, ChannelsTyped, TeamGroups!InsertChannel, TeamGroups!At, WebRequest, RequestFits, Founders,
     Unrecorded, ChannelAssumption
<1>2. UNCHANGED <<team, group, made, ops, past>> /\ used' \in [edits : 0 .. MaxEdits, faults : 0 .. MaxFaults]
  BY <1>0, BudgetKept DEF TeamGroups!InsertChannel
<1>3. web \in [Sessions -> WebRequest] /\ past \in [crossed : SUBSET Teams, lost : SUBSET Teams, taken : SUBSET Gids]
      /\ ops \in Seq(TeamOp) /\ chan \in [Teams -> ChanType] /\ group \in [Gids -> GroupType] /\ made \in 0 .. Cardinality(Gids)
  BY <1>0 DEF ChannelsTyped
<1>4. /\ ops' \in Seq(TeamOp) /\ OneReconcile(ops') /\ All(ops) \subseteq All(ops') /\ (\A o \in All(ops') : o \in All(ops))
      /\ past' \in [crossed : SUBSET Teams, lost : SUBSET Teams, taken : SUBSET Gids]
      /\ past.taken \subseteq past'.taken /\ past.lost \subseteq past'.lost
      /\ made' \in 0 .. Cardinality(Gids) /\ made <= made' /\ group' \in [Gids -> GroupType] /\ GroupsApart'
      /\ \A g \in Gids : GroupStays(g) /\ group'[g].name = group[g].name
      /\ \A g \in Gids : (GroupStays(g) /\ group'[g].name = group[g].name) \/ GroupComes(g)
  BY <1>0, <1>2, <1>3, ChannelSize DEF ChannelInv, GroupsApart, GroupStays
<1>5. web[s].pc = "insert" /\ web[s].pc \in Founders /\ web[s].t = t /\ HeldFor(w.gid, t)
  BY <1>0, <1>1 DEF HeldFor
<1>6. CASE t \in TeamGroups!Live /\ chan' = [chan EXCEPT ![t] = [name |-> w.name, gid |-> w.gid]]
           /\ web' = [web EXCEPT ![s] = [w EXCEPT !.pc = "describe"]]
  <2>1. PICK x : x = [w EXCEPT !.pc = "describe"]
    OBVIOUS
  <2>2. x \in WebRequest /\ x.pc = "describe" /\ x.t = t /\ x.gid = w.gid /\ x.pc # "enqueue" /\ x.pc \notin Unrecorded
    BY <1>0, <2>1 DEF WebRequest, Founders, Unrecorded
  <2>3. web' = [web EXCEPT ![s] = x]
    BY <1>6, <2>1
  <2>4. /\ chan' \in [Teams -> ChanType] /\ (\A u \in Teams \ {t} : chan'[u] = chan[u]) /\ chan'[t].gid = w.gid
        /\ Alive(t)
    BY <1>0, <1>3, <1>6 DEF ChanType, Alive, TeamGroups!Live
  <2>5. \A h \in Gids : (x.pc # "idle" /\ x.gid = h) \/ chan'[t].gid = h => HeldFor(h, t)
    BY <1>5, <2>2, <2>4
  <2>6. \A h \in Gids : web[s].gid = h => OnItsWay(h, t)'
    BY <1>1, <2>4 DEF OnItsWay
  <2> QED
    BY <1>0, <1>2, <1>4, <1>5, <2>2, <2>3, <2>4, <2>5, <2>6, CreationGoesOn, ZenonT(60)
<1>7. CASE t \notin TeamGroups!Live /\ web' = [web EXCEPT ![s] = TeamGroups!Idle] /\ UNCHANGED chan
  <2>1. PICK x : x = TeamGroups!Idle
    OBVIOUS
  <2>2. x \in WebRequest /\ x.pc = "idle" /\ x.pc # "enqueue" /\ x.pc \notin Unrecorded
    BY <1>0, <2>1, IdleRequest
  <2>3. web' = [web EXCEPT ![s] = x] /\ chan' \in [Teams -> ChanType] /\ (\A u \in Teams \ {t} : chan'[u] = chan[u])
    BY <1>3, <1>7, <2>1
  <2>4. /\ chan'[t] = TeamGroups!NoChan /\ ~Alive(t)
        /\ \A h \in Gids : (x.pc # "idle" /\ x.gid = h) \/ chan'[t].gid = h => HeldFor(h, t)
    BY <1>0, <1>7, <2>2 DEF TeamGroups!NoChan, TeamGroups!NoGid, Alive, TeamGroups!Live
  <2> QED
    BY <1>0, <1>2, <1>4, <1>5, <2>2, <2>3, <2>4, CreationGoesOn, ZenonT(60)
<1>8. CASE web' = [web EXCEPT ![s] = [w EXCEPT !.pc = "defer", !.gid = 0]] /\ UNCHANGED chan
  <2>1. PICK x : x = [w EXCEPT !.pc = "defer", !.gid = 0]
    OBVIOUS
  <2>2. x \in WebRequest /\ x.pc = "defer" /\ x.t = t /\ x.gid = 0 /\ x.name = w.name /\ x.pc # "enqueue" /\ x.pc \in Unrecorded
    BY <1>0, <2>1 DEF WebRequest, Founders, Unrecorded
  <2>3. web' = [web EXCEPT ![s] = x] /\ chan' \in [Teams -> ChanType] /\ (\A u \in Teams \ {t} : chan'[u] = chan[u])
    BY <1>3, <1>8, <2>1
  <2>4. chan'[t] = TeamGroups!NoChan /\ (\A h \in Gids : (x.pc # "idle" /\ x.gid = h) \/ chan'[t].gid = h => HeldFor(h, t))
    BY <1>0, <1>8, <2>2 DEF TeamGroups!NoChan, TeamGroups!NoGid
  <2>5. web'[s] = x
    BY <1>0, <2>2, <2>3, RequestGoes
  <2>6. \A h \in Gids : web[s].name = group[h].name => OnItsWay(h, t)'
    BY <1>1, <1>4, <2>2, <2>5 DEF OnItsWay
  <2> QED
    BY <1>0, <1>2, <1>4, <1>5, <2>2, <2>3, <2>4, <2>6, CreationGoesOn, ZenonT(60)
<1> QED
  BY <1>1, <1>3, <1>6, <1>7, <1>8 DEF TeamGroups!InsertChannel, TeamGroups!Goto, TeamGroups!End, TeamGroups!NoGid

LEMMA CreationIsDeferred ==
  ASSUME ChannelAssumption, ChannelInv, NEW s \in Sessions, TeamGroups!InsertDeferred(s)
  PROVE  ChannelInv'
<1>1. PICK t, w : t = web[s].t /\ w = web[s]
  OBVIOUS
<1>0. /\ ChannelsTyped /\ OneReconcile(ops) /\ w \in WebRequest /\ w.pc = "defer" /\ t \in Teams /\ w.t = t /\ w.name \in Names
      /\ w.gid = 0 /\ w.pc \in Founders /\ {"enqueue", "idle"} \cap Unrecorded = {}
      /\ chan[t] = TeamGroups!NoChan /\ team[t] # TeamGroups!Unborn /\ (\A g \in Gids : g # 0) /\ TeamGroups!NoName \notin Names
  BY <1>1, ChannelSize DEF ChannelInv, ChannelsTyped, TeamGroups!InsertDeferred, TeamGroups!At, WebRequest, RequestFits, Founders,
     Unrecorded, ChannelAssumption
<1>2. UNCHANGED <<team, group, made, ops, used, past>>
  BY DEF TeamGroups!InsertDeferred
<1>3. web \in [Sessions -> WebRequest] /\ past \in [crossed : SUBSET Teams, lost : SUBSET Teams, taken : SUBSET Gids]
      /\ ops \in Seq(TeamOp) /\ chan \in [Teams -> ChanType] /\ group \in [Gids -> GroupType] /\ made \in 0 .. Cardinality(Gids)
  BY <1>0 DEF ChannelsTyped
<1>4. /\ ops' \in Seq(TeamOp) /\ OneReconcile(ops') /\ All(ops) \subseteq All(ops') /\ (\A o \in All(ops') : o \in All(ops))
      /\ past' \in [crossed : SUBSET Teams, lost : SUBSET Teams, taken : SUBSET Gids]
      /\ past.taken \subseteq past'.taken /\ past.lost \subseteq past'.lost
      /\ used' \in [edits : 0 .. MaxEdits, faults : 0 .. MaxFaults]
      /\ made' \in 0 .. Cardinality(Gids) /\ made <= made' /\ group' \in [Gids -> GroupType] /\ GroupsApart'
      /\ \A g \in Gids : group'[g].name = group[g].name
      /\ \A g \in Gids : (GroupStays(g) /\ group'[g].name = group[g].name) \/ GroupComes(g)
  BY <1>0, <1>2, <1>3, ChannelSize DEF ChannelInv, ChannelsTyped, GroupsApart, GroupStays
<1>5. web[s].pc \in Founders /\ web[s].t = t
  BY <1>0, <1>1
<1>6. CASE t \in TeamGroups!Live /\ chan' = [chan EXCEPT ![t] = [name |-> w.name, gid |-> 0]]
           /\ web' = [web EXCEPT ![s] = [w EXCEPT !.pc = "enqueue"]]
  <2>1. PICK x : x = [w EXCEPT !.pc = "enqueue"]
    OBVIOUS
  <2>2. x \in WebRequest /\ x.pc = "enqueue" /\ x.t = t /\ x.gid = 0 /\ x.name = w.name /\ x.pc \notin Unrecorded
    BY <1>0, <2>1 DEF WebRequest, Founders, Unrecorded
  <2>3. web' = [web EXCEPT ![s] = x]
    BY <1>6, <2>1
  <2>4. /\ chan' \in [Teams -> ChanType] /\ (\A u \in Teams \ {t} : chan'[u] = chan[u])
        /\ chan'[t].gid = 0 /\ chan'[t] # TeamGroups!NoChan /\ Alive(t)
    BY <1>0, <1>3, <1>6 DEF ChanType, Alive, TeamGroups!Live, TeamGroups!NoChan
  <2>5. \A g \in Gids : (x.pc # "idle" /\ x.gid = g) \/ chan'[t].gid = g => HeldFor(g, t)
    BY <1>0, <2>2, <2>4
  <2>6. web'[s] = x
    BY <1>0, <2>2, <2>3, RequestGoes
  <2>7. \A h \in Gids : web[s].name = group[h].name => OnItsWay(h, t)'
    BY <1>1, <1>4, <2>2, <2>6 DEF OnItsWay
  <2> QED
    BY <1>0, <1>2, <1>4, <1>5, <2>2, <2>3, <2>4, <2>5, <2>7, CreationGoesOn, ZenonT(60)
<1>7. CASE t \notin TeamGroups!Live /\ web' = [web EXCEPT ![s] = TeamGroups!Idle] /\ UNCHANGED chan
  <2>1. PICK x : x = TeamGroups!Idle
    OBVIOUS
  <2>2. x \in WebRequest /\ x.pc = "idle" /\ x.pc # "enqueue" /\ x.pc \notin Unrecorded
    BY <1>0, <2>1, IdleRequest
  <2>3. web' = [web EXCEPT ![s] = x] /\ chan' \in [Teams -> ChanType] /\ (\A u \in Teams \ {t} : chan'[u] = chan[u])
    BY <1>3, <1>7, <2>1
  <2>4. /\ chan'[t] = TeamGroups!NoChan /\ ~Alive(t)
        /\ \A h \in Gids : (x.pc # "idle" /\ x.gid = h) \/ chan'[t].gid = h => HeldFor(h, t)
    BY <1>0, <1>7, <2>2 DEF TeamGroups!NoChan, TeamGroups!NoGid, Alive, TeamGroups!Live
  <2> QED
    BY <1>0, <1>2, <1>4, <1>5, <2>2, <2>3, <2>4, CreationGoesOn, ZenonT(60)
<1> QED
  BY <1>1, <1>3, <1>6, <1>7 DEF TeamGroups!InsertDeferred, TeamGroups!Goto, TeamGroups!End, TeamGroups!NoGid

LEMMA ReconciliationIsQueued ==
  ASSUME ChannelAssumption, ChannelInv, NEW s \in Sessions, TeamGroups!EnqueueReconcile(s)
  PROVE  ChannelInv'
<1>1. PICK t, w : t = web[s].t /\ w = web[s]
  OBVIOUS
<1>0. /\ ChannelsTyped /\ OneReconcile(ops) /\ w \in WebRequest /\ w.pc = "enqueue" /\ t \in Teams /\ w.t = t /\ w.name \in Names
      /\ w.gid = 0 /\ w.pc \in Founders /\ TeamFits(t) /\ (Alive(t) => chan[t] # TeamGroups!NoChan /\ chan[t].gid = 0)
      /\ team[t] # TeamGroups!Unborn /\ (\A g \in Gids : g # 0) /\ "idle" \notin Founders /\ Unrecorded \subseteq Founders
  BY <1>1, ChannelSize DEF ChannelInv, ChannelsTyped, TeamGroups!EnqueueReconcile, TeamGroups!At, WebRequest, RequestFits, Founders,
     Unrecorded
<1>2. /\ UNCHANGED <<team, chan, group, made>> /\ used' \in [edits : 0 .. MaxEdits, faults : 0 .. MaxFaults]
  BY <1>0, BudgetKept DEF TeamGroups!EnqueueReconcile, TeamGroups!Lost
<1>3. web \in [Sessions -> WebRequest] /\ past \in [crossed : SUBSET Teams, lost : SUBSET Teams, taken : SUBSET Gids]
      /\ ops \in Seq(TeamOp) /\ chan \in [Teams -> ChanType] /\ group \in [Gids -> GroupType] /\ made \in 0 .. Cardinality(Gids)
  BY <1>0 DEF ChannelsTyped
<1>4. PICK x : x = TeamGroups!Idle
  OBVIOUS
<1>5. /\ x \in WebRequest /\ x.pc = "idle" /\ x.t = 0 /\ x.pc # "enqueue" /\ x.pc \notin Unrecorded /\ x.pc \notin Founders
      /\ web' = [web EXCEPT ![s] = x]
  BY <1>0, <1>4, IdleRequest DEF TeamGroups!EnqueueReconcile, TeamGroups!End
<1>6. /\ UNCHANGED team /\ chan' \in [Teams -> ChanType] /\ (\A u \in Teams : chan'[u] = chan[u])
      /\ (chan'[t] # TeamGroups!NoChan => Alive(t)) /\ web[s].pc \in Founders /\ web[s].t = t
      /\ made' \in 0 .. Cardinality(Gids) /\ made <= made' /\ group' \in [Gids -> GroupType] /\ GroupsApart'
      /\ \A g \in Gids : group'[g].name = group[g].name
      /\ \A g \in Gids : (GroupStays(g) /\ group'[g].name = group[g].name) \/ GroupComes(g)
  BY <1>0, <1>1, <1>2, <1>3, ChannelSize DEF ChannelInv, GroupsApart, GroupStays, TeamFits
<1>7. /\ \A r \in Sessions : web'[r].t = t => web'[r].pc \notin Founders
      /\ \A o \in All(ops) : o.kind = "reconcile" => o.t # t
  <2>1. web'[s] = x /\ \A r \in Sessions \ {s} : web'[r] = web[r]
    BY <1>0, <1>5, RequestGoes
  <2>2. \A r \in Sessions \ {s} : web[r].t = t => web[r].pc \notin Founders
    BY <1>0, <1>6 DEF ChannelInv, RequestFits
  <2>3. \A o \in All(ops) : o.kind = "reconcile" => o.t # t
    BY <1>0, <1>6 DEF ChannelInv, OpFits
  <2> QED
    BY <1>5, <2>1, <2>2, <2>3
<1>8. \A g \in Gids : (x.pc # "idle" /\ x.gid = g) \/ chan'[t].gid = g => HeldFor(g, t)
  BY <1>0, <1>5, <1>6 DEF HeldFor
<1>9. CASE TeamGroups!Lost(s)
  <2>1. UNCHANGED ops /\ past' = [past EXCEPT !.lost = past.lost \cup {t}]
    BY <1>1, <1>9 DEF TeamGroups!Lost
  <2>2. /\ past' \in [crossed : SUBSET Teams, lost : SUBSET Teams, taken : SUBSET Gids]
        /\ past.taken \subseteq past'.taken /\ past.lost \subseteq past'.lost /\ t \in past'.lost
    BY <1>0, <1>3, <2>1
  <2>3. /\ ops' \in Seq(TeamOp) /\ OneReconcile(ops') /\ All(ops) \subseteq All(ops') /\ (\A o \in All(ops') : o \in All(ops))
    BY <1>0, <1>3, <2>1
  <2> QED
    BY <1>0, <1>2, <1>5, <1>6, <1>8, <2>2, <2>3, CreationGoesOn, ZenonT(60)
<1>10. CASE ops' = Append(ops, TeamGroups!Op("reconcile", t, w.name, TeamGroups!NoGid)) /\ UNCHANGED <<used, past>>
  <2>1. PICK o : o = TeamGroups!Op("reconcile", t, w.name, TeamGroups!NoGid)
    OBVIOUS
  <2>2. o \in TeamOp /\ o.kind = "reconcile" /\ o.st = "pending" /\ o.t = t /\ o.name = w.name /\ o.gid = 0
    BY <1>0, <2>1 DEF TeamGroups!Op, TeamOp, TeamGroups!NoGid
  <2>3. ops' \in Seq(TeamOp) /\ All(ops') = All(ops) \cup {o} /\ OneReconcile(ops')
    <3>1. PICK q, p : q = ops /\ p = ops'
      OBVIOUS
    <3>2. q \in Seq(TeamOp) /\ OneReconcile(q) /\ p = Append(q, o) /\ FirstFor(q, o) /\ o \in TeamOp
      BY <1>0, <1>3, <1>7, <1>10, <2>1, <2>2, <3>1 DEF FirstFor
    <3>3. p \in Seq(TeamOp) /\ All(p) = All(q) \cup {o} /\ OneReconcile(p)
      BY <3>2, QueueGrows
    <3> QED
      BY <3>1, <3>3
  <2>4. OpFits(o)'
    BY <1>0, <1>2, <1>7, <2>2 DEF OpFits, Alive
  <2>5. All(ops) \subseteq All(ops') /\ \A y \in All(ops') : y \in All(ops) \/ (OpFits(y)' /\ y.gid = 0)
    BY <2>2, <2>3, <2>4
  <2>6. \A h \in Gids : web[s].name = group[h].name => OnItsWay(h, t)'
    BY <1>1, <1>6, <2>2, <2>3 DEF OnItsWay
  <2>7. /\ past' \in [crossed : SUBSET Teams, lost : SUBSET Teams, taken : SUBSET Gids]
        /\ past.taken \subseteq past'.taken /\ past.lost \subseteq past'.lost
    BY <1>3, <1>10
  <2> QED
    BY <1>0, <1>2, <1>5, <1>6, <1>8, <2>3, <2>5, <2>6, <2>7, CreationGoesOn, ZenonT(60)
<1> QED
  BY <1>1, <1>9, <1>10 DEF TeamGroups!EnqueueReconcile

\* The operation that creates a team's group is worked on, while no request moves.
LEMMA CreationIsWorkedOn ==
  ASSUME ChannelAssumption, ChannelInv, NEW y \in All(ops), y.kind = "reconcile", UNCHANGED <<team, chan, web>>,
         ops' \in Seq(TeamOp), OneReconcile(ops'), \A o \in All(ops) : o = y \/ o \in All(ops'),
         \A o \in All(ops') :
           \/ o \in All(ops)
           \/ /\ o.kind = "reconcile" /\ o.t = y.t
              /\ \A g \in Gids : o.gid = g => HeldFor(g, y.t) \/ GroupComes(g) \/ Found(g, y.t),
         made' \in 0 .. Cardinality(Gids), made <= made', group' \in [Gids -> GroupType], GroupsApart',
         used' \in [edits : 0 .. MaxEdits, faults : 0 .. MaxFaults],
         past' \in [crossed : SUBSET Teams, lost : SUBSET Teams, taken : SUBSET Gids],
         past.taken \subseteq past'.taken, past.lost \subseteq past'.lost,
         \A g \in Gids : (GroupStays(g) /\ group'[g].name = group[g].name) \/ GroupComes(g),
         \A g \in Gids \ past'.taken :
           /\ group[g] # TeamGroups!NoGroup /\ Alive(y.t)
           /\ (y.st = "made" /\ y.gid = g) \/ (y.st = "pending" /\ y.name = group[g].name)
           => OnItsWay(g, y.t)'
  PROVE  ChannelInv'
<1>0. /\ ChannelsTyped /\ (\A u \in Teams : TeamFits(u)) /\ (\A r \in Sessions : RequestFits(r))
      /\ (\A o \in All(ops) : OpFits(o) /\ o \in TeamOp)
  BY DEF ChannelInv, ChannelsTyped, All
<1>1. ChannelsTyped'
  BY <1>0 DEF ChannelsTyped
<1>2. (\A u \in Teams : TeamFits(u))' /\ \A u \in Teams : Alive(u)' <=> Alive(u)
  BY <1>0 DEF TeamFits, Alive
<1>3. (\A r \in Sessions : RequestFits(r))'
  BY <1>0 DEF RequestFits, Alive
<1>4. ASSUME NEW o \in All(ops') PROVE OpFits(o)'
  <2>1. CASE o \in All(ops)
    BY <1>0, <2>1 DEF OpFits, Alive
  <2>2. CASE o.kind = "reconcile" /\ o.t = y.t
    BY <1>0, <2>2 DEF OpFits, Alive
  <2> QED
    BY <2>1, <2>2
<1>5. ASSUME NEW g \in Gids, NEW u \in Teams, HeldFor(g, u)' PROVE HeldFor(g, u) \/ GroupComes(g) \/ Found(g, u)
  BY <1>5 DEF HeldFor
<1>6. ASSUME NEW g \in Gids \ past'.taken, NEW u \in Teams, group[g] # TeamGroups!NoGroup, group[g].by = u,
             Alive(u), Alive(u)', OnItsWay(g, u)
      PROVE  OnItsWay(g, u)' \/ u \in past'.lost
  <2>1. group'[g].name = group[g].name
    BY <1>6 DEF GroupComes
  <2>2. CASE chan[u].gid = g
    BY <2>2 DEF OnItsWay
  <2>3. CASE \E s \in Sessions :
               /\ web[s].t = u /\ web[s].name = group[g].name
               /\ (web[s].pc = "insert" /\ web[s].gid = g) \/ web[s].pc \in {"defer", "enqueue"}
    BY <2>1, <2>3 DEF OnItsWay
  <2>4. ASSUME NEW o \in All(ops), o.t = u, o.kind = "reconcile",
               (o.st = "made" /\ o.gid = g) \/ (o.st = "pending" /\ o.name = group[g].name)
        PROVE  OnItsWay(g, u)'
    <3>1. CASE o = y
      BY <1>6, <2>4, <3>1
    <3>2. CASE o \in All(ops')
      BY <2>1, <2>4, <3>2 DEF OnItsWay
    <3> QED
      BY <3>1, <3>2
  <2> QED
    BY <1>6, <2>2, <2>3, <2>4 DEF OnItsWay
<1>7. (\A o \in All(ops) : OpFits(o))'
  BY <1>4
<1>8. \A u \in Teams : /\ team'[u] = TeamGroups!Unborn => team[u] = TeamGroups!Unborn
                       /\ Alive(u)' => Alive(u) \/ team[u] = TeamGroups!Unborn
  BY <1>2
<1>9. \A g \in Gids : GroupStays(g) \/ GroupGoes(g) \/ GroupComes(g)
  OBVIOUS
<1> QED
  BY <1>1, <1>2, <1>3, <1>5, <1>6, <1>7, <1>8, <1>9, ChannelsKept

LEMMA ChannelIsReconciled ==
  ASSUME ChannelAssumption, ChannelInv, NEW i \in DOMAIN ops, TeamGroups!ReconcileGroup(i)
  PROVE  ChannelInv'
<1>1. PICK y, t, n : y = ops[i] /\ t = ops[i].t /\ n = ops[i].name
  OBVIOUS
<1>0. /\ ChannelsTyped /\ OneReconcile(ops) /\ GroupsApart /\ y \in TeamOp /\ y \in All(ops) /\ y.kind = "reconcile"
      /\ y.st = "pending" /\ y.t = t /\ y.name = n /\ y.gid = 0 /\ t \in Teams /\ n \in Names /\ TeamFits(t) /\ OpFits(y)
      /\ team[t] # TeamGroups!Unborn /\ (\A g \in Gids : g # 0) /\ TeamGroups!NoName \notin Names
  <2>1. y \in TeamOp /\ y \in All(ops) /\ y.kind = "reconcile" /\ y.st = "pending"
    BY <1>1 DEF ChannelInv, ChannelsTyped, TeamGroups!ReconcileGroup, TeamGroups!Is, All
  <2>2. y.t = t /\ y.name = n /\ y.gid = 0 /\ t \in Teams /\ n \in Names
    BY <1>1, <2>1 DEF TeamOp
  <2>3. TeamFits(t) /\ OpFits(y) /\ team[t] # TeamGroups!Unborn
    BY <2>1, <2>2 DEF ChannelInv, OpFits
  <2> QED
    BY <2>1, <2>2, <2>3, ChannelSize DEF ChannelInv, ChannelAssumption
<1>2. UNCHANGED <<team, chan, web>> /\ used' \in [edits : 0 .. MaxEdits, faults : 0 .. MaxFaults]
  BY <1>0, BudgetKept DEF TeamGroups!ReconcileGroup
<1>3. web \in [Sessions -> WebRequest] /\ past \in [crossed : SUBSET Teams, lost : SUBSET Teams, taken : SUBSET Gids]
      /\ ops \in Seq(TeamOp) /\ chan \in [Teams -> ChanType] /\ group \in [Gids -> GroupType] /\ made \in 0 .. Cardinality(Gids)
  BY <1>0 DEF ChannelsTyped
<1>4. ASSUME UNCHANGED past
      PROVE  /\ past' \in [crossed : SUBSET Teams, lost : SUBSET Teams, taken : SUBSET Gids]
             /\ past.taken \subseteq past'.taken /\ past.lost \subseteq past'.lost
  BY <1>3, <1>4
<1>5. CASE chan[t] = TeamGroups!NoChan \/ chan[t].gid # 0
  <2>1. UNCHANGED <<group, made, past>> /\ ops' = TeamGroups!RemoveAt(ops, i)
    BY <1>1, <1>5 DEF TeamGroups!ReconcileGroup, TeamGroups!HasChan, TeamGroups!Finish, TeamGroups!NoGid
  <2>2. ~Alive(y.t)
    BY <1>0, <1>5 DEF OpFits
  <2>3. ops' \in Seq(TeamOp) /\ OneReconcile(ops') /\ All(ops') \subseteq All(ops) /\ \A o \in All(ops) : o = y \/ o \in All(ops')
    <3>1. PICK q, p : q = ops /\ p = ops'
      OBVIOUS
    <3>2. q \in Seq(TeamOp) /\ i \in DOMAIN q /\ OneReconcile(q) /\ p = TeamGroups!RemoveAt(q, i) /\ q[i] = y
      BY <1>0, <1>1, <1>3, <2>1, <3>1
    <3>3. p \in Seq(TeamOp) /\ All(p) \subseteq All(q) /\ OneReconcile(p) /\ \A o \in All(q) : o = y \/ o \in All(p)
      BY <3>2, QueueShrinks
    <3> QED
      BY <3>1, <3>3
  <2>4. /\ made' \in 0 .. Cardinality(Gids) /\ made <= made' /\ group' \in [Gids -> GroupType] /\ GroupsApart'
        /\ \A g \in Gids : (GroupStays(g) /\ group'[g].name = group[g].name) \/ GroupComes(g)
    BY <1>0, <1>3, <2>1, ChannelSize DEF GroupsApart, GroupStays
  <2>5. \A o \in All(ops') : o \in All(ops)
    BY <2>3
  <2> QED
    BY <1>0, <1>2, <1>4, <2>1, <2>2, <2>3, <2>4, <2>5, CreationIsWorkedOn, ZenonT(60)
<1>6. ASSUME NEW g \in Gids, ops' = [ops EXCEPT ![i].st = "made", ![i].gid = g]
      PROVE  \E x \in TeamOp : /\ ops' = [ops EXCEPT ![i] = x] /\ x.kind = "reconcile" /\ x.t = t /\ x.gid = g /\ x.st = "made"
                               /\ ops' \in Seq(TeamOp) /\ OneReconcile(ops') /\ x \in All(ops')
                               /\ All(ops') \subseteq All(ops) \cup {x}
                               /\ \A o \in All(ops) : o = y \/ o \in All(ops')
  <2>1. PICK x : x = [y EXCEPT !.st = "made", !.gid = g]
    OBVIOUS
  <2>2. x \in TeamOp /\ x.kind = "reconcile" /\ x.t = t /\ x.gid = g /\ x.st = "made"
    BY <1>0, <2>1 DEF TeamOp
  <2>3. ops' = [ops EXCEPT ![i] = x]
    BY <1>1, <1>3, <1>6, <2>1
  <2>4. PICK q, p : q = ops /\ p = ops'
    OBVIOUS
  <2>5. q \in Seq(TeamOp) /\ i \in DOMAIN q /\ OneReconcile(q) /\ p = [q EXCEPT ![i] = x] /\ x.kind = q[i].kind /\ x.t = q[i].t /\ q[i] = y
    BY <1>0, <1>1, <1>3, <2>2, <2>3, <2>4
  <2>6. /\ p \in Seq(TeamOp) /\ x \in All(p) /\ All(p) \subseteq All(q) \cup {x} /\ OneReconcile(p)
        /\ \A o \in All(q) : o = y \/ o \in All(p)
    BY <2>2, <2>5, QueueChanges
  <2> QED
    BY <2>2, <2>3, <2>4, <2>6
<1>7. ASSUME TeamGroups!Make(t, n, chan[t].name), chan[t] # TeamGroups!NoChan, chan[t].gid = 0, UNCHANGED past,
             UNCHANGED ops \/ ops' = [ops EXCEPT ![i].st = "made", ![i].gid = made + 1]
      PROVE  ChannelInv'
  <2>1. /\ made' = made + 1 /\ made' \in 0 .. Cardinality(Gids) /\ made <= made' /\ made + 1 \in Gids
        /\ group' \in [Gids -> GroupType] /\ GroupsApart'
        /\ group[made + 1] = TeamGroups!NoGroup /\ group'[made + 1] # TeamGroups!NoGroup
        /\ group'[made + 1].by = t /\ group'[made + 1].name = n
        /\ \A g \in Gids \ {made + 1} : group'[g] = group[g]
        /\ \A u \in Teams : ~HeldFor(made + 1, u)
    <3>1. chan[t].name \in Names
      BY <1>0, <1>3, <1>7 DEF ChanType
    <3> QED
      BY <1>0, <1>7, <3>1, GroupIsMade
  <2>2. PICK h : h = made + 1
    OBVIOUS
  <2>3. h \in Gids /\ h <= made' /\ made \in Nat
    BY <1>3, <2>1, <2>2, ChannelSize
  <2>4. /\ ops' \in Seq(TeamOp) /\ OneReconcile(ops') /\ \A o \in All(ops) : o = y \/ o \in All(ops')
        /\ \A o \in All(ops') : o \in All(ops) \/ (o.kind = "reconcile" /\ o.t = t /\ o.gid = h)
        /\ \E o \in All(ops') : o.t = t /\ o.kind = "reconcile" /\ ((o.st = "made" /\ o.gid = h) \/ (o.st = "pending" /\ o.name = n))
    <3>1. CASE UNCHANGED ops
      BY <1>0, <1>3, <3>1
    <3>2. CASE ops' = [ops EXCEPT ![i].st = "made", ![i].gid = h]
      BY <1>6, <2>3, <3>2
    <3> QED
      BY <1>7, <2>2, <3>1, <3>2
  <2>5. OnItsWay(h, t)'
    BY <2>1, <2>2, <2>4 DEF OnItsWay
  <2>6. ASSUME NEW u \in Teams, HeldFor(h, u)' PROVE u = t
    <3>1. ~HeldFor(h, u)
      BY <2>1, <2>2
    <3>2. chan'[u].gid # h /\ \A r \in Sessions : ~(web'[r].t = u /\ web'[r].gid = h)
      BY <1>2, <3>1 DEF HeldFor
    <3>3. \A o \in All(ops) : ~(o.t = u /\ o.gid = h)
      BY <3>1 DEF HeldFor
    <3> QED
      BY <2>4, <2>6, <3>2, <3>3 DEF HeldFor
  <2>7. GroupComes(h)
    BY <1>0, <1>2, <2>1, <2>2, <2>3, <2>5, <2>6 DEF GroupComes
  <2>8. \A g \in Gids : (GroupStays(g) /\ group'[g].name = group[g].name) \/ GroupComes(g)
    BY <2>1, <2>2, <2>7 DEF GroupStays
  <2>9. \A o \in All(ops') :
          \/ o \in All(ops)
          \/ /\ o.kind = "reconcile" /\ o.t = y.t
             /\ \A g \in Gids : o.gid = g => HeldFor(g, y.t) \/ GroupComes(g) \/ Found(g, y.t)
    BY <1>0, <2>4, <2>7
  <2>10. \A g \in Gids : group[g].name # n
    BY <1>7 DEF TeamGroups!Make, TeamGroups!Named
  <2>11. \A g \in Gids : ~((y.st = "made" /\ y.gid = g) \/ (y.st = "pending" /\ y.name = group[g].name))
    BY <1>0, <2>10
  <2> QED
    BY <1>0, <1>2, <1>4, <1>7, <2>1, <2>4, <2>8, <2>9, <2>11, CreationIsWorkedOn, ZenonT(60)
<1>8. ASSUME NEW h \in Gids, group[h].name = n, group' = [group EXCEPT ![h].desc = chan[t].name],
             ops' = [ops EXCEPT ![i].st = "made", ![i].gid = h], past' = [past EXCEPT !.taken = TeamGroups!Taken(h, t)],
             UNCHANGED made, chan[t] # TeamGroups!NoChan
      PROVE  ChannelInv'
  <2>1. PICK z : z = [group[h] EXCEPT !.desc = chan[t].name]
    OBVIOUS
  <2>2. /\ group[h] # TeamGroups!NoGroup /\ z \in GroupType /\ z # TeamGroups!NoGroup /\ z.name = group[h].name /\ z.by = group[h].by
        /\ group' = [group EXCEPT ![h] = z]
    <3>1. group[h] # TeamGroups!NoGroup /\ chan[t].name \in Names
      BY <1>0, <1>3, <1>8 DEF TeamGroups!NoGroup, ChanType
    <3>2. group[h] \in [name : Names, desc : Names, by : Teams]
      BY <1>3, <3>1 DEF GroupType
    <3>3. group' = [group EXCEPT ![h] = z]
      BY <1>3, <1>8, <2>1
    <3> QED
      BY <1>0, <2>1, <3>1, <3>2, <3>3 DEF GroupType, TeamGroups!NoGroup
  <2>3. /\ group' \in [Gids -> GroupType] /\ group'[h] # TeamGroups!NoGroup
        /\ \A g \in Gids : GroupStays(g) /\ group'[g].name = group[g].name
    BY <1>3, <2>2 DEF GroupStays
  <2>4. GroupsApart' /\ made' \in 0 .. Cardinality(Gids) /\ made <= made'
    BY <1>0, <1>3, <1>8, <2>3, ChannelSize DEF GroupsApart, GroupStays
  <2>5. /\ past' \in [crossed : SUBSET Teams, lost : SUBSET Teams, taken : SUBSET Gids]
        /\ past.taken \subseteq past'.taken /\ past.lost \subseteq past'.lost /\ past'.taken = TeamGroups!Taken(h, t)
    BY <1>3, <1>8 DEF TeamGroups!Taken
  <2>6. PICK x \in TeamOp : /\ x.kind = "reconcile" /\ x.t = t /\ x.gid = h /\ x.st = "made"
                            /\ ops' \in Seq(TeamOp) /\ OneReconcile(ops') /\ x \in All(ops')
                            /\ All(ops') \subseteq All(ops) \cup {x}
                            /\ \A o \in All(ops) : o = y \/ o \in All(ops')
    BY <1>6, <1>8
  <2>7. ASSUME NEW u \in Teams, HeldFor(h, u)' PROVE HeldFor(h, u) \/ u = t
    BY <1>2, <2>6, <2>7 DEF HeldFor
  <2>8. Found(h, t)
    BY <1>0, <1>2, <2>3, <2>5, <2>7, GroupFoundByName
  <2>9. \A o \in All(ops') :
          \/ o \in All(ops)
          \/ /\ o.kind = "reconcile" /\ o.t = y.t
             /\ \A g \in Gids : o.gid = g => HeldFor(g, y.t) \/ GroupComes(g) \/ Found(g, y.t)
    BY <1>0, <2>6, <2>8
  <2>10. ASSUME NEW g \in Gids, group[g] # TeamGroups!NoGroup,
                (y.st = "made" /\ y.gid = g) \/ (y.st = "pending" /\ y.name = group[g].name)
         PROVE  OnItsWay(g, y.t)'
    <3>1. g = h
      BY <1>0, <1>8, <2>10 DEF GroupsApart
    <3> QED
      BY <1>0, <2>6, <3>1 DEF OnItsWay
  <2>11. \A g \in Gids : (GroupStays(g) /\ group'[g].name = group[g].name) \/ GroupComes(g)
    BY <2>3
  <2> QED
    BY <1>0, <1>2, <2>3, <2>4, <2>5, <2>6, <2>9, <2>10, <2>11, CreationIsWorkedOn, ZenonT(60)
<1>9. CASE chan[t] # TeamGroups!NoChan /\ chan[t].gid = 0
  <2>1. \/ /\ TeamGroups!Make(t, n, chan[t].name) /\ UNCHANGED past
           /\ UNCHANGED ops \/ ops' = [ops EXCEPT ![i].st = "made", ![i].gid = made + 1]
        \/ \E g \in TeamGroups!Named(n) :
             /\ group' = [group EXCEPT ![g].desc = chan[t].name] /\ ops' = [ops EXCEPT ![i].st = "made", ![i].gid = g]
             /\ past' = [past EXCEPT !.taken = TeamGroups!Taken(g, t)] /\ UNCHANGED made
    BY <1>1, <1>9 DEF TeamGroups!ReconcileGroup, TeamGroups!HasChan, TeamGroups!NoGid, TeamGroups!Holds
  <2> QED
    BY <1>7, <1>8, <1>9, <2>1 DEF TeamGroups!Named
<1> QED
  BY <1>5, <1>9

LEMMA GroupIsRecorded ==
  ASSUME ChannelAssumption, ChannelInv, NEW i \in DOMAIN ops, TeamGroups!RecordGroup(i)
  PROVE  ChannelInv'
<1>1. PICK y, t, h : y = ops[i] /\ t = ops[i].t /\ h = ops[i].gid
  OBVIOUS
<1>0. /\ ChannelsTyped /\ OneReconcile(ops) /\ GroupsApart /\ y \in TeamOp /\ y \in All(ops) /\ y.kind = "reconcile"
      /\ y.st = "made" /\ y.t = t /\ y.gid = h /\ h \in Gids /\ t \in Teams /\ OpFits(y) /\ (\A u \in Teams : TeamFits(u))
      /\ (\A o \in All(ops) : OpFits(o) /\ o \in TeamOp) /\ (\A r \in Sessions : RequestFits(r) /\ web[r] \in WebRequest)
      /\ (\A g \in Gids : g # 0) /\ Unrecorded \subseteq Founders /\ "enqueue" \in Founders
  BY <1>1, ChannelSize DEF ChannelInv, ChannelsTyped, TeamGroups!RecordGroup, TeamGroups!Is, TeamOp, All, Founders
<1>2. UNCHANGED <<team, group, made, web, used, past>> /\ ops' = TeamGroups!RemoveAt(ops, i)
  BY DEF TeamGroups!RecordGroup, TeamGroups!Finish
<1>3. web \in [Sessions -> WebRequest] /\ past \in [crossed : SUBSET Teams, lost : SUBSET Teams, taken : SUBSET Gids]
      /\ ops \in Seq(TeamOp) /\ chan \in [Teams -> ChanType] /\ group \in [Gids -> GroupType] /\ made \in 0 .. Cardinality(Gids)
  BY <1>0 DEF ChannelsTyped
<1>4. /\ ops' \in Seq(TeamOp) /\ OneReconcile(ops') /\ All(ops') \subseteq All(ops)
      /\ (\A o \in All(ops) : o = y \/ o \in All(ops')) /\ \A o \in All(ops') : o.kind = "reconcile" => o.t # t
  <2>1. PICK q, p : q = ops /\ p = ops'
    OBVIOUS
  <2>2. q \in Seq(TeamOp) /\ i \in DOMAIN q /\ OneReconcile(q) /\ p = TeamGroups!RemoveAt(q, i) /\ q[i] = y
    BY <1>0, <1>1, <1>2, <1>3, <2>1
  <2>3. /\ p \in Seq(TeamOp) /\ All(p) \subseteq All(q) /\ OneReconcile(p) /\ \A o \in All(q) : o = y \/ o \in All(p)
        /\ \A o \in All(p) : o.kind = "reconcile" => o.t # t
    BY <1>0, <2>2, QueueShrinks
  <2> QED
    BY <2>1, <2>3
<1>5. /\ chan' \in [Teams -> ChanType] /\ (\A u \in Teams \ {t} : chan'[u] = chan[u])
      /\ Alive(t) => chan'[t].gid = h
      /\ chan'[t] # TeamGroups!NoChan => chan[t] # TeamGroups!NoChan
      /\ chan'[t].gid = h \/ chan'[t] = chan[t]
  <2>1. PICK x : x = [chan[t] EXCEPT !.gid = h]
    OBVIOUS
  <2>2. CASE chan[t] # TeamGroups!NoChan /\ chan[t].gid = 0
    <3>1. chan' = [chan EXCEPT ![t] = x]
      BY <1>1, <1>3, <2>1, <2>2 DEF TeamGroups!RecordGroup, TeamGroups!HasChan, TeamGroups!NoGid
    <3>2. x \in ChanType /\ x.gid = h
      BY <1>0, <1>3, <2>1, <2>2 DEF ChanType, TeamGroups!NoChan
    <3> QED
      BY <1>0, <1>3, <2>2, <3>1, <3>2
  <2>3. CASE ~(chan[t] # TeamGroups!NoChan /\ chan[t].gid = 0)
    <3>1. chan' = chan
      BY <1>1, <2>3 DEF TeamGroups!RecordGroup, TeamGroups!HasChan, TeamGroups!NoGid
    <3>2. ~Alive(t)
      BY <1>0, <2>3 DEF OpFits
    <3> QED
      BY <1>3, <3>1, <3>2
  <2> QED
    BY <2>2, <2>3
<1>6. ChannelsTyped'
  BY <1>0, <1>2, <1>4, <1>5 DEF ChannelsTyped
<1>7. (\A u \in Teams : TeamFits(u))' /\ \A u \in Teams : Alive(u)' <=> Alive(u)
  <2>1. \A u \in Teams : chan'[u] # TeamGroups!NoChan => chan[u] # TeamGroups!NoChan
    BY <1>5
  <2> QED
    BY <1>0, <1>2, <2>1 DEF TeamFits, Alive
<1>8. ASSUME NEW r \in Sessions PROVE RequestFits(r)'
  <2>1. RequestFits(r) /\ web'[r] = web[r] /\ (web[r].pc \in Founders => web[r].t # t)
    BY <1>0, <1>2 DEF OpFits
  <2>2. web[r].pc \in Founders => web[r].t \in Teams /\ chan'[web[r].t] = chan[web[r].t]
    <3>1. "idle" \notin Founders
      BY DEF Founders, Unrecorded
    <3> QED
      BY <1>0, <1>5, <2>1, <3>1 DEF WebRequest
  <2> QED
    BY <1>0, <1>2, <2>1, <2>2 DEF RequestFits, Alive
<1>9. ASSUME NEW o \in All(ops') PROVE OpFits(o)'
  <2>1. o \in All(ops) /\ OpFits(o) /\ o.t \in Teams
    BY <1>0, <1>4 DEF TeamOp
  <2>2. CASE o.t # t
    BY <1>2, <1>5, <2>1, <2>2 DEF OpFits, Alive
  <2>3. CASE o.t = t
    <3>1. o.kind # "reconcile"
      BY <1>4, <2>3
    <3>2. o.kind \in {"rename", "describe"} /\ Alive(t) => o.gid = 0
      BY <1>0, <2>1, <2>3 DEF OpFits
    <3> QED
      BY <1>2, <2>1, <2>3, <3>1, <3>2 DEF OpFits, Alive
  <2> QED
    BY <2>2, <2>3
<1>10. ASSUME NEW g \in Gids, NEW u \in Teams, HeldFor(g, u)' PROVE HeldFor(g, u)
  <2>1. CASE chan'[u].gid = g
    BY <1>0, <1>5, <2>1 DEF HeldFor
  <2> QED
    BY <1>2, <1>4, <1>10, <2>1 DEF HeldFor
<1>11. ASSUME NEW g \in Gids, NEW u \in Teams, Alive(u), OnItsWay(g, u) PROVE OnItsWay(g, u)'
  <2>1. CASE chan[u].gid = g
    <3>1. u # t
      BY <1>0, <1>11, <2>1 DEF OpFits
    <3> QED
      BY <1>5, <2>1, <3>1 DEF OnItsWay
  <2>2. CASE \E s \in Sessions :
               /\ web[s].t = u /\ web[s].name = group[g].name
               /\ (web[s].pc = "insert" /\ web[s].gid = g) \/ web[s].pc \in {"defer", "enqueue"}
    BY <1>2, <2>2 DEF OnItsWay
  <2>3. ASSUME NEW o \in All(ops), o.t = u, o.kind = "reconcile",
               (o.st = "made" /\ o.gid = g) \/ (o.st = "pending" /\ o.name = group[g].name)
        PROVE  OnItsWay(g, u)'
    <3>1. CASE o = y
      BY <1>0, <1>5, <1>11, <2>3, <3>1 DEF OnItsWay
    <3>2. CASE o \in All(ops')
      BY <1>2, <2>3, <3>2 DEF OnItsWay
    <3> QED
      BY <1>4, <3>1, <3>2
  <2> QED
    BY <1>11, <2>1, <2>2, <2>3 DEF OnItsWay
<1>12. GroupsApart' /\ made <= made' /\ past.taken \subseteq past'.taken /\ past.lost \subseteq past'.lost
       /\ \A g \in Gids : GroupStays(g)
  BY <1>0, <1>2, <1>3, ChannelSize DEF GroupsApart, GroupStays
<1>13. \A u \in Teams : /\ team'[u] = TeamGroups!Unborn => team[u] = TeamGroups!Unborn
                        /\ Alive(u)' => Alive(u) \/ team[u] = TeamGroups!Unborn
  BY <1>2, <1>7
<1>14. (\A r \in Sessions : RequestFits(r))' /\ (\A o \in All(ops) : OpFits(o))'
  BY <1>8, <1>9
<1>15. (\A u \in Teams : TeamFits(u))' /\ OneReconcile(ops)'
  BY <1>4, <1>7
<1> QED
  BY <1>6, <1>10, <1>11, <1>12, <1>13, <1>14, <1>15, ChannelsKept

LEMMA ChannelStep ==
  ASSUME ChannelAssumption
  PROVE  ChannelInv /\ [TeamGroups!Next]_(TeamGroups!vars) => ChannelInv'
<1> SUFFICES ASSUME ChannelInv, [TeamGroups!Next]_(TeamGroups!vars) PROVE ChannelInv'
  OBVIOUS
<1>1. CASE UNCHANGED TeamGroups!vars
  BY <1>1 DEF TeamGroups!vars, ChannelInv, ChannelsTyped, GroupsApart, OneReconcile, HeldByOne, NoneLeft, TeamFits, RequestFits,
     OpFits, GroupFits, Keeps, HeldFor, OnItsWay, Alive, All
<1>2. CASE TeamGroups!Requests
  BY <1>2, TeamIsCreated, ChannelIsRenamed DEF TeamGroups!Requests
<1>3. ASSUME NEW s \in Sessions, TeamGroups!Continues(s) PROVE ChannelInv'
  BY <1>3, GroupIsPosted, GroupIsLookedUp, ChannelIsInserted, GroupIsDescribed, CreationIsDeferred, ReconciliationIsQueued,
     ChannelIsRenamed, TeamIsDeleted DEF TeamGroups!Continues
<1>4. ASSUME NEW i, TeamGroups!Works(i) PROVE ChannelInv'
  <2>1. i \in DOMAIN ops
    BY <1>4 DEF TeamGroups!Works, TeamGroups!ReconcileGroup, TeamGroups!RecordGroup, TeamGroups!ReadChannel, TeamGroups!PatchGroup,
       TeamGroups!RemoveGroup, TeamGroups!Is
  <2> QED
    BY <1>4, <2>1, ChannelIsReconciled, GroupIsRecorded, ChannelIsRead, GroupIsPatched, GroupIsRemoved DEF TeamGroups!Works
<1>5. ASSUME NEW i, TeamGroups!Strand(i) PROVE ChannelInv'
  BY <1>5, OperationStrands DEF TeamGroups!Strand
<1>6. ASSUME NEW t \in Teams, TeamGroups!ReconcileDescriptions(t) PROVE ChannelInv'
  BY <1>6, DescriptionIsRestored
<1> QED
  BY <1>1, <1>2, <1>3, <1>4, <1>5, <1>6 DEF TeamGroups!Next

\* No two teams' channels record the same group, every group that is recorded
\* exists and none is left behind while its team does, however requests and
\* queued operations interleave and whichever of their steps fail: unless a
\* group was found by its name in another's hands, or an operation was lost.
THEOREM ChannelsKeepGroups ==
  ASSUME ChannelAssumption
  PROVE  Spec => []ChannelGroupsSound
<1> DEFINE Inv == part = "channels" => ChannelInv
<1>1. Init => Inv
  BY ChannelInit DEF Init
<1>2. Inv /\ [Next]_vars => Inv'
  <2> SUFFICES ASSUME Inv, [Next]_vars PROVE Inv'
    OBVIOUS
  <2>1. part' = part
    BY DEF Next, vars, OnlyBreaker, OnlyCallsigns, OnlyExpiry, OnlyChannels
  <2>2. part = "channels" => [TeamGroups!Next]_(TeamGroups!vars)
    BY DEF Next, vars, channelVars, TeamGroups!vars, OnlyBreaker, OnlyCallsigns, OnlyExpiry, OnlyChannels
  <2> QED
    BY <2>1, <2>2, ChannelStep
<1>3. Inv => ChannelGroupsSound
  BY ChannelInvHolds DEF ChannelGroupsSound
<1> QED
  BY <1>1, <1>2, <1>3, PTL DEF Spec

-----------------------------------------------------------------------------
(* The rate limiter.                                                       *)

CONSTANTS Callers, Capacity, MaxClock, MaxCalls
VARIABLES clock, bucket, acquiring, asked, window

Limiter == INSTANCE RateLimiter WITH call <- acquiring

\* What was granted since the window began is excused, or paid for by a bucket
\* that stands at these tokens since that time; grants: not seen by the bucket.
Paid(b, grants) ==
  \/ window.granted <= window.excused + grants
  \/ window.granted + b.tokens + window.at <= Capacity + window.excused + b.last + grants

\* The bucket pays for all grants, and each snapshot for those before it.
LimiterInv ==
  /\ Limiter!TypeOK
  /\ Paid(bucket, 0)
  /\ \A c \in Callers : IF acquiring[c].pc = "read" THEN Paid(acquiring[c].saw, acquiring[c].grants)
                        ELSE acquiring[c].grants = 0

LEMMA LimiterInit == ASSUME Capacity \in Nat, MaxClock \in Nat, MaxCalls \in Nat
                     PROVE  Limiter!Init => LimiterInv
BY DEF Limiter!Init, LimiterInv, Limiter!TypeOK, Paid, Limiter!Idle, Limiter!None

LEMMA LimiterStep ==
  ASSUME Capacity \in Nat, MaxClock \in Nat, MaxCalls \in Nat,
         LimiterInv, [Limiter!Next]_(Limiter!vars)
  PROVE  LimiterInv'
<1> DEFINE CallType(t) == [pc : {"idle", "begun", "read"}, now : 0 .. t,
                           saw : [tokens : Nat, last : 0 .. t], grants : Nat]
<1>0. /\ clock \in 0 .. MaxClock /\ clock \in Nat
      /\ bucket \in [tokens : Nat, last : 0 .. clock]
      /\ acquiring \in [Callers -> CallType(clock)]
      /\ asked \in 0 .. MaxCalls
      /\ window \in [at : 0 .. clock, granted : Nat, excused : Nat]
  BY DEF LimiterInv, Limiter!TypeOK
<1>k. ASSUME NEW c \in Callers PROVE acquiring[c] \in CallType(clock)
  BY <1>0
<1>1. CASE Limiter!Tick
  <2>1. clock' = clock + 1 /\ clock' \in 0 .. MaxClock /\ UNCHANGED <<bucket, acquiring, asked, window>>
    BY <1>0, <1>1 DEF Limiter!Tick
  <2>2. \A n \in 0 .. clock : n \in 0 .. clock'
    BY <1>0, <2>1
  <2>3. \A r \in CallType(clock) : r \in CallType(clock')
    BY <2>2
  <2>4. acquiring' \in [Callers -> CallType(clock')]
    BY <1>0, <2>1, <2>3
  <2>5. bucket' \in [tokens : Nat, last : 0 .. clock']
        /\ window' \in [at : 0 .. clock', granted : Nat, excused : Nat]
    BY <1>0, <2>1, <2>2
  <2>6. Limiter!TypeOK'
    BY <1>0, <2>1, <2>4, <2>5 DEF Limiter!TypeOK
  <2> QED
    BY <2>1, <2>6 DEF LimiterInv, Paid
<1>2. CASE Limiter!Watch
  <2>1. UNCHANGED <<clock, bucket, acquiring, asked>> /\ window' = [at |-> clock, granted |-> 0, excused |-> 0]
    BY <1>2 DEF Limiter!Watch
  <2>2. Limiter!TypeOK'
    BY <1>0, <2>1 DEF Limiter!TypeOK
  <2>3. Paid(bucket, 0)' /\ \A c \in Callers : Paid(acquiring[c].saw, acquiring[c].grants)'
    BY <1>0, <2>1 DEF Paid
  <2> QED
    BY <2>1, <2>2, <2>3 DEF LimiterInv
<1>3. ASSUME NEW c \in Callers, Limiter!Begin(c) PROVE LimiterInv'
  <2>0. UNCHANGED <<clock, bucket, window>> /\ asked' \in 0 .. MaxCalls
    BY <1>0, <1>3 DEF Limiter!Begin
  <2>1. /\ UNCHANGED <<clock, bucket, window>> /\ asked' \in 0 .. MaxCalls
        /\ acquiring' = [acquiring EXCEPT ![c] = [acquiring[c] EXCEPT !.pc = "begun", !.now = clock]]
        /\ acquiring[c].pc = "idle"
    <3>1. acquiring' = [acquiring EXCEPT ![c] = [acquiring[c] EXCEPT !.pc = "begun", !.now = clock]]
      BY <1>0, <1>3 DEF Limiter!Begin
    <3> QED
      BY <1>3, <2>0, <3>1 DEF Limiter!Begin
  <2>2. [acquiring[c] EXCEPT !.pc = "begun", !.now = clock] \in CallType(clock)
    <3>1. clock \in 0 .. clock
      BY <1>0
    <3>2. acquiring[c] \in CallType(clock)
      BY <1>k
    <3> QED
      BY <3>1, <3>2
  <2>3. acquiring' \in [Callers -> CallType(clock')]
    BY <1>0, <2>1, <2>2
  <2>4. acquiring'[c].pc = "begun" /\ acquiring'[c].grants = acquiring[c].grants
    BY <1>0, <1>k, <2>1
  <2>5. \A d \in Callers \ {c} : acquiring'[d] = acquiring[d]
    BY <1>0, <2>1
  <2>6. Limiter!TypeOK'
    BY <1>0, <2>1, <2>3 DEF Limiter!TypeOK
  <2>7. Paid(bucket, 0)'
    BY <2>1 DEF LimiterInv, Paid
  <2>8. ASSUME NEW d \in Callers
        PROVE  IF acquiring'[d].pc = "read" THEN Paid(acquiring[d].saw, acquiring[d].grants)' ELSE acquiring'[d].grants = 0
    BY <2>1, <2>4, <2>5 DEF LimiterInv, Paid
  <2> QED
    BY <2>6, <2>7, <2>8 DEF LimiterInv
<1>4. ASSUME NEW c \in Callers, Limiter!Snapshot(c) PROVE LimiterInv'
  <2>1. /\ UNCHANGED <<clock, bucket, asked, window>>
        /\ acquiring' = [acquiring EXCEPT ![c] = [acquiring[c] EXCEPT !.pc = "read", !.saw = bucket]]
        /\ acquiring[c].pc = "begun"
    BY <1>0, <1>4 DEF Limiter!Snapshot
  <2>2. [acquiring[c] EXCEPT !.pc = "read", !.saw = bucket] \in CallType(clock)
    BY <1>0, <1>k
  <2>3. acquiring' \in [Callers -> CallType(clock')]
    BY <1>0, <2>1, <2>2
  <2>4. acquiring'[c].grants = 0 /\ acquiring'[c].saw = bucket
    BY <1>0, <1>k, <2>1 DEF LimiterInv
  <2>5. \A d \in Callers \ {c} : acquiring'[d] = acquiring[d]
    BY <1>0, <2>1
  <2>6. Limiter!TypeOK'
    BY <1>0, <2>1, <2>3 DEF Limiter!TypeOK
  <2>7. Paid(bucket, 0)' /\ Paid(acquiring[c].saw, acquiring[c].grants)'
    BY <2>1, <2>4 DEF LimiterInv, Paid
  <2>9. acquiring'[c].pc = "read"
    BY <1>0, <1>k, <2>1
  <2>8. ASSUME NEW d \in Callers
        PROVE  IF acquiring'[d].pc = "read" THEN Paid(acquiring[d].saw, acquiring[d].grants)' ELSE acquiring'[d].grants = 0
    BY <2>1, <2>5, <2>7, <2>9 DEF LimiterInv, Paid
  <2> QED
    BY <2>6, <2>7, <2>8 DEF LimiterInv
<1>5. ASSUME NEW c \in Callers, Limiter!Update(c) PROVE LimiterInv'
  <2> DEFINE r == acquiring[c]
             full == Limiter!Refilled(c)
             granted == IF full >= 1 THEN 1 ELSE 0
  <2>r. /\ r.now \in 0 .. clock /\ r.saw.tokens \in Nat /\ r.saw.last \in 0 .. clock /\ r.grants \in Nat
        /\ r.pc = "read" /\ Paid(r.saw, r.grants)
    BY <1>k, <1>5 DEF Limiter!Update, LimiterInv
  <2>f. /\ full \in Nat /\ full <= Capacity
        /\ full <= r.saw.tokens + Limiter!Minus(r.now, r.saw.last)
    BY <2>r, <1>0 DEF Limiter!Refilled, Limiter!AtMost, Limiter!Minus
  <2>g. granted \in {0, 1} /\ granted <= full
    BY <2>f
  <2>e. Limiter!Excuse(c) = Limiter!Minus(r.saw.last, r.now) + r.grants
    BY DEF Limiter!Excuse
  <2>u. /\ UNCHANGED <<clock, asked>>
        /\ bucket' = [tokens |-> full - granted, last |-> r.now]
        /\ acquiring' = [d \in Callers |-> IF d = c THEN Limiter!Idle
                                      ELSE IF acquiring[d].pc = "read" THEN [acquiring[d] EXCEPT !.grants = @ + granted]
                                      ELSE acquiring[d]]
        /\ window' = [window EXCEPT !.granted = IF r.now >= window.at THEN @ + granted ELSE @,
                                    !.excused = @ + Limiter!Excuse(c)]
    BY <1>5 DEF Limiter!Update
  <2> HIDE DEF full, granted
  <2>w. /\ window'.at = window.at
        /\ window'.granted = IF r.now >= window.at THEN window.granted + granted ELSE window.granted
        /\ window'.excused = window.excused + Limiter!Minus(r.saw.last, r.now) + r.grants
    BY <1>0, <2>e, <2>u, <2>r DEF Limiter!Minus
  <2>n. /\ window.at \in Nat /\ window.granted \in Nat /\ window.excused \in Nat
        /\ r.now \in Nat /\ r.saw.last \in Nat /\ window.at <= clock
    BY <1>0, <2>r
  <2>1. Paid(bucket, 0)'
    <3>1. bucket'.tokens = full - granted /\ bucket'.last = r.now
      BY <2>u
    <3>2. CASE window.granted <= window.excused + r.grants
      BY <3>1, <3>2, <2>f, <2>g, <2>w, <2>n, <2>r DEF Paid, Limiter!Minus
    <3>3. CASE window.granted + r.saw.tokens + window.at <= Capacity + window.excused + r.saw.last + r.grants
      BY <3>1, <3>3, <2>f, <2>g, <2>w, <2>n, <2>r DEF Paid, Limiter!Minus
    <3> QED
      BY <3>2, <3>3, <2>r DEF Paid
  <2>2. acquiring'[c] = Limiter!Idle /\ acquiring'[c].pc # "read" /\ acquiring'[c].grants = 0 /\ acquiring'[c] \in CallType(clock)
    BY <1>0, <2>u DEF Limiter!Idle, Limiter!None
  <2>3. ASSUME NEW d \in Callers \ {c}
        PROVE  /\ acquiring'[d] \in CallType(clock)
               /\ IF acquiring'[d].pc = "read" THEN Paid(acquiring[d].saw, acquiring[d].grants)' ELSE acquiring'[d].grants = 0
    <3>0. acquiring[d] \in CallType(clock)
      BY <1>k
    <3>1. CASE acquiring[d].pc = "read"
      <4>1. acquiring'[d] = [acquiring[d] EXCEPT !.grants = @ + granted]
        BY <2>u, <3>1
      <4>2. /\ acquiring'[d].saw = acquiring[d].saw /\ acquiring'[d].grants = acquiring[d].grants + granted
            /\ acquiring'[d].pc = "read" /\ acquiring'[d] \in CallType(clock)
        BY <3>0, <3>1, <4>1, <2>g
      <4>3. Paid(acquiring[d].saw, acquiring[d].grants)
        BY <3>1 DEF LimiterInv
      <4>4. acquiring[d].saw.tokens \in Nat /\ acquiring[d].saw.last \in Nat /\ acquiring[d].grants \in Nat
        BY <3>0, <1>0
      <4>5. /\ window'.granted <= window.granted + granted /\ window'.excused >= window.excused
            /\ window'.granted \in Nat /\ window'.excused \in Nat
        BY <2>w, <2>n, <2>r, <2>g DEF Limiter!Minus
      <4>6. Paid(acquiring[d].saw, acquiring[d].grants)'
        BY <4>2, <4>3, <4>4, <4>5, <2>n, <2>w, <2>g DEF Paid
      <4> QED
        BY <4>2, <4>6
    <3>2. CASE acquiring[d].pc # "read"
      <4>1. acquiring'[d] = acquiring[d]
        BY <2>u, <3>2
      <4> QED
        BY <3>0, <3>2, <4>1 DEF LimiterInv
    <3> QED
      BY <3>1, <3>2
  <2>4. Limiter!TypeOK'
    <3>1. bucket' \in [tokens : Nat, last : 0 .. clock']
      BY <2>u, <2>f, <2>g, <2>r
    <3>2. acquiring' \in [Callers -> CallType(clock')]
      BY <2>u, <2>2, <2>3
    <3>3. window' \in [at : 0 .. clock', granted : Nat, excused : Nat]
      <4>1. window' = [window EXCEPT !.granted = window'.granted, !.excused = window'.excused]
        BY <1>0, <2>u
      <4>2. window'.granted \in Nat /\ window'.excused \in Nat
        BY <2>w, <2>n, <2>r, <2>g DEF Limiter!Minus
      <4> QED
        BY <1>0, <2>u, <4>1, <4>2
    <3> QED
      BY <1>0, <2>u, <3>1, <3>2, <3>3 DEF Limiter!TypeOK
  <2> QED
    BY <2>1, <2>2, <2>3, <2>4 DEF LimiterInv
<1>6. CASE UNCHANGED Limiter!vars
  BY <1>6 DEF Limiter!vars, LimiterInv, Limiter!TypeOK, Paid
<1> QED
  BY <1>1, <1>2, <1>3, <1>4, <1>5, <1>6 DEF Limiter!Next

LEMMA LimiterInvHolds ==
  ASSUME Capacity \in Nat, MaxClock \in Nat, MaxCalls \in Nat
  PROVE  LimiterInv => Limiter!RateKept
BY DEF LimiterInv, Paid, Limiter!RateKept, Limiter!TypeOK

\* In any period no more calls are granted than the capacity and the time that
\* passed, but for what overlapping statements grant twice, for any number of
\* processes (AuthentikRateLimiter.acquire, its single UPDATE).
THEOREM GrantsAreBounded ==
  ASSUME Capacity \in Nat, MaxClock \in Nat, MaxCalls \in Nat
  PROVE  Limiter!Spec => []Limiter!RateKept
BY LimiterInit, LimiterStep, LimiterInvHolds, PTL DEF Limiter!Spec

-----------------------------------------------------------------------------
(* The pool of connections.                                                *)

CONSTANTS Queriers, PoolMax
VARIABLES stage, waiting, free

Pool == INSTANCE ConnectionPool

PoolAssumption == IsFiniteSet(Queriers) /\ PoolMax \in Nat

Stages == {"idle", "query", "querying", "begin", "open", "inner", "reading", "writing"}
HoldsOne == {"querying", "open", "inner", "writing"}
Waits == {"query", "begin", "inner"}

\* How many connections a stage, and all requests together, hold.
Weight(s) == IF s \in HoldsOne THEN 1 ELSE IF s = "reading" THEN 2 ELSE 0
At(f, S) == {q \in Queriers : f[q] \in S}
Weights(f) == Cardinality(At(f, HoldsOne)) + 2 * Cardinality(At(f, {"reading"}))

\* Who waits is in the queue, once; each connection is free or held.
Queued == {waiting[i] : i \in 1 .. Len(waiting)}
PoolInv ==
  /\ stage \in [Queriers -> Stages]
  /\ waiting \in Seq(Queriers)
  /\ free \in Nat
  /\ Queued = At(stage, Waits)
  /\ \A i, j \in 1 .. Len(waiting) : waiting[i] = waiting[j] => i = j
  /\ free + Weights(stage) = PoolMax
  /\ free > 0 => waiting = <<>>

LEMMA PoolCounts == \A S : Pool!Cardinality(S) = Cardinality(S)
BY DEF Pool!Cardinality, Cardinality, Pool!IsFiniteSet, IsFiniteSet

LEMMA WeightMoves ==
  ASSUME IsFiniteSet(Queriers), NEW f, NEW g, NEW r \in Queriers,
         \A q \in Queriers \ {r} : g[q] = f[q]
  PROVE  /\ Weights(f) \in Nat /\ Weights(g) \in Nat
         /\ Weights(g) + Weight(f[r]) = Weights(f) + Weight(g[r])
<1>0. \A S : At(f, S) = Within(Queriers, f, S) /\ At(g, S) = Within(Queriers, g, S)
  BY DEF At, Within
<1>r. \A S : /\ Cardinality(At(f, S)) \in Nat /\ Cardinality(At(g, S)) \in Nat
             /\ Cardinality(At(g, S)) + (IF f[r] \in S THEN 1 ELSE 0)
                  = Cardinality(At(f, S)) + (IF g[r] \in S THEN 1 ELSE 0)
  <2> SUFFICES ASSUME NEW S
      PROVE  /\ Cardinality(Within(Queriers, f, S)) \in Nat /\ Cardinality(Within(Queriers, g, S)) \in Nat
             /\ Cardinality(Within(Queriers, g, S)) + (IF f[r] \in S THEN 1 ELSE 0)
                  = Cardinality(Within(Queriers, f, S)) + (IF g[r] \in S THEN 1 ELSE 0)
    BY <1>0
  <2> QED
    BY Recount
<1>1. /\ Cardinality(At(f, HoldsOne)) \in Nat /\ Cardinality(At(g, HoldsOne)) \in Nat
      /\ Cardinality(At(g, HoldsOne)) + (IF f[r] \in HoldsOne THEN 1 ELSE 0)
           = Cardinality(At(f, HoldsOne)) + (IF g[r] \in HoldsOne THEN 1 ELSE 0)
  BY <1>r
<1>2. /\ Cardinality(At(f, {"reading"})) \in Nat /\ Cardinality(At(g, {"reading"})) \in Nat
      /\ Cardinality(At(g, {"reading"})) + (IF f[r] \in {"reading"} THEN 1 ELSE 0)
           = Cardinality(At(f, {"reading"})) + (IF g[r] \in {"reading"} THEN 1 ELSE 0)
  BY <1>r
<1>3. "reading" \notin HoldsOne
  BY DEF HoldsOne
<1> QED
  BY <1>1, <1>2, <1>3 DEF Weights, Weight

LEMMA PoolInvHolds == ASSUME PoolAssumption PROVE PoolInv => Pool!PoolSound
<1> SUFFICES ASSUME PoolInv PROVE Pool!PoolSound
  OBVIOUS
<1>1. /\ Pool!Count(HoldsOne) = Cardinality(At(stage, HoldsOne))
      /\ Pool!Count({"reading"}) = Cardinality(At(stage, {"reading"}))
      /\ Pool!Count({"inner"}) = Cardinality(At(stage, {"inner"}))
  BY PoolCounts DEF Pool!Count, At
<1>2. \A S : Cardinality(At(stage, S)) \in Nat
  <2>1. \A S : At(stage, S) \in SUBSET Queriers
    BY DEF At
  <2> QED
    BY <2>1, FS_Subset, FS_CardinalityType DEF PoolAssumption
<1>3. Pool!NoneLost
  <2>1. free + Cardinality(At(stage, HoldsOne)) + 2 * Cardinality(At(stage, {"reading"})) = PoolMax
    <3>1. Cardinality(At(stage, HoldsOne)) \in Nat /\ Cardinality(At(stage, {"reading"})) \in Nat
      BY <1>2
    <3> QED
      BY <3>1 DEF PoolInv, Weights
  <2>2. free + Pool!Count(HoldsOne) + 2 * Pool!Count({"reading"}) = PoolMax
    BY <1>1, <2>1
  <2> QED
    BY <2>2 DEF PoolInv, HoldsOne, Pool!NoneLost
<1>4. Pool!TypeOK
  <2>1. free <= PoolMax
    BY <1>2 DEF PoolInv, Weights, PoolAssumption
  <2> QED
    BY <2>1 DEF PoolInv, Stages, Pool!TypeOK, PoolAssumption
<1>5. {waiting[i] : i \in DOMAIN waiting} = {r \in Queriers : stage[r] \in DOMAIN Pool!Granted}
  <2>1. DOMAIN Pool!Granted = Waits
    BY DEF Pool!Granted, Waits
  <2>2. DOMAIN waiting = 1 .. Len(waiting)
    BY DEF PoolInv
  <2> QED
    BY <2>1, <2>2 DEF PoolInv, Queued, At
<1>6. ASSUME waiting # <<>>, \A r \in Queriers : stage[r] \notin Pool!Running
      PROVE  Pool!Starved
  <2>1. free = 0
    BY <1>6 DEF PoolInv
  <2>2. At(stage, {"reading"}) = {} /\ At(stage, HoldsOne) = At(stage, {"inner"})
    BY <1>6 DEF At, Pool!Running, HoldsOne
  <2>3. Cardinality(At(stage, {"reading"})) = 0
    BY <2>2, FS_EmptySet
  <2> QED
    BY <1>1, <1>2, <2>1, <2>2, <2>3 DEF PoolInv, Weights, Pool!Starved, PoolAssumption
<1> QED
  BY <1>3, <1>4, <1>5, <1>6 DEF Pool!PoolSound, Pool!SomebodyRuns

LEMMA PoolInit == ASSUME PoolAssumption PROVE Pool!Init => PoolInv
<1> SUFFICES ASSUME Pool!Init PROVE PoolInv
  OBVIOUS
<1>1. /\ stage = [r \in Queriers |-> "idle"] /\ waiting = <<>> /\ free = PoolMax
  BY DEF Pool!Init
<1>2. At(stage, HoldsOne) = {} /\ At(stage, {"reading"}) = {} /\ At(stage, Waits) = {}
  BY <1>1 DEF At, HoldsOne, Waits
<1>3. Weights(stage) = 0
  BY <1>2, FS_EmptySet DEF Weights
<1>4. Queued = {}
  BY <1>1 DEF Queued
<1> QED
  BY <1>1, <1>2, <1>3, <1>4 DEF PoolInv, PoolAssumption, Stages

LEMMA PoolConnects ==
  ASSUME PoolAssumption, PoolInv, NEW r \in Queriers, NEW for \in Waits, Pool!Connect(r, for),
         stage[r] = (IF for = "inner" THEN "open" ELSE "idle")
  PROVE  PoolInv'
<1>0. stage \in [Queriers -> Stages] /\ IsFiniteSet(Queriers) /\ waiting \in Seq(Queriers) /\ free \in Nat
  BY DEF PoolInv, PoolAssumption
<1>1. ASSUME NEW n \in Stages, stage' = [stage EXCEPT ![r] = n]
      PROVE  /\ stage' \in [Queriers -> Stages] /\ stage'[r] = n
             /\ Weights(stage) \in Nat /\ Weights(stage') \in Nat
             /\ Weights(stage') + Weight(stage[r]) = Weights(stage) + Weight(n)
             /\ At(stage', Waits) = IF n \in Waits THEN At(stage, Waits) \cup {r} ELSE At(stage, Waits) \ {r}
  <2>1. stage' \in [Queriers -> Stages] /\ stage'[r] = n /\ \A q \in Queriers \ {r} : stage'[q] = stage[q]
    BY <1>0, <1>1
  <2> QED
    BY <1>0, <2>1, WeightMoves DEF At
<1>2. stage[r] \notin Waits /\ r \notin At(stage, Waits)
  BY DEF Waits, At
<1>3. CASE free > 0
  <2>1. PICK n \in Stages : /\ stage' = [stage EXCEPT ![r] = n] /\ n \notin Waits
                            /\ Weight(n) = Weight(stage[r]) + 1
    <3>1. Pool!Granted[for] \in Stages \ Waits /\ Weight(Pool!Granted[for]) = Weight(stage[r]) + 1
      BY DEF Pool!Granted, Stages, Waits, Weight, HoldsOne
    <3> QED
      BY <1>3, <3>1 DEF Pool!Connect
  <2>2. waiting' = waiting /\ free' = free - 1 /\ waiting = <<>>
    BY <1>3 DEF Pool!Connect, PoolInv
  <2>3. Weight(stage[r]) \in Nat /\ Queued' = Queued
    BY <2>2 DEF Weight, Queued
  <2>4. free' + Weights(stage') = PoolMax
    <3>1. /\ Weights(stage) \in Nat /\ Weights(stage') \in Nat
          /\ Weights(stage') + Weight(stage[r]) = Weights(stage) + Weight(n)
      BY <1>1, <2>1
    <3>2. Weights(stage') = Weights(stage) + 1
      BY <2>1, <2>3, <3>1
    <3> QED
      BY <1>0, <2>2, <3>1, <3>2 DEF PoolInv
  <2>5. At(stage', Waits) = At(stage, Waits)
    BY <1>1, <1>2, <2>1
  <2> QED
    BY <1>0, <1>1, <1>3, <2>1, <2>2, <2>3, <2>4, <2>5 DEF PoolInv
<1>4. CASE ~(free > 0)
  <2>1. stage' = [stage EXCEPT ![r] = for] /\ waiting' = Append(waiting, r) /\ free' = free
    BY <1>4 DEF Pool!Connect
  <2>2. for \in Stages /\ Weight(for) = Weight(stage[r]) /\ Weight(for) \in Nat
    BY DEF Stages, Waits, Weight, HoldsOne
  <2>3. /\ waiting' \in Seq(Queriers) /\ Len(waiting') = Len(waiting) + 1 /\ Len(waiting) \in Nat
        /\ waiting'[Len(waiting) + 1] = r
        /\ \A i \in 1 .. Len(waiting) : waiting'[i] = waiting[i]
    BY <1>0, <2>1
  <2>4. Queued' = Queued \cup {r}
    BY <2>3 DEF Queued
  <2>5. \A i, j \in 1 .. Len(waiting') : waiting'[i] = waiting'[j] => i = j
    <3>1. \A i \in 1 .. Len(waiting) : waiting[i] # r
      BY <1>2 DEF PoolInv, Queued
    <3>2. \A i \in 1 .. Len(waiting') : i \in 1 .. Len(waiting) \/ i = Len(waiting) + 1
      BY <2>3
    <3> QED
      BY <2>3, <3>1, <3>2 DEF PoolInv
  <2>6. free' + Weights(stage') = PoolMax
    <3>1. /\ Weights(stage) \in Nat /\ Weights(stage') \in Nat
          /\ Weights(stage') + Weight(stage[r]) = Weights(stage) + Weight(for)
      BY <1>1, <2>1, <2>2
    <3>2. Weights(stage') = Weights(stage)
      BY <2>2, <3>1
    <3> QED
      BY <2>1, <3>2 DEF PoolInv
  <2>7. At(stage', Waits) = Queued'
    BY <1>1, <2>1, <2>2, <2>4 DEF PoolInv
  <2> QED
    BY <1>0, <1>1, <1>4, <2>1, <2>2, <2>3, <2>5, <2>6, <2>7 DEF PoolInv
<1> QED
  BY <1>3, <1>4

LEMMA PoolReleases ==
  ASSUME PoolAssumption, PoolInv, NEW r \in Queriers, NEW next \in {"idle", "writing"},
         Pool!Release(r, next),
         stage[r] \in {"querying", "reading", "writing"}, Weight(stage[r]) = Weight(next) + 1
  PROVE  PoolInv'
<1>0. stage \in [Queriers -> Stages] /\ IsFiniteSet(Queriers) /\ waiting \in Seq(Queriers) /\ free \in Nat
  BY DEF PoolInv, PoolAssumption
<1> DEFINE g == [stage EXCEPT ![r] = next]
<1>1. /\ g \in [Queriers -> Stages]
      /\ g[r] = next /\ \A q \in Queriers \ {r} : g[q] = stage[q]
  BY <1>0 DEF Stages
<1> HIDE DEF g
<1>2. Weights(stage) \in Nat /\ Weights(g) \in Nat /\ Weight(next) \in Nat /\ Weights(g) + 1 = Weights(stage)
  <2>1. Weights(g) + Weight(stage[r]) = Weights(stage) + Weight(next)
        /\ Weights(stage) \in Nat /\ Weights(g) \in Nat
    BY <1>0, <1>1, WeightMoves
  <2>2. Weight(next) \in Nat
    BY DEF Weight
  <2> QED
    BY <2>1, <2>2
<1>3. At(g, Waits) = At(stage, Waits) /\ r \notin At(stage, Waits)
  BY <1>1 DEF At, Waits
<1>4. CASE waiting = <<>>
  <2>1. stage' = g /\ waiting' = waiting /\ free' = free + 1
    BY <1>4 DEF Pool!Release, g
  <2>2. Queued' = Queued
    BY <2>1 DEF Queued
  <2>3. free' + Weights(stage') = PoolMax
    BY <1>0, <1>2, <2>1 DEF PoolInv
  <2> QED
    BY <1>0, <1>1, <1>3, <1>4, <2>1, <2>2, <2>3 DEF PoolInv
<1>5. CASE waiting # <<>>
  <2> DEFINE h == Head(waiting)
  <2>1. Len(waiting) \in Nat /\ Len(waiting) >= 1 /\ h = waiting[1]
    BY <1>0, <1>5
  <2>2. h \in Queued /\ h \in Queriers /\ h \in At(stage, Waits)
    BY <2>1, <1>0 DEF Queued, PoolInv, At
  <2>3. h # r /\ stage[h] \in Waits /\ g[h] = stage[h]
    BY <1>1, <1>3, <2>2 DEF At
  <2>4. stage' = [stage EXCEPT ![r] = next, ![h] = Pool!Granted[@]] /\ waiting' = Tail(waiting) /\ free' = free
    BY <1>5 DEF Pool!Release
  <2> HIDE DEF h
  <2>5. /\ stage' = [g EXCEPT ![h] = Pool!Granted[stage[h]]]
    BY <1>0, <2>2, <2>3, <2>4 DEF g
  <2>6. Pool!Granted[stage[h]] \in Stages \ Waits
        /\ Weight(Pool!Granted[stage[h]]) = Weight(stage[h]) + 1 /\ Weight(stage[h]) \in Nat
    BY <2>3 DEF Pool!Granted, Stages, Waits, Weight, HoldsOne
  <2>7. /\ stage' \in [Queriers -> Stages] /\ stage'[h] = Pool!Granted[stage[h]]
        /\ \A q \in Queriers \ {h} : stage'[q] = g[q]
    BY <1>1, <2>2, <2>5, <2>6
  <2>8. Weights(stage') = Weights(stage)
    <3>1. Weights(stage') \in Nat /\ Weights(stage') + Weight(g[h]) = Weights(g) + Weight(stage'[h])
      BY <1>0, <2>2, <2>7, WeightMoves
    <3> QED
      BY <1>2, <2>3, <2>6, <2>7, <3>1
  <2>9. At(stage', Waits) = At(stage, Waits) \ {h}
    BY <1>1, <1>3, <2>6, <2>7 DEF At
  <2>10. /\ waiting' \in Seq(Queriers) /\ Len(waiting') = Len(waiting) - 1
         /\ \A i \in 1 .. Len(waiting') : waiting'[i] = waiting[i + 1]
    BY <1>0, <1>5, <2>4
  <2>11. \A i \in 1 .. Len(waiting') : i + 1 \in 1 .. Len(waiting) /\ i + 1 # 1
    BY <2>1, <2>10
  <2>12. \A i, j \in 1 .. Len(waiting') : waiting'[i] = waiting'[j] => i = j
    <3> SUFFICES ASSUME NEW i \in 1 .. Len(waiting'), NEW j \in 1 .. Len(waiting'), waiting'[i] = waiting'[j]
                 PROVE  i = j
      OBVIOUS
    <3>1. waiting[i + 1] = waiting[j + 1] /\ i + 1 \in 1 .. Len(waiting) /\ j + 1 \in 1 .. Len(waiting)
      BY <2>10, <2>11
    <3>2. i + 1 = j + 1
      BY <3>1 DEF PoolInv
    <3> QED
      BY <3>2
  <2>13. Queued' = Queued \ {h}
    <3>1. ASSUME NEW i \in 1 .. Len(waiting') PROVE waiting'[i] \in Queued \ {h}
      <4>1. waiting'[i] = waiting[i + 1] /\ i + 1 \in 1 .. Len(waiting) /\ i + 1 # 1 /\ 1 \in 1 .. Len(waiting)
        BY <2>1, <2>10, <2>11
      <4>2. waiting[i + 1] # waiting[1]
        BY <4>1 DEF PoolInv
      <4> QED
        BY <2>1, <4>1, <4>2 DEF Queued
    <3>2. ASSUME NEW i \in 1 .. Len(waiting), waiting[i] # h PROVE waiting[i] \in Queued'
      <4>1. i # 1
        BY <2>1, <3>2
      <4>2. i - 1 \in 1 .. Len(waiting') /\ (i - 1) + 1 = i
        BY <2>1, <2>10, <4>1
      <4>3. waiting[i] = waiting'[i - 1]
        BY <2>10, <4>2
      <4> QED
        BY <4>2, <4>3 DEF Queued
    <3> QED
      BY <3>1, <3>2 DEF Queued
  <2>14. free' + Weights(stage') = PoolMax /\ free' = free /\ ~(free > 0)
    BY <1>5, <2>4, <2>8 DEF PoolInv
  <2> QED
    BY <1>0, <2>7, <2>9, <2>10, <2>12, <2>13, <2>14 DEF PoolInv
<1> QED
  BY <1>4, <1>5

LEMMA PoolStep == ASSUME PoolAssumption, PoolInv, [Pool!Next]_(Pool!vars) PROVE PoolInv'
<1>1. ASSUME NEW r \in Queriers, Pool!Asks(r) PROVE PoolInv'
  BY <1>1, PoolConnects DEF Pool!Asks, Pool!Query, Pool!Begin, Waits
<1>2. ASSUME NEW r \in Queriers, Pool!Continues(r) PROVE PoolInv'
  <2>1. CASE Pool!CompareSuffix(r)
    BY <2>1, PoolConnects DEF Pool!CompareSuffix, Waits
  <2>2. CASE Pool!Answer(r)
    BY <2>2, PoolReleases DEF Pool!Answer, Weight, HoldsOne
  <2>3. CASE Pool!Compared(r)
    BY <2>3, PoolReleases DEF Pool!Compared, Weight, HoldsOne
  <2>4. CASE Pool!Finish(r)
    BY <2>4, PoolReleases DEF Pool!Finish, Weight, HoldsOne
  <2>5. CASE Pool!NoSuffix(r)
    <3>1. /\ stage' \in [Queriers -> Stages] /\ stage[r] = "open" /\ stage'[r] = "writing"
          /\ \A q \in Queriers \ {r} : stage'[q] = stage[q]
          /\ waiting' = waiting /\ free' = free
      BY <2>5 DEF Pool!NoSuffix, PoolInv, Stages
    <3>2. Weights(stage') = Weights(stage)
      <4>1. /\ Weights(stage) \in Nat /\ Weights(stage') \in Nat
            /\ Weights(stage') + Weight(stage[r]) = Weights(stage) + Weight(stage'[r])
        BY <3>1, WeightMoves DEF PoolAssumption
      <4>2. Weight("open") = 1 /\ Weight("writing") = 1
        BY DEF Weight, HoldsOne
      <4> QED
        BY <3>1, <4>1, <4>2
    <3>3. At(stage', Waits) = At(stage, Waits)
      BY <3>1 DEF At, Waits
    <3>4. Queued' = Queued
      BY <3>1 DEF Queued
    <3> QED
      BY <3>1, <3>2, <3>3, <3>4 DEF PoolInv
  <2> QED
    BY <1>2, <2>1, <2>2, <2>3, <2>4, <2>5 DEF Pool!Continues
<1>3. CASE UNCHANGED Pool!vars
  BY <1>3 DEF Pool!vars, PoolInv, Queued
<1> QED
  BY <1>1, <1>2, <1>3 DEF Pool!Next

\* No connection is lost whatever fails, none is free while somebody waits, and
\* somebody runs as long as somebody waits, unless every connection is held by
\* a transaction that waits for a second one; for any pool and any number of
\* requests (the queries addUserToTeam makes inside its transaction).
THEOREM PoolKeepsConnections ==
  ASSUME PoolAssumption
  PROVE  Pool!Spec => []Pool!PoolSound
BY PoolInit, PoolStep, PoolInvHolds, PTL DEF Pool!Spec

-----------------------------------------------------------------------------
(* The devices of a team.                                                  *)

CONSTANTS Devices, Suffixes, Pseudonymous, Rows
VARIABLES row, member, accts, make, cleanup

Devs == INSTANCE TeamDevices

DevicesAssumption == Devs!NoDevice \notin Devices /\ MaxFaults \in Nat

MakeType == [pc : Devs!Steps, suffix : Devs!Names, acct : BOOLEAN]
WebType == [pc : {"idle", "update", "remove", "account", "row", "drop"},
            dev : Devices \cup {Devs!NoDevice}, suffix : Devs!Names, acct : BOOLEAN]
RowType == [kind : {"none", "claim", "device"}, suffix : Devs!Names]
MarksType == [cut : SUBSET Devices, raced : SUBSET Devices, crossed : SUBSET SUBSET Devices]

DevicesTyped ==
  /\ team \in BOOLEAN /\ row \in [Devices -> RowType]
  /\ member \subseteq Devices /\ accts \subseteq Devices /\ cleanup \subseteq Devices
  /\ make \in [Devices -> MakeType] /\ web \in [Sessions -> WebType]
  /\ faults \in 0 .. MaxFaults /\ past \in MarksType

\* How far the request that makes a device has come, and what there is by then.
Making(d) ==
  LET m == make[d] IN
  /\ m.pc \in {"unasked", "claim"} => row[d] = Devs!NoRow
  /\ m.pc \in {"unasked", "claim", "account"} => d \notin accts /\ ~m.acct
  /\ m.pc \in {"account", "check", "adopt", "unclaim"} => row[d].kind = "claim"
  /\ m.pc \in {"check", "adopt"} => d \in accts /\ m.acct
  /\ m.pc = "unclaim" => IF m.acct THEN d \in accts ELSE d \notin accts \/ d \in past.cut
  /\ m.pc \in {"unaccount", "enqueue"} => row[d] = Devs!NoRow \/ d \in past.cut
  /\ m.pc # "done" => d \notin member /\ d \notin cleanup

\* Another request about a device is under way only once it was made; a deletion
\* has taken the membership before it takes the account and then the row.
Serving(s) ==
  /\ IF web[s].pc \in {"idle", "drop"} THEN web[s].dev = Devs!NoDevice
     ELSE web[s].dev \in Devices /\ make[web[s].dev].pc = "done"
  /\ web[s].pc = "remove" => web[s].acct
  /\ web[s].pc \in {"account", "row"} => web[s].dev \notin member
  /\ web[s].pc = "row" => web[s].dev \notin accts \/ web[s].dev \in past.cut

\* A device in the team is whole; one that left it is gone, is being deleted, was
\* cut short, or lost its team.
Made(d) ==
  /\ d \in member => row[d].kind = "device" /\ d \in accts /\ d \notin cleanup
  /\ d \in cleanup => row[d] = Devs!NoRow \/ d \in past.cut
  /\ make[d].pc = "done" /\ d \notin member =>
       \/ Devs!Nothing(d) \/ d \in past.cut \/ d \in cleanup
       \/ d \in past.raced /\ row[d].kind = "device" /\ d \in accts
       \/ \E s \in Sessions : web[s].dev = d /\ web[s].pc \in {"account", "row"}

\* The device has the suffix in the team, or has passed the check and will have it.
Claims(d, x) ==
  \/ (d \in member \/ make[d].pc = "adopt") /\ row[d].suffix = x
  \/ \E s \in Sessions : web[s].pc = "update" /\ web[s].dev = d /\ web[s].suffix = x

ClaimsApart ==
  \A d, e \in Devices : d # e => \A x \in Suffixes :
    Claims(d, x) /\ Claims(e, x) => x = Devs!NoSuffix \/ {d, e} \in past.crossed

DevicesInv ==
  /\ DevicesTyped
  /\ \A d \in Devices : Making(d) /\ Made(d)
  /\ \A s \in Sessions : Serving(s)
  /\ ClaimsApart

\* What the steps are made of: where the request of d goes,
LEMMA Going ==
  ASSUME make \in [Devices -> MakeType], NEW d \in Devices, NEW pc \in Devs!Steps, Devs!Goes(d, pc)
  PROVE  /\ make' \in [Devices -> MakeType]
         /\ make'[d].pc = pc /\ make'[d].acct = make[d].acct /\ make'[d].suffix = make[d].suffix
         /\ \A e \in Devices : e # d => make'[e] = make[e]
BY DEF Devs!Goes, MakeType

\* what is noted,
LEMMA Noting ==
  ASSUME past \in MarksType, NEW d \in Devices
  PROVE  /\ Devs!Cut(d) =>
              /\ past' \in MarksType /\ past'.cut = past.cut \cup {d}
              /\ past'.raced = past.raced /\ past'.crossed = past.crossed
         /\ \A x : Devs!Crossed(x, d) =>
              /\ past' \in MarksType /\ past'.cut = past.cut /\ past'.raced = past.raced
              /\ past'.crossed = past.crossed \cup {{d, e} : e \in Devs!Committing(x) \ {d}}
<1>1. Devs!Cut(d) =>
              /\ past' \in MarksType /\ past'.cut = past.cut \cup {d}
              /\ past'.raced = past.raced /\ past'.crossed = past.crossed
  BY DEF Devs!Cut, MarksType
<1>2. ASSUME NEW x, Devs!Crossed(x, d)
      PROVE  /\ past' \in MarksType /\ past'.cut = past.cut /\ past'.raced = past.raced
             /\ past'.crossed = past.crossed \cup {{d, e} : e \in Devs!Committing(x) \ {d}}
  <2>1. Devs!Committing(x) \subseteq Devices
    BY DEF Devs!Committing
  <2>2. {{d, e} : e \in Devs!Committing(x) \ {d}} \subseteq SUBSET Devices
    BY <2>1
  <2> QED
    BY <1>2, <2>2 DEF Devs!Crossed, MarksType
<1> QED
  BY <1>1, <1>2

LEMMA Failing ==
  ASSUME MaxFaults \in Nat, faults \in 0 .. MaxFaults, Devs!Fault
  PROVE  faults' \in 0 .. MaxFaults
BY DEF Devs!Fault

\* and where a session goes.
LEMMA SessionGoes ==
  ASSUME web \in [Sessions -> WebType], NEW s \in Sessions
  PROVE  /\ Devs!Ends(s) =>
              /\ web' \in [Sessions -> WebType] /\ \A r \in Sessions : r # s => web'[r] = web[r]
              /\ web'[s].pc = "idle" /\ web'[s].dev = Devs!NoDevice
         /\ \A pc \in {"account", "row"} : Devs!Proceeds(s, pc) =>
              /\ web' \in [Sessions -> WebType] /\ \A r \in Sessions : r # s => web'[r] = web[r]
              /\ web'[s].pc = pc /\ web'[s].dev = web[s].dev
         /\ \A pc \in {"update", "remove", "drop"}, d \in Devices \cup {Devs!NoDevice}, x \in Devs!Names :
              Devs!Begins(s, pc, d, x) =>
              /\ web' \in [Sessions -> WebType] /\ \A r \in Sessions : r # s => web'[r] = web[r]
              /\ web[s].pc = "idle" /\ web[s].dev = Devs!NoDevice
              /\ web'[s].pc = pc /\ web'[s].dev = d /\ web'[s].suffix = x
              /\ web'[s].acct = (d \in member /\ row[d].kind = "device")
<1>1. Devs!Ends(s) =>
              /\ web' \in [Sessions -> WebType] /\ \A r \in Sessions : r # s => web'[r] = web[r]
              /\ web'[s].pc = "idle" /\ web'[s].dev = Devs!NoDevice
  BY DEF Devs!Ends, Devs!Idle, WebType, Devs!Names
<1>2. ASSUME NEW pc \in {"account", "row"}, Devs!Proceeds(s, pc)
      PROVE  /\ web' \in [Sessions -> WebType] /\ \A r \in Sessions : r # s => web'[r] = web[r]
             /\ web'[s].pc = pc /\ web'[s].dev = web[s].dev
  BY <1>2 DEF Devs!Proceeds, WebType
<1>3. ASSUME NEW pc \in {"update", "remove", "drop"}, NEW d \in Devices \cup {Devs!NoDevice}, NEW x \in Devs!Names,
             Devs!Begins(s, pc, d, x)
      PROVE  /\ web' \in [Sessions -> WebType] /\ \A r \in Sessions : r # s => web'[r] = web[r]
             /\ web[s].pc = "idle" /\ web[s].dev = Devs!NoDevice
             /\ web'[s].pc = pc /\ web'[s].dev = d /\ web'[s].suffix = x
             /\ web'[s].acct = (d \in member /\ row[d].kind = "device")
  BY <1>3 DEF Devs!Begins, Devs!Idle, WebType
<1> QED
  BY <1>1, <1>2, <1>3

\* Nothing but what concerns d changes.
About(d) ==
  /\ \A e \in Devices : e # d =>
       /\ make'[e] = make[e] /\ row'[e] = row[e] /\ (e \in member' <=> e \in member)
       /\ (e \in accts' <=> e \in accts) /\ (e \in cleanup' <=> e \in cleanup)
  /\ \A s \in Sessions : web'[s] = web[s]
       \/ ({web[s].dev, web'[s].dev} \subseteq {d, Devs!NoDevice} /\ Serving(s)')
  /\ make[d].pc # "done"
       \/ (make'[d] = make[d] /\ (d \in member' => d \in member) /\ (d \in accts' => d \in accts))
  /\ past.cut \subseteq past'.cut /\ past.crossed \subseteq past'.crossed /\ past'.raced = past.raced

\* What d comes to claim is apart from what others do.
StaysApart(d) ==
  \A x \in Suffixes : Claims(d, x)' =>
    \/ Claims(d, x) \/ x = Devs!NoSuffix
    \/ \A e \in Devices : e # d /\ Claims(e, x) => {d, e} \in past'.crossed

LEMMA OneDevice ==
  ASSUME DevicesAssumption, DevicesInv, NEW d \in Devices, About(d), StaysApart(d), DevicesTyped', Making(d)', Made(d)'
  PROVE  DevicesInv'
<1>1. ASSUME NEW e \in Devices, e # d PROVE Making(e)'
  <2>1. Making(e)
    BY DEF DevicesInv
  <2> QED
    BY <1>1, <2>1 DEF About, Making
<1>2. ASSUME NEW e \in Devices, e # d PROVE Made(e)'
  <2>1. Made(e)
    BY DEF DevicesInv
  <2>2. ASSUME NEW s \in Sessions, web[s].dev = e PROVE web'[s] = web[s]
    BY <1>2, <2>2 DEF About, DevicesAssumption
  <2> QED
    BY <1>2, <2>1, <2>2 DEF About, Made, Devs!Nothing
<1>3. ASSUME NEW s \in Sessions PROVE Serving(s)'
  <2>1. Serving(s)
    BY DEF DevicesInv
  <2> QED
    BY <2>1 DEF About, Serving
<1>4. ASSUME NEW e \in Devices, e # d, NEW x \in Suffixes, Claims(e, x)' PROVE Claims(e, x)
  BY <1>4 DEF About, Claims, DevicesAssumption
<1>5. ClaimsApart'
  <2> SUFFICES ASSUME NEW e \in Devices, NEW f \in Devices, e # f, NEW x \in Suffixes, Claims(e, x)', Claims(f, x)'
               PROVE  x = Devs!NoSuffix \/ {e, f} \in past'.crossed
    BY DEF ClaimsApart
  <2>1. CASE e # d /\ f # d
    BY <1>4, <2>1 DEF DevicesInv, ClaimsApart, About
  <2>2. CASE e = d
    BY <1>4, <2>2 DEF DevicesInv, ClaimsApart, About, StaysApart
  <2>3. CASE f = d
    <3>1. {e, f} = {f, e}
      OBVIOUS
    <3> QED
      BY <1>4, <2>3, <3>1 DEF DevicesInv, ClaimsApart, About, StaysApart
  <2> QED
    BY <2>1, <2>2, <2>3
<1> QED
  BY <1>1, <1>2, <1>3, <1>5 DEF DevicesInv

LEMMA RequestMakes ==
  ASSUME DevicesAssumption, DevicesInv, NEW d \in Devices,
         \/ \E x \in Devs!Names : Devs!Ask(d, x)
         \/ Devs!Claim(d) \/ Devs!CreateUser(d) \/ Devs!CheckSuffix(d) \/ Devs!Adopt(d)
  PROVE  DevicesInv'
<1> USE DEF DevicesTyped
<1>0. DevicesTyped /\ Making(d) /\ Made(d)
  BY DEF DevicesInv
<1>a. \A s \in Sessions : web[s].pc = "update" => web[s].dev # d \/ make[d].pc = "done"
  BY DEF DevicesInv, Serving
<1>1. ASSUME NEW x \in Devs!Names, Devs!Ask(d, x) PROVE DevicesInv'
  <2>1. /\ make' \in [Devices -> MakeType] /\ make'[d].pc = "claim" /\ ~make'[d].acct
        /\ \A e \in Devices : e # d => make'[e] = make[e]
    BY <1>0, <1>1 DEF Devs!Ask, MakeType, Devs!Steps
  <2>2. UNCHANGED <<team, row, member, accts, web, cleanup, faults, past>> /\ make[d].pc = "unasked"
    BY <1>1 DEF Devs!Ask, Devs!At
  <2>3. DevicesTyped' /\ Making(d)' /\ Made(d)'
    BY <1>0, <2>1, <2>2 DEF Making, Made, Devs!NoRow
  <2>4. About(d) /\ StaysApart(d)
    BY <2>1, <2>2 DEF About, StaysApart, Claims
  <2> QED
    BY <2>3, <2>4, OneDevice
<1>2. ASSUME Devs!Claim(d) PROVE DevicesInv'
  <2>1. /\ make' \in [Devices -> MakeType] /\ make'[d].pc = "account" /\ make'[d].acct = make[d].acct
        /\ \A e \in Devices : e # d => make'[e] = make[e]
    BY <1>0, <1>2, Going DEF Devs!Claim, Devs!Steps
  <2>2. /\ row' \in [Devices -> RowType] /\ row'[d].kind = "claim" /\ \A e \in Devices : e # d => row'[e] = row[e]
        /\ UNCHANGED <<team, member, accts, web, cleanup, faults, past>> /\ make[d].pc = "claim"
    BY <1>0, <1>2 DEF Devs!Claim, Devs!At, MakeType, RowType
  <2>3. DevicesTyped' /\ Making(d)' /\ Made(d)'
    BY <1>0, <2>1, <2>2 DEF Making, Made, Devs!NoRow
  <2>4. About(d) /\ StaysApart(d)
    BY <1>0, <2>1, <2>2 DEF About, StaysApart, Claims, Making
  <2> QED
    BY <2>3, <2>4, OneDevice
<1>3. ASSUME Devs!CreateUser(d) PROVE DevicesInv'
  <2>1. PICK pc \in {"check", "unclaim"} :
        /\ make' \in [Devices -> MakeType] /\ make'[d].pc = pc /\ make'[d].acct = (pc = "check")
        /\ \A e \in Devices : e # d => make'[e] = make[e]
    BY <1>0, <1>3, Going DEF Devs!CreateUser, Devs!Steps, Devs!At, MakeType, Making
  <2>2. /\ UNCHANGED <<team, row, member, web, cleanup>> /\ make[d].pc = "account"
        /\ accts' \in {accts, accts \cup {d}} /\ (pc = "check" => d \in accts')
        /\ past' \in MarksType /\ past.cut \subseteq past'.cut /\ past'.crossed = past.crossed /\ past'.raced = past.raced
        /\ (pc = "unclaim" => d \notin accts' \/ d \in past'.cut)
        /\ faults' \in 0 .. MaxFaults
    <3>1. CASE d \in accts' /\ make'[d].pc = "check" /\ UNCHANGED <<faults, past>>
      BY <1>0, <1>3, <2>1, <3>1 DEF Devs!CreateUser, Devs!At
    <3>2. CASE Devs!Fault /\ Devs!Goes(d, "unclaim") /\ (Devs!Cut(d) \/ UNCHANGED <<accts, past>>)
      <4>1. pc = "unclaim"
        BY <1>0, <2>1, <3>2, Going DEF Devs!Steps
      <4>2. faults' \in 0 .. MaxFaults
        BY <1>0, <3>2, Failing DEF DevicesAssumption
      <4> QED
        BY <1>0, <1>3, <3>2, <4>1, <4>2, Noting DEF Devs!CreateUser, Devs!At, Making
    <3> QED
      BY <1>0, <1>3, <3>1, <3>2 DEF Devs!CreateUser, MakeType
  <2>3. DevicesTyped' /\ Making(d)' /\ Made(d)'
    BY <1>0, <2>1, <2>2 DEF Making, Made
  <2>4. About(d) /\ StaysApart(d)
    BY <1>0, <2>1, <2>2 DEF About, StaysApart, Claims
  <2> QED
    BY <2>3, <2>4, OneDevice
<1>4. ASSUME Devs!CheckSuffix(d) PROVE DevicesInv'
  <2>1. PICK pc \in {"adopt", "unclaim"} :
        /\ make' \in [Devices -> MakeType] /\ make'[d].pc = pc /\ make'[d].acct = make[d].acct
        /\ \A e \in Devices : e # d => make'[e] = make[e]
        /\ IF pc = "adopt" THEN Devs!Unique(row[d].suffix, d) /\ Devs!Crossed(row[d].suffix, d)
                           ELSE UNCHANGED past
    BY <1>0, <1>4, Going DEF Devs!CheckSuffix, Devs!Steps
  <2>2. /\ UNCHANGED <<team, row, member, accts, web, cleanup, faults>> /\ make[d].pc = "check"
        /\ past' \in MarksType /\ past'.cut = past.cut /\ past.crossed \subseteq past'.crossed /\ past'.raced = past.raced
    BY <1>0, <1>4, <2>1, Noting DEF Devs!CheckSuffix, Devs!At
  <2>3. DevicesTyped' /\ Making(d)' /\ Made(d)'
    BY <1>0, <2>1, <2>2 DEF Making, Made
  <2>4. About(d)
    BY <2>1, <2>2 DEF About
  <2>5. StaysApart(d)
    <3> SUFFICES ASSUME pc = "adopt", NEW x \in Suffixes, x = row[d].suffix, x # Devs!NoSuffix,
                        NEW e \in Devices, e # d, Claims(e, x)
                 PROVE  {d, e} \in past'.crossed
      BY <2>1, <2>2 DEF StaysApart, Claims
    <3>1. e \in Devs!Committing(x)
      BY <2>1 DEF Claims, Devs!Committing, Devs!Unique, Devs!At
    <3> QED
      BY <1>0, <2>1, <3>1, Noting
  <2> QED
    BY <2>3, <2>4, <2>5, OneDevice
<1>5. ASSUME Devs!Adopt(d) PROVE DevicesInv'
  <2>1. PICK pc \in {"done", "unclaim"} :
        /\ Devs!Goes(d, pc) /\ past' \in MarksType
        /\ past.cut \subseteq past'.cut /\ past'.crossed = past.crossed /\ past'.raced = past.raced
        /\ \/ Devs!Adopted(d) /\ pc = "done"
           \/ UNCHANGED <<row, member>> /\ (pc = "unclaim" \/ d \in past'.cut)
    BY <1>0, <1>5, Noting DEF Devs!Adopt
  <2>2. /\ make' \in [Devices -> MakeType] /\ make'[d].pc = pc /\ make'[d].acct = make[d].acct
        /\ \A e \in Devices : e # d => make'[e] = make[e]
    BY <1>0, <2>1, Going DEF Devs!Steps
  <2>3. UNCHANGED <<team, accts, web, cleanup>> /\ make[d].pc = "adopt" /\ faults' \in 0 .. MaxFaults
    BY <1>0, <1>5, Failing DEF Devs!Adopt, Devs!At, DevicesAssumption
  <2>4. /\ row' \in [Devices -> RowType] /\ row'[d].suffix = row[d].suffix
        /\ \A e \in Devices : e # d => row'[e] = row[e] /\ (e \in member' <=> e \in member)
        /\ \/ row'[d].kind = "device" /\ d \in member' /\ pc = "done"
           \/ UNCHANGED row /\ (d \in member' <=> d \in member) /\ (pc = "unclaim" \/ d \in past'.cut)
        /\ member' \subseteq Devices
    BY <1>0, <2>1 DEF Devs!Adopted, RowType
  <2>5. DevicesTyped' /\ Making(d)' /\ Made(d)'
    BY <1>0, <2>1, <2>2, <2>3, <2>4 DEF Making, Made
  <2>6. About(d) /\ StaysApart(d)
    BY <1>0, <2>1, <2>2, <2>3, <2>4 DEF About, StaysApart, Claims
  <2> QED
    BY <2>5, <2>6, OneDevice
<1> QED
  BY <1>1, <1>2, <1>3, <1>4, <1>5

LEMMA RequestUndoes ==
  ASSUME DevicesAssumption, DevicesInv, NEW d \in Devices,
         Devs!Unclaim(d) \/ Devs!DeleteUser(d) \/ Devs!Enqueue(d) \/ Devs!Dies(d)
  PROVE  DevicesInv'
<1> USE DEF DevicesTyped
<1>0. DevicesTyped /\ Making(d) /\ Made(d)
  BY DEF DevicesInv
<1>1. PICK pc \in Devs!Steps : Devs!Goes(d, pc)
  BY DEF Devs!Unclaim, Devs!DeleteUser, Devs!Enqueue, Devs!Dies, Devs!Steps
<1>2. /\ make' \in [Devices -> MakeType] /\ make'[d].pc = pc /\ make'[d].acct = make[d].acct
      /\ \A e \in Devices : e # d => make'[e] = make[e]
  BY <1>0, <1>1, Going
<1>3. /\ UNCHANGED <<team, member, web>> /\ make[d].pc \notin {"unasked", "done"}
      /\ UNCHANGED faults \/ Devs!Fault
      /\ UNCHANGED past \/ Devs!Cut(d)
      /\ UNCHANGED row \/ row' = [row EXCEPT ![d] = IF @.kind = "claim" THEN Devs!NoRow ELSE @]
      /\ accts' \in {accts, accts \ {d}} /\ cleanup' \in {cleanup, cleanup \cup {d}}
  BY DEF Devs!Unclaim, Devs!DeleteUser, Devs!Enqueue, Devs!Dies, Devs!At
<1>4. faults' \in 0 .. MaxFaults
  BY <1>0, <1>3, Failing DEF DevicesAssumption
<1>5. /\ past' \in MarksType /\ past.cut \subseteq past'.cut /\ past'.crossed = past.crossed /\ past'.raced = past.raced
      /\ Devs!Cut(d) => d \in past'.cut
  BY <1>0, <1>3, Noting
<1>6. /\ row' \in [Devices -> RowType] /\ \A e \in Devices : e # d => row'[e] = row[e]
      /\ row'[d] = row[d] \/ (row[d].kind = "claim" /\ row'[d] = Devs!NoRow)
  BY <1>0, <1>3 DEF Devs!NoRow, RowType, Devs!Names
<1>7. Making(d)' /\ Made(d)'
  <2>1. ASSUME Devs!Unclaim(d) PROVE Making(d)' /\ Made(d)'
    <3>1. pc = (IF make[d].acct THEN "unaccount" ELSE "done")
      BY <1>0, <1>2, <2>1, Going DEF Devs!Unclaim, Devs!Steps
    <3>2. row'[d] = Devs!NoRow \/ d \in past'.cut
      BY <1>0, <1>5, <2>1 DEF Devs!Unclaim, Devs!At, Making
    <3>3. UNCHANGED <<accts, cleanup, member>> /\ make[d].pc = "unclaim"
      BY <2>1 DEF Devs!Unclaim, Devs!At
    <3> QED
      BY <1>0, <1>2, <1>5, <3>1, <3>2, <3>3 DEF Making, Made, Devs!Nothing, MakeType
  <2>2. ASSUME Devs!DeleteUser(d) PROVE Making(d)' /\ Made(d)'
    <3>1. pc = "enqueue" \/ (pc = "done" /\ d \notin accts')
      BY <1>0, <1>2, <2>2, Going DEF Devs!DeleteUser, Devs!Steps
    <3>2. UNCHANGED <<row, cleanup, past, member>> /\ make[d].pc = "unaccount"
      BY <2>2 DEF Devs!DeleteUser, Devs!At
    <3> QED
      BY <1>0, <1>2, <3>1, <3>2 DEF Making, Made, Devs!Nothing
  <2>3. ASSUME Devs!Enqueue(d) PROVE Making(d)' /\ Made(d)'
    <3>1. pc = "done"
      BY <1>0, <1>2, <2>3, Going DEF Devs!Enqueue, Devs!Steps
    <3>2. /\ UNCHANGED <<row, accts, member>> /\ make[d].pc = "enqueue"
          /\ d \in cleanup' \/ (d \in past'.cut /\ UNCHANGED cleanup)
      BY <1>5, <2>3 DEF Devs!Enqueue, Devs!At
    <3> QED
      BY <1>0, <1>2, <1>5, <3>1, <3>2 DEF Making, Made
  <2>4. ASSUME Devs!Dies(d) PROVE Making(d)' /\ Made(d)'
    <3>1. pc = "done"
      BY <1>0, <1>2, <2>4, Going DEF Devs!Dies, Devs!Steps
    <3>2. UNCHANGED <<row, accts, member, cleanup>> /\ d \in past'.cut
      BY <1>5, <2>4 DEF Devs!Dies
    <3> QED
      BY <1>0, <1>2, <1>3, <3>1, <3>2 DEF Making, Made
  <2> QED
    BY <2>1, <2>2, <2>3, <2>4
<1>8. About(d)
  BY <1>2, <1>3, <1>5, <1>6 DEF About
<1>9. StaysApart(d)
  <2>1. make'[d].pc # "adopt"
    <3>1. \E p \in {"unaccount", "done", "enqueue"} : Devs!Goes(d, p)
      BY DEF Devs!Unclaim, Devs!DeleteUser, Devs!Enqueue, Devs!Dies
    <3> QED
      BY <1>0, <3>1, Going DEF Devs!Steps
  <2> QED
    BY <1>0, <1>3, <2>1 DEF StaysApart, Claims, Making
<1>10. DevicesTyped'
  BY <1>0, <1>2, <1>3, <1>4, <1>5, <1>6
<1> QED
  BY <1>7, <1>8, <1>9, <1>10, OneDevice

LEMMA AccountIsCleaned ==
  ASSUME DevicesAssumption, DevicesInv, NEW d \in Devices, Devs!Cleanup(d)
  PROVE  DevicesInv'
<1> USE DEF DevicesTyped
<1>0. DevicesTyped /\ Making(d) /\ Made(d) /\ d \in cleanup /\ make[d].pc = "done"
  BY DEF DevicesInv, Making, Devs!Cleanup
<1>1. /\ UNCHANGED <<team, row, member, make, web>> /\ cleanup' = cleanup \ {d}
      /\ UNCHANGED faults \/ Devs!Fault
      /\ (accts' = accts \ {d} /\ UNCHANGED past) \/ (UNCHANGED accts /\ Devs!Cut(d))
  BY DEF Devs!Cleanup
<1>2. faults' \in 0 .. MaxFaults
  BY <1>0, <1>1, Failing DEF DevicesAssumption
<1>3. /\ past' \in MarksType /\ past.cut \subseteq past'.cut /\ past'.crossed = past.crossed /\ past'.raced = past.raced
      /\ Devs!Cut(d) => d \in past'.cut
  BY <1>0, <1>1, Noting
<1>4. Making(d)' /\ Made(d)'
  BY <1>0, <1>1, <1>3 DEF Making, Made, Devs!Nothing
<1>5. About(d) /\ StaysApart(d)
  BY <1>0, <1>1, <1>3 DEF About, StaysApart, Claims
<1> QED
  BY <1>0, <1>1, <1>2, <1>3, <1>4, <1>5, OneDevice

LEMMA DeviceIsEdited ==
  ASSUME DevicesAssumption, DevicesInv, NEW s \in Sessions,
         \/ Devs!Update(s)
         \/ \E d \in Devices : Devs!AskDelete(s, d) \/ \E x \in Devs!Names : Devs!Edit(s, d, x)
  PROVE  DevicesInv'
<1> USE DEF DevicesTyped
<1>1. ASSUME NEW d \in Devices, Devs!AskDelete(s, d) PROVE DevicesInv'
  <2>0. DevicesTyped /\ Making(d) /\ Made(d) /\ d \in member /\ make[d].pc = "done" /\ row[d].kind = "device"
    BY <1>1 DEF DevicesInv, Making, Made, Devs!AskDelete
  <2>1. /\ web' \in [Sessions -> WebType] /\ \A r \in Sessions : r # s => web'[r] = web[r]
        /\ web[s].pc = "idle" /\ web[s].dev = Devs!NoDevice
        /\ web'[s].pc = "remove" /\ web'[s].dev = d /\ web'[s].acct
    BY <1>1, <2>0, SessionGoes DEF Devs!AskDelete, Devs!Names
  <2>2. UNCHANGED <<team, row, member, accts, make, cleanup, faults, past>>
    BY <1>1 DEF Devs!AskDelete
  <2>3. DevicesTyped' /\ Making(d)' /\ Made(d)'
    BY <2>0, <2>1, <2>2 DEF Making, Made
  <2>4. About(d) /\ StaysApart(d)
    BY <2>0, <2>1, <2>2 DEF About, StaysApart, Claims, Serving
  <2> QED
    BY <2>3, <2>4, OneDevice
<1>2. ASSUME NEW d \in Devices, NEW x \in Devs!Names, Devs!Edit(s, d, x) PROVE DevicesInv'
  <2>0. DevicesTyped /\ Making(d) /\ Made(d) /\ d \in member /\ make[d].pc = "done"
    BY <1>2 DEF DevicesInv, Making, Made, Devs!Edit
  <2>1. /\ web' \in [Sessions -> WebType] /\ \A r \in Sessions : r # s => web'[r] = web[r]
        /\ web[s].pc = "idle" /\ web[s].dev = Devs!NoDevice
        /\ web'[s].pc = "update" /\ web'[s].dev = d /\ web'[s].suffix = x
    BY <1>2, <2>0, SessionGoes DEF Devs!Edit
  <2>2. UNCHANGED <<team, row, member, accts, make, cleanup, faults>> /\ Devs!Crossed(x, d) /\ Devs!Unique(x, d)
    BY <1>2 DEF Devs!Edit
  <2>3. /\ past' \in MarksType /\ past'.cut = past.cut /\ past.crossed \subseteq past'.crossed /\ past'.raced = past.raced
        /\ past'.crossed = past.crossed \cup {{d, e} : e \in Devs!Committing(x) \ {d}}
    BY <2>0, <2>2, Noting
  <2>4. DevicesTyped' /\ Making(d)' /\ Made(d)'
    BY <2>0, <2>1, <2>2, <2>3 DEF Making, Made
  <2>5. About(d)
    BY <2>0, <2>1, <2>2, <2>3 DEF About, Serving
  <2>6. StaysApart(d)
    <3> SUFFICES ASSUME x # Devs!NoSuffix, NEW e \in Devices, e # d, Claims(e, x)
                 PROVE  {d, e} \in past'.crossed
      BY <2>1, <2>2 DEF StaysApart, Claims
    <3>1. e \in Devs!Committing(x)
      BY <2>2 DEF Claims, Devs!Committing, Devs!Unique, Devs!At
    <3> QED
      BY <2>3, <3>1
  <2> QED
    BY <2>4, <2>5, <2>6, OneDevice
<1>3. ASSUME Devs!Update(s) PROVE DevicesInv'
  <2>0. DevicesTyped /\ Serving(s) /\ web[s].pc = "update"
    BY <1>3 DEF DevicesInv, Devs!Update, Devs!On
  <2>1. PICK d \in Devices : d = web[s].dev /\ make[d].pc = "done" /\ Made(d)
    BY <2>0 DEF Serving, DevicesInv
  <2>2. /\ web' \in [Sessions -> WebType] /\ \A r \in Sessions : r # s => web'[r] = web[r]
        /\ web'[s].pc = "idle" /\ web'[s].dev = Devs!NoDevice
    BY <1>3, <2>0, SessionGoes DEF Devs!Update
  <2>3. UNCHANGED <<team, member, accts, make, cleanup, faults, past>>
    BY <1>3 DEF Devs!Update
  <2>4. /\ row' \in [Devices -> RowType] /\ \A e \in Devices : e # d => row'[e] = row[e]
        /\ row'[d] = row[d] \/ (row[d].kind # "none" /\ row'[d].kind = row[d].kind /\ row'[d].suffix = web[s].suffix)
    BY <1>3, <2>0, <2>1 DEF Devs!Update, RowType, WebType
  <2>5. DevicesTyped' /\ Making(d)' /\ Made(d)'
    BY <2>0, <2>1, <2>2, <2>3, <2>4 DEF Making, Made, Devs!Nothing, Devs!NoRow
  <2>6. About(d) /\ StaysApart(d)
    BY <2>0, <2>1, <2>2, <2>3, <2>4 DEF About, StaysApart, Claims, Serving
  <2> QED
    BY <2>5, <2>6, OneDevice
<1> QED
  BY <1>1, <1>2, <1>3

LEMMA DeviceIsDeleted ==
  ASSUME DevicesAssumption, DevicesInv, NEW s \in Sessions,
         Devs!Remove(s) \/ Devs!DeleteAccount(s) \/ Devs!DeleteRow(s)
  PROVE  DevicesInv'
<1> USE DEF DevicesTyped
<1>0. DevicesTyped /\ Serving(s) /\ web[s].pc \in {"remove", "account", "row"}
  BY DEF DevicesInv, Devs!Remove, Devs!DeleteAccount, Devs!DeleteRow, Devs!On
<1>1. PICK d \in Devices : d = web[s].dev /\ make[d].pc = "done" /\ Made(d) /\ Making(d)
  BY <1>0 DEF Serving, DevicesInv
<1>2. ASSUME Devs!Remove(s) PROVE DevicesInv'
  <2>1. /\ web' \in [Sessions -> WebType] /\ \A r \in Sessions : r # s => web'[r] = web[r]
        /\ \/ web'[s].pc = "account" /\ web'[s].dev = d /\ member' = member \ {d} /\ UNCHANGED faults
           \/ web'[s].pc = "idle" /\ web'[s].dev = Devs!NoDevice /\ UNCHANGED member /\ Devs!Fault
    BY <1>0, <1>1, <1>2, SessionGoes DEF Devs!Remove, Devs!On, Serving
  <2>2. UNCHANGED <<team, row, accts, make, cleanup, past>> /\ faults' \in 0 .. MaxFaults /\ web[s].pc = "remove"
    BY <1>0, <1>2, <2>1, Failing DEF Devs!Remove, Devs!On, DevicesAssumption
  <2>3. DevicesTyped' /\ Making(d)'
    BY <1>0, <1>1, <2>1, <2>2 DEF Making
  <2>4. Made(d)'
    BY <1>0, <1>1, <2>1, <2>2 DEF Made, Devs!Nothing
  <2>5. About(d) /\ StaysApart(d)
    BY <1>0, <1>1, <2>1, <2>2 DEF About, StaysApart, Claims, Serving
  <2> QED
    BY <2>3, <2>4, <2>5, OneDevice
<1>3. ASSUME Devs!DeleteAccount(s) PROVE DevicesInv'
  <2>1. /\ web' \in [Sessions -> WebType] /\ \A r \in Sessions : r # s => web'[r] = web[r]
        /\ web'[s].pc = "row" /\ web'[s].dev = d
    BY <1>0, <1>1, <1>3, SessionGoes DEF Devs!DeleteAccount
  <2>2. /\ UNCHANGED <<team, row, member, make, cleanup>> /\ web[s].pc = "account"
        /\ UNCHANGED faults \/ Devs!Fault
        /\ (accts' = accts \ {d} /\ UNCHANGED past) \/ (UNCHANGED accts /\ Devs!Cut(d))
    BY <1>1, <1>3 DEF Devs!DeleteAccount, Devs!On
  <2>3. faults' \in 0 .. MaxFaults
    BY <1>0, <2>2, Failing DEF DevicesAssumption
  <2>4. /\ past' \in MarksType /\ past.cut \subseteq past'.cut /\ past'.crossed = past.crossed /\ past'.raced = past.raced
        /\ Devs!Cut(d) => d \in past'.cut
    BY <1>0, <2>2, Noting
  <2>5. DevicesTyped' /\ Making(d)'
    BY <1>0, <1>1, <2>1, <2>2, <2>3, <2>4 DEF Making
  <2>6. Made(d)'
    BY <1>0, <1>1, <2>1, <2>2, <2>4 DEF Made, Serving
  <2>7. About(d) /\ StaysApart(d)
    BY <1>0, <1>1, <2>1, <2>2, <2>4 DEF About, StaysApart, Claims, Serving
  <2> QED
    BY <2>5, <2>6, <2>7, OneDevice
<1>4. ASSUME Devs!DeleteRow(s) PROVE DevicesInv'
  <2>1. /\ web' \in [Sessions -> WebType] /\ \A r \in Sessions : r # s => web'[r] = web[r]
        /\ web'[s].pc = "idle" /\ web'[s].dev = Devs!NoDevice
    BY <1>0, <1>1, <1>4, SessionGoes DEF Devs!DeleteRow
  <2>2. /\ UNCHANGED <<team, accts, make, cleanup>> /\ web[s].pc = "row"
        /\ UNCHANGED faults \/ Devs!Fault
        /\ \/ row' = [row EXCEPT ![d] = Devs!NoRow] /\ member' = member \ {d} /\ UNCHANGED past
           \/ UNCHANGED <<row, member>> /\ Devs!Cut(d)
    BY <1>1, <1>4 DEF Devs!DeleteRow, Devs!On
  <2>3. faults' \in 0 .. MaxFaults
    BY <1>0, <2>2, Failing DEF DevicesAssumption
  <2>4. /\ past' \in MarksType /\ past.cut \subseteq past'.cut /\ past'.crossed = past.crossed /\ past'.raced = past.raced
        /\ Devs!Cut(d) => d \in past'.cut
    BY <1>0, <2>2, Noting
  <2>5. /\ row' \in [Devices -> RowType] /\ \A e \in Devices : e # d => row'[e] = row[e]
        /\ row'[d] = Devs!NoRow \/ d \in past'.cut
        /\ row'[d] = row[d] \/ row'[d] = Devs!NoRow
    BY <1>0, <2>2, <2>4 DEF RowType, Devs!NoRow, Devs!Names
  <2>6. DevicesTyped' /\ Making(d)'
    BY <1>0, <1>1, <2>1, <2>2, <2>3, <2>4, <2>5 DEF Making
  <2>7. Made(d)'
    BY <1>0, <1>1, <2>1, <2>2, <2>4, <2>5 DEF Made, Serving, Devs!Nothing
  <2>8. About(d) /\ StaysApart(d)
    BY <1>0, <1>1, <2>1, <2>2, <2>4, <2>5 DEF About, StaysApart, Claims, Serving, Devs!NoRow
  <2> QED
    BY <2>6, <2>7, <2>8, OneDevice
<1> QED
  BY <1>2, <1>3, <1>4

LEMMA DeletionStops ==
  ASSUME DevicesAssumption, DevicesInv, NEW s \in Sessions, Devs!Stops(s)
  PROVE  DevicesInv'
<1> USE DEF DevicesTyped
<1>0. DevicesTyped /\ Serving(s)
  BY DEF DevicesInv
<1>1. /\ web' \in [Sessions -> WebType] /\ \A r \in Sessions : r # s => web'[r] = web[r]
      /\ web'[s].pc = "idle" /\ web'[s].dev = Devs!NoDevice
  BY <1>0, SessionGoes DEF Devs!Stops
<1>2. UNCHANGED <<team, row, member, accts, make, cleanup>> /\ faults' \in 0 .. MaxFaults
  BY <1>0, Failing DEF Devs!Stops, DevicesAssumption
<1>3. CASE web[s].dev \in Devices
  <2>1. PICK d \in Devices : d = web[s].dev /\ make[d].pc = "done" /\ Made(d) /\ Making(d)
    BY <1>0, <1>3 DEF Serving, DevicesInv, DevicesAssumption
  <2>2. /\ past' \in MarksType /\ past.cut \subseteq past'.cut /\ past'.crossed = past.crossed /\ past'.raced = past.raced
        /\ web[s].pc \in {"account", "row"} => d \in past'.cut
    BY <1>0, <2>1 DEF Devs!Stops, MarksType
  <2>3. DevicesTyped' /\ Making(d)'
    BY <1>0, <1>1, <1>2, <2>1, <2>2 DEF Making
  <2>4. Made(d)'
    BY <1>0, <1>1, <1>2, <2>1, <2>2 DEF Made, Devs!Nothing
  <2>5. About(d) /\ StaysApart(d)
    BY <1>0, <1>1, <1>2, <2>1, <2>2 DEF About, StaysApart, Claims, Serving
  <2> QED
    BY <2>3, <2>4, <2>5, OneDevice
<1>4. CASE web[s].dev = Devs!NoDevice
  <2>1. UNCHANGED past /\ web[s].pc \in {"idle", "drop"}
    BY <1>0, <1>4 DEF Devs!Stops, Serving, DevicesAssumption
  <2>2. \A d \in Devices : Making(d)'
    BY <1>2, <2>1 DEF DevicesInv, Making
  <2>3. \A d \in Devices : Made(d)'
    BY <1>1, <1>2, <1>4, <2>1 DEF DevicesInv, Made, Devs!Nothing, DevicesAssumption
  <2>4. \A r \in Sessions : Serving(r)'
    BY <1>1, <1>2, <2>1 DEF DevicesInv, Serving
  <2>5. \A d \in Devices, x \in Suffixes : Claims(d, x)' => Claims(d, x)
    BY <1>1, <1>2 DEF Claims
  <2>6. ClaimsApart'
    BY <2>1, <2>5 DEF DevicesInv, ClaimsApart
  <2> QED
    BY <1>0, <1>1, <1>2, <2>1, <2>2, <2>3, <2>4, <2>6 DEF DevicesInv
<1> QED
  BY <1>0, <1>3, <1>4 DEF WebType

LEMMA TeamIsDropped ==
  ASSUME DevicesAssumption, DevicesInv, NEW s \in Sessions, Devs!Count(s) \/ Devs!DropTeam(s)
  PROVE  DevicesInv'
<1> USE DEF DevicesTyped
<1>0. DevicesTyped /\ Serving(s)
  BY DEF DevicesInv
<1>1. /\ web' \in [Sessions -> WebType] /\ \A r \in Sessions : r # s => web'[r] = web[r]
      /\ web'[s].pc \in {"idle", "drop"} /\ web'[s].dev = Devs!NoDevice /\ web[s].dev = Devs!NoDevice
  <2>1. CASE Devs!Count(s)
    BY <1>0, <2>1, SessionGoes DEF Devs!Count, Devs!Names
  <2>2. CASE Devs!DropTeam(s)
    BY <1>0, <2>2, SessionGoes DEF Devs!DropTeam, Devs!On, Serving
  <2> QED
    BY <2>1, <2>2
<1>2. /\ UNCHANGED <<row, accts, make, cleanup, faults>> /\ team' \in BOOLEAN /\ past' \in MarksType
      /\ member' \subseteq member /\ past'.cut = past.cut /\ past'.crossed = past.crossed
      /\ past.raced \subseteq past'.raced /\ \A d \in member : d \in member' \/ d \in past'.raced
  <2>1. CASE Devs!Count(s)
    BY <1>0, <2>1 DEF Devs!Count
  <2>2. CASE Devs!DropTeam(s)
    <3>1. past' = [past EXCEPT !.raced = @ \cup member] /\ UNCHANGED <<row, accts, make, cleanup, faults>> /\ team' = FALSE
          /\ member' = {}
      BY <2>2 DEF Devs!DropTeam
    <3> QED
      BY <1>0, <3>1 DEF MarksType
  <2> QED
    BY <2>1, <2>2
<1>3. \A d \in Devices : Making(d)'
  BY <1>2 DEF DevicesInv, Making
<1>4. ASSUME NEW d \in Devices PROVE Made(d)'
  <2>1. Made(d)
    BY DEF DevicesInv
  <2>2. ASSUME NEW r \in Sessions, web[r].dev = d PROVE web'[r] = web[r]
    BY <1>1, <2>2 DEF DevicesAssumption
  <2> QED
    BY <1>2, <2>1, <2>2 DEF Made, Devs!Nothing
<1>5. ASSUME NEW r \in Sessions PROVE Serving(r)'
  <2>1. Serving(r)
    BY DEF DevicesInv
  <2> QED
    BY <1>1, <1>2, <2>1 DEF Serving
<1>6. \A d \in Devices, x \in Suffixes : Claims(d, x)' => Claims(d, x)
  BY <1>1, <1>2 DEF Claims
<1>7. ClaimsApart'
  BY <1>2, <1>6 DEF DevicesInv, ClaimsApart
<1> QED
  BY <1>0, <1>1, <1>2, <1>3, <1>4, <1>5, <1>7 DEF DevicesInv

LEMMA DevicesStep == ASSUME DevicesAssumption PROVE DevicesInv /\ [Devs!Next]_Devs!vars => DevicesInv'
<1> SUFFICES ASSUME DevicesInv, [Devs!Next]_Devs!vars PROVE DevicesInv'
  OBVIOUS
<1>1. CASE UNCHANGED Devs!vars
  <2> USE <1>1 DEF Devs!vars
  <2>1. DevicesTyped'
    BY DEF DevicesInv, DevicesTyped
  <2>2. (\A d \in Devices : Making(d) /\ Made(d))'
    BY DEF DevicesInv, Making, Made, Devs!Nothing
  <2>3. (\A s \in Sessions : Serving(s))'
    BY DEF DevicesInv, Serving
  <2>4. ClaimsApart'
    BY DEF DevicesInv, ClaimsApart, Claims
  <2> QED
    BY <2>1, <2>2, <2>3, <2>4 DEF DevicesInv
<1>2. ASSUME NEW d \in Devices, Devs!Creates(d) PROVE DevicesInv'
  BY <1>2, RequestMakes, RequestUndoes, AccountIsCleaned DEF Devs!Creates
<1>3. ASSUME NEW s \in Sessions, Devs!Serves(s) PROVE DevicesInv'
  BY <1>3, DeviceIsEdited, DeviceIsDeleted, DeletionStops, TeamIsDropped DEF Devs!Serves
<1> QED
  BY <1>1, <1>2, <1>3 DEF Devs!Next

LEMMA DevicesStart == ASSUME DevicesAssumption PROVE Devs!Init => DevicesInv
<1> SUFFICES ASSUME Devs!Init PROVE DevicesInv
  OBVIOUS
<1>1. DevicesTyped
  BY DEF Devs!Init, DevicesTyped, RowType, MakeType, WebType, MarksType, Devs!NoRow, Devs!Idle, Devs!Names, Devs!Steps,
     DevicesAssumption
<1> QED
  BY <1>1 DEF Devs!Init, DevicesInv, Making, Made, Serving, ClaimsApart, Claims, Devs!Nothing, Devs!Idle

LEMMA DevicesInvHolds == DevicesInv => Devs!DevicesSound
<1> SUFFICES ASSUME DevicesInv PROVE Devs!DevicesSound
  OBVIOUS
<1>1. Devs!TypeOK
  BY DEF DevicesInv, DevicesTyped, Devs!TypeOK, RowType, MakeType, WebType, MarksType
<1>2. ASSUME NEW d \in Devices, Devs!Settled(d)
      PROVE  \/ Devs!Nothing(d) \/ Devs!Complete(d) \/ d \in past.cut
             \/ d \in past.raced /\ row[d].kind = "device" /\ d \in accts
  <2>1. Making(d) /\ Made(d)
    BY DEF DevicesInv
  <2>2. CASE make[d].pc = "unasked"
    BY <2>1, <2>2 DEF Making, Devs!Nothing
  <2>3. CASE make[d].pc = "done"
    BY <1>2, <2>1, <2>3 DEF Made, Devs!Settled, Devs!Complete
  <2> QED
    BY <1>2, <2>2, <2>3 DEF Devs!Settled
<1>3. Devs!MembersHaveAccounts
  BY DEF DevicesInv, DevicesTyped, Made, Devs!MembersHaveAccounts
<1>4. Devs!SuffixesApart
  <2> SUFFICES ASSUME NEW d \in member, NEW e \in member, d # e, row[d].suffix = row[e].suffix,
                      row[d].suffix # Devs!NoSuffix
               PROVE  {d, e} \in past.crossed
    BY DEF Devs!SuffixesApart
  <2>1. d \in Devices /\ e \in Devices /\ row[d].suffix \in Suffixes
    BY DEF DevicesInv, DevicesTyped, RowType, Devs!Names
  <2> QED
    BY <2>1 DEF DevicesInv, ClaimsApart, Claims
<1> QED
  BY <1>1, <1>2, <1>3, <1>4 DEF Devs!DevicesSound, Devs!WholeOrNothing

-----------------------------------------------------------------------------
(* Requests for access.                                                    *)

CONSTANTS Visitors, Deciders, Pks, MaxDecisions
VARIABLES req, given, form, dec, acct, user, sync, counts, events

SignUps == INSTANCE AccessRequests WITH made <- given, used <- counts, past <- events

SignUpAssumption ==
  /\ Rows \in SUBSET (Nat \ {0}) /\ Pks \in SUBSET (Nat \ {0})
  /\ SignUps!None \notin Teams
  /\ MaxFaults \in Nat /\ MaxDecisions \in Nat

Statuses == {SignUps!None, "unverified", "pending", "approved", "denied"}
ReqType == [st : Statuses, team : Teams \cup {SignUps!None}]
DecType == [pc : {"idle", "identity", "lookup", "post", "transact", "compensate", "deny"},
            row : Rows \cup {0}, team : Teams \cup {SignUps!None},
            pk : Pks \cup {0}, claim : BOOLEAN, reclaim : BOOLEAN]
FormType == [at : {"idle", "insert", "submit"}, row : Rows \cup {0}]
EventType == [stray : BOOLEAN, claimLeft : BOOLEAN, lostCommit : BOOLEAN, lateDenial : SUBSET Rows,
              resubmitted : SUBSET Rows, deleted : BOOLEAN, kept : SUBSET Pks]

SignUpTyped ==
  /\ req \in [Rows -> ReqType]
  /\ given \in [rows : Rows \cup {0}, accts : Pks \cup {0}]
  /\ form \in [Visitors -> FormType]
  /\ dec \in [Deciders -> DecType]
  /\ acct \in [Pks -> {SignUps!None, "email", "minted"}]
  /\ user \in [ak : Pks \cup {0}, st : {SignUps!None, "claim", "active", "orphaned"}, team : Teams \cup {SignUps!None}]
  /\ cleanup \subseteq Pks
  /\ sync \in [stage : {"idle", "upsert", "sweep"}, fetched : SUBSET Pks]
  /\ counts \in [decisions : 0 .. MaxDecisions, faults : 0 .. MaxFaults]
  /\ events \in EventType

\* Ids are given out in order and once.
Numbered ==
  /\ \A r \in Rows : r > given.rows => req[r] = SignUps!NoReq
  /\ \A k \in Pks : k > given.accts => acct[k] = SignUps!None /\ k \notin cleanup
  /\ user.ak <= given.accts /\ \A k \in sync.fetched : k <= given.accts
  /\ \A d \in Deciders : dec[d].pk <= given.accts

\* What a decision knows and holds at each of its steps.
DecisionSound(c) ==
  /\ c.pc # "idle" => c.row \in Rows
  /\ c.pc \in {"idle", "identity", "deny"} => ~c.claim
  /\ IF c.pc \in {"transact", "compensate"} THEN c.pk # 0 /\ c.pk \notin cleanup ELSE c.pk = 0
  /\ c.pc = "transact" => c.pk \in SignUps!Accounts \/ events.deleted

FormSound(f) == f.at = "submit" => f.row \in Rows
RowSound(q) == q.st \in {"pending", "approved"} => q.team # SignUps!None

\* Two decisions never hold one account.
AccountsApart == \A d, e \in Deciders : dec[d].pk = dec[e].pk => d = e \/ dec[d].pk = 0

\* An account nobody works on is the one of a user who has a team.
Accounted ==
  \A k \in SignUps!Accounts :
    \/ k \in cleanup \/ (\E d \in Deciders : dec[d].pk = k) \/ events.stray \/ k \in events.kept
    \/ user.ak = k /\ user.team # SignUps!None

ClaimKept == user.st = "claim" => events.claimLeft \/ \E d \in Deciders : dec[d].claim
UserShape ==
  /\ user.st \in {"active", "orphaned"} <=> user.ak # 0
  /\ user.ak = 0 => user.team = SignUps!None

\* Whom an approval has made a user has a team for good, and an account that
\* nothing is about to delete.
ApprovedKept ==
  \A r \in Rows : req[r].st = "approved" =>
    /\ user.team # SignUps!None
    /\ user.team = req[r].team \/ r \in events.resubmitted
    /\ \/ events.lostCommit \/ events.deleted
       \/ /\ user.ak \in SignUps!Accounts /\ user.ak \notin cleanup
          /\ \A d \in Deciders : dec[d].pk # user.ak

SignUpInv ==
  /\ SignUpTyped /\ Numbered
  /\ \A d \in Deciders : DecisionSound(dec[d])
  /\ \A v \in Visitors : FormSound(form[v])
  /\ \A r \in Rows : RowSound(req[r])
  /\ AccountsApart /\ Accounted /\ ClaimKept /\ UserShape /\ ApprovedKept

LEMMA SignUpInvHolds == ASSUME SignUpAssumption PROVE SignUpInv => SignUps!AccountsFollowRequests
<1> USE DEF EventType
<1> SUFFICES ASSUME SignUpInv PROVE SignUps!AccountsFollowRequests
  OBVIOUS
<1>1. SignUps!TypeOK
  BY DEF SignUpInv, SignUpTyped, SignUps!TypeOK, Statuses, ReqType, DecType, FormType, SignUps!NoPk, SignUps!NoRow
<1>2. SignUps!NoStrayAccount
  BY DEF SignUpInv, Accounted, SignUps!NoStrayAccount, SignUps!Working
<1>3. SignUps!ApprovedIsUser
  BY DEF SignUpInv, ApprovedKept, SignUps!ApprovedIsUser
<1>4. SignUps!PendingCanBeApproved
  <2> SUFFICES ASSUME SignUps!Rest, NEW r \in Rows, user.team = SignUps!None, ~events.stray, ~events.claimLeft, events.kept \cap SignUps!Accounts = {},
                      user.ak = 0 \/ user.ak \in SignUps!Accounts
               PROVE  SignUps!CanApprove(r)
    BY DEF SignUps!PendingCanBeApproved, SignUps!NoPk
  <2>1. cleanup = {} /\ \A d \in Deciders : dec[d].pk = 0 /\ ~dec[d].claim
    BY DEF SignUps!Rest, SignUpInv, DecisionSound
  <2>2. SignUps!Accounts = {}
    <3>1. \A k \in SignUps!Accounts : k # 0
      BY DEF SignUps!Accounts, SignUpAssumption
    <3> QED
      BY <2>1, <3>1 DEF SignUpInv, Accounted
  <2>3. user.st = SignUps!None
    BY <2>1, <2>2 DEF SignUpInv, SignUpTyped, UserShape, ClaimKept
  <2> QED
    BY <2>2, <2>3 DEF SignUps!CanApprove
<1> QED
  BY <1>1, <1>2, <1>3, <1>4 DEF SignUps!AccountsFollowRequests

LEMMA SignUpInit == ASSUME SignUpAssumption PROVE SignUps!Init => SignUpInv
<1> USE DEF EventType
<1> SUFFICES ASSUME SignUps!Init PROVE SignUpInv
  OBVIOUS
<1>1. SignUpTyped
  BY DEF SignUps!Init, SignUpTyped, Statuses, ReqType, DecType, FormType, SignUpAssumption, SignUps!NoReq, SignUps!NoForm,
     SignUps!NoUser, SignUps!Idle, SignUps!NoPk, SignUps!NoRow, SignUps!None
<1>2. SignUps!Accounts = {}
  BY DEF SignUps!Init, SignUps!Accounts
<1> QED
  BY <1>1, <1>2 DEF SignUps!Init, SignUpInv, Numbered, DecisionSound, FormSound, RowSound, AccountsApart, Accounted, ClaimKept,
     UserShape, ApprovedKept, SignUps!NoReq, SignUps!NoForm, SignUps!NoUser, SignUps!Idle, SignUps!NoPk, SignUps!NoRow,
     SignUps!None
\* One decision moves on or ends and nothing else of note changes: s and l tell
\* that it leaves an account and a Claim_Row behind.
OneMoves(d, c, s, l) ==
  /\ dec' = [dec EXCEPT ![d] = c]
  /\ events' = [events EXCEPT !.stray = @ \/ s, !.claimLeft = @ \/ l]
  /\ counts' \in [decisions : 0 .. MaxDecisions, faults : 0 .. MaxFaults]
  /\ UNCHANGED <<req, given, form, acct, user, cleanup, sync>>

MayMove(d, c, s, l) ==
  /\ DecisionSound(c)
  /\ c.pk = dec[d].pk \/ (c.pk = 0 /\ (dec[d].pk = 0 \/ s))
  /\ dec[d].claim => c.claim \/ l

LEMMA OneDecision ==
  ASSUME SignUpAssumption, SignUpInv, NEW d \in Deciders, NEW c \in DecType, NEW s \in BOOLEAN, NEW l \in BOOLEAN,
         OneMoves(d, c, s, l), MayMove(d, c, s, l)
  PROVE  SignUpInv'
<1> USE DEF EventType
<1> USE DEF OneMoves
<1>1. dec'[d] = c /\ \A e \in Deciders \ {d} : dec'[e] = dec[e]
  BY DEF SignUpInv, SignUpTyped
<1>2. SignUpTyped'
  BY DEF SignUpInv, SignUpTyped
<1>3. Numbered'
  BY <1>1 DEF SignUpInv, SignUpAssumption, SignUpTyped, Numbered, MayMove
<1>4. (\A e \in Deciders : DecisionSound(dec[e]))'
  BY <1>1 DEF SignUpInv, SignUpTyped, DecisionSound, SignUps!Accounts, MayMove
<1>5. AccountsApart'
  BY <1>1 DEF SignUpInv, AccountsApart, MayMove
<1>6. Accounted'
  BY <1>1 DEF SignUpInv, SignUpTyped, SignUpAssumption, Accounted, SignUps!Accounts, MayMove
<1>7. ClaimKept'
  BY <1>1 DEF SignUpInv, SignUpTyped, ClaimKept, MayMove
<1>8. ApprovedKept'
  BY <1>1 DEF SignUpInv, SignUpTyped, SignUpAssumption, ApprovedKept, SignUps!Accounts, MayMove
<1> QED
  BY <1>2, <1>3, <1>4, <1>5, <1>6, <1>7, <1>8 DEF SignUpInv, UserShape, FormSound, RowSound

LEMMA AccountIds ==
  ASSUME SignUpAssumption
  PROVE  \A k \in SignUps!Accounts : k \in Pks /\ k # 0
BY DEF SignUps!Accounts, SignUpAssumption

LEMMA NothingLeft ==
  ASSUME SignUpTyped
  PROVE  events = [events EXCEPT !.stray = @ \/ FALSE, !.claimLeft = @ \/ FALSE]
<1> USE DEF EventType
<1> DEFINE left == [events EXCEPT !.stray = @ \/ FALSE, !.claimLeft = @ \/ FALSE]
<1>1. left.stray = events.stray /\ left.claimLeft = events.claimLeft
  BY DEF SignUpTyped
<1> QED
  BY <1>1 DEF SignUpTyped

LEMMA DecisionsBegin ==
  ASSUME SignUpAssumption, SignUpInv, NEW d \in Deciders, NEW r \in Rows,
         SignUps!ApproveRequest(d, r) \/ SignUps!DenyRequest(d, r)
  PROVE  SignUpInv'
<1>1. PICK c : /\ dec' = [dec EXCEPT ![d] = c]
               /\ \/ c = [SignUps!Idle EXCEPT !.pc = "identity", !.row = r, !.team = req[r].team]
                  \/ c = [SignUps!Idle EXCEPT !.pc = "deny", !.row = r]
  BY DEF SignUps!ApproveRequest, SignUps!DenyRequest
<1>2. /\ c.pc \in {"identity", "deny"} /\ c.row = r /\ c.pk = 0 /\ ~c.claim
      /\ c \in DecType
  <2>1. SignUps!Idle \in DecType /\ SignUps!Idle.pk = 0 /\ SignUps!Idle.claim = FALSE
    BY DEF SignUps!Idle, SignUps!NoPk, SignUps!NoRow, DecType
  <2>2. req[r].team \in Teams \cup {SignUps!None}
    BY DEF SignUpInv, SignUpTyped, ReqType
  <2> QED
    BY <1>1, <2>1, <2>2 DEF DecType
<1>3. c \in DecType /\ DecisionSound(c)
  BY <1>2 DEF DecisionSound
<1>4. dec[d].pk = 0 /\ ~dec[d].claim
  BY DEF SignUps!ApproveRequest, SignUps!DenyRequest, SignUps!At, SignUpInv, DecisionSound
<1>5. OneMoves(d, c, FALSE, FALSE)
  <2>1. counts' \in [decisions : 0 .. MaxDecisions, faults : 0 .. MaxFaults]
    BY DEF SignUps!ApproveRequest, SignUps!DenyRequest, SignUps!Decision, SignUpInv, SignUpTyped, SignUpAssumption
  <2> QED
    BY <1>1, <2>1, NothingLeft DEF OneMoves, SignUps!ApproveRequest, SignUps!DenyRequest, SignUpInv
<1> QED
  BY <1>2, <1>3, <1>4, <1>5, OneDecision DEF MayMove

\* However a decision is given up that has made no account or left it.
LEMMA DecisionEnds ==
  ASSUME SignUpAssumption, SignUpInv, NEW d \in Deciders, NEW s \in BOOLEAN, SignUps!Abandon(d, s),
         dec[d].pk = 0 \/ s, counts' \in [decisions : 0 .. MaxDecisions, faults : 0 .. MaxFaults],
         UNCHANGED <<req, given, form, acct, user, cleanup, sync>>
  PROVE  SignUpInv'
<1> USE DEF EventType
<1>1. PICK c, l : c = SignUps!Idle /\ l = dec[d].claim
  OBVIOUS
<1>2. c \in DecType /\ DecisionSound(c) /\ l \in BOOLEAN /\ c.pk = 0
  BY <1>1 DEF DecType, DecisionSound, SignUps!Idle, SignUps!NoPk, SignUps!NoRow, SignUpInv, SignUpTyped
<1>3. OneMoves(d, c, s, l)
  BY <1>1 DEF OneMoves, SignUps!Abandon, SignUpInv, SignUpTyped
<1> QED
  BY <1>1, <1>2, <1>3, OneDecision DEF MayMove

LEMMA AccountIsLooked ==
  ASSUME SignUpAssumption, SignUpInv, NEW d \in Deciders,
         SignUps!FindReclaimable(d) \/ SignUps!LookupAccount(d)
  PROVE  SignUpInv'
<1>0. dec[d] \in DecType /\ DecisionSound(dec[d]) /\ dec[d].pk = 0
  BY DEF SignUps!FindReclaimable, SignUps!LookupAccount, SignUps!At, SignUpInv, SignUpTyped, DecisionSound
<1>1. CASE SignUps!LookupAccount(d) /\ SignUps!Accounts # {}
  BY <1>0, <1>1, DecisionEnds DEF SignUps!LookupAccount, SignUpInv, SignUpTyped
<1>2. CASE SignUps!FindReclaimable(d) \/ (SignUps!LookupAccount(d) /\ SignUps!Accounts = {})
  <2>1. PICK c : /\ dec' = [dec EXCEPT ![d] = c]
                 /\ \/ c = [dec[d] EXCEPT !.pc = "lookup", !.reclaim = user.st = "orphaned"]
                    \/ c = [dec[d] EXCEPT !.pc = "post"]
    BY ZenonT(40), <1>0, <1>2 DEF SignUps!FindReclaimable, SignUps!LookupAccount, SignUps!Goto, SignUpInv, SignUpTyped
  <2>2. c \in DecType /\ c.pk = 0 /\ c.claim = dec[d].claim /\ c.row = dec[d].row /\ c.pc \in {"lookup", "post"}
    BY <1>0, <2>1 DEF DecType
  <2>3. OneMoves(d, c, FALSE, FALSE)
    BY <1>2, <2>1, NothingLeft DEF OneMoves, SignUps!FindReclaimable, SignUps!LookupAccount, SignUpInv, SignUpTyped
  <2>4. dec[d].pc \in {"identity", "lookup"}
    BY DEF SignUps!FindReclaimable, SignUps!LookupAccount, SignUps!At
  <2>5. MayMove(d, c, FALSE, FALSE)
    BY <1>0, <2>2, <2>4 DEF MayMove, DecisionSound
  <2> QED
    BY <2>2, <2>3, <2>5, OneDecision
<1> QED
  BY <1>1, <1>2

LEMMA ClaimIsMinted ==
  ASSUME SignUpAssumption, SignUpInv, NEW d \in Deciders, SignUps!MintClaim(d)
  PROVE  SignUpInv'
<1>0. dec[d] \in DecType /\ DecisionSound(dec[d]) /\ dec[d].pk = 0 /\ dec[d].pc = "identity"
  BY DEF SignUps!MintClaim, SignUps!At, SignUpInv, SignUpTyped, DecisionSound
<1>1. CASE user.st # SignUps!None
  BY <1>0, <1>1, DecisionEnds DEF SignUps!MintClaim, SignUpInv, SignUpTyped
<1>2. CASE user.st = SignUps!None
  <2>1. PICK c : c = [dec[d] EXCEPT !.pc = "lookup", !.claim = TRUE]
    OBVIOUS
  <2>2. c \in DecType /\ c.pk = 0 /\ c.claim /\ c.row = dec[d].row /\ c.pc = "lookup"
    BY <1>0, <2>1 DEF DecType
  <2>3. /\ dec' = [dec EXCEPT ![d] = c]
        /\ UNCHANGED <<req, given, form, acct, cleanup, sync, counts, events>>
    BY <1>2, <2>1 DEF SignUps!MintClaim, SignUpInv, SignUpTyped
  <2>4. dec'[d] = c /\ \A e \in Deciders \ {d} : dec'[e] = dec[e]
    BY <2>3 DEF SignUpInv, SignUpTyped
  <2>5. user' = [ak |-> 0, st |-> "claim", team |-> SignUps!None]
    BY <1>2 DEF SignUps!MintClaim, SignUps!NoUser, SignUps!NoPk
  <2>6. user.ak = 0 /\ user.team = SignUps!None
    BY <1>2 DEF SignUpInv, SignUpTyped, UserShape, SignUps!None
  <2>7. SignUpTyped'
    BY <2>2, <2>3, <2>5 DEF SignUpInv, SignUpTyped
  <2>8. Numbered'
    BY <1>0, <2>2, <2>3, <2>4, <2>5, <2>6 DEF SignUpInv, Numbered
  <2>9. (\A e \in Deciders : DecisionSound(dec[e]))'
    BY <1>0, <2>2, <2>3, <2>4 DEF SignUpInv, DecisionSound, SignUps!Accounts
  <2>10. AccountsApart' /\ ClaimKept' /\ UserShape'
    BY <1>0, <2>2, <2>4, <2>5 DEF SignUpInv, AccountsApart, ClaimKept, UserShape
  <2>11. Accounted'
    BY <1>0, <2>2, <2>3, <2>4, <2>6 DEF SignUpInv, SignUpAssumption, Accounted, SignUps!Accounts
  <2>12. ApprovedKept'
    BY <2>3, <2>6 DEF SignUpInv, ApprovedKept
  <2> QED
    BY <2>3, <2>7, <2>8, <2>9, <2>10, <2>11, <2>12 DEF SignUpInv, FormSound, RowSound
<1> QED
  BY <1>1, <1>2

LEMMA AccountIsCreated ==
  ASSUME SignUpAssumption, SignUpInv, NEW d \in Deciders, SignUps!CreateAccount(d)
  PROVE  SignUpInv'
<1> USE DEF EventType
<1>0. dec[d] \in DecType /\ DecisionSound(dec[d]) /\ dec[d].pk = 0 /\ dec[d].pc = "post"
  BY DEF SignUps!CreateAccount, SignUps!At, SignUpInv, SignUpTyped, DecisionSound
<1>1. CASE SignUps!Refuses(d)
  BY <1>0, <1>1, DecisionEnds DEF SignUps!CreateAccount, SignUpInv, SignUpTyped
<1>2. CASE ~SignUps!Refuses(d)
  <2>1. PICK k : k = given.accts + 1
    OBVIOUS
  <2>2. /\ k \in Pks /\ given' = [given EXCEPT !.accts = k]
        /\ \E v \in {"minted", "email"} : acct' = [acct EXCEPT ![k] = v]
        /\ UNCHANGED <<req, form, user, cleanup, sync>>
    BY <1>2, <2>1 DEF SignUps!CreateAccount
  <2>3. /\ k > given.accts /\ k # 0 /\ k \notin cleanup /\ k # user.ak /\ k \notin SignUps!Accounts
        /\ \A e \in Deciders : dec[e].pk # k
    BY <2>1, <2>2 DEF SignUpInv, SignUpTyped, SignUpAssumption, Numbered, SignUps!Accounts, DecType
  <2>4. SignUps!Accounts' = SignUps!Accounts \cup {k}
    BY <2>2 DEF SignUps!Accounts, SignUpInv, SignUpTyped, SignUps!None
  <2>5. PICK c : /\ dec' = [dec EXCEPT ![d] = c]
                 /\ \/ /\ c = [dec[d] EXCEPT !.pc = "transact", !.pk = k]
                       /\ UNCHANGED <<counts, events>>
                    \/ /\ c = SignUps!Idle
                       /\ SignUps!Fault
                       /\ events' = [events EXCEPT !.claimLeft = @ \/ dec[d].claim, !.stray = TRUE]
    BY <1>2, <2>1 DEF SignUps!CreateAccount, SignUps!Abandon, SignUpInv, SignUpTyped
  <2>6. /\ c \in DecType /\ c.pc \in {"transact", "idle"}
        /\ c.pc = "transact" => c.pk = k /\ c.row = dec[d].row /\ c.claim = dec[d].claim
        /\ c.pc = "idle" => c.pk = 0 /\ ~c.claim
    <3>1. CASE c = [dec[d] EXCEPT !.pc = "transact", !.pk = k]
      BY <1>0, <2>2, <3>1 DEF DecType
    <3>2. CASE c = SignUps!Idle
      BY <3>2 DEF DecType, SignUps!Idle, SignUps!NoPk, SignUps!NoRow
    <3> QED
      BY <2>5, <3>1, <3>2
  <2>7. dec'[d] = c /\ \A e \in Deciders \ {d} : dec'[e] = dec[e]
    BY <2>5 DEF SignUpInv, SignUpTyped
  <2>8. /\ counts' \in [decisions : 0 .. MaxDecisions, faults : 0 .. MaxFaults]
        /\ events' \in EventType
        /\ events'.lostCommit = events.lostCommit /\ events'.resubmitted = events.resubmitted
        /\ events'.deleted = events.deleted /\ events'.kept = events.kept
        /\ events.stray => events'.stray
        /\ events.claimLeft => events'.claimLeft
        /\ c.pc = "idle" => events'.stray
        /\ dec[d].claim => c.claim \/ events'.claimLeft
    <3>1. CASE UNCHANGED <<counts, events>> /\ c = [dec[d] EXCEPT !.pc = "transact", !.pk = k]
      BY <1>0, <3>1 DEF SignUpInv, SignUpTyped, DecType
    <3>2. CASE SignUps!Fault /\ events' = [events EXCEPT !.claimLeft = @ \/ dec[d].claim, !.stray = TRUE]
      <4>1. counts' \in [decisions : 0 .. MaxDecisions, faults : 0 .. MaxFaults]
        BY <3>2 DEF SignUps!Fault, SignUpInv, SignUpTyped, SignUpAssumption
      <4>2. dec[d].claim \in BOOLEAN
        BY <1>0 DEF DecType
      <4> QED
        BY <3>2, <4>1, <4>2 DEF SignUpInv, SignUpTyped
    <3> QED
      BY <2>5, <3>1, <3>2
  <2>9. SignUpTyped'
    BY <2>2, <2>5, <2>6, <2>8 DEF SignUpInv, SignUpTyped
  <2>10. Numbered'
    BY <2>1, <2>2, <2>3, <2>6, <2>7 DEF SignUpInv, SignUpTyped, SignUpAssumption, Numbered, DecType, SignUps!None
  <2>11. (\A e \in Deciders : DecisionSound(dec[e]))'
    BY <1>0, <2>2, <2>3, <2>4, <2>6, <2>7, <2>8 DEF SignUpInv, DecisionSound
  <2>12. AccountsApart' /\ ClaimKept' /\ UserShape'
    BY <1>0, <2>2, <2>3, <2>6, <2>7, <2>8 DEF SignUpInv, AccountsApart, ClaimKept, UserShape
  <2>13. Accounted'
    BY <1>0, <2>2, <2>4, <2>6, <2>7, <2>8, AccountIds DEF SignUpInv, Accounted
  <2>14. ApprovedKept'
    BY <2>2, <2>3, <2>4, <2>6, <2>7, <2>8, AccountIds DEF SignUpInv, ApprovedKept
  <2> QED
    BY <2>2, <2>9, <2>10, <2>11, <2>12, <2>13, <2>14 DEF SignUpInv, FormSound, RowSound
<1> QED
  BY <1>1, <1>2

LEMMA DecisionFails ==
  ASSUME SignUpAssumption, SignUpInv, NEW d \in Deciders, SignUps!Fails(d)
  PROVE  SignUpInv'
<1>1. counts' \in [decisions : 0 .. MaxDecisions, faults : 0 .. MaxFaults]
  BY DEF SignUps!Fails, SignUps!Fault, SignUpInv, SignUpTyped, SignUpAssumption
<1> QED
  BY <1>1, DecisionEnds DEF SignUps!Fails, SignUps!NoPk

\* What commits makes the person a user with a team, whoever they were.
LEMMA ApprovalCommits ==
  ASSUME SignUpAssumption, SignUpInv, NEW d \in Deciders, NEW c \in DecType,
         SignUps!At(d, "transact"), SignUps!Locked(d), SignUps!Adoptable(d), SignUps!Commit(d),
         dec' = [dec EXCEPT ![d] = c], DecisionSound(c),
         counts' \in [decisions : 0 .. MaxDecisions, faults : 0 .. MaxFaults],
         \/ c.pc = "idle" /\ UNCHANGED events
         \/ c.pk = dec[d].pk /\ c.pc = "compensate" /\ events' = [events EXCEPT !.lostCommit = TRUE],
         UNCHANGED <<given, form, acct, cleanup, sync>>
  PROVE  SignUpInv'
<1> USE DEF EventType
<1>0. /\ dec[d] \in DecType /\ dec[d].row \in Rows /\ dec[d].pk # 0 /\ dec[d].pk \notin cleanup
      /\ dec[d].pk \in SignUps!Accounts \/ events.deleted
      /\ user.team = SignUps!None
  BY DEF SignUps!At, SignUps!Adoptable, SignUpInv, SignUpTyped, DecisionSound
<1>1. PICK r, t : r = dec[d].row /\ t = req[r].team
  OBVIOUS
<1>2. /\ r \in Rows /\ t \in Teams /\ req[r] \in ReqType
      /\ req' = [req EXCEPT ![r].st = "approved"]
  BY <1>0, <1>1 DEF SignUps!Locked, SignUps!Commit, SignUpInv, SignUpTyped, ReqType, RowSound
<1>3. user' \in [ak : Pks, st : {"active", "orphaned"}, team : Teams] /\ user'.ak = dec[d].pk /\ user'.team = t
  BY <1>0, <1>1, <1>2 DEF SignUps!Commit, SignUps!Adopted, DecType
<1>4. dec'[d] = c /\ \A e \in Deciders \ {d} : dec'[e] = dec[e]
  BY DEF SignUpInv, SignUpTyped
<1>5. /\ events' \in EventType
      /\ events'.stray = events.stray /\ events'.kept = events.kept /\ events'.claimLeft = events.claimLeft
      /\ events'.resubmitted = events.resubmitted /\ events'.deleted = events.deleted
      /\ c.pc # "idle" => events'.lostCommit
  BY DEF SignUpInv, SignUpTyped
<1>6. c.pk = dec[d].pk \/ (c.pk = 0 /\ c.pc = "idle")
  BY DEF DecisionSound
<1>7. \A q \in Rows : q # r => req'[q] = req[q]
  BY <1>2 DEF SignUpInv, SignUpTyped
<1>8. req'[r] = [st |-> "approved", team |-> t]
  BY <1>1, <1>2 DEF SignUpInv, SignUpTyped, ReqType
<1>9. \A q \in Rows : req[q].st # "approved"
  BY <1>0 DEF SignUpInv, ApprovedKept
<1>10. SignUpTyped'
  <2>1. req' \in [Rows -> ReqType]
    BY <1>2, <1>7, <1>8 DEF SignUpInv, SignUpTyped, ReqType, Statuses
  <2> QED
    BY <2>1, <1>3, <1>5 DEF SignUpInv, SignUpTyped
<1>11. Numbered'
  <2>1. req[r].st = "pending"
    BY <1>1 DEF SignUps!Locked
  <2>2. ~(r > given.rows)
    BY <1>2, <2>1 DEF SignUpInv, Numbered, SignUps!NoReq, SignUps!None
  <2>3. user'.ak <= given.accts /\ \A e \in Deciders : dec'[e].pk <= given.accts
    BY <1>3, <1>4, <1>6 DEF SignUpInv, SignUpTyped, SignUpAssumption, Numbered
  <2> QED
    BY <1>2, <1>7, <2>2, <2>3 DEF SignUpInv, Numbered
<1>12. (\A e \in Deciders : DecisionSound(dec[e]))'
  BY <1>4, <1>5 DEF SignUpInv, DecisionSound, SignUps!Accounts
<1>13. (\A q \in Rows : RowSound(req[q]))'
  BY <1>2, <1>7, <1>8 DEF SignUpInv, RowSound, SignUpAssumption
<1>14. AccountsApart' /\ UserShape'
  BY <1>0, <1>3, <1>4, <1>6 DEF SignUpInv, AccountsApart, UserShape, SignUpAssumption
<1>15. ClaimKept'
  BY <1>3 DEF ClaimKept
<1>16. Accounted'
  BY <1>0, <1>2, <1>3, <1>4, <1>5, <1>6 DEF SignUpInv, SignUpAssumption, Accounted, SignUps!Accounts
<1>17. ApprovedKept'
  <2>1. c.pc = "idle" => \A e \in Deciders : dec'[e].pk # user'.ak
    BY <1>0, <1>3, <1>4, <1>6 DEF SignUpInv, AccountsApart, DecisionSound
  <2>2. \/ events'.lostCommit \/ events'.deleted
        \/ user'.ak \in SignUps!Accounts' /\ user'.ak \notin cleanup' /\ \A e \in Deciders : dec'[e].pk # user'.ak
    BY <1>0, <1>3, <1>5, <2>1 DEF SignUps!Accounts
  <2>3. user'.team = t /\ t # SignUps!None
    BY <1>2, <1>3 DEF SignUpAssumption
  <2> QED
    BY <1>7, <1>8, <1>9, <2>2, <2>3 DEF ApprovedKept
<1> QED
  BY <1>10, <1>11, <1>12, <1>13, <1>14, <1>15, <1>16, <1>17 DEF SignUpInv, FormSound

LEMMA ApprovalTransacts ==
  ASSUME SignUpAssumption, SignUpInv, NEW d \in Deciders, SignUps!Transact(d)
  PROVE  SignUpInv'
<1>0. dec[d] \in DecType /\ DecisionSound(dec[d]) /\ dec[d].pk # 0 /\ dec[d].pc = "transact" /\ dec[d].pk \notin cleanup
      /\ dec[d].row \in Rows
  BY DEF SignUps!Transact, SignUps!At, SignUpInv, SignUpTyped, DecisionSound
<1>1. PICK undo, done : undo = [dec[d] EXCEPT !.pc = "compensate"] /\ done = SignUps!Idle
  OBVIOUS
<1>2. /\ undo \in DecType /\ undo.pk = dec[d].pk /\ undo.pc = "compensate" /\ undo.claim = dec[d].claim
      /\ DecisionSound(undo)
  BY <1>0, <1>1 DEF DecType, DecisionSound
<1>3. done \in DecType /\ done.pk = 0 /\ done.pc = "idle" /\ DecisionSound(done)
  BY <1>1 DEF DecType, DecisionSound, SignUps!Idle, SignUps!NoPk, SignUps!NoRow
<1>4. counts' \in [decisions : 0 .. MaxDecisions, faults : 0 .. MaxFaults]
  BY DEF SignUps!Transact, SignUps!Fault, SignUpInv, SignUpTyped, SignUpAssumption
<1>5. CASE SignUps!Commit(d) /\ dec' = [dec EXCEPT ![d] = done] /\ UNCHANGED events /\ SignUps!Locked(d) /\ SignUps!Adoptable(d)
  BY <1>3, <1>4, <1>5, ApprovalCommits DEF SignUps!Transact
<1>6. CASE /\ SignUps!Commit(d) /\ dec' = [dec EXCEPT ![d] = undo] /\ SignUps!Locked(d) /\ SignUps!Adoptable(d)
           /\ events' = [events EXCEPT !.lostCommit = TRUE]
  BY <1>2, <1>4, <1>6, ApprovalCommits DEF SignUps!Transact
<1>7. CASE dec' = [dec EXCEPT ![d] = undo] /\ UNCHANGED <<req, user, events>>
  <2>1. OneMoves(d, undo, FALSE, FALSE)
    BY <1>4, <1>7, NothingLeft DEF OneMoves, SignUps!Transact, SignUpInv
  <2> QED
    BY <1>2, <2>1, OneDecision DEF MayMove
<1> QED
  BY <1>1, <1>5, <1>6, <1>7 DEF SignUps!Transact, SignUps!Goto, SignUpInv, SignUpTyped

LEMMA ApprovalCompensates ==
  ASSUME SignUpAssumption, SignUpInv, NEW d \in Deciders, SignUps!Compensate(d)
  PROVE  SignUpInv'
<1> USE DEF EventType
<1>0. dec[d] \in DecType /\ dec[d].pk # 0 /\ dec[d].pk \in Pks
  BY DEF SignUps!Compensate, SignUps!At, SignUpInv, SignUpTyped, DecisionSound, DecType
<1>1. counts' \in [decisions : 0 .. MaxDecisions, faults : 0 .. MaxFaults]
  <2>1. counts' = counts \/ SignUps!Fault
    BY DEF SignUps!Compensate
  <2> QED
    BY <2>1 DEF SignUps!Fault, SignUpInv, SignUpTyped, SignUpAssumption
<1>2. CASE SignUps!Abandon(d, TRUE) /\ UNCHANGED <<acct, cleanup>>
  BY <1>1, <1>2, DecisionEnds DEF SignUps!Compensate
<1>3. CASE /\ SignUps!Abandon(d, FALSE)
           /\ \/ acct' = [acct EXCEPT ![dec[d].pk] = SignUps!None] /\ UNCHANGED cleanup
              \/ cleanup' = cleanup \cup {dec[d].pk} /\ UNCHANGED acct
  <2>1. PICK k : k = dec[d].pk
    OBVIOUS
  <2>2. /\ dec'[d].pk = 0 /\ dec'[d].pc = "idle" /\ dec'[d].row = 0 /\ ~dec'[d].claim
        /\ \A e \in Deciders \ {d} : dec'[e] = dec[e]
        /\ dec' \in [Deciders -> DecType]
    BY <1>3 DEF SignUps!Abandon, SignUps!Idle, SignUps!NoPk, SignUps!NoRow, DecType, SignUpInv, SignUpTyped
  <2>3. /\ events' \in EventType
        /\ events'.stray = events.stray /\ events'.kept = events.kept /\ (events.claimLeft \/ dec[d].claim => events'.claimLeft)
        /\ events'.resubmitted = events.resubmitted /\ events'.deleted = events.deleted
        /\ events'.lostCommit = events.lostCommit
    BY <1>0, <1>3 DEF SignUps!Abandon, SignUpInv, SignUpTyped, DecType
  <2>4. UNCHANGED <<req, given, form, user, sync>>
    BY DEF SignUps!Compensate
  <2>5. /\ \A j \in SignUps!Accounts : j # k => j \in SignUps!Accounts'
        /\ \A j \in SignUps!Accounts' : j \in SignUps!Accounts
        /\ \A j \in cleanup' : j \in cleanup \/ j = k
        /\ k \in SignUps!Accounts' => k \in cleanup'
        /\ cleanup \subseteq cleanup'
    BY <1>0, <1>3, <2>1 DEF SignUps!Accounts, SignUpInv, SignUpTyped
  <2>6. SignUpTyped'
    BY <1>0, <1>1, <1>3, <2>2, <2>3, <2>4 DEF SignUpInv, SignUpTyped
  <2>7. \A e \in Deciders : e # d => dec[e].pk # k
    BY <1>0, <2>1 DEF SignUpInv, AccountsApart
  <2>8. Numbered'
    BY <1>0, <1>3, <2>1, <2>2, <2>4 DEF SignUpInv, SignUpTyped, SignUpAssumption, Numbered
  <2>9. (\A e \in Deciders : DecisionSound(dec[e]))'
    BY <2>1, <2>2, <2>3, <2>5, <2>7 DEF SignUpInv, DecisionSound
  <2>10. AccountsApart' /\ ClaimKept' /\ UserShape'
    BY <2>2, <2>3, <2>4 DEF SignUpInv, AccountsApart, ClaimKept, UserShape
  <2>11. Accounted'
    BY <2>1, <2>2, <2>3, <2>4, <2>5 DEF SignUpInv, Accounted
  <2>12. ApprovedKept'
    BY <1>0, <2>1, <2>2, <2>3, <2>4, <2>5, AccountIds DEF SignUpInv, ApprovedKept
  <2> QED
    BY <2>4, <2>6, <2>8, <2>9, <2>10, <2>11, <2>12 DEF SignUpInv, FormSound, RowSound
<1> QED
  BY <1>2, <1>3 DEF SignUps!Compensate

LEMMA DenialIsWritten ==
  ASSUME SignUpAssumption, SignUpInv, NEW d \in Deciders, SignUps!WriteDenial(d)
  PROVE  SignUpInv'
<1> USE DEF EventType
<1>0. dec[d] \in DecType /\ dec[d].row \in Rows /\ dec[d].pk = 0 /\ ~dec[d].claim
  BY DEF SignUps!WriteDenial, SignUps!At, SignUpInv, SignUpTyped, DecisionSound
<1>1. /\ dec'[d].pk = 0 /\ dec'[d].pc = "idle" /\ ~dec'[d].claim
      /\ \A e \in Deciders \ {d} : dec'[e] = dec[e]
      /\ dec' \in [Deciders -> DecType]
  BY DEF SignUps!WriteDenial, SignUps!Idle, SignUps!NoPk, SignUps!NoRow, DecType, SignUpInv, SignUpTyped
<1>2. /\ req' \in [Rows -> ReqType]
      /\ \A r \in Rows : req'[r] = req[r] \/ (req[r] # SignUps!NoReq /\ req'[r].st = "denied")
  BY <1>0 DEF SignUps!WriteDenial, SignUpInv, SignUpTyped, ReqType, Statuses
<1>3. /\ events' \in EventType
      /\ events'.stray = events.stray /\ events'.kept = events.kept /\ events'.claimLeft = events.claimLeft
      /\ events'.resubmitted = events.resubmitted /\ events'.deleted = events.deleted
      /\ events'.lostCommit = events.lostCommit
  BY <1>0 DEF SignUps!WriteDenial, SignUpInv, SignUpTyped
<1>4. UNCHANGED <<given, form, acct, user, cleanup, sync, counts>>
  BY DEF SignUps!WriteDenial
<1>5. SignUpTyped'
  BY <1>1, <1>2, <1>3, <1>4 DEF SignUpInv, SignUpTyped
<1>6. Numbered'
  BY <1>0, <1>1, <1>2, <1>4 DEF SignUpInv, Numbered
<1>7. (\A e \in Deciders : DecisionSound(dec[e]))' /\ (\A r \in Rows : RowSound(req[r]))'
  BY <1>1, <1>2, <1>3, <1>4 DEF SignUpInv, DecisionSound, RowSound, SignUps!Accounts
<1>8. AccountsApart' /\ ClaimKept' /\ UserShape'
  BY <1>0, <1>1, <1>3, <1>4 DEF SignUpInv, AccountsApart, ClaimKept, UserShape
<1>9. Accounted'
  <2>1. SignUps!Accounts' = SignUps!Accounts
    BY <1>4 DEF SignUps!Accounts
  <2> QED
    BY <1>0, <1>1, <1>3, <1>4, <2>1, AccountIds DEF SignUpInv, Accounted
<1>10. ApprovedKept'
  BY <1>0, <1>1, <1>2, <1>3, <1>4 DEF SignUpInv, SignUpAssumption, ApprovedKept, SignUps!Accounts
<1> QED
  BY <1>4, <1>5, <1>6, <1>7, <1>8, <1>9, <1>10 DEF SignUpInv, FormSound

LEMMA FormsAreRead ==
  ASSUME SignUpAssumption, SignUpInv, NEW v \in Visitors,
         SignUps!DetermineEmailState(v) \/ \E r \in Rows : SignUps!ReadToken(v, r)
  PROVE  SignUpInv'
<1>1. UNCHANGED <<req, given, dec, acct, user, cleanup, sync, counts, events>>
  BY DEF SignUps!DetermineEmailState, SignUps!ReadToken
<1>2. form' \in [Visitors -> FormType] /\ \A w \in Visitors : FormSound(form'[w])
  <2>1. form \in [Visitors -> FormType] /\ \A w \in Visitors : FormSound(form[w])
    BY DEF SignUpInv, SignUpTyped
  <2>2. PICK f \in FormType : FormSound(f) /\ form' = [form EXCEPT ![v] = f]
    <3>1. CASE SignUps!DetermineEmailState(v)
      <4>1. [form[v] EXCEPT !.at = "insert"] \in FormType /\ FormSound([form[v] EXCEPT !.at = "insert"])
        BY <2>1 DEF FormType, FormSound
      <4> QED
        BY <3>1, <4>1 DEF SignUps!DetermineEmailState
    <3>2. CASE \E r \in Rows : SignUps!ReadToken(v, r)
      <4>1. PICK r \in Rows : form' = [form EXCEPT ![v] = [at |-> "submit", row |-> r]]
        BY <3>2 DEF SignUps!ReadToken
      <4>2. [at |-> "submit", row |-> r] \in FormType /\ FormSound([at |-> "submit", row |-> r])
        BY DEF FormType, FormSound
      <4> QED
        BY <4>1, <4>2
    <3> QED
      BY <3>1, <3>2
  <2>3. \A w \in Visitors : form'[w] = (IF w = v THEN f ELSE form[w])
    BY <2>1, <2>2
  <2> QED
    BY <2>1, <2>2, <2>3
<1>3. SignUpTyped' /\ (\A w \in Visitors : FormSound(form[w]))'
  BY <1>1, <1>2 DEF SignUpInv, SignUpTyped
<1> QED
  BY <1>1, <1>3 DEF SignUpInv, Numbered, DecisionSound, RowSound, AccountsApart, Accounted, ClaimKept, UserShape, ApprovedKept,
     SignUps!Accounts

LEMMA RowIds ==
  ASSUME SignUpAssumption
  PROVE  Rows \subseteq Nat /\ (SignUpTyped => given.rows \in Nat)
<1>1. Rows \subseteq Nat
  BY DEF SignUpAssumption
<1>2. SignUpTyped => given.rows = 0 \/ given.rows \in Rows
  BY DEF SignUpTyped
<1>3. given.rows \in Rows => given.rows \in Nat
  BY <1>1
<1> QED
  BY <1>1, <1>2, <1>3

LEMMA RequestsAreMade ==
  ASSUME SignUpAssumption, SignUpInv, NEW v \in Visitors, SignUps!InitiateSignup(v)
  PROVE  SignUpInv'
<1>1. UNCHANGED <<dec, acct, user, cleanup, sync, counts, events>>
  BY DEF SignUps!InitiateSignup
<1>2. form' \in [Visitors -> FormType] /\ \A w \in Visitors : FormSound(form'[w])
  BY DEF SignUps!InitiateSignup, SignUps!NoForm, SignUps!NoRow, FormSound, FormType, SignUpInv, SignUpTyped
<1>3. /\ req' \in [Rows -> ReqType]
      /\ \A r \in Rows : req'[r] = req[r] \/ req'[r] = SignUps!NoReq
                       \/ (req'[r].st = "unverified" /\ r = given.rows + 1 /\ given'.rows = r)
  BY DEF SignUps!InitiateSignup, SignUps!NoReq, SignUps!None, ReqType, Statuses, SignUpInv, SignUpTyped
<1>4. given' \in [rows : Rows \cup {0}, accts : Pks \cup {0}] /\ given'.accts = given.accts /\ given'.rows >= given.rows
  BY DEF SignUps!InitiateSignup, SignUpInv, SignUpTyped, SignUpAssumption
<1>5. SignUpTyped'
  BY <1>1, <1>2, <1>3, <1>4 DEF SignUpInv, SignUpTyped
<1>6. Numbered'
  <2>1. ASSUME NEW r \in Rows, r > given'.rows PROVE req'[r] = SignUps!NoReq
    <3>1. r > given.rows /\ r # given'.rows
      <4>1. given'.rows \in Rows \cup {0}
        BY <1>4
      <4>2. r \in Nat /\ given.rows \in Nat /\ given'.rows \in Nat
        BY <4>1, RowIds DEF SignUpInv
      <4> QED
        BY <1>4, <2>1, <4>2
    <3> QED
      BY <1>3, <3>1 DEF SignUpInv, Numbered
  <2> QED
    BY <1>1, <1>4, <2>1 DEF SignUpInv, Numbered
<1>7. (\A w \in Visitors : FormSound(form[w]))' /\ (\A r \in Rows : RowSound(req[r]))'
  BY <1>2, <1>3 DEF SignUpInv, RowSound, SignUps!NoReq, SignUps!None
<1>8. ApprovedKept'
  BY <1>1, <1>3 DEF SignUpInv, ApprovedKept, SignUps!NoReq, SignUps!None, SignUps!Accounts
<1> QED
  BY <1>1, <1>5, <1>6, <1>7, <1>8 DEF SignUpInv, DecisionSound, AccountsApart, Accounted, ClaimKept, UserShape, SignUps!Accounts

LEMMA RequestsAreSubmitted ==
  ASSUME SignUpAssumption, SignUpInv, NEW v \in Visitors, NEW t \in Teams, SignUps!SubmitTeamAccess(v, t)
  PROVE  SignUpInv'
<1> USE DEF EventType
<1>1. UNCHANGED <<given, dec, acct, user, cleanup, sync, counts>>
  BY DEF SignUps!SubmitTeamAccess
<1>2. form' \in [Visitors -> FormType] /\ \A w \in Visitors : FormSound(form'[w])
  BY DEF SignUps!SubmitTeamAccess, SignUps!NoForm, SignUps!NoRow, FormSound, FormType, SignUpInv, SignUpTyped
<1>3. PICK r \in Rows : r = form[v].row
  BY DEF SignUps!SubmitTeamAccess, SignUpInv, FormSound
<1>4. PICK q : /\ req' = [req EXCEPT ![r] = q]
               /\ \/ req[r].st = SignUps!None /\ q = req[r]
                  \/ req[r].st = "unverified" /\ q = [st |-> "pending", team |-> t]
                  \/ req[r].st \in {"pending", "approved", "denied"} /\ q = [req[r] EXCEPT !.team = t]
  BY <1>3 DEF SignUps!SubmitTeamAccess, SignUps!None, SignUpInv, SignUpTyped, ReqType, Statuses
<1>5. /\ req[r] \in ReqType /\ q \in ReqType
      /\ q = req[r] \/ (q.team = t /\ req[r].st # SignUps!None /\ (q.st = "approved" => req[r].st = "approved"))
  BY <1>4 DEF ReqType, Statuses, SignUpInv, SignUpTyped, SignUps!None
<1>6. /\ events' \in EventType
      /\ events'.stray = events.stray /\ events'.kept = events.kept /\ events'.claimLeft = events.claimLeft
      /\ events'.deleted = events.deleted /\ events'.lostCommit = events.lostCommit
      /\ events.resubmitted \subseteq events'.resubmitted
      /\ req[r].st = "approved" => r \in events'.resubmitted
  BY <1>3 DEF SignUps!SubmitTeamAccess, SignUpInv, SignUpTyped
<1>7. req'[r] = q /\ \A p \in Rows : p # r => req'[p] = req[p]
  BY <1>4 DEF SignUpInv, SignUpTyped
<1>8. SignUpTyped'
  BY <1>1, <1>2, <1>4, <1>5, <1>6 DEF SignUpInv, SignUpTyped
<1>9. Numbered'
  BY <1>1, <1>5, <1>7 DEF SignUpInv, Numbered, SignUps!NoReq
<1>10. (\A w \in Visitors : FormSound(form[w]))' /\ (\A p \in Rows : RowSound(req[p]))'
  BY <1>2, <1>5, <1>7 DEF SignUpInv, SignUpAssumption, RowSound
<1>11. ApprovedKept'
  <2> SUFFICES ASSUME NEW p \in Rows, req'[p].st = "approved"
               PROVE  req[p].st = "approved" /\ (req'[p].team = req[p].team \/ p \in events'.resubmitted)
    BY <1>1, <1>6 DEF SignUpInv, ApprovedKept, SignUps!Accounts
  <2> QED
    BY <1>5, <1>6, <1>7
<1> QED
  BY <1>1, <1>6, <1>8, <1>9, <1>10, <1>11 DEF SignUpInv, DecisionSound, AccountsApart, Accounted, ClaimKept, UserShape,
     SignUps!Accounts

LEMMA AccountsAreDeleted ==
  ASSUME SignUpAssumption, SignUpInv, NEW k \in Pks, SignUps!CleanupAccount(k) \/ SignUps!OperatorDeletes(k)
  PROVE  SignUpInv'
<1> USE DEF EventType
<1>1. UNCHANGED <<req, given, form, dec, user, sync>> /\ acct' = [acct EXCEPT ![k] = SignUps!None]
  BY DEF SignUps!CleanupAccount, SignUps!OperatorDeletes
<1>2. /\ \A j \in SignUps!Accounts : j # k => j \in SignUps!Accounts'
      /\ \A j \in SignUps!Accounts' : j \in SignUps!Accounts /\ j # k
  BY <1>1 DEF SignUps!Accounts, SignUpInv, SignUpTyped
<1>3. /\ cleanup' \subseteq cleanup /\ cleanup \ {k} \subseteq cleanup'
      /\ k \in cleanup \/ events'.deleted
      /\ events' = events \/ events' = [events EXCEPT !.deleted = TRUE]
  BY DEF SignUps!CleanupAccount, SignUps!OperatorDeletes, SignUpInv, SignUpTyped
<1>4. /\ events' \in EventType
      /\ events'.stray = events.stray /\ events'.kept = events.kept /\ events'.claimLeft = events.claimLeft
      /\ events'.resubmitted = events.resubmitted /\ events'.lostCommit = events.lostCommit
      /\ events.deleted => events'.deleted
  BY <1>3 DEF SignUpInv, SignUpTyped
<1>5. counts' \in [decisions : 0 .. MaxDecisions, faults : 0 .. MaxFaults]
  BY DEF SignUps!CleanupAccount, SignUps!OperatorDeletes, SignUps!Fault, SignUpInv, SignUpTyped, SignUpAssumption
<1>6. SignUpTyped'
  BY <1>1, <1>3, <1>4, <1>5 DEF SignUpInv, SignUpTyped
<1>7. Numbered'
  BY <1>1, <1>3 DEF SignUpInv, SignUpTyped, Numbered
<1>8. (\A d \in Deciders : DecisionSound(dec[d]))'
  BY <1>1, <1>2, <1>3, <1>4 DEF SignUpInv, DecisionSound
<1>9. Accounted'
  BY <1>1, <1>2, <1>3, <1>4 DEF SignUpInv, Accounted
<1>10. ApprovedKept'
  BY <1>1, <1>2, <1>3, <1>4 DEF SignUpInv, ApprovedKept
<1> QED
  BY <1>1, <1>4, <1>6, <1>7, <1>8, <1>9, <1>10 DEF SignUpInv, FormSound, RowSound, AccountsApart, ClaimKept, UserShape

LEMMA CleanupEnds ==
  ASSUME SignUpAssumption, SignUpInv, NEW k \in Pks, SignUps!CleanupFails(k)
  PROVE  SignUpInv'
<1> USE DEF EventType
<1>1. SignUpTyped' /\ events'.kept = events.kept \cup {k}
  BY DEF SignUps!CleanupFails, SignUpInv, SignUpTyped
<1> QED
  BY <1>1 DEF SignUps!CleanupFails, SignUpInv, SignUpTyped, Numbered, DecisionSound, FormSound, RowSound, AccountsApart,
     Accounted, ClaimKept, UserShape, ApprovedKept, SignUps!Accounts

LEMMA UsersAreSynced ==
  ASSUME SignUpAssumption, SignUpInv, SignUps!FetchAccounts \/ SignUps!UpsertUsers \/ SignUps!SweepOrphans
  PROVE  SignUpInv'
<1>1. UNCHANGED <<req, given, form, dec, acct, cleanup, counts, events>>
  BY DEF SignUps!FetchAccounts, SignUps!UpsertUsers, SignUps!SweepOrphans
<1>2. /\ sync' \in [stage : {"idle", "upsert", "sweep"}, fetched : SUBSET Pks]
      /\ \A k \in sync'.fetched : k <= given.accts
  BY DEF SignUps!FetchAccounts, SignUps!UpsertUsers, SignUps!SweepOrphans, SignUps!Accounts, SignUpInv, SignUpTyped,
     SignUpAssumption, Numbered
<1>3. \/ user' = user
      \/ user' = [user EXCEPT !.st = "orphaned"] /\ user.ak # 0
      \/ /\ user.st = SignUps!None
         /\ \E k \in sync.fetched : user' = [ak |-> k, st |-> "active", team |-> SignUps!None]
  BY DEF SignUps!FetchAccounts, SignUps!UpsertUsers, SignUps!SweepOrphans, SignUps!NoPk
<1>4. /\ user' \in [ak : Pks \cup {0}, st : {SignUps!None, "claim", "active", "orphaned"}, team : Teams \cup {SignUps!None}]
      /\ UserShape' /\ user'.ak <= given.accts /\ (user'.st = "claim" => user.st = "claim")
      /\ \/ user'.ak = user.ak /\ user'.team = user.team
         \/ user.team = SignUps!None
  BY <1>3 DEF SignUpInv, SignUpTyped, SignUpAssumption, Numbered, UserShape, SignUps!None
<1>5. SignUpTyped' /\ Numbered'
  BY <1>1, <1>2, <1>4 DEF SignUpInv, SignUpTyped, Numbered
<1>6. Accounted' /\ ClaimKept' /\ ApprovedKept'
  BY <1>1, <1>4 DEF SignUpInv, Accounted, ClaimKept, ApprovedKept, SignUps!Accounts
<1> QED
  BY <1>1, <1>4, <1>5, <1>6 DEF SignUpInv, DecisionSound, FormSound, RowSound, AccountsApart, SignUps!Accounts

LEMMA SignUpStep ==
  ASSUME SignUpAssumption
  PROVE  SignUpInv /\ [SignUps!Next]_SignUps!vars => SignUpInv'
<1> SUFFICES ASSUME SignUpInv, [SignUps!Next]_SignUps!vars PROVE SignUpInv'
  OBVIOUS
<1>1. CASE UNCHANGED SignUps!vars
  BY <1>1 DEF SignUps!vars, SignUpInv, SignUpTyped, Numbered, DecisionSound, FormSound, RowSound, AccountsApart, Accounted,
     ClaimKept, UserShape, ApprovedKept, SignUps!Accounts
<1>2. ASSUME NEW d \in Deciders, SignUps!Approves(d) PROVE SignUpInv'
  BY <1>2, ClaimIsMinted, AccountIsLooked, AccountIsCreated, ApprovalTransacts, ApprovalCompensates,
     DecisionFails DEF SignUps!Approves
<1> QED
  BY <1>1, <1>2, FormsAreRead, RequestsAreMade, RequestsAreSubmitted, DecisionsBegin, DenialIsWritten, AccountsAreDeleted,
     CleanupEnds, UsersAreSynced DEF SignUps!Next

\* Only a denial that was read before writes over an approval, and nothing
\* but a new request over a denial.
LEMMA SignUpDecides ==
  ASSUME SignUpAssumption
  PROVE  SignUpInv /\ [SignUps!Next]_SignUps!vars => SignUps!KeepsDecisions
<1> SUFFICES ASSUME SignUpInv, [SignUps!Next]_SignUps!vars,
                    NEW r \in Rows, req[r].st # req'[r].st
             PROVE  /\ req[r].st = "approved" => r \in events'.lateDenial
                    /\ req[r].st = "denied" => req'[r].st = SignUps!None
  BY DEF SignUps!KeepsDecisions
<1>0. ~UNCHANGED req /\ req \in [Rows -> ReqType]
  BY DEF SignUpInv, SignUpTyped
<1>1. ASSUME NEW v \in Visitors, SignUps!InitiateSignup(v)
      PROVE  req[r].st \notin {"approved", "denied"} \/ (req[r].st = "denied" /\ req'[r] = SignUps!NoReq)
  <2>1. given.rows + 1 \in Rows
    BY <1>0, <1>1 DEF SignUps!InitiateSignup
  <2>2. given.rows \in Nat
    BY RowIds DEF SignUpInv
  <2>3. req[given.rows + 1] = SignUps!NoReq
    BY <2>1, <2>2 DEF SignUpInv, Numbered
  <2> QED
    BY <1>1, <2>3 DEF SignUps!InitiateSignup, SignUps!NoReq, SignUps!None
<1>2. ASSUME NEW v \in Visitors, NEW t \in Teams, SignUps!SubmitTeamAccess(v, t)
      PROVE  req[r].st \notin {"approved", "denied"}
  BY <1>0, <1>2 DEF SignUps!SubmitTeamAccess, ReqType, SignUps!None
<1>3. ASSUME NEW d \in Deciders, SignUps!Transact(d)
      PROVE  req[r].st = "pending"
  BY <1>0, <1>3 DEF SignUps!Transact, SignUps!Locked, SignUps!Commit
<1>4. ASSUME NEW d \in Deciders, SignUps!WriteDenial(d)
      PROVE  (req[r].st = "approved" => r \in events'.lateDenial) /\ req[r].st # "denied"
  BY <1>0, <1>4 DEF SignUps!WriteDenial, SignUpInv, SignUpTyped
<1>5. \/ \E v \in Visitors : SignUps!InitiateSignup(v) \/ \E t \in Teams : SignUps!SubmitTeamAccess(v, t)
      \/ \E d \in Deciders : SignUps!Transact(d) \/ SignUps!WriteDenial(d)
  <2>1. SignUps!Next
    BY <1>0 DEF SignUps!vars
  <2>2. \A v \in Visitors : ~SignUps!DetermineEmailState(v) /\ \A q \in Rows : ~SignUps!ReadToken(v, q)
    BY <1>0 DEF SignUps!DetermineEmailState, SignUps!ReadToken
  <2>3. \A d \in Deciders : /\ \A q \in Rows : ~SignUps!ApproveRequest(d, q) /\ ~SignUps!DenyRequest(d, q)
                            /\ SignUps!Approves(d) => SignUps!Transact(d)
    BY <1>0 DEF SignUps!ApproveRequest, SignUps!DenyRequest, SignUps!Approves, SignUps!MintClaim, SignUps!FindReclaimable,
       SignUps!LookupAccount, SignUps!CreateAccount, SignUps!Compensate, SignUps!Fails
  <2>4. ~SignUps!FetchAccounts /\ ~SignUps!UpsertUsers /\ ~SignUps!SweepOrphans
    BY <1>0 DEF SignUps!FetchAccounts, SignUps!UpsertUsers, SignUps!SweepOrphans
  <2>5. \A k \in Pks : ~SignUps!CleanupAccount(k) /\ ~SignUps!CleanupFails(k) /\ ~SignUps!OperatorDeletes(k)
    BY <1>0 DEF SignUps!CleanupAccount, SignUps!CleanupFails, SignUps!OperatorDeletes
  <2>6. \/ \E v \in Visitors : SignUps!InitiateSignup(v) \/ \E t \in Teams : SignUps!SubmitTeamAccess(v, t)
        \/ \E d \in Deciders : SignUps!Approves(d) \/ SignUps!WriteDenial(d)
    BY <2>1, <2>2, <2>3, <2>4, <2>5 DEF SignUps!Next
  <2> QED
    BY <2>3, <2>6
<1> QED
  BY <1>1, <1>2, <1>3, <1>4, <1>5 DEF SignUps!NoReq

-----------------------------------------------------------------------------
(* The service accounts.                                                   *)

CONSTANTS Channels, Usernames, MaxRequests
VARIABLES creds, owned, cand, marks

Services == INSTANCE ServiceAccounts WITH row <- creds, acct <- owned, past <- marks

ServiceBounds ==
  /\ Services!None \notin Usernames /\ Services!None \notin Channels
  /\ \E n \in Nat : Pks = 1 .. n
  /\ MaxRequests \in Nat /\ MaxFaults \in Nat

PwType == 0 .. MaxRequests
CredType == [user : Usernames \cup {Services!None}, pw : PwType, id : Pks \cup {0}]
AcctType == [user : Usernames, pw : PwType, owner : Channels]
OpType == [kind : {"provision", "rotate", "delete"}, ch : Channels, user : Usernames,
           pw : PwType, pk : Pks \cup {0}, st : {"pending", "found", "set"}]
MarkType == [overlap : SUBSET Channels, failed : SUBSET Channels, stale : SUBSET Channels,
             clash : BOOLEAN, lost : BOOLEAN]

ServicesTyped ==
  /\ creds \in [Channels -> CredType]
  /\ owned \in [Pks -> AcctType \cup {Services!NoAcct}]
  /\ made \in 0 .. Cardinality(Pks)
  /\ cand \in [Channels -> Usernames \cup {Services!None}]
  /\ ops \in Seq(OpType)
  /\ used \in [requests : 0 .. MaxRequests, faults : 0 .. MaxFaults]
  /\ marks \in MarkType

\* Of a queue q: an operation of channel c; one for the username u.
Of(q, i, c) == i \in DOMAIN q /\ q[i].ch = c
For(q, i, c, kind, u) == Of(q, i, c) /\ q[i].kind = kind /\ q[i].user = u
OldestOf(q, i, c) == Of(q, i, c) /\ \A j \in DOMAIN q : q[j].ch = c => i <= j

\* Of the accounts a: those of channel c named u.
Named(a, c, u) == {k \in Pks : a[k].owner = c /\ a[k].user = u}

\* Only the oldest operation of a channel is started.
InOrder(q, c) ==
  \A i, j \in DOMAIN q : i < j /\ Of(q, i, c) /\ Of(q, j, c) => q[j].st = "pending"

\* What an operation is for is still wanted by the row r or deleted later; what
\* is deleted and wanted again is provisioned later; the last one has the row's
\* password; between a deletion and a rotation there is a provisioning.
Followed(q, r, c) ==
  \A i \in DOMAIN q : Of(q, i, c) =>
    /\ q[i].kind # "delete" =>
         \/ r.user = q[i].user
         \/ \E j \in DOMAIN q : i < j /\ For(q, j, c, "delete", q[i].user)
    /\ q[i].kind = "delete" =>
         \/ r.user = Services!None
         \/ \E j \in DOMAIN q : i < j /\ For(q, j, c, "provision", r.user)
    /\ \/ r.user = Services!None \/ r.pw = q[i].pw
       \/ \E j \in DOMAIN q : i < j /\ Of(q, j, c)
Again(q, c) ==
  \A i, j \in DOMAIN q : i < j /\ Of(q, i, c) /\ Of(q, j, c) /\ q[i].kind = "delete" /\ q[j].kind = "rotate" =>
    \E m \in DOMAIN q : i < m /\ m < j /\ For(q, m, c, "provision", q[j].user)

\* The id that a row or a deletion has is that of the only account it can mean,
\* unless a provisioning has yet to say which, or the name is used again.
IdsRight(q, r, a, c) ==
  /\ r.user = Services!None => r.id = 0
  /\ r.user # Services!None /\ r.id # 0 =>
       \/ Named(a, c, r.user) \subseteq {r.id}
       \/ \E j \in DOMAIN q : For(q, j, c, "provision", r.user)
  /\ \A i \in DOMAIN q : Of(q, i, c) /\ q[i].kind = "delete" /\ q[i].pk # 0 =>
       \/ Named(a, c, q[i].user) \subseteq {q[i].pk}
       \/ \E j \in DOMAIN q : j < i /\ For(q, j, c, "provision", q[i].user)
       \/ \E j \in DOMAIN q : i < j /\ Of(q, j, c) /\ q[j].user = q[i].user

\* An account is there for a row that wants it or an operation that ends it.
Wanted(q, r, a, c) ==
  \A k \in Pks : a[k].owner = c =>
    r.user = a[k].user \/ \E j \in DOMAIN q : Of(q, j, c) /\ q[j].user = a[k].user

\* What a provisioning has found is there until it ends.
FoundIsThere(q, a, c) ==
  \A i \in DOMAIN q : Of(q, i, c) /\ q[i].st # "pending" =>
    /\ q[i].pk # 0
    /\ q[i].kind = "provision" => q[i].pk \in Named(a, c, q[i].user)
    /\ q[i].st = "set" => q[i].kind = "provision" /\ a[q[i].pk].pw = q[i].pw

Ordered(q, r, a, c) ==
  /\ InOrder(q, c) /\ Followed(q, r, c) /\ Again(q, c)
  /\ IdsRight(q, r, a, c) /\ Wanted(q, r, a, c) /\ FoundIsThere(q, a, c)

\* As long as no operation failed: a row that nothing is about to provision has
\* its account, and so has a rotation.
Provisioned(q, r, a, c) ==
  r.user # Services!None /\ ~(\E j \in DOMAIN q : For(q, j, c, "provision", r.user)) =>
    /\ r.id # 0 /\ r.id \in Named(a, c, r.user)
    /\ (\E j \in DOMAIN q : Of(q, j, c)) \/ a[r.id].pw = r.pw
RotationsFind(q, a, c) ==
  \A i \in DOMAIN q : Of(q, i, c) /\ q[i].kind = "rotate" =>
    /\ \/ Named(a, c, q[i].user) # {}
       \/ \E j \in DOMAIN q : j < i /\ For(q, j, c, "provision", q[i].user)
    /\ q[i].st # "pending" => q[i].pk \in Named(a, c, q[i].user)
Smooth(q, r, a, c) == Provisioned(q, r, a, c) /\ RotationsFind(q, a, c)

\* A username has one account and, unless it was taken from under its holder,
\* one channel that holds it; ids are given out once and say whose account it is.
NamesApart(a) == \A k, l \in Pks : a[k] # Services!NoAcct /\ a[l].user = a[k].user => k = l
Holds(c, u) == creds[c].user = u \/ \E i \in DOMAIN ops : ops[i].ch = c /\ ops[i].user = u
HoldersApart == \A c, d \in Channels, u \in Usernames : Holds(c, u) /\ Holds(d, u) => c = d

\* Whose operations ran out of order, or wrote an id under a later request; and
\* what excuses everything.
Bad == marks.overlap \cup marks.stale
Excused == marks.clash \/ marks.lost

RowOwn(c, id) == id # 0 => id <= made /\ owned[id].owner \in {c, Services!None}
IdOwn(o) ==
  o.pk # 0 =>
    /\ o.pk <= made
    /\ \/ owned[o.pk].owner \in {o.ch, Services!None}
       \/ o.kind # "provision" /\ (Excused \/ owned[o.pk].owner \in Bad)
IdsOwn ==
  /\ \A k \in Pks : k > made => owned[k] = Services!NoAcct
  /\ \A c \in Channels : RowOwn(c, creds[c].id)
  /\ \A i \in DOMAIN ops : IdOwn(ops[i])

ServicesInv ==
  /\ ServicesTyped /\ NamesApart(owned) /\ IdsOwn
  /\ marks.clash \/ HoldersApart
  /\ Excused \/ \A c \in Channels \ Bad :
       /\ Ordered(ops, creds[c], owned, c)
       /\ c \in marks.failed \/ Smooth(ops, creds[c], owned, c)

LEMMA ServicesInvHolds == ASSUME ServiceBounds PROVE ServicesInv => Services!AccountsFollowRows
<1> SUFFICES ASSUME ServicesInv PROVE Services!AccountsFollowRows
  OBVIOUS
<1>1. PwType = Services!Passwords \cup {0}
  BY DEF ServiceBounds, PwType, Services!Passwords
<1>2. Cardinality(Pks) = Services!Cardinality(Pks)
  BY DEF Cardinality, Services!Cardinality, IsFiniteSet, Services!IsFiniteSet
<1>o. \A i \in DOMAIN ops : ops[i] \in OpType
  BY DEF ServicesInv, ServicesTyped
<1>3. Services!TypeOK
  BY <1>1, <1>2, <1>o DEF ServicesInv, ServicesTyped, Services!TypeOK, CredType, AcctType, OpType, MarkType,
     Services!NoPk, Services!NoPw
<1>4. ASSUME NEW c \in Channels, Services!Undisturbed(c), ~Services!Busy(c)
      PROVE  /\ creds[c].user # Services!None => creds[c].id # 0 /\
                  owned[creds[c].id] = [user |-> creds[c].user, pw |-> creds[c].pw, owner |-> c]
             /\ creds[c].user = Services!None => \A k \in Pks : owned[k].owner # c
  <2>1. ~Excused /\ c \in Channels \ Bad /\ c \notin marks.failed
    BY <1>4 DEF Services!Undisturbed, Excused, Bad
  <2>2. Ordered(ops, creds[c], owned, c) /\ Provisioned(ops, creds[c], owned, c)
    BY <2>1 DEF ServicesInv, Smooth
  <2>3. \A j \in DOMAIN ops : ~Of(ops, j, c)
    BY <1>4 DEF Services!Busy, Of
  <2>4. ASSUME creds[c].user # Services!None
        PROVE  creds[c].id # 0 /\ owned[creds[c].id] = [user |-> creds[c].user, pw |-> creds[c].pw, owner |-> c]
    <3>1. /\ creds[c].id # 0 /\ creds[c].id \in Pks /\ owned[creds[c].id].owner = c
          /\ owned[creds[c].id].user = creds[c].user /\ owned[creds[c].id].pw = creds[c].pw
      BY <2>2, <2>3, <2>4 DEF Provisioned, For, Named
    <3>2. owned[creds[c].id] \in AcctType
      BY <3>1 DEF ServicesInv, ServicesTyped, ServiceBounds, Services!NoAcct
    <3> QED
      BY <3>1, <3>2 DEF AcctType
  <2>5. ASSUME creds[c].user = Services!None, NEW k \in Pks PROVE owned[k].owner # c
    <3>1. owned[k].owner = c => owned[k].user = Services!None
      BY <2>2, <2>3, <2>5 DEF Ordered, Wanted, Of
    <3>2. owned[k].owner = c => owned[k] \in AcctType
      BY DEF ServicesInv, ServicesTyped, ServiceBounds, Services!NoAcct
    <3> QED
      BY <3>1, <3>2 DEF AcctType, ServiceBounds
  <2> QED
    BY <2>4, <2>5
<1> QED
  BY <1>3, <1>4 DEF Services!AccountsFollowRows, Services!CredentialsMatch, Services!NothingLeftBehind, Services!NoPk

LEMMA ServicesStart == ASSUME ServiceBounds PROVE Services!Init => ServicesInv
<1> SUFFICES ASSUME Services!Init PROVE ServicesInv
  OBVIOUS
<1> USE DEF Services!Init, Services!NoRow, Services!NoAcct, Services!None, Services!NoPk, Services!NoPw
<1>1. PICK n \in Nat : Pks = 1 .. n
  BY DEF ServiceBounds
<1>2. Cardinality(Pks) \in Nat
  BY <1>1, FS_Interval
<1>3. ServicesTyped
  BY <1>2 DEF ServicesTyped, ServiceBounds, CredType, AcctType, PwType, MarkType
<1>4. ops = <<>> /\ DOMAIN ops = {}
  OBVIOUS
<1>5. NamesApart(owned) /\ IdsOwn
  BY <1>4 DEF NamesApart, IdsOwn, RowOwn
<1>7. HoldersApart
  BY <1>4 DEF HoldersApart, Holds, ServiceBounds
<1>8. ASSUME NEW c \in Channels
      PROVE  Ordered(ops, creds[c], owned, c) /\ Smooth(ops, creds[c], owned, c)
  <2>1. InOrder(ops, c) /\ Followed(ops, creds[c], c) /\ Again(ops, c) /\ RotationsFind(ops, owned, c)
    BY <1>4 DEF InOrder, Followed, Again, RotationsFind
  <2>2. IdsRight(ops, creds[c], owned, c) /\ Wanted(ops, creds[c], owned, c)
    BY <1>4, <1>8 DEF IdsRight, Wanted, ServiceBounds
  <2>3. FoundIsThere(ops, owned, c) /\ Provisioned(ops, creds[c], owned, c)
    BY <1>4 DEF FoundIsThere, Provisioned
  <2> QED
    BY <2>1, <2>2, <2>3 DEF Ordered, Smooth
<1> QED
  BY <1>3, <1>5, <1>7, <1>8 DEF ServicesInv

\* f and g match the operations of channel c in the queue p with those, without
\* the i-th, that it has in q.
Matched(q, p, f, g, c, i) ==
  /\ \A j \in DOMAIN p : p[j].ch = c => f[j] \in DOMAIN q \ {i} /\ q[f[j]] = p[j] /\ g[f[j]] = j
  /\ \A j \in DOMAIN q \ {i} : q[j].ch = c => g[j] \in DOMAIN p /\ p[g[j]] = q[j] /\ f[g[j]] = j
  /\ \A j, k \in DOMAIN p : p[j].ch = c /\ p[k].ch = c => (j < k <=> f[j] < f[k])

\* An operation that ends leaves the others in their order.
LEMMA Removing ==
  ASSUME NEW q \in Seq(OpType), NEW i \in DOMAIN q, NEW p, p = Services!RemoveAt(q, i)
  PROVE  /\ p \in Seq(OpType)
         /\ \A j \in DOMAIN p : \E k \in DOMAIN q : p[j] = q[k]
         /\ \A k \in DOMAIN q \ {i} : \E j \in DOMAIN p : p[j] = q[k]
         /\ \E f, g : \A c \in Channels : Matched(q, p, f, g, c, i)
<1> DEFINE f == [j \in 1 .. Len(q) |-> IF j < i THEN j ELSE j + 1]
           g == [j \in 1 .. Len(q) |-> IF j < i THEN j ELSE j - 1]
<1>1. p = SubSeq(q, 1, i - 1) \o SubSeq(q, i + 1, Len(q))
  BY DEF Services!RemoveAt
<1>2. i \in 1 .. Len(q) /\ Len(q) \in Nat /\ DOMAIN q = 1 .. Len(q)
  OBVIOUS
<1>a. /\ SubSeq(q, 1, i - 1) \in Seq(OpType) /\ Len(SubSeq(q, 1, i - 1)) = i - 1
      /\ \A j \in 1 .. i - 1 : SubSeq(q, 1, i - 1)[j] = q[j]
  BY <1>2
<1>b. /\ SubSeq(q, i + 1, Len(q)) \in Seq(OpType) /\ Len(SubSeq(q, i + 1, Len(q))) = Len(q) - i
      /\ \A j \in 1 .. Len(q) - i : SubSeq(q, i + 1, Len(q))[j] = q[i + j]
  BY <1>2
<1>c. PICK s : s = SubSeq(q, 1, i - 1)
  OBVIOUS
<1>d. PICK t : t = SubSeq(q, i + 1, Len(q))
  OBVIOUS
<1>e. s \in Seq(OpType) /\ t \in Seq(OpType) /\ Len(s) = i - 1 /\ Len(t) = Len(q) - i /\ p = s \o t
  BY <1>1, <1>a, <1>b, <1>c, <1>d
<1>f. /\ p \in Seq(OpType) /\ Len(p) = Len(s) + Len(t)
      /\ \A j \in 1 .. Len(s) : p[j] = s[j]
      /\ \A j \in 1 .. Len(t) : p[Len(s) + j] = t[j]
  <2>1. s \in Seq(OpType) /\ t \in Seq(OpType) /\ p = s \o t
    BY <1>e
  <2> QED
    BY <2>1, Joined
<1>3. p \in Seq(OpType) /\ Len(p) = Len(q) - 1 /\ DOMAIN p = 1 .. Len(q) - 1
  <2>1. Len(p) = Len(q) - 1
    BY <1>2, <1>e, <1>f
  <2> QED
    BY <2>1, <1>f
<1>4. \A j \in 1 .. Len(q) - 1 : p[j] = IF j < i THEN q[j] ELSE q[j + 1]
  <2> SUFFICES ASSUME NEW j \in 1 .. Len(q) - 1 PROVE p[j] = IF j < i THEN q[j] ELSE q[j + 1]
    OBVIOUS
  <2>1. CASE j < i
    BY <2>1, <1>2, <1>a, <1>c, <1>e, <1>f
  <2>2. CASE ~(j < i)
    <3>1. j - (i - 1) \in 1 .. Len(q) - i /\ i + (j - (i - 1)) = j + 1 /\ (i - 1) + (j - (i - 1)) = j
      BY <2>2, <1>2
    <3>2. p[j] = t[j - (i - 1)]
      BY <3>1, <1>e, <1>f
    <3> QED
      BY <2>2, <3>1, <3>2, <1>b, <1>d
  <2> QED
    BY <2>1, <2>2
<1>5. \A j \in DOMAIN p : f[j] \in DOMAIN q \ {i} /\ q[f[j]] = p[j] /\ g[f[j]] = j
  BY <1>2, <1>3, <1>4
<1>6. \A j \in DOMAIN q \ {i} : g[j] \in DOMAIN p /\ p[g[j]] = q[j] /\ f[g[j]] = j
  BY <1>2, <1>3, <1>4
<1>7. \A j, k \in DOMAIN p : j < k <=> f[j] < f[k]
  BY <1>2, <1>3
<1> HIDE DEF f, g
<1>8. \A c \in Channels : Matched(q, p, f, g, c, i)
  BY <1>5, <1>6, <1>7 DEF Matched
<1> QED
  BY ZenonT(40), <1>3, <1>5, <1>6, <1>8

\* What a step leaves alone of channel c keeps it as it was.
LEMMA OthersKeep ==
  ASSUME NEW q \in Seq(OpType), NEW p \in Seq(OpType), NEW f, NEW g, NEW i, NEW c,
         Matched(q, p, f, g, c, i), i \in DOMAIN q => q[i].ch # c,
         NEW a, NEW b, NEW r,
         \A k \in Pks : b[k].owner = c \/ a[k].owner = c => b[k] = a[k]
  PROVE  /\ Ordered(q, r, a, c) => Ordered(p, r, b, c)
         /\ Smooth(q, r, a, c) => Smooth(p, r, b, c)
<1>1. /\ \A j \in DOMAIN p : p[j].ch = c => f[j] \in DOMAIN q /\ q[f[j]] = p[j] /\ g[f[j]] = j
      /\ \A j \in DOMAIN q : q[j].ch = c => g[j] \in DOMAIN p /\ p[g[j]] = q[j] /\ f[g[j]] = j
      /\ \A j, k \in DOMAIN p : p[j].ch = c /\ p[k].ch = c => (j < k <=> f[j] < f[k])
  BY DEF Matched
<1>2. \A u : Named(b, c, u) = Named(a, c, u)
  BY DEF Named
<1>3. InOrder(q, c) => InOrder(p, c)
  BY <1>1 DEF InOrder, Of
<1>4. ASSUME Followed(q, r, c) PROVE Followed(p, r, c)
  <2> SUFFICES ASSUME NEW j \in DOMAIN p, p[j].ch = c
               PROVE  /\ p[j].kind # "delete" => \/ r.user = p[j].user
                                                 \/ \E k \in DOMAIN p : j < k /\ For(p, k, c, "delete", p[j].user)
                      /\ p[j].kind = "delete" => \/ r.user = Services!None
                                                 \/ \E k \in DOMAIN p : j < k /\ For(p, k, c, "provision", r.user)
                      /\ \/ r.user = Services!None \/ r.pw = p[j].pw
                         \/ \E k \in DOMAIN p : j < k /\ Of(p, k, c)
    BY DEF Followed, Of
  <2>1. f[j] \in DOMAIN q /\ q[f[j]] = p[j]
    BY <1>1
  <2>2. \A k \in DOMAIN q : f[j] < k /\ q[k].ch = c => g[k] \in DOMAIN p /\ j < g[k] /\ p[g[k]] = q[k]
    BY <1>1
  <2> QED
    BY <1>4, <2>1, <2>2 DEF Followed, Of, For
<1>5. ASSUME Again(q, c) PROVE Again(p, c)
  <2> SUFFICES ASSUME NEW j \in DOMAIN p, NEW k \in DOMAIN p, j < k, p[j].ch = c, p[k].ch = c,
                      p[j].kind = "delete", p[k].kind = "rotate"
               PROVE  \E m \in DOMAIN p : j < m /\ m < k /\ For(p, m, c, "provision", p[k].user)
    BY DEF Again, Of
  <2>1. f[j] \in DOMAIN q /\ q[f[j]] = p[j] /\ f[k] \in DOMAIN q /\ q[f[k]] = p[k] /\ f[j] < f[k]
    BY <1>1
  <2>2. PICK m \in DOMAIN q : f[j] < m /\ m < f[k] /\ For(q, m, c, "provision", q[f[k]].user)
    BY <1>5, <2>1 DEF Again, Of
  <2>3. g[m] \in DOMAIN p /\ p[g[m]] = q[m] /\ f[g[m]] = m
    BY <1>1, <2>2 DEF For, Of
  <2>4. j < g[m] /\ g[m] < k
    BY <1>1, <2>2, <2>3 DEF For, Of
  <2> QED
    BY <2>1, <2>2, <2>3, <2>4 DEF For, Of
<1>6. ASSUME IdsRight(q, r, a, c) PROVE IdsRight(p, r, b, c)
  <2>1. \A j \in DOMAIN q : For(q, j, c, "provision", r.user) => g[j] \in DOMAIN p /\ For(p, g[j], c, "provision", r.user)
    BY <1>1 DEF For, Of
  <2>2. ASSUME NEW j \in DOMAIN p, Of(p, j, c), p[j].kind = "delete", p[j].pk # 0
        PROVE  \/ Named(b, c, p[j].user) \subseteq {p[j].pk}
               \/ \E k \in DOMAIN p : k < j /\ For(p, k, c, "provision", p[j].user)
               \/ \E k \in DOMAIN p : j < k /\ Of(p, k, c) /\ p[k].user = p[j].user
    <3>1. f[j] \in DOMAIN q /\ q[f[j]] = p[j]
      BY <1>1, <2>2 DEF Of
    <3>2. \A k \in DOMAIN q : q[k].ch = c =>
            g[k] \in DOMAIN p /\ p[g[k]] = q[k] /\ (j < g[k] <=> f[j] < k) /\ (g[k] < j <=> k < f[j])
      BY <1>1, <2>2 DEF Of
    <3>3. \/ Named(a, c, q[f[j]].user) \subseteq {q[f[j]].pk}
          \/ \E k \in DOMAIN q : k < f[j] /\ For(q, k, c, "provision", q[f[j]].user)
          \/ \E k \in DOMAIN q : f[j] < k /\ Of(q, k, c) /\ q[k].user = q[f[j]].user
      BY <1>6, <2>2, <3>1 DEF IdsRight, Of
    <3>4. ASSUME NEW k \in DOMAIN q, k < f[j], For(q, k, c, "provision", q[f[j]].user)
          PROVE  g[k] \in DOMAIN p /\ g[k] < j /\ For(p, g[k], c, "provision", p[j].user)
      BY <3>1, <3>2, <3>4 DEF For, Of
    <3>5. ASSUME NEW k \in DOMAIN q, f[j] < k, Of(q, k, c), q[k].user = q[f[j]].user
          PROVE  g[k] \in DOMAIN p /\ j < g[k] /\ Of(p, g[k], c) /\ p[g[k]].user = p[j].user
      BY <3>1, <3>2, <3>5 DEF Of
    <3> QED
      BY <1>2, <3>1, <3>3, <3>4, <3>5
  <2> QED
    BY <1>2, <1>6, <2>1, <2>2 DEF IdsRight
<1>7. ASSUME Wanted(q, r, a, c) PROVE Wanted(p, r, b, c)
  <2> SUFFICES ASSUME NEW k \in Pks, b[k].owner = c
               PROVE  r.user = b[k].user \/ \E j \in DOMAIN p : Of(p, j, c) /\ p[j].user = b[k].user
    BY DEF Wanted
  <2>1. b[k] = a[k]
    OBVIOUS
  <2>2. \A j \in DOMAIN q : Of(q, j, c) => g[j] \in DOMAIN p /\ p[g[j]] = q[j]
    BY <1>1 DEF Of
  <2> QED
    BY <1>7, <2>1, <2>2 DEF Wanted, Of
<1>8. ASSUME FoundIsThere(q, a, c) PROVE FoundIsThere(p, b, c)
  <2> SUFFICES ASSUME NEW j \in DOMAIN p, p[j].ch = c, p[j].st # "pending"
               PROVE  /\ p[j].pk # 0
                      /\ p[j].kind = "provision" => p[j].pk \in Named(b, c, p[j].user)
                      /\ p[j].st = "set" => p[j].kind = "provision" /\ b[p[j].pk].pw = p[j].pw
    BY DEF FoundIsThere, Of
  <2>1. f[j] \in DOMAIN q /\ q[f[j]] = p[j]
    BY <1>1
  <2>2. \A k \in Named(a, c, p[j].user) : b[k] = a[k]
    BY DEF Named
  <2> QED
    BY <1>2, <1>8, <2>1, <2>2 DEF FoundIsThere, Of
<1>9. ASSUME Provisioned(q, r, a, c) PROVE Provisioned(p, r, b, c)
  <2>1. \A j \in DOMAIN q : Of(q, j, c) => g[j] \in DOMAIN p /\ p[g[j]] = q[j]
    BY <1>1 DEF Of
  <2>2. (\E j \in DOMAIN q : For(q, j, c, "provision", r.user)) => \E j \in DOMAIN p : For(p, j, c, "provision", r.user)
    BY <2>1 DEF For, Of
  <2>3. (\E j \in DOMAIN q : Of(q, j, c)) => \E j \in DOMAIN p : Of(p, j, c)
    BY <2>1 DEF Of
  <2>4. r.id \in Named(a, c, r.user) => b[r.id] = a[r.id]
    BY DEF Named
  <2> QED
    BY <1>2, <1>9, <2>2, <2>3, <2>4 DEF Provisioned
<1>10. ASSUME RotationsFind(q, a, c) PROVE RotationsFind(p, b, c)
  <2> SUFFICES ASSUME NEW j \in DOMAIN p, p[j].ch = c, p[j].kind = "rotate"
               PROVE  /\ \/ Named(b, c, p[j].user) # {}
                         \/ \E k \in DOMAIN p : k < j /\ For(p, k, c, "provision", p[j].user)
                      /\ p[j].st # "pending" => p[j].pk \in Named(b, c, p[j].user)
    BY DEF RotationsFind, Of
  <2>1. f[j] \in DOMAIN q /\ q[f[j]] = p[j]
    BY <1>1
  <2>2. \A k \in DOMAIN q : k < f[j] /\ For(q, k, c, "provision", p[j].user) =>
          g[k] \in DOMAIN p /\ g[k] < j /\ For(p, g[k], c, "provision", p[j].user)
    BY <1>1 DEF For, Of
  <2> QED
    BY <1>2, <1>10, <2>1, <2>2 DEF RotationsFind, Of
<1> QED
  BY <1>3, <1>4, <1>5, <1>6, <1>7, <1>8, <1>9, <1>10 DEF Ordered, Smooth

\* The oldest operation of a channel makes progress in its place: accounts may
\* get another password, and its provisioning may make one.
CanAdvance(q, i, o, c, a, b) ==
  /\ OldestOf(q, i, c)
  /\ o.kind = q[i].kind /\ o.ch = c /\ o.user = q[i].user /\ o.pw = q[i].pw
  /\ \A k \in Pks : a[k].owner = c => b[k].owner = c /\ b[k].user = a[k].user
  /\ \A k \in Pks : b[k].owner = c =>
       \/ a[k].owner = c /\ a[k].user = b[k].user
       \/ b[k].user = o.user /\ o.kind = "provision"
  /\ o.st # "pending" =>
       /\ o.pk # 0
       /\ o.kind = "provision" => o.pk \in Named(b, c, o.user)
       /\ o.st = "set" => o.kind = "provision" /\ b[o.pk].pw = o.pw
  /\ o.kind = "delete" /\ o.pk # 0 => o.pk = q[i].pk \/ Named(b, c, o.user) \subseteq {o.pk}
HasFound(o, c, b) == o.kind = "rotate" /\ o.st # "pending" => o.pk \in Named(b, c, o.user)

GoesOn(q, p, i, o) == p = [q EXCEPT ![i] = o]

LEMMA OldestGoesOn ==
  ASSUME NEW q \in Seq(OpType), NEW i \in DOMAIN q, NEW o \in OpType, NEW p, GoesOn(q, p, i, o),
         NEW c, NEW r, NEW a, NEW b, CanAdvance(q, i, o, c, a, b), Ordered(q, r, a, c)
  PROVE  /\ Ordered(p, r, b, c)
         /\ Smooth(q, r, a, c) /\ HasFound(o, c, b) => Smooth(p, r, b, c)
<1>0. /\ OldestOf(q, i, c)
      /\ DOMAIN p = DOMAIN q /\ p[i] = o /\ \A j \in DOMAIN q \ {i} : p[j] = q[j]
      /\ p[i].kind = q[i].kind /\ p[i].ch = q[i].ch /\ p[i].user = q[i].user /\ p[i].pw = q[i].pw
      /\ \A k \in Pks : a[k].owner = c => b[k].owner = c /\ b[k].user = a[k].user
      /\ \A k \in Pks : b[k].owner = c =>
           \/ a[k].owner = c /\ a[k].user = b[k].user
           \/ b[k].user = q[i].user /\ q[i].kind = "provision"
      /\ p[i].st # "pending" =>
           /\ p[i].pk # 0
           /\ p[i].kind = "provision" => p[i].pk \in Named(b, c, p[i].user)
           /\ p[i].st = "set" => p[i].kind = "provision" /\ b[p[i].pk].pw = p[i].pw
      /\ p[i].kind = "delete" /\ p[i].pk # 0 => p[i].pk = q[i].pk \/ Named(b, c, p[i].user) \subseteq {p[i].pk}
  BY DEF CanAdvance, OldestOf, Of, GoesOn
<1>1. /\ \A j \in DOMAIN q : p[j].kind = q[j].kind /\ p[j].ch = q[j].ch /\ p[j].user = q[j].user /\ p[j].pw = q[j].pw
      /\ \A j \in DOMAIN q : q[j].ch = c /\ j # i => i < j /\ q[j].st = "pending" /\ p[j] = q[j]
      /\ q[i].ch = c /\ DOMAIN q \subseteq Int /\ DOMAIN p = DOMAIN q
  BY <1>0 DEF OldestOf, Of, Ordered, InOrder
<1>2. /\ \A j : Of(p, j, c) <=> Of(q, j, c)
      /\ \A j, kind, u : For(p, j, c, kind, u) <=> For(q, j, c, kind, u)
  BY <1>1 DEF Of, For
<1>3. /\ \A u : Named(a, c, u) \subseteq Named(b, c, u)
      /\ \A u : (u = q[i].user /\ q[i].kind = "provision") \/ Named(b, c, u) = Named(a, c, u)
  BY <1>0 DEF Named
<1>4. For(p, i, c, q[i].kind, q[i].user)
  BY <1>1 DEF For, Of
<1>5. InOrder(p, c)
  BY <1>1, <1>2 DEF InOrder, Of
<1>6. Followed(p, r, c)
  BY <1>1, <1>2 DEF Followed, Ordered
<1>7. Again(p, c)
  BY <1>1, <1>2 DEF Again, Ordered
<1>8. IdsRight(p, r, b, c)
  <2>1. /\ r.user = Services!None => r.id = 0
        /\ r.user # Services!None /\ r.id # 0 =>
             \/ Named(b, c, r.user) \subseteq {r.id}
             \/ \E j \in DOMAIN p : For(p, j, c, "provision", r.user)
    BY <1>1, <1>2, <1>3, <1>4 DEF Ordered, IdsRight
  <2>2. ASSUME NEW j \in DOMAIN q, Of(q, j, c), q[j].kind = "delete", p[j].pk # 0
        PROVE  \/ Named(b, c, q[j].user) \subseteq {p[j].pk}
               \/ \E k \in DOMAIN p : k < j /\ For(p, k, c, "provision", q[j].user)
               \/ \E k \in DOMAIN p : j < k /\ Of(p, k, c) /\ p[k].user = q[j].user
    <3>1. CASE p[j].pk # q[j].pk
      <4>1. j = i
        BY <3>1, <1>0
      <4> QED
        BY <4>1, <3>1, <2>2, <1>0, <1>1
    <3>2. CASE p[j].pk = q[j].pk
      <4>1. \/ Named(a, c, q[j].user) \subseteq {q[j].pk}
            \/ \E k \in DOMAIN q : k < j /\ For(q, k, c, "provision", q[j].user)
            \/ \E k \in DOMAIN q : j < k /\ Of(q, k, c) /\ q[k].user = q[j].user
        BY <2>2, <3>2 DEF Ordered, IdsRight
      <4>2. CASE q[j].user = q[i].user /\ q[i].kind = "provision"
        <5>1. i < j /\ For(p, i, c, "provision", q[j].user)
          BY <4>2, <2>2, <1>1, <1>4 DEF Of
        <5> QED
          BY <5>1, <1>1
      <4>3. CASE Named(b, c, q[j].user) = Named(a, c, q[j].user)
        BY <4>1, <4>3, <3>2, <1>1, <1>2
      <4> QED
        BY <4>2, <4>3, <1>3
    <3> QED
      BY <3>1, <3>2
  <2>3. ASSUME NEW j \in DOMAIN p, Of(p, j, c), p[j].kind = "delete", p[j].pk # 0
        PROVE  \/ Named(b, c, p[j].user) \subseteq {p[j].pk}
               \/ \E k \in DOMAIN p : k < j /\ For(p, k, c, "provision", p[j].user)
               \/ \E k \in DOMAIN p : j < k /\ Of(p, k, c) /\ p[k].user = p[j].user
    <3>1. j \in DOMAIN q /\ Of(q, j, c) /\ q[j].kind = "delete" /\ p[j].user = q[j].user
      BY <2>3, <1>1, <1>2
    <3> QED
      BY <2>2, <2>3, <3>1
  <2> QED
    BY <2>1, <2>3 DEF IdsRight
<1>9. Wanted(p, r, b, c)
  <2> SUFFICES ASSUME NEW k \in Pks, b[k].owner = c
               PROVE  r.user = b[k].user \/ \E j \in DOMAIN p : Of(p, j, c) /\ p[j].user = b[k].user
    BY DEF Wanted
  <2>1. CASE b[k].user = q[i].user
    BY <2>1, <1>1, <1>2, <1>4 DEF For
  <2>2. CASE a[k].owner = c /\ a[k].user = b[k].user
    BY <2>2, <1>1, <1>2 DEF Ordered, Wanted
  <2> QED
    BY <2>1, <2>2, <1>0
<1>10. FoundIsThere(p, b, c)
  BY <1>0, <1>1, <1>2 DEF FoundIsThere, Of
<1>11. ASSUME Smooth(q, r, a, c), HasFound(o, c, b)
       PROVE  Smooth(p, r, b, c)
  <2>1. Provisioned(p, r, b, c)
    BY <1>1, <1>2, <1>3, <1>4, <1>11 DEF Provisioned, Smooth, For
  <2>2. RotationsFind(p, b, c)
    <3> SUFFICES ASSUME NEW j \in DOMAIN q, Of(q, j, c), q[j].kind = "rotate"
                 PROVE  /\ \/ Named(b, c, q[j].user) # {}
                           \/ \E k \in DOMAIN p : k < j /\ For(p, k, c, "provision", q[j].user)
                        /\ p[j].st # "pending" => p[j].pk \in Named(b, c, q[j].user)
      BY <1>1, <1>2 DEF RotationsFind
    <3>1. \/ Named(a, c, q[j].user) # {}
          \/ \E k \in DOMAIN q : k < j /\ For(q, k, c, "provision", q[j].user)
      BY <1>11 DEF Smooth, RotationsFind
    <3>2. p[j].st # "pending" => j = i
      BY <1>1 DEF Of
    <3> QED
      BY <3>1, <3>2, <1>0, <1>1, <1>2, <1>3, <1>11 DEF HasFound
  <2> QED
    BY <2>1, <2>2 DEF Smooth
<1> QED
  BY <1>5, <1>6, <1>7, <1>8, <1>9, <1>10, <1>11 DEF Ordered

\* Behind the oldest operation of a channel nothing has started.
Behind(q, p, f, g, c, i) ==
  /\ \A j \in DOMAIN p : p[j].ch = c =>
       f[j] \in DOMAIN q /\ q[f[j]] = p[j] /\ g[f[j]] = j /\ i < f[j] /\ q[f[j]].st = "pending"
  /\ \A j \in DOMAIN q : q[j].ch = c /\ i < j => g[j] \in DOMAIN p /\ p[g[j]] = q[j] /\ f[g[j]] = j
  /\ \A j, k \in DOMAIN p : p[j].ch = c /\ p[k].ch = c => (j < k <=> f[j] < f[k])
  /\ \A j \in DOMAIN q : q[j].ch = c => i < j \/ j = i
  /\ q[i].ch = c

LEMMA BehindOldest ==
  ASSUME NEW q \in Seq(OpType), NEW p, NEW f, NEW g, NEW i \in DOMAIN q, NEW c, OldestOf(q, i, c),
         Matched(q, p, f, g, c, i), InOrder(q, c)
  PROVE  Behind(q, p, f, g, c, i)
<1>1. DOMAIN q \subseteq Int
  OBVIOUS
<1>2. \A j \in DOMAIN q : q[j].ch = c => i < j \/ j = i
  BY <1>1 DEF OldestOf
<1>3. \A j \in DOMAIN p : p[j].ch = c => f[j] \in DOMAIN q \ {i} /\ q[f[j]] = p[j] /\ g[f[j]] = j
  BY DEF Matched
<1>4. \A j \in DOMAIN q : i < j => j # i
  BY <1>1
<1>5. q[i].ch = c
  BY DEF OldestOf, Of
<1>6. \A j \in DOMAIN q : q[j].ch = c /\ i < j => q[j].st = "pending"
  BY <1>5 DEF InOrder, Of
<1> QED
  BY <1>2, <1>3, <1>4, <1>5, <1>6 DEF Matched, Behind

\* The oldest operation of a channel ends: a deletion leaves no account nobody
\* wants, a provisioning none at all or one the row then names.
CanEnd(q, i, c, r, s, a, b) ==
  /\ OldestOf(q, i, c) /\ s.user = r.user /\ s.pw = r.pw
  /\ \A k \in Pks : b[k].owner = c => a[k].owner = c /\ a[k].user = b[k].user
  /\ q[i].kind = "delete" =>
       \/ Named(b, c, q[i].user) = {}
       \/ \E j \in DOMAIN q : i < j /\ Of(q, j, c) /\ q[j].user = q[i].user
  /\ q[i].kind = "provision" =>
       \/ Named(b, c, q[i].user) = {}
       \/ r.user = q[i].user /\ Named(b, c, r.user) \subseteq {s.id}
  /\ s.id # r.id => q[i].kind = "provision" /\ r.user = q[i].user

LEMMA OldestEnds ==
  ASSUME ServiceBounds, NEW q \in Seq(OpType), NEW i \in DOMAIN q, NEW p \in Seq(OpType),
         NEW c, NEW f, NEW g, Matched(q, p, f, g, c, i),
         NEW r, NEW s, NEW a, NEW b, CanEnd(q, i, c, r, s, a, b), Ordered(q, r, a, c)
  PROVE  Ordered(p, s, b, c)
<1> USE DEF CanEnd
<1>u. q[i].user # Services!None
  <2>1. q[i] \in OpType
    OBVIOUS
  <2> QED
    BY <2>1 DEF OpType, ServiceBounds
<1>1. /\ \A j \in DOMAIN p : p[j].ch = c =>
           f[j] \in DOMAIN q /\ q[f[j]] = p[j] /\ g[f[j]] = j /\ i < f[j] /\ q[f[j]].st = "pending"
      /\ \A j \in DOMAIN q : q[j].ch = c /\ i < j => g[j] \in DOMAIN p /\ p[g[j]] = q[j] /\ f[g[j]] = j
      /\ \A j, k \in DOMAIN p : p[j].ch = c /\ p[k].ch = c => (j < k <=> f[j] < f[k])
      /\ \A j \in DOMAIN q : q[j].ch = c => i < j \/ j = i
      /\ q[i].ch = c
  <2>1. Behind(q, p, f, g, c, i)
    BY BehindOldest DEF Ordered
  <2> QED
    BY <2>1 DEF Behind
<1>2. \A u : Named(b, c, u) \subseteq Named(a, c, u)
  BY DEF Named
<1>3. InOrder(p, c)
  BY <1>1 DEF InOrder, Of
<1>4. Followed(p, s, c)
  <2> SUFFICES ASSUME NEW j \in DOMAIN p, p[j].ch = c
               PROVE  /\ p[j].kind # "delete" => \/ s.user = p[j].user
                                                 \/ \E k \in DOMAIN p : j < k /\ For(p, k, c, "delete", p[j].user)
                      /\ p[j].kind = "delete" => \/ s.user = Services!None
                                                 \/ \E k \in DOMAIN p : j < k /\ For(p, k, c, "provision", s.user)
                      /\ \/ s.user = Services!None \/ s.pw = p[j].pw
                         \/ \E k \in DOMAIN p : j < k /\ Of(p, k, c)
    BY DEF Followed, Of
  <2>1. f[j] \in DOMAIN q /\ q[f[j]] = p[j] /\ i < f[j]
    BY <1>1
  <2>2. \A k \in DOMAIN q : f[j] < k => i < k
    BY <2>1
  <2>3. \A k \in DOMAIN q : f[j] < k /\ q[k].ch = c => g[k] \in DOMAIN p /\ j < g[k] /\ p[g[k]] = q[k]
    BY <1>1, <2>2
  <2>4. /\ p[j].kind # "delete" => \/ r.user = p[j].user
                                   \/ \E k \in DOMAIN q : f[j] < k /\ For(q, k, c, "delete", p[j].user)
        /\ p[j].kind = "delete" => \/ r.user = Services!None
                                   \/ \E k \in DOMAIN q : f[j] < k /\ For(q, k, c, "provision", r.user)
        /\ \/ r.user = Services!None \/ r.pw = p[j].pw
           \/ \E k \in DOMAIN q : f[j] < k /\ Of(q, k, c)
    BY <2>1 DEF Ordered, Followed, Of
  <2> QED
    BY <2>3, <2>4 DEF Of, For
<1>5. Again(p, c)
  <2> SUFFICES ASSUME NEW j \in DOMAIN p, NEW k \in DOMAIN p, j < k, p[j].ch = c, p[k].ch = c,
                      p[j].kind = "delete", p[k].kind = "rotate"
               PROVE  \E m \in DOMAIN p : j < m /\ m < k /\ For(p, m, c, "provision", p[k].user)
    BY DEF Again, Of
  <2>1. f[j] \in DOMAIN q /\ q[f[j]] = p[j] /\ f[k] \in DOMAIN q /\ q[f[k]] = p[k] /\ f[j] < f[k] /\ i < f[j]
    BY <1>1
  <2>2. PICK m \in DOMAIN q : f[j] < m /\ m < f[k] /\ For(q, m, c, "provision", q[f[k]].user)
    BY <2>1 DEF Ordered, Again, Of
  <2>a. i < m /\ q[m].ch = c
    BY <2>1, <2>2 DEF For, Of
  <2>3. g[m] \in DOMAIN p /\ p[g[m]] = q[m] /\ f[g[m]] = m
    BY <1>1, <2>2, <2>a
  <2>4. j < g[m] /\ g[m] < k
    BY <1>1, <2>2, <2>3, <2>a
  <2> QED
    BY <2>1, <2>2, <2>3, <2>4 DEF For, Of
<1>6. IdsRight(p, s, b, c)
  <2>1. s.user = Services!None => s.id = 0
    <3>1. q[i].user # Services!None
      BY <1>u
    <3> QED
      BY <3>1 DEF Ordered, IdsRight
  <2>2. s.user # Services!None /\ s.id # 0 =>
          \/ Named(b, c, s.user) \subseteq {s.id}
          \/ \E j \in DOMAIN p : For(p, j, c, "provision", s.user)
    <3> SUFFICES ASSUME s.user # Services!None, s.id # 0, ~(Named(b, c, s.user) \subseteq {s.id})
                 PROVE  \E j \in DOMAIN p : For(p, j, c, "provision", s.user)
      OBVIOUS
    <3>1. s.id = r.id /\ ~(q[i].kind = "provision" /\ r.user = q[i].user)
      BY <1>2
    <3>2. PICK j \in DOMAIN q : For(q, j, c, "provision", r.user)
      BY <3>1, <1>2 DEF Ordered, IdsRight
    <3>3. i < j /\ q[j].ch = c
      BY <3>1, <3>2, <1>1 DEF For, Of
    <3> QED
      BY <3>2, <3>3, <1>1 DEF For, Of
  <2>3. ASSUME NEW j \in DOMAIN p, Of(p, j, c), p[j].kind = "delete", p[j].pk # 0
        PROVE  \/ Named(b, c, p[j].user) \subseteq {p[j].pk}
               \/ \E k \in DOMAIN p : k < j /\ For(p, k, c, "provision", p[j].user)
               \/ \E k \in DOMAIN p : j < k /\ Of(p, k, c) /\ p[k].user = p[j].user
    <3>1. f[j] \in DOMAIN q /\ q[f[j]] = p[j] /\ i < f[j] /\ p[j].ch = c
      BY <1>1, <2>3 DEF Of
    <3>2. \A k \in DOMAIN q : q[k].ch = c /\ i < k =>
            g[k] \in DOMAIN p /\ p[g[k]] = q[k] /\ (j < g[k] <=> f[j] < k) /\ (g[k] < j <=> k < f[j])
      BY <1>1, <3>1
    <3>3. \/ Named(a, c, q[f[j]].user) \subseteq {q[f[j]].pk}
          \/ \E k \in DOMAIN q : k < f[j] /\ For(q, k, c, "provision", q[f[j]].user)
          \/ \E k \in DOMAIN q : f[j] < k /\ Of(q, k, c) /\ q[k].user = q[f[j]].user
      BY <2>3, <3>1 DEF Ordered, IdsRight, Of
    <3>5. ASSUME NEW k \in DOMAIN q, f[j] < k, Of(q, k, c), q[k].user = q[f[j]].user
          PROVE  g[k] \in DOMAIN p /\ j < g[k] /\ Of(p, g[k], c) /\ p[g[k]].user = p[j].user
      <4>1. i < k /\ q[k].ch = c
        BY <3>1, <3>5 DEF Of
      <4> QED
        BY <3>1, <3>2, <3>5, <4>1 DEF Of
    <3>4. ASSUME NEW k \in DOMAIN q, k < f[j], For(q, k, c, "provision", q[f[j]].user),
                 ~(Named(b, c, p[j].user) \subseteq {p[j].pk})
          PROVE  \/ g[k] \in DOMAIN p /\ g[k] < j /\ For(p, g[k], c, "provision", p[j].user)
                 \/ \E n \in DOMAIN p : j < n /\ Of(p, n, c) /\ p[n].user = p[j].user
      <4>1. CASE i < k
        BY <3>1, <3>2, <3>4, <4>1 DEF For, Of
      <4>2. CASE k = i
        <5>1. q[i].kind = "provision" /\ q[i].user = q[f[j]].user /\ r.user = q[i].user
          BY <3>1, <3>4, <4>2 DEF For
        <5>2. r.user # Services!None
          BY <5>1, <1>u
        <5>3. PICK n \in DOMAIN q : f[j] < n /\ For(q, n, c, "provision", r.user)
          BY <2>3, <3>1, <5>2 DEF Ordered, Followed, Of
        <5> QED
          BY <3>5, <5>1, <5>3 DEF For
      <4> QED
        BY <4>1, <4>2, <3>4, <1>1 DEF For, Of
    <3> QED
      BY <1>2, <3>1, <3>3, <3>4, <3>5
  <2> QED
    BY <2>1, <2>2, <2>3 DEF IdsRight
<1>7. Wanted(p, s, b, c)
  <2> SUFFICES ASSUME NEW k \in Pks, b[k].owner = c, s.user # b[k].user
               PROVE  \E j \in DOMAIN p : Of(p, j, c) /\ p[j].user = b[k].user
    BY DEF Wanted
  <2>1. PICK j \in DOMAIN q : Of(q, j, c) /\ q[j].user = b[k].user
    BY DEF Ordered, Wanted
  <2>2. ASSUME NEW n \in DOMAIN q, Of(q, n, c), q[n].user = b[k].user, i < n
        PROVE  \E m \in DOMAIN p : Of(p, m, c) /\ p[m].user = b[k].user
    BY <2>2, <1>1 DEF Of
  <2>3. CASE j = i
    <3>1. k \in Named(b, c, q[i].user)
      BY <2>1, <2>3 DEF Named
    <3>2. CASE q[i].kind = "delete"
      BY <2>1, <2>2, <2>3, <3>1, <3>2
    <3>3. CASE q[i].kind # "delete"
      <4>1. PICK n \in DOMAIN q : i < n /\ For(q, n, c, "delete", q[i].user)
        BY <2>1, <2>3, <3>3 DEF Ordered, Followed
      <4> QED
        BY <2>1, <2>2, <2>3, <4>1 DEF For
    <3> QED
      BY <3>2, <3>3
  <2> QED
    BY <2>1, <2>2, <2>3, <1>1 DEF Of
<1>8. FoundIsThere(p, b, c)
  BY <1>1 DEF FoundIsThere, Of
<1> QED
  BY <1>3, <1>4, <1>5, <1>6, <1>7, <1>8 DEF Ordered

\* It ends without a failure: a provisioning with its account in the row, a
\* rotation with the password set, a deletion.
Succeeds(q, i, c, r, s, a, b) ==
  /\ \A k \in Pks : a[k].owner = c => (b[k].owner = c /\ b[k].user = a[k].user) \/ q[i].kind = "delete"
  /\ q[i].kind = "provision" =>
       r.user = q[i].user /\ s.id # 0 /\ s.id \in Named(b, c, r.user) /\ b[s.id].pw = q[i].pw
  /\ q[i].kind = "rotate" => s = r /\ q[i].pk \in Named(a, c, q[i].user) /\ b[q[i].pk].pw = q[i].pw

LEMMA OldestSucceeds ==
  ASSUME ServiceBounds, NEW q \in Seq(OpType), NEW i \in DOMAIN q, NEW p \in Seq(OpType),
         NEW c \in Channels, NEW f, NEW g, Matched(q, p, f, g, c, i),
         NEW r, NEW s, NEW a, NEW b, NamesApart(a), CanEnd(q, i, c, r, s, a, b), Succeeds(q, i, c, r, s, a, b),
         Ordered(q, r, a, c), Smooth(q, r, a, c)
  PROVE  Smooth(p, s, b, c)
<1> USE DEF CanEnd, Succeeds
<1>0. Services!NoAcct.owner # c
  BY DEF ServiceBounds, Services!NoAcct
<1>1. /\ \A j \in DOMAIN p : p[j].ch = c =>
           f[j] \in DOMAIN q /\ q[f[j]] = p[j] /\ g[f[j]] = j /\ i < f[j] /\ q[f[j]].st = "pending"
      /\ \A j \in DOMAIN q : q[j].ch = c /\ i < j => g[j] \in DOMAIN p /\ p[g[j]] = q[j] /\ f[g[j]] = j
      /\ \A j, k \in DOMAIN p : p[j].ch = c /\ p[k].ch = c => (j < k <=> f[j] < f[k])
      /\ \A j \in DOMAIN q : q[j].ch = c => i < j \/ j = i
      /\ q[i].ch = c
  <2>1. Behind(q, p, f, g, c, i)
    BY BehindOldest DEF Ordered
  <2> QED
    BY <2>1 DEF Behind
<1>2. q[i].kind # "delete" => \A u : Named(a, c, u) \subseteq Named(b, c, u)
  BY DEF Named
<1>3. Provisioned(p, s, b, c)
  <2> SUFFICES ASSUME r.user # Services!None, \A j \in DOMAIN p : ~For(p, j, c, "provision", r.user)
               PROVE  /\ s.id # 0 /\ s.id \in Named(b, c, r.user)
                      /\ (\E j \in DOMAIN p : Of(p, j, c)) \/ b[s.id].pw = r.pw
    BY DEF Provisioned
  <2>1. ASSUME NEW j \in DOMAIN q, For(q, j, c, "provision", r.user) PROVE j = i
    BY <2>1, <1>1 DEF For, Of
  <2>2. (\E j \in DOMAIN p : Of(p, j, c)) \/ r.pw = q[i].pw
    <3>1. ASSUME NEW j \in DOMAIN q, i < j, Of(q, j, c) PROVE \E k \in DOMAIN p : Of(p, k, c)
      BY <3>1, <1>1 DEF Of
    <3>2. r.pw = q[i].pw \/ \E j \in DOMAIN q : i < j /\ Of(q, j, c)
      BY <1>1 DEF Ordered, Followed, Of
    <3> QED
      BY <3>1, <3>2
  <2>3. CASE q[i].kind = "provision"
    BY <2>2, <2>3
  <2>4. CASE q[i].kind = "rotate"
    <3>1. r.id # 0 /\ r.id \in Named(a, c, r.user)
      BY <2>1, <2>4 DEF Smooth, Provisioned, For
    <3>2. (\E j \in DOMAIN p : Of(p, j, c)) \/ q[i].pk = r.id
      <4>1. r.user = q[i].user \/ \E j \in DOMAIN q : i < j /\ For(q, j, c, "delete", q[i].user)
        BY <2>4, <1>1 DEF Ordered, Followed, Of
      <4>2. r.user = q[i].user => q[i].pk = r.id
        <5> SUFFICES ASSUME r.user = q[i].user PROVE q[i].pk = r.id
          OBVIOUS
        <5>1. /\ r.id \in Pks /\ a[r.id].user = r.user /\ a[r.id].owner = c
              /\ q[i].pk \in Pks /\ a[q[i].pk].user = r.user
          BY <2>4, <3>1 DEF Named
        <5>2. a[r.id] # Services!NoAcct
          BY <5>1, <1>0
        <5> QED
          BY <5>1, <5>2 DEF NamesApart
      <4>3. ASSUME NEW j \in DOMAIN q, i < j, Of(q, j, c) PROVE \E k \in DOMAIN p : Of(p, k, c)
        BY <4>3, <1>1 DEF Of
      <4> QED
        BY <4>1, <4>2, <4>3 DEF For
    <3> QED
      BY <1>2, <2>2, <2>4, <3>1, <3>2
  <2>5. CASE q[i].kind = "delete"
    <3>1. PICK j \in DOMAIN q : i < j /\ For(q, j, c, "provision", r.user)
      BY <2>5, <1>1 DEF Ordered, Followed, Of
    <3> QED
      BY <2>1, <2>5, <3>1
  <2>6. q[i] \in OpType
    OBVIOUS
  <2> QED
    BY <2>3, <2>4, <2>5, <2>6 DEF OpType
<1>4. RotationsFind(p, b, c)
  <2> SUFFICES ASSUME NEW j \in DOMAIN p, p[j].ch = c, p[j].kind = "rotate"
               PROVE  \/ Named(b, c, p[j].user) # {}
                      \/ \E k \in DOMAIN p : k < j /\ For(p, k, c, "provision", p[j].user)
    BY <1>1 DEF RotationsFind, Of
  <2>1. f[j] \in DOMAIN q /\ q[f[j]] = p[j] /\ i < f[j]
    BY <1>1
  <2>2. ASSUME NEW k \in DOMAIN q, i < k, k < f[j], For(q, k, c, "provision", p[j].user)
        PROVE  g[k] \in DOMAIN p /\ g[k] < j /\ For(p, g[k], c, "provision", p[j].user)
    BY <2>1, <2>2, <1>1 DEF For, Of
  <2>3. CASE q[i].kind = "delete"
    <3>1. PICK k \in DOMAIN q : i < k /\ k < f[j] /\ For(q, k, c, "provision", p[j].user)
      BY <2>1, <2>3, <1>1 DEF Ordered, Again, Of
    <3> QED
      BY <2>2, <3>1
  <2>4. CASE q[i].kind # "delete"
    <3>1. Named(a, c, p[j].user) # {} => Named(b, c, p[j].user) # {}
      BY <1>2, <2>4
    <3>2. ASSUME NEW k \in DOMAIN q, k < f[j], For(q, k, c, "provision", p[j].user), k = i
          PROVE  Named(b, c, p[j].user) # {}
      BY <3>2 DEF For
    <3>3. \A k \in DOMAIN q : For(q, k, c, "provision", p[j].user) => i < k \/ k = i
      BY <1>1 DEF For, Of
    <3>4. \/ Named(a, c, p[j].user) # {}
          \/ \E k \in DOMAIN q : k < f[j] /\ For(q, k, c, "provision", p[j].user)
      BY <2>1 DEF Smooth, RotationsFind, Of
    <3> QED
      BY <2>2, <3>1, <3>2, <3>3, <3>4
  <2> QED
    BY <2>3, <2>4
<1> QED
  BY <1>3, <1>4 DEF Smooth

\* A request puts its operation behind the others.
LEMMA Appending ==
  ASSUME NEW q \in Seq(OpType), NEW o \in OpType, NEW p, p = Append(q, o)
  PROVE  /\ p \in Seq(OpType) /\ Len(q) + 1 \in DOMAIN p /\ p[Len(q) + 1] = o
         /\ DOMAIN p = DOMAIN q \cup {Len(q) + 1} /\ \A j \in DOMAIN q : j < Len(q) + 1 /\ p[j] = q[j]
         /\ \E f, g : \A c \in Channels \ {o.ch} : Matched(q, p, f, g, c, 0)
<1>1. /\ p \in Seq(OpType) /\ Len(q) + 1 \in DOMAIN p /\ p[Len(q) + 1] = o
      /\ DOMAIN p = DOMAIN q \cup {Len(q) + 1} /\ \A j \in DOMAIN q : j < Len(q) + 1 /\ p[j] = q[j]
  OBVIOUS
<1> DEFINE id == [j \in DOMAIN p |-> j]
<1>2. 0 \notin DOMAIN q
  OBVIOUS
<1>3. \A c \in Channels \ {o.ch} : Matched(q, p, id, id, c, 0)
  BY <1>1, <1>2 DEF Matched
<1> QED
  BY <1>1, <1>3

AsksProvisioning(q, p, r, s, c, u, w) ==
  /\ r.user = Services!None /\ s = [r EXCEPT !.user = u, !.pw = w]
  /\ p = Append(q, Services!Op("provision", c, u, w, 0))

\* The three requests.
LEMMA ProvisioningAsked ==
  ASSUME ServiceBounds, NEW c \in Channels, NEW u \in Usernames, NEW w \in PwType,
         NEW q \in Seq(OpType), NEW r \in CredType, NEW s, NEW a \in [Pks -> AcctType \cup {Services!NoAcct}], NEW p,
         AsksProvisioning(q, p, r, s, c, u, w), Ordered(q, r, a, c)
  PROVE  Ordered(p, s, a, c) /\ (RotationsFind(q, a, c) => Smooth(p, s, a, c))
<1> USE DEF AsksProvisioning
<1> DEFINE o == [kind |-> "provision", ch |-> c, user |-> u, pw |-> w, pk |-> 0, st |-> "pending"]
           n == Len(q) + 1
<1>1. o \in OpType /\ p = Append(q, o)
  BY DEF Services!Op, OpType
<1>2. /\ n \in DOMAIN p /\ p[n] = o
      /\ DOMAIN p = DOMAIN q \cup {n} /\ \A j \in DOMAIN q : j < n /\ p[j] = q[j]
  BY <1>1, Appending
<1> HIDE DEF n
<1>3. s.user = u /\ s.pw = w /\ s.id = 0 /\ u # Services!None
  BY DEF CredType, ServiceBounds, Ordered, IdsRight
<1>4. /\ For(p, n, c, "provision", u) /\ p[n].st = "pending" /\ p[n].pw = w /\ Of(p, n, c)
      /\ \A j \in DOMAIN q : (Of(p, j, c) <=> Of(q, j, c)) /\ j < n
      /\ \A j \in DOMAIN q : \A k, v : For(p, j, c, k, v) <=> For(q, j, c, k, v)
      /\ n \notin DOMAIN q
  BY <1>2 DEF For, Of, n
<1>5. InOrder(p, c) /\ Again(p, c)
  BY SMTT(30), <1>2, <1>4 DEF InOrder, Again, Ordered, For
<1>6. Followed(p, s, c)
  <2> SUFFICES ASSUME NEW i \in DOMAIN p, Of(p, i, c)
               PROVE  /\ p[i].kind # "delete" =>
                           \/ s.user = p[i].user
                           \/ \E j \in DOMAIN p : i < j /\ For(p, j, c, "delete", p[i].user)
                      /\ p[i].kind = "delete" =>
                           \/ s.user = Services!None
                           \/ \E j \in DOMAIN p : i < j /\ For(p, j, c, "provision", s.user)
                      /\ \/ s.user = Services!None \/ s.pw = p[i].pw
                         \/ \E j \in DOMAIN p : i < j /\ Of(p, j, c)
    BY DEF Followed
  <2>1. CASE i = n
    BY <2>1, <1>2, <1>3, <1>4
  <2>2. CASE i \in DOMAIN q
    <3>1. Of(q, i, c) /\ p[i] = q[i] /\ i < n
      BY <2>2, <1>2, <1>4
    <3>2. /\ q[i].kind # "delete" =>
               \/ r.user = q[i].user
               \/ \E j \in DOMAIN q : i < j /\ For(q, j, c, "delete", q[i].user)
          /\ q[i].kind = "delete" =>
               \/ r.user = Services!None
               \/ \E j \in DOMAIN q : i < j /\ For(q, j, c, "provision", r.user)
      BY <2>2, <3>1 DEF Ordered, Followed
    <3>u. q[i].user # Services!None
      <4>1. q[i] \in OpType
        BY <2>2
      <4> QED
        BY <4>1 DEF OpType, ServiceBounds
    <3> QED
      BY <3>1, <3>2, <3>u, <1>2, <1>3, <1>4
  <2> QED
    BY <2>1, <2>2, <1>2
<1>7. IdsRight(p, s, a, c)
  <2>1. /\ s.user = Services!None => s.id = 0
        /\ s.user # Services!None /\ s.id # 0 =>
             \/ Named(a, c, s.user) \subseteq {s.id}
             \/ \E j \in DOMAIN p : For(p, j, c, "provision", s.user)
    BY <1>2, <1>3, <1>4 DEF Ordered, IdsRight
  <2>2. ASSUME NEW i \in DOMAIN p, Of(p, i, c), p[i].kind = "delete", p[i].pk # 0
        PROVE  \/ Named(a, c, p[i].user) \subseteq {p[i].pk}
               \/ \E j \in DOMAIN p : j < i /\ For(p, j, c, "provision", p[i].user)
               \/ \E j \in DOMAIN p : i < j /\ Of(p, j, c) /\ p[j].user = p[i].user
    <3>1. i \in DOMAIN q /\ Of(q, i, c) /\ p[i] = q[i]
      BY <2>2, <1>2, <1>4
    <3>2. \/ Named(a, c, q[i].user) \subseteq {q[i].pk}
          \/ \E j \in DOMAIN q : j < i /\ For(q, j, c, "provision", q[i].user)
          \/ \E j \in DOMAIN q : i < j /\ Of(q, j, c) /\ q[j].user = q[i].user
      BY <2>2, <3>1 DEF Ordered, IdsRight
    <3> QED
      BY <3>1, <3>2, <1>2, <1>4
  <2> QED
    BY <2>1, <2>2 DEF IdsRight
<1>8. Wanted(p, s, a, c)
  <2> SUFFICES ASSUME NEW k \in Pks, a[k].owner = c
               PROVE  \E j \in DOMAIN p : Of(p, j, c) /\ p[j].user = a[k].user
    BY DEF Wanted
  <2>1. a[k].user # Services!None
    BY DEF AcctType, ServiceBounds, Services!NoAcct
  <2> QED
    BY <2>1, <1>2, <1>4 DEF Wanted, Ordered
<1>9. FoundIsThere(p, a, c)
  BY <1>2, <1>4 DEF FoundIsThere, Ordered
<1>10. RotationsFind(q, a, c) => Smooth(p, s, a, c)
  BY SMTT(30), <1>2, <1>3, <1>4 DEF Smooth, Provisioned, RotationsFind, For
<1> QED
  BY <1>5, <1>6, <1>7, <1>8, <1>9, <1>10 DEF Ordered

AsksRotation(q, p, r, s, c, w) ==
  /\ r.user # Services!None /\ s = [r EXCEPT !.pw = w]
  /\ p = Append(q, Services!Op("rotate", c, r.user, w, 0))

LEMMA RotationAsked ==
  ASSUME ServiceBounds, NEW c \in Channels, NEW w \in PwType,
         NEW q \in Seq(OpType), NEW r \in CredType, NEW s, NEW a \in [Pks -> AcctType \cup {Services!NoAcct}], NEW p,
         AsksRotation(q, p, r, s, c, w), Ordered(q, r, a, c)
  PROVE  Ordered(p, s, a, c) /\ (Smooth(q, r, a, c) => Smooth(p, s, a, c))
<1> USE DEF AsksRotation
<1> DEFINE o == [kind |-> "rotate", ch |-> c, user |-> r.user, pw |-> w, pk |-> 0, st |-> "pending"]
           n == Len(q) + 1
<1>1. o \in OpType /\ p = Append(q, o)
  BY DEF Services!Op, OpType, CredType
<1>2. /\ n \in DOMAIN p /\ p[n] = o
      /\ DOMAIN p = DOMAIN q \cup {n} /\ \A j \in DOMAIN q : j < n /\ p[j] = q[j]
  BY <1>1, Appending
<1> HIDE DEF n
<1>3. s.user = r.user /\ s.pw = w /\ s.id = r.id
  BY DEF CredType
<1>4. /\ For(p, n, c, "rotate", r.user) /\ p[n].st = "pending" /\ p[n].pw = w /\ Of(p, n, c)
      /\ \A j \in DOMAIN q : (Of(p, j, c) <=> Of(q, j, c)) /\ j < n
      /\ \A j \in DOMAIN q : \A k, v : For(p, j, c, k, v) <=> For(q, j, c, k, v)
      /\ n \notin DOMAIN q
  BY <1>2 DEF For, Of, n
<1>5. InOrder(p, c)
  BY <1>2, <1>4 DEF InOrder, Ordered
<1>a. Again(p, c)
  <2> SUFFICES ASSUME NEW i \in DOMAIN p, NEW j \in DOMAIN p, i < j, Of(p, i, c), Of(p, j, c),
                      p[i].kind = "delete", p[j].kind = "rotate"
               PROVE  \E m \in DOMAIN p : i < m /\ m < j /\ For(p, m, c, "provision", p[j].user)
    BY DEF Again
  <2>1. i \in DOMAIN q
    BY <1>2
  <2>2. CASE j \in DOMAIN q
    BY <2>1, <2>2, <1>2, <1>4 DEF Ordered, Again
  <2>3. CASE j = n
    BY <2>1, <2>3, <1>2, <1>4 DEF Ordered, Followed
  <2> QED
    BY <2>2, <2>3, <1>2
<1>6. Followed(p, s, c)
  <2> SUFFICES ASSUME NEW i \in DOMAIN p, Of(p, i, c)
               PROVE  /\ p[i].kind # "delete" =>
                           \/ s.user = p[i].user
                           \/ \E j \in DOMAIN p : i < j /\ For(p, j, c, "delete", p[i].user)
                      /\ p[i].kind = "delete" =>
                           \/ s.user = Services!None
                           \/ \E j \in DOMAIN p : i < j /\ For(p, j, c, "provision", s.user)
                      /\ \/ s.user = Services!None \/ s.pw = p[i].pw
                         \/ \E j \in DOMAIN p : i < j /\ Of(p, j, c)
    BY DEF Followed
  <2>1. CASE i = n
    BY <2>1, <1>2, <1>3, <1>4
  <2>2. CASE i \in DOMAIN q
    <3>1. Of(q, i, c) /\ p[i] = q[i] /\ i < n
      BY <2>2, <1>2, <1>4
    <3>2. /\ q[i].kind # "delete" =>
               \/ r.user = q[i].user
               \/ \E j \in DOMAIN q : i < j /\ For(q, j, c, "delete", q[i].user)
          /\ q[i].kind = "delete" =>
               \/ r.user = Services!None
               \/ \E j \in DOMAIN q : i < j /\ For(q, j, c, "provision", r.user)
      BY <2>2, <3>1 DEF Ordered, Followed
    <3>u. q[i].user # Services!None
      <4>1. q[i] \in OpType
        BY <2>2
      <4> QED
        BY <4>1 DEF OpType, ServiceBounds
    <3> QED
      BY <3>1, <3>2, <3>u, <1>2, <1>3, <1>4
  <2> QED
    BY <2>1, <2>2, <1>2
<1>7. IdsRight(p, s, a, c)
  <2>1. /\ s.user = Services!None => s.id = 0
        /\ s.user # Services!None /\ s.id # 0 =>
             \/ Named(a, c, s.user) \subseteq {s.id}
             \/ \E j \in DOMAIN p : For(p, j, c, "provision", s.user)
    BY <1>2, <1>3, <1>4 DEF Ordered, IdsRight
  <2>2. ASSUME NEW i \in DOMAIN p, Of(p, i, c), p[i].kind = "delete", p[i].pk # 0
        PROVE  \/ Named(a, c, p[i].user) \subseteq {p[i].pk}
               \/ \E j \in DOMAIN p : j < i /\ For(p, j, c, "provision", p[i].user)
               \/ \E j \in DOMAIN p : i < j /\ Of(p, j, c) /\ p[j].user = p[i].user
    <3>1. i \in DOMAIN q /\ Of(q, i, c) /\ p[i] = q[i]
      BY <2>2, <1>2, <1>4
    <3>2. \/ Named(a, c, q[i].user) \subseteq {q[i].pk}
          \/ \E j \in DOMAIN q : j < i /\ For(q, j, c, "provision", q[i].user)
          \/ \E j \in DOMAIN q : i < j /\ Of(q, j, c) /\ q[j].user = q[i].user
      BY <2>2, <3>1 DEF Ordered, IdsRight
    <3> QED
      BY <3>1, <3>2, <1>2, <1>4
  <2> QED
    BY <2>1, <2>2 DEF IdsRight
<1>8. Wanted(p, s, a, c)
  BY <1>2, <1>3, <1>4 DEF Wanted, Ordered
<1>9. FoundIsThere(p, a, c)
  BY <1>2, <1>4 DEF FoundIsThere, Ordered
<1>10. ASSUME Smooth(q, r, a, c) PROVE Smooth(p, s, a, c)
  <2>1. Provisioned(p, s, a, c)
    BY <1>10, <1>2, <1>3, <1>4 DEF Smooth, Provisioned
  <2>2. RotationsFind(p, a, c)
    <3> SUFFICES ASSUME NEW i \in DOMAIN p, Of(p, i, c), p[i].kind = "rotate"
                 PROVE  /\ \/ Named(a, c, p[i].user) # {}
                           \/ \E j \in DOMAIN p : j < i /\ For(p, j, c, "provision", p[i].user)
                        /\ p[i].st # "pending" => p[i].pk \in Named(a, c, p[i].user)
      BY DEF RotationsFind
    <3>1. CASE i = n
      BY <3>1, <1>10, <1>2, <1>4 DEF Smooth, Provisioned
    <3>2. CASE i \in DOMAIN q
      <4>1. Of(q, i, c) /\ p[i] = q[i]
        BY <3>2, <1>2, <1>4
      <4>2. /\ \/ Named(a, c, q[i].user) # {}
               \/ \E j \in DOMAIN q : j < i /\ For(q, j, c, "provision", q[i].user)
            /\ q[i].st # "pending" => q[i].pk \in Named(a, c, q[i].user)
        BY <3>2, <4>1, <1>10 DEF Smooth, RotationsFind
      <4> QED
        BY <4>1, <4>2, <1>2, <1>4
    <3> QED
      BY <3>1, <3>2, <1>2
  <2> QED
    BY <2>1, <2>2 DEF Smooth
<1> QED
  BY <1>5, <1>a, <1>6, <1>7, <1>8, <1>9, <1>10 DEF Ordered

AsksDeletion(q, p, r, s, c) ==
  /\ r.user # Services!None /\ s = Services!NoRow
  /\ p = Append(q, Services!Op("delete", c, r.user, 0, r.id))

LEMMA DeletionAsked ==
  ASSUME ServiceBounds, NEW c \in Channels,
         NEW q \in Seq(OpType), NEW r \in CredType, NEW s, NEW a \in [Pks -> AcctType \cup {Services!NoAcct}], NEW p,
         AsksDeletion(q, p, r, s, c), Ordered(q, r, a, c)
  PROVE  Ordered(p, s, a, c) /\ (Smooth(q, r, a, c) => Smooth(p, s, a, c))
<1> USE DEF AsksDeletion
<1> DEFINE o == [kind |-> "delete", ch |-> c, user |-> r.user, pw |-> 0, pk |-> r.id, st |-> "pending"]
           n == Len(q) + 1
<1>1. o \in OpType /\ p = Append(q, o)
  BY DEF Services!Op, OpType, CredType, PwType, ServiceBounds
<1>2. /\ n \in DOMAIN p /\ p[n] = o
      /\ DOMAIN p = DOMAIN q \cup {n} /\ \A j \in DOMAIN q : j < n /\ p[j] = q[j]
  BY <1>1, Appending
<1> HIDE DEF n
<1>3. s.user = Services!None /\ s.id = 0
  BY DEF Services!NoRow, Services!NoPk
<1>4. /\ For(p, n, c, "delete", r.user) /\ p[n].st = "pending" /\ p[n].pk = r.id /\ Of(p, n, c)
      /\ \A j \in DOMAIN q : (Of(p, j, c) <=> Of(q, j, c)) /\ j < n
      /\ \A j \in DOMAIN q : \A k, v : For(p, j, c, k, v) <=> For(q, j, c, k, v)
      /\ n \notin DOMAIN q
  BY <1>2 DEF For, Of, n
<1>5. InOrder(p, c) /\ Again(p, c)
  BY SMTT(30), <1>2, <1>4 DEF InOrder, Again, Ordered, For
<1>6. Followed(p, s, c)
  BY <1>2, <1>3, <1>4 DEF Followed, Ordered, For
<1>7. IdsRight(p, s, a, c)
  <2> SUFFICES ASSUME NEW i \in DOMAIN p, Of(p, i, c), p[i].kind = "delete", p[i].pk # 0
               PROVE  \/ Named(a, c, p[i].user) \subseteq {p[i].pk}
                      \/ \E j \in DOMAIN p : j < i /\ For(p, j, c, "provision", p[i].user)
                      \/ \E j \in DOMAIN p : i < j /\ Of(p, j, c) /\ p[j].user = p[i].user
    BY <1>3 DEF IdsRight
  <2>1. CASE i = n
    BY <2>1, <1>2, <1>4 DEF Ordered, IdsRight, For
  <2>2. CASE i \in DOMAIN q
    <3>1. Of(q, i, c) /\ p[i] = q[i]
      BY <2>2, <1>2, <1>4
    <3>2. \/ Named(a, c, q[i].user) \subseteq {q[i].pk}
          \/ \E j \in DOMAIN q : j < i /\ For(q, j, c, "provision", q[i].user)
          \/ \E j \in DOMAIN q : i < j /\ Of(q, j, c) /\ q[j].user = q[i].user
      BY <2>2, <3>1 DEF Ordered, IdsRight
    <3> QED
      BY <3>1, <3>2, <1>2, <1>4
  <2> QED
    BY <2>1, <2>2, <1>2
<1>8. Wanted(p, s, a, c)
  BY <1>2, <1>3, <1>4 DEF Wanted, Ordered, For
<1>9. FoundIsThere(p, a, c)
  BY <1>2, <1>4 DEF FoundIsThere, Ordered
<1>10. ASSUME Smooth(q, r, a, c) PROVE Smooth(p, s, a, c)
  <2>1. Provisioned(p, s, a, c)
    BY <1>3 DEF Provisioned
  <2>2. RotationsFind(p, a, c)
    <3> SUFFICES ASSUME NEW i \in DOMAIN p, Of(p, i, c), p[i].kind = "rotate"
                 PROVE  /\ \/ Named(a, c, p[i].user) # {}
                           \/ \E j \in DOMAIN p : j < i /\ For(p, j, c, "provision", p[i].user)
                        /\ p[i].st # "pending" => p[i].pk \in Named(a, c, p[i].user)
      BY DEF RotationsFind
    <3>1. CASE i = n
      BY <3>1, <1>2
    <3>2. CASE i \in DOMAIN q
      <4>1. Of(q, i, c) /\ p[i] = q[i]
        BY <3>2, <1>2, <1>4
      <4>2. /\ \/ Named(a, c, q[i].user) # {}
               \/ \E j \in DOMAIN q : j < i /\ For(q, j, c, "provision", q[i].user)
            /\ q[i].st # "pending" => q[i].pk \in Named(a, c, q[i].user)
        BY <3>2, <4>1, <1>10 DEF Smooth, RotationsFind
      <4> QED
        BY <4>1, <4>2, <1>2, <1>4
    <3> QED
      BY <3>1, <3>2, <1>2
  <2> QED
    BY <2>1, <2>2 DEF Smooth
<1> QED
  BY <1>5, <1>6, <1>7, <1>8, <1>9, <1>10 DEF Ordered

\* A step of channel c, which leaves the operations of the others alone: its
\* accounts come and go under new ids and keep their owner; what it leaves in its
\* row and queue is as it should be.
Stepped(c, f, g, i) ==
  /\ ServicesTyped' /\ NamesApart(owned')
  /\ \A d \in Channels \ {c} : creds'[d] = creds[d] /\ Matched(ops, ops', f, g, d, i)
  /\ i \in DOMAIN ops => ops[i].ch = c
  /\ made <= made'
  /\ \A k \in Pks :
       /\ k <= made => owned'[k].owner \in {owned[k].owner, Services!None}
       /\ k > made' => owned'[k] = Services!NoAcct
       /\ owned'[k].owner \in {owned[k].owner, c, Services!None}
       /\ owned'[k] = owned[k] \/ owned[k].owner \in {c, Services!None} \cup Bad \/ Excused
  /\ marks.overlap \subseteq marks'.overlap /\ marks.stale \subseteq marks'.stale
  /\ marks.failed \subseteq marks'.failed /\ (Excused => Excused')
  /\ creds'[c].id = creds[c].id \/ RowOwn(c, creds[c].id)'
  /\ \A j \in DOMAIN ops' :
       \/ \E k \in DOMAIN ops : ops'[j].pk = ops[k].pk /\ ops'[j].ch = ops[k].ch /\ ops'[j].kind = ops[k].kind
       \/ IdOwn(ops[j])'
  /\ marks'.clash \/ HoldersApart'
  /\ Excused' \/ c \in Bad' \/
       /\ Ordered(ops', creds'[c], owned', c)
       /\ c \in marks'.failed \/ Smooth(ops', creds'[c], owned', c)

LEMMA SteppedKeeps ==
  ASSUME ServiceBounds, ServicesInv, NEW c \in Channels, NEW f, NEW g, NEW i, Stepped(c, f, g, i)
  PROVE  ServicesInv'
<1>1. ServicesTyped /\ ServicesTyped'
  BY DEF ServicesInv, Stepped
<1>2. Bad \subseteq Bad' /\ (Excused => Excused')
  BY DEF Stepped, Bad
<1>3. made \in Nat /\ made' \in Nat /\ made <= made'
  BY <1>1 DEF ServicesTyped, Stepped
<1>4. Pks \subseteq Nat
  BY DEF ServiceBounds
<1>5. ASSUME NEW o, o.pk \in Pks \cup {0}, IdOwn(o) PROVE IdOwn(o)'
  <2> SUFFICES ASSUME o.pk # 0 PROVE IdOwn(o)'
    BY DEF IdOwn
  <2>1. o.pk \in Pks /\ o.pk <= made
    BY <1>5 DEF IdOwn
  <2>2. owned'[o.pk].owner \in {owned[o.pk].owner, Services!None}
    BY <2>1 DEF Stepped
  <2>3. o.pk <= made'
    <3>1. o.pk \in Nat
      BY <2>1, <1>4
    <3> QED
      BY <2>1, <3>1, <1>3
  <2> QED
    BY <1>2, <1>5, <2>2, <2>3 DEF IdOwn
<1>6. IdsOwn'
  <2>1. \A k \in Pks : k > made' => owned'[k] = Services!NoAcct
    BY DEF Stepped
  <2>2. ASSUME NEW d \in Channels PROVE RowOwn(d, creds[d].id)'
    <3>1. CASE creds'[d].id = creds[d].id
      <4> SUFFICES ASSUME creds[d].id # 0 PROVE RowOwn(d, creds[d].id)'
        BY <3>1 DEF RowOwn
      <4>1. creds[d].id \in Pks /\ creds[d].id <= made /\ owned[creds[d].id].owner \in {d, Services!None}
        BY <1>1 DEF ServicesInv, IdsOwn, RowOwn, ServicesTyped, CredType
      <4>2. owned'[creds[d].id].owner \in {owned[creds[d].id].owner, Services!None}
        BY <4>1 DEF Stepped
      <4>3. creds[d].id <= made'
        <5>1. creds[d].id \in Nat
          BY <4>1, <1>4
        <5> QED
          BY <4>1, <5>1, <1>3
      <4> QED
        BY <3>1, <4>1, <4>2, <4>3 DEF RowOwn
    <3>2. CASE d = c /\ RowOwn(c, creds[c].id)'
      BY <3>2
    <3> QED
      BY <3>1, <3>2 DEF Stepped
  <2>3. ASSUME NEW j \in DOMAIN ops' PROVE IdOwn(ops[j])'
    <3>1. CASE IdOwn(ops[j])'
      BY <3>1
    <3>2. ASSUME NEW k \in DOMAIN ops, ops'[j].pk = ops[k].pk, ops'[j].ch = ops[k].ch, ops'[j].kind = ops[k].kind
          PROVE  IdOwn(ops[j])'
      <4>1. ops[k] \in OpType
        BY <1>1 DEF ServicesTyped
      <4>2. PICK o : o = ops[k]
        OBVIOUS
      <4>3. o.pk \in Pks \cup {0} /\ IdOwn(o)
        BY <4>1, <4>2 DEF OpType, ServicesInv, IdsOwn, IdOwn
      <4>4. IdOwn(o)'
        BY <4>3, <1>5
      <4> QED
        BY <3>2, <4>2, <4>4 DEF IdOwn
    <3> QED
      BY <3>1, <3>2 DEF Stepped
  <2> QED
    BY <2>1, <2>2, <2>3 DEF IdsOwn
<1>7. ASSUME NEW d \in Channels, ~Excused', d \notin Bad'
      PROVE  /\ Ordered(ops', creds'[d], owned', d)
             /\ d \in marks'.failed \/ Smooth(ops', creds'[d], owned', d)
  <2>1. CASE d = c
    BY <1>7, <2>1 DEF Stepped
  <2>2. CASE d # c
    <3>1. ~Excused /\ d \notin Bad
      BY <1>2, <1>7
    <3>2. Ordered(ops, creds[d], owned, d) /\ (d \in marks.failed \/ Smooth(ops, creds[d], owned, d))
      BY <3>1 DEF ServicesInv
    <3>3. Matched(ops, ops', f, g, d, i) /\ creds'[d] = creds[d] /\ (i \in DOMAIN ops => ops[i].ch # d)
      BY <2>2 DEF Stepped
    <3>4. \A k \in Pks : owned'[k].owner = d \/ owned[k].owner = d => owned'[k] = owned[k]
      <4>1. d # Services!None
        BY DEF ServiceBounds
      <4> QED
        BY <2>2, <3>1, <4>1 DEF Stepped
    <3>5. PICK q, p, a, b, r : q = ops /\ p = ops' /\ a = owned /\ b = owned' /\ r = creds[d]
      OBVIOUS
    <3>6. q \in Seq(OpType) /\ p \in Seq(OpType)
      BY <1>1, <3>5 DEF ServicesTyped
    <3>7. /\ Ordered(q, r, a, d) => Ordered(p, r, b, d)
          /\ Smooth(q, r, a, d) => Smooth(p, r, b, d)
      BY <3>3, <3>4, <3>5, <3>6, OthersKeep
    <3>8. marks.failed \subseteq marks'.failed
      BY DEF Stepped
    <3> QED
      BY <3>2, <3>3, <3>5, <3>7, <3>8
  <2> QED
    BY <2>1, <2>2
<1> QED
  BY <1>1, <1>6, <1>7 DEF ServicesInv, Stepped

\* A started operation that is not excused is its channel's oldest.
LEMMA StartsOldest ==
  ASSUME ServicesTyped, NEW i \in DOMAIN ops, marks'.overlap = Services!Overlaps(i), ops[i].ch \notin Bad'
  PROVE  OldestOf(ops, i, ops[i].ch)
<1>1. DOMAIN ops \subseteq Nat \ {0}
  BY DEF ServicesTyped
<1>2. \A j \in 1 .. i - 1 : ops[j].ch # ops[i].ch
  BY DEF Services!Overlaps, Bad
<1> QED
  BY <1>1, <1>2 DEF OldestOf, Of

LEMMA StartedOldest ==
  ASSUME ServicesTyped, NEW i \in DOMAIN ops, InOrder(ops, ops[i].ch), ops[i].st # "pending"
  PROVE  OldestOf(ops, i, ops[i].ch)
<1>1. DOMAIN ops \subseteq Nat
  BY DEF ServicesTyped
<1> QED
  BY <1>1 DEF OldestOf, Of, InOrder

\* An operation goes on in its place.
LEMMA Replacing ==
  ASSUME NEW q \in Seq(OpType), NEW i \in DOMAIN q, NEW o \in OpType, o.ch = q[i].ch, NEW p, p = [q EXCEPT ![i] = o]
  PROVE  /\ p \in Seq(OpType) /\ DOMAIN p = DOMAIN q /\ p[i] = o /\ \A j \in DOMAIN q \ {i} : p[j] = q[j]
         /\ \E f, g : \A c \in Channels \ {o.ch} : Matched(q, p, f, g, c, i)
<1>1. p \in Seq(OpType) /\ DOMAIN p = DOMAIN q /\ p[i] = o /\ \A j \in DOMAIN q \ {i} : p[j] = q[j]
  OBVIOUS
<1> DEFINE id == [j \in DOMAIN p |-> j]
<1>2. \A c \in Channels \ {o.ch} : Matched(q, p, id, id, c, i)
  BY <1>1 DEF Matched
<1> QED
  BY <1>1, <1>2

\* Who holds a username held it before, unless the step asks for it.
LEMMA HoldersKept ==
  ASSUME ServicesInv, \A c \in Channels : creds'[c].user = creds[c].user, marks'.clash = marks.clash,
         \A j \in DOMAIN ops' : \E k \in DOMAIN ops : ops'[j].ch = ops[k].ch /\ ops'[j].user = ops[k].user
  PROVE  marks'.clash \/ HoldersApart'
<1> SUFFICES ASSUME HoldersApart, NEW c \in Channels, NEW d \in Channels, NEW u \in Usernames,
                    Holds(c, u)', Holds(d, u)'
             PROVE  c = d
  BY DEF ServicesInv, HoldersApart
<1>1. Holds(c, u) /\ Holds(d, u)
  BY DEF Holds
<1> QED
  BY <1>1 DEF HoldersApart

\* Whose account is found by its name: that of the channel itself, except where
\* the owner, or everything, is excused.
LEMMA FoundByName ==
  ASSUME ServiceBounds, ServicesInv, NEW i \in DOMAIN ops, NEW k \in Services!With(ops[i].user)
  PROVE  /\ k \in Pks /\ k <= made /\ owned[k] \in AcctType /\ owned[k].user = ops[i].user
         /\ Excused \/ owned[k].owner = ops[i].ch \/ owned[k].owner \in Bad
<1>1. ServicesTyped /\ ops[i] \in OpType /\ k \in Pks /\ owned[k].user = ops[i].user
  BY DEF ServicesInv, ServicesTyped, Services!With
<1>2. owned[k] # Services!NoAcct
  BY <1>1 DEF OpType, ServiceBounds, Services!NoAcct
<1>3. owned[k] \in AcctType
  BY <1>1, <1>2 DEF ServicesTyped
<1>4. k <= made
  <2>1. k \in Nat /\ made \in Nat
    BY <1>1 DEF ServiceBounds, ServicesTyped
  <2> QED
    BY <1>1, <1>2, <2>1 DEF ServicesInv, IdsOwn
<1>5. ASSUME ~Excused, owned[k].owner \notin Bad PROVE owned[k].owner = ops[i].ch
  <2>1. owned[k].owner \in Channels \ Bad /\ ops[i].ch \in Channels /\ ops[i].user \in Usernames
    BY <1>1, <1>3, <1>5 DEF AcctType, OpType
  <2>2. Wanted(ops, creds[owned[k].owner], owned, owned[k].owner)
    BY <1>5, <2>1 DEF ServicesInv, Ordered
  <2>3. Holds(owned[k].owner, ops[i].user)
    BY <1>1, <2>2 DEF Wanted, Holds, Of
  <2>4. Holds(ops[i].ch, ops[i].user)
    BY DEF Holds
  <2>5. HoldersApart
    BY <1>5 DEF ServicesInv, Excused
  <2> QED
    BY <2>1, <2>3, <2>4, <2>5 DEF HoldersApart
<1> QED
  BY <1>1, <1>3, <1>4, <1>5

\* What the steps of the worker have in common: accounts keep their channel and
\* get new ids, the record of what went wrong grows.
AccountsMove(c) ==
  /\ owned' \in [Pks -> AcctType \cup {Services!NoAcct}] /\ NamesApart(owned')
  /\ made' \in 0 .. Cardinality(Pks) /\ made <= made'
  /\ \A k \in Pks :
       /\ k <= made => owned'[k].owner \in {owned[k].owner, Services!None}
       /\ k > made' => owned'[k] = Services!NoAcct
       /\ owned'[k].owner \in {owned[k].owner, c, Services!None}
       /\ owned'[k] = owned[k] \/ owned[k].owner \in {c, Services!None} \cup Bad \/ Excused
MarksGrow ==
  /\ marks' \in MarkType /\ marks'.clash = marks.clash /\ (marks.lost => marks'.lost)
  /\ marks.overlap \subseteq marks'.overlap /\ marks.stale \subseteq marks'.stale /\ marks.failed \subseteq marks'.failed
Works == cand' = cand /\ used' \in [requests : 0 .. MaxRequests, faults : 0 .. MaxFaults] /\ MarksGrow

LEMMA SameAccounts ==
  ASSUME ServicesInv, UNCHANGED <<owned, made>>, NEW c PROVE AccountsMove(c)
<1>1. made \in Nat
  BY DEF ServicesInv, ServicesTyped
<1> QED
  BY <1>1 DEF ServicesInv, ServicesTyped, IdsOwn, AccountsMove

\* A started operation of a channel goes on,
LEMMA AdvanceKeeps ==
  ASSUME ServiceBounds, ServicesInv, NEW i \in DOMAIN ops, NEW o \in OpType, NEW c, c = ops[i].ch,
         ops' = [ops EXCEPT ![i] = o], o.kind = ops[i].kind, o.ch = ops[i].ch, o.user = ops[i].user,
         creds' = creds, Works, AccountsMove(c), o.pk = ops[i].pk \/ IdOwn(o)',
         ~Excused' /\ c \notin Bad' =>
           CanAdvance(ops, i, o, c, owned, owned') /\ (c \in marks'.failed \/ HasFound(o, c, owned'))
  PROVE  ServicesInv'
<1>1. ServicesTyped /\ ops \in Seq(OpType) /\ c \in Channels
  BY DEF ServicesInv, ServicesTyped, OpType
<1>2. PICK q, p, r, a, b : q = ops /\ p = ops' /\ r = creds[c] /\ a = owned /\ b = owned'
  OBVIOUS
<1>3. q \in Seq(OpType) /\ i \in DOMAIN q /\ o.ch = q[i].ch /\ p = [q EXCEPT ![i] = o]
  BY <1>1, <1>2
<1>4. p \in Seq(OpType) /\ DOMAIN p = DOMAIN q /\ p[i] = o /\ \A j \in DOMAIN q \ {i} : p[j] = q[j]
  BY <1>3, Replacing
<1>5. PICK f, g : \A d \in Channels \ {c} : Matched(q, p, f, g, d, i)
  BY <1>3, Replacing
<1>6. ServicesTyped'
  BY <1>1, <1>2, <1>4 DEF ServicesTyped, Works, MarksGrow, AccountsMove
<1>7. \A j \in DOMAIN ops' : \E k \in DOMAIN ops : ops'[j].ch = ops[k].ch /\ ops'[j].user = ops[k].user
  BY <1>2, <1>4
<1>8. marks'.clash \/ HoldersApart'
  BY <1>7, HoldersKept DEF Works, MarksGrow
<1>9. \A j \in DOMAIN ops' :
        \/ \E k \in DOMAIN ops : ops'[j].pk = ops[k].pk /\ ops'[j].ch = ops[k].ch /\ ops'[j].kind = ops[k].kind
        \/ IdOwn(ops[j])'
  <2> SUFFICES ASSUME NEW j \in DOMAIN ops'
               PROVE  \/ \E k \in DOMAIN ops : ops'[j].pk = ops[k].pk /\ ops'[j].ch = ops[k].ch
                                               /\ ops'[j].kind = ops[k].kind
                      \/ IdOwn(ops[j])'
    OBVIOUS
  <2>1. CASE j # i
    BY <2>1, <1>2, <1>4
  <2>2. CASE j = i /\ o.pk = ops[i].pk
    BY <2>2, <1>2, <1>4
  <2>3. CASE j = i /\ IdOwn(o)'
    BY <2>3, <1>2, <1>4 DEF IdOwn
  <2> QED
    BY <2>1, <2>2, <2>3
<1>10. ASSUME ~Excused', c \notin Bad'
       PROVE  /\ Ordered(ops', creds'[c], owned', c)
              /\ c \in marks'.failed \/ Smooth(ops', creds'[c], owned', c)
  <2>1. ~Excused /\ c \notin Bad
    BY <1>10 DEF Excused, Bad, Works, MarksGrow
  <2>2. Ordered(q, r, a, c) /\ (c \in marks.failed \/ Smooth(q, r, a, c))
    BY <2>1, <1>1, <1>2 DEF ServicesInv
  <2>3. CanAdvance(q, i, o, c, a, b) /\ (c \in marks'.failed \/ HasFound(o, c, b))
    BY <1>2, <1>10
  <2>4. Ordered(p, r, b, c) /\ (Smooth(q, r, a, c) /\ HasFound(o, c, b) => Smooth(p, r, b, c))
    BY <1>3, <2>2, <2>3, OldestGoesOn DEF GoesOn
  <2>5. c \in marks'.failed \/ Smooth(p, r, b, c)
    BY <2>2, <2>3, <2>4 DEF Works, MarksGrow
  <2> QED
    BY <2>4, <2>5, <1>2
<1>11. Stepped(c, f, g, i)
  BY <1>2, <1>3, <1>5, <1>6, <1>8, <1>9, <1>10 DEF Stepped, Works, MarksGrow, AccountsMove, Excused
<1> QED
  BY <1>1, <1>11, SteppedKeeps

\* or ends.
LEMMA EndKeeps ==
  ASSUME ServiceBounds, ServicesInv, NEW i \in DOMAIN ops, NEW c, c = ops[i].ch, Services!Finish(i),
         creds' \in [Channels -> CredType], \A d \in Channels \ {c} : creds'[d] = creds[d],
         creds'[c].user = creds[c].user, creds'[c].pw = creds[c].pw,
         creds'[c].id = creds[c].id \/ RowOwn(c, creds[c].id)', Works, AccountsMove(c),
         ~Excused' /\ c \notin Bad' =>
           /\ CanEnd(ops, i, c, creds[c], creds'[c], owned, owned')
           /\ c \in marks'.failed \/ Succeeds(ops, i, c, creds[c], creds'[c], owned, owned')
  PROVE  ServicesInv'
<1>1. ServicesTyped /\ ops \in Seq(OpType) /\ c \in Channels
  <2>1. ServicesTyped /\ ops \in Seq(OpType) /\ ops[i] \in OpType
    BY DEF ServicesInv, ServicesTyped
  <2> QED
    BY <2>1 DEF OpType
<1>2. PICK q, p, r, s, a, b : q = ops /\ p = ops' /\ r = creds[c] /\ s = creds'[c] /\ a = owned /\ b = owned'
  OBVIOUS
<1>3. q \in Seq(OpType) /\ i \in DOMAIN q /\ c = q[i].ch /\ p = Services!RemoveAt(q, i)
  BY <1>1, <1>2 DEF Services!Finish
<1>4. p \in Seq(OpType) /\ \A j \in DOMAIN p : \E k \in DOMAIN q : p[j] = q[k]
  BY <1>3, Removing
<1>5. PICK f, g : \A d \in Channels : Matched(q, p, f, g, d, i)
  BY <1>3, Removing
<1>6. ServicesTyped'
  BY <1>1, <1>2, <1>4 DEF ServicesTyped, Works, MarksGrow, AccountsMove
<1>7. \A j \in DOMAIN ops' : \E k \in DOMAIN ops : ops'[j] = ops[k]
  BY <1>2, <1>4
<1>8. marks'.clash \/ HoldersApart'
  <2>1. \A d \in Channels : creds'[d].user = creds[d].user
    OBVIOUS
  <2> QED
    BY <2>1, <1>7, HoldersKept DEF Works, MarksGrow
<1>10. ASSUME ~Excused', c \notin Bad'
       PROVE  /\ Ordered(ops', creds'[c], owned', c)
              /\ c \in marks'.failed \/ Smooth(ops', creds'[c], owned', c)
  <2>1. ~Excused /\ c \notin Bad
    BY <1>10 DEF Excused, Bad, Works, MarksGrow
  <2>2. Ordered(q, r, a, c) /\ (c \in marks.failed \/ Smooth(q, r, a, c)) /\ NamesApart(a)
    BY <2>1, <1>1, <1>2 DEF ServicesInv
  <2>3. CanEnd(q, i, c, r, s, a, b) /\ (c \in marks'.failed \/ Succeeds(q, i, c, r, s, a, b))
    BY <1>2, <1>10
  <2>4. Matched(q, p, f, g, c, i)
    BY <1>1, <1>5
  <2>5. Ordered(p, s, b, c)
    BY <1>3, <1>4, <2>2, <2>3, <2>4, OldestEnds
  <2>6. Smooth(q, r, a, c) /\ Succeeds(q, i, c, r, s, a, b) => Smooth(p, s, b, c)
    BY <1>1, <1>3, <1>4, <2>2, <2>3, <2>4, OldestSucceeds
  <2>7. c \in marks'.failed \/ Smooth(p, s, b, c)
    BY <2>2, <2>3, <2>6 DEF Works, MarksGrow
  <2> QED
    BY <2>5, <2>7, <1>2
<1>11. Stepped(c, f, g, i)
  BY <1>2, <1>3, <1>5, <1>6, <1>7, <1>8, <1>10 DEF Stepped, Works, MarksGrow, AccountsMove, Excused
<1> QED
  BY <1>1, <1>11, SteppedKeeps

\* Starting, or failing, an operation is written down and nothing else.
LEMMA StartingWorks ==
  ASSUME ServicesInv, NEW i \in DOMAIN ops, cand' = cand, used' = used,
         marks' = Services!Started(i) \/ marks' = Services!FailedFor(i)
  PROVE  /\ Works /\ marks'.overlap = Services!Overlaps(i) /\ (Excused' <=> Excused)
         /\ marks' = Services!FailedFor(i) => ops[i].ch \in marks'.failed
<1>1. ops[i] \in OpType /\ marks \in MarkType /\ used \in [requests : 0 .. MaxRequests, faults : 0 .. MaxFaults]
  BY DEF ServicesInv, ServicesTyped
<1>2. ops[i].ch \in Channels
  BY <1>1 DEF OpType
<1>3. Services!Overlaps(i) \in SUBSET Channels /\ marks.overlap \subseteq Services!Overlaps(i)
  BY <1>1, <1>2 DEF Services!Overlaps, MarkType
<1>4. marks'.overlap = Services!Overlaps(i) /\ marks' \in MarkType
  <2>1. marks.failed \cup {ops[i].ch} \in SUBSET Channels
    BY <1>1, <1>2 DEF MarkType
  <2>2. CASE marks' = Services!Started(i)
    BY <2>2, <1>1, <1>3 DEF Services!Started, MarkType
  <2>3. CASE marks' = Services!FailedFor(i)
    BY <2>1, <2>3, <1>1, <1>3 DEF Services!FailedFor, MarkType
  <2> QED
    BY <2>2, <2>3
<1>5. /\ marks'.clash = marks.clash /\ marks'.lost = marks.lost /\ marks'.stale = marks.stale
      /\ marks.failed \subseteq marks'.failed
      /\ marks' = Services!FailedFor(i) => ops[i].ch \in marks'.failed
  BY ZenonT(40), <1>1 DEF Services!Started, Services!FailedFor, MarkType
<1> QED
  BY <1>1, <1>3, <1>4, <1>5 DEF Works, MarksGrow, Excused

\* An operation that has found an account goes on in its place.
LEMMA FindingGoesOn ==
  ASSUME ServicesTyped, NEW i \in DOMAIN ops, NEW k \in Pks, Services!Found(i, k)
  PROVE  \E o \in OpType :
           /\ ops' = [ops EXCEPT ![i] = o] /\ o.st = "found" /\ o.pk = k
           /\ o.kind = ops[i].kind /\ o.ch = ops[i].ch /\ o.user = ops[i].user /\ o.pw = ops[i].pw
<1> DEFINE o == [ops[i] EXCEPT !.st = "found", !.pk = k]
<1>1. ops \in Seq(OpType) /\ ops[i] \in OpType
  BY DEF ServicesTyped
<1>2. /\ o \in OpType /\ o.st = "found" /\ o.pk = k
      /\ o.kind = ops[i].kind /\ o.ch = ops[i].ch /\ o.user = ops[i].user /\ o.pw = ops[i].pw
  BY <1>1 DEF OpType
<1>3. ops' = [ops EXCEPT ![i] = o]
  BY <1>1 DEF Services!Found
<1> QED
  BY <1>2, <1>3

LEMMA RotationFinds ==
  ASSUME ServiceBounds, ServicesInv, NEW i \in DOMAIN ops, Services!FindToRotate(i)
  PROVE  ServicesInv'
<1> DEFINE c == ops[i].ch
<1>1. /\ ops[i].kind = "rotate" /\ ops[i].st = "pending" /\ ServicesTyped
      /\ UNCHANGED <<creds, owned, made, cand, used>>
  BY DEF Services!FindToRotate, Services!Is, ServicesInv
<1>2. AccountsMove(c)
  BY <1>1, SameAccounts
<1>3. 0 \notin Pks /\ creds' \in [Channels -> CredType]
  BY <1>1 DEF ServiceBounds, ServicesTyped
<1>4. CASE Services!Finish(i) /\ marks' = Services!FailedFor(i)
  <2>1. Works /\ marks'.overlap = Services!Overlaps(i) /\ c \in marks'.failed
    BY <1>1, <1>4, StartingWorks
  <2>2. c \notin Bad' => CanEnd(ops, i, c, creds[c], creds'[c], owned, owned')
    BY <1>1, <2>1, StartsOldest DEF CanEnd
  <2> QED
    BY <1>1, <1>2, <1>3, <1>4, <2>1, <2>2, EndKeeps
<1>5. ASSUME NEW k \in Services!With(ops[i].user), Services!Found(i, k), marks' = Services!Started(i)
      PROVE  ServicesInv'
  <2>1. Works /\ marks'.overlap = Services!Overlaps(i) /\ (Excused' <=> Excused) /\ Bad \subseteq Bad'
    BY <1>1, <1>5, StartingWorks DEF Bad, Works, MarksGrow
  <2>2. /\ k \in Pks /\ k <= made /\ owned[k] \in AcctType /\ owned[k].user = ops[i].user
        /\ Excused \/ owned[k].owner = c \/ owned[k].owner \in Bad
    BY <1>5, FoundByName
  <2>3. PICK o \in OpType :
           /\ ops' = [ops EXCEPT ![i] = o] /\ o.st = "found" /\ o.pk = k
           /\ o.kind = ops[i].kind /\ o.ch = ops[i].ch /\ o.user = ops[i].user /\ o.pw = ops[i].pw
    BY <1>1, <1>5, <2>2, FindingGoesOn
  <2>4. IdOwn(o)'
    BY <1>1, <2>1, <2>2, <2>3 DEF IdOwn
  <2>5. ASSUME ~Excused', c \notin Bad'
        PROVE  CanAdvance(ops, i, o, c, owned, owned') /\ (c \in marks'.failed \/ HasFound(o, c, owned'))
    <3>1. OldestOf(ops, i, c)
      BY <1>1, <2>1, <2>5, StartsOldest
    <3>2. CanAdvance(ops, i, o, c, owned, owned')
      BY <1>1, <1>3, <2>2, <2>3, <3>1 DEF CanAdvance
    <3>3. c \notin marks.failed => k \in Named(owned, c, ops[i].user)
      <4> SUFFICES ASSUME c \notin marks.failed PROVE k \in Named(owned, c, ops[i].user)
        OBVIOUS
      <4>1. c \in Channels /\ ~Excused /\ c \notin Bad
        <5>1. ops[i] \in OpType
          BY <1>1 DEF ServicesTyped
        <5> QED
          BY <5>1, <2>1, <2>5 DEF OpType, Bad
      <4>2. RotationsFind(ops, owned, c)
        BY <4>1 DEF ServicesInv, Smooth
      <4>3. \A j \in DOMAIN ops : j < i => ~For(ops, j, c, "provision", ops[i].user)
        <5>1. DOMAIN ops \subseteq Int
          BY <1>1 DEF ServicesTyped
        <5> QED
          BY <3>1, <5>1 DEF OldestOf, For, Of
      <4>4. PICK l \in Named(owned, c, ops[i].user) : TRUE
        BY <1>1, <4>2, <4>3 DEF RotationsFind, Of
      <4>5. owned[k] # Services!NoAcct
        BY <2>2 DEF AcctType, ServiceBounds, Services!NoAcct
      <4>6. k = l
        BY <2>2, <4>4, <4>5 DEF ServicesInv, NamesApart, Named
      <4> QED
        BY <4>4, <4>6
    <3> QED
      BY <1>1, <2>1, <2>3, <3>2, <3>3 DEF HasFound, Works, MarksGrow
  <2> QED
    BY <1>1, <1>2, <2>1, <2>3, <2>4, <2>5, AdvanceKeeps
<1> QED
  BY <1>4, <1>5 DEF Services!FindToRotate

LEMMA AccountMade ==
  ASSUME ServiceBounds, ServicesInv, NEW i \in DOMAIN ops, Services!With(ops[i].user) = {},
         made < Cardinality(Pks), made' = made + 1,
         owned' = [owned EXCEPT ![made + 1] = [user |-> ops[i].user, pw |-> 0, owner |-> ops[i].ch]]
  PROVE  /\ AccountsMove(ops[i].ch) /\ made + 1 \in Pks /\ owned[made + 1] = Services!NoAcct
         /\ owned'[made + 1].owner = ops[i].ch /\ owned'[made + 1].user = ops[i].user
         /\ \A k \in Pks \ {made + 1} : owned'[k] = owned[k]
<1>1. ServicesTyped /\ ops[i] \in OpType /\ NamesApart(owned)
  BY DEF ServicesInv, ServicesTyped
<1>2. PICK n \in Nat : Pks = 1 .. n
  BY DEF ServiceBounds
<1>3. Cardinality(Pks) = n /\ made \in Nat
  <2>1. Cardinality(Pks) = n
    BY <1>2, FS_Interval
  <2> QED
    BY <2>1, <1>1, <1>2 DEF ServicesTyped
<1>4. made + 1 \in Pks /\ made' \in 0 .. Cardinality(Pks) /\ made <= made' /\ made + 1 > made
  BY <1>2, <1>3
<1>5. \A k \in Pks : k > made => owned[k] = Services!NoAcct
  BY DEF ServicesInv, IdsOwn
<1>6. owned[made + 1] = Services!NoAcct
  BY <1>4, <1>5
<1> DEFINE new == [user |-> ops[i].user, pw |-> 0, owner |-> ops[i].ch]
<1>7. new \in AcctType /\ new.owner = ops[i].ch /\ new.user = ops[i].user
  BY <1>1 DEF AcctType, OpType, PwType, ServiceBounds
<1>8. owned'[made + 1] = new /\ \A k \in Pks \ {made + 1} : owned'[k] = owned[k]
  BY <1>1, <1>4 DEF ServicesTyped
<1>9. owned' \in [Pks -> AcctType \cup {Services!NoAcct}]
  BY <1>1, <1>7 DEF ServicesTyped
<1>10. NamesApart(owned')
  <2> SUFFICES ASSUME NEW k \in Pks, NEW l \in Pks, owned'[k] # Services!NoAcct, owned'[l].user = owned'[k].user, k # l
               PROVE  FALSE
    BY DEF NamesApart
  <2>1. CASE k = made + 1
    BY <1>7, <1>8, <2>1 DEF Services!With
  <2>2. CASE l = made + 1
    BY <1>7, <1>8, <2>2 DEF Services!With
  <2>3. CASE k # made + 1 /\ l # made + 1
    BY <1>1, <1>8, <2>3 DEF NamesApart
  <2> QED
    BY <2>1, <2>2, <2>3
<1>11. \A k \in Pks : /\ k <= made => k # made + 1
                      /\ k > made' => k # made + 1 /\ k > made
  BY <1>2, <1>3
<1>12. Services!NoAcct.owner = Services!None
  BY DEF Services!NoAcct
<1>13. \A k \in Pks :
         /\ k <= made => owned'[k].owner \in {owned[k].owner, Services!None}
         /\ k > made' => owned'[k] = Services!NoAcct
         /\ owned'[k].owner \in {owned[k].owner, ops[i].ch, Services!None}
         /\ owned'[k] = owned[k] \/ owned[k].owner = Services!None
  BY <1>5, <1>6, <1>7, <1>8, <1>11, <1>12
<1> QED
  BY <1>4, <1>6, <1>7, <1>8, <1>9, <1>10, <1>13 DEF AccountsMove

LEMMA ProvisioningFinds ==
  ASSUME ServiceBounds, ServicesInv, NEW i \in DOMAIN ops, Services!CreateOrFind(i)
  PROVE  ServicesInv'
<1> DEFINE c == ops[i].ch
<1>1. /\ ops[i].kind = "provision" /\ ops[i].st = "pending" /\ ServicesTyped /\ UNCHANGED <<creds, cand, used>>
      /\ ops[i] \in OpType
  BY DEF Services!CreateOrFind, Services!Is, ServicesInv, ServicesTyped
<1>3. 0 \notin Pks /\ creds' \in [Channels -> CredType] /\ c \in Channels /\ c # Services!None
  BY <1>1 DEF ServiceBounds, ServicesTyped, OpType
<1>4. CASE /\ Services!With(ops[i].user) = {} /\ made < Services!Cardinality(Pks) /\ made' = made + 1
           /\ owned' = [owned EXCEPT ![made + 1] = [user |-> ops[i].user, pw |-> 0, owner |-> ops[i].ch]]
           /\ Services!Found(i, made + 1) /\ marks' = Services!Started(i)
  <2>0. Cardinality(Pks) = Services!Cardinality(Pks)
    BY DEF Cardinality, Services!Cardinality, IsFiniteSet, Services!IsFiniteSet
  <2>1. Works /\ marks'.overlap = Services!Overlaps(i) /\ (Excused' <=> Excused)
    BY <1>1, <1>4, StartingWorks
  <2>2. /\ AccountsMove(c) /\ made + 1 \in Pks /\ owned[made + 1] = Services!NoAcct
        /\ owned'[made + 1].owner = c /\ owned'[made + 1].user = ops[i].user
        /\ \A k \in Pks \ {made + 1} : owned'[k] = owned[k]
    BY <1>4, <2>0, AccountMade
  <2>3. PICK o \in OpType :
           /\ ops' = [ops EXCEPT ![i] = o] /\ o.st = "found" /\ o.pk = made + 1
           /\ o.kind = ops[i].kind /\ o.ch = ops[i].ch /\ o.user = ops[i].user /\ o.pw = ops[i].pw
    BY <1>1, <1>4, <2>2, FindingGoesOn
  <2>4. IdOwn(o)'
    <3>1. made + 1 \in Nat
      BY <2>2 DEF ServiceBounds
    <3>2. made + 1 <= made'
      BY <1>4, <3>1
    <3> QED
      BY <2>2, <2>3, <3>2 DEF IdOwn
  <2>5. ASSUME ~Excused', c \notin Bad'
        PROVE  CanAdvance(ops, i, o, c, owned, owned') /\ HasFound(o, c, owned')
    <3>1. OldestOf(ops, i, c)
      BY <1>1, <2>1, <2>5, StartsOldest
    <3>2. made + 1 \in Named(owned', c, o.user)
      BY <2>2, <2>3 DEF Named
    <3>3. owned[made + 1].owner # c
      BY <1>3, <2>2 DEF Services!NoAcct
    <3>4. \A k \in Pks : owned[k].owner = c => owned'[k].owner = c /\ owned'[k].user = owned[k].user
      BY <2>2, <3>3
    <3>5. \A k \in Pks : owned'[k].owner = c =>
            \/ owned[k].owner = c /\ owned[k].user = owned'[k].user
            \/ owned'[k].user = o.user /\ o.kind = "provision"
      BY <1>1, <2>2, <2>3
    <3> QED
      BY <1>1, <1>3, <2>2, <2>3, <3>1, <3>2, <3>4, <3>5 DEF CanAdvance, HasFound
  <2> QED
    BY <1>1, <2>1, <2>2, <2>3, <2>4, <2>5, AdvanceKeeps
<1>5. ASSUME NEW k \in Services!With(ops[i].user), UNCHANGED <<owned, made>>, owned[k].owner = ops[i].ch,
             Services!Found(i, k), marks' = Services!Started(i)
      PROVE  ServicesInv'
  <2>1. Works /\ marks'.overlap = Services!Overlaps(i) /\ (Excused' <=> Excused)
    BY <1>1, <1>5, StartingWorks
  <2>2. k \in Pks /\ k <= made /\ owned[k] \in AcctType /\ owned[k].user = ops[i].user
    BY <1>5, FoundByName
  <2>3. PICK o \in OpType :
           /\ ops' = [ops EXCEPT ![i] = o] /\ o.st = "found" /\ o.pk = k
           /\ o.kind = ops[i].kind /\ o.ch = ops[i].ch /\ o.user = ops[i].user /\ o.pw = ops[i].pw
    BY <1>1, <1>5, <2>2, FindingGoesOn
  <2>4. IdOwn(o)'
    BY <1>5, <2>2, <2>3 DEF IdOwn
  <2>5. ASSUME ~Excused', c \notin Bad'
        PROVE  CanAdvance(ops, i, o, c, owned, owned') /\ HasFound(o, c, owned')
    <3>1. OldestOf(ops, i, c)
      BY <1>1, <2>1, <2>5, StartsOldest
    <3>2. k \in Named(owned', c, o.user)
      BY <1>5, <2>2, <2>3 DEF Named
    <3> QED
      BY <1>1, <1>3, <1>5, <2>2, <2>3, <3>1, <3>2 DEF CanAdvance, HasFound
  <2>6. AccountsMove(c)
    BY <1>5, SameAccounts
  <2> QED
    BY <1>1, <2>1, <2>3, <2>4, <2>5, <2>6, AdvanceKeeps
<1>6. ASSUME NEW k \in Services!With(ops[i].user), UNCHANGED <<owned, made>>, owned[k].owner # ops[i].ch,
             Services!Finish(i), marks' = Services!FailedFor(i)
      PROVE  ServicesInv'
  <2>1. Works /\ marks'.overlap = Services!Overlaps(i) /\ c \in marks'.failed
    BY <1>1, <1>6, StartingWorks
  <2>2. k \in Pks /\ k <= made /\ owned[k] \in AcctType /\ owned[k].user = ops[i].user
    BY <1>6, FoundByName
  <2>3. Named(owned, c, ops[i].user) = {}
    <3>1. owned[k] # Services!NoAcct
      BY <2>2 DEF AcctType, ServiceBounds, Services!NoAcct
    <3> QED
      BY <1>6, <2>2, <3>1 DEF ServicesInv, NamesApart, Named
  <2>4. c \notin Bad' => CanEnd(ops, i, c, creds[c], creds'[c], owned, owned')
    BY <1>1, <1>6, <2>1, <2>3, StartsOldest DEF CanEnd
  <2>5. AccountsMove(c)
    BY <1>6, SameAccounts
  <2> QED
    BY <1>1, <1>3, <1>6, <2>1, <2>4, <2>5, EndKeeps
<1> QED
  BY <1>4, <1>5, <1>6 DEF Services!CreateOrFind, Services!NoPw

LEMMA DeletionFinds ==
  ASSUME ServiceBounds, ServicesInv, NEW i \in DOMAIN ops, Services!FindToDelete(i)
  PROVE  ServicesInv'
<1> DEFINE c == ops[i].ch
<1>1. /\ ops[i].kind = "delete" /\ ops[i].st = "pending" /\ ServicesTyped
      /\ UNCHANGED <<creds, owned, made, cand, used>> /\ marks' = Services!Started(i)
      /\ ops[i] \in OpType
  BY DEF Services!FindToDelete, Services!Is, ServicesInv, ServicesTyped
<1>2. AccountsMove(c) /\ 0 \notin Pks /\ creds' \in [Channels -> CredType]
  BY <1>1, SameAccounts DEF ServiceBounds, ServicesTyped
<1>3. Works /\ marks'.overlap = Services!Overlaps(i) /\ (Excused' <=> Excused) /\ Bad \subseteq Bad'
  BY <1>1, StartingWorks DEF Bad, Works, MarksGrow
<1>4. c \notin Bad' => OldestOf(ops, i, c)
  BY <1>1, <1>3, StartsOldest
<1>5. CASE Services!With(ops[i].user) = {} /\ Services!Finish(i)
  <2>1. Named(owned, c, ops[i].user) = {}
    BY <1>5 DEF Named, Services!With
  <2>2. c \notin Bad' => /\ CanEnd(ops, i, c, creds[c], creds'[c], owned, owned')
                         /\ Succeeds(ops, i, c, creds[c], creds'[c], owned, owned')
    BY <1>1, <1>4, <2>1 DEF CanEnd, Succeeds
  <2> QED
    BY <1>1, <1>2, <1>3, <1>5, <2>2, EndKeeps
<1>6. ASSUME NEW k \in Pks, Services!Found(i, k),
             k = ops[i].pk \/ k \in Services!With(ops[i].user)
      PROVE  ServicesInv'
  <2>1. PICK o \in OpType :
           /\ ops' = [ops EXCEPT ![i] = o] /\ o.st = "found" /\ o.pk = k
           /\ o.kind = ops[i].kind /\ o.ch = ops[i].ch /\ o.user = ops[i].user /\ o.pw = ops[i].pw
    BY <1>1, <1>6, FindingGoesOn
  <2>2. CASE k = ops[i].pk
    <3>1. ~Excused' /\ c \notin Bad' => CanAdvance(ops, i, o, c, owned, owned') /\ HasFound(o, c, owned')
      BY <1>1, <1>2, <1>4, <2>1, <2>2 DEF CanAdvance, HasFound
    <3> QED
      BY <1>1, <1>2, <1>3, <2>1, <2>2, <3>1, AdvanceKeeps
  <2>3. CASE k \in Services!With(ops[i].user)
    <3>1. /\ k <= made /\ owned[k] \in AcctType /\ owned[k].user = ops[i].user
          /\ Excused \/ owned[k].owner = c \/ owned[k].owner \in Bad
      BY <2>3, FoundByName
    <3>2. IdOwn(o)'
      BY <1>1, <1>3, <2>1, <3>1 DEF IdOwn
    <3>3. Named(owned, c, ops[i].user) \subseteq {k}
      <4>1. owned[k] # Services!NoAcct
        BY <3>1 DEF AcctType, ServiceBounds, Services!NoAcct
      <4> QED
        BY <3>1, <4>1 DEF ServicesInv, NamesApart, Named
    <3>4. ~Excused' /\ c \notin Bad' => CanAdvance(ops, i, o, c, owned, owned') /\ HasFound(o, c, owned')
      BY <1>1, <1>2, <1>4, <2>1, <3>3 DEF CanAdvance, HasFound
    <3> QED
      BY <1>1, <1>2, <1>3, <2>1, <3>2, <3>4, AdvanceKeeps
  <2> QED
    BY <1>6, <2>2, <2>3
<1>7. ops[i].pk # 0 => ops[i].pk \in Pks
  BY <1>1 DEF OpType
<1> QED
  BY <1>5, <1>6, <1>7 DEF Services!FindToDelete, Services!NoPk, Services!With

\* A started operation is its channel's oldest, and its account is its own,
\* unless it is excused.
LEMMA AtWork ==
  ASSUME ServiceBounds, ServicesInv, NEW i \in DOMAIN ops, ops[i].st # "pending"
  PROVE  /\ ops[i] \in OpType /\ ServicesTyped
         /\ ops[i].pk \in Pks => owned[ops[i].pk].owner \in {ops[i].ch, Services!None} \cup Bad \/ Excused
         /\ ~Excused /\ ops[i].ch \notin Bad =>
              /\ OldestOf(ops, i, ops[i].ch) /\ ops[i].pk \in Pks
              /\ ops[i].kind = "provision" => ops[i].pk \in Named(owned, ops[i].ch, ops[i].user)
              /\ ops[i].st = "set" => owned[ops[i].pk].pw = ops[i].pw
<1>1. ops[i] \in OpType /\ ServicesTyped /\ 0 \notin Pks
  BY DEF ServicesInv, ServicesTyped, ServiceBounds
<1>2. ops[i].pk \in Pks => owned[ops[i].pk].owner \in {ops[i].ch, Services!None} \cup Bad \/ Excused
  BY <1>1 DEF ServicesInv, IdsOwn, IdOwn
<1>3. ASSUME ~Excused, ops[i].ch \notin Bad
      PROVE  /\ OldestOf(ops, i, ops[i].ch) /\ ops[i].pk \in Pks
             /\ ops[i].kind = "provision" => ops[i].pk \in Named(owned, ops[i].ch, ops[i].user)
             /\ ops[i].st = "set" => owned[ops[i].pk].pw = ops[i].pw
  <2>1. ops[i].ch \in Channels
    BY <1>1 DEF OpType
  <2>2. Ordered(ops, creds[ops[i].ch], owned, ops[i].ch)
    BY <1>3, <2>1 DEF ServicesInv
  <2>3. OldestOf(ops, i, ops[i].ch)
    BY <1>1, <2>2, StartedOldest DEF Ordered
  <2>4. /\ ops[i].pk # 0
        /\ ops[i].kind = "provision" => ops[i].pk \in Named(owned, ops[i].ch, ops[i].user)
        /\ ops[i].st = "set" => owned[ops[i].pk].pw = ops[i].pw
    BY <2>2 DEF Ordered, FoundIsThere, Of
  <2> QED
    BY <1>1, <2>3, <2>4 DEF OpType
<1> QED
  BY <1>1, <1>2, <1>3

\* An account gets another password, or goes.
LEMMA AccountChanges ==
  ASSUME ServiceBounds, ServicesInv, NEW i \in DOMAIN ops, ops[i].st # "pending", made' = made,
         \/ /\ ops[i].pk \in Pks => owned[ops[i].pk] # Services!NoAcct
            /\ owned' = [owned EXCEPT ![ops[i].pk].pw = ops[i].pw]
         \/ owned' = [owned EXCEPT ![ops[i].pk] = Services!NoAcct]
  PROVE  AccountsMove(ops[i].ch)
<1> DEFINE m == ops[i].pk
<1>1. /\ ops[i] \in OpType /\ ServicesTyped /\ NamesApart(owned) /\ made \in Nat
      /\ m \in Pks => owned[m].owner \in {ops[i].ch, Services!None} \cup Bad \/ Excused
  BY AtWork DEF ServicesInv, ServicesTyped
<1>2. CASE m \notin Pks
  <2>1. owned' = owned
    BY <1>1, <1>2 DEF ServicesTyped
  <2> QED
    BY <1>2, <2>1, SameAccounts
<1>3. CASE m \in Pks
  <2>1. \A k \in Pks \ {m} : owned'[k] = owned[k]
    BY <1>1 DEF ServicesTyped
  <2>2. \/ /\ owned[m] \in AcctType /\ owned'[m] \in AcctType
           /\ owned'[m].owner = owned[m].owner /\ owned'[m].user = owned[m].user
        \/ owned'[m] = Services!NoAcct
    <3>1. CASE owned[m] # Services!NoAcct /\ owned' = [owned EXCEPT ![m].pw = ops[i].pw]
      <4>1. owned[m] \in AcctType
        BY <1>1, <1>3, <3>1 DEF ServicesTyped
      <4>2. owned'[m] = [owned[m] EXCEPT !.pw = ops[i].pw]
        BY <1>1, <1>3, <3>1 DEF ServicesTyped
      <4> QED
        BY <1>1, <4>1, <4>2 DEF AcctType, OpType
    <3>2. CASE owned' = [owned EXCEPT ![m] = Services!NoAcct]
      BY <1>1, <1>3, <3>2 DEF ServicesTyped
    <3> QED
      BY <1>3, <3>1, <3>2
  <2>3. owned' \in [Pks -> AcctType \cup {Services!NoAcct}]
    <3>1. DOMAIN owned' = Pks /\ owned' = [k \in Pks |-> owned'[k]]
      BY <1>1 DEF ServicesTyped
    <3> QED
      BY <1>1, <2>1, <2>2, <3>1 DEF ServicesTyped
  <2>4. Services!NoAcct.owner = Services!None /\ Services!NoAcct.user = Services!None
    BY DEF Services!NoAcct
  <2>5. \A k \in Pks : \/ owned'[k] = Services!NoAcct
                       \/ /\ owned[k] # Services!NoAcct
                          /\ owned'[k].owner = owned[k].owner /\ owned'[k].user = owned[k].user
    <3>1. owned[m] \in AcctType => owned[m] # Services!NoAcct
      BY DEF AcctType, ServiceBounds, Services!NoAcct
    <3> QED
      BY <2>1, <2>2, <3>1
  <2>6. \A k \in Pks : owned'[k] # Services!NoAcct => owned'[k].user # Services!None
    BY <2>3 DEF AcctType, ServiceBounds
  <2>7. NamesApart(owned')
    <3> SUFFICES ASSUME NEW k \in Pks, NEW l \in Pks, owned'[k] # Services!NoAcct, owned'[l].user = owned'[k].user
                 PROVE  k = l
      BY DEF NamesApart
    <3>1. owned'[l] # Services!NoAcct
      BY <2>4, <2>6
    <3> QED
      BY <1>1, <2>5, <3>1 DEF NamesApart
  <2>8. \A k \in Pks : k > made => owned[k] = Services!NoAcct /\ owned'[k] = Services!NoAcct
    BY <2>5 DEF ServicesInv, IdsOwn
  <2>9. \A k \in Pks : owned'[k] = owned[k] \/ owned[k].owner \in {ops[i].ch, Services!None} \cup Bad \/ Excused
    BY <1>1, <1>3, <2>1
  <2> QED
    BY <1>1, <2>3, <2>4, <2>5, <2>7, <2>8, <2>9 DEF AccountsMove, ServicesTyped
<1> QED
  BY <1>2, <1>3

LEMMA PasswordSet ==
  ASSUME ServiceBounds, ServicesInv, NEW i \in DOMAIN ops, Services!SetPassword(i)
  PROVE  ServicesInv'
<1> DEFINE c == ops[i].ch
           m == ops[i].pk
<1>1. /\ ops[i].kind \in {"provision", "rotate"} /\ ops[i].st = "found" /\ ServicesTyped
      /\ UNCHANGED <<creds, made, cand, used>> /\ ops[i] \in OpType /\ NamesApart(owned)
  BY DEF Services!SetPassword, ServicesInv, ServicesTyped
<1>2. creds' \in [Channels -> CredType] /\ c \in Channels /\ c # Services!None /\ 0 \notin Pks
  BY <1>1 DEF ServiceBounds, ServicesTyped, OpType
<1>3. /\ m \in Pks => owned[m].owner \in {c, Services!None} \cup Bad \/ Excused
      /\ ~Excused /\ c \notin Bad =>
           OldestOf(ops, i, c) /\ m \in Pks /\ (ops[i].kind = "provision" => m \in Named(owned, c, ops[i].user))
  BY <1>1, AtWork
<1>4. CASE owned[m] = Services!NoAcct /\ Services!Finish(i) /\ marks' = Services!FailedFor(i) /\ owned' = owned
  <2>1. Works /\ marks'.overlap = Services!Overlaps(i) /\ (Excused' <=> Excused) /\ c \in marks'.failed /\ Bad \subseteq Bad'
    BY <1>1, <1>4, StartingWorks DEF Bad, Works, MarksGrow
  <2>2. AccountsMove(c)
    BY <1>1, <1>4, SameAccounts
  <2>3. ~Excused' /\ c \notin Bad' => CanEnd(ops, i, c, creds[c], creds'[c], owned, owned')
    <3> SUFFICES ASSUME ~Excused, c \notin Bad PROVE CanEnd(ops, i, c, creds[c], creds'[c], owned, owned')
      BY <2>1
    <3>1. ops[i].kind # "provision"
      BY <1>2, <1>3, <1>4 DEF Named, Services!NoAcct
    <3> QED
      BY <1>1, <1>3, <1>4, <3>1 DEF CanEnd
  <2> QED
    BY <1>1, <1>2, <1>4, <2>1, <2>2, <2>3, EndKeeps
<1>5. CASE owned[m] # Services!NoAcct /\ owned' = [owned EXCEPT ![m].pw = ops[i].pw] /\ marks' = marks
  <2>1. Works /\ (Excused' <=> Excused) /\ Bad' = Bad
    BY <1>1, <1>5 DEF Works, MarksGrow, ServicesTyped, Excused, Bad
  <2>2. AccountsMove(c)
    BY <1>1, <1>5, AccountChanges
  <2>3. \A k \in Pks : owned'[k].owner = owned[k].owner /\ owned'[k].user = owned[k].user
    <3>1. \A k \in Pks \ {m} : owned'[k] = owned[k]
      BY <1>1, <1>5 DEF ServicesTyped
    <3>2. m \in Pks => owned'[m] = [owned[m] EXCEPT !.pw = ops[i].pw] /\ owned[m] \in AcctType
      BY <1>1, <1>5 DEF ServicesTyped
    <3>3. m \in Pks => owned'[m].owner = owned[m].owner /\ owned'[m].user = owned[m].user
      BY <3>2 DEF AcctType
    <3> QED
      BY <3>1, <3>3
  <2>4. m \in Pks => owned'[m].pw = ops[i].pw
    <3>1. m \in Pks => owned'[m] = [owned[m] EXCEPT !.pw = ops[i].pw] /\ owned[m] \in AcctType
      BY <1>1, <1>5 DEF ServicesTyped
    <3> QED
      BY <3>1 DEF AcctType
  <2>5. Named(owned', c, ops[i].user) = Named(owned, c, ops[i].user)
    BY <2>3 DEF Named
  <2>6. CASE ops[i].kind = "rotate" /\ Services!Finish(i)
    <3>1. ASSUME ~Excused', c \notin Bad'
          PROVE  /\ CanEnd(ops, i, c, creds[c], creds'[c], owned, owned')
                 /\ c \in marks'.failed \/ Succeeds(ops, i, c, creds[c], creds'[c], owned, owned')
      <4>1. CanEnd(ops, i, c, creds[c], creds'[c], owned, owned')
        BY <1>1, <1>3, <2>1, <2>3, <2>6, <3>1 DEF CanEnd
      <4>2. c \notin marks.failed => m \in Named(owned, c, ops[i].user)
        <5>1. c \notin marks.failed => RotationsFind(ops, owned, c)
          BY <1>2, <2>1, <3>1 DEF ServicesInv, Smooth
        <5> QED
          BY <5>1, <1>1, <2>6 DEF RotationsFind, Of
      <4> QED
        BY <1>1, <1>3, <1>5, <2>1, <2>3, <2>4, <2>6, <3>1, <4>1, <4>2 DEF Succeeds
    <3> QED
      BY <1>1, <1>2, <2>1, <2>2, <2>6, <3>1, EndKeeps
  <2>7. CASE ops[i].kind # "rotate" /\ ops' = [ops EXCEPT ![i].st = "set"]
    <3> DEFINE o == [ops[i] EXCEPT !.st = "set"]
    <3>1. /\ o \in OpType /\ o.st = "set" /\ o.pk = m
          /\ o.kind = ops[i].kind /\ o.ch = ops[i].ch /\ o.user = ops[i].user /\ o.pw = ops[i].pw
      BY <1>1 DEF OpType
    <3>2. ops' = [ops EXCEPT ![i] = o]
      BY <1>1, <2>7 DEF ServicesTyped
    <3> HIDE DEF o
    <3>3. ~Excused' /\ c \notin Bad' => CanAdvance(ops, i, o, c, owned, owned') /\ HasFound(o, c, owned')
      BY <1>1, <1>2, <1>3, <2>1, <2>3, <2>4, <2>5, <2>7, <3>1 DEF CanAdvance, HasFound
    <3> QED
      BY <1>1, <2>1, <2>2, <3>1, <3>2, <3>3, AdvanceKeeps
  <2> QED
    BY <1>5, <2>6, <2>7 DEF Services!SetPassword
<1> QED
  BY <1>4, <1>5 DEF Services!SetPassword

LEMMA AccountRecorded ==
  ASSUME ServiceBounds, ServicesInv, NEW i \in DOMAIN ops, Services!RecordAccount(i)
  PROVE  ServicesInv'
<1>0. PICK c, m : c = ops[i].ch /\ m = ops[i].pk
  OBVIOUS
<1>1. /\ ops[i].kind = "provision" /\ ops[i].st = "set" /\ ServicesTyped /\ Services!Finish(i)
      /\ UNCHANGED <<owned, made, cand, used>> /\ ops[i] \in OpType /\ NamesApart(owned)
      /\ creds' = [creds EXCEPT ![c].id = m]
      /\ marks' = [marks EXCEPT !.stale = IF creds[c].user = ops[i].user THEN @ ELSE @ \cup {c}]
  BY <1>0 DEF Services!RecordAccount, Services!Is, ServicesInv, ServicesTyped
<1>2. c \in Channels /\ c # Services!None /\ creds[c] \in CredType /\ m \in Pks \cup {0} /\ marks \in MarkType
  BY <1>0, <1>1 DEF ServiceBounds, ServicesTyped, OpType
<1>3. ~Excused /\ c \notin Bad =>
        OldestOf(ops, i, c) /\ m \in Pks /\ m \in Named(owned, c, ops[i].user) /\ owned[m].pw = ops[i].pw
  BY <1>0, <1>1, AtWork
<1>4. /\ creds' \in [Channels -> CredType] /\ \A d \in Channels \ {c} : creds'[d] = creds[d]
      /\ creds'[c].user = creds[c].user /\ creds'[c].pw = creds[c].pw /\ creds'[c].id = m
  <2>1. creds'[c] = [creds[c] EXCEPT !.id = m] /\ \A d \in Channels \ {c} : creds'[d] = creds[d]
    BY <1>1, <1>2 DEF ServicesTyped
  <2>2. creds'[c] \in CredType /\ creds'[c].user = creds[c].user /\ creds'[c].pw = creds[c].pw /\ creds'[c].id = m
    BY <1>2, <2>1 DEF CredType
  <2>3. creds' = [d \in Channels |-> creds'[d]]
    BY <1>1 DEF ServicesTyped
  <2> QED
    BY <1>1, <2>1, <2>2, <2>3 DEF ServicesTyped
<1>5. /\ Works /\ (Excused' <=> Excused) /\ Bad \subseteq Bad'
      /\ marks'.failed = marks.failed /\ (c \notin Bad' => creds[c].user = ops[i].user)
  <2> DEFINE written == IF creds[c].user = ops[i].user THEN marks.stale ELSE marks.stale \cup {c}
  <2>1. written \in SUBSET Channels /\ marks.stale \subseteq written
    BY <1>2 DEF MarkType
  <2>2. marks' = [marks EXCEPT !.stale = written]
    BY <1>1, <1>2
  <2> HIDE DEF written
  <2>3. /\ marks' \in MarkType /\ marks'.stale = written /\ marks'.overlap = marks.overlap /\ marks'.failed = marks.failed
        /\ marks'.clash = marks.clash /\ marks'.lost = marks.lost
    BY <1>2, <2>1, <2>2 DEF MarkType
  <2>4. Works /\ (Excused' <=> Excused) /\ Bad \subseteq Bad'
    BY <1>1, <2>1, <2>3 DEF Works, MarksGrow, ServicesTyped, Excused, Bad
  <2>5. c \notin Bad' => creds[c].user = ops[i].user
    BY <2>3 DEF Bad, written
  <2> QED
    BY <2>3, <2>4, <2>5
<1>6. RowOwn(c, creds[c].id)'
  <2>1. m # 0 => m <= made /\ owned[m].owner \in {c, Services!None}
    BY <1>0, <1>1 DEF ServicesInv, IdsOwn, IdOwn
  <2> QED
    BY <1>1, <1>4, <2>1 DEF RowOwn
<1>7. AccountsMove(c)
  BY <1>1, SameAccounts
<1>8. ASSUME ~Excused', c \notin Bad'
      PROVE  /\ CanEnd(ops, i, c, creds[c], creds'[c], owned, owned')
             /\ Succeeds(ops, i, c, creds[c], creds'[c], owned, owned')
  <2>1. /\ OldestOf(ops, i, c) /\ m \in Pks /\ m \in Named(owned, c, ops[i].user) /\ owned[m].pw = ops[i].pw
        /\ creds[c].user = ops[i].user
    BY <1>3, <1>5, <1>8
  <2>2. Named(owned, c, creds[c].user) \subseteq {m}
    <3>1. owned[m] # Services!NoAcct
      BY <1>2, <2>1 DEF Named, Services!NoAcct
    <3> QED
      BY <1>1, <2>1, <3>1 DEF NamesApart, Named
  <2>3. m # 0
    BY <2>1 DEF ServiceBounds
  <2> QED
    BY <1>0, <1>1, <1>4, <2>1, <2>2, <2>3 DEF CanEnd, Succeeds
<1> QED
  BY <1>0, <1>1, <1>4, <1>5, <1>6, <1>7, <1>8, EndKeeps

LEMMA AccountDeleted ==
  ASSUME ServiceBounds, ServicesInv, NEW i \in DOMAIN ops, Services!DeleteAccount(i)
  PROVE  ServicesInv'
<1> DEFINE c == ops[i].ch
           m == ops[i].pk
<1>1. /\ ops[i].kind = "delete" /\ ops[i].st = "found" /\ ServicesTyped
      /\ UNCHANGED <<creds, made, cand>> /\ ops[i] \in OpType
      /\ owned' = [owned EXCEPT ![m] = Services!NoAcct]
  BY DEF Services!DeleteAccount, Services!Is, ServicesInv, ServicesTyped
<1>2. creds' \in [Channels -> CredType] /\ c \in Channels /\ c # Services!None
  BY <1>1 DEF ServiceBounds, ServicesTyped, OpType
<1>3. AccountsMove(c)
  BY <1>1, AccountChanges
<1>4. CASE Services!Finish(i) /\ UNCHANGED <<used, marks>>
  <2>1. Works /\ (Excused' <=> Excused) /\ Bad' = Bad
    BY <1>1, <1>4 DEF Works, MarksGrow, ServicesTyped, Excused, Bad
  <2>2. ASSUME ~Excused, c \notin Bad
        PROVE  /\ CanEnd(ops, i, c, creds[c], creds'[c], owned, owned')
               /\ Succeeds(ops, i, c, creds[c], creds'[c], owned, owned')
    <3>1. OldestOf(ops, i, c) /\ m \in Pks /\ m # 0
      BY <1>1, <2>2, AtWork DEF ServiceBounds
    <3>2. \A k \in Pks : owned'[k].owner = c => k # m /\ owned'[k] = owned[k]
      BY <1>1, <1>2, <3>1 DEF ServicesTyped, Services!NoAcct
    <3>3. \/ Named(owned, c, ops[i].user) \subseteq {m}
          \/ \E j \in DOMAIN ops : j < i /\ For(ops, j, c, "provision", ops[i].user)
          \/ \E j \in DOMAIN ops : i < j /\ Of(ops, j, c) /\ ops[j].user = ops[i].user
      BY <1>1, <1>2, <2>2, <3>1 DEF ServicesInv, Ordered, IdsRight, Of
    <3>4. \A j \in DOMAIN ops : ~(j < i /\ For(ops, j, c, "provision", ops[i].user))
      <4>1. DOMAIN ops \subseteq Int
        BY <1>1 DEF ServicesTyped
      <4> QED
        BY <3>1, <4>1 DEF OldestOf, For, Of
    <3>5. Named(owned, c, ops[i].user) \subseteq {m} => Named(owned', c, ops[i].user) = {}
      BY <3>2 DEF Named
    <3> QED
      BY <1>1, <3>1, <3>2, <3>3, <3>4, <3>5 DEF CanEnd, Succeeds
  <2> QED
    BY <1>1, <1>2, <1>3, <1>4, <2>1, <2>2, EndKeeps
<1>5. CASE Services!Fault /\ ops' = [ops EXCEPT ![i].st = "pending"] /\ marks' = [marks EXCEPT !.lost = TRUE]
  <2> DEFINE o == [ops[i] EXCEPT !.st = "pending"]
  <2>1. /\ o \in OpType /\ o.pk = ops[i].pk
        /\ o.kind = ops[i].kind /\ o.ch = ops[i].ch /\ o.user = ops[i].user
    BY <1>1 DEF OpType
  <2>2. ops' = [ops EXCEPT ![i] = o]
    BY <1>1, <1>5 DEF ServicesTyped
  <2>3. used' \in [requests : 0 .. MaxRequests, faults : 0 .. MaxFaults]
    <3>1. ServicesTyped /\ Services!Fault
      BY <1>1, <1>5
    <3> QED
      BY <3>1 DEF Services!Fault, ServicesTyped, ServiceBounds
  <2>4. marks' \in MarkType /\ marks'.clash = marks.clash /\ marks'.overlap = marks.overlap
        /\ marks'.stale = marks.stale /\ marks'.failed = marks.failed /\ marks'.lost
    BY <1>1, <1>5 DEF ServicesTyped, MarkType
  <2>5. Works /\ Excused'
    BY <1>1, <2>3, <2>4 DEF Works, MarksGrow, Excused
  <2> HIDE DEF o
  <2> QED
    BY <1>1, <1>3, <2>1, <2>2, <2>5, AdvanceKeeps
<1> QED
  BY <1>4, <1>5 DEF Services!DeleteAccount

LEMMA CallFailed ==
  ASSUME ServiceBounds, ServicesInv, NEW i \in DOMAIN ops, Services!CallFails(i)
  PROVE  ServicesInv'
<1> DEFINE c == ops[i].ch
<1>0. PICK o : o = [ops[i] EXCEPT !.st = "pending", !.pk = 0]
  OBVIOUS
<1>1. /\ ops[i].kind # "delete" /\ ops[i].st # "pending" /\ ServicesTyped /\ Services!Fault
      /\ UNCHANGED <<creds, owned, made, cand, marks>> /\ ops[i] \in OpType
      /\ ops' = [ops EXCEPT ![i].st = "pending", ![i].pk = 0]
  BY DEF Services!CallFails, Services!NoPk, ServicesInv, ServicesTyped
<1>2. /\ o \in OpType /\ o.pk = 0 /\ o.st = "pending"
      /\ o.kind = ops[i].kind /\ o.ch = ops[i].ch /\ o.user = ops[i].user /\ o.pw = ops[i].pw
  BY <1>0, <1>1 DEF OpType
<1>3. ops' = [ops EXCEPT ![i] = o]
  BY <1>0, <1>1 DEF ServicesTyped
<1>4. used' \in [requests : 0 .. MaxRequests, faults : 0 .. MaxFaults]
  BY <1>1 DEF Services!Fault, ServicesTyped, ServiceBounds
<1>5. Works /\ (Excused' <=> Excused) /\ Bad' = Bad
  BY <1>1, <1>4 DEF Works, MarksGrow, ServicesTyped, Excused, Bad
<1>6. IdOwn(o)'
  BY <1>2 DEF IdOwn
<1>7. ~Excused' /\ c \notin Bad' => CanAdvance(ops, i, o, c, owned, owned') /\ HasFound(o, c, owned')
  BY <1>1, <1>2, <1>5, AtWork DEF CanAdvance, HasFound
<1> QED
  BY <1>1, <1>2, <1>3, <1>5, <1>6, <1>7, SameAccounts, AdvanceKeeps

\* A request writes its channel's row and puts an operation behind the others.
LEMMA AskedKeeps ==
  ASSUME ServiceBounds, ServicesInv, NEW c \in Channels, NEW o \in OpType, o.ch = c, ops' = Append(ops, o),
         NEW s \in CredType, creds' = [creds EXCEPT ![c] = s], s.id \in {0, creds[c].id}, o.pk \in {0, creds[c].id},
         UNCHANGED <<owned, made>>, cand' \in [Channels -> Usernames \cup {Services!None}],
         used' \in [requests : 0 .. MaxRequests, faults : 0 .. MaxFaults],
         marks' \in MarkType, marks'.overlap = marks.overlap, marks'.stale = marks.stale,
         marks'.failed = marks.failed, marks'.lost = marks.lost, marks.clash => marks'.clash,
         marks'.clash \/ HoldersApart',
         ~Excused /\ c \notin Bad => /\ Ordered(ops', s, owned, c)
                                     /\ c \in marks.failed \/ Smooth(ops', s, owned, c)
  PROVE  ServicesInv'
<1>1. ServicesTyped /\ made \in Nat /\ NamesApart(owned) /\ ops \in Seq(OpType)
  BY DEF ServicesInv, ServicesTyped
<1>2. PICK q, p : q = ops /\ p = ops'
  OBVIOUS
<1>3. /\ p \in Seq(OpType) /\ p[Len(q) + 1] = o
      /\ DOMAIN p = DOMAIN q \cup {Len(q) + 1} /\ \A j \in DOMAIN q : p[j] = q[j]
  BY <1>1, <1>2, Appending
<1>4. PICK f, g : \A d \in Channels \ {c} : Matched(q, p, f, g, d, 0)
  BY <1>1, <1>2, Appending
<1>5. creds' \in [Channels -> CredType] /\ creds'[c] = s /\ \A d \in Channels \ {c} : creds'[d] = creds[d]
  BY <1>1 DEF ServicesTyped
<1>6. ServicesTyped' /\ NamesApart(owned')
  BY <1>1, <1>2, <1>3, <1>5 DEF ServicesTyped
<1>7. RowOwn(c, creds[c].id)' /\ IdOwn(o)'
  <2>1. RowOwn(c, creds[c].id)
    BY DEF ServicesInv, IdsOwn
  <2> QED
    BY <1>5, <2>1 DEF RowOwn, IdOwn
<1>8. \A j \in DOMAIN ops' :
        \/ \E k \in DOMAIN ops : ops'[j].pk = ops[k].pk /\ ops'[j].ch = ops[k].ch /\ ops'[j].kind = ops[k].kind
        \/ IdOwn(ops[j])'
  <2> SUFFICES ASSUME NEW j \in DOMAIN ops'
               PROVE  \/ \E k \in DOMAIN ops : ops'[j].pk = ops[k].pk /\ ops'[j].ch = ops[k].ch
                                               /\ ops'[j].kind = ops[k].kind
                      \/ IdOwn(ops[j])'
    OBVIOUS
  <2>1. CASE j \in DOMAIN ops
    BY <2>1, <1>2, <1>3
  <2>2. CASE j = Len(q) + 1
    BY <2>2, <1>2, <1>3, <1>7 DEF IdOwn
  <2> QED
    BY <2>1, <2>2, <1>2, <1>3
<1>9. 0 \notin DOMAIN ops
  BY <1>1
<1>10. \A k \in Pks : k > made => owned[k] = Services!NoAcct
  BY DEF ServicesInv, IdsOwn
<1>11. Excused' \/ c \in Bad' \/
       /\ Ordered(ops', creds'[c], owned', c)
       /\ c \in marks'.failed \/ Smooth(ops', creds'[c], owned', c)
  BY <1>5 DEF Excused, Bad
<1>12. (Excused => Excused') /\ made <= made'
  BY <1>1 DEF Excused
<1>13. Stepped(c, f, g, 0)
  BY <1>2, <1>4, <1>5, <1>6, <1>7, <1>8, <1>9, <1>10, <1>11, <1>12 DEF Stepped
<1> QED
  BY <1>13, SteppedKeeps

\* It asks for no username that another channel holds.
LEMMA HoldersSame ==
  ASSUME ServicesInv, marks'.clash = marks.clash,
         \A d \in Channels, u \in Usernames : Holds(d, u)' => Holds(d, u)
  PROVE  marks'.clash \/ HoldersApart'
BY DEF ServicesInv, HoldersApart

LEMMA Requested ==
  ASSUME ServiceBounds, ServicesTyped, Services!Request
  PROVE  /\ used' \in [requests : 0 .. MaxRequests, faults : 0 .. MaxFaults]
         /\ Services!NewPw \in PwType
BY DEF ServiceBounds, ServicesTyped, Services!Request, Services!NewPw, PwType

LEMMA RotationRequested ==
  ASSUME ServiceBounds, ServicesInv, NEW c \in Channels, Services!RotateServiceAccountPassword(c)
  PROVE  ServicesInv'
<1>1. PICK q, p, r, a, w : q = ops /\ p = ops' /\ r = creds[c] /\ a = owned /\ w = Services!NewPw
  OBVIOUS
<1>2. /\ ServicesTyped /\ UNCHANGED <<owned, made, cand, marks>> /\ r.user # Services!None
      /\ r \in CredType /\ a \in [Pks -> AcctType \cup {Services!NoAcct}] /\ q \in Seq(OpType)
      /\ creds' = [creds EXCEPT ![c].pw = w] /\ p = Append(q, Services!Op("rotate", c, r.user, w, 0))
  BY <1>1 DEF Services!RotateServiceAccountPassword, Services!NoPk, ServicesInv, ServicesTyped
<1>3. used' \in [requests : 0 .. MaxRequests, faults : 0 .. MaxFaults] /\ w \in PwType
  BY <1>1, <1>2, Requested DEF Services!RotateServiceAccountPassword
<1>4. PICK o, s : o = Services!Op("rotate", c, r.user, w, 0) /\ s = [r EXCEPT !.pw = w]
  OBVIOUS
<1>5. /\ o \in OpType /\ o.ch = c /\ o.pk = 0 /\ o.user = r.user
      /\ s \in CredType /\ s.user = r.user /\ s.id = r.id
  BY <1>2, <1>3, <1>4 DEF Services!Op, OpType, CredType
<1>6. creds' = [creds EXCEPT ![c] = s]
  BY <1>1, <1>2, <1>4 DEF ServicesTyped
<1>7. marks'.clash \/ HoldersApart'
  <2>1. \A d \in Channels : creds'[d].user = creds[d].user
    BY <1>1, <1>2, <1>5, <1>6 DEF ServicesTyped
  <2>2. \A j \in DOMAIN p : \/ \E k \in DOMAIN q : p[j].ch = q[k].ch /\ p[j].user = q[k].user
                            \/ p[j].ch = c /\ p[j].user = r.user
    <3>1. DOMAIN p = DOMAIN q \cup {Len(q) + 1} /\ p[Len(q) + 1] = o /\ \A j \in DOMAIN q : p[j] = q[j]
      BY <1>2, <1>4, <1>5, Appending
    <3> QED
      BY <3>1, <1>5
  <2>3. \A d \in Channels, u \in Usernames : Holds(d, u)' => Holds(d, u)
    BY <1>1, <2>1, <2>2 DEF Holds
  <2> QED
    BY <1>2, <2>3, HoldersSame
<1>8. ASSUME ~Excused, c \notin Bad
      PROVE  Ordered(ops', s, owned, c) /\ (c \in marks.failed \/ Smooth(ops', s, owned, c))
  <2>1. Ordered(q, r, a, c) /\ (c \in marks.failed \/ Smooth(q, r, a, c))
    BY <1>1, <1>8 DEF ServicesInv
  <2>2. Ordered(p, s, a, c) /\ (Smooth(q, r, a, c) => Smooth(p, s, a, c))
    <3>1. AsksRotation(q, p, r, s, c, w)
      BY <1>2, <1>4 DEF AsksRotation
    <3> QED
      BY <1>2, <1>3, <2>1, <3>1, RotationAsked
  <2> QED
    BY <1>1, <2>1, <2>2
<1>9. ops' = Append(ops, o) /\ marks' \in MarkType /\ cand' \in [Channels -> Usernames \cup {Services!None}]
  BY <1>1, <1>2, <1>4 DEF ServicesTyped
<1> QED
  BY <1>1, <1>2, <1>3, <1>5, <1>6, <1>7, <1>8, <1>9, AskedKeeps

LEMMA DeletionRequested ==
  ASSUME ServiceBounds, ServicesInv, NEW c \in Channels, Services!DeleteServiceAccount(c)
  PROVE  ServicesInv'
<1>1. PICK q, p, r, a : q = ops /\ p = ops' /\ r = creds[c] /\ a = owned
  OBVIOUS
<1>2. /\ ServicesTyped /\ UNCHANGED <<owned, made, cand, marks>> /\ r.user # Services!None
      /\ r \in CredType /\ a \in [Pks -> AcctType \cup {Services!NoAcct}] /\ q \in Seq(OpType)
      /\ creds' = [creds EXCEPT ![c] = Services!NoRow] /\ p = Append(q, Services!Op("delete", c, r.user, 0, r.id))
  BY <1>1 DEF Services!DeleteServiceAccount, Services!NoPw, ServicesInv, ServicesTyped
<1>3. used' \in [requests : 0 .. MaxRequests, faults : 0 .. MaxFaults]
  BY <1>2, Requested DEF Services!DeleteServiceAccount
<1>4. PICK o, s : o = Services!Op("delete", c, r.user, 0, r.id) /\ s = Services!NoRow
  OBVIOUS
<1>5. /\ o \in OpType /\ o.ch = c /\ o.pk = r.id /\ o.user = r.user
      /\ s \in CredType /\ s.user = Services!None /\ s.id = 0
  BY <1>2, <1>4 DEF Services!Op, Services!NoRow, Services!NoPk, Services!NoPw, OpType, CredType, PwType, ServiceBounds
<1>6. creds' = [creds EXCEPT ![c] = s]
  BY <1>2, <1>4
<1>7. marks'.clash \/ HoldersApart'
  <2>1. \A d \in Channels : creds'[d].user = creds[d].user \/ creds'[d].user = Services!None
    BY <1>2, <1>5, <1>6 DEF ServicesTyped
  <2>2. \A j \in DOMAIN p : \/ \E k \in DOMAIN q : p[j].ch = q[k].ch /\ p[j].user = q[k].user
                            \/ p[j].ch = c /\ p[j].user = r.user
    <3>1. DOMAIN p = DOMAIN q \cup {Len(q) + 1} /\ p[Len(q) + 1] = o /\ \A j \in DOMAIN q : p[j] = q[j]
      BY <1>2, <1>4, <1>5, Appending
    <3> QED
      BY <3>1, <1>5
  <2>3. \A d \in Channels, u \in Usernames : Holds(d, u)' => Holds(d, u)
    BY <1>1, <2>1, <2>2 DEF Holds, ServiceBounds
  <2> QED
    BY <1>2, <2>3, HoldersSame
<1>8. ASSUME ~Excused, c \notin Bad
      PROVE  Ordered(ops', s, owned, c) /\ (c \in marks.failed \/ Smooth(ops', s, owned, c))
  <2>1. Ordered(q, r, a, c) /\ (c \in marks.failed \/ Smooth(q, r, a, c))
    BY <1>1, <1>8 DEF ServicesInv
  <2>2. Ordered(p, s, a, c) /\ (Smooth(q, r, a, c) => Smooth(p, s, a, c))
    <3>1. AsksDeletion(q, p, r, s, c)
      BY <1>2, <1>4 DEF AsksDeletion
    <3> QED
      BY <1>2, <2>1, <3>1, DeletionAsked
  <2> QED
    BY <1>1, <2>1, <2>2
<1>9. ops' = Append(ops, o) /\ marks' \in MarkType /\ cand' \in [Channels -> Usernames \cup {Services!None}]
  BY <1>1, <1>2, <1>4 DEF ServicesTyped
<1>10. s.id \in {0, creds[c].id} /\ o.pk \in {0, creds[c].id}
  BY <1>1, <1>5
<1> QED
  BY <1>2, <1>3, <1>5, <1>6, <1>7, <1>8, <1>9, <1>10, AskedKeeps

LEMMA ProvisioningRequested ==
  ASSUME ServiceBounds, ServicesInv, NEW c \in Channels, Services!ProvisionServiceAccount(c)
  PROVE  ServicesInv'
<1> DEFINE u == cand[c]
<1>1. /\ ServicesTyped /\ UNCHANGED <<owned, made>> /\ u \in Usernames
      /\ cand' \in [Channels -> Usernames \cup {Services!None}]
  BY DEF Services!ProvisionServiceAccount, ServicesInv, ServicesTyped
<1>2. CASE UNCHANGED <<creds, ops, used, marks>>
  BY <1>1, <1>2 DEF ServicesInv, ServicesTyped, IdsOwn, RowOwn, IdOwn, Excused, Bad, HoldersApart, Holds
<1>3. CASE /\ creds[c].user = Services!None /\ Services!Request
           /\ creds' = [creds EXCEPT ![c].user = u, ![c].pw = Services!NewPw]
           /\ ops' = Append(ops, Services!Op("provision", c, u, Services!NewPw, Services!NoPk))
           /\ marks' = [marks EXCEPT !.clash = @ \/ Services!Held(c, u)]
  <2>1. PICK q, p, r, a, w, v : q = ops /\ p = ops' /\ r = creds[c] /\ a = owned /\ w = Services!NewPw /\ v = u
    OBVIOUS
  <2>2. /\ r \in CredType /\ a \in [Pks -> AcctType \cup {Services!NoAcct}] /\ q \in Seq(OpType)
        /\ r.user = Services!None /\ v \in Usernames
        /\ creds' = [creds EXCEPT ![c].user = v, ![c].pw = w] /\ p = Append(q, Services!Op("provision", c, v, w, 0))
    BY <1>1, <1>3, <2>1 DEF ServicesTyped, Services!NoPk
  <2>3. used' \in [requests : 0 .. MaxRequests, faults : 0 .. MaxFaults] /\ w \in PwType
    BY <1>1, <1>3, <2>1, Requested
  <2>4. PICK o, s : o = Services!Op("provision", c, v, w, 0) /\ s = [r EXCEPT !.user = v, !.pw = w]
    OBVIOUS
  <2>5. /\ o \in OpType /\ o.ch = c /\ o.pk = 0 /\ o.user = v
        /\ s \in CredType /\ s.user = v /\ s.id = r.id
    BY <2>2, <2>3, <2>4 DEF Services!Op, OpType, CredType
  <2>6. creds' = [creds EXCEPT ![c] = s]
    BY <1>1, <2>1, <2>2, <2>4 DEF ServicesTyped
  <2>7. /\ marks' \in MarkType /\ marks'.overlap = marks.overlap /\ marks'.stale = marks.stale
        /\ marks'.failed = marks.failed /\ marks'.lost = marks.lost
        /\ marks'.clash = (marks.clash \/ Services!Held(c, u))
    <3> DEFINE held == Services!Held(c, u)
    <3>1. marks \in MarkType /\ held \in BOOLEAN
      BY <1>1 DEF ServicesTyped, Services!Held
    <3>2. marks' = [marks EXCEPT !.clash = @ \/ held]
      BY <1>3
    <3> HIDE DEF held
    <3>3. /\ marks' \in MarkType /\ marks'.overlap = marks.overlap /\ marks'.stale = marks.stale
          /\ marks'.failed = marks.failed /\ marks'.lost = marks.lost
          /\ marks'.clash = (marks.clash \/ held)
      BY <3>1, <3>2 DEF MarkType
    <3> QED
      BY <3>3 DEF held
  <2>8. marks'.clash \/ HoldersApart'
    <3> SUFFICES ASSUME ~marks.clash, ~Services!Held(c, u), NEW d \in Channels, NEW e \in Channels, NEW n \in Usernames,
                        Holds(d, n)', Holds(e, n)'
                 PROVE  d = e
      BY <2>7 DEF HoldersApart
    <3>1. \A k \in Channels \ {c} : creds'[k].user = creds[k].user
      BY <2>6, <1>1 DEF ServicesTyped
    <3>2. \A j \in DOMAIN p : \/ \E k \in DOMAIN q : p[j].ch = q[k].ch /\ p[j].user = q[k].user
                              \/ p[j].ch = c /\ p[j].user = v
      <4>1. DOMAIN p = DOMAIN q \cup {Len(q) + 1} /\ p[Len(q) + 1] = o /\ \A j \in DOMAIN q : p[j] = q[j]
        BY <2>2, <2>4, <2>5, Appending
      <4> QED
        BY <4>1, <2>5
    <3>3. creds'[c].user = v
      BY <2>5, <2>6, <1>1 DEF ServicesTyped
    <3>4. \A k \in Channels : Holds(k, n)' => Holds(k, n) \/ (k = c /\ n = v)
      BY <2>1, <3>1, <3>2, <3>3 DEF Holds
    <3>5. \A k \in Channels \ {c} : ~Holds(k, v)
      BY <2>1 DEF Holds, Services!Held
    <3>6. HoldersApart
      BY DEF ServicesInv
    <3> QED
      BY <3>4, <3>5, <3>6 DEF HoldersApart
  <2>9. ASSUME ~Excused, c \notin Bad
        PROVE  Ordered(ops', s, owned, c) /\ (c \in marks.failed \/ Smooth(ops', s, owned, c))
    <3>1. Ordered(q, r, a, c) /\ (c \in marks.failed \/ RotationsFind(q, a, c))
      BY <2>1, <2>9 DEF ServicesInv, Smooth
    <3>2. Ordered(p, s, a, c) /\ (RotationsFind(q, a, c) => Smooth(p, s, a, c))
      <4>1. AsksProvisioning(q, p, r, s, c, v, w)
        BY <2>2, <2>4 DEF AsksProvisioning
      <4> QED
        BY <2>2, <2>3, <3>1, <4>1, ProvisioningAsked
    <3> QED
      BY <2>1, <3>1, <3>2
  <2>10. ops' = Append(ops, o)
    BY <2>1, <2>2, <2>4
  <2>11. marks.clash => marks'.clash
    BY <2>7
  <2> QED
    BY <1>1, <2>1, <2>3, <2>5, <2>6, <2>7, <2>8, <2>9, <2>10, <2>11, AskedKeeps
<1> QED
  BY <1>2, <1>3 DEF Services!ProvisionServiceAccount

LEMMA ServicesStep ==
  ASSUME ServiceBounds, ServicesInv, Services!Next PROVE ServicesInv'
<1>1. ASSUME NEW c \in Channels, NEW u \in Usernames, Services!CheckAvailability(c, u) PROVE ServicesInv'
  <2>1. cand' \in [Channels -> Usernames \cup {Services!None}] /\ UNCHANGED <<creds, owned, made, ops, used, marks>>
    BY <1>1 DEF Services!CheckAvailability, ServicesInv, ServicesTyped
  <2> QED
    BY <2>1 DEF ServicesInv, ServicesTyped, IdsOwn, RowOwn, IdOwn, Excused, Bad, HoldersApart, Holds
<1>2. ASSUME NEW i \in 1 .. MaxRequests, Services!Works(i) PROVE ServicesInv'
  <2>1. i \in DOMAIN ops
    BY <1>2 DEF Services!Works, Services!CreateOrFind, Services!FindToRotate, Services!SetPassword,
       Services!RecordAccount, Services!FindToDelete, Services!DeleteAccount, Services!CallFails, Services!Is
  <2> QED
    BY <1>2, <2>1, ProvisioningFinds, RotationFinds, PasswordSet, AccountRecorded, DeletionFinds, AccountDeleted,
       CallFailed DEF Services!Works
<1> QED
  BY <1>1, <1>2, ProvisioningRequested, RotationRequested, DeletionRequested DEF Services!Next

LEMMA ServicesStutter ==
  ASSUME ServicesInv, UNCHANGED Services!vars PROVE ServicesInv'
BY DEF Services!vars, ServicesInv, ServicesTyped, IdsOwn, RowOwn, IdOwn, Excused, Bad, HoldersApart, Holds

\* An account changes only by an operation of its own channel, unless excused.
LEMMA ServicesChangeOwn ==
  ASSUME ServiceBounds, ServicesInv, Services!Next PROVE Services!ChangesOwn
<1> SUFFICES ASSUME NEW k \in Pks, owned[k] # Services!NoAcct, owned'[k] # owned[k], ~Excused, owned[k].owner \notin Bad
             PROVE  \E i \in DOMAIN ops : ops[i].pk = k /\ ops[i].ch = owned[k].owner
  BY DEF Services!ChangesOwn, Excused, Bad
<1>1. ServicesTyped
  BY DEF ServicesInv
<1>2. PICK i \in DOMAIN ops : Services!Works(i) /\ owned' # owned
  <2>1. PICK i \in 1 .. MaxRequests : Services!Works(i)
    BY DEF Services!Next, Services!CheckAvailability, Services!ProvisionServiceAccount,
       Services!RotateServiceAccountPassword, Services!DeleteServiceAccount
  <2>2. i \in DOMAIN ops
    BY <2>1 DEF Services!Works, Services!CreateOrFind, Services!FindToRotate, Services!SetPassword,
       Services!RecordAccount, Services!FindToDelete, Services!DeleteAccount, Services!CallFails, Services!Is
  <2> QED
    BY <2>1, <2>2
<1>3. ~(Services!With(ops[i].user) = {} /\ made < Services!Cardinality(Pks)
        /\ owned' = [owned EXCEPT ![made + 1] = [user |-> ops[i].user, pw |-> Services!NoPw, owner |-> ops[i].ch]])
  <2> SUFFICES ASSUME Services!With(ops[i].user) = {}, made < Services!Cardinality(Pks),
                      owned' = [owned EXCEPT ![made + 1] = [user |-> ops[i].user, pw |-> 0, owner |-> ops[i].ch]]
               PROVE  FALSE
    BY DEF Services!NoPw
  <2>1. made \in Nat /\ k \in Nat
    BY <1>1 DEF ServicesTyped, ServiceBounds
  <2>2. k <= made
    BY <2>1 DEF ServicesInv, IdsOwn
  <2>3. k # made + 1
    BY <2>1, <2>2
  <2> QED
    BY <1>1, <2>3 DEF ServicesTyped
<1>4. ops[i].st # "pending" /\ ops[i].pk = k
  <2>1. Services!SetPassword(i) \/ Services!DeleteAccount(i)
    BY <1>2, <1>3 DEF Services!Works, Services!CreateOrFind, Services!FindToRotate, Services!RecordAccount,
       Services!FindToDelete, Services!CallFails
  <2>2. CASE Services!SetPassword(i)
    <3>1. ops[i].st = "found" /\ owned' = [owned EXCEPT ![ops[i].pk].pw = ops[i].pw]
      BY <1>2, <2>2 DEF Services!SetPassword
    <3> QED
      BY <1>1, <3>1 DEF ServicesTyped
  <2>3. CASE Services!DeleteAccount(i)
    BY <1>1, <2>3 DEF Services!DeleteAccount, Services!Is, ServicesTyped
  <2> QED
    BY <2>1, <2>2, <2>3
<1>5. owned[k].owner \in {ops[i].ch, Services!None} \cup Bad
  BY <1>4, AtWork
<1>6. owned[k] \in AcctType /\ Services!None \notin Channels
  BY <1>1 DEF ServicesTyped, ServiceBounds
<1> QED
  BY <1>4, <1>5, <1>6 DEF AcctType
=============================================================================
