--------------------------- MODULE CircuitBreaker ---------------------------
(***************************************************************************)
(* One CircuitBreaker object and the calls that go through execute(): they *)
(* are admitted, rejected, and settle later, in any order, when the        *)
(* breaker may have changed its state under them.                          *)
(***************************************************************************)
EXTENDS Naturals, FiniteSets

CONSTANTS
  Calls,             \* callers, each with at most one call in flight
  FailureThreshold,  \* failureThreshold of the constructor
  MaxFailures        \* bound: calls that fail; then the dependency has recovered

VARIABLES
  breaker,   \* state, failureCount, halfOpenProbeInFlight; whether resetTimeoutMs has elapsed
  call,      \* how the call in flight was admitted
  failures,  \* calls that failed so far
  late       \* history: a call admitted while closed reopened the breaker

breakerVars == <<breaker, call, failures, late>>

TypeOK ==
  /\ breaker \in [state : {"closed", "open", "half_open"}, count : 0 .. FailureThreshold - 1 + Cardinality(Calls),
                  probing : BOOLEAN, elapsed : BOOLEAN]
  /\ call \in [Calls -> {"none", "normal", "probe"}]
  /\ failures \in 0 .. MaxFailures
  /\ late \in BOOLEAN

Init ==
  /\ breaker = [state |-> "closed", count |-> 0, probing |-> FALSE, elapsed |-> FALSE]
  /\ call = [c \in Calls |-> "none"]
  /\ failures = 0
  /\ late = FALSE

\* Mutant: the flag of a probe outlives the probe.
OpenWithFlag(b) == [b EXCEPT !.state = "open", !.elapsed = FALSE]

Opened(b) == [b EXCEPT !.state = "open", !.elapsed = FALSE, !.probing = FALSE]

\* Mutant: the probe's success resets the counter only.
CloseCounter(b) == [b EXCEPT !.count = 0, !.probing = FALSE]

Closed(b) == [b EXCEPT !.state = "closed", !.count = 0, !.probing = FALSE]

Elapse ==
  /\ breaker.state = "open" /\ ~breaker.elapsed
  /\ breaker' = [breaker EXCEPT !.elapsed = TRUE]
  /\ UNCHANGED <<call, failures, late>>

HalfOpens == breaker.state = "half_open" \/ (breaker.state = "open" /\ breaker.elapsed)

Probe(c) ==
  /\ breaker' = [breaker EXCEPT !.state = "half_open", !.probing = TRUE]
  /\ call' = IF breaker.probing THEN call ELSE [call EXCEPT ![c] = "probe"]

\* The call is rejected when neither case applies, or a probe is in flight.
Execute(c) ==
  /\ call[c] = "none"
  /\ \/ HalfOpens /\ Probe(c)
     \/ breaker.state = "closed" /\ call' = [call EXCEPT ![c] = "normal"] /\ UNCHANGED breaker
  /\ UNCHANGED <<failures, late>>

Succeeds(c) ==
  /\ call[c] # "none"
  /\ call' = [call EXCEPT ![c] = "none"]
  /\ breaker' = IF call[c] = "probe" THEN Closed(breaker) ELSE [breaker EXCEPT !.count = 0]
  /\ UNCHANGED <<failures, late>>

\* A call admitted while the breaker was closed counts whatever its state is now.
Fails(c) ==
  /\ call[c] # "none" /\ failures < MaxFailures
  /\ failures' = failures + 1
  /\ call' = [call EXCEPT ![c] = "none"]
  /\ IF call[c] = "probe" THEN breaker' = Opened(breaker) /\ UNCHANGED late
     ELSE LET counted == [breaker EXCEPT !.count = @ + 1]
              trips == counted.count >= FailureThreshold IN
          /\ breaker' = IF trips THEN Opened(counted) ELSE counted
          /\ late' = (late \/ (trips /\ breaker.state # "closed"))

Next ==
  \/ Elapse
  \/ \E c \in Calls : Execute(c) \/ Succeeds(c) \/ Fails(c)

Spec == Init /\ [][Next]_breakerVars

-----------------------------------------------------------------------------
Probes == {c \in Calls : call[c] = "probe"}

\* A half-open breaker always waits for a probe that is in flight: the flag can
\* never stay set with nobody left to clear it, which would reject every call
\* for good.
NeverWedged == breaker.state = "half_open" => breaker.probing /\ Probes # {}

\* One probe at a time, as the module's own comment says: true until a call
\* admitted before the breaker opened fails after it, and reopens it under the
\* probe.
OneProbe == Cardinality(Probes) <= 1 \/ late

\* In every state a half-open breaker has its probe, and one only.
OneProbeAtWork == TypeOK /\ NeverWedged /\ OneProbe

\* Once the dependency answers again, the breaker closes for good, whatever
\* calls were in flight: every call settles, the timer elapses, and callers call.
Recovers == <>[](breaker.state = "closed")
=============================================================================
