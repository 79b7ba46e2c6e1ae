-------------------------- MODULE MCIndependentLive -------------------------
(***************************************************************************)
(* Four components that share nothing, checked in one run: each behaviour  *)
(* is a behaviour of the one that part names, while the others stay in     *)
(* their initial states.                                                   *)
(***************************************************************************)
EXTENDS Naturals

CONSTANTS Calls, FailureThreshold, MaxFailures, Pollers, MaxSlips, MaxPollFaults,
          Notifiers, Tiers, Recipients, MaxRunFaults,
          Teams, Names, Gids, Sessions, MaxEdits, MaxFaults, c1, c2, c3, p1, p2, a1, a2, na, nb, s1, s2

Height == [a \in Recipients |-> IF a = a1 THEN 0 ELSE 1]

VARIABLES part, breaker, call, failures, late,
          callsign, addressed, latch, poll, holder, told, spent, astray,
          due, device, mailless, resolved, run, locked, got, faults, untidy,
          team, chan, group, made, web, ops, used, past

Breaker == INSTANCE CircuitBreaker
Callsigns == INSTANCE CallsignEpisodes
Expiry == INSTANCE CertExpiry
TeamGroups == INSTANCE TeamChannels

breakerVars == <<breaker, call, failures, late>>
callsignVars == <<callsign, addressed, latch, poll, holder, told, spent, astray>>
certVars == <<due, device, mailless, resolved, run, locked, got, faults, untidy>>
channelVars == <<team, chan, group, made, web, ops, used, past>>
vars == <<part, breakerVars, callsignVars, certVars, channelVars>>

Init ==
  /\ part \in {"breaker", "callsigns", "expiry", "channels"}
  /\ Breaker!Init
  /\ Callsigns!Init
  /\ Expiry!Init
  /\ TeamGroups!Init
  /\ part = "callsigns" \/ addressed
  /\ part = "expiry" \/ (mailless = {} /\ Expiry!InUse)

OnlyBreaker ==
  part = "breaker" /\ UNCHANGED <<part, callsignVars, certVars, channelVars>>
OnlyCallsigns ==
  part = "callsigns" /\ UNCHANGED <<part, breakerVars, certVars, channelVars>>
OnlyExpiry ==
  part = "expiry" /\ UNCHANGED <<part, breakerVars, callsignVars, channelVars>>
OnlyChannels ==
  part = "channels" /\ UNCHANGED <<part, breakerVars, callsignVars, certVars>>

Next ==
  \/ OnlyBreaker /\ Breaker!Next
  \/ OnlyCallsigns /\ Callsigns!Next
  \/ OnlyExpiry /\ Expiry!Next
  \/ OnlyChannels /\ TeamGroups!Next

\* Every call settles and callers go on calling (the jobs and the worker poll);
\* setInterval starts the polls and the runs again, and each of their steps is
\* the continuation of an await.  Requests end, the oldest operations are drained
\* and the periodic sync runs again.
Fairness ==
  /\ WF_vars(OnlyBreaker /\ Breaker!Elapse)
  /\ \A c \in Calls : /\ WF_vars(OnlyBreaker /\ Breaker!Execute(c))
                      /\ WF_vars(OnlyBreaker /\ Breaker!Succeeds(c))
  /\ \A p \in Pollers : WF_vars(OnlyCallsigns /\ Callsigns!Polls(p))
  /\ WF_vars(OnlyExpiry /\ Expiry!DaysPass)
  /\ \A w \in Notifiers : WF_vars(OnlyExpiry /\ Expiry!Runs(w))
  /\ \A s \in Sessions : WF_vars(OnlyChannels /\ TeamGroups!Continues(s))
  /\ \A i \in 1 .. MaxFaults + 1 : WF_vars(OnlyChannels /\ TeamGroups!Works(i))
  /\ \A t \in Teams : WF_vars(OnlyChannels /\ TeamGroups!ReconcileDescriptions(t))

Spec == Init /\ [][Next]_vars /\ Fairness

\* The parts' properties, under the names of this module.
OneProbeAtWork == part = "breaker" => Breaker!OneProbeAtWork
ToldOnce ==
  /\ part = "callsigns" => Callsigns!NoticePerEpisode
  /\ part = "expiry" => Expiry!TiersToldOnce
ChannelGroupsSound == part = "channels" => TeamGroups!ChannelGroupsSound
Recovers == part = "breaker" => Breaker!Recovers
ToldInTheEnd ==
  /\ part = "callsigns" => Callsigns!WrongIsTold
  /\ part = "expiry" => Expiry!DueIsTold
ChannelsConverge == part = "channels" => TeamGroups!ChannelsConverge
=============================================================================
