SPECIFICATION Spec
CONSTANTS
  c1 = c1
  c2 = c2
  c3 = c3
  p1 = p1
  p2 = p2
  a1 = a1
  a2 = a2
  na = na
  nb = nb
  s1 = s1
  s2 = s2
  Calls = {c1, c2, c3}
  FailureThreshold = 2
  MaxFailures = 5
  Pollers = {p1, p2}
  MaxSlips = 3
  MaxPollFaults = 2
  Notifiers = {p1, p2}
  Tiers = {1, 2, 3}
  Recipients = {a1, a2}
  MaxRunFaults = 2
  Teams = {1, 2}
  Names = {na, nb}
  Gids = {1, 2, 3}
  Sessions = {s1, s2}
  MaxEdits = 3
  MaxFaults = 1
INVARIANTS
  OneProbeAtWork
  ToldOnce
  ChannelGroupsSound
PROPERTIES
  Recovers
  ToldInTheEnd
  ChannelsConverge
CHECK_DEADLOCK FALSE
