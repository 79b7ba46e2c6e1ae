-------------------------- MODULE CallsignEpisodes --------------------------
(***************************************************************************)
(* The callsign poller and one device: the latch in tak_devices that makes *)
(* one notice of an episode of mismatching callsigns.  Each poll reads the *)
(* live subscriptions, records what it saw, sends the notice if one is due *)
(* and marks it as sent, each a step; two workers take turns under a job   *)
(* lock that a lost database session gives up early.                       *)
(***************************************************************************)
EXTENDS Naturals, FiniteSets

CONSTANTS
  Pollers,          \* worker processes
  MaxSlips,         \* bound: times the user changes the callsign
  MaxPollFaults     \* bound: failed sends and marks, crashes, lost sessions

VARIABLES
  callsign,  \* the client's: "assigned" or "other"
  addressed, \* whether the user has an e-mail address
  latch,     \* callsign_violation_first_seen_at and _notified_at, set or not
  poll,      \* what each poller is about to do
  holder,    \* pollers that hold the job lock
  told,      \* notices sent since the episode began
  spent,     \* changes of the callsign and faults so far
  astray     \* history: a notice sent but not marked, polls that overlapped

callsignVars == <<callsign, addressed, latch, poll, holder, told, spent, astray>>

TypeOK ==
  /\ callsign \in {"assigned", "other"}
  /\ addressed \in BOOLEAN
  /\ latch \in [first : BOOLEAN, notified : BOOLEAN]
  /\ poll \in [Pollers -> {"idle", "fetch", "assigned", "other", "send", "mark"}]
  /\ holder \subseteq Pollers
  /\ told \in 0 .. 1 + Cardinality(Pollers) + MaxPollFaults
  /\ spent \in [slips : 0 .. MaxSlips, faults : 0 .. MaxPollFaults]
  /\ astray \in [unmarked : BOOLEAN, overlap : BOOLEAN]

Init ==
  /\ callsign = "assigned"
  /\ addressed \in BOOLEAN
  /\ latch = [first |-> FALSE, notified |-> FALSE]
  /\ poll = [p \in Pollers |-> "idle"]
  /\ holder = {}
  /\ told = 0
  /\ spent = [slips |-> 0, faults |-> 0]
  /\ astray = [unmarked |-> FALSE, overlap |-> FALSE]

PollFault == spent.faults < MaxPollFaults /\ spent' = [spent EXCEPT !.faults = @ + 1]

Polling == {p \in Pollers : poll[p] # "idle"}

\* The end of a poll releases the lock.
Done(p) ==
  /\ poll' = [poll EXCEPT ![p] = "idle"]
  /\ holder' = holder \ {p}

ChangeCallsign ==
  /\ spent.slips < MaxSlips
  /\ spent' = [spent EXCEPT !.slips = @ + 1]
  /\ callsign' = IF callsign = "assigned" THEN "other" ELSE "assigned"
  /\ UNCHANGED <<addressed, latch, poll, holder, told, astray>>

StartPoll(p) ==
  /\ poll[p] = "idle" /\ holder = {}
  /\ holder' = {p}
  /\ poll' = [poll EXCEPT ![p] = "fetch"]
  /\ astray' = [astray EXCEPT !.overlap = @ \/ Polling # {}]
  /\ UNCHANGED <<callsign, addressed, latch, told, spent>>

\* The connection that holds the lock is lost: the poll goes on without it.
LoseSession(p) ==
  /\ p \in holder /\ PollFault
  /\ holder' = holder \ {p}
  /\ UNCHANGED <<callsign, addressed, latch, poll, told, astray>>

Fetch(p) ==
  /\ poll[p] = "fetch"
  /\ poll' = [poll EXCEPT ![p] = callsign]
  /\ UNCHANGED <<callsign, addressed, latch, holder, told, spent, astray>>

RecordAcceptable(p) ==
  /\ poll[p] = "assigned"
  /\ latch' = [first |-> FALSE, notified |-> FALSE]
  /\ told' = 0
  /\ Done(p)
  /\ UNCHANGED <<callsign, addressed, spent, astray>>

\* RETURNING sees first_seen_at as just written, so that the mismatch is never
\* a first one and the notice is due at once, if there is where to send it.
RecordMismatch(p) ==
  /\ poll[p] = "other"
  /\ latch' = [latch EXCEPT !.first = TRUE]
  /\ IF latch.notified \/ ~addressed THEN Done(p)
     ELSE poll' = [poll EXCEPT ![p] = "send"] /\ UNCHANGED holder
  /\ UNCHANGED <<callsign, addressed, told, spent, astray>>

\* Mutant: a notice that could not be sent is marked as well.
SendAnyhow(p) ==
  /\ poll[p] = "send"
  /\ \/ told' = told + 1 /\ UNCHANGED spent
     \/ PollFault /\ UNCHANGED told
  /\ poll' = [poll EXCEPT ![p] = "mark"]
  /\ UNCHANGED <<callsign, addressed, latch, holder, astray>>

SendNotice(p) ==
  /\ poll[p] = "send"
  /\ \/ told' = told + 1 /\ poll' = [poll EXCEPT ![p] = "mark"] /\ UNCHANGED <<holder, spent>>
     \/ PollFault /\ Done(p) /\ UNCHANGED told
  /\ UNCHANGED <<callsign, addressed, latch, astray>>

MarkNotified(p) ==
  /\ poll[p] = "mark"
  /\ \/ latch' = [latch EXCEPT !.notified = TRUE] /\ UNCHANGED <<spent, astray>>
     \/ PollFault /\ astray' = [astray EXCEPT !.unmarked = TRUE] /\ UNCHANGED latch
  /\ Done(p)
  /\ UNCHANGED <<callsign, addressed, told>>

\* A crash, or a fetch or a statement that fails, ends the poll.
PollFails(p) ==
  /\ poll[p] # "idle" /\ PollFault
  /\ astray' = [astray EXCEPT !.unmarked = @ \/ poll[p] = "mark"]
  /\ Done(p)
  /\ UNCHANGED <<callsign, addressed, latch, told>>

Polls(p) ==
  \/ StartPoll(p)
  \/ Fetch(p)
  \/ RecordAcceptable(p)
  \/ RecordMismatch(p)
  \/ SendNotice(p)
  \/ MarkNotified(p)

Next ==
  \/ ChangeCallsign
  \/ \E p \in Pollers : Polls(p) \/ LoseSession(p) \/ PollFails(p)

-----------------------------------------------------------------------------
\* One notice for an episode, however long it lasts: unless a notice was sent
\* and not marked, or two polls overlapped after a lost session.
OneNotice == told <= 1 \/ astray.unmarked \/ astray.overlap

\* The mark belongs to an episode: a mark outside one would silence the next.
\* An overlapping poll can leave it there: it sends, the other one records the
\* correction, and then the mark is written.
MarkInEpisode == latch.notified => latch.first \/ astray.overlap

\* In every state the notices and the mark belong to their episode.
NoticePerEpisode == TypeOK /\ OneNotice /\ MarkInEpisode

\* A callsign that stays wrong is told of to a user with an address, though sends
\* fail: unless a poll that overlapped left its mark.
WrongIsTold == addressed /\ <>[](callsign = "other") => <>[](told > 0 \/ astray.overlap)
=============================================================================
