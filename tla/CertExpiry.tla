----------------------------- MODULE CertExpiry -----------------------------
(***************************************************************************)
(* The daily notices that a certificate expires: one certificate, the      *)
(* tiers of urgency that become due, the table of resolved tiers, and the  *)
(* recipients of each tier.  While the certificate is in use a run         *)
(* resolves the less urgent tiers that are due, sends a mail per recipient *)
(* for the most urgent one and resolves it when every mail was sent; runs  *)
(* of two workers take turns under a job lock that a lost database session *)
(* gives up early.                                                         *)
(***************************************************************************)
EXTENDS Naturals, FiniteSets, FiniteSetsExt

CONSTANTS
  Notifiers,      \* worker processes
  Tiers,          \* rounds 1 .. n, the last the most urgent
  Recipients,     \* active admins of the device's team and the teams above it
  Height,         \* how many levels above the device's team each administers
  MaxRunFaults    \* bound: failed mails, crashes, lost sessions

VARIABLES
  due,       \* the most urgent tier reached by now, 0 if none
  device,    \* seen within the activity window; unrevoked and of an active account
  mailless,  \* recipients without an e-mail address
  resolved,  \* cert_expiry_notifications
  run,       \* the run of each worker
  locked,    \* workers that hold the job lock
  got,       \* who has been sent the notice of which tier
  faults,    \* faults so far
  untidy     \* history: who was sent a tier twice, overlaps, runs cut off

certVars == <<due, device, mailless, resolved, run, locked, got, faults, untidy>>

NoRun == [pc |-> "idle", tier |-> 0, backlog |-> {}, to |-> {}, ok |-> {}]

TypeOK ==
  /\ due \in Tiers \cup {0}
  /\ device \in [seen : BOOLEAN, valid : BOOLEAN]
  /\ mailless \subseteq Recipients
  /\ resolved \subseteq Tiers
  /\ run \in [Notifiers -> [pc : {"idle", "backlog", "send"}, tier : Tiers \cup {0}, backlog : SUBSET Tiers,
                            to : SUBSET Recipients, ok : SUBSET Recipients]]
  /\ locked \subseteq Notifiers
  /\ got \in [Tiers -> SUBSET Recipients]
  /\ faults \in 0 .. MaxRunFaults
  /\ untidy \in [twice : BOOLEAN, overlap : BOOLEAN, cut : BOOLEAN]

Init ==
  /\ due = 0
  /\ device \in [seen : BOOLEAN, valid : BOOLEAN]
  /\ mailless \in SUBSET Recipients
  /\ resolved = {}
  /\ run = [w \in Notifiers |-> NoRun]
  /\ locked = {}
  /\ got = [t \in Tiers |-> {}]
  /\ faults = 0
  /\ untidy = [twice |-> FALSE, overlap |-> FALSE, cut |-> FALSE]

RunFault == faults < MaxRunFaults /\ faults' = faults + 1

\* Round n reaches n - 1 levels up, the last round the whole chain.
RecipientsOf(t) == {a \in Recipients : t = Max(Tiers) \/ Height[a] < t}

EndRun(w) ==
  /\ run' = [run EXCEPT ![w] = NoRun]
  /\ locked' = locked \ {w}

DaysPass ==
  /\ due < Max(Tiers)
  /\ due' \in due + 1 .. Max(Tiers)
  /\ UNCHANGED <<device, mailless, resolved, run, locked, got, faults, untidy>>

\* A session of the device.  The activity window is counted back from the day of
\* expiry, so that what was seen within it stays so.
DeviceIsSeen ==
  /\ ~device.seen
  /\ device' = [device EXCEPT !.seen = TRUE]
  /\ UNCHANGED <<due, mailless, resolved, run, locked, got, faults, untidy>>

\* The certificate is revoked or its account suspended, or that is undone.
AccountChanges ==
  /\ device' = [device EXCEPT !.valid = ~@]
  /\ UNCHANGED <<due, mailless, resolved, run, locked, got, faults, untidy>>

\* Of any other certificate nothing is sent and no tier is resolved.
InUse == device.valid /\ device.seen

DueUnresolved == (1 .. due) \ resolved

Backlog(tiers) == tiers \ {Max(tiers)}

FindEligibleCandidates(w) ==
  /\ run[w] = NoRun /\ locked = {} /\ InUse /\ DueUnresolved # {}
  /\ locked' = {w}
  /\ untidy' = [untidy EXCEPT !.overlap = @ \/ \E v \in Notifiers : run[v] # NoRun]
  /\ run' = [run EXCEPT ![w] = [pc |-> "backlog", tier |-> Max(DueUnresolved), ok |-> {},
                                backlog |-> Backlog(DueUnresolved), to |-> RecipientsOf(Max(DueUnresolved))]]
  /\ UNCHANGED <<due, device, mailless, resolved, got, faults>>

ResolveBacklog(w) ==
  /\ run[w].pc = "backlog"
  /\ resolved' = resolved \cup run[w].backlog
  /\ run' = [run EXCEPT ![w].pc = "send"]
  /\ UNCHANGED <<due, device, mailless, locked, got, faults, untidy>>

\* One mail; a recipient without an address gets none, a mail can fail.
SendDigest(w, a) ==
  /\ run[w].pc = "send" /\ a \in run[w].to
  /\ LET t == run[w].tier IN
     \/ /\ a \notin mailless
        /\ run' = [run EXCEPT ![w].to = @ \ {a}, ![w].ok = @ \cup {a}]
        /\ got' = [got EXCEPT ![t] = @ \cup {a}]
        /\ untidy' = [untidy EXCEPT !.twice = @ \/ a \in got[t]]
        /\ UNCHANGED faults
     \/ /\ IF a \in mailless THEN UNCHANGED <<faults, untidy>>
           ELSE RunFault /\ untidy' = [untidy EXCEPT !.cut = TRUE]
        /\ run' = [run EXCEPT ![w].to = @ \ {a}]
        /\ UNCHANGED got
  /\ UNCHANGED <<due, device, mailless, resolved, locked>>

\* Mutant: one recipient told is enough.
SomeoneTold(w) == run[w].ok # {}

EveryoneTold(w) == run[w].ok # {} /\ run[w].ok = RecipientsOf(run[w].tier)

MarkResolved(w) ==
  /\ run[w].pc = "send" /\ run[w].to = {}
  /\ resolved' = IF EveryoneTold(w) THEN resolved \cup {run[w].tier} ELSE resolved
  /\ EndRun(w)
  /\ UNCHANGED <<due, device, mailless, got, faults, untidy>>

RunLosesSession(w) ==
  /\ w \in locked /\ RunFault
  /\ locked' = locked \ {w}
  /\ UNCHANGED <<due, device, mailless, resolved, run, got, untidy>>

\* A crash, or a statement that fails.
RunFails(w) ==
  /\ run[w] # NoRun /\ RunFault
  /\ EndRun(w)
  /\ untidy' = [untidy EXCEPT !.cut = TRUE]
  /\ UNCHANGED <<due, device, mailless, resolved, got>>

Runs(w) ==
  \/ FindEligibleCandidates(w)
  \/ ResolveBacklog(w)
  \/ \E a \in Recipients : SendDigest(w, a)
  \/ MarkResolved(w)

Next ==
  \/ DaysPass
  \/ DeviceIsSeen
  \/ AccountChanges
  \/ \E w \in Notifiers : Runs(w) \/ RunLosesSession(w) \/ RunFails(w)

-----------------------------------------------------------------------------
Delivered(t) == RecipientsOf(t) \subseteq got[t]

\* No tier is resolved for nothing, although the backlog is resolved before the
\* one notice that stands for it is sent: each resolved tier was delivered to
\* everybody it is for, or a more urgent one was, or a more urgent one is due
\* and still to be sent.
ResolvedIsTold ==
  \A t \in resolved :
    \E u \in Tiers : u >= t /\ (Delivered(u) \/ (u > t /\ u <= due /\ u \notin resolved))

\* Nobody is sent the notice of a tier twice: unless a run was cut off or a mail
\* failed, two runs overlapped, or another recipient has no address (the tier is
\* then never resolved and its notice goes out again with every run).
NobodyTwice == untidy.twice => untidy.cut \/ untidy.overlap \/ mailless # {}

\* In every state the tiers resolved and the notices sent fit together.
TiersToldOnce == TypeOK /\ ResolvedIsTold /\ NobodyTwice

\* The most urgent tier of a certificate that stays in use is told to everybody
\* who has an address, whatever fails on the way and however late the device is
\* seen or its account active again.  Nothing is promised of other certificates.
DueIsTold ==
  <>[](due = Max(Tiers) /\ InUse) => <>(Recipients \ mailless \subseteq got[Max(Tiers)])
=============================================================================
