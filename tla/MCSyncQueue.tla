---------------------------- MODULE MCSyncQueue ----------------------------
(* Small instances of SyncQueue for TLC.                                   *)
EXTENDS SyncQueue, TLC

CONSTANTS alice, squad, w1, w2

Add == [type |-> "add_user_to_group", user |-> alice, group |-> squad]
Remove == [type |-> "remove_user_from_group", user |-> alice, group |-> squad]
Reconcile == [type |-> "reconcile_owned_group", user |-> None, group |-> squad]
Revoke == [type |-> "revoke_tak_certificates", user |-> alice, group |-> None]
Malformed == [type |-> "add_user_to_group", user |-> alice, group |-> None]

\* A malformed, a coalesced and two same-entity operations; a coalesced, a
\* normal and an urgent one.
AllKinds == {Add, Remove, Reconcile, Malformed}
BothTiers == {Reconcile, Add, Revoke}
Rejected == {Malformed}
NoneRejected == {}

TwoRows == 1..2

TwoWorkers == {w1, w2}
WorkerSymmetry == Permutations(TwoWorkers)
=============================================================================
