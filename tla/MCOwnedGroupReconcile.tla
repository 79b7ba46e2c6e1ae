---------------------- MODULE MCOwnedGroupReconcile ----------------------
(* Small instances of OwnedGroupReconcile for TLC.                         *)
EXTENDS OwnedGroupReconcile, TLC

CONSTANTS alice, bob, robot, squad, troop, w1, w2, r1, r2

\* A team's own channel and its parent's, in both orders: additions enqueue
\* child before parent, removals in the order the join returns.
BothOrders == {<<squad, troop>>, <<troop, squad>>}

OneWorker == {w1}
TwoWorkers == {w1, w2}
Symmetry == Permutations({alice, bob}) \cup Permutations({w1, w2}) \cup Permutations({r1, r2})
============================================================================
