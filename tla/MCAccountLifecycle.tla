------------------------ MODULE MCAccountLifecycle ------------------------
(* Small instances of AccountLifecycle for TLC.                            *)
EXTENDS AccountLifecycle, TLC

CONSTANTS web1, web2

OneProcess == {web1}
=============================================================================
