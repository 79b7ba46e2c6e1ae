------------------------- MODULE MCTeamMembership -------------------------
(* Small instances of TeamMembership for TLC.                              *)
EXTENDS TeamMembership, TLC

CONSTANTS alice, bob, org, squad, troop, r1, r2, r3

\* Two teams under one Organisation; one team under it.
Tree == (org :> None) @@ (squad :> org) @@ (troop :> org)
Branch == (org :> None) @@ (squad :> org)

SameSuffix == (alice :> "S1") @@ (bob :> "S1")
=============================================================================
