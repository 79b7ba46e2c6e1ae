-------------------------- MODULE MCGlobalChannels --------------------------
(* A small instance of GlobalChannels for TLC.                             *)
EXTENDS GlobalChannels

CONSTANTS north, south
=============================================================================
