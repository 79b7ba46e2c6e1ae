-------------------------- MODULE MCDeviceInventory --------------------------
(* Small instances of DeviceInventory for TLC.                             *)
EXTENDS DeviceInventory, TLC

CONSTANTS phone, browser, ana, alias, p1

\* A phone that renews its certificate and a browser session; both connect
\* under one alias.  All three certificates together are over the cap.
MCCarrier == 1 :> phone @@ 2 :> phone @@ 3 :> browser
MCOwner == 1 :> ana @@ 2 :> ana @@ 3 :> ana
MCCandidates == alias :> {browser, phone}
=============================================================================
