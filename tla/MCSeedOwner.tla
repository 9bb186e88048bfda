----------------------------- MODULE MCSeedOwner -----------------------------
(* A small instance of SeedOwner: as many keys as four boots can mint.      *)
EXTENDS SeedOwner

CONSTANTS k1, k2, k3, k4
=============================================================================
