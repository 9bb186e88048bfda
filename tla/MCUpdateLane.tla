---------------------------- MODULE MCUpdateLane ----------------------------
(* The bounds of UpdateLane are all a model of it needs.                     *)
EXTENDS UpdateLane
=============================================================================
