---------------------------- MODULE MCUosVolume ----------------------------
(* A small instance of UosVolume: two entries, for the copy of one fails or  *)
(* is cut short while the other is done, or not begun.                       *)
EXTENDS UosVolume

CONSTANTS e1, e2, u1, u2
=============================================================================
