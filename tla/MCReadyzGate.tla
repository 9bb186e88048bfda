---------------------------- MODULE MCReadyzGate ----------------------------
(* A small instance of ReadyzGate: three callers, for one probes, one loses *)
(* the lock, and one arrives after a 200 was sent.                          *)
EXTENDS ReadyzGate

CONSTANTS c1, c2, c3
=============================================================================
