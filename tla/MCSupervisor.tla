---------------------------- MODULE MCSupervisor ----------------------------
(* The supervisor with the constants of the module it models.              *)
EXTENDS Supervisor
=============================================================================
