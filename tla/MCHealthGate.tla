---------------------------- MODULE MCHealthGate ----------------------------
(* Small instances of HealthGate: which probers an image has and what each  *)
(* of them knows of the container's environment.                            *)
EXTENDS HealthGate

CONSTANTS docker, readyz

Everyone(v) == [p \in Probers |-> v]

\* Every prober sees the container's own environment.
NoKeys    == Everyone(FALSE)
AllKeys   == Everyone(TRUE)
NoFleet   == Everyone(0)
TwoDemo   == Everyone(2)
GoodCreds == Everyone(TRUE)

\* The UniFi OS readyz unit is handed READYZ_PROBE and READYZ_PORT alone.
UnitKeys  == [p \in Probers |-> p = docker]
=============================================================================
