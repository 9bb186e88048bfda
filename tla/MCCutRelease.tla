---------------------------- MODULE MCCutRelease ----------------------------
(* A small instance of CutRelease: both products, as sorted() orders them.   *)
EXTENDS CutRelease

CONSTANTS network, unifi_os
ByName == [p \in {network, unifi_os} |-> IF p = network THEN 1 ELSE 2]
=============================================================================
