--------------------------- MODULE ReadinessLatch ---------------------------
(***************************************************************************)
(* What readiness promises, whatever proves it: within one boot no prober  *)
(* says healthy before the console is usable, and none that has said       *)
(* healthy takes it back.  A restart takes everything back at once.        *)
(***************************************************************************)
CONSTANTS Probers

VARIABLES usable,  \* a caller could use everything the image offers
          marker,  \* readiness was proven in this boot
          verdict  \* what each prober last said in this boot

vars == <<usable, marker, verdict>>

Silence == [p \in Probers |-> "unknown"]

TypeOK == /\ usable \in BOOLEAN
          /\ marker \in BOOLEAN
          /\ verdict \in [Probers -> {"unknown", "healthy", "unhealthy"}]

Init == usable = FALSE /\ marker = FALSE /\ verdict = Silence

BecomesUsable == /\ usable' = TRUE
                 /\ UNCHANGED <<marker, verdict>>

\* A prober finds the console usable and says so.
Prove(p) == /\ usable
            /\ marker' = TRUE
            /\ verdict' = [verdict EXCEPT ![p] = "healthy"]
            /\ UNCHANGED usable

\* A prober that has not said healthy in this boot says unhealthy.
Refuse(p) == /\ verdict[p] # "healthy"
             /\ verdict' = [verdict EXCEPT ![p] = "unhealthy"]
             /\ UNCHANGED <<usable, marker>>

Restart == Init'

Next == \/ BecomesUsable
        \/ \E p \in Probers : Prove(p) \/ Refuse(p)
        \/ Restart

Spec == Init /\ [][Next]_vars
=============================================================================
