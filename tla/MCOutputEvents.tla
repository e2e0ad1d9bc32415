--------------------------- MODULE MCOutputEvents ---------------------------
(* Outputs of every kind beside one scheduled by time, on an engine that   *)
(* gives every output the time to end; two scheduled by time also on one   *)
(* that does not, below the speed to which outputs are synchronised.       *)
EXTENDS OutputEvents

Pair(a, b) == [c \in Channel |-> IF c = "A" THEN a ELSE b]
MCKinds == {Pair("time", "time"), Pair("tooth", "time"), Pair("mixed", "time")}

SlowAndTimed == syncOn /\ \A c \in Channel : kind[c] = "time"
MCInit == OutputInit /\ (orderly \/ SlowAndTimed)
MCSpec == MCInit /\ [][OutputNext]_outputVars /\ OutputFairness
=============================================================================
