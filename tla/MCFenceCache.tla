---------------------------- MODULE MCFenceCache ----------------------------
(* Instances of FenceCache for TLC: w1 and w3 run on host 1, w2 on host 2. *)
EXTENDS FenceCache

CONSTANTS w1, w2, w3

MCHosts == {"h1", "h2"}
MCHostOf == [t \in Threads |-> IF t = w2 THEN "h2" ELSE "h1"]
=============================================================================
