----------------------------- MODULE MCFenceLog -----------------------------
(* Instances of FenceLog for TLC. *)
EXTENDS FenceLogRefinement

CONSTANTS a, b, w1, w2, w3

\* Two hosts: w1 and w3 run on host 1, w2 on host 2.
MCHosts == {1, 2}
MCHostOf == [t \in Threads |-> IF t = w2 THEN 2 ELSE 1]
\* One payload that fits, one that is too large, and the empty one.
MCPayloadLen == [p \in Payloads |-> CASE p = Empty -> 0 [] p = a -> 1 [] p = b -> 2]
MCTerms == {1}
=============================================================================
