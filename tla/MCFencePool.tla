----------------------------- MODULE MCFencePool -----------------------------
(* Instances of FencePool for TLC: a header, metadata, cache line and payload *)
(* of one word of two bytes each, and the configuration files of an operator. *)
EXTENDS FencePool, TLC

CONSTANTS p1, p2

MCDefault == [capacity |-> 2, payload_size |-> 2, max_hosts |-> 2, host_id |-> 0,
              strategy |-> "error"]
MCStrategies == {"error", "segmented", "circular"}
MCNoPath == "-"
MCDefaultPath == "conf"
MCEnvPath == "env"

\* The default file and the one of the environment, of hosts 0 and 1.
Good == ("conf" :> [path |-> "pool"]) @@ ("env" :> [path |-> "pool", host_id |-> 1])

\* One file for every check of from_file and validate.
Bad ==
    ("nopath" :> [capacity |-> 2]) @@
    ("capacity" :> [path |-> "pool", capacity |-> 0]) @@
    ("empty" :> [path |-> "pool", payload_size |-> 0]) @@
    ("large" :> [path |-> "pool", payload_size |-> 6]) @@
    ("odd" :> [path |-> "pool", payload_size |-> 3]) @@
    ("nohosts" :> [path |-> "pool", max_hosts |-> 0]) @@
    ("hosts" :> [path |-> "pool", max_hosts |-> 4]) @@
    ("host" :> [path |-> "pool", host_id |-> 2]) @@
    ("strategy" :> [path |-> "pool", strategy |-> "none"])

\* A pool of one record and one host, in the same file.
Small == "small" :> [path |-> "pool", capacity |-> 1, max_hosts |-> 1]

AllFiles == Good @@ Bad @@ Small
GoodFiles == Good
TwoGeometries == Good @@ Small

Symmetry == Permutations(Procs)
=============================================================================
