------------------------------ MODULE RegionMap ------------------------------
(***************************************************************************)
(* What the region allocator promises, without a catalog, states or scans: *)
(* a map from names to byte ranges of the pool that share no byte.  A      *)
(* region appears whole, as it was asked for, or not at all, and goes in   *)
(* one step.                                                               *)
(***************************************************************************)
EXTENDS Integers

CONSTANTS
    Labels,         \* the names of regions
    Tickets,        \* for the creations in progress
    Start, Finish,  \* the data area of the pool
    Granule         \* regions start at a multiple of it

VARIABLES
    regions,   \* the regions everybody sees: names and ranges
    promised   \* the ranges set aside for creations in progress

mapVars == <<regions, promised>>

\* Where regions may start.
Places == {o \in Start .. Finish : o % Granule = 0}

MapInit == regions = {} /\ promised = {}

\* Two ranges without a common byte.
NoOverlap(r, q) == r.offset + r.size <= q.offset \/ q.offset + q.size <= r.offset

\* A range nobody has is set aside for a region.
Promise(k, name, offset, size) ==
    /\ \A p \in promised : p.ticket # k
    /\ LET p == [ticket |-> k, name |-> name, offset |-> offset, size |-> size] IN
         /\ \A r \in regions \cup promised : NoOverlap(p, r)
         /\ promised' = promised \cup {p}
    /\ UNCHANGED regions

\* The region gets its name, which no other region has.
Publish(p) ==
    /\ \A r \in regions : r.name # p.name
    /\ regions' = regions \cup {[name |-> p.name, offset |-> p.offset, size |-> p.size]}
    /\ promised' = promised \ {p}

\* The creator is dead: its region never appears.
Withdraw(p) ==
    /\ promised' = promised \ {p}
    /\ UNCHANGED regions

Remove(r) ==
    /\ regions' = regions \ {r}
    /\ UNCHANGED promised

MapNext ==
    \/ \E k \in Tickets, name \in Labels, offset \in Places :
         \E size \in 0 .. Finish - offset : Promise(k, name, offset, size)
    \/ \E p \in promised : Publish(p) \/ Withdraw(p)
    \/ \E r \in regions : Remove(r)

MapSpec == MapInit /\ [][MapNext]_mapVars
=============================================================================
