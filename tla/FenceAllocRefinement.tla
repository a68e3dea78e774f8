------------------------ MODULE FenceAllocRefinement ------------------------
(***************************************************************************)
(* FenceAlloc implements RegionMap, for callers that run one operation at  *)
(* a time.                                                                 *)
(***************************************************************************)
EXTENDS FenceAlloc

\* What find_region returns is in the ACTIVE entries, what a creation has set aside in
\* the ALLOCATING ones; the others own nothing, whatever their fields still hold.
RegionOf(i) == [name |-> ent[i].name, offset |-> ent[i].offset, size |-> ent[i].size]
Regions == {RegionOf(i) : i \in {j \in Index : ent[j].state = "ACTIVE"}}

TicketOf(i) ==
    [ticket |-> i, name |-> ent[i].name, offset |-> ent[i].offset, size |-> ent[i].size]
Promised == {TicketOf(i) : i \in {j \in Index : ent[j].state = "ALLOCATING"}}

Map == INSTANCE RegionMap WITH
    Labels <- Names, Tickets <- Index,
    Start <- DataStart, Finish <- PoolEnd, Granule <- Align,
    regions <- Regions, promised <- Promised

\* The catalog, store by store, is the abstract map: wherever callers die, no region is
\* half visible, comes back, or has bytes of another one, and recover changes nothing
\* that anybody sees.
ImplementsRegionMap == Map!MapSpec
=============================================================================
