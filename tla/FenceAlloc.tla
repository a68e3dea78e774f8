----------------------------- MODULE FenceAlloc -----------------------------
(***************************************************************************)
(* The region allocator of the fence-alloc crate: a catalog of MAX_REGIONS *)
(* entries in the pool, each naming a byte range of it.  The operations    *)
(* take no lock.  One action is one store into the catalog, or one scan of *)
(* it (find_region, find_free_slot, next_free_offset), with the local      *)
(* computation that follows.                                               *)
(*                                                                         *)
(* A crash kills a caller in the middle of an operation; the catalog stays, *)
(* and recover rolls the entries in transition back or forward.            *)
(***************************************************************************)
EXTENDS Integers, FiniteSets

CONSTANTS
    MaxRegions,   \* MAX_REGIONS
    DataStart,    \* the first byte after the catalog
    PoolEnd,      \* base + pool_size
    Align,        \* regions start at a multiple of it (64)
    U64,          \* modulus of the u64 arithmetic
    Threads,      \* callers, each in a process of its own
    Names,        \* names that fit in an entry
    LongNames,    \* names longer than MAX_NAME_LEN
    Sizes,        \* region sizes the callers ask for
    Serial,       \* the callers run one operation at a time
    MaxCalls,     \* bound: operations called
    MaxCrashes    \* bound: crashes of a caller

ASSUME PoolAssumption ==
    /\ MaxRegions \in Nat /\ U64 \in Nat
    /\ Align \in Nat \ {0} /\ U64 % Align = 0
    /\ DataStart \in Nat /\ PoolEnd \in Nat
    /\ DataStart <= PoolEnd /\ PoolEnd + Align <= U64
    /\ Sizes \subseteq 0 .. U64 - 1
ASSUME CallerAssumption ==
    /\ Serial \in BOOLEAN
    /\ Names \cap LongNames = {}
    /\ MaxCalls \in Nat /\ MaxCrashes \in Nat

VARIABLES
    ent,           \* the catalog entries
    region_count,  \* CAT_HDR_REGION_COUNT
    pc, req,       \* per caller: where it is, and the name and size it asked for
    slot, off,     \* create / free: the entry it works on; create: region_offset
    cnt,           \* the region_count it loaded
    cursor,        \* recover: the loop variable
    calls, crashes,
    live           \* history: handles create returned and nobody began to free

shared  == <<ent, region_count>>
locals  == <<req, slot, off, cnt, cursor>>
vars    == <<shared, pc, locals, calls, crashes, live>>

Index == 0 .. MaxRegions - 1
NoName == "none"
Entry == [state : {"FREE", "ALLOCATING", "ACTIVE", "FREEING"},
          name : Names \cup {NoName}, offset : 0 .. U64 - 1, size : 0 .. U64 - 1]
NoReq == [name |-> NoName, size |-> 0]

-----------------------------------------------------------------------------
(* The catalog, as the scans see it. *)

WrappingAdd(x, d) == IF x + d < U64 THEN x + d ELSE x + d - U64

\* (x + 63) & !63
AlignUp(x) == (WrappingAdd(x, Align - 1) \div Align) * Align

First(S) == CHOOSE i \in S : \A j \in S : i <= j

\* find_region: the first ACTIVE entry with the name.
Found(name) == {i \in Index : ent[i].state = "ACTIVE" /\ ent[i].name = name}

\* list_regions: the handles of the ACTIVE entries.
ListRegions ==
    {[slot |-> i, name |-> ent[i].name, offset |-> ent[i].offset, size |-> ent[i].size] :
       i \in {j \in Index : ent[j].state = "ACTIVE"}}

\* Mutant of Contains: only the start of the access is compared.
ContainsStart(h, byte, len) ==
    byte >= h.offset /\ byte <= WrappingAdd(h.offset, h.size)

\* RegionHandle::contains
Contains(h, byte, len) ==
    byte >= h.offset /\ WrappingAdd(byte, len) <= WrappingAdd(h.offset, h.size)

\* find_free_slot
FreeSlots == {i \in Index : ent[i].state = "FREE"}

End(e) == WrappingAdd(e.offset, e.size)

\* Mutant of Counted: an allocation in progress is overlooked.
CountedActive == {i \in Index : ent[i].state = "ACTIVE"}

\* The entries next_free_offset places a new region after.
Counted == {i \in Index : ent[i].state \in {"ACTIVE", "ALLOCATING"}}

\* Mutant of NextFreeOffset: the end of the last region, not aligned.
NextFreeUnaligned ==
    LET ends == {DataStart} \cup {End(ent[i]) : i \in Counted} IN
    CHOOSE m \in ends : \A e \in ends : e <= m

NextFreeOffset ==
    LET ends == {DataStart} \cup {End(ent[i]) : i \in Counted} IN
    AlignUp(CHOOSE m \in ends : \A e \in ends : e <= m)

-----------------------------------------------------------------------------
\* RegionAllocator::init
Init ==
    /\ ent = [i \in Index |-> [state |-> "FREE", name |-> NoName, offset |-> 0, size |-> 0]]
    /\ region_count = 0
    /\ pc = [t \in Threads |-> "idle"]
    /\ req = [t \in Threads |-> NoReq]
    /\ slot = [t \in Threads |-> 0]
    /\ off = [t \in Threads |-> 0]
    /\ cnt = [t \in Threads |-> 0]
    /\ cursor = [t \in Threads |-> 0]
    /\ calls = 0 /\ crashes = 0
    /\ live = {}

Goto(t, l) == pc' = [pc EXCEPT ![t] = l]

AtRest(t) == pc[t] \in {"idle", "down"}

Call(t) ==
    /\ pc[t] = "idle"
    /\ Serial => \A u \in Threads : AtRest(u)
    /\ calls < MaxCalls
    /\ calls' = calls + 1
    /\ UNCHANGED crashes

Leave(t, l) ==
    /\ Goto(t, l)
    /\ req' = [req EXCEPT ![t] = NoReq]
    /\ slot' = [slot EXCEPT ![t] = 0]
    /\ off' = [off EXCEPT ![t] = 0]
    /\ cnt' = [cnt EXCEPT ![t] = 0]
    /\ cursor' = [cursor EXCEPT ![t] = 0]

SetState(i, state) == ent' = [ent EXCEPT ![i].state = state]

-----------------------------------------------------------------------------
(* create_region *)

\* A name that is too long or taken is refused.
CreateRefused(t, name) ==
    /\ Call(t)
    /\ name \in LongNames \/ Found(name) # {}
    /\ UNCHANGED <<shared, pc, locals, live>>

\* Mutant of CallCreate: the name is not looked up.
CallCreateTwice(t, name, size) ==
    /\ Call(t)
    /\ name \in Names
    /\ req' = [req EXCEPT ![t] = [name |-> name, size |-> size]]
    /\ Goto(t, "free_slot")
    /\ UNCHANGED <<shared, slot, off, cnt, cursor, live>>

CallCreate(t, name, size) ==
    /\ Call(t)
    /\ name \in Names
    /\ Found(name) = {}
    /\ req' = [req EXCEPT ![t] = [name |-> name, size |-> size]]
    /\ Goto(t, "free_slot")
    /\ UNCHANGED <<shared, slot, off, cnt, cursor, live>>

FindFreeSlot(t) ==
    /\ pc[t] = "free_slot"
    /\ FreeSlots # {}
    /\ slot' = [slot EXCEPT ![t] = First(FreeSlots)]
    /\ Goto(t, "offset")
    /\ UNCHANGED <<shared, req, off, cnt, cursor, calls, crashes, live>>

CatalogFull(t) ==
    /\ pc[t] = "free_slot"
    /\ FreeSlots = {}
    /\ Leave(t, "idle")
    /\ UNCHANGED <<shared, calls, crashes, live>>

\* region_offset + size > pool_end, in u64 arithmetic.
Fits(offset, size) == WrappingAdd(offset, size) <= PoolEnd

PickOffset(t) ==
    /\ pc[t] = "offset"
    /\ Fits(NextFreeOffset, req[t].size)
    /\ off' = [off EXCEPT ![t] = NextFreeOffset]
    /\ Goto(t, "entry")
    /\ UNCHANGED <<shared, req, slot, cnt, cursor, calls, crashes, live>>

OutOfSpace(t) ==
    /\ pc[t] = "offset"
    /\ ~ Fits(NextFreeOffset, req[t].size)
    /\ Leave(t, "idle")
    /\ UNCHANGED <<shared, calls, crashes, live>>

\* write_entry: name, offset and size ...
WriteEntry(t) ==
    /\ pc[t] = "entry"
    /\ ent' = [ent EXCEPT ![slot[t]] =
                 [@ EXCEPT !.name = req[t].name, !.offset = off[t], !.size = req[t].size]]
    /\ Goto(t, "allocating")
    /\ UNCHANGED <<region_count, locals, calls, crashes, live>>

\* ... and the state last.
MarkAllocating(t) ==
    /\ pc[t] = "allocating"
    /\ SetState(slot[t], "ALLOCATING")
    /\ Goto(t, "active")
    /\ UNCHANGED <<region_count, locals, calls, crashes, live>>

MarkActive(t) ==
    /\ pc[t] = "active"
    /\ SetState(slot[t], "ACTIVE")
    /\ Goto(t, "load_count")
    /\ UNCHANGED <<region_count, locals, calls, crashes, live>>

LoadCount(t) ==
    /\ pc[t] = "load_count"
    /\ cnt' = [cnt EXCEPT ![t] = region_count]
    /\ Goto(t, "store_count")
    /\ UNCHANGED <<shared, req, slot, off, cursor, calls, crashes, live>>

\* The handle is returned.
StoreCount(t) ==
    /\ pc[t] = "store_count"
    /\ region_count' = cnt[t] + 1
    /\ live' = live \cup {[slot |-> slot[t], name |-> req[t].name,
                           offset |-> off[t], size |-> req[t].size]}
    /\ Leave(t, "idle")
    /\ UNCHANGED <<ent, calls, crashes>>

-----------------------------------------------------------------------------
(* free_region *)

FreeNotFound(t, name) ==
    /\ Call(t)
    /\ Found(name) = {}
    /\ UNCHANGED <<shared, pc, locals, live>>

CallFree(t, name) ==
    /\ Call(t)
    /\ Found(name) # {}
    /\ slot' = [slot EXCEPT ![t] = First(Found(name))]
    /\ Goto(t, "freeing")
    /\ UNCHANGED <<shared, req, off, cnt, cursor, live>>

MarkFreeing(t) ==
    /\ pc[t] = "freeing"
    /\ SetState(slot[t], "FREEING")
    /\ live' = {h \in live : h.slot # slot[t]}
    /\ Goto(t, "free")
    /\ UNCHANGED <<region_count, locals, calls, crashes>>

MarkFree(t) ==
    /\ pc[t] = "free"
    /\ SetState(slot[t], "FREE")
    /\ Goto(t, "load_free_count")
    /\ UNCHANGED <<region_count, locals, calls, crashes, live>>

LoadFreeCount(t) ==
    /\ pc[t] = "load_free_count"
    /\ cnt' = [cnt EXCEPT ![t] = region_count]
    /\ Goto(t, "store_free_count")
    /\ UNCHANGED <<shared, req, slot, off, cursor, calls, crashes, live>>

\* Mutant of StoreFreeCount: the count is not taken down.
KeepFreeCount(t) ==
    /\ pc[t] = "store_free_count"
    /\ Leave(t, "idle")
    /\ UNCHANGED <<shared, calls, crashes, live>>

\* Mutant of StoreFreeCount: a count of zero is taken down too.
UnderflowFreeCount(t) ==
    /\ pc[t] = "store_free_count"
    /\ region_count' = cnt[t] - 1
    /\ Leave(t, "idle")
    /\ UNCHANGED <<ent, calls, crashes, live>>

StoreFreeCount(t) ==
    /\ pc[t] = "store_free_count"
    /\ region_count' = IF cnt[t] > 0 THEN cnt[t] - 1 ELSE region_count
    /\ Leave(t, "idle")
    /\ UNCHANGED <<ent, calls, crashes, live>>

-----------------------------------------------------------------------------
(* recover *)

CallRecover(t) ==
    /\ Call(t)
    /\ cursor' = [cursor EXCEPT ![t] = 0]
    /\ Goto(t, "recover")
    /\ UNCHANGED <<shared, req, slot, off, cnt, live>>

\* Mutant of InTransition: only ALLOCATING is rolled back.
InAllocation(i) == ent[i].state = "ALLOCATING"

\* Mutant of InTransition: any entry in use is rolled back.
InUse(i) == ent[i].state # "FREE"

InTransition(i) == ent[i].state \in {"ALLOCATING", "FREEING"}

RecoverSkip(t) ==
    /\ pc[t] = "recover"
    /\ cursor[t] < MaxRegions
    /\ ~ InTransition(cursor[t])
    /\ cursor' = [cursor EXCEPT ![t] = @ + 1]
    /\ UNCHANGED <<shared, pc, req, slot, off, cnt, calls, crashes, live>>

RecoverFound(t) ==
    /\ pc[t] = "recover"
    /\ cursor[t] < MaxRegions
    /\ InTransition(cursor[t])
    /\ Goto(t, "fix")
    /\ UNCHANGED <<shared, locals, calls, crashes, live>>

\* Mutant of RecoverFix: an entry in transition is rolled forward to ACTIVE.
RecoverForward(t) ==
    /\ pc[t] = "fix"
    /\ SetState(cursor[t], "ACTIVE")
    /\ cursor' = [cursor EXCEPT ![t] = @ + 1]
    /\ Goto(t, "recover")
    /\ UNCHANGED <<region_count, req, slot, off, cnt, calls, crashes, live>>

RecoverFix(t) ==
    /\ pc[t] = "fix"
    /\ SetState(cursor[t], "FREE")
    /\ cursor' = [cursor EXCEPT ![t] = @ + 1]
    /\ Goto(t, "recover")
    /\ UNCHANGED <<region_count, req, slot, off, cnt, calls, crashes, live>>

RecoverReturn(t) ==
    /\ pc[t] = "recover"
    /\ cursor[t] = MaxRegions
    /\ Leave(t, "idle")
    /\ UNCHANGED <<shared, calls, crashes, live>>

-----------------------------------------------------------------------------
Crash(t) ==
    /\ crashes < MaxCrashes
    /\ pc[t] # "down"
    /\ crashes' = crashes + 1
    /\ Leave(t, "down")
    /\ UNCHANGED <<shared, calls, live>>

\* RegionAllocator::open checks the magic number and changes nothing.
Reopen(t) ==
    /\ pc[t] = "down"
    /\ Goto(t, "idle")
    /\ UNCHANGED <<shared, locals, calls, crashes, live>>

Create(t) ==
    \/ \E name \in Names \cup LongNames : CreateRefused(t, name)
    \/ \E name \in Names, size \in Sizes : CallCreate(t, name, size)
    \/ FindFreeSlot(t) \/ CatalogFull(t) \/ PickOffset(t) \/ OutOfSpace(t) \/ WriteEntry(t)
    \/ MarkAllocating(t) \/ MarkActive(t) \/ LoadCount(t) \/ StoreCount(t)

Free(t) ==
    \/ \E name \in Names : FreeNotFound(t, name) \/ CallFree(t, name)
    \/ MarkFreeing(t) \/ MarkFree(t) \/ LoadFreeCount(t) \/ StoreFreeCount(t)

Recover(t) ==
    CallRecover(t) \/ RecoverSkip(t) \/ RecoverFound(t) \/ RecoverFix(t) \/ RecoverReturn(t)

\* The callers have made their calls, and all of them have returned.
Rest ==
    /\ calls = MaxCalls
    /\ \A t \in Threads : AtRest(t)
    /\ UNCHANGED vars

Next ==
    \/ \E t \in Threads : Create(t) \/ Free(t) \/ Recover(t) \/ Crash(t) \/ Reopen(t)
    \/ Rest

Spec == Init /\ [][Next]_vars

-----------------------------------------------------------------------------
(* Properties. *)

PCs == {"idle", "down", "free_slot", "offset", "entry", "allocating", "active", "load_count",
        "store_count", "freeing", "free", "load_free_count", "store_free_count", "recover", "fix"}

\* Every entry, local and counter has its type.
AllocTypeOK ==
    /\ ent \in [Index -> Entry]
    /\ region_count \in Nat
    /\ pc \in [Threads -> PCs]
    /\ req \in [Threads -> [name : Names \cup {NoName}, size : 0 .. U64 - 1]]
    /\ slot \in [Threads -> Nat]
    /\ off \in [Threads -> 0 .. U64 - 1]
    /\ cnt \in [Threads -> Nat]
    /\ cursor \in [Threads -> 0 .. MaxRegions]
    /\ calls \in 0 .. MaxCalls /\ crashes \in 0 .. MaxCrashes

\* The byte ranges of two entries, not wrapped.
Disjoint(d, e) == d.offset + d.size <= e.offset \/ e.offset + e.size <= d.offset

\* The entries that own their byte range.
Owned == {i \in Index : ent[i].state \in {"ALLOCATING", "ACTIVE"}}

\* Regions in use or being allocated never share a byte, wherever the callers
\* crashed and whatever was freed and created since.
RegionsDisjoint ==
    \A i, j \in Owned : i # j => Disjoint(ent[i], ent[j])

\* Every region in use lies in the data area and starts at a multiple of Align.
RegionsInside ==
    \A i \in Owned :
        /\ ent[i].offset >= DataStart
        /\ ent[i].offset % Align = 0
        /\ ent[i].offset + ent[i].size <= PoolEnd

\* A name names one region.
NamesUnique ==
    \A i, j \in Index : ent[i].state = "ACTIVE" /\ ent[j].state = "ACTIVE" /\ i # j =>
        ent[i].name # ent[j].name

\* A handle create returned stays good until somebody frees the region: list_regions
\* has it, just as it was returned, across crashes and recoveries.
HandlesGood == live \subseteq ListRegions

\* An access that the contains of one region accepts, the contains of another one in use
\* refuses; accesses whose end does not fit in a u64 left aside.
HandlesApart ==
    \A h, k \in ListRegions : h # k =>
        \A byte \in 0 .. PoolEnd : \A len \in 1 .. PoolEnd :
            byte + len < U64 => ~ (Contains(h, byte, len) /\ Contains(k, byte, len))

\* When recover is done and nobody else is at work, no entry is left in transition.
RecoverCompletes ==
    \A t \in Threads :
        (pc[t] = "recover" /\ cursor[t] = MaxRegions /\ \A u \in Threads \ {t} : AtRest(u)) =>
        \A i \in Index : ent[i].state \in {"FREE", "ACTIVE"}

\* As long as nobody has crashed, with everybody at rest region_count, the "number of
\* entries allocated" (catalog.rs), is the number of entries that are not FREE.  A crash
\* between the store of a state and the store of the count makes it wrong for good.
CountExact ==
    crashes = 0 /\ (\A t \in Threads : AtRest(t)) => region_count = Cardinality(Index \ FreeSlots)
=============================================================================
