-------------------------- MODULE FenceAllocProofs --------------------------
(***************************************************************************)
(* Theorems about the region allocator, for every catalog and pool size,   *)
(* alignment, set of callers and number of calls and crashes.              *)
(*                                                                         *)
(* The types hold for any interleaving.  Everything else is proved for     *)
(* callers that run one operation at a time (Serial), as the code needs,   *)
(* and for sizes whose sums with an offset of the pool fit in a u64.       *)
(***************************************************************************)
EXTENDS FenceAllocRefinement, FiniteSetTheorems, WellFoundedInduction, TLAPS

USE PoolAssumption, CallerAssumption

\* No size a caller asks for makes the space check wrap.
SizesFit == \A z \in Sizes : PoolEnd + Align + z <= U64

\* One operation at a time.
Alone == \A t, u \in Threads : ~ AtRest(t) /\ ~ AtRest(u) => t = u

\* The space create_region found is free, and behind every region.
Room(t) ==
    /\ off[t] >= DataStart
    /\ off[t] % Align = 0
    /\ off[t] + req[t].size <= PoolEnd
    /\ \A i \in Owned : ent[i].offset + ent[i].size <= off[t]

Written(t) ==
    /\ ent[slot[t]].name = req[t].name
    /\ ent[slot[t]].offset = off[t]
    /\ ent[slot[t]].size = req[t].size

\* What an operation in progress knows of the catalog.
Knows(t) ==
    /\ pc[t] \in {"free_slot", "offset", "entry", "allocating", "active"} =>
          Found(req[t].name) = {} /\ req[t].size \in Sizes
    /\ pc[t] \in {"offset", "entry", "allocating", "active", "load_count", "store_count",
                  "freeing", "free"} => slot[t] \in Index
    /\ pc[t] \in {"offset", "entry", "allocating"} => ent[slot[t]].state = "FREE"
    /\ pc[t] \in {"entry", "allocating"} => Room(t)
    /\ pc[t] \in {"allocating", "active", "load_count", "store_count"} => Written(t)
    /\ pc[t] = "active" => ent[slot[t]].state = "ALLOCATING"
    /\ pc[t] \in {"load_count", "store_count", "freeing"} => ent[slot[t]].state = "ACTIVE"
    /\ pc[t] = "free" => ent[slot[t]].state = "FREEING"
    /\ pc[t] \in {"recover", "fix"} =>
          \A i \in Index : i < cursor[t] => ent[i].state \in {"FREE", "ACTIVE"}
    /\ pc[t] = "fix" => cursor[t] \in Index /\ InTransition(cursor[t])

Used == Index \ FreeSlots

\* As long as nobody crashed, region_count differs from the entries in use only between
\* an operation's store of a state and its store of the count.
Counting ==
    crashes = 0 =>
    /\ \A i \in Index : InTransition(i) => \E t \in Threads : pc[t] \in {"active", "free"} /\ slot[t] = i
    /\ \A t \in Threads : pc[t] \in {"active", "load_count", "store_count"} =>
          Cardinality(Used) = region_count + 1
    /\ \A t \in Threads : pc[t] \in {"load_free_count", "store_free_count"} =>
          Cardinality(Used) + 1 = region_count
    /\ \A t \in Threads : pc[t] \in {"store_count", "store_free_count"} => cnt[t] = region_count
    /\ (\A t \in Threads : pc[t] \notin {"active", "load_count", "store_count",
                                         "load_free_count", "store_free_count"}) =>
          Cardinality(Used) = region_count

\* The scans hand out entries of the catalog.
SlotsOK ==
    \A t \in Threads :
        /\ pc[t] \in {"offset", "entry", "allocating", "active", "freeing", "free"} => slot[t] \in Index
        /\ pc[t] = "fix" => cursor[t] \in Index

TypeInv == AllocTypeOK /\ SlotsOK

CatalogInv == RegionsDisjoint /\ RegionsInside /\ NamesUnique /\ HandlesGood

AllocInv ==
    /\ TypeInv
    /\ Alone
    /\ \A t \in Threads : Knows(t)
    /\ CatalogInv
    /\ Counting

-----------------------------------------------------------------------------
(* The operators of the catalog. *)

\* A set of naturals has a least element ...
LEMMA LeastElement ==
    ASSUME NEW S \in SUBSET Nat, S # {}
    PROVE  \E m \in S : \A x \in S : m <= x
<1> DEFINE R == OpToRel(<, Nat)
<1>1. IsWellFoundedOn(R, Nat)
  BY NatLessThanWellFounded
<1>2. PICK m \in S : \A x \in S : ~ (<<x, m>> \in R)
  BY <1>1, WFMin
<1>3. \A x \in S : ~ (x < m)
  BY <1>2 DEF OpToRel
<1> QED
  BY <1>3

\* ... and, when it is bounded, a greatest one: the least of its bounds.
LEMMA GreatestElement ==
    ASSUME NEW b \in Nat, NEW S \in SUBSET (0 .. b), S # {}
    PROVE  \E m \in S : \A x \in S : x <= m
<1> DEFINE B == {n \in Nat : \A x \in S : x <= n}
<1>1. b \in B
  OBVIOUS
<1>2. PICK m \in B : \A n \in B : m <= n
  BY <1>1, LeastElement
<1>3. ASSUME m \notin S PROVE FALSE
  <2>1. \A x \in S : x < m
    BY <1>2, <1>3
  <2>2. PICK x \in S : x < m
    BY <2>1
  <2>3. m - 1 \in Nat
    BY <2>2
  <2>4. m - 1 \in B
    BY <2>1, <2>3
  <2> QED
    BY <1>2, <2>4
<1> QED
  BY <1>2, <1>3

\* The first entry of a scan that finds one is one it found.
LEMMA FirstFound ==
    ASSUME NEW S \in SUBSET Index, S # {}
    PROVE  First(S) \in S
<1>1. S \in SUBSET Nat
  BY DEF Index
<1>2. \E i \in S : \A j \in S : i <= j
  BY <1>1, LeastElement
<1> QED
  BY <1>2 DEF First

\* A wrapping sum of two u64 is a u64, and the sum itself if that fits.
LEMMA WrapFacts ==
    ASSUME NEW x \in 0 .. U64 - 1, NEW d \in 0 .. U64 - 1
    PROVE  /\ WrappingAdd(x, d) \in 0 .. U64 - 1
           /\ x + d < U64 => WrappingAdd(x, d) = x + d
  BY DEF WrappingAdd

\* AlignUp yields a u64 that is a multiple of Align; for an offset of the pool it is the
\* next one.
LEMMA AlignFacts ==
    ASSUME NEW x \in 0 .. U64 - 1
    PROVE  /\ AlignUp(x) \in 0 .. U64 - 1 /\ AlignUp(x) % Align = 0
           /\ x <= PoolEnd => x <= AlignUp(x) /\ AlignUp(x) < x + Align
<1> DEFINE y == WrappingAdd(x, Align - 1)
<1>1. Align - 1 \in 0 .. U64 - 1 /\ Align \in Nat \ {0}
  OBVIOUS
<1>2. y \in 0 .. U64 - 1 /\ (x + (Align - 1) < U64 => y = x + (Align - 1))
  BY <1>1, WrapFacts
<1> HIDE DEF y
<1>3. /\ (y \div Align) * Align <= y /\ y < (y \div Align) * Align + Align
      /\ (y \div Align) * Align \in Nat /\ ((y \div Align) * Align) % Align = 0
  BY <1>1, <1>2
<1>4. AlignUp(x) = (y \div Align) * Align
  BY DEF AlignUp, y
<1> QED
  BY <1>1, <1>2, <1>3, <1>4

\* Where create_region places a region: always at a multiple of Align, and behind every
\* region when the regions are inside the pool.
LEMMA NextFreeFacts ==
    ASSUME AllocTypeOK
    PROVE  /\ NextFreeOffset \in 0 .. U64 - 1 /\ NextFreeOffset % Align = 0
           /\ RegionsInside => /\ NextFreeOffset >= DataStart
                               /\ NextFreeOffset < PoolEnd + Align
                               /\ \A i \in Owned : ent[i].offset + ent[i].size <= NextFreeOffset
<1> DEFINE ends == {DataStart} \cup {End(ent[i]) : i \in Counted}
           m == CHOOSE n \in ends : \A e \in ends : e <= n
<1>1. \A i \in Counted : ent[i].offset \in 0 .. U64 - 1 /\ ent[i].size \in 0 .. U64 - 1
  BY DEF AllocTypeOK, Counted, Entry
<1>2. \A i \in Counted : End(ent[i]) \in 0 .. U64 - 1
  BY <1>1, WrapFacts DEF End
<1>3. ends \in SUBSET (0 .. U64 - 1) /\ DataStart \in ends /\ U64 - 1 \in Nat
  BY <1>2
<1>4. \E n \in ends : \A e \in ends : e <= n
  BY <1>3, GreatestElement
<1>5. m \in ends /\ \A e \in ends : e <= m
  BY <1>4
<1>6. NextFreeOffset = AlignUp(m) /\ m \in 0 .. U64 - 1
  BY <1>3, <1>5 DEF NextFreeOffset
<1>7. ASSUME RegionsInside
      PROVE  /\ NextFreeOffset >= DataStart
             /\ NextFreeOffset < PoolEnd + Align
             /\ \A i \in Owned : ent[i].offset + ent[i].size <= NextFreeOffset
  <2>1. Counted = Owned
    BY DEF Counted, Owned
  <2>2. \A i \in Owned : End(ent[i]) = ent[i].offset + ent[i].size /\ End(ent[i]) <= PoolEnd
    <3> SUFFICES ASSUME NEW i \in Owned
                 PROVE  End(ent[i]) = ent[i].offset + ent[i].size /\ End(ent[i]) <= PoolEnd
      OBVIOUS
    <3>1. ent[i].offset + ent[i].size <= PoolEnd /\ ent[i].offset + ent[i].size \in Nat
      BY <1>1, <1>7, <2>1 DEF RegionsInside
    <3>2. ent[i].offset + ent[i].size < U64
      BY <3>1
    <3> QED
      BY <1>1, <2>1, <3>1, <3>2, WrapFacts DEF End
  <2>3. DataStart <= m /\ \A i \in Owned : ent[i].offset + ent[i].size <= m
    BY <1>5, <2>1, <2>2
  <2>4. m <= PoolEnd
    BY <1>5, <2>1, <2>2
  <2>5. m <= NextFreeOffset /\ NextFreeOffset < m + Align
    BY <1>6, <2>4, AlignFacts
  <2>6. /\ \A i \in Owned : ent[i].offset + ent[i].size \in Nat
        /\ m \in Nat /\ NextFreeOffset \in Nat
    BY <1>1, <1>6, <2>1, AlignFacts
  <2> HIDE DEF m
  <2> QED
    BY <2>3, <2>4, <2>5, <2>6
<1> QED
  BY <1>6, <1>7, AlignFacts

-----------------------------------------------------------------------------
(* Types, for any interleaving of the callers. *)

\* Storing a state changes nothing else of any entry.
LEMMA SetStateFacts ==
    ASSUME ent \in [Index -> Entry], NEW i \in Index,
           NEW v \in {"FREE", "ALLOCATING", "ACTIVE", "FREEING"}, SetState(i, v)
    PROVE  /\ ent' \in [Index -> Entry]
           /\ ent'[i].state = v /\ ent'[i].name = ent[i].name
           /\ ent'[i].offset = ent[i].offset /\ ent'[i].size = ent[i].size
           /\ \A j \in Index \ {i} : ent'[j] = ent[j]
<1>1. ent[i] \in Entry
  OBVIOUS
<1>2. ent' = [ent EXCEPT ![i] = [ent[i] EXCEPT !.state = v]]
  BY DEF SetState
<1>3. [ent[i] EXCEPT !.state = v] \in Entry
  BY <1>1 DEF Entry
<1> QED
  BY <1>1, <1>2, <1>3 DEF Entry

\* write_entry stores everything of the entry but its state.
LEMMA WriteEntryFacts ==
    ASSUME AllocTypeOK, NEW t \in Threads, WriteEntry(t), slot[t] \in Index
    PROVE  /\ ent' \in [Index -> Entry]
           /\ ent'[slot[t]].state = ent[slot[t]].state
           /\ ent'[slot[t]].name = req[t].name
           /\ ent'[slot[t]].offset = off[t] /\ ent'[slot[t]].size = req[t].size
           /\ \A j \in Index \ {slot[t]} : ent'[j] = ent[j]
<1> DEFINE e == [ent[slot[t]] EXCEPT !.name = req[t].name, !.offset = off[t], !.size = req[t].size]
<1>1. /\ ent[slot[t]] \in Entry /\ req[t].name \in Names \cup {NoName}
      /\ req[t].size \in 0 .. U64 - 1 /\ off[t] \in 0 .. U64 - 1
  BY DEF AllocTypeOK
<1>2. ent' = [ent EXCEPT ![slot[t]] = e]
  BY DEF WriteEntry
<1>3. /\ e \in Entry /\ e.state = ent[slot[t]].state /\ e.name = req[t].name
      /\ e.offset = off[t] /\ e.size = req[t].size
  BY <1>1 DEF Entry
<1> HIDE DEF e
<1> QED
  BY <1>1, <1>2, <1>3 DEF AllocTypeOK

\* Leaving an operation resets the locals of the caller.
LEMMA TypeLeave ==
    ASSUME TypeInv, NEW t \in Threads, NEW l \in {"idle", "down"}, Leave(t, l), UNCHANGED ent,
           region_count' \in Nat, calls' \in 0 .. MaxCalls, crashes' \in 0 .. MaxCrashes
    PROVE  TypeInv'
<1>1. NoReq \in [name : Names \cup {NoName}, size : 0 .. U64 - 1]
  BY DEF NoReq
<1>2. AllocTypeOK'
  BY <1>1 DEF Leave, Goto, TypeInv, AllocTypeOK, PCs
<1>3. SlotsOK'
  BY DEF Leave, Goto, TypeInv, AllocTypeOK, SlotsOK
<1> QED
  BY <1>2, <1>3 DEF TypeInv

\* Every step of a caller preserves the types.
LEMMA TypeStep ==
    ASSUME TypeInv, NEW t \in Threads, Create(t) \/ Free(t) \/ Recover(t) \/ Crash(t) \/ Reopen(t)
    PROVE  TypeInv'
<1> USE DEF TypeInv
<1>1. ASSUME Call(t), UNCHANGED <<shared, pc, locals, live>> PROVE TypeInv'
  BY <1>1 DEF Call, shared, locals, AllocTypeOK, SlotsOK
<1>2. ASSUME NEW name \in Names, NEW size \in Sizes, CallCreate(t, name, size) PROVE TypeInv'
  <2>1. [name |-> name, size |-> size] \in [name : Names \cup {NoName}, size : 0 .. U64 - 1]
    OBVIOUS
  <2>2. req' \in [Threads -> [name : Names \cup {NoName}, size : 0 .. U64 - 1]]
    BY <1>2, <2>1 DEF CallCreate, AllocTypeOK
  <2> QED
    BY <1>2, <2>2 DEF CallCreate, Call, Goto, shared, AllocTypeOK, SlotsOK, PCs
<1>3. ASSUME FindFreeSlot(t) PROVE TypeInv'
  <2>1. First(FreeSlots) \in Index /\ First(FreeSlots) \in Nat
    BY <1>3, FirstFound DEF FindFreeSlot, FreeSlots, Index
  <2> QED
    BY <1>3, <2>1 DEF FindFreeSlot, Goto, shared, AllocTypeOK, SlotsOK, PCs
<1>4. ASSUME CatalogFull(t) \/ OutOfSpace(t) \/ RecoverReturn(t) PROVE TypeInv'
  BY <1>4, TypeLeave DEF CatalogFull, OutOfSpace, RecoverReturn, shared, AllocTypeOK
<1>5. ASSUME PickOffset(t) PROVE TypeInv'
  <2>1. NextFreeOffset \in 0 .. U64 - 1
    BY NextFreeFacts
  <2> QED
    BY <1>5, <2>1 DEF PickOffset, Goto, shared, AllocTypeOK, SlotsOK, PCs
<1>6. ASSUME WriteEntry(t) PROVE TypeInv'
  <2>1. ent' \in [Index -> Entry]
    BY <1>6, WriteEntryFacts DEF WriteEntry, SlotsOK
  <2> QED
    BY <1>6, <2>1 DEF WriteEntry, Goto, locals, AllocTypeOK, SlotsOK, PCs
<1>7. ASSUME MarkAllocating(t) \/ MarkActive(t) \/ MarkFreeing(t) \/ MarkFree(t) PROVE TypeInv'
  <2>1. ent' \in [Index -> Entry]
    BY <1>7, SetStateFacts DEF MarkAllocating, MarkActive, MarkFreeing, MarkFree, SlotsOK, AllocTypeOK
  <2>2. UNCHANGED <<region_count, locals, calls, crashes>>
    BY <1>7 DEF MarkAllocating, MarkActive, MarkFreeing, MarkFree
  <2>3. slot[t] \in Index /\ \E l \in {"active", "load_count", "free", "load_free_count"} : Goto(t, l)
    BY <1>7 DEF MarkAllocating, MarkActive, MarkFreeing, MarkFree, SlotsOK
  <2> QED
    BY <2>1, <2>2, <2>3 DEF Goto, locals, AllocTypeOK, SlotsOK, PCs
<1>8. ASSUME LoadCount(t) \/ LoadFreeCount(t) PROVE TypeInv'
  BY <1>8, SMTT(20) DEF LoadCount, LoadFreeCount, Goto, shared, AllocTypeOK, SlotsOK, PCs
<1>9. ASSUME StoreCount(t) \/ StoreFreeCount(t) PROVE TypeInv'
  <2>1. region_count' \in Nat
    BY <1>9 DEF StoreCount, StoreFreeCount, AllocTypeOK
  <2> QED
    BY <1>9, <2>1, TypeLeave DEF StoreCount, StoreFreeCount, AllocTypeOK
<1>10. ASSUME NEW name \in Names, CallFree(t, name) PROVE TypeInv'
  <2>1. First(Found(name)) \in Index /\ First(Found(name)) \in Nat
    BY <1>10, FirstFound DEF CallFree, Found, Index
  <2> QED
    BY <1>10, <2>1 DEF CallFree, Call, Goto, shared, AllocTypeOK, SlotsOK, PCs
<1>11. ASSUME CallRecover(t) PROVE TypeInv'
  BY <1>11 DEF CallRecover, Call, Goto, shared, AllocTypeOK, SlotsOK, PCs
<1>12. ASSUME RecoverSkip(t) PROVE TypeInv'
  BY <1>12 DEF RecoverSkip, shared, AllocTypeOK, SlotsOK, PCs
<1>13. ASSUME RecoverFound(t) PROVE TypeInv'
  BY <1>13 DEF RecoverFound, Goto, shared, locals, AllocTypeOK, SlotsOK, PCs, Index
<1>14. ASSUME RecoverFix(t) PROVE TypeInv'
  <2>1. ent' \in [Index -> Entry] /\ cursor[t] \in Index
    BY <1>14, SetStateFacts DEF RecoverFix, SlotsOK, AllocTypeOK
  <2>2. cursor[t] + 1 \in 0 .. MaxRegions
    BY <2>1 DEF Index
  <2> QED
    BY <1>14, <2>1, <2>2 DEF RecoverFix, Goto, AllocTypeOK, SlotsOK, PCs
<1>15. ASSUME Crash(t) PROVE TypeInv'
  BY <1>15, TypeLeave DEF Crash, shared, AllocTypeOK
<1>16. ASSUME Reopen(t) PROVE TypeInv'
  BY <1>16 DEF Reopen, Goto, shared, locals, AllocTypeOK, SlotsOK, PCs
<1> QED
  BY <1>1, <1>2, <1>3, <1>4, <1>5, <1>6, <1>7, <1>8, <1>9, <1>10, <1>11, <1>12, <1>13, <1>14, <1>15,
     <1>16 DEF Create, Free, Recover, CreateRefused, FreeNotFound

\* The types are inductive.
LEMMA TypeNext == TypeInv /\ [Next]_vars => TypeInv'
<1> SUFFICES ASSUME TypeInv, [Next]_vars PROVE TypeInv'
  OBVIOUS
<1>1. CASE UNCHANGED vars
  BY <1>1 DEF vars, shared, locals, TypeInv, AllocTypeOK, SlotsOK
<1> QED
  BY <1>1, TypeStep DEF Next, Rest

\* A new catalog is well typed.
LEMMA TypeInit == Init => TypeInv
<1> SUFFICES ASSUME Init PROVE TypeInv
  OBVIOUS
<1>1. [state |-> "FREE", name |-> NoName, offset |-> 0, size |-> 0] \in Entry
  BY DEF Entry
<1>2. NoReq \in [name : Names \cup {NoName}, size : 0 .. U64 - 1]
  BY DEF NoReq
<1> QED
  BY <1>1, <1>2 DEF Init, TypeInv, AllocTypeOK, SlotsOK, PCs

\* Every entry, local and counter keeps its type, whatever the callers do at the same time:
\* region_count never goes below zero, and an offset stays a u64.
THEOREM AllocTypeCorrect == Spec => []AllocTypeOK
<1>1. TypeInv => AllocTypeOK
  BY DEF TypeInv
<1> QED
  BY <1>1, TypeInit, TypeNext, PTL DEF Spec

-----------------------------------------------------------------------------
(* One operation at a time. *)

\* The thread that takes a step of an operation, or starts one, is the only one at work.
LEMMA OthersRest ==
    ASSUME Serial, Alone, NEW t \in Threads, ~ AtRest(t) \/ Call(t)
    PROVE  \A u \in Threads \ {t} : AtRest(u)
  BY DEF Alone, Call

\* Such a step preserves the whole invariant, if the thread knows what it has to know, and
\* the catalog and the count are right.
LEMMA AllocStep ==
    ASSUME Serial, AllocInv, TypeInv', NEW t \in Threads, ~ AtRest(t) \/ Call(t),
           NEW l, pc' = [pc EXCEPT ![t] = l], Knows(t)', CatalogInv', Counting'
    PROVE  AllocInv'
<1>1. \A u \in Threads \ {t} : AtRest(u) /\ pc'[u] = pc[u]
  BY OthersRest DEF AllocInv, TypeInv, AllocTypeOK
<1>2. Alone'
  BY <1>1 DEF Alone, AtRest
<1>3. \A u \in Threads \ {t} : Knows(u)'
  BY <1>1 DEF AtRest, Knows
<1> QED
  BY <1>2, <1>3 DEF AllocInv

\* A step that gives no entry to anybody and leaves the regions of the handles alone keeps
\* the catalog right.
LEMMA CatalogKept ==
    ASSUME CatalogInv,
           \A i \in Index : ent'[i].state \in {"ALLOCATING", "ACTIVE"} =>
              /\ ent[i].state \in {"ALLOCATING", "ACTIVE"}
              /\ ent'[i].offset = ent[i].offset /\ ent'[i].size = ent[i].size,
           \A i \in Index : ent'[i].state = "ACTIVE" =>
              ent[i].state = "ACTIVE" /\ ent'[i].name = ent[i].name,
           live' \subseteq live,
           \A h \in live' : \A i \in Index : h.slot = i /\ ent[i].state = "ACTIVE" => ent'[i] = ent[i]
    PROVE  CatalogInv'
<1>1. RegionsDisjoint' /\ RegionsInside'
  BY DEF CatalogInv, RegionsDisjoint, RegionsInside, Owned, Disjoint
<1>2. NamesUnique'
  BY DEF CatalogInv, NamesUnique
<1>3. HandlesGood'
  <2> SUFFICES ASSUME NEW h \in live' PROVE h \in ListRegions'
    BY DEF HandlesGood
  <2>1. PICK i \in Index :
           /\ ent[i].state = "ACTIVE"
           /\ h = [slot |-> i, name |-> ent[i].name, offset |-> ent[i].offset, size |-> ent[i].size]
    BY DEF CatalogInv, HandlesGood, ListRegions
  <2>2. ent'[i] = ent[i]
    BY <2>1
  <2> QED
    BY <2>1, <2>2 DEF ListRegions
<1> QED
  BY <1>1, <1>2, <1>3 DEF CatalogInv

\* A step that stores neither a state nor the count keeps the count right.
LEMMA CountingKept ==
    ASSUME AllocInv, NEW t \in Threads, NEW l, pc' = [pc EXCEPT ![t] = l],
           UNCHANGED <<region_count, crashes>>, \A i \in Index : ent'[i].state = ent[i].state,
           pc[t] \in {"active", "load_count", "store_count"} <=> l \in {"active", "load_count", "store_count"},
           pc[t] \in {"load_free_count", "store_free_count"} <=> l \in {"load_free_count", "store_free_count"},
           pc[t] \notin {"active", "free"}, l \notin {"active", "free"},
           l \in {"store_count", "store_free_count"} => cnt'[t] = region_count,
           \A u \in Threads \ {t} : cnt'[u] = cnt[u] /\ slot'[u] = slot[u]
    PROVE  Counting'
<1>1. Used' = Used /\ \A i \in Index : InTransition(i)' <=> InTransition(i)
  BY DEF Used, FreeSlots, InTransition
<1>2. pc'[t] = l /\ \A u \in Threads \ {t} : pc'[u] = pc[u]
  BY DEF AllocInv, TypeInv, AllocTypeOK
<1>3. \A u \in Threads : pc[u] \in {"active", "free"} => u # t /\ pc'[u] = pc[u] /\ slot'[u] = slot[u]
  BY <1>2
<1> QED
  BY <1>1, <1>2, <1>3 DEF AllocInv, Counting

\* A step that only loads from the catalog.
LEMMA LoadStep ==
    ASSUME Serial, AllocInv, TypeInv', NEW t \in Threads, ~ AtRest(t) \/ Call(t),
           NEW l, pc' = [pc EXCEPT ![t] = l], UNCHANGED <<shared, live, crashes>>,
           pc[t] \in {"active", "load_count", "store_count"} <=> l \in {"active", "load_count", "store_count"},
           pc[t] \in {"load_free_count", "store_free_count"} <=> l \in {"load_free_count", "store_free_count"},
           pc[t] \notin {"active", "free"}, l \notin {"active", "free"},
           l \in {"store_count", "store_free_count"} => cnt'[t] = region_count,
           \A u \in Threads \ {t} : cnt'[u] = cnt[u] /\ slot'[u] = slot[u],
           Knows(t)'
    PROVE  AllocInv'
<1>1. CatalogInv'
  BY CatalogKept DEF AllocInv, shared
<1>2. Counting'
  BY CountingKept DEF shared
<1> QED
  BY <1>1, <1>2, AllocStep

\* The scans and loads of create_region preserve AllocInv.
LEMMA AllocCreateLoads ==
    ASSUME Serial, SizesFit, AllocInv, TypeInv', NEW t \in Threads,
           \/ \E name \in Names, size \in Sizes : CallCreate(t, name, size)
           \/ FindFreeSlot(t) \/ PickOffset(t) \/ LoadCount(t)
    PROVE  AllocInv'
<1>0. Knows(t) /\ AllocTypeOK /\ RegionsInside
  BY DEF AllocInv, TypeInv, CatalogInv
<1>1. ASSUME NEW name \in Names, NEW size \in Sizes, CallCreate(t, name, size) PROVE AllocInv'
  <2>1. /\ pc[t] = "idle" /\ pc' = [pc EXCEPT ![t] = "free_slot"] /\ pc'[t] = "free_slot"
        /\ UNCHANGED <<shared, live, crashes, cnt, slot>> /\ Call(t)
        /\ Found(name) = {} /\ req'[t].name = name /\ req'[t].size = size
    BY <1>0, <1>1 DEF CallCreate, Call, Goto, AllocTypeOK
  <2>2. Found(req[t].name)' = {}
    BY <2>1 DEF Found, shared
  <2>3. Knows(t)'
    BY <2>1, <2>2 DEF Knows
  <2> QED
    BY <2>1, <2>3, LoadStep
<1>2. CASE FindFreeSlot(t)
  <2>1. /\ pc[t] = "free_slot" /\ pc' = [pc EXCEPT ![t] = "offset"] /\ pc'[t] = "offset"
        /\ UNCHANGED <<shared, live, crashes, cnt, req>> /\ ~ AtRest(t)
        /\ slot'[t] = First(FreeSlots) /\ \A u \in Threads \ {t} : slot'[u] = slot[u]
    BY <1>0, <1>2 DEF FindFreeSlot, Goto, AllocTypeOK, AtRest
  <2>2. slot'[t] \in Index /\ ent[slot'[t]].state = "FREE"
    BY <1>2, <2>1, FirstFound DEF FindFreeSlot, FreeSlots
  <2>3. Found(req[t].name)' = {} /\ req[t].size \in Sizes
    BY <1>0, <2>1 DEF Knows, Found, shared
  <2>4. Knows(t)'
    BY <2>1, <2>2, <2>3 DEF Knows, shared
  <2> QED
    BY <2>1, <2>4, LoadStep
<1>3. CASE PickOffset(t)
  <2>1. /\ pc[t] = "offset" /\ pc' = [pc EXCEPT ![t] = "entry"] /\ pc'[t] = "entry"
        /\ UNCHANGED <<shared, live, crashes, cnt, req, slot>> /\ ~ AtRest(t)
        /\ off'[t] = NextFreeOffset /\ Fits(NextFreeOffset, req[t].size)
    BY <1>0, <1>3 DEF PickOffset, Goto, AllocTypeOK, AtRest
  <2>2. /\ Found(req[t].name)' = {} /\ req[t].size \in Sizes
        /\ slot[t] \in Index /\ ent[slot[t]].state = "FREE"
    BY <1>0, <2>1 DEF Knows, Found, shared
  <2>3. /\ NextFreeOffset \in 0 .. U64 - 1 /\ NextFreeOffset % Align = 0
        /\ NextFreeOffset >= DataStart /\ NextFreeOffset < PoolEnd + Align
        /\ \A i \in Owned : ent[i].offset + ent[i].size <= NextFreeOffset
    BY <1>0, NextFreeFacts
  <2>4. NextFreeOffset + req[t].size <= PoolEnd
    <3>1. req[t].size \in 0 .. U64 - 1 /\ PoolEnd + Align + req[t].size <= U64
      BY <2>2 DEF SizesFit
    <3>2. NextFreeOffset + req[t].size < U64
      BY <2>3, <3>1
    <3> QED
      BY <2>1, <2>3, <3>1, <3>2, WrapFacts DEF Fits
  <2>5. Room(t)'
    BY <2>1, <2>3, <2>4 DEF Room, Owned, shared
  <2>6. Knows(t)'
    BY <2>1, <2>2, <2>5 DEF Knows, shared
  <2> QED
    BY <2>1, <2>6, LoadStep
<1>4. CASE LoadCount(t)
  <2>1. /\ pc[t] = "load_count" /\ pc' = [pc EXCEPT ![t] = "store_count"] /\ pc'[t] = "store_count"
        /\ UNCHANGED <<shared, live, crashes, req, slot, off>> /\ ~ AtRest(t)
        /\ cnt'[t] = region_count /\ \A u \in Threads \ {t} : cnt'[u] = cnt[u]
    BY <1>0, <1>4 DEF LoadCount, Goto, AllocTypeOK, AtRest
  <2>2. Knows(t)'
    BY <1>0, <2>1 DEF Knows, Written, shared
  <2> QED
    BY <2>1, <2>2, LoadStep
<1> QED
  BY <1>1, <1>2, <1>3, <1>4

\* Those of free_region and recover, and the calls that return without having stored
\* anything, preserve AllocInv.
LEMMA AllocOtherLoads ==
    ASSUME Serial, AllocInv, TypeInv', NEW t \in Threads,
           \/ \E name \in Names \cup LongNames : CreateRefused(t, name)
           \/ \E name \in Names : FreeNotFound(t, name) \/ CallFree(t, name)
           \/ CatalogFull(t) \/ OutOfSpace(t) \/ LoadFreeCount(t)
           \/ CallRecover(t) \/ RecoverSkip(t) \/ RecoverFound(t) \/ RecoverReturn(t)
    PROVE  AllocInv'
<1>0. Knows(t) /\ AllocTypeOK
  BY DEF AllocInv, TypeInv
<1>1. ASSUME Call(t), UNCHANGED <<shared, pc, locals, live>> PROVE AllocInv'
  <2>1. /\ pc[t] = "idle" /\ pc' = [pc EXCEPT ![t] = "idle"] /\ pc'[t] = "idle"
        /\ UNCHANGED <<crashes, cnt, slot>>
    BY <1>0, <1>1 DEF Call, AllocTypeOK, locals
  <2>2. Knows(t)'
    BY <2>1 DEF Knows
  <2> QED
    BY <1>1, <2>1, <2>2, LoadStep
<1>2. ASSUME NEW name \in Names, CallFree(t, name) PROVE AllocInv'
  <2>1. /\ pc[t] = "idle" /\ pc' = [pc EXCEPT ![t] = "freeing"] /\ pc'[t] = "freeing"
        /\ UNCHANGED <<shared, live, crashes, cnt>> /\ Call(t)
        /\ slot'[t] = First(Found(name)) /\ \A u \in Threads \ {t} : slot'[u] = slot[u]
    BY <1>0, <1>2 DEF CallFree, Call, Goto, AllocTypeOK
  <2>2. slot'[t] \in Index /\ ent[slot'[t]].state = "ACTIVE"
    BY <1>2, <2>1, FirstFound DEF CallFree, Found
  <2>3. Knows(t)'
    BY <2>1, <2>2 DEF Knows, shared
  <2> QED
    BY <2>1, <2>3, LoadStep
<1>3. ASSUME Leave(t, "idle"), UNCHANGED <<shared, crashes, live>>,
             pc[t] \in {"free_slot", "offset", "recover"}
      PROVE  AllocInv'
  <2>1. /\ pc' = [pc EXCEPT ![t] = "idle"] /\ pc'[t] = "idle" /\ ~ AtRest(t)
        /\ \A u \in Threads \ {t} : cnt'[u] = cnt[u] /\ slot'[u] = slot[u]
    BY <1>0, <1>3 DEF Leave, Goto, AllocTypeOK, AtRest
  <2>2. Knows(t)'
    BY <2>1 DEF Knows
  <2> QED
    BY <1>3, <2>1, <2>2, LoadStep
<1>4. CASE LoadFreeCount(t)
  <2>1. /\ pc[t] = "load_free_count" /\ pc' = [pc EXCEPT ![t] = "store_free_count"]
        /\ pc'[t] = "store_free_count"
        /\ UNCHANGED <<shared, live, crashes, slot>> /\ ~ AtRest(t)
        /\ cnt'[t] = region_count /\ \A u \in Threads \ {t} : cnt'[u] = cnt[u]
    BY <1>0, <1>4 DEF LoadFreeCount, Goto, AllocTypeOK, AtRest
  <2>2. Knows(t)'
    BY <2>1 DEF Knows
  <2> QED
    BY <2>1, <2>2, LoadStep
<1>5. CASE CallRecover(t)
  <2>1. /\ pc[t] = "idle" /\ pc' = [pc EXCEPT ![t] = "recover"] /\ pc'[t] = "recover"
        /\ UNCHANGED <<shared, live, crashes, cnt, slot>> /\ Call(t) /\ cursor'[t] = 0
    BY <1>0, <1>5 DEF CallRecover, Call, Goto, AllocTypeOK
  <2>2. \A i \in Index : ~ (i < cursor'[t])
    BY <2>1 DEF Index
  <2>3. Knows(t)'
    BY <2>1, <2>2 DEF Knows
  <2> QED
    BY <2>1, <2>3, LoadStep
<1>6. CASE RecoverSkip(t) \/ RecoverFound(t)
  <2>1. /\ pc[t] = "recover" /\ cursor[t] \in Index /\ cursor[t] \in Nat
        /\ UNCHANGED <<shared, live, crashes, cnt, slot>> /\ ~ AtRest(t)
    BY <1>0, <1>6 DEF RecoverSkip, RecoverFound, locals, AllocTypeOK, AtRest, Index
  <2>2. \/ /\ pc' = [pc EXCEPT ![t] = "recover"] /\ pc'[t] = "recover"
           /\ ent[cursor[t]].state \in {"FREE", "ACTIVE"} /\ cursor'[t] = cursor[t] + 1
        \/ /\ pc' = [pc EXCEPT ![t] = "fix"] /\ pc'[t] = "fix"
           /\ InTransition(cursor[t]) /\ cursor' = cursor
    BY <1>0, <1>6, <2>1 DEF RecoverSkip, RecoverFound, Goto, locals, AllocTypeOK, InTransition, Entry
  <2>3. \A i \in Index : i < cursor'[t] => ent[i].state \in {"FREE", "ACTIVE"}
    <3>1. \A i \in Index : i < cursor[t] + 1 => i < cursor[t] \/ i = cursor[t]
      BY <2>1 DEF Index
    <3> QED
      BY <1>0, <2>1, <2>2, <3>1 DEF Knows
  <2>4. Knows(t)'
    BY <2>1, <2>2, <2>3 DEF Knows, InTransition, shared
  <2> QED
    BY <2>1, <2>2, <2>4, LoadStep
<1> QED
  BY <1>1, <1>2, <1>3, <1>4, <1>5, <1>6
     DEF CreateRefused, FreeNotFound, CatalogFull, OutOfSpace, RecoverReturn

\* There are finitely many entries in use.
LEMMA UsedFinite == IsFiniteSet(Used) /\ Cardinality(Used) \in Nat
<1>1. IsFiniteSet(Index)
  BY FS_Interval DEF Index
<1>2. Used \in SUBSET Index
  BY DEF Used
<1> QED
  BY <1>1, <1>2, FS_Subset, FS_CardinalityType

\* The stores of create_region into its entry preserve AllocInv.
LEMMA AllocCreateStores ==
    ASSUME Serial, AllocInv, TypeInv', NEW t \in Threads,
           WriteEntry(t) \/ MarkAllocating(t) \/ MarkActive(t)
    PROVE  AllocInv'
<1>0. /\ Knows(t) /\ AllocTypeOK /\ CatalogInv /\ Counting /\ Alone
      /\ pc[t] \in {"entry", "allocating", "active"}
  BY DEF AllocInv, TypeInv, WriteEntry, MarkAllocating, MarkActive
<1>1. PICK x \in Index : x = slot[t]
  BY <1>0 DEF Knows
<1>2. /\ ~ AtRest(t) /\ UNCHANGED <<region_count, req, slot, off, cnt, cursor, crashes, live>>
      /\ Found(req[t].name) = {} /\ req[t].size \in Sizes
      /\ \A u \in Threads \ {t} : AtRest(u)
  BY <1>0, OthersRest DEF WriteEntry, MarkAllocating, MarkActive, locals, AtRest, Knows
<1>3. \A i \in Index : /\ ent[i] \in Entry /\ ent[i].offset \in Nat /\ ent[i].size \in Nat
  BY <1>0 DEF AllocTypeOK, Entry
<1>4. CASE WriteEntry(t)
  <2>1. /\ pc[t] = "entry" /\ pc' = [pc EXCEPT ![t] = "allocating"] /\ pc'[t] = "allocating"
        /\ ent[x].state = "FREE" /\ Room(t)
    BY <1>0, <1>1, <1>4 DEF WriteEntry, Goto, AllocTypeOK, Knows
  <2>2. /\ ent'[x].state = "FREE" /\ ent'[x].name = req[t].name
        /\ ent'[x].offset = off[t] /\ ent'[x].size = req[t].size
        /\ \A j \in Index \ {x} : ent'[j] = ent[j]
    BY <1>0, <1>1, <1>4, <2>1, WriteEntryFacts
  <2>3. CatalogInv'
    BY <1>0, <1>2, <2>1, <2>2, CatalogKept
  <2>4. Counting'
    BY <1>2, <2>1, <2>2, CountingKept
  <2>5. Found(req[t].name)' = {}
    BY <1>2, <2>1, <2>2 DEF Found
  <2>6. Room(t)'
    BY <1>2, <2>1, <2>2 DEF Room, Owned
  <2>7. Knows(t)'
    BY <1>1, <1>2, <2>1, <2>2, <2>5, <2>6 DEF Knows, Written
  <2> QED
    BY <1>2, <2>1, <2>3, <2>4, <2>7, AllocStep
<1>5. CASE MarkAllocating(t)
  <2>1. /\ pc[t] = "allocating" /\ pc' = [pc EXCEPT ![t] = "active"] /\ pc'[t] = "active"
        /\ ent[x].state = "FREE" /\ Room(t) /\ ent[x].name = req[t].name
        /\ ent[x].offset = off[t] /\ ent[x].size = req[t].size
    BY <1>0, <1>1, <1>5 DEF MarkAllocating, Goto, AllocTypeOK, Knows, Written
  <2>2. /\ ent'[x].state = "ALLOCATING" /\ ent'[x].name = ent[x].name
        /\ ent'[x].offset = ent[x].offset /\ ent'[x].size = ent[x].size
        /\ \A j \in Index \ {x} : ent'[j] = ent[j]
    BY <1>0, <1>1, <1>5, SetStateFacts DEF MarkAllocating, AllocTypeOK
  <2>3. Owned' = Owned \cup {x} /\ x \notin Owned
    BY <2>1, <2>2 DEF Owned
  <2>4. RegionsDisjoint'
    <3>1. \A i \in Owned : ent[i].offset + ent[i].size <= ent[x].offset
      BY <2>1 DEF Room
    <3> QED
      BY <1>0, <2>2, <2>3, <3>1 DEF CatalogInv, RegionsDisjoint, Disjoint, Owned
  <2>5. RegionsInside'
    BY <1>0, <2>1, <2>2, <2>3 DEF CatalogInv, RegionsInside, Room, Owned
  <2>6. NamesUnique'
    BY <1>0, <2>2 DEF CatalogInv, NamesUnique
  <2>7. HandlesGood'
    <3>1. ListRegions \subseteq ListRegions'
      BY <2>1, <2>2 DEF ListRegions
    <3> QED
      BY <1>0, <1>2, <3>1 DEF CatalogInv, HandlesGood
  <2>8. Used' = Used \cup {x} /\ x \notin Used
    BY <2>1, <2>2 DEF Used, FreeSlots
  <2>9. Cardinality(Used') = Cardinality(Used) + 1 /\ Cardinality(Used) \in Nat
    BY <2>8, UsedFinite, FS_AddElement
  <2>10. Counting'
    <3>1. \A u \in Threads \ {t} : pc'[u] = pc[u] /\ pc[u] \in {"idle", "down"}
      BY <1>0, <1>2, <2>1 DEF AllocTypeOK, AtRest
    <3>2. crashes = 0 => Cardinality(Used) = region_count
      BY <1>0, <2>1, <3>1 DEF Counting
    <3>3. crashes = 0 => \A i \in Index : InTransition(i)' => i = x
      BY <1>0, <2>1, <2>2, <3>1 DEF Counting, InTransition
    <3> QED
      BY <1>1, <1>2, <2>1, <2>9, <3>1, <3>2, <3>3 DEF Counting
  <2>11. Found(req[t].name)' = {}
    BY <1>2, <2>2 DEF Found
  <2>12. Knows(t)'
    BY <1>1, <1>2, <2>1, <2>2, <2>11 DEF Knows, Written
  <2> QED
    BY <1>2, <2>1, <2>4, <2>5, <2>6, <2>7, <2>10, <2>12, AllocStep DEF CatalogInv
<1>6. CASE MarkActive(t)
  <2>1. /\ pc[t] = "active" /\ pc' = [pc EXCEPT ![t] = "load_count"] /\ pc'[t] = "load_count"
        /\ ent[x].state = "ALLOCATING" /\ ent[x].name = req[t].name
        /\ ent[x].offset = off[t] /\ ent[x].size = req[t].size
    BY <1>0, <1>1, <1>6 DEF MarkActive, Goto, AllocTypeOK, Knows, Written
  <2>2. /\ ent'[x].state = "ACTIVE" /\ ent'[x].name = ent[x].name
        /\ ent'[x].offset = ent[x].offset /\ ent'[x].size = ent[x].size
        /\ \A j \in Index \ {x} : ent'[j] = ent[j]
    BY <1>0, <1>1, <1>6, SetStateFacts DEF MarkActive, AllocTypeOK
  <2>3. Owned' = Owned /\ \A i \in Index : ent'[i].offset = ent[i].offset /\ ent'[i].size = ent[i].size
    BY <2>1, <2>2 DEF Owned
  <2>4. RegionsDisjoint' /\ RegionsInside'
    BY <1>0, <2>3 DEF CatalogInv, RegionsDisjoint, RegionsInside, Disjoint, Owned
  <2>5. NamesUnique'
    <3>1. \A i \in Index : ent[i].state = "ACTIVE" => ent[i].name # ent[x].name
      BY <1>2, <2>1 DEF Found
    <3> QED
      BY <1>0, <2>2, <3>1 DEF CatalogInv, NamesUnique
  <2>6. HandlesGood'
    <3>1. ListRegions \subseteq ListRegions'
      BY <2>1, <2>2 DEF ListRegions
    <3> QED
      BY <1>0, <1>2, <3>1 DEF CatalogInv, HandlesGood
  <2>7. Used' = Used
    BY <2>1, <2>2 DEF Used, FreeSlots
  <2>8. Counting'
    <3>1. \A u \in Threads \ {t} : pc'[u] = pc[u] /\ pc[u] \in {"idle", "down"}
      BY <1>0, <1>2, <2>1 DEF AllocTypeOK, AtRest
    <3>2. crashes = 0 => \A i \in Index : ~ InTransition(i)'
      BY <1>0, <1>1, <2>1, <2>2, <3>1 DEF Counting, InTransition
    <3> QED
      BY <1>0, <1>2, <2>1, <2>7, <3>1, <3>2 DEF Counting
  <2>9. Knows(t)'
    BY <1>1, <1>2, <2>1, <2>2 DEF Knows, Written
  <2> QED
    BY <1>2, <2>1, <2>4, <2>5, <2>6, <2>8, <2>9, AllocStep DEF CatalogInv
<1> QED
  BY <1>4, <1>5, <1>6

\* The stores of free_region and recover into an entry preserve AllocInv.
LEMMA AllocFreeStores ==
    ASSUME Serial, AllocInv, TypeInv', NEW t \in Threads,
           MarkFreeing(t) \/ MarkFree(t) \/ RecoverFix(t)
    PROVE  AllocInv'
<1>0. /\ Knows(t) /\ AllocTypeOK /\ CatalogInv /\ Counting /\ Alone
      /\ pc[t] \in {"freeing", "free", "fix"} /\ ~ AtRest(t)
  BY DEF AllocInv, TypeInv, MarkFreeing, MarkFree, RecoverFix, AtRest
<1>1. \A u \in Threads \ {t} : AtRest(u)
  BY <1>0, OthersRest
<1>2. CASE MarkFreeing(t)
  <2>0. PICK x \in Index : x = slot[t] /\ ent[x].state = "ACTIVE"
    BY <1>2, <1>0 DEF Knows, MarkFreeing
  <2>1. /\ pc[t] = "freeing" /\ pc' = [pc EXCEPT ![t] = "free"] /\ pc'[t] = "free"
        /\ UNCHANGED <<region_count, req, slot, off, cnt, cursor, crashes>>
        /\ live' = {h \in live : h.slot # x}
    BY <1>0, <1>2, <2>0 DEF MarkFreeing, Goto, AllocTypeOK, locals
  <2>2. ent'[x].state = "FREEING" /\ \A j \in Index \ {x} : ent'[j] = ent[j]
    BY <1>0, <1>2, <2>0, SetStateFacts DEF MarkFreeing, AllocTypeOK
  <2>3. CatalogInv'
    BY <1>0, <2>1, <2>2, CatalogKept
  <2>4. Used' = Used
    BY <2>0, <2>2 DEF Used, FreeSlots
  <2>5. Counting'
    <3>1. \A u \in Threads \ {t} : pc'[u] = pc[u] /\ pc[u] \in {"idle", "down"}
      BY <1>0, <1>1, <2>1 DEF AllocTypeOK, AtRest
    <3>2. crashes = 0 => Cardinality(Used) = region_count
      BY <1>0, <2>1, <3>1 DEF Counting
    <3>3. crashes = 0 => \A i \in Index : InTransition(i)' => i = x
      BY <1>0, <2>1, <2>2, <3>1 DEF Counting, InTransition
    <3> QED
      BY <2>0, <2>1, <2>4, <3>1, <3>2, <3>3 DEF Counting
  <2>6. Knows(t)'
    BY <2>0, <2>1, <2>2 DEF Knows
  <2> QED
    BY <1>0, <2>1, <2>3, <2>5, <2>6, AllocStep
<1>3. CASE MarkFree(t)
  <2>0. PICK x \in Index : x = slot[t] /\ ent[x].state = "FREEING"
    BY <1>3, <1>0 DEF Knows, MarkFree
  <2>1. /\ pc[t] = "free" /\ pc' = [pc EXCEPT ![t] = "load_free_count"] /\ pc'[t] = "load_free_count"
        /\ UNCHANGED <<region_count, req, slot, off, cnt, cursor, crashes, live>>
    BY <1>0, <1>3 DEF MarkFree, Goto, AllocTypeOK, locals
  <2>2. ent'[x].state = "FREE" /\ \A j \in Index \ {x} : ent'[j] = ent[j]
    BY <1>0, <1>3, <2>0, SetStateFacts DEF MarkFree, AllocTypeOK
  <2>3. CatalogInv'
    BY <1>0, <2>0, <2>1, <2>2, CatalogKept
  <2>4. Used' = Used \ {x} /\ x \in Used
    BY <2>0, <2>2 DEF Used, FreeSlots
  <2>5. Cardinality(Used') = Cardinality(Used) - 1 /\ Cardinality(Used) \in Nat
    BY <2>4, UsedFinite, FS_RemoveElement
  <2>6. Counting'
    <3>1. \A u \in Threads \ {t} : pc'[u] = pc[u] /\ pc[u] \in {"idle", "down"}
      BY <1>0, <1>1, <2>1 DEF AllocTypeOK, AtRest
    <3>2. crashes = 0 => Cardinality(Used) = region_count
      BY <1>0, <2>1, <3>1 DEF Counting
    <3>3. crashes = 0 => \A i \in Index : ~ InTransition(i)'
      BY <1>0, <2>0, <2>1, <2>2, <3>1 DEF Counting, InTransition
    <3>4. crashes = 0 => Cardinality(Used') + 1 = region_count
      BY <2>5, <3>2
    <3> QED
      BY <2>1, <3>1, <3>3, <3>4 DEF Counting
  <2>7. Knows(t)'
    BY <2>1 DEF Knows
  <2> QED
    BY <1>0, <2>1, <2>3, <2>6, <2>7, AllocStep
<1>4. CASE RecoverFix(t)
  <2>0. PICK x \in Index : x = cursor[t] /\ InTransition(x)
    BY <1>4, <1>0 DEF Knows, RecoverFix
  <2>1. /\ pc[t] = "fix" /\ pc' = [pc EXCEPT ![t] = "recover"] /\ pc'[t] = "recover"
        /\ UNCHANGED <<region_count, crashes, live>> /\ cursor'[t] = x + 1
    BY <1>0, <1>4, <2>0 DEF RecoverFix, Goto, AllocTypeOK
  <2>2. ent'[x].state = "FREE" /\ \A j \in Index \ {x} : ent'[j] = ent[j]
    BY <1>0, <1>4, <2>0, SetStateFacts DEF RecoverFix, AllocTypeOK
  <2>3. CatalogInv'
    BY <1>0, <2>0, <2>1, <2>2, CatalogKept DEF InTransition
  <2>4. crashes # 0
    BY <1>0, <1>1, <2>0, <2>1 DEF Counting, AtRest
  <2>5. Counting'
    BY <2>1, <2>4 DEF Counting
  <2>6. \A i \in Index : i < x + 1 => i < x \/ i = x
    BY DEF Index
  <2>7. \A i \in Index : i < cursor'[t] => ent'[i].state \in {"FREE", "ACTIVE"}
    BY <1>0, <2>0, <2>1, <2>2, <2>6 DEF Knows
  <2>8. Knows(t)'
    BY <2>1, <2>7 DEF Knows
  <2> QED
    BY <1>0, <2>1, <2>3, <2>5, <2>8, AllocStep
<1> QED
  BY <1>2, <1>3, <1>4

\* The stores of the count preserve AllocInv.
LEMMA AllocCounts ==
    ASSUME Serial, AllocInv, TypeInv', NEW t \in Threads, StoreCount(t) \/ StoreFreeCount(t)
    PROVE  AllocInv'
<1>0. /\ Knows(t) /\ AllocTypeOK /\ CatalogInv /\ Counting /\ Alone
      /\ pc[t] \in {"store_count", "store_free_count"} /\ ~ AtRest(t)
  BY DEF AllocInv, TypeInv, StoreCount, StoreFreeCount, AtRest
<1>1. /\ pc' = [pc EXCEPT ![t] = "idle"] /\ pc'[t] = "idle" /\ UNCHANGED <<ent, crashes>>
  BY <1>0 DEF StoreCount, StoreFreeCount, Leave, Goto, AllocTypeOK
<1>2. \A u \in Threads \ {t} : pc'[u] = pc[u] /\ pc[u] \in {"idle", "down"}
  BY <1>0, <1>1, OthersRest DEF AllocTypeOK, AtRest
<1>3. Knows(t)'
  BY <1>1 DEF Knows
<1>4. Used' = Used /\ \A i \in Index : InTransition(i)' <=> InTransition(i)
  BY <1>1 DEF Used, FreeSlots, InTransition
<1>5. crashes = 0 => \A i \in Index : ~ InTransition(i)
  BY <1>0, <1>2 DEF Counting
<1>6. CASE StoreCount(t)
  <2>1. pc[t] = "store_count" /\ region_count' = cnt[t] + 1
    BY <1>6 DEF StoreCount
  <2>2. crashes = 0 => Cardinality(Used) = region_count'
    BY <1>0, <2>1 DEF Counting
  <2>3. Counting'
    BY <1>1, <1>2, <1>4, <1>5, <2>2 DEF Counting
  <2>4. HandlesGood'
    <3> DEFINE h == [slot |-> slot[t], name |-> req[t].name, offset |-> off[t], size |-> req[t].size]
    <3>1. /\ slot[t] \in Index /\ ent[slot[t]].state = "ACTIVE"
          /\ h = [slot |-> slot[t], name |-> ent[slot[t]].name,
                  offset |-> ent[slot[t]].offset, size |-> ent[slot[t]].size]
      BY <1>0, <2>1 DEF Knows, Written
    <3>2. h \in ListRegions
      BY <3>1 DEF ListRegions
    <3>3. live' = live \cup {h}
      BY <1>6 DEF StoreCount
    <3>4. ListRegions' = ListRegions
      BY <1>1 DEF ListRegions
    <3> QED
      BY <1>0, <3>2, <3>3, <3>4 DEF CatalogInv, HandlesGood
  <2>5. CatalogInv'
    BY <1>0, <1>1, <2>4 DEF CatalogInv, RegionsDisjoint, RegionsInside, NamesUnique, Owned, Disjoint
  <2> QED
    BY <1>0, <1>1, <1>3, <2>3, <2>5, AllocStep
<1>7. CASE StoreFreeCount(t)
  <2>1. /\ pc[t] = "store_free_count" /\ live' = live
        /\ region_count' = IF cnt[t] > 0 THEN cnt[t] - 1 ELSE region_count
    BY <1>7 DEF StoreFreeCount
  <2>2. Cardinality(Used) \in Nat
    BY UsedFinite
  <2>3. crashes = 0 => Cardinality(Used) = region_count'
    BY <1>0, <2>1, <2>2 DEF Counting
  <2>4. Counting'
    BY <1>1, <1>2, <1>4, <1>5, <2>3 DEF Counting
  <2>5. CatalogInv'
    BY <1>0, <1>1, <2>1, CatalogKept
  <2> QED
    BY <1>0, <1>1, <1>3, <2>4, <2>5, AllocStep
<1> QED
  BY <1>6, <1>7 DEF StoreCount, StoreFreeCount

\* A caller that crashes, between any two steps, or starts again, while another one may be
\* at work, preserves AllocInv.
LEMMA AllocCrashes ==
    ASSUME AllocInv, TypeInv', NEW t \in Threads, Crash(t) \/ Reopen(t)
    PROVE  AllocInv'
<1>0. AllocTypeOK /\ CatalogInv /\ Alone
  BY DEF AllocInv, TypeInv
<1>1. PICK l \in {"idle", "down"} : pc' = [pc EXCEPT ![t] = l]
  BY DEF Crash, Reopen, Leave, Goto
<1>2. pc'[t] = l /\ \A u \in Threads \ {t} : pc'[u] = pc[u]
  BY <1>0, <1>1 DEF AllocTypeOK
<1>3. /\ UNCHANGED <<shared, live>>
      /\ \A u \in Threads \ {t} : /\ req'[u] = req[u] /\ slot'[u] = slot[u] /\ off'[u] = off[u]
                                  /\ cnt'[u] = cnt[u] /\ cursor'[u] = cursor[u]
  BY <1>0 DEF Crash, Reopen, Leave, AllocTypeOK, locals
<1>4. Alone'
  BY <1>0, <1>2 DEF Alone, AtRest
<1>5. CatalogInv'
  BY <1>0, <1>3, CatalogKept DEF shared
<1>6. \A u \in Threads : Knows(u)'
  <2> SUFFICES ASSUME NEW u \in Threads PROVE Knows(u)'
    OBVIOUS
  <2>1. CASE u = t
    BY <1>2, <2>1 DEF Knows
  <2>2. CASE u # t
    <3>1. /\ pc'[u] = pc[u] /\ req'[u] = req[u] /\ slot'[u] = slot[u] /\ off'[u] = off[u]
          /\ cursor'[u] = cursor[u] /\ ent' = ent
      BY <1>2, <1>3, <2>2 DEF shared
    <3>2. Knows(u)
      BY DEF AllocInv
    <3>3. (Room(u)' <=> Room(u)) /\ (Written(u)' <=> Written(u)) /\ Found(req[u].name)' = Found(req[u].name)
      BY <3>1 DEF Room, Written, Found, Owned
    <3> QED
      BY <3>1, <3>2, <3>3 DEF Knows, InTransition
  <2> QED
    BY <2>1, <2>2
<1>7. Counting'
  <2>1. CASE Crash(t)
    <3>1. crashes' # 0
      BY <1>0, <2>1 DEF Crash, AllocTypeOK
    <3> QED
      BY <3>1 DEF Counting
  <2>2. CASE Reopen(t)
    <3>1. pc[t] = "down" /\ UNCHANGED <<shared, locals, crashes>>
      BY <2>2 DEF Reopen
    <3> QED
      BY <1>1, <3>1, CountingKept DEF shared, locals
  <2> QED
    BY <2>1, <2>2
<1> QED
  BY <1>4, <1>5, <1>6, <1>7 DEF AllocInv

\* A new catalog has no region and a count of zero.
LEMMA AllocInit == Init => AllocInv
<1> SUFFICES ASSUME Init PROVE AllocInv
  OBVIOUS
<1>1. /\ \A i \in Index : ent[i].state = "FREE"
      /\ \A t \in Threads : pc[t] = "idle"
      /\ region_count = 0 /\ live = {}
  BY DEF Init
<1>2. Alone /\ \A t \in Threads : Knows(t)
  BY <1>1 DEF Alone, AtRest, Knows
<1>3. CatalogInv
  BY <1>1 DEF CatalogInv, RegionsDisjoint, RegionsInside, NamesUnique, HandlesGood, Owned
<1>4. Used = {}
  BY <1>1 DEF Used, FreeSlots
<1>5. Cardinality(Used) = 0
  BY <1>4, FS_EmptySet
<1>6. Counting
  BY <1>1, <1>5 DEF Counting, InTransition
<1> QED
  BY <1>2, <1>3, <1>6, TypeInit DEF AllocInv

\* AllocInv is inductive.
LEMMA AllocNext ==
    ASSUME Serial, SizesFit
    PROVE  AllocInv /\ [Next]_vars => AllocInv'
<1> SUFFICES ASSUME AllocInv, [Next]_vars PROVE AllocInv'
  OBVIOUS
<1>1. TypeInv'
  BY TypeNext DEF AllocInv
<1>2. CASE UNCHANGED vars
  <2>1. Used' = Used
    BY <1>2 DEF vars, shared, Used, FreeSlots
  <2>2. Counting'
    BY <1>2, <2>1 DEF vars, shared, locals, AllocInv, Counting, InTransition
  <2>3. CatalogInv'
    BY <1>2, CatalogKept DEF vars, shared, AllocInv
  <2>4. Alone' /\ \A t \in Threads : Knows(t)'
    BY <1>2 DEF vars, shared, locals, AllocInv, Alone, AtRest, Knows, Room, Written, Found, Owned,
                InTransition
  <2> QED
    BY <1>1, <2>2, <2>3, <2>4 DEF AllocInv
<1>3. ASSUME NEW t \in Threads, Create(t) PROVE AllocInv'
  BY <1>1, <1>3, AllocCreateLoads, AllocOtherLoads, AllocCreateStores, AllocCounts DEF Create
<1>4. ASSUME NEW t \in Threads, Free(t) \/ Recover(t) PROVE AllocInv'
  BY <1>1, <1>4, AllocOtherLoads, AllocFreeStores, AllocCounts DEF Free, Recover
<1>5. ASSUME NEW t \in Threads, Crash(t) \/ Reopen(t) PROVE AllocInv'
  BY <1>1, <1>5, AllocCrashes
<1> QED
  BY <1>2, <1>3, <1>4, <1>5 DEF Next, Rest

\* AllocInv holds in every reachable state.
LEMMA AllocInvariant ==
    ASSUME Serial, SizesFit
    PROVE  Spec => []AllocInv
  BY AllocInit, AllocNext, PTL DEF Spec

-----------------------------------------------------------------------------
(* What follows from AllocInv. *)

\* create_region places a new region behind all those in use or being allocated, so that
\* no two share a byte, wherever earlier callers crashed and whatever was freed since.
THEOREM RegionsNeverOverlap ==
    ASSUME Serial, SizesFit
    PROVE  Spec => []RegionsDisjoint
<1>1. AllocInv => RegionsDisjoint
  BY DEF AllocInv, CatalogInv
<1> QED
  BY <1>1, AllocInvariant, PTL

\* Every region in use or being allocated lies between the catalog and the end of the pool
\* and is aligned.
THEOREM RegionsStayInside ==
    ASSUME Serial, SizesFit
    PROVE  Spec => []RegionsInside
<1>1. AllocInv => RegionsInside
  BY DEF AllocInv, CatalogInv
<1> QED
  BY <1>1, AllocInvariant, PTL

\* find_region is never ambiguous: no two ACTIVE entries have one name.
THEOREM NamesAreUnique ==
    ASSUME Serial, SizesFit
    PROVE  Spec => []NamesUnique
<1>1. AllocInv => NamesUnique
  BY DEF AllocInv, CatalogInv
<1> QED
  BY <1>1, AllocInvariant, PTL

\* A handle create_region returned describes an ACTIVE entry, field by field, until
\* free_region starts on the region; no crash or recover takes it away.
THEOREM HandlesStayGood ==
    ASSUME Serial, SizesFit
    PROVE  Spec => []HandlesGood
<1>1. AllocInv => HandlesGood
  BY DEF AllocInv, CatalogInv
<1> QED
  BY <1>1, AllocInvariant, PTL

\* RegionHandle::contains accepts no access for two regions in use, as long as the end of
\* the access fits in a u64.
THEOREM ContainsSeparatesRegions ==
    ASSUME Serial, SizesFit
    PROVE  Spec => []HandlesApart
<1>1. ASSUME AllocInv PROVE HandlesApart
  <2> SUFFICES ASSUME NEW h \in ListRegions, NEW k \in ListRegions, h # k,
                      NEW byte \in 0 .. PoolEnd, NEW len \in 1 .. PoolEnd, byte + len < U64,
                      Contains(h, byte, len), Contains(k, byte, len)
               PROVE  FALSE
    BY DEF HandlesApart
  <2>1. PICK i \in Index :
           /\ ent[i].state = "ACTIVE"
           /\ h = [slot |-> i, name |-> ent[i].name, offset |-> ent[i].offset, size |-> ent[i].size]
    BY DEF ListRegions
  <2>2. PICK j \in Index :
           /\ ent[j].state = "ACTIVE"
           /\ k = [slot |-> j, name |-> ent[j].name, offset |-> ent[j].offset, size |-> ent[j].size]
    BY DEF ListRegions
  <2>3. i \in Owned /\ j \in Owned /\ i # j
    BY <2>1, <2>2 DEF Owned
  <2>4. /\ ent[i].offset \in 0 .. U64 - 1 /\ ent[i].size \in 0 .. U64 - 1
        /\ ent[j].offset \in 0 .. U64 - 1 /\ ent[j].size \in 0 .. U64 - 1
    BY <1>1 DEF AllocInv, TypeInv, AllocTypeOK, Entry
  <2>5. Disjoint(ent[i], ent[j])
    BY <1>1, <2>3 DEF AllocInv, CatalogInv, RegionsDisjoint
  <2>6. ent[i].offset + ent[i].size <= PoolEnd /\ ent[j].offset + ent[j].size <= PoolEnd
    BY <1>1, <2>3 DEF AllocInv, CatalogInv, RegionsInside
  <2>7. WrappingAdd(ent[i].offset, ent[i].size) = ent[i].offset + ent[i].size
    BY <2>4, <2>6 DEF WrappingAdd
  <2>8. WrappingAdd(ent[j].offset, ent[j].size) = ent[j].offset + ent[j].size
    BY <2>4, <2>6 DEF WrappingAdd
  <2>9. WrappingAdd(byte, len) = byte + len
    BY DEF WrappingAdd
  <2>10. /\ byte >= ent[i].offset /\ byte + len <= ent[i].offset + ent[i].size
         /\ byte >= ent[j].offset /\ byte + len <= ent[j].offset + ent[j].size
    BY <2>1, <2>2, <2>7, <2>8, <2>9 DEF Contains
  <2> QED
    BY <2>4, <2>5, <2>10 DEF Disjoint
<1> QED
  BY <1>1, AllocInvariant, PTL

\* A recover that runs to its end leaves no entry ALLOCATING or FREEING, however many
\* callers crashed before it, and whoever crashes or starts again while it runs.
THEOREM RecoveryCompletes ==
    ASSUME Serial, SizesFit
    PROVE  Spec => []RecoverCompletes
<1>1. ASSUME AllocInv PROVE RecoverCompletes
  <2> SUFFICES ASSUME NEW t \in Threads, pc[t] = "recover", cursor[t] = MaxRegions, NEW i \in Index
               PROVE  ent[i].state \in {"FREE", "ACTIVE"}
    BY DEF RecoverCompletes
  <2>1. i < MaxRegions
    BY DEF Index
  <2> QED
    BY <1>1, <2>1 DEF AllocInv, Knows
<1> QED
  BY <1>1, AllocInvariant, PTL

\* Without crashes region_count is, between operations, the number of entries in use.
THEOREM CountIsExact ==
    ASSUME Serial, SizesFit
    PROVE  Spec => []CountExact
<1>1. ASSUME AllocInv PROVE CountExact
  BY <1>1 DEF AllocInv, Counting, CountExact, AtRest, Used
<1> QED
  BY <1>1, AllocInvariant, PTL

-----------------------------------------------------------------------------
(* The allocator implements RegionMap. *)

\* A creation in progress has a proper name.
Creating == {"free_slot", "offset", "entry", "allocating", "active", "load_count", "store_count"}
Named == \A t \in Threads : pc[t] \in Creating => req[t].name \in Names

\* Named holds in every reachable state.
LEMMA NamedInvariant == Spec => []Named
<1>1. Init => Named
  BY DEF Init, Named, Creating
<1>2. ASSUME TypeInv, Named, [Next]_vars PROVE Named'
  <2> USE DEF Named, Creating
  <2>0. pc \in [Threads -> PCs] /\ AllocTypeOK
    BY <1>2 DEF TypeInv, AllocTypeOK
  <2>1. ASSUME NEW t \in Threads, UNCHANGED req, NEW l \in PCs, Goto(t, l),
               l \in Creating => pc[t] \in Creating
        PROVE  Named'
    BY <1>2, <2>0, <2>1 DEF Goto
  <2>2. ASSUME NEW t \in Threads, NEW l \in {"idle", "down"}, Leave(t, l) PROVE Named'
    BY <1>2, <2>0, <2>2 DEF Leave, Goto, AllocTypeOK
  <2>3. ASSUME UNCHANGED <<pc, req>> PROVE Named'
    BY <1>2, <2>3
  <2>4. ASSUME NEW t \in Threads, NEW name \in Names, NEW size \in Sizes, CallCreate(t, name, size)
        PROVE  Named'
    BY <1>2, <2>0, <2>4 DEF CallCreate, Goto, AllocTypeOK
  <2>5. ASSUME NEW t \in Threads, Create(t) PROVE Named'
    <3>1. CASE FindFreeSlot(t) \/ PickOffset(t) \/ WriteEntry(t) \/ MarkAllocating(t) \/ MarkActive(t)
               \/ LoadCount(t)
      BY <2>1, <3>1 DEF FindFreeSlot, PickOffset, WriteEntry, MarkAllocating, MarkActive, LoadCount,
                        locals, PCs
    <3>2. CASE CatalogFull(t) \/ OutOfSpace(t) \/ StoreCount(t)
      BY <2>2, <3>2 DEF CatalogFull, OutOfSpace, StoreCount
    <3>3. CASE \E name \in Names \cup LongNames : CreateRefused(t, name)
      BY <2>3, <3>3 DEF CreateRefused, locals
    <3> QED
      BY <2>4, <2>5, <3>1, <3>2, <3>3 DEF Create
  <2>6. ASSUME NEW t \in Threads, Free(t) \/ Recover(t) PROVE Named'
    <3>1. CASE MarkFreeing(t) \/ MarkFree(t) \/ LoadFreeCount(t) \/ CallRecover(t)
               \/ RecoverFound(t) \/ RecoverFix(t) \/ \E name \in Names : CallFree(t, name)
      BY <2>1, <3>1 DEF MarkFreeing, MarkFree, LoadFreeCount, CallRecover, RecoverFound, RecoverFix,
                        CallFree, locals, PCs
    <3>2. CASE StoreFreeCount(t) \/ RecoverReturn(t)
      BY <2>2, <3>2 DEF StoreFreeCount, RecoverReturn
    <3>3. CASE RecoverSkip(t) \/ \E name \in Names : FreeNotFound(t, name)
      BY <2>3, <3>3 DEF RecoverSkip, FreeNotFound, locals
    <3> QED
      BY <2>6, <3>1, <3>2, <3>3 DEF Free, Recover
  <2>7. ASSUME NEW t \in Threads, Crash(t) \/ Reopen(t) PROVE Named'
    BY <2>1, <2>2, <2>7 DEF Crash, Reopen, locals, PCs
  <2> QED
    BY <1>2, <2>3, <2>5, <2>6, <2>7 DEF Next, Rest, vars, locals
<1>3. Init => TypeInv
  BY TypeInit
<1>4. TypeInv /\ [Next]_vars => TypeInv'
  BY TypeNext
<1> QED
  BY <1>1, <1>2, <1>3, <1>4, PTL DEF Spec

\* A step that leaves every entry as it is, or changes one that owned nothing and still
\* owns nothing, changes nothing in the map.
LEMMA MapKept ==
    ASSUME NEW x \in Index, \A j \in Index \ {x} : ent'[j] = ent[j],
           ent'[x] = ent[x] \/ {ent[x].state, ent'[x].state} \cap {"ACTIVE", "ALLOCATING"} = {}
    PROVE  UNCHANGED Map!mapVars
<1>1. \A i \in Index : ent[i].state \in {"ACTIVE", "ALLOCATING"} \/ ent'[i].state \in {"ACTIVE", "ALLOCATING"}
         => ent'[i] = ent[i]
  OBVIOUS
<1>2. \A i \in Index : ent'[i] = ent[i] => RegionOf(i)' = RegionOf(i) /\ TicketOf(i)' = TicketOf(i)
  BY DEF RegionOf, TicketOf
<1>3. Regions' = Regions
  BY <1>1, <1>2 DEF Regions
<1>4. Promised' = Promised
  BY <1>1, <1>2 DEF Promised
<1> QED
  BY <1>3, <1>4 DEF Map!mapVars

\* Marking an entry ALLOCATING sets its range aside.
LEMMA AllocatingPromises ==
    ASSUME AllocInv, Named, NEW t \in Threads, MarkAllocating(t)
    PROVE  Map!MapNext
<1>0. /\ Knows(t) /\ AllocTypeOK /\ CatalogInv /\ pc[t] = "allocating"
  BY DEF AllocInv, TypeInv, MarkAllocating
<1>1. PICK x \in Index : x = slot[t]
  BY <1>0 DEF Knows
<1>2. /\ ent[x].state = "FREE" /\ Room(t) /\ ent[x].name = req[t].name /\ req[t].name \in Names
      /\ ent[x].offset = off[t] /\ ent[x].size = req[t].size
  BY <1>0, <1>1 DEF Knows, Written, Named, Creating
<1>3. /\ ent'[x].state = "ALLOCATING" /\ ent'[x].name = ent[x].name
      /\ ent'[x].offset = ent[x].offset /\ ent'[x].size = ent[x].size
      /\ \A j \in Index \ {x} : ent'[j] = ent[j]
  BY <1>0, <1>1, SetStateFacts DEF MarkAllocating, AllocTypeOK
<1>4. \A i \in Index : /\ ent[i].offset \in Nat /\ ent[i].size \in Nat
                       /\ RegionOf(i).offset = ent[i].offset /\ RegionOf(i).size = ent[i].size
                       /\ TicketOf(i).offset = ent[i].offset /\ TicketOf(i).size = ent[i].size
                       /\ TicketOf(i).ticket = i
  BY <1>0 DEF AllocTypeOK, Entry, RegionOf, TicketOf
<1>5. \A i \in Index : i # x => RegionOf(i)' = RegionOf(i) /\ TicketOf(i)' = TicketOf(i)
  BY <1>3 DEF RegionOf, TicketOf
<1>6. TicketOf(x)' = TicketOf(x)
  BY <1>3 DEF TicketOf
<1>7. Regions' = Regions
  BY <1>2, <1>3, <1>5 DEF Regions
<1>8. Promised' = Promised \cup {TicketOf(x)}
  BY <1>2, <1>3, <1>5, <1>6 DEF Promised
<1>9. \A p \in Promised : p.ticket # x
  BY <1>2, <1>4 DEF Promised
<1>10. \A r \in Regions \cup Promised : r.offset + r.size <= TicketOf(x).offset
  <2>1. \A i \in Owned : ent[i].offset + ent[i].size <= ent[x].offset
    BY <1>2 DEF Room
  <2> QED
    BY <1>4, <2>1 DEF Regions, Promised, Owned
<1>11. /\ ent[x].offset \in Map!Places /\ ent[x].size \in 0 .. PoolEnd - ent[x].offset
  BY <1>2, <1>4 DEF Room, Map!Places
<1>12. Map!Promise(x, ent[x].name, ent[x].offset, ent[x].size)
  BY <1>7, <1>8, <1>9, <1>10 DEF Map!Promise, Map!NoOverlap, TicketOf
<1> QED
  BY <1>2, <1>11, <1>12 DEF Map!MapNext

\* Marking it ACTIVE publishes the region.
LEMMA ActivePublishes ==
    ASSUME AllocInv, NEW t \in Threads, MarkActive(t)
    PROVE  Map!MapNext
<1>0. /\ Knows(t) /\ AllocTypeOK /\ pc[t] = "active"
  BY DEF AllocInv, TypeInv, MarkActive
<1>1. PICK x \in Index : x = slot[t]
  BY <1>0 DEF Knows
<1>2. ent[x].state = "ALLOCATING" /\ Found(ent[x].name) = {}
  BY <1>0, <1>1 DEF Knows, Written
<1>3. /\ ent'[x].state = "ACTIVE" /\ ent'[x].name = ent[x].name
      /\ ent'[x].offset = ent[x].offset /\ ent'[x].size = ent[x].size
      /\ \A j \in Index \ {x} : ent'[j] = ent[j]
  BY <1>0, <1>1, SetStateFacts DEF MarkActive, AllocTypeOK
<1>4. \A i \in Index : i # x => RegionOf(i)' = RegionOf(i) /\ TicketOf(i)' = TicketOf(i)
  BY <1>3 DEF RegionOf, TicketOf
<1>5. RegionOf(x)' = RegionOf(x)
  BY <1>3 DEF RegionOf
<1>6. \A i \in Index : TicketOf(i).ticket = i /\ RegionOf(i).name = ent[i].name
  BY DEF TicketOf, RegionOf
<1>7. Regions' = Regions \cup {RegionOf(x)}
  BY <1>2, <1>3, <1>4, <1>5 DEF Regions
<1>8. Promised' = Promised \ {TicketOf(x)}
  BY <1>2, <1>3, <1>4, <1>6 DEF Promised
<1>9. \A r \in Regions : r.name # ent[x].name
  BY <1>2, <1>6 DEF Regions, Found
<1>10. TicketOf(x) \in Promised
  BY <1>2 DEF Promised
<1>11. Map!Publish(TicketOf(x))
  BY <1>7, <1>8, <1>9 DEF Map!Publish, TicketOf, RegionOf
<1> QED
  BY <1>10, <1>11 DEF Map!MapNext

\* Marking an entry FREEING removes its region.
LEMMA FreeingRemoves ==
    ASSUME AllocInv, NEW t \in Threads, MarkFreeing(t)
    PROVE  Map!MapNext
<1>0. /\ Knows(t) /\ AllocTypeOK /\ NamesUnique /\ pc[t] = "freeing"
  BY DEF AllocInv, TypeInv, CatalogInv, MarkFreeing
<1>1. PICK x \in Index : x = slot[t]
  BY <1>0 DEF Knows
<1>2. ent[x].state = "ACTIVE"
  BY <1>0, <1>1 DEF Knows
<1>3. ent'[x].state = "FREEING" /\ \A j \in Index \ {x} : ent'[j] = ent[j]
  BY <1>0, <1>1, SetStateFacts DEF MarkFreeing, AllocTypeOK
<1>4. \A i \in Index : i # x => RegionOf(i)' = RegionOf(i) /\ TicketOf(i)' = TicketOf(i)
  BY <1>3 DEF RegionOf, TicketOf
<1>5. \A i \in Index : ent[i].state = "ACTIVE" /\ RegionOf(i) = RegionOf(x) => i = x
  <2>1. \A i \in Index : RegionOf(i).name = ent[i].name
    BY DEF RegionOf
  <2> QED
    BY <1>0, <1>2, <2>1 DEF NamesUnique
<1>6. Regions' = Regions \ {RegionOf(x)}
  BY <1>2, <1>3, <1>4, <1>5 DEF Regions
<1>7. Promised' = Promised
  BY <1>2, <1>3, <1>4 DEF Promised
<1>8. RegionOf(x) \in Regions
  BY <1>2 DEF Regions
<1> QED
  BY <1>6, <1>7, <1>8 DEF Map!MapNext, Map!Remove

\* recover withdraws what a dead creator had set aside, and otherwise changes nothing.
LEMMA RecoverWithdraws ==
    ASSUME AllocInv, NEW t \in Threads, RecoverFix(t)
    PROVE  Map!MapNext \/ UNCHANGED Map!mapVars
<1>0. /\ Knows(t) /\ AllocTypeOK /\ pc[t] = "fix"
  BY DEF AllocInv, TypeInv, RecoverFix
<1>1. PICK x \in Index : x = cursor[t]
  BY <1>0 DEF Knows
<1>2. ent[x].state \in {"ALLOCATING", "FREEING"}
  BY <1>0, <1>1 DEF Knows, InTransition
<1>3. ent'[x].state = "FREE" /\ \A j \in Index \ {x} : ent'[j] = ent[j]
  BY <1>0, <1>1, SetStateFacts DEF RecoverFix, AllocTypeOK
<1>4. CASE ent[x].state = "FREEING"
  BY <1>3, <1>4, MapKept
<1>5. CASE ent[x].state = "ALLOCATING"
  <2>1. \A i \in Index : i # x => RegionOf(i)' = RegionOf(i) /\ TicketOf(i)' = TicketOf(i)
    BY <1>3 DEF RegionOf, TicketOf
  <2>2. \A i \in Index : TicketOf(i).ticket = i
    BY DEF TicketOf
  <2>3. Regions' = Regions
    BY <1>3, <1>5, <2>1 DEF Regions
  <2>4. Promised' = Promised \ {TicketOf(x)}
    BY <1>3, <1>5, <2>1, <2>2 DEF Promised
  <2>5. TicketOf(x) \in Promised
    BY <1>5 DEF Promised
  <2> QED
    BY <2>3, <2>4, <2>5 DEF Map!MapNext, Map!Withdraw
<1> QED
  BY <1>2, <1>4, <1>5

\* Every step is a step of the map, or none.
LEMMA MapStep ==
    ASSUME AllocInv, Named, [Next]_vars
    PROVE  Map!MapNext \/ UNCHANGED Map!mapVars
<1>1. ASSUME UNCHANGED ent PROVE UNCHANGED Map!mapVars
  BY <1>1 DEF Map!mapVars, Regions, Promised, RegionOf, TicketOf
<1>2. ASSUME NEW t \in Threads, WriteEntry(t) PROVE UNCHANGED Map!mapVars
  <2>1. AllocTypeOK /\ slot[t] \in Index /\ ent[slot[t]].state = "FREE"
    BY <1>2 DEF AllocInv, TypeInv, Knows, WriteEntry
  <2>2. ent'[slot[t]].state = "FREE" /\ \A j \in Index \ {slot[t]} : ent'[j] = ent[j]
    BY <1>2, <2>1, WriteEntryFacts
  <2> QED
    BY <2>1, <2>2, MapKept
<1>3. ASSUME NEW t \in Threads, MarkFree(t) PROVE UNCHANGED Map!mapVars
  <2>1. AllocTypeOK /\ slot[t] \in Index /\ ent[slot[t]].state = "FREEING"
    BY <1>3 DEF AllocInv, TypeInv, Knows, MarkFree
  <2>2. ent'[slot[t]].state = "FREE" /\ \A j \in Index \ {slot[t]} : ent'[j] = ent[j]
    BY <1>3, <2>1, SetStateFacts DEF MarkFree, AllocTypeOK
  <2> QED
    BY <2>1, <2>2, MapKept
<1>4. ASSUME NEW t \in Threads, Create(t) PROVE Map!MapNext \/ UNCHANGED Map!mapVars
  BY <1>1, <1>2, <1>4, AllocatingPromises, ActivePublishes
     DEF Create, CreateRefused, CallCreate, FindFreeSlot, CatalogFull, PickOffset, OutOfSpace, LoadCount,
         StoreCount, shared
<1>5. ASSUME NEW t \in Threads, Free(t) \/ Recover(t) PROVE Map!MapNext \/ UNCHANGED Map!mapVars
  BY <1>1, <1>3, <1>5, FreeingRemoves, RecoverWithdraws
     DEF Free, FreeNotFound, CallFree, LoadFreeCount, StoreFreeCount, Recover, CallRecover, RecoverSkip,
         RecoverFound, RecoverReturn, shared
<1>6. ASSUME NEW t \in Threads, Crash(t) \/ Reopen(t) PROVE UNCHANGED Map!mapVars
  BY <1>1, <1>6 DEF Crash, Reopen, shared
<1> QED
  BY <1>1, <1>4, <1>5, <1>6 DEF Next, Rest, vars, shared

\* With callers that run one operation at a time, the catalog of create_region, free_region
\* and recover is the abstract map from names to disjoint ranges, wherever callers die.
THEOREM AllocImplementsRegionMap ==
    ASSUME Serial, SizesFit
    PROVE  Spec => ImplementsRegionMap
<1>1. Init => Map!MapInit
  BY DEF Init, Map!MapInit, Regions, Promised
<1>2. AllocInv /\ Named /\ [Next]_vars => [Map!MapNext]_(Map!mapVars)
  BY MapStep
<1> QED
  BY <1>1, <1>2, AllocInvariant, NamedInvariant, PTL DEF Spec, ImplementsRegionMap, Map!MapSpec
=============================================================================
