-------------------------- MODULE FenceCacheProofs --------------------------
(***************************************************************************)
(* Theorems about the log on memory with write-back caches, for every      *)
(* capacity, payload and line size, set of threads and hosts, and number   *)
(* of calls and host crashes; records may share lines in any way.          *)
(*                                                                         *)
(* The types hold always.  The rest is proved for quiesced recovery and a  *)
(* header that no crash loses (Quiesced, HeaderKept).                      *)
(***************************************************************************)
EXTENDS FenceCache, FiniteSetTheorems, TLAPS

USE GeometryAssumption, HostAssumption, BoundAssumption

-----------------------------------------------------------------------------
(* The layout. *)

\* The cells of a record are cells of the pool, and none of them is another one.
LEMMA CellFacts ==
    /\ Header \in Cells
    /\ \A s \in Slots :
         /\ State(s) \in Cells /\ Meta(s) \in Cells /\ State(s) # Header /\ Meta(s) # Header
         /\ \A k \in 0 .. PayloadCells - 1 : Body(s, k) \in Cells /\ Body(s, k) # Header
    /\ \A s, r \in Slots :
         /\ State(s) = State(r) => s = r
         /\ Meta(s) = Meta(r) => s = r
         /\ State(s) # Meta(r)
         /\ \A k \in 0 .. PayloadCells - 1 :
              /\ State(s) # Body(r, k) /\ Meta(s) # Body(r, k)
              /\ \A j \in 0 .. PayloadCells - 1 : Body(s, j) = Body(r, k) => s = r
<1>1. \A s \in Slots :
         /\ State(s) \in Cells /\ Meta(s) \in Cells
         /\ \A k \in 0 .. PayloadCells - 1 : Body(s, k) \in Cells
  BY DEF Cells, RecordCells
<1>2. Header \in Cells
  BY DEF Cells
<1>3. \A s, k : /\ Header[1] = "header" /\ State(s)[1] = "state" /\ Meta(s)[1] = "meta"
                /\ Body(s, k)[1] = "body"
  BY DEF Header, State, Meta, Body
<1>4. \A s, k : State(s)[2] = s /\ Meta(s)[2] = s /\ Body(s, k)[2] = s
  BY DEF State, Meta, Body
<1>5. \A s, k : Header # State(s) /\ Header # Meta(s) /\ Header # Body(s, k)
  BY <1>3
<1>6. \A s, r : (State(s) = State(r) => s = r) /\ (Meta(s) = Meta(r) => s = r)
  BY <1>4
<1>7. \A s, r, j, k : Body(s, j) = Body(r, k) => s = r
  BY <1>4
<1>8. \A s, r, k : State(s) # Meta(r) /\ State(s) # Body(r, k) /\ Meta(s) # Body(r, k)
  BY <1>3
<1> QED
  BY <1>1, <1>2, <1>5, <1>6, <1>7, <1>8

\* Rounding down to lines keeps the order.
LEMMA DivOrder ==
    ASSUME NEW x \in Nat, NEW y \in Nat, x <= y
    PROVE  x \div Line <= y \div Line /\ x \div Line \in Nat /\ y \div Line \in Nat
<1> DEFINE p == x \div Line
           q == y \div Line
<1>1. p \in Nat /\ q \in Nat
  OBVIOUS
<1>2. p * Line <= x /\ y < q * Line + Line
  OBVIOUS
<1> HIDE DEF p, q
<1>3. ASSUME q < p PROVE FALSE
  <2>1. PICK d \in Nat : p = q + 1 + d
    <3>1. p - q - 1 \in Nat /\ p = q + 1 + (p - q - 1)
      BY <1>1, <1>3
    <3> QED
      BY <3>1
  <2>2. p * Line = q * Line + Line + d * Line
    BY <1>1, <2>1
  <2>3. d * Line >= 0 /\ q * Line \in Nat /\ d * Line \in Nat
    BY <1>1, <2>1
  <2> QED
    BY <1>2, <2>2, <2>3
<1> QED
  BY <1>1, <1>3 DEF p, q

\* Where the cells of a record are.
LEMMA OffsetFacts ==
    /\ OffsetOf[Header] = 0
    /\ \A s \in Slots :
         /\ RecordOffset(s) \in Nat
         /\ OffsetOf[State(s)] = RecordOffset(s)
         /\ OffsetOf[Meta(s)] = RecordOffset(s) + 1
         /\ \A k \in 0 .. PayloadCells - 1 : OffsetOf[Body(s, k)] = RecordOffset(s) + Line + k
         /\ RecordOffset(s) + RecordSize <= RecordOffset(Capacity)
    /\ RecordOffset(Capacity) \in Nat /\ RecordOffset(Capacity) >= Line
<1>1. OffsetOf[Header] = 0
  BY CellFacts DEF OffsetOf
<1>2. ASSUME NEW s \in Slots
      PROVE  /\ RecordOffset(s) \in Nat
             /\ OffsetOf[State(s)] = RecordOffset(s)
             /\ OffsetOf[Meta(s)] = RecordOffset(s) + 1
             /\ \A k \in 0 .. PayloadCells - 1 : OffsetOf[Body(s, k)] = RecordOffset(s) + Line + k
             /\ RecordOffset(s) + RecordSize <= RecordOffset(Capacity)
  <2>1. s \in Nat /\ RecordSize \in Nat /\ s * RecordSize \in Nat
    BY DEF Slots, RecordSize
  <2>2. RecordOffset(s) \in Nat
    BY <2>1 DEF RecordOffset
  <2>3. OffsetOf[State(s)] = RecordOffset(s)
    BY <2>2, CellFacts DEF OffsetOf, State
  <2>4. OffsetOf[Meta(s)] = RecordOffset(s) + 1
    BY <2>2, CellFacts DEF OffsetOf, Meta
  <2>5. \A k \in 0 .. PayloadCells - 1 : OffsetOf[Body(s, k)] = RecordOffset(s) + (Line + k)
    BY <2>2, CellFacts DEF OffsetOf, Body
  <2>6. RecordOffset(s) + RecordSize <= RecordOffset(Capacity)
    <3>1. PICK d \in Nat : Capacity = s + 1 + d
      <4>1. Capacity - s - 1 \in Nat /\ Capacity = s + 1 + (Capacity - s - 1)
        BY DEF Slots
      <4> QED
        BY <4>1
    <3>2. Capacity * RecordSize = s * RecordSize + RecordSize + d * RecordSize
      BY <2>1, <3>1
    <3>3. d * RecordSize \in Nat
      BY <2>1, <3>1
    <3> QED
      BY <2>1, <3>2, <3>3 DEF RecordOffset
  <2> QED
    BY <2>2, <2>3, <2>4, <2>5, <2>6
<1>3. RecordOffset(Capacity) \in Nat /\ RecordOffset(Capacity) >= Line
  BY DEF RecordOffset, RecordSize
<1> QED
  BY <1>1, <1>2, <1>3

\* Every cell has its line; the two flushes of a record reach what they are meant for,
\* wherever the record starts in its line.
LEMMA LineFacts ==
    /\ \A c \in Cells : LineOf[c] \in Lines
    /\ \A s \in Slots : \A c \in RecordCells(s) :
         LineOf[c] \in FlushLines(RecordOffset(s), RecordSize)
    /\ \A s \in Slots : LineOf[State(s)] \in FlushLines(RecordOffset(s), Line)
<1> DEFINE last == RecordOffset(Capacity) - 1
<1>0. last \in Nat /\ RecordSize \in Nat /\ RecordSize = Line + PayloadCells
  BY OffsetFacts DEF RecordSize
<1>1. ASSUME NEW s \in Slots, NEW c \in RecordCells(s)
      PROVE  /\ c \in Cells /\ OffsetOf[c] \in Nat
             /\ RecordOffset(s) <= OffsetOf[c] /\ OffsetOf[c] <= RecordOffset(s) + RecordSize - 1
  <2>1. \/ c = State(s) \/ c = Meta(s) \/ \E k \in 0 .. PayloadCells - 1 : c = Body(s, k)
    BY <1>1 DEF RecordCells
  <2>2. CASE c = State(s) \/ c = Meta(s)
    BY <1>0, <2>2, OffsetFacts, CellFacts
  <2>3. ASSUME NEW k \in 0 .. PayloadCells - 1, c = Body(s, k)
        PROVE  /\ c \in Cells /\ OffsetOf[c] \in Nat
               /\ RecordOffset(s) <= OffsetOf[c] /\ OffsetOf[c] <= RecordOffset(s) + RecordSize - 1
    BY <1>0, <2>3, OffsetFacts, CellFacts
  <2> QED
    BY <2>1, <2>2, <2>3
<1>2. ASSUME NEW s \in Slots, NEW c \in RecordCells(s)
      PROVE  LineOf[c] \in FlushLines(RecordOffset(s), RecordSize) /\ LineOf[c] \in Lines
  <2>1. /\ c \in Cells /\ OffsetOf[c] \in Nat /\ RecordOffset(s) \in Nat
        /\ RecordOffset(s) <= OffsetOf[c] /\ OffsetOf[c] <= RecordOffset(s) + RecordSize - 1
        /\ RecordOffset(s) + RecordSize - 1 \in Nat /\ OffsetOf[c] <= last
    BY <1>0, <1>1, OffsetFacts
  <2>2. LineOf[c] = OffsetOf[c] \div Line
    BY <2>1 DEF LineOf
  <2>3. RecordOffset(s) \div Line <= OffsetOf[c] \div Line /\ RecordOffset(s) \div Line \in Nat
    BY <2>1, DivOrder
  <2>4. /\ OffsetOf[c] \div Line <= (RecordOffset(s) + RecordSize - 1) \div Line
        /\ OffsetOf[c] \div Line \in Nat /\ (RecordOffset(s) + RecordSize - 1) \div Line \in Nat
    BY <2>1, DivOrder
  <2>5. OffsetOf[c] \div Line <= last \div Line /\ last \div Line \in Nat
    BY <1>0, <2>1, DivOrder
  <2>6. RecordSize # 0
    BY <1>0
  <2> HIDE DEF last
  <2>7. LineOf[c] \in RecordOffset(s) \div Line .. (RecordOffset(s) + RecordSize - 1) \div Line
    BY <2>2, <2>3, <2>4
  <2>8. LineOf[c] \in 0 .. last \div Line
    BY <2>2, <2>4, <2>5
  <2> QED
    BY <2>6, <2>7, <2>8 DEF FlushLines, Lines, last
<1>3. LineOf[Header] \in Lines
  <2>1. LineOf[Header] = 0 \div Line
    BY CellFacts, OffsetFacts DEF LineOf
  <2>2. 0 \div Line <= last \div Line /\ 0 \div Line \in Nat /\ last \div Line \in Nat
    BY <1>0, DivOrder
  <2> HIDE DEF last
  <2>3. LineOf[Header] \in 0 .. last \div Line
    BY <2>1, <2>2
  <2> QED
    BY <2>3 DEF Lines, last
<1>4. \A c \in Cells : LineOf[c] \in Lines
  BY <1>2, <1>3 DEF Cells
<1>5. ASSUME NEW s \in Slots PROVE LineOf[State(s)] \in FlushLines(RecordOffset(s), Line)
  <2>1. RecordOffset(s) \in Nat /\ RecordOffset(s) + Line - 1 \in Nat
    BY OffsetFacts
  <2>2. LineOf[State(s)] = RecordOffset(s) \div Line
    BY CellFacts, OffsetFacts DEF LineOf
  <2>3. /\ RecordOffset(s) \div Line <= (RecordOffset(s) + Line - 1) \div Line
        /\ RecordOffset(s) \div Line \in Nat /\ (RecordOffset(s) + Line - 1) \div Line \in Nat
    BY <2>1, DivOrder
  <2>4. LineOf[State(s)] \in RecordOffset(s) \div Line .. (RecordOffset(s) + Line - 1) \div Line
    BY <2>2, <2>3
  <2>5. Line # 0
    OBVIOUS
  <2> QED
    BY <2>4, <2>5 DEF FlushLines
<1> QED
  BY <1>2, <1>4, <1>5

-----------------------------------------------------------------------------
(* The memory: what a step does to one cell. *)

\* A line nobody holds modified is on the media.
MemInv ==
    /\ DOMAIN mem = Cells /\ DOMAIN media = Cells
    /\ dirty \in [Lines -> Hosts \cup {Nobody}]
    /\ \A c \in Cells : dirty[LineOf[c]] = Nobody => media[c] = mem[c]

\* The step does not store into the cell; it may be written back.
Untouched(c) ==
    /\ mem'[c] = mem[c]
    /\ \/ media'[c] = mem[c]
       \/ media'[c] = media[c] /\ dirty'[LineOf[c]] = dirty[LineOf[c]]

\* A store by a host: what another host had in the line is written back first.
StoredBy(h, c, v) ==
    /\ mem'[c] = v
    /\ dirty'[LineOf[c]] = h
    /\ \/ media'[c] = mem[c]
       \/ media'[c] = media[c] /\ dirty[LineOf[c]] = h

\* The death of a host takes what was dirty in it, and nothing else.
LostWith(h, c) ==
    /\ media'[c] = media[c]
    /\ \/ mem'[c] = media[c] /\ dirty[LineOf[c]] = h
       \/ mem'[c] = mem[c] /\ dirty[LineOf[c]] # h /\ dirty'[LineOf[c]] = dirty[LineOf[c]]

\* Writing lines back changes what is on the media, and only there.
LEMMA FlushFacts ==
    ASSUME MemInv, NEW lines, Flush(lines)
    PROVE  /\ MemInv'
           /\ \A c \in Cells : Untouched(c)
           /\ \A c \in Cells : LineOf[c] \in lines => media'[c] = mem[c]
<1>1. /\ mem' = mem
      /\ media' = [c \in Cells |-> IF LineOf[c] \in lines THEN mem[c] ELSE media[c]]
      /\ dirty' = [l \in Lines |-> IF l \in lines THEN Nobody ELSE dirty[l]]
  BY DEF Flush, WrittenBack
<1>2. \A c \in Cells : /\ LineOf[c] \in Lines
                       /\ media'[c] = (IF LineOf[c] \in lines THEN mem[c] ELSE media[c])
                       /\ dirty'[LineOf[c]] = (IF LineOf[c] \in lines THEN Nobody ELSE dirty[LineOf[c]])
  BY <1>1, LineFacts
<1>3. dirty' \in [Lines -> Hosts \cup {Nobody}]
  BY <1>1 DEF MemInv
<1> QED
  BY <1>1, <1>2, <1>3 DEF MemInv, Untouched

\* A load leaves the cells it loads on the media, or in the cache of the host that loads.
LEMMA LoadFacts ==
    ASSUME MemInv, NEW h \in Hosts, NEW cells \in SUBSET Cells, Load(h, cells)
    PROVE  /\ MemInv'
           /\ \A c \in Cells : Untouched(c)
           /\ \A c \in cells : media'[c] = mem[c] \/ dirty'[LineOf[c]] = h
<1> DEFINE lines == Foreign(h, {LineOf[c] : c \in cells})
<1>1. Flush(lines)
  BY DEF Load, Flush
<1>2. \A c \in cells : LineOf[c] \in lines \/ dirty[LineOf[c]] = Nobody \/ dirty[LineOf[c]] = h
  BY DEF Foreign
<1> HIDE DEF lines
<1>3. /\ MemInv'
      /\ \A c \in Cells : Untouched(c)
      /\ \A c \in Cells : LineOf[c] \in lines => media'[c] = mem[c]
  BY <1>1, FlushFacts
<1>4. ASSUME NEW c \in cells PROVE media'[c] = mem[c] \/ dirty'[LineOf[c]] = h
  BY <1>2, <1>3 DEF MemInv, Untouched
<1> QED
  BY <1>3, <1>4

\* A store changes the cells it is defined on, and no other.
LEMMA StoreFacts ==
    ASSUME MemInv, NEW h \in Hosts, NEW v, DOMAIN v \subseteq Cells, StoreCells(h, v)
    PROVE  /\ MemInv'
           /\ \A c \in Cells \ DOMAIN v : Untouched(c)
           /\ \A c \in DOMAIN v : StoredBy(h, c, v[c])
<1> DEFINE lines == {LineOf[c] : c \in DOMAIN v}
           back == Foreign(h, lines)
<1>1. /\ mem' = [c \in Cells |-> IF c \in DOMAIN v THEN v[c] ELSE mem[c]]
      /\ media' = [c \in Cells |-> IF LineOf[c] \in back THEN mem[c] ELSE media[c]]
      /\ dirty' = [l \in Lines |-> IF l \in lines THEN h ELSE dirty[l]]
  BY DEF StoreCells, WrittenBack
<1>2. \A c \in Cells : LineOf[c] \in back <=> LineOf[c] \in lines /\ dirty[LineOf[c]] \notin {Nobody, h}
  BY DEF Foreign
<1>3. \A c \in DOMAIN v : LineOf[c] \in lines
  OBVIOUS
<1> HIDE DEF lines, back
<1>4. \A c \in Cells : /\ LineOf[c] \in Lines
                       /\ mem'[c] = (IF c \in DOMAIN v THEN v[c] ELSE mem[c])
                       /\ media'[c] = (IF LineOf[c] \in back THEN mem[c] ELSE media[c])
                       /\ dirty'[LineOf[c]] = (IF LineOf[c] \in lines THEN h ELSE dirty[LineOf[c]])
  BY <1>1, LineFacts
<1>5. dirty' \in [Lines -> Hosts \cup {Nobody}]
  BY <1>1 DEF MemInv
<1>6. ASSUME NEW c \in Cells \ DOMAIN v PROVE Untouched(c)
  BY <1>2, <1>4 DEF MemInv, Untouched
<1>7. ASSUME NEW c \in DOMAIN v PROVE StoredBy(h, c, v[c])
  <2>1. c \in Cells /\ LineOf[c] \in lines
    BY <1>3
  <2> QED
    BY <1>2, <1>4, <2>1 DEF MemInv, StoredBy
<1>8. MemInv'
  <2>1. \A c \in Cells : dirty'[LineOf[c]] = Nobody => media'[c] = mem'[c]
    BY <1>2, <1>3, <1>4 DEF MemInv
  <2> QED
    BY <1>1, <1>5, <2>1 DEF MemInv
<1> QED
  BY <1>6, <1>7, <1>8

\* The same for a store into one cell.
LEMMA StoreCellFacts ==
    ASSUME MemInv, NEW h \in Hosts, NEW x \in Cells, NEW v, StoreCell(h, x, v)
    PROVE  MemInv' /\ (\A c \in Cells \ {x} : Untouched(c)) /\ StoredBy(h, x, v)
<1> DEFINE f == [y \in {x} |-> v]
<1>1. DOMAIN f = {x} /\ f[x] = v /\ StoreCells(h, f)
  BY DEF StoreCell
<1> HIDE DEF f
<1> QED
  BY <1>1, StoreFacts

\* A crash loses what was dirty in the host.
LEMMA CrashFacts ==
    ASSUME MemInv, NEW h \in Hosts, Crash(h)
    PROVE  MemInv' /\ \A c \in Cells : LostWith(h, c)
<1>1. /\ mem' = [c \in Cells |-> IF dirty[LineOf[c]] = h THEN media[c] ELSE mem[c]]
      /\ dirty' = [l \in Lines |-> IF dirty[l] = h THEN Nobody ELSE dirty[l]]
      /\ media' = media
  BY DEF Crash
<1>2. \A c \in Cells : /\ LineOf[c] \in Lines
                       /\ mem'[c] = (IF dirty[LineOf[c]] = h THEN media[c] ELSE mem[c])
                       /\ dirty'[LineOf[c]] = (IF dirty[LineOf[c]] = h THEN Nobody ELSE dirty[LineOf[c]])
  BY <1>1, LineFacts
<1>3. dirty' \in [Lines -> Hosts \cup {Nobody}]
  BY <1>1 DEF MemInv
<1> QED
  BY <1>1, <1>2, <1>3 DEF MemInv, LostWith

-----------------------------------------------------------------------------
(* Types. *)

HeaderType == [reserve : 0 .. U64 - 1, committed : 0 .. Capacity]
MetaType == [fields : Nat, crc : Nat]
States == {"FREE", "WRITING", "COMMITTED", "ABANDONED"}

\* What a cell may hold.
Typed(c, v) ==
    /\ c = Header => v \in HeaderType
    /\ \A s \in Slots : c = State(s) => v \in States
    /\ \A s \in Slots : c = Meta(s) => v \in MetaType

TypedMem == \A c \in Cells : Typed(c, mem[c]) /\ Typed(c, media[c])

PCs == {"idle", "down", "undo", "mark", "fields", "payload", "crc", "flush", "commit", "flush_state",
        "load", "scan", "cas", "return", "inspect", "trim", "abandon", "flush_abandon"}

LocalsOK ==
    /\ pc \in [Threads -> PCs]
    /\ op \in [Threads -> {"none", "append", "recover", "trim"}]
    /\ id \in [Threads -> Nat]
    /\ slot \in [Threads -> Slots]
    /\ cursor \in [Threads -> 0 .. Capacity] /\ limit \in [Threads -> 0 .. Capacity]
    /\ cur \in [Threads -> 0 .. Capacity] /\ new \in [Threads -> 0 .. Capacity]
    /\ calls \in 0 .. MaxCalls
    /\ \A t \in Threads : pc[t] \in {"abandon", "flush_abandon"} => cursor[t] < limit[t]

TypeInv == MemInv /\ TypedMem /\ LocalsOK

\* What the types say of the cells the steps load.
LEMMA TypedFacts ==
    ASSUME TypedMem
    PROVE  /\ mem[Header] \in HeaderType /\ media[Header] \in HeaderType
           /\ \A s \in Slots :
                /\ mem[State(s)] \in States /\ media[State(s)] \in States
                /\ mem[Meta(s)] \in MetaType /\ media[Meta(s)] \in MetaType
  BY CellFacts DEF TypedMem, Typed

\* The type invariant of the module follows.
LEMMA TypeImplies == TypeInv => CacheTypeOK
<1> SUFFICES ASSUME TypeInv PROVE CacheTypeOK
  OBVIOUS
<1>1. \A s \in Slots : mem[State(s)] \in States
  BY TypedFacts DEF TypeInv
<1> QED
  BY <1>1 DEF TypeInv, MemInv, LocalsOK, CacheTypeOK, States

\* Where values may end up, in the memory and on the media.
LEMMA TypedStep ==
    ASSUME TypedMem,
           \A c \in Cells : \/ Untouched(c)
                            \/ \E h, v : StoredBy(h, c, v) /\ Typed(c, v)
                            \/ \E h : LostWith(h, c)
    PROVE  TypedMem'
<1> SUFFICES ASSUME NEW c \in Cells PROVE Typed(c, mem'[c]) /\ Typed(c, media'[c])
  BY DEF TypedMem, Typed
<1>1. Typed(c, mem[c]) /\ Typed(c, media[c])
  BY DEF TypedMem
<1>2. mem'[c] \in {mem[c], media[c]} \/ Typed(c, mem'[c])
  BY DEF Untouched, StoredBy, LostWith
<1>3. media'[c] \in {mem[c], media[c]}
  BY DEF Untouched, StoredBy, LostWith
<1> QED
  BY <1>1, <1>2, <1>3

\* The stores of append and the reserve counter have their types.
LEMMA StoreTyped ==
    ASSUME TypeInv, NEW h \in Hosts, NEW x \in Cells, NEW v, StoreCell(h, x, v), Typed(x, v)
    PROVE  MemInv' /\ TypedMem'
<1>1. MemInv' /\ (\A c \in Cells \ {x} : Untouched(c)) /\ StoredBy(h, x, v)
  BY StoreCellFacts DEF TypeInv
<1> QED
  BY <1>1, TypedStep DEF TypeInv

\* fetch_add on reserve_tail leaves a u64.
LEMMA AddTyped ==
    ASSUME TypeInv, NEW t \in Threads, NEW d \in Nat, AddReserve(t, d)
    PROVE  MemInv' /\ TypedMem'
<1> DEFINE v == [mem[Header] EXCEPT !.reserve = (@ + d) % U64]
<1>1. mem[Header] \in HeaderType
  BY TypedFacts DEF TypeInv
<1>2. (mem[Header].reserve + d) % U64 \in 0 .. U64 - 1
  BY <1>1 DEF HeaderType
<1>3. v \in HeaderType
  BY <1>1, <1>2 DEF HeaderType
<1>4. Typed(Header, v)
  BY <1>3, CellFacts DEF Typed
<1>5. StoreCell(HostOf[t], Header, v) /\ HostOf[t] \in Hosts
  BY DEF AddReserve
<1> HIDE DEF v
<1> QED
  BY <1>4, <1>5, StoreTyped, CellFacts

\* Every step leaves the memory well typed.
LEMMA MemStep ==
    ASSUME TypeInv, [Next]_vars
    PROVE  MemInv' /\ TypedMem'
<1>0. MemInv /\ TypedMem /\ LocalsOK /\ \A t \in Threads : HostOf[t] \in Hosts /\ slot[t] \in Slots
  BY DEF TypeInv, LocalsOK
<1>1. ASSUME UNCHANGED memory PROVE MemInv' /\ TypedMem'
  BY <1>0, <1>1 DEF memory, MemInv, TypedMem, Typed
<1>2. ASSUME NEW lines, Flush(lines) PROVE MemInv' /\ TypedMem'
  BY <1>0, <1>2, FlushFacts, TypedStep
<1>3. ASSUME NEW h \in Hosts, NEW cells \in SUBSET Cells, Load(h, cells) PROVE MemInv' /\ TypedMem'
  BY <1>0, <1>3, LoadFacts, TypedStep
<1>4. ASSUME NEW s \in Slots, NEW h \in Hosts, NEW v \in States, StoreCell(h, State(s), v)
      PROVE  MemInv' /\ TypedMem'
  <2>1. Typed(State(s), v) /\ State(s) \in Cells
    BY CellFacts DEF Typed
  <2> QED
    BY <1>4, <2>1, StoreTyped
<1>5. ASSUME NEW s \in Slots, NEW h \in Hosts, NEW v \in MetaType, StoreCell(h, Meta(s), v)
      PROVE  MemInv' /\ TypedMem'
  <2>1. Typed(Meta(s), v) /\ Meta(s) \in Cells
    BY CellFacts DEF Typed
  <2> QED
    BY <1>5, <2>1, StoreTyped
<1>6. ASSUME NEW t \in Threads, Append(t) PROVE MemInv' /\ TypedMem'
  <2>1. CASE Claim(t) \/ ClaimFull(t) \/ Undo(t)
    <3>1. U64 - 1 \in Nat
      OBVIOUS
    <3> QED
      BY <2>1, <3>1, AddTyped DEF Claim, ClaimFull, Undo
  <2>2. CASE MarkWriting(t) \/ Commit(t)
    BY <1>0, <1>4, <2>2 DEF MarkWriting, Commit, States
  <2>3. CASE WriteFields(t) \/ WriteCrc(t)
    <3>1. mem[Meta(slot[t])] \in MetaType /\ id[t] \in Nat
      BY <1>0, TypedFacts DEF LocalsOK
    <3>2. /\ [mem[Meta(slot[t])] EXCEPT !.fields = id[t]] \in MetaType
          /\ [mem[Meta(slot[t])] EXCEPT !.crc = id[t]] \in MetaType
      BY <3>1 DEF MetaType
    <3> QED
      BY <1>0, <1>5, <2>3, <3>2 DEF WriteFields, WriteCrc
  <2>4. CASE WritePayload(t)
    <3> DEFINE bodies == {Body(slot[t], k) : k \in 0 .. PayloadCells - 1}
               v == [c \in bodies |-> id[t]]
    <3>1. StoreCells(HostOf[t], v)
      BY <2>4 DEF WritePayload
    <3>2. bodies \subseteq Cells
      BY <1>0, CellFacts
    <3>3. \A c \in bodies : Typed(c, id[t])
      BY <1>0, CellFacts DEF Typed
    <3>4. DOMAIN v = bodies /\ \A c \in bodies : v[c] = id[t]
      OBVIOUS
    <3> HIDE DEF v, bodies
    <3>5. MemInv' /\ (\A c \in Cells \ bodies : Untouched(c)) /\ \A c \in bodies : StoredBy(HostOf[t], c, id[t])
      BY <1>0, <3>1, <3>2, <3>4, StoreFacts
    <3> QED
      BY <1>0, <3>3, <3>5, TypedStep
  <2>5. CASE FlushRecord(t) \/ FlushState(t)
    BY <1>2, <2>5 DEF FlushRecord, FlushState
  <2> QED
    BY <1>6, <2>1, <2>2, <2>3, <2>4, <2>5 DEF Append
<1>7. ASSUME NEW t \in Threads, Advance(t) PROVE MemInv' /\ TypedMem'
  <2>1. CASE LoadTail(t)
    BY <1>0, <1>3, <2>1, CellFacts DEF LoadTail
  <2>2. CASE Scan(t)
    <3>1. State(new[t]) \in Cells
      <4>1. new[t] \in Slots
        BY <1>0, <2>2 DEF Scan, LocalsOK, Slots
      <4> QED
        BY <4>1, CellFacts
    <3> QED
      BY <1>0, <1>3, <2>2, <3>1 DEF Scan
  <2>3. CASE ScanEnd(t) \/ Return(t)
    BY <1>1, <2>3 DEF ScanEnd, Return
  <2>4. CASE Cas(t)
    <3>1. CASE mem[Header].committed = cur[t]
      <4> DEFINE v == [mem[Header] EXCEPT !.committed = new[t]]
      <4>1. mem[Header] \in HeaderType /\ new[t] \in 0 .. Capacity
        BY <1>0, TypedFacts DEF LocalsOK
      <4>2. v \in HeaderType
        BY <4>1 DEF HeaderType
      <4>3. Typed(Header, v) /\ Header \in Cells
        BY <4>2, CellFacts DEF Typed
      <4>4. StoreCell(HostOf[t], Header, v)
        BY <2>4, <3>1 DEF Cas
      <4> HIDE DEF v
      <4> QED
        BY <1>0, <4>3, <4>4, StoreTyped
    <3>2. CASE mem[Header].committed # cur[t]
      BY <1>0, <1>3, <2>4, <3>2, CellFacts DEF Cas
    <3> QED
      BY <3>1, <3>2
  <2> QED
    BY <1>7, <2>1, <2>2, <2>3, <2>4 DEF Advance
<1>8. ASSUME NEW t \in Threads, Recover(t) \/ Trim(t) PROVE MemInv' /\ TypedMem'
  <2>1. CASE CallRecover(t) \/ \E upTo \in 0 .. Capacity : TrimBeyond(t, upTo) \/ CallTrim(t, upTo)
    BY <1>0, <1>3, <2>1, CellFacts DEF CallRecover, TrimBeyond, CallTrim
  <2>2. CASE Inspect(t) \/ TrimInspect(t)
    <3>1. cursor[t] \in Slots
      BY <1>0, <2>2 DEF Inspect, TrimInspect, LocalsOK, Slots
    <3>2. RecordCells(cursor[t]) \subseteq Cells /\ {State(cursor[t])} \subseteq Cells
      BY <3>1, CellFacts, ZenonT(30) DEF Cells
    <3>3. \E cells \in SUBSET Cells : Load(HostOf[t], cells)
      BY <2>2, <3>2 DEF Inspect, TrimInspect
    <3> QED
      BY <1>0, <1>3, <3>3
  <2>3. CASE RecoverPhase2(t) \/ TrimReturn(t)
    BY <1>1, <2>3 DEF RecoverPhase2, TrimReturn
  <2> QED
    BY <1>8, <2>1, <2>2, <2>3 DEF Recover, Trim
<1>9. ASSUME NEW t \in Threads, Abandon(t) PROVE MemInv' /\ TypedMem'
  <2>1. cursor[t] \in Slots
    BY <1>0, <1>9 DEF Abandon, LocalsOK, Slots
  <2> QED
    BY <1>0, <1>4, <1>9, <2>1 DEF Abandon, States
<1>10. ASSUME NEW t \in Threads, FlushAbandon(t) PROVE MemInv' /\ TypedMem'
  BY <1>2, <1>10 DEF FlushAbandon
<1>11. ASSUME NEW h \in Hosts, Crash(h) PROVE MemInv' /\ TypedMem'
  BY <1>0, <1>11, CrashFacts, TypedStep
<1>12. ASSUME NEW h \in Hosts, Restart(h) PROVE MemInv' /\ TypedMem'
  BY <1>1, <1>12 DEF Restart
<1>13. ASSUME NEW l \in Lines, Evict(l) PROVE MemInv' /\ TypedMem'
  BY <1>2, <1>13 DEF Evict
<1>14. ASSUME UNCHANGED vars PROVE MemInv' /\ TypedMem'
  BY <1>1, <1>14 DEF vars
<1> QED
  BY <1>6, <1>7, <1>8, <1>9, <1>10, <1>11, <1>12, <1>13, <1>14 DEF Next, Rest

\* Every step leaves the locals well typed, whatever it finds in the memory.
LEMMA LocalsStep ==
    ASSUME TypeInv, [Next]_vars
    PROVE  LocalsOK'
<1>0. LocalsOK /\ mem[Header] \in HeaderType
  BY TypedFacts DEF TypeInv
<1>1. ASSUME UNCHANGED <<op, id, slot, cursor, limit, cur, new, calls>>, NEW t \in Threads,
             NEW l \in PCs, pc' = [pc EXCEPT ![t] = l],
             l \in {"abandon", "flush_abandon"} => cursor[t] < limit[t]
      PROVE  LocalsOK'
  BY <1>0, <1>1 DEF LocalsOK
<1>2. ASSUME NEW l \in {"idle", "down"}, NEW T \in SUBSET Threads, Reset(T, l), UNCHANGED calls
      PROVE  LocalsOK'
  <2>0. /\ pc' = [t \in Threads |-> IF t \in T THEN l ELSE pc[t]]
        /\ cursor' = [t \in Threads |-> IF t \in T THEN 0 ELSE cursor[t]]
        /\ limit' = [t \in Threads |-> IF t \in T THEN 0 ELSE limit[t]]
    BY <1>2 DEF Reset
  <2>1. \A t \in Threads : \/ pc'[t] = l
                           \/ pc'[t] = pc[t] /\ cursor'[t] = cursor[t] /\ limit'[t] = limit[t]
    BY <2>0
  <2>2. pc' \in [Threads -> PCs]
    BY <1>0, <1>2 DEF LocalsOK, Reset, PCs
  <2>3. op' \in [Threads -> {"none", "append", "recover", "trim"}] /\ id' \in [Threads -> Nat]
    BY <1>0, <1>2 DEF LocalsOK, Reset
  <2>4. slot' \in [Threads -> Slots]
    BY <1>0, <1>2 DEF LocalsOK, Reset, Slots
  <2>5. /\ cursor' \in [Threads -> 0 .. Capacity] /\ limit' \in [Threads -> 0 .. Capacity]
        /\ cur' \in [Threads -> 0 .. Capacity] /\ new' \in [Threads -> 0 .. Capacity]
    BY <1>0, <1>2 DEF LocalsOK, Reset
  <2> QED
    BY <1>0, <1>2, <2>1, <2>2, <2>3, <2>4, <2>5 DEF LocalsOK
<1>3. ASSUME NEW t \in Threads, Append(t) PROVE LocalsOK'
  <2>1. CASE Claim(t)
    <3>1. mem[Header].reserve \in Slots
      BY <1>0, <2>1 DEF Claim, HeaderType, Slots
    <3> QED
      BY <1>0, <2>1, <3>1 DEF Claim, Call, Goto, LocalsOK, PCs
  <2>2. CASE ClaimFull(t)
    BY <1>0, <2>2 DEF ClaimFull, Call, Goto, LocalsOK, PCs, locals
  <2>3. CASE Undo(t) \/ MarkWriting(t) \/ WriteFields(t) \/ WritePayload(t) \/ WriteCrc(t)
             \/ FlushRecord(t) \/ Commit(t) \/ FlushState(t)
    <3>1. UNCHANGED <<op, id, slot, cursor, limit, cur, new, calls>>
      BY <2>3 DEF Undo, MarkWriting, WriteFields, WritePayload, WriteCrc, FlushRecord, Commit, FlushState,
                  locals, budget
    <3>2. \E l \in {"idle", "fields", "payload", "crc", "flush", "commit", "flush_state", "load"} : Goto(t, l)
      BY <2>3 DEF Undo, MarkWriting, WriteFields, WritePayload, WriteCrc, FlushRecord, Commit, FlushState
    <3> QED
      BY <1>1, <3>1, <3>2 DEF Goto, PCs
  <2> QED
    BY <1>3, <2>1, <2>2, <2>3 DEF Append
<1>4. ASSUME NEW t \in Threads, Advance(t) PROVE LocalsOK'
  <2>1. CASE LoadTail(t)
    BY <1>0, <2>1 DEF LoadTail, Goto, LocalsOK, PCs, HeaderType, budget
  <2>2. CASE Scan(t)
    <3>1. CASE mem[State(new[t])] = "COMMITTED"
      BY <1>0, <2>2, <3>1 DEF Scan, LocalsOK, PCs, budget
    <3>2. CASE mem[State(new[t])] # "COMMITTED"
      <4>1. \E l \in {"return", "cas"} : Goto(t, l)
        BY <2>2, <3>2 DEF Scan
      <4>2. UNCHANGED <<op, id, slot, cursor, limit, cur, new, calls>>
        BY <2>2, <3>2 DEF Scan, budget
      <4> QED
        BY <1>1, <4>1, <4>2 DEF Goto, PCs
    <3> QED
      BY <3>1, <3>2
  <2>3. CASE ScanEnd(t) \/ Cas(t)
    <3>1. \E l \in {"return", "cas", "load"} : Goto(t, l)
      BY <2>3 DEF ScanEnd, Cas
    <3>2. UNCHANGED <<op, id, slot, cursor, limit, cur, new, calls>>
      BY <2>3 DEF ScanEnd, Cas, locals, budget
    <3> QED
      BY <1>1, <3>1, <3>2 DEF Goto, PCs
  <2>4. CASE Return(t)
    BY <1>2, <2>4 DEF Return, budget
  <2> QED
    BY <1>4, <2>1, <2>2, <2>3, <2>4 DEF Advance
<1>5. ASSUME NEW t \in Threads, CallRecover(t) \/ \E upTo \in 0 .. Capacity : CallTrim(t, upTo)
      PROVE  LocalsOK'
  <2>1. \E n \in 0 .. Capacity : limit' = [limit EXCEPT ![t] = n]
    BY <1>0, <1>5 DEF CallRecover, CallTrim, HeaderType
  <2>2. /\ \E o \in {"recover", "trim"} : op' = [op EXCEPT ![t] = o]
        /\ \E l \in {"inspect", "trim"} : pc' = [pc EXCEPT ![t] = l]
        /\ cursor' = [cursor EXCEPT ![t] = 0] /\ calls' = calls + 1 /\ calls < MaxCalls
        /\ UNCHANGED <<id, slot, cur, new>>
    BY <1>5 DEF CallRecover, CallTrim, Call, Goto
  <2> QED
    BY <1>0, <2>1, <2>2 DEF LocalsOK, PCs
<1>6. ASSUME NEW t \in Threads, NEW upTo, TrimBeyond(t, upTo) PROVE LocalsOK'
  BY <1>0, <1>6 DEF TrimBeyond, Call, locals, LocalsOK
<1>7. ASSUME NEW t \in Threads, Inspect(t) \/ TrimInspect(t) PROVE LocalsOK'
  <2>1. /\ pc[t] \in {"inspect", "trim"} /\ cursor[t] < limit[t]
        /\ UNCHANGED <<op, id, slot, limit, cur, new, calls>>
    BY <1>7 DEF Inspect, TrimInspect, budget
  <2>2. \/ pc' = pc /\ cursor' = [cursor EXCEPT ![t] = cursor[t] + 1]
        \/ pc' = [pc EXCEPT ![t] = "abandon"] /\ cursor' = cursor
    BY <1>7 DEF Inspect, TrimInspect, Goto
  <2> QED
    BY <1>0, <2>1, <2>2 DEF LocalsOK, PCs
<1>8. ASSUME NEW t \in Threads, RecoverPhase2(t) \/ TrimReturn(t) \/ Abandon(t) PROVE LocalsOK'
  <2>1. \E l \in {"load", "return", "flush_abandon"} :
           Goto(t, l) /\ (l = "flush_abandon" => cursor[t] < limit[t])
    BY <1>0, <1>8 DEF RecoverPhase2, TrimReturn, Abandon, LocalsOK
  <2>2. UNCHANGED <<op, id, slot, cursor, limit, cur, new, calls>>
    BY <1>8 DEF RecoverPhase2, TrimReturn, Abandon, locals, budget
  <2> QED
    BY <1>1, <2>1, <2>2 DEF Goto, PCs
<1>9. ASSUME NEW t \in Threads, FlushAbandon(t) PROVE LocalsOK'
  <2>1. /\ cursor[t] < limit[t] /\ cursor' = [cursor EXCEPT ![t] = cursor[t] + 1]
        /\ UNCHANGED <<op, id, slot, limit, cur, new, calls>>
        /\ \E l \in {"inspect", "trim"} : pc' = [pc EXCEPT ![t] = l]
    BY <1>0, <1>9 DEF FlushAbandon, Goto, LocalsOK, budget
  <2> QED
    BY <1>0, <2>1 DEF LocalsOK, PCs
<1>10. ASSUME NEW h \in Hosts, Crash(h) PROVE LocalsOK'
  BY <1>2, <1>10 DEF Crash
<1>11. ASSUME NEW h \in Hosts, Restart(h) PROVE LocalsOK'
  BY <1>0, <1>11 DEF Restart, LocalsOK, PCs, locals, budget
<1>12. ASSUME UNCHANGED <<pc, locals, calls>> PROVE LocalsOK'
  BY <1>0, <1>12 DEF locals, LocalsOK
<1> QED
  BY <1>3, <1>4, <1>5, <1>6, <1>7, <1>8, <1>9, <1>10, <1>11, <1>12
     DEF Next, Recover, Trim, Rest, Evict, vars, budget

\* A new pool is well typed, on the media, too.
LEMMA TypeInit == Init => TypeInv
<1> SUFFICES ASSUME Init PROVE TypeInv
  OBVIOUS
<1>1. \A c \in Cells : mem[c] = (IF c = Header THEN [reserve |-> 0, committed |-> 0]
                                 ELSE IF c[1] = "state" THEN "FREE"
                                 ELSE IF c[1] = "meta" THEN [fields |-> 0, crc |-> 0]
                                 ELSE 0)
  BY DEF Init
<1>2. mem[Header] = [reserve |-> 0, committed |-> 0]
  BY <1>1, CellFacts
<1>3. \A s : State(s)[1] = "state" /\ Meta(s)[1] = "meta"
  BY DEF State, Meta
<1>4. \A s \in Slots : mem[State(s)] = "FREE" /\ mem[Meta(s)] = [fields |-> 0, crc |-> 0]
  BY <1>1, <1>3, CellFacts
<1>5. [reserve |-> 0, committed |-> 0] \in HeaderType /\ [fields |-> 0, crc |-> 0] \in MetaType
      /\ "FREE" \in States
  BY DEF HeaderType, MetaType, States
<1>6. TypedMem
  BY <1>2, <1>4, <1>5, SMTT(20) DEF TypedMem, Typed, Init
<1>7. MemInv
  BY LineFacts DEF Init, MemInv
<1>8. LocalsOK
  BY DEF Init, LocalsOK, PCs, Slots
<1> QED
  BY <1>6, <1>7, <1>8 DEF TypeInv

\* Every step keeps the types.
LEMMA TypeNext == TypeInv /\ [Next]_vars => TypeInv'
  BY MemStep, LocalsStep DEF TypeInv

\* The cells keep their types on the media, too, across the loss of any host's caches, so
\* that no thread ever works on a slot outside the pool; and a line that no cache holds
\* modified is always on the media as the hosts see it.
THEOREM CacheTypeCorrect == Spec => []CacheTypeOK
  BY TypeInit, TypeNext, TypeImplies, PTL DEF Spec

-----------------------------------------------------------------------------
(* What holds of the records, the threads and the history in every state.  *)

Undoing == {t \in Threads : pc[t] = "undo"}
Recovering(t) == op[t] = "recover" /\ pc[t] \in {"inspect", "abandon", "flush_abandon"}

\* reserve_tail never wraps and no undo takes it below Capacity, so that a slot is claimed
\* once; and recover works on slots that nobody holds.
ClaimInv ==
    LET reserve == mem[Header].reserve IN
    /\ reserve <= calls
    /\ reserve < Capacity => Undoing = {}
    /\ reserve >= Capacity => Cardinality(Undoing) <= reserve - Capacity
    /\ \A t \in Threads : Holding(t) => slot[t] < reserve
    /\ \A t, u \in Threads : Holding(t) /\ Holding(u) /\ t # u => slot[t] # slot[u]
    /\ \A t \in Threads : Recovering(t) =>
         limit[t] <= reserve /\ \A u \in Threads : Holding(u) => slot[u] >= limit[t]

\* The states a record has once it was committed, or given up.
Ended == {"COMMITTED", "ABANDONED"}

\* The death of any host but h leaves the cell as it is.
Kept(h, c) == media[c] = mem[c] \/ dirty[LineOf[c]] = h

\* The record has ended, whichever host but h dies ...
Settled(h, s) ==
    /\ mem[State(s)] \in Ended
    /\ media[State(s)] \in Ended \/ dirty[LineOf[State(s)]] = h

\* ... whichever host dies.
Final(s) == mem[State(s)] \in Ended /\ media[State(s)] \in Ended

\* The record is written, and on the media but for its state.
Whole(s) == Verify(s) /\ \A c \in RecordCells(s) \ {State(s)} : media[c] = mem[c]
Sealed(s, n) == Whole(s) /\ mem[Meta(s)].crc = n

Early(t) == pc[t] \in {"mark", "fields", "payload", "crc", "flush", "commit"}
Appended(t) == op[t] = "append" /\ pc[t] \in {"load", "scan", "cas", "return"}

\* What a thread can rely on between two of its steps.
Know(t) ==
    /\ Early(t) =>
         id[t] # 0 /\ mem[State(slot[t])] \notin Ended /\ media[State(slot[t])] \notin Ended
    /\ pc[t] \in {"payload", "crc", "flush"} =>
         mem[Meta(slot[t])].fields = id[t] /\ Kept(HostOf[t], Meta(slot[t]))
    /\ pc[t] \in {"crc", "flush"} =>
         \A k \in 0 .. PayloadCells - 1 :
            mem[Body(slot[t], k)] = id[t] /\ Kept(HostOf[t], Body(slot[t], k))
    /\ pc[t] = "flush" => mem[Meta(slot[t])].crc = id[t]
    /\ pc[t] \in {"commit", "flush_state"} \/ Appended(t) => Sealed(slot[t], id[t])
    /\ pc[t] = "flush_state" => Settled(HostOf[t], slot[t])
    /\ Appended(t) => Final(slot[t])
    /\ pc[t] = "inspect" => op[t] = "recover"
    /\ pc[t] = "trim" => op[t] = "trim"
    /\ pc[t] \in {"abandon", "flush_abandon"} => op[t] \in {"recover", "trim"}
    /\ pc[t] = "abandon" /\ op[t] = "trim" => Settled(HostOf[t], cursor[t])
    /\ pc[t] = "flush_abandon" =>
         mem[State(cursor[t])] = "ABANDONED" /\ Kept(HostOf[t], State(cursor[t]))

\* A slot that was never claimed is FREE; a COMMITTED one is whole, be it COMMITTED only
\* for the hosts, or only on the media.
Record(s) ==
    /\ s >= mem[Header].reserve => mem[State(s)] = "FREE" /\ media[State(s)] = "FREE"
    /\ "COMMITTED" \in {mem[State(s)], media[State(s)]} => Whole(s)

AckedOK(a) == a.slot \in Slots /\ Final(a.slot) /\ Sealed(a.slot, a.id)
DroppedOK(s) == s \in Slots /\ mem[State(s)] = "ABANDONED" /\ media[State(s)] = "ABANDONED"

DataInv ==
    /\ \A t \in Threads : Know(t)
    /\ \A s \in Slots : Record(s)
    /\ \A a \in acked : AckedOK(a)
    /\ \A s \in dropped : DroppedOK(s)

CacheInv == TypeInv /\ ClaimInv /\ DataInv

\* EndedFlushed, of record s.
Pending(s) ==
    mem[State(s)] \in Ended =>
        \/ media[State(s)] \in Ended
        \/ \E t \in Threads : Ending(t, s) /\ dirty[LineOf[State(s)]] = HostOf[t]

-----------------------------------------------------------------------------
(* What the steps do to the memory. *)

\* Steps that store nothing.
Storeless(t) ==
    \/ FlushRecord(t) \/ FlushState(t) \/ LoadTail(t) \/ Scan(t) \/ ScanEnd(t) \/ Return(t)
    \/ Recover(t) \/ Trim(t) \/ FlushAbandon(t)

\* They change no cell and lose none.
LEMMA StorelessFacts ==
    ASSUME TypeInv, NEW t \in Threads, Storeless(t)
    PROVE  \A c \in Cells : Untouched(c)
<1>0. MemInv /\ LocalsOK /\ HostOf[t] \in Hosts
  BY DEF TypeInv
<1>1. ASSUME UNCHANGED memory PROVE \A c \in Cells : Untouched(c)
  BY <1>1 DEF memory, Untouched
<1>2. ASSUME NEW lines, Flush(lines) PROVE \A c \in Cells : Untouched(c)
  BY <1>0, <1>2, FlushFacts
<1>3. ASSUME NEW cells \in SUBSET Cells, Load(HostOf[t], cells) PROVE \A c \in Cells : Untouched(c)
  BY <1>0, <1>3, LoadFacts
<1>4. CASE FlushRecord(t) \/ FlushState(t) \/ FlushAbandon(t)
  BY <1>2, <1>4 DEF FlushRecord, FlushState, FlushAbandon
<1>5. CASE ScanEnd(t) \/ Return(t) \/ RecoverPhase2(t) \/ TrimReturn(t)
  BY <1>1, <1>5 DEF ScanEnd, Return, RecoverPhase2, TrimReturn
<1>6. CASE LoadTail(t) \/ CallRecover(t) \/ \E upTo \in 0 .. Capacity : TrimBeyond(t, upTo) \/ CallTrim(t, upTo)
  BY <1>3, <1>6, CellFacts DEF LoadTail, CallRecover, TrimBeyond, CallTrim
<1>7. CASE Scan(t)
  <2>1. new[t] \in Slots
    BY <1>0, <1>7 DEF Scan, LocalsOK, Slots
  <2> QED
    BY <1>3, <1>7, <2>1, CellFacts DEF Scan
<1>8. CASE Inspect(t) \/ TrimInspect(t)
  <2>1. cursor[t] \in Slots
    BY <1>0, <1>8 DEF Inspect, TrimInspect, LocalsOK, Slots
  <2>2. RecordCells(cursor[t]) \subseteq Cells /\ {State(cursor[t])} \subseteq Cells
    BY <2>1, CellFacts, ZenonT(30) DEF Cells
  <2>3. \E cells \in SUBSET Cells : Load(HostOf[t], cells)
    BY <1>8, <2>2 DEF Inspect, TrimInspect
  <2> QED
    BY <1>3, <2>3
<1> QED
  BY <1>4, <1>5, <1>6, <1>7, <1>8 DEF Storeless, Recover, Trim

\* Steps that store into the header only.
LEMMA HeaderStoreFacts ==
    ASSUME TypeInv, NEW t \in Threads, Claim(t) \/ ClaimFull(t) \/ Undo(t) \/ Cas(t)
    PROVE  \A c \in Cells \ {Header} : Untouched(c)
<1>0. MemInv /\ HostOf[t] \in Hosts /\ Header \in Cells
  BY CellFacts DEF TypeInv
<1>1. ASSUME NEW v, StoreCell(HostOf[t], Header, v) PROVE \A c \in Cells \ {Header} : Untouched(c)
  BY <1>0, <1>1, StoreCellFacts
<1>2. ASSUME Load(HostOf[t], {Header}) PROVE \A c \in Cells \ {Header} : Untouched(c)
  BY <1>0, <1>2, LoadFacts
<1> QED
  BY <1>1, <1>2 DEF Claim, ClaimFull, Undo, Cas, AddReserve

\* Steps that store a state.
LEMMA StateStoreFacts ==
    ASSUME TypeInv, NEW t \in Threads, NEW s \in Slots, NEW v, StoreCell(HostOf[t], State(s), v)
    PROVE  /\ \A c \in Cells \ {State(s)} : Untouched(c)
           /\ StoredBy(HostOf[t], State(s), v)
           /\ Untouched(Header)
<1>0. MemInv /\ HostOf[t] \in Hosts /\ State(s) \in Cells /\ Header \in Cells /\ Header # State(s)
  BY CellFacts DEF TypeInv
<1> QED
  BY <1>0, StoreCellFacts

\* Steps of append that write the rest of its record.
LEMMA WriteFacts ==
    ASSUME TypeInv, NEW t \in Threads, WriteFields(t) \/ WritePayload(t) \/ WriteCrc(t)
    PROVE  /\ \A c \in Cells \ RecordCells(slot[t]) : Untouched(c)
           /\ Untouched(State(slot[t])) /\ Untouched(Header)
           /\ WriteFields(t) =>
                /\ StoredBy(HostOf[t], Meta(slot[t]), [mem[Meta(slot[t])] EXCEPT !.fields = id[t]])
           /\ WritePayload(t) =>
                /\ Untouched(Meta(slot[t]))
                /\ \A k \in 0 .. PayloadCells - 1 : StoredBy(HostOf[t], Body(slot[t], k), id[t])
           /\ WriteCrc(t) =>
                /\ StoredBy(HostOf[t], Meta(slot[t]), [mem[Meta(slot[t])] EXCEPT !.crc = id[t]])
                /\ \A k \in 0 .. PayloadCells - 1 : Untouched(Body(slot[t], k))
<1>0. MemInv /\ HostOf[t] \in Hosts /\ slot[t] \in Slots
  BY DEF TypeInv, LocalsOK
<1> DEFINE s == slot[t]
           bodies == {Body(s, k) : k \in 0 .. PayloadCells - 1}
<1>1. /\ State(s) \in Cells /\ Meta(s) \in Cells /\ bodies \subseteq Cells /\ Header \in Cells
      /\ State(s) # Meta(s) /\ State(s) \notin bodies /\ Meta(s) \notin bodies
      /\ Header # Meta(s) /\ Header \notin bodies
      /\ RecordCells(s) = {State(s), Meta(s)} \cup bodies
      /\ \A k \in 0 .. PayloadCells - 1 : Body(s, k) \in bodies
  BY <1>0, CellFacts DEF RecordCells
<1>2. ASSUME NEW v, StoreCell(HostOf[t], Meta(s), v)
      PROVE  (\A c \in Cells \ {Meta(s)} : Untouched(c)) /\ StoredBy(HostOf[t], Meta(s), v)
  BY <1>0, <1>1, <1>2, StoreCellFacts
<1>3. ASSUME WritePayload(t)
      PROVE  (\A c \in Cells \ bodies : Untouched(c)) /\ (\A c \in bodies : StoredBy(HostOf[t], c, id[t]))
  <2> DEFINE v == [c \in bodies |-> id[t]]
  <2>1. StoreCells(HostOf[t], v)
    BY <1>3 DEF WritePayload
  <2>2. DOMAIN v = bodies /\ \A c \in bodies : v[c] = id[t]
    OBVIOUS
  <2> HIDE DEF v, bodies
  <2> QED
    BY <1>0, <1>1, <2>1, <2>2, StoreFacts
<1>4. WriteFields(t) => StoreCell(HostOf[t], Meta(s), [mem[Meta(s)] EXCEPT !.fields = id[t]])
  BY DEF WriteFields
<1>5. WriteCrc(t) => StoreCell(HostOf[t], Meta(s), [mem[Meta(s)] EXCEPT !.crc = id[t]])
  BY DEF WriteCrc
<1>6. CASE WritePayload(t)
  <2>1. pc[t] = "payload" /\ ~ WriteFields(t) /\ ~ WriteCrc(t)
    BY <1>6 DEF WritePayload, WriteFields, WriteCrc
  <2> HIDE DEF bodies
  <2> QED
    BY <1>1, <1>3, <1>6, <2>1
<1>7. CASE WriteFields(t)
  <2>1. ~ WritePayload(t) /\ ~ WriteCrc(t)
    BY <1>7 DEF WritePayload, WriteFields, WriteCrc
  <2> HIDE DEF bodies
  <2> QED
    BY <1>1, <1>2, <1>4, <1>7, <2>1
<1>8. CASE WriteCrc(t)
  <2>1. ~ WritePayload(t) /\ ~ WriteFields(t)
    BY <1>8 DEF WritePayload, WriteFields, WriteCrc
  <2> HIDE DEF bodies
  <2> QED
    BY <1>1, <1>2, <1>5, <1>8, <2>1
<1> QED
  BY <1>6, <1>7, <1>8

-----------------------------------------------------------------------------
(* The reserve counter and the claims. *)

\* A step that neither claims nor undoes, nor starts a recovery.
Calm ==
    /\ mem'[Header].reserve = mem[Header].reserve
    /\ calls <= calls'
    /\ \A t \in Threads : pc'[t] = "undo" => pc[t] = "undo"
    /\ \A t \in Threads : Holding(t)' => Holding(t) /\ slot'[t] = slot[t]
    /\ \A t \in Threads : Recovering(t)' => Recovering(t) /\ limit'[t] = limit[t]

\* Which steps are calm: all but four.
LEMMA CalmSteps ==
    ASSUME HeaderKept, TypeInv, DataInv, [Next]_vars
    PROVE  Calm \/ \E t \in Threads : Claim(t) \/ ClaimFull(t) \/ Undo(t) \/ CallRecover(t)
<1> DEFINE header == mem'[Header].reserve = mem[Header].reserve
<1>0. /\ LocalsOK /\ mem[Header] \in HeaderType /\ Header \in Cells
      /\ \A t \in Threads : pc[t] = "trim" => op[t] = "trim"
  BY TypedFacts, CellFacts DEF TypeInv, DataInv, Know
<1>1. ASSUME Untouched(Header) PROVE header
  BY <1>1 DEF Untouched
<1>2. ASSUME NEW t \in Threads, header, NEW l \in PCs \ {"undo"}, pc' = [pc EXCEPT ![t] = l],
             UNCHANGED <<op, slot, limit, calls>>,
             l \in {"mark", "fields", "payload", "crc", "flush", "commit", "flush_state"} => Holding(t),
             l \in {"inspect", "abandon", "flush_abandon"} /\ op[t] = "recover" => Recovering(t)
      PROVE  Calm
  BY <1>0, <1>2 DEF LocalsOK, Calm, Holding, Recovering
<1>3. ASSUME NEW t \in Threads, MarkWriting(t) \/ Commit(t) \/ Abandon(t) PROVE Calm
  <2>1. \E s \in Slots, v \in States : StoreCell(HostOf[t], State(s), v)
    BY <1>0, <1>3 DEF MarkWriting, Commit, Abandon, LocalsOK, Slots, States
  <2>2. header
    BY <1>1, <2>1, StateStoreFacts
  <2> QED
    BY <1>2, <1>3, <2>2 DEF MarkWriting, Commit, Abandon, Goto, locals, budget, PCs, Holding, Recovering
<1>4. ASSUME NEW t \in Threads, WriteFields(t) \/ WritePayload(t) \/ WriteCrc(t) PROVE Calm
  <2>1. header
    BY <1>1, <1>4, WriteFacts
  <2> QED
    BY <1>2, <1>4, <2>1 DEF WriteFields, WritePayload, WriteCrc, Goto, locals, budget, PCs, Holding, Recovering
<1>5. ASSUME NEW t \in Threads, Cas(t) PROVE Calm
  <2>1. header
    <3>1. CASE mem[Header].committed = cur[t]
      <4>1. StoreCell(HostOf[t], Header, [mem[Header] EXCEPT !.committed = new[t]])
        BY <1>5, <3>1 DEF Cas
      <4>2. mem'[Header] = [mem[Header] EXCEPT !.committed = new[t]]
        BY <1>0, <4>1, StoreCellFacts DEF TypeInv, StoredBy
      <4> QED
        BY <1>0, <4>2 DEF HeaderType
    <3>2. CASE mem[Header].committed # cur[t]
      BY <1>5, <3>2 DEF Cas, Load
    <3> QED
      BY <3>1, <3>2
  <2>2. \E l \in {"return", "load"} : pc' = [pc EXCEPT ![t] = l]
    BY <1>5 DEF Cas, Goto
  <2>3. UNCHANGED <<op, slot, limit, calls>>
    BY <1>5 DEF Cas, locals, budget
  <2> QED
    BY <1>2, <2>1, <2>2, <2>3 DEF PCs
<1>6. ASSUME NEW t \in Threads, Storeless(t) PROVE Calm \/ CallRecover(t)
  <2>0. header
    BY <1>0, <1>1, <1>6, StorelessFacts
  <2>1. CASE FlushRecord(t) \/ FlushState(t)
    BY <1>2, <2>0, <2>1 DEF FlushRecord, FlushState, Goto, locals, budget, PCs, Holding
  <2>2. CASE LoadTail(t)
    BY <1>2, <2>0, <2>2 DEF LoadTail, Goto, budget, PCs
  <2>3. CASE Scan(t) \/ ScanEnd(t)
    <3>1. pc[t] = "scan" /\ \E l \in {"scan", "return", "cas"} : pc' = [pc EXCEPT ![t] = l]
      BY <1>0, <2>3 DEF Scan, ScanEnd, Goto, LocalsOK
    <3>2. UNCHANGED <<op, slot, limit, calls>>
      BY <2>3 DEF Scan, ScanEnd, locals, budget
    <3> QED
      BY <1>2, <2>0, <3>1, <3>2 DEF PCs
  <2>4. CASE Return(t)
    <3>1. /\ \A u \in Threads \ {t} : pc'[u] = pc[u] /\ op'[u] = op[u] /\ slot'[u] = slot[u] /\ limit'[u] = limit[u]
          /\ pc'[t] = "idle" /\ calls' = calls
      BY <2>4 DEF Return, Reset, budget
    <3> QED
      BY <1>0, <2>0, <3>1 DEF Calm, Holding, Recovering, LocalsOK
  <2>5. CASE Inspect(t) \/ TrimInspect(t)
    <3>1. \/ pc[t] = "inspect" /\ \E l \in {"inspect", "abandon"} : pc' = [pc EXCEPT ![t] = l]
          \/ pc[t] = "trim" /\ \E l \in {"trim", "abandon"} : pc' = [pc EXCEPT ![t] = l]
      BY <1>0, <2>5 DEF Inspect, TrimInspect, Goto, LocalsOK
    <3>2. UNCHANGED <<op, slot, limit, calls>>
      BY <2>5 DEF Inspect, TrimInspect, budget
    <3> QED
      BY <1>0, <1>2, <2>0, <3>1, <3>2 DEF PCs, Recovering
  <2>6. CASE RecoverPhase2(t) \/ TrimReturn(t)
    BY <1>2, <2>0, <2>6 DEF RecoverPhase2, TrimReturn, Goto, locals, budget, PCs
  <2>7. ASSUME NEW upTo \in 0 .. Capacity, CallTrim(t, upTo) PROVE Calm
    BY <1>0, <2>0, <2>7 DEF CallTrim, Call, Goto, Calm, Holding, Recovering, LocalsOK
  <2>8. ASSUME NEW upTo \in 0 .. Capacity, TrimBeyond(t, upTo) PROVE Calm
    BY <1>0, <2>0, <2>8 DEF TrimBeyond, Call, locals, Calm, Holding, Recovering, LocalsOK
  <2>9. CASE FlushAbandon(t)
    <3>1. pc[t] = "flush_abandon" /\ pc' = [pc EXCEPT ![t] = IF op[t] = "recover" THEN "inspect" ELSE "trim"]
      BY <2>9 DEF FlushAbandon, Goto
    <3>2. UNCHANGED <<op, slot, limit, calls>>
      BY <2>9 DEF FlushAbandon, budget
    <3> QED
      BY <1>2, <2>0, <3>1, <3>2 DEF PCs, Recovering
  <2> QED
    BY <1>6, <2>1, <2>2, <2>3, <2>4, <2>5, <2>6, <2>7, <2>8, <2>9 DEF Storeless, Recover, Trim
<1>7. ASSUME NEW h \in Hosts, Crash(h) PROVE Calm
  <2>1. LostWith(h, Header) /\ dirty[LineOf[Header]] # h
    BY <1>0, <1>7, CrashFacts DEF TypeInv, Crash
  <2>2. header
    BY <2>1 DEF LostWith
  <2>3. \A t \in Threads : \/ pc'[t] = "down"
                           \/ pc'[t] = pc[t] /\ op'[t] = op[t] /\ slot'[t] = slot[t] /\ limit'[t] = limit[t]
    BY <1>7 DEF Crash, Reset
  <2>4. calls' = calls
    BY <1>7 DEF Crash
  <2> QED
    BY <1>0, <2>2, <2>3, <2>4 DEF Calm, Holding, Recovering, LocalsOK
<1>8. ASSUME NEW h \in Hosts, Restart(h) PROVE Calm
  BY <1>0, <1>8 DEF Restart, memory, locals, budget, Calm, Holding, Recovering, LocalsOK
<1>9. ASSUME NEW l \in Lines, Evict(l) PROVE Calm
  <2>1. header
    BY <1>9 DEF Evict, Flush
  <2> QED
    BY <1>0, <1>9, <2>1 DEF Evict, locals, budget, Calm, Holding, Recovering, LocalsOK
<1>10. ASSUME UNCHANGED vars PROVE Calm
  BY <1>0, <1>10 DEF vars, memory, locals, budget, Calm, Holding, Recovering, LocalsOK
<1> QED
  BY <1>3, <1>4, <1>5, <1>6, <1>7, <1>8, <1>9, <1>10 DEF Next, Append, Advance, Storeless, Recover, Rest

\* fetch_add, as long as it does not wrap, and the one that takes it back.
LEMMA AddFacts ==
    ASSUME TypeInv, NEW t \in Threads, NEW d \in Nat, AddReserve(t, d)
    PROVE  /\ mem'[Header].reserve = (mem[Header].reserve + d) % U64
           /\ mem'[Header].committed = mem[Header].committed
<1>1. mem[Header] \in HeaderType
  BY TypedFacts DEF TypeInv
<1>2. StoreCell(HostOf[t], Header, [mem[Header] EXCEPT !.reserve = (@ + d) % U64])
  BY DEF AddReserve
<1>3. mem'[Header] = [mem[Header] EXCEPT !.reserve = (@ + d) % U64]
  BY <1>2, StoreCellFacts, CellFacts DEF TypeInv, StoredBy
<1> QED
  BY <1>1, <1>3 DEF HeaderType

\* A claim and its undo, as u64 additions.
LEMMA WrapFacts ==
    ASSUME NEW x \in 0 .. U64 - 1
    PROVE  /\ x + 1 < U64 => (x + 1) % U64 = x + 1
           /\ x > 0 => (x + (U64 - 1)) % U64 = x - 1
<1>1. \A y \in 0 .. U64 - 1 : y % U64 = y /\ (y + U64) % U64 = y
  OBVIOUS
<1>2. x > 0 => x + (U64 - 1) = (x - 1) + U64 /\ x - 1 \in 0 .. U64 - 1
  OBVIOUS
<1> QED
  BY <1>1, <1>2

\* Finitely many threads have an undo pending.
LEMMA UndoingFinite == IsFiniteSet(Undoing) /\ Cardinality(Undoing) \in Nat
<1>1. Undoing \subseteq Threads
  BY DEF Undoing
<1> QED
  BY <1>1, FS_Subset, FS_CardinalityType

\* ClaimInv is preserved, and a slot that was claimed stays below reserve_tail.
LEMMA ClaimNext ==
    ASSUME HeaderKept, Quiesced, CacheInv, [Next]_vars
    PROVE  ClaimInv' /\ \A s \in Slots : s >= mem'[Header].reserve => s >= mem[Header].reserve
<1> DEFINE r == mem[Header].reserve
           q == mem'[Header].reserve
<1>0. /\ TypeInv /\ DataInv /\ LocalsOK /\ ClaimInv /\ mem[Header] \in HeaderType
      /\ r \in 0 .. U64 - 1 /\ calls \in Nat /\ r <= calls
      /\ \A t \in Threads : slot[t] \in Nat /\ limit[t] \in Nat
  BY TypedFacts DEF CacheInv, TypeInv, LocalsOK, HeaderType, ClaimInv, Slots
<1>1. CASE Calm
  <2>1. Undoing' \subseteq Undoing
    BY <1>1 DEF Calm, Undoing
  <2>2. Cardinality(Undoing') <= Cardinality(Undoing) /\ Cardinality(Undoing') \in Nat
    BY <2>1, UndoingFinite, FS_Subset, FS_CardinalityType
  <2>3. q = r /\ calls <= calls' /\ calls' \in Nat
    BY <1>0, <1>1, TypeNext DEF Calm, TypeInv, LocalsOK
  <2>4. r <= calls'
    BY <1>0, <2>3
  <2>5. (r < Capacity => Undoing' = {}) /\ (r >= Capacity => Cardinality(Undoing') <= r - Capacity)
    BY <1>0, <2>1, <2>2, UndoingFinite DEF ClaimInv
  <2>6. /\ \A t \in Threads : Holding(t)' => slot'[t] < r
        /\ \A t, u \in Threads : Holding(t)' /\ Holding(u)' /\ t # u => slot'[t] # slot'[u]
        /\ \A t \in Threads : Recovering(t)' =>
             limit'[t] <= r /\ \A u \in Threads : Holding(u)' => slot'[u] >= limit'[t]
    BY <1>0, <1>1 DEF Calm, ClaimInv
  <2> QED
    BY <2>3, <2>4, <2>5, <2>6 DEF ClaimInv
<1>2. ASSUME NEW t \in Threads, Claim(t)
      PROVE  ClaimInv' /\ \A s \in Slots : s >= q => s >= r
  <2>1. r < Capacity /\ calls' = calls + 1 /\ calls < MaxCalls
    BY <1>2 DEF Claim, Call
  <2>2. q = r + 1
    <3>1. q = (r + 1) % U64
      BY <1>0, <1>2, AddFacts DEF Claim
    <3>2. r + 1 < U64
      BY <1>0, <2>1
    <3> QED
      BY <1>0, <3>1, <3>2, WrapFacts
  <2>3. /\ pc' = [pc EXCEPT ![t] = "mark"] /\ op' = [op EXCEPT ![t] = "append"]
        /\ slot' = [slot EXCEPT ![t] = r] /\ UNCHANGED limit
    BY <1>2 DEF Claim, Goto
  <2>4. Undoing' = {}
    BY <1>0, <2>1, <2>3 DEF ClaimInv, Undoing, LocalsOK
  <2>5. Cardinality(Undoing') = 0
    BY <2>4, FS_EmptySet
  <2>6. \A u \in Threads :
           Holding(u)' => \/ u = t /\ slot'[u] = r
                          \/ u # t /\ Holding(u) /\ slot'[u] = slot[u]
    <3>1. slot'[t] = r /\ \A u \in Threads \ {t} : slot'[u] = slot[u] /\ pc'[u] = pc[u]
      BY <1>0, <2>3 DEF LocalsOK
    <3> QED
      BY <3>1 DEF Holding
  <2>7. \A u \in Threads : Recovering(u)' => Recovering(u) /\ limit'[u] = limit[u]
    BY <1>0, <2>3 DEF Recovering, LocalsOK
  <2>8. \A u \in Threads : Holding(u)' => slot'[u] < r + 1
    BY <1>0, <2>6 DEF ClaimInv
  <2>9. \A u, w \in Threads : Holding(u)' /\ Holding(w)' /\ u # w => slot'[u] # slot'[w]
    BY <1>0, <2>6 DEF ClaimInv
  <2>10. \A u \in Threads : Recovering(u)' =>
             limit'[u] <= r + 1 /\ \A w \in Threads : Holding(w)' => slot'[w] >= limit'[u]
    BY <1>0, <2>6, <2>7 DEF ClaimInv
  <2>11. r + 1 <= calls' /\ (r + 1 >= Capacity => 0 <= r + 1 - Capacity)
    BY <1>0, <2>1
  <2>12. \A s \in Slots : s >= q => s >= r
    BY <1>0, <2>2 DEF Slots
  <2> QED
    BY <1>0, <2>2, <2>4, <2>5, <2>8, <2>9, <2>10, <2>11, <2>12 DEF ClaimInv
<1>3. ASSUME NEW t \in Threads, NEW l, pc' = [pc EXCEPT ![t] = l], UNCHANGED <<op, slot, limit>>,
             l \in {"idle", "undo"}
      PROVE  /\ \A u \in Threads : Holding(u)' => Holding(u) /\ slot'[u] = slot[u]
             /\ \A u \in Threads : Recovering(u)' => Recovering(u) /\ limit'[u] = limit[u]
  BY <1>0, <1>3 DEF Holding, Recovering, LocalsOK
<1>4. ASSUME NEW t \in Threads, ClaimFull(t)
      PROVE  ClaimInv' /\ \A s \in Slots : s >= q => s >= r
  <2>1. r >= Capacity /\ calls' = calls + 1 /\ calls < MaxCalls /\ pc[t] = "idle"
    BY <1>4 DEF ClaimFull, Call
  <2>2. q = r + 1
    <3>1. q = (r + 1) % U64
      BY <1>0, <1>4, AddFacts DEF ClaimFull
    <3>2. r + 1 < U64
      BY <1>0, <2>1
    <3> QED
      BY <1>0, <3>1, <3>2, WrapFacts
  <2>3. pc' = [pc EXCEPT ![t] = "undo"] /\ UNCHANGED <<op, slot, limit>>
    BY <1>4 DEF ClaimFull, Goto, locals
  <2>4. Undoing' = Undoing \cup {t} /\ t \notin Undoing
    BY <1>0, <2>1, <2>3 DEF Undoing, LocalsOK
  <2>5. Cardinality(Undoing') = Cardinality(Undoing) + 1
    BY <2>4, UndoingFinite, FS_AddElement
  <2>6. Cardinality(Undoing) <= r - Capacity
    BY <1>0, <2>1 DEF ClaimInv
  <2>7. Cardinality(Undoing') <= q - Capacity /\ q >= Capacity /\ q <= calls'
    BY <1>0, <2>1, <2>2, <2>5, <2>6, UndoingFinite
  <2>8. /\ \A u \in Threads : Holding(u)' => Holding(u) /\ slot'[u] = slot[u]
        /\ \A u \in Threads : Recovering(u)' => Recovering(u) /\ limit'[u] = limit[u]
    BY <1>3, <2>3
  <2>9. /\ \A u \in Threads : Holding(u)' => slot'[u] < q
        /\ \A u, w \in Threads : Holding(u)' /\ Holding(w)' /\ u # w => slot'[u] # slot'[w]
        /\ \A u \in Threads : Recovering(u)' =>
             limit'[u] <= q /\ \A w \in Threads : Holding(w)' => slot'[w] >= limit'[u]
    BY <1>0, <2>2, <2>8 DEF ClaimInv
  <2>10. \A s \in Slots : s >= q => s >= r
    BY <1>0, <2>2 DEF Slots
  <2> QED
    BY <1>0, <2>1, <2>2, <2>7, <2>9, <2>10 DEF ClaimInv
<1>5. ASSUME NEW t \in Threads, Undo(t)
      PROVE  ClaimInv' /\ \A s \in Slots : s >= q => s >= r
  <2>1. pc[t] = "undo" /\ pc' = [pc EXCEPT ![t] = "idle"] /\ UNCHANGED <<op, slot, limit, calls>>
    BY <1>5 DEF Undo, Goto, locals, budget
  <2>2. t \in Undoing /\ Undoing' = Undoing \ {t}
    BY <1>0, <2>1 DEF Undoing, LocalsOK
  <2>3. Cardinality(Undoing') = Cardinality(Undoing) - 1
    BY <2>2, UndoingFinite, FS_RemoveElement
  <2>4. Cardinality(Undoing') \in Nat
    BY <2>2, UndoingFinite, FS_RemoveElement, FS_CardinalityType
  <2>5. r >= Capacity /\ Cardinality(Undoing) <= r - Capacity
    BY <1>0, <2>2 DEF ClaimInv
  <2>6. r - 1 >= Capacity /\ Cardinality(Undoing') <= (r - 1) - Capacity
    BY <1>0, <2>3, <2>4, <2>5, UndoingFinite
  <2>7. q = r - 1
    <3>1. q = (r + (U64 - 1)) % U64
      <4>1. U64 - 1 \in Nat
        OBVIOUS
      <4> QED
        BY <1>0, <1>5, <4>1, AddFacts DEF Undo
    <3>2. r > 0
      BY <1>0, <2>6
    <3> QED
      BY <1>0, <3>1, <3>2, WrapFacts
  <2>8. /\ \A u \in Threads : Holding(u)' => Holding(u) /\ slot'[u] = slot[u] /\ slot[u] < Capacity
        /\ \A u \in Threads : Recovering(u)' => Recovering(u) /\ limit'[u] = limit[u] /\ limit[u] <= Capacity
    <3>1. \A u \in Threads : slot[u] < Capacity /\ limit[u] <= Capacity
      BY <1>0 DEF LocalsOK, Slots
    <3> QED
      BY <1>3, <2>1, <3>1
  <2>9. /\ \A u \in Threads : Holding(u)' => slot'[u] < q
        /\ \A u, w \in Threads : Holding(u)' /\ Holding(w)' /\ u # w => slot'[u] # slot'[w]
        /\ \A u \in Threads : Recovering(u)' =>
             limit'[u] <= q /\ \A w \in Threads : Holding(w)' => slot'[w] >= limit'[u]
    BY <1>0, <2>6, <2>7, <2>8 DEF ClaimInv
  <2>10. q <= calls'
    BY <1>0, <2>1, <2>7
  <2>11. \A s \in Slots : s >= q => s >= r
    BY <1>0, <2>6, <2>7 DEF Slots
  <2> QED
    BY <1>0, <2>6, <2>7, <2>9, <2>10, <2>11 DEF ClaimInv
<1>6. ASSUME NEW t \in Threads, CallRecover(t)
      PROVE  ClaimInv' /\ \A s \in Slots : s >= q => s >= r
  <2>1. /\ q = r /\ calls' = calls + 1 /\ \A u \in Threads : ~ Holding(u)
        /\ limit' = [limit EXCEPT ![t] = IF r <= Capacity THEN r ELSE Capacity]
        /\ pc' = [pc EXCEPT ![t] = "inspect"] /\ op' = [op EXCEPT ![t] = "recover"] /\ UNCHANGED slot
    BY <1>6 DEF CallRecover, Call, Goto, Load
  <2>2. \A u \in Threads : ~ Holding(u)'
    BY <1>0, <2>1 DEF Holding, LocalsOK
  <2>3. Undoing' \subseteq Undoing
    BY <1>0, <2>1 DEF Undoing, LocalsOK
  <2>4. Cardinality(Undoing') <= Cardinality(Undoing) /\ Cardinality(Undoing') \in Nat
    BY <2>3, UndoingFinite, FS_Subset, FS_CardinalityType
  <2>5. (r < Capacity => Undoing' = {}) /\ (r >= Capacity => Cardinality(Undoing') <= r - Capacity)
    BY <1>0, <2>3, <2>4, UndoingFinite DEF ClaimInv
  <2>6. \A u \in Threads : Recovering(u)' => limit'[u] <= r
    <3>1. limit'[t] <= r
      BY <1>0, <2>1 DEF LocalsOK
    <3>2. \A u \in Threads \ {t} : Recovering(u)' => Recovering(u) /\ limit'[u] = limit[u]
      BY <1>0, <2>1 DEF Recovering, LocalsOK
    <3> QED
      BY <1>0, <3>1, <3>2 DEF ClaimInv
  <2>7. r <= calls'
    BY <1>0, <2>1
  <2> QED
    BY <2>1, <2>2, <2>5, <2>6, <2>7 DEF ClaimInv
<1>7. Calm => \A s \in Slots : s >= q => s >= r
  BY DEF Calm
<1> QED
  BY <1>0, <1>1, <1>2, <1>4, <1>5, <1>6, <1>7, CalmSteps

-----------------------------------------------------------------------------
(* What survives a step. *)

\* Neither stored into, nor lost with another host than h.
Gentle(h, c) == Untouched(c) \/ \E g \in Hosts \ {h} : LostWith(g, c)

\* Not stored into.
Mild(c) == Untouched(c) \/ \E g \in Hosts : LostWith(g, c)

\* Records have their cells for themselves.
LEMMA RecordsApart ==
    ASSUME NEW s \in Slots
    PROVE  /\ RecordCells(s) \subseteq Cells /\ Header \notin RecordCells(s)
           /\ State(s) \in RecordCells(s) /\ Meta(s) \in RecordCells(s) \ {State(s)}
           /\ \A k \in 0 .. PayloadCells - 1 : Body(s, k) \in RecordCells(s) \ {State(s)}
           /\ \A r \in Slots \ {s} : \A c \in RecordCells(r) : c \notin RecordCells(s)
<1>1. \A r \in Slots : \A c \in RecordCells(r) :
         c = State(r) \/ c = Meta(r) \/ \E k \in 0 .. PayloadCells - 1 : c = Body(r, k)
  BY DEF RecordCells
<1>2. \A r \in Slots \ {s} : \A c \in RecordCells(r) : c \notin RecordCells(s)
  BY <1>1, CellFacts
<1>3. RecordCells(s) \subseteq Cells /\ Header \notin RecordCells(s)
  BY <1>1, CellFacts
<1>4. /\ State(s) \in RecordCells(s) /\ Meta(s) \in RecordCells(s)
      /\ \A k \in 0 .. PayloadCells - 1 : Body(s, k) \in RecordCells(s)
  BY DEF RecordCells
<1> QED
  BY <1>2, <1>3, <1>4, CellFacts

\* A mild step leaves one of the two contents a cell had.
LEMMA MildFacts ==
    ASSUME NEW c, Mild(c)
    PROVE  /\ mem'[c] \in {mem[c], media[c]} /\ media'[c] \in {mem[c], media[c]}
           /\ media[c] = mem[c] => mem'[c] = mem[c] /\ media'[c] = mem[c]
  BY DEF Mild, Untouched, LostWith

\* What keeps the cells of host h also only writes back or loses.
LEMMA GentleIsMild ==
    ASSUME NEW h, NEW c, Gentle(h, c)
    PROVE  Mild(c)
  BY DEF Gentle, Mild

\* What host h stored or flushed is not lost with another host.
LEMMA KeptFacts ==
    ASSUME NEW h, NEW c, Gentle(h, c), Kept(h, c)
    PROVE  mem'[c] = mem[c] /\ Kept(h, c)'
  BY DEF Gentle, Kept, Untouched, LostWith

\* A state byte settled for h stays so, too.
LEMMA SettledFacts ==
    ASSUME NEW h, NEW s, Gentle(h, State(s)), Settled(h, s)
    PROVE  Settled(h, s)'
  BY DEF Gentle, Settled, Untouched, LostWith

\* A final state is final in the cache and on the media.
LEMMA FinalFacts ==
    ASSUME NEW s, Mild(State(s)), Final(s)
    PROVE  Final(s)'
<1>1. mem'[State(s)] \in {mem[State(s)], media[State(s)]} /\ media'[State(s)] \in {mem[State(s)], media[State(s)]}
  BY MildFacts
<1> QED
  BY <1>1 DEF Final

\* What is whole stays so, whatever is lost.
LEMMA SealedFacts ==
    ASSUME NEW s \in Slots, \A c \in RecordCells(s) \ {State(s)} : Mild(c)
    PROVE  /\ Whole(s) => Whole(s)' /\ mem'[Meta(s)] = mem[Meta(s)]
           /\ \A n : Sealed(s, n) => Sealed(s, n)'
<1>1. ASSUME Whole(s) PROVE Whole(s)' /\ mem'[Meta(s)] = mem[Meta(s)]
  <2>1. \A c \in RecordCells(s) \ {State(s)} : mem'[c] = mem[c] /\ media'[c] = mem[c]
    BY <1>1, MildFacts DEF Whole
  <2>2. mem'[Meta(s)] = mem[Meta(s)] /\ \A k \in 0 .. PayloadCells - 1 : mem'[Body(s, k)] = mem[Body(s, k)]
    BY <2>1, RecordsApart
  <2>3. Verify(s)'
    BY <1>1, <2>2 DEF Whole, Verify
  <2> QED
    BY <2>1, <2>2, <2>3 DEF Whole
<1>2. ASSUME NEW n, Sealed(s, n) PROVE Sealed(s, n)'
  BY <1>1, <1>2 DEF Sealed
<1> QED
  BY <1>1, <1>2

\* What a state byte says of its record outlives every mild step.
LEMMA RecordKept ==
    ASSUME NEW s \in Slots, Record(s), \A c \in RecordCells(s) : Mild(c),
           s >= mem'[Header].reserve => s >= mem[Header].reserve
    PROVE  Record(s)'
<1>1. mem'[State(s)] \in {mem[State(s)], media[State(s)]} /\ media'[State(s)] \in {mem[State(s)], media[State(s)]}
  BY MildFacts, RecordsApart
<1>2. Whole(s) => Whole(s)'
  BY SealedFacts
<1> QED
  BY <1>1, <1>2 DEF Record

\* So does what is known of an acknowledged append ...
LEMMA AckedStays ==
    ASSUME NEW a, AckedOK(a), \A c \in RecordCells(a.slot) : Mild(c)
    PROVE  AckedOK(a)'
<1>1. PICK s \in Slots : s = a.slot
  BY DEF AckedOK
<1>2. Mild(State(s)) /\ Final(s) /\ Sealed(s, a.id)
  BY <1>1, RecordsApart DEF AckedOK
<1>3. Final(s)' /\ Sealed(s, a.id)'
  BY <1>1, <1>2, FinalFacts, SealedFacts
<1> QED
  BY <1>1, <1>3 DEF AckedOK

\* ... and of a record that was dropped.
LEMMA DroppedKept ==
    ASSUME NEW s, DroppedOK(s), Mild(State(s))
    PROVE  DroppedOK(s)'
<1>1. mem'[State(s)] \in {mem[State(s)], media[State(s)]} /\ media'[State(s)] \in {mem[State(s)], media[State(s)]}
  BY MildFacts
<1> QED
  BY <1>1 DEF DroppedOK

\* A thread that does not step goes on knowing what it knew, if the step stores into no
\* record the thread works on, and loses no cache of its host.
LEMMA KnowKept ==
    ASSUME TypeInv, NEW u \in Threads, Know(u),
           pc'[u] = pc[u], op'[u] = op[u], id'[u] = id[u], slot'[u] = slot[u], cursor'[u] = cursor[u],
           NEW R \in SUBSET Slots,
           \A s \in Slots \ R : \A c \in RecordCells(s) : Gentle(HostOf[u], c),
           Holding(u) \/ Appended(u) => slot[u] \notin R,
           pc[u] = "flush_abandon" \/ (pc[u] = "abandon" /\ op[u] = "trim") => cursor[u] \notin R
    PROVE  Know(u)'
<1> DEFINE h == HostOf[u]
<1>1. PICK s \in Slots : s = slot[u]
  BY DEF TypeInv, LocalsOK
<1>2. PICK x : x = cursor[u]
  OBVIOUS
<1>3. pc[u] \in {"abandon", "flush_abandon"} => x \in Slots
  BY <1>2 DEF TypeInv, LocalsOK, Slots
<1>4. ASSUME Holding(u) \/ Appended(u)
      PROVE  \A c \in RecordCells(s) : Gentle(h, c) /\ Mild(c)
  BY <1>1, <1>4, GentleIsMild
<1>5. /\ Early(u) => id'[u] # 0 /\ mem'[State(s)] \notin Ended /\ media'[State(s)] \notin Ended
  <2> SUFFICES ASSUME Early(u)
               PROVE  id'[u] # 0 /\ mem'[State(s)] \notin Ended /\ media'[State(s)] \notin Ended
    OBVIOUS
  <2>1. Holding(u)
    BY DEF Early, Holding
  <2>2. mem'[State(s)] \in {mem[State(s)], media[State(s)]} /\ media'[State(s)] \in {mem[State(s)], media[State(s)]}
    BY <1>4, <2>1, MildFacts, RecordsApart
  <2> QED
    BY <1>1, <2>2 DEF Know
<1>6. pc[u] \in {"payload", "crc", "flush"} =>
         /\ mem'[Meta(s)] = mem[Meta(s)] /\ mem'[Meta(s)].fields = id[u] /\ Kept(h, Meta(s))'
  <2> SUFFICES ASSUME pc[u] \in {"payload", "crc", "flush"}
               PROVE  /\ mem'[Meta(s)] = mem[Meta(s)] /\ mem'[Meta(s)].fields = id[u] /\ Kept(h, Meta(s))'
    OBVIOUS
  <2>1. Holding(u) /\ mem[Meta(s)].fields = id[u] /\ Kept(h, Meta(s))
    BY <1>1 DEF Holding, Know
  <2>2. Gentle(h, Meta(s))
    BY <1>4, <2>1, RecordsApart
  <2> QED
    BY <2>1, <2>2, KeptFacts
<1>7. pc[u] \in {"crc", "flush"} =>
         \A k \in 0 .. PayloadCells - 1 : mem'[Body(s, k)] = id[u] /\ Kept(h, Body(s, k))'
  <2> SUFFICES ASSUME pc[u] \in {"crc", "flush"}, NEW k \in 0 .. PayloadCells - 1
               PROVE  mem'[Body(s, k)] = id[u] /\ Kept(h, Body(s, k))'
    OBVIOUS
  <2>1. Holding(u) /\ mem[Body(s, k)] = id[u] /\ Kept(h, Body(s, k))
    BY <1>1 DEF Holding, Know
  <2>2. Gentle(h, Body(s, k))
    BY <1>4, <2>1, RecordsApart
  <2> QED
    BY <2>1, <2>2, KeptFacts
<1>8. pc[u] \in {"commit", "flush_state"} \/ Appended(u) => Sealed(s, id[u])'
  <2> SUFFICES ASSUME pc[u] \in {"commit", "flush_state"} \/ Appended(u) PROVE Sealed(s, id[u])'
    OBVIOUS
  <2>1. PICK n : n = id[u]
    OBVIOUS
  <2>2. Sealed(s, n) /\ (Holding(u) \/ Appended(u))
    BY <1>1, <2>1 DEF Holding, Know
  <2>3. Sealed(s, n)'
    BY <1>4, <2>2, SealedFacts
  <2> QED
    BY <2>1, <2>3
<1>9. pc[u] = "flush_state" => Settled(h, s)'
  BY <1>1, <1>4, RecordsApart, SettledFacts DEF Holding, Know
<1>10. Appended(u) => Final(s)'
  BY <1>1, <1>4, RecordsApart, FinalFacts DEF Know
<1>11. pc[u] = "abandon" /\ op[u] = "trim" => Settled(h, x)'
  BY <1>2, <1>3, RecordsApart, SettledFacts DEF Know
<1>12. pc[u] = "flush_abandon" => mem'[State(x)] = "ABANDONED" /\ Kept(h, State(x))'
  <2> SUFFICES ASSUME pc[u] = "flush_abandon" PROVE mem'[State(x)] = "ABANDONED" /\ Kept(h, State(x))'
    OBVIOUS
  <2>1. x \in Slots \ R /\ mem[State(x)] = "ABANDONED" /\ Kept(h, State(x))
    BY <1>2, <1>3 DEF Know
  <2>2. Gentle(h, State(x))
    BY <2>1, RecordsApart
  <2> QED
    BY <2>1, <2>2, KeptFacts
<1> QED
  BY <1>1, <1>2, <1>5, <1>6, <1>7, <1>8, <1>9, <1>10, <1>11, <1>12 DEF Know, Early, Appended

\* A step of t leaves the locals of the others alone.
OthersLocals(t) ==
    \A u \in Threads \ {t} :
        /\ pc'[u] = pc[u] /\ op'[u] = op[u] /\ id'[u] = id[u] /\ slot'[u] = slot[u]
        /\ cursor'[u] = cursor[u] /\ cur'[u] = cur[u] /\ new'[u] = new[u]

\* No slot loses the claim on it (ClaimNext).
ClaimsStay == \A s \in Slots : s >= mem'[Header].reserve => s >= mem[Header].reserve

\* A step that stores into no record preserves DataInv, if what it adds to the history and
\* to the knowledge of its thread is true.
LEMMA QuietStep ==
    ASSUME CacheInv, ClaimsStay, NEW t \in Threads, OthersLocals(t), Know(t)',
           \A c \in Cells \ {Header} : Untouched(c),
           \A a \in acked' : a \in acked \/ AckedOK(a)',
           \A s \in dropped' : s \in dropped \/ DroppedOK(s)'
    PROVE  DataInv'
<1>0. /\ TypeInv /\ \A u \in Threads : Know(u)
      /\ \A s \in Slots : Record(s)
      /\ \A a \in acked : AckedOK(a)
      /\ \A s \in dropped : DroppedOK(s)
  BY DEF CacheInv, DataInv
<1>1. \A h : \A s \in Slots : \A c \in RecordCells(s) : Gentle(h, c) /\ Mild(c)
  BY RecordsApart DEF Gentle, Mild
<1>2. ASSUME NEW u \in Threads PROVE Know(u)'
  <2>1. CASE u = t
    BY <2>1
  <2>2. CASE u # t
    <3>1. /\ pc'[u] = pc[u] /\ op'[u] = op[u] /\ id'[u] = id[u] /\ slot'[u] = slot[u]
          /\ cursor'[u] = cursor[u]
      BY <2>2 DEF OthersLocals
    <3>2. {} \in SUBSET Slots /\ \A s \in Slots \ {} : \A c \in RecordCells(s) : Gentle(HostOf[u], c)
      BY <1>1
    <3> QED
      BY <1>0, <3>1, <3>2, KnowKept
  <2> QED
    BY <2>1, <2>2
<1>3. ASSUME NEW s \in Slots PROVE Record(s)'
  BY <1>0, <1>1, RecordKept DEF ClaimsStay
<1>4. ASSUME NEW a \in acked PROVE AckedOK(a)'
  <2>1. AckedOK(a) /\ a.slot \in Slots
    BY <1>0 DEF AckedOK
  <2> QED
    BY <1>1, <2>1, AckedStays
<1>5. ASSUME NEW s \in dropped PROVE DroppedOK(s)'
  <2>1. DroppedOK(s) /\ s \in Slots
    BY <1>0 DEF DroppedOK
  <2> QED
    BY <1>1, <2>1, DroppedKept, RecordsApart
<1> QED
  BY <1>2, <1>3, <1>4, <1>5 DEF DataInv

\* A step of append that stores into its own record, which has not ended yet, preserves
\* DataInv, if it does so for the thread and the record.
LEMMA OwnRecordStep ==
    ASSUME CacheInv, ClaimsStay, NEW t \in Threads, NEW s \in Slots, s = slot[t], Early(t),
           OthersLocals(t), UNCHANGED history,
           \A c \in Cells \ RecordCells(s) : Untouched(c),
           Know(t)', Record(s)'
    PROVE  DataInv'
<1>0. /\ TypeInv /\ ClaimInv /\ \A u \in Threads : Know(u)
      /\ \A r \in Slots : Record(r)
      /\ \A a \in acked : AckedOK(a)
      /\ \A r \in dropped : DroppedOK(r)
  BY DEF CacheInv, DataInv
<1>1. \A h : \A r \in Slots \ {s} : \A c \in RecordCells(r) : Gentle(h, c) /\ Mild(c)
  BY RecordsApart DEF Gentle, Mild
<1>2. mem[State(s)] \notin Ended /\ Holding(t)
  BY <1>0 DEF Know, Early, Holding
<1>3. ASSUME NEW u \in Threads \ {t} PROVE Know(u)'
  <2>1. /\ pc'[u] = pc[u] /\ op'[u] = op[u] /\ id'[u] = id[u] /\ slot'[u] = slot[u]
        /\ cursor'[u] = cursor[u] /\ Know(u)
    BY <1>0 DEF OthersLocals
  <2>2. Holding(u) \/ Appended(u) => slot[u] \notin {s}
    BY <1>0, <1>2, <2>1 DEF ClaimInv, Know, Final
  <2>3. pc[u] = "flush_abandon" \/ (pc[u] = "abandon" /\ op[u] = "trim") => cursor[u] \notin {s}
    BY <1>2, <2>1 DEF Know, Settled, Ended
  <2>4. {s} \in SUBSET Slots
    OBVIOUS
  <2> QED
    BY <1>0, <1>1, <2>1, <2>2, <2>3, <2>4, KnowKept
<1>4. ASSUME NEW r \in Slots \ {s} PROVE Record(r)'
  BY <1>0, <1>1, RecordKept DEF ClaimsStay
<1>5. ASSUME NEW a \in acked PROVE AckedOK(a)'
  <2>1. AckedOK(a) /\ a.slot \in Slots \ {s}
    BY <1>0, <1>2 DEF AckedOK, Final
  <2> QED
    BY <1>1, <2>1, AckedStays
<1>6. ASSUME NEW r \in dropped PROVE DroppedOK(r)'
  <2>1. DroppedOK(r) /\ r \in Slots \ {s}
    BY <1>0, <1>2 DEF DroppedOK, Ended
  <2> QED
    BY <1>1, <2>1, DroppedKept, RecordsApart
<1> QED
  BY <1>3, <1>4, <1>5, <1>6 DEF DataInv, history

\* The stores of append into its record preserve DataInv.
LEMMA AppendStores ==
    ASSUME CacheInv, ClaimsStay, NEW t \in Threads,
           MarkWriting(t) \/ WriteFields(t) \/ WritePayload(t) \/ WriteCrc(t) \/ Commit(t)
    PROVE  DataInv'
<1> DEFINE h == HostOf[t]
<1>1. PICK s \in Slots : s = slot[t]
  BY DEF CacheInv, TypeInv, LocalsOK
<1>2. PICK n : n = id[t]
  OBVIOUS
<1>3. /\ TypeInv /\ LocalsOK /\ Know(t) /\ Record(s) /\ Early(t) /\ Holding(t) /\ h \in Hosts
      /\ ClaimInv /\ n \in Nat
  BY <1>1, <1>2 DEF CacheInv, TypeInv, LocalsOK, DataInv, Early, Holding,
                    MarkWriting, WriteFields, WritePayload, WriteCrc, Commit
<1>4. UNCHANGED <<op, id, slot, cursor, cur, new, history>> /\ \E l \in PCs : pc' = [pc EXCEPT ![t] = l]
  BY DEF MarkWriting, WriteFields, WritePayload, WriteCrc, Commit, Goto, locals, PCs
<1>5. OthersLocals(t) /\ slot'[t] = s /\ id'[t] = n
  BY <1>1, <1>2, <1>3, <1>4 DEF OthersLocals, LocalsOK
<1>6. n # 0 /\ mem[State(s)] \notin Ended /\ media[State(s)] \notin Ended
  BY <1>1, <1>2, <1>3 DEF Know
<1>7. ~ (s >= mem[Header].reserve) /\ ~ (s >= mem'[Header].reserve)
  <2>1. mem[Header].reserve \in Nat
    BY <1>3, TypedFacts DEF TypeInv, HeaderType
  <2>2. ~ (s >= mem[Header].reserve)
    BY <1>1, <1>3, <2>1 DEF ClaimInv, Slots
  <2> QED
    BY <2>2 DEF ClaimsStay
<1>8. CASE MarkWriting(t)
  <2>1. pc[t] = "mark" /\ pc'[t] = "fields" /\ StoreCell(h, State(s), "WRITING")
    BY <1>1, <1>3, <1>8 DEF MarkWriting, Goto, LocalsOK
  <2>2. (\A c \in Cells \ {State(s)} : Untouched(c)) /\ StoredBy(h, State(s), "WRITING")
    BY <1>3, <2>1, StateStoreFacts
  <2>3. mem'[State(s)] = "WRITING" /\ media'[State(s)] \notin Ended
    BY <1>6, <2>2 DEF StoredBy
  <2>4. Know(t)'
    BY <1>5, <1>6, <2>1, <2>3 DEF Know, Ended, Early, Appended
  <2>5. Record(s)'
    BY <1>7, <2>3 DEF Record, Ended
  <2>6. \A c \in Cells \ RecordCells(s) : Untouched(c)
    BY <2>2, RecordsApart
  <2> QED
    BY <1>1, <1>3, <1>4, <1>5, <2>4, <2>5, <2>6, OwnRecordStep
<1>9. CASE WriteFields(t) \/ WritePayload(t) \/ WriteCrc(t)
  <2>1. /\ \A c \in Cells \ RecordCells(s) : Untouched(c)
        /\ Untouched(State(s))
    BY <1>1, <1>3, <1>9, WriteFacts
  <2>2. mem'[State(s)] \notin Ended /\ media'[State(s)] \notin Ended
    BY <1>6, <2>1 DEF Untouched
  <2>3. Record(s)'
    BY <1>7, <2>2 DEF Record, Ended
  <2>4. mem[Meta(s)] \in MetaType
    BY <1>3, TypedFacts DEF TypeInv
  <2>5. Know(t)'
    <3>1. CASE WriteFields(t)
      <4>1. pc'[t] = "payload"
        BY <1>3, <3>1 DEF WriteFields, Goto, LocalsOK
      <4>2. StoredBy(h, Meta(s), [mem[Meta(s)] EXCEPT !.fields = n])
        BY <1>1, <1>2, <1>3, <3>1, WriteFacts
      <4>3. mem'[Meta(s)].fields = n /\ Kept(h, Meta(s))'
        BY <2>4, <4>2 DEF StoredBy, Kept, MetaType
      <4> QED
        BY <1>5, <1>6, <2>2, <4>1, <4>3 DEF Know, Early, Appended
    <3>2. CASE WritePayload(t)
      <4>1. pc[t] = "payload" /\ pc'[t] = "crc" /\ mem[Meta(s)].fields = n /\ Kept(h, Meta(s))
        BY <1>1, <1>2, <1>3, <3>2 DEF WritePayload, Goto, LocalsOK, Know
      <4>2. Untouched(Meta(s)) /\ \A k \in 0 .. PayloadCells - 1 : StoredBy(h, Body(s, k), n)
        BY <1>1, <1>2, <1>3, <3>2, WriteFacts
      <4>3. mem'[Meta(s)].fields = n /\ Kept(h, Meta(s))'
        BY <4>1, <4>2, KeptFacts DEF Gentle
      <4>4. \A k \in 0 .. PayloadCells - 1 : mem'[Body(s, k)] = n /\ Kept(h, Body(s, k))'
        BY <4>2 DEF StoredBy, Kept
      <4> QED
        BY <1>5, <1>6, <2>2, <4>1, <4>3, <4>4 DEF Know, Early, Appended
    <3>3. CASE WriteCrc(t)
      <4>1. /\ pc[t] = "crc" /\ pc'[t] = "flush" /\ mem[Meta(s)].fields = n
            /\ \A k \in 0 .. PayloadCells - 1 : mem[Body(s, k)] = n /\ Kept(h, Body(s, k))
        BY <1>1, <1>2, <1>3, <3>3 DEF WriteCrc, Goto, LocalsOK, Know
      <4>2. /\ StoredBy(h, Meta(s), [mem[Meta(s)] EXCEPT !.crc = n])
            /\ \A k \in 0 .. PayloadCells - 1 : Untouched(Body(s, k))
        BY <1>1, <1>2, <1>3, <3>3, WriteFacts
      <4>3. mem'[Meta(s)].fields = n /\ mem'[Meta(s)].crc = n /\ Kept(h, Meta(s))'
        BY <2>4, <4>1, <4>2 DEF StoredBy, Kept, MetaType
      <4>4. \A k \in 0 .. PayloadCells - 1 : mem'[Body(s, k)] = n /\ Kept(h, Body(s, k))'
        BY <4>1, <4>2, KeptFacts DEF Gentle
      <4> QED
        BY <1>5, <1>6, <2>2, <4>1, <4>3, <4>4 DEF Know, Early, Appended
    <3> QED
      BY <1>9, <3>1, <3>2, <3>3
  <2> QED
    BY <1>1, <1>3, <1>4, <1>5, <2>1, <2>3, <2>5, OwnRecordStep
<1>10. CASE Commit(t)
  <2>1. pc[t] = "commit" /\ pc'[t] = "flush_state" /\ StoreCell(h, State(s), "COMMITTED") /\ Sealed(s, n)
    BY <1>1, <1>2, <1>3, <1>10 DEF Commit, Goto, LocalsOK, Know
  <2>2. (\A c \in Cells \ {State(s)} : Untouched(c)) /\ StoredBy(h, State(s), "COMMITTED")
    BY <1>3, <2>1, StateStoreFacts
  <2>3. Settled(h, s)'
    BY <2>2 DEF StoredBy, Settled, Ended
  <2>4. Sealed(s, n)' /\ Whole(s)'
    <3>1. \A c \in RecordCells(s) \ {State(s)} : Mild(c)
      BY <2>2, RecordsApart DEF Mild
    <3> QED
      BY <2>1, <3>1, SealedFacts DEF Sealed
  <2>5. Know(t)'
    BY <1>5, <2>1, <2>3, <2>4 DEF Know, Early, Appended
  <2>6. Record(s)'
    BY <1>7, <2>4 DEF Record
  <2>7. \A c \in Cells \ RecordCells(s) : Untouched(c)
    BY <2>2, RecordsApart
  <2> QED
    BY <1>1, <1>3, <1>4, <1>5, <2>5, <2>6, <2>7, OwnRecordStep
<1> QED
  BY <1>8, <1>9, <1>10

\* What a thread knows after a step to a place where it holds no slot and abandons none.
LEMMA PlainKnow ==
    ASSUME CacheInv, NEW t \in Threads, \A c \in Cells \ {Header} : Untouched(c),
           pc'[t] \in {"idle", "undo", "load", "scan", "cas", "return", "inspect", "trim"},
           pc'[t] = "inspect" => op'[t] = "recover",
           pc'[t] = "trim" => op'[t] = "trim",
           Appended(t)' => Appended(t) /\ slot'[t] = slot[t] /\ id'[t] = id[t]
    PROVE  Know(t)'
<1>1. PICK s \in Slots : s = slot[t]
  BY DEF CacheInv, TypeInv, LocalsOK
<1>2. PICK n : n = id[t]
  OBVIOUS
<1>3. ASSUME Appended(t)' PROVE slot'[t] = s /\ id'[t] = n /\ Sealed(s, n)' /\ Final(s)'
  <2>1. Sealed(s, n) /\ Final(s) /\ slot'[t] = s /\ id'[t] = n
    BY <1>1, <1>2, <1>3 DEF CacheInv, DataInv, Know
  <2>2. \A c \in RecordCells(s) : Mild(c)
    BY RecordsApart DEF Mild
  <2> QED
    BY <2>1, <2>2, RecordsApart, SealedFacts, FinalFacts
<1> QED
  BY <1>3 DEF Know, Early

\* The steps that store into no record preserve DataInv: those of append ...
LEMMA AppendQuiet ==
    ASSUME CacheInv, ClaimsStay, NEW t \in Threads,
           Claim(t) \/ ClaimFull(t) \/ Undo(t) \/ FlushRecord(t) \/ FlushState(t)
    PROVE  DataInv'
<1> DEFINE h == HostOf[t]
<1>0. /\ TypeInv /\ MemInv /\ LocalsOK /\ ClaimInv /\ Know(t) /\ h \in Hosts
      /\ \A s \in Slots : Record(s)
  BY DEF CacheInv, TypeInv, DataInv
<1>1. \A c \in Cells \ {Header} : Untouched(c)
  BY <1>0, HeaderStoreFacts, StorelessFacts DEF Storeless
<1>2. UNCHANGED history
  BY DEF Claim, ClaimFull, Undo, FlushRecord, FlushState
<1>3. ASSUME Know(t)', OthersLocals(t) PROVE DataInv'
  BY <1>1, <1>2, <1>3, QuietStep DEF history
<1>4. CASE Claim(t)
  <2>1. PICK r \in Slots : r = mem[Header].reserve
    <3>1. mem[Header] \in HeaderType
      BY <1>0, TypedFacts DEF TypeInv
    <3> QED
      BY <1>4, <3>1 DEF Claim, HeaderType, Slots
  <2>2. /\ pc' = [pc EXCEPT ![t] = "mark"] /\ op' = [op EXCEPT ![t] = "append"]
        /\ slot' = [slot EXCEPT ![t] = r] /\ id' = [id EXCEPT ![t] = calls + 1]
        /\ UNCHANGED <<cursor, cur, new>>
    BY <1>4, <2>1 DEF Claim, Goto
  <2>3. OthersLocals(t) /\ pc'[t] = "mark" /\ slot'[t] = r /\ id'[t] = calls + 1
    BY <1>0, <2>2 DEF OthersLocals, LocalsOK
  <2>4. mem[State(r)] = "FREE" /\ media[State(r)] = "FREE"
    BY <1>0, <2>1 DEF Record, Slots
  <2>5. mem'[State(r)] = "FREE" /\ media'[State(r)] = "FREE"
    BY <1>1, <2>4, CellFacts DEF Untouched
  <2>6. id'[t] # 0
    BY <1>0, <2>3 DEF LocalsOK
  <2>7. Know(t)'
    BY <2>3, <2>5, <2>6 DEF Know, Early, Appended, Ended
  <2> QED
    BY <1>3, <2>3, <2>7
<1>5. CASE ClaimFull(t) \/ Undo(t)
  <2>1. UNCHANGED locals /\ \E l \in {"idle", "undo"} : pc' = [pc EXCEPT ![t] = l]
    BY <1>5 DEF ClaimFull, Undo, Goto
  <2>2. OthersLocals(t) /\ pc'[t] \in {"idle", "undo"}
    BY <1>0, <2>1 DEF OthersLocals, LocalsOK, locals
  <2>3. Know(t)'
    BY <1>1, <2>2, PlainKnow DEF Appended
  <2> QED
    BY <1>3, <2>2, <2>3
<1>6. PICK s \in Slots : s = slot[t]
  BY <1>0 DEF LocalsOK
<1>7. PICK n : n = id[t]
  OBVIOUS
<1>8. CASE FlushRecord(t)
  <2>1. /\ pc[t] = "flush" /\ UNCHANGED locals /\ pc' = [pc EXCEPT ![t] = "commit"]
        /\ Flush(FlushLines(RecordOffset(s), RecordSize))
    BY <1>6, <1>8 DEF FlushRecord, Goto
  <2>2. OthersLocals(t) /\ pc'[t] = "commit" /\ slot'[t] = s /\ id'[t] = n
    BY <1>0, <1>6, <1>7, <2>1 DEF OthersLocals, LocalsOK, locals
  <2>3. \A c \in RecordCells(s) : media'[c] = mem[c] /\ mem'[c] = mem[c]
    <3>1. \A c \in Cells : LineOf[c] \in FlushLines(RecordOffset(s), RecordSize) => media'[c] = mem[c]
      BY <1>0, <2>1, FlushFacts
    <3>2. mem' = mem
      BY <2>1 DEF Flush
    <3> QED
      BY <3>1, <3>2, LineFacts, RecordsApart
  <2>4. /\ n # 0 /\ mem[State(s)] \notin Ended /\ mem[Meta(s)].fields = n /\ mem[Meta(s)].crc = n
        /\ \A k \in 0 .. PayloadCells - 1 : mem[Body(s, k)] = n
    BY <1>0, <1>6, <1>7, <2>1 DEF Know, Early
  <2>5. Sealed(s, n)'
    BY <2>3, <2>4, RecordsApart DEF Sealed, Whole, Verify
  <2>6. mem'[State(s)] \notin Ended /\ media'[State(s)] \notin Ended
    BY <2>3, <2>4, RecordsApart
  <2>7. Know(t)'
    BY <2>2, <2>4, <2>5, <2>6 DEF Know, Early, Appended
  <2> QED
    BY <1>3, <2>2, <2>7
<1>9. CASE FlushState(t)
  <2>1. /\ pc[t] = "flush_state" /\ UNCHANGED locals /\ pc' = [pc EXCEPT ![t] = "load"]
        /\ Flush(FlushLines(RecordOffset(s), Line))
    BY <1>6, <1>9 DEF FlushState, Goto
  <2>2. OthersLocals(t) /\ pc'[t] = "load" /\ slot'[t] = s /\ id'[t] = n
    BY <1>0, <1>6, <1>7, <2>1 DEF OthersLocals, LocalsOK, locals
  <2>3. media'[State(s)] = mem[State(s)] /\ mem'[State(s)] = mem[State(s)]
    <3>1. \A c \in Cells : LineOf[c] \in FlushLines(RecordOffset(s), Line) => media'[c] = mem[c]
      BY <1>0, <2>1, FlushFacts
    <3>2. mem' = mem
      BY <2>1 DEF Flush
    <3> QED
      BY <3>1, <3>2, LineFacts, CellFacts
  <2>4. Sealed(s, n) /\ Settled(h, s)
    BY <1>0, <1>6, <1>7, <2>1 DEF Know
  <2>5. Final(s)'
    BY <2>3, <2>4 DEF Final, Settled
  <2>6. Sealed(s, n)'
    <3>1. \A c \in RecordCells(s) \ {State(s)} : Mild(c)
      BY <1>1, RecordsApart DEF Mild
    <3> QED
      BY <2>4, <3>1, SealedFacts
  <2>7. Know(t)'
    BY <2>2, <2>5, <2>6 DEF Know, Early, Appended
  <2> QED
    BY <1>3, <2>2, <2>7
<1> QED
  BY <1>4, <1>5, <1>8, <1>9

\* ... those of advance_committed_tail; Ok is returned for a record that is final ...
LEMMA AdvanceQuiet ==
    ASSUME CacheInv, ClaimsStay, NEW t \in Threads, Advance(t)
    PROVE  DataInv'
<1>0. TypeInv /\ LocalsOK /\ Know(t)
  BY DEF CacheInv, TypeInv, DataInv
<1>1. \A c \in Cells \ {Header} : Untouched(c)
  BY <1>0, HeaderStoreFacts, StorelessFacts DEF Advance, Storeless
<1>2. CASE LoadTail(t) \/ Scan(t) \/ ScanEnd(t) \/ Cas(t)
  <2>1. UNCHANGED <<op, id, slot, cursor, history>>
    BY <1>2 DEF LoadTail, Scan, ScanEnd, Cas, locals
  <2>2. \A u \in Threads \ {t} : cur'[u] = cur[u] /\ new'[u] = new[u]
    BY <1>0, <1>2 DEF LoadTail, Scan, ScanEnd, Cas, locals, LocalsOK
  <2>3. /\ pc[t] \in {"load", "scan", "cas"}
        /\ \E l \in {"load", "scan", "cas", "return"} : pc' = [pc EXCEPT ![t] = l]
    BY <1>0, <1>2 DEF LoadTail, Scan, ScanEnd, Cas, Goto, LocalsOK
  <2>4. OthersLocals(t) /\ pc'[t] \in {"load", "scan", "cas", "return"}
    BY <1>0, <2>1, <2>2, <2>3 DEF OthersLocals, LocalsOK
  <2>5. Appended(t)' => Appended(t) /\ slot'[t] = slot[t] /\ id'[t] = id[t]
    BY <2>1, <2>3 DEF Appended
  <2>6. Know(t)'
    BY <1>1, <2>4, <2>5, PlainKnow
  <2> QED
    BY <1>1, <2>1, <2>4, <2>6, QuietStep DEF history
<1>3. CASE Return(t)
  <2>1. OthersLocals(t) /\ pc'[t] = "idle" /\ pc[t] = "return" /\ UNCHANGED <<memory, dropped>>
    BY <1>3 DEF Return, Reset, OthersLocals
  <2>2. Know(t)'
    BY <1>1, <2>1, PlainKnow DEF Appended
  <2>3. ASSUME NEW a \in acked' PROVE a \in acked \/ AckedOK(a)'
    <3>1. a \in acked \/ (op[t] = "append" /\ a = [slot |-> slot[t], id |-> id[t]])
      BY <1>3 DEF Return
    <3>2. CASE op[t] = "append" /\ a = [slot |-> slot[t], id |-> id[t]]
      <4>1. a.slot \in Slots /\ Final(a.slot) /\ Sealed(a.slot, a.id)
        BY <1>0, <2>1, <3>2 DEF LocalsOK, Know, Appended
      <4> QED
        BY <2>1, <4>1 DEF AckedOK, Final, Sealed, Whole, Verify, memory
    <3> QED
      BY <3>1, <3>2
  <2> QED
    BY <1>1, <2>1, <2>2, <2>3, QuietStep
<1> QED
  BY <1>2, <1>3 DEF Advance

\* ... and those of recover and trim but the store.
LEMMA RecoverTrimQuiet ==
    ASSUME CacheInv, ClaimsStay, NEW t \in Threads, Recover(t) \/ Trim(t) \/ FlushAbandon(t)
    PROVE  DataInv'
<1> DEFINE h == HostOf[t]
<1>0. TypeInv /\ MemInv /\ LocalsOK /\ Know(t) /\ h \in Hosts
  BY DEF CacheInv, TypeInv, DataInv
<1>1. \A c \in Cells \ {Header} : Untouched(c)
  BY <1>0, StorelessFacts DEF Storeless
<1>2. ASSUME Know(t)', OthersLocals(t), UNCHANGED history PROVE DataInv'
  BY <1>1, <1>2, QuietStep DEF history
<1>3. CASE CallRecover(t) \/ \E upTo \in 0 .. Capacity : CallTrim(t, upTo)
  <2>1. /\ UNCHANGED <<id, slot, cur, new, history>> /\ cursor' = [cursor EXCEPT ![t] = 0]
        /\ \/ pc' = [pc EXCEPT ![t] = "inspect"] /\ op' = [op EXCEPT ![t] = "recover"]
           \/ pc' = [pc EXCEPT ![t] = "trim"] /\ op' = [op EXCEPT ![t] = "trim"]
    BY <1>3 DEF CallRecover, CallTrim, Goto
  <2>2. /\ OthersLocals(t)
        /\ (pc'[t] = "inspect" /\ op'[t] = "recover") \/ (pc'[t] = "trim" /\ op'[t] = "trim")
    BY <1>0, <2>1 DEF OthersLocals, LocalsOK
  <2>3. Know(t)'
    BY <1>1, <2>2, PlainKnow DEF Appended
  <2> QED
    BY <1>2, <2>1, <2>2, <2>3
<1>4. ASSUME NEW upTo, TrimBeyond(t, upTo) PROVE DataInv'
  <2>1. UNCHANGED <<pc, locals, history>> /\ pc[t] = "idle"
    BY <1>4 DEF TrimBeyond, Call
  <2>2. OthersLocals(t) /\ pc'[t] = "idle"
    BY <2>1 DEF OthersLocals, locals
  <2>3. Know(t)'
    BY <1>1, <2>2, PlainKnow DEF Appended
  <2> QED
    BY <1>2, <2>1, <2>2, <2>3
<1>5. CASE RecoverPhase2(t) \/ TrimReturn(t)
  <2>1. /\ UNCHANGED <<locals, history>> /\ pc[t] \in {"inspect", "trim"}
        /\ \E l \in {"load", "return"} : pc' = [pc EXCEPT ![t] = l]
    BY <1>5 DEF RecoverPhase2, TrimReturn, Goto
  <2>2. OthersLocals(t) /\ pc'[t] \in {"load", "return"} /\ op'[t] = op[t] /\ op[t] \in {"recover", "trim"}
    BY <1>0, <2>1 DEF OthersLocals, LocalsOK, locals, Know
  <2>3. Know(t)'
    BY <1>1, <2>2, PlainKnow DEF Appended
  <2> QED
    BY <1>2, <2>1, <2>2, <2>3
<1>6. CASE Inspect(t) \/ TrimInspect(t)
  <2>1. /\ cursor[t] < limit[t] /\ UNCHANGED <<op, id, slot, limit, cur, new, history>>
        /\ \/ pc[t] = "inspect" /\ op[t] = "recover"
           \/ pc[t] = "trim" /\ op[t] = "trim"
        /\ \/ pc' = pc /\ cursor' = [cursor EXCEPT ![t] = cursor[t] + 1]
           \/ pc' = [pc EXCEPT ![t] = "abandon"] /\ cursor' = cursor
    BY <1>0, <1>6 DEF Inspect, TrimInspect, Goto, Know
  <2>2. OthersLocals(t) /\ op'[t] = op[t] /\ (pc'[t] = pc[t] \/ (pc'[t] = "abandon" /\ cursor'[t] = cursor[t]))
    BY <1>0, <2>1 DEF OthersLocals, LocalsOK
  <2>3. CASE pc'[t] = pc[t]
    <3>1. Know(t)'
      BY <1>1, <2>1, <2>2, <2>3, PlainKnow DEF Appended
    <3> QED
      BY <1>2, <2>1, <2>2, <3>1
  <2>4. CASE pc'[t] = "abandon" /\ cursor'[t] = cursor[t]
    <3>1. PICK s \in Slots : s = cursor[t]
      BY <1>0, <2>1 DEF LocalsOK, Slots
    <3>2. ASSUME op[t] = "trim" PROVE Settled(h, s)'
      <4>1. TrimInspect(t) /\ pc'[t] # pc[t]
        BY <1>6, <2>1, <2>4, <3>2 DEF Inspect
      <4>2. Load(h, {State(s)}) /\ mem[State(s)] = "COMMITTED"
        BY <3>1, <4>1 DEF TrimInspect
      <4>3. (media'[State(s)] = mem[State(s)] \/ dirty'[LineOf[State(s)]] = h) /\ mem'[State(s)] = mem[State(s)]
        <5>1. {State(s)} \in SUBSET Cells
          BY CellFacts
        <5> QED
          BY <1>0, <4>2, <5>1, LoadFacts, ZenonT(30) DEF Load
      <4> QED
        BY <4>2, <4>3 DEF Settled, Ended
    <3>3. Know(t)'
      BY <2>1, <2>2, <2>4, <3>1, <3>2 DEF Know, Early, Appended
    <3> QED
      BY <1>2, <2>1, <2>2, <3>3
  <2> QED
    BY <2>2, <2>3, <2>4
<1>7. CASE FlushAbandon(t)
  <2>1. PICK s \in Slots : s = cursor[t]
    BY <1>0, <1>7 DEF FlushAbandon, LocalsOK, Slots
  <2>2. /\ pc[t] = "flush_abandon" /\ Flush(FlushLines(RecordOffset(s), Line))
        /\ dropped' = dropped \cup {s} /\ cursor' = [cursor EXCEPT ![t] = s + 1]
        /\ pc' = [pc EXCEPT ![t] = IF op[t] = "recover" THEN "inspect" ELSE "trim"]
        /\ UNCHANGED <<op, id, slot, cur, new, acked>>
    BY <1>7, <2>1 DEF FlushAbandon, Goto
  <2>3. op[t] \in {"recover", "trim"} /\ mem[State(s)] = "ABANDONED"
    BY <1>0, <2>1, <2>2 DEF Know
  <2>4. /\ OthersLocals(t) /\ op'[t] = op[t]
        /\ (pc'[t] = "inspect" /\ op[t] = "recover") \/ (pc'[t] = "trim" /\ op[t] = "trim")
    BY <1>0, <2>2, <2>3 DEF OthersLocals, LocalsOK
  <2>5. Know(t)'
    BY <1>1, <2>4, PlainKnow DEF Appended
  <2>6. media'[State(s)] = mem[State(s)] /\ mem'[State(s)] = mem[State(s)]
    <3>1. \A c \in Cells : LineOf[c] \in FlushLines(RecordOffset(s), Line) => media'[c] = mem[c]
      BY <1>0, <2>2, FlushFacts
    <3>2. mem' = mem
      BY <2>2 DEF Flush
    <3> QED
      BY <3>1, <3>2, LineFacts, CellFacts
  <2>7. DroppedOK(s)'
    BY <2>3, <2>6 DEF DroppedOK
  <2> QED
    BY <1>1, <2>2, <2>4, <2>5, <2>7, QuietStep
<1> QED
  BY <1>3, <1>4, <1>5, <1>6, <1>7 DEF Recover, Trim

\* Who abandons a record takes it from nobody that writes it, and a record that has ended
\* goes on being ended for every thread that works on it: two trims, or a trim and a
\* recover, may abandon the same record at the same time.
LEMMA AbandonStep ==
    ASSUME CacheInv, ClaimsStay, NEW t \in Threads, Abandon(t)
    PROVE  DataInv'
<1> DEFINE h == HostOf[t]
<1>0. /\ TypeInv /\ MemInv /\ LocalsOK /\ ClaimInv /\ h \in Hosts
      /\ \A u \in Threads : Know(u)
      /\ \A s \in Slots : Record(s)
      /\ \A a \in acked : AckedOK(a)
      /\ \A s \in dropped : DroppedOK(s)
  BY DEF CacheInv, TypeInv, DataInv
<1>1. pc[t] = "abandon" /\ pc' = [pc EXCEPT ![t] = "flush_abandon"] /\ UNCHANGED <<locals, history>>
  BY DEF Abandon, Goto
<1>2. PICK r \in Slots : r = cursor[t]
  BY <1>0, <1>1 DEF LocalsOK, Slots
<1>3. StoreCell(h, State(r), "ABANDONED")
  BY <1>2 DEF Abandon
<1>4. (\A c \in Cells \ {State(r)} : Untouched(c)) /\ StoredBy(h, State(r), "ABANDONED")
  BY <1>0, <1>3, StateStoreFacts
<1>5. /\ mem'[State(r)] = "ABANDONED" /\ media'[State(r)] \in {mem[State(r)], media[State(r)]}
      /\ \A c \in RecordCells(r) \ {State(r)} : Mild(c)
      /\ \A g : \A s \in Slots \ {r} : \A c \in RecordCells(s) : Gentle(g, c) /\ Mild(c)
  BY <1>4, RecordsApart DEF StoredBy, Gentle, Mild
<1>6. /\ op[t] = "recover" => Recovering(t) /\ r < limit[t]
      /\ op[t] # "recover" => mem[State(r)] \in Ended
  BY <1>0, <1>1, <1>2 DEF Know, Recovering, LocalsOK, Settled
<1>7. \A u \in Threads : Early(u) => slot[u] # r
  <2>1. CASE op[t] = "recover"
    <3>1. \A u \in Threads : Early(u) => Holding(u)
      BY DEF Early, Holding
    <3>2. r \in Nat /\ limit[t] \in Nat /\ \A u \in Threads : slot[u] \in Nat
      BY <1>0 DEF LocalsOK, Slots
    <3> QED
      BY <1>0, <1>6, <2>1, <3>1, <3>2 DEF ClaimInv
  <2>2. CASE op[t] # "recover"
    BY <1>0, <1>6, <2>2 DEF Know
  <2> QED
    BY <2>1, <2>2
<1>8. ~ (r >= mem'[Header].reserve)
  <2>1. mem[Header].reserve \in Nat /\ r \in Nat /\ limit[t] \in Nat
    BY <1>0, TypedFacts DEF TypeInv, HeaderType, LocalsOK, Slots
  <2>2. ~ (r >= mem[Header].reserve)
    <3>1. CASE op[t] = "recover"
      BY <1>0, <1>6, <2>1, <3>1 DEF ClaimInv
    <3>2. CASE op[t] # "recover"
      BY <1>0, <1>6, <3>2 DEF Record, Ended
    <3> QED
      BY <3>1, <3>2
  <2> QED
    BY <2>2 DEF ClaimsStay
<1>9. \A g : Settled(g, r) => Settled(g, r)'
  BY <1>4 DEF StoredBy, Settled, Ended
<1>10. Final(r) => Final(r)'
  BY <1>5 DEF Final, Ended
<1>11. (Whole(r) => Whole(r)') /\ \A n : Sealed(r, n) => Sealed(r, n)'
  BY <1>5, SealedFacts
<1>12. OthersLocals(t) /\ pc'[t] = "flush_abandon" /\ op'[t] = op[t] /\ cursor'[t] = r
  BY <1>0, <1>1, <1>2 DEF OthersLocals, LocalsOK, locals
<1>13. Know(t)'
  <2>1. Kept(h, State(r))'
    BY <1>4 DEF StoredBy, Kept
  <2>2. op[t] \in {"recover", "trim"}
    BY <1>0, <1>1 DEF Know
  <2> QED
    BY <1>5, <1>12, <2>1, <2>2 DEF Know, Early, Appended
<1>14. ASSUME NEW u \in Threads \ {t} PROVE Know(u)'
  <2>0. /\ pc'[u] = pc[u] /\ op'[u] = op[u] /\ id'[u] = id[u] /\ slot'[u] = slot[u]
        /\ cursor'[u] = cursor[u] /\ Know(u) /\ (Early(u) => slot[u] # r)
    BY <1>0, <1>7, <1>12 DEF OthersLocals
  <2>1. PICK g : g = HostOf[u]
    OBVIOUS
  <2>2. PICK n : n = id[u]
    OBVIOUS
  <2>3. CASE (Holding(u) \/ Appended(u)) /\ slot[u] = r
    <3>1. pc[u] = "flush_state" \/ Appended(u)
      BY <2>0, <2>3 DEF Holding, Early
    <3>2. /\ Sealed(r, n)
          /\ pc[u] = "flush_state" => Settled(g, r)
          /\ Appended(u) => Final(r)
      BY <2>0, <2>1, <2>2, <2>3, <3>1 DEF Know
    <3>3. /\ Sealed(r, n)'
          /\ pc[u] = "flush_state" => Settled(g, r)'
          /\ Appended(u) => Final(r)'
      BY <1>9, <1>10, <1>11, <3>2
    <3> QED
      BY <2>0, <2>1, <2>2, <2>3, <3>1, <3>3 DEF Know, Early, Appended
  <2>4. CASE pc[u] = "flush_abandon" /\ cursor[u] = r
    <3>1. mem[State(r)] = "ABANDONED" /\ Kept(g, State(r)) /\ op[u] \in {"recover", "trim"}
      BY <2>0, <2>1, <2>4 DEF Know
    <3>2. Kept(g, State(r))'
      BY <1>4, <3>1 DEF Kept, StoredBy
    <3> QED
      BY <1>5, <2>0, <2>1, <2>4, <3>1, <3>2 DEF Know, Early, Appended
  <2>5. CASE pc[u] = "abandon" /\ op[u] = "trim" /\ cursor[u] = r
    <3>1. Settled(g, r)
      BY <2>0, <2>1, <2>5 DEF Know
    <3>2. Settled(g, r)'
      BY <1>9, <3>1
    <3> QED
      BY <2>0, <2>1, <2>5, <3>2 DEF Know, Early, Appended
  <2>6. CASE /\ Holding(u) \/ Appended(u) => slot[u] \notin {r}
             /\ pc[u] = "flush_abandon" \/ (pc[u] = "abandon" /\ op[u] = "trim") => cursor[u] \notin {r}
    <3>1. {r} \in SUBSET Slots
      OBVIOUS
    <3> QED
      BY <1>0, <1>5, <2>0, <2>6, <3>1, KnowKept
  <2> QED
    BY <2>3, <2>4, <2>5, <2>6
<1>15. ASSUME NEW s \in Slots PROVE Record(s)'
  <2>1. CASE s = r
    <3>1. "COMMITTED" \in {mem'[State(r)], media'[State(r)]} => Whole(r)'
      BY <1>0, <1>5, <1>11 DEF Record
    <3> QED
      BY <1>8, <2>1, <3>1 DEF Record
  <2>2. CASE s # r
    BY <1>0, <1>5, <2>2, RecordKept DEF ClaimsStay
  <2> QED
    BY <2>1, <2>2
<1>16. ASSUME NEW a \in acked PROVE AckedOK(a)'
  <2>1. AckedOK(a) /\ a.slot \in Slots
    BY <1>0 DEF AckedOK
  <2>2. CASE a.slot = r
    <3>1. Final(r)' /\ Sealed(r, a.id)'
      BY <1>10, <1>11, <2>1, <2>2 DEF AckedOK
    <3> QED
      BY <2>2, <3>1 DEF AckedOK
  <2>3. CASE a.slot # r
    BY <1>5, <2>1, <2>3, AckedStays
  <2> QED
    BY <2>2, <2>3
<1>17. ASSUME NEW s \in dropped PROVE DroppedOK(s)'
  <2>1. DroppedOK(s) /\ s \in Slots
    BY <1>0 DEF DroppedOK
  <2>2. CASE s = r
    BY <1>5, <2>1, <2>2 DEF DroppedOK
  <2>3. CASE s # r
    BY <1>5, <2>1, <2>3, DroppedKept, RecordsApart
  <2> QED
    BY <2>2, <2>3
<1> QED
  BY <1>1, <1>13, <1>14, <1>15, <1>16, <1>17 DEF DataInv, history

\* Whatever a host takes with it, nothing that was relied on is lost.
LEMMA CrashStep ==
    ASSUME CacheInv, ClaimsStay, NEW h \in Hosts, Crash(h)
    PROVE  DataInv'
<1>0. /\ TypeInv /\ MemInv /\ \A u \in Threads : Know(u)
      /\ \A s \in Slots : Record(s)
      /\ \A a \in acked : AckedOK(a)
      /\ \A s \in dropped : DroppedOK(s)
  BY DEF CacheInv, TypeInv, DataInv
<1>1. \A c \in Cells : LostWith(h, c)
  BY <1>0, CrashFacts
<1>2. /\ \A s \in Slots : \A c \in RecordCells(s) : Mild(c)
      /\ \A g : g # h => \A s \in Slots : \A c \in RecordCells(s) : Gentle(g, c)
  BY <1>1, RecordsApart DEF Mild, Gentle
<1>3. UNCHANGED history
  BY DEF Crash
<1>4. \A u \in Threads :
         IF HostOf[u] = h THEN pc'[u] = "down"
         ELSE /\ pc'[u] = pc[u] /\ op'[u] = op[u] /\ id'[u] = id[u] /\ slot'[u] = slot[u]
              /\ cursor'[u] = cursor[u]
  BY DEF Crash, Reset
<1>5. ASSUME NEW u \in Threads PROVE Know(u)'
  <2>1. CASE HostOf[u] = h
    BY <1>4, <2>1 DEF Know, Early, Appended
  <2>2. CASE HostOf[u] # h
    <3>1. {} \in SUBSET Slots /\ \A s \in Slots \ {} : \A c \in RecordCells(s) : Gentle(HostOf[u], c)
      BY <1>2, <2>2
    <3> QED
      BY <1>0, <1>4, <2>2, <3>1, KnowKept
  <2> QED
    BY <2>1, <2>2
<1>6. ASSUME NEW s \in Slots PROVE Record(s)'
  BY <1>0, <1>2, RecordKept DEF ClaimsStay
<1>7. ASSUME NEW a \in acked PROVE AckedOK(a)'
  <2>1. AckedOK(a) /\ a.slot \in Slots
    BY <1>0 DEF AckedOK
  <2> QED
    BY <1>2, <2>1, AckedStays
<1>8. ASSUME NEW s \in dropped PROVE DroppedOK(s)'
  <2>1. DroppedOK(s) /\ s \in Slots
    BY <1>0 DEF DroppedOK
  <2> QED
    BY <1>2, <2>1, DroppedKept, RecordsApart
<1> QED
  BY <1>3, <1>5, <1>6, <1>7, <1>8 DEF DataInv, history

\* A restart, and a cache that writes a line back, lose nothing either.
LEMMA IdleStep ==
    ASSUME CacheInv, ClaimsStay, \A c \in Cells : Untouched(c), UNCHANGED <<locals, history>>,
           \A u \in Threads : pc'[u] = pc[u] \/ pc'[u] = "idle"
    PROVE  DataInv'
<1>0. /\ TypeInv /\ \A u \in Threads : Know(u)
      /\ \A s \in Slots : Record(s)
      /\ \A a \in acked : AckedOK(a)
      /\ \A s \in dropped : DroppedOK(s)
  BY DEF CacheInv, DataInv
<1>1. \A g : \A s \in Slots : \A c \in RecordCells(s) : Gentle(g, c) /\ Mild(c)
  BY RecordsApart DEF Mild, Gentle
<1>2. ASSUME NEW u \in Threads PROVE Know(u)'
  <2>1. CASE pc'[u] = "idle"
    BY <2>1 DEF Know, Early, Appended
  <2>2. CASE pc'[u] = pc[u]
    <3>1. {} \in SUBSET Slots /\ \A s \in Slots \ {} : \A c \in RecordCells(s) : Gentle(HostOf[u], c)
      BY <1>1
    <3>2. op'[u] = op[u] /\ id'[u] = id[u] /\ slot'[u] = slot[u] /\ cursor'[u] = cursor[u]
      BY DEF locals
    <3> QED
      BY <1>0, <2>2, <3>1, <3>2, KnowKept
  <2> QED
    BY <2>1, <2>2
<1>3. ASSUME NEW s \in Slots PROVE Record(s)'
  BY <1>0, <1>1, RecordKept DEF ClaimsStay
<1>4. ASSUME NEW a \in acked PROVE AckedOK(a)'
  <2>1. AckedOK(a) /\ a.slot \in Slots
    BY <1>0 DEF AckedOK
  <2> QED
    BY <1>1, <2>1, AckedStays
<1>5. ASSUME NEW s \in dropped PROVE DroppedOK(s)'
  <2>1. DroppedOK(s) /\ s \in Slots
    BY <1>0 DEF DroppedOK
  <2> QED
    BY <1>1, <2>1, DroppedKept, RecordsApart
<1> QED
  BY <1>2, <1>3, <1>4, <1>5 DEF DataInv, history

-----------------------------------------------------------------------------
(* The theorems. *)

\* CacheInv holds at first,
LEMMA CacheInit == Init => CacheInv
<1> SUFFICES ASSUME Init PROVE CacheInv
  OBVIOUS
<1>1. TypeInv
  BY TypeInit
<1>2. mem[Header] = [reserve |-> 0, committed |-> 0]
  BY CellFacts DEF Init
<1>3. \A t \in Threads : pc[t] = "idle"
  BY DEF Init
<1>4. ClaimInv
  <2>1. Undoing = {}
    BY <1>3 DEF Undoing
  <2> QED
    BY <1>2, <1>3, <2>1 DEF ClaimInv, Init, Holding, Recovering
<1>5. \A s \in Slots : mem[State(s)] = "FREE" /\ media[State(s)] = "FREE"
  <2>1. \A s : State(s)[1] = "state"
    BY DEF State
  <2> QED
    BY <2>1, CellFacts DEF Init
<1>6. DataInv
  <2>1. \A t \in Threads : Know(t)
    BY <1>3 DEF Know, Early, Appended
  <2>2. \A s \in Slots : Record(s)
    BY <1>5 DEF Record
  <2> QED
    BY <2>1, <2>2 DEF DataInv, Init
<1> QED
  BY <1>1, <1>4, <1>6 DEF CacheInv

\* is kept by every step,
LEMMA CacheNext ==
    ASSUME Quiesced, HeaderKept, CacheInv, [Next]_vars
    PROVE  CacheInv'
<1>1. ClaimInv' /\ ClaimsStay
  BY ClaimNext DEF ClaimsStay
<1>2. TypeInv' /\ TypeInv /\ MemInv
  BY TypeNext DEF CacheInv, TypeInv
<1>3. DataInv'
  <2>1. ASSUME NEW t \in Threads, Append(t) PROVE DataInv'
    BY <1>1, <2>1, AppendStores, AppendQuiet DEF Append
  <2>2. ASSUME NEW h \in Hosts, Restart(h) PROVE DataInv'
    <3>1. /\ UNCHANGED <<memory, locals, history>>
          /\ \A u \in Threads : pc'[u] = pc[u] \/ pc'[u] = "idle"
      BY <2>2 DEF Restart
    <3>2. \A c \in Cells : Untouched(c)
      BY <3>1 DEF memory, Untouched
    <3> QED
      BY <1>1, <3>1, <3>2, IdleStep
  <2>3. ASSUME NEW l \in Lines, Evict(l) PROVE DataInv'
    <3>1. Flush({l}) /\ UNCHANGED <<pc, locals, history>>
      BY <2>3 DEF Evict
    <3>2. \A c \in Cells : Untouched(c)
      BY <1>2, <3>1, FlushFacts
    <3> QED
      BY <1>1, <3>1, <3>2, IdleStep
  <2>4. ASSUME UNCHANGED vars PROVE DataInv'
    <3>1. UNCHANGED <<memory, pc, locals, history>>
      BY <2>4 DEF vars
    <3>2. \A c \in Cells : Untouched(c)
      BY <3>1 DEF memory, Untouched
    <3> QED
      BY <1>1, <3>1, <3>2, IdleStep
  <2> QED
    BY <1>1, <2>1, <2>2, <2>3, <2>4, AdvanceQuiet, RecoverTrimQuiet, AbandonStep, CrashStep DEF Next, Rest
<1> QED
  BY <1>1, <1>2, <1>3 DEF CacheInv

\* and so holds always.
LEMMA CacheInvariant ==
    ASSUME Quiesced, HeaderKept
    PROVE  Spec => []CacheInv
<1>1. CacheInv /\ [Next]_vars => CacheInv'
  BY CacheNext
<1> QED
  BY <1>1, CacheInit, PTL DEF Spec

\* A COMMITTED record is whole on the media: append has written and flushed it, in this
\* order, before the byte that says so, and no later store, eviction, or death of a host
\* takes anything of it away.
THEOREM CommittedIsOnMedia ==
    ASSUME Quiesced, HeaderKept
    PROVE  Spec => []CommittedOnMedia
<1>1. CacheInv => CommittedOnMedia
  BY DEF CacheInv, DataInv, Record, Whole, CommittedOnMedia
<1> QED
  BY <1>1, CacheInvariant, PTL

\* What append returned Ok for survives any number of deaths of any hosts, the appending
\* one included: the record still holds what this append wrote, and is COMMITTED, or was
\* abandoned by a trim or a recover.
THEOREM AcknowledgedSurvives ==
    ASSUME Quiesced, HeaderKept
    PROVE  Spec => []AckedSurvives
<1>1. CacheInv => AckedSurvives
  BY DEF CacheInv, DataInv, AckedOK, Final, Ended, Sealed, Whole, AckedSurvives
<1> QED
  BY <1>1, CacheInvariant, PTL

\* A record that trim or recover has abandoned and flushed is ABANDONED for good: no death
\* of a host brings it back.
THEOREM DroppedStaysDropped ==
    ASSUME Quiesced, HeaderKept
    PROVE  Spec => []DroppedStays
<1>1. CacheInv => DroppedStays
  BY DEF CacheInv, DataInv, DroppedOK, DroppedStays
<1> QED
  BY <1>1, CacheInvariant, PTL

-----------------------------------------------------------------------------
(* Flushing what has ended. *)

\* What a step does to the states of the records: a store by a thread that holds or
\* abandons the slot, or none.
LEMMA StateSteps ==
    ASSUME CacheInv, [Next]_vars
    PROVE  \/ \A s \in Slots : Untouched(State(s))
           \/ \E h \in Hosts : Crash(h) /\ \A s \in Slots : LostWith(h, State(s))
           \/ \E t \in Threads, r \in Slots, v \in {"WRITING", "COMMITTED", "ABANDONED"} :
                /\ StoredBy(HostOf[t], State(r), v)
                /\ \A s \in Slots \ {r} : Untouched(State(s))
                /\ OthersLocals(t) /\ pc[t] \notin {"flush_state", "flush_abandon"}
                /\ v = "ABANDONED" \/ mem[State(r)] \notin Ended
                /\ v \in Ended => Ending(t, r)'
<1>0. TypeInv /\ MemInv /\ LocalsOK /\ \A t \in Threads : Know(t)
  BY DEF CacheInv, TypeInv, DataInv
<1>1. ASSUME \A c \in Cells \ {Header} : Untouched(c) PROVE \A s \in Slots : Untouched(State(s))
  BY <1>1, CellFacts
<1>2. ASSUME NEW t \in Threads, Storeless(t) \/ Claim(t) \/ ClaimFull(t) \/ Undo(t) \/ Cas(t)
      PROVE  \A s \in Slots : Untouched(State(s))
  BY <1>0, <1>1, <1>2, StorelessFacts, HeaderStoreFacts
<1>3. ASSUME NEW t \in Threads, WriteFields(t) \/ WritePayload(t) \/ WriteCrc(t)
      PROVE  \A s \in Slots : Untouched(State(s))
  <2>1. PICK r \in Slots : r = slot[t]
    BY <1>0 DEF LocalsOK
  <2>2. (\A c \in Cells \ RecordCells(r) : Untouched(c)) /\ Untouched(State(r))
    BY <1>0, <1>3, <2>1, WriteFacts
  <2>3. \A s \in Slots \ {r} : State(s) \in Cells \ RecordCells(r)
    BY RecordsApart, CellFacts
  <2> QED
    BY <2>2, <2>3
<1>4. ASSUME NEW t \in Threads, NEW r \in Slots, NEW v, StoreCell(HostOf[t], State(r), v)
      PROVE  StoredBy(HostOf[t], State(r), v) /\ \A s \in Slots \ {r} : Untouched(State(s))
  <2>1. (\A c \in Cells \ {State(r)} : Untouched(c)) /\ StoredBy(HostOf[t], State(r), v)
    BY <1>0, <1>4, StateStoreFacts
  <2> QED
    BY <2>1, CellFacts
<1>5. ASSUME NEW t \in Threads, MarkWriting(t) \/ Commit(t) \/ Abandon(t)
      PROVE  \E r \in Slots, v \in {"WRITING", "COMMITTED", "ABANDONED"} :
                /\ StoredBy(HostOf[t], State(r), v)
                /\ \A s \in Slots \ {r} : Untouched(State(s))
                /\ OthersLocals(t) /\ pc[t] \notin {"flush_state", "flush_abandon"}
                /\ v = "ABANDONED" \/ mem[State(r)] \notin Ended
                /\ v \in Ended => Ending(t, r)'
  <2>1. UNCHANGED locals /\ \E l : pc' = [pc EXCEPT ![t] = l]
    BY <1>5 DEF MarkWriting, Commit, Abandon, Goto
  <2>2. OthersLocals(t)
    BY <1>0, <2>1 DEF OthersLocals, locals, LocalsOK
  <2>3. CASE MarkWriting(t) \/ Commit(t)
    <3>1. PICK r \in Slots : r = slot[t]
      BY <1>0 DEF LocalsOK
    <3>2. mem[State(r)] \notin Ended /\ pc[t] \notin {"flush_state", "flush_abandon"}
      BY <1>0, <2>3, <3>1 DEF Know, Early, MarkWriting, Commit
    <3>3. CASE MarkWriting(t)
      <4>1. StoreCell(HostOf[t], State(r), "WRITING")
        BY <3>1, <3>3 DEF MarkWriting
      <4> QED
        BY <1>4, <2>2, <3>2, <4>1 DEF Ended
    <3>4. CASE Commit(t)
      <4>1. StoreCell(HostOf[t], State(r), "COMMITTED")
        BY <3>1, <3>4 DEF Commit
      <4>2. Ending(t, r)'
        BY <1>0, <2>1, <3>1, <3>4 DEF Commit, Goto, Ending, locals, LocalsOK
      <4> QED
        BY <1>4, <2>2, <3>2, <4>1, <4>2
    <3> QED
      BY <2>3, <3>3, <3>4
  <2>4. CASE Abandon(t)
    <3>1. PICK r \in Slots : r = cursor[t]
      BY <1>0, <2>4 DEF Abandon, LocalsOK, Slots
    <3>2. StoreCell(HostOf[t], State(r), "ABANDONED") /\ pc[t] = "abandon"
      BY <2>4, <3>1 DEF Abandon
    <3>3. Ending(t, r)'
      BY <1>0, <2>1, <2>4, <3>1 DEF Abandon, Goto, Ending, locals, LocalsOK
    <3> QED
      BY <1>4, <2>2, <3>2, <3>3
  <2> QED
    BY <1>5, <2>3, <2>4
<1>6. ASSUME NEW h \in Hosts, Crash(h) PROVE \A s \in Slots : LostWith(h, State(s))
  BY <1>0, <1>6, CrashFacts, CellFacts
<1>7. ASSUME NEW l \in Lines, Evict(l) PROVE \A s \in Slots : Untouched(State(s))
  <2>1. Flush({l})
    BY <1>7 DEF Evict
  <2> QED
    BY <1>0, <2>1, FlushFacts, CellFacts
<1>8. ASSUME UNCHANGED memory PROVE \A s \in Slots : Untouched(State(s))
  BY <1>8 DEF memory, Untouched
<1> QED
  BY <1>2, <1>3, <1>5, <1>6, <1>7, <1>8 DEF Next, Append, Advance, Storeless, Restart, Rest, vars

\* Who ends a record stays with it until it is on the media, or dies with it.
LEMMA EndingStays ==
    ASSUME CacheInv, [Next]_vars, NEW s \in Slots, NEW u \in Threads, Ending(u, s)
    PROVE  \/ Ending(u, s)'
           \/ Crash(HostOf[u])
           \/ media'[State(s)] = mem[State(s)]
<1>0. TypeInv /\ MemInv /\ LocalsOK /\ pc[u] \in {"flush_state", "flush_abandon"}
  BY DEF CacheInv, TypeInv, Ending
<1>1. CASE pc'[u] = pc[u] /\ slot'[u] = slot[u] /\ cursor'[u] = cursor[u]
  BY <1>1 DEF Ending
<1>2. CASE FlushState(u) \/ FlushAbandon(u)
  <2>1. Flush(FlushLines(RecordOffset(s), Line))
    BY <1>2 DEF FlushState, FlushAbandon, Ending
  <2>2. \A c \in Cells : LineOf[c] \in FlushLines(RecordOffset(s), Line) => media'[c] = mem[c]
    BY <1>0, <2>1, FlushFacts
  <2> QED
    BY <2>2, LineFacts, CellFacts
<1>3. ASSUME NEW t \in Threads, Append(t)
      PROVE  FlushState(u) \/ (pc'[u] = pc[u] /\ slot'[u] = slot[u] /\ cursor'[u] = cursor[u])
  <2>1. CASE u = t
    BY <1>0, <1>3, <2>1 DEF Append, Claim, ClaimFull, Call, Undo, MarkWriting, WriteFields, WritePayload,
                             WriteCrc, FlushRecord, Commit
  <2>2. CASE u # t
    BY <1>0, <1>3, <2>2 DEF Append, Claim, ClaimFull, Undo, MarkWriting, WriteFields, WritePayload,
                             WriteCrc, FlushRecord, Commit, FlushState, Goto, locals, LocalsOK
  <2> QED
    BY <2>1, <2>2
<1>4. ASSUME NEW t \in Threads, Advance(t)
      PROVE  pc'[u] = pc[u] /\ slot'[u] = slot[u] /\ cursor'[u] = cursor[u]
  <2>1. u # t
    BY <1>0, <1>4 DEF Advance, LoadTail, Scan, ScanEnd, Cas, Return
  <2>2. CASE Return(t)
    BY <2>1, <2>2 DEF Return, Reset
  <2>3. CASE LoadTail(t) \/ Scan(t) \/ ScanEnd(t) \/ Cas(t)
    BY <1>0, <2>1, <2>3 DEF LoadTail, Scan, ScanEnd, Cas, Goto, locals, LocalsOK
  <2> QED
    BY <1>4, <2>2, <2>3 DEF Advance
<1>5. ASSUME NEW t \in Threads, Recover(t) \/ Trim(t) \/ Abandon(t) \/ FlushAbandon(t)
      PROVE  FlushAbandon(u) \/ (pc'[u] = pc[u] /\ slot'[u] = slot[u] /\ cursor'[u] = cursor[u])
  <2>1. CASE u = t
    BY <1>0, <1>5, <2>1 DEF Recover, CallRecover, Inspect, RecoverPhase2, Trim, TrimBeyond, CallTrim, Call,
                             TrimInspect, TrimReturn, Abandon
  <2>2. CASE u # t
    BY <1>0, <1>5, <2>2 DEF Recover, CallRecover, Inspect, RecoverPhase2, Trim, TrimBeyond, CallTrim,
                             TrimInspect, TrimReturn, Abandon, FlushAbandon, Goto, locals, LocalsOK
  <2> QED
    BY <2>1, <2>2
<1>6. ASSUME NEW h \in Hosts, Crash(h) \/ Restart(h)
      PROVE  Crash(HostOf[u]) \/ (pc'[u] = pc[u] /\ slot'[u] = slot[u] /\ cursor'[u] = cursor[u])
  BY <1>0, <1>6 DEF Crash, Reset, Restart, locals
<1>7. ASSUME UNCHANGED <<pc, locals>>
      PROVE  pc'[u] = pc[u] /\ slot'[u] = slot[u] /\ cursor'[u] = cursor[u]
  BY <1>7 DEF locals
<1> QED
  BY <1>1, <1>2, <1>3, <1>4, <1>5, <1>6, <1>7 DEF Next, Evict, Rest, vars

\* A COMMITTED or ABANDONED byte that is not on the media yet has a thread that will flush it.
LEMMA PendingStays ==
    ASSUME CacheInv, [Next]_vars, NEW s \in Slots, Pending(s)
    PROVE  Pending(s)'
<1> SUFFICES ASSUME mem'[State(s)] \in Ended, media'[State(s)] \notin Ended
             PROVE  \E t \in Threads : Ending(t, s)' /\ dirty'[LineOf[State(s)]] = HostOf[t]
  BY DEF Pending
<1>1. CASE Untouched(State(s))
  <2>1. /\ mem[State(s)] \in Ended /\ media[State(s)] \notin Ended /\ media'[State(s)] # mem[State(s)]
        /\ dirty'[LineOf[State(s)]] = dirty[LineOf[State(s)]]
    BY <1>1 DEF Untouched
  <2>2. PICK u \in Threads : Ending(u, s) /\ dirty[LineOf[State(s)]] = HostOf[u]
    BY <2>1 DEF Pending
  <2>3. Ending(u, s)' \/ Crash(HostOf[u])
    BY <2>1, <2>2, EndingStays
  <2>4. ~ Crash(HostOf[u])
    <3> SUFFICES ASSUME Crash(HostOf[u]) PROVE FALSE
      OBVIOUS
    <3>1. HostOf[u] \in Hosts /\ MemInv
      BY DEF CacheInv, TypeInv
    <3>2. LostWith(HostOf[u], State(s))
      BY <3>1, CrashFacts, CellFacts
    <3> QED
      BY <2>1, <2>2, <3>2 DEF LostWith
  <2> QED
    BY <2>1, <2>2, <2>3, <2>4
<1>2. ASSUME NEW h \in Hosts, Crash(h), LostWith(h, State(s))
      PROVE  \E t \in Threads : Ending(t, s)' /\ dirty'[LineOf[State(s)]] = HostOf[t]
  <2>1. /\ mem[State(s)] \in Ended /\ media[State(s)] \notin Ended
        /\ dirty[LineOf[State(s)]] # h /\ dirty'[LineOf[State(s)]] = dirty[LineOf[State(s)]]
    BY <1>2 DEF LostWith
  <2>2. PICK u \in Threads : Ending(u, s) /\ dirty[LineOf[State(s)]] = HostOf[u]
    BY <2>1 DEF Pending
  <2>3. Ending(u, s)'
    BY <1>2, <2>1, <2>2 DEF Crash, Reset, Ending
  <2> QED
    BY <2>1, <2>2, <2>3
<1>3. ASSUME NEW t \in Threads, NEW v, StoredBy(HostOf[t], State(s), v), v \in Ended => Ending(t, s)'
      PROVE  \E u \in Threads : Ending(u, s)' /\ dirty'[LineOf[State(s)]] = HostOf[u]
  BY <1>3 DEF StoredBy
<1> QED
  BY <1>1, <1>2, <1>3, StateSteps

\* What the hosts see as ended, COMMITTED or ABANDONED, is so on the media, or there is a
\* thread left to flush it, on the host whose cache has it: no step and no death of a host
\* leaves it to an eviction.
THEOREM EndedIsFlushed ==
    ASSUME Quiesced, HeaderKept
    PROVE  Spec => []EndedFlushed
<1> DEFINE all == \A s \in Slots : Pending(s)
<1>1. Init => all
  <2> SUFFICES ASSUME Init, NEW s \in Slots PROVE Pending(s)
    OBVIOUS
  <2>1. media[State(s)] = mem[State(s)]
    BY DEF Init
  <2> QED
    BY <2>1 DEF Pending
<1>2. CacheInv /\ all /\ [Next]_vars => all'
  BY PendingStays
<1>3. all => EndedFlushed
  BY DEF Pending, EndedFlushed, Ended
<1> QED
  BY <1>1, <1>2, <1>3, CacheInvariant, PTL DEF Spec
=============================================================================
