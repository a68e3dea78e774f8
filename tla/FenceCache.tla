----------------------------- MODULE FenceCache -----------------------------
(***************************************************************************)
(* The Fence log on memory with write-back caches: what is left of it when *)
(* a host dies with its caches.  This is the failure the project is about  *)
(* (README.md): data that sits in a CPU cache when its host crashes never  *)
(* reaches the shared media.                                               *)
(*                                                                         *)
(* The pool is an array of cells in cache lines, laid out as PoolGeometry  *)
(* lays them out.  Hosts see one coherent content, mem; media is what has  *)
(* been written back.  A line is dirty in one host at most; it is written  *)
(* back by a flush (clwb + sfence), by an eviction at any time, or because *)
(* another host accesses it.  A crash of a host loses the lines that are   *)
(* dirty in it.                                                            *)
(*                                                                         *)
(* append, recover and trim are the ones of FenceLog.  Reads change        *)
(* nothing, and the metrics have lines of their own: both are left out.    *)
(***************************************************************************)
EXTENDS Integers, FiniteSets

CONSTANTS
    Capacity,      \* number of record slots
    Line,          \* CACHELINE, in cells
    PayloadCells,  \* payload_size, in cells
    U64,           \* modulus of the 64-bit counters (2^64 in the code)
    Threads, Hosts, HostOf,
    Ops,           \* the operations the clients call
    Quiesced,      \* recover is only called when no append is between its claim and its commit
    HeaderKept,    \* no crash ever finds the header line dirty in the host that dies
    MaxCalls,      \* bound: calls the clients make
    MaxCrashes     \* bound: host crashes

ASSUME GeometryAssumption ==
    /\ Capacity \in Nat \ {0} /\ PayloadCells \in Nat \ {0}
    /\ Line \in Nat /\ Line >= 2
    /\ U64 \in Nat /\ Capacity < U64
\* No host is called like the owner of a clean line.
Nobody == "nobody"
ASSUME HostAssumption ==
    /\ HostOf \in [Threads -> Hosts]
    /\ IsFiniteSet(Threads) /\ Nobody \notin Hosts
    /\ Ops \subseteq {"append", "recover", "trim"}
    /\ Quiesced \in BOOLEAN /\ HeaderKept \in BOOLEAN
\* A 64-bit counter outlives every run: there are fewer calls than 2^64.
ASSUME BoundAssumption ==
    /\ MaxCalls \in Nat /\ MaxCrashes \in Nat
    /\ MaxCalls < U64

VARIABLES
    mem, media,     \* the cells as the hosts see them, and on the media
    dirty,          \* the host whose cache holds a line modified, per line
    pc, op,         \* per thread: where it is, and in which operation
    id,             \* append: the number of the call, which stands for its term and data
    slot,           \* append: the claimed slot
    cursor, limit,  \* recover, trim: the loop
    cur, new,       \* advance_committed_tail
    calls, crashes,
    acked,          \* history: [slot, id] of the appends that returned Ok
    dropped         \* history: slots recover or trim abandoned, store and flush done

memory  == <<mem, media, dirty>>
locals  == <<op, id, slot, cursor, limit, cur, new>>
budget  == <<calls, crashes>>
history == <<acked, dropped>>
vars    == <<memory, pc, locals, budget, history>>

-----------------------------------------------------------------------------
(* The layout (layout.rs). *)

Slots == 0 .. Capacity - 1

Header == <<"header">>
State(s) == <<"state", s>>
Meta(s) == <<"meta", s>>         \* term, index, writer_id, data_len, and the checksum
Body(s, k) == <<"body", s, k>>

RecordSize == Line + PayloadCells

RecordOffset(s) == Line + s * RecordSize

RecordCells(s) == {State(s), Meta(s)} \cup {Body(s, k) : k \in 0 .. PayloadCells - 1}
Cells == {Header} \cup UNION {RecordCells(s) : s \in Slots}

OffsetOf == [c \in Cells |->
    IF c = Header THEN 0
    ELSE RecordOffset(c[2]) + IF c[1] = "state" THEN 0
                              ELSE IF c[1] = "meta" THEN 1
                              ELSE Line + c[3]]

LineOf == [c \in Cells |-> OffsetOf[c] \div Line]
Lines == 0 .. (RecordOffset(Capacity) - 1) \div Line

\* Mutant of FlushLines: len / CACHELINE lines, from the first one on.
FlushWholeLines(offset, len) ==
    {offset \div Line + i : i \in 0 .. (len \div Line) - 1}

\* flush_range: the lines it writes back with clwb.
FlushLines(offset, len) ==
    IF len = 0 THEN {} ELSE offset \div Line .. (offset + len - 1) \div Line

-----------------------------------------------------------------------------
(* The memory. *)

WrittenBack(lines) == [c \in Cells |-> IF LineOf[c] \in lines THEN mem[c] ELSE media[c]]

\* The lines among these that another host than h holds modified.
Foreign(h, lines) == {l \in lines : dirty[l] \notin {Nobody, h}}

\* Host h loads cells.
Load(h, cells) ==
    LET lines == Foreign(h, {LineOf[c] : c \in cells}) IN
    /\ media' = WrittenBack(lines)
    /\ dirty' = [l \in Lines |-> IF l \in lines THEN Nobody ELSE dirty[l]]
    /\ UNCHANGED mem

\* Host h stores the cells v is defined on.
StoreCells(h, v) ==
    LET lines == {LineOf[c] : c \in DOMAIN v} IN
    /\ mem' = [c \in Cells |-> IF c \in DOMAIN v THEN v[c] ELSE mem[c]]
    /\ media' = WrittenBack(Foreign(h, lines))
    /\ dirty' = [l \in Lines |-> IF l \in lines THEN h ELSE dirty[l]]

StoreCell(h, c, v) == StoreCells(h, [x \in {c} |-> v])

\* clwb of every line, and the sfence that waits for them.
Flush(lines) ==
    /\ media' = WrittenBack(lines)
    /\ dirty' = [l \in Lines |-> IF l \in lines THEN Nobody ELSE dirty[l]]
    /\ UNCHANGED mem

\* A cache may write a modified line back whenever it likes.
Evict(l) ==
    /\ dirty[l] # Nobody
    /\ Flush({l})
    /\ UNCHANGED <<pc, locals, budget, history>>

-----------------------------------------------------------------------------
\* FenceRuntime::open with create, on a new file: the header is flushed.
Init ==
    /\ mem = [c \in Cells |->
                IF c = Header THEN [reserve |-> 0, committed |-> 0]
                ELSE IF c[1] = "state" THEN "FREE"
                ELSE IF c[1] = "meta" THEN [fields |-> 0, crc |-> 0]
                ELSE 0]
    /\ media = mem
    /\ dirty = [l \in Lines |-> Nobody]
    /\ pc = [t \in Threads |-> "idle"]
    /\ op = [t \in Threads |-> "none"]
    /\ id = [t \in Threads |-> 0]
    /\ slot = [t \in Threads |-> 0]
    /\ cursor = [t \in Threads |-> 0]
    /\ limit = [t \in Threads |-> 0]
    /\ cur = [t \in Threads |-> 0]
    /\ new = [t \in Threads |-> 0]
    /\ calls = 0 /\ crashes = 0
    /\ acked = {} /\ dropped = {}

Goto(t, l) == pc' = [pc EXCEPT ![t] = l]

Call(t, o) ==
    /\ o \in Ops
    /\ pc[t] = "idle"
    /\ calls < MaxCalls
    /\ calls' = calls + 1
    /\ UNCHANGED crashes

Reset(threads, l) ==
    LET Fresh(f, v) == [t \in Threads |-> IF t \in threads THEN v ELSE f[t]] IN
    /\ pc' = Fresh(pc, l)
    /\ op' = Fresh(op, "none")
    /\ id' = Fresh(id, 0)
    /\ slot' = Fresh(slot, 0)
    /\ cursor' = Fresh(cursor, 0)
    /\ limit' = Fresh(limit, 0)
    /\ cur' = Fresh(cur, 0)
    /\ new' = Fresh(new, 0)

\* The record verifies: fields, payload and checksum are of the same append.
Verify(s) ==
    LET n == mem[Meta(s)].crc IN
    n # 0 /\ mem[Meta(s)].fields = n /\ \A k \in 0 .. PayloadCells - 1 : mem[Body(s, k)] = n

-----------------------------------------------------------------------------
(* append. *)

\* fetch_add on reserve_tail.
AddReserve(t, d) ==
    StoreCell(HostOf[t], Header, [mem[Header] EXCEPT !.reserve = (@ + d) % U64])

\* Mutant of Claim: the bounds check is off by one.
ClaimBeyond(t) ==
    /\ Call(t, "append")
    /\ mem[Header].reserve <= Capacity
    /\ AddReserve(t, 1)
    /\ op' = [op EXCEPT ![t] = "append"]
    /\ slot' = [slot EXCEPT ![t] = mem[Header].reserve]
    /\ id' = [id EXCEPT ![t] = calls + 1]
    /\ Goto(t, "mark")
    /\ UNCHANGED <<cursor, limit, cur, new, history>>

Claim(t) ==
    /\ Call(t, "append")
    /\ mem[Header].reserve < Capacity
    /\ AddReserve(t, 1)
    /\ op' = [op EXCEPT ![t] = "append"]
    /\ slot' = [slot EXCEPT ![t] = mem[Header].reserve]
    /\ id' = [id EXCEPT ![t] = calls + 1]
    /\ Goto(t, "mark")
    /\ UNCHANGED <<cursor, limit, cur, new, history>>

ClaimFull(t) ==
    /\ Call(t, "append")
    /\ mem[Header].reserve >= Capacity
    /\ AddReserve(t, 1)
    /\ Goto(t, "undo")
    /\ UNCHANGED <<locals, history>>

\* fetch_add(u64::MAX), and PoolFull.
Undo(t) ==
    /\ pc[t] = "undo"
    /\ AddReserve(t, U64 - 1)
    /\ Goto(t, "idle")
    /\ UNCHANGED <<locals, budget, history>>

MarkWriting(t) ==
    /\ pc[t] = "mark"
    /\ StoreCell(HostOf[t], State(slot[t]), "WRITING")
    /\ Goto(t, "fields")
    /\ UNCHANGED <<locals, budget, history>>

WriteFields(t) ==
    /\ pc[t] = "fields"
    /\ StoreCell(HostOf[t], Meta(slot[t]), [mem[Meta(slot[t])] EXCEPT !.fields = id[t]])
    /\ Goto(t, "payload")
    /\ UNCHANGED <<locals, budget, history>>

WritePayload(t) ==
    /\ pc[t] = "payload"
    /\ StoreCells(HostOf[t], [c \in {Body(slot[t], k) : k \in 0 .. PayloadCells - 1} |-> id[t]])
    /\ Goto(t, "crc")
    /\ UNCHANGED <<locals, budget, history>>

WriteCrc(t) ==
    /\ pc[t] = "crc"
    /\ StoreCell(HostOf[t], Meta(slot[t]), [mem[Meta(slot[t])] EXCEPT !.crc = id[t]])
    /\ Goto(t, "flush")
    /\ UNCHANGED <<locals, budget, history>>

\* Step 6, before the record is committed.
FlushRecord(t) ==
    /\ pc[t] = "flush"
    /\ Flush(FlushLines(RecordOffset(slot[t]), RecordSize))
    /\ Goto(t, "commit")
    /\ UNCHANGED <<locals, budget, history>>

Commit(t) ==
    /\ pc[t] = "commit"
    /\ StoreCell(HostOf[t], State(slot[t]), "COMMITTED")
    /\ Goto(t, "flush_state")
    /\ UNCHANGED <<locals, budget, history>>

\* Mutant of FlushState: the second flush is taken for redundant.
SkipFlushState(t) ==
    /\ pc[t] = "flush_state"
    /\ Goto(t, "load")
    /\ UNCHANGED <<memory, locals, budget, history>>

FlushState(t) ==
    /\ pc[t] = "flush_state"
    /\ Flush(FlushLines(RecordOffset(slot[t]), Line))
    /\ Goto(t, "load")
    /\ UNCHANGED <<locals, budget, history>>

-----------------------------------------------------------------------------
(* advance_committed_tail; the caller returns right after it.  The header  *)
(* is not flushed.                                                         *)

LoadTail(t) ==
    /\ pc[t] = "load"
    /\ Load(HostOf[t], {Header})
    /\ cur' = [cur EXCEPT ![t] = mem[Header].committed]
    /\ new' = [new EXCEPT ![t] = mem[Header].committed]
    /\ Goto(t, "scan")
    /\ UNCHANGED <<op, id, slot, cursor, limit, budget, history>>

Scan(t) ==
    /\ pc[t] = "scan"
    /\ new[t] < Capacity
    /\ Load(HostOf[t], {State(new[t])})
    /\ IF mem[State(new[t])] = "COMMITTED"
       THEN new' = [new EXCEPT ![t] = @ + 1] /\ UNCHANGED pc
       ELSE Goto(t, IF new[t] = cur[t] THEN "return" ELSE "cas") /\ UNCHANGED new
    /\ UNCHANGED <<op, id, slot, cursor, limit, cur, budget, history>>

ScanEnd(t) ==
    /\ pc[t] = "scan"
    /\ new[t] = Capacity
    /\ Goto(t, IF new[t] = cur[t] THEN "return" ELSE "cas")
    /\ UNCHANGED <<memory, locals, budget, history>>

Cas(t) ==
    /\ pc[t] = "cas"
    /\ IF mem[Header].committed = cur[t]
       THEN /\ StoreCell(HostOf[t], Header, [mem[Header] EXCEPT !.committed = new[t]])
            /\ Goto(t, "return")
       ELSE /\ Load(HostOf[t], {Header})
            /\ Goto(t, "load")
    /\ UNCHANGED <<locals, budget, history>>

Return(t) ==
    /\ pc[t] = "return"
    /\ acked' = IF op[t] = "append" THEN acked \cup {[slot |-> slot[t], id |-> id[t]]} ELSE acked
    /\ Reset({t}, "idle")
    /\ UNCHANGED <<memory, budget, dropped>>

-----------------------------------------------------------------------------
(* recover and trim. *)

\* A slot is held from its claim until COMMITTED is on the media.
Holding(t) == pc[t] \in {"mark", "fields", "payload", "crc", "flush", "commit", "flush_state"}

CallRecover(t) ==
    /\ Call(t, "recover")
    /\ Quiesced => \A u \in Threads : ~ Holding(u)
    /\ Load(HostOf[t], {Header})
    /\ limit' = [limit EXCEPT ![t] = IF mem[Header].reserve <= Capacity
                                     THEN mem[Header].reserve ELSE Capacity]
    /\ op' = [op EXCEPT ![t] = "recover"]
    /\ cursor' = [cursor EXCEPT ![t] = 0]
    /\ Goto(t, "inspect")
    /\ UNCHANGED <<id, slot, cur, new, history>>

\* A slot that needs nothing is passed: FREE, ABANDONED, or COMMITTED and verified.
Inspect(t) ==
    /\ pc[t] = "inspect"
    /\ cursor[t] < limit[t]
    /\ LET s == cursor[t] IN
       /\ Load(HostOf[t], IF mem[State(s)] = "COMMITTED" THEN RecordCells(s) ELSE {State(s)})
       /\ IF \/ mem[State(s)] \in {"FREE", "ABANDONED"}
             \/ mem[State(s)] = "COMMITTED" /\ Verify(s)
          THEN cursor' = [cursor EXCEPT ![t] = @ + 1] /\ UNCHANGED pc
          ELSE UNCHANGED cursor /\ Goto(t, "abandon")
    /\ UNCHANGED <<op, id, slot, limit, cur, new, budget, history>>

RecoverPhase2(t) ==
    /\ pc[t] = "inspect"
    /\ cursor[t] = limit[t]
    /\ Goto(t, "load")
    /\ UNCHANGED <<memory, locals, budget, history>>

\* TrimBeyondCommitted.
TrimBeyond(t, upTo) ==
    /\ Call(t, "trim")
    /\ upTo > mem[Header].committed
    /\ Load(HostOf[t], {Header})
    /\ UNCHANGED <<pc, locals, history>>

CallTrim(t, upTo) ==
    /\ Call(t, "trim")
    /\ upTo <= mem[Header].committed
    /\ Load(HostOf[t], {Header})
    /\ limit' = [limit EXCEPT ![t] = upTo]
    /\ op' = [op EXCEPT ![t] = "trim"]
    /\ cursor' = [cursor EXCEPT ![t] = 0]
    /\ Goto(t, "trim")
    /\ UNCHANGED <<id, slot, cur, new, history>>

TrimInspect(t) ==
    /\ pc[t] = "trim"
    /\ cursor[t] < limit[t]
    /\ Load(HostOf[t], {State(cursor[t])})
    /\ IF mem[State(cursor[t])] = "COMMITTED"
       THEN UNCHANGED cursor /\ Goto(t, "abandon")
       ELSE cursor' = [cursor EXCEPT ![t] = @ + 1] /\ UNCHANGED pc
    /\ UNCHANGED <<op, id, slot, limit, cur, new, budget, history>>

TrimReturn(t) ==
    /\ pc[t] = "trim"
    /\ cursor[t] = limit[t]
    /\ Goto(t, "return")
    /\ UNCHANGED <<memory, locals, budget, history>>

Abandon(t) ==
    /\ pc[t] = "abandon"
    /\ StoreCell(HostOf[t], State(cursor[t]), "ABANDONED")
    /\ Goto(t, "flush_abandon")
    /\ UNCHANGED <<locals, budget, history>>

\* Mutant of FlushAbandon: the state byte is left in the cache.
SkipFlushAbandon(t) ==
    /\ pc[t] = "flush_abandon"
    /\ dropped' = dropped \cup {cursor[t]}
    /\ cursor' = [cursor EXCEPT ![t] = @ + 1]
    /\ Goto(t, IF op[t] = "recover" THEN "inspect" ELSE "trim")
    /\ UNCHANGED <<memory, op, id, slot, limit, cur, new, budget, acked>>

FlushAbandon(t) ==
    /\ pc[t] = "flush_abandon"
    /\ Flush(FlushLines(RecordOffset(cursor[t]), Line))
    /\ dropped' = dropped \cup {cursor[t]}
    /\ cursor' = [cursor EXCEPT ![t] = @ + 1]
    /\ Goto(t, IF op[t] = "recover" THEN "inspect" ELSE "trim")
    /\ UNCHANGED <<op, id, slot, limit, cur, new, budget, acked>>

-----------------------------------------------------------------------------
(* Hosts. *)

\* Host h dies with its threads and its caches.
Crash(h) ==
    /\ crashes < MaxCrashes
    /\ \E t \in Threads : HostOf[t] = h /\ pc[t] # "down"
    /\ HeaderKept => dirty[LineOf[Header]] # h
    /\ crashes' = crashes + 1
    /\ mem' = [c \in Cells |-> IF dirty[LineOf[c]] = h THEN media[c] ELSE mem[c]]
    /\ dirty' = [l \in Lines |-> IF dirty[l] = h THEN Nobody ELSE dirty[l]]
    /\ Reset({t \in Threads : HostOf[t] = h}, "down")
    /\ UNCHANGED <<media, calls, history>>

\* FenceRuntime::open without create changes nothing.
Restart(h) ==
    /\ \E t \in Threads : HostOf[t] = h /\ pc[t] = "down"
    /\ pc' = [t \in Threads |-> IF HostOf[t] = h /\ pc[t] = "down" THEN "idle" ELSE pc[t]]
    /\ UNCHANGED <<memory, locals, budget, history>>

Append(t) ==
    \/ Claim(t) \/ ClaimFull(t) \/ Undo(t)
    \/ MarkWriting(t) \/ WriteFields(t) \/ WritePayload(t) \/ WriteCrc(t)
    \/ FlushRecord(t) \/ Commit(t) \/ FlushState(t)

Advance(t) == LoadTail(t) \/ Scan(t) \/ ScanEnd(t) \/ Cas(t) \/ Return(t)

Recover(t) == CallRecover(t) \/ Inspect(t) \/ RecoverPhase2(t)

Trim(t) ==
    \/ \E upTo \in 0 .. Capacity : TrimBeyond(t, upTo) \/ CallTrim(t, upTo)
    \/ TrimInspect(t) \/ TrimReturn(t)

\* The clients have made their calls, and all of them have returned.
Rest ==
    /\ calls = MaxCalls
    /\ \A t \in Threads : pc[t] \in {"idle", "down"}
    /\ UNCHANGED vars

Next ==
    \/ \E t \in Threads :
          Append(t) \/ Advance(t) \/ Recover(t) \/ Trim(t) \/ Abandon(t) \/ FlushAbandon(t)
    \/ \E h \in Hosts : Crash(h) \/ Restart(h)
    \/ \E l \in Lines : Evict(l)
    \/ Rest

Spec == Init /\ [][Next]_vars

-----------------------------------------------------------------------------
(* Properties. *)

\* The cells, on the media too, the dirty lines and the locals have their types, and
\* a line that is dirty nowhere is on the media as the hosts see it.
CacheTypeOK ==
    /\ DOMAIN mem = Cells /\ DOMAIN media = Cells
    /\ \A s \in Slots : mem[State(s)] \in {"FREE", "WRITING", "COMMITTED", "ABANDONED"}
    /\ dirty \in [Lines -> Hosts \cup {Nobody}]
    /\ \A c \in Cells : dirty[LineOf[c]] = Nobody => media[c] = mem[c]
    /\ slot \in [Threads -> Slots]
    /\ cur \in [Threads -> 0 .. Capacity] /\ new \in [Threads -> 0 .. Capacity]

\* "Payload is fully written, checksum is valid, data is flushed" (STATE_COMMITTED,
\* layout.rs): a COMMITTED record is whole on the media, whatever was evicted and
\* whichever host dies next.
CommittedOnMedia ==
    \A s \in Slots : mem[State(s)] = "COMMITTED" =>
        /\ Verify(s)
        /\ \A c \in RecordCells(s) \ {State(s)} : media[c] = mem[c]

\* An append that returned Ok survives the death of any host: its record is
\* COMMITTED and holds what this append wrote, until recover or trim drop it.
AckedSurvives ==
    \A a \in acked :
        \/ a.slot \in dropped
        \/ mem[State(a.slot)] \in {"COMMITTED", "ABANDONED"} /\ mem[Meta(a.slot)].crc = a.id
           /\ Verify(a.slot)

\* A record recover or trim is done with stays ABANDONED: it does not come back
\* with the death of the host that abandoned it.
DroppedStays == \A s \in dropped : mem[State(s)] = "ABANDONED"

\* A thread that has ended record s, COMMITTED or ABANDONED, and not flushed its state yet.
Ending(t, s) ==
    \/ pc[t] = "flush_state" /\ slot[t] = s
    \/ pc[t] = "flush_abandon" /\ cursor[t] = s

\* Nothing waits for an eviction: a record that has ended for the hosts has ended on the
\* media, too, or a thread is left to flush its state byte, on the host that has it in its
\* cache.
EndedFlushed ==
    \A s \in Slots : mem[State(s)] \in {"COMMITTED", "ABANDONED"} =>
        \/ media[State(s)] \in {"COMMITTED", "ABANDONED"}
        \/ \E t \in Threads : Ending(t, s) /\ dirty[LineOf[State(s)]] = HostOf[t]

\* committed_tail is the "number of contiguous committed records from the start"
\* (engine.rs): no slot below it is still, or again, being written.
TailBacked ==
    \A s \in Slots : s < mem[Header].committed => mem[State(s)] \in {"COMMITTED", "ABANDONED"}
=============================================================================
