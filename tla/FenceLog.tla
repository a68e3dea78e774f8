------------------------------ MODULE FenceLog ------------------------------
(***************************************************************************)
(* The shared append-only log of the Fence runtime (fence-runtime crate).  *)
(*                                                                         *)
(* A pool is a header with two counters, reserve_tail and committed_tail,  *)
(* and Capacity record slots.  Threads of several hosts map the same pool  *)
(* and call append, read / read_range, trim and recover on it without any  *)
(* lock.  One action below is one access to the shared memory, with the    *)
(* local computation that follows it.                                      *)
(*                                                                         *)
(* The memory is coherent and a crash is the death of a process: its       *)
(* threads vanish in the middle of a call, what they stored stays.  Flushes *)
(* (clwb + sfence) change nothing in that memory and belong to the store   *)
(* they follow.                                                            *)
(***************************************************************************)
EXTENDS Integers, FiniteSets, Functions

CONSTANTS
    Capacity,      \* number of record slots (PoolGeometry::capacity)
    PayloadSize,   \* largest payload (PoolGeometry::payload_size)
    U64,           \* modulus of the 64-bit counters (2^64 in the code)
    Threads,       \* threads that call into the runtime
    Hosts,         \* host ids (writer_id)
    HostOf,        \* the host each thread runs on
    Terms,         \* terms the clients pass to append
    Payloads,      \* payloads the clients pass to append
    PayloadLen,    \* their lengths
    Empty,         \* the payload of length zero, and a zeroed payload area
    Garbage,       \* bytes nobody wrote, left by a media fault
    Ops,           \* the operations the clients call
    Quiesced,      \* recover is only called when no append is between its claim and its commit
    MaxCalls,      \* bound: calls the clients make
    MaxCrashes,    \* bound: process crashes
    MaxFaults,     \* bound: media faults
    FaultWords     \* bound: the integers a media fault leaves in a field

ASSUME CapacityAssumption == Capacity \in Nat
ASSUME PayloadAssumption ==
    /\ PayloadSize \in Nat
    /\ PayloadLen \in [Payloads -> Nat]
    /\ Empty \in Payloads
    /\ Garbage \notin Payloads
    /\ \A p \in Payloads : PayloadLen[p] = 0 <=> p = Empty
ASSUME ThreadAssumption ==
    /\ IsFiniteSet(Threads) /\ IsFiniteSet(Hosts)
    /\ Hosts \subseteq Nat
    /\ HostOf \in [Threads -> Hosts]
    /\ Terms \subseteq Nat
ASSUME OpsAssumption ==
    /\ Ops \subseteq {"append", "read", "trim", "recover"}
    /\ Quiesced \in BOOLEAN
\* A 64-bit counter outlives every run: there are fewer calls than 2^64.  Lengths and
\* slot numbers fit in one, too.
ASSUME BoundAssumption ==
    /\ MaxCalls \in Nat /\ MaxCrashes \in Nat /\ MaxFaults \in Nat
    /\ U64 \in Nat /\ MaxCalls < U64
    /\ Capacity < U64 /\ \A p \in Payloads : PayloadLen[p] < U64
    /\ FaultWords \subseteq Nat

VARIABLES
    \* the pool
    reserve_tail,    \* HDR_RESERVE_TAIL
    committed_tail,  \* HDR_COMMITTED_TAIL
    rec,             \* the record slots
    metrics,         \* one MetricsBlock per host
    \* the threads: where each one is, and its local variables
    pc,
    op,              \* the operation being run
    arg,             \* append: the term and the data passed
    slot,            \* append: the claimed slot
    cursor,          \* the loop variable of recover, trim and read_range
    limit,           \* the loop's upper bound
    cur,             \* advance_committed_tail: current_tail
    new,             \* advance_committed_tail: new_tail
    count,           \* recover: abandoned_count
    got,             \* read: the fields loaded so far
    \* what has been spent of the bounds
    calls, crashes, faults,
    \* history
    entry,           \* what the append that claimed the slot was given
    done,            \* slots whose writer stored COMMITTED
    acked,           \* slots whose append returned Ok
    trimmed,         \* slots trim abandoned
    corrupt          \* slots a media fault hit

pool    == <<reserve_tail, committed_tail, rec, metrics>>
locals  == <<op, arg, slot, cursor, limit, cur, new, count, got>>
budget  == <<calls, crashes, faults>>
history == <<entry, done, acked, trimmed, corrupt>>
vars    == <<pool, pc, locals, budget, history>>

-----------------------------------------------------------------------------
(* The data. *)

Slots    == 0 .. Capacity - 1
States   == {"FREE", "WRITING", "COMMITTED", "ABANDONED", "UNKNOWN"}
Bytes    == Payloads \cup {Garbage}
Entries  == [term : Nat, data : Payloads, writer : Nat]
Crcs     == [term : Nat, index : Int, data : Bytes]
Records  == [state : States, term : Nat, index : Nat, writer : Nat,
             len : Nat, data : Bytes, crc : Crcs]
Counters == {"appends_total", "appends_failed", "bytes_written", "reads_total",
             "checksum_failures", "recovery_runs", "abandoned_found"}

NoEntry == [term |-> 0, data |-> Empty, writer |-> 0]
\* A checksum word that verifies for no record: no index is negative.
BadCrc  == [term |-> 0, index |-> -1, data |-> Garbage]
\* A slot of a new, zero-filled pool file.
ZeroRecord == [state |-> "FREE", term |-> 0, index |-> 0, writer |-> 0,
               len |-> 0, data |-> Empty, crc |-> BadCrc]

\* checksum::compute, as an ideal (injective) checksum of what it covers: the
\* writer_id is not part of it.
Compute(term, index, data) == [term |-> term, index |-> index, data |-> data]

MinOf(a, b) == IF a <= b THEN a ELSE b

\* The payload a reader takes: min(data_len, payload_size) bytes of the area.  A
\* length that is not the one of the payload stored there gives nobody's bytes.
Cut(data, len) ==
    LET n == MinOf(len, PayloadSize) IN
    IF n = 0 THEN Empty
    ELSE IF data \in Payloads /\ PayloadLen[data] = n THEN data ELSE Garbage

\* Mutant of Verify: the payload is left out of the comparison.
VerifyHeader(r) == r.crc.term = r.term /\ r.crc.index = r.index

\* checksum::verify over the fields of a record as they were loaded.
Verify(r) == r.crc = Compute(r.term, r.index, Cut(r.data, r.len))

\* Mutant of WrappingAdd: the undo's u64::MAX is added without wrapping.
PlainAdd(x, d) == x + d

\* fetch_add on a u64 wraps.
WrappingAdd(x, d) == IF x + d < U64 THEN x + d ELSE x + d - U64

-----------------------------------------------------------------------------
Init ==
    /\ reserve_tail = 0
    /\ committed_tail = 0
    /\ rec = [s \in Slots |-> ZeroRecord]
    /\ metrics = [h \in Hosts |-> [c \in Counters |-> 0]]
    /\ pc = [t \in Threads |-> "idle"]
    /\ op = [t \in Threads |-> "none"]
    /\ arg = [t \in Threads |-> NoEntry]
    /\ slot = [t \in Threads |-> 0]
    /\ cursor = [t \in Threads |-> 0]
    /\ limit = [t \in Threads |-> 0]
    /\ cur = [t \in Threads |-> 0]
    /\ new = [t \in Threads |-> 0]
    /\ count = [t \in Threads |-> 0]
    /\ got = [t \in Threads |-> ZeroRecord]
    /\ calls = 0 /\ crashes = 0 /\ faults = 0
    /\ entry = [s \in Slots |-> NoEntry]
    /\ done = {} /\ acked = {} /\ trimmed = {} /\ corrupt = {}

Goto(t, l) == pc' = [pc EXCEPT ![t] = l]

\* A client calls operation o: at most MaxCalls times.
Call(t, o) ==
    /\ o \in Ops
    /\ pc[t] = "idle"
    /\ calls < MaxCalls
    /\ calls' = calls + 1
    /\ UNCHANGED <<crashes, faults>>

\* The call returns: the locals go out of scope.
Return(t) ==
    /\ Goto(t, "idle")
    /\ op' = [op EXCEPT ![t] = "none"]
    /\ arg' = [arg EXCEPT ![t] = NoEntry]
    /\ slot' = [slot EXCEPT ![t] = 0]
    /\ cursor' = [cursor EXCEPT ![t] = 0]
    /\ limit' = [limit EXCEPT ![t] = 0]
    /\ cur' = [cur EXCEPT ![t] = 0]
    /\ new' = [new EXCEPT ![t] = 0]
    /\ count' = [count EXCEPT ![t] = 0]
    /\ got' = [got EXCEPT ![t] = ZeroRecord]

\* fetch_add on a counter of the caller's own MetricsBlock.
Increment(t, c, n) ==
    metrics' = [metrics EXCEPT ![HostOf[t]][c] = WrappingAdd(@, n)]

SetState(s, state) == rec' = [rec EXCEPT ![s].state = state]

-----------------------------------------------------------------------------
(* append (engine.rs). *)

\* A payload longer than the slots is refused before anything is touched.
AppendTooLarge(t, data) ==
    /\ Call(t, "append")
    /\ PayloadLen[data] > PayloadSize
    /\ UNCHANGED <<pool, pc, locals, history>>

\* Mutant of Claim: a load and a store instead of a fetch_add, so that the
\* increment may be lost to a concurrent one.
ClaimLost(t, term, data) ==
    /\ Call(t, "append")
    /\ PayloadLen[data] <= PayloadSize
    /\ reserve_tail < Capacity
    /\ reserve_tail' \in {reserve_tail, reserve_tail + 1}
    /\ op' = [op EXCEPT ![t] = "append"]
    /\ slot' = [slot EXCEPT ![t] = reserve_tail]
    /\ arg' = [arg EXCEPT ![t] = [term |-> term, data |-> data, writer |-> HostOf[t]]]
    /\ entry' = [entry EXCEPT ![reserve_tail] = arg'[t]]
    /\ Goto(t, "mark")
    /\ UNCHANGED <<committed_tail, rec, metrics, cursor, limit, cur, new, count, got,
                   done, acked, trimmed, corrupt>>

\* Step 1: fetch_add on reserve_tail; the old value is the claimed slot.
Claim(t, term, data) ==
    /\ Call(t, "append")
    /\ PayloadLen[data] <= PayloadSize
    /\ reserve_tail < Capacity
    /\ reserve_tail' = WrappingAdd(reserve_tail, 1)
    /\ op' = [op EXCEPT ![t] = "append"]
    /\ slot' = [slot EXCEPT ![t] = reserve_tail]
    /\ arg' = [arg EXCEPT ![t] = [term |-> term, data |-> data, writer |-> HostOf[t]]]
    /\ entry' = [entry EXCEPT ![reserve_tail] = arg'[t]]
    /\ Goto(t, "mark")
    /\ UNCHANGED <<committed_tail, rec, metrics, cursor, limit, cur, new, count, got,
                   done, acked, trimmed, corrupt>>

\* Step 2: the slot is out of bounds, the reservation has to be undone.
ClaimFull(t, data) ==
    /\ Call(t, "append")
    /\ PayloadLen[data] <= PayloadSize
    /\ reserve_tail >= Capacity
    /\ reserve_tail' = WrappingAdd(reserve_tail, 1)
    /\ op' = [op EXCEPT ![t] = "append"]
    /\ Goto(t, "undo")
    /\ UNCHANGED <<committed_tail, rec, metrics, arg, slot, cursor, limit, cur, new,
                   count, got, history>>

\* Mutant of Undo: one too many is given back.
UndoTwice(t) ==
    /\ pc[t] = "undo"
    /\ reserve_tail' = WrappingAdd(reserve_tail, U64 - 2)
    /\ Goto(t, "count_failed")
    /\ UNCHANGED <<committed_tail, rec, metrics, locals, budget, history>>

\* fetch_add(u64::MAX), which wraps to a subtraction of one.
Undo(t) ==
    /\ pc[t] = "undo"
    /\ reserve_tail' = WrappingAdd(reserve_tail, U64 - 1)
    /\ Goto(t, "count_failed")
    /\ UNCHANGED <<committed_tail, rec, metrics, locals, budget, history>>

\* Mutant of CountFailed: the wrong counter.
CountFailedAsAppend(t) ==
    /\ pc[t] = "count_failed"
    /\ Increment(t, "appends_total", 1)
    /\ Return(t)
    /\ UNCHANGED <<reserve_tail, committed_tail, rec, budget, history>>

\* PoolFull is returned.
CountFailed(t) ==
    /\ pc[t] = "count_failed"
    /\ Increment(t, "appends_failed", 1)
    /\ Return(t)
    /\ UNCHANGED <<reserve_tail, committed_tail, rec, budget, history>>

\* Step 3.
MarkWriting(t) ==
    /\ pc[t] = "mark"
    /\ SetState(slot[t], "WRITING")
    /\ Goto(t, "fields")
    /\ UNCHANGED <<reserve_tail, committed_tail, metrics, locals, budget, history>>

\* Step 4: term, index, writer_id and data_len.  Nobody else loads them before
\* the state is COMMITTED, so the four stores are one step.
WriteFields(t) ==
    /\ pc[t] = "fields"
    /\ rec' = [rec EXCEPT ![slot[t]].term = arg[t].term,
                          ![slot[t]].index = slot[t] + 1,
                          ![slot[t]].writer = HostOf[t],
                          ![slot[t]].len = PayloadLen[arg[t].data]]
    /\ Goto(t, "payload")
    /\ UNCHANGED <<reserve_tail, committed_tail, metrics, locals, budget, history>>

\* The payload area is left alone when there is no data.
WritePayload(t) ==
    /\ pc[t] = "payload"
    /\ IF PayloadLen[arg[t].data] > 0
       THEN rec' = [rec EXCEPT ![slot[t]].data = arg[t].data]
       ELSE UNCHANGED rec
    /\ Goto(t, "crc")
    /\ UNCHANGED <<reserve_tail, committed_tail, metrics, locals, budget, history>>

\* Mutant of WriteCrc: the slot is checksummed in place of the 1-based index.
WriteCrcSlot(t) ==
    /\ pc[t] = "crc"
    /\ rec' = [rec EXCEPT ![slot[t]].crc = Compute(arg[t].term, slot[t], arg[t].data)]
    /\ Goto(t, "commit")
    /\ UNCHANGED <<reserve_tail, committed_tail, metrics, locals, budget, history>>

\* Steps 5 and 6: the checksum of what the caller passed, and the flush.
WriteCrc(t) ==
    /\ pc[t] = "crc"
    /\ rec' = [rec EXCEPT ![slot[t]].crc = Compute(arg[t].term, slot[t] + 1, arg[t].data)]
    /\ Goto(t, "commit")
    /\ UNCHANGED <<reserve_tail, committed_tail, metrics, locals, budget, history>>

\* Step 7.
Commit(t) ==
    /\ pc[t] = "commit"
    /\ SetState(slot[t], "COMMITTED")
    /\ done' = done \cup {slot[t]}
    /\ Goto(t, "load")
    /\ UNCHANGED <<reserve_tail, committed_tail, metrics, locals, budget,
                   entry, acked, trimmed, corrupt>>

\* After step 8, the metrics.
CountAppend(t) ==
    /\ pc[t] = "count_append"
    /\ Increment(t, "appends_total", 1)
    /\ Goto(t, "count_bytes")
    /\ UNCHANGED <<reserve_tail, committed_tail, rec, locals, budget, history>>

\* Ok(index) is returned.
CountBytes(t) ==
    /\ pc[t] = "count_bytes"
    /\ Increment(t, "bytes_written", PayloadLen[arg[t].data])
    /\ acked' = acked \cup {slot[t]}
    /\ Return(t)
    /\ UNCHANGED <<reserve_tail, committed_tail, rec, budget, entry, done, trimmed, corrupt>>

-----------------------------------------------------------------------------
(* advance_committed_tail (recovery.rs), run by append and by recover. *)

\* Where the caller goes on.
AfterAdvance(t) == IF op[t] = "append" THEN "count_append" ELSE "count_run"

LoadTail(t) ==
    /\ pc[t] = "load"
    /\ cur' = [cur EXCEPT ![t] = committed_tail]
    /\ new' = [new EXCEPT ![t] = committed_tail]
    /\ Goto(t, "scan")
    /\ UNCHANGED <<pool, op, arg, slot, cursor, limit, count, got, budget, history>>

\* Mutant of Contiguous: any slot that was claimed is passed.
ContiguousClaimed(t) == new[t] < Capacity /\ rec[new[t]].state # "FREE"

\* One slot of the walk through contiguous COMMITTED slots.
Contiguous(t) == new[t] < Capacity /\ rec[new[t]].state = "COMMITTED"

\* Mutant of ScanOn: the walk is one slot long.
ScanOne(t) ==
    /\ pc[t] = "scan"
    /\ Contiguous(t)
    /\ new' = [new EXCEPT ![t] = @ + 1]
    /\ Goto(t, "cas")
    /\ UNCHANGED <<pool, op, arg, slot, cursor, limit, cur, count, got, budget, history>>

ScanOn(t) ==
    /\ pc[t] = "scan"
    /\ Contiguous(t)
    /\ new' = [new EXCEPT ![t] = @ + 1]
    /\ UNCHANGED <<pool, pc, op, arg, slot, cursor, limit, cur, count, got, budget, history>>

ScanStop(t) ==
    /\ pc[t] = "scan"
    /\ ~ Contiguous(t)
    /\ Goto(t, IF new[t] = cur[t] THEN AfterAdvance(t) ELSE "cas")
    /\ UNCHANGED <<pool, locals, budget, history>>

\* Mutant of Cas: a plain store.
CasStore(t) ==
    /\ pc[t] = "cas"
    /\ committed_tail' = new[t]
    /\ Goto(t, AfterAdvance(t))
    /\ UNCHANGED <<reserve_tail, rec, metrics, locals, budget, history>>

\* Mutant of Cas: no retry.
CasOnce(t) ==
    /\ pc[t] = "cas"
    /\ committed_tail' = IF committed_tail = cur[t] THEN new[t] ELSE committed_tail
    /\ Goto(t, AfterAdvance(t))
    /\ UNCHANGED <<reserve_tail, rec, metrics, locals, budget, history>>

\* Mutant of Cas: a retry that does not load the tail again.
CasSpin(t) ==
    /\ pc[t] = "cas"
    /\ IF committed_tail = cur[t]
       THEN committed_tail' = new[t] /\ Goto(t, AfterAdvance(t))
       ELSE UNCHANGED <<committed_tail, pc>>
    /\ UNCHANGED <<reserve_tail, rec, metrics, locals, budget, history>>

\* The compare-exchange: somebody else moved the tail, start over.
Cas(t) ==
    /\ pc[t] = "cas"
    /\ IF committed_tail = cur[t]
       THEN committed_tail' = new[t] /\ Goto(t, AfterAdvance(t))
       ELSE UNCHANGED committed_tail /\ Goto(t, "load")
    /\ UNCHANGED <<reserve_tail, rec, metrics, locals, budget, history>>

-----------------------------------------------------------------------------
(* recover (recovery.rs, engine.rs). *)

\* A slot is held from its claim until its state is COMMITTED.
Holding(t) == pc[t] \in {"mark", "fields", "payload", "crc", "commit"}

\* Mutant of CallRecover: the whole pool is scanned, claimed or not.
CallRecoverAll(t) ==
    /\ Call(t, "recover")
    /\ Quiesced => \A u \in Threads : ~ Holding(u)
    /\ limit' = [limit EXCEPT ![t] = Capacity]
    /\ op' = [op EXCEPT ![t] = "recover"]
    /\ Goto(t, "inspect")
    /\ cursor' = [cursor EXCEPT ![t] = 0]
    /\ count' = [count EXCEPT ![t] = 0]
    /\ UNCHANGED <<pool, arg, slot, cur, new, got, history>>

\* The scan covers the slots claimed at this moment.
CallRecover(t) ==
    /\ Call(t, "recover")
    /\ Quiesced => \A u \in Threads : ~ Holding(u)
    /\ limit' = [limit EXCEPT ![t] = MinOf(reserve_tail, Capacity)]
    /\ op' = [op EXCEPT ![t] = "recover"]
    /\ Goto(t, "inspect")
    /\ cursor' = [cursor EXCEPT ![t] = 0]
    /\ count' = [count EXCEPT ![t] = 0]
    /\ UNCHANGED <<pool, arg, slot, cur, new, got, history>>

\* Load a slot's state.
Inspect(t) ==
    /\ pc[t] = "inspect"
    /\ cursor[t] < limit[t]
    /\ LET state == rec[cursor[t]].state IN
       IF state \in {"FREE", "ABANDONED"}
       THEN cursor' = [cursor EXCEPT ![t] = @ + 1] /\ UNCHANGED pc
       ELSE UNCHANGED cursor /\ Goto(t, IF state = "COMMITTED" THEN "check" ELSE "abandon")
    /\ UNCHANGED <<pool, op, arg, slot, limit, cur, new, count, got, budget, history>>

\* Load the fields and the payload of a COMMITTED slot and verify them.
Check(t) ==
    /\ pc[t] = "check"
    /\ IF Verify(rec[cursor[t]])
       THEN cursor' = [cursor EXCEPT ![t] = @ + 1] /\ Goto(t, "inspect")
       ELSE UNCHANGED cursor /\ Goto(t, "abandon")
    /\ UNCHANGED <<pool, op, arg, slot, limit, cur, new, count, got, budget, history>>

Abandon(t) ==
    /\ pc[t] = "abandon"
    /\ SetState(cursor[t], "ABANDONED")
    /\ count' = [count EXCEPT ![t] = @ + 1]
    /\ cursor' = [cursor EXCEPT ![t] = @ + 1]
    /\ Goto(t, "inspect")
    /\ UNCHANGED <<reserve_tail, committed_tail, metrics, op, arg, slot, limit, cur, new,
                   got, budget, history>>

\* Mutant of RecoverPhase2: the tail is left where it is.
RecoverNoAdvance(t) ==
    /\ pc[t] = "inspect"
    /\ cursor[t] = limit[t]
    /\ Goto(t, "count_run")
    /\ UNCHANGED <<pool, locals, budget, history>>

\* Phase 2: advance the committed tail.
RecoverPhase2(t) ==
    /\ pc[t] = "inspect"
    /\ cursor[t] = limit[t]
    /\ Goto(t, "load")
    /\ UNCHANGED <<pool, locals, budget, history>>

CountRun(t) ==
    /\ pc[t] = "count_run"
    /\ Increment(t, "recovery_runs", 1)
    /\ IF count[t] > 0 THEN Goto(t, "count_abandoned") /\ UNCHANGED locals ELSE Return(t)
    /\ UNCHANGED <<reserve_tail, committed_tail, rec, budget, history>>

CountAbandoned(t) ==
    /\ pc[t] = "count_abandoned"
    /\ Increment(t, "abandoned_found", count[t])
    /\ Return(t)
    /\ UNCHANGED <<reserve_tail, committed_tail, rec, budget, history>>

-----------------------------------------------------------------------------
(* trim (compaction.rs). *)

TrimBeyond(t, upTo) ==
    /\ Call(t, "trim")
    /\ upTo > committed_tail
    /\ UNCHANGED <<pool, pc, locals, history>>

\* Mutant of CallTrim: up_to is not compared with the committed tail.
CallTrimUnchecked(t, upTo) ==
    /\ Call(t, "trim")
    /\ limit' = [limit EXCEPT ![t] = upTo]
    /\ op' = [op EXCEPT ![t] = "trim"]
    /\ Goto(t, "trim")
    /\ cursor' = [cursor EXCEPT ![t] = 0]
    /\ UNCHANGED <<pool, arg, slot, cur, new, count, got, history>>

CallTrim(t, upTo) ==
    /\ Call(t, "trim")
    /\ upTo <= committed_tail
    /\ limit' = [limit EXCEPT ![t] = upTo]
    /\ op' = [op EXCEPT ![t] = "trim"]
    /\ Goto(t, "trim")
    /\ cursor' = [cursor EXCEPT ![t] = 0]
    /\ UNCHANGED <<pool, arg, slot, cur, new, count, got, history>>

TrimInspect(t) ==
    /\ pc[t] = "trim"
    /\ cursor[t] < limit[t]
    /\ IF rec[cursor[t]].state = "COMMITTED"
       THEN UNCHANGED cursor /\ Goto(t, "trim_store")
       ELSE cursor' = [cursor EXCEPT ![t] = @ + 1] /\ UNCHANGED pc
    /\ UNCHANGED <<pool, op, arg, slot, limit, cur, new, count, got, budget, history>>

TrimStore(t) ==
    /\ pc[t] = "trim_store"
    /\ SetState(cursor[t], "ABANDONED")
    /\ trimmed' = trimmed \cup {cursor[t]}
    /\ cursor' = [cursor EXCEPT ![t] = @ + 1]
    /\ Goto(t, "trim")
    /\ UNCHANGED <<reserve_tail, committed_tail, metrics, op, arg, slot, limit, cur, new,
                   count, got, budget, entry, done, acked, corrupt>>

TrimReturn(t) ==
    /\ pc[t] = "trim"
    /\ cursor[t] = limit[t]
    /\ Return(t)
    /\ UNCHANGED <<pool, budget, history>>

-----------------------------------------------------------------------------
(* read and read_range (engine.rs): read(i) is the range [i, i + 1). *)

CallRead(t, first, last) ==
    /\ Call(t, "read")
    /\ first <= last
    /\ cursor' = [cursor EXCEPT ![t] = first]
    /\ limit' = [limit EXCEPT ![t] = last]
    /\ op' = [op EXCEPT ![t] = "read"]
    /\ Goto(t, "read")
    /\ UNCHANGED <<pool, arg, slot, cur, new, count, got, history>>

\* The range is exhausted, or the index is 0 or beyond the committed tail
\* (IndexOutOfBounds).
ReadReturn(t) ==
    /\ pc[t] = "read"
    /\ cursor[t] = limit[t] \/ cursor[t] = 0 \/ cursor[t] > committed_tail
    /\ Return(t)
    /\ UNCHANGED <<pool, budget, history>>

ReadTail(t) ==
    /\ pc[t] = "read"
    /\ cursor[t] < limit[t]
    /\ cursor[t] \in 1 .. committed_tail
    /\ Goto(t, "read_state")
    /\ UNCHANGED <<pool, locals, budget, history>>

\* A record that is not COMMITTED is skipped (None).
ReadState(t) ==
    /\ pc[t] = "read_state"
    /\ IF rec[cursor[t] - 1].state = "COMMITTED"
       THEN UNCHANGED cursor /\ Goto(t, "read_fields")
       ELSE cursor' = [cursor EXCEPT ![t] = @ + 1] /\ Goto(t, "read")
    /\ UNCHANGED <<pool, op, arg, slot, limit, cur, new, count, got, budget, history>>

\* term, index, writer_id, data_len and checksum ...
ReadFields(t) ==
    /\ pc[t] = "read_fields"
    /\ got' = [got EXCEPT ![t] = [rec[cursor[t] - 1] EXCEPT !.state = "FREE",
                                                              !.data = Empty]]
    /\ Goto(t, "read_payload")
    /\ UNCHANGED <<pool, op, arg, slot, cursor, limit, cur, new, count, budget, history>>

\* ... then the payload.
ReadPayload(t) ==
    /\ pc[t] = "read_payload"
    /\ got' = [got EXCEPT ![t].data = Cut(rec[cursor[t] - 1].data, got[t].len)]
    /\ Goto(t, "read_verify")
    /\ UNCHANGED <<pool, op, arg, slot, cursor, limit, cur, new, count, budget, history>>

\* The record is returned (Some) and the range goes on ...
ReadOk(t) ==
    /\ pc[t] = "read_verify"
    /\ Verify(got[t])
    /\ Increment(t, "reads_total", 1)
    /\ got' = [got EXCEPT ![t] = ZeroRecord]
    /\ cursor' = [cursor EXCEPT ![t] = @ + 1]
    /\ Goto(t, "read")
    /\ UNCHANGED <<reserve_tail, committed_tail, rec, op, arg, slot, limit, cur, new, count,
                   budget, history>>

\* ... or ChecksumMismatch ends it.
ReadMismatch(t) ==
    /\ pc[t] = "read_verify"
    /\ ~ Verify(got[t])
    /\ Increment(t, "checksum_failures", 1)
    /\ Return(t)
    /\ UNCHANGED <<reserve_tail, committed_tail, rec, budget, history>>

-----------------------------------------------------------------------------
(* What happens to the hosts and to the medium. *)

\* A process dies: every thread of it, wherever it is.
Crash(h) ==
    /\ crashes < MaxCrashes
    /\ \E t \in Threads : HostOf[t] = h /\ pc[t] # "down"
    /\ crashes' = crashes + 1
    /\ LET Lost(f, v) == [t \in Threads |-> IF HostOf[t] = h THEN v ELSE f[t]] IN
       /\ pc' = Lost(pc, "down")
       /\ op' = Lost(op, "none")
       /\ arg' = Lost(arg, NoEntry)
       /\ slot' = Lost(slot, 0)
       /\ cursor' = Lost(cursor, 0)
       /\ limit' = Lost(limit, 0)
       /\ cur' = Lost(cur, 0)
       /\ new' = Lost(new, 0)
       /\ count' = Lost(count, 0)
       /\ got' = Lost(got, ZeroRecord)
    /\ UNCHANGED <<pool, calls, faults, history>>

\* FenceRuntime::open of the existing pool checks the magic number and changes nothing.
Restart(h) ==
    /\ \E t \in Threads : HostOf[t] = h /\ pc[t] = "down"
    /\ pc' = [t \in Threads |-> IF HostOf[t] = h /\ pc[t] = "down" THEN "idle" ELSE pc[t]]
    /\ UNCHANGED <<pool, locals, budget, history>>

\* The corruption the checksum and the unknown-state branches are there for: any
\* field of a record changes, the writer_id too, which no checksum covers.  A
\* damaged state byte is none of the four codes.
MediaFault(s) ==
    /\ faults < MaxFaults
    /\ faults' = faults + 1
    /\ \/ SetState(s, "UNKNOWN")
       \/ \E w \in FaultWords : \/ rec' = [rec EXCEPT ![s].term = w]
                              \/ rec' = [rec EXCEPT ![s].index = w]
                              \/ rec' = [rec EXCEPT ![s].writer = w]
                              \/ rec' = [rec EXCEPT ![s].len = w]
       \/ rec' = [rec EXCEPT ![s].data = Garbage]
       \/ rec' = [rec EXCEPT ![s].crc = BadCrc]
    /\ corrupt' = corrupt \cup {s}
    /\ UNCHANGED <<reserve_tail, committed_tail, metrics, pc, locals, calls, crashes,
                   entry, done, acked, trimmed>>

-----------------------------------------------------------------------------
AtRest(t) == pc[t] \in {"idle", "down"}

Start(t) ==
    \/ \E data \in Payloads : AppendTooLarge(t, data) \/ ClaimFull(t, data)
    \/ \E term \in Terms, data \in Payloads : Claim(t, term, data)
    \/ CallRecover(t)
    \/ \E upTo \in 0 .. Capacity : TrimBeyond(t, upTo) \/ CallTrim(t, upTo)
    \/ \E first, last \in 0 .. Capacity + 1 : CallRead(t, first, last)

Advance(t) == LoadTail(t) \/ ScanOn(t) \/ ScanStop(t) \/ Cas(t)

Append(t) ==
    \/ Undo(t) \/ CountFailed(t)
    \/ MarkWriting(t) \/ WriteFields(t) \/ WritePayload(t) \/ WriteCrc(t) \/ Commit(t)
    \/ CountAppend(t) \/ CountBytes(t)

Recover(t) ==
    \/ Inspect(t) \/ Check(t) \/ Abandon(t) \/ RecoverPhase2(t)
    \/ CountRun(t) \/ CountAbandoned(t)

Trim(t) == TrimInspect(t) \/ TrimStore(t) \/ TrimReturn(t)

Read(t) ==
    \/ ReadReturn(t) \/ ReadTail(t) \/ ReadState(t) \/ ReadFields(t) \/ ReadPayload(t)
    \/ ReadOk(t) \/ ReadMismatch(t)

\* A step of a call in progress.
Step(t) == Append(t) \/ Advance(t) \/ Recover(t) \/ Trim(t) \/ Read(t)

\* The clients have made their calls, and all of them have returned.
Rest ==
    /\ calls = MaxCalls
    /\ \A t \in Threads : AtRest(t)
    /\ UNCHANGED vars

Next ==
    \/ \E t \in Threads : Start(t) \/ Step(t)
    \/ \E h \in Hosts : Crash(h) \/ Restart(h)
    \/ \E s \in Slots : MediaFault(s)
    \/ Rest

Spec == Init /\ [][Next]_vars

\* The operating system runs every live thread, and the code takes no lock: a
\* call in progress takes its next step.  Nobody has to call, crash or restart.
FairSpec == Spec /\ \A t \in Threads : WF_vars(Step(t))

-----------------------------------------------------------------------------
(* The type invariant. *)

PCs == {"idle", "down",
        "undo", "count_failed", "mark", "fields", "payload", "crc", "commit",
        "count_append", "count_bytes", "load", "scan", "cas",
        "inspect", "check", "abandon", "count_run", "count_abandoned",
        "trim", "trim_store",
        "read", "read_state", "read_fields", "read_payload", "read_verify"}

\* Every variable of the pool, the threads and the history has its type; the
\* counters of the header and of the metrics stay below the modulus of their u64.
TypeOK ==
    /\ reserve_tail \in 0 .. U64 - 1
    /\ committed_tail \in 0 .. Capacity
    /\ rec \in [Slots -> Records]
    /\ metrics \in [Hosts -> [Counters -> 0 .. U64 - 1]]
    /\ pc \in [Threads -> PCs]
    /\ op \in [Threads -> {"none", "append", "read", "trim", "recover"}]
    /\ arg \in [Threads -> Entries]
    /\ slot \in [Threads -> Nat]
    /\ cursor \in [Threads -> Nat]
    /\ limit \in [Threads -> Nat]
    /\ cur \in [Threads -> 0 .. Capacity]
    /\ new \in [Threads -> 0 .. Capacity]
    /\ count \in [Threads -> 0 .. Capacity]
    /\ got \in [Threads -> Records]
    /\ calls \in 0 .. MaxCalls
    /\ crashes \in 0 .. MaxCrashes
    /\ faults \in 0 .. MaxFaults
    /\ entry \in [Slots -> Entries]
    /\ done \subseteq Slots
    /\ acked \subseteq Slots
    /\ trimmed \subseteq Slots
    /\ corrupt \subseteq Slots

-----------------------------------------------------------------------------
(* Safety. *)

\* The reserve protocol gives a slot to one append only: no two live appends
\* hold the same slot, and nobody holds a slot a writer already committed
\* (append's fetch_add and its undo; "exclusive ownership ... guaranteed by the
\* reserve protocol" is what the mmap backend's unsynchronised stores rest on).
SlotExclusive ==
    \A t \in Threads : Holding(t) =>
        /\ slot[t] \notin done
        /\ \A u \in Threads \ {t} : Holding(u) => slot[u] # slot[t]

\* A slot is claimed once in the life of the pool: what is below reserve_tail stays
\* below it and keeps its entry, whatever appends fail, undo
\* their reservation or die before they undo it.
ClaimedOnce ==
    [][\A s \in Slots : s < reserve_tail => s < reserve_tail' /\ entry'[s] = entry[s]]_vars

\* Readers, which look at nothing beyond committed_tail, never meet a record in
\* flight: every slot below the tail has been committed by its writer, and holds
\* neither FREE nor WRITING; the tail is never beyond the claimed slots.
NoInFlightBelowTail ==
    /\ committed_tail <= MinOf(reserve_tail, Capacity)
    /\ \A s \in Slots : s < committed_tail =>
        /\ s \in done
        /\ rec[s].state \in {"COMMITTED", "ABANDONED"} \/ s \in corrupt

\* advance_committed_tail, run by any number of threads at once, never moves the
\* tail back.
TailMonotone == [][committed_tail <= committed_tail']_vars

\* What record s holds is what its append was given ...
Holds(r, s) ==
    /\ r.term = entry[s].term
    /\ r.index = s + 1
    /\ Cut(r.data, r.len) = entry[s].data

\* ... and it names the host that appended it.
NamesWriter(r, s) == r.writer = entry[s].writer

\* COMMITTED is stored last: a COMMITTED record no media fault hit is complete,
\* and its checksum verifies, at every moment of every interleaving and crash.
CommittedIntact ==
    \A s \in Slots : rec[s].state = "COMMITTED" /\ s \notin corrupt =>
        Holds(rec[s], s) /\ NamesWriter(rec[s], s) /\ Verify(rec[s])

\* read never returns another term, index or payload than was appended at that
\* index, whatever trim, recover, a crash or a media fault in any field do before and between
\* its loads.  The writer_id it returns is the appender's unless a fault hit the slot: the
\* checksum does not cover that field, and read cannot tell.
ReadSound ==
    \A t \in Threads : pc[t] = "read_verify" /\ Verify(got[t]) =>
        LET s == cursor[t] - 1 IN
        /\ Holds(got[t], s)
        /\ NamesWriter(got[t], s) \/ s \in corrupt

\* An append that returned Ok stays in the log until trim drops it: no crash, no
\* recovery and no interleaving takes it away.  It needs Quiesced.
AckedDurable ==
    \A s \in acked : rec[s].state = "COMMITTED" \/ s \in trimmed \/ s \in corrupt

\* A record recover or trim abandoned never comes back.  It needs Quiesced.
AbandonedFinal ==
    [][\A s \in Slots : rec[s].state = "ABANDONED" =>
           rec'[s].state \in {"ABANDONED", "UNKNOWN"}]_vars

\* After recover, with everybody else at rest, the log is repaired: no claimed
\* slot it scanned is left WRITING (unless a media fault hit it), and committed_tail is past
\* them or stands at the first one that is not COMMITTED (if nothing was ever trimmed or
\* corrupted).
RecoverRepairs ==
    \A t \in Threads :
        (pc[t] = "count_run" /\ \A u \in Threads \ {t} : AtRest(u)) =>
        /\ \A s \in Slots : s < limit[t] /\ s \notin corrupt =>
              rec[s].state \in {"FREE", "COMMITTED", "ABANDONED"}
        /\ trimmed \cup corrupt = {} /\ committed_tail < limit[t] =>
              rec[committed_tail].state # "COMMITTED"

\* An append that returned Ok, and before which all others did, is readable at once: of
\* appends that finish at the same time, the last one to commit moves the tail over all of
\* them, whoever wins the exchanges and whoever dies on the way.
PrefixVisible ==
    trimmed \cup corrupt = {} =>
        \A s \in Slots : (\A r \in Slots : r <= s => r \in acked) => s < committed_tail

\* When every append has returned, the tail covers all of them and nothing else.
TailCaughtUp ==
    crashes = 0 /\ trimmed \cup corrupt = {} /\ (\A t \in Threads : pc[t] = "idle") =>
        committed_tail = Cardinality(acked)

\* What the counters of all the hosts add up to (metrics::read_stats, at rest).
Total(c) == SumFunctionOnSet([h \in Hosts |-> metrics[h][c]], Hosts)

\* The length of all the acknowledged payloads.
AckedBytes == SumFunctionOnSet([s \in Slots |-> PayloadLen[entry[s].data]], acked)

\* The counters tell the truth about the log whatever crashed: appends_total is at
\* least the acknowledged appends and at most the committed ones, bytes_written
\* covers the acknowledged payloads and no more than was committed.
MetricsAccount ==
    /\ Cardinality(acked) <= Total("appends_total")
    /\ Total("appends_total") <= Cardinality(done)
    /\ Total("bytes_written") <= Cardinality(done) * PayloadSize
    /\ AckedBytes <= Total("bytes_written")

\* Recovery "advances committed_tail to skip over any gaps" (recovery.rs): once
\* it is done and everybody else is at rest, every committed record is readable.
RecoverSkipsGaps ==
    \A t \in Threads :
        (pc[t] = "count_run" /\ \A u \in Threads \ {t} : AtRest(u)) =>
        \A s \in Slots : s < limit[t] /\ rec[s].state = "COMMITTED" => s < committed_tail

-----------------------------------------------------------------------------
(* Liveness, under FairSpec. *)

\* Every call returns, or its host dies: append's CAS loop gives up the processor
\* to nobody forever.
CallsReturn == \A t \in Threads : ~ AtRest(t) ~> AtRest(t)

\* An acknowledged append becomes readable, when no crash leaves a gap before it.
AckedReadable == \A s \in Slots : s \in acked ~> s < committed_tail

=============================================================================
