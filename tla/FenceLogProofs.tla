--------------------------- MODULE FenceLogProofs ---------------------------
(***************************************************************************)
(* Theorems about FenceLog, for every capacity, set of threads, payload and *)
(* number of calls, crashes and faults.                                    *)
(***************************************************************************)
EXTENDS FenceLog, FiniteSetTheorems, TLAPS

USE CapacityAssumption, PayloadAssumption, ThreadAssumption, OpsAssumption, BoundAssumption

\* A thread that claimed a slot and has not returned.
HasSlot(t) ==
    \/ Holding(t)
    \/ pc[t] \in {"count_append", "count_bytes"}
    \/ pc[t] \in {"load", "scan", "cas"} /\ op[t] = "append"

\* Where the loops of the operations are.
Ranges ==
    /\ \A t \in Threads : Holding(t) => op[t] = "append"
    /\ \A t \in Threads : HasSlot(t) => slot[t] \in Slots
    /\ \A t \in Threads : pc[t] \in {"scan", "cas"} => cur[t] <= new[t]
    /\ \A t \in Threads : pc[t] \in {"inspect", "check", "abandon"} =>
          cursor[t] <= limit[t] /\ limit[t] <= Capacity
    /\ \A t \in Threads : pc[t] \in {"inspect", "check", "abandon"} => op[t] = "recover"
    /\ \A t \in Threads : pc[t] \in {"inspect", "check", "abandon"} => count[t] <= cursor[t]
    /\ \A t \in Threads : pc[t] \in {"check", "abandon"} => cursor[t] < limit[t]
    /\ \A t \in Threads : pc[t] \in {"trim", "trim_store"} =>
          cursor[t] <= limit[t] /\ limit[t] <= committed_tail
    /\ \A t \in Threads : pc[t] = "trim_store" => cursor[t] < limit[t]
    /\ \A t \in Threads : pc[t] \in {"read_state", "read_fields", "read_payload", "read_verify"} =>
          cursor[t] \in 1 .. committed_tail

-----------------------------------------------------------------------------
(* Small facts about the data. *)

\* A wrapping addition of two words yields a word.
LEMMA WrapType ==
    ASSUME NEW x \in 0 .. U64 - 1, NEW d \in 0 .. U64
    PROVE  WrappingAdd(x, d) \in 0 .. U64 - 1
  BY DEF WrappingAdd

\* The blank entry is an entry.
LEMMA NoEntryType == NoEntry \in Entries
  BY DEF NoEntry, Entries

\* A zeroed slot is a record.
LEMMA ZeroRecordType == ZeroRecord \in Records
  BY DEF ZeroRecord, Records, States, Bytes, Crcs, BadCrc

\* Storing a state byte changes nothing else of any record.
LEMMA SetStateFacts ==
    ASSUME rec \in [Slots -> Records], NEW s \in Slots, NEW v \in States, SetState(s, v)
    PROVE  /\ rec' \in [Slots -> Records]
           /\ rec'[s].state = v
           /\ rec'[s].term = rec[s].term /\ rec'[s].index = rec[s].index
           /\ rec'[s].writer = rec[s].writer /\ rec'[s].len = rec[s].len
           /\ rec'[s].data = rec[s].data /\ rec'[s].crc = rec[s].crc
           /\ \A r \in Slots \ {s} : rec'[r] = rec[r]
<1>1. rec[s] \in Records
  OBVIOUS
<1>2. rec' = [rec EXCEPT ![s] = [rec[s] EXCEPT !.state = v]]
  BY DEF SetState
<1>3. [rec[s] EXCEPT !.state = v] \in Records
  BY <1>1 DEF Records
<1> QED
  BY <1>1, <1>2, <1>3 DEF Records

\* Incrementing a counter keeps the metrics blocks well typed.
LEMMA IncrementType ==
    ASSUME metrics \in [Hosts -> [Counters -> 0 .. U64 - 1]], NEW t \in Threads, NEW c \in Counters,
           NEW n \in 0 .. U64, Increment(t, c, n)
    PROVE  metrics' \in [Hosts -> [Counters -> 0 .. U64 - 1]]
<1>1. HostOf[t] \in Hosts
  OBVIOUS
<1>2. metrics[HostOf[t]] \in [Counters -> 0 .. U64 - 1]
  BY <1>1
<1>3. WrappingAdd(metrics[HostOf[t]][c], n) \in 0 .. U64 - 1
  BY <1>2, WrapType
<1> QED
  BY <1>1, <1>2, <1>3 DEF Increment

\* A media fault changes one record, whose state byte and checksum are afterwards what
\* they were or nobody's, and counts the slot as corrupt.
LEMMA FaultFacts ==
    ASSUME rec \in [Slots -> Records], NEW s \in Slots, MediaFault(s)
    PROVE  /\ rec' \in [Slots -> Records]
           /\ rec'[s].state \in {rec[s].state, "UNKNOWN"}
           /\ rec'[s].crc \in {rec[s].crc, BadCrc}
           /\ \A r \in Slots \ {s} : rec'[r] = rec[r]
           /\ corrupt' = corrupt \cup {s}
           /\ UNCHANGED <<reserve_tail, committed_tail, metrics, pc, locals, calls, crashes,
                          entry, done, acked, trimmed>>
<1>1. rec[s] \in Records /\ Garbage \in Bytes /\ BadCrc \in Crcs /\ "UNKNOWN" \in States
  BY DEF Bytes, BadCrc, Crcs, States
<1>2. PICK r : rec' = [rec EXCEPT ![s] = r] /\
         \/ r = [rec[s] EXCEPT !.state = "UNKNOWN"]
         \/ \E w \in Nat : \/ r = [rec[s] EXCEPT !.term = w]
                           \/ r = [rec[s] EXCEPT !.index = w]
                           \/ r = [rec[s] EXCEPT !.writer = w]
                           \/ r = [rec[s] EXCEPT !.len = w]
         \/ r = [rec[s] EXCEPT !.data = Garbage]
         \/ r = [rec[s] EXCEPT !.crc = BadCrc]
  BY DEF MediaFault, SetState
<1>3. r \in Records /\ r.state \in {rec[s].state, "UNKNOWN"} /\ r.crc \in {rec[s].crc, BadCrc}
  BY <1>1, <1>2 DEF Records
<1> QED
  BY <1>2, <1>3 DEF MediaFault

-----------------------------------------------------------------------------
(* Types and ranges. *)

TypeInv == TypeOK /\ Ranges

\* A new pool is well typed.
LEMMA TypeInit == Init => TypeInv
<1> SUFFICES ASSUME Init PROVE TypeInv
  OBVIOUS
<1>1. rec \in [Slots -> Records] /\ got \in [Threads -> Records]
  BY ZeroRecordType DEF Init
<1>2. entry \in [Slots -> Entries] /\ arg \in [Threads -> Entries]
  BY NoEntryType DEF Init
<1>3. TypeOK
  BY <1>1, <1>2 DEF Init, TypeOK, PCs, Counters
<1>4. Ranges
  BY DEF Init, Ranges, HasSlot, Holding
<1> QED
  BY <1>3, <1>4 DEF TypeInv

\* Starting a call preserves TypeInv.
LEMMA TypeStart ==
    ASSUME TypeInv, NEW t \in Threads, Start(t)
    PROVE  TypeInv'
<1> USE DEF TypeInv
<1>1. ASSUME NEW data \in Payloads, AppendTooLarge(t, data) PROVE TypeInv'
  BY <1>1 DEF AppendTooLarge, Call, pool, locals, history, TypeOK, Ranges, HasSlot, Holding
<1>2. ASSUME NEW data \in Payloads, ClaimFull(t, data) PROVE TypeInv'
  BY <1>2 DEF ClaimFull, Call, Goto, history, TypeOK, Ranges, HasSlot, Holding, PCs, WrappingAdd
<1>3. ASSUME NEW term \in Terms, NEW data \in Payloads, Claim(t, term, data) PROVE TypeInv'
  <2>1. reserve_tail \in Slots /\ reserve_tail \in Nat /\ reserve_tail' \in 0 .. U64 - 1
    BY <1>3 DEF Claim, TypeOK, Slots, WrappingAdd
  <2>2. [term |-> term, data |-> data, writer |-> HostOf[t]] \in Entries
    BY DEF Entries
  <2>3. arg' \in [Threads -> Entries] /\ entry' \in [Slots -> Entries]
    BY <1>3, <2>1, <2>2 DEF Claim, TypeOK
  <2>4. TypeOK'
    BY <1>3, <2>1, <2>3 DEF Claim, Call, Goto, TypeOK, PCs
  <2>5. Ranges'
    BY <1>3, <2>1 DEF Claim, Goto, TypeOK, Ranges, HasSlot, Holding
  <2> QED
    BY <2>4, <2>5
<1>4. ASSUME CallRecover(t) PROVE TypeInv'
  BY <1>4 DEF CallRecover, Call, Goto, pool, history, TypeOK, Ranges, HasSlot, Holding, PCs, MinOf
<1>5. ASSUME NEW upTo \in 0 .. Capacity, TrimBeyond(t, upTo) PROVE TypeInv'
  BY <1>5 DEF TrimBeyond, Call, pool, locals, history, TypeOK, Ranges, HasSlot, Holding
<1>6. ASSUME NEW upTo \in 0 .. Capacity, CallTrim(t, upTo) PROVE TypeInv'
  BY <1>6 DEF CallTrim, Call, Goto, pool, history, TypeOK, Ranges, HasSlot, Holding, PCs
<1>7. ASSUME NEW first \in 0 .. Capacity + 1, NEW last \in 0 .. Capacity + 1,
             CallRead(t, first, last)
      PROVE  TypeInv'
  BY <1>7 DEF CallRead, Call, Goto, pool, history, TypeOK, Ranges, HasSlot, Holding, PCs
<1> QED
  BY <1>1, <1>2, <1>3, <1>4, <1>5, <1>6, <1>7 DEF Start

\* A call that returns without touching the log keeps the types: the locals of
\* the thread go back to their initial values.
LEMMA TypeReturn ==
    ASSUME TypeInv, NEW t \in Threads, Return(t),
           metrics' \in [Hosts -> [Counters -> 0 .. U64 - 1]], acked' \subseteq Slots,
           UNCHANGED <<reserve_tail, committed_tail, rec, budget, entry, done, trimmed, corrupt>>
    PROVE  TypeInv'
<1>1. arg' \in [Threads -> Entries] /\ got' \in [Threads -> Records]
  BY NoEntryType, ZeroRecordType DEF Return, TypeInv, TypeOK
<1>2. TypeOK'
  BY <1>1 DEF Return, Goto, TypeInv, TypeOK, PCs, budget
<1>3. Ranges'
  BY DEF Return, Goto, TypeInv, TypeOK, Ranges, HasSlot, Holding
<1> QED
  BY <1>2, <1>3 DEF TypeInv

\* Every step of append preserves TypeInv.
LEMMA TypeAppend ==
    ASSUME TypeInv, NEW t \in Threads, Append(t)
    PROVE  TypeInv'
<1> USE DEF TypeInv
<1>1. CASE Undo(t)
  BY <1>1 DEF Undo, Goto, locals, budget, history, TypeOK, Ranges, HasSlot, Holding, PCs, WrappingAdd
<1>2. CASE CountFailed(t)
  <2>1. metrics' \in [Hosts -> [Counters -> 0 .. U64 - 1]]
    BY <1>2, IncrementType DEF CountFailed, TypeOK, Counters
  <2> QED
    BY <1>2, <2>1, TypeReturn DEF CountFailed, history, TypeOK
<1>3. CASE MarkWriting(t)
  <2>1. slot[t] \in Slots /\ "WRITING" \in States
    BY <1>3 DEF MarkWriting, Ranges, HasSlot, Holding, States
  <2>2. rec' \in [Slots -> Records]
    BY <1>3, <2>1, SetStateFacts DEF MarkWriting, TypeOK
  <2> QED
    BY <1>3, <2>2 DEF MarkWriting, Goto, locals, budget, history, TypeOK, Ranges, HasSlot, Holding, PCs
<1>4. CASE WriteFields(t)
  <2>1. slot[t] \in Slots /\ slot[t] + 1 \in Nat /\ arg[t].term \in Nat /\ HostOf[t] \in Nat
        /\ PayloadLen[arg[t].data] \in Nat
    BY <1>4 DEF WriteFields, TypeOK, Ranges, HasSlot, Holding, Entries
  <2> DEFINE r == [rec[slot[t]] EXCEPT !.term = arg[t].term, !.index = slot[t] + 1,
                             !.writer = HostOf[t], !.len = PayloadLen[arg[t].data]]
  <2>2. rec[slot[t]] \in Records
    BY <2>1 DEF TypeOK
  <2>3. r \in Records
    BY <2>1, <2>2 DEF Records
  <2>4. rec' = [rec EXCEPT ![slot[t]] = r]
    BY <1>4 DEF WriteFields
  <2>5. rec' \in [Slots -> Records]
    BY <2>3, <2>4 DEF TypeOK
  <2> QED
    BY <1>4, <2>5 DEF WriteFields, Goto, locals, budget, history, TypeOK, Ranges, HasSlot, Holding, PCs
<1>5. CASE WritePayload(t)
  <2>1. slot[t] \in Slots /\ arg[t].data \in Bytes
    BY <1>5 DEF WritePayload, TypeOK, Ranges, HasSlot, Holding, Entries, Bytes
  <2> DEFINE r == [rec[slot[t]] EXCEPT !.data = arg[t].data]
  <2>2. rec[slot[t]] \in Records
    BY <2>1 DEF TypeOK
  <2>3. r \in Records
    BY <2>1, <2>2 DEF Records
  <2>4. rec' = [rec EXCEPT ![slot[t]] = r] \/ rec' = rec
    BY <1>5 DEF WritePayload
  <2>5. rec' \in [Slots -> Records]
    BY <2>3, <2>4 DEF TypeOK
  <2> QED
    BY <1>5, <2>5 DEF WritePayload, Goto, locals, budget, history, TypeOK, Ranges, HasSlot, Holding, PCs
<1>6. CASE WriteCrc(t)
  <2>1. slot[t] \in Slots /\ Compute(arg[t].term, slot[t] + 1, arg[t].data) \in Crcs
    BY <1>6 DEF WriteCrc, TypeOK, Ranges, HasSlot, Holding, Entries, Bytes, Crcs, Compute
  <2> DEFINE r == [rec[slot[t]] EXCEPT !.crc = Compute(arg[t].term, slot[t] + 1, arg[t].data)]
  <2>2. rec[slot[t]] \in Records
    BY <2>1 DEF TypeOK
  <2>3. r \in Records
    BY <2>1, <2>2 DEF Records
  <2>4. rec' = [rec EXCEPT ![slot[t]] = r]
    BY <1>6 DEF WriteCrc
  <2>5. rec' \in [Slots -> Records]
    BY <2>3, <2>4 DEF TypeOK
  <2> QED
    BY <1>6, <2>5 DEF WriteCrc, Goto, locals, budget, history, TypeOK, Ranges, HasSlot, Holding, PCs
<1>7. CASE Commit(t)
  <2>1. slot[t] \in Slots /\ "COMMITTED" \in States
    BY <1>7 DEF Commit, Ranges, HasSlot, Holding, States
  <2>2. rec' \in [Slots -> Records]
    BY <1>7, <2>1, SetStateFacts DEF Commit, TypeOK
  <2> QED
    BY <1>7, <2>1, <2>2 DEF Commit, Goto, locals, budget, TypeOK, Ranges, HasSlot, Holding, PCs
<1>8. CASE CountAppend(t)
  <2>1. metrics' \in [Hosts -> [Counters -> 0 .. U64 - 1]]
    BY <1>8, IncrementType DEF CountAppend, TypeOK, Counters
  <2> QED
    BY <1>8, <2>1 DEF CountAppend, Goto, locals, budget, history, TypeOK, Ranges, HasSlot, Holding, PCs
<1>9. CASE CountBytes(t)
  <2>1. slot[t] \in Slots /\ PayloadLen[arg[t].data] \in 0 .. U64
    BY <1>9 DEF CountBytes, TypeOK, Ranges, HasSlot, Entries
  <2>2. metrics' \in [Hosts -> [Counters -> 0 .. U64 - 1]]
    BY <1>9, <2>1, IncrementType DEF CountBytes, TypeOK, Counters
  <2> QED
    BY <1>9, <2>1, <2>2, TypeReturn DEF CountBytes, TypeOK
<1> QED
  BY <1>1, <1>2, <1>3, <1>4, <1>5, <1>6, <1>7, <1>8, <1>9 DEF Append

\* Every step of advance_committed_tail preserves TypeInv.
LEMMA TypeAdvance ==
    ASSUME TypeInv, NEW t \in Threads, Advance(t)
    PROVE  TypeInv'
<1> USE DEF TypeInv, TypeOK, Ranges, HasSlot, Holding, PCs, Goto
<1>1. CASE LoadTail(t)
  BY <1>1 DEF LoadTail, pool, budget, history
<1>2. CASE ScanOn(t)
  BY <1>2 DEF ScanOn, Contiguous, pool, budget, history
<1>3. CASE ScanStop(t)
  BY <1>3 DEF ScanStop, AfterAdvance, pool, locals, budget, history
<1>4. CASE Cas(t)
  BY <1>4 DEF Cas, AfterAdvance, locals, budget, history
<1> QED
  BY <1>1, <1>2, <1>3, <1>4 DEF Advance

\* Every step of recover preserves TypeInv.
LEMMA TypeRecover ==
    ASSUME TypeInv, NEW t \in Threads, Recover(t)
    PROVE  TypeInv'
<1> USE DEF TypeInv
<1>1. CASE Inspect(t)
  <2>1. CASE cursor' = [cursor EXCEPT ![t] = @ + 1] /\ UNCHANGED pc
    BY <1>1, <2>1 DEF Inspect, pool, budget, history, TypeOK, Ranges, HasSlot, Holding
  <2>2. CASE UNCHANGED cursor /\ (Goto(t, "check") \/ Goto(t, "abandon"))
    <3>1. TypeOK'
      BY <1>1, <2>2 DEF Inspect, Goto, pool, budget, history, TypeOK, PCs
    <3>2. /\ pc'[t] \in {"check", "abandon"} /\ cursor[t] < limit[t] /\ op[t] = "recover" /\ limit[t] <= Capacity
          /\ count[t] <= cursor[t]
          /\ \A u \in Threads \ {t} : pc'[u] = pc[u]
      BY <1>1, <2>2 DEF Inspect, Goto, TypeOK, Ranges
    <3>3. UNCHANGED <<committed_tail, op, slot, cursor, limit, cur, new, count>>
      BY <1>1, <2>2 DEF Inspect, pool
    <3>4. Ranges'
      BY <3>2, <3>3 DEF Ranges, HasSlot, Holding, TypeOK
    <3> QED
      BY <3>1, <3>4
  <2> QED
    BY <1>1, <2>1, <2>2 DEF Inspect
<1>2. CASE Check(t)
  <2>1. CASE cursor' = [cursor EXCEPT ![t] = @ + 1] /\ Goto(t, "inspect")
    BY <1>2, <2>1 DEF Check, Goto, pool, budget, history, TypeOK, Ranges, HasSlot, Holding, PCs
  <2>2. CASE UNCHANGED cursor /\ Goto(t, "abandon")
    BY <1>2, <2>2 DEF Check, Goto, pool, budget, history, TypeOK, Ranges, HasSlot, Holding, PCs
  <2> QED
    BY <1>2, <2>1, <2>2 DEF Check
<1>3. CASE Abandon(t)
  <2>1. cursor[t] \in Slots /\ "ABANDONED" \in States
    BY <1>3 DEF Abandon, TypeOK, Ranges, Slots, States
  <2>2. rec' \in [Slots -> Records]
    BY <1>3, <2>1, SetStateFacts DEF Abandon, TypeOK
  <2> QED
    BY <1>3, <2>2 DEF Abandon, Goto, budget, history, TypeOK, Ranges, HasSlot, Holding, PCs
<1>4. CASE RecoverPhase2(t)
  BY <1>4 DEF RecoverPhase2, Goto, pool, locals, budget, history, TypeOK, Ranges, HasSlot, Holding, PCs
<1>5. CASE CountRun(t)
  <2>1. metrics' \in [Hosts -> [Counters -> 0 .. U64 - 1]]
    BY <1>5, IncrementType DEF CountRun, TypeOK, Counters
  <2>2. CASE Return(t)
    BY <1>5, <2>1, <2>2, TypeReturn DEF CountRun, history, TypeOK
  <2>3. CASE Goto(t, "count_abandoned") /\ UNCHANGED locals
    BY <1>5, <2>1, <2>3 DEF CountRun, Goto, locals, budget, history, TypeOK, Ranges, HasSlot, Holding, PCs
  <2> QED
    BY <1>5, <2>2, <2>3 DEF CountRun
<1>6. CASE CountAbandoned(t)
  <2>1. metrics' \in [Hosts -> [Counters -> 0 .. U64 - 1]]
    BY <1>6, IncrementType DEF CountAbandoned, TypeOK, Counters
  <2> QED
    BY <1>6, <2>1, TypeReturn DEF CountAbandoned, history, TypeOK
<1> QED
  BY <1>1, <1>2, <1>3, <1>4, <1>5, <1>6 DEF Recover

\* Every step of trim preserves TypeInv.
LEMMA TypeTrim ==
    ASSUME TypeInv, NEW t \in Threads, Trim(t)
    PROVE  TypeInv'
<1> USE DEF TypeInv
<1>1. CASE TrimInspect(t)
  <2>1. CASE cursor' = [cursor EXCEPT ![t] = @ + 1] /\ UNCHANGED pc
    BY <1>1, <2>1 DEF TrimInspect, pool, budget, history, TypeOK, Ranges, HasSlot, Holding
  <2>2. CASE UNCHANGED cursor /\ Goto(t, "trim_store")
    BY <1>1, <2>2 DEF TrimInspect, Goto, pool, budget, history, TypeOK, Ranges, HasSlot, Holding, PCs
  <2> QED
    BY <1>1, <2>1, <2>2 DEF TrimInspect
<1>2. CASE TrimStore(t)
  <2>1. cursor[t] \in Slots /\ "ABANDONED" \in States
    BY <1>2 DEF TrimStore, TypeOK, Ranges, Slots, States
  <2>2. rec' \in [Slots -> Records]
    BY <1>2, <2>1, SetStateFacts DEF TrimStore, TypeOK
  <2> QED
    BY <1>2, <2>1, <2>2 DEF TrimStore, Goto, budget, TypeOK, Ranges, HasSlot, Holding, PCs
<1>3. CASE TrimReturn(t)
  BY <1>3, TypeReturn DEF TrimReturn, pool, history, TypeOK
<1> QED
  BY <1>1, <1>2, <1>3 DEF Trim

\* Every step of read preserves TypeInv.
LEMMA TypeRead ==
    ASSUME TypeInv, NEW t \in Threads, Read(t)
    PROVE  TypeInv'
<1> USE DEF TypeInv
<1>1. CASE ReadReturn(t)
  BY <1>1, TypeReturn DEF ReadReturn, pool, history, TypeOK
<1>2. CASE ReadTail(t)
  BY <1>2 DEF ReadTail, Goto, pool, locals, budget, history, TypeOK, Ranges, HasSlot, Holding, PCs
<1>3. CASE ReadState(t)
  <2>1. CASE UNCHANGED cursor /\ Goto(t, "read_fields")
    BY <1>3, <2>1 DEF ReadState, Goto, pool, budget, history, TypeOK, Ranges, HasSlot, Holding, PCs
  <2>2. CASE cursor' = [cursor EXCEPT ![t] = @ + 1] /\ Goto(t, "read")
    BY <1>3, <2>2 DEF ReadState, Goto, pool, budget, history, TypeOK, Ranges, HasSlot, Holding, PCs
  <2> QED
    BY <1>3, <2>1, <2>2 DEF ReadState
<1>4. CASE ReadFields(t)
  <2>0. cursor[t] \in 1 .. committed_tail /\ committed_tail \in 0 .. Capacity
    BY <1>4 DEF ReadFields, TypeOK, Ranges
  <2>1. cursor[t] - 1 \in Slots
    BY <2>0 DEF Slots
  <2>2. rec[cursor[t] - 1] \in Records
    BY <2>1 DEF TypeOK
  <2>3. [rec[cursor[t] - 1] EXCEPT !.state = "FREE", !.data = Empty] \in Records
    BY <2>2 DEF Records, States, Bytes
  <2>4. got' \in [Threads -> Records]
    BY <1>4, <2>3 DEF ReadFields, TypeOK
  <2> QED
    BY <1>4, <2>4 DEF ReadFields, Goto, pool, budget, history, TypeOK, Ranges, HasSlot, Holding, PCs
<1>5. CASE ReadPayload(t)
  <2>0. cursor[t] \in 1 .. committed_tail /\ committed_tail \in 0 .. Capacity
    BY <1>5 DEF ReadPayload, TypeOK, Ranges
  <2>1. cursor[t] - 1 \in Slots
    BY <2>0 DEF Slots
  <2>2. rec[cursor[t] - 1].data \in Bytes /\ got[t] \in Records
    BY <2>1 DEF TypeOK, Records
  <2>3. Cut(rec[cursor[t] - 1].data, got[t].len) \in Bytes
    BY <2>2 DEF Cut, Bytes
  <2>4. [got[t] EXCEPT !.data = Cut(rec[cursor[t] - 1].data, got[t].len)] \in Records
    BY <2>2, <2>3 DEF Records
  <2>5. got' = [got EXCEPT ![t] = [got[t] EXCEPT !.data = Cut(rec[cursor[t] - 1].data, got[t].len)]]
    BY <1>5 DEF ReadPayload
  <2>6. got' \in [Threads -> Records]
    BY <2>4, <2>5 DEF TypeOK
  <2> QED
    BY <1>5, <2>6 DEF ReadPayload, Goto, pool, budget, history, TypeOK, Ranges, HasSlot, Holding, PCs
<1>6. CASE ReadOk(t)
  <2>1. metrics' \in [Hosts -> [Counters -> 0 .. U64 - 1]]
    BY <1>6, IncrementType DEF ReadOk, TypeOK, Counters
  <2>2. got' \in [Threads -> Records]
    BY <1>6, ZeroRecordType DEF ReadOk, TypeOK
  <2> QED
    BY <1>6, <2>1, <2>2 DEF ReadOk, Goto, budget, history, TypeOK, Ranges, HasSlot, Holding, PCs
<1>7. CASE ReadMismatch(t)
  <2>1. metrics' \in [Hosts -> [Counters -> 0 .. U64 - 1]]
    BY <1>7, IncrementType DEF ReadMismatch, TypeOK, Counters
  <2> QED
    BY <1>7, <2>1, TypeReturn DEF ReadMismatch, history, TypeOK
<1> QED
  BY <1>1, <1>2, <1>3, <1>4, <1>5, <1>6, <1>7 DEF Read

\* Crashes, restarts and media faults preserve TypeInv.
LEMMA TypeEnvironment ==
    ASSUME TypeInv,
           \/ \E h \in Hosts : Crash(h) \/ Restart(h)
           \/ \E s \in Slots : MediaFault(s)
    PROVE  TypeInv'
<1> USE DEF TypeInv
<1>1. ASSUME NEW h \in Hosts, Crash(h) PROVE TypeInv'
  <2>1. arg' \in [Threads -> Entries] /\ got' \in [Threads -> Records]
    BY <1>1, NoEntryType, ZeroRecordType DEF Crash, TypeOK
  <2>2. TypeOK'
    BY <1>1, <2>1 DEF Crash, pool, history, TypeOK, PCs
  <2>3. Ranges'
    BY <1>1 DEF Crash, pool, TypeOK, Ranges, HasSlot, Holding
  <2> QED
    BY <2>2, <2>3
<1>2. ASSUME NEW h \in Hosts, Restart(h) PROVE TypeInv'
  BY <1>2 DEF Restart, pool, locals, budget, history, TypeOK, Ranges, HasSlot, Holding, PCs
<1>3. ASSUME NEW s \in Slots, MediaFault(s) PROVE TypeInv'
  <2>1. rec' \in [Slots -> Records]
    BY <1>3, FaultFacts DEF TypeOK
  <2> QED
    BY <1>3, <2>1 DEF MediaFault, locals, TypeOK, Ranges, HasSlot, Holding
<1> QED
  BY <1>1, <1>2, <1>3

\* TypeInv is inductive.
LEMMA TypeNext == TypeInv /\ [Next]_vars => TypeInv'
<1> SUFFICES ASSUME TypeInv, [Next]_vars PROVE TypeInv'
  OBVIOUS
<1>1. ASSUME NEW t \in Threads, Start(t) \/ Step(t) PROVE TypeInv'
  BY <1>1, TypeStart, TypeAppend, TypeAdvance, TypeRecover, TypeTrim, TypeRead DEF Step
<1>2. CASE UNCHANGED vars
  BY <1>2 DEF vars, pool, locals, budget, history, TypeInv, TypeOK, Ranges, HasSlot, Holding
<1> QED
  BY <1>1, <1>2, TypeEnvironment DEF Next, Rest

\* Every variable keeps its type in every behaviour: no operation indexes past the
\* slots, and no counter leaves the range of its u64.
THEOREM TypeCorrect == Spec => []TypeOK
<1>1. TypeInv => TypeOK
  BY DEF TypeInv
<1> QED
  BY <1>1, TypeInit, TypeNext, PTL DEF Spec

\* What the stores of an append into its record do.
LEMMA WriteFacts ==
    ASSUME TypeInv, NEW t \in Threads, WriteFields(t) \/ WritePayload(t) \/ WriteCrc(t)
    PROVE  /\ slot[t] \in Slots
           /\ \A s \in Slots : rec'[s].state = rec[s].state
           /\ \A s \in Slots \ {slot[t]} : rec'[s] = rec[s]
           /\ WriteFields(t) => /\ rec'[slot[t]].term = arg[t].term
                               /\ rec'[slot[t]].index = slot[t] + 1
                               /\ rec'[slot[t]].writer = HostOf[t]
                               /\ rec'[slot[t]].len = PayloadLen[arg[t].data]
           /\ ~ WriteFields(t) => /\ rec'[slot[t]].term = rec[slot[t]].term
                                 /\ rec'[slot[t]].index = rec[slot[t]].index
                                 /\ rec'[slot[t]].writer = rec[slot[t]].writer
                                 /\ rec'[slot[t]].len = rec[slot[t]].len
           /\ WritePayload(t) => rec'[slot[t]].data = arg[t].data \/ PayloadLen[arg[t].data] = 0
           /\ ~ WritePayload(t) => rec'[slot[t]].data = rec[slot[t]].data
           /\ WriteCrc(t) => rec'[slot[t]].crc = Compute(arg[t].term, slot[t] + 1, arg[t].data)
           /\ ~ WriteCrc(t) => rec'[slot[t]].crc = rec[slot[t]].crc
<1>1. slot[t] \in Slots
  BY DEF WriteFields, WritePayload, WriteCrc, TypeInv, Ranges, HasSlot, Holding
<1>2. rec \in [Slots -> Records] /\ rec[slot[t]] \in Records
  BY <1>1 DEF TypeInv, TypeOK
<1>3. CASE WriteFields(t)
  <2>1. rec' = [rec EXCEPT ![slot[t]] =
                  [rec[slot[t]] EXCEPT !.term = arg[t].term, !.index = slot[t] + 1,
                                       !.writer = HostOf[t], !.len = PayloadLen[arg[t].data]]]
    BY <1>3 DEF WriteFields
  <2>2. ~ WritePayload(t) /\ ~ WriteCrc(t)
    BY <1>3 DEF WriteFields, WritePayload, WriteCrc
  <2> QED
    BY <1>1, <1>2, <1>3, <2>1, <2>2 DEF Records
<1>4. CASE WritePayload(t)
  <2>1. \/ rec' = [rec EXCEPT ![slot[t]] = [rec[slot[t]] EXCEPT !.data = arg[t].data]]
        \/ rec' = rec /\ PayloadLen[arg[t].data] = 0
    <3>1. PayloadLen[arg[t].data] \in Nat
      BY DEF TypeInv, TypeOK, Entries
    <3> QED
      BY <1>4, <3>1 DEF WritePayload
  <2>2. ~ WriteFields(t) /\ ~ WriteCrc(t)
    BY <1>4 DEF WriteFields, WritePayload, WriteCrc
  <2> QED
    BY <1>1, <1>2, <1>4, <2>1, <2>2 DEF Records
<1>5. CASE WriteCrc(t)
  <2>1. rec' = [rec EXCEPT ![slot[t]] =
                  [rec[slot[t]] EXCEPT !.crc = Compute(arg[t].term, slot[t] + 1, arg[t].data)]]
    BY <1>5 DEF WriteCrc
  <2>2. ~ WriteFields(t) /\ ~ WritePayload(t)
    BY <1>5 DEF WriteFields, WritePayload, WriteCrc
  <2> QED
    BY <1>1, <1>2, <1>5, <2>1, <2>2 DEF Records
<1> QED
  BY <1>3, <1>4, <1>5

-----------------------------------------------------------------------------
(***************************************************************************)
(* The reserve protocol.  reserve_tail overshoots Capacity by at least the *)
(* number of appends that have yet to undo their claim, so an undo never   *)
(* takes it below Capacity and gives out no slot twice; and it never wraps, *)
(* because it is at most the number of calls.                              *)
(***************************************************************************)

Undoing == {t \in Threads : pc[t] = "undo"}

ReserveInv ==
    /\ reserve_tail <= calls
    /\ reserve_tail < Capacity => Undoing = {}
    /\ reserve_tail >= Capacity => Cardinality(Undoing) <= reserve_tail - Capacity

SlotInv ==
    /\ \A t \in Threads : HasSlot(t) => slot[t] < reserve_tail
    /\ \A s \in done : s < reserve_tail
    /\ SlotExclusive
    /\ \A t \in Threads : HasSlot(t) /\ ~ Holding(t) => slot[t] \in done
    /\ acked \subseteq done

\* A step that neither claims, undoes nor commits a slot, and acknowledges nothing.
Calm ==
    /\ UNCHANGED <<reserve_tail, entry, done, acked>>
    /\ calls <= calls'
    /\ \A t \in Threads : pc'[t] = "undo" => pc[t] = "undo"
    /\ \A t \in Threads : HasSlot(t)' =>
          HasSlot(t) /\ slot'[t] = slot[t] /\ arg'[t] = arg[t] /\ (Holding(t)' <=> Holding(t))

\* Finitely many appends wait for their undo.
LEMMA UndoingFinite == IsFiniteSet(Undoing) /\ Cardinality(Undoing) \in Nat
<1>1. Undoing \subseteq Threads
  BY DEF Undoing
<1> QED
  BY <1>1, FS_Subset, FS_CardinalityType

\* Which steps are calm: all but five actions.
LEMMA CalmSteps ==
    ASSUME TypeInv, [Next]_vars
    PROVE  \/ Calm
           \/ \E t \in Threads :
                \/ \E term \in Terms, data \in Payloads : Claim(t, term, data)
                \/ \E data \in Payloads : ClaimFull(t, data)
                \/ Undo(t) \/ Commit(t) \/ CountBytes(t)
<1> USE DEF TypeInv
<1>1. ASSUME NEW t \in Threads, NEW data \in Payloads, AppendTooLarge(t, data) PROVE Calm
  BY <1>1 DEF AppendTooLarge, Call, pool, locals, history, TypeOK, Calm, HasSlot, Holding
<1>2. ASSUME NEW t \in Threads, CallRecover(t) PROVE Calm
  BY <1>2 DEF CallRecover, Call, Goto, pool, history, TypeOK, Calm, HasSlot, Holding
<1>3. ASSUME NEW t \in Threads, NEW upTo \in 0 .. Capacity,
             TrimBeyond(t, upTo) \/ CallTrim(t, upTo)
      PROVE  Calm
  BY <1>3 DEF TrimBeyond, CallTrim, Call, Goto, pool, locals, history, TypeOK, Calm, HasSlot, Holding
<1>4. ASSUME NEW t \in Threads, NEW first \in 0 .. Capacity + 1, NEW last \in 0 .. Capacity + 1,
             CallRead(t, first, last)
      PROVE  Calm
  BY <1>4 DEF CallRead, Call, Goto, pool, history, TypeOK, Calm, HasSlot, Holding
<1>5. ASSUME NEW t \in Threads, Return(t), UNCHANGED <<reserve_tail, budget, history>> PROVE Calm
  BY <1>5 DEF Return, Goto, budget, history, TypeOK, Calm, HasSlot, Holding
<1>6. ASSUME NEW t \in Threads, CountFailed(t) \/ CountAbandoned(t) \/ TrimReturn(t)
             \/ ReadReturn(t) \/ ReadMismatch(t)
      PROVE  Calm
  BY <1>5, <1>6 DEF CountFailed, CountAbandoned, TrimReturn, ReadReturn, ReadMismatch, pool
<1>7. ASSUME NEW t \in Threads, MarkWriting(t) \/ WriteFields(t) \/ WritePayload(t) \/ WriteCrc(t)
      PROVE  Calm
  BY <1>7 DEF MarkWriting, WriteFields, WritePayload, WriteCrc, Goto, locals, budget, history,
              TypeOK, Calm, HasSlot, Holding
<1>8. ASSUME NEW t \in Threads, CountAppend(t) PROVE Calm
  BY <1>8 DEF CountAppend, Goto, locals, budget, history, TypeOK, Calm, HasSlot, Holding
<1>9. ASSUME NEW t \in Threads, Advance(t) PROVE Calm
  <2>1. CASE LoadTail(t)
    BY <2>1 DEF LoadTail, Goto, pool, budget, history, TypeOK, Calm, HasSlot, Holding
  <2>2. CASE ScanOn(t)
    BY <2>2 DEF ScanOn, pool, budget, history, TypeOK, Calm, HasSlot, Holding
  <2>3. CASE ScanStop(t)
    BY <2>3 DEF ScanStop, AfterAdvance, Goto, pool, locals, budget, history, TypeOK, Calm, HasSlot, Holding
  <2>4. CASE Cas(t)
    BY <2>4 DEF Cas, AfterAdvance, Goto, locals, budget, history, TypeOK, Calm, HasSlot, Holding
  <2> QED
    BY <1>9, <2>1, <2>2, <2>3, <2>4 DEF Advance
<1>10. ASSUME NEW t \in Threads, Inspect(t) \/ Check(t) PROVE Calm
  <2>1. \E l \in {"inspect", "check", "abandon"} : pc' = [pc EXCEPT ![t] = l]
    BY <1>10 DEF Inspect, Check, Goto, TypeOK
  <2> QED
    BY <1>10, <2>1 DEF Inspect, Check, pool, budget, history, TypeOK, Calm, HasSlot, Holding
<1>11. ASSUME NEW t \in Threads, Abandon(t) PROVE Calm
  BY <1>11 DEF Abandon, Goto, budget, history, TypeOK, Calm, HasSlot, Holding
<1>12. ASSUME NEW t \in Threads, RecoverPhase2(t) PROVE Calm
  BY <1>12 DEF RecoverPhase2, Ranges, Goto, pool, locals, budget, history, TypeOK, Calm, HasSlot, Holding
<1>13. ASSUME NEW t \in Threads, CountRun(t) PROVE Calm
  <2>1. CASE Goto(t, "count_abandoned") /\ UNCHANGED locals
    BY <1>13, <2>1 DEF CountRun, Goto, locals, budget, history, TypeOK, Calm, HasSlot, Holding
  <2> QED
    BY <1>5, <1>13, <2>1 DEF CountRun
<1>14. ASSUME NEW t \in Threads, TrimInspect(t) \/ TrimStore(t) PROVE Calm
  <2>1. \E l \in {"trim", "trim_store"} : pc' = [pc EXCEPT ![t] = l]
    BY <1>14 DEF TrimInspect, TrimStore, Goto, TypeOK
  <2> QED
    BY <1>14, <2>1 DEF TrimInspect, TrimStore, pool, budget, history, TypeOK, Calm, HasSlot, Holding
<1>15. ASSUME NEW t \in Threads, ReadTail(t) \/ ReadState(t) \/ ReadFields(t) \/ ReadPayload(t) \/ ReadOk(t)
       PROVE  Calm
  <2>1. \E l \in {"read", "read_state", "read_fields", "read_payload", "read_verify"} :
           pc' = [pc EXCEPT ![t] = l]
    BY <1>15 DEF ReadTail, ReadState, ReadFields, ReadPayload, ReadOk, Goto
  <2>2. UNCHANGED <<reserve_tail, op, arg, slot, budget, history>>
    BY <1>15 DEF ReadTail, ReadState, ReadFields, ReadPayload, ReadOk, pool, locals
  <2> QED
    BY <2>1, <2>2 DEF budget, history, TypeOK, Calm, HasSlot, Holding
<1>16. ASSUME NEW h \in Hosts, Crash(h) \/ Restart(h) PROVE Calm
  BY <1>16 DEF Crash, Restart, pool, locals, budget, history, TypeOK, Calm, HasSlot, Holding
<1>17. ASSUME NEW s \in Slots, MediaFault(s) PROVE Calm
  BY <1>17 DEF MediaFault, locals, TypeOK, Calm, HasSlot, Holding
<1>18. ASSUME UNCHANGED vars PROVE Calm
  BY <1>18 DEF vars, pool, locals, budget, history, TypeOK, Calm, HasSlot, Holding
<1>19. ASSUME NEW t \in Threads, Start(t)
       PROVE  Calm \/ (\E term \in Terms, data \in Payloads : Claim(t, term, data))
                   \/ (\E data \in Payloads : ClaimFull(t, data))
  BY <1>1, <1>2, <1>3, <1>4, <1>19 DEF Start
<1>20. ASSUME NEW t \in Threads, Step(t)
       PROVE  Calm \/ Undo(t) \/ Commit(t) \/ CountBytes(t)
  BY <1>6, <1>7, <1>8, <1>9, <1>10, <1>11, <1>12, <1>13, <1>14, <1>15, <1>20
     DEF Step, Append, Recover, Trim, Read
<1> QED
  BY <1>16, <1>17, <1>18, <1>19, <1>20 DEF Next, Rest

\* ReserveInv is preserved: only a claim and an undo touch reserve_tail, and each moves
\* it together with the set of appends that have yet to undo.
LEMMA ReserveNext ==
    ASSUME TypeInv, ReserveInv, [Next]_vars
    PROVE  ReserveInv'
<1> USE DEF TypeInv
<1>0. reserve_tail \in Nat /\ calls \in Nat /\ calls <= MaxCalls
  BY DEF TypeOK
<1>1. CASE Calm
  <2>1. Undoing' \subseteq Undoing
    BY <1>1 DEF Calm, Undoing
  <2>2. Cardinality(Undoing') <= Cardinality(Undoing)
    BY <2>1, UndoingFinite, FS_Subset
  <2>3. Cardinality(Undoing) \in Nat /\ Cardinality(Undoing') \in Nat
    BY <2>1, UndoingFinite, FS_Subset, FS_CardinalityType
  <2>4. calls' \in Nat
    BY TypeNext DEF TypeOK
  <2> QED
    BY <1>0, <1>1, <2>1, <2>2, <2>3, <2>4 DEF Calm, ReserveInv
<1>2. ASSUME NEW t \in Threads, NEW term \in Terms, NEW data \in Payloads, Claim(t, term, data)
      PROVE  ReserveInv'
  <2>1. reserve_tail' = reserve_tail + 1 /\ calls' = calls + 1 /\ reserve_tail < Capacity
    BY <1>0, <1>2 DEF Claim, Call, ReserveInv, WrappingAdd
  <2>2. Undoing' = {}
    BY <1>2, <2>1 DEF Claim, Goto, ReserveInv, Undoing, TypeOK
  <2> QED
    BY <1>0, <2>1, <2>2, FS_EmptySet DEF ReserveInv
<1>3. ASSUME NEW t \in Threads, NEW data \in Payloads, ClaimFull(t, data)
      PROVE  ReserveInv'
  <2>1. reserve_tail' = reserve_tail + 1 /\ calls' = calls + 1 /\ reserve_tail >= Capacity
    BY <1>0, <1>3 DEF ClaimFull, Call, ReserveInv, WrappingAdd
  <2>2. Undoing' = Undoing \cup {t} /\ t \notin Undoing
    BY <1>3 DEF ClaimFull, Call, Goto, Undoing, TypeOK
  <2>3. Cardinality(Undoing') = Cardinality(Undoing) + 1
    BY <2>2, UndoingFinite, FS_AddElement
  <2> QED
    BY <1>0, <2>1, <2>3, UndoingFinite DEF ReserveInv
<1>4. ASSUME NEW t \in Threads, Undo(t)
      PROVE  ReserveInv'
  <2>1. t \in Undoing
    BY <1>4 DEF Undo, Undoing
  <2>2. Undoing' = Undoing \ {t}
    BY <1>4 DEF Undo, Goto, Undoing, TypeOK
  <2>3. Cardinality(Undoing') = Cardinality(Undoing) - 1
    BY <2>1, <2>2, UndoingFinite, FS_RemoveElement
  <2>4. Cardinality(Undoing') \in Nat
    BY <2>2, UndoingFinite, FS_RemoveElement, FS_CardinalityType
  <2>5. reserve_tail >= Capacity + Cardinality(Undoing) /\ Cardinality(Undoing) >= 1
    BY <1>0, <2>1, <2>3, <2>4, UndoingFinite DEF ReserveInv
  <2>6. reserve_tail' = reserve_tail - 1 /\ calls' = calls
    BY <1>0, <1>4, <2>5, UndoingFinite DEF Undo, WrappingAdd, budget
  <2> QED
    BY <1>0, <2>3, <2>4, <2>5, <2>6, UndoingFinite DEF ReserveInv
<1>5. ASSUME NEW t \in Threads, Commit(t) \/ CountBytes(t)
      PROVE  ReserveInv'
  <2>1. Undoing' = Undoing
    BY <1>5 DEF Commit, CountBytes, Return, Goto, Undoing, TypeOK
  <2> QED
    BY <1>5, <2>1 DEF Commit, CountBytes, budget, ReserveInv
<1> QED
  BY <1>1, <1>2, <1>3, <1>4, <1>5, CalmSteps

\* An undo leaves reserve_tail at Capacity or above.
LEMMA UndoAboveCapacity ==
    ASSUME TypeInv, ReserveInv, NEW t \in Threads, Undo(t)
    PROVE  reserve_tail' = reserve_tail - 1 /\ reserve_tail' >= Capacity
<1>0. reserve_tail \in Nat
  BY DEF TypeInv, TypeOK
<1>1. t \in Undoing
  BY DEF Undo, Undoing
<1>2. Cardinality(Undoing) # 0
  BY <1>1, UndoingFinite, FS_EmptySet
<1>3. reserve_tail >= Capacity + 1
  BY <1>0, <1>1, <1>2, UndoingFinite DEF ReserveInv
<1> QED
  BY <1>0, <1>3 DEF Undo, WrappingAdd

\* SlotInv is preserved: a claim takes the slot at reserve_tail, which nobody has.
LEMMA SlotNext ==
    ASSUME TypeInv, ReserveInv, SlotInv, [Next]_vars
    PROVE  SlotInv'
<1> USE DEF TypeInv
<1>0. reserve_tail \in Nat /\ calls \in Nat /\ calls <= MaxCalls
  BY DEF TypeOK
<1>1. CASE Calm
  <2>1. \A u \in Threads : Holding(u)' => HasSlot(u)'
    BY DEF HasSlot
  <2>2. \A u \in Threads : Holding(u)' => Holding(u) /\ slot'[u] = slot[u]
    BY <1>1, <2>1 DEF Calm
  <2>3. SlotExclusive'
    BY <1>1, <2>2 DEF Calm, SlotInv, SlotExclusive
  <2> QED
    BY <1>1, <2>3 DEF Calm, SlotInv
<1>2. ASSUME NEW t \in Threads, NEW term \in Terms, NEW data \in Payloads, Claim(t, term, data)
      PROVE  SlotInv'
  <2>1. reserve_tail' = reserve_tail + 1
    BY <1>0, <1>2 DEF Claim, Call, ReserveInv, WrappingAdd
  <2>2. slot'[t] = reserve_tail /\ Holding(t)' /\ HasSlot(t)'
    BY <1>2 DEF Claim, Goto, TypeOK, Holding, HasSlot
  <2>3. \A u \in Threads \ {t} : slot'[u] = slot[u] /\ (Holding(u)' <=> Holding(u))
                                 /\ (HasSlot(u)' <=> HasSlot(u))
    BY <1>2 DEF Claim, Goto, TypeOK, Holding, HasSlot
  <2>4. UNCHANGED <<done, acked>>
    BY <1>2 DEF Claim
  <2>5. \A u \in Threads : HasSlot(u)' => slot'[u] < reserve_tail'
    BY <1>0, <2>1, <2>2, <2>3 DEF SlotInv, TypeOK
  <2>6. \A s \in done' : s < reserve_tail'
    BY <1>0, <2>1, <2>4 DEF SlotInv, TypeOK, Slots
  <2>7. SlotExclusive'
    <3>1. reserve_tail \notin done
      BY <1>0 DEF SlotInv
    <3>2. \A u \in Threads \ {t} : Holding(u) => slot[u] # reserve_tail
      BY <1>0 DEF SlotInv, HasSlot
    <3> QED
      BY <2>2, <2>3, <2>4, <3>1, <3>2 DEF SlotInv, SlotExclusive
  <2> QED
    BY <2>2, <2>3, <2>4, <2>5, <2>6, <2>7 DEF SlotInv
<1>3. ASSUME NEW t \in Threads, NEW data \in Payloads, ClaimFull(t, data)
      PROVE  SlotInv'
  <2>1. reserve_tail' = reserve_tail + 1
    BY <1>0, <1>3 DEF ClaimFull, Call, ReserveInv, WrappingAdd
  <2>2. \A u \in Threads : HasSlot(u)' => HasSlot(u) /\ slot'[u] = slot[u] /\ (Holding(u)' <=> Holding(u))
    BY <1>3 DEF ClaimFull, Goto, TypeOK, Holding, HasSlot
  <2>3. UNCHANGED <<done, acked>>
    BY <1>3 DEF ClaimFull, history
  <2>4. \A u \in Threads : HasSlot(u)' => slot'[u] < reserve_tail'
    BY <1>0, <2>1, <2>2 DEF SlotInv, TypeOK
  <2>5. \A s \in done' : s < reserve_tail'
    BY <1>0, <2>1, <2>3 DEF SlotInv, TypeOK, Slots
  <2>6. SlotExclusive'
    BY <2>2, <2>3 DEF SlotInv, SlotExclusive, HasSlot
  <2> QED
    BY <2>2, <2>3, <2>4, <2>5, <2>6 DEF SlotInv
<1>4. ASSUME NEW t \in Threads, Undo(t)
      PROVE  SlotInv'
  <2>1. reserve_tail' >= Capacity /\ reserve_tail' \in Nat
    BY <1>0, <1>4, UndoAboveCapacity, TypeNext DEF TypeOK
  <2>2. \A u \in Threads : HasSlot(u)' => HasSlot(u) /\ slot'[u] = slot[u] /\ (Holding(u)' <=> Holding(u))
    BY <1>4 DEF Undo, Goto, locals, TypeOK, Holding, HasSlot
  <2>3. UNCHANGED <<done, acked>>
    BY <1>4 DEF Undo, history
  <2>4. \A u \in Threads : HasSlot(u)' => slot'[u] < reserve_tail'
    BY <2>1, <2>2 DEF Ranges, Slots
  <2>5. \A s \in done' : s < reserve_tail'
    BY <2>1, <2>3 DEF TypeOK, Slots
  <2>6. SlotExclusive'
    BY <2>2, <2>3 DEF SlotInv, SlotExclusive, HasSlot
  <2> QED
    BY <2>2, <2>3, <2>4, <2>5, <2>6 DEF SlotInv
<1>5. ASSUME NEW t \in Threads, Commit(t)
      PROVE  SlotInv'
  <2>1. Holding(t) /\ op[t] = "append" /\ HasSlot(t)
    BY <1>5 DEF Commit, Holding, HasSlot, Ranges
  <2>2. ~ Holding(t)' /\ HasSlot(t)' /\ done' = done \cup {slot[t]} /\ UNCHANGED <<reserve_tail, slot, acked>>
    BY <1>5, <2>1 DEF Commit, Goto, locals, TypeOK, Holding, HasSlot
  <2>3. \A u \in Threads \ {t} : (Holding(u)' <=> Holding(u)) /\ (HasSlot(u)' <=> HasSlot(u))
    BY <1>5 DEF Commit, Goto, locals, TypeOK, Holding, HasSlot
  <2> QED
    BY <2>1, <2>2, <2>3 DEF SlotInv, SlotExclusive
<1>6. ASSUME NEW t \in Threads, CountBytes(t)
      PROVE  SlotInv'
  <2>1. HasSlot(t) /\ ~ Holding(t)
    BY <1>6 DEF CountBytes, HasSlot, Holding
  <2>2. ~ Holding(t)' /\ ~ HasSlot(t)' /\ acked' = acked \cup {slot[t]} /\ UNCHANGED <<reserve_tail, done>>
    BY <1>6 DEF CountBytes, Return, Goto, TypeOK, Holding, HasSlot
  <2>3. \A u \in Threads \ {t} : slot'[u] = slot[u] /\ (Holding(u)' <=> Holding(u)) /\ (HasSlot(u)' <=> HasSlot(u))
    BY <1>6 DEF CountBytes, Return, Goto, TypeOK, Holding, HasSlot
  <2> QED
    BY <2>1, <2>2, <2>3 DEF SlotInv, SlotExclusive
<1> QED
  BY <1>1, <1>2, <1>3, <1>4, <1>5, <1>6, CalmSteps

SlotsInv == TypeInv /\ ReserveInv /\ SlotInv

\* A new pool has no claimed slot.
LEMMA SlotsInitial == Init => SlotsInv
<1> SUFFICES ASSUME Init PROVE SlotsInv
  OBVIOUS
<1>1. Undoing = {}
  BY DEF Init, Undoing
<1>2. ReserveInv
  BY <1>1, FS_EmptySet DEF Init, ReserveInv
<1>3. SlotInv
  BY DEF Init, SlotInv, SlotExclusive, HasSlot, Holding
<1> QED
  BY <1>2, <1>3, TypeInit DEF SlotsInv

\* The three parts together are an invariant of the specification.
LEMMA SlotsInvariant == Spec => []SlotsInv
<1>1. SlotsInv /\ [Next]_vars => SlotsInv'
  BY TypeNext, ReserveNext, SlotNext DEF SlotsInv
<1> QED
  BY <1>1, SlotsInitial, PTL DEF Spec

\* No two live appends ever hold the same slot, and none holds a committed one,
\* for any number of threads, failed appends and crashes.
THEOREM SlotsAreExclusive == Spec => []SlotExclusive
<1>1. SlotsInv => SlotExclusive
  BY DEF SlotsInv, SlotInv
<1> QED
  BY <1>1, SlotsInvariant, PTL

\* A slot is handed out once in the life of the pool: the slots below reserve_tail stay
\* below it, and keep the entry they were claimed for.
THEOREM SlotsAreClaimedOnce == Spec => ClaimedOnce
<1> DEFINE Kept(s) == s < reserve_tail' /\ entry'[s] = entry[s]
<1>1. SlotsInv /\ [Next]_vars => [\A s \in Slots : s < reserve_tail => Kept(s)]_vars
  <2> SUFFICES ASSUME SlotsInv, [Next]_vars, NEW s \in Slots, s < reserve_tail
               PROVE  Kept(s)
    OBVIOUS
  <2> USE DEF SlotsInv
  <2>0. reserve_tail \in Nat /\ calls \in Nat /\ s \in Nat /\ s < Capacity
    BY DEF TypeInv, TypeOK, Slots
  <2>1. CASE Calm
    BY <2>1 DEF Calm
  <2>2. ASSUME NEW t \in Threads, NEW term \in Terms, NEW data \in Payloads, Claim(t, term, data)
        PROVE  Kept(s)
    <3>1. s # reserve_tail
      BY <2>0
    <3>2. reserve_tail' = reserve_tail + 1
      BY <2>0, <2>2 DEF Claim, Call, ReserveInv, WrappingAdd
    <3> QED
      BY <2>0, <2>2, <3>1, <3>2 DEF Claim, TypeInv, TypeOK
  <2>3. ASSUME NEW t \in Threads, NEW data \in Payloads, ClaimFull(t, data) PROVE Kept(s)
    <3>1. reserve_tail' = reserve_tail + 1
      BY <2>0, <2>3 DEF ClaimFull, Call, ReserveInv, WrappingAdd
    <3> QED
      BY <2>0, <2>3, <3>1 DEF ClaimFull, history
  <2>4. ASSUME NEW t \in Threads, Undo(t) PROVE Kept(s)
    BY <2>0, <2>4, UndoAboveCapacity DEF Undo, history
  <2>5. ASSUME NEW t \in Threads, Commit(t) \/ CountBytes(t) PROVE Kept(s)
    BY <2>5 DEF Commit, CountBytes, history
  <2> QED
    BY <2>1, <2>2, <2>3, <2>4, <2>5, CalmSteps
<1> QED
  BY <1>1, SlotsInvariant, PTL DEF Spec, ClaimedOnce

-----------------------------------------------------------------------------
(***************************************************************************)
(* The committed tail.  A slot is COMMITTED only if its writer committed   *)
(* it, so whatever a walk of advance_committed_tail has passed is done, for *)
(* good: done never shrinks, and a stale walk is as sound as a fresh one.  *)
(***************************************************************************)

TailInv ==
    /\ \A s \in Slots : s < committed_tail => s \in done
    /\ \A t \in Threads : pc[t] \in {"scan", "cas"} =>
          cur[t] <= committed_tail /\ \A s \in Slots : s < new[t] => s \in done
    /\ \A s \in Slots : rec[s].state = "COMMITTED" => s \in done
    /\ \A s \in done : rec[s].state \in {"COMMITTED", "ABANDONED"} \/ s \in corrupt

\* A step that stores no state byte and moves neither the tail nor a walk.
Still ==
    /\ UNCHANGED <<committed_tail, done, corrupt>>
    /\ \A s \in Slots : rec'[s].state = rec[s].state
    /\ \A t \in Threads : pc'[t] \in {"scan", "cas"} =>
          pc[t] \in {"scan", "cas"} /\ cur'[t] = cur[t] /\ new'[t] = new[t]

\* Every step but MarkWriting, a commit, an abandon, a trim, a fault, and the load, the walk and the
\* compare-exchange of advance_committed_tail is still.
LEMMA StillSteps ==
    ASSUME TypeInv, [Next]_vars
    PROVE  \/ Still
           \/ \E t \in Threads : \/ MarkWriting(t) \/ Commit(t) \/ LoadTail(t) \/ ScanOn(t) \/ Cas(t)
                                 \/ Abandon(t) \/ TrimStore(t)
           \/ \E s \in Slots : MediaFault(s)
<1> USE DEF TypeInv
<1>1. ASSUME UNCHANGED <<committed_tail, rec, done, corrupt>>, NEW t \in Threads,
             NEW l \in {"idle", "undo", "mark", "count_failed", "count_append", "count_bytes", "load",
                        "inspect", "check", "abandon", "count_run", "count_abandoned", "trim",
                        "trim_store", "read", "read_state", "read_fields", "read_payload", "read_verify"},
             pc' = [pc EXCEPT ![t] = l],
             \A u \in Threads \ {t} : cur'[u] = cur[u] /\ new'[u] = new[u]
      PROVE  Still
  BY <1>1 DEF Still, TypeOK
<1>2. ASSUME NEW t \in Threads, Start(t) PROVE Still
  <2>1. UNCHANGED <<committed_tail, rec, done, corrupt, cur, new>>
    BY <1>2 DEF Start, AppendTooLarge, ClaimFull, Claim, CallRecover, TrimBeyond, CallTrim, CallRead,
                pool, locals, history
  <2>2. \E l \in {"idle", "undo", "mark", "inspect", "trim", "read"} : pc' = [pc EXCEPT ![t] = l]
    BY <1>2 DEF Start, AppendTooLarge, ClaimFull, Claim, CallRecover, TrimBeyond, CallTrim, CallRead,
                Call, Goto, TypeOK
  <2> QED
    BY <1>1, <2>1, <2>2
<1>3. ASSUME NEW t \in Threads, Return(t), UNCHANGED <<committed_tail, rec, done, corrupt>> PROVE Still
  BY <1>1, <1>3 DEF Return, Goto, TypeOK
<1>4. ASSUME NEW t \in Threads, Undo(t) \/ CountFailed(t) \/ CountAppend(t) \/ CountBytes(t) PROVE Still
  BY <1>1, <1>3, <1>4 DEF Undo, CountFailed, CountAppend, CountBytes, Goto, locals, history
<1>5. ASSUME NEW t \in Threads, WriteFields(t) \/ WritePayload(t) \/ WriteCrc(t) PROVE Still
  <2>1. \A s \in Slots : rec[s] \in Records
    BY DEF TypeOK
  <2>2. slot[t] \in Slots
    BY <1>5 DEF WriteFields, WritePayload, WriteCrc, Ranges, HasSlot, Holding
  <2>3. \A s \in Slots : rec'[s].state = rec[s].state
    BY <1>5, <2>1, <2>2, WriteFacts DEF TypeInv
  <2>4. \E l \in {"payload", "crc", "commit"} : pc' = [pc EXCEPT ![t] = l]
    BY <1>5 DEF WriteFields, WritePayload, WriteCrc, Goto
  <2>5. UNCHANGED <<committed_tail, done, corrupt, cur, new>>
    BY <1>5 DEF WriteFields, WritePayload, WriteCrc, locals, history
  <2> QED
    BY <2>3, <2>4, <2>5 DEF Still, TypeOK
<1>6. ASSUME NEW t \in Threads, ScanStop(t) PROVE Still
  BY <1>6 DEF ScanStop, AfterAdvance, Goto, pool, locals, history, Still, TypeOK
<1>7. ASSUME NEW t \in Threads, Inspect(t) \/ Check(t) \/ RecoverPhase2(t) PROVE Still
  <2>1. UNCHANGED <<committed_tail, rec, done, corrupt, cur, new>>
    BY <1>7 DEF Inspect, Check, RecoverPhase2, pool, locals, history
  <2>2. \E l \in {"inspect", "check", "abandon", "load"} : pc' = [pc EXCEPT ![t] = l]
    BY <1>7 DEF Inspect, Check, RecoverPhase2, Goto, TypeOK
  <2> QED
    BY <1>1, <2>1, <2>2
<1>8. ASSUME NEW t \in Threads, CountRun(t) \/ CountAbandoned(t) PROVE Still
  BY <1>1, <1>3, <1>8 DEF CountRun, CountAbandoned, Goto, locals, history
<1>9. ASSUME NEW t \in Threads, TrimInspect(t) \/ TrimReturn(t) PROVE Still
  <2>1. CASE TrimInspect(t)
    <3>1. UNCHANGED <<committed_tail, rec, done, corrupt, cur, new>>
      BY <2>1 DEF TrimInspect, pool, history
    <3>2. \E l \in {"trim", "trim_store"} : pc' = [pc EXCEPT ![t] = l]
      BY <2>1 DEF TrimInspect, Goto, TypeOK
    <3> QED
      BY <1>1, <3>1, <3>2
  <2>2. CASE TrimReturn(t)
    BY <1>3, <2>2 DEF TrimReturn, pool, history
  <2> QED
    BY <1>9, <2>1, <2>2
<1>10. ASSUME NEW t \in Threads, Read(t) PROVE Still
  <2>1. CASE ReadReturn(t) \/ ReadMismatch(t)
    BY <1>3, <2>1 DEF ReadReturn, ReadMismatch, pool, history
  <2>2. CASE ReadTail(t) \/ ReadState(t) \/ ReadFields(t) \/ ReadPayload(t) \/ ReadOk(t)
    <3>1. UNCHANGED <<committed_tail, rec, done, corrupt, cur, new>>
      BY <2>2 DEF ReadTail, ReadState, ReadFields, ReadPayload, ReadOk, pool, locals, history
    <3>2. \E l \in {"read", "read_state", "read_fields", "read_payload", "read_verify"} :
             pc' = [pc EXCEPT ![t] = l]
      BY <2>2 DEF ReadTail, ReadState, ReadFields, ReadPayload, ReadOk, Goto
    <3> QED
      BY <1>1, <3>1, <3>2
  <2> QED
    BY <1>10, <2>1, <2>2 DEF Read
<1>11. ASSUME NEW h \in Hosts, Crash(h) \/ Restart(h) PROVE Still
  BY <1>11 DEF Crash, Restart, pool, locals, history, TypeOK, Still
<1>12. ASSUME UNCHANGED vars PROVE Still
  BY <1>12 DEF vars, pool, locals, history, Still
<1> QED
  BY <1>2, <1>4, <1>5, <1>6, <1>7, <1>8, <1>9, <1>10, <1>11, <1>12
     DEF Next, Rest, Step, Append, Advance, Recover, Trim

\* TailInv is preserved.
LEMMA TailNext ==
    ASSUME SlotsInv, TailInv, [Next]_vars
    PROVE  TailInv' /\ committed_tail <= committed_tail'
<1> USE DEF SlotsInv, TypeInv
<1>0. /\ committed_tail \in 0 .. Capacity /\ committed_tail' \in 0 .. Capacity
      /\ \A t \in Threads : cur[t] \in 0 .. Capacity /\ new[t] \in 0 .. Capacity
  BY TypeNext DEF TypeOK
<1>1. CASE Still
  <2>1. done \subseteq Slots
    BY DEF TypeOK
  <2> QED
    BY <1>0, <1>1, <2>1 DEF Still, TailInv
<1>2. ASSUME NEW t \in Threads, MarkWriting(t)
      PROVE  TailInv' /\ committed_tail <= committed_tail'
  <2>1. slot[t] \in Slots /\ slot[t] \notin done /\ "WRITING" \in States
    BY <1>2 DEF MarkWriting, Ranges, HasSlot, Holding, SlotInv, SlotExclusive, States
  <2>2. rec'[slot[t]].state = "WRITING" /\ \A s \in Slots \ {slot[t]} : rec'[s] = rec[s]
    BY <1>2, <2>1, SetStateFacts DEF MarkWriting, TypeOK
  <2>3. UNCHANGED <<committed_tail, done, corrupt, cur, new>>
    BY <1>2 DEF MarkWriting, locals, history
  <2>4. \A u \in Threads : pc'[u] \in {"scan", "cas"} => pc[u] \in {"scan", "cas"}
    BY <1>2 DEF MarkWriting, Goto, TypeOK
  <2>5. done \subseteq Slots
    BY DEF TypeOK
  <2> QED
    BY <1>0, <2>1, <2>2, <2>3, <2>4, <2>5 DEF TailInv
<1>3. ASSUME NEW t \in Threads, Commit(t)
      PROVE  TailInv' /\ committed_tail <= committed_tail'
  <2>1. slot[t] \in Slots /\ "COMMITTED" \in States
    BY <1>3 DEF Commit, Ranges, HasSlot, Holding, States
  <2>2. rec'[slot[t]].state = "COMMITTED" /\ \A s \in Slots \ {slot[t]} : rec'[s] = rec[s]
    BY <1>3, <2>1, SetStateFacts DEF Commit, TypeOK
  <2>3. UNCHANGED <<committed_tail, corrupt, cur, new>> /\ done' = done \cup {slot[t]}
    BY <1>3 DEF Commit, locals
  <2>4. \A u \in Threads : pc'[u] \in {"scan", "cas"} => pc[u] \in {"scan", "cas"}
    BY <1>3 DEF Commit, Goto, TypeOK
  <2>5. done \subseteq Slots
    BY DEF TypeOK
  <2> QED
    BY <1>0, <2>1, <2>2, <2>3, <2>4, <2>5 DEF TailInv
<1>4. ASSUME NEW t \in Threads, LoadTail(t) \/ ScanOn(t)
      PROVE  TailInv' /\ committed_tail <= committed_tail'
  <2>1. UNCHANGED <<committed_tail, rec, done, corrupt>>
    BY <1>4 DEF LoadTail, ScanOn, pool, history
  <2>2. \A u \in Threads \ {t} : pc'[u] = pc[u] /\ cur'[u] = cur[u] /\ new'[u] = new[u]
    BY <1>4 DEF LoadTail, ScanOn, Goto, TypeOK
  <2>3. cur'[t] <= committed_tail /\ \A s \in Slots : s < new'[t] => s \in done
    <3>1. CASE LoadTail(t)
      BY <1>0, <3>1 DEF LoadTail, TypeOK, TailInv
    <3>2. CASE ScanOn(t)
      <4>1. cur'[t] = cur[t] /\ new'[t] = new[t] + 1 /\ pc[t] = "scan"
        BY <3>2 DEF ScanOn, TypeOK
      <4>2. new[t] \in Slots /\ rec[new[t]].state = "COMMITTED"
        BY <1>0, <3>2 DEF ScanOn, Contiguous, Slots
      <4>3. \A s \in Slots : s < new[t] + 1 => s < new[t] \/ s = new[t]
        BY <1>0 DEF Slots
      <4> QED
        BY <4>1, <4>2, <4>3 DEF TailInv
    <3> QED
      BY <1>4, <3>1, <3>2
  <2> QED
    BY <1>0, <2>1, <2>2, <2>3 DEF TailInv
<1>5. ASSUME NEW t \in Threads, Cas(t)
      PROVE  TailInv' /\ committed_tail <= committed_tail'
  <2>1. UNCHANGED <<rec, done, corrupt, cur, new>> /\ pc[t] = "cas" /\ cur[t] <= new[t]
    BY <1>5 DEF Cas, locals, history, Ranges
  <2>2. \A u \in Threads : pc'[u] \in {"scan", "cas"} => pc[u] \in {"scan", "cas"}
    BY <1>5 DEF Cas, AfterAdvance, Goto, TypeOK
  <2>3. committed_tail' = committed_tail \/ (committed_tail = cur[t] /\ committed_tail' = new[t])
    BY <1>5 DEF Cas
  <2>4. committed_tail <= committed_tail'
    BY <1>0, <2>1, <2>3
  <2>5. \A s \in Slots : s < committed_tail' => s \in done
    BY <2>1, <2>3 DEF TailInv
  <2>6. \A u \in Threads : pc[u] \in {"scan", "cas"} => cur[u] <= committed_tail'
    BY <1>0, <2>4 DEF TailInv
  <2> QED
    BY <2>1, <2>2, <2>4, <2>5, <2>6 DEF TailInv
<1>6. ASSUME NEW t \in Threads, Abandon(t) \/ TrimStore(t)
      PROVE  TailInv' /\ committed_tail <= committed_tail'
  <2>1. cursor[t] \in Slots /\ "ABANDONED" \in States
    BY <1>0, <1>6 DEF Abandon, TrimStore, TypeOK, Ranges, Slots, States
  <2>2. rec'[cursor[t]].state = "ABANDONED" /\ \A s \in Slots \ {cursor[t]} : rec'[s] = rec[s]
    BY <1>6, <2>1, SetStateFacts DEF Abandon, TrimStore, TypeOK
  <2>3. UNCHANGED <<committed_tail, done, corrupt, cur, new>>
    BY <1>6 DEF Abandon, TrimStore, history
  <2>4. \A u \in Threads : pc'[u] \in {"scan", "cas"} => pc[u] \in {"scan", "cas"}
    BY <1>6 DEF Abandon, TrimStore, Goto, TypeOK
  <2>5. done \subseteq Slots
    BY DEF TypeOK
  <2> QED
    BY <1>0, <2>1, <2>2, <2>3, <2>4, <2>5 DEF TailInv
<1>7. ASSUME NEW s \in Slots, MediaFault(s)
      PROVE  TailInv' /\ committed_tail <= committed_tail'
  <2>1. /\ \A r \in Slots \ {s} : rec'[r] = rec[r]
        /\ rec'[s].state = "COMMITTED" => rec[s].state = "COMMITTED"
        /\ UNCHANGED <<committed_tail, done, pc, cur, new>> /\ corrupt' = corrupt \cup {s}
    BY <1>7, FaultFacts DEF TypeOK, locals
  <2>2. done \subseteq Slots
    BY DEF TypeOK
  <2> QED
    BY <1>0, <2>1, <2>2 DEF TailInv
<1> QED
  BY <1>1, <1>2, <1>3, <1>4, <1>5, <1>6, <1>7, StillSteps

LogInv == SlotsInv /\ TailInv

\* The whole inductive invariant holds in every reachable state.
LEMMA LogInvariant == Spec => []LogInv
<1>1. Init => LogInv
  <2> SUFFICES ASSUME Init PROVE TailInv
    BY SlotsInitial DEF LogInv
  <2>1. \A s \in Slots : rec[s].state = "FREE" /\ ~ (s < 0)
    BY DEF Init, ZeroRecord, Slots
  <2> QED
    BY <2>1 DEF Init, TailInv
<1>2. LogInv /\ [Next]_vars => LogInv'
  BY TypeNext, ReserveNext, SlotNext, TailNext DEF LogInv, SlotsInv
<1> QED
  BY <1>1, <1>2, PTL DEF Spec

\* Nothing below the committed tail is in flight, whoever moves it, whatever
\* crashes, and even when recovery runs next to live writers.
THEOREM ReadersSeeNoRecordInFlight == Spec => []NoInFlightBelowTail
<1>1. LogInv => NoInFlightBelowTail
  <2> SUFFICES ASSUME LogInv PROVE NoInFlightBelowTail
    OBVIOUS
  <2>1. committed_tail \in 0 .. Capacity /\ reserve_tail \in Nat
    BY DEF LogInv, SlotsInv, TypeInv, TypeOK
  <2>2. committed_tail <= reserve_tail
    <3>1. CASE committed_tail = 0
      BY <2>1, <3>1
    <3>2. CASE committed_tail # 0
      <4>1. committed_tail - 1 \in Slots /\ committed_tail - 1 < committed_tail
        BY <2>1, <3>2 DEF Slots
      <4>2. committed_tail - 1 \in done
        BY <4>1 DEF LogInv, TailInv
      <4>3. committed_tail - 1 < reserve_tail
        BY <4>2 DEF LogInv, SlotsInv, SlotInv
      <4> QED
        BY <2>1, <4>3
    <3> QED
      BY <3>1, <3>2
  <2>3. committed_tail <= MinOf(reserve_tail, Capacity)
    BY <2>1, <2>2 DEF MinOf
  <2> QED
    BY <2>3 DEF LogInv, TailInv, NoInFlightBelowTail
<1> QED
  BY <1>1, LogInvariant, PTL

\* The committed tail never moves back.
THEOREM TailNeverMovesBack == Spec => TailMonotone
<1>1. LogInv /\ [Next]_vars => [committed_tail <= committed_tail']_vars
  BY TailNext DEF LogInv
<1> QED
  BY <1>1, LogInvariant, PTL DEF Spec, TailMonotone

=============================================================================
