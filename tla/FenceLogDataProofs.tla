------------------------- MODULE FenceLogDataProofs -------------------------
(***************************************************************************)
(* What the records hold: a COMMITTED record is whole, and a read returns  *)
(* what was appended or nothing.  And what the counters say: no more than  *)
(* was committed, no less than was acknowledged.  All of it holds next to  *)
(* any recovery, trim, crash and media fault, without quiescence.          *)
(***************************************************************************)
EXTENDS FenceLogProofs, FenceSums

USE CapacityAssumption, PayloadAssumption, ThreadAssumption, OpsAssumption, BoundAssumption

\* The fields of record r are those of the entry slot s was claimed for.
Labelled(r, s) ==
    /\ r.term = entry[s].term
    /\ r.index = s + 1
    /\ r.writer = entry[s].writer
    /\ r.len = PayloadLen[entry[s].data]

Whole(r, s) == Cut(r.data, r.len) = entry[s].data

Sum(s) == Compute(entry[s].term, s + 1, entry[s].data)

\* A media fault leaves a checksum that verifies for nothing.
Summed(r, s) == r.crc = Sum(s) \/ r.crc = BadCrc

\* What is known of a slot its writer has committed, whatever happened since.
Sealed(s) ==
    /\ Summed(rec[s], s)
    /\ s \notin corrupt => Labelled(rec[s], s) /\ Whole(rec[s], s) /\ rec[s].crc = Sum(s)

\* What is known of the fields a reader has loaded from such a slot.
Loaded(r, s) ==
    /\ Summed(r, s)
    /\ s \notin corrupt => NamesWriter(r, s)

\* The record follows the pc of its writer, and what a reader has loaded is the
\* record's, but for what a fault did in between.
DataInv ==
    /\ \A t \in Threads : Holding(t) =>
          /\ entry[slot[t]] = arg[t]
          /\ arg[t].writer = HostOf[t]
          /\ PayloadLen[arg[t].data] <= PayloadSize
    /\ \A t \in Threads : pc[t] \in {"payload", "crc", "commit"} /\ slot[t] \notin corrupt =>
          Labelled(rec[slot[t]], slot[t])
    /\ \A t \in Threads : pc[t] \in {"crc", "commit"} /\ slot[t] \notin corrupt =>
          Whole(rec[slot[t]], slot[t])
    /\ \A t \in Threads : pc[t] = "commit" => Sealed(slot[t])
    /\ \A s \in done : Sealed(s)
    /\ \A t \in Threads : pc[t] \in {"read_payload", "read_verify"} =>
          Loaded(got[t], cursor[t] - 1)

-----------------------------------------------------------------------------
SameData(r, q) ==
    /\ r.term = q.term /\ r.index = q.index /\ r.writer = q.writer
    /\ r.len = q.len /\ r.data = q.data /\ r.crc = q.crc

\* A step that stores no field of a record, and after which nobody is further with a
\* record than before.
Frozen ==
    /\ UNCHANGED <<entry, done, corrupt>>
    /\ \A s \in Slots : SameData(rec'[s], rec[s])
    /\ \A t \in Threads : Holding(t)' => Holding(t) /\ slot'[t] = slot[t] /\ arg'[t] = arg[t]
    /\ \A t \in Threads : pc'[t] \in {"payload", "crc", "commit"} => pc'[t] = pc[t]
    /\ \A t \in Threads : pc'[t] \in {"read_payload", "read_verify"} =>
          pc'[t] = pc[t] /\ got'[t] = got[t] /\ cursor'[t] = cursor[t]

\* recover and trim store into slots only.
LEMMA AbandonsSlot ==
    ASSUME TypeInv, NEW t \in Threads, Abandon(t) \/ TrimStore(t)
    PROVE  cursor[t] \in Slots
<1>1. committed_tail \in 0 .. Capacity /\ cursor[t] \in Nat /\ limit[t] \in Nat
  BY DEF TypeInv, TypeOK
<1>2. CASE pc[t] = "abandon"
  <2>1. cursor[t] < limit[t] /\ limit[t] <= Capacity
    BY <1>2 DEF TypeInv, Ranges
  <2> QED
    BY <1>1, <2>1 DEF Slots
<1>3. CASE pc[t] = "trim_store"
  <2>1. cursor[t] < limit[t] /\ limit[t] <= committed_tail
    BY <1>3 DEF TypeInv, Ranges
  <2> QED
    BY <1>1, <2>1 DEF Slots
<1> QED
  BY <1>2, <1>3 DEF Abandon, TrimStore

\* Every step but a claim, the stores and the commit of an append, the loads of a read
\* and a media fault is frozen.
LEMMA FrozenSteps ==
    ASSUME TypeInv, [Next]_vars
    PROVE  \/ Frozen
           \/ \E t \in Threads :
                \/ \E term \in Terms, data \in Payloads : Claim(t, term, data)
                \/ WriteFields(t) \/ WritePayload(t) \/ WriteCrc(t) \/ Commit(t)
                \/ ReadFields(t) \/ ReadPayload(t)
           \/ \E s \in Slots : MediaFault(s)
<1> USE DEF TypeInv
<1>1. ASSUME UNCHANGED <<entry, done, corrupt>>, \A s \in Slots : SameData(rec'[s], rec[s]),
             NEW t \in Threads,
             NEW l \in {"idle", "undo", "count_failed", "count_append", "count_bytes", "load",
                        "scan", "cas", "inspect", "check", "abandon", "count_run", "count_abandoned",
                        "trim", "trim_store", "read", "read_state", "read_fields"},
             pc' = [pc EXCEPT ![t] = l],
             \A u \in Threads \ {t} :
                slot'[u] = slot[u] /\ arg'[u] = arg[u] /\ got'[u] = got[u] /\ cursor'[u] = cursor[u]
      PROVE  Frozen
  BY <1>1 DEF Frozen, TypeOK, Holding
<1>2. rec' = rec => \A s \in Slots : SameData(rec'[s], rec[s])
  BY DEF SameData
<1>3. ASSUME NEW t \in Threads, Start(t)
      PROVE  Frozen \/ \E term \in Terms, data \in Payloads : Claim(t, term, data)
  <2>1. ASSUME NEW data \in Payloads, AppendTooLarge(t, data) PROVE Frozen
    BY <2>1, <1>2 DEF AppendTooLarge, pool, locals, history, Frozen, Holding
  <2>2. ASSUME NEW data \in Payloads, ClaimFull(t, data) PROVE Frozen
    BY <2>2, <1>1, <1>2 DEF ClaimFull, Goto, history
  <2>3. ASSUME CallRecover(t) PROVE Frozen
    BY <2>3, <1>1, <1>2 DEF CallRecover, Goto, pool, history, TypeOK
  <2>4. ASSUME NEW upTo \in 0 .. Capacity, TrimBeyond(t, upTo) PROVE Frozen
    BY <2>4, <1>2 DEF TrimBeyond, pool, locals, history, Frozen, Holding
  <2>5. ASSUME NEW upTo \in 0 .. Capacity, CallTrim(t, upTo) PROVE Frozen
    BY <2>5, <1>1, <1>2 DEF CallTrim, Goto, pool, history, TypeOK
  <2>6. ASSUME NEW first \in 0 .. Capacity + 1, NEW last \in 0 .. Capacity + 1,
               CallRead(t, first, last)
        PROVE  Frozen
    BY <2>6, <1>1, <1>2 DEF CallRead, Goto, pool, history, TypeOK
  <2> QED
    BY <1>3, <2>1, <2>2, <2>3, <2>4, <2>5, <2>6 DEF Start
<1>4. ASSUME NEW t \in Threads, Return(t), UNCHANGED <<rec, entry, done, corrupt>> PROVE Frozen
  BY <1>1, <1>2, <1>4 DEF Return, Goto, TypeOK
<1>5. ASSUME NEW t \in Threads, Undo(t) \/ CountFailed(t) \/ CountAppend(t) \/ CountBytes(t)
      PROVE  Frozen
  BY <1>1, <1>2, <1>4, <1>5 DEF Undo, CountFailed, CountAppend, CountBytes, Goto, locals, history
<1>6. ASSUME NEW t \in Threads, MarkWriting(t) PROVE Frozen
  <2>1. slot[t] \in Slots /\ "WRITING" \in States
    BY <1>6 DEF MarkWriting, Ranges, HasSlot, Holding, States
  <2>2. \A s \in Slots : SameData(rec'[s], rec[s])
    BY <1>6, <2>1, SetStateFacts DEF MarkWriting, TypeOK, SameData
  <2> QED
    BY <1>6, <2>2 DEF MarkWriting, Goto, locals, history, TypeOK, Frozen, Holding
<1>7. ASSUME NEW t \in Threads, Advance(t) PROVE Frozen
  <2>1. UNCHANGED <<rec, entry, done, corrupt, slot, arg, got, cursor>>
    BY <1>7 DEF Advance, LoadTail, ScanOn, ScanStop, Cas, pool, locals, history
  <2>2. \E l \in {"scan", "cas", "load", "count_append", "count_run"} : pc' = [pc EXCEPT ![t] = l]
    BY <1>7 DEF Advance, LoadTail, ScanOn, ScanStop, Cas, AfterAdvance, Goto, TypeOK
  <2> QED
    BY <1>1, <1>2, <2>1, <2>2
<1>8. ASSUME NEW t \in Threads, Inspect(t) \/ Check(t) \/ RecoverPhase2(t) PROVE Frozen
  <2>1. UNCHANGED <<rec, entry, done, corrupt, slot, arg, got>>
    BY <1>8 DEF Inspect, Check, RecoverPhase2, pool, locals, history
  <2>2. \E l \in {"inspect", "check", "abandon", "load"} : pc' = [pc EXCEPT ![t] = l]
    BY <1>8 DEF Inspect, Check, RecoverPhase2, Goto, TypeOK
  <2>3. \A u \in Threads \ {t} : cursor'[u] = cursor[u]
    BY <1>8 DEF Inspect, Check, RecoverPhase2, locals, TypeOK
  <2> QED
    BY <1>1, <1>2, <2>1, <2>2, <2>3
<1>9. ASSUME NEW t \in Threads, Abandon(t) \/ TrimStore(t) PROVE Frozen
  <2>1. cursor[t] \in Slots /\ "ABANDONED" \in States
    BY <1>9, AbandonsSlot DEF States
  <2>2. \A s \in Slots : SameData(rec'[s], rec[s])
    BY <1>9, <2>1, SetStateFacts DEF Abandon, TrimStore, TypeOK, SameData
  <2>3. \E l \in {"inspect", "trim"} : pc' = [pc EXCEPT ![t] = l]
    BY <1>9 DEF Abandon, TrimStore, Goto
  <2>4. UNCHANGED <<entry, done, corrupt, slot, arg, got>>
    BY <1>9 DEF Abandon, TrimStore, history
  <2>5. \A u \in Threads \ {t} : cursor'[u] = cursor[u]
    BY <1>9 DEF Abandon, TrimStore, TypeOK
  <2> QED
    BY <1>1, <2>2, <2>3, <2>4, <2>5
<1>10. ASSUME NEW t \in Threads, CountRun(t) \/ CountAbandoned(t) PROVE Frozen
  BY <1>1, <1>2, <1>4, <1>10 DEF CountRun, CountAbandoned, Goto, locals, history
<1>11. ASSUME NEW t \in Threads, TrimInspect(t) \/ TrimReturn(t) PROVE Frozen
  <2>1. CASE TrimInspect(t)
    <3>1. UNCHANGED <<rec, entry, done, corrupt, slot, arg, got>>
      BY <2>1 DEF TrimInspect, pool, history
    <3>2. \E l \in {"trim", "trim_store"} : pc' = [pc EXCEPT ![t] = l]
      BY <2>1 DEF TrimInspect, Goto, TypeOK
    <3>3. \A u \in Threads \ {t} : cursor'[u] = cursor[u]
      BY <2>1 DEF TrimInspect, TypeOK
    <3> QED
      BY <1>1, <1>2, <3>1, <3>2, <3>3
  <2>2. CASE TrimReturn(t)
    BY <1>4, <2>2 DEF TrimReturn, pool, history
  <2> QED
    BY <1>11, <2>1, <2>2
<1>12. ASSUME NEW t \in Threads, ReadReturn(t) \/ ReadMismatch(t) PROVE Frozen
  BY <1>4, <1>12 DEF ReadReturn, ReadMismatch, pool, history
<1>13. ASSUME NEW t \in Threads, ReadTail(t) \/ ReadState(t) \/ ReadOk(t) PROVE Frozen
  <2>1. UNCHANGED <<rec, entry, done, corrupt, slot, arg>>
    BY <1>13 DEF ReadTail, ReadState, ReadOk, pool, locals, history
  <2>2. \E l \in {"read", "read_state", "read_fields"} : pc' = [pc EXCEPT ![t] = l]
    BY <1>13 DEF ReadTail, ReadState, ReadOk, Goto
  <2>3. \A u \in Threads \ {t} : cursor'[u] = cursor[u] /\ got'[u] = got[u]
    BY <1>13 DEF ReadTail, ReadState, ReadOk, locals, TypeOK
  <2> QED
    BY <1>1, <1>2, <2>1, <2>2, <2>3
<1>14. ASSUME NEW h \in Hosts, Crash(h) \/ Restart(h) PROVE Frozen
  BY <1>2, <1>14 DEF Crash, Restart, pool, locals, history, TypeOK, Frozen, Holding
<1>15. ASSUME UNCHANGED vars PROVE Frozen
  BY <1>2, <1>15 DEF vars, pool, locals, history, Frozen, Holding
<1> QED
  BY <1>3, <1>5, <1>6, <1>7, <1>8, <1>9, <1>10, <1>11, <1>12, <1>13, <1>14, <1>15
     DEF Next, Rest, Step, Append, Recover, Trim, Read

-----------------------------------------------------------------------------
(* DataInv is inductive, next to LogInv. *)

\* Cutting the area of the writer at the length it stored gives back what it was given.
LEMMA CutExact ==
    ASSUME NEW p \in Payloads, PayloadLen[p] <= PayloadSize, NEW d,
           d = p \/ PayloadLen[p] = 0
    PROVE  Cut(d, PayloadLen[p]) = p
  BY DEF Cut, MinOf

\* A frozen step preserves DataInv.
LEMMA DataFrozen ==
    ASSUME TypeInv, DataInv, Frozen
    PROVE  DataInv'
<1>0. done \subseteq Slots /\ \A t \in Threads : Holding(t) => slot[t] \in Slots
  BY DEF TypeInv, TypeOK, Ranges, HasSlot
<1>1. \A s \in Slots : /\ Labelled(rec[s], s) => Labelled(rec[s], s)'
                       /\ Whole(rec[s], s) => Whole(rec[s], s)'
                       /\ Sealed(s) => Sealed(s)'
  BY DEF Frozen, SameData, Labelled, Whole, Sealed, Summed, Sum
<1>2. \A t \in Threads : pc'[t] \in {"payload", "crc", "commit"} =>
         pc'[t] = pc[t] /\ slot'[t] = slot[t] /\ slot[t] \in Slots
  BY <1>0 DEF Frozen, Holding
<1>3. \A t \in Threads : pc'[t] \in {"payload", "crc", "commit"} /\ slot'[t] \notin corrupt' =>
         Labelled(rec[slot[t]], slot[t])'
  BY <1>1, <1>2 DEF DataInv, Frozen
<1>4. \A t \in Threads : pc'[t] \in {"crc", "commit"} /\ slot'[t] \notin corrupt' =>
         Whole(rec[slot[t]], slot[t])'
  BY <1>1, <1>2 DEF DataInv, Frozen
<1>5. \A t \in Threads : pc'[t] = "commit" => Sealed(slot[t])'
  BY <1>1, <1>2 DEF DataInv
<1>6. \A s \in done' : Sealed(s)'
  BY <1>0, <1>1 DEF DataInv, Frozen
<1>7. \A t \in Threads : pc'[t] \in {"read_payload", "read_verify"} =>
         Loaded(got[t], cursor[t] - 1)'
  BY DEF DataInv, Frozen, Loaded, NamesWriter, Summed, Sum
<1> QED
  BY <1>3, <1>4, <1>5, <1>6, <1>7 DEF DataInv, Frozen

\* A claim preserves DataInv: nobody has anything to do with the slot at reserve_tail.
LEMMA DataClaim ==
    ASSUME LogInv, DataInv, NEW t \in Threads, NEW term \in Terms, NEW data \in Payloads,
           Claim(t, term, data)
    PROVE  DataInv'
<1> DEFINE e == [term |-> term, data |-> data, writer |-> HostOf[t]]
<1> USE DEF LogInv, SlotsInv
<1>0. /\ reserve_tail \in Slots /\ reserve_tail \in Nat /\ committed_tail \in 0 .. Capacity
      /\ done \subseteq Slots
  BY DEF Claim, TypeInv, TypeOK, Slots
<1>1. /\ UNCHANGED <<rec, done, corrupt, got, cursor>>
      /\ pc' = [pc EXCEPT ![t] = "mark"]
      /\ slot' = [slot EXCEPT ![t] = reserve_tail]
      /\ arg' = [arg EXCEPT ![t] = e]
  BY DEF Claim, Goto
<1>2. entry' = [entry EXCEPT ![reserve_tail] = e]
  BY <1>1 DEF Claim, TypeInv, TypeOK
<1>3. \A s \in Slots : s # reserve_tail => entry'[s] = entry[s]
  BY <1>2 DEF TypeInv, TypeOK
<1>4. \A s \in done : s # reserve_tail
  BY <1>0 DEF SlotInv
<1>5. \A u \in Threads : Holding(u) => slot[u] \in Slots /\ slot[u] # reserve_tail
  BY <1>0 DEF SlotInv, HasSlot, TypeInv, Ranges
<1>6. \A u \in Threads : pc[u] \in {"read_payload", "read_verify"} =>
         cursor[u] - 1 \in Slots /\ cursor[u] - 1 # reserve_tail
  <2> SUFFICES ASSUME NEW u \in Threads, pc[u] \in {"read_payload", "read_verify"}
               PROVE  cursor[u] - 1 \in Slots /\ cursor[u] - 1 # reserve_tail
    OBVIOUS
  <2>1. cursor[u] \in 1 .. committed_tail
    BY DEF TypeInv, Ranges
  <2>2. cursor[u] - 1 \in Slots /\ cursor[u] - 1 < committed_tail
    BY <1>0, <2>1 DEF Slots
  <2> QED
    BY <1>4, <2>2 DEF TailInv
<1>7. \A u \in Threads \ {t} : pc'[u] = pc[u] /\ slot'[u] = slot[u] /\ arg'[u] = arg[u]
  BY <1>1 DEF TypeInv, TypeOK
<1>8. pc'[t] = "mark" /\ slot'[t] = reserve_tail /\ arg'[t] = e /\ entry'[reserve_tail] = e
  BY <1>0, <1>1, <1>2 DEF TypeInv, TypeOK
<1>9. \A u \in Threads : Holding(u)' =>
         entry'[slot'[u]] = arg'[u] /\ arg'[u].writer = HostOf[u] /\ PayloadLen[arg'[u].data] <= PayloadSize
  <2>1. \A u \in Threads \ {t} : Holding(u)' => Holding(u)
    BY <1>7 DEF Holding
  <2>2. \A u \in Threads \ {t} : Holding(u) => entry'[slot[u]] = entry[slot[u]]
    BY <1>3, <1>5
  <2>3. PayloadLen[data] <= PayloadSize
    BY DEF Claim
  <2> QED
    BY <1>7, <1>8, <2>1, <2>2, <2>3 DEF DataInv
<1>10. \A s \in Slots : s # reserve_tail =>
          /\ Labelled(rec[s], s) => Labelled(rec[s], s)'
          /\ Whole(rec[s], s) => Whole(rec[s], s)'
          /\ Sealed(s) => Sealed(s)'
  BY <1>1, <1>3 DEF Labelled, Whole, Sealed, Summed, Sum
<1>11. \A u \in Threads : pc'[u] \in {"payload", "crc", "commit"} =>
          u # t /\ pc'[u] = pc[u] /\ slot'[u] = slot[u] /\ Holding(u)
  BY <1>7, <1>8 DEF Holding
<1>12. \A u \in Threads : pc'[u] \in {"payload", "crc", "commit"} /\ slot'[u] \notin corrupt' =>
          Labelled(rec[slot[u]], slot[u])'
  BY <1>1, <1>5, <1>10, <1>11 DEF DataInv
<1>13. \A u \in Threads : pc'[u] \in {"crc", "commit"} /\ slot'[u] \notin corrupt' =>
          Whole(rec[slot[u]], slot[u])'
  BY <1>1, <1>5, <1>10, <1>11 DEF DataInv
<1>14. \A u \in Threads : pc'[u] = "commit" => Sealed(slot[u])'
  BY <1>5, <1>10, <1>11 DEF DataInv
<1>15. \A s \in done' : Sealed(s)'
  BY <1>0, <1>1, <1>4, <1>10 DEF DataInv
<1>16. \A u \in Threads : pc'[u] \in {"read_payload", "read_verify"} =>
          Loaded(got[u], cursor[u] - 1)'
  <2> SUFFICES ASSUME NEW u \in Threads, pc'[u] \in {"read_payload", "read_verify"}
               PROVE  Loaded(got[u], cursor[u] - 1)'
    OBVIOUS
  <2>1. pc[u] \in {"read_payload", "read_verify"}
    BY <1>7, <1>8
  <2>2. entry'[cursor[u] - 1] = entry[cursor[u] - 1]
    BY <1>3, <1>6, <2>1
  <2> QED
    BY <1>1, <2>1, <2>2 DEF DataInv, Loaded, NamesWriter, Summed, Sum
<1> QED
  BY <1>9, <1>12, <1>13, <1>14, <1>15, <1>16 DEF DataInv

\* A store of an append into its own record preserves DataInv, if the record is as far as
\* the pc of the append says.
LEMMA DataOwnStore ==
    ASSUME LogInv, DataInv, NEW t \in Threads, Holding(t), NEW x \in Slots, slot[t] = x,
           NEW l \in {"payload", "crc", "commit", "load"}, pc' = [pc EXCEPT ![t] = l],
           UNCHANGED <<entry, slot, arg, got, cursor, corrupt>>,
           done' = IF l = "load" THEN done \cup {x} ELSE done,
           \A s \in Slots \ {x} : rec'[s] = rec[s],
           l \in {"payload", "crc", "commit"} /\ x \notin corrupt => Labelled(rec[x], x)',
           l \in {"crc", "commit"} /\ x \notin corrupt => Whole(rec[x], x)',
           l \in {"commit", "load"} => Sealed(x)'
    PROVE  DataInv'
<1> USE DEF LogInv, SlotsInv
<1>0. done \subseteq Slots /\ \A u \in Threads : Holding(u) => slot[u] \in Slots
  BY DEF TypeInv, TypeOK, Ranges, HasSlot
<1>1. x \notin done /\ \A u \in Threads \ {t} : Holding(u) => slot[u] # x
  BY DEF SlotInv, SlotExclusive
<1>2. pc'[t] = l /\ \A u \in Threads \ {t} : pc'[u] = pc[u]
  BY DEF TypeInv, TypeOK
<1>3. \A s \in Slots \ {x} :
         /\ Labelled(rec[s], s) => Labelled(rec[s], s)'
         /\ Whole(rec[s], s) => Whole(rec[s], s)'
         /\ Sealed(s) => Sealed(s)'
  BY DEF Labelled, Whole, Sealed, Summed, Sum
<1>4. \A u \in Threads \ {t} : pc'[u] \in {"payload", "crc", "commit"} =>
         pc'[u] = pc[u] /\ slot[u] \in Slots \ {x}
  BY <1>0, <1>1, <1>2 DEF Holding
<1>5. \A u \in Threads : pc'[u] \in {"payload", "crc", "commit"} /\ slot'[u] \notin corrupt' =>
         Labelled(rec[slot[u]], slot[u])'
  BY <1>2, <1>3, <1>4 DEF DataInv
<1>6. \A u \in Threads : pc'[u] \in {"crc", "commit"} /\ slot'[u] \notin corrupt' =>
         Whole(rec[slot[u]], slot[u])'
  BY <1>2, <1>3, <1>4 DEF DataInv
<1>7. \A u \in Threads : pc'[u] = "commit" => Sealed(slot[u])'
  BY <1>2, <1>3, <1>4 DEF DataInv
<1>8. \A s \in done' : Sealed(s)'
  BY <1>0, <1>1, <1>3 DEF DataInv
<1>9. \A u \in Threads : Holding(u)' => Holding(u)
  BY <1>2 DEF Holding
<1>10. \A u \in Threads : pc'[u] \in {"read_payload", "read_verify"} =>
          Loaded(got[u], cursor[u] - 1)'
  BY <1>2 DEF DataInv, Loaded, NamesWriter, Summed, Sum
<1> QED
  BY <1>5, <1>6, <1>7, <1>8, <1>9, <1>10 DEF DataInv

\* The stores of append preserve DataInv.
LEMMA DataAppend ==
    ASSUME LogInv, DataInv, NEW t \in Threads,
           WriteFields(t) \/ WritePayload(t) \/ WriteCrc(t) \/ Commit(t)
    PROVE  DataInv'
<1> USE DEF LogInv, SlotsInv
<1>0. /\ Holding(t) /\ slot[t] \in Slots /\ rec[slot[t]] \in Records /\ rec \in [Slots -> Records]
      /\ arg[t].data \in Payloads
  BY DEF WriteFields, WritePayload, WriteCrc, Commit, Holding, HasSlot, TypeInv, TypeOK, Ranges, Entries
<1> DEFINE x == slot[t]
<1>1. entry[x] = arg[t] /\ arg[t].writer = HostOf[t] /\ PayloadLen[arg[t].data] <= PayloadSize
  BY <1>0 DEF DataInv
<1>2. UNCHANGED <<entry, slot, arg, got, cursor, corrupt>>
  BY DEF WriteFields, WritePayload, WriteCrc, Commit, locals, history
<1>3. ~ Commit(t) => /\ \A s \in Slots \ {x} : rec'[s] = rec[s]
                     /\ done' = done
  BY WriteFacts DEF WriteFields, WritePayload, WriteCrc, history
<1>4. CASE WriteFields(t)
  <2>1. pc' = [pc EXCEPT ![t] = "payload"]
    BY <1>4 DEF WriteFields, Goto
  <2>2. ~ Commit(t)
    BY <1>4 DEF WriteFields, Commit
  <2>3. Labelled(rec[x], x)'
    BY <1>0, <1>1, <1>2, <1>4, WriteFacts DEF Labelled
  <2> QED
    BY <1>0, <1>2, <1>3, <2>1, <2>2, <2>3, DataOwnStore
<1>5. CASE WritePayload(t)
  <2>1. pc' = [pc EXCEPT ![t] = "crc"] /\ pc[t] = "payload"
    BY <1>5 DEF WritePayload, Goto
  <2>2. ~ Commit(t) /\ ~ WriteFields(t)
    BY <1>5 DEF WritePayload, Commit, WriteFields
  <2>3. x \notin corrupt => Labelled(rec[x], x)
    BY <2>1 DEF DataInv
  <2>4. x \notin corrupt => Labelled(rec[x], x)'
    BY <1>2, <1>5, <2>2, <2>3, WriteFacts DEF Labelled
  <2>5. x \notin corrupt => rec'[x].len = PayloadLen[arg[t].data] /\ (rec'[x].data = arg[t].data \/ PayloadLen[arg[t].data] = 0)
    BY <1>1, <1>2, <1>5, <2>4, WriteFacts DEF Labelled
  <2>6. x \notin corrupt => Cut(rec'[x].data, rec'[x].len) = arg[t].data
    BY <1>0, <1>1, <2>5, CutExact
  <2>7. x \notin corrupt => Whole(rec[x], x)'
    BY <1>1, <1>2, <2>6 DEF Whole
  <2> QED
    BY <1>0, <1>2, <1>3, <2>1, <2>2, <2>4, <2>7, DataOwnStore
<1>6. CASE WriteCrc(t)
  <2>1. pc' = [pc EXCEPT ![t] = "commit"] /\ pc[t] = "crc"
    BY <1>6 DEF WriteCrc, Goto
  <2>2. ~ Commit(t) /\ ~ WriteFields(t) /\ ~ WritePayload(t)
    BY <1>6 DEF WriteCrc, Commit, WriteFields, WritePayload
  <2>3. x \notin corrupt => Labelled(rec[x], x) /\ Whole(rec[x], x)
    BY <2>1 DEF DataInv
  <2>4. x \notin corrupt => Labelled(rec[x], x)'
    BY <1>2, <1>6, <2>2, <2>3, WriteFacts DEF Labelled
  <2>5. x \notin corrupt => Whole(rec[x], x)'
    BY <1>2, <1>6, <2>2, <2>3, WriteFacts DEF Whole
  <2>6. rec'[x].crc = Sum(x)'
    BY <1>1, <1>2, <1>6, WriteFacts DEF Sum
  <2>7. Sealed(x)'
    BY <1>2, <2>4, <2>5, <2>6 DEF Sealed, Summed
  <2> QED
    BY <1>0, <1>2, <1>3, <2>1, <2>2, <2>4, <2>5, <2>7, DataOwnStore
<1>7. CASE Commit(t)
  <2>1. pc' = [pc EXCEPT ![t] = "load"] /\ pc[t] = "commit" /\ done' = done \cup {x}
    BY <1>7 DEF Commit, Goto
  <2>2. Sealed(x)
    BY <2>1 DEF DataInv
  <2>3. SetState(x, "COMMITTED") /\ "COMMITTED" \in States
    BY <1>7 DEF Commit, States
  <2>4. SameData(rec'[x], rec[x]) /\ \A s \in Slots \ {x} : rec'[s] = rec[s]
    BY <1>0, <2>3, SetStateFacts DEF SameData
  <2>5. Sealed(x)'
    BY <1>2, <2>2, <2>4 DEF Sealed, Labelled, Whole, Summed, Sum, SameData
  <2> QED
    BY <1>0, <1>2, <2>1, <2>4, <2>5, DataOwnStore
<1> QED
  BY <1>4, <1>5, <1>6, <1>7

\* The loads of a read preserve DataInv: a slot below the tail is sealed.
LEMMA DataRead ==
    ASSUME LogInv, DataInv, NEW t \in Threads, ReadFields(t) \/ ReadPayload(t)
    PROVE  DataInv'
<1> USE DEF LogInv, SlotsInv
<1> DEFINE s == cursor[t] - 1
<1>0. committed_tail \in 0 .. Capacity /\ cursor[t] \in 1 .. committed_tail
  BY DEF ReadFields, ReadPayload, TypeInv, TypeOK, Ranges
<1>1. s \in Slots /\ s < committed_tail
  BY <1>0 DEF Slots
<1>2. Sealed(s) /\ rec[s] \in Records /\ got[t] \in Records
  BY <1>1 DEF TailInv, DataInv, TypeInv, TypeOK
<1>3. UNCHANGED <<rec, entry, done, corrupt, slot, arg, cursor>>
  BY DEF ReadFields, ReadPayload, pool, history
<1>4. \A u \in Threads \ {t} : got'[u] = got[u] /\ pc'[u] = pc[u]
  BY DEF ReadFields, ReadPayload, Goto, TypeInv, TypeOK
<1>5. pc'[t] \in {"read_payload", "read_verify"}
  BY DEF ReadFields, ReadPayload, Goto, TypeInv, TypeOK
<1>6. Loaded(got'[t], s)
  <2>1. CASE ReadFields(t)
    <3>1. got'[t] = [rec[s] EXCEPT !.state = "FREE", !.data = Empty]
      BY <2>1 DEF ReadFields, TypeInv, TypeOK
    <3> QED
      BY <1>2, <3>1 DEF Sealed, Labelled, Loaded, NamesWriter, Summed, Records
  <2>2. CASE ReadPayload(t)
    <3>1. got'[t] = [got[t] EXCEPT !.data = Cut(rec[s].data, got[t].len)]
      BY <2>2 DEF ReadPayload, TypeInv, TypeOK
    <3>2. Loaded(got[t], s)
      BY <2>2 DEF ReadPayload, DataInv
    <3> QED
      BY <1>2, <3>1, <3>2 DEF Loaded, NamesWriter, Summed, Records
  <2> QED
    BY <2>1, <2>2
<1>7. \A u \in Threads : pc'[u] \in {"payload", "crc", "commit"} => pc'[u] = pc[u]
  BY <1>4, <1>5
<1>8. \A u \in Threads : Holding(u)' => Holding(u)
  BY <1>4, <1>5 DEF Holding
<1>9. \A u \in Threads : pc'[u] \in {"read_payload", "read_verify"} =>
         Loaded(got[u], cursor[u] - 1)'
  BY <1>3, <1>4, <1>6 DEF DataInv, Loaded, NamesWriter, Summed, Sum
<1> QED
  BY <1>3, <1>7, <1>8, <1>9 DEF DataInv, Labelled, Whole, Sealed, Summed, Sum

\* A media fault preserves DataInv: it leaves a checksum alone or verifying for nothing,
\* and what it does to the other fields of the record is said of no slot that is corrupt.
LEMMA DataFault ==
    ASSUME LogInv, DataInv, NEW s \in Slots, MediaFault(s)
    PROVE  DataInv'
<1> USE DEF LogInv, SlotsInv
<1>0. rec \in [Slots -> Records] /\ done \subseteq Slots
  BY DEF TypeInv, TypeOK
<1>1. UNCHANGED <<entry, done, pc, slot, arg, got, cursor>> /\ corrupt' = corrupt \cup {s}
  BY DEF MediaFault, locals
<1>3. /\ \A r \in Slots \ {s} : rec'[r] = rec[r]
      /\ rec'[s].crc \in {rec[s].crc, BadCrc}
  BY <1>0, FaultFacts
<1>5. \A r \in Slots : r \notin corrupt' /\ Labelled(rec[r], r) => Labelled(rec[r], r)'
  BY <1>1, <1>3 DEF Labelled
<1>6. \A r \in Slots : Summed(rec[r], r) => Summed(rec[r], r)'
  BY <1>1, <1>3 DEF Summed, Sum
<1>7. \A r \in Slots : r \notin corrupt' /\ Whole(rec[r], r) => Whole(rec[r], r)'
  BY <1>1, <1>3 DEF Whole
<1>8. \A r \in Slots : Sealed(r) => Sealed(r)'
  BY <1>1, <1>3, <1>5, <1>6, <1>7 DEF Sealed, Sum
<1>9. \A u \in Threads : Holding(u)' <=> Holding(u)
  BY <1>1 DEF Holding
<1>10. \A u \in Threads : pc[u] \in {"payload", "crc", "commit"} => slot[u] \in Slots
  BY DEF Holding, HasSlot, TypeInv, Ranges
<1>11. \A u \in Threads : pc'[u] \in {"payload", "crc", "commit"} /\ slot'[u] \notin corrupt' =>
         Labelled(rec[slot[u]], slot[u])'
  BY <1>1, <1>5, <1>10 DEF DataInv
<1>12. \A u \in Threads : pc'[u] \in {"crc", "commit"} /\ slot'[u] \notin corrupt' =>
          Whole(rec[slot[u]], slot[u])'
  BY <1>1, <1>7, <1>10 DEF DataInv
<1>13. \A u \in Threads : pc'[u] = "commit" => Sealed(slot[u])'
  BY <1>1, <1>8, <1>10 DEF DataInv
<1>14. \A r \in done' : Sealed(r)'
  BY <1>0, <1>1, <1>8 DEF DataInv
<1>15. \A u \in Threads : pc'[u] \in {"read_payload", "read_verify"} =>
          Loaded(got[u], cursor[u] - 1)'
  BY <1>1 DEF DataInv, Loaded, NamesWriter, Summed, Sum
<1> QED
  BY <1>1, <1>9, <1>11, <1>12, <1>13, <1>14, <1>15 DEF DataInv

\* LogInv and DataInv hold in every reachable state.
LEMMA DataInvariant == Spec => [](LogInv /\ DataInv)
<1>1. Init => DataInv
  BY DEF Init, DataInv, Holding
<1>2. LogInv /\ DataInv /\ [Next]_vars => DataInv'
  BY FrozenSteps, DataFrozen, DataClaim, DataAppend, DataRead, DataFault DEF LogInv, SlotsInv
<1> QED
  BY <1>1, <1>2, LogInvariant, PTL DEF Spec

-----------------------------------------------------------------------------
\* A COMMITTED record that no media fault hit is complete and verifies, at every moment of
\* every interleaving, crash and recovery: append stores COMMITTED last, and nobody stores
\* into a slot that is done but for its state.
THEOREM CommittedRecordsAreIntact == Spec => []CommittedIntact
<1>1. LogInv /\ DataInv => CommittedIntact
  <2> SUFFICES ASSUME LogInv, DataInv, NEW s \in Slots, rec[s].state = "COMMITTED", s \notin corrupt
               PROVE  Holds(rec[s], s) /\ NamesWriter(rec[s], s) /\ Verify(rec[s])
    BY DEF CommittedIntact
  <2>1. Sealed(s)
    BY DEF LogInv, TailInv, DataInv
  <2> QED
    BY <2>1 DEF Sealed, Labelled, Whole, Sum, Holds, NamesWriter, Verify
<1> QED
  BY <1>1, DataInvariant, PTL

\* A record that read returns has the term, the index and the payload that were appended at
\* its index, whatever trim, recover, a crash or a media fault in any field do before and
\* between its loads: a checksum is the appender's or verifies for nothing.  It names the
\* appender, too, unless a fault hit the slot.
THEOREM ReadsAreSound == Spec => []ReadSound
<1>1. LogInv /\ DataInv => ReadSound
  <2> SUFFICES ASSUME LogInv, DataInv, NEW t \in Threads, pc[t] = "read_verify", Verify(got[t]),
                      NEW s, s = cursor[t] - 1
               PROVE  Holds(got[t], s) /\ (NamesWriter(got[t], s) \/ s \in corrupt)
    BY DEF ReadSound
  <2> DEFINE g == got[t]
  <2>1. Loaded(g, s)
    BY DEF DataInv
  <2>2. g.index \in Nat
    BY DEF LogInv, SlotsInv, TypeInv, TypeOK, Records
  <2>3. g.crc = Compute(g.term, g.index, Cut(g.data, g.len))
    BY DEF Verify
  <2>4. g.crc # BadCrc
    BY <2>2, <2>3 DEF BadCrc, Compute
  <2>5. g.crc = Compute(entry[s].term, s + 1, entry[s].data)
    BY <2>1, <2>4 DEF Loaded, Summed, Sum
  <2>6. g.term = entry[s].term /\ g.index = s + 1 /\ Cut(g.data, g.len) = entry[s].data
    BY <2>3, <2>5 DEF Compute
  <2> QED
    BY <2>1, <2>6 DEF Loaded, Holds
<1> QED
  BY <1>1, DataInvariant, PTL

-----------------------------------------------------------------------------
(***************************************************************************)
(* The counters.  An append that commits will count one, and at most       *)
(* PayloadSize bytes, once each: what the counters of all the hosts add up *)
(* to is bounded by what was committed less what is still to be counted,   *)
(* and what was acknowledged is counted.  A crash only loses counts.       *)
(***************************************************************************)

\* An append that has committed its record and not returned yet.
Finishing(t) == HasSlot(t) /\ ~ Holding(t)

\* Those that have counted neither, and those that have yet to count their bytes only.
Finishers == {t \in Threads : Finishing(t)}
Returning == {t \in Threads : pc[t] = "count_bytes"}
Counting  == Finishers \ Returning

\* Nobody's slot is another's, nor acknowledged, and the entry is what was passed.
OwnInv ==
    /\ \A t, u \in Threads : HasSlot(t) /\ HasSlot(u) /\ slot[t] = slot[u] => t = u
    /\ \A t \in Threads : HasSlot(t) =>
          slot[t] \notin acked /\ entry[slot[t]] = arg[t] /\ PayloadLen[arg[t].data] <= PayloadSize

AppendsInv ==
    /\ Total("appends_total") + Cardinality(Counting) <= Cardinality(done)
    /\ Cardinality(acked) + Cardinality(Returning) <= Total("appends_total")

BytesInv ==
    /\ Total("bytes_written") + Cardinality(Finishers) * PayloadSize <= Cardinality(done) * PayloadSize
    /\ AckedBytes <= Total("bytes_written")

\* A step that claims, commits and acknowledges nothing.
Steady ==
    /\ UNCHANGED <<entry, done, acked>>
    /\ \A t \in Threads : HasSlot(t)' =>
          HasSlot(t) /\ slot'[t] = slot[t] /\ arg'[t] = arg[t] /\ (Holding(t)' <=> Holding(t))

\* A step that counts neither an append nor bytes.
Uncounted ==
    /\ \A h \in Hosts : \A c \in {"appends_total", "bytes_written"} : metrics'[h][c] = metrics[h][c]
    /\ \A t \in Threads : HasSlot(t)' => (pc'[t] = "count_bytes" <=> pc[t] = "count_bytes")

\* Every step is steady but a claim, a commit and the return of Ok.
LEMMA SteadySteps ==
    ASSUME TypeInv, [Next]_vars
    PROVE  \/ Steady
           \/ \E t \in Threads :
                \/ \E term \in Terms, data \in Payloads : Claim(t, term, data)
                \/ Commit(t) \/ CountBytes(t)
<1>1. ASSUME Calm PROVE Steady
  BY <1>1 DEF Calm, Steady
<1>2. ASSUME NEW t \in Threads, NEW data \in Payloads, ClaimFull(t, data) PROVE Steady
  BY <1>2 DEF ClaimFull, Goto, history, TypeInv, TypeOK, Steady, HasSlot, Holding
<1>3. ASSUME NEW t \in Threads, Undo(t) PROVE Steady
  BY <1>3 DEF Undo, Goto, locals, history, TypeInv, TypeOK, Steady, HasSlot, Holding
<1> QED
  BY <1>1, <1>2, <1>3, CalmSteps

\* Every step but the two that count is uncounted.
LEMMA UncountedSteps ==
    ASSUME TypeInv, [Next]_vars
    PROVE  Uncounted \/ \E t \in Threads : CountAppend(t) \/ CountBytes(t)
<1> USE DEF TypeInv
<1>1. ASSUME NEW t \in Threads, pc[t] # "count_bytes",
             NEW l, l # "count_bytes", pc' = [pc EXCEPT ![t] = l],
             \/ UNCHANGED metrics
             \/ \E c \in Counters \ {"appends_total", "bytes_written"} : \E n : Increment(t, c, n)
      PROVE  Uncounted
  <2>1. \A h \in Hosts : \A c \in {"appends_total", "bytes_written"} : metrics'[h][c] = metrics[h][c]
    BY <1>1 DEF Increment, TypeOK, Counters
  <2>2. \A u \in Threads : pc'[u] = "count_bytes" <=> pc[u] = "count_bytes"
    BY <1>1 DEF TypeOK
  <2> QED
    BY <2>1, <2>2 DEF Uncounted
<1>2. ASSUME NEW t \in Threads, Start(t) PROVE Uncounted
  <2>1. ASSUME UNCHANGED <<pool, pc>> PROVE Uncounted
    BY <2>1 DEF pool, Uncounted
  <2>2. pc[t] = "idle"
    BY <1>2 DEF Start, AppendTooLarge, ClaimFull, Claim, CallRecover, TrimBeyond, CallTrim, CallRead, Call
  <2>3. ASSUME NEW data \in Payloads, ClaimFull(t, data) PROVE Uncounted
    BY <1>1, <2>2, <2>3 DEF ClaimFull, Goto
  <2>4. ASSUME NEW term \in Terms, NEW data \in Payloads, Claim(t, term, data) PROVE Uncounted
    BY <1>1, <2>2, <2>4 DEF Claim, Goto
  <2>5. CASE CallRecover(t)
    BY <1>1, <2>2, <2>5 DEF CallRecover, Goto, pool
  <2>6. ASSUME NEW upTo, CallTrim(t, upTo) PROVE Uncounted
    BY <1>1, <2>2, <2>6 DEF CallTrim, Goto, pool
  <2>7. ASSUME NEW first, NEW last, CallRead(t, first, last) PROVE Uncounted
    BY <1>1, <2>2, <2>7 DEF CallRead, Goto, pool
  <2> QED
    BY <1>2, <2>1, <2>3, <2>4, <2>5, <2>6, <2>7 DEF Start, AppendTooLarge, TrimBeyond
<1>3. ASSUME NEW t \in Threads, Append(t) PROVE Uncounted \/ CountAppend(t) \/ CountBytes(t)
  <2>1. CASE Undo(t) \/ MarkWriting(t) \/ WriteFields(t) \/ WritePayload(t) \/ WriteCrc(t) \/ Commit(t)
    <3>1. pc[t] # "count_bytes" /\ UNCHANGED metrics
      BY <2>1 DEF Undo, MarkWriting, WriteFields, WritePayload, WriteCrc, Commit
    <3>2. \E l \in {"count_failed", "fields", "payload", "crc", "commit", "load"} : pc' = [pc EXCEPT ![t] = l]
      BY <2>1 DEF Undo, MarkWriting, WriteFields, WritePayload, WriteCrc, Commit, Goto
    <3> QED
      BY <1>1, <3>1, <3>2
  <2>2. CASE CountFailed(t)
    <3>1. pc[t] # "count_bytes" /\ pc' = [pc EXCEPT ![t] = "idle"] /\ Increment(t, "appends_failed", 1)
      BY <2>2 DEF CountFailed, Return, Goto
    <3> QED
      BY <1>1, <3>1 DEF Counters
  <2> QED
    BY <1>3, <2>1, <2>2 DEF Append
<1>4. ASSUME NEW t \in Threads, Advance(t) PROVE Uncounted
  <2>1. pc[t] # "count_bytes" /\ UNCHANGED metrics
    BY <1>4 DEF Advance, LoadTail, ScanOn, ScanStop, Cas, pool
  <2>2. \E l \in {"scan", "cas", "load", "count_append", "count_run"} : pc' = [pc EXCEPT ![t] = l]
    BY <1>4 DEF Advance, LoadTail, ScanOn, ScanStop, Cas, AfterAdvance, Goto, TypeOK
  <2> QED
    BY <1>1, <2>1, <2>2
<1>5. ASSUME NEW t \in Threads, Recover(t) PROVE Uncounted
  <2>1. CASE Inspect(t) \/ Check(t) \/ Abandon(t) \/ RecoverPhase2(t)
    <3>1. pc[t] # "count_bytes" /\ UNCHANGED metrics
      BY <2>1 DEF Inspect, Check, Abandon, RecoverPhase2, pool
    <3>2. \E l \in {"inspect", "check", "abandon", "load"} : pc' = [pc EXCEPT ![t] = l]
      BY <2>1 DEF Inspect, Check, Abandon, RecoverPhase2, Goto, TypeOK
    <3> QED
      BY <1>1, <3>1, <3>2
  <2>2. CASE CountRun(t) \/ CountAbandoned(t)
    <3>1. pc[t] # "count_bytes" /\ \E c \in {"recovery_runs", "abandoned_found"} : \E n : Increment(t, c, n)
      BY <2>2 DEF CountRun, CountAbandoned
    <3>2. \E l \in {"idle", "count_abandoned"} : pc' = [pc EXCEPT ![t] = l]
      BY <2>2 DEF CountRun, CountAbandoned, Return, Goto
    <3> QED
      BY <1>1, <3>1, <3>2 DEF Counters
  <2> QED
    BY <1>5, <2>1, <2>2 DEF Recover
<1>6. ASSUME NEW t \in Threads, Trim(t) PROVE Uncounted
  <2>1. pc[t] # "count_bytes" /\ UNCHANGED metrics
    BY <1>6 DEF Trim, TrimInspect, TrimStore, TrimReturn, pool
  <2>2. \E l \in {"idle", "trim", "trim_store"} : pc' = [pc EXCEPT ![t] = l]
    BY <1>6 DEF Trim, TrimInspect, TrimStore, TrimReturn, Return, Goto, TypeOK
  <2> QED
    BY <1>1, <2>1, <2>2
<1>7. ASSUME NEW t \in Threads, Read(t) PROVE Uncounted
  <2>1. \E l \in {"idle", "read", "read_state", "read_fields", "read_payload", "read_verify"} :
           pc' = [pc EXCEPT ![t] = l]
    BY <1>7 DEF Read, ReadReturn, ReadTail, ReadState, ReadFields, ReadPayload, ReadOk, ReadMismatch, Return, Goto
  <2>2. pc[t] # "count_bytes"
    BY <1>7 DEF Read, ReadReturn, ReadTail, ReadState, ReadFields, ReadPayload, ReadOk, ReadMismatch
  <2>3. UNCHANGED metrics \/ \E c \in {"reads_total", "checksum_failures"} : \E n : Increment(t, c, n)
    BY <1>7 DEF Read, ReadReturn, ReadTail, ReadState, ReadFields, ReadPayload, ReadOk, ReadMismatch, pool
  <2> QED
    BY <1>1, <2>1, <2>2, <2>3 DEF Counters
<1>8. ASSUME NEW h \in Hosts, Crash(h) PROVE Uncounted
  <2>1. UNCHANGED metrics
    BY <1>8 DEF Crash, pool
  <2>2. \A t \in Threads : pc'[t] = "down" \/ pc'[t] = pc[t]
    BY <1>8 DEF Crash
  <2> QED
    BY <2>1, <2>2 DEF Uncounted, HasSlot, Holding
<1>9. ASSUME NEW h \in Hosts, Restart(h) PROVE Uncounted
  <2>1. UNCHANGED metrics
    BY <1>9 DEF Restart, pool
  <2>2. \A t \in Threads : (pc[t] = "down" /\ pc'[t] = "idle") \/ pc'[t] = pc[t]
    BY <1>9 DEF Restart
  <2> QED
    BY <2>1, <2>2 DEF Uncounted
<1>10. ASSUME NEW s \in Slots, MediaFault(s) PROVE Uncounted
  BY <1>10 DEF MediaFault, Uncounted
<1>11. ASSUME UNCHANGED vars PROVE Uncounted
  BY <1>11 DEF vars, pool, Uncounted
<1> QED
  BY <1>2, <1>3, <1>4, <1>5, <1>6, <1>7, <1>8, <1>9, <1>10, <1>11 DEF Next, Step, Rest

\* A total is a natural ...
LEMMA TotalNat ==
    ASSUME TypeOK, NEW c \in Counters
    PROVE  Total(c) \in Nat
<1> DEFINE f == [i \in Hosts |-> metrics[i][c]]
<1>1. \A i \in Hosts : f[i] \in Nat
  BY DEF TypeOK
<1>2. SumFunctionOnSet(f, Hosts) \in Nat
  BY <1>1, SumNat
<1> QED
  BY <1>2 DEF Total

\* ... and no host's counter is beyond it.
LEMMA TotalCovers ==
    ASSUME TypeOK, NEW c \in Counters, NEW h \in Hosts
    PROVE  metrics[h][c] \in Nat /\ metrics[h][c] <= Total(c)
<1> DEFINE f == [i \in Hosts |-> metrics[i][c]]
<1>1. \A i \in Hosts : f[i] \in Nat
  BY DEF TypeOK
<1>2. f[h] <= SumFunctionOnSet(f, Hosts)
  BY <1>1, SumCovers
<1> QED
  BY <1>1, <1>2 DEF Total

\* A counter that does not wrap adds to its total ...
LEMMA TotalCounts ==
    ASSUME TypeOK, NEW t \in Threads, NEW c \in Counters, NEW n \in Nat, Increment(t, c, n),
           Total(c) + n < U64
    PROVE  Total(c)' = Total(c) + n
<1>1. PICK h \in Hosts : h = HostOf[t]
  OBVIOUS
<1>2. PICK f : f = [i \in Hosts |-> metrics[i][c]]
  OBVIOUS
<1>3. PICK g : g = [i \in Hosts |-> metrics'[i][c]]
  OBVIOUS
<1>4. Total(c) = SumFunctionOnSet(f, Hosts) /\ Total(c)' = SumFunctionOnSet(g, Hosts)
  BY <1>2, <1>3 DEF Total
<1>5. f[h] \in Nat /\ f[h] <= Total(c) /\ Total(c) \in Nat
  BY <1>2, TotalCovers, TotalNat
<1>6. f[h] + n < U64
  BY <1>5
<1>7. g[h] = f[h] + n
  BY <1>1, <1>2, <1>3, <1>6 DEF Increment, TypeOK, WrappingAdd
<1>8. \A i \in Hosts \ {h} : g[i] = f[i]
  BY <1>1, <1>2, <1>3 DEF Increment, TypeOK
<1>9. \A i \in Hosts : f[i] \in Nat
  BY <1>2 DEF TypeOK
<1>10. \A i \in Hosts : f[i] \in Nat /\ g[i] \in Nat
  BY <1>5, <1>7, <1>8, <1>9
<1>11. SumFunctionOnSet(g, Hosts) + f[h] = SumFunctionOnSet(f, Hosts) + g[h]
  <2>1. IsFiniteSet(Hosts)
    OBVIOUS
  <2> HIDE CapacityAssumption, PayloadAssumption, ThreadAssumption, OpsAssumption, BoundAssumption
  <2> QED
    BY <1>8, <1>10, <2>1, SumUpdate
<1>12. SumFunctionOnSet(g, Hosts) \in Nat
  BY <1>10, SumNat
<1> QED
  BY <1>4, <1>5, <1>7, <1>11, <1>12

\* ... and to no other.
LEMMA TotalKept ==
    ASSUME NEW c, \A h \in Hosts : metrics'[h][c] = metrics[h][c]
    PROVE  Total(c)' = Total(c)
<1>1. [h \in Hosts |-> metrics'[h][c]] = [h \in Hosts |-> metrics[h][c]]
  OBVIOUS
<1> QED
  BY <1>1 DEF Total

\* Everything that is counted here is finite.
LEMMA FiniteCounts ==
    ASSUME TypeInv
    PROVE  /\ \A S \in SUBSET Threads : IsFiniteSet(S) /\ Cardinality(S) \in Nat
           /\ \A S \in SUBSET Slots : IsFiniteSet(S) /\ Cardinality(S) \in Nat /\ Cardinality(S) <= Capacity
           /\ Finishers \subseteq Threads /\ Returning \subseteq Threads /\ Counting \subseteq Threads
<1>1. IsFiniteSet(Slots) /\ Cardinality(Slots) = Capacity
  <2>1. 0 \in Int /\ Capacity - 1 \in Int
    OBVIOUS
  <2>2. /\ IsFiniteSet(0 .. Capacity - 1)
        /\ Cardinality(0 .. Capacity - 1) = IF 0 > Capacity - 1 THEN 0 ELSE (Capacity - 1) - 0 + 1
    BY <2>1, FS_Interval, Zenon
  <2> QED
    BY <2>2 DEF Slots
<1>2. Finishers \subseteq Threads /\ Returning \subseteq Threads /\ Counting \subseteq Threads
  BY DEF Finishers, Returning, Counting
<1> QED
  BY <1>1, <1>2, FS_Subset, FS_CardinalityType

\* The slots that are done are below reserve_tail, which does not wrap.
LEMMA DoneFits ==
    ASSUME SlotsInv
    PROVE  Cardinality(done) < U64
<1> USE DEF SlotsInv, TypeInv
<1>1. reserve_tail \in Nat /\ reserve_tail < U64 /\ done \subseteq 0 .. reserve_tail - 1
  BY DEF TypeOK, SlotInv, Slots
<1>2. IsFiniteSet(0 .. reserve_tail - 1) /\ Cardinality(0 .. reserve_tail - 1) = reserve_tail
  <2>1. 0 \in Int /\ reserve_tail - 1 \in Int
    BY <1>1
  <2>2. /\ IsFiniteSet(0 .. reserve_tail - 1)
        /\ Cardinality(0 .. reserve_tail - 1) = IF 0 > reserve_tail - 1 THEN 0 ELSE (reserve_tail - 1) - 0 + 1
    BY <2>1, FS_Interval, Zenon
  <2> QED
    BY <1>1, <2>2
<1>3. Cardinality(done) <= reserve_tail /\ Cardinality(done) \in Nat
  <2>1. IsFiniteSet(done) /\ Cardinality(done) <= Cardinality(0 .. reserve_tail - 1)
    BY <1>1, <1>2, FS_Subset, Zenon
  <2>2. Cardinality(done) \in Nat
    BY <2>1, FS_CardinalityType
  <2> QED
    BY <1>2, <2>1, <2>2
<1> QED
  BY <1>1, <1>3

\* OwnInv is preserved: a claim takes the slot at reserve_tail, which is nobody's.
LEMMA OwnNext ==
    ASSUME SlotsInv, OwnInv, [Next]_vars
    PROVE  OwnInv'
<1> USE DEF SlotsInv, TypeInv
<1>1. CASE Steady
  BY <1>1 DEF Steady, OwnInv
<1>2. ASSUME NEW t \in Threads, NEW term \in Terms, NEW data \in Payloads, Claim(t, term, data)
      PROVE  OwnInv'
  <2>1. /\ pc[t] = "idle" /\ pc'[t] = "mark" /\ slot'[t] = reserve_tail /\ acked' = acked
        /\ reserve_tail \in Slots /\ reserve_tail \in Nat
        /\ entry'[reserve_tail] = arg'[t] /\ arg'[t].data = data /\ PayloadLen[data] <= PayloadSize
        /\ \A s \in Slots \ {reserve_tail} : entry'[s] = entry[s]
    BY <1>2 DEF Claim, Call, Goto, TypeOK, Slots
  <2>2. \A u \in Threads \ {t} : slot'[u] = slot[u] /\ arg'[u] = arg[u] /\ (HasSlot(u)' <=> HasSlot(u))
    BY <1>2 DEF Claim, Goto, TypeOK, HasSlot, Holding
  <2>3. \A u \in Threads : HasSlot(u) => slot[u] # reserve_tail /\ slot[u] \in Slots
    BY <2>1 DEF SlotInv, Ranges, Slots
  <2>4. reserve_tail \notin acked
    BY <2>1 DEF SlotInv
  <2>5. \A v, u \in Threads : HasSlot(v)' /\ HasSlot(u)' /\ slot'[v] = slot'[u] => v = u
    BY <2>1, <2>2, <2>3 DEF OwnInv
  <2>6. \A u \in Threads : HasSlot(u)' => slot'[u] \notin acked' /\ entry'[slot'[u]] = arg'[u]
                                          /\ PayloadLen[arg'[u].data] <= PayloadSize
    <3>1. ASSUME NEW u \in Threads \ {t}, HasSlot(u)'
          PROVE  slot'[u] \notin acked' /\ entry'[slot'[u]] = arg'[u] /\ PayloadLen[arg'[u].data] <= PayloadSize
      <4>1. HasSlot(u) /\ slot'[u] = slot[u] /\ arg'[u] = arg[u] /\ slot[u] \in Slots \ {reserve_tail}
        BY <2>2, <2>3, <3>1
      <4>2. entry'[slot[u]] = entry[slot[u]]
        BY <2>1, <4>1
      <4> QED
        BY <2>1, <4>1, <4>2 DEF OwnInv
    <3>2. slot'[t] \notin acked' /\ entry'[slot'[t]] = arg'[t] /\ PayloadLen[arg'[t].data] <= PayloadSize
      BY <2>1, <2>4
    <3> QED
      BY <3>1, <3>2
  <2> QED
    BY <2>5, <2>6 DEF OwnInv
<1>3. ASSUME NEW t \in Threads, Commit(t) PROVE OwnInv'
  <2>1. pc[t] = "commit" /\ UNCHANGED <<slot, arg, acked, entry, op>> /\ pc' = [pc EXCEPT ![t] = "load"]
    BY <1>3 DEF Commit, Goto, locals
  <2>2. \A u \in Threads : HasSlot(u)' => HasSlot(u)
    BY <2>1 DEF HasSlot, Holding, TypeOK
  <2> QED
    BY <2>1, <2>2 DEF OwnInv
<1>4. ASSUME NEW t \in Threads, CountBytes(t) PROVE OwnInv'
  <2>1. /\ pc[t] = "count_bytes" /\ pc'[t] = "idle" /\ acked' = acked \cup {slot[t]} /\ UNCHANGED entry
        /\ \A u \in Threads \ {t} : slot'[u] = slot[u] /\ arg'[u] = arg[u] /\ (HasSlot(u)' <=> HasSlot(u))
    BY <1>4 DEF CountBytes, Return, Goto, TypeOK, HasSlot, Holding
  <2>2. HasSlot(t) /\ ~ HasSlot(t)'
    BY <2>1 DEF HasSlot, Holding
  <2>3. \A u \in Threads \ {t} : HasSlot(u) => slot[u] # slot[t]
    BY <2>2 DEF OwnInv
  <2>4. \A v, u \in Threads : HasSlot(v)' /\ HasSlot(u)' /\ slot'[v] = slot'[u] => v = u
    BY <2>1, <2>2 DEF OwnInv
  <2>5. \A u \in Threads : HasSlot(u)' => slot'[u] \notin acked' /\ entry'[slot'[u]] = arg'[u]
                                          /\ PayloadLen[arg'[u].data] <= PayloadSize
    BY <2>1, <2>2, <2>3 DEF OwnInv
  <2> QED
    BY <2>4, <2>5 DEF OwnInv
<1> QED
  BY <1>1, <1>2, <1>3, <1>4, SteadySteps

\* A step that neither commits, counts nor returns Ok leaves fewer to count, and what was done.
Fewer ==
    /\ UNCHANGED <<done, acked>>
    /\ Counting' \subseteq Counting /\ Returning' \subseteq Returning /\ Finishers' \subseteq Finishers
    /\ Total("appends_total")' = Total("appends_total")
    /\ Total("bytes_written")' = Total("bytes_written")
    /\ AckedBytes' = AckedBytes

\* The acknowledged payloads are as long as they were when their entries are.
LEMMA AckedKept ==
    ASSUME TypeOK, TypeOK', acked' = acked, \A s \in acked : entry'[s] = entry[s]
    PROVE  AckedBytes' = AckedBytes
<1>1. PICK f : f = [s \in Slots |-> PayloadLen[entry[s].data]]
  OBVIOUS
<1>2. PICK g : g = [s \in Slots |-> PayloadLen[entry'[s].data]]
  OBVIOUS
<1>3. AckedBytes = SumFunctionOnSet(f, acked) /\ AckedBytes' = SumFunctionOnSet(g, acked)
  BY <1>1, <1>2 DEF AckedBytes
<1>4. PICK T : T = acked
  OBVIOUS
<1>5. T \subseteq Slots /\ IsFiniteSet(T)
  <2>1. IsFiniteSet(Slots)
    BY FS_Interval DEF Slots
  <2> QED
    BY <1>4, <2>1, FS_Subset DEF TypeOK
<1>6. \A s \in T : f[s] \in Nat /\ f[s] = g[s]
  BY <1>1, <1>2, <1>4, <1>5 DEF TypeOK, Entries
<1>7. SumFunctionOnSet(f, T) = SumFunctionOnSet(g, T)
  <2> HIDE CapacityAssumption, PayloadAssumption, ThreadAssumption, OpsAssumption, BoundAssumption
  <2> QED
    BY <1>5, <1>6, SumSame
<1> QED
  BY <1>3, <1>4, <1>7

\* Which steps leave fewer.
LEMMA FewerSteps ==
    ASSUME SlotsInv, [Next]_vars
    PROVE  Fewer \/ \E t \in Threads : Commit(t) \/ CountAppend(t) \/ CountBytes(t)
<1> USE DEF SlotsInv, TypeInv
<1>0. TypeOK'
  BY TypeNext
<1>1. CASE Steady /\ Uncounted
  <2>1. \A t \in Threads : Finishing(t)' => Finishing(t) /\ (pc'[t] = "count_bytes" <=> pc[t] = "count_bytes")
    BY <1>1 DEF Steady, Uncounted, Finishing
  <2>2. \A t \in Threads : pc'[t] = "count_bytes" => pc[t] = "count_bytes"
    BY <1>1 DEF Uncounted, HasSlot
  <2>3. Finishers' \subseteq Finishers /\ Returning' \subseteq Returning
    BY <2>1, <2>2 DEF Finishers, Returning
  <2>4. Counting' \subseteq Counting
    BY <2>1 DEF Finishers, Returning, Counting
  <2>5. AckedBytes' = AckedBytes
    BY <1>0, <1>1, AckedKept DEF Steady
  <2> QED
    BY <1>1, <2>3, <2>4, <2>5, TotalKept DEF Fewer, Steady, Uncounted
<1>2. ASSUME NEW t \in Threads, NEW term \in Terms, NEW data \in Payloads, Claim(t, term, data), Uncounted
      PROVE  Fewer
  <2>1. /\ pc' = [pc EXCEPT ![t] = "mark"] /\ \A u \in Threads \ {t} : op'[u] = op[u]
        /\ UNCHANGED <<done, acked>> /\ reserve_tail \in Nat
        /\ \A s \in Slots : s # reserve_tail => entry'[s] = entry[s]
    BY <1>2 DEF Claim, Goto, TypeOK
  <2>2. \A u \in Threads : Finishing(u)' => Finishing(u) /\ pc'[u] = pc[u]
    BY <2>1 DEF Finishing, HasSlot, Holding, TypeOK
  <2>3. \A u \in Threads : pc'[u] = "count_bytes" => pc[u] = "count_bytes"
    BY <2>1 DEF TypeOK
  <2>4. Finishers' \subseteq Finishers /\ Returning' \subseteq Returning /\ Counting' \subseteq Counting
    BY <2>2, <2>3 DEF Finishers, Returning, Counting
  <2>5. \A s \in acked : s \in Slots /\ s # reserve_tail
    BY <2>1 DEF SlotInv, TypeOK, Slots
  <2>6. AckedBytes' = AckedBytes
    BY <1>0, <2>1, <2>5, AckedKept
  <2> QED
    BY <1>2, <2>1, <2>4, <2>6, TotalKept DEF Fewer, Uncounted
<1> QED
  BY <1>1, <1>2, SteadySteps, UncountedSteps

\* What a commit does to the counts still to be made.
LEMMA CommitCounts ==
    ASSUME SlotsInv, NEW t \in Threads, Commit(t)
    PROVE  /\ Counting' \subseteq Counting \cup {t} /\ Finishers' \subseteq Finishers \cup {t}
           /\ Returning' \subseteq Returning
           /\ UNCHANGED <<acked, metrics>> /\ AckedBytes' = AckedBytes
           /\ Cardinality(done') = Cardinality(done) + 1
<1> USE DEF SlotsInv, TypeInv
<1>1. /\ pc[t] = "commit" /\ pc' = [pc EXCEPT ![t] = "load"] /\ done' = done \cup {slot[t]}
      /\ UNCHANGED <<acked, metrics, entry, op>>
  BY DEF Commit, Goto, locals
<1>2. \A u \in Threads \ {t} : pc'[u] = pc[u]
  BY <1>1 DEF TypeOK
<1>3. \A u \in Threads \ {t} : Finishing(u)' <=> Finishing(u)
  BY <1>1, <1>2 DEF Finishing, HasSlot, Holding
<1>4. pc'[t] # "count_bytes"
  BY <1>1 DEF TypeOK
<1>5. Counting' \subseteq Counting \cup {t} /\ Finishers' \subseteq Finishers \cup {t} /\ Returning' \subseteq Returning
  BY <1>2, <1>3, <1>4 DEF Finishers, Returning, Counting
<1>6. slot[t] \notin done
  BY <1>1 DEF SlotInv, SlotExclusive, Holding
<1>7. IsFiniteSet(done)
  BY FiniteCounts DEF TypeOK
<1>8. Cardinality(done') = Cardinality(done) + 1
  BY <1>1, <1>6, <1>7, FS_AddElement
<1>9. AckedBytes' = AckedBytes
  BY <1>1 DEF AckedBytes
<1> QED
  BY <1>1, <1>5, <1>8, <1>9

\* One more element makes a finite set at most one larger.
LEMMA OneMore ==
    ASSUME NEW S, IsFiniteSet(S), NEW x
    PROVE  /\ IsFiniteSet(S \cup {x}) /\ Cardinality(S \cup {x}) \in Nat
           /\ Cardinality(S \cup {x}) <= Cardinality(S) + 1
<1> HIDE CapacityAssumption, PayloadAssumption, ThreadAssumption, OpsAssumption, BoundAssumption
<1>1. /\ IsFiniteSet(S \cup {x})
      /\ Cardinality(S \cup {x}) = IF x \in S THEN Cardinality(S) ELSE Cardinality(S) + 1
  BY FS_AddElement
<1>2. Cardinality(S) \in Nat /\ Cardinality(S \cup {x}) \in Nat
  BY <1>1, FS_CardinalityType
<1> QED
  BY <1>1, <1>2

\* AppendsInv is preserved.
LEMMA AppendsNext ==
    ASSUME SlotsInv, OwnInv, AppendsInv, [Next]_vars
    PROVE  AppendsInv'
<1> USE DEF SlotsInv, TypeInv
<1>0. TypeOK' /\ TypeInv'
  BY TypeNext
<1>1. /\ \A S \in SUBSET Threads : IsFiniteSet(S) /\ Cardinality(S) \in Nat
      /\ IsFiniteSet(done) /\ Cardinality(done) \in Nat /\ IsFiniteSet(acked) /\ Cardinality(acked) \in Nat
      /\ Counting \subseteq Threads /\ Returning \subseteq Threads /\ Finishers \subseteq Threads
      /\ Counting' \subseteq Threads /\ Returning' \subseteq Threads
  BY <1>0, FiniteCounts DEF TypeOK, Counting, Returning, Finishers
<1>2. /\ Total("appends_total") \in Nat
      /\ Cardinality(Counting) \in Nat /\ Cardinality(Returning) \in Nat
      /\ Cardinality(Counting') \in Nat /\ Cardinality(Returning') \in Nat
      /\ IsFiniteSet(Counting) /\ IsFiniteSet(Returning)
  BY <1>1, TotalNat DEF Counters
<1>3. CASE Fewer
  <2>1. Cardinality(Counting') <= Cardinality(Counting) /\ Cardinality(Returning') <= Cardinality(Returning)
    BY <1>2, <1>3, FS_Subset DEF Fewer
  <2> QED
    BY <1>1, <1>2, <1>3, <2>1 DEF Fewer, AppendsInv
<1>4. ASSUME NEW t \in Threads, Commit(t) PROVE AppendsInv'
  <2>1. /\ Counting' \subseteq Counting \cup {t} /\ Returning' \subseteq Returning
        /\ UNCHANGED <<acked, metrics>> /\ Cardinality(done') = Cardinality(done) + 1
    BY <1>4, CommitCounts
  <2>2. IsFiniteSet(Counting \cup {t}) /\ Cardinality(Counting \cup {t}) <= Cardinality(Counting) + 1
    BY <1>2, OneMore
  <2>3. Cardinality(Counting') <= Cardinality(Counting \cup {t}) /\ Cardinality(Counting \cup {t}) \in Nat
    BY <2>1, <2>2, FS_Subset, FS_CardinalityType
  <2>4. Cardinality(Returning') <= Cardinality(Returning)
    BY <1>2, <2>1, FS_Subset
  <2>5. Total("appends_total")' = Total("appends_total")
    BY <2>1 DEF Total
  <2> QED
    BY <1>1, <1>2, <2>1, <2>2, <2>3, <2>4, <2>5 DEF AppendsInv
<1>5. ASSUME NEW t \in Threads, CountAppend(t) PROVE AppendsInv'
  <2>1. /\ pc[t] = "count_append" /\ pc' = [pc EXCEPT ![t] = "count_bytes"] /\ UNCHANGED <<done, acked, op>>
        /\ Increment(t, "appends_total", 1)
    BY <1>5 DEF CountAppend, Goto, locals, history
  <2>2. pc'[t] = "count_bytes" /\ \A u \in Threads \ {t} : pc'[u] = pc[u]
    BY <2>1 DEF TypeOK
  <2>3. t \in Counting /\ t \notin Returning
    BY <2>1 DEF Counting, Finishers, Finishing, HasSlot, Holding, Returning
  <2>4. Returning' = Returning \cup {t}
    BY <2>2 DEF Returning
  <2>5. Counting' \subseteq Counting \ {t}
    <3>1. \A u \in Threads \ {t} : Finishing(u)' <=> Finishing(u)
      BY <2>1, <2>2 DEF Finishing, HasSlot, Holding
    <3> QED
      BY <2>2, <3>1 DEF Counting, Finishers, Returning
  <2>6. IsFiniteSet(Counting \ {t}) /\ Cardinality(Counting \ {t}) = Cardinality(Counting) - 1
    BY <1>2, <2>3, FS_RemoveElement
  <2>7. Cardinality(Counting') <= Cardinality(Counting) - 1
    BY <2>5, <2>6, FS_Subset
  <2>8. Cardinality(Returning') = Cardinality(Returning) + 1
    BY <1>2, <2>3, <2>4, FS_AddElement
  <2>9. Total("appends_total") + 1 < U64
    BY <1>1, <1>2, <2>7, DoneFits DEF AppendsInv
  <2>10. Total("appends_total")' = Total("appends_total") + 1
    BY <2>1, <2>9, TotalCounts DEF Counters
  <2> QED
    BY <1>1, <1>2, <2>1, <2>7, <2>8, <2>10 DEF AppendsInv
<1>6. ASSUME NEW t \in Threads, CountBytes(t) PROVE AppendsInv'
  <2>1. /\ pc[t] = "count_bytes" /\ pc'[t] = "idle" /\ UNCHANGED done /\ acked' = acked \cup {slot[t]}
        /\ \A u \in Threads \ {t} : pc'[u] = pc[u] /\ op'[u] = op[u]
        /\ Increment(t, "bytes_written", PayloadLen[arg[t].data])
    BY <1>6 DEF CountBytes, Return, Goto, TypeOK
  <2>2. slot[t] \notin acked /\ t \in Returning
    BY <2>1 DEF OwnInv, HasSlot, Returning
  <2>3. Returning' = Returning \ {t}
    BY <2>1 DEF Returning
  <2>4. Counting' \subseteq Counting
    <3>1. \A u \in Threads \ {t} : Finishing(u)' <=> Finishing(u)
      BY <2>1 DEF Finishing, HasSlot, Holding
    <3>2. ~ Finishing(t)'
      BY <2>1 DEF Finishing, HasSlot, Holding
    <3> QED
      BY <2>1, <3>1, <3>2 DEF Counting, Finishers, Returning
  <2>5. Cardinality(Counting') <= Cardinality(Counting)
    BY <1>2, <2>4, FS_Subset
  <2>6. Cardinality(Returning') = Cardinality(Returning) - 1
    BY <1>2, <2>2, <2>3, FS_RemoveElement
  <2>7. Cardinality(acked') = Cardinality(acked) + 1
    BY <1>1, <2>1, <2>2, FS_AddElement
  <2>8. \A h \in Hosts : metrics'[h]["appends_total"] = metrics[h]["appends_total"]
    BY <2>1 DEF Increment, TypeOK
  <2>9. Total("appends_total")' = Total("appends_total")
    BY <2>8, TotalKept
  <2> QED
    BY <1>1, <1>2, <2>1, <2>5, <2>6, <2>7, <2>9 DEF AppendsInv
<1> QED
  BY <1>3, <1>4, <1>5, <1>6, FewerSteps

\* Fewer payloads are not longer.
LEMMA TimesMonotone ==
    ASSUME NEW x \in Nat, NEW y \in Nat, NEW n \in Nat, x <= y
    PROVE  x * n \in Nat /\ y * n \in Nat /\ x * n <= y * n /\ (x + 1) * n = x * n + n
<1>1. x * n \in Nat /\ y * n \in Nat /\ (y - x) * n \in Nat
  OBVIOUS
<1>2. y * n = x * n + (y - x) * n
  OBVIOUS
<1> QED
  BY <1>1, <1>2

\* BytesInv is preserved.
LEMMA BytesNext ==
    ASSUME Capacity * PayloadSize < U64, SlotsInv, OwnInv, BytesInv, [Next]_vars
    PROVE  BytesInv'
<1> USE DEF SlotsInv, TypeInv
<1>0. TypeOK' /\ TypeInv'
  BY TypeNext
<1>1. /\ \A S \in SUBSET Threads : IsFiniteSet(S) /\ Cardinality(S) \in Nat
      /\ IsFiniteSet(done) /\ Cardinality(done) \in Nat /\ Cardinality(done) <= Capacity /\ IsFiniteSet(acked)
      /\ Finishers \subseteq Threads /\ Finishers' \subseteq Threads
  BY <1>0, FiniteCounts DEF TypeOK, Finishers
<1>2. /\ Total("bytes_written") \in Nat
      /\ Cardinality(Finishers) \in Nat /\ Cardinality(Finishers') \in Nat /\ IsFiniteSet(Finishers)
  BY <1>1, TotalNat DEF Counters
<1>3. CASE Fewer
  <2>1. Cardinality(Finishers') <= Cardinality(Finishers)
    BY <1>2, <1>3, FS_Subset DEF Fewer
  <2>2. Cardinality(Finishers') * PayloadSize <= Cardinality(Finishers) * PayloadSize
    BY <1>2, <2>1, TimesMonotone
  <2>3. /\ Cardinality(Finishers') * PayloadSize \in Nat /\ Cardinality(Finishers) * PayloadSize \in Nat
        /\ Cardinality(done) * PayloadSize \in Nat
    BY <1>1, <1>2
  <2>4. Total("bytes_written") + Cardinality(Finishers') * PayloadSize <= Cardinality(done) * PayloadSize
    BY <1>2, <2>2, <2>3 DEF BytesInv
  <2> QED
    BY <1>3, <2>4 DEF Fewer, BytesInv
<1>4. ASSUME NEW t \in Threads, Commit(t) PROVE BytesInv'
  <2>1. /\ Finishers' \subseteq Finishers \cup {t}
        /\ UNCHANGED metrics /\ Cardinality(done') = Cardinality(done) + 1 /\ AckedBytes' = AckedBytes
    BY <1>4, CommitCounts
  <2>2. IsFiniteSet(Finishers \cup {t}) /\ Cardinality(Finishers \cup {t}) <= Cardinality(Finishers) + 1
    BY <1>2, OneMore
  <2>3. Cardinality(Finishers') <= Cardinality(Finishers) + 1
    <3>1. Cardinality(Finishers') <= Cardinality(Finishers \cup {t}) /\ Cardinality(Finishers \cup {t}) \in Nat
      BY <2>1, <2>2, FS_Subset, FS_CardinalityType
    <3> QED
      BY <1>2, <2>2, <3>1
  <2>4. /\ Cardinality(Finishers') * PayloadSize <= (Cardinality(Finishers) + 1) * PayloadSize
        /\ (Cardinality(Finishers) + 1) * PayloadSize = Cardinality(Finishers) * PayloadSize + PayloadSize
        /\ (Cardinality(done) + 1) * PayloadSize = Cardinality(done) * PayloadSize + PayloadSize
    <3>1. Cardinality(Finishers) + 1 \in Nat
      BY <1>2
    <3> QED
      BY <1>1, <1>2, <2>3, <3>1, TimesMonotone
  <2>5. /\ Cardinality(Finishers') * PayloadSize \in Nat /\ Cardinality(Finishers) * PayloadSize \in Nat
        /\ Cardinality(done) * PayloadSize \in Nat
    BY <1>1, <1>2
  <2>6. Total("bytes_written")' = Total("bytes_written")
    BY <2>1 DEF Total
  <2>7. Total("bytes_written") + Cardinality(Finishers') * PayloadSize <= (Cardinality(done) + 1) * PayloadSize
    BY <1>2, <2>4, <2>5 DEF BytesInv
  <2> QED
    BY <2>1, <2>6, <2>7 DEF BytesInv
<1>5. ASSUME NEW t \in Threads, CountAppend(t) PROVE BytesInv'
  <2>1. /\ pc[t] = "count_append" /\ pc' = [pc EXCEPT ![t] = "count_bytes"]
        /\ UNCHANGED <<done, acked, op, entry>> /\ Increment(t, "appends_total", 1)
    BY <1>5 DEF CountAppend, Goto, locals, history
  <2>2. \A u \in Threads : Finishing(u)' <=> Finishing(u)
    BY <2>1 DEF Finishing, HasSlot, Holding, TypeOK
  <2>3. Finishers' = Finishers
    BY <2>2 DEF Finishers
  <2>4. \A h \in Hosts : metrics'[h]["bytes_written"] = metrics[h]["bytes_written"]
    BY <2>1 DEF Increment, TypeOK
  <2>5. Total("bytes_written")' = Total("bytes_written")
    BY <2>4, TotalKept
  <2>6. AckedBytes' = AckedBytes
    BY <2>1 DEF AckedBytes
  <2> QED
    BY <2>1, <2>3, <2>5, <2>6 DEF BytesInv
<1>6. ASSUME NEW t \in Threads, CountBytes(t) PROVE BytesInv'
  <2>0. PICK len \in Nat : len = PayloadLen[arg[t].data]
    BY DEF TypeOK, Entries
  <2>1. /\ pc[t] = "count_bytes" /\ pc'[t] = "idle" /\ UNCHANGED <<done, entry>> /\ acked' = acked \cup {slot[t]}
        /\ \A u \in Threads \ {t} : pc'[u] = pc[u] /\ op'[u] = op[u]
        /\ Increment(t, "bytes_written", len)
    BY <1>6, <2>0 DEF CountBytes, Return, Goto, TypeOK
  <2>2. HasSlot(t) /\ t \in Finishers
    BY <2>1 DEF HasSlot, Holding, Finishers, Finishing
  <2>3. slot[t] \notin acked /\ slot[t] \in Slots /\ entry[slot[t]] = arg[t] /\ len <= PayloadSize
    BY <2>0, <2>2 DEF OwnInv, Ranges
  <2>4. Finishers' \subseteq Finishers \ {t}
    <3>1. \A u \in Threads \ {t} : Finishing(u)' <=> Finishing(u)
      BY <2>1 DEF Finishing, HasSlot, Holding
    <3>2. ~ Finishing(t)'
      BY <2>1 DEF Finishing, HasSlot, Holding
    <3> QED
      BY <3>1, <3>2 DEF Finishers
  <2>5. IsFiniteSet(Finishers \ {t}) /\ Cardinality(Finishers \ {t}) = Cardinality(Finishers) - 1
    BY <1>2, <2>2, FS_RemoveElement
  <2>6. Cardinality(Finishers') + 1 <= Cardinality(Finishers)
    BY <1>2, <2>4, <2>5, FS_Subset
  <2>7. /\ Cardinality(Finishers') * PayloadSize + PayloadSize <= Cardinality(Finishers) * PayloadSize
        /\ Cardinality(done) * PayloadSize <= Capacity * PayloadSize
    <3>1. Cardinality(Finishers') + 1 \in Nat
      BY <1>2
    <3>2. (Cardinality(Finishers') + 1) * PayloadSize <= Cardinality(Finishers) * PayloadSize
      BY <1>2, <2>6, <3>1, TimesMonotone
    <3>3. (Cardinality(Finishers') + 1) * PayloadSize = Cardinality(Finishers') * PayloadSize + PayloadSize
      BY <1>2, TimesMonotone
    <3>4. Cardinality(done) * PayloadSize <= Capacity * PayloadSize
      BY <1>1, TimesMonotone
    <3> QED
      BY <3>2, <3>3, <3>4
  <2>8. /\ Cardinality(Finishers') * PayloadSize \in Nat /\ Cardinality(Finishers) * PayloadSize \in Nat
        /\ Cardinality(done) * PayloadSize \in Nat /\ Capacity * PayloadSize \in Nat
    BY <1>1, <1>2
  <2>9. Total("bytes_written") + len < U64
    BY <1>2, <2>3, <2>7, <2>8 DEF BytesInv
  <2>10. Total("bytes_written")' = Total("bytes_written") + len
    BY <2>1, <2>9, TotalCounts DEF Counters
  <2>11. (Total("bytes_written") + len) + Cardinality(Finishers') * PayloadSize <= Cardinality(done) * PayloadSize
    BY <1>2, <2>3, <2>7, <2>8 DEF BytesInv
  <2>12. AckedBytes' = AckedBytes + len /\ AckedBytes \in Nat
    <3>1. PICK f : f = [s \in Slots |-> PayloadLen[entry[s].data]]
      OBVIOUS
    <3>2. PICK T : T = acked
      OBVIOUS
    <3>3. PICK s \in Slots : s = slot[t]
      BY <2>3
    <3>4. AckedBytes = SumFunctionOnSet(f, T) /\ AckedBytes' = SumFunctionOnSet(f, T \cup {s})
      BY <2>1, <3>1, <3>2, <3>3 DEF AckedBytes
    <3>5. f[s] = len /\ \A y \in T \cup {s} : f[y] \in Nat
      BY <2>0, <2>3, <3>1, <3>2, <3>3 DEF TypeOK, Entries
    <3>6. s \notin T /\ IsFiniteSet(T) /\ IsFiniteSet(T \cup {s}) /\ (T \cup {s}) \ {s} = T
      BY <1>1, <2>3, <3>2, <3>3, FS_AddElement
    <3>7. SumFunctionOnSet(f, T \cup {s}) = f[s] + SumFunctionOnSet(f, T) /\ SumFunctionOnSet(f, T) \in Nat
      <4> HIDE CapacityAssumption, PayloadAssumption, ThreadAssumption, OpsAssumption, BoundAssumption
      <4>1. SumFunctionOnSet(f, T \cup {s}) = f[s] + SumFunctionOnSet(f, (T \cup {s}) \ {s})
        BY <3>5, <3>6, SumTakes
      <4>2. SumFunctionOnSet(f, T) \in Nat
        BY <3>5, <3>6, SumNat
      <4> QED
        BY <3>6, <4>1, <4>2
    <3> QED
      BY <3>4, <3>5, <3>7
  <2>13. AckedBytes' <= Total("bytes_written")'
    BY <1>2, <2>10, <2>12 DEF BytesInv
  <2> QED
    BY <2>1, <2>10, <2>11, <2>13 DEF BytesInv
<1> QED
  BY <1>3, <1>4, <1>5, <1>6, FewerSteps

\* The counters of all the hosts, added up, account for the log, whoever crashed between its commit
\* and its counts: appends_total is between the acknowledged and the committed appends, bytes_written
\* between the acknowledged payloads and the room of the committed slots.  No counter wraps, because
\* the bytes of the whole pool fit the u64 that measures its file.
THEOREM MetricsAreAccounted ==
    ASSUME Capacity * PayloadSize < U64
    PROVE  Spec => []MetricsAccount
<1>1. Init => OwnInv /\ AppendsInv /\ BytesInv
  <2> SUFFICES ASSUME Init PROVE OwnInv /\ AppendsInv /\ BytesInv
    OBVIOUS
  <2>0. TypeOK
    BY TypeInit DEF TypeInv
  <2>1. \A t \in Threads : ~ HasSlot(t) /\ pc[t] # "count_bytes"
    BY DEF Init, HasSlot, Holding
  <2>2. Finishers = {} /\ Returning = {} /\ Counting = {} /\ done = {} /\ acked = {}
    BY <2>1 DEF Init, Finishers, Returning, Counting, Finishing
  <2>3. ASSUME NEW c \in Counters PROVE Total(c) = 0
    <3>1. PICK f : f = [h \in Hosts |-> metrics[h][c]]
      OBVIOUS
    <3>2. \A h \in Hosts : f[h] = 0
      BY <3>1 DEF Init
    <3>3. SumFunctionOnSet(f, Hosts) = 0
      <4>1. IsFiniteSet(Hosts)
        OBVIOUS
      <4> HIDE CapacityAssumption, PayloadAssumption, ThreadAssumption, OpsAssumption, BoundAssumption
      <4> QED
        BY <3>2, <4>1, SumZero
    <3> QED
      BY <3>1, <3>3 DEF Total
  <2>4. AckedBytes = 0
    BY <2>2, SumEmpty DEF AckedBytes
  <2>5. Cardinality({}) = 0
    BY FS_EmptySet
  <2>6. Total("appends_total") = 0 /\ Total("bytes_written") = 0
    BY <2>3 DEF Counters
  <2>7. AppendsInv
    BY <2>2, <2>5, <2>6 DEF AppendsInv
  <2>8. BytesInv
    BY <2>2, <2>4, <2>5, <2>6 DEF BytesInv
  <2> QED
    BY <2>1, <2>7, <2>8 DEF OwnInv
<1>2. SlotsInv /\ OwnInv /\ AppendsInv /\ BytesInv /\ [Next]_vars => (OwnInv /\ AppendsInv /\ BytesInv)'
  BY OwnNext, AppendsNext, BytesNext
<1>3. SlotsInv /\ AppendsInv /\ BytesInv => MetricsAccount
  <2> SUFFICES ASSUME SlotsInv, AppendsInv, BytesInv PROVE MetricsAccount
    OBVIOUS
  <2> USE DEF SlotsInv, TypeInv
  <2>1. /\ Cardinality(Counting) \in Nat /\ Cardinality(Returning) \in Nat /\ Cardinality(Finishers) \in Nat
        /\ Cardinality(done) \in Nat /\ Cardinality(acked) \in Nat
    BY FiniteCounts DEF TypeOK
  <2>2. Total("appends_total") \in Nat /\ Total("bytes_written") \in Nat
    BY TotalNat DEF Counters
  <2>3. Cardinality(Finishers) * PayloadSize \in Nat /\ Cardinality(done) * PayloadSize \in Nat
    BY <2>1
  <2>4. Total("bytes_written") <= Cardinality(done) * PayloadSize
    BY <2>2, <2>3 DEF BytesInv
  <2> QED
    BY <2>1, <2>2, <2>4 DEF AppendsInv, BytesInv, MetricsAccount
<1> QED
  BY <1>1, <1>2, <1>3, SlotsInvariant, PTL DEF Spec
=============================================================================
