----------------------- MODULE FenceLogRecoveryProofs -----------------------
(***************************************************************************)
(* Recovery, when it is only called while no append is between its claim   *)
(* and its commit (Quiesced): what was acknowledged stays, what was        *)
(* abandoned stays so, and recovery repairs what it scanned.               *)
(***************************************************************************)
EXTENDS FenceLogDataProofs

USE CapacityAssumption, PayloadAssumption, ThreadAssumption, OpsAssumption, BoundAssumption

\* A recover in its first phase, and one that has not counted its run yet.
Scanning(t) == pc[t] \in {"inspect", "check", "abandon"}

Recovering(t) ==
    Scanning(t) \/ pc[t] = "count_run" \/ (pc[t] \in {"load", "scan", "cas"} /\ op[t] = "recover")

\* Where a walk and a recovery are in the log.
Placed(t) ==
    /\ pc[t] \in {"load", "scan", "cas"} => op[t] \in {"append", "recover"}
    /\ pc[t] = "cas" => cur[t] < new[t]
    /\ Recovering(t) => limit[t] <= reserve_tail /\ limit[t] <= Capacity
    /\ Recovering(t) /\ ~ Scanning(t) => cursor[t] = limit[t]
    /\ pc[t] = "check" => cursor[t] \in done
    /\ pc[t] = "count_run" => new[t] <= committed_tail

\* No append holds a slot that a recovery in progress looks at; so the recovery
\* abandons nothing that was committed whole, and what it has passed stays repaired.
Apart(t) ==
    /\ Recovering(t) => \A u \in Threads : Holding(u) => limit[t] <= slot[u]
    /\ pc[t] = "abandon" => cursor[t] \notin done \/ cursor[t] \in corrupt
    /\ Holding(t) => rec[slot[t]].state # "ABANDONED"
    /\ Recovering(t) => \A s \in Slots : s < cursor[t] => rec[s].state # "WRITING"
    /\ Recovering(t) /\ pc[t] \in {"cas", "count_run"} /\ new[t] < limit[t]
          /\ trimmed \cup corrupt = {} => new[t] \notin done

\* What the state byte of a slot says about its past.
History(s) ==
    /\ s \in trimmed => s < committed_tail
    /\ s >= reserve_tail => rec[s].state \in {"FREE", "UNKNOWN"}
    /\ rec[s].state = "UNKNOWN" => s \in corrupt
    /\ s \in done => rec[s].state # "WRITING"
    /\ s \in done => rec[s].state = "COMMITTED" \/ s \in trimmed \/ s \in corrupt

RecoveryInv ==
    /\ \A t \in Threads : Placed(t)
    /\ \A t \in Threads : Apart(t)
    /\ \A s \in Slots : History(s)

-----------------------------------------------------------------------------
\* A step that stores no state byte, claims no slot and moves neither a walk nor a
\* recovery.
Unmoved ==
    /\ UNCHANGED <<committed_tail, entry, done, trimmed, corrupt>>
    /\ reserve_tail' = reserve_tail \/ (reserve_tail >= Capacity /\ reserve_tail' >= Capacity)
    /\ \A s \in Slots : rec'[s].state = rec[s].state
    /\ \A t \in Threads : Holding(t)' => Holding(t) /\ slot'[t] = slot[t]
    /\ \A t \in Threads : Recovering(t)' \/ pc'[t] \in {"load", "scan", "cas"} =>
          /\ pc'[t] = pc[t] /\ op'[t] = op[t] /\ cur'[t] = cur[t] /\ new'[t] = new[t]
          /\ cursor'[t] = cursor[t] /\ limit'[t] = limit[t]

\* Every step but those of a claim, a store of a state byte, a walk and a recovery is
\* unmoved.
LEMMA UnmovedSteps ==
    ASSUME SlotsInv, [Next]_vars
    PROVE  \/ Unmoved
           \/ \E t \in Threads :
                \/ \E term \in Terms, data \in Payloads : Claim(t, term, data)
                \/ MarkWriting(t) \/ Commit(t)
                \/ LoadTail(t) \/ ScanOn(t) \/ ScanStop(t) \/ Cas(t)
                \/ CallRecover(t) \/ Inspect(t) \/ Check(t) \/ Abandon(t) \/ RecoverPhase2(t)
                \/ TrimStore(t)
           \/ \E s \in Slots : MediaFault(s)
<1> USE DEF SlotsInv, TypeInv
<1>1. ASSUME UNCHANGED <<committed_tail, entry, done, trimmed, corrupt>>,
             reserve_tail' = reserve_tail \/ (reserve_tail >= Capacity /\ reserve_tail' >= Capacity),
             \A s \in Slots : rec'[s].state = rec[s].state,
             NEW t \in Threads,
             NEW l \in {"idle", "undo", "count_failed", "count_append", "count_bytes",
                        "count_abandoned", "trim", "trim_store", "read", "read_state",
                        "read_fields", "read_payload", "read_verify"},
             pc' = [pc EXCEPT ![t] = l],
             \A u \in Threads \ {t} : slot'[u] = slot[u] /\ op'[u] = op[u] /\ cur'[u] = cur[u]
                /\ new'[u] = new[u] /\ cursor'[u] = cursor[u] /\ limit'[u] = limit[u]
      PROVE  Unmoved
  <2>1. pc'[t] = l /\ \A u \in Threads \ {t} : pc'[u] = pc[u]
    BY <1>1 DEF TypeOK
  <2>2. ~ Holding(t)' /\ ~ Recovering(t)' /\ pc'[t] \notin {"load", "scan", "cas"}
    BY <2>1, <1>1 DEF Holding, Recovering, Scanning
  <2>3. \A u \in Threads \ {t} : (Holding(u)' <=> Holding(u)) /\ (Recovering(u)' <=> Recovering(u))
    BY <2>1, <1>1 DEF Holding, Recovering, Scanning
  <2> QED
    BY <1>1, <2>1, <2>2, <2>3 DEF Unmoved
<1>2. ASSUME NEW t \in Threads, Return(t),
             UNCHANGED <<reserve_tail, committed_tail, rec, entry, done, trimmed, corrupt>>
      PROVE  Unmoved
  BY <1>1, <1>2 DEF Return, Goto, TypeOK
<1>3. ASSUME NEW t \in Threads, Start(t)
      PROVE  Unmoved \/ CallRecover(t) \/ \E term \in Terms, data \in Payloads : Claim(t, term, data)
  <2>1. ASSUME UNCHANGED <<pool, pc, locals, history>> PROVE Unmoved
    BY <2>1 DEF pool, locals, history, Unmoved, Holding, Recovering, Scanning
  <2>2. ASSUME NEW data \in Payloads, ClaimFull(t, data) PROVE Unmoved
    <3>1. reserve_tail >= Capacity /\ reserve_tail' >= Capacity
      BY <2>2 DEF ClaimFull, Call, TypeOK, ReserveInv, WrappingAdd
    <3> QED
      BY <2>2, <3>1, <1>1 DEF ClaimFull, Goto, history, TypeOK
  <2>3. ASSUME NEW upTo \in 0 .. Capacity, CallTrim(t, upTo) PROVE Unmoved
    BY <2>3, <1>1 DEF CallTrim, Goto, pool, history, TypeOK
  <2>4. ASSUME NEW first \in 0 .. Capacity + 1, NEW last \in 0 .. Capacity + 1,
               CallRead(t, first, last)
        PROVE  Unmoved
    BY <2>4, <1>1 DEF CallRead, Goto, pool, history, TypeOK
  <2> QED
    BY <1>3, <2>1, <2>2, <2>3, <2>4 DEF Start, AppendTooLarge, TrimBeyond
<1>4. ASSUME NEW t \in Threads, Undo(t) PROVE Unmoved
  <2>1. reserve_tail' = reserve_tail - 1 /\ reserve_tail' >= Capacity /\ reserve_tail \in Nat
    BY <1>4, UndoAboveCapacity DEF TypeOK
  <2>2. reserve_tail >= Capacity /\ reserve_tail' >= Capacity
    BY <2>1
  <2> QED
    BY <1>1, <1>4, <2>2 DEF Undo, Goto, locals, history
<1>5. ASSUME NEW t \in Threads, CountFailed(t) \/ CountAppend(t) \/ CountBytes(t) PROVE Unmoved
  BY <1>1, <1>2, <1>5 DEF CountFailed, CountAppend, CountBytes, Goto, locals, history
<1>6. ASSUME NEW t \in Threads, WriteFields(t) \/ WritePayload(t) \/ WriteCrc(t) PROVE Unmoved
  <2>1. \A s \in Slots : rec'[s].state = rec[s].state
    BY <1>6, WriteFacts
  <2>2. Holding(t) /\ \E l \in {"payload", "crc", "commit"} : pc' = [pc EXCEPT ![t] = l]
    BY <1>6 DEF WriteFields, WritePayload, WriteCrc, Goto, Holding
  <2>3. UNCHANGED <<reserve_tail, committed_tail, entry, done, trimmed, corrupt, slot, op, cur, new,
                    cursor, limit>>
    BY <1>6 DEF WriteFields, WritePayload, WriteCrc, locals, history
  <2> QED
    BY <2>1, <2>2, <2>3 DEF TypeOK, Unmoved, Holding, Recovering, Scanning
<1>7. ASSUME NEW t \in Threads, CountRun(t) \/ CountAbandoned(t) PROVE Unmoved
  BY <1>1, <1>2, <1>7 DEF CountRun, CountAbandoned, Goto, locals, history
<1>8. ASSUME NEW t \in Threads, TrimInspect(t) \/ TrimReturn(t) PROVE Unmoved
  <2>1. CASE TrimInspect(t)
    <3>1. UNCHANGED <<reserve_tail, committed_tail, rec, entry, done, trimmed, corrupt, slot, op, cur,
                      new, limit>>
      BY <2>1 DEF TrimInspect, pool, history
    <3>2. \E l \in {"trim", "trim_store"} : pc' = [pc EXCEPT ![t] = l]
      BY <2>1 DEF TrimInspect, Goto, TypeOK
    <3>3. \A u \in Threads \ {t} : cursor'[u] = cursor[u]
      BY <2>1 DEF TrimInspect, TypeOK
    <3> QED
      BY <1>1, <3>1, <3>2, <3>3
  <2>2. CASE TrimReturn(t)
    BY <1>2, <2>2 DEF TrimReturn, pool, history
  <2> QED
    BY <1>8, <2>1, <2>2
<1>9. ASSUME NEW t \in Threads, Read(t) PROVE Unmoved
  <2>1. CASE ReadReturn(t) \/ ReadMismatch(t)
    BY <1>2, <2>1 DEF ReadReturn, ReadMismatch, pool, history
  <2>2. CASE ReadTail(t) \/ ReadState(t) \/ ReadFields(t) \/ ReadPayload(t) \/ ReadOk(t)
    <3>1. UNCHANGED <<reserve_tail, committed_tail, rec, entry, done, trimmed, corrupt, slot, op, cur,
                      new, limit>>
      BY <2>2 DEF ReadTail, ReadState, ReadFields, ReadPayload, ReadOk, pool, locals, history
    <3>2. \E l \in {"read", "read_state", "read_fields", "read_payload", "read_verify"} :
             pc' = [pc EXCEPT ![t] = l]
      BY <2>2 DEF ReadTail, ReadState, ReadFields, ReadPayload, ReadOk, Goto
    <3>3. \A u \in Threads \ {t} : cursor'[u] = cursor[u]
      BY <2>2 DEF ReadTail, ReadState, ReadFields, ReadPayload, ReadOk, locals, TypeOK
    <3> QED
      BY <1>1, <3>1, <3>2, <3>3
  <2> QED
    BY <1>9, <2>1, <2>2 DEF Read
<1>10. ASSUME NEW h \in Hosts, Crash(h) \/ Restart(h) PROVE Unmoved
  BY <1>10 DEF Crash, Restart, pool, locals, history, TypeOK, Unmoved, Holding, Recovering, Scanning
<1>11. ASSUME UNCHANGED vars PROVE Unmoved
  BY <1>11 DEF vars, pool, locals, history, Unmoved, Holding, Recovering, Scanning
<1> QED
  BY <1>3, <1>4, <1>5, <1>6, <1>7, <1>8, <1>9, <1>10, <1>11
     DEF Next, Rest, Step, Append, Advance, Recover, Trim

-----------------------------------------------------------------------------
(* RecoveryInv is inductive, next to LogInv and DataInv. *)

\* An unmoved step preserves RecoveryInv.
LEMMA RecoveryUnmoved ==
    ASSUME TypeInv, TypeInv', RecoveryInv, Unmoved
    PROVE  RecoveryInv'
<1>0. /\ reserve_tail \in Nat /\ reserve_tail' \in Nat
      /\ Slots \subseteq Nat /\ \A s \in Slots : s < Capacity
      /\ \A t \in Threads : limit[t] \in Nat
      /\ \A t \in Threads : Holding(t) => slot[t] \in Slots
  BY DEF TypeInv, TypeOK, Ranges, HasSlot, Slots
<1>1. ASSUME NEW t \in Threads PROVE Placed(t)' /\ Apart(t)'
  <2>1. Placed(t) /\ Apart(t)
    BY DEF RecoveryInv
  <2>2. Recovering(t)' => Recovering(t) /\ (Scanning(t)' <=> Scanning(t))
    BY DEF Unmoved, Recovering, Scanning
  <2>3. ASSUME Recovering(t) PROVE limit[t] <= reserve_tail' /\ limit[t] <= Capacity
    BY <1>0, <2>1, <2>3 DEF Placed, Unmoved
  <2>4. pc'[t] \in {"check", "abandon", "count_run"} => Recovering(t)'
    BY DEF Recovering, Scanning
  <2>5. Placed(t)'
    BY <2>1, <2>2, <2>3, <2>4 DEF Unmoved, Placed
  <2>6. Holding(t)' => rec'[slot'[t]].state # "ABANDONED"
    BY <1>0, <2>1 DEF Unmoved, Apart
  <2>7. Recovering(t)' => \A u \in Threads : Holding(u)' => limit'[t] <= slot'[u]
    BY <2>1, <2>2 DEF Unmoved, Apart
  <2>8. Recovering(t)' => \A s \in Slots : s < cursor'[t] => rec'[s].state # "WRITING"
    BY <2>1, <2>2 DEF Unmoved, Apart
  <2>9. Apart(t)'
    BY <2>1, <2>2, <2>4, <2>6, <2>7, <2>8 DEF Unmoved, Apart
  <2> QED
    BY <2>5, <2>9
<1>2. ASSUME NEW s \in Slots PROVE History(s)'
  <2>1. History(s) /\ s \in Nat /\ s < Capacity
    BY <1>0 DEF RecoveryInv
  <2>2. s >= reserve_tail' => s >= reserve_tail
    BY <1>0, <2>1 DEF Unmoved
  <2>3. rec'[s].state = rec[s].state /\ UNCHANGED <<committed_tail, done, trimmed, corrupt>>
    BY DEF Unmoved
  <2> QED
    BY <2>1, <2>2, <2>3 DEF History
<1> QED
  BY <1>1, <1>2 DEF RecoveryInv

\* A step that changes only the locals of one thread, outside an append, preserves
\* RecoveryInv if that thread is placed and apart afterwards.
LEMMA RecoveryLocal ==
    ASSUME RecoveryInv, NEW t \in Threads,
           UNCHANGED <<reserve_tail, committed_tail, rec, done, trimmed, corrupt, slot>>,
           \A u \in Threads \ {t} :
              /\ pc'[u] = pc[u] /\ op'[u] = op[u] /\ cur'[u] = cur[u] /\ new'[u] = new[u]
              /\ cursor'[u] = cursor[u] /\ limit'[u] = limit[u],
           ~ Holding(t)', Placed(t)', Apart(t)'
    PROVE  RecoveryInv'
<1>1. \A u \in Threads \ {t} : Placed(u)'
  BY DEF RecoveryInv, Placed, Recovering, Scanning
<1>2. \A u \in Threads : Holding(u)' => Holding(u)
  BY DEF Holding
<1>3. \A u \in Threads \ {t} : Apart(u)'
  BY <1>2 DEF RecoveryInv, Apart, Recovering, Scanning, Holding
<1>4. \A s \in Slots : History(s)'
  BY DEF RecoveryInv, History
<1> QED
  BY <1>1, <1>3, <1>4 DEF RecoveryInv

\* Loading the tail and walking from it preserve RecoveryInv: a walk of recover stops at
\* a slot that was never committed, unless something was trimmed or corrupted.
LEMMA RecoveryWalk ==
    ASSUME LogInv, RecoveryInv, NEW t \in Threads, LoadTail(t) \/ ScanOn(t) \/ ScanStop(t)
    PROVE  RecoveryInv'
<1> USE DEF LogInv, SlotsInv, TypeInv
<1>0. /\ Placed(t) /\ Apart(t) /\ committed_tail \in 0 .. Capacity
      /\ cur[t] \in 0 .. Capacity /\ new[t] \in 0 .. Capacity
      /\ limit[t] \in Nat /\ pc[t] \in {"load", "scan"}
  BY DEF RecoveryInv, TypeOK, LoadTail, ScanOn, ScanStop
<1>1. /\ UNCHANGED <<reserve_tail, committed_tail, rec, done, trimmed, corrupt, slot, op, cursor, limit>>
      /\ \A u \in Threads \ {t} : pc'[u] = pc[u] /\ cur'[u] = cur[u] /\ new'[u] = new[u]
  BY DEF LoadTail, ScanOn, ScanStop, Goto, pool, locals, history, TypeOK
<1>2. op[t] \in {"append", "recover"}
  BY <1>0 DEF Placed
<1>3. pc'[t] \in {"scan", "cas", AfterAdvance(t)}
  BY DEF LoadTail, ScanOn, ScanStop, Goto, TypeOK
<1>4. /\ ~ Holding(t)' /\ ~ Scanning(t)' /\ (Recovering(t)' <=> op[t] = "recover")
      /\ op[t] = "recover" <=> Recovering(t)
  BY <1>0, <1>1, <1>2, <1>3 DEF AfterAdvance, Holding, Recovering, Scanning
<1>5. \A u \in Threads : Holding(u)' => Holding(u)
  BY <1>1, <1>4 DEF Holding
<1>6. pc'[t] # "scan" => ScanStop(t) /\ new'[t] = new[t] /\ cur'[t] = cur[t]
  BY DEF LoadTail, ScanOn, ScanStop, Goto, TypeOK, locals
<1>7. pc'[t] = "cas" => cur'[t] < new'[t]
  <2>1. pc'[t] = "cas" => cur[t] # new[t] /\ cur[t] <= new[t]
    BY <1>2, <1>6 DEF ScanStop, AfterAdvance, Goto, TypeOK, Ranges
  <2> QED
    BY <1>0, <1>6, <2>1
<1>8. pc'[t] = "count_run" => new'[t] <= committed_tail'
  <2>1. pc'[t] = "count_run" => new[t] = cur[t] /\ cur[t] <= committed_tail
    BY <1>6 DEF ScanStop, Goto, TypeOK, TailInv
  <2> QED
    BY <1>1, <1>6, <2>1
<1>9. Placed(t)'
  BY <1>0, <1>1, <1>2, <1>3, <1>4, <1>7, <1>8 DEF Placed, AfterAdvance, Scanning
<1>10. pc'[t] # "scan" /\ new[t] < limit[t] /\ op[t] = "recover" /\ trimmed \cup corrupt = {} =>
          new[t] \notin done
  <2> SUFFICES ASSUME pc'[t] # "scan", new[t] < limit[t], op[t] = "recover",
                      trimmed \cup corrupt = {}
               PROVE  new[t] \notin done
    OBVIOUS
  <2>1. limit[t] <= Capacity
    BY <1>4 , <1>0 DEF Placed
  <2>2. new[t] \in Slots /\ rec[new[t]].state # "COMMITTED"
    BY <1>0, <1>6, <2>1 DEF ScanStop, Contiguous, Slots
  <2> QED
    BY <2>2 DEF RecoveryInv, History
<1>11. Apart(t)'
  BY <1>0, <1>1, <1>3, <1>4, <1>5, <1>6, <1>10 DEF Apart, AfterAdvance
<1> QED
  BY <1>1, <1>4, <1>9, <1>11, RecoveryLocal

\* The steps of recover's scan that only load preserve RecoveryInv: at the call nobody holds
\* a slot, and a COMMITTED slot that fails its checksum was hit by a fault.
LEMMA RecoveryScan ==
    ASSUME Quiesced, LogInv, DataInv, RecoveryInv, NEW t \in Threads,
           CallRecover(t) \/ Inspect(t) \/ Check(t) \/ RecoverPhase2(t)
    PROVE  RecoveryInv'
<1> USE DEF LogInv, SlotsInv, TypeInv
<1>0. /\ Placed(t) /\ Apart(t) /\ reserve_tail \in Nat
      /\ limit[t] \in Nat /\ cursor[t] \in Nat /\ \A s \in Slots : s \in Nat /\ ~ (s < 0)
  BY DEF RecoveryInv, TypeOK, Slots
<1>1. /\ UNCHANGED <<reserve_tail, committed_tail, rec, done, trimmed, corrupt, slot, cur, new>>
      /\ \A u \in Threads \ {t} :
            /\ pc'[u] = pc[u] /\ op'[u] = op[u] /\ cursor'[u] = cursor[u] /\ limit'[u] = limit[u]
  BY DEF CallRecover, Inspect, Check, RecoverPhase2, Goto, pool, locals, history, TypeOK
<1>2. CASE CallRecover(t)
  <2>1. /\ pc'[t] = "inspect" /\ cursor'[t] = 0 /\ limit'[t] = MinOf(reserve_tail, Capacity)
        /\ \A u \in Threads : ~ Holding(u)
    BY <1>2 DEF CallRecover, Goto, TypeOK
  <2>2. \A u \in Threads : ~ Holding(u)'
    BY <1>1, <2>1 DEF Holding
  <2>3. Placed(t)'
    BY <1>0, <1>1, <2>1 DEF Placed, MinOf, Scanning
  <2>4. Apart(t)'
    BY <1>0, <2>1, <2>2 DEF Apart
  <2> QED
    BY <1>1, <2>2, <2>3, <2>4, RecoveryLocal
<1>3. CASE RecoverPhase2(t)
  <2>1. /\ pc[t] = "inspect" /\ cursor[t] = limit[t] /\ pc'[t] = "load"
        /\ UNCHANGED <<op, cursor, limit>> /\ op[t] = "recover"
    BY <1>3 DEF RecoverPhase2, Goto, TypeOK, locals, Ranges
  <2>2. ~ Holding(t)' /\ Recovering(t) /\ \A u \in Threads : Holding(u)' => Holding(u)
    BY <1>1, <2>1 DEF Holding, Recovering, Scanning
  <2>3. Placed(t)'
    BY <1>0, <1>1, <2>1, <2>2 DEF Placed
  <2>4. Apart(t)'
    BY <1>0, <1>1, <2>1, <2>2 DEF Apart
  <2> QED
    BY <1>1, <2>2, <2>3, <2>4, RecoveryLocal
<1>4. CASE Inspect(t) \/ Check(t)
  <2>1. /\ pc[t] \in {"inspect", "check"} /\ cursor[t] < limit[t] /\ Recovering(t)
        /\ UNCHANGED <<op, limit>> /\ limit[t] <= Capacity /\ cursor[t] \in Slots
    BY <1>0, <1>4 DEF Inspect, Check, Ranges, Recovering, Scanning, Slots
  <2>2. \/ pc'[t] = "inspect" /\ cursor'[t] = cursor[t] + 1
        \/ pc'[t] \in {"check", "abandon"} /\ cursor' = cursor
    BY <1>4, <2>1 DEF Inspect, Check, Goto, TypeOK
  <2>3. pc'[t] = "inspect" => rec[cursor[t]].state # "WRITING"
    <3>1. ASSUME Inspect(t), pc'[t] = "inspect" PROVE rec[cursor[t]].state # "WRITING"
      BY <3>1, <2>1 DEF Inspect, Goto, TypeOK
    <3>2. ASSUME Check(t) PROVE rec[cursor[t]].state # "WRITING"
      BY <3>2, <1>0, <2>1 DEF Check, Placed, RecoveryInv, History
    <3> QED
      BY <1>4, <3>1, <3>2
  <2>4. pc'[t] = "check" => cursor[t] \in done
    BY <1>4, <2>1 DEF Inspect, Check, Goto, TypeOK, TailInv
  <2>5. pc'[t] = "abandon" => cursor[t] \notin done \/ cursor[t] \in corrupt
    <3>1. CASE Inspect(t)
      <4>1. pc'[t] = "abandon" => rec[cursor[t]].state \notin {"FREE", "ABANDONED", "COMMITTED"}
        BY <3>1 DEF Inspect, Goto, TypeOK
      <4> QED
        BY <4>1, <2>1 DEF TailInv
    <3>2. CASE Check(t)
      <4>1. cursor[t] \in done /\ (pc'[t] = "abandon" => ~ Verify(rec[cursor[t]]))
        BY <1>0, <3>2 DEF Check, Placed, Goto, TypeOK
      <4>2. Sealed(cursor[t])
        BY <4>1 DEF DataInv
      <4>3. cursor[t] \notin corrupt => Verify(rec[cursor[t]])
        BY <4>2 DEF Sealed, Labelled, Whole, Sum, Verify
      <4> QED
        BY <4>1, <4>3
    <3> QED
      BY <1>4, <3>1, <3>2
  <2>6. /\ ~ Holding(t)' /\ Scanning(t)' /\ pc'[t] \notin {"load", "scan", "cas", "count_run"}
        /\ \A u \in Threads : Holding(u)' => Holding(u)
    BY <1>1, <2>1, <2>2 DEF Holding, Scanning
  <2>7. Placed(t)'
    BY <1>0, <1>1, <2>1, <2>2, <2>4, <2>6 DEF Placed
  <2>8. \A s \in Slots : s < cursor'[t] => rec[s].state # "WRITING"
    <3>1. \A s \in Slots : s < cursor[t] + 1 => s < cursor[t] \/ s = cursor[t]
      BY <1>0
    <3> QED
      BY <1>0, <2>1, <2>2, <2>3, <3>1 DEF Apart
  <2>9. Apart(t)'
    BY <1>0, <1>1, <2>1, <2>2, <2>5, <2>6, <2>8 DEF Apart
  <2> QED
    BY <1>1, <2>1, <2>6, <2>7, <2>9, RecoveryLocal
<1> QED
  BY <1>2, <1>3, <1>4

\* A claim preserves RecoveryInv: the slot is beyond what any recovery looks at.
LEMMA RecoveryClaim ==
    ASSUME LogInv, RecoveryInv, NEW t \in Threads, NEW term \in Terms, NEW data \in Payloads,
           Claim(t, term, data)
    PROVE  RecoveryInv'
<1> USE DEF LogInv, SlotsInv, TypeInv
<1>0. /\ reserve_tail \in Slots /\ reserve_tail \in Nat /\ reserve_tail' = reserve_tail + 1
      /\ \A s \in Slots : s \in Nat
      /\ \A u \in Threads : limit[u] \in Nat
  BY DEF Claim, Call, TypeOK, Slots, ReserveInv, WrappingAdd
<1>1. /\ UNCHANGED <<committed_tail, rec, done, trimmed, corrupt, cursor, limit, cur, new>>
      /\ \A u \in Threads \ {t} : pc'[u] = pc[u] /\ slot'[u] = slot[u] /\ op'[u] = op[u]
      /\ pc'[t] = "mark" /\ slot'[t] = reserve_tail
  BY DEF Claim, Goto, TypeOK
<1>2. \A u \in Threads : Recovering(u)' => u # t /\ Recovering(u) /\ (Scanning(u)' <=> Scanning(u))
  BY <1>1 DEF Recovering, Scanning
<1>3. \A u \in Threads : Placed(u) /\ (Recovering(u) => limit[u] <= reserve_tail')
  BY <1>0 DEF RecoveryInv, Placed
<1>4. \A u \in Threads : Placed(u)'
  BY <1>1, <1>2, <1>3 DEF Placed
<1>5. \A u \in Threads : Holding(u)' => u = t \/ Holding(u)
  BY <1>1 DEF Holding
<1>6. ASSUME NEW u \in Threads PROVE Apart(u)'
  <2>1. Apart(u) /\ Placed(u)
    BY DEF RecoveryInv
  <2>2. Recovering(u)' => \A v \in Threads : Holding(v)' => limit'[u] <= slot'[v]
    BY <1>1, <1>2, <1>5, <2>1 DEF Apart, Placed
  <2>3. Holding(u)' => rec'[slot'[u]].state # "ABANDONED"
    <3>1. rec[reserve_tail].state # "ABANDONED"
      BY <1>0 DEF RecoveryInv, History
    <3> QED
      BY <1>1, <1>5, <2>1, <3>1 DEF Apart
  <2> QED
    BY <1>1, <1>2, <2>1, <2>2, <2>3 DEF Apart
<1>7. \A s \in Slots : History(s)'
  BY <1>0, <1>1 DEF RecoveryInv, History
<1> QED
  BY <1>4, <1>6, <1>7 DEF RecoveryInv

\* The compare-exchange preserves RecoveryInv.
LEMMA RecoveryCas ==
    ASSUME LogInv, RecoveryInv, NEW t \in Threads, Cas(t), committed_tail <= committed_tail'
    PROVE  RecoveryInv'
<1> USE DEF LogInv, SlotsInv, TypeInv
<1>0. /\ committed_tail \in 0 .. Capacity /\ committed_tail' \in Nat
      /\ \A u \in Threads : new[u] \in 0 .. Capacity
      /\ \A s \in Slots : s \in Nat
  BY DEF Cas, TypeOK, Slots
<1>1. /\ UNCHANGED <<reserve_tail, rec, done, trimmed, corrupt, slot, op, cursor, limit, cur, new>>
      /\ \A u \in Threads \ {t} : pc'[u] = pc[u]
      /\ pc[t] = "cas" /\ op[t] \in {"append", "recover"}
  BY DEF Cas, Goto, locals, history, TypeOK, RecoveryInv, Placed
<1>2. pc'[t] = "load" \/ (pc'[t] = AfterAdvance(t) /\ committed_tail' = new[t])
  BY DEF Cas, Goto, TypeOK
<1>3. /\ \A u \in Threads : /\ Recovering(u)' => Recovering(u)
                            /\ Recovering(u)' => (Scanning(u)' <=> Scanning(u))
      /\ pc'[t] \in {"load", "count_append", "count_run"}
      /\ pc'[t] = "count_run" => Recovering(t) /\ committed_tail' = new[t]
      /\ \A u \in Threads : Holding(u)' => Holding(u)
  BY <1>1, <1>2 DEF AfterAdvance, Recovering, Scanning, Holding
<1>4. ASSUME NEW u \in Threads PROVE Placed(u)'
  <2>1. Placed(u) /\ (pc[u] = "count_run" => new[u] <= committed_tail')
    BY <1>0 DEF RecoveryInv, Placed
  <2> QED
    BY <1>0, <1>1, <1>3, <2>1 DEF Placed, Scanning
<1>5. ASSUME NEW u \in Threads PROVE Apart(u)'
  <2>1. Apart(u)
    BY DEF RecoveryInv
  <2> QED
    BY <1>1, <1>3, <2>1 DEF Apart
<1>6. \A s \in Slots : History(s)'
  <2>1. trimmed \subseteq Slots
    BY DEF TypeOK
  <2> QED
    BY <1>0, <1>1 DEF RecoveryInv, History
<1> QED
  BY <1>4, <1>5, <1>6 DEF RecoveryInv

\* MarkWriting and the commit of an append preserve RecoveryInv: the slot is beyond what
\* any recovery looks at, and nobody else has committed or trimmed it.
LEMMA RecoveryStore ==
    ASSUME LogInv, RecoveryInv, NEW t \in Threads, MarkWriting(t) \/ Commit(t)
    PROVE  RecoveryInv'
<1> USE DEF LogInv, SlotsInv, TypeInv
<1> DEFINE x == slot[t]
<1>0. /\ \A s \in Slots : s \in Nat
      /\ \A u \in Threads : /\ limit[u] \in Nat /\ cursor[u] \in Nat
                            /\ new[u] \in Nat
      /\ reserve_tail \in Nat /\ done \subseteq Slots
  BY DEF TypeOK, Slots
<1>1. /\ x \in Slots /\ x \notin done /\ x < reserve_tail /\ Holding(t)
      /\ "WRITING" \in States /\ "COMMITTED" \in States
      /\ \A u \in Threads \ {t} : Holding(u) => slot[u] \in Slots /\ slot[u] # x
  BY DEF MarkWriting, Commit, Ranges, HasSlot, Holding, SlotInv, SlotExclusive, States
<1>2. /\ UNCHANGED <<reserve_tail, committed_tail, trimmed, corrupt, slot, op, cursor, limit, cur, new>>
      /\ \A u \in Threads \ {t} : pc'[u] = pc[u]
      /\ pc'[t] \in {"fields", "load"} /\ (pc'[t] = "load" <=> Commit(t))
      /\ op[t] = "append"
  BY <1>1 DEF MarkWriting, Commit, Goto, locals, history, TypeOK, Ranges
<1>3. /\ \A s \in Slots \ {x} : rec'[s] = rec[s]
      /\ \/ rec'[x].state = "WRITING" /\ done' = done /\ MarkWriting(t)
         \/ rec'[x].state = "COMMITTED" /\ done' = done \cup {x} /\ Commit(t)
  BY <1>1, SetStateFacts DEF MarkWriting, Commit, TypeOK, history
<1>4. \A u \in Threads : Recovering(u)' => u # t /\ Recovering(u) /\ (Scanning(u)' <=> Scanning(u))
  BY <1>2 DEF Recovering, Scanning
<1>5. \A u \in Threads : Recovering(u) => /\ limit[u] <= x
                                          /\ (Scanning(u) => cursor[u] <= limit[u])
                                          /\ (~ Scanning(u) => cursor[u] = limit[u])
                                          /\ (pc[u] \in {"check", "abandon"} => cursor[u] < limit[u])
  BY <1>1 DEF RecoveryInv, Apart, Placed, Ranges, Scanning
<1>6. \A u \in Threads : Holding(u)' => Holding(u)
  BY <1>1, <1>2 DEF Holding
<1>7. \A u \in Threads : Placed(u)'
  BY <1>2, <1>3, <1>4 DEF RecoveryInv, Placed
<1>8. ASSUME NEW u \in Threads PROVE Apart(u)'
  <2>1. Apart(u)
    BY DEF RecoveryInv
  <2>2. Recovering(u)' => \A s \in Slots : s < cursor'[u] => rec'[s].state # "WRITING"
    <3>1. Recovering(u)' => \A s \in Slots : s < cursor[u] => s # x
      BY <1>0, <1>1, <1>4, <1>5
    <3> QED
      BY <1>2, <1>3, <1>4, <2>1, <3>1 DEF Apart
  <2>3. pc'[u] = "abandon" => u # t /\ Recovering(u) /\ cursor[u] # x
    <3>1. pc'[u] = "abandon" => u # t /\ pc[u] = "abandon" /\ Recovering(u)
      BY <1>2 DEF Recovering, Scanning
    <3> QED
      BY <1>0, <1>1, <1>5, <3>1
  <2>4. Holding(u)' => rec'[slot'[u]].state # "ABANDONED"
    BY <1>1, <1>2, <1>3, <1>6, <2>1 DEF Apart
  <2>5. Recovering(u)' /\ new[u] < limit[u] => new[u] # x
    BY <1>0, <1>1, <1>4, <1>5
  <2> QED
    BY <1>2, <1>3, <1>4, <1>6, <2>1, <2>2, <2>3, <2>4, <2>5 DEF Apart
<1>9. \A s \in Slots : History(s)'
  BY <1>0, <1>1, <1>2, <1>3 DEF RecoveryInv, History
<1> QED
  BY <1>7, <1>8, <1>9 DEF RecoveryInv

\* Abandoning preserves RecoveryInv: no append holds the slot, and if it was committed
\* then it is visible and trimmed, or a fault hit it.
LEMMA RecoveryAbandon ==
    ASSUME LogInv, RecoveryInv, NEW t \in Threads, Abandon(t) \/ TrimStore(t)
    PROVE  RecoveryInv'
<1> USE DEF LogInv, SlotsInv, TypeInv
<1> DEFINE x == cursor[t]
<1>0. /\ \A s \in Slots : s \in Nat
      /\ \A u \in Threads : limit[u] \in Nat /\ cursor[u] \in Nat
      /\ reserve_tail \in Nat /\ committed_tail \in 0 .. Capacity
      /\ x \in Slots /\ "ABANDONED" \in States
  BY AbandonsSlot, SMTT(20) DEF TypeOK, Slots, States
<1>1. /\ UNCHANGED <<reserve_tail, committed_tail, done, corrupt, slot, op, limit, cur, new>>
      /\ \A u \in Threads \ {t} : pc'[u] = pc[u] /\ cursor'[u] = cursor[u]
      /\ pc'[t] \in {"inspect", "trim"} /\ cursor'[t] = x + 1
  BY DEF Abandon, TrimStore, Goto, history, TypeOK
<1>2. rec'[x].state = "ABANDONED" /\ \A s \in Slots \ {x} : rec'[s] = rec[s]
  BY <1>0, SetStateFacts DEF Abandon, TrimStore, TypeOK
<1>3. \/ /\ Abandon(t) /\ pc[t] = "abandon" /\ Recovering(t) /\ pc'[t] = "inspect" /\ trimmed' = trimmed
         /\ x \notin done \/ x \in corrupt
         /\ x < limit[t] /\ limit[t] <= reserve_tail /\ limit[t] <= Capacity
      \/ /\ TrimStore(t) /\ pc[t] = "trim_store" /\ pc'[t] = "trim" /\ trimmed' = trimmed \cup {x}
         /\ x < committed_tail
  <2>1. CASE Abandon(t)
    <3>1. pc[t] = "abandon" /\ pc'[t] = "inspect" /\ trimmed' = trimmed
      BY <2>1 DEF Abandon, Goto, history, TypeOK
    <3>2. Recovering(t) /\ x < limit[t]
      BY <3>1 DEF Recovering, Scanning, Ranges
    <3>3. Placed(t) /\ Apart(t)
      BY DEF RecoveryInv
    <3> QED
      BY <2>1, <3>1, <3>2, <3>3 DEF Placed, Apart
  <2>2. CASE TrimStore(t)
    <3>1. pc[t] = "trim_store" /\ pc'[t] = "trim" /\ trimmed' = trimmed \cup {x}
      BY <2>2 DEF TrimStore, Goto, TypeOK
    <3>2. x < limit[t] /\ limit[t] <= committed_tail
      BY <3>1 DEF Ranges
    <3> QED
      BY <1>0, <2>2, <3>1, <3>2
  <2> QED
    BY <2>1, <2>2
<1>4. TrimStore(t) => x \in done /\ x < reserve_tail
  BY <1>0, <1>3 DEF TailInv, SlotInv, TrimStore
<1>5. \A u \in Threads : Holding(u) => u # t /\ slot[u] # x /\ slot[u] \in Slots
  <2> SUFFICES ASSUME NEW u \in Threads, Holding(u)
               PROVE  u # t /\ slot[u] # x /\ slot[u] \in Slots
    OBVIOUS
  <2>1. slot[u] \in Slots /\ slot[u] \notin done
    BY DEF Ranges, HasSlot, SlotInv, SlotExclusive
  <2>2. u # t
    BY <1>3 DEF Holding
  <2>3. Abandon(t) => limit[t] <= slot[u] /\ x < limit[t]
    BY <1>3 DEF RecoveryInv, Apart, Abandon
  <2> QED
    BY <1>0, <1>4, <2>1, <2>2, <2>3
<1>6. \A u \in Threads : /\ Holding(u)' => Holding(u)
                         /\ Recovering(u)' => Recovering(u) /\ (Scanning(u)' <=> Scanning(u))
  BY <1>1, <1>3 DEF Holding, Recovering, Scanning
<1>7. ASSUME NEW u \in Threads PROVE Placed(u)'
  <2>1. Placed(u)
    BY DEF RecoveryInv
  <2>2. CASE u = t
    <3>1. pc'[t] = "inspect" => Scanning(t)' /\ Recovering(t) /\ limit'[t] = limit[t]
      BY <1>1, <1>3 DEF Scanning
    <3>2. pc'[t] = "trim" => ~ Recovering(t)'
      BY DEF Recovering, Scanning
    <3> QED
      BY <1>1, <2>1, <2>2, <3>1, <3>2 DEF Placed
  <2>3. CASE u # t
    BY <1>1, <1>6, <2>1, <2>3 DEF Placed
  <2> QED
    BY <2>2, <2>3
<1>8. ASSUME NEW u \in Threads PROVE Apart(u)'
  <2>1. Apart(u)
    BY DEF RecoveryInv
  <2>2. Recovering(u)' => \A s \in Slots : s < cursor'[u] => rec'[s].state # "WRITING"
    <3>1. \A s \in Slots : s < cursor'[t] => s < cursor[t] \/ s = x
      BY <1>0, <1>1
    <3>2. Recovering(u)' => \A s \in Slots : s < cursor'[u] => s < cursor[u] \/ s = x
      BY <1>1, <3>1
    <3> QED
      BY <1>2, <1>6, <2>1, <3>2 DEF Apart
  <2>3. Holding(u)' => rec'[slot'[u]].state # "ABANDONED"
    BY <1>1, <1>2, <1>5, <1>6, <2>1 DEF Apart
  <2>4. trimmed' \cup corrupt' = {} => trimmed \cup corrupt = {}
    BY <1>1, <1>3
  <2>5. pc'[u] \in {"abandon", "cas", "count_run"} => u # t
    BY <1>1
  <2> QED
    BY <1>1, <1>6, <2>1, <2>2, <2>3, <2>4, <2>5 DEF Apart
<1>9. \A s \in Slots : History(s)'
  BY <1>0, <1>1, <1>2, <1>3, <1>4 DEF RecoveryInv, History
<1> QED
  BY <1>7, <1>8, <1>9 DEF RecoveryInv

\* A media fault preserves RecoveryInv: the slot counts as corrupt from then on.
LEMMA RecoveryFault ==
    ASSUME TypeInv, RecoveryInv, NEW x \in Slots, MediaFault(x)
    PROVE  RecoveryInv'
<1> USE DEF TypeInv
<1>1. /\ UNCHANGED <<reserve_tail, committed_tail, done, trimmed, pc, slot, op, cursor, limit, cur, new>>
      /\ corrupt' = corrupt \cup {x}
  BY DEF MediaFault, locals
<1>4. \A s \in Slots : rec'[s].state = rec[s].state \/ (s = x /\ rec'[s].state = "UNKNOWN")
  BY FaultFacts DEF TypeOK
<1>5. \A u \in Threads : /\ Holding(u)' <=> Holding(u)
                         /\ Recovering(u)' <=> Recovering(u)
                         /\ Scanning(u)' <=> Scanning(u)
                         /\ Holding(u) => slot[u] \in Slots
  BY <1>1 DEF Holding, Recovering, Scanning, Ranges, HasSlot
<1>6. \A u \in Threads : Placed(u)'
  BY <1>1, <1>5 DEF RecoveryInv, Placed
<1>7. \A u \in Threads : Apart(u)'
  BY <1>1, <1>4, <1>5 DEF RecoveryInv, Apart
<1>8. \A s \in Slots : History(s)'
  BY <1>1, <1>4 DEF RecoveryInv, History
<1> QED
  BY <1>6, <1>7, <1>8 DEF RecoveryInv

\* Everything known of the log, when recovery waits for the appends in flight.
QuietInv == LogInv /\ DataInv /\ RecoveryInv

\* The whole inductive invariant holds in every reachable state.
LEMMA RecoveryInvariant ==
    ASSUME Quiesced
    PROVE  Spec => []QuietInv
<1>1. Init => RecoveryInv
  BY DEF Init, RecoveryInv, Placed, Apart, History, Recovering, Scanning, Holding, ZeroRecord
<1>2. LogInv /\ DataInv /\ RecoveryInv /\ [Next]_vars => RecoveryInv'
  <2> SUFFICES ASSUME LogInv, DataInv, RecoveryInv, [Next]_vars PROVE RecoveryInv'
    OBVIOUS
  <2>1. TypeInv /\ TypeInv' /\ SlotsInv /\ committed_tail <= committed_tail'
    BY TypeNext, TailNext DEF LogInv, SlotsInv
  <2> QED
    BY <2>1, UnmovedSteps, RecoveryUnmoved, RecoveryWalk, RecoveryScan, RecoveryClaim, RecoveryCas,
       RecoveryStore, RecoveryAbandon, RecoveryFault
<1> QED
  BY <1>1, <1>2, DataInvariant, PTL DEF Spec, QuietInv

-----------------------------------------------------------------------------
(* What the clients rely on. *)

\* An append that returned Ok stays in the log until trim drops it or a fault hits it: no
\* crash, no interleaving and no quiesced recovery takes it away.
THEOREM AcknowledgedIsDurable ==
    ASSUME Quiesced
    PROVE  Spec => []AckedDurable
<1>1. QuietInv => AckedDurable
  <2> SUFFICES ASSUME QuietInv, NEW s \in acked
               PROVE  rec[s].state = "COMMITTED" \/ s \in trimmed \/ s \in corrupt
    BY DEF AckedDurable
  <2>1. s \in done /\ s \in Slots
    BY DEF QuietInv, LogInv, SlotsInv, SlotInv, TypeInv, TypeOK
  <2> QED
    BY <2>1 DEF QuietInv, RecoveryInv, History
<1> QED
  BY <1>1, RecoveryInvariant, PTL

\* A record that recover or trim abandoned never comes back: no append is left that would
\* store COMMITTED over it.
THEOREM AbandonedIsFinal ==
    ASSUME Quiesced
    PROVE  Spec => AbandonedFinal
<1> DEFINE Stays(s) == rec[s].state = "ABANDONED" => rec'[s].state \in {"ABANDONED", "UNKNOWN"}
<1>1. QuietInv /\ [Next]_vars => [\A s \in Slots : Stays(s)]_vars
  <2> SUFFICES ASSUME QuietInv, [Next]_vars, NEW s \in Slots PROVE Stays(s)
    OBVIOUS
  <2> USE DEF QuietInv, LogInv, SlotsInv
  <2>1. CASE Unmoved
    BY <2>1 DEF Unmoved
  <2>2. CASE UNCHANGED rec
    BY <2>2
  <2>3. ASSUME NEW t \in Threads, MarkWriting(t) \/ Commit(t) PROVE Stays(s)
    <3>1. Holding(t) /\ slot[t] \in Slots /\ "WRITING" \in States /\ "COMMITTED" \in States
      BY <2>3 DEF MarkWriting, Commit, Holding, HasSlot, TypeInv, Ranges, States
    <3>2. rec[slot[t]].state # "ABANDONED"
      BY <3>1 DEF RecoveryInv, Apart
    <3>3. \A r \in Slots \ {slot[t]} : rec'[r] = rec[r]
      BY <2>3, <3>1, SetStateFacts DEF MarkWriting, Commit, TypeInv, TypeOK
    <3> QED
      BY <3>2, <3>3
  <2>4. ASSUME NEW t \in Threads, Abandon(t) \/ TrimStore(t) PROVE Stays(s)
    <3>1. cursor[t] \in Slots /\ "ABANDONED" \in States
      BY <2>4, AbandonsSlot DEF States
    <3>2. rec'[cursor[t]].state = "ABANDONED" /\ \A r \in Slots \ {cursor[t]} : rec'[r] = rec[r]
      BY <2>4, <3>1, SetStateFacts DEF Abandon, TrimStore, TypeInv, TypeOK
    <3> QED
      BY <3>2
  <2>5. ASSUME NEW x \in Slots, MediaFault(x) PROVE Stays(s)
    BY <2>5, FaultFacts DEF TypeInv, TypeOK
  <2>6. ASSUME NEW t \in Threads,
               \/ \E term \in Terms, data \in Payloads : Claim(t, term, data)
               \/ LoadTail(t) \/ ScanOn(t) \/ ScanStop(t) \/ Cas(t)
               \/ CallRecover(t) \/ Inspect(t) \/ Check(t) \/ RecoverPhase2(t)
        PROVE  UNCHANGED rec
    BY <2>6 DEF Claim, LoadTail, ScanOn, ScanStop, Cas, CallRecover, Inspect, Check, RecoverPhase2, pool
  <2> QED
    BY <2>1, <2>2, <2>3, <2>4, <2>5, <2>6, UnmovedSteps
<1> QED
  BY <1>1, RecoveryInvariant, PTL DEF Spec, AbandonedFinal

\* When recover is done and everybody else rests, no slot it scanned is left in flight, and
\* the tail stands behind them or at the first record that is not committed.
THEOREM RecoveryRepairs ==
    ASSUME Quiesced
    PROVE  Spec => []RecoverRepairs
<1>1. QuietInv => RecoverRepairs
  <2> SUFFICES ASSUME QuietInv, NEW t \in Threads, pc[t] = "count_run"
               PROVE  /\ \A s \in Slots : s < limit[t] /\ s \notin corrupt =>
                            rec[s].state \in {"FREE", "COMMITTED", "ABANDONED"}
                      /\ trimmed \cup corrupt = {} /\ committed_tail < limit[t] =>
                            rec[committed_tail].state # "COMMITTED"
    BY DEF RecoverRepairs
  <2> USE DEF QuietInv, LogInv, SlotsInv, TypeInv
  <2>0. /\ committed_tail \in 0 .. Capacity /\ new[t] \in 0 .. Capacity /\ limit[t] \in Nat
        /\ Placed(t) /\ Apart(t) /\ Recovering(t) /\ ~ Scanning(t)
    BY DEF TypeOK, RecoveryInv, Recovering, Scanning
  <2>1. cursor[t] = limit[t] /\ limit[t] <= Capacity /\ new[t] <= committed_tail
    BY <2>0 DEF Placed
  <2>2. ASSUME NEW s \in Slots, s < limit[t], s \notin corrupt
        PROVE  rec[s].state \in {"FREE", "COMMITTED", "ABANDONED"}
    <3>1. rec[s].state \in States
      BY DEF TypeOK, Records
    <3>2. rec[s].state # "WRITING" /\ rec[s].state # "UNKNOWN"
      BY <2>0, <2>1, <2>2 DEF Apart, RecoveryInv, History
    <3> QED
      BY <3>1, <3>2 DEF States
  <2>3. ASSUME trimmed \cup corrupt = {}, committed_tail < limit[t]
        PROVE  rec[committed_tail].state # "COMMITTED"
    <3>1. new[t] \notin done
      BY <2>0, <2>1, <2>3 DEF Apart
    <3>2. new[t] \in Slots /\ committed_tail \in Slots
      BY <2>0, <2>1, <2>3 DEF Slots
    <3>3. new[t] = committed_tail
      BY <2>0, <2>1, <3>1, <3>2 DEF TailInv
    <3> QED
      BY <3>1, <3>2, <3>3 DEF TailInv
  <2> QED
    BY <2>2, <2>3
<1> QED
  BY <1>1, RecoveryInvariant, PTL


-----------------------------------------------------------------------------
(***************************************************************************)
(* The committed tail keeps up: of appends that finish at the same time,   *)
(* each seeing a part of the others' records, one moves the tail over all  *)
(* of them.  An append that dies on the way may leave the tail behind, but *)
(* then it was never acknowledged.  A trim leaves a gap for good.          *)
(***************************************************************************)


\* A thread in advance_committed_tail will move the tail beyond slot s, or start over,
\* unless it is about to exchange the present tail for one that is not beyond s.
Walking(t) == pc[t] \in {"load", "scan", "cas"}
AtExchange(t) == pc[t] = "cas" /\ cur[t] = committed_tail
Covers(t, s) == Walking(t) /\ (AtExchange(t) => s < new[t])

\* The tail, and the tails it may be exchanged for.
Tails == {committed_tail} \cup {new[t] : t \in {u \in Threads : AtExchange(u)}}

\* Slots tail up to s are committed.
Run(tail, s) == \A r \in Slots : tail <= r /\ r <= s => r \in done

\* Slot r is not acknowledged, and will not be before the tail is beyond s.
Owed(r, s) == r \notin acked /\ \A t \in Threads : Finishing(t) /\ slot[t] = r => Covers(t, s)

\* Of the committed slots the tail could be beyond, and is not, one is still to be acknowledged: by
\* an append that will see to the tail first, or, when that one died, never.
Prompt ==
    trimmed \cup corrupt = {} =>
        \A p \in Tails, s \in Slots : p <= s /\ Run(p, s) => \E r \in Slots : p <= r /\ r <= s /\ Owed(r, s)

\* While nobody has died, every claimed slot is committed, or held ...
Claimed ==
    \A s \in Slots : s < reserve_tail => s \in done \/ \E t \in Threads : Holding(t) /\ slot[t] = s

\* ... and every committed one acknowledged, or about to be.
Committed ==
    \A s \in done : s \in acked \/ \E t \in Threads : Finishing(t) /\ slot[t] = s

PromptInv == Prompt /\ (crashes = 0 => Claimed /\ Committed)

\* A step of t leaves the others where they are.
Others(t) ==
    \A u \in Threads \ {t} :
        pc'[u] = pc[u] /\ op'[u] = op[u] /\ slot'[u] = slot[u] /\ cur'[u] = cur[u] /\ new'[u] = new[u]

\* Threads move one at a time.
LEMMA ThreadsMove ==
    ASSUME TypeInv, [Next]_vars
    PROVE  \/ UNCHANGED vars
           \/ \E t \in Threads : (Start(t) \/ Step(t)) /\ Others(t)
           \/ \E h \in Hosts : Crash(h) \/ Restart(h)
           \/ \E s \in Slots : MediaFault(s)
<1> USE DEF TypeInv
<1>3. ASSUME NEW t \in Threads, Start(t) PROVE Others(t)
  <2>1. ASSUME UNCHANGED <<pc, locals>> PROVE Others(t)
    BY <2>1 DEF locals, Others
  <2>2. ASSUME NEW data \in Payloads, ClaimFull(t, data) PROVE Others(t)
    BY <2>2 DEF ClaimFull, Goto, TypeOK, Others
  <2>3. ASSUME NEW term \in Terms, NEW data \in Payloads, Claim(t, term, data) PROVE Others(t)
    BY <2>3 DEF Claim, Goto, TypeOK, Others
  <2>4. CASE CallRecover(t)
    BY <2>4 DEF CallRecover, Goto, TypeOK, Others
  <2>5. ASSUME NEW upTo \in 0 .. Capacity, CallTrim(t, upTo) PROVE Others(t)
    BY <2>5 DEF CallTrim, Goto, TypeOK, Others
  <2>6. ASSUME NEW first \in 0 .. Capacity + 1, NEW last \in 0 .. Capacity + 1, CallRead(t, first, last)
        PROVE  Others(t)
    BY <2>6 DEF CallRead, Goto, TypeOK, Others
  <2> QED
    BY <1>3, <2>1, <2>2, <2>3, <2>4, <2>5, <2>6 DEF Start, AppendTooLarge, TrimBeyond
<1>4. ASSUME NEW t \in Threads, Return(t) PROVE Others(t)
  BY <1>4 DEF Return, Goto, TypeOK, Others
<1>5. ASSUME NEW t \in Threads, NEW l, pc' = [pc EXCEPT ![t] = l], UNCHANGED <<op, slot>>,
             \A u \in Threads \ {t} : cur'[u] = cur[u] /\ new'[u] = new[u]
      PROVE  Others(t)
  BY <1>5 DEF TypeOK, Others
<1>6. ASSUME NEW t \in Threads, Append(t) PROVE Others(t)
  <2>1. CASE CountFailed(t) \/ CountBytes(t)
    BY <1>4, <2>1 DEF CountFailed, CountBytes
  <2>2. CASE Undo(t) \/ MarkWriting(t) \/ WriteFields(t) \/ WritePayload(t) \/ WriteCrc(t) \/ Commit(t)
             \/ CountAppend(t)
    BY <1>5, <2>2 DEF Undo, MarkWriting, WriteFields, WritePayload, WriteCrc, Commit, CountAppend, Goto, locals
  <2> QED
    BY <1>6, <2>1, <2>2 DEF Append
<1>7. ASSUME NEW t \in Threads, Advance(t) PROVE Others(t)
  <2>1. UNCHANGED <<op, slot>> /\ \A u \in Threads \ {t} : cur'[u] = cur[u] /\ new'[u] = new[u]
    BY <1>7 DEF Advance, LoadTail, ScanOn, ScanStop, Cas, locals, TypeOK
  <2>2. \A u \in Threads \ {t} : pc'[u] = pc[u]
    BY <1>7 DEF Advance, LoadTail, ScanOn, ScanStop, Cas, Goto, TypeOK
  <2> QED
    BY <2>1, <2>2 DEF Others
<1>8. ASSUME NEW t \in Threads, Recover(t) \/ Trim(t) \/ Read(t) PROVE Others(t)
  <2>1. CASE CountAbandoned(t) \/ TrimReturn(t) \/ ReadReturn(t) \/ ReadMismatch(t)
    BY <1>4, <2>1 DEF CountAbandoned, TrimReturn, ReadReturn, ReadMismatch
  <2>2. CASE CountRun(t)
    <3>1. Return(t) \/ (Goto(t, "count_abandoned") /\ UNCHANGED locals)
      BY <2>2 DEF CountRun
    <3> QED
      BY <1>4, <1>5, <3>1 DEF Goto, locals
  <2>3. CASE Inspect(t) \/ Check(t) \/ Abandon(t) \/ RecoverPhase2(t)
    <3>1. UNCHANGED <<op, slot, cur, new>> /\ \A u \in Threads \ {t} : pc'[u] = pc[u]
      BY <2>3 DEF Inspect, Check, Abandon, RecoverPhase2, Goto, locals, TypeOK
    <3> QED
      BY <3>1 DEF Others
  <2>4. CASE TrimInspect(t) \/ TrimStore(t)
    <3>1. UNCHANGED <<op, slot, cur, new>> /\ \A u \in Threads \ {t} : pc'[u] = pc[u]
      BY <2>4 DEF TrimInspect, TrimStore, Goto, TypeOK
    <3> QED
      BY <3>1 DEF Others
  <2>5. CASE ReadTail(t) \/ ReadState(t) \/ ReadFields(t) \/ ReadPayload(t) \/ ReadOk(t)
    <3>1. UNCHANGED <<op, slot, cur, new>> /\ \A u \in Threads \ {t} : pc'[u] = pc[u]
      BY <2>5 DEF ReadTail, ReadState, ReadFields, ReadPayload, ReadOk, Goto, locals, TypeOK
    <3> QED
      BY <3>1 DEF Others
  <2> QED
    BY <1>8, <2>1, <2>2, <2>3, <2>4, <2>5 DEF Recover, Trim, Read
<1> QED
  BY <1>3, <1>6, <1>7, <1>8 DEF Next, Step, Rest


-----------------------------------------------------------------------------
\* A step of t that commits, acknowledges and claims nothing, and is no part of a walk.
Plain(t) ==
    /\ UNCHANGED <<committed_tail, done, acked>>
    /\ reserve_tail' = reserve_tail \/ (reserve_tail >= Capacity /\ reserve_tail' >= Capacity)
    /\ Holding(t) => Holding(t)' /\ slot'[t] = slot[t]
    /\ Finishing(t) => Finishing(t)' /\ slot'[t] = slot[t]
    /\ Finishing(t)' => Finishing(t)
    /\ ~ Walking(t) /\ pc'[t] # "cas"

\* Every step is plain but a claim, a commit, the return of Ok, and those of a walk.
LEMMA PlainSteps ==
    ASSUME TypeInv, ReserveInv, NEW t \in Threads, Start(t) \/ Step(t)
    PROVE  \/ Plain(t)
           \/ \E term \in Terms, data \in Payloads : Claim(t, term, data)
           \/ Commit(t) \/ CountBytes(t) \/ LoadTail(t) \/ ScanOn(t) \/ ScanStop(t) \/ Cas(t)
<1> USE DEF TypeInv
<1>0. reserve_tail \in Nat /\ calls \in Nat /\ calls <= MaxCalls
  BY DEF TypeOK
<1>1. ASSUME NEW l \in {"idle", "undo", "count_failed", "inspect", "check", "abandon", "count_abandoned",
                        "trim", "trim_store",
                        "read", "read_state", "read_fields", "read_payload", "read_verify"},
             pc' = [pc EXCEPT ![t] = l],
             ~ HasSlot(t), ~ Walking(t),
             UNCHANGED <<committed_tail, done, acked>>,
             reserve_tail' = reserve_tail \/ (reserve_tail >= Capacity /\ reserve_tail' >= Capacity)
      PROVE  Plain(t)
  <2>1. pc'[t] = l
    BY <1>1 DEF TypeOK
  <2>2. ~ HasSlot(t)' /\ pc'[t] # "cas"
    BY <2>1 DEF HasSlot, Holding
  <2> QED
    BY <1>1, <2>2 DEF Plain, HasSlot, Finishing
<1>3. ASSUME Start(t)
      PROVE  Plain(t) \/ \E term \in Terms, data \in Payloads : Claim(t, term, data)
  <2>1. ~ HasSlot(t) /\ ~ Walking(t)
    BY <1>3 DEF Start, AppendTooLarge, ClaimFull, Claim, CallRecover, TrimBeyond, CallTrim, CallRead,
                Call, HasSlot, Holding, Walking
  <2>2. ASSUME UNCHANGED <<pool, pc, locals, history>> PROVE Plain(t)
    <3>1. UNCHANGED <<reserve_tail, committed_tail, done, acked, pc, op, slot>>
      BY <2>2 DEF pool, locals, history
    <3> QED
      BY <2>1, <3>1 DEF Plain, HasSlot, Holding, Finishing, Walking
  <2>3. ASSUME NEW data \in Payloads, ClaimFull(t, data) PROVE Plain(t)
    <3>1. reserve_tail >= Capacity /\ reserve_tail' = reserve_tail + 1
      BY <1>0, <2>3 DEF ClaimFull, Call, ReserveInv, WrappingAdd
    <3>2. reserve_tail' >= Capacity
      BY <1>0, <3>1
    <3> QED
      BY <1>1, <2>1, <2>3, <3>1, <3>2 DEF ClaimFull, Goto, history
  <2>4. CASE CallRecover(t)
    BY <1>1, <2>1, <2>4 DEF CallRecover, Goto, pool, history
  <2>5. ASSUME NEW first, NEW last, CallRead(t, first, last) PROVE Plain(t)
    BY <1>1, <2>1, <2>5 DEF CallRead, Goto, pool, history
  <2>6. ASSUME NEW upTo, CallTrim(t, upTo) PROVE Plain(t)
    BY <1>1, <2>1, <2>6 DEF CallTrim, Goto, pool, history
  <2> QED
    BY <1>3, <2>2, <2>3, <2>4, <2>5, <2>6 DEF Start, AppendTooLarge, TrimBeyond
<1>4. ASSUME Append(t) PROVE Plain(t) \/ Commit(t) \/ CountBytes(t)
  <2>1. CASE Undo(t)
    <3>1. reserve_tail' >= Capacity /\ reserve_tail >= Capacity
      BY <1>0, <2>1, UndoAboveCapacity
    <3> QED
      BY <1>1, <2>1, <3>1 DEF Undo, Goto, history, HasSlot, Holding, Walking
  <2>2. CASE CountFailed(t)
    BY <1>1, <2>2 DEF CountFailed, Return, Goto, history, HasSlot, Holding, Walking
  <2>3. CASE MarkWriting(t) \/ WriteFields(t) \/ WritePayload(t) \/ WriteCrc(t)
    <3>1. UNCHANGED <<reserve_tail, committed_tail, done, acked, slot, op>>
      BY <2>3 DEF MarkWriting, WriteFields, WritePayload, WriteCrc, locals, history
    <3>2. Holding(t) /\ Holding(t)'
      BY <2>3 DEF MarkWriting, WriteFields, WritePayload, WriteCrc, Goto, TypeOK, Holding
    <3> QED
      BY <3>1, <3>2 DEF Plain, Finishing, Holding, Walking
  <2>4. CASE CountAppend(t)
    <3>1. UNCHANGED <<reserve_tail, committed_tail, done, acked, slot, op>>
      BY <2>4 DEF CountAppend, locals, history
    <3>2. pc[t] = "count_append" /\ pc'[t] = "count_bytes"
      BY <2>4 DEF CountAppend, Goto, TypeOK
    <3> QED
      BY <3>1, <3>2 DEF Plain, Finishing, HasSlot, Holding, Walking
  <2> QED
    BY <1>4, <2>1, <2>2, <2>3, <2>4 DEF Append
<1>5. ASSUME Recover(t) PROVE Plain(t)
  <2>1. ~ HasSlot(t) /\ ~ Walking(t)
    BY <1>5 DEF Recover, Inspect, Check, Abandon, RecoverPhase2, CountRun, CountAbandoned,
                HasSlot, Holding, Walking
  <2>2. UNCHANGED <<reserve_tail, committed_tail, done, acked>>
    BY <1>5 DEF Recover, Inspect, Check, Abandon, RecoverPhase2, CountRun, CountAbandoned, pool, history
  <2>3. CASE Inspect(t) \/ Check(t) \/ Abandon(t) \/ CountRun(t) \/ CountAbandoned(t)
    <3>1. \E l \in {"idle", "inspect", "check", "abandon", "count_abandoned"} : pc' = [pc EXCEPT ![t] = l]
      <4>1. CASE Inspect(t) \/ Check(t) \/ Abandon(t)
        BY <4>1 DEF Inspect, Check, Abandon, Goto, TypeOK
      <4>2. CASE CountRun(t) \/ CountAbandoned(t)
        BY <4>2 DEF CountRun, CountAbandoned, Return, Goto
      <4> QED
        BY <2>3, <4>1, <4>2
    <3> QED
      BY <1>1, <2>1, <2>2, <3>1
  <2>4. CASE RecoverPhase2(t)
    <3>1. pc[t] = "inspect" /\ pc'[t] = "load" /\ UNCHANGED <<op, slot>>
      BY <2>4 DEF RecoverPhase2, Goto, TypeOK, locals
    <3>2. op'[t] = "recover"
      BY <3>1 DEF Ranges
    <3>3. ~ HasSlot(t)' /\ pc'[t] # "cas"
      BY <3>1, <3>2 DEF HasSlot, Holding
    <3> QED
      BY <2>1, <2>2, <3>3 DEF Plain, HasSlot, Finishing
  <2> QED
    BY <1>5, <2>3, <2>4 DEF Recover
<1>6. ASSUME Trim(t) PROVE Plain(t)
  <2>1. ~ HasSlot(t) /\ ~ Walking(t)
    BY <1>6 DEF Trim, TrimInspect, TrimStore, TrimReturn, HasSlot, Holding, Walking
  <2>2. UNCHANGED <<reserve_tail, committed_tail, done, acked>>
    BY <1>6 DEF Trim, TrimInspect, TrimStore, TrimReturn, pool, history
  <2>3. \E l \in {"idle", "trim", "trim_store"} : pc' = [pc EXCEPT ![t] = l]
    BY <1>6 DEF Trim, TrimInspect, TrimStore, TrimReturn, Return, Goto, TypeOK
  <2> QED
    BY <1>1, <2>1, <2>2, <2>3
<1>7. ASSUME Read(t) PROVE Plain(t)
  <2>1. ~ HasSlot(t) /\ ~ Walking(t)
    BY <1>7 DEF Read, ReadReturn, ReadTail, ReadState, ReadFields, ReadPayload, ReadOk, ReadMismatch,
                HasSlot, Holding, Walking
  <2>2. UNCHANGED <<reserve_tail, committed_tail, done, acked>>
    BY <1>7 DEF Read, ReadReturn, ReadTail, ReadState, ReadFields, ReadPayload, ReadOk, ReadMismatch,
                pool, history
  <2>3. \E l \in {"idle", "read", "read_state", "read_fields", "read_payload", "read_verify"} :
           pc' = [pc EXCEPT ![t] = l]
    BY <1>7 DEF Read, ReadReturn, ReadTail, ReadState, ReadFields, ReadPayload, ReadOk, ReadMismatch,
                Return, Goto
  <2> QED
    BY <1>1, <2>1, <2>2, <2>3
<1> QED
  BY <1>3, <1>4, <1>5, <1>6, <1>7 DEF Step, Advance

-----------------------------------------------------------------------------
(***************************************************************************)
(* Claimed and Committed follow a slot from its claim to its               *)
(* acknowledgement.                                                        *)
(***************************************************************************)

\* The threads that do not move hold and finish what they did.
LEMMA OthersStay ==
    ASSUME NEW t \in Threads, Others(t), NEW u \in Threads \ {t}
    PROVE  /\ slot'[u] = slot[u]
           /\ Holding(u)' <=> Holding(u)
           /\ Finishing(u)' <=> Finishing(u)
           /\ Walking(u)' <=> Walking(u)
BY DEF Others, Holding, Finishing, HasSlot, Walking

\* A step that is neither a claim, a commit nor a return leaves the slots where they are.
LEMMA SlotsFlow ==
    ASSUME TypeInv, Claimed, Committed,
           UNCHANGED <<done, acked>>,
           reserve_tail' = reserve_tail \/ (reserve_tail >= Capacity /\ reserve_tail' >= Capacity),
           \A u \in Threads : /\ Holding(u) => Holding(u)' /\ slot'[u] = slot[u]
                              /\ Finishing(u) => Finishing(u)' /\ slot'[u] = slot[u]
    PROVE  Claimed' /\ Committed'
<1> USE DEF TypeInv
<1>2. ASSUME NEW s \in Slots, s < reserve_tail' PROVE s < reserve_tail
  <2>1. s \in Nat /\ s < Capacity /\ reserve_tail \in Nat
    BY DEF Slots, TypeOK
  <2> QED
    BY <1>2, <2>1
<1>3. Claimed'
  BY <1>2 DEF Claimed
<1>4. Committed'
  BY DEF Committed
<1> QED
  BY <1>3, <1>4

\* A claim: the new slot is held.
LEMMA ClaimFlow ==
    ASSUME TypeInv, ReserveInv, Claimed, Committed, NEW t \in Threads, Others(t),
           NEW term \in Terms, NEW data \in Payloads, Claim(t, term, data)
    PROVE  Claimed' /\ Committed'
<1> USE DEF TypeInv
<1>0. reserve_tail \in Nat /\ calls \in Nat /\ calls <= MaxCalls
  BY DEF TypeOK
<1>1. reserve_tail' = reserve_tail + 1
  BY <1>0 DEF Claim, Call, ReserveInv, WrappingAdd
<1>2. /\ pc[t] = "idle" /\ pc'[t] = "mark" /\ slot'[t] = reserve_tail
      /\ UNCHANGED <<done, acked>>
  BY DEF Claim, Call, Goto, TypeOK
<1>3. ~ Holding(t) /\ ~ Finishing(t) /\ Holding(t)'
  BY <1>2 DEF Holding, Finishing, HasSlot
<1>4. ASSUME NEW s \in Slots, s < reserve_tail'
      PROVE  s \in done' \/ \E u \in Threads : Holding(u)' /\ slot'[u] = s
  <2>1. CASE s = reserve_tail
    BY <1>2, <1>3, <2>1
  <2>2. CASE s # reserve_tail
    <3>1. s < reserve_tail
      BY <1>0, <1>1, <1>4, <2>2 DEF Slots
    <3>2. s \in done \/ \E u \in Threads : Holding(u) /\ slot[u] = s
      BY <3>1 DEF Claimed
    <3> QED
      BY <1>2, <1>3, <3>2, OthersStay
  <2> QED
    BY <2>1, <2>2
<1>5. Committed'
  BY <1>2, <1>3, OthersStay DEF Committed
<1> QED
  BY <1>4, <1>5 DEF Claimed

\* A commit: its append goes on to walk.
LEMMA CommitFlow ==
    ASSUME TypeInv, Claimed, Committed, NEW t \in Threads, Others(t), Commit(t)
    PROVE  Claimed' /\ Committed'
<1> USE DEF TypeInv
<1>1. /\ pc[t] = "commit" /\ pc'[t] = "load" /\ done' = done \cup {slot[t]}
      /\ UNCHANGED <<reserve_tail, acked, slot, op>>
  BY DEF Commit, Goto, locals, TypeOK
<1>2. Holding(t) /\ ~ Finishing(t) /\ op[t] = "append"
  BY <1>1 DEF Holding, Finishing, Ranges
<1>3. Finishing(t)'
  BY <1>1, <1>2 DEF Finishing, HasSlot, Holding
<1>4. Claimed'
  BY <1>1, <1>2, OthersStay DEF Claimed
<1>5. Committed'
  BY <1>1, <1>2, <1>3, OthersStay DEF Committed
<1> QED
  BY <1>4, <1>5

\* Ok is returned.
LEMMA ReturnFlow ==
    ASSUME TypeInv, Claimed, Committed, NEW t \in Threads, Others(t), CountBytes(t)
    PROVE  Claimed' /\ Committed'
<1> USE DEF TypeInv
<1>1. /\ pc[t] = "count_bytes" /\ acked' = acked \cup {slot[t]}
      /\ UNCHANGED <<reserve_tail, done>>
  BY DEF CountBytes
<1>2. ~ Holding(t)
  BY <1>1 DEF Holding
<1>3. Claimed'
  BY <1>1, <1>2, OthersStay DEF Claimed
<1>4. Committed'
  BY <1>1, OthersStay DEF Committed
<1> QED
  BY <1>3, <1>4

\* A walk keeps the slot of its append.
LEMMA WalkFlow ==
    ASSUME TypeInv, NEW t \in Threads, Others(t),
           LoadTail(t) \/ ScanOn(t) \/ ScanStop(t) \/ Cas(t)
    PROVE  /\ UNCHANGED <<done, acked, reserve_tail, op, slot>>
           /\ \A u \in Threads : /\ Holding(u) => Holding(u)'
                                 /\ Finishing(u)' <=> Finishing(u)
<1> USE DEF TypeInv
<1>1. UNCHANGED <<done, acked, reserve_tail, op, slot>>
  BY DEF LoadTail, ScanOn, ScanStop, Cas, pool, locals, history
<1>2. Walking(t)
  BY DEF LoadTail, ScanOn, ScanStop, Cas, Walking
<1>3. Walking(t)' \/ pc'[t] = AfterAdvance(t)
  BY DEF LoadTail, ScanOn, ScanStop, Cas, Walking, Goto, TypeOK
<1>4. ~ Holding(t)
  BY <1>2 DEF Walking, Holding
<1>5. Finishing(t)' <=> Finishing(t)
  <2>1. Finishing(t) <=> op[t] = "append"
    BY <1>2 DEF Finishing, HasSlot, Walking, Holding
  <2>2. Finishing(t)' <=> op[t] = "append"
    BY <1>1, <1>3 DEF Finishing, HasSlot, Holding, Walking, AfterAdvance
  <2> QED
    BY <2>1, <2>2
<1> QED
  BY <1>1, <1>4, <1>5, OthersStay

-----------------------------------------------------------------------------
(***************************************************************************)
(* Prompt is preserved: the argument about the walks.                      *)
(***************************************************************************)

\* Nothing that was trimmed or corrupted comes back.
LEMMA DropsGrow ==
    ASSUME [Next]_vars
    PROVE  trimmed \subseteq trimmed' /\ corrupt \subseteq corrupt'
<1>1. ASSUME NEW t \in Threads, Start(t) PROVE UNCHANGED <<trimmed, corrupt>>
  BY <1>1 DEF Start, AppendTooLarge, ClaimFull, Claim, CallRecover, TrimBeyond, CallTrim, CallRead, history
<1>2. ASSUME NEW t \in Threads, Append(t) \/ Advance(t) PROVE UNCHANGED <<trimmed, corrupt>>
  BY <1>2 DEF Append, Undo, CountFailed, MarkWriting, WriteFields, WritePayload, WriteCrc, Commit, CountAppend,
              CountBytes, Advance, LoadTail, ScanOn, ScanStop, Cas, history
<1>3. ASSUME NEW t \in Threads, Recover(t) \/ Read(t) PROVE UNCHANGED <<trimmed, corrupt>>
  BY <1>3 DEF Recover, Inspect, Check, Abandon, RecoverPhase2, CountRun, CountAbandoned, Read, ReadReturn,
              ReadTail, ReadState, ReadFields, ReadPayload, ReadOk, ReadMismatch, history
<1>4. ASSUME NEW t \in Threads, Trim(t) PROVE trimmed \subseteq trimmed' /\ UNCHANGED corrupt
  BY <1>4 DEF Trim, TrimInspect, TrimStore, TrimReturn, history
<1>5. ASSUME NEW h \in Hosts, Crash(h) \/ Restart(h) PROVE UNCHANGED <<trimmed, corrupt>>
  BY <1>5 DEF Crash, Restart, history
<1>6. ASSUME NEW s \in Slots, MediaFault(s) PROVE corrupt \subseteq corrupt' /\ UNCHANGED trimmed
  BY <1>6 DEF MediaFault
<1> QED
  BY <1>1, <1>2, <1>3, <1>4, <1>5, <1>6 DEF Next, Step, Rest, vars, history

\* A thread that stays, or that finishes no more than it did and is no part of a walk.
Stays(u) ==
    pc'[u] = pc[u] /\ op'[u] = op[u] /\ slot'[u] = slot[u] /\ cur'[u] = cur[u] /\ new'[u] = new[u]

Settles(u) ==
    /\ pc'[u] # "cas"
    /\ Finishing(u)' => Finishing(u) /\ ~ Walking(u) /\ slot'[u] = slot[u]

\* If all threads do one or the other, what was owed is owed.
LEMMA PromptKept ==
    ASSUME [Next]_vars, Prompt, UNCHANGED <<committed_tail, done, acked>>,
           \A u \in Threads : Stays(u) \/ Settles(u)
    PROVE  Prompt'
<1>1. ASSUME trimmed' \cup corrupt' = {}, NEW p \in Tails', NEW s \in Slots, p <= s, Run(p, s)'
      PROVE  \E r \in Slots : p <= r /\ r <= s /\ Owed(r, s)'
  <2>1. trimmed \cup corrupt = {}
    BY <1>1, DropsGrow
  <2>2. p \in Tails
    <3>1. CASE p = committed_tail'
      BY <3>1 DEF Tails
    <3>2. CASE p # committed_tail'
      <4>1. PICK u \in Threads : AtExchange(u)' /\ p = new'[u]
        BY <1>1, <3>2 DEF Tails
      <4>2. Stays(u) /\ AtExchange(u)
        BY <4>1 DEF AtExchange, Stays, Settles
      <4> QED
        BY <4>1, <4>2 DEF Tails, Stays
    <3> QED
      BY <3>1, <3>2
  <2>3. Run(p, s)
    BY <1>1 DEF Run
  <2>4. PICK r \in Slots : p <= r /\ r <= s /\ Owed(r, s)
    BY <1>1, <2>1, <2>2, <2>3 DEF Prompt
  <2>5. ASSUME NEW u \in Threads, Finishing(u)', slot'[u] = r PROVE Covers(u, s)'
    <3>1. CASE Stays(u)
      <4>1. Finishing(u) /\ slot[u] = r
        BY <2>5, <3>1 DEF Stays, Finishing, HasSlot, Holding
      <4>2. Covers(u, s)
        BY <2>4, <4>1 DEF Owed
      <4> QED
        BY <3>1, <4>2 DEF Stays, Covers, AtExchange, Walking
    <3>2. CASE Settles(u)
      BY <2>4, <2>5, <3>2 DEF Settles, Owed, Covers
    <3> QED
      BY <3>1, <3>2
  <2>6. Owed(r, s)'
    BY <2>4, <2>5 DEF Owed
  <2> QED
    BY <2>4, <2>6
<1> QED
  BY <1>1 DEF Prompt

\* Others stay.
LEMMA StaysOthers ==
    ASSUME NEW t \in Threads, Others(t), NEW u \in Threads \ {t}
    PROVE  Stays(u)
BY DEF Others, Stays

\* A slot that t's return acknowledges was not owed.
LEMMA PromptReturn ==
    ASSUME [Next]_vars, TypeInv, Prompt, NEW t \in Threads, Others(t), CountBytes(t)
    PROVE  Prompt'
<1>1. /\ pc[t] = "count_bytes" /\ pc'[t] = "idle" /\ acked' = acked \cup {slot[t]}
      /\ UNCHANGED <<committed_tail, done>>
  BY DEF CountBytes, Return, Goto, TypeInv, TypeOK
<1>2. Finishing(t) /\ ~ Walking(t) /\ ~ Finishing(t)' /\ ~ AtExchange(t)'
  BY <1>1 DEF Finishing, HasSlot, Holding, Walking, AtExchange
<1>3. ASSUME trimmed' \cup corrupt' = {}, NEW p \in Tails', NEW s \in Slots, p <= s, Run(p, s)'
      PROVE  \E r \in Slots : p <= r /\ r <= s /\ Owed(r, s)'
  <2>1. trimmed \cup corrupt = {}
    BY <1>3, DropsGrow
  <2>2. p \in Tails
    <3>1. CASE p = committed_tail'
      BY <1>1, <3>1 DEF Tails
    <3>2. CASE p # committed_tail'
      <4>1. PICK u \in Threads : AtExchange(u)' /\ p = new'[u]
        BY <1>3, <3>2 DEF Tails
      <4>2. u # t
        BY <1>2, <4>1
      <4>3. AtExchange(u) /\ p = new[u]
        BY <1>1, <4>1, <4>2 DEF AtExchange, Others
      <4> QED
        BY <4>3 DEF Tails
    <3> QED
      BY <3>1, <3>2
  <2>3. Run(p, s)
    BY <1>1, <1>3 DEF Run
  <2>4. PICK r \in Slots : p <= r /\ r <= s /\ Owed(r, s)
    BY <1>3, <2>1, <2>2, <2>3 DEF Prompt
  <2>5. r # slot[t]
    BY <1>2, <2>4 DEF Owed, Covers
  <2>6. ASSUME NEW u \in Threads, Finishing(u)', slot'[u] = r PROVE Covers(u, s)'
    <3>1. u # t
      BY <1>2, <2>6
    <3>2. Finishing(u) /\ slot[u] = r
      BY <2>6, <3>1, OthersStay
    <3>3. Covers(u, s)
      BY <2>4, <3>2 DEF Owed
    <3> QED
      BY <1>1, <3>1, <3>3 DEF Others, Covers, AtExchange, Walking
  <2>7. Owed(r, s)'
    BY <1>1, <2>4, <2>5, <2>6 DEF Owed
  <2> QED
    BY <2>4, <2>7
<1> QED
  BY <1>3 DEF Prompt

\* A committed slot is owed: its append is yet to load the tail.
LEMMA PromptCommit ==
    ASSUME [Next]_vars, SlotsInv, Prompt, NEW t \in Threads, Others(t), Commit(t)
    PROVE  Prompt'
<1> USE DEF SlotsInv, TypeInv
<1>1. /\ pc[t] = "commit" /\ pc'[t] = "load" /\ done' = done \cup {slot[t]}
      /\ UNCHANGED <<committed_tail, acked, op, slot, cur, new>>
  BY DEF Commit, Goto, locals, TypeOK
<1>2. /\ Holding(t) /\ ~ Finishing(t) /\ slot[t] \in Slots /\ slot[t] \notin done
      /\ Walking(t)' /\ ~ AtExchange(t)'
  BY <1>1 DEF Holding, Finishing, Ranges, HasSlot, SlotInv, SlotExclusive, Walking, AtExchange
<1>3. \A s \in Slots : Covers(t, s)'
  BY <1>2 DEF Covers
<1>4. ASSUME NEW s \in Slots, NEW r \in Slots, r = slot[t] PROVE Owed(r, s)'
  <2>1. r \notin acked'
    BY <1>1, <1>2, <1>4 DEF SlotInv
  <2>2. ASSUME NEW u \in Threads, Finishing(u)', slot'[u] = r PROVE u = t
    <3>1. ASSUME u # t PROVE FALSE
      <4>1. Finishing(u) /\ slot[u] = slot[t]
        BY <1>4, <2>2, <3>1, OthersStay
      <4> QED
        BY <1>2, <4>1 DEF SlotInv, Finishing
    <3> QED
      BY <3>1
  <2> QED
    BY <1>3, <2>1, <2>2 DEF Owed
<1>5. ASSUME trimmed' \cup corrupt' = {}, NEW p \in Tails', NEW s \in Slots, p <= s, Run(p, s)'
      PROVE  \E r \in Slots : p <= r /\ r <= s /\ Owed(r, s)'
  <2>1. CASE p <= slot[t] /\ slot[t] <= s
    BY <1>2, <1>4, <2>1
  <2>2. CASE ~ (p <= slot[t] /\ slot[t] <= s)
    <3>1. trimmed \cup corrupt = {}
      BY <1>5, DropsGrow
    <3>2. p \in Tails
      <4>1. CASE p = committed_tail'
        BY <1>1, <4>1 DEF Tails
      <4>2. CASE p # committed_tail'
        <5>1. PICK u \in Threads : AtExchange(u)' /\ p = new'[u]
          BY <1>5, <4>2 DEF Tails
        <5>2. u # t
          BY <1>2, <5>1
        <5>3. AtExchange(u) /\ p = new[u]
          BY <1>1, <5>1, <5>2 DEF AtExchange, Others
        <5> QED
          BY <5>3 DEF Tails
      <4> QED
        BY <4>1, <4>2
    <3>3. Run(p, s)
      BY <1>1, <1>5, <2>2 DEF Run
    <3>4. PICK r \in Slots : p <= r /\ r <= s /\ Owed(r, s)
      BY <1>5, <3>1, <3>2, <3>3 DEF Prompt
    <3>5. r # slot[t]
      BY <2>2, <3>4
    <3>6. ASSUME NEW u \in Threads, Finishing(u)', slot'[u] = r PROVE Covers(u, s)'
      <4>1. u # t
        BY <1>1, <3>5, <3>6
      <4>2. Finishing(u) /\ slot[u] = r
        BY <3>6, <4>1, OthersStay
      <4>3. Covers(u, s)
        BY <3>4, <4>2 DEF Owed
      <4> QED
        BY <1>1, <4>1, <4>3 DEF Others, Covers, AtExchange, Walking
    <3>7. Owed(r, s)'
      BY <1>1, <3>4, <3>6 DEF Owed
    <3> QED
      BY <3>4, <3>7
  <2> QED
    BY <2>1, <2>2
<1> QED
  BY <1>5 DEF Prompt

\* A thread that starts its walk, goes on with it or starts over covers every slot.
LEMMA PromptGoesOn ==
    ASSUME [Next]_vars, TypeInv, Prompt, NEW t \in Threads, Others(t),
           UNCHANGED <<committed_tail, done, acked>>, pc'[t] \in {"load", "scan"}
    PROVE  Prompt'
<1>1. ~ AtExchange(t)' /\ \A s \in Slots : Covers(t, s)'
  BY DEF AtExchange, Covers, Walking
<1>2. ASSUME trimmed' \cup corrupt' = {}, NEW p \in Tails', NEW s \in Slots, p <= s, Run(p, s)'
      PROVE  \E r \in Slots : p <= r /\ r <= s /\ Owed(r, s)'
  <2>1. trimmed \cup corrupt = {}
    BY <1>2, DropsGrow
  <2>2. p \in Tails
    <3>1. CASE p = committed_tail'
      BY <3>1 DEF Tails
    <3>2. CASE p # committed_tail'
      <4>1. PICK u \in Threads : AtExchange(u)' /\ p = new'[u]
        BY <1>2, <3>2 DEF Tails
      <4>2. u # t
        BY <1>1, <4>1
      <4>3. AtExchange(u) /\ p = new[u]
        BY <4>1, <4>2 DEF AtExchange, Others
      <4> QED
        BY <4>3 DEF Tails
    <3> QED
      BY <3>1, <3>2
  <2>3. Run(p, s)
    BY <1>2 DEF Run
  <2>4. PICK r \in Slots : p <= r /\ r <= s /\ Owed(r, s)
    BY <1>2, <2>1, <2>2, <2>3 DEF Prompt
  <2>5. ASSUME NEW u \in Threads \ {t}, Finishing(u)', slot'[u] = r PROVE Covers(u, s)'
    <3>1. Finishing(u) /\ slot[u] = r
      BY <2>5, OthersStay
    <3>2. Covers(u, s)
      BY <2>4, <3>1 DEF Owed
    <3> QED
      BY <3>2 DEF Others, Covers, AtExchange, Walking
  <2>6. Owed(r, s)'
    BY <1>1, <2>4, <2>5 DEF Owed
  <2> QED
    BY <2>4, <2>6
<1> QED
  BY <1>2 DEF Prompt

\* What the tail may be exchanged for is not below it, and everything below that is committed.
LEMMA TailsDone ==
    ASSUME QuietInv, NEW p \in Tails
    PROVE  p \in 0 .. Capacity /\ committed_tail <= p /\ \A s \in Slots : s < p => s \in done
<1> USE DEF QuietInv, LogInv, SlotsInv, TypeInv
<1>1. CASE p = committed_tail
  BY <1>1 DEF TypeOK, TailInv
<1>2. CASE p # committed_tail
  <2>1. PICK u \in Threads : AtExchange(u) /\ p = new[u]
    BY <1>2 DEF Tails
  <2>2. cur[u] < new[u] /\ cur[u] = committed_tail /\ new[u] \in 0 .. Capacity /\ cur[u] \in 0 .. Capacity
    BY <2>1 DEF AtExchange, RecoveryInv, Placed, TypeOK
  <2>3. \A s \in Slots : s < new[u] => s \in done
    BY <2>1 DEF AtExchange, TailInv
  <2> QED
    BY <2>1, <2>2, <2>3
<1> QED
  BY <1>1, <1>2

\* The walk stops.  It has passed the whole run from the present tail: if it stops where it
\* began, there is none.
LEMMA PromptStop ==
    ASSUME [Next]_vars, QuietInv, Prompt, NEW t \in Threads, Others(t), ScanStop(t)
    PROVE  Prompt'
<1> USE DEF QuietInv, LogInv, SlotsInv, TypeInv
<1>0. /\ pc[t] = "scan" /\ ~ Contiguous(t)
      /\ pc'[t] = IF new[t] = cur[t] THEN AfterAdvance(t) ELSE "cas"
      /\ UNCHANGED <<committed_tail, done, acked, cur, new, slot, op>>
  BY DEF ScanStop, Goto, pool, locals, history, TypeOK
<1>1. /\ committed_tail \in 0 .. Capacity /\ cur[t] \in 0 .. Capacity /\ new[t] \in 0 .. Capacity
      /\ cur[t] <= new[t] /\ cur[t] <= committed_tail
  BY <1>0 DEF TypeOK, Ranges, TailInv
<1>2. ASSUME trimmed' \cup corrupt' = {}, NEW p \in Tails', NEW s \in Slots, p <= s, Run(p, s)'
      PROVE  \E r \in Slots : p <= r /\ r <= s /\ Owed(r, s)'
  <2>1. trimmed \cup corrupt = {}
    BY <1>2, DropsGrow
  <2>2. new[t] < Capacity => new[t] \in Slots /\ new[t] \notin done
    <3>1. new[t] < Capacity => new[t] \in Slots /\ rec[new[t]].state # "COMMITTED"
      BY <1>0, <1>1 DEF Contiguous, Slots
    <3> QED
      BY <2>1, <3>1 DEF RecoveryInv, History
  <2>3. p \in Tails \/ p = new[t]
    <3>1. CASE p = committed_tail'
      BY <1>0, <3>1 DEF Tails
    <3>2. CASE p # committed_tail'
      <4>1. PICK u \in Threads : AtExchange(u)' /\ p = new'[u]
        BY <1>2, <3>2 DEF Tails
      <4>2. CASE u # t
        <5>1. AtExchange(u) /\ p = new[u]
          BY <1>0, <4>1, <4>2 DEF AtExchange, Others
        <5> QED
          BY <5>1 DEF Tails
      <4>3. CASE u = t
        BY <1>0, <4>1, <4>3
      <4> QED
        BY <4>2, <4>3
    <3> QED
      BY <3>1, <3>2
  <2>4. p \in 0 .. Capacity /\ \A r \in Slots : r < p => r \in done
    <3>1. \A r \in Slots : r < new[t] => r \in done
      BY <1>0 DEF TailInv
    <3> QED
      BY <1>1, <2>3, <3>1, TailsDone
  <2>5. \A r \in Slots : r <= s => r \in done
    <3> SUFFICES ASSUME NEW r \in Slots, r <= s PROVE r \in done
      OBVIOUS
    <3>1. r < p \/ p <= r
      BY <2>4 DEF Slots
    <3>2. p <= r => r \in done
      BY <1>0, <1>2 DEF Run
    <3> QED
      BY <2>4, <3>1, <3>2
  <2>6. s < new[t] /\ s \in Nat
    <3>1. s \in Nat /\ s < Capacity
      BY DEF Slots
    <3>2. ASSUME new[t] <= s PROVE FALSE
      <4>1. new[t] \in Slots /\ new[t] \notin done
        BY <1>1, <2>2, <3>1, <3>2
      <4> QED
        BY <2>5, <3>2, <4>1
    <3> QED
      BY <1>1, <3>1, <3>2
  <2>7. p \in Tails /\ committed_tail <= p
    <3>1. p # new[t]
      BY <1>1, <1>2, <2>6
    <3> QED
      BY <2>3, <3>1, TailsDone
  <2>8. pc'[t] = "cas" /\ Covers(t, s)'
    <3>1. new[t] # cur[t]
      BY <1>1, <1>2, <2>4, <2>6, <2>7
    <3> QED
      BY <1>0, <2>6, <3>1 DEF Covers, Walking
  <2>9. Run(p, s)
    BY <1>0, <1>2 DEF Run
  <2>10. PICK r \in Slots : p <= r /\ r <= s /\ Owed(r, s)
    BY <1>2, <2>1, <2>7, <2>9 DEF Prompt
  <2>11. ASSUME NEW u \in Threads \ {t}, Finishing(u)', slot'[u] = r PROVE Covers(u, s)'
    <3>1. Finishing(u) /\ slot[u] = r
      BY <2>11, OthersStay
    <3>2. Covers(u, s)
      BY <2>10, <3>1 DEF Owed
    <3> QED
      BY <1>0, <3>2 DEF Others, Covers, AtExchange, Walking
  <2>12. Owed(r, s)'
    BY <1>0, <2>8, <2>10, <2>11 DEF Owed
  <2> QED
    BY <2>10, <2>12
<1> QED
  BY <1>2 DEF Prompt

\* The exchange succeeds: everybody else who walks has loaded an older tail, so their exchange
\* fails and they start over; t has promised nothing beyond the new tail.
LEMMA PromptExchange ==
    ASSUME [Next]_vars, QuietInv, Prompt, NEW t \in Threads, Others(t), Cas(t), committed_tail = cur[t]
    PROVE  Prompt'
<1> USE DEF QuietInv, LogInv, SlotsInv, TypeInv
<1>0. /\ pc[t] = "cas" /\ committed_tail' = new[t] /\ pc'[t] = AfterAdvance(t)
      /\ UNCHANGED <<done, acked, cur, new, op, slot>>
  BY DEF Cas, Goto, locals, history, TypeOK
<1>1. /\ committed_tail \in 0 .. Capacity /\ cur[t] \in 0 .. Capacity /\ new[t] \in 0 .. Capacity
      /\ committed_tail < new[t]
  BY <1>0 DEF TypeOK, RecoveryInv, Placed
<1>2. \A u \in Threads : ~ AtExchange(u)'
  <2> SUFFICES ASSUME NEW u \in Threads, AtExchange(u)' PROVE FALSE
    OBVIOUS
  <2>1. u # t
    BY <1>0 DEF AtExchange, AfterAdvance
  <2>2. pc[u] = "cas" /\ cur[u] = new[t]
    BY <1>0, <2>1 DEF AtExchange, Others
  <2>3. cur[u] <= committed_tail
    BY <2>2 DEF TailInv
  <2> QED
    BY <1>1, <2>2, <2>3
<1>3. ASSUME trimmed' \cup corrupt' = {}, NEW p \in Tails', NEW s \in Slots, p <= s, Run(p, s)'
      PROVE  \E r \in Slots : p <= r /\ r <= s /\ Owed(r, s)'
  <2>1. trimmed \cup corrupt = {}
    BY <1>3, DropsGrow
  <2>2. p = new[t]
    BY <1>0, <1>2, <1>3 DEF Tails
  <2>3. AtExchange(t) /\ p \in Tails
    BY <1>0, <2>2 DEF Tails, AtExchange
  <2>4. Run(p, s)
    BY <1>0, <1>3 DEF Run
  <2>5. PICK r \in Slots : p <= r /\ r <= s /\ Owed(r, s)
    BY <1>3, <2>1, <2>3, <2>4 DEF Prompt
  <2>6. ASSUME NEW u \in Threads, Finishing(u)', slot'[u] = r PROVE Covers(u, s)'
    <3>1. Finishing(u) /\ slot[u] = r
      BY <1>0, <2>6, WalkFlow
    <3>2. Covers(u, s)
      BY <2>5, <3>1 DEF Owed
    <3>3. u # t
      <4>1. ~ (s < new[t])
        BY <1>1, <1>3, <2>2 DEF Slots
      <4> QED
        BY <2>3, <3>2, <4>1 DEF Covers
    <3> QED
      BY <1>2, <3>2, <3>3 DEF Covers, Walking, Others
  <2>7. Owed(r, s)'
    BY <1>0, <2>5, <2>6 DEF Owed
  <2> QED
    BY <2>5, <2>7
<1> QED
  BY <1>3 DEF Prompt

-----------------------------------------------------------------------------
\* PromptInv is inductive, on top of QuietInv.
LEMMA PromptNext ==
    ASSUME QuietInv, PromptInv, [Next]_vars
    PROVE  PromptInv'
<1>0. TypeInv /\ ReserveInv /\ SlotsInv
  BY DEF QuietInv, LogInv, SlotsInv
<1>1. CASE UNCHANGED vars
  <2>1. UNCHANGED <<reserve_tail, committed_tail, pc, op, slot, cur, new, done, acked, trimmed, corrupt, crashes>>
    BY <1>1 DEF vars, pool, locals, history, budget
  <2>2. \A u \in Threads : Stays(u)
    BY <2>1 DEF Stays
  <2>3. Prompt'
    BY <2>1, <2>2, PromptKept DEF PromptInv
  <2> QED
    BY <2>1, <2>3 DEF PromptInv, Claimed, Committed, Finishing, HasSlot, Holding
<1>2. ASSUME NEW t \in Threads, Start(t) \/ Step(t), Others(t)
      PROVE  PromptInv'
  <2>0. crashes' = crashes
    <3>1. CASE Start(t)
      BY <3>1 DEF Start, AppendTooLarge, ClaimFull, Claim, CallRecover, TrimBeyond, CallTrim, CallRead, Call
    <3>2. CASE Append(t) \/ Advance(t)
      BY <3>2 DEF Append, Undo, CountFailed, MarkWriting, WriteFields, WritePayload, WriteCrc, Commit, CountAppend,
                  CountBytes, Advance, LoadTail, ScanOn, ScanStop, Cas, budget
    <3>3. CASE Recover(t) \/ Trim(t) \/ Read(t)
      BY <3>3 DEF Recover, Inspect, Check, Abandon, RecoverPhase2, CountRun, CountAbandoned, Trim, TrimInspect,
                  TrimStore, TrimReturn, Read, ReadReturn, ReadTail, ReadState, ReadFields, ReadPayload,
                  ReadOk, ReadMismatch, budget
    <3> QED
      BY <1>2, <3>1, <3>2, <3>3 DEF Step
  <2>1. CASE Plain(t)
    <3>1. Settles(t)
      BY <2>1 DEF Plain, Settles
    <3>2. Prompt'
      BY <2>1, <1>2, <3>1, StaysOthers, PromptKept DEF PromptInv, Plain
    <3>3. Claimed /\ Committed => Claimed' /\ Committed'
      <4>1. \A u \in Threads : /\ Holding(u) => Holding(u)' /\ slot'[u] = slot[u]
                               /\ Finishing(u) => Finishing(u)' /\ slot'[u] = slot[u]
        BY <1>2, <2>1, OthersStay DEF Plain
      <4> QED
        BY <1>0, <2>1, <4>1, SlotsFlow DEF Plain
    <3> QED
      BY <2>0, <3>2, <3>3 DEF PromptInv
  <2>2. ASSUME NEW term \in Terms, NEW data \in Payloads, Claim(t, term, data)
        PROVE  PromptInv'
    <3>1. UNCHANGED <<committed_tail, done, acked>> /\ pc'[t] = "mark"
      BY <1>0, <2>2 DEF Claim, Goto, TypeInv, TypeOK
    <3>2. Settles(t)
      BY <3>1 DEF Settles, Finishing, Holding
    <3>3. Prompt'
      BY <1>2, <3>1, <3>2, StaysOthers, PromptKept DEF PromptInv
    <3> QED
      BY <1>0, <1>2, <2>0, <2>2, <3>3, ClaimFlow DEF PromptInv
  <2>3. CASE Commit(t)
    BY <1>0, <1>2, <2>0, <2>3, PromptCommit, CommitFlow DEF PromptInv
  <2>4. CASE CountBytes(t)
    BY <1>0, <1>2, <2>0, <2>4, PromptReturn, ReturnFlow DEF PromptInv
  <2>5. CASE LoadTail(t) \/ ScanOn(t) \/ ScanStop(t) \/ Cas(t)
    <3>1. Claimed /\ Committed => Claimed' /\ Committed'
      BY <1>0, <1>2, <2>5, WalkFlow, SlotsFlow
    <3>2. CASE LoadTail(t) \/ ScanOn(t)
      <4>1. UNCHANGED <<committed_tail, done, acked>> /\ pc'[t] = "scan"
        BY <1>0, <3>2 DEF LoadTail, ScanOn, Goto, pool, history, TypeInv, TypeOK
      <4> QED
        BY <1>0, <1>2, <2>0, <3>1, <4>1, PromptGoesOn DEF PromptInv
    <3>3. CASE Cas(t) /\ committed_tail # cur[t]
      <4>1. UNCHANGED <<committed_tail, done, acked>> /\ pc'[t] = "load"
        BY <1>0, <3>3 DEF Cas, Goto, history, TypeInv, TypeOK
      <4> QED
        BY <1>0, <1>2, <2>0, <3>1, <4>1, PromptGoesOn DEF PromptInv
    <3>4. CASE ScanStop(t)
      BY <1>2, <2>0, <3>1, <3>4, PromptStop DEF PromptInv
    <3>5. CASE Cas(t) /\ committed_tail = cur[t]
      BY <1>2, <2>0, <3>1, <3>5, PromptExchange DEF PromptInv
    <3> QED
      BY <2>5, <3>2, <3>3, <3>4, <3>5
  <2> QED
    BY <1>0, <1>2, <2>1, <2>2, <2>3, <2>4, <2>5, PlainSteps
<1>3. ASSUME NEW h \in Hosts, Crash(h) PROVE PromptInv'
  <2>1. UNCHANGED <<committed_tail, done, acked>> /\ crashes' # 0
    BY <1>0, <1>3 DEF Crash, pool, history, TypeInv, TypeOK
  <2>2. ASSUME NEW u \in Threads PROVE Stays(u) \/ Settles(u)
    <3>1. CASE HostOf[u] = h
      <4>1. pc'[u] = "down"
        BY <1>3, <3>1 DEF Crash
      <4> QED
        BY <4>1 DEF Settles, Finishing, HasSlot, Holding
    <3>2. CASE HostOf[u] # h
      BY <1>3, <3>2 DEF Crash, Stays
    <3> QED
      BY <3>1, <3>2
  <2>3. Prompt'
    BY <2>1, <2>2, PromptKept DEF PromptInv
  <2> QED
    BY <2>1, <2>3 DEF PromptInv
<1>4. ASSUME NEW h \in Hosts, Restart(h) PROVE PromptInv'
  <2>1. UNCHANGED <<reserve_tail, committed_tail, done, acked, crashes, op, slot, cur, new>>
    BY <1>4 DEF Restart, pool, history, locals, budget
  <2>2. ASSUME NEW u \in Threads
        PROVE  /\ Stays(u) \/ Settles(u)
               /\ (Holding(u)' <=> Holding(u)) /\ (Finishing(u)' <=> Finishing(u))
    <3>1. CASE HostOf[u] = h /\ pc[u] = "down"
      <4>1. pc'[u] = "idle"
        BY <1>4, <3>1 DEF Restart
      <4> QED
        BY <3>1, <4>1 DEF Settles, Finishing, HasSlot, Holding
    <3>2. CASE ~ (HostOf[u] = h /\ pc[u] = "down")
      <4>1. pc'[u] = pc[u]
        BY <1>4, <3>2 DEF Restart
      <4> QED
        BY <2>1, <4>1 DEF Stays, Finishing, HasSlot, Holding
    <3> QED
      BY <3>1, <3>2
  <2>3. Prompt'
    BY <2>1, <2>2, PromptKept DEF PromptInv
  <2>4. Claimed /\ Committed => Claimed' /\ Committed'
    BY <1>0, <2>1, <2>2, SlotsFlow
  <2> QED
    BY <2>1, <2>3, <2>4 DEF PromptInv
<1>5. ASSUME NEW s \in Slots, MediaFault(s) PROVE PromptInv'
  <2>1. UNCHANGED <<reserve_tail, committed_tail, done, acked, crashes, pc, op, slot, cur, new>>
    BY <1>5 DEF MediaFault, locals
  <2>2. \A u \in Threads : Stays(u)
    BY <2>1 DEF Stays
  <2>3. Prompt'
    BY <2>1, <2>2, PromptKept DEF PromptInv
  <2> QED
    BY <2>1, <2>3 DEF PromptInv, Claimed, Committed, Finishing, HasSlot, Holding
<1> QED
  BY <1>0, <1>1, <1>2, <1>3, <1>4, <1>5, ThreadsMove

\* PromptInv holds throughout.
LEMMA PromptInvariant ==
    ASSUME Quiesced
    PROVE  Spec => [](QuietInv /\ PromptInv)
<1>1. Init => PromptInv
  <2> SUFFICES ASSUME Init PROVE PromptInv
    OBVIOUS
  <2>1. Claimed /\ Committed
    BY DEF Init, Claimed, Committed, Slots
  <2>2. Prompt
    <3> SUFFICES ASSUME NEW p \in Tails, NEW s \in Slots, p <= s, Run(p, s) PROVE FALSE
      BY DEF Prompt
    <3>1. p = 0
      BY DEF Init, Tails, AtExchange
    <3>2. s \in done
      BY <3>1 DEF Run, Slots
    <3> QED
      BY <3>2 DEF Init
  <2> QED
    BY <2>1, <2>2 DEF PromptInv
<1>2. QuietInv /\ PromptInv /\ [Next]_vars => PromptInv'
  BY PromptNext
<1> QED
  BY <1>1, <1>2, RecoveryInvariant, PTL DEF Spec

\* An acknowledged append with only acknowledged ones before it is readable at once, whoever
\* crashed: advance_committed_tail, run by every append after its commit, leaves nothing of the
\* run behind, and append returns only then.
THEOREM PrefixIsVisible ==
    ASSUME Quiesced
    PROVE  Spec => []PrefixVisible
<1>1. QuietInv /\ PromptInv => PrefixVisible
  <2> SUFFICES ASSUME QuietInv, Prompt, trimmed \cup corrupt = {}, NEW s \in Slots,
                      \A r \in Slots : r <= s => r \in acked, ~ (s < committed_tail)
               PROVE  FALSE
    BY DEF PrefixVisible, PromptInv
  <2> USE DEF QuietInv, LogInv, SlotsInv, TypeInv
  <2>1. committed_tail \in Tails /\ committed_tail \in Nat /\ committed_tail <= s
    BY DEF Tails, TypeOK, Slots
  <2>2. Run(committed_tail, s)
    BY DEF Run, SlotInv
  <2>3. PICK r \in Slots : r <= s /\ Owed(r, s)
    BY <2>1, <2>2 DEF Prompt
  <2> QED
    BY <2>3 DEF Owed
<1> QED
  BY <1>1, PromptInvariant, PTL

\* When every append has returned, the tail covers all of them and nothing else, in a pool that no
\* crash, fault or trim has left a gap in.
THEOREM TailCatchesUp ==
    ASSUME Quiesced
    PROVE  Spec => []TailCaughtUp
<1>1. QuietInv /\ PromptInv => TailCaughtUp
  <2> SUFFICES ASSUME QuietInv, Prompt, Claimed, Committed, trimmed \cup corrupt = {},
                      \A t \in Threads : pc[t] = "idle"
               PROVE  committed_tail = Cardinality(acked)
    BY DEF TailCaughtUp, PromptInv
  <2> USE DEF QuietInv, LogInv, SlotsInv, TypeInv
  <2>0. committed_tail \in 0 .. Capacity /\ done \subseteq Slots
    BY DEF TypeOK
  <2>1. \A t \in Threads : ~ Finishing(t) /\ ~ Holding(t)
    BY DEF Finishing, HasSlot, Holding
  <2>2. acked = done
    BY <2>1 DEF Committed, SlotInv
  <2>3. ASSUME NEW s \in done PROVE s < committed_tail
    <3>0. s \in Nat /\ s < Capacity /\ s \in Slots /\ s < reserve_tail /\ reserve_tail \in Nat
      BY <2>0 DEF Slots, SlotInv, TypeOK
    <3>1. \A r \in Slots : r <= s => r \in done
      <4> SUFFICES ASSUME NEW r \in Slots, r <= s PROVE r \in done
        OBVIOUS
      <4>1. r < reserve_tail
        BY <3>0 DEF Slots
      <4> QED
        BY <2>1, <4>1 DEF Claimed
    <3>2. ASSUME committed_tail <= s PROVE FALSE
      <4>1. Run(committed_tail, s) /\ committed_tail \in Tails
        BY <3>1 DEF Run, Tails
      <4>2. PICK r \in Slots : r <= s /\ Owed(r, s)
        BY <3>0, <3>2, <4>1 DEF Prompt
      <4> QED
        BY <2>2, <3>1, <4>2 DEF Owed
    <3> QED
      BY <2>0, <3>0, <3>2
  <2>4. acked = 0 .. committed_tail - 1
    <3>1. \A s \in done : s \in 0 .. committed_tail - 1
      BY <2>0, <2>3 DEF Slots
    <3>2. \A s \in 0 .. committed_tail - 1 : s \in done
      BY <2>0 DEF Slots, TailInv
    <3> QED
      BY <2>2, <3>1, <3>2
  <2>5. Cardinality(0 .. committed_tail - 1) = committed_tail
    BY <2>0, FS_Interval
  <2> QED
    BY <2>4, <2>5
<1> QED
  BY <1>1, PromptInvariant, PTL
=============================================================================
