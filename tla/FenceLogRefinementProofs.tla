---------------------- MODULE FenceLogRefinementProofs ----------------------
(***************************************************************************)
(* FenceLog implements AppendLog, when recovery waits for the appends in   *)
(* flight and the medium has no faults: every step of a thread is one step *)
(* of the abstract log, or none.                                           *)
(***************************************************************************)
EXTENDS FenceLogRecoveryProofs, FenceLogRefinement

USE CapacityAssumption, PayloadAssumption, ThreadAssumption, OpsAssumption, BoundAssumption

\* On a medium without faults no slot is corrupt.
Faultless == corrupt = {}

SoundInv == QuietInv /\ Faultless

\* SoundInv holds in every reachable state.
LEMMA SoundInvariant ==
    ASSUME Quiesced, MaxFaults = 0
    PROVE  Spec => []SoundInv
<1>1. Init => Faultless
  BY DEF Init, Faultless
<1>2. QuietInv /\ Faultless /\ [Next]_vars => Faultless'
  <2> SUFFICES ASSUME QuietInv, corrupt = {}, [Next]_vars PROVE corrupt' = {}
    BY DEF Faultless
  <2>1. TypeInv /\ ~ \E s \in Slots : MediaFault(s)
    BY DEF QuietInv, LogInv, SlotsInv, TypeInv, TypeOK, MediaFault
  <2>2. CASE Frozen
    BY <2>2 DEF Frozen
  <2>3. ASSUME NEW t \in Threads,
               \/ \E term \in Terms, data \in Payloads : Claim(t, term, data)
               \/ WriteFields(t) \/ WritePayload(t) \/ WriteCrc(t) \/ Commit(t)
               \/ ReadFields(t) \/ ReadPayload(t)
        PROVE  UNCHANGED corrupt
    BY <2>3 DEF Claim, WriteFields, WritePayload, WriteCrc, Commit, ReadFields, ReadPayload, history
  <2> QED
    BY <2>1, <2>2, <2>3, FrozenSteps
<1> QED
  BY <1>1, <1>2, RecoveryInvariant, PTL DEF Spec, SoundInv

\* The status of a slot, case by case.
LEMMA StatusFacts ==
    ASSUME NEW s
    PROVE  /\ s >= reserve_tail => StatusOf(s) = "free"
           /\ ~ (s >= reserve_tail) /\ rec[s].state \in {"FREE", "WRITING"} => StatusOf(s) = "pending"
           /\ ~ (s >= reserve_tail) /\ rec[s].state = "COMMITTED" => StatusOf(s) = "stored"
           /\ ~ (s >= reserve_tail) /\ rec[s].state \notin {"FREE", "WRITING", "COMMITTED"} =>
                 StatusOf(s) = "dropped"
  BY DEF StatusOf

\* A slot an append holds is pending.
LEMMA HeldIsPending ==
    ASSUME SoundInv, NEW t \in Threads, Holding(t)
    PROVE  /\ slot[t] \in Slots /\ slot[t] < reserve_tail
           /\ rec[slot[t]].state \in {"FREE", "WRITING"}
<1> USE DEF SoundInv, Faultless, QuietInv, LogInv, SlotsInv, TypeInv
<1>1. slot[t] \in Slots /\ slot[t] < reserve_tail /\ slot[t] \notin done
  BY DEF Ranges, HasSlot, SlotInv, SlotExclusive
<1>2. rec[slot[t]].state \in States
  BY <1>1 DEF TypeOK, Records
<1>3. rec[slot[t]].state \notin {"ABANDONED", "UNKNOWN", "COMMITTED"}
  BY <1>1 DEF RecoveryInv, Apart, History, TailInv
<1> QED
  BY <1>1, <1>2, <1>3 DEF States

\* A step that changes the state of one claimed slot only, and with it its status to v.
LEMMA StatusStep ==
    ASSUME SoundInv, NEW x \in Slots, x < reserve_tail, UNCHANGED <<reserve_tail, entry, committed_tail>>,
           \A s \in Slots \ {x} : rec'[s] = rec[s],
           NEW v, StatusOf(x)' = v
    PROVE  /\ [s \in Slots |-> StatusOf(s)'] = [[s \in Slots |-> StatusOf(s)] EXCEPT ![x] = v]
           /\ v = StatusOf(x) => [s \in Slots |-> StatusOf(s)'] = [s \in Slots |-> StatusOf(s)]
<1>1. \A s \in Slots \ {x} : StatusOf(s)' = StatusOf(s)
  BY DEF StatusOf
<1> QED
  BY <1>1

-----------------------------------------------------------------------------
(* The simulation: one lemma per kind of step. *)

\* A step that stores no state byte and claims no slot is a stutter of the abstract log.
LEMMA SilentStep ==
    ASSUME SoundInv, TypeInv', UNCHANGED <<entry, committed_tail>>,
           \A s \in Slots : rec'[s].state = rec[s].state,
           reserve_tail' = reserve_tail \/ (reserve_tail >= Capacity /\ reserve_tail' >= Capacity)
    PROVE  UNCHANGED Abs!absVars
<1>1. /\ reserve_tail \in Nat /\ reserve_tail' \in Nat
      /\ \A s \in Slots : s \in Nat /\ s < Capacity
  BY DEF SoundInv, QuietInv, LogInv, SlotsInv, TypeInv, TypeOK, Slots
<1>2. \A s \in Slots : s >= reserve_tail' <=> s >= reserve_tail
  BY <1>1
<1>3. \A s \in Slots : StatusOf(s)' = StatusOf(s)
  BY <1>2 DEF StatusOf
<1> QED
  BY <1>3 DEF Abs!absVars

\* A claim hands out the first free slot.
LEMMA ClaimHandsOut ==
    ASSUME SoundInv, NEW t \in Threads, NEW term \in Terms, NEW data \in Payloads,
           Claim(t, term, data)
    PROVE  \E x \in Abs!Positions : Abs!HandOut(x)
<1> USE DEF SoundInv, Faultless, QuietInv, LogInv, SlotsInv, TypeInv
<1> DEFINE e == [term |-> term, data |-> data, writer |-> HostOf[t]]
<1>0. PICK x \in Slots : x = reserve_tail
  BY DEF Claim, TypeOK, Slots
<1>1. x \in Nat /\ reserve_tail' = x + 1 /\ \A s \in Slots : s \in Nat
  BY <1>0 DEF Claim, Call, TypeOK, Slots, ReserveInv, WrappingAdd
<1>2. /\ rec' = rec /\ committed_tail' = committed_tail
      /\ entry' = [entry EXCEPT ![x] = e] /\ e \in [term : Terms, data : Payloads, writer : Hosts]
  BY <1>0 DEF Claim, TypeOK
<1>3. rec[x].state = "FREE"
  BY <1>0, <1>1 DEF RecoveryInv, History
<1>4. StatusOf(x) = "free" /\ StatusOf(x)' = "pending"
  BY <1>0, <1>1, <1>2, <1>3 DEF StatusOf
<1>5. \A s \in Slots : s # x => StatusOf(s)' = StatusOf(s)
  BY <1>0, <1>1, <1>2 DEF StatusOf
<1>6. \A s \in Slots : s < x => StatusOf(s) # "free"
  <2>1. \A s \in Slots : s < x => ~ (s >= reserve_tail)
    BY <1>0, <1>1
  <2> QED
    BY <2>1, StatusFacts
<1>7. [s \in Slots |-> StatusOf(s)'] = [[s \in Slots |-> StatusOf(s)] EXCEPT ![x] = "pending"]
  BY <1>0, <1>4, <1>5
<1>8. Abs!Positions = Slots
  BY DEF Abs!Positions, Slots
<1>9. Abs!HandOut(x)
  BY <1>0, <1>2, <1>4, <1>6, <1>7, <1>8 DEF Abs!HandOut
<1> QED
  BY <1>8, <1>9

\* A commit stores a pending entry.
LEMMA CommitStores ==
    ASSUME SoundInv, NEW t \in Threads, Commit(t)
    PROVE  \E x \in Abs!Positions : Abs!Store(x)
<1> USE DEF SoundInv, QuietInv, LogInv, SlotsInv, TypeInv
<1>1. Holding(t) /\ "COMMITTED" \in States
  BY DEF Commit, Holding, States
<1>2. PICK x \in Slots : x = slot[t] /\ x < reserve_tail /\ rec[x].state \in {"FREE", "WRITING"}
  BY <1>1, HeldIsPending
<1>3. /\ rec'[x].state = "COMMITTED" /\ \A s \in Slots \ {x} : rec'[s] = rec[s]
      /\ UNCHANGED <<reserve_tail, entry, committed_tail>>
  BY <1>1, <1>2, SetStateFacts DEF Commit, TypeOK
<1>4. ~ (x >= reserve_tail)
  BY <1>2 DEF TypeOK, Slots
<1>5. StatusOf(x) = "pending" /\ StatusOf(x)' = "stored"
  BY <1>2, <1>3, <1>4 DEF StatusOf
<1>6. [s \in Slots |-> StatusOf(s)'] = [[s \in Slots |-> StatusOf(s)] EXCEPT ![x] = "stored"]
  BY <1>2, <1>3, <1>5, StatusStep
<1>7. Abs!Store(x) /\ x \in Abs!Positions
  BY <1>2, <1>3, <1>5, <1>6 DEF Abs!Store, Abs!Positions, Slots
<1> QED
  BY <1>7

\* MarkWriting leaves the entry pending.
LEMMA MarkIsSilent ==
    ASSUME SoundInv, NEW t \in Threads, MarkWriting(t)
    PROVE  UNCHANGED Abs!absVars
<1> USE DEF SoundInv, QuietInv, LogInv, SlotsInv, TypeInv
<1>1. Holding(t) /\ "WRITING" \in States
  BY DEF MarkWriting, Holding, States
<1>2. PICK x \in Slots : x = slot[t] /\ x < reserve_tail /\ rec[x].state \in {"FREE", "WRITING"}
  BY <1>1, HeldIsPending
<1>3. /\ rec'[x].state = "WRITING" /\ \A s \in Slots \ {x} : rec'[s] = rec[s]
      /\ UNCHANGED <<reserve_tail, entry, committed_tail>>
  BY <1>1, <1>2, SetStateFacts DEF MarkWriting, TypeOK, history
<1>4. ~ (x >= reserve_tail)
  BY <1>2 DEF TypeOK, Slots
<1>5. StatusOf(x) = "pending" /\ StatusOf(x)' = "pending"
  BY <1>2, <1>3, <1>4 DEF StatusOf
<1>6. [s \in Slots |-> StatusOf(s)'] = [s \in Slots |-> StatusOf(s)]
  BY <1>2, <1>3, <1>5, StatusStep
<1> QED
  BY <1>3, <1>6 DEF Abs!absVars

\* recover gives a pending entry up, and leaves a dropped one as it is.
LEMMA AbandonGivesUp ==
    ASSUME SoundInv, NEW t \in Threads, Abandon(t)
    PROVE  (\E x \in Abs!Positions : Abs!GiveUp(x)) \/ UNCHANGED Abs!absVars
<1> USE DEF SoundInv, Faultless, QuietInv, LogInv, SlotsInv, TypeInv
<1>1. pc[t] = "abandon" /\ "ABANDONED" \in States
  BY DEF Abandon, States
<1>2. /\ Placed(t) /\ Apart(t) /\ Recovering(t) /\ cursor[t] < limit[t]
      /\ cursor[t] \in Nat /\ limit[t] \in Nat /\ reserve_tail \in Nat
  BY <1>1 DEF RecoveryInv, Recovering, Scanning, Ranges, TypeOK
<1>3. PICK x \in Slots : x = cursor[t] /\ x \notin done /\ ~ (x >= reserve_tail)
  BY <1>1, <1>2, AbandonsSlot DEF Placed, Apart
<1>4. /\ rec'[x].state = "ABANDONED" /\ \A s \in Slots \ {x} : rec'[s] = rec[s]
      /\ UNCHANGED <<reserve_tail, entry, committed_tail>>
  BY <1>1, <1>3, SetStateFacts DEF Abandon, TypeOK, history
<1>5. StatusOf(x)' = "dropped" /\ x < reserve_tail
  BY <1>2, <1>3, <1>4 DEF StatusOf, Slots
<1>6. rec[x].state # "COMMITTED"
  BY <1>3 DEF TailInv
<1>7. /\ [s \in Slots |-> StatusOf(s)'] = [[s \in Slots |-> StatusOf(s)] EXCEPT ![x] = "dropped"]
      /\ StatusOf(x) = "dropped" => [s \in Slots |-> StatusOf(s)'] = [s \in Slots |-> StatusOf(s)]
  BY <1>4, <1>5, StatusStep
<1>8. CASE rec[x].state \in {"FREE", "WRITING"}
  <2>1. StatusOf(x) = "pending"
    BY <1>3, <1>8 DEF StatusOf
  <2>2. Abs!GiveUp(x) /\ x \in Abs!Positions
    BY <1>4, <1>7, <2>1 DEF Abs!GiveUp, Abs!Positions, Slots
  <2> QED
    BY <2>2
<1>9. CASE rec[x].state \notin {"FREE", "WRITING"}
  <2>1. StatusOf(x) = "dropped"
    BY <1>3, <1>6, <1>9 DEF StatusOf
  <2> QED
    BY <1>4, <1>7, <2>1 DEF Abs!absVars
<1> QED
  BY <1>8, <1>9

\* trim discards a visible entry; of two trims that store the same slot the second
\* changes nothing.
LEMMA TrimDiscards ==
    ASSUME SoundInv, NEW t \in Threads, TrimStore(t)
    PROVE  (\E x \in Abs!Positions : Abs!Discard(x)) \/ UNCHANGED Abs!absVars
<1> USE DEF SoundInv, Faultless, QuietInv, LogInv, SlotsInv, TypeInv
<1>1. pc[t] = "trim_store" /\ "ABANDONED" \in States
  BY DEF TrimStore, States
<1>2. /\ cursor[t] < limit[t] /\ limit[t] <= committed_tail
      /\ cursor[t] \in Nat /\ limit[t] \in Nat /\ reserve_tail \in Nat /\ committed_tail \in 0 .. Capacity
  BY <1>1 DEF Ranges, TypeOK
<1>3. PICK x \in Slots : x = cursor[t] /\ x < committed_tail
  BY <1>1, <1>2, AbandonsSlot
<1>4. /\ rec'[x].state = "ABANDONED" /\ \A s \in Slots \ {x} : rec'[s] = rec[s]
      /\ UNCHANGED <<reserve_tail, entry, committed_tail>>
  BY <1>1, <1>3, SetStateFacts DEF TrimStore, TypeOK
<1>5. x \in done /\ x < reserve_tail /\ ~ (x >= reserve_tail)
  BY <1>2, <1>3 DEF TailInv, SlotInv, Slots
<1>6. rec[x].state \in {"COMMITTED", "ABANDONED"}
  BY <1>5 DEF TailInv
<1>7. StatusOf(x)' = "dropped"
  BY <1>4, <1>5 DEF StatusOf
<1>8. /\ [s \in Slots |-> StatusOf(s)'] = [[s \in Slots |-> StatusOf(s)] EXCEPT ![x] = "dropped"]
      /\ StatusOf(x) = "dropped" => [s \in Slots |-> StatusOf(s)'] = [s \in Slots |-> StatusOf(s)]
  BY <1>4, <1>5, <1>7, StatusStep
<1>9. CASE rec[x].state = "COMMITTED"
  <2>1. StatusOf(x) = "stored"
    BY <1>5, <1>9 DEF StatusOf
  <2>2. Abs!Discard(x) /\ x \in Abs!Positions
    BY <1>3, <1>4, <1>8, <2>1 DEF Abs!Discard, Abs!Positions, Slots
  <2> QED
    BY <2>2
<1>10. CASE rec[x].state = "ABANDONED"
  <2>1. StatusOf(x) = "dropped"
    BY <1>5, <1>10 DEF StatusOf
  <2> QED
    BY <1>4, <1>8, <2>1 DEF Abs!absVars
<1> QED
  BY <1>6, <1>9, <1>10

\* A compare-exchange that succeeds shows entries that are all stored at that moment,
\* however long ago the walk saw them; one that fails changes nothing.
LEMMA CasShows ==
    ASSUME SoundInv, NEW t \in Threads, Cas(t)
    PROVE  Abs!Show \/ UNCHANGED Abs!absVars
<1> USE DEF SoundInv, Faultless, QuietInv, LogInv, SlotsInv, TypeInv
<1>1. UNCHANGED <<reserve_tail, rec, entry>> /\ pc[t] = "cas"
  BY DEF Cas, history
<1>2. \A s \in Slots : StatusOf(s)' = StatusOf(s)
  BY <1>1 DEF StatusOf
<1>3. [s \in Slots |-> StatusOf(s)'] = [s \in Slots |-> StatusOf(s)]
  BY <1>2
<1>4. CASE committed_tail = cur[t]
  <2>1. committed_tail' = new[t] /\ cur[t] < new[t]
    BY <1>1, <1>4 DEF Cas, RecoveryInv, Placed
  <2>2. committed_tail \in 0 .. Capacity /\ new[t] \in 0 .. Capacity /\ reserve_tail \in Nat
    BY DEF TypeOK
  <2>3. committed_tail' \in committed_tail + 1 .. Capacity
    BY <1>4, <2>1, <2>2
  <2>4. ASSUME NEW s \in committed_tail .. committed_tail' - 1
        PROVE  s \in Slots /\ StatusOf(s) = "stored"
    <3>1. s \in Slots /\ s < new[t] /\ ~ (s < committed_tail)
      BY <2>1, <2>2 DEF Slots
    <3>2. s \in done
      BY <1>1, <3>1 DEF TailInv
    <3>3. rec[s].state = "COMMITTED"
      BY <3>1, <3>2 DEF RecoveryInv, History
    <3>4. ~ (s >= reserve_tail)
      BY <2>2, <3>1, <3>2 DEF SlotInv, Slots
    <3> QED
      BY <3>1, <3>3, <3>4 DEF StatusOf
  <2> QED
    BY <1>1, <1>3, <2>3, <2>4 DEF Abs!Show
<1>5. CASE committed_tail # cur[t]
  BY <1>1, <1>3, <1>5 DEF Cas, Abs!absVars
<1> QED
  BY <1>4, <1>5

-----------------------------------------------------------------------------
\* The lock-free log, with any number of threads, crashes and restarts, is the abstract
\* append-only log: a slot is handed out once and in order, its entry is stored, given up
\* or discarded as one step, and what becomes visible is stored at that moment.
THEOREM LogImplementsAppendLog ==
    ASSUME Quiesced, MaxFaults = 0
    PROVE  Spec => ImplementsAppendLog
<1>1. Init => Abs!AbsInit
  BY DEF Init, Abs!AbsInit, Abs!Positions, Slots, StatusOf
<1>2. SoundInv /\ [Next]_vars => [Abs!AbsNext]_(Abs!absVars)
  <2> SUFFICES ASSUME SoundInv, [Next]_vars PROVE [Abs!AbsNext]_(Abs!absVars)
    OBVIOUS
  <2>1. SlotsInv /\ TypeInv'
    BY TypeNext DEF SoundInv, QuietInv, LogInv, SlotsInv
  <2>2. CASE Unmoved
    BY <2>1, <2>2, SilentStep DEF Unmoved
  <2>3. ASSUME NEW t \in Threads,
               \/ LoadTail(t) \/ ScanOn(t) \/ ScanStop(t)
               \/ CallRecover(t) \/ Inspect(t) \/ Check(t) \/ RecoverPhase2(t)
        PROVE  UNCHANGED Abs!absVars
    <3>1. UNCHANGED <<entry, committed_tail, rec, reserve_tail>>
      BY <2>3 DEF LoadTail, ScanOn, ScanStop, CallRecover, Inspect, Check, RecoverPhase2, pool, history
    <3> QED
      BY <2>1, <3>1, SilentStep
  <2>4. ~ \E s \in Slots : MediaFault(s)
    BY <2>1 DEF SlotsInv, TypeInv, TypeOK, MediaFault
  <2>5. ASSUME NEW t \in Threads, NEW term \in Terms, NEW data \in Payloads, Claim(t, term, data)
        PROVE  Abs!AbsNext
    BY <2>5, ClaimHandsOut DEF Abs!AbsNext
  <2>6. ASSUME NEW t \in Threads, Commit(t) PROVE Abs!AbsNext
    BY <2>6, CommitStores DEF Abs!AbsNext
  <2>7. ASSUME NEW t \in Threads, Abandon(t) \/ TrimStore(t) \/ Cas(t)
        PROVE  [Abs!AbsNext]_(Abs!absVars)
    BY <2>1, <2>7, AbandonGivesUp, TrimDiscards, CasShows DEF Abs!AbsNext
  <2> QED
    BY <2>1, <2>2, <2>3, <2>4, <2>5, <2>6, <2>7, MarkIsSilent, UnmovedSteps
<1> QED
  BY <1>1, <1>2, SoundInvariant, PTL DEF Spec, ImplementsAppendLog, Abs!AbsSpec
=============================================================================
