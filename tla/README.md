# TLA+ specifications of Fence

Fence is a crash-consistent append-only log in memory that several hosts share
(CXL, DAX, or a file mapped with mmap). It takes no locks: slots are claimed with
`fetch_add`, published with a state byte, and made readable by a compare-exchange
on a tail. This directory models that code, checks the models with TLC and proves
every safety property the runs check with TLAPS, for every size of the system.
Paths below are relative to `src/`.

## The system

| component | state | operations | concurrency and failure |
|---|---|---|---|
| log engine (`crates/fence-runtime/src/engine.rs`) | header (`reserve_tail`, `committed_tail`), record slots | `open`, `append`, `read`, `read_range` | any number of threads and hosts, no lock |
| recovery (`recovery.rs`) | the same | `recover`, `advance_committed_tail` | runs next to everything else; the latter at the end of every append |
| compaction (`compaction.rs`) | state bytes | `trim` | next to everything else |
| metrics (`metrics.rs`) | one block of counters per host | increments, `read_stats` | separate `fetch_add`s after the fact |
| layout, checksum (`crates/fence-core/src/layout.rs`, `checksum.rs`) | none | offsets; compute, verify | |
| memory backend (`mmap_backend.rs`, `backend.rs`) | the mapped file | loads, stores, atomics, `flush`, `open` | what the callers make of it |
| persistence (`persistence.rs`) | CPU caches | `clwb`, `sfence`, `flush_range` | a host dies with its caches |
| region allocator (`crates/fence-alloc`) | catalog header and entries | `init`, `open`, `create_region`, `free_region`, `find_region`, `list_regions`, `recover` | callers die in the middle; no lock |
| configuration (`crates/fence-config`) | the configuration file | `resolve_path`, `from_file`, `validate` | every process has its own, and nothing compares them |
| command line (`crates/fenced`) | none | `init`, `status`, `recover`, `validate` | short processes next to the applications |
| test harness (`crates/fence-test-harness`) | none | temporary pools, assertions | none of its own |

How they interact: the engine calls the backend for each access and
`advance_committed_tail` at the end of `append` and of `recover`; the calls share
nothing but the pool. `fenced` and the applications that embed `FenceRuntime` are
processes that come and go; what they share is the pool file, and each sees it
through the geometry its own configuration gives.
The allocator uses a backend of its own and never meets the log.

What is hard here: several threads walk and exchange one tail; a full pool
overshoots the claim counter and takes it back; a process dies between any two
stores; recovery runs next to live writers; records are read while they are
trimmed; cache lines reach the media in any order and are lost with a host; the
file is resized, and its header rewritten, by whoever opens it. The list, with lines, is `hazards` in `PROJECT.json`.

## Modules

| module | what it is |
|---|---|
| `FenceLog` | the log on coherent memory; processes crash, media corrupt |
| `AppendLog` | the abstract log: slots handed out once and in order, entries stored whole or not at all, a visible prefix that grows over stored entries |
| `FenceLogRefinement` | the mapping from `FenceLog` to `AppendLog` |
| `FenceLogProofs` | `FenceLog`: types, the reserve protocol, the committed tail |
| `FenceLogDataProofs` | `FenceLog`: what the records hold, what reads return and what the counters add up to |
| `FenceLogRecoveryProofs` | `FenceLog`: recovery, when it is quiesced, and that the committed tail keeps up |
| `FenceLogRefinementProofs` | `FenceLog` implements `AppendLog` |
| `FenceCache` | the log on memory with write-back caches; hosts die with theirs |
| `FenceCacheProofs` | theorems about `FenceCache` |
| `FenceAlloc` | the region allocator |
| `RegionMap` | the abstract allocator: a map from names to disjoint ranges, in which a region appears whole or not at all and goes in one step |
| `FenceAllocRefinement` | the mapping from `FenceAlloc` to `RegionMap` |
| `FenceAllocProofs` | theorems about `FenceAlloc`, among them that it implements `RegionMap` |
| `FencePool` | the life of a pool: configuration, geometry, the file and its mappings, `init`, `status`, `recover`, applications that append and read |
| `FencePoolProofs` | theorems about `FencePool` |
| `FenceSums` | facts about sums over finite sets, for the counters of all hosts |
| `MCFenceLog`, `MCFenceCache`, `MCFencePool` | instances for TLC |

Operators called "Mutant of X" are X with one plausible bug. They are not part of
the specifications; each shows that some property would notice.

### FenceLog

One action is one access to shared memory and the local computation after it. The
pool is `reserve_tail`, `committed_tail`, `rec` and `metrics`; `pc` and the local
variables (`slot`, `cursor`, `limit`, `cur`, `new`, ...) belong to the threads and
carry the code's names where it has them (`cur` and `new` are `current_tail` and
`new_tail`). `entry`, `done`, `acked`, `trimmed` and `corrupt` are history: no
action's guard reads them.

- `append` is `Claim` (or `AppendTooLarge`, or `ClaimFull` - `Undo` -
  `CountFailed`), `MarkWriting`, `WriteFields`, `WritePayload`, `WriteCrc`,
  `Commit`, the advance, `CountAppend`, `CountBytes`. The four field stores are one
  step because nobody loads them before COMMITTED.
- `advance_committed_tail` is `LoadTail`, `ScanOn` / `ScanStop` per slot, `Cas`.
- `recover` is `CallRecover`, `Inspect` / `Check` / `Abandon` per slot,
  `RecoverPhase2`, the advance, `CountRun`, `CountAbandoned`.
- `trim` is `CallTrim` or `TrimBeyond`, `TrimInspect` / `TrimStore`, `TrimReturn`.
- `read(i)` is the range from i to i + 1 of `read_range`: `CallRead`, `ReadTail`,
  `ReadState`, `ReadFields`, `ReadPayload`, `ReadOk` / `ReadMismatch`, `ReadReturn`.
- `Crash` kills every thread of a process, `Restart` is `open` of the existing
  pool, `MediaFault` is the corruption the checksum and the unknown-state branches
  are written for: it may hit the state, the term, the index, the writer, the length
  (each takes a value of `FaultWords`), the payload or the checksum of a record.

The checksum is ideal: it is a record of what it covers (term, index and payload;
neither the writer nor the length). A payload read with a length that is not its own
is garbage to it, and does not verify. A writer that is not its own goes unnoticed, so
`Holds`, what a read that verifies can be relied on for, is about term, index and
payload, and `ReadSound` promises the writer (`NamesWriter`) for slots that no fault
has hit. The counters are u64 and wrap at `U64`. `Quiesced` is an
assumption on the environment: recovery is only started when no append is between
its claim and its commit. The code does not enforce it; the runs say which results
need it.

### FenceCache

`append`, `recover` and `trim` again, with the flushes as steps of their own. The
pool is a set of cells at offsets computed as `PoolGeometry` computes them, `Line`
cells to a cache line; with a payload size that is not a multiple of a line, as
the configuration allows, lines are shared between neighbouring records and a
record's metadata straddle two. `mem` is the content the hosts see, `media` what
was written back, `dirty` the host that holds a line modified. A line goes to the
media by a flush, by an eviction at any moment, or because another host loads or
stores it. `Crash` loses the lines that are dirty in the host. A flush reaches a
line in whichever cache of the coherence domain it is.

An append's term and payload are the number of its call. `HeaderKept` is the
assumption that no host dies while the header line is dirty in it. Reads and
metrics are left out: they store nothing outside the metrics blocks, and the
write-back a load may cause is covered by evictions.

### FenceAlloc

One action is one store into the catalog or one scan of it, with what follows
locally. `write_entry` is two steps, the fields and then the state, as in the
code; the created epoch, always 0, is left out. A scan is one step; with `Serial`,
where calls do not overlap, that loses nothing. `Serial` is again an assumption on
the environment: nothing in the allocator enforces it. `live` is
history.

`Contains` is `RegionHandle::contains`, with u64 additions.

`FenceAllocRefinement` maps an ACTIVE entry to a region of `RegionMap` and an
ALLOCATING one to a promise; FREE and FREEING entries own nothing, whatever is left in
their fields. Then the store of ALLOCATING is `Promise`, that of ACTIVE `Publish`,
that of FREEING `Remove`, recovery's FREE over ALLOCATING `Withdraw`, and every other
store, the ones of the fields and of the count included, is a stutter.

### FencePool

Processes are started (`main`) with a command and the path that `ResolvePath`
makes of `--config` and the environment. `LoadFails` and `CmdValidate` end there;
`Exec` goes on to `FenceRuntime::open` with the configuration loaded.

- `MapFile` is `MmapBackend::open`: the file takes the size that follows from the
  process's own configuration, larger or smaller than it was. `MapFails` is each
  of its failures, before and after the `ftruncate`.
- `init` is `StoreHeader` per field, in any order, and `Created`. The others are
  `CheckMagic`, which compares the magic number and nothing else, and then
  `Recover`; or `ReadStats` and `LoadTail` twice, then `EndStatus`; or, for an
  application (`serve`), any number of appends (`Claim`, `Store` per field,
  `Commit`, `AdvanceTail`, `Count`, or `ClaimFull`, `Undo` and `CountFull`) and reads
  (`ReadCall`, `ReadDone`) until `Close`. The two `fetch_add`s of a failed append are
  two steps, on a counter that wraps at `U64`; a process may be killed between them.
- `Fault` is the death of a process at an access outside its mapping or past the
  end of the file, `Crash` a kill at any other moment.

The file is a function from offsets to words, laid out by `RecordOffset`,
`PayloadOffset` and `MetricsOffset` of whatever geometry a process has, so that a
slot of one geometry and a counter of another meet where they really would.
`Touched` is the set of bytes the next access of a process needs. Of the counters
only `appends_total` is kept, and a record's fields go with its payload. Page
granularity is left out: in the last page of a mapping the kernel forgives what
`Fault` does not, which is why the steps themselves only ask that the file has the
bytes.

Memory is weakly ordered as far as the code's orderings allow: the Relaxed stores
of `append` and of `create` come in any order, the Release store of COMMITTED after
all of them, and the Relaxed loads of `read_stats` are not kept before the Acquire
loads of the tails. In return the walk of `advance_committed_tail` and the scan of
`recover` are one step each; `FenceLog` has their interleavings.

`Quiesced` (init runs alone, recover without writers) and `InitOnce` (init is not
run on a pool that was appended to) are assumptions on the operators.

## What the runs show

| run | bounds | result |
|---|---|---|
| `LogLive` | 2 slots, 2 threads on 2 hosts, 3 calls of append, read, recover and trim, 1 fault, not quiesced | `TypeOK`, `NoInFlightBelowTail`, `TailMonotone`, `CommittedIntact`, `ReadSound` hold: whatever runs next to whatever, the tail is not spoiled, and no read returns what was not appended |
| `LogRecovery` | 2 slots, 2 threads, 4 calls of append, recover and trim, 1 crash, quiesced | `SlotExclusive`, `ClaimedOnce`, `MetricsAccount`, `AckedDurable`, `PrefixVisible`, `RecoverRepairs`, `AbandonedFinal` hold and `FenceLog` implements `AppendLog` |
| `LogFair` | 3 slots, 3 threads, 3 calls of append and recover, fair | `TailCaughtUp`, `CallsReturn`, `AckedReadable` hold |
| `Cache` | 2 records that share lines, 3 threads on 2 hosts, 3 calls, 1 host crash, header kept | `CommittedOnMedia`, `AckedSurvives`, `DroppedStays`, `EndedFlushed` hold |
| `Alloc` | 2 entries, 2 names, 5 calls one at a time, 2 crashes | `RegionsDisjoint`, `RegionsInside`, `NamesUnique`, `HandlesGood`, `HandlesApart`, `RecoverCompletes` hold, `CountExact` for histories without a crash, and `FenceAlloc` implements `RegionMap` |
| `Pool` | 2 processes at a time, 4 in all (3 where a geometry is not the default one), 2 hosts, 2 slots, 1 kill, one configuration file for every check of `validate`, quiesced | `InBoundsOneGeometry`, `OvershootBounded`, `PoolIntact`, `AckedKept`, `StatusConsistent`, `StatusAppends` hold |

Why the bounds are enough to mean something: two slots and four appends (`LogRecovery`)
put two overshoots in flight, or one that is never undone, and quiescence, which only
holds recovery back, takes no interleaving of claims away; two slots let a gap precede a
committed record; three threads (`LogFair`) let one hold a stale tail while the
other two race on the exchange. `LogLive` has no crash: for the properties it checks, a
thread that has died is one that takes no further step, which TLC lets any thread do.
In `Cache` one thread appends, one of the same host walks and one of the other host
recovers or trims, and the crash comes at any moment; the two crashes of `Alloc` let its
recovery itself die.
`PayloadCells = 3` with lines of two cells makes every record share a line with
the next one. Four processes are an init, two writers and a status, or an init, a
writer that is killed, a recover and another writer; words of two bytes keep the
offsets of `Pool` small and still tell aligned from misaligned. The passing runs
take every action of the four specifications.

Disagreements between the code and what the repository says of it; each is a run
that TLC refutes, and an entry of `findings`:

| run | what happens |
|---|---|
| `LogLiveAcked` | recovery next to a live append: recover has read WRITING, the append commits and returns Ok, recover stores ABANDONED |
| `LogGaps` | recovery does not skip gaps; committed records behind one stay unreadable |
| `CacheHeader` | the header line is never flushed: a host crash takes `reserve_tail` back and an acknowledged record is overwritten |
| `CacheTail` | two threads on one host: one moves the tail over the record of the other, whose COMMITTED byte is stored and not flushed; the tail reaches the media, the host dies, and a slot below the tail is WRITING again |
| `PoolZero` | `fenced init` on a used pool zeroes nothing: after the first append the tail walks over the old records, and they are read |
| `PoolBounds` | `open` takes the geometry from the configuration and not from the header: a process with a smaller capacity reads a record outside its mapping |

Others met while modelling, without a run of their own. `PrefixVisible` and
`TailCaughtUp` are stated for pools where nothing was trimmed; without that
condition `PrefixVisible` fails in `LogRecovery`: a scan from a stale tail stops at a
slot trimmed since, "no advancement possible" (`recovery.rs:146`), and the tail stays
short of an acknowledged record until the next append. With processes of two
capacities the overshoot is not harmless: the undo of the one with the smaller capacity
takes `reserve_tail` back from a slot the other has claimed. With `Quiesced = FALSE`
in `Pool`, `AckedKept` and `PoolIntact` fail: the magic number is the first store
of `create`, a process that opens the pool then appends, and the tails are reset
under it. `MmapBackend::open` shrinks files, where `mmap_backend.rs:41` only speaks
of extending them. `auto_recover`, `recovery_timeout_ms` and the overflow strategy
are parsed, and nothing reads them. `contains` wraps for an access whose end is
beyond 2^64. `trim(up_to)` drops the
record with index `up_to` too, where `compaction.rs:20` says `index < up_to`. Two
concurrent `create_region` calls take the same entry (`HandlesGood` fails with
`Serial = FALSE`). A crash between state byte and count leaves `region_count`
wrong, and the allocator's recovery does not repair it (`CountExact` without its
condition). The bytes of the highest region are reused after a free, where
`allocator.rs:138` says there is no reuse. A size close to 2^64 wraps the space
check (`RegionsInside` with such a size among `Sizes`).

Fairness (`FairSpec`) is weak fairness of each thread's steps within a call, and
nothing else: the code takes no lock and waits for nobody, so a thread the
operating system runs always has an enabled step. Nobody is assumed to make calls,
to crash or to restart. `CallsReturn` needs no strong fairness because the tail
moves at most `Capacity` times. Deadlock is checked in every run; `Rest` is the
end of the bounded run, all calls made and returned.

## What is proved

The theorems hold for every capacity, payload and line size, set of hosts, set of
threads, catalog, set of configuration files and number of calls, crashes and
faults, within the named `ASSUME`s of the modules. None of the properties is
inductive by itself; each inductive invariant was checked with TLC on the bounds of
the run before it was proved. Where a theorem needs a promise of the environment
the promise is a hypothesis of the theorem, and the run, or a refuted run above,
shows what happens without it.

| theorem | property | promises it needs |
|---|---|---|
| `TypeCorrect` | `TypeOK` | |
| `SlotsAreExclusive`, `SlotsAreClaimedOnce` | `SlotExclusive`, `ClaimedOnce` | |
| `ReadersSeeNoRecordInFlight`, `TailNeverMovesBack` | `NoInFlightBelowTail`, `TailMonotone` | |
| `CommittedRecordsAreIntact`, `ReadsAreSound` | `CommittedIntact`, `ReadSound` | |
| `AcknowledgedIsDurable`, `AbandonedIsFinal`, `RecoveryRepairs` | `AckedDurable`, `AbandonedFinal`, `RecoverRepairs` | `Quiesced` |
| `LogImplementsAppendLog` | `ImplementsAppendLog` | `Quiesced`, no media faults |
| `PrefixIsVisible`, `TailCatchesUp` | `PrefixVisible`, `TailCaughtUp` | `Quiesced` |
| `MetricsAreAccounted` | `MetricsAccount` | the payload bytes of a full pool, `Capacity * PayloadSize`, are below 2^64 |
| `CacheTypeCorrect` | `CacheTypeOK` | |
| `CommittedIsOnMedia`, `AcknowledgedSurvives`, `DroppedStaysDropped` | `CommittedOnMedia`, `AckedSurvives`, `DroppedStays` | `Quiesced`, `HeaderKept` |
| `EndedIsFlushed` | `EndedFlushed` | `Quiesced`, `HeaderKept` |
| `AllocTypeCorrect` | `AllocTypeOK` | |
| `RegionsNeverOverlap`, `RegionsStayInside`, `NamesAreUnique`, `HandlesStayGood`, `ContainsSeparatesRegions`, `RecoveryCompletes`, `CountIsExact` | `RegionsDisjoint`, `RegionsInside`, `NamesUnique`, `HandlesGood`, `HandlesApart`, `RecoverCompletes`, `CountExact` | `Serial`, `SizesFit` |
| `AllocImplementsRegionMap` | `ImplementsRegionMap` | `Serial`, `SizesFit` |
| `PoolTypeCorrect`, `PoolInBounds` | `PoolTypeOK`, `InBoundsOneGeometry` | |
| `FailedAppendsBalance`, `PoolStaysIntact`, `AcknowledgedIsKept`, `StatusFits`, `StatusCounts` | `OvershootBounded`, `PoolIntact`, `AckedKept`, `StatusConsistent`, `StatusAppends` | `Quiesced`, `InitOnce` |
| `SumTakes` | a sum over a finite set does not depend on the order of the fold | |

### The log

Of the assumptions of `FenceLog` the one of substance is that fewer than 2^64 calls
are made, so that `reserve_tail` does not wrap.

`FenceLogProofs`. `TypeInv` adds to the types where each loop stands: a holder's
slot is a slot, a trim stays below the committed tail, a walk is at or past its
start. `ReserveInv` is the heart of the reserve protocol: while `reserve_tail` is
below the capacity no undo is pending, and otherwise the number of pending undos is
at most the overshoot. So an undo never takes the counter below the capacity,
whoever else claims, undoes or dies; a crashed append only leaves the overshoot too
large. `SlotInv` then follows: a claim takes the slot at `reserve_tail`, which is
above every slot held or done. `TailInv` says that what a walk has passed is `done`,
and `done` never shrinks, so that even a stale walk installs a tail over committed
slots only; a successful exchange implies that the tail still is where the walk
started, hence it only grows.

`FenceLogDataProofs`. `DataInv`: the record in a slot follows the `pc` of its
holder (labelled after the fields, whole after the payload, summed after the
checksum), a slot that is `done` is sealed, and what a reader has loaded so far is
the record's, but for what a fault changed in between. A faulty checksum verifies
for nothing, and a faulty term, index, length or payload under no checksum that an append
stored; a faulty writer does, and is therefore only ruled out where no fault was. No promise is needed: recovery and trim only store state bytes.

`FenceLogRecoveryProofs`. `RecoveryInv` keeps recoveries and appends apart: the
limit of a running recovery is at or below the slot of every holder, so that what
it is about to abandon was not committed whole, and the slots it has passed stay
repaired. `History` says what a state byte tells about the past of its slot: beyond
`reserve_tail` it is FREE, and a slot that was committed is never WRITING again, and
is COMMITTED unless it was trimmed or corrupted.

`FenceLogRefinementProofs`. The initial states map to the initial state of
`AppendLog`; a claim is `HandOut`, a commit `Store`, an abandon of recovery
`GiveUp`, a trim's `Discard`, a successful exchange `Show`, and every other step maps
to a stutter. The invariant of the simulation is that of recovery, without corrupt slots.

The committed tail keeps up (`FenceLogRecoveryProofs`, second part). `PrefixVisible`
is about the moment an append returns: a walk that loses an exchange loses it to one
that moved the tail, and the winner may have seen less than the loser. `Prompt` says
what holds at every moment in between, for the tail as it is and for every tail it may
be exchanged for next: of the slots from there on that are committed without a gap,
up to any of them, one is still to be acknowledged (`Owed`), and the append it belongs to is in
`advance_committed_tail` and not about to install a tail that stops short. When that
append died, its slot is never acknowledged, and nothing is owed to anybody. So where
all slots up to one are acknowledged the tail is beyond it, crashes or not. For
`TailCaughtUp`, as long as nobody has died, every claimed slot is committed or held
(`Claimed`) and every committed one acknowledged or about to be (`Committed`).

The counters (`FenceLogDataProofs`, second part). An append counts itself after its
commit and its bytes after that, each once. `AppendsInv`: `appends_total`, added up
over the hosts, together with the appends that have committed and not counted, is at
most the number of committed slots; and at least the acknowledged ones, together with
those that have counted and not returned. `BytesInv` is the same with the bytes, at most
`PayloadSize` to an append. `OwnInv` says that a slot belongs to one append, so that
nobody is counted twice. A crash takes appends out of those to come, which loses
counts and never adds any. The hypothesis keeps `bytes_written` from wrapping; a pool
that violates it is longer than its own `total_size`, a u64, can say.

`FenceSums` is what both this and `StatusCounts` rest on. The library's sum is a
`CHOOSE` of a recursive function on the subsets, taken in an order nobody knows. The
induction theorems of the library are of no use to the provers here, so each fact is
proved by a least counterexample: there is such a function up to any cardinality,
hence one for the whole set, and the smallest set whose sum depends on the element
taken first does not exist. What is used are the corollaries: a sum of naturals is
natural, covers each of its terms, stays when its terms do (`SumSame`), and moves by as
much as the one term that changes (`SumUpdate`).

### The caches

`FenceCacheProofs` starts from the layout: a record has its cells for itself, in
whichever lines they are. `MemInv` is the coherence of the model: a line that is
dirty nowhere is on the media as the hosts see it. Every step then does one of
three things to a cell: it stores into it, leaves or writes it back (`Untouched`),
or loses it with a host (`LostWith`). What a thread knows of its record is stated
so that the death of any other host leaves it (`Kept`, `Settled`), what is known of
a COMMITTED or dropped record so that the death of every host does (`Whole`,
`Sealed`, `Final`). `ClaimInv` is `ReserveInv` and `SlotInv` again, and needs
`HeaderKept`. `EndedFlushed` is inductive next to these (`Pending`, per record): who
stores COMMITTED or ABANDONED has its host's cache hold the line and flushes next, a line
leaves a cache only for the media, and a host that dies takes the byte and the thread
together. What a sibling thread has made of the byte meanwhile is not taken back, which
is `CacheTail`.

### The allocator

`AllocInv` is that at most one operation runs (`Alone`); what it knows of the
catalog (`Knows`: the name is not taken, the entry is FREE, the space found is
aligned, inside the pool and behind every region, `Room`); the four properties of
the catalog; and by how much `region_count` lags between the store of the state and
that of the count. The end of the last region, a maximum over the entries, is shown
to be at or behind each of them. `SizesFit` says that no requested size, added to
the end of the pool, passes 2^64; a size that does wraps the space check. `HandlesApart` itself
leaves out accesses whose end wraps.

The refinement needs only `Named` besides, that a creation in progress has a proper
name: `Knows` says of a creation that has
chosen its place that the range is inside the pool and shared with nobody, which is
`Promise`, and of one that is about to store ACTIVE that the name is still free, which is `Publish`.
`RegionsDisjoint` and `NamesUnique` are what makes an entry and its region the same
thing under the mapping.

### The pool

The assumptions are that the sizes of header, metadata and cache line are positive
multiples of a word, as the code's are, that the numeric keys are naturals, and
(`CounterAssumption`) that a u64 has room for the capacity, a u32, and for one failed
append of every process that runs or was killed.
Lemmas about the layout come first: the stride is at least the record and aligned,
slots of one geometry do not overlap each other or the metrics blocks, and all of
them lie within the file. `GeometryInv`, as long as the file was mapped with one
geometry only, is what the bounds of every access follow from: the file has the
size of that geometry, `committed_tail` is at most its capacity, and a reader's slot
is below the tail. Nothing is asked of the operators for that.

With `Quiesced` and `InitOnce`, `OwnerInv` says who may run next to whom, that
no two writers hold one slot, and `OvershootBounded`: a pending undo means that
`reserve_tail` is beyond the capacity by at least the number of pending undos, so none
of them takes it below. The processes between their two `fetch_add`s are counted
(`UndoingMoves`: a step changes their number by one at most), and a kill there moves one
of them to `crashes`. `IntactInv` then says of every slot what its state
implies about the words stored so far: COMMITTED comes last, in whichever order the
others went, so it implies all of them. `StatusInv` relates what `status` has loaded
to what the header has now: `reserve_tail` is loaded after `committed_tail`, and
where an undo takes it down it stays at or above the capacity (`Growth`), which
`committed_tail` and the number of acknowledged slots never exceed. `CountInv` says that the blocks of all hosts add up to the number of
acknowledged slots: blocks of different hosts are different words, no store of a record, an
abandon or a new mapping reaches one, and an append counts in the step that
acknowledges it. Acknowledged slots are reserved, so whatever `read_stats` adds up,
and whenever (`SeenInv`), is at most `reserve_tail`, the one of that moment or of any
later one.

### Only model-checked

- `CallsReturn` and `AckedReadable`: fairness is out of the prover's reach.
- The refuted runs.

## Not modelled

- Weak memory inside `recover`, `read` and `advance_committed_tail`: `FenceLog` is
  sequentially consistent and has their steps, `FencePool` has the weak order of
  the stores and takes each of them as a step.
- A lookup in the catalog next to a create or free (`read_entry` is not atomic):
  `FenceAlloc` is checked with calls that do not overlap.
- Applications that build a `PoolConfig` without `validate`.
- `read_range` with an end below its start, which underflows;
  `RegionHandle::absolute_offset`.
- Collisions of the 32-bit checksum; the builds whose flushes are no-ops.
- TOML syntax, error texts, the test harness (the states its `crash_sim` builds by
  hand are reached by `Crash` in `FenceLog`).

## What could come next

- `FenceAlloc` with a scan taken entry by entry, to say what a lookup next to a create or
  free returns; that asks for weaker properties than the ones here.
- One module for the walk of `advance_committed_tail` under the weak memory order of
  `FencePool`, which now takes it as a step.
