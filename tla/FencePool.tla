------------------------------ MODULE FencePool ------------------------------
(***************************************************************************)
(* The life of a pool: configuration files, the fenced command, the file   *)
(* under the mapping, the header, and the applications that work on it.    *)
(*                                                                         *)
(* Processes come and go.  Each one resolves, parses and validates its     *)
(* configuration, maps the file with the geometry that follows from it,    *)
(* and then creates the pool (init), inspects it (status), repairs it      *)
(* (recover) or appends to it and reads it (serve: an application that     *)
(* embeds FenceRuntime).                                                   *)
(*                                                                         *)
(* Relaxed stores of one process become visible in any order; a Release    *)
(* store comes after all of them.  Relaxed loads are made in any order,    *)
(* too, an Acquire load before what follows it.  The walk of               *)
(* advance_committed_tail and the scan of recover are one step here;       *)
(* FenceLog has their steps.                                               *)
(***************************************************************************)
EXTENDS Integers, FiniteSets, FiniteSetsExt, Functions

CONSTANTS
    HeaderSize, MetaSize, Line,  \* HEADER_SIZE, RECORD_META_SIZE, CACHELINE
    Word,           \* alignment of a u64
    U64,            \* modulus of reserve_tail (2^64 in the code)
    PayloadLimit,   \* largest payload_size validate accepts (65536)
    HostsLimit,     \* largest max_hosts it accepts (256)
    Strategies,     \* overflow strategies it accepts
    Default,        \* the values of defaults.rs
    ConfigFiles,    \* what is in the configuration files, by path
    DefaultPath,    \* DEFAULT_CONFIG_PATH
    EnvPath,        \* what FENCE_CONFIG is set to where it is set
    NoPath,
    Procs,          \* processes
    Commands,       \* the commands they are started with
    Quiesced,       \* assumption: init runs alone, recover without writers
    InitOnce,       \* assumption: init is run before the first append only
    MaxExecs,       \* bound: processes started
    MaxMixed,       \* bound: the same, where a geometry is not the default one
    MaxAppends,     \* bound: slots claimed
    MaxCrashes      \* bound: processes killed

Numbers == {"capacity", "payload_size", "max_hosts", "host_id"}
Keys == Numbers \cup {"strategy"}

ASSUME SizeAssumption ==
    /\ {HeaderSize, MetaSize, Line, Word} \subseteq Nat \ {0}
    /\ HeaderSize % Word = 0 /\ MetaSize % Word = 0 /\ Line % Word = 0
    /\ PayloadLimit \in Nat /\ HostsLimit \in Nat
ASSUME ConfigAssumption ==
    /\ DOMAIN Default = Keys
    /\ \A k \in Numbers : Default[k] \in Nat
    /\ \A f \in DOMAIN ConfigFiles : \A k \in Numbers \cap DOMAIN ConfigFiles[f] : ConfigFiles[f][k] \in Nat
    /\ NoPath \notin DOMAIN ConfigFiles
    /\ Quiesced \in BOOLEAN /\ InitOnce \in BOOLEAN
    /\ Commands \subseteq {"none", "init", "status", "recover", "serve"}
ASSUME PoolBoundAssumption ==
    /\ {MaxExecs, MaxMixed, MaxAppends, MaxCrashes} \subseteq Nat
    /\ U64 \in Nat /\ U64 > 0

VARIABLES
    hdr,      \* the pool header
    file,     \* what the file holds behind it, by offset
    proc,     \* the processes: where each one is, and its local variables
    execs, appends, crashes,
    \* history
    opened,   \* the geometries the file was mapped with
    born,     \* the number of the last append before the last init
    acked     \* appends that returned Ok: slot and number

vars == <<hdr, file, proc, execs, appends, crashes, opened, born, acked>>

-----------------------------------------------------------------------------
(* Configuration (fence-config). *)

\* --config, then the environment, then the default.
ResolvePath(cli, env) ==
    IF cli # NoPath THEN cli ELSE IF env # NoPath THEN env ELSE DefaultPath

\* A missing key has its default; only the pool's path has none.
FromToml(toml) == [k \in Keys |-> IF k \in DOMAIN toml THEN toml[k] ELSE Default[k]]

\* A 64-bit counter has room for the capacity, a u32, and for a failed append of every
\* process that runs or was killed.
ASSUME CounterAssumption ==
    /\ IsFiniteSet(Procs)
    /\ \A f \in DOMAIN ConfigFiles :
         FromToml(ConfigFiles[f]).capacity + Cardinality(Procs) + MaxCrashes < U64

\* Mutant of Validate: host_id is not compared with max_hosts.
ValidateNoHost(c) ==
    /\ c.capacity # 0
    /\ c.payload_size # 0 /\ c.payload_size <= PayloadLimit /\ c.payload_size % Word = 0
    /\ c.max_hosts # 0 /\ c.max_hosts <= HostsLimit
    /\ c.strategy \in Strategies

Validate(c) ==
    /\ c.capacity # 0
    /\ c.payload_size # 0 /\ c.payload_size <= PayloadLimit /\ c.payload_size % Word = 0
    /\ c.max_hosts # 0 /\ c.max_hosts <= HostsLimit
    /\ c.host_id < c.max_hosts
    /\ c.strategy \in Strategies

\* from_file succeeds: the file is there, parses, and is valid.
Loads(path) ==
    /\ path \in DOMAIN ConfigFiles
    /\ "path" \in DOMAIN ConfigFiles[path]
    /\ Validate(FromToml(ConfigFiles[path]))

-----------------------------------------------------------------------------
(* PoolGeometry (layout.rs), of a configuration g. *)

Geometry(g) == <<g.capacity, g.payload_size, g.max_hosts>>
RecordSize(g) == MetaSize + g.payload_size
TotalSize(g) == HeaderSize + RecordSize(g) * g.capacity + Line * g.max_hosts
RecordOffset(g, s) == HeaderSize + s * RecordSize(g)
PayloadOffset(g, s) == RecordOffset(g, s) + MetaSize
MetricsOffset(g, h) == HeaderSize + g.capacity * RecordSize(g) + h * Line

\* The bytes of record s, and of the MetricsBlock of host h.
RecordBytes(g, s) == RecordOffset(g, s) .. RecordOffset(g, s) + RecordSize(g) - 1
Hosts(g) == 0 .. g.max_hosts - 1
MetricsBytes(g, h) == MetricsOffset(g, h) .. MetricsOffset(g, h) + Line - 1

\* The states of a record, as the state byte has them.
FREE == 0
WRITING == 1
COMMITTED == 2
ABANDONED == 3

\* What the file holds at an offset.  word is the first word there: the state of a
\* record, a payload (with the fields of its record), or the appends_total of a
\* MetricsBlock (the only counter kept).  A record has its checksum behind the state.
\* Payload and checksum are the number of the append that wrote them.
Zero == [word |-> 0, crc |-> 0]
HeaderFields == {"magic", "capacity", "record_size", "max_hosts",
                 "committed_tail", "reserve_tail", "epoch"}
MAGIC == 9

\* ftruncate: what is cut off is gone, what is added is zero.
Resized(n) == [o \in HeaderSize .. n - 1 |-> IF o \in DOMAIN file THEN file[o] ELSE Zero]

State(f, g, s) == f[RecordOffset(g, s)].word

\* checksum::verify, as an ideal checksum.
Verifies(g, s) ==
    LET crc == file[RecordOffset(g, s)].crc IN
    crc > 0 /\ file[PayloadOffset(g, s)].word = crc

-----------------------------------------------------------------------------
Exited == [pc |-> "idle", cmd |-> "none", conf |-> Default, todo |-> {}, slot |-> 0, id |-> 0,
           appends |-> 0, committed |-> 0, reserve |-> 0]

\* No file yet, which is as good as an empty one: open creates it.
Init ==
    /\ hdr = [f \in HeaderFields |-> 0]
    /\ file = [o \in {} |-> Zero]
    /\ proc = [p \in Procs |-> Exited]
    /\ execs = 0 /\ appends = 0 /\ crashes = 0
    /\ opened = {} /\ born = 0 /\ acked = {}

At(p, l) == proc[p].pc = l
Conf(p) == proc[p].conf
Goto(p, l) == proc' = [proc EXCEPT ![p].pc = l]
\* The process ends: the mapping is dropped.
Exit(p) == proc' = [proc EXCEPT ![p] = Exited]

budget  == <<execs, appends, crashes>>
history == <<opened, born, acked>>

-----------------------------------------------------------------------------
(* The mapping.  The header is at the start of every file and every mapping. *)

\* The mapping of a process: the size it asked for.
Mapped(p) == HeaderSize .. TotalSize(Conf(p)) - 1

\* Where advance_committed_tail stops: at the first record that is not COMMITTED, at the
\* capacity, or where the file f ends.
TailStop(f, g) ==
    CHOOSE s \in hdr.committed_tail .. hdr.committed_tail + g.capacity :
      /\ \/ s >= g.capacity
         \/ RecordOffset(g, s) \notin DOMAIN f
         \/ State(f, g, s) # COMMITTED
      /\ \A t \in hdr.committed_tail .. s - 1 :
           RecordOffset(g, t) \in DOMAIN f /\ State(f, g, t) = COMMITTED /\ t < g.capacity

\* The records that the walk, and the scan of recover, look at.
Walked(g) == {s \in hdr.committed_tail .. TailStop(file, g) : s < g.capacity}
Scanned(g) == {s \in 0 .. hdr.reserve_tail - 1 : s < g.capacity}

\* The bytes behind the header that the next step of process p accesses.
Touched(p) ==
    LET g == Conf(p) IN
    IF At(p, "write") THEN RecordBytes(g, proc[p].slot)
    ELSE IF At(p, "advance") THEN {RecordOffset(g, s) : s \in Walked(g)}
    ELSE IF At(p, "count") \/ At(p, "full") THEN MetricsBytes(g, g.host_id)
    ELSE IF At(p, "read") THEN
        LET o == RecordOffset(g, proc[p].slot) IN
        IF o \in DOMAIN file /\ file[o].word = COMMITTED
        THEN RecordBytes(g, proc[p].slot) \cup MetricsBytes(g, g.host_id)
        ELSE {o}
    ELSE IF At(p, "recover") THEN
        (UNION {RecordBytes(g, s) : s \in Scanned(g)})
          \cup {RecordOffset(g, s) : s \in Walked(g)} \cup MetricsBytes(g, g.host_id)
    ELSE IF "stats" \in proc[p].todo THEN UNION {MetricsBytes(g, h) : h \in Hosts(g)}
    ELSE {}

\* The memory behind the access is there.
Backed(p) == Touched(p) \subseteq DOMAIN file

-----------------------------------------------------------------------------
(* fenced: main, load_config. *)

\* What the operators promise with Quiesced, and with InitOnce.
Careful(cmd) ==
    /\ Quiesced =>
         /\ \A q \in Procs : proc[q].cmd # "init"
         /\ cmd = "init" => \A q \in Procs : At(q, "idle")
         /\ cmd = "recover" => \A q \in Procs : proc[q].cmd # "serve"
         /\ cmd = "serve" => \A q \in Procs : proc[q].cmd # "recover"
    /\ InitOnce /\ cmd = "init" => appends = 0

\* A configuration that does not load ends the process.
LoadFails(p, path) ==
    /\ ~ Loads(path)
    /\ UNCHANGED vars

\* cmd_validate loads the configuration, and that is all.
CmdValidate(p, path) ==
    /\ Loads(path)
    /\ UNCHANGED vars

\* Every other command goes on to open the pool; without a command it is status.
Exec(p, cmd, path) ==
    /\ Loads(path)
    /\ Careful(cmd)
    /\ \/ opened \cup {Geometry(FromToml(ConfigFiles[path]))} = {Geometry(Default)}
       \/ execs < MaxMixed
    /\ execs' = execs + 1
    /\ proc' = [proc EXCEPT
         ![p].pc = "map",
         ![p].cmd = IF cmd = "none" THEN "status" ELSE cmd,
         ![p].conf = FromToml(ConfigFiles[path])]
    /\ UNCHANGED <<hdr, file, appends, crashes, history>>

\* fenced is started, or an application that embeds the runtime.
main(p, path) ==
    \/ LoadFails(p, path) \/ CmdValidate(p, path)
    \/ \E cmd \in Commands : Exec(p, cmd, path)

-----------------------------------------------------------------------------
(* FenceRuntime::open. *)

\* The mapping is made: create goes on with the header, open with the magic number.
Mapping(p) ==
    /\ opened' = opened \cup {Geometry(Conf(p))}
    /\ proc' = [proc EXCEPT
         ![p].pc = IF proc[p].cmd = "init" THEN "header" ELSE "magic",
         ![p].todo = IF proc[p].cmd = "init" THEN HeaderFields ELSE {}]

\* MmapBackend::open, with create or without: the file is created where there is none,
\* and takes the size the caller asks for, be it smaller or larger.
MapFile(p) ==
    /\ At(p, "map")
    /\ file' = Resized(TotalSize(Conf(p)))
    /\ Mapping(p)
    /\ UNCHANGED <<hdr, budget, born, acked>>

\* open or ftruncate fails, and nothing has happened; or mmap fails, and the file has
\* its new size.
MapFails(p) ==
    /\ At(p, "map")
    /\ \/ UNCHANGED <<file, opened>>
       \/ /\ file' = Resized(TotalSize(Conf(p)))
          /\ opened' = opened \cup {Geometry(Conf(p))}
    /\ Exit(p)
    /\ UNCHANGED <<hdr, budget, born, acked>>

HeaderValue(g, f) ==
    IF f = "magic" THEN MAGIC
    ELSE IF f = "record_size" THEN RecordSize(g)
    ELSE IF f \in {"capacity", "max_hosts"} THEN g[f]
    ELSE IF f = "epoch" THEN 1
    ELSE 0

\* The stores of the header are Relaxed: any order.
StoreHeader(p, f) ==
    /\ At(p, "header")
    /\ f \in proc[p].todo
    /\ hdr' = [hdr EXCEPT ![f] = HeaderValue(Conf(p), f)]
    /\ proc' = [proc EXCEPT ![p].todo = @ \ {f}]
    /\ UNCHANGED <<file, budget, history>>

\* The header is flushed, init is done.
Created(p) ==
    /\ At(p, "header")
    /\ proc[p].todo = {}
    /\ born' = appends
    /\ Exit(p)
    /\ UNCHANGED <<hdr, file, budget, opened, acked>>

\* An existing pool is checked for the magic number, and for nothing else.
CheckMagic(p) ==
    /\ At(p, "magic")
    /\ IF hdr.magic = MAGIC
       THEN proc' = [proc EXCEPT
              ![p].pc = proc[p].cmd,
              ![p].todo = IF proc[p].cmd = "status" THEN {"stats"} ELSE {}]
       ELSE Exit(p)
    /\ UNCHANGED <<hdr, file, budget, history>>

-----------------------------------------------------------------------------
(* serve: append and read. *)

Fields == {"state", "payload", "crc"}

\* fetch_add on reserve_tail, which wraps.
WrappingAdd(x, d) == IF x + d < U64 THEN x + d ELSE x + d - U64
Reserve(d) == hdr' = [hdr EXCEPT !.reserve_tail = WrappingAdd(@, d)]

\* Mutant of Claim: the bounds check is off by one.
ClaimOffByOne(p) ==
    /\ At(p, "serve")
    /\ appends < MaxAppends
    /\ hdr.reserve_tail <= Conf(p).capacity
    /\ Reserve(1)
    /\ appends' = appends + 1
    /\ proc' = [proc EXCEPT ![p].pc = "write", ![p].todo = Fields,
                            ![p].slot = hdr.reserve_tail, ![p].id = appends + 1]
    /\ UNCHANGED <<file, execs, crashes, history>>

\* Step 1 of append: the old value of reserve_tail is the slot.
Claim(p) ==
    /\ At(p, "serve")
    /\ appends < MaxAppends
    /\ hdr.reserve_tail < Conf(p).capacity
    /\ Reserve(1)
    /\ appends' = appends + 1
    /\ proc' = [proc EXCEPT ![p].pc = "write", ![p].todo = Fields,
                            ![p].slot = hdr.reserve_tail, ![p].id = appends + 1]
    /\ UNCHANGED <<file, execs, crashes, history>>

\* Step 2: the pool is full, reserve_tail is one too high until the claim is undone.
ClaimFull(p) ==
    /\ At(p, "serve")
    /\ hdr.reserve_tail >= Conf(p).capacity
    /\ Reserve(1)
    /\ Goto(p, "undo")
    /\ UNCHANGED <<file, budget, history>>

\* Mutant of Undo: two are given back.
UndoTwice(p) ==
    /\ At(p, "undo")
    /\ Reserve(U64 - 2)
    /\ Goto(p, "full")
    /\ UNCHANGED <<file, budget, history>>

\* fetch_add(u64::MAX) takes one away; appends_failed goes up next.
Undo(p) ==
    /\ At(p, "undo")
    /\ Reserve(U64 - 1)
    /\ Goto(p, "full")
    /\ UNCHANGED <<file, budget, history>>

\* Mutant of CountFull: a failed append counts as an append.
CountFullAsAppend(p) ==
    /\ At(p, "full") /\ Backed(p)
    /\ file' = [file EXCEPT ![MetricsOffset(Conf(p), Conf(p).host_id)].word = @ + 1]
    /\ Goto(p, "serve")
    /\ UNCHANGED <<hdr, budget, history>>

CountFull(p) ==
    /\ At(p, "full") /\ Backed(p)
    /\ Goto(p, "serve")
    /\ UNCHANGED <<hdr, file, budget, history>>

\* Steps 3 to 5, Relaxed: the state, the fields and payload, the checksum, in any order.
Store(p, f) ==
    /\ At(p, "write") /\ Backed(p)
    /\ f \in proc[p].todo
    /\ LET o == RecordOffset(Conf(p), proc[p].slot)
           o2 == PayloadOffset(Conf(p), proc[p].slot)
       IN \/ f = "state" /\ file' = [file EXCEPT ![o].word = WRITING]
          \/ f = "payload" /\ file' = [file EXCEPT ![o2].word = proc[p].id]
          \/ f = "crc" /\ file' = [file EXCEPT ![o].crc = proc[p].id]
    /\ proc' = [proc EXCEPT ![p].todo = @ \ {f}]
    /\ UNCHANGED <<hdr, budget, history>>

\* Mutant of Commit: the store of COMMITTED is Relaxed, it does not wait for the others
\* except the one to the same byte.
CommitRelaxed(p) ==
    /\ At(p, "write") /\ Backed(p)
    /\ "state" \notin proc[p].todo
    /\ file' = [file EXCEPT ![RecordOffset(Conf(p), proc[p].slot)].word = COMMITTED]
    /\ Goto(p, "advance")
    /\ UNCHANGED <<hdr, budget, history>>

\* Step 7, Release.
Commit(p) ==
    /\ At(p, "write") /\ Backed(p)
    /\ proc[p].todo = {}
    /\ file' = [file EXCEPT ![RecordOffset(Conf(p), proc[p].slot)].word = COMMITTED]
    /\ Goto(p, "advance")
    /\ UNCHANGED <<hdr, budget, history>>

\* Step 8: advance_committed_tail.
AdvanceTail(p) ==
    /\ At(p, "advance") /\ Backed(p)
    /\ hdr' = [hdr EXCEPT !.committed_tail = TailStop(file, Conf(p))]
    /\ Goto(p, "count")
    /\ UNCHANGED <<file, budget, history>>

\* increment_appends, and append returns Ok.
Count(p) ==
    /\ At(p, "count") /\ Backed(p)
    /\ file' = [file EXCEPT ![MetricsOffset(Conf(p), Conf(p).host_id)].word = @ + 1]
    /\ acked' = acked \cup {[slot |-> proc[p].slot, id |-> proc[p].id]}
    /\ proc' = [proc EXCEPT ![p].pc = "serve", ![p].slot = 0, ![p].id = 0]
    /\ UNCHANGED <<hdr, budget, opened, born>>

\* read(i): the index is compared with committed_tail, and not with the capacity.
ReadCall(p, i) ==
    /\ At(p, "serve")
    /\ i <= hdr.committed_tail
    /\ proc' = [proc EXCEPT ![p].pc = "read", ![p].slot = i - 1]
    /\ UNCHANGED <<hdr, file, budget, history>>

ReadDone(p) ==
    /\ At(p, "read") /\ Backed(p)
    /\ proc' = [proc EXCEPT ![p].pc = "serve", ![p].slot = 0]
    /\ UNCHANGED <<hdr, file, budget, history>>

\* The FenceRuntime is dropped.
Close(p) ==
    /\ At(p, "serve")
    /\ Exit(p)
    /\ UNCHANGED <<hdr, file, budget, history>>

-----------------------------------------------------------------------------
(* fenced recover and fenced status. *)

\* Mutant of Broken: no arm for COMMITTED, it is treated like an unknown state.
BrokenCommitted(g, s) == State(file, g, s) \notin {FREE, ABANDONED}

\* WRITING, an unknown state, or a checksum that does not fit.
Broken(g, s) ==
    \/ State(file, g, s) \notin {FREE, COMMITTED, ABANDONED}
    \/ State(file, g, s) = COMMITTED /\ ~ Verifies(g, s)

Recover(p) ==
    LET g == Conf(p)
        bad == {RecordOffset(g, s) : s \in {t \in Scanned(g) : Broken(g, t)}}
        scanned == [o \in DOMAIN file |->
                      IF o \in bad THEN [file[o] EXCEPT !.word = ABANDONED] ELSE file[o]]
    IN /\ At(p, "recover") /\ Backed(p)
       /\ file' = scanned
       /\ hdr' = [hdr EXCEPT !.committed_tail = TailStop(scanned, g)]
       /\ Exit(p)
       /\ UNCHANGED <<budget, history>>

\* read_stats adds up the blocks of all hosts.
AppendsTotal(g) ==
    SumFunctionOnSet([h \in Hosts(g) |-> file[MetricsOffset(g, h)].word], Hosts(g))

\* It does so with Relaxed loads: nothing keeps it before the loads of the tails.
ReadStats(p) ==
    /\ "stats" \in proc[p].todo /\ Backed(p)
    /\ proc' = [proc EXCEPT ![p].todo = {}, ![p].appends = AppendsTotal(Conf(p))]
    /\ UNCHANGED <<hdr, file, budget, history>>

\* Mutant of LoadTail: reserve_tail first.
LoadTailSwapped(p) ==
    /\ \/ /\ At(p, "status")
          /\ proc' = [proc EXCEPT ![p].reserve = hdr.reserve_tail, ![p].pc = "reserve"]
       \/ /\ At(p, "reserve")
          /\ proc' = [proc EXCEPT ![p].committed = hdr.committed_tail, ![p].pc = "print"]
    /\ UNCHANGED <<hdr, file, budget, history>>

\* committed_tail is loaded before reserve_tail, each with its value of the moment.
LoadTail(p) ==
    /\ \/ /\ At(p, "status")
          /\ proc' = [proc EXCEPT ![p].committed = hdr.committed_tail, ![p].pc = "reserve"]
       \/ /\ At(p, "reserve")
          /\ proc' = [proc EXCEPT ![p].reserve = hdr.reserve_tail, ![p].pc = "print"]
    /\ UNCHANGED <<hdr, file, budget, history>>

StatusPrinted(p) == At(p, "print") /\ proc[p].todo = {}

EndStatus(p) ==
    /\ StatusPrinted(p)
    /\ Exit(p)
    /\ UNCHANGED <<hdr, file, budget, history>>

-----------------------------------------------------------------------------
(* What ends a process early. *)

\* An access outside the mapping, or past the end of the file: the process dies of it.
\* (Outside the mapping it may as well go on, where the file has the bytes: the steps
\* above only ask for Backed.)
Fault(p) ==
    /\ \E o \in Touched(p) : o \notin Mapped(p) \/ o \notin DOMAIN file
    /\ Exit(p)
    /\ UNCHANGED <<hdr, file, budget, history>>

\* Killed between two steps; the file keeps what was stored.
Crash(p) ==
    /\ ~ At(p, "idle")
    /\ crashes < MaxCrashes
    /\ crashes' = crashes + 1
    /\ Exit(p)
    /\ UNCHANGED <<hdr, file, execs, appends, history>>

\* Every process has ended and none is started any more.
Rest ==
    /\ execs = MaxExecs
    /\ \A p \in Procs : At(p, "idle")
    /\ UNCHANGED vars

\* The paths that --config and FENCE_CONFIG, each given or not, resolve to.
Paths == {ResolvePath(cli, env) : cli \in DOMAIN ConfigFiles \cup {NoPath},
                                  env \in {EnvPath, NoPath}}

Next ==
    \/ \E p \in Procs :
         \/ /\ At(p, "idle") /\ execs < MaxExecs
            /\ \E path \in Paths : main(p, path)
         \/ MapFile(p) \/ MapFails(p) \/ Created(p) \/ CheckMagic(p)
         \/ \E f \in HeaderFields : StoreHeader(p, f)
         \/ Claim(p) \/ ClaimFull(p) \/ Undo(p) \/ CountFull(p)
         \/ \E f \in Fields : Store(p, f)
         \/ Commit(p) \/ AdvanceTail(p) \/ Count(p)
         \/ \E i \in 1 .. MaxAppends : ReadCall(p, i)
         \/ ReadDone(p) \/ Close(p)
         \/ Recover(p) \/ ReadStats(p) \/ LoadTail(p) \/ EndStatus(p)
         \/ Fault(p) \/ Crash(p)
    \/ Rest

Spec == Init /\ [][Next]_vars

-----------------------------------------------------------------------------
(* Properties. *)

Loadable == {FromToml(ConfigFiles[f]) : f \in {d \in DOMAIN ConfigFiles : Loads(d)}}

\* Types: among them, that a writer has a slot of its pool, and that reserve_tail, which
\* claims, failed claims and their undo move up and down, stays a u64.
PoolTypeOK ==
    /\ hdr \in [HeaderFields -> Nat]
    /\ hdr.reserve_tail < U64
    /\ HeaderSize \notin DOMAIN file => file = [o \in {} |-> Zero]
    /\ \A o \in DOMAIN file : o >= HeaderSize /\ file[o] \in [DOMAIN Zero -> Nat]
    /\ \A p \in Procs :
         /\ DOMAIN proc[p] = DOMAIN Exited
         /\ proc[p].slot \in Nat
         /\ At(p, "write") => proc[p].slot < Conf(p).capacity
         /\ proc[p].id <= appends
    /\ execs <= MaxExecs /\ appends <= MaxAppends /\ crashes <= MaxCrashes
    /\ \A a \in acked : a.id \in 1 .. appends

OneGeometry == Cardinality(opened) <= 1

\* The contract of MemoryBackend: every access of the engine, of recovery and of the
\* metrics is inside the mapping of the process, and starts at an aligned word.
InBounds ==
    \A p \in Procs :
      LET t == Touched(p) IN
      t # {} => Min(t) >= HeaderSize /\ Max(t) < TotalSize(Conf(p)) /\ Min(t) % Word = 0

\* As long as every process had the same geometry in its configuration, InBounds holds,
\* and the file is there behind every access.
InBoundsOneGeometry ==
    OneGeometry => InBounds /\ \A p \in Procs : Backed(p)

\* The processes between the two fetch_adds of a failed append.
Undoing == {p \in Procs : At(p, "undo")}

\* A failed append gives back what it took, and never a slot: while one is between its two
\* fetch_adds, reserve_tail is beyond the capacity by at least what is to be given back, and it
\* is never further beyond than by that and one for every process killed there.
OvershootBounded ==
    \A g \in Loadable :
      (opened = {Geometry(g)}) =>
        /\ Undoing # {} => g.capacity + Cardinality(Undoing) <= hdr.reserve_tail
        /\ hdr.reserve_tail <= g.capacity + Cardinality(Undoing) + crashes

\* A COMMITTED record is whole: the stores before the Release store are all there.
PoolIntact ==
    \A g \in Loadable :
      (opened = {Geometry(g)}) =>
        \A s \in 0 .. g.capacity - 1 : State(file, g, s) = COMMITTED => Verifies(g, s)

\* What append acknowledged stays, with its contents, through every later open, status,
\* recovery and crash.
AckedKept ==
    \A g \in Loadable :
      (opened = {Geometry(g)}) =>
        \A a \in acked :
          /\ State(file, g, a.slot) = COMMITTED
          /\ file[RecordOffset(g, a.slot)].crc = a.id
          /\ Verifies(g, a.slot)

\* fenced status loads its numbers one by one next to running writers: it still never
\* prints more committed than reserved slots.
StatusConsistent ==
    OneGeometry =>
      \A p \in Procs : StatusPrinted(p) => proc[p].committed <= proc[p].reserve

\* Nor more appends, added up over the hosts, than slots reserved by now.
StatusAppends ==
    OneGeometry =>
      \A p \in Procs : StatusPrinted(p) => proc[p].appends <= hdr.reserve_tail

\* fenced init makes a new pool, "writes header, zeroes data": no record from before it is
\* below the committed tail.
OnlyNewRecords ==
    \A p \in Procs : At(p, "serve") =>
      \A s \in 0 .. hdr.committed_tail - 1 :
        State(file, Conf(p), s) = COMMITTED => file[RecordOffset(Conf(p), s)].crc > born
=============================================================================
