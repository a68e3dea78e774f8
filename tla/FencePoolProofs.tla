--------------------------- MODULE FencePoolProofs ---------------------------
(***************************************************************************)
(* Theorems about FencePool, for every layout, set of configuration files, *)
(* number of processes, commands and crashes.                              *)
(***************************************************************************)
EXTENDS FencePool, FenceSums

Aligned(x) == x % Word = 0

\* The sizes of the layout are positive.
LEMMA Sizes ==
    /\ HeaderSize \in Nat /\ MetaSize \in Nat /\ Line \in Nat /\ Word \in Nat
    /\ HeaderSize > 0 /\ MetaSize > 0 /\ Line > 0 /\ Word > 0
BY SizeAssumption

\* The header, the metadata and a cache line are aligned.
LEMMA SizesAligned == Aligned(HeaderSize) /\ Aligned(MetaSize) /\ Aligned(Line)
BY SizeAssumption DEF Aligned

USE Sizes, ConfigAssumption, PoolBoundAssumption

ProcFields == {"pc", "cmd", "conf", "todo", "slot", "id", "appends", "committed", "reserve"}
IsProc(r) == r = [f \in ProcFields |-> r[f]]

Cell == [{"word", "crc"} -> Nat]
NoFile == [o \in {} |-> Zero]

\* Where a process is when it runs a command.
Serving == {"serve", "undo", "write", "advance", "count", "full", "read"}
Looking == {"status", "reserve", "print"}
Holding(p) == proc[p].pc \in {"write", "advance", "count"}
IsMapped(p) == proc[p].pc \notin {"idle", "map"}

Placed(p) ==
    /\ At(p, "idle") => proc[p] = Exited
    /\ At(p, "map") => proc[p].cmd \in {"init", "recover", "serve", "status"}
    /\ At(p, "header") => proc[p].cmd = "init"
    /\ At(p, "magic") => proc[p].cmd \in {"recover", "serve", "status"}
    /\ At(p, "recover") => proc[p].cmd = "recover"
    /\ proc[p].pc \in Serving => proc[p].cmd = "serve"
    /\ proc[p].pc \in Looking => proc[p].cmd = "status"
    /\ proc[p].pc \in {"idle", "map", "header", "magic", "recover"} \cup Serving \cup Looking

\* What a process still has to store or load.
Todo(p) ==
    /\ At(p, "header") => proc[p].todo \subseteq HeaderFields
    /\ At(p, "write") => proc[p].todo \subseteq Fields
    /\ proc[p].pc \in Looking => proc[p].todo \subseteq {"stats"}
    /\ ~ At(p, "header") /\ ~ At(p, "write") /\ proc[p].pc \notin Looking => proc[p].todo = {}

ProcOK(p) ==
    /\ IsProc(proc[p]) /\ Placed(p) /\ Todo(p)
    /\ ~ At(p, "idle") => Conf(p) \in Loadable
    /\ proc[p].slot \in Nat /\ proc[p].committed \in Nat /\ proc[p].reserve \in Nat
    /\ proc[p].id \in 0 .. appends
    /\ Holding(p) => proc[p].id > 0
    /\ At(p, "undo") => appends > 0
    /\ At(p, "write") => proc[p].slot < Conf(p).capacity

TypeInv ==
    /\ hdr \in [HeaderFields -> Nat]
    /\ hdr.reserve_tail < U64
    /\ appends = 0 => hdr.reserve_tail = 0
    /\ file = NoFile \/ HeaderSize \in DOMAIN file
    /\ file \in [DOMAIN file -> Cell]
    /\ \A o \in DOMAIN file : o \in Nat /\ o >= HeaderSize
    /\ proc = [p \in Procs |-> proc[p]]
    /\ \A p \in Procs : ProcOK(p)
    /\ execs \in 0 .. MaxExecs /\ appends \in 0 .. MaxAppends /\ crashes \in 0 .. MaxCrashes
    /\ IsFiniteSet(opened)
    /\ \A a \in acked : a.slot \in Nat /\ a.id \in 1 .. appends

\* What the mapping rests on, as long as the file has had one geometry.
GeometryInv ==
    /\ opened = {} => file = NoFile /\ hdr.committed_tail = 0 /\ \A p \in Procs : ~ IsMapped(p)
    /\ \A p \in Procs : IsMapped(p) => Geometry(Conf(p)) \in opened
    /\ \A g \in Loadable : opened = {Geometry(g)} =>
          DOMAIN file = HeaderSize .. TotalSize(g) - 1 /\ hdr.committed_tail <= g.capacity
    /\ OneGeometry => \A p \in Procs : At(p, "read") => proc[p].slot < Conf(p).capacity

\* Who holds which slot of a pool of geometry g.
Owned(g) ==
    /\ \A p \in Procs : Holding(p) => proc[p].slot < hdr.reserve_tail /\ proc[p].slot < g.capacity
    /\ \A p \in Procs : \A q \in Procs \ {p} :
          Holding(p) /\ Holding(q) => proc[p].slot # proc[q].slot
    /\ \A a \in acked : a.slot < hdr.reserve_tail /\ a.slot < g.capacity
    /\ \A a \in acked : \A p \in Procs : Holding(p) => proc[p].slot # a.slot

\* Who runs with whom, and, as long as the file has had one geometry, who holds which slot: the
\* undo of a failed append must not give a slot back.
OwnerInv ==
    /\ opened = {} => appends = 0
    /\ \A p \in Procs : proc[p].cmd = "init" =>
          appends = 0 /\ \A q \in Procs \ {p} : At(q, "idle")
    /\ \A p, q \in Procs : ~ (proc[p].cmd = "recover" /\ proc[q].cmd = "serve")
    /\ \A g \in Loadable : opened = {Geometry(g)} => Owned(g)
    /\ OvershootBounded

\* The record of slot s is append id's, whole.
Whole(g, s, id) ==
    /\ State(file, g, s) = COMMITTED
    /\ file[RecordOffset(g, s)].crc = id
    /\ file[PayloadOffset(g, s)].word = id

\* What writer p has stored of its record so far.
Written(g, p) ==
    /\ State(file, g, proc[p].slot) # COMMITTED
    /\ "crc" \notin proc[p].todo => file[RecordOffset(g, proc[p].slot)].crc = proc[p].id
    /\ "payload" \notin proc[p].todo => file[PayloadOffset(g, proc[p].slot)].word = proc[p].id

\* Slot s of a pool of geometry g.
SlotInv(g, s) ==
    /\ hdr.reserve_tail <= s => State(file, g, s) = FREE
    /\ State(file, g, s) = COMMITTED => Verifies(g, s)
    /\ \A a \in acked : a.slot = s => Whole(g, s, a.id)
    /\ \A p \in Procs : Holding(p) /\ proc[p].slot = s =>
          IF At(p, "write") THEN Written(g, p) ELSE Whole(g, s, proc[p].id)

\* The records of a pool of geometry g.
RecordInv(g) ==
    /\ hdr.committed_tail <= hdr.reserve_tail
    /\ \A a \in acked : a.slot < g.capacity
    /\ \A p \in Procs : Holding(p) => proc[p].slot < g.capacity
    /\ \A s \in 0 .. g.capacity - 1 : SlotInv(g, s)

IntactInv == \A g \in Loadable : opened = {Geometry(g)} => RecordInv(g)

\* What status has loaded so far.
StatusInv ==
    OneGeometry => \A p \in Procs :
        /\ At(p, "reserve") => proc[p].committed <= hdr.reserve_tail /\ proc[p].committed <= Conf(p).capacity
        /\ At(p, "print") => proc[p].committed <= proc[p].reserve

\* The blocks of the hosts count the acknowledged slots, every one once.
CountInv ==
    \A g \in Loadable : opened = {Geometry(g)} => AppendsTotal(g) = Cardinality({a.slot : a \in acked})

\* What status has added up was reserved by then.
SeenInv ==
    OneGeometry => \A p \in Procs :
        proc[p].pc \in Looking /\ proc[p].todo = {} =>
            /\ proc[p].appends \in Nat /\ proc[p].appends <= hdr.reserve_tail
            /\ proc[p].appends <= Conf(p).capacity

-----------------------------------------------------------------------------
(* Small facts. *)

\* A bounded set of natural numbers has a greatest element.
LEMMA GreatestNat ==
    ASSUME NEW T, T \subseteq Nat, T # {}, NEW n \in Nat, \A y \in T : y <= n
    PROVE  \E x \in T : \A y \in T : x >= y
<1> DEFINE D == {n - y : y \in T}
<1>1. D \subseteq Nat
  <2> SUFFICES ASSUME NEW y \in T PROVE n - y \in Nat
    OBVIOUS
  <2>1. y \in Nat /\ y <= n
    OBVIOUS
  <2> QED
    BY <2>1
<1>0. D # {}
  OBVIOUS
<1>2. PICK d \in D : \A e \in D : d <= e
  BY <1>0, <1>1, LeastNat
<1>3. PICK x \in T : d = n - x
  OBVIOUS
<1>4. ASSUME NEW y \in T PROVE x >= y
  <2>1. d <= n - y
    BY <1>2
  <2> QED
    BY <1>3, <2>1
<1> QED
  BY <1>4

\* What Validate and the types of the configuration guarantee.
Usable(g) ==
    /\ g.capacity \in Nat \ {0} /\ g.payload_size \in Nat \ {0} /\ g.max_hosts \in Nat \ {0}
    /\ g.host_id \in Nat /\ g.host_id < g.max_hosts
    /\ Aligned(g.payload_size)

\* A configuration that loads is usable.
LEMMA LoadableUsable == \A g \in Loadable : Usable(g)
<1> SUFFICES ASSUME NEW d \in DOMAIN ConfigFiles, Loads(d)
             PROVE  Usable(FromToml(ConfigFiles[d]))
  BY DEF Loadable
<1> DEFINE g == FromToml(ConfigFiles[d])
<1>1. \A k \in Numbers : g[k] \in Nat
  BY DEF FromToml, Keys
<1>2. g.capacity \in Nat /\ g.payload_size \in Nat /\ g.max_hosts \in Nat /\ g.host_id \in Nat
  BY <1>1 DEF Numbers
<1>3. Validate(g)
  BY DEF Loads
<1> QED
  BY <1>2, <1>3 DEF Validate, Usable, Aligned

\* What a process executes is loadable.
LEMMA LoadsLoadable == \A d : Loads(d) => FromToml(ConfigFiles[d]) \in Loadable
BY DEF Loads, Loadable

\* A counter has room for the capacity and for every failed append that is not undone.
LEMMA Roomy ==
    /\ Cardinality(Procs) \in Nat
    /\ \A g \in Loadable : g.capacity < U64 /\ g.capacity + Cardinality(Procs) + MaxCrashes < U64
<1>1. Cardinality(Procs) \in Nat
  BY CounterAssumption, FS_CardinalityType
<1>2. ASSUME NEW g \in Loadable
      PROVE  g.capacity < U64 /\ g.capacity + Cardinality(Procs) + MaxCrashes < U64
  <2>1. g.capacity \in Nat
    BY LoadableUsable DEF Usable
  <2>2. g.capacity + Cardinality(Procs) + MaxCrashes < U64
    BY CounterAssumption DEF Loadable
  <2> QED
    BY <1>1, <2>1, <2>2
<1> QED
  BY <1>1, <1>2

\* The walk of advance_committed_tail ends, at the first slot it may not pass.
LEMMA TailStopFacts ==
    ASSUME NEW f, NEW g, hdr.committed_tail \in Nat, g.capacity \in Nat
    PROVE  /\ TailStop(f, g) \in Nat
           /\ hdr.committed_tail <= TailStop(f, g)
           /\ TailStop(f, g) <= g.capacity \/ TailStop(f, g) = hdr.committed_tail
           /\ \A t \in hdr.committed_tail .. TailStop(f, g) - 1 :
                State(f, g, t) = COMMITTED /\ t < g.capacity
<1> DEFINE c == hdr.committed_tail
           Stops(s) == \/ s >= g.capacity
                       \/ RecordOffset(g, s) \notin DOMAIN f
                       \/ State(f, g, s) # COMMITTED
           Passes(t) == RecordOffset(g, t) \in DOMAIN f /\ State(f, g, t) = COMMITTED /\ t < g.capacity
           T == {s \in c .. c + g.capacity : Stops(s)}
<1>1. T \subseteq Nat /\ c + g.capacity \in T
  OBVIOUS
<1>2. PICK s \in T : \A y \in T : s <= y
  BY <1>1, LeastNat
<1>3. ASSUME NEW t \in c .. s - 1 PROVE Passes(t)
  <2>1. t \in c .. c + g.capacity /\ t \notin T
    BY <1>1, <1>2
  <2> QED
    BY <1>1, <2>1
<1> HIDE DEF T
<1>4. \E x \in c .. c + g.capacity : Stops(x) /\ \A t \in c .. x - 1 : Passes(t)
  BY <1>2, <1>3 DEF T
<1>5. /\ TailStop(f, g) \in c .. c + g.capacity
      /\ Stops(TailStop(f, g))
      /\ \A t \in c .. TailStop(f, g) - 1 : Passes(t)
  BY <1>4 DEF TailStop
<1>6. TailStop(f, g) <= g.capacity \/ TailStop(f, g) = c
  <2>1. CASE TailStop(f, g) = c
    BY <2>1
  <2>2. CASE TailStop(f, g) # c
    <3>1. TailStop(f, g) - 1 \in c .. TailStop(f, g) - 1
      BY <1>5, <2>2
    <3> QED
      BY <1>5, <3>1
  <2> QED
    BY <2>1, <2>2
<1> QED
  BY <1>5, <1>6

\* Sizes are natural numbers, and there is something behind the header.
LEMMA SizeFacts ==
    ASSUME NEW g, Usable(g)
    PROVE  /\ RecordSize(g) \in Nat /\ RecordSize(g) > MetaSize
           /\ TotalSize(g) \in Nat /\ TotalSize(g) > HeaderSize
<1>1. RecordSize(g) \in Nat /\ RecordSize(g) > MetaSize
  BY DEF Usable, RecordSize
<1>2. RecordSize(g) * g.capacity \in Nat /\ Line * g.max_hosts \in Nat
  BY <1>1 DEF Usable
<1>3. Line * g.max_hosts > 0
  BY DEF Usable
<1> QED
  BY <1>1, <1>2, <1>3 DEF TotalSize

\* A process that has ended.
LEMMA ExitedFacts ==
    /\ IsProc(Exited) /\ DOMAIN Exited = ProcFields
    /\ Exited.pc = "idle" /\ Exited.cmd = "none" /\ Exited.todo = {} /\ Exited.slot = 0
    /\ Exited.id = 0 /\ Exited.committed = 0 /\ Exited.reserve = 0
BY DEF Exited, IsProc, ProcFields


-----------------------------------------------------------------------------
(* Types. *)

\* Process p moves, the others do not.
OnlyMoves(p) ==
    /\ proc' = [q \in Procs |-> proc'[q]]
    /\ \A q \in Procs \ {p} : proc'[q] = proc[q]

\* If what p has become is well-formed, all processes are.
LEMMA OneMoves ==
    ASSUME TypeInv, NEW p \in Procs, OnlyMoves(p), appends' \in Nat, appends <= appends', ProcOK(p)'
    PROVE  \A q \in Procs : ProcOK(q)'
<1> SUFFICES ASSUME NEW q \in Procs \ {p} PROVE ProcOK(q)'
  OBVIOUS
<1>1. proc'[q] = proc[q] /\ ProcOK(q)
  BY DEF OnlyMoves, TypeInv
<1>2. proc[q].id \in 0 .. appends' /\ (At(q, "undo") => appends' > 0)
  BY <1>1 DEF ProcOK, TypeInv
<1> QED
  BY <1>1, <1>2 DEF ProcOK, Placed, Todo, Holding, At, Conf

\* The steps that change nothing but the process.
LEMMA TypeMove ==
    ASSUME TypeInv, NEW p \in Procs, OnlyMoves(p), UNCHANGED <<hdr, file, appends, opened, acked>>,
           execs' \in 0 .. MaxExecs, crashes' \in 0 .. MaxCrashes, ProcOK(p)'
    PROVE  TypeInv'
<1>1. appends \in Nat /\ appends' \in Nat /\ appends <= appends'
  BY DEF TypeInv
<1>2. \A q \in Procs : ProcOK(q)'
  BY <1>1, OneMoves
<1> QED
  BY <1>2 DEF TypeInv, OnlyMoves

\* A process ends.
LEMMA ExitFacts ==
    ASSUME TypeInv, NEW p \in Procs, Exit(p), appends' \in Nat
    PROVE  OnlyMoves(p) /\ proc'[p] = Exited /\ ProcOK(p)'
<1>1. OnlyMoves(p) /\ proc'[p] = Exited
  BY DEF Exit, OnlyMoves, TypeInv
<1> QED
  BY <1>1, ExitedFacts DEF ProcOK, Placed, Todo, Holding, At, Serving, Looking

\* A process goes on at l.
LEMMA GotoFacts ==
    ASSUME TypeInv, NEW p \in Procs, NEW l, Goto(p, l)
    PROVE  /\ OnlyMoves(p) /\ IsProc(proc'[p]) /\ proc'[p].pc = l
           /\ \A f \in ProcFields \ {"pc"} : proc'[p][f] = proc[p][f]
<1>1. proc = [q \in Procs |-> proc[q]] /\ IsProc(proc[p])
  BY DEF TypeInv, ProcOK
<1> QED
  BY <1>1 DEF Goto, OnlyMoves, IsProc, ProcFields

\* Starting a process.
LEMMA TypeExec ==
    ASSUME TypeInv, NEW p \in Procs, At(p, "idle"), execs < MaxExecs, NEW path, main(p, path)
    PROVE  TypeInv'
<1>1. CASE UNCHANGED vars
  BY <1>1 DEF vars, TypeInv, ProcOK, Placed, Todo, Holding, At, Conf
<1>2. ASSUME NEW cmd \in Commands, Exec(p, cmd, path) PROVE TypeInv'
  <2>0. proc = [q \in Procs |-> proc[q]] /\ proc[p] = Exited /\ IsProc(proc[p])
    BY DEF TypeInv, ProcOK, Placed
  <2>1. /\ OnlyMoves(p) /\ IsProc(proc'[p]) /\ proc'[p].pc = "map"
        /\ proc'[p].cmd = IF cmd = "none" THEN "status" ELSE cmd
        /\ proc'[p].conf = FromToml(ConfigFiles[path])
        /\ \A f \in ProcFields \ {"pc", "cmd", "conf"} : proc'[p][f] = proc[p][f]
    BY <1>2, <2>0 DEF Exec, OnlyMoves, IsProc, ProcFields
  <2>2. proc'[p].conf \in Loadable
    BY <1>2, <2>1, LoadsLoadable DEF Exec
  <2>3. proc'[p].cmd \in {"init", "recover", "serve", "status"}
    BY <2>1
  <2>4. /\ proc'[p].todo = {} /\ proc'[p].slot = 0 /\ proc'[p].id = 0
        /\ proc'[p].committed = 0 /\ proc'[p].reserve = 0
    BY <2>0, <2>1, ExitedFacts DEF ProcFields
  <2>5. appends' = appends /\ appends \in Nat
    BY <1>2 DEF Exec, TypeInv
  <2>6. ProcOK(p)'
    BY <2>1, <2>2, <2>3, <2>4, <2>5 DEF ProcOK, Placed, Todo, Holding, At, Conf, Serving, Looking
  <2>7. execs' \in 0 .. MaxExecs /\ crashes' \in 0 .. MaxCrashes
    BY <1>2 DEF Exec, TypeInv
  <2> QED
    BY <1>2, <2>1, <2>6, <2>7, TypeMove DEF Exec, history
<1> QED
  BY <1>1, <1>2 DEF main, LoadFails, CmdValidate


\* A file of n bytes, n beyond the header.
LEMMA ResizedFacts ==
    ASSUME TypeInv, NEW n \in Nat, n > HeaderSize
    PROVE  /\ DOMAIN Resized(n) = HeaderSize .. n - 1
           /\ Resized(n) \in [HeaderSize .. n - 1 -> Cell]
           /\ HeaderSize \in DOMAIN Resized(n)
           /\ \A o \in HeaderSize .. n - 1 :
                Resized(n)[o] = IF o \in DOMAIN file THEN file[o] ELSE Zero
<1>1. Zero \in Cell
  BY DEF Zero, Cell
<1>2. \A o \in DOMAIN file : file[o] \in Cell
  BY DEF TypeInv
<1> QED
  BY <1>1, <1>2 DEF Resized

\* Mapping the file.
LEMMA TypeMap ==
    ASSUME TypeInv, NEW p \in Procs, MapFile(p) \/ MapFails(p)
    PROVE  TypeInv'
<1>0. /\ proc = [q \in Procs |-> proc[q]] /\ IsProc(proc[p]) /\ ProcOK(p) /\ appends \in Nat
      /\ At(p, "map") /\ UNCHANGED <<hdr, execs, appends, crashes, acked>>
  BY DEF TypeInv, ProcOK, MapFile, MapFails, budget
<1>1. Usable(Conf(p))
  BY <1>0, LoadableUsable DEF ProcOK, At
<1>2. \/ UNCHANGED <<file, opened>>
      \/ file' = Resized(TotalSize(Conf(p))) /\ opened' = opened \cup {Geometry(Conf(p))}
  BY DEF MapFile, MapFails, Mapping
<1>3. /\ file' = NoFile \/ HeaderSize \in DOMAIN file'
      /\ file' \in [DOMAIN file' -> Cell]
      /\ \A o \in DOMAIN file' : o \in Nat /\ o >= HeaderSize
  <2>1. CASE UNCHANGED file
    BY <2>1 DEF TypeInv
  <2>2. CASE file' = Resized(TotalSize(Conf(p)))
    <3>1. TotalSize(Conf(p)) \in Nat /\ TotalSize(Conf(p)) > HeaderSize
      BY <1>1, SizeFacts
    <3> DEFINE n == TotalSize(Conf(p))
    <3> HIDE DEF n
    <3>2. n \in Nat /\ n > HeaderSize /\ file' = Resized(n)
      BY <2>2, <3>1 DEF n
    <3>3. DOMAIN file' = HeaderSize .. n - 1 /\ file' \in [HeaderSize .. n - 1 -> Cell]
          /\ HeaderSize \in DOMAIN file'
      BY <3>2, ResizedFacts
    <3> QED
      BY <3>2, <3>3
  <2> QED
    BY <1>2, <2>1, <2>2
<1>4. IsFiniteSet(opened')
  BY <1>2, FS_AddElement DEF TypeInv
<1>5. OnlyMoves(p) /\ ProcOK(p)'
  <2>1. CASE MapFails(p)
    BY <1>0, <2>1, ExitFacts DEF MapFails
  <2>2. CASE MapFile(p)
    <3>1. /\ OnlyMoves(p) /\ IsProc(proc'[p])
          /\ proc'[p].pc = IF proc[p].cmd = "init" THEN "header" ELSE "magic"
          /\ proc'[p].todo = IF proc[p].cmd = "init" THEN HeaderFields ELSE {}
          /\ \A f \in ProcFields \ {"pc", "todo"} : proc'[p][f] = proc[p][f]
      BY <1>0, <2>2 DEF MapFile, Mapping, OnlyMoves, IsProc, ProcFields
    <3>2. /\ proc'[p].cmd = proc[p].cmd /\ proc'[p].conf = proc[p].conf /\ proc'[p].slot = proc[p].slot
          /\ proc'[p].id = proc[p].id /\ proc'[p].committed = proc[p].committed
          /\ proc'[p].reserve = proc[p].reserve
      BY <3>1 DEF ProcFields
    <3>3. proc[p].cmd \in {"init", "recover", "serve", "status"}
      BY <1>0 DEF ProcOK, Placed
    <3> QED
      BY <1>0, <3>1, <3>2, <3>3 DEF ProcOK, Placed, Todo, Holding, At, Conf, Serving, Looking
  <2> QED
    BY <2>1, <2>2
<1>6. \A q \in Procs : ProcOK(q)'
  BY <1>0, <1>5, OneMoves
<1> QED
  BY <1>0, <1>3, <1>4, <1>5, <1>6 DEF TypeInv, OnlyMoves

\* Creating the pool and opening it.
LEMMA TypeOpen ==
    ASSUME TypeInv, NEW p \in Procs,
           (\E f \in HeaderFields : StoreHeader(p, f)) \/ Created(p) \/ CheckMagic(p)
    PROVE  TypeInv'
<1>0. /\ proc = [q \in Procs |-> proc[q]] /\ IsProc(proc[p]) /\ ProcOK(p) /\ appends \in Nat
      /\ ~ At(p, "idle") /\ UNCHANGED <<execs, appends, crashes, file, opened, acked>>
  BY DEF TypeInv, ProcOK, StoreHeader, Created, CheckMagic, At, budget, history
<1>1. execs' \in 0 .. MaxExecs /\ crashes' \in 0 .. MaxCrashes
  BY <1>0 DEF TypeInv
<1>2. ASSUME NEW f \in HeaderFields, StoreHeader(p, f) PROVE TypeInv'
  <2>1. /\ OnlyMoves(p) /\ IsProc(proc'[p]) /\ proc'[p].todo = proc[p].todo \ {f}
        /\ \A x \in ProcFields \ {"todo"} : proc'[p][x] = proc[p][x]
    BY <1>0, <1>2 DEF StoreHeader, OnlyMoves, IsProc, ProcFields
  <2>2. /\ proc'[p].pc = proc[p].pc /\ proc'[p].cmd = proc[p].cmd /\ proc'[p].conf = proc[p].conf
        /\ proc'[p].slot = proc[p].slot /\ proc'[p].id = proc[p].id
        /\ proc'[p].committed = proc[p].committed /\ proc'[p].reserve = proc[p].reserve
    BY <2>1 DEF ProcFields
  <2>3. ProcOK(p)'
    BY <1>0, <1>2, <2>1, <2>2 DEF StoreHeader, ProcOK, Placed, Todo, Holding, At, Conf, Serving, Looking
  <2>4. \A q \in Procs : ProcOK(q)'
    BY <1>0, <2>1, <2>3, OneMoves
  <2>5. HeaderValue(Conf(p), f) \in Nat /\ (f = "reserve_tail" => HeaderValue(Conf(p), f) = 0)
    <3>1. Usable(Conf(p)) /\ RecordSize(Conf(p)) \in Nat
      BY <1>0, LoadableUsable, SizeFacts DEF ProcOK
    <3> QED
      BY <3>1 DEF HeaderValue, Usable, MAGIC
  <2>6. /\ hdr' \in [HeaderFields -> Nat] /\ hdr'.reserve_tail < U64
        /\ appends = 0 => hdr'.reserve_tail = 0
    <3>1. hdr' = [hdr EXCEPT ![f] = HeaderValue(Conf(p), f)] /\ hdr \in [HeaderFields -> Nat]
      BY <1>2 DEF StoreHeader, TypeInv
    <3>2. hdr' \in [HeaderFields -> Nat]
      BY <2>5, <3>1
    <3>3. hdr'.reserve_tail = hdr.reserve_tail \/ hdr'.reserve_tail = 0
      BY <2>5, <3>1 DEF HeaderFields
    <3> QED
      BY <1>0, <3>2, <3>3 DEF TypeInv
  <2> QED
    BY <1>0, <2>1, <2>4, <2>6 DEF TypeInv, OnlyMoves
<1>3. CASE Exit(p) /\ UNCHANGED hdr
  BY <1>0, <1>1, <1>3, ExitFacts, TypeMove
<1>4. CASE CheckMagic(p) /\ hdr.magic = MAGIC
  <2>1. /\ OnlyMoves(p) /\ IsProc(proc'[p]) /\ proc'[p].pc = proc[p].cmd
        /\ proc'[p].todo = IF proc[p].cmd = "status" THEN {"stats"} ELSE {}
        /\ \A x \in ProcFields \ {"pc", "todo"} : proc'[p][x] = proc[p][x]
    <3>1. PICK td : td = IF proc[p].cmd = "status" THEN {"stats"} ELSE {}
      OBVIOUS
    <3>2. proc' = [proc EXCEPT ![p].pc = proc[p].cmd, ![p].todo = td]
      BY <1>4, <3>1 DEF CheckMagic
    <3>3. /\ OnlyMoves(p) /\ IsProc(proc'[p]) /\ proc'[p].pc = proc[p].cmd /\ proc'[p].todo = td
          /\ \A x \in ProcFields \ {"pc", "todo"} : proc'[p][x] = proc[p][x]
      BY <1>0, <3>2 DEF OnlyMoves, IsProc, ProcFields
    <3> QED
      BY <3>1, <3>3
  <2>2. /\ proc'[p].cmd = proc[p].cmd /\ proc'[p].conf = proc[p].conf
        /\ proc'[p].slot = proc[p].slot /\ proc'[p].id = proc[p].id
        /\ proc'[p].committed = proc[p].committed /\ proc'[p].reserve = proc[p].reserve
    BY <2>1 DEF ProcFields
  <2>3. proc[p].cmd \in {"recover", "serve", "status"}
    BY <1>0, <1>4 DEF CheckMagic, ProcOK, Placed
  <2>4. ProcOK(p)'
    BY <1>0, <2>1, <2>2, <2>3 DEF ProcOK, Placed, Todo, Holding, At, Conf, Serving, Looking
  <2> QED
    BY <1>0, <1>1, <1>4, <2>1, <2>4, TypeMove DEF CheckMagic
<1> QED
  BY <1>2, <1>3, <1>4 DEF Created, CheckMagic

\* Status: the loads of the counters.
LEMMA TypeStatus ==
    ASSUME TypeInv, NEW p \in Procs, ReadStats(p) \/ LoadTail(p)
    PROVE  TypeInv'
<1>0. /\ proc = [q \in Procs |-> proc[q]] /\ IsProc(proc[p]) /\ ProcOK(p) /\ appends \in Nat
      /\ UNCHANGED <<execs, appends, crashes, hdr, file, opened, acked>>
  BY DEF TypeInv, ProcOK, ReadStats, LoadTail, budget, history
<1>1. execs' \in 0 .. MaxExecs /\ crashes' \in 0 .. MaxCrashes
  BY <1>0 DEF TypeInv
<1>2. proc[p].pc \in Looking
  BY <1>0 DEF ReadStats, LoadTail, ProcOK, Placed, Todo, Looking, At, HeaderFields, Fields
<1>3. hdr.committed_tail \in Nat /\ hdr.reserve_tail \in Nat
  BY DEF TypeInv, HeaderFields
<1>4. CASE ReadStats(p)
  <2>1. /\ OnlyMoves(p) /\ IsProc(proc'[p]) /\ proc'[p].todo = {}
        /\ \A x \in ProcFields \ {"todo", "appends"} : proc'[p][x] = proc[p][x]
    <3>1. PICK n : proc' = [proc EXCEPT ![p].todo = {}, ![p].appends = n]
      BY <1>4 DEF ReadStats
    <3> QED
      BY <1>0, <3>1 DEF OnlyMoves, IsProc, ProcFields
  <2>2. /\ proc'[p].pc = proc[p].pc /\ proc'[p].cmd = proc[p].cmd /\ proc'[p].conf = proc[p].conf
        /\ proc'[p].slot = proc[p].slot /\ proc'[p].id = proc[p].id
        /\ proc'[p].committed = proc[p].committed /\ proc'[p].reserve = proc[p].reserve
    BY <2>1 DEF ProcFields
  <2>3. ProcOK(p)'
    BY <1>0, <1>2, <2>1, <2>2 DEF ProcOK, Placed, Todo, Holding, At, Conf, Serving, Looking
  <2> QED
    BY <1>0, <1>1, <2>1, <2>3, TypeMove
<1>5. CASE LoadTail(p)
  <2>1. /\ OnlyMoves(p) /\ IsProc(proc'[p])
        /\ \/ proc'[p].pc = "reserve" /\ proc'[p].committed = hdr.committed_tail
              /\ proc'[p].reserve = proc[p].reserve
           \/ proc'[p].pc = "print" /\ proc'[p].reserve = hdr.reserve_tail
              /\ proc'[p].committed = proc[p].committed
        /\ \A x \in ProcFields \ {"pc", "committed", "reserve"} : proc'[p][x] = proc[p][x]
    <3>1. CASE proc' = [proc EXCEPT ![p].committed = hdr.committed_tail, ![p].pc = "reserve"]
      BY <1>0, <3>1 DEF OnlyMoves, IsProc, ProcFields
    <3>2. CASE proc' = [proc EXCEPT ![p].reserve = hdr.reserve_tail, ![p].pc = "print"]
      BY <1>0, <3>2 DEF OnlyMoves, IsProc, ProcFields
    <3> QED
      BY <1>5, <3>1, <3>2 DEF LoadTail
  <2>2. /\ proc'[p].cmd = proc[p].cmd /\ proc'[p].conf = proc[p].conf /\ proc'[p].todo = proc[p].todo
        /\ proc'[p].slot = proc[p].slot /\ proc'[p].id = proc[p].id
    BY <2>1 DEF ProcFields
  <2>3. ProcOK(p)'
    BY <1>0, <1>2, <1>3, <2>1, <2>2 DEF ProcOK, Placed, Todo, Holding, At, Conf, Serving, Looking
  <2> QED
    BY <1>0, <1>1, <2>1, <2>3, TypeMove
<1> QED
  BY <1>4, <1>5


\* One word of the file is stored.
LEMMA StoreWord ==
    ASSUME TypeInv, NEW o \in DOMAIN file, NEW v \in Nat, file' = [file EXCEPT ![o].word = v]
    PROVE  /\ DOMAIN file' = DOMAIN file /\ file' \in [DOMAIN file -> Cell]
           /\ file'[o].word = v /\ file'[o].crc = file[o].crc
           /\ \A x \in DOMAIN file \ {o} : file'[x] = file[x]
<1>1. file \in [DOMAIN file -> Cell] /\ file[o] \in Cell
  BY DEF TypeInv
<1> QED
  BY <1>1 DEF Cell

\* One checksum of the file is stored.
LEMMA StoreCrc ==
    ASSUME TypeInv, NEW o \in DOMAIN file, NEW v \in Nat, file' = [file EXCEPT ![o].crc = v]
    PROVE  /\ DOMAIN file' = DOMAIN file /\ file' \in [DOMAIN file -> Cell]
           /\ file'[o].crc = v /\ file'[o].word = file[o].word
           /\ \A x \in DOMAIN file \ {o} : file'[x] = file[x]
<1>1. file \in [DOMAIN file -> Cell] /\ file[o] \in Cell
  BY DEF TypeInv
<1> QED
  BY <1>1 DEF Cell

\* Offsets are natural numbers behind the header.
LEMMA OffsetFacts ==
    ASSUME NEW g, Usable(g), NEW s \in Nat
    PROVE  /\ RecordOffset(g, s) \in Nat /\ PayloadOffset(g, s) \in Nat /\ MetricsOffset(g, s) \in Nat
           /\ RecordOffset(g, s) >= HeaderSize
           /\ RecordOffset(g, s) \in RecordBytes(g, s) /\ PayloadOffset(g, s) \in RecordBytes(g, s)
           /\ MetricsOffset(g, s) \in MetricsBytes(g, s)
<1>1. RecordSize(g) \in Nat /\ RecordSize(g) > MetaSize
  BY SizeFacts
<1>2. s * RecordSize(g) \in Nat /\ g.capacity * RecordSize(g) \in Nat /\ s * Line \in Nat
  BY <1>1 DEF Usable
<1> QED
  BY <1>1, <1>2 DEF RecordOffset, PayloadOffset, MetricsOffset, RecordBytes, MetricsBytes

\* What a writer, and a counter, find in the file.
LEMMA BackedFacts ==
    ASSUME TypeInv, NEW p \in Procs, Backed(p)
    PROVE  /\ At(p, "write") => RecordOffset(Conf(p), proc[p].slot) \in DOMAIN file
                             /\ PayloadOffset(Conf(p), proc[p].slot) \in DOMAIN file
           /\ At(p, "count") => MetricsOffset(Conf(p), Conf(p).host_id) \in DOMAIN file
<1>0. ProcOK(p)
  BY DEF TypeInv
<1>1. CASE At(p, "write")
  <2>1. Usable(Conf(p)) /\ proc[p].slot \in Nat
    BY <1>0, <1>1, LoadableUsable DEF ProcOK, At
  <2>2. RecordBytes(Conf(p), proc[p].slot) \subseteq DOMAIN file
    BY <1>1 DEF Backed, Touched
  <2> QED
    BY <1>1, <2>1, <2>2, OffsetFacts DEF At
<1>2. CASE At(p, "count")
  <2>1. Usable(Conf(p)) /\ Conf(p).host_id \in Nat
    BY <1>0, <1>2, LoadableUsable DEF ProcOK, At, Usable
  <2>2. MetricsBytes(Conf(p), Conf(p).host_id) \subseteq DOMAIN file
    BY <1>2 DEF Backed, Touched, At
  <2> QED
    BY <1>2, <2>1, <2>2, OffsetFacts DEF At
<1> QED
  BY <1>1, <1>2

\* A claim.
LEMMA ClaimFacts ==
    ASSUME TypeInv, NEW p \in Procs, Claim(p)
    PROVE  /\ At(p, "serve") /\ OnlyMoves(p) /\ IsProc(proc'[p]) /\ proc'[p].pc = "write"
           /\ proc'[p].todo = Fields /\ proc'[p].slot = hdr.reserve_tail /\ proc'[p].id = appends + 1
           /\ \A x \in ProcFields \ {"pc", "todo", "slot", "id"} : proc'[p][x] = proc[p][x]
           /\ hdr' \in [HeaderFields -> Nat] /\ hdr'.reserve_tail = hdr.reserve_tail + 1
           /\ hdr'.committed_tail = hdr.committed_tail /\ hdr'.reserve_tail < U64
           /\ hdr.reserve_tail \in Nat /\ hdr.reserve_tail < Conf(p).capacity
           /\ appends' = appends + 1 /\ appends < MaxAppends
           /\ UNCHANGED <<file, execs, crashes, opened, acked>>
<1>0. proc = [q \in Procs |-> proc[q]] /\ IsProc(proc[p]) /\ hdr \in [HeaderFields -> Nat]
  BY DEF TypeInv, ProcOK
<1>1. PICK r, n : r = hdr.reserve_tail /\ n = appends + 1
  OBVIOUS
<1>2. proc' = [proc EXCEPT ![p].pc = "write", ![p].todo = Fields, ![p].slot = r, ![p].id = n]
  BY <1>1 DEF Claim
<1>3. /\ OnlyMoves(p) /\ IsProc(proc'[p]) /\ proc'[p].pc = "write"
      /\ proc'[p].todo = Fields /\ proc'[p].slot = r /\ proc'[p].id = n
      /\ \A x \in ProcFields \ {"pc", "todo", "slot", "id"} : proc'[p][x] = proc[p][x]
  BY <1>0, <1>2 DEF OnlyMoves, IsProc, ProcFields
<1>4. /\ hdr' \in [HeaderFields -> Nat] /\ hdr'.reserve_tail = hdr.reserve_tail + 1
      /\ hdr'.committed_tail = hdr.committed_tail /\ hdr.reserve_tail \in Nat
      /\ hdr'.reserve_tail < U64
  <2>1. hdr.reserve_tail \in Nat /\ hdr.reserve_tail < Conf(p).capacity
    BY <1>0 DEF Claim, HeaderFields
  <2>2. Conf(p).capacity \in Nat /\ Conf(p).capacity < U64
    BY LoadableUsable, Roomy DEF Usable, Claim, TypeInv, ProcOK, At
  <2>3. WrappingAdd(hdr.reserve_tail, 1) = hdr.reserve_tail + 1 /\ hdr.reserve_tail + 1 < U64
    BY <2>1, <2>2 DEF WrappingAdd
  <2>4. PICK m \in Nat : m = hdr.reserve_tail + 1 /\ hdr' = [hdr EXCEPT !.reserve_tail = m] /\ m < U64
    BY <2>1, <2>3 DEF Claim, Reserve
  <2> QED
    BY <1>0, <2>1, <2>4 DEF HeaderFields
<1> QED
  BY <1>1, <1>3, <1>4 DEF Claim, history

\* The two fetch_adds of an append that fails.
LEMMA FailFacts ==
    ASSUME TypeInv, NEW p \in Procs, ClaimFull(p) \/ Undo(p)
    PROVE  /\ OnlyMoves(p) /\ IsProc(proc'[p])
           /\ \A x \in ProcFields \ {"pc"} : proc'[p][x] = proc[p][x]
           /\ hdr.reserve_tail \in Nat /\ hdr' \in [HeaderFields -> Nat]
           /\ hdr'.reserve_tail \in Nat /\ hdr'.reserve_tail < U64
           /\ hdr'.committed_tail = hdr.committed_tail
           /\ \/ /\ At(p, "serve") /\ proc'[p].pc = "undo" /\ Conf(p).capacity <= hdr.reserve_tail
                 /\ hdr.reserve_tail + 1 < U64 => hdr'.reserve_tail = hdr.reserve_tail + 1
              \/ /\ At(p, "undo") /\ proc'[p].pc = "full"
                 /\ hdr.reserve_tail > 0 => hdr'.reserve_tail = hdr.reserve_tail - 1
           /\ UNCHANGED <<file, execs, appends, crashes, opened, acked>>
<1>0. hdr \in [HeaderFields -> Nat] /\ hdr.reserve_tail \in Nat /\ hdr.reserve_tail < U64
  BY DEF TypeInv, HeaderFields
<1>1. PICK l \in {"undo", "full"} : Goto(p, l)
  BY DEF ClaimFull, Undo
<1>2. /\ OnlyMoves(p) /\ IsProc(proc'[p]) /\ proc'[p].pc = l
      /\ \A x \in ProcFields \ {"pc"} : proc'[p][x] = proc[p][x]
  BY <1>1, GotoFacts
<1>3. ASSUME NEW d \in 0 .. U64 - 1, Reserve(d)
      PROVE  /\ hdr' \in [HeaderFields -> Nat] /\ hdr'.reserve_tail = WrappingAdd(hdr.reserve_tail, d)
             /\ hdr'.reserve_tail \in Nat /\ hdr'.reserve_tail < U64 /\ hdr'.committed_tail = hdr.committed_tail
  <2>1. PICK n \in Nat : n = WrappingAdd(hdr.reserve_tail, d) /\ n < U64
    BY <1>0 DEF WrappingAdd
  <2>2. hdr' = [hdr EXCEPT !.reserve_tail = n]
    BY <1>3, <2>1 DEF Reserve
  <2> QED
    BY <1>0, <2>1, <2>2 DEF HeaderFields
<1>4. UNCHANGED <<file, execs, appends, crashes, opened, acked>>
  BY DEF ClaimFull, Undo, budget, history
<1>5. CASE ClaimFull(p)
  <2>1. At(p, "serve") /\ proc'[p].pc = "undo" /\ Conf(p).capacity <= hdr.reserve_tail /\ Reserve(1)
    BY <1>5, GotoFacts DEF ClaimFull
  <2>2. U64 > 1
    <3>1. Conf(p) \in Loadable
      BY <2>1 DEF TypeInv, ProcOK, At
    <3> QED
      BY <3>1, LoadableUsable, Roomy DEF Usable
  <2>3. hdr.reserve_tail + 1 < U64 => WrappingAdd(hdr.reserve_tail, 1) = hdr.reserve_tail + 1
    BY DEF WrappingAdd
  <2> QED
    BY <1>0, <1>2, <1>3, <1>4, <2>1, <2>2, <2>3
<1>6. CASE Undo(p)
  <2>1. At(p, "undo") /\ proc'[p].pc = "full" /\ Reserve(U64 - 1)
    BY <1>6, GotoFacts DEF Undo
  <2>2. hdr.reserve_tail > 0 => WrappingAdd(hdr.reserve_tail, U64 - 1) = hdr.reserve_tail - 1
    BY <1>0 DEF WrappingAdd
  <2> QED
    BY <1>0, <1>2, <1>3, <1>4, <2>1, <2>2
<1> QED
  BY <1>5, <1>6

\* The stores of a record before it is committed.
LEMMA StoreFacts ==
    ASSUME TypeInv, NEW p \in Procs, NEW f \in Fields, Store(p, f)
    PROVE  /\ At(p, "write") /\ f \in proc[p].todo
           /\ RecordOffset(Conf(p), proc[p].slot) \in DOMAIN file
           /\ PayloadOffset(Conf(p), proc[p].slot) \in DOMAIN file
           /\ OnlyMoves(p) /\ IsProc(proc'[p]) /\ proc'[p].todo = proc[p].todo \ {f}
           /\ \A x \in ProcFields \ {"todo"} : proc'[p][x] = proc[p][x]
           /\ \/ f = "state" /\ file' = [file EXCEPT ![RecordOffset(Conf(p), proc[p].slot)].word = WRITING]
              \/ f = "payload" /\ file' = [file EXCEPT ![PayloadOffset(Conf(p), proc[p].slot)].word = proc[p].id]
              \/ f = "crc" /\ file' = [file EXCEPT ![RecordOffset(Conf(p), proc[p].slot)].crc = proc[p].id]
           /\ UNCHANGED <<hdr, execs, appends, crashes, opened, acked>>
<1>0. proc = [q \in Procs |-> proc[q]] /\ IsProc(proc[p])
  BY DEF TypeInv, ProcOK
<1>1. At(p, "write") /\ Backed(p)
  BY DEF Store
<1>2. proc' = [proc EXCEPT ![p].todo = proc[p].todo \ {f}]
  BY <1>0 DEF Store
<1>3. /\ OnlyMoves(p) /\ IsProc(proc'[p]) /\ proc'[p].todo = proc[p].todo \ {f}
      /\ \A x \in ProcFields \ {"todo"} : proc'[p][x] = proc[p][x]
  BY <1>0, <1>2 DEF OnlyMoves, IsProc, ProcFields
<1> QED
  BY <1>1, <1>3, BackedFacts DEF Store, budget, history

\* The count, with which append returns.
LEMMA CountFacts ==
    ASSUME TypeInv, NEW p \in Procs, Count(p), NEW m, m = MetricsOffset(Conf(p), Conf(p).host_id)
    PROVE  /\ At(p, "count") /\ m \in DOMAIN file
           /\ OnlyMoves(p) /\ IsProc(proc'[p]) /\ proc'[p].pc = "serve" /\ proc'[p].slot = 0 /\ proc'[p].id = 0
           /\ \A x \in ProcFields \ {"pc", "slot", "id"} : proc'[p][x] = proc[p][x]
           /\ file[m].word \in Nat
           /\ file' = [file EXCEPT ![m].word = file[m].word + 1]
           /\ acked' = acked \cup {[slot |-> proc[p].slot, id |-> proc[p].id]}
           /\ UNCHANGED <<hdr, execs, appends, crashes, opened>>
<1>0. proc = [q \in Procs |-> proc[q]] /\ IsProc(proc[p])
  BY DEF TypeInv, ProcOK
<1>1. At(p, "count") /\ Backed(p)
  BY DEF Count
<1>3. m \in DOMAIN file
  BY <1>1, BackedFacts
<1>4. file[m] \in Cell
  BY <1>3 DEF TypeInv
<1>5. file[m].word \in Nat
  BY <1>4 DEF Cell
<1>6. file' = [file EXCEPT ![m].word = file[m].word + 1]
  BY <1>3 DEF Count
<1>7. proc' = [proc EXCEPT ![p].pc = "serve", ![p].slot = 0, ![p].id = 0]
  BY DEF Count
<1>8. /\ OnlyMoves(p) /\ IsProc(proc'[p]) /\ proc'[p].pc = "serve" /\ proc'[p].slot = 0 /\ proc'[p].id = 0
      /\ \A x \in ProcFields \ {"pc", "slot", "id"} : proc'[p][x] = proc[p][x]
  BY <1>0, <1>7 DEF OnlyMoves, IsProc, ProcFields
<1> QED
  BY <1>1, <1>3, <1>5, <1>6, <1>8 DEF Count, budget


\* Recovery abandons what is broken, at record offsets only, and moves the tail.
LEMMA RecoverFacts ==
    ASSUME TypeInv, NEW p \in Procs, Recover(p)
    PROVE  /\ At(p, "recover") /\ Exit(p) /\ UNCHANGED <<execs, appends, crashes, opened, acked>>
           /\ DOMAIN file' = DOMAIN file /\ file' \in [DOMAIN file -> Cell]
           /\ \A o \in DOMAIN file :
                \/ file'[o] = file[o]
                \/ /\ file'[o] = [file[o] EXCEPT !.word = ABANDONED]
                   /\ \E s \in Scanned(Conf(p)) : Broken(Conf(p), s) /\ o = RecordOffset(Conf(p), s)
           /\ hdr' = [hdr EXCEPT !.committed_tail = TailStop(file', Conf(p))]
<1> DEFINE g == Conf(p)
           bad == {RecordOffset(g, s) : s \in {t \in Scanned(g) : Broken(g, t)}}
           scanned == [o \in DOMAIN file |->
                         IF o \in bad THEN [file[o] EXCEPT !.word = ABANDONED] ELSE file[o]]
<1>1. file' = scanned /\ hdr' = [hdr EXCEPT !.committed_tail = TailStop(scanned, g)]
  BY DEF Recover
<1>2. \A o \in bad : \E s \in Scanned(g) : Broken(g, s) /\ o = RecordOffset(g, s)
  OBVIOUS
<1> HIDE DEF bad
<1>3. \A o \in DOMAIN file : file[o] \in Cell /\ [file[o] EXCEPT !.word = ABANDONED] \in Cell
  BY DEF TypeInv, Cell, ABANDONED
<1>4. DOMAIN file' = DOMAIN file /\ file' \in [DOMAIN file -> Cell]
  BY <1>1, <1>3
<1>5. \A o \in DOMAIN file : file'[o] = IF o \in bad THEN [file[o] EXCEPT !.word = ABANDONED] ELSE file[o]
  BY <1>1
<1> HIDE DEF scanned
<1> QED
  BY <1>1, <1>2, <1>4, <1>5 DEF Recover, budget, history

\* The header after a walk.
LEMMA TailStored ==
    ASSUME TypeInv, NEW n \in Nat, hdr' = [hdr EXCEPT !.committed_tail = n]
    PROVE  /\ hdr' \in [HeaderFields -> Nat] /\ hdr'.committed_tail = n
           /\ hdr'.reserve_tail = hdr.reserve_tail
BY DEF TypeInv, HeaderFields

\* append and read.
LEMMA TypeServe ==
    ASSUME TypeInv, NEW p \in Procs,
           \/ Claim(p) \/ ClaimFull(p) \/ Undo(p) \/ CountFull(p) \/ (\E f \in Fields : Store(p, f))
           \/ Commit(p) \/ AdvanceTail(p) \/ Count(p)
           \/ (\E i \in 1 .. MaxAppends : ReadCall(p, i)) \/ ReadDone(p)
    PROVE  TypeInv'
<1>0. /\ proc = [q \in Procs |-> proc[q]] /\ IsProc(proc[p]) /\ ProcOK(p) /\ appends \in Nat
      /\ execs \in 0 .. MaxExecs /\ crashes \in 0 .. MaxCrashes /\ hdr \in [HeaderFields -> Nat]
      /\ file \in [DOMAIN file -> Cell]
  BY DEF TypeInv, ProcOK
<1>1. CASE Claim(p)
  <2>2. /\ proc'[p].cmd = proc[p].cmd /\ proc'[p].conf = proc[p].conf
        /\ proc'[p].committed = proc[p].committed /\ proc'[p].reserve = proc[p].reserve
    BY <1>1, ClaimFacts DEF ProcFields
  <2>3. ProcOK(p)'
    BY <1>0, <1>1, <2>2, ClaimFacts DEF ProcOK, Placed, Todo, Holding, At, Conf, Serving, Looking
  <2>4. \A q \in Procs : ProcOK(q)'
    BY <1>0, <1>1, <2>3, ClaimFacts, OneMoves
  <2>5. \A a \in acked : a.slot \in Nat /\ a.id \in 1 .. appends'
    BY <1>0, <1>1, ClaimFacts DEF TypeInv
  <2> QED
    BY <1>0, <1>1, <2>4, <2>5, ClaimFacts DEF TypeInv, OnlyMoves
<1>2. CASE CountFull(p)
  <2>0. Goto(p, "serve") /\ At(p, "full") /\ UNCHANGED <<hdr, file, execs, appends, crashes, opened, acked>>
    BY <1>2 DEF CountFull, budget, history
  <2>1. /\ proc'[p].cmd = proc[p].cmd /\ proc'[p].conf = proc[p].conf /\ proc'[p].todo = proc[p].todo
        /\ proc'[p].committed = proc[p].committed /\ proc'[p].reserve = proc[p].reserve
        /\ proc'[p].slot = proc[p].slot /\ proc'[p].id = proc[p].id
    BY <2>0, GotoFacts DEF ProcFields
  <2>2. ProcOK(p)'
    BY <1>0, <2>0, <2>1, GotoFacts DEF ProcOK, Placed, Todo, Holding, At, Conf, Serving, Looking
  <2> QED
    BY <1>0, <2>0, <2>2, GotoFacts, TypeMove
<1>7. CASE ClaimFull(p) \/ Undo(p)
  <2>1. /\ proc'[p].cmd = proc[p].cmd /\ proc'[p].conf = proc[p].conf /\ proc'[p].todo = proc[p].todo
        /\ proc'[p].committed = proc[p].committed /\ proc'[p].reserve = proc[p].reserve
        /\ proc'[p].slot = proc[p].slot /\ proc'[p].id = proc[p].id
    BY <1>7, FailFacts DEF ProcFields
  <2>2. appends > 0
    <3>1. CASE At(p, "undo")
      BY <1>0, <3>1 DEF ProcOK
    <3>2. CASE At(p, "serve") /\ Conf(p).capacity <= hdr.reserve_tail
      <4>1. Conf(p).capacity \in Nat /\ Conf(p).capacity > 0
        BY <1>0, <3>2, LoadableUsable DEF ProcOK, At, Usable
      <4>2. hdr.reserve_tail \in Nat /\ (appends = 0 => hdr.reserve_tail = 0)
        BY DEF TypeInv, HeaderFields
      <4> QED
        BY <1>0, <3>2, <4>1, <4>2
    <3> QED
      BY <1>7, <3>1, <3>2, FailFacts
  <2>3. ProcOK(p)'
    BY <1>0, <1>7, <2>1, <2>2, FailFacts DEF ProcOK, Placed, Todo, Holding, At, Conf, Serving, Looking
  <2>4. \A q \in Procs : ProcOK(q)'
    BY <1>0, <1>7, <2>3, FailFacts, OneMoves
  <2> QED
    BY <1>0, <1>7, <2>2, <2>4, FailFacts DEF TypeInv, OnlyMoves
<1>3. ASSUME NEW f \in Fields, Store(p, f) PROVE TypeInv'
  <2>0. /\ At(p, "write") /\ OnlyMoves(p) /\ IsProc(proc'[p]) /\ proc'[p].todo = proc[p].todo \ {f}
        /\ \A x \in ProcFields \ {"todo"} : proc'[p][x] = proc[p][x]
        /\ UNCHANGED <<hdr, execs, appends, crashes, opened, acked>>
    BY <1>3, StoreFacts
  <2>1. /\ proc'[p].cmd = proc[p].cmd /\ proc'[p].conf = proc[p].conf /\ proc'[p].pc = proc[p].pc
        /\ proc'[p].committed = proc[p].committed /\ proc'[p].reserve = proc[p].reserve
        /\ proc'[p].slot = proc[p].slot /\ proc'[p].id = proc[p].id
    BY <2>0 DEF ProcFields
  <2>2. ProcOK(p)'
    BY <1>0, <2>0, <2>1 DEF ProcOK, Placed, Todo, Holding, At, Conf, Serving, Looking
  <2>3. \A q \in Procs : ProcOK(q)'
    BY <1>0, <2>0, <2>2, OneMoves
  <2>4. DOMAIN file' = DOMAIN file /\ file' \in [DOMAIN file -> Cell] /\ HeaderSize \in DOMAIN file
    <3>1. PICK v \in Nat, w \in Nat : v = proc[p].id /\ w = WRITING
      BY <1>0 DEF ProcOK, WRITING
    <3>2. PICK o, o2 : o = RecordOffset(Conf(p), proc[p].slot) /\ o2 = PayloadOffset(Conf(p), proc[p].slot)
      OBVIOUS
    <3>3. o \in DOMAIN file /\ o2 \in DOMAIN file
      BY <1>3, <3>2, StoreFacts
    <3>7. HeaderSize \in DOMAIN file
      BY <3>3 DEF TypeInv, NoFile
    <3>4. CASE file' = [file EXCEPT ![o].word = w]
      BY <3>3, <3>4, <3>7, StoreWord
    <3>5. CASE file' = [file EXCEPT ![o2].word = v]
      BY <3>3, <3>5, <3>7, StoreWord
    <3>6. CASE file' = [file EXCEPT ![o].crc = v]
      BY <3>3, <3>6, <3>7, StoreCrc
    <3> QED
      BY <1>3, <3>1, <3>2, <3>4, <3>5, <3>6, StoreFacts
  <2> QED
    BY <1>0, <2>0, <2>3, <2>4 DEF TypeInv, OnlyMoves
<1>4. CASE Commit(p) \/ AdvanceTail(p)
  <2>1. PICK l \in {"advance", "count"} : Goto(p, l)
    BY <1>4 DEF Commit, AdvanceTail
  <2>2. /\ proc'[p].cmd = proc[p].cmd /\ proc'[p].conf = proc[p].conf /\ proc'[p].todo = proc[p].todo
        /\ proc'[p].committed = proc[p].committed /\ proc'[p].reserve = proc[p].reserve
        /\ proc'[p].slot = proc[p].slot /\ proc'[p].id = proc[p].id
    BY <2>1, GotoFacts DEF ProcFields
  <2>3. proc[p].pc \in {"write", "advance"} /\ proc[p].todo = {}
        /\ UNCHANGED <<execs, appends, crashes, opened, acked>>
    BY <1>0, <1>4 DEF Commit, AdvanceTail, ProcOK, Todo, At, Looking, budget, history
  <2>4. ProcOK(p)'
    BY <1>0, <2>1, <2>2, <2>3, GotoFacts DEF ProcOK, Placed, Todo, Holding, At, Conf, Serving, Looking
  <2>5. \A q \in Procs : ProcOK(q)'
    BY <1>0, <2>1, <2>3, <2>4, GotoFacts, OneMoves
  <2>6. CASE Commit(p)
    <3>1. RecordOffset(Conf(p), proc[p].slot) \in DOMAIN file
      BY <2>6, BackedFacts DEF Commit
    <3>2. HeaderSize \in DOMAIN file
      BY <3>1 DEF TypeInv, NoFile
    <3>3. DOMAIN file' = DOMAIN file /\ file' \in [DOMAIN file -> Cell]
      BY <2>6, <3>1, StoreWord DEF Commit, COMMITTED
    <3>4. UNCHANGED hdr
      BY <2>6 DEF Commit
    <3> QED
      BY <1>0, <2>1, <2>3, <2>5, <3>2, <3>3, <3>4, GotoFacts DEF TypeInv, OnlyMoves
  <2>7. CASE AdvanceTail(p)
    <3>1. Usable(Conf(p)) /\ hdr.committed_tail \in Nat
      BY <1>0, <2>3, LoadableUsable DEF ProcOK, At, HeaderFields
    <3>2. TailStop(file, Conf(p)) \in Nat
      BY <3>1, TailStopFacts DEF Usable
    <3>3. hdr' \in [HeaderFields -> Nat] /\ hdr'.reserve_tail = hdr.reserve_tail /\ UNCHANGED file
      BY <2>7, <3>2, TailStored DEF AdvanceTail
    <3> QED
      BY <1>0, <2>1, <2>3, <2>5, <3>3, GotoFacts DEF TypeInv, OnlyMoves
  <2> QED
    BY <1>4, <2>6, <2>7
<1>5. CASE Count(p)
  <2>1. /\ proc'[p].cmd = proc[p].cmd /\ proc'[p].conf = proc[p].conf /\ proc'[p].todo = proc[p].todo
        /\ proc'[p].committed = proc[p].committed /\ proc'[p].reserve = proc[p].reserve
    BY <1>5, CountFacts DEF ProcFields
  <2>2. ProcOK(p)'
    BY <1>0, <1>5, <2>1, CountFacts DEF ProcOK, Placed, Todo, Holding, At, Conf, Serving, Looking
  <2>3. \A q \in Procs : ProcOK(q)'
    BY <1>0, <1>5, <2>2, CountFacts, OneMoves
  <2>4. DOMAIN file' = DOMAIN file /\ file' \in [DOMAIN file -> Cell] /\ HeaderSize \in DOMAIN file
    <3>1. PICK m : m = MetricsOffset(Conf(p), Conf(p).host_id)
      OBVIOUS
    <3>2. PICK v \in Nat : v = file[m].word + 1
      BY <1>5, <3>1, CountFacts
    <3>3. m \in DOMAIN file /\ file' = [file EXCEPT ![m].word = v]
      BY <1>5, <3>1, <3>2, CountFacts
    <3>4. HeaderSize \in DOMAIN file
      BY <3>3 DEF TypeInv, NoFile
    <3> QED
      BY <3>3, <3>4, StoreWord
  <2>5. \A a \in acked' : a.slot \in Nat /\ a.id \in 1 .. appends
    <3>1. proc[p].slot \in Nat /\ proc[p].id \in 1 .. appends
      BY <1>0, <1>5, CountFacts DEF ProcOK, Holding, At
    <3> QED
      BY <1>5, <3>1, CountFacts DEF TypeInv
  <2> QED
    BY <1>0, <1>5, <2>3, <2>4, <2>5, CountFacts DEF TypeInv, OnlyMoves
<1>6. CASE (\E i \in 1 .. MaxAppends : ReadCall(p, i)) \/ ReadDone(p)
  <2>1. PICK l \in {"read", "serve"}, s \in Nat : proc' = [proc EXCEPT ![p].pc = l, ![p].slot = s]
    <3>1. CASE ReadDone(p)
      BY <3>1 DEF ReadDone
    <3>2. ASSUME NEW i \in 1 .. MaxAppends, ReadCall(p, i)
          PROVE  i - 1 \in Nat /\ proc' = [proc EXCEPT ![p].pc = "read", ![p].slot = i - 1]
      BY <3>2 DEF ReadCall
    <3> QED
      BY <1>6, <3>1, <3>2
  <2>2. /\ OnlyMoves(p) /\ IsProc(proc'[p]) /\ proc'[p].pc = l /\ proc'[p].slot = s
        /\ \A x \in ProcFields \ {"pc", "slot"} : proc'[p][x] = proc[p][x]
    BY <1>0, <2>1 DEF OnlyMoves, IsProc, ProcFields
  <2>3. /\ proc'[p].cmd = proc[p].cmd /\ proc'[p].conf = proc[p].conf /\ proc'[p].todo = proc[p].todo
        /\ proc'[p].committed = proc[p].committed /\ proc'[p].reserve = proc[p].reserve
        /\ proc'[p].id = proc[p].id
    BY <2>2 DEF ProcFields
  <2>4. proc[p].pc \in {"serve", "read"} /\ UNCHANGED <<hdr, file, execs, appends, crashes, opened, acked>>
    BY <1>6 DEF ReadCall, ReadDone, At, budget, history
  <2>5. ProcOK(p)'
    BY <1>0, <2>2, <2>3, <2>4 DEF ProcOK, Placed, Todo, Holding, At, Conf, Serving, Looking
  <2> QED
    BY <1>0, <2>2, <2>4, <2>5, TypeMove
<1> QED
  BY <1>1, <1>2, <1>3, <1>4, <1>5, <1>6, <1>7

\* Whatever ends a process.
LEMMA TypeEnd ==
    ASSUME TypeInv, NEW p \in Procs, Close(p) \/ Recover(p) \/ EndStatus(p) \/ Fault(p) \/ Crash(p)
    PROVE  TypeInv'
<1>0. appends \in Nat /\ appends' = appends /\ Exit(p) /\ UNCHANGED <<execs, opened, acked>>
  BY DEF TypeInv, Close, Recover, EndStatus, Fault, Crash, budget, history
<1>1. OnlyMoves(p) /\ ProcOK(p)'
  BY <1>0, ExitFacts
<1>2. CASE Recover(p)
  <2>1. Usable(Conf(p)) /\ hdr.committed_tail \in Nat
    BY <1>2, LoadableUsable DEF Recover, TypeInv, ProcOK, At, HeaderFields
  <2>2. TailStop(file', Conf(p)) \in Nat
    BY <2>1, TailStopFacts DEF Usable
  <2>3. hdr' \in [HeaderFields -> Nat] /\ hdr'.reserve_tail = hdr.reserve_tail
    BY <1>2, <2>2, RecoverFacts, TailStored
  <2>4. \A q \in Procs : ProcOK(q)'
    BY <1>0, <1>1, OneMoves
  <2>5. file' = NoFile \/ HeaderSize \in DOMAIN file'
    <3>1. CASE HeaderSize \in DOMAIN file
      BY <1>2, <3>1, RecoverFacts
    <3>2. CASE file = NoFile
      <4>1. DOMAIN file' = {} /\ file' \in [{} -> Cell]
        BY <1>2, <3>2, RecoverFacts DEF NoFile
      <4> QED
        BY <4>1 DEF NoFile
    <3> QED
      BY <3>1, <3>2 DEF TypeInv
  <2> QED
    BY <1>1, <1>2, <2>3, <2>4, <2>5, RecoverFacts DEF TypeInv, OnlyMoves
<1>3. CASE UNCHANGED <<hdr, file>> /\ crashes' \in 0 .. MaxCrashes
  BY <1>0, <1>1, <1>3, TypeMove DEF TypeInv
<1> QED
  BY <1>2, <1>3 DEF Close, EndStatus, Fault, Crash, budget, history, TypeInv

\* TypeInv is inductive.
LEMMA TypeNext == TypeInv /\ [Next]_vars => TypeInv'
<1> SUFFICES ASSUME TypeInv, [Next]_vars PROVE TypeInv'
  OBVIOUS
<1>1. CASE UNCHANGED vars
  BY <1>1 DEF vars, TypeInv, ProcOK, Placed, Todo, Holding, At, Conf
<1> QED
  BY <1>1, TypeExec, TypeMap, TypeOpen, TypeStatus, TypeServe, TypeEnd DEF Next, Rest

\* A new pool is well-typed.
LEMMA TypeInit == Init => TypeInv
<1> SUFFICES ASSUME Init PROVE TypeInv
  OBVIOUS
<1>1. \A p \in Procs : proc[p] = Exited
  BY DEF Init
<1>2. \A p \in Procs : ProcOK(p)
  BY <1>1, ExitedFacts DEF Init, ProcOK, Placed, Todo, Holding, At, Serving, Looking
<1>3. hdr \in [HeaderFields -> Nat] /\ hdr.reserve_tail = 0
  BY DEF Init, HeaderFields
<1>4. file = NoFile /\ file \in [DOMAIN file -> Cell] /\ DOMAIN file = {}
  BY DEF Init, NoFile
<1> QED
  BY <1>2, <1>3, <1>4, FS_EmptySet DEF Init, TypeInv

\* The variables of the pool keep their types: in particular, a writer never has a slot beyond the
\* capacity, whatever it was configured with, and reserve_tail, which claims, failed claims and their
\* undo move up and down, stays a u64 in every interleaving and after every crash.
THEOREM PoolTypeCorrect == Spec => []PoolTypeOK
<1>1. TypeInv => PoolTypeOK
  <2> SUFFICES ASSUME TypeInv PROVE PoolTypeOK
    OBVIOUS
  <2>1. HeaderSize \notin DOMAIN file => file = [o \in {} |-> Zero]
    BY DEF TypeInv, NoFile
  <2>2. \A o \in DOMAIN file : o >= HeaderSize /\ file[o] \in [DOMAIN Zero -> Nat]
    <3>1. DOMAIN Zero = {"word", "crc"}
      BY DEF Zero
    <3> QED
      BY <3>1 DEF TypeInv, Cell
  <2>3. ASSUME NEW p \in Procs
        PROVE  /\ DOMAIN proc[p] = DOMAIN Exited /\ proc[p].slot \in Nat
               /\ At(p, "write") => proc[p].slot < Conf(p).capacity
               /\ proc[p].id <= appends
    BY ExitedFacts DEF TypeInv, ProcOK, IsProc
  <2>4. hdr.reserve_tail < U64
    BY DEF TypeInv
  <2> QED
    BY <2>1, <2>2, <2>3, <2>4 DEF TypeInv, PoolTypeOK
<1> QED
  BY <1>1, TypeInit, TypeNext, PTL DEF Spec


-----------------------------------------------------------------------------
(***************************************************************************)
(* The layout: where the records and the MetricsBlocks of a geometry are.  *)
(***************************************************************************)

\* An aligned number is a multiple of the word ...
LEMMA MultipleOf ==
    ASSUME NEW x \in Int, Aligned(x)
    PROVE  \E k \in Int : x = k * Word
<1> HIDE ConfigAssumption, PoolBoundAssumption
<1>1. x = (x \div Word) * Word + (x % Word) /\ x \div Word \in Int
  OBVIOUS
<1>2. PICK k \in Int : k = x \div Word
  BY <1>1
<1>3. k * Word \in Int /\ x % Word = 0
  BY DEF Aligned
<1>4. x = k * Word
  BY <1>1, <1>2, <1>3
<1> QED
  BY <1>4

\* ... and the other way round.
LEMMA MultipleAligned ==
    ASSUME NEW k \in Int
    PROVE  Aligned(k * Word)
BY DEF Aligned

\* A sum of aligned numbers is aligned.
LEMMA AlignedSum ==
    ASSUME NEW x \in Int, NEW y \in Int, NEW z \in Int, Aligned(x), Aligned(y), z = x + y
    PROVE  Aligned(z)
<1>1. PICK k \in Int : x = k * Word
  BY MultipleOf
<1>2. PICK l \in Int : y = l * Word
  BY MultipleOf
<1>3. PICK j \in Int : j = k + l
  OBVIOUS
<1>4. z = j * Word
  BY <1>1, <1>2, <1>3
<1> QED
  BY <1>4, MultipleAligned

\* And so is a product.
LEMMA AlignedProduct ==
    ASSUME NEW n \in Int, NEW x \in Int, NEW z \in Int, Aligned(x), z = n * x
    PROVE  Aligned(z)
<1>1. PICK k \in Int : x = k * Word
  BY MultipleOf
<1>2. PICK j \in Int : j = n * k
  OBVIOUS
<1>3. z = j * Word
  BY <1>1, <1>2
<1> QED
  BY <1>3, MultipleAligned

\* A record is a number of words.
LEMMA RecordAligned ==
    ASSUME NEW g, Usable(g)
    PROVE  Aligned(RecordSize(g))
<1>1. PICK r \in Int, q \in Int, m \in Int : r = RecordSize(g) /\ q = g.payload_size /\ m = MetaSize
  BY DEF RecordSize, Usable
<1>2. r = m + q
  BY <1>1 DEF RecordSize
<1>3. Aligned(q) /\ Aligned(m)
  BY <1>1, SizesAligned DEF Usable
<1>4. Aligned(r)
  BY <1>2, <1>3, AlignedSum
<1> QED
  BY <1>1, <1>4

\* Slots do not overlap: slot s ends where slot s + 1 begins.
LEMMA Strides ==
    ASSUME NEW a \in Nat, NEW b \in Nat, NEW c \in Nat, a < b
    PROVE  a * c + c <= b * c
OBVIOUS

\* A record of the pool is inside the mapping, before the MetricsBlocks, and aligned.
LEMMA RecordInside ==
    ASSUME NEW g, Usable(g), NEW s \in Nat, s < g.capacity
    PROVE  /\ RecordBytes(g, s) \subseteq HeaderSize .. TotalSize(g) - 1
           /\ Aligned(RecordOffset(g, s))
           /\ RecordOffset(g, s) \in Int
           /\ \A o \in RecordBytes(g, s) : RecordOffset(g, s) <= o
           /\ \A h \in Nat : RecordOffset(g, s) < MetricsOffset(g, h) /\ PayloadOffset(g, s) < MetricsOffset(g, h)
<1>0. /\ RecordSize(g) \in Nat /\ RecordSize(g) > MetaSize
      /\ g.capacity \in Nat /\ g.max_hosts \in Nat /\ Aligned(g.payload_size)
  BY SizeFacts DEF Usable
<1>1. s * RecordSize(g) + RecordSize(g) <= g.capacity * RecordSize(g)
  BY <1>0, Strides
<1>2. PICK x \in Nat, y \in Nat, z \in Nat :
         x = s * RecordSize(g) /\ y = g.capacity * RecordSize(g) /\ z = Line * g.max_hosts
  BY <1>0
<1>3. RecordSize(g) * g.capacity = y
  BY <1>0, <1>2
<1>4. RecordBytes(g, s) = HeaderSize + x .. HeaderSize + x + RecordSize(g) - 1
  BY <1>2 DEF RecordBytes, RecordOffset
<1>5. TotalSize(g) = HeaderSize + y + z
  BY <1>2, <1>3 DEF TotalSize
<1>6. RecordBytes(g, s) \subseteq HeaderSize .. TotalSize(g) - 1
  <2> SUFFICES ASSUME NEW o \in RecordBytes(g, s) PROVE o \in HeaderSize .. HeaderSize + y + z - 1
    BY <1>5
  <2>1. x + RecordSize(g) <= y
    BY <1>1, <1>2
  <2>2. o \in HeaderSize + x .. HeaderSize + x + RecordSize(g) - 1
    BY <1>4
  <2> QED
    BY <1>0, <2>1, <2>2
<1>7. RecordOffset(g, s) = HeaderSize + x /\ PayloadOffset(g, s) = HeaderSize + x + MetaSize
  BY <1>2 DEF RecordOffset, PayloadOffset
<1>8. Aligned(HeaderSize + x)
  <2>1. Aligned(RecordSize(g))
    BY RecordAligned
  <2>2. Aligned(x)
    <3>1. PICK r \in Int, n \in Int, e \in Int : r = RecordSize(g) /\ n = s /\ e = x
      BY <1>0
    <3>2. Aligned(r) /\ e = n * r
      BY <1>2, <2>1, <3>1
    <3>3. Aligned(e)
      BY <3>2, AlignedProduct
    <3> QED
      BY <3>1, <3>3
  <2>3. PICK e \in Int : e = HeaderSize + x
    BY <1>2
  <2> QED
    BY <1>2, <2>2, <2>3, AlignedSum, SizesAligned
<1>9. ASSUME NEW h \in Nat
      PROVE  RecordOffset(g, s) < MetricsOffset(g, h) /\ PayloadOffset(g, s) < MetricsOffset(g, h)
  <2>1. PICK w \in Nat : w = h * Line
    OBVIOUS
  <2>2. MetricsOffset(g, h) = HeaderSize + y + w
    BY <1>2, <2>1 DEF MetricsOffset
  <2> QED
    BY <1>0, <1>1, <1>2, <1>7, <2>2
<1>10. \A o \in RecordBytes(g, s) : RecordOffset(g, s) <= o
  BY <1>4, <1>7
<1> QED
  BY <1>6, <1>7, <1>8, <1>9, <1>10

\* The MetricsBlock of a host is inside the mapping, and aligned.
LEMMA MetricsInside ==
    ASSUME NEW g, Usable(g), NEW h \in Nat, h < g.max_hosts
    PROVE  /\ MetricsBytes(g, h) \subseteq HeaderSize .. TotalSize(g) - 1
           /\ Aligned(MetricsOffset(g, h))
           /\ MetricsOffset(g, h) \in MetricsBytes(g, h)
           /\ \A o \in MetricsBytes(g, h) : MetricsOffset(g, h) <= o
<1>0. /\ RecordSize(g) \in Nat /\ RecordSize(g) > MetaSize
      /\ g.capacity \in Nat /\ g.max_hosts \in Nat /\ Aligned(g.payload_size)
  BY SizeFacts DEF Usable
<1>1. h * Line + Line <= g.max_hosts * Line
  BY <1>0, Strides
<1>2. PICK x \in Nat, y \in Nat, z \in Nat :
         x = h * Line /\ y = g.capacity * RecordSize(g) /\ z = g.max_hosts * Line
  <2>1. h * Line \in Nat /\ g.capacity * RecordSize(g) \in Nat /\ g.max_hosts * Line \in Nat
    BY <1>0
  <2> QED
    BY <2>1
<1>3. RecordSize(g) * g.capacity = y /\ Line * g.max_hosts = z
  BY <1>0, <1>2
<1>4. MetricsOffset(g, h) = HeaderSize + y + x
  BY <1>2 DEF MetricsOffset
<1>5. MetricsBytes(g, h) = HeaderSize + y + x .. HeaderSize + y + x + Line - 1
  BY <1>4 DEF MetricsBytes
<1>6. TotalSize(g) = HeaderSize + y + z
  BY <1>3 DEF TotalSize
<1>7. Aligned(HeaderSize + y + x)
  <2>1. Aligned(RecordSize(g))
    BY RecordAligned
  <2>2a. /\ h \in Int /\ Line \in Int /\ x \in Int /\ y \in Int
        /\ g.capacity \in Int /\ RecordSize(g) \in Int /\ HeaderSize \in Int
    BY <1>0
  <2>2b. Aligned(x)
    <3>1. Aligned(Line) /\ x = h * Line
      BY <1>2, SizesAligned
    <3> QED
      BY <2>2a, <3>1, AlignedProduct
  <2>2c. Aligned(y)
    <3>1. y = g.capacity * RecordSize(g)
      BY <1>2
    <3> QED
      BY <2>2a, <2>1, <3>1, AlignedProduct
  <2>2. Aligned(y) /\ Aligned(x)
    BY <2>2b, <2>2c
  <2>3. PICK d \in Int, e \in Int : d = HeaderSize + y /\ e = d + x
    <3>1. HeaderSize + y \in Int /\ (HeaderSize + y) + x \in Int
      BY <2>2a
    <3> QED
      BY <3>1
  <2>4. Aligned(HeaderSize) /\ HeaderSize \in Int /\ y \in Int /\ x \in Int
    BY <2>2a, SizesAligned
  <2>5. Aligned(d)
    BY <2>2, <2>3, <2>4, AlignedSum
  <2>6. Aligned(e)
    BY <2>2, <2>3, <2>4, <2>5, AlignedSum
  <2> QED
    BY <2>3, <2>6
<1>8. MetricsBytes(g, h) \subseteq HeaderSize .. TotalSize(g) - 1
  <2> SUFFICES ASSUME NEW o \in MetricsBytes(g, h) PROVE o \in HeaderSize .. HeaderSize + y + z - 1
    BY <1>6
  <2>1. x + Line <= z
    BY <1>1, <1>2
  <2>2. o \in HeaderSize + y + x .. HeaderSize + y + x + Line - 1
    BY <1>5
  <2> QED
    BY <2>1, <2>2
<1>9. /\ HeaderSize + y + x \in MetricsBytes(g, h)
      /\ \A o \in MetricsBytes(g, h) : HeaderSize + y + x <= o
  BY <1>5
<1> QED
  BY <1>4, <1>7, <1>8, <1>9

\* The cells of two slots are different ones.
LEMMA SlotsApart ==
    ASSUME NEW g, Usable(g), NEW s \in Nat, NEW t \in Nat
    PROVE  /\ RecordOffset(g, s) # PayloadOffset(g, t)
           /\ s # t => RecordOffset(g, s) # RecordOffset(g, t) /\ PayloadOffset(g, s) # PayloadOffset(g, t)
<1>0. RecordSize(g) \in Nat /\ RecordSize(g) > MetaSize
  BY SizeFacts
<1>1. PICK x \in Nat, y \in Nat : x = s * RecordSize(g) /\ y = t * RecordSize(g)
  BY <1>0
<1>2. /\ RecordOffset(g, s) = HeaderSize + x /\ PayloadOffset(g, s) = HeaderSize + x + MetaSize
      /\ RecordOffset(g, t) = HeaderSize + y /\ PayloadOffset(g, t) = HeaderSize + y + MetaSize
  BY <1>1 DEF RecordOffset, PayloadOffset
<1>3. CASE s < t
  <2>1. x + RecordSize(g) <= y
    BY <1>0, <1>1, <1>3, Strides
  <2> QED
    BY <1>0, <1>2, <2>1
<1>4. CASE t < s
  <2>1. y + RecordSize(g) <= x
    BY <1>0, <1>1, <1>4, Strides
  <2> QED
    BY <1>0, <1>2, <2>1
<1>5. CASE s = t
  BY <1>1, <1>2, <1>5
<1> QED
  BY <1>3, <1>4, <1>5

\* What the layout depends on.
LEMMA SameGeometry ==
    ASSUME NEW g, NEW h, Geometry(g) = Geometry(h)
    PROVE  /\ g.capacity = h.capacity /\ TotalSize(g) = TotalSize(h)
           /\ \A s : RecordOffset(g, s) = RecordOffset(h, s) /\ PayloadOffset(g, s) = PayloadOffset(h, s)
                     /\ MetricsOffset(g, s) = MetricsOffset(h, s)
<1>1. g.capacity = h.capacity /\ g.payload_size = h.payload_size /\ g.max_hosts = h.max_hosts
  BY DEF Geometry
<1> QED
  BY <1>1 DEF TotalSize, RecordOffset, PayloadOffset, MetricsOffset, RecordSize



-----------------------------------------------------------------------------
(***************************************************************************)
(* One geometry: the mapping and the file.                                 *)
(***************************************************************************)

\* A set of at most one element.
LEMMA Sole ==
    ASSUME NEW S, IsFiniteSet(S), Cardinality(S) <= 1, NEW x \in S
    PROVE  S = {x}
<1>1. IsFiniteSet({x}) /\ Cardinality({x}) = 1
  BY FS_Singleton
<1>2. {x} \subseteq S
  OBVIOUS
<1>3. Cardinality({x}) <= Cardinality(S) /\ Cardinality(S) \in Nat
  BY <1>2, FS_Subset, FS_CardinalityType
<1>4. Cardinality(S) = Cardinality({x})
  BY <1>1, <1>3
<1> QED
  BY <1>2, <1>4, FS_Subset

\* A mapped process has a configuration that loads; under one geometry it is the file's.
LEMMA MappedFacts ==
    ASSUME TypeInv, GeometryInv, NEW p \in Procs, IsMapped(p)
    PROVE  /\ Conf(p) \in Loadable /\ Usable(Conf(p)) /\ Geometry(Conf(p)) \in opened
           /\ OneGeometry => /\ opened = {Geometry(Conf(p))}
                             /\ DOMAIN file = HeaderSize .. TotalSize(Conf(p)) - 1
                             /\ hdr.committed_tail <= Conf(p).capacity
<1>1. Conf(p) \in Loadable /\ Usable(Conf(p))
  BY LoadableUsable DEF TypeInv, ProcOK, IsMapped, At
<1>2. Geometry(Conf(p)) \in opened
  BY DEF GeometryInv
<1>3. OneGeometry => opened = {Geometry(Conf(p))}
  BY <1>2, Sole DEF TypeInv, OneGeometry
<1> QED
  BY <1>1, <1>2, <1>3 DEF GeometryInv

\* A mapped process has the layout of the only geometry.
LEMMA MappedSame ==
    ASSUME GeometryInv, NEW g, opened = {Geometry(g)}, NEW p \in Procs, IsMapped(p)
    PROVE  /\ Conf(p).capacity = g.capacity
           /\ \A s : /\ RecordOffset(Conf(p), s) = RecordOffset(g, s)
                     /\ PayloadOffset(Conf(p), s) = PayloadOffset(g, s)
                     /\ MetricsOffset(Conf(p), s) = MetricsOffset(g, s)
<1>1. Geometry(Conf(p)) = Geometry(g)
  BY DEF GeometryInv
<1> QED
  BY <1>1, SameGeometry

\* The steps of a process that do not resize the file.
LEMMA GeometryKept ==
    ASSUME TypeInv, TypeInv', GeometryInv, NEW p \in Procs, OnlyMoves(p), UNCHANGED opened,
           DOMAIN file' = DOMAIN file,
           proc'[p].pc \notin {"idle", "map"} => IsMapped(p) /\ proc'[p].conf = proc[p].conf,
           \/ hdr'.committed_tail <= hdr.committed_tail
           \/ IsMapped(p) /\ hdr'.committed_tail <= Conf(p).capacity,
           proc'[p].pc = "read" => \/ At(p, "read") /\ proc'[p].slot = proc[p].slot
                                   \/ proc'[p].slot < hdr.committed_tail
    PROVE  GeometryInv'
<1>0. hdr.committed_tail \in Nat /\ hdr'.committed_tail \in Nat
  BY DEF TypeInv, HeaderFields
<1>1. \A q \in Procs : IsMapped(q)' => IsMapped(q) /\ Conf(q)' = Conf(q)
  BY DEF IsMapped, Conf, OnlyMoves
<1>2. opened' = {} => file' = NoFile /\ hdr'.committed_tail = 0 /\ \A q \in Procs : ~ IsMapped(q)'
  <2> SUFFICES ASSUME opened = {}
               PROVE  file' = NoFile /\ hdr'.committed_tail = 0 /\ \A q \in Procs : ~ IsMapped(q)'
    OBVIOUS
  <2>1. file = NoFile /\ hdr.committed_tail = 0 /\ \A q \in Procs : ~ IsMapped(q)
    BY DEF GeometryInv
  <2>2. DOMAIN file' = {} /\ file' \in [DOMAIN file' -> Cell]
    BY <2>1 DEF NoFile, TypeInv
  <2>3. file' = NoFile
    BY <2>2 DEF NoFile
  <2> QED
    BY <1>0, <1>1, <2>1, <2>3
<1>3. \A q \in Procs : IsMapped(q)' => Geometry(Conf(q)') \in opened'
  BY <1>1 DEF GeometryInv
<1>4. ASSUME NEW g \in Loadable, opened' = {Geometry(g)}
      PROVE  DOMAIN file' = HeaderSize .. TotalSize(g) - 1 /\ hdr'.committed_tail <= g.capacity
  <2>1. DOMAIN file = HeaderSize .. TotalSize(g) - 1 /\ hdr.committed_tail <= g.capacity
    BY <1>4 DEF GeometryInv
  <2>2. g.capacity \in Nat
    BY LoadableUsable DEF Usable
  <2>3. IsMapped(p) => Conf(p).capacity = g.capacity
    BY <1>4, SameGeometry DEF GeometryInv
  <2> QED
    BY <1>0, <2>1, <2>2, <2>3
<1>5. ASSUME OneGeometry', NEW q \in Procs, At(q, "read")'
      PROVE  proc'[q].slot < proc'[q].conf.capacity
  <2>1. IsMapped(q) /\ proc'[q].conf = Conf(q)
    BY <1>1, <1>5 DEF IsMapped, At, Conf
  <2>2. OneGeometry
    BY <1>5 DEF OneGeometry
  <2>3. hdr.committed_tail <= Conf(q).capacity /\ Conf(q).capacity \in Nat /\ proc'[q].slot \in Nat
    BY <2>1, <2>2, MappedFacts DEF Usable, TypeInv, ProcOK
  <2>4. CASE At(q, "read") /\ proc'[q].slot = proc[q].slot
    BY <2>1, <2>2, <2>4 DEF GeometryInv
  <2>5. CASE q = p /\ proc'[q].slot < hdr.committed_tail
    BY <1>0, <2>1, <2>3, <2>5
  <2> QED
    BY <1>5, <2>4, <2>5 DEF OnlyMoves, At
<1> QED
  BY <1>2, <1>3, <1>4, <1>5 DEF GeometryInv, At, Conf

\* The file is resized.
LEMMA GeometryMap ==
    ASSUME TypeInv, TypeInv', GeometryInv, NEW p \in Procs, At(p, "map"), OnlyMoves(p), UNCHANGED hdr,
           file' = Resized(TotalSize(Conf(p))), opened' = opened \cup {Geometry(Conf(p))},
           proc'[p].pc # "read", proc'[p].pc \notin {"idle", "map"} => proc'[p].conf = proc[p].conf
    PROVE  GeometryInv'
<1>0. Usable(Conf(p)) /\ hdr.committed_tail \in Nat
  BY LoadableUsable DEF TypeInv, ProcOK, At, HeaderFields
<1>1. DOMAIN file' = HeaderSize .. TotalSize(Conf(p)) - 1
  <2>1. PICK n \in Nat : n = TotalSize(Conf(p)) /\ n > HeaderSize
    BY <1>0, SizeFacts
  <2> QED
    BY <2>1, ResizedFacts
<1>2. \A q \in Procs : IsMapped(q)' => Geometry(Conf(q)') \in opened'
  BY DEF GeometryInv, IsMapped, Conf, OnlyMoves
<1>3. ASSUME NEW g \in Loadable, opened' = {Geometry(g)}
      PROVE  DOMAIN file' = HeaderSize .. TotalSize(g) - 1 /\ hdr'.committed_tail <= g.capacity
  <2>1. Geometry(Conf(p)) = Geometry(g) /\ (opened = {} \/ opened = {Geometry(g)})
    BY <1>3
  <2>2. hdr.committed_tail <= g.capacity
    BY <2>1, LoadableUsable DEF GeometryInv, Usable
  <2> QED
    BY <1>1, <2>1, <2>2, SameGeometry
<1>4. ASSUME OneGeometry', NEW q \in Procs, At(q, "read")'
      PROVE  proc'[q].slot < proc'[q].conf.capacity
  <2>1. q # p /\ proc'[q] = proc[q] /\ At(q, "read")
    BY <1>4 DEF OnlyMoves, At
  <2>2. Geometry(Conf(q)) \in opened
    BY <2>1 DEF GeometryInv, IsMapped, At
  <2>3. opened' = {Geometry(Conf(q))}
    BY <1>4, <2>2, Sole DEF TypeInv, OneGeometry
  <2>4. opened = opened'
    BY <2>2, <2>3
  <2> QED
    BY <1>4, <2>1, <2>4 DEF GeometryInv, OneGeometry, Conf
<1> QED
  BY <1>2, <1>3, <1>4 DEF GeometryInv, At, Conf


\* The steps of a process that leave the header, the file and the slots alone: it ends, or it goes
\* on without a slot of its own.  Only a kill leaves reserve_tail one too high.
Quiet(p) ==
    /\ OnlyMoves(p) /\ UNCHANGED <<hdr, file, appends, opened, acked>>
    /\ \/ proc'[p] = Exited
       \/ /\ IsMapped(p) /\ ~ Holding(p)
          /\ proc'[p].conf = proc[p].conf /\ proc'[p].cmd = proc[p].cmd
          /\ proc'[p].pc \notin {"idle", "map", "write", "advance", "count"}
          /\ proc'[p].pc = "read" => proc'[p].slot < hdr.committed_tail
    /\ proc'[p].pc # "undo" /\ crashes' \in Nat /\ crashes <= crashes'
    /\ At(p, "undo") => crashes' = crashes + 1

\* These steps are quiet.
LEMMA QuietSteps ==
    ASSUME TypeInv, NEW p \in Procs,
           \/ (MapFails(p) /\ UNCHANGED <<file, opened>>) \/ Created(p) \/ CheckMagic(p)
           \/ CountFull(p)
           \/ (\E i \in 1 .. MaxAppends : ReadCall(p, i)) \/ ReadDone(p) \/ Close(p)
           \/ ReadStats(p) \/ LoadTail(p) \/ EndStatus(p) \/ Fault(p) \/ Crash(p)
    PROVE  Quiet(p)
<1>0. /\ proc = [q \in Procs |-> proc[q]] /\ IsProc(proc[p]) /\ ProcOK(p) /\ appends \in Nat
      /\ hdr.committed_tail \in Nat
  BY DEF TypeInv, ProcOK, HeaderFields
<1>1. UNCHANGED <<hdr, file, appends, opened, acked>>
  BY DEF MapFails, Created, CheckMagic, CountFull, ReadCall, ReadDone, Close, ReadStats,
         LoadTail, EndStatus, Fault, Crash, budget, history
<1>9. /\ crashes' \in Nat /\ crashes <= crashes'
      /\ At(p, "undo") => crashes' = crashes + 1
  <2>1. crashes \in Nat
    BY DEF TypeInv
  <2>2. CASE Crash(p)
    BY <2>1, <2>2 DEF Crash
  <2>3. CASE ~ Crash(p)
    <3>1. UNCHANGED crashes
      BY <2>3 DEF MapFails, Created, CheckMagic, CountFull, ReadCall, ReadDone, Close, ReadStats,
                  LoadTail, EndStatus, Fault, budget
    <3>2. At(p, "undo") => proc[p].todo = {} /\ Touched(p) = {}
      BY <1>0 DEF ProcOK, Todo, At, Looking, Touched
    <3>3. ~ At(p, "undo")
      BY <2>3, <3>2 DEF MapFails, Created, CheckMagic, CountFull, ReadCall, ReadDone, Close, ReadStats,
                        LoadTail, EndStatus, StatusPrinted, Fault, At
    <3> QED
      BY <2>1, <3>1, <3>3
  <2> QED
    BY <2>2, <2>3
<1>2. CASE Exit(p)
  BY <1>0, <1>1, <1>2, <1>9, ExitFacts, ExitedFacts DEF Quiet
<1>3. CASE CountFull(p)
  <2>0. Goto(p, "serve") /\ At(p, "full")
    BY <1>3 DEF CountFull
  <2>1. OnlyMoves(p) /\ proc'[p].pc = "serve" /\ proc'[p].conf = proc[p].conf /\ proc'[p].cmd = proc[p].cmd
    BY <2>0, GotoFacts DEF ProcFields
  <2> QED
    BY <1>1, <1>9, <2>0, <2>1 DEF Quiet, IsMapped, Holding, At
<1>4. CASE CheckMagic(p) /\ hdr.magic = MAGIC
  <2>1. PICK td : td = IF proc[p].cmd = "status" THEN {"stats"} ELSE {}
    OBVIOUS
  <2>2. proc' = [proc EXCEPT ![p].pc = proc[p].cmd, ![p].todo = td]
    BY <1>4, <2>1 DEF CheckMagic
  <2>3. OnlyMoves(p) /\ proc'[p].pc = proc[p].cmd /\ proc'[p].conf = proc[p].conf /\ proc'[p].cmd = proc[p].cmd
    BY <1>0, <2>2 DEF OnlyMoves, IsProc, ProcFields
  <2>4. At(p, "magic") /\ proc[p].cmd \in {"recover", "serve", "status"}
    BY <1>0, <1>4 DEF CheckMagic, ProcOK, Placed
  <2> QED
    BY <1>1, <1>9, <2>3, <2>4 DEF Quiet, IsMapped, Holding, At
<1>5. CASE ReadStats(p)
  <2>1. PICK n : proc' = [proc EXCEPT ![p].todo = {}, ![p].appends = n]
    BY <1>5 DEF ReadStats
  <2>2. OnlyMoves(p) /\ proc'[p].pc = proc[p].pc /\ proc'[p].conf = proc[p].conf /\ proc'[p].cmd = proc[p].cmd
    BY <1>0, <2>1 DEF OnlyMoves, IsProc, ProcFields
  <2>3. proc[p].pc \in Looking
    BY <1>0, <1>5 DEF ReadStats, ProcOK, Placed, Todo, Looking, At, HeaderFields, Fields
  <2> QED
    BY <1>1, <1>9, <2>2, <2>3 DEF Quiet, IsMapped, Holding, Looking
<1>6. CASE LoadTail(p)
  <2>1. /\ OnlyMoves(p) /\ proc'[p].pc \in {"reserve", "print"}
        /\ proc'[p].conf = proc[p].conf /\ proc'[p].cmd = proc[p].cmd
    <3>1. CASE proc' = [proc EXCEPT ![p].committed = hdr.committed_tail, ![p].pc = "reserve"]
      BY <1>0, <3>1 DEF OnlyMoves, IsProc, ProcFields
    <3>2. CASE proc' = [proc EXCEPT ![p].reserve = hdr.reserve_tail, ![p].pc = "print"]
      BY <1>0, <3>2 DEF OnlyMoves, IsProc, ProcFields
    <3> QED
      BY <1>6, <3>1, <3>2 DEF LoadTail
  <2>2. proc[p].pc \in {"status", "reserve"}
    BY <1>6 DEF LoadTail, At
  <2> QED
    BY <1>1, <1>9, <2>1, <2>2 DEF Quiet, IsMapped, Holding
<1>7. ASSUME NEW i \in 1 .. MaxAppends, ReadCall(p, i) PROVE Quiet(p)
  <2>1. proc' = [proc EXCEPT ![p].pc = "read", ![p].slot = i - 1] /\ At(p, "serve") /\ i <= hdr.committed_tail
    BY <1>7 DEF ReadCall
  <2>2. /\ OnlyMoves(p) /\ proc'[p].pc = "read" /\ proc'[p].slot = i - 1
        /\ proc'[p].conf = proc[p].conf /\ proc'[p].cmd = proc[p].cmd
    BY <1>0, <2>1 DEF OnlyMoves, IsProc, ProcFields
  <2> QED
    BY <1>0, <1>1, <1>9, <2>1, <2>2 DEF Quiet, IsMapped, Holding, At
<1>8. CASE ReadDone(p)
  <2>1. proc' = [proc EXCEPT ![p].pc = "serve", ![p].slot = 0] /\ At(p, "read")
    BY <1>8 DEF ReadDone
  <2>2. OnlyMoves(p) /\ proc'[p].pc = "serve" /\ proc'[p].conf = proc[p].conf /\ proc'[p].cmd = proc[p].cmd
    BY <1>0, <2>1 DEF OnlyMoves, IsProc, ProcFields
  <2> QED
    BY <1>1, <1>9, <2>1, <2>2 DEF Quiet, IsMapped, Holding, At
<1> QED
  BY <1>2, <1>3, <1>4, <1>5, <1>6, <1>7, <1>8
  DEF MapFails, Created, CheckMagic, Close, EndStatus, Fault, Crash, At

\* The start of a process.
LEMMA ExecFacts ==
    ASSUME TypeInv, NEW p \in Procs, At(p, "idle"), NEW cmd \in Commands, NEW path, Exec(p, cmd, path)
    PROVE  /\ OnlyMoves(p) /\ proc'[p].pc = "map"
           /\ proc'[p].cmd = IF cmd = "none" THEN "status" ELSE cmd
           /\ Careful(cmd) /\ UNCHANGED <<hdr, file, appends, crashes, opened, acked>>
<1>1. proc = [q \in Procs |-> proc[q]] /\ IsProc(proc[p])
  BY DEF TypeInv, ProcOK
<1>2. /\ OnlyMoves(p) /\ proc'[p].pc = "map"
      /\ proc'[p].cmd = IF cmd = "none" THEN "status" ELSE cmd
  BY <1>1 DEF Exec, OnlyMoves, IsProc, ProcFields
<1> QED
  BY <1>2 DEF Exec, history

\* The file is mapped, or resized and then not mapped.
LEMMA MapFacts ==
    ASSUME TypeInv, NEW p \in Procs, MapFile(p) \/ (MapFails(p) /\ ~ UNCHANGED <<file, opened>>)
    PROVE  /\ At(p, "map") /\ OnlyMoves(p) /\ UNCHANGED <<hdr, appends, crashes, acked>>
           /\ file' = Resized(TotalSize(Conf(p))) /\ opened' = opened \cup {Geometry(Conf(p))}
           /\ proc'[p] = Exited \/ /\ proc'[p].pc \in {"header", "magic"}
                                   /\ proc'[p].conf = proc[p].conf /\ proc'[p].cmd = proc[p].cmd
<1>0. proc = [q \in Procs |-> proc[q]] /\ IsProc(proc[p]) /\ appends \in Nat
  BY DEF TypeInv, ProcOK
<1>1. CASE MapFails(p) /\ ~ UNCHANGED <<file, opened>>
  BY <1>0, <1>1, ExitFacts DEF MapFails, budget
<1>2. CASE MapFile(p)
  <2>0. PICK l, td : /\ l = IF proc[p].cmd = "init" THEN "header" ELSE "magic"
                     /\ td = IF proc[p].cmd = "init" THEN HeaderFields ELSE {}
    OBVIOUS
  <2>1. l \in {"header", "magic"} /\ proc' = [proc EXCEPT ![p].pc = l, ![p].todo = td]
    BY <1>2, <2>0 DEF MapFile, Mapping
  <2>2. OnlyMoves(p) /\ proc'[p].pc = l /\ proc'[p].conf = proc[p].conf /\ proc'[p].cmd = proc[p].cmd
    BY <1>0, <2>1 DEF OnlyMoves, IsProc, ProcFields
  <2>3. /\ At(p, "map") /\ UNCHANGED <<hdr, appends, crashes, acked>>
        /\ file' = Resized(TotalSize(Conf(p))) /\ opened' = opened \cup {Geometry(Conf(p))}
    BY <1>2 DEF MapFile, Mapping, budget
  <2> QED
    BY <2>1, <2>2, <2>3
<1> QED
  BY <1>1, <1>2

\* A field of the header is stored.
LEMMA StoreHeaderFacts ==
    ASSUME TypeInv, NEW p \in Procs, NEW f \in HeaderFields, StoreHeader(p, f)
    PROVE  /\ At(p, "header") /\ OnlyMoves(p) /\ proc'[p].pc = "header"
           /\ proc'[p].conf = proc[p].conf /\ proc'[p].cmd = proc[p].cmd
           /\ hdr'.committed_tail \in {0, hdr.committed_tail}
           /\ hdr'.reserve_tail \in {0, hdr.reserve_tail}
           /\ UNCHANGED <<file, appends, crashes, opened, acked>>
<1>0. proc = [q \in Procs |-> proc[q]] /\ IsProc(proc[p]) /\ hdr \in [HeaderFields -> Nat]
  BY DEF TypeInv, ProcOK
<1>1. PICK td : proc' = [proc EXCEPT ![p].todo = td]
  BY DEF StoreHeader
<1>2. /\ OnlyMoves(p) /\ proc'[p].pc = proc[p].pc /\ proc'[p].conf = proc[p].conf
      /\ proc'[p].cmd = proc[p].cmd
  BY <1>0, <1>1 DEF OnlyMoves, IsProc, ProcFields
<1>3. f \in {"committed_tail", "reserve_tail"} => HeaderValue(Conf(p), f) = 0
  BY DEF HeaderValue
<1>4. PICK v : v = HeaderValue(Conf(p), f)
  OBVIOUS
<1>5. hdr' = [hdr EXCEPT ![f] = v] /\ (f \in {"committed_tail", "reserve_tail"} => v = 0)
  BY <1>3, <1>4 DEF StoreHeader
<1>6. hdr'.committed_tail \in {0, hdr.committed_tail} /\ hdr'.reserve_tail \in {0, hdr.reserve_tail}
  BY <1>0, <1>5 DEF HeaderFields
<1> QED
  BY <1>2, <1>6 DEF StoreHeader, At, budget, history

\* A record is committed.
LEMMA CommitFacts ==
    ASSUME TypeInv, NEW p \in Procs, Commit(p)
    PROVE  /\ At(p, "write") /\ proc[p].todo = {} /\ OnlyMoves(p) /\ proc'[p].pc = "advance"
           /\ \A x \in ProcFields \ {"pc"} : proc'[p][x] = proc[p][x]
           /\ RecordOffset(Conf(p), proc[p].slot) \in DOMAIN file
           /\ file' = [file EXCEPT ![RecordOffset(Conf(p), proc[p].slot)].word = COMMITTED]
           /\ UNCHANGED <<hdr, appends, crashes, opened, acked>>
<1>1. At(p, "write") /\ Backed(p) /\ Goto(p, "advance")
  BY DEF Commit
<1> QED
  BY <1>1, GotoFacts, BackedFacts DEF Commit, budget, history

\* The committed tail advances.
LEMMA AdvanceFacts ==
    ASSUME TypeInv, NEW p \in Procs, AdvanceTail(p)
    PROVE  /\ At(p, "advance") /\ OnlyMoves(p) /\ proc'[p].pc = "count"
           /\ \A x \in ProcFields \ {"pc"} : proc'[p][x] = proc[p][x]
           /\ TailStop(file, Conf(p)) \in Nat
           /\ hdr'.committed_tail = TailStop(file, Conf(p)) /\ hdr'.reserve_tail = hdr.reserve_tail
           /\ UNCHANGED <<file, appends, crashes, opened, acked>>
<1>1. At(p, "advance") /\ Goto(p, "count")
  BY DEF AdvanceTail
<1>2. Usable(Conf(p)) /\ hdr.committed_tail \in Nat
  BY <1>1, LoadableUsable DEF TypeInv, ProcOK, At, HeaderFields
<1>3. TailStop(file, Conf(p)) \in Nat
  BY <1>2, TailStopFacts DEF Usable
<1> QED
  BY <1>1, <1>3, GotoFacts, TailStored DEF AdvanceTail, budget, history


\* What a store of a record does to its two cells.
LEMMA StoreCells ==
    ASSUME TypeInv, NEW p \in Procs, NEW f \in Fields, Store(p, f),
           NEW o, NEW o2, o = RecordOffset(Conf(p), proc[p].slot), o2 = PayloadOffset(Conf(p), proc[p].slot)
    PROVE  /\ DOMAIN file' = DOMAIN file
           /\ \A x \in DOMAIN file \ {o, o2} : file'[x] = file[x]
           /\ f = "state" => file'[o].word = WRITING /\ file'[o].crc = file[o].crc /\ file'[o2] = file[o2]
           /\ f = "payload" => file'[o2].word = proc[p].id /\ file'[o] = file[o]
           /\ f = "crc" => file'[o].crc = proc[p].id /\ file'[o].word = file[o].word /\ file'[o2] = file[o2]
<1>0. o \in DOMAIN file /\ o2 \in DOMAIN file /\ At(p, "write")
  BY StoreFacts
<1>1. o # o2
  BY <1>0, SlotsApart, LoadableUsable DEF TypeInv, ProcOK, At
<1>2. PICK v \in Nat, w \in Nat : v = proc[p].id /\ w = WRITING
  BY DEF TypeInv, ProcOK, WRITING
<1>3. CASE f = "state" /\ file' = [file EXCEPT ![o].word = w]
  BY <1>0, <1>1, <1>2, <1>3, StoreWord, ZenonT(30)
<1>4. CASE f = "payload" /\ file' = [file EXCEPT ![o2].word = v]
  BY <1>0, <1>1, <1>2, <1>4, StoreWord
<1>5. CASE f = "crc" /\ file' = [file EXCEPT ![o].crc = v]
  <2>1. /\ DOMAIN file' = DOMAIN file /\ file'[o].crc = v /\ file'[o].word = file[o].word
        /\ \A x \in DOMAIN file \ {o} : file'[x] = file[x]
    BY <1>0, <1>5, StoreCrc
  <2> QED
    BY <1>0, <1>1, <1>2, <1>5, <2>1
<1> QED
  BY <1>2, <1>3, <1>4, <1>5, StoreFacts

\* GeometryInv is inductive.
LEMMA GeometryNext == TypeInv /\ TypeInv' /\ GeometryInv /\ [Next]_vars => GeometryInv'
<1> SUFFICES ASSUME TypeInv, TypeInv', GeometryInv, [Next]_vars PROVE GeometryInv'
  OBVIOUS
<1>1. CASE UNCHANGED vars
  <2>1. UNCHANGED <<hdr, file, proc, opened>>
    BY <1>1 DEF vars
  <2>2. \A p \in Procs : IsMapped(p)' = IsMapped(p) /\ Conf(p)' = Conf(p) /\ At(p, "read")' = At(p, "read")
    BY <2>1 DEF IsMapped, Conf, At
  <2> QED
    BY <2>1, <2>2 DEF GeometryInv, OneGeometry
<1>2. ASSUME NEW p \in Procs, At(p, "idle"), NEW cmd \in Commands, NEW path, Exec(p, cmd, path)
      PROVE  GeometryInv'
  <2>1. OnlyMoves(p) /\ proc'[p].pc = "map" /\ UNCHANGED <<hdr, file, opened>>
    BY <1>2, ExecFacts
  <2>2. hdr'.committed_tail <= hdr.committed_tail
    BY <2>1 DEF TypeInv, HeaderFields
  <2> QED
    BY <2>1, <2>2, GeometryKept
<1>3. ASSUME NEW p \in Procs, MapFile(p) \/ (MapFails(p) /\ ~ UNCHANGED <<file, opened>>)
      PROVE  GeometryInv'
  <2>1. proc'[p].pc # "read" /\ (proc'[p].pc \notin {"idle", "map"} => proc'[p].conf = proc[p].conf)
    BY <1>3, MapFacts, ExitedFacts
  <2> QED
    BY <1>3, <2>1, MapFacts, GeometryMap
<1>4. ASSUME NEW p \in Procs, Quiet(p) PROVE GeometryInv'
  <2>1. hdr'.committed_tail <= hdr.committed_tail
    BY <1>4 DEF Quiet, TypeInv, HeaderFields
  <2>2. CASE proc'[p] = Exited
    BY <1>4, <2>1, <2>2, ExitedFacts, GeometryKept DEF Quiet
  <2>3. CASE proc'[p] # Exited
    BY <1>4, <2>1, <2>3, GeometryKept DEF Quiet
  <2> QED
    BY <2>2, <2>3
<1>5. ASSUME NEW p \in Procs, OnlyMoves(p), UNCHANGED opened, DOMAIN file' = DOMAIN file, IsMapped(p),
             proc'[p].conf = proc[p].conf, proc'[p].pc # "read",
             hdr'.committed_tail <= hdr.committed_tail \/ hdr'.committed_tail <= Conf(p).capacity
      PROVE  GeometryInv'
  BY <1>5, GeometryKept
<1>6. ASSUME NEW p \in Procs, NEW f \in HeaderFields, StoreHeader(p, f) PROVE GeometryInv'
  <2>1. hdr'.committed_tail <= hdr.committed_tail
    BY <1>6, StoreHeaderFacts DEF TypeInv, HeaderFields
  <2> QED
    BY <1>5, <1>6, <2>1, StoreHeaderFacts DEF IsMapped, At
<1>7. hdr' = hdr \/ hdr'.committed_tail = hdr.committed_tail => hdr'.committed_tail <= hdr.committed_tail
  BY DEF TypeInv, HeaderFields
<1>8. ASSUME NEW p \in Procs, Claim(p) PROVE GeometryInv'
  <2>1. proc'[p].conf = proc[p].conf
    BY <1>8, ClaimFacts DEF ProcFields
  <2> QED
    BY <1>5, <1>7, <1>8, <2>1, ClaimFacts DEF IsMapped, At
<1>14. ASSUME NEW p \in Procs, ClaimFull(p) \/ Undo(p) PROVE GeometryInv'
  <2>1. proc'[p].conf = proc[p].conf /\ DOMAIN file' = DOMAIN file
    BY <1>14, FailFacts DEF ProcFields
  <2>2. IsMapped(p) /\ proc'[p].pc # "read"
    BY <1>14, FailFacts DEF IsMapped, At
  <2> QED
    BY <1>5, <1>7, <1>14, <2>1, <2>2, FailFacts
<1>9. ASSUME NEW p \in Procs, NEW f \in Fields, Store(p, f) PROVE GeometryInv'
  <2>1. proc'[p].conf = proc[p].conf /\ proc'[p].pc = proc[p].pc
    BY <1>9, StoreFacts DEF ProcFields
  <2> QED
    BY <1>5, <1>7, <1>9, <2>1, StoreFacts, StoreCells DEF IsMapped, At
<1>10. ASSUME NEW p \in Procs, Commit(p) PROVE GeometryInv'
  <2>1. proc'[p].conf = proc[p].conf
    BY <1>10, CommitFacts DEF ProcFields
  <2>2. DOMAIN file' = DOMAIN file
    BY <1>10, CommitFacts
  <2> QED
    BY <1>5, <1>7, <1>10, <2>1, <2>2, CommitFacts DEF IsMapped, At
<1>11. ASSUME NEW p \in Procs, AdvanceTail(p) PROVE GeometryInv'
  <2>1. proc'[p].conf = proc[p].conf
    BY <1>11, AdvanceFacts DEF ProcFields
  <2>2. IsMapped(p)
    BY <1>11, AdvanceFacts DEF IsMapped, At
  <2>3. hdr.committed_tail \in Nat /\ Conf(p).capacity \in Nat
    BY <2>2, MappedFacts DEF TypeInv, HeaderFields, Usable
  <2>4. hdr'.committed_tail <= hdr.committed_tail \/ hdr'.committed_tail <= Conf(p).capacity
    BY <1>11, <2>3, AdvanceFacts, TailStopFacts
  <2> QED
    BY <1>5, <1>11, <2>1, <2>2, <2>4, AdvanceFacts
<1>12. ASSUME NEW p \in Procs, Count(p) PROVE GeometryInv'
  <2>0. PICK m : m = MetricsOffset(Conf(p), Conf(p).host_id)
    OBVIOUS
  <2>1. proc'[p].conf = proc[p].conf
    BY <1>12, <2>0, CountFacts DEF ProcFields
  <2>2. DOMAIN file' = DOMAIN file
    BY <1>12, <2>0, CountFacts
  <2> QED
    BY <1>5, <1>7, <1>12, <2>0, <2>1, <2>2, CountFacts DEF IsMapped, At
<1>13. ASSUME NEW p \in Procs, Recover(p) PROVE GeometryInv'
  <2>1. OnlyMoves(p) /\ proc'[p] = Exited /\ IsMapped(p) /\ DOMAIN file' = DOMAIN file /\ UNCHANGED opened
    BY <1>13, RecoverFacts, ExitFacts DEF IsMapped, At, TypeInv
  <2>3. hdr.committed_tail \in Nat /\ Conf(p).capacity \in Nat
    BY <2>1, MappedFacts DEF TypeInv, HeaderFields, Usable
  <2>4. PICK n : n = TailStop(file', Conf(p))
    OBVIOUS
  <2>5. n \in Nat /\ (n <= Conf(p).capacity \/ n = hdr.committed_tail)
    BY <2>3, <2>4, TailStopFacts
  <2>6. hdr'.committed_tail = n
    BY <1>13, <2>4, <2>5, RecoverFacts, TailStored
  <2> QED
    BY <2>1, <2>3, <2>5, <2>6, ExitedFacts, GeometryKept
<1> QED
  BY <1>1, <1>2, <1>3, <1>4, <1>6, <1>8, <1>9, <1>10, <1>11, <1>12, <1>13, <1>14, QuietSteps
  DEF Next, Rest, main, LoadFails, CmdValidate

\* Before the first open there is no file.
LEMMA GeometryInit == Init => GeometryInv
<1> SUFFICES ASSUME Init PROVE GeometryInv
  OBVIOUS
<1>1. \A p \in Procs : proc[p].pc = "idle"
  BY ExitedFacts DEF Init
<1>2. hdr.committed_tail = 0
  BY DEF Init, HeaderFields
<1> QED
  BY <1>1, <1>2 DEF Init, GeometryInv, NoFile, IsMapped, At


\* Bytes of a mapping of geometry g, that start with an aligned one.
Inside(g, T) ==
    /\ T \subseteq HeaderSize .. TotalSize(g) - 1
    /\ \A o \in T : \E a \in T : Aligned(a) /\ a <= o

\* A record, its first word, and a MetricsBlock.
LEMMA InsideParts ==
    ASSUME NEW g, Usable(g)
    PROVE  /\ Inside(g, {})
           /\ \A s \in Nat : s < g.capacity => Inside(g, RecordBytes(g, s)) /\ Inside(g, {RecordOffset(g, s)})
           /\ \A h \in Nat : h < g.max_hosts => Inside(g, MetricsBytes(g, h))
<1>1. ASSUME NEW s \in Nat, s < g.capacity
      PROVE  Inside(g, RecordBytes(g, s)) /\ Inside(g, {RecordOffset(g, s)})
  <2>1. /\ RecordBytes(g, s) \subseteq HeaderSize .. TotalSize(g) - 1 /\ RecordOffset(g, s) \in RecordBytes(g, s)
        /\ Aligned(RecordOffset(g, s)) /\ RecordOffset(g, s) \in Int
        /\ \A o \in RecordBytes(g, s) : RecordOffset(g, s) <= o
    BY <1>1, RecordInside, OffsetFacts
  <2> QED
    BY <2>1 DEF Inside
<1>2. ASSUME NEW h \in Nat, h < g.max_hosts PROVE Inside(g, MetricsBytes(g, h))
  BY <1>2, MetricsInside DEF Inside
<1> QED
  BY <1>1, <1>2 DEF Inside

\* Together they are inside, too.
LEMMA InsideUnion ==
    ASSUME NEW g, NEW F, \A T \in F : Inside(g, T)
    PROVE  Inside(g, UNION F)
BY DEF Inside

\* And two of them.
LEMMA InsidePair ==
    ASSUME NEW g, NEW S, NEW T, Inside(g, S), Inside(g, T)
    PROVE  Inside(g, S \cup T)
BY DEF Inside

\* The first words of some records.
LEMMA InsideWords ==
    ASSUME NEW g, Usable(g), NEW S, \A s \in S : s \in Nat /\ s < g.capacity
    PROVE  Inside(g, {RecordOffset(g, s) : s \in S})
<1> DEFINE F == {{RecordOffset(g, s)} : s \in S}
<1>1. \A T \in F : Inside(g, T)
  BY InsideParts
<1>2. {RecordOffset(g, s) : s \in S} = UNION F
  OBVIOUS
<1> HIDE DEF F
<1> QED
  BY <1>1, <1>2, InsideUnion

\* Whatever a process touches is inside its mapping, and in the file.
LEMMA TouchedInside ==
    ASSUME TypeInv, GeometryInv, OneGeometry, NEW p \in Procs, Touched(p) # {}
    PROVE  /\ Usable(Conf(p)) /\ Inside(Conf(p), Touched(p))
           /\ DOMAIN file = HeaderSize .. TotalSize(Conf(p)) - 1
<1> DEFINE g == Conf(p)
<1>0. ProcOK(p)
  BY DEF TypeInv
<1>1. IsMapped(p)
  BY <1>0 DEF Touched, At, IsMapped, ProcOK, Todo, Looking
<1>2. Usable(g) /\ DOMAIN file = HeaderSize .. TotalSize(g) - 1
  BY <1>1, MappedFacts
<1>3. g.host_id \in Nat /\ g.host_id < g.max_hosts /\ g.capacity \in Nat /\ g.max_hosts \in Nat
  BY <1>2 DEF Usable
<1>4. Inside(g, MetricsBytes(g, g.host_id))
  BY <1>2, <1>3, InsideParts
<1>5. /\ \A s \in Walked(g) : s \in Nat /\ s < g.capacity
      /\ \A s \in Scanned(g) : s \in Nat /\ s < g.capacity
  <2>1. hdr.committed_tail \in Nat /\ hdr.reserve_tail \in Nat
    BY DEF TypeInv, HeaderFields
  <2>2. TailStop(file, g) \in Nat
    BY <1>3, <2>1, TailStopFacts
  <2> QED
    BY <2>1, <2>2 DEF Walked, Scanned
<1>6. Inside(g, {RecordOffset(g, s) : s \in Walked(g)})
  BY <1>2, <1>5, InsideWords
<1>7. CASE At(p, "write")
  <2>1. proc[p].slot \in Nat /\ proc[p].slot < g.capacity
    BY <1>0, <1>7 DEF ProcOK
  <2> QED
    BY <1>2, <1>7, <2>1, InsideParts DEF Touched
<1>8. CASE At(p, "advance")
  BY <1>2, <1>6, <1>8 DEF Touched, At
<1>9. CASE At(p, "count") \/ At(p, "full")
  BY <1>2, <1>4, <1>9 DEF Touched, At
<1>10. CASE At(p, "read")
  <2>1. proc[p].slot \in Nat /\ proc[p].slot < g.capacity
    BY <1>0, <1>10 DEF ProcOK, GeometryInv
  <2>2. Inside(g, {RecordOffset(g, proc[p].slot)})
    BY <1>2, <2>1, InsideParts
  <2>3. Inside(g, RecordBytes(g, proc[p].slot) \cup MetricsBytes(g, g.host_id))
    BY <1>2, <1>4, <2>1, InsideParts, InsidePair
  <2>4. \/ Touched(p) = {RecordOffset(g, proc[p].slot)}
        \/ Touched(p) = RecordBytes(g, proc[p].slot) \cup MetricsBytes(g, g.host_id)
    BY <1>10 DEF Touched, At
  <2> QED
    BY <1>2, <2>2, <2>3, <2>4
<1>11. CASE At(p, "recover")
  <2> DEFINE R == {RecordBytes(g, s) : s \in Scanned(g)}
             W == {RecordOffset(g, s) : s \in Walked(g)}
  <2>1. \A T \in R : Inside(g, T)
    BY <1>2, <1>5, InsideParts
  <2>2. Inside(g, UNION R)
    BY <2>1, InsideUnion
  <2>3. Touched(p) = ((UNION R) \cup W) \cup MetricsBytes(g, g.host_id)
    BY <1>11 DEF Touched, At
  <2>4. Inside(g, W)
    BY <1>6
  <2> HIDE DEF R, W
  <2>5. Inside(g, (UNION R) \cup W)
    BY <2>2, <2>4, InsidePair
  <2> QED
    BY <1>2, <1>4, <2>3, <2>5, InsidePair
<1>12. CASE "stats" \in proc[p].todo /\ proc[p].pc \in Looking
  <2> DEFINE M == {MetricsBytes(g, h) : h \in Hosts(g)}
  <2>1. \A h \in Hosts(g) : h \in Nat /\ h < g.max_hosts
    BY <1>3 DEF Hosts
  <2>2. \A T \in M : Inside(g, T)
    BY <1>2, <2>1, InsideParts
  <2>3. Touched(p) = UNION M
    BY <1>12 DEF Touched, At, Looking
  <2> HIDE DEF M
  <2> QED
    BY <1>2, <2>2, <2>3, InsideUnion
<1>13. "stats" \in proc[p].todo => proc[p].pc \in Looking
  BY <1>0 DEF ProcOK, Todo, HeaderFields, Fields
<1> QED
  BY <1>7, <1>8, <1>9, <1>10, <1>11, <1>12, <1>13 DEF Touched

\* As long as every process had the same geometry in its configuration, whatever files, processes,
\* commands, crashes and failures of mmap there were, every access of the engine, of recovery and
\* of the metrics is inside the mapping, inside the file, and aligned.
THEOREM PoolInBounds == Spec => []InBoundsOneGeometry
<1>1. TypeInv /\ GeometryInv => InBoundsOneGeometry
  <2> SUFFICES ASSUME TypeInv, GeometryInv, OneGeometry, NEW p \in Procs, NEW t, t = Touched(p), t # {}
               PROVE  /\ Min(t) >= HeaderSize /\ Max(t) < TotalSize(Conf(p)) /\ Min(t) % Word = 0
                      /\ Backed(p)
    BY DEF InBoundsOneGeometry, InBounds, Backed
  <2>1. /\ Usable(Conf(p)) /\ Inside(Conf(p), t)
        /\ DOMAIN file = HeaderSize .. TotalSize(Conf(p)) - 1
    BY TouchedInside
  <2>2. PICK n \in Nat : n = TotalSize(Conf(p)) /\ n > HeaderSize
    BY <2>1, SizeFacts
  <2>3. t \subseteq HeaderSize .. n - 1 /\ \A o \in t : \E a \in t : Aligned(a) /\ a <= o
    BY <2>1, <2>2 DEF Inside
  <2>4. t \subseteq Nat /\ \A y \in t : y <= n
    BY <2>2, <2>3
  <2>5. \E x \in t : \A y \in t : x <= y
    BY <2>4, LeastNat
  <2>6. \E x \in t : \A y \in t : x >= y
    BY <2>4, GreatestNat
  <2>7. Min(t) \in t /\ \A y \in t : Min(t) <= y
    BY <2>5 DEF Min
  <2>8. Max(t) \in t
    BY <2>6 DEF Max
  <2>9. PICK a \in t : Aligned(a) /\ a <= Min(t)
    BY <2>3, <2>7
  <2>10. a = Min(t)
    BY <2>4, <2>7, <2>9
  <2>11. Min(t) % Word = 0
    BY <2>9, <2>10 DEF Aligned
  <2>12. Min(t) >= HeaderSize /\ Max(t) < TotalSize(Conf(p))
    BY <2>2, <2>3, <2>7, <2>8
  <2>13. Backed(p)
    BY <2>1, <2>2, <2>3 DEF Backed
  <2> QED
    BY <2>11, <2>12, <2>13
<1> QED
  BY <1>1, TypeInit, TypeNext, GeometryInit, GeometryNext, PTL DEF Spec



-----------------------------------------------------------------------------
(***************************************************************************)
(* Slots and who owns them, when init runs alone and before the first      *)
(* append, and recover without writers.                                    *)
(***************************************************************************)

\* Before the first claim nobody has a slot, nor takes one back.
LEMMA NothingYet ==
    ASSUME TypeInv, appends = 0
    PROVE  /\ acked = {} /\ hdr.reserve_tail = 0 /\ Undoing = {}
           /\ \A q \in Procs : ~ Holding(q)
<1>1. \A q \in Procs : ProcOK(q)
  BY DEF TypeInv
<1>2. \A q \in Procs : ~ Holding(q) /\ ~ At(q, "undo")
  BY <1>1 DEF ProcOK
<1>3. acked = {}
  BY DEF TypeInv
<1> QED
  BY <1>2, <1>3 DEF TypeInv, Undoing

\* How many failed appends are not undone yet, before and after a step of p.
LEMMA UndoingMoves ==
    ASSUME NEW p \in Procs, OnlyMoves(p), NEW m, m = Cardinality(Undoing), NEW n, n = Cardinality(Undoing')
    PROVE  /\ m \in Nat /\ n \in Nat /\ n <= Cardinality(Procs)
           /\ Undoing = {} => m = 0
           /\ At(p, "undo")' /\ ~ At(p, "undo") => n = m + 1
           /\ ~ At(p, "undo")' /\ At(p, "undo") => n = m - 1
           /\ ~ At(p, "undo")' /\ ~ At(p, "undo") => Undoing' = Undoing
<1> HIDE Sizes, ConfigAssumption, PoolBoundAssumption
<1>1. IsFiniteSet(Procs) /\ Undoing \subseteq Procs /\ Undoing' \subseteq Procs
  BY CounterAssumption DEF Undoing
<1>2. IsFiniteSet(Undoing) /\ IsFiniteSet(Undoing')
  BY <1>1, FS_Subset
<1>3. m \in Nat /\ n \in Nat /\ n <= Cardinality(Procs)
  BY <1>1, <1>2, FS_Subset, FS_CardinalityType
<1>4. \A q \in Procs \ {p} : q \in Undoing' <=> q \in Undoing
  BY DEF Undoing, OnlyMoves, At
<1>5. (p \in Undoing' <=> At(p, "undo")') /\ (p \in Undoing <=> At(p, "undo"))
  BY DEF Undoing, At
<1>6. CASE At(p, "undo")' /\ ~ At(p, "undo")
  <2>1. Undoing' = Undoing \cup {p} /\ p \notin Undoing
    BY <1>1, <1>4, <1>5, <1>6
  <2>2. Cardinality(Undoing \cup {p}) = Cardinality(Undoing) + 1
    BY <1>2, <2>1, FS_AddElement
  <2>3. n = m + 1
    BY <2>1, <2>2
  <2> QED
    BY <1>3, <1>6, <2>3, FS_EmptySet
<1>7. CASE ~ At(p, "undo")' /\ At(p, "undo")
  <2>1. Undoing' = Undoing \ {p} /\ p \in Undoing
    BY <1>1, <1>4, <1>5, <1>7
  <2> QED
    BY <1>2, <1>3, <1>7, <2>1, FS_RemoveElement
<1>8. ~ At(p, "undo")' /\ ~ At(p, "undo") => Undoing' = Undoing
  BY <1>1, <1>4, <1>5
<1>9. Undoing = {} => m = 0
  BY FS_EmptySet
<1> QED
  BY <1>3, <1>6, <1>7, <1>8, <1>9

\* reserve_tail stays, and nobody starts to undo.
LEMMA OvershootKept ==
    ASSUME TypeInv, OwnerInv, NEW p \in Procs, OnlyMoves(p), opened \subseteq opened',
           hdr'.reserve_tail = hdr.reserve_tail, proc'[p].pc # "undo",
           crashes' \in Nat, crashes <= crashes', At(p, "undo") => crashes' = crashes + 1
    PROVE  OvershootBounded'
<1> SUFFICES ASSUME NEW g \in Loadable, opened' = {Geometry(g)}
             PROVE  /\ Undoing' # {} => g.capacity + Cardinality(Undoing') <= hdr'.reserve_tail
                    /\ hdr'.reserve_tail <= g.capacity + Cardinality(Undoing') + crashes'
  BY DEF OvershootBounded
<1>1. PICK m, n : m = Cardinality(Undoing) /\ n = Cardinality(Undoing')
  OBVIOUS
<1>2. /\ m \in Nat /\ n \in Nat /\ (Undoing = {} => m = 0)
      /\ ~ At(p, "undo")' /\ At(p, "undo") => n = m - 1
      /\ ~ At(p, "undo")' /\ ~ At(p, "undo") => Undoing' = Undoing
  BY <1>1, UndoingMoves
<1>3. ~ At(p, "undo")' /\ g.capacity \in Nat /\ hdr.reserve_tail \in Nat /\ crashes \in Nat
  BY LoadableUsable DEF At, Usable, TypeInv, HeaderFields
<1>4. CASE opened = {Geometry(g)}
  <2>1. /\ Undoing # {} => g.capacity + m <= hdr.reserve_tail
        /\ hdr.reserve_tail <= g.capacity + m + crashes
    BY <1>1, <1>4 DEF OwnerInv, OvershootBounded
  <2>2. CASE At(p, "undo")
    <3>1. Undoing # {}
      BY <2>2 DEF Undoing
    <3>2. n = m - 1 /\ crashes' = crashes + 1
      BY <1>2, <1>3, <2>2
    <3> QED
      BY <1>1, <1>2, <1>3, <2>1, <3>1, <3>2
  <2>3. CASE ~ At(p, "undo")
    <3>1. Undoing' = Undoing /\ n = m
      BY <1>1, <1>2, <1>3, <2>3
    <3> QED
      BY <1>1, <1>2, <1>3, <2>1, <3>1
  <2> QED
    BY <2>2, <2>3
<1>5. CASE opened = {}
  <2>1. appends = 0
    BY <1>5 DEF OwnerInv
  <2>2. Undoing = {} /\ hdr.reserve_tail = 0
    BY <2>1, NothingYet
  <2>3. ~ At(p, "undo")
    BY <2>2 DEF Undoing
  <2>4. Undoing' = {}
    BY <1>2, <1>3, <2>2, <2>3
  <2> QED
    BY <1>1, <1>2, <1>3, <2>2, <2>4
<1> QED
  BY <1>4, <1>5

\* A process goes on, keeps its slot or drops it, and claims none.
LEMMA OwnerKept ==
    ASSUME TypeInv, OwnerInv, NEW p \in Procs, ~ At(p, "idle"), OnlyMoves(p),
           UNCHANGED <<appends, acked>>, opened \subseteq opened', hdr'.reserve_tail = hdr.reserve_tail,
           proc'[p].cmd \in {"none", proc[p].cmd},
           Holding(p)' => Holding(p) /\ proc'[p].slot = proc[p].slot,
           proc'[p].pc # "undo", crashes' \in Nat, crashes <= crashes', At(p, "undo") => crashes' = crashes + 1
    PROVE  OwnerInv'
<1>1. \A q \in Procs : Holding(q)' => Holding(q) /\ proc'[q].slot = proc[q].slot
  BY DEF Holding, OnlyMoves
<1>2. \A q \in Procs : proc'[q].cmd = proc[q].cmd \/ proc'[q].cmd = "none"
  BY DEF OnlyMoves
<1>3. ASSUME NEW r \in Procs, proc'[r].cmd = "init"
      PROVE  appends' = 0 /\ \A q \in Procs \ {r} : At(q, "idle")'
  <2>1. proc[r].cmd = "init" /\ appends = 0 /\ \A q \in Procs \ {r} : At(q, "idle")
    BY <1>2, <1>3 DEF OwnerInv
  <2>2. r = p
    BY <2>1
  <2> QED
    BY <2>1, <2>2 DEF OnlyMoves, At
<1>4. \A r, q \in Procs : ~ (proc'[r].cmd = "recover" /\ proc'[q].cmd = "serve")
  BY <1>2 DEF OwnerInv
<1>5. ASSUME NEW g \in Loadable, opened' = {Geometry(g)} PROVE Owned(g)'
  <2>1. CASE opened = {Geometry(g)}
    <3>1. Owned(g)
      BY <2>1 DEF OwnerInv
    <3>2. \A r \in Procs : \A q \in Procs \ {r} : Holding(r)' /\ Holding(q)' => proc'[r].slot # proc'[q].slot
      BY <1>1, <3>1 DEF Owned
    <3> QED
      BY <1>1, <3>1, <3>2 DEF Owned
  <2>2. CASE opened = {}
    <3>1. acked = {} /\ \A q \in Procs : ~ Holding(q)
      BY <2>2, NothingYet DEF OwnerInv
    <3> QED
      BY <1>1, <3>1 DEF Owned
  <2> QED
    BY <1>5, <2>1, <2>2
<1>6. opened' = {} => appends' = 0
  BY DEF OwnerInv
<1>7. OvershootBounded'
  BY OvershootKept
<1> QED
  BY <1>3, <1>4, <1>5, <1>6, <1>7 DEF OwnerInv

\* A process is started as the operators promise.
LEMMA OwnerExec ==
    ASSUME Quiesced, InitOnce, TypeInv, OwnerInv, NEW p \in Procs, At(p, "idle"),
           NEW cmd \in Commands, NEW path, Exec(p, cmd, path)
    PROVE  OwnerInv'
<1>1. /\ OnlyMoves(p) /\ proc'[p].pc = "map" /\ proc'[p].cmd = IF cmd = "none" THEN "status" ELSE cmd
      /\ UNCHANGED <<hdr, appends, crashes, opened, acked>>
      /\ \A q \in Procs : proc[q].cmd # "init"
      /\ cmd = "init" => appends = 0 /\ \A q \in Procs : At(q, "idle")
      /\ cmd = "recover" => \A q \in Procs : proc[q].cmd # "serve"
      /\ cmd = "serve" => \A q \in Procs : proc[q].cmd # "recover"
  BY ExecFacts DEF Careful
<1>2. \A q \in Procs : Holding(q)' => Holding(q) /\ proc'[q].slot = proc[q].slot
  BY <1>1 DEF Holding, OnlyMoves
<1>3. ASSUME NEW r \in Procs, proc'[r].cmd = "init"
      PROVE  appends' = 0 /\ \A q \in Procs \ {r} : At(q, "idle")'
  <2>1. r = p /\ cmd = "init"
    BY <1>1, <1>3 DEF OnlyMoves
  <2> QED
    BY <1>1, <2>1 DEF OnlyMoves, At
<1>4. ASSUME NEW r \in Procs, NEW q \in Procs, proc'[r].cmd = "recover", proc'[q].cmd = "serve" PROVE FALSE
  <2>1. CASE r = p
    BY <1>1, <1>4, <2>1 DEF OnlyMoves
  <2>2. CASE r # p /\ q = p
    BY <1>1, <1>4, <2>2 DEF OnlyMoves
  <2>3. CASE r # p /\ q # p
    BY <1>1, <1>4, <2>3 DEF OnlyMoves, OwnerInv
  <2> QED
    BY <2>1, <2>2, <2>3
<1>5. ASSUME NEW g \in Loadable, opened' = {Geometry(g)} PROVE Owned(g)'
  <2>1. Owned(g)
    BY <1>1, <1>5 DEF OwnerInv
  <2>2. \A r \in Procs : \A q \in Procs \ {r} : Holding(r)' /\ Holding(q)' => proc'[r].slot # proc'[q].slot
    BY <1>2, <2>1 DEF Owned
  <2> QED
    BY <1>1, <1>2, <2>1, <2>2 DEF Owned
<1>6. opened' = {} => appends' = 0
  BY <1>1 DEF OwnerInv
<1>7. OvershootBounded'
  <2>1. crashes' \in Nat /\ crashes <= crashes' /\ ~ At(p, "undo") /\ proc'[p].pc # "undo"
    BY <1>1 DEF TypeInv, At
  <2> QED
    BY <1>1, <2>1, OvershootKept
<1> QED
  BY <1>3, <1>4, <1>5, <1>6, <1>7 DEF OwnerInv

\* A slot is claimed: nobody had it, and nobody is between the two fetch_adds of a failed append.
LEMMA OwnerClaim ==
    ASSUME TypeInv, GeometryInv, OwnerInv, NEW p \in Procs, Claim(p)
    PROVE  OwnerInv'
<1>0. /\ OnlyMoves(p) /\ At(p, "serve") /\ proc'[p].slot = hdr.reserve_tail /\ proc'[p].cmd = proc[p].cmd
      /\ hdr.reserve_tail \in Nat /\ hdr'.reserve_tail = hdr.reserve_tail + 1
      /\ hdr.reserve_tail < Conf(p).capacity
      /\ UNCHANGED <<opened, acked, crashes>> /\ proc'[p].pc = "write"
  BY ClaimFacts DEF ProcFields
<1>1. proc[p].cmd = "serve" /\ opened # {} /\ IsMapped(p)
  BY <1>0 DEF TypeInv, ProcOK, Placed, Serving, GeometryInv, IsMapped, At
<1>2. \A q \in Procs \ {p} : proc'[q] = proc[q] /\ (Holding(q)' => Holding(q))
  BY <1>0 DEF OnlyMoves, Holding
<1>3. \A q \in Procs : proc'[q].cmd = proc[q].cmd
  BY <1>0, <1>2
<1>4. \A q \in Procs : proc[q].cmd # "init"
  BY <1>0, <1>1 DEF OwnerInv, At
<1>5. \A r, q \in Procs : ~ (proc'[r].cmd = "recover" /\ proc'[q].cmd = "serve")
  BY <1>3 DEF OwnerInv
<1>6. ASSUME NEW g \in Loadable, opened = {Geometry(g)} PROVE Owned(g)'
  <2>0. Owned(g) /\ g.capacity = Conf(p).capacity /\ g.capacity \in Nat
    BY <1>1, <1>6, MappedSame, LoadableUsable DEF OwnerInv, Usable
  <2>5. \A q \in Procs \ {p} : Holding(q)' => /\ proc'[q].slot < hdr.reserve_tail /\ proc'[q].slot \in Nat
                                              /\ proc'[q].slot < g.capacity
    BY <1>2, <2>0 DEF Owned, TypeInv, ProcOK
  <2>6. \A a \in acked : a.slot < hdr.reserve_tail /\ a.slot \in Nat /\ a.slot < g.capacity
    BY <2>0 DEF Owned, TypeInv
  <2>8. \A q \in Procs : Holding(q)' => proc'[q].slot < hdr'.reserve_tail /\ proc'[q].slot < g.capacity
    BY <1>0, <2>0, <2>5
  <2>9. \A r \in Procs : \A q \in Procs \ {r} : Holding(r)' /\ Holding(q)' => proc'[r].slot # proc'[q].slot
    <3> SUFFICES ASSUME NEW r \in Procs, NEW q \in Procs \ {r}, Holding(r)', Holding(q)',
                        proc'[r].slot = proc'[q].slot
                 PROVE  FALSE
      OBVIOUS
    <3>1. CASE r = p
      BY <1>0, <2>5, <3>1
    <3>2. CASE q = p
      BY <1>0, <2>5, <3>2
    <3>3. CASE r # p /\ q # p
      BY <1>2, <2>0, <3>3 DEF Owned
    <3> QED
      BY <3>1, <3>2, <3>3
  <2>10. \A a \in acked' : a.slot < hdr'.reserve_tail /\ a.slot < g.capacity
    BY <1>0, <2>6
  <2>11. \A a \in acked' : \A q \in Procs : Holding(q)' => proc'[q].slot # a.slot
    <3> SUFFICES ASSUME NEW a \in acked, NEW q \in Procs, Holding(q)', proc'[q].slot = a.slot PROVE FALSE
      BY <1>0
    <3>1. CASE q = p
      BY <1>0, <2>6, <3>1
    <3>2. CASE q # p
      BY <1>2, <2>0, <3>2 DEF Owned
    <3> QED
      BY <3>1, <3>2
  <2> QED
    BY <2>8, <2>9, <2>10, <2>11 DEF Owned
<1>7. OvershootBounded'
  <2> SUFFICES ASSUME NEW g \in Loadable, opened = {Geometry(g)}
               PROVE  /\ Undoing' # {} => g.capacity + Cardinality(Undoing') <= hdr'.reserve_tail
                      /\ hdr'.reserve_tail <= g.capacity + Cardinality(Undoing') + crashes'
    BY <1>0 DEF OvershootBounded
  <2>1. PICK m, n : m = Cardinality(Undoing) /\ n = Cardinality(Undoing')
    OBVIOUS
  <2>2. ~ At(p, "undo") /\ ~ At(p, "undo")'
    BY <1>0 DEF At
  <2>3. m \in Nat /\ n \in Nat /\ Undoing' = Undoing
    BY <1>0, <2>1, <2>2, UndoingMoves
  <2>4. g.capacity = Conf(p).capacity /\ g.capacity \in Nat /\ crashes \in Nat
    BY <1>1, MappedSame, LoadableUsable DEF Usable, TypeInv
  <2>5. Undoing # {} => g.capacity + m <= hdr.reserve_tail
    BY <2>1 DEF OwnerInv, OvershootBounded
  <2>6. Undoing' = {}
    BY <1>0, <2>3, <2>4, <2>5
  <2> QED
    BY <1>0, <2>1, <2>3, <2>4, <2>6
<1> QED
  BY <1>0, <1>1, <1>3, <1>4, <1>5, <1>6, <1>7 DEF OwnerInv

\* What a failed append does to reserve_tail, under one geometry: up, and down again, and never
\* below the capacity.
LEMMA FailBeyond ==
    ASSUME TypeInv, GeometryInv, OwnerInv, NEW p \in Procs, ClaimFull(p) \/ Undo(p),
           NEW g \in Loadable, opened = {Geometry(g)}
    PROVE  /\ g.capacity \in Nat /\ hdr.reserve_tail \in Nat /\ hdr'.reserve_tail \in Nat
           /\ g.capacity <= hdr.reserve_tail /\ g.capacity <= hdr'.reserve_tail
           /\ Undoing' # {} => g.capacity + Cardinality(Undoing') <= hdr'.reserve_tail
           /\ hdr'.reserve_tail <= g.capacity + Cardinality(Undoing') + crashes
<1>1. PICK m, n, k : m = Cardinality(Undoing) /\ n = Cardinality(Undoing') /\ k = Cardinality(Procs)
  OBVIOUS
<1>2. OnlyMoves(p) /\ IsMapped(p)
  BY FailFacts DEF IsMapped, At
<1>3. /\ m \in Nat /\ n \in Nat /\ n <= k /\ (Undoing = {} => m = 0)
      /\ At(p, "undo")' /\ ~ At(p, "undo") => n = m + 1
      /\ ~ At(p, "undo")' /\ At(p, "undo") => n = m - 1
  BY <1>1, <1>2, UndoingMoves
<1>4. /\ g.capacity \in Nat /\ g.capacity = Conf(p).capacity /\ k \in Nat /\ g.capacity + k + MaxCrashes < U64
      /\ crashes \in 0 .. MaxCrashes
  BY <1>1, <1>2, MappedSame, LoadableUsable, Roomy DEF Usable, TypeInv
<1>5. /\ Undoing # {} => g.capacity + m <= hdr.reserve_tail
      /\ hdr.reserve_tail <= g.capacity + m + crashes
  BY <1>1 DEF OwnerInv, OvershootBounded
<1>6. hdr.reserve_tail \in Nat /\ hdr'.reserve_tail \in Nat
  BY FailFacts
<1>7. CASE At(p, "serve") /\ proc'[p].pc = "undo" /\ Conf(p).capacity <= hdr.reserve_tail
           /\ (hdr.reserve_tail + 1 < U64 => hdr'.reserve_tail = hdr.reserve_tail + 1)
  <2>1. n = m + 1
    BY <1>3, <1>7 DEF At
  <2>2. g.capacity + m <= hdr.reserve_tail
    BY <1>3, <1>4, <1>5, <1>6, <1>7
  <2>3. hdr.reserve_tail + 1 < U64
    BY <1>3, <1>4, <1>5, <1>6, <2>1
  <2> QED
    BY <1>1, <1>3, <1>4, <1>5, <1>6, <1>7, <2>1, <2>2, <2>3
<1>8. CASE At(p, "undo") /\ proc'[p].pc = "full"
           /\ (hdr.reserve_tail > 0 => hdr'.reserve_tail = hdr.reserve_tail - 1)
  <2>1. n = m - 1 /\ Undoing # {}
    BY <1>3, <1>8 DEF At, Undoing
  <2>2. g.capacity + m <= hdr.reserve_tail
    BY <1>5, <2>1
  <2>3. hdr.reserve_tail > 0
    BY <1>3, <1>4, <1>6, <2>1, <2>2
  <2> QED
    BY <1>1, <1>3, <1>4, <1>5, <1>6, <1>8, <2>1, <2>2, <2>3
<1> QED
  BY <1>7, <1>8, FailFacts

\* A failed append takes no slot from anybody.
LEMMA OwnerFail ==
    ASSUME TypeInv, GeometryInv, OwnerInv, NEW p \in Procs, ClaimFull(p) \/ Undo(p)
    PROVE  OwnerInv'
<1>0. /\ OnlyMoves(p) /\ proc[p].pc \in {"serve", "undo"} /\ proc'[p].pc \in {"undo", "full"}
      /\ proc'[p].cmd = proc[p].cmd /\ UNCHANGED <<appends, crashes, opened, acked>>
  BY FailFacts DEF At, ProcFields
<1>1. \A q \in Procs : Holding(q)' => Holding(q) /\ proc'[q].slot = proc[q].slot
  BY <1>0 DEF Holding, OnlyMoves
<1>2. \A q \in Procs : proc'[q].cmd = proc[q].cmd
  BY <1>0 DEF OnlyMoves
<1>3. \A q \in Procs : proc[q].cmd # "init"
  <2>1. proc[p].cmd = "serve"
    BY <1>0 DEF TypeInv, ProcOK, Placed, Serving
  <2> QED
    BY <1>0, <2>1 DEF OwnerInv, At
<1>4. \A r, q \in Procs : ~ (proc'[r].cmd = "recover" /\ proc'[q].cmd = "serve")
  BY <1>2 DEF OwnerInv
<1>5. ASSUME NEW g \in Loadable, opened = {Geometry(g)} PROVE Owned(g)'
  <2>1. Owned(g) /\ g.capacity \in Nat /\ hdr'.reserve_tail \in Nat /\ g.capacity <= hdr'.reserve_tail
    BY <1>5, FailBeyond DEF OwnerInv
  <2>2. \A q \in Procs : Holding(q)' => proc'[q].slot < hdr'.reserve_tail /\ proc'[q].slot < g.capacity
    BY <1>1, <2>1 DEF Owned, TypeInv, ProcOK
  <2>3. \A a \in acked' : a.slot < hdr'.reserve_tail /\ a.slot < g.capacity
    BY <1>0, <2>1 DEF Owned, TypeInv
  <2>4. \A r \in Procs : \A q \in Procs \ {r} : Holding(r)' /\ Holding(q)' => proc'[r].slot # proc'[q].slot
    BY <1>1, <2>1 DEF Owned
  <2>5. \A a \in acked' : \A q \in Procs : Holding(q)' => proc'[q].slot # a.slot
    BY <1>0, <1>1, <2>1 DEF Owned
  <2> QED
    BY <2>2, <2>3, <2>4, <2>5 DEF Owned
<1>6. OvershootBounded'
  BY <1>0, FailBeyond DEF OvershootBounded
<1> QED
  BY <1>0, <1>2, <1>3, <1>4, <1>5, <1>6 DEF OwnerInv

\* A slot passes from its writer to what append has acknowledged.
LEMMA OwnerCount ==
    ASSUME TypeInv, OwnerInv, NEW p \in Procs, Count(p)
    PROVE  OwnerInv'
<1>0. /\ At(p, "count") /\ OnlyMoves(p) /\ proc'[p].pc = "serve" /\ proc'[p].cmd = proc[p].cmd
      /\ acked' = acked \cup {[slot |-> proc[p].slot, id |-> proc[p].id]}
      /\ UNCHANGED <<hdr, appends, crashes, opened>>
  BY CountFacts DEF ProcFields
<1>1. Holding(p) /\ ~ Holding(p)' /\ \A q \in Procs \ {p} : proc'[q] = proc[q] /\ Holding(q)' = Holding(q)
  BY <1>0 DEF Holding, At, OnlyMoves
<1>2. \A q \in Procs : proc'[q].cmd = proc[q].cmd
  BY <1>0, <1>1
<1>3. \A q \in Procs : Holding(q)' => q # p /\ Holding(q) /\ proc'[q].slot = proc[q].slot
  BY <1>1
<1>4. ASSUME NEW r \in Procs, proc'[r].cmd = "init"
      PROVE  appends' = 0 /\ \A q \in Procs \ {r} : At(q, "idle")'
  <2>1. proc[r].cmd = "init" /\ appends = 0 /\ \A q \in Procs \ {r} : At(q, "idle")
    BY <1>2, <1>4 DEF OwnerInv
  <2>2. r = p
    BY <1>0, <2>1 DEF At
  <2> QED
    BY <1>0, <2>1, <2>2 DEF OnlyMoves, At
<1>5. \A r, q \in Procs : ~ (proc'[r].cmd = "recover" /\ proc'[q].cmd = "serve")
  BY <1>2 DEF OwnerInv
<1>6. ASSUME NEW g \in Loadable, opened = {Geometry(g)} PROVE Owned(g)'
  <2>0. Owned(g)
    BY <1>6 DEF OwnerInv
  <2>6. \A r \in Procs : \A q \in Procs \ {r} : Holding(r)' /\ Holding(q)' => proc'[r].slot # proc'[q].slot
    BY <1>3, <2>0 DEF Owned
  <2>7. \A a \in acked' : a \in acked \/ a.slot = proc[p].slot
    BY <1>0
  <2>8. \A a \in acked' : a.slot < hdr'.reserve_tail /\ a.slot < g.capacity
    BY <1>0, <1>1, <2>0, <2>7 DEF Owned
  <2>9. \A a \in acked' : \A q \in Procs : Holding(q)' => proc'[q].slot # a.slot
    BY <1>1, <1>3, <2>0, <2>7 DEF Owned
  <2>10. \A q \in Procs : Holding(q)' => proc'[q].slot < hdr'.reserve_tail /\ proc'[q].slot < g.capacity
    BY <1>0, <1>3, <2>0 DEF Owned
  <2> QED
    BY <2>6, <2>8, <2>9, <2>10 DEF Owned
<1>7. OvershootBounded'
  <2>1. crashes' \in Nat /\ crashes <= crashes' /\ ~ At(p, "undo") /\ proc'[p].pc # "undo"
    BY <1>0 DEF TypeInv, At
  <2> QED
    BY <1>0, <2>1, OvershootKept
<1>8. opened' = {} => appends' = 0
  BY <1>0 DEF OwnerInv
<1> QED
  BY <1>0, <1>4, <1>5, <1>6, <1>7, <1>8 DEF OwnerInv


\* OwnerInv is inductive, where the operators keep their promises.
LEMMA OwnerNext ==
    ASSUME Quiesced, InitOnce
    PROVE  TypeInv /\ GeometryInv /\ OwnerInv /\ [Next]_vars => OwnerInv'
<1> SUFFICES ASSUME TypeInv, GeometryInv, OwnerInv, [Next]_vars PROVE OwnerInv'
  OBVIOUS
<1>1. CASE UNCHANGED vars
  <2>1. UNCHANGED <<hdr, proc, appends, crashes, opened, acked>>
    BY <1>1 DEF vars
  <2>2. \A p \in Procs : Holding(p)' = Holding(p) /\ At(p, "idle")' = At(p, "idle")
    BY <2>1 DEF Holding, At
  <2>3. Undoing' = Undoing
    BY <2>1 DEF Undoing, At
  <2>4. OvershootBounded'
    BY <2>1, <2>3 DEF OwnerInv, OvershootBounded
  <2>5. \A g \in Loadable : opened' = {Geometry(g)} => Owned(g)'
    BY <2>1, <2>2 DEF OwnerInv, Owned
  <2> QED
    BY <2>1, <2>2, <2>4, <2>5 DEF OwnerInv
<1>0. crashes \in Nat /\ (UNCHANGED crashes => crashes' \in Nat /\ crashes <= crashes')
  BY DEF TypeInv
<1>2. ASSUME NEW p \in Procs, MapFile(p) \/ (MapFails(p) /\ ~ UNCHANGED <<file, opened>>) PROVE OwnerInv'
  <2>1. ~ Holding(p)' /\ proc'[p].cmd \in {"none", proc[p].cmd} /\ proc'[p].pc # "undo"
    BY <1>2, MapFacts, ExitedFacts DEF Holding
  <2>2. ~ At(p, "undo") /\ ~ At(p, "idle")
    BY <1>2, MapFacts DEF At
  <2> QED
    BY <1>0, <1>2, <2>1, <2>2, MapFacts, OwnerKept
<1>3. ASSUME NEW p \in Procs, Quiet(p), ~ At(p, "idle") PROVE OwnerInv'
  <2>1. ~ Holding(p)' /\ proc'[p].cmd \in {"none", proc[p].cmd}
    BY <1>3, ExitedFacts DEF Quiet, Holding
  <2> QED
    BY <1>3, <2>1, OwnerKept DEF Quiet
<1>4. ASSUME NEW p \in Procs, NEW f \in HeaderFields, StoreHeader(p, f) PROVE OwnerInv'
  <2>1. At(p, "header") /\ proc[p].cmd = "init"
    BY <1>4, StoreHeaderFacts DEF TypeInv, ProcOK, Placed
  <2>2. appends = 0
    BY <2>1 DEF OwnerInv
  <2>3. hdr'.reserve_tail = hdr.reserve_tail
    BY <1>4, <2>2, StoreHeaderFacts DEF TypeInv, HeaderFields
  <2>4. ~ Holding(p)' /\ ~ At(p, "idle") /\ ~ At(p, "undo") /\ proc'[p].pc # "undo"
    BY <1>4, <2>1, StoreHeaderFacts DEF Holding, At
  <2> QED
    BY <1>0, <1>4, <2>3, <2>4, StoreHeaderFacts, OwnerKept
<1>5. ASSUME NEW p \in Procs, NEW f \in Fields, Store(p, f) PROVE OwnerInv'
  <2>1. proc'[p].cmd = proc[p].cmd /\ proc'[p].slot = proc[p].slot
    BY <1>5, StoreFacts DEF ProcFields
  <2>2. Holding(p) /\ ~ At(p, "idle") /\ ~ At(p, "undo") /\ proc'[p].pc # "undo"
    BY <1>5, StoreFacts DEF Holding, At, ProcFields
  <2> QED
    BY <1>0, <1>5, <2>1, <2>2, StoreFacts, OwnerKept
<1>6. ASSUME NEW p \in Procs, Commit(p) PROVE OwnerInv'
  <2>1. proc'[p].cmd = proc[p].cmd /\ proc'[p].slot = proc[p].slot
    BY <1>6, CommitFacts DEF ProcFields
  <2>2. Holding(p) /\ ~ At(p, "idle") /\ ~ At(p, "undo") /\ proc'[p].pc # "undo"
    BY <1>6, CommitFacts DEF Holding, At, ProcFields
  <2> QED
    BY <1>0, <1>6, <2>1, <2>2, CommitFacts, OwnerKept
<1>7. ASSUME NEW p \in Procs, AdvanceTail(p) PROVE OwnerInv'
  <2>1. proc'[p].cmd = proc[p].cmd /\ proc'[p].slot = proc[p].slot
    BY <1>7, AdvanceFacts DEF ProcFields
  <2>2. Holding(p) /\ ~ At(p, "idle") /\ ~ At(p, "undo") /\ proc'[p].pc # "undo"
    BY <1>7, AdvanceFacts DEF Holding, At, ProcFields
  <2> QED
    BY <1>0, <1>7, <2>1, <2>2, AdvanceFacts, OwnerKept
<1>8. ASSUME NEW p \in Procs, Recover(p) PROVE OwnerInv'
  <2>1. At(p, "recover") /\ OnlyMoves(p) /\ proc'[p] = Exited /\ UNCHANGED <<appends, crashes, opened, acked>>
    BY <1>8, RecoverFacts, ExitFacts DEF TypeInv
  <2>2. PICK n : n = TailStop(file', Conf(p)) /\ hdr' = [hdr EXCEPT !.committed_tail = n]
    BY <1>8, RecoverFacts
  <2>3. hdr'.reserve_tail = hdr.reserve_tail
    BY <2>2 DEF TypeInv, HeaderFields
  <2>4. /\ ~ Holding(p)' /\ proc'[p].cmd = "none" /\ proc'[p].pc # "undo"
        /\ ~ At(p, "idle") /\ ~ At(p, "undo")
    BY <2>1, ExitedFacts DEF Holding, At
  <2> QED
    BY <1>0, <2>1, <2>3, <2>4, OwnerKept
<1>9. ASSUME NEW p \in Procs, ReadStats(p) \/ Fault(p) PROVE ~ At(p, "idle")
  <2>1. At(p, "idle") => proc[p].pc = "idle" /\ proc[p].todo = {}
    BY ExitedFacts DEF TypeInv, ProcOK, Placed
  <2> QED
    BY <1>9, <2>1 DEF ReadStats, Fault, Touched, At
<1>10. ASSUME NEW p \in Procs,
              \/ (MapFails(p) /\ UNCHANGED <<file, opened>>) \/ Created(p) \/ CheckMagic(p)
              \/ CountFull(p)
              \/ (\E i \in 1 .. MaxAppends : ReadCall(p, i)) \/ ReadDone(p) \/ Close(p)
              \/ ReadStats(p) \/ LoadTail(p) \/ EndStatus(p) \/ Fault(p) \/ Crash(p)
       PROVE  OwnerInv'
  <2>1. Quiet(p)
    BY <1>10, QuietSteps
  <2>2. ~ At(p, "idle")
    BY <1>9, <1>10
    DEF MapFails, Created, CheckMagic, CountFull, ReadCall, ReadDone, Close, LoadTail, EndStatus,
        Crash, At, StatusPrinted
  <2> QED
    BY <1>3, <2>1, <2>2
<1> QED
  BY <1>1, <1>2, <1>4, <1>5, <1>6, <1>7, <1>8, <1>10, OwnerExec, OwnerClaim, OwnerFail, OwnerCount
  DEF Next, Rest, main, LoadFails, CmdValidate

\* Nobody owns anything at first.
LEMMA OwnerInit == Init => OwnerInv
<1> SUFFICES ASSUME Init PROVE OwnerInv
  OBVIOUS
<1>1. \A p \in Procs : proc[p].pc = "idle" /\ proc[p].cmd = "none"
  BY ExitedFacts DEF Init
<1> QED
  BY <1>1 DEF Init, OwnerInv, OvershootBounded, Holding, At

\* Where init is run alone and before the first append, and recover without writers: however the
\* two fetch_adds of failed appends fall among those of other appends, and whoever is killed between
\* them, reserve_tail does not come back below the capacity while one is pending, so no slot is
\* handed out again, and it does not run away by more than the processes and kills account for.
THEOREM FailedAppendsBalance ==
    ASSUME Quiesced, InitOnce
    PROVE  Spec => []OvershootBounded
<1>1. OwnerInv => OvershootBounded
  BY DEF OwnerInv
<1>2. Init => TypeInv /\ GeometryInv /\ OwnerInv
  BY TypeInit, GeometryInit, OwnerInit
<1>3. TypeInv /\ GeometryInv /\ OwnerInv /\ [Next]_vars => (TypeInv /\ GeometryInv /\ OwnerInv)'
  BY TypeNext, GeometryNext, OwnerNext
<1> QED
  BY <1>1, <1>2, <1>3, PTL DEF Spec



-----------------------------------------------------------------------------
(***************************************************************************)
(* The records.                                                            *)
(***************************************************************************)

\* The cells of a record are in the file.
LEMMA RecordCells ==
    ASSUME TypeInv, GeometryInv, NEW g \in Loadable, opened = {Geometry(g)}, NEW s \in 0 .. g.capacity - 1
    PROVE  /\ Usable(g) /\ s \in Nat /\ s < g.capacity
           /\ RecordOffset(g, s) \in DOMAIN file /\ PayloadOffset(g, s) \in DOMAIN file
           /\ file[RecordOffset(g, s)] \in Cell /\ file[PayloadOffset(g, s)] \in Cell
<1>1. Usable(g) /\ DOMAIN file = HeaderSize .. TotalSize(g) - 1
  BY LoadableUsable DEF GeometryInv
<1>2. s \in Nat /\ s < g.capacity
  BY <1>1 DEF Usable
<1>3. RecordOffset(g, s) \in DOMAIN file /\ PayloadOffset(g, s) \in DOMAIN file
  BY <1>1, <1>2, RecordInside, OffsetFacts
<1> QED
  BY <1>1, <1>2, <1>3 DEF TypeInv

\* A slot whose record is not stored to.
LEMMA SlotKept ==
    ASSUME NEW g, NEW s \in Nat, SlotInv(g, s), hdr.reserve_tail \in Nat, hdr'.reserve_tail \in Nat,
           hdr.reserve_tail <= hdr'.reserve_tail \/ s < hdr'.reserve_tail,
           file'[RecordOffset(g, s)] = file[RecordOffset(g, s)],
           file'[PayloadOffset(g, s)] = file[PayloadOffset(g, s)],
           \A q \in Procs : Holding(q)' /\ proc'[q].slot = s =>
              proc'[q] = proc[q] \/ (proc'[q].pc # "write" /\ Whole(g, s, proc'[q].id)),
           \A a \in acked' : a.slot = s => a \in acked \/ Whole(g, s, a.id)
    PROVE  SlotInv(g, s)'
<1>1. State(file, g, s)' = State(file, g, s) /\ Verifies(g, s)' = Verifies(g, s)
  BY DEF State, Verifies
<1>2. \A id : Whole(g, s, id) => Whole(g, s, id)'
  BY <1>1 DEF Whole
<1>3. hdr'.reserve_tail <= s => State(file, g, s)' = FREE
  BY <1>1 DEF SlotInv
<1>4. State(file, g, s)' = COMMITTED => Verifies(g, s)'
  BY <1>1 DEF SlotInv
<1>5. ASSUME NEW a \in acked', a.slot = s PROVE Whole(g, s, a.id)'
  BY <1>2, <1>5 DEF SlotInv
<1>6. ASSUME NEW q \in Procs, Holding(q)', proc'[q].slot = s
      PROVE  IF proc'[q].pc = "write" THEN Written(g, q)' ELSE Whole(g, s, proc[q].id)'
  <2>1. CASE proc'[q] = proc[q]
    <3>1. Holding(q) /\ proc[q].slot = s
      BY <1>6, <2>1 DEF Holding
    <3>2. IF proc[q].pc = "write" THEN Written(g, q) ELSE Whole(g, s, proc[q].id)
      BY <3>1 DEF SlotInv, At
    <3>3. CASE proc[q].pc = "write"
      BY <1>1, <1>6, <2>1, <3>1, <3>2, <3>3 DEF Written, State
    <3>4. CASE proc[q].pc # "write"
      BY <1>1, <2>1, <3>2, <3>4 DEF Whole
    <3> QED
      BY <3>3, <3>4
  <2>2. CASE proc'[q].pc # "write" /\ Whole(g, s, proc'[q].id)
    BY <1>1, <2>2 DEF Whole
  <2> QED
    BY <1>6, <2>1, <2>2
<1> QED
  BY <1>3, <1>4, <1>5, <1>6 DEF SlotInv, At

\* The steps that store to no record, and claim no slot: reserve_tail stays, or is beyond the capacity.
LEMMA RecordKept ==
    ASSUME TypeInv, NEW g \in Loadable, RecordInv(g), NEW p \in Procs, OnlyMoves(p),
           hdr'.reserve_tail \in Nat, hdr'.committed_tail <= hdr'.reserve_tail,
           hdr'.reserve_tail = hdr.reserve_tail \/ g.capacity <= hdr'.reserve_tail,
           \A s \in 0 .. g.capacity - 1 : /\ file'[RecordOffset(g, s)] = file[RecordOffset(g, s)]
                                          /\ file'[PayloadOffset(g, s)] = file[PayloadOffset(g, s)],
           Holding(p)' => /\ Holding(p) /\ ~ At(p, "write") /\ proc'[p].pc # "write"
                          /\ proc'[p].slot = proc[p].slot /\ proc'[p].id = proc[p].id,
           \A a \in acked' : \/ a \in acked
                             \/ Holding(p) /\ ~ At(p, "write") /\ a.slot = proc[p].slot /\ a.id = proc[p].id
    PROVE  RecordInv(g)'
<1>0. g.capacity \in Nat /\ hdr.reserve_tail \in Nat
  BY LoadableUsable DEF Usable, TypeInv, HeaderFields
<1>1. ASSUME NEW s \in 0 .. g.capacity - 1 PROVE SlotInv(g, s)'
  <2>1. SlotInv(g, s) /\ s \in Nat
    BY <1>0 DEF RecordInv
  <2>2. Holding(p) /\ ~ At(p, "write") /\ proc[p].slot = s => Whole(g, s, proc[p].id)
    BY <2>1 DEF SlotInv
  <2>3. \A q \in Procs : Holding(q)' /\ proc'[q].slot = s =>
          proc'[q] = proc[q] \/ (proc'[q].pc # "write" /\ Whole(g, s, proc'[q].id))
    BY <2>2 DEF OnlyMoves
  <2>4. \A a \in acked' : a.slot = s => a \in acked \/ Whole(g, s, a.id)
    BY <2>2
  <2>5. hdr.reserve_tail <= hdr'.reserve_tail \/ s < hdr'.reserve_tail
    BY <1>0
  <2> QED
    BY <1>0, <2>1, <2>3, <2>4, <2>5, SlotKept
<1>2. \A a \in acked' : a.slot < g.capacity
  BY DEF RecordInv
<1>3. \A q \in Procs : Holding(q)' => proc'[q].slot < g.capacity
  BY DEF RecordInv, OnlyMoves, Holding
<1> QED
  BY <1>1, <1>2, <1>3 DEF RecordInv


\* The walk does not pass the slots that are claimed.
LEMMA TailBelow ==
    ASSUME NEW f, NEW g, hdr.committed_tail \in Nat, hdr.reserve_tail \in Nat, g.capacity \in Nat,
           hdr.committed_tail <= hdr.reserve_tail,
           \A s \in 0 .. g.capacity - 1 : hdr.reserve_tail <= s => State(f, g, s) # COMMITTED
    PROVE  TailStop(f, g) <= hdr.reserve_tail
<1>1. PICK n \in Nat : n = TailStop(f, g)
  BY TailStopFacts
<1>2. /\ hdr.committed_tail <= n
      /\ \A t \in hdr.committed_tail .. n - 1 : State(f, g, t) = COMMITTED /\ t < g.capacity
  BY <1>1, TailStopFacts
<1>3. ASSUME n > hdr.reserve_tail PROVE FALSE
  <2>1. n - 1 \in hdr.committed_tail .. n - 1 /\ n - 1 \in Nat
    BY <1>1, <1>3
  <2>2. State(f, g, n - 1) = COMMITTED /\ n - 1 < g.capacity
    BY <1>2, <2>1
  <2>3. n - 1 \in 0 .. g.capacity - 1 /\ hdr.reserve_tail <= n - 1
    BY <1>3, <2>1, <2>2
  <2> QED
    BY <2>2, <2>3
<1> QED
  BY <1>1, <1>3

\* The file is mapped for the first time, or again with the same size.
LEMMA IntactMap ==
    ASSUME TypeInv, GeometryInv, OwnerInv, IntactInv, NEW p \in Procs,
           MapFile(p) \/ (MapFails(p) /\ ~ UNCHANGED <<file, opened>>),
           NEW g \in Loadable, opened' = {Geometry(g)}
    PROVE  RecordInv(g)'
<1>0. /\ At(p, "map") /\ OnlyMoves(p) /\ UNCHANGED <<hdr, appends, acked>>
      /\ file' = Resized(TotalSize(Conf(p))) /\ opened' = opened \cup {Geometry(Conf(p))}
      /\ ~ Holding(p)'
  BY MapFacts, ExitedFacts DEF Holding
<1>1. Geometry(Conf(p)) = Geometry(g) /\ (opened = {} \/ opened = {Geometry(g)})
  BY <1>0
<1>2. PICK n \in Nat : n = TotalSize(g) /\ n > HeaderSize
  BY LoadableUsable, SizeFacts
<1>3. /\ file' = Resized(n) /\ DOMAIN file' = HeaderSize .. n - 1
      /\ \A o \in HeaderSize .. n - 1 : file'[o] = IF o \in DOMAIN file THEN file[o] ELSE Zero
  BY <1>0, <1>1, <1>2, SameGeometry, ResizedFacts
<1>4. g.capacity \in Nat /\ hdr.reserve_tail \in Nat /\ hdr.committed_tail \in Nat
  BY LoadableUsable DEF Usable, TypeInv, HeaderFields
<1>5. CASE opened = {Geometry(g)}
  <2>1. RecordInv(g)
    BY <1>5 DEF IntactInv
  <2>2. \A s \in 0 .. g.capacity - 1 : RecordOffset(g, s) \in DOMAIN file /\ PayloadOffset(g, s) \in DOMAIN file
    BY <1>5, RecordCells
  <2>3. DOMAIN file = HeaderSize .. n - 1
    BY <1>2, <1>5 DEF GeometryInv
  <2>4. \A o \in DOMAIN file : file'[o] = file[o]
    BY <1>3, <2>3
  <2> QED
    BY <1>0, <1>4, <2>1, <2>2, <2>4, RecordKept DEF RecordInv
<1>6. CASE opened = {}
  <2>1. file = NoFile /\ hdr.committed_tail = 0 /\ (\A q \in Procs : ~ IsMapped(q)) /\ appends = 0
    BY <1>6 DEF GeometryInv, OwnerInv
  <2>2. acked' = {}
    BY <1>0, <2>1 DEF TypeInv
  <2>3. \A q \in Procs : ~ Holding(q)'
    BY <1>0, <2>1 DEF OnlyMoves, Holding, IsMapped
  <2>4. ASSUME NEW s \in 0 .. g.capacity - 1 PROVE SlotInv(g, s)'
    <3>1. s \in Nat /\ s < g.capacity
      BY <1>4
    <3>2. RecordOffset(g, s) \in HeaderSize .. n - 1
      BY <1>2, <3>1, LoadableUsable, RecordInside, OffsetFacts
    <3>3. file'[RecordOffset(g, s)] = Zero
      BY <1>3, <2>1, <3>2 DEF NoFile
    <3>4. State(file', g, s) = FREE
      BY <3>3 DEF State, Zero, FREE
    <3> QED
      BY <2>2, <2>3, <3>4 DEF SlotInv, FREE, COMMITTED
  <2> QED
    BY <1>0, <1>4, <2>1, <2>2, <2>3, <2>4 DEF RecordInv
<1> QED
  BY <1>1, <1>5, <1>6

\* A slot is claimed: its record is FREE.
LEMMA IntactClaim ==
    ASSUME TypeInv, GeometryInv, OwnerInv, IntactInv, NEW p \in Procs, Claim(p),
           NEW g \in Loadable, opened = {Geometry(g)}
    PROVE  RecordInv(g)'
<1>0. /\ At(p, "serve") /\ OnlyMoves(p) /\ proc'[p].pc = "write" /\ proc'[p].todo = Fields
      /\ proc'[p].slot = hdr.reserve_tail /\ hdr'.reserve_tail = hdr.reserve_tail + 1
      /\ hdr'.committed_tail = hdr.committed_tail /\ hdr.reserve_tail < Conf(p).capacity
      /\ UNCHANGED <<file, acked>>
  BY ClaimFacts
<1>1. g.capacity \in Nat /\ hdr.reserve_tail \in Nat /\ hdr.committed_tail \in Nat
  BY LoadableUsable DEF Usable, TypeInv, HeaderFields
<1>2. RecordInv(g) /\ Conf(p).capacity = g.capacity
  BY <1>0, MappedSame DEF IntactInv, IsMapped, At
<1>3. \A q \in Procs \ {p} : proc'[q] = proc[q] /\ (Holding(q)' => Holding(q))
  BY <1>0 DEF OnlyMoves, Holding
<1>4. ASSUME NEW s \in 0 .. g.capacity - 1, s # hdr.reserve_tail PROVE SlotInv(g, s)'
  <2>1. SlotInv(g, s) /\ s \in Nat
    BY <1>1, <1>2 DEF RecordInv
  <2>2. \A q \in Procs : Holding(q)' /\ proc'[q].slot = s => proc'[q] = proc[q]
    BY <1>0, <1>3, <1>4
  <2> QED
    BY <1>0, <1>1, <2>1, <2>2, SlotKept
<1>5. ASSUME NEW s \in 0 .. g.capacity - 1, s = hdr.reserve_tail PROVE SlotInv(g, s)'
  <2>1. State(file, g, s) = FREE
    BY <1>1, <1>2, <1>5 DEF RecordInv, SlotInv
  <2>2. State(file, g, s)' # COMMITTED /\ ~ (hdr'.reserve_tail <= s)
    BY <1>0, <1>1, <1>5, <2>1 DEF State, FREE, COMMITTED
  <2>3. \A a \in acked' : a.slot # s
    BY <1>0, <1>1, <1>5 DEF OwnerInv, Owned, TypeInv
  <2>4. ASSUME NEW q \in Procs, Holding(q)', proc'[q].slot = s PROVE q = p
    BY <1>1, <1>3, <1>5, <2>4 DEF OwnerInv, Owned, TypeInv, ProcOK
  <2>5. Written(g, p)'
    BY <1>0, <1>5, <2>2 DEF Written, Fields
  <2> QED
    BY <1>0, <2>2, <2>3, <2>4, <2>5 DEF SlotInv, At
<1>6. \A q \in Procs : Holding(q)' => proc'[q].slot < g.capacity
  BY <1>0, <1>2, <1>3 DEF RecordInv
<1> QED
  BY <1>0, <1>1, <1>2, <1>4, <1>5, <1>6 DEF RecordInv


\* An append fails: the records stay.
LEMMA IntactFail ==
    ASSUME TypeInv, GeometryInv, OwnerInv, IntactInv, NEW p \in Procs, ClaimFull(p) \/ Undo(p),
           NEW g \in Loadable, opened = {Geometry(g)}
    PROVE  RecordInv(g)'
<1>1. /\ OnlyMoves(p) /\ UNCHANGED <<file, acked>> /\ proc'[p].pc \in {"undo", "full"}
      /\ hdr'.committed_tail = hdr.committed_tail
  BY FailFacts
<1>2. g.capacity \in Nat /\ hdr'.reserve_tail \in Nat /\ g.capacity <= hdr'.reserve_tail
  BY FailBeyond
<1>3. hdr'.committed_tail <= hdr'.reserve_tail
  <2>1. hdr.committed_tail \in Nat /\ hdr.committed_tail <= g.capacity
    BY DEF GeometryInv, TypeInv, HeaderFields
  <2> QED
    BY <1>1, <1>2, <2>1
<1>4. ~ Holding(p)' /\ RecordInv(g)
  BY <1>1 DEF Holding, IntactInv
<1> QED
  BY <1>1, <1>2, <1>3, <1>4, RecordKept

\* What a writer stores to its record leaves the other slots alone.
LEMMA OtherSlots ==
    ASSUME TypeInv, GeometryInv, OwnerInv, NEW g \in Loadable, opened = {Geometry(g)}, RecordInv(g),
           NEW p \in Procs, Holding(p), OnlyMoves(p), UNCHANGED <<hdr, acked>>, proc'[p].slot = proc[p].slot,
           NEW i, i = proc[p].slot, NEW o, NEW o2, o = RecordOffset(g, i), o2 = PayloadOffset(g, i),
           \A x \in DOMAIN file \ {o, o2} : file'[x] = file[x]
    PROVE  i \in 0 .. g.capacity - 1 /\ (SlotInv(g, i)' => RecordInv(g)')
<1>1. g.capacity \in Nat /\ hdr.reserve_tail \in Nat /\ i \in Nat /\ Usable(g)
  BY LoadableUsable DEF Usable, TypeInv, HeaderFields, ProcOK
<1>2. i \in 0 .. g.capacity - 1
  BY <1>1 DEF RecordInv
<1>3. ASSUME NEW s \in 0 .. g.capacity - 1, s # i PROVE SlotInv(g, s)'
  <2>1. SlotInv(g, s) /\ s \in Nat
    BY <1>1 DEF RecordInv
  <2>2. RecordOffset(g, s) \in DOMAIN file /\ PayloadOffset(g, s) \in DOMAIN file
    BY RecordCells
  <2>3. RecordOffset(g, s) \notin {o, o2} /\ PayloadOffset(g, s) \notin {o, o2}
    BY <1>1, <1>3, <2>1, SlotsApart
  <2>4. /\ file'[RecordOffset(g, s)] = file[RecordOffset(g, s)]
        /\ file'[PayloadOffset(g, s)] = file[PayloadOffset(g, s)]
    BY <2>2, <2>3
  <2>5. \A q \in Procs : Holding(q)' /\ proc'[q].slot = s => proc'[q] = proc[q]
    BY <1>3 DEF OnlyMoves
  <2> QED
    BY <1>1, <2>1, <2>4, <2>5, SlotKept
<1>4. \A q \in Procs : Holding(q)' => proc'[q].slot < g.capacity
  BY DEF RecordInv, OnlyMoves, Holding
<1> QED
  BY <1>2, <1>3, <1>4 DEF RecordInv


\* A store of a writer, before the commit.
LEMMA IntactStore ==
    ASSUME TypeInv, GeometryInv, OwnerInv, IntactInv, NEW p \in Procs, NEW f \in Fields, Store(p, f),
           NEW g \in Loadable, opened = {Geometry(g)}
    PROVE  RecordInv(g)'
<1>1. PICK i, o, o2 : i = proc[p].slot /\ o = RecordOffset(g, i) /\ o2 = PayloadOffset(g, i)
  OBVIOUS
<1>2. /\ At(p, "write") /\ OnlyMoves(p) /\ proc'[p].todo = proc[p].todo \ {f} /\ UNCHANGED <<hdr, opened, acked>>
      /\ proc'[p].slot = i /\ proc'[p].id = proc[p].id /\ proc'[p].pc = "write"
  BY <1>1, StoreFacts DEF ProcFields, At
<1>3. IsMapped(p) /\ Holding(p) /\ RecordInv(g)
  BY <1>2 DEF IsMapped, Holding, At, IntactInv
<1>4. RecordOffset(Conf(p), i) = o /\ PayloadOffset(Conf(p), i) = o2
  BY <1>1, <1>3, MappedSame
<1>5. /\ \A x \in DOMAIN file \ {o, o2} : file'[x] = file[x]
      /\ f = "state" => file'[o].word = WRITING /\ file'[o].crc = file[o].crc /\ file'[o2] = file[o2]
      /\ f = "payload" => file'[o2].word = proc[p].id /\ file'[o] = file[o]
      /\ f = "crc" => file'[o].crc = proc[p].id /\ file'[o].word = file[o].word /\ file'[o2] = file[o2]
  BY <1>1, <1>4, StoreCells
<1>6. i \in 0 .. g.capacity - 1 /\ (SlotInv(g, i)' => RecordInv(g)')
  BY <1>1, <1>2, <1>3, <1>5, OtherSlots
<1>7. SlotInv(g, i) /\ i \in Nat /\ i < hdr.reserve_tail /\ hdr.reserve_tail \in Nat
  BY <1>1, <1>3, <1>6 DEF RecordInv, OwnerInv, Owned, TypeInv, ProcOK, HeaderFields
<1>8. /\ file[o].word # COMMITTED
      /\ "crc" \notin proc[p].todo => file[o].crc = proc[p].id
      /\ "payload" \notin proc[p].todo => file[o2].word = proc[p].id
  BY <1>1, <1>2, <1>3, <1>7 DEF SlotInv, Written, State
<1>9. /\ file'[o].word # COMMITTED
      /\ "crc" \notin proc'[p].todo => file'[o].crc = proc'[p].id
      /\ "payload" \notin proc'[p].todo => file'[o2].word = proc'[p].id
  BY <1>2, <1>5, <1>8 DEF Fields, WRITING, COMMITTED
<1>10. Written(g, p)' /\ State(file, g, i)' # COMMITTED
  BY <1>1, <1>2, <1>9 DEF Written, State
<1>11. \A q \in Procs : Holding(q)' /\ proc'[q].slot = i => q = p
  BY <1>1, <1>2, <1>3 DEF OwnerInv, Owned, OnlyMoves, Holding
<1>12. \A a \in acked' : a.slot # i
  BY <1>1, <1>2, <1>3 DEF OwnerInv, Owned
<1>13. SlotInv(g, i)'
  BY <1>2, <1>7, <1>10, <1>11, <1>12 DEF SlotInv, At
<1> QED
  BY <1>6, <1>13

\* The commit: everything before it is there.
LEMMA IntactCommit ==
    ASSUME TypeInv, GeometryInv, OwnerInv, IntactInv, NEW p \in Procs, Commit(p),
           NEW g \in Loadable, opened = {Geometry(g)}
    PROVE  RecordInv(g)'
<1>1. PICK i, o, o2 : i = proc[p].slot /\ o = RecordOffset(g, i) /\ o2 = PayloadOffset(g, i)
  OBVIOUS
<1>2. /\ At(p, "write") /\ OnlyMoves(p) /\ proc[p].todo = {} /\ UNCHANGED <<hdr, opened, acked>>
      /\ proc'[p].slot = i /\ proc'[p].id = proc[p].id /\ proc'[p].pc = "advance"
  BY <1>1, CommitFacts DEF ProcFields
<1>3. IsMapped(p) /\ Holding(p) /\ RecordInv(g)
  BY <1>2 DEF IsMapped, Holding, At, IntactInv
<1>4. RecordOffset(Conf(p), i) = o /\ PayloadOffset(Conf(p), i) = o2
  BY <1>1, <1>3, MappedSame
<1>5. /\ file'[o].word = COMMITTED /\ file'[o].crc = file[o].crc
      /\ \A x \in DOMAIN file \ {o} : file'[x] = file[x]
  <2>1. o \in DOMAIN file /\ file' = [file EXCEPT ![o].word = COMMITTED]
    BY <1>1, <1>4, CommitFacts
  <2> QED
    BY <2>1, StoreWord DEF COMMITTED
<1>6. i \in 0 .. g.capacity - 1 /\ (SlotInv(g, i)' => RecordInv(g)')
  BY <1>1, <1>2, <1>3, <1>5, OtherSlots
<1>7. /\ SlotInv(g, i) /\ i \in Nat /\ i < hdr.reserve_tail /\ hdr.reserve_tail \in Nat
      /\ proc[p].id \in Nat /\ proc[p].id > 0
  BY <1>1, <1>3, <1>6 DEF RecordInv, OwnerInv, Owned, TypeInv, ProcOK, HeaderFields
<1>8. file[o].crc = proc[p].id /\ file[o2].word = proc[p].id
  BY <1>1, <1>2, <1>3, <1>7 DEF SlotInv, Written
<1>9. o # o2 /\ o2 \in DOMAIN file
  BY <1>1, <1>6, <1>7, RecordCells, SlotsApart
<1>10. file'[o].word = COMMITTED /\ file'[o].crc = proc[p].id /\ file'[o2].word = proc[p].id
  BY <1>5, <1>8, <1>9
<1>11. /\ Whole(g, i, proc[p].id)' /\ Verifies(g, i)'
  BY <1>1, <1>2, <1>7, <1>10 DEF Whole, Verifies, State
<1>12. \A q \in Procs : Holding(q)' /\ proc'[q].slot = i => q = p
  BY <1>1, <1>2, <1>3 DEF OwnerInv, Owned, OnlyMoves, Holding
<1>13. \A a \in acked' : a.slot # i
  BY <1>1, <1>2, <1>3 DEF OwnerInv, Owned
<1>14. SlotInv(g, i)'
  BY <1>2, <1>7, <1>11, <1>12, <1>13 DEF SlotInv, At
<1> QED
  BY <1>6, <1>14

\* The walk and the count.
LEMMA IntactCount ==
    ASSUME TypeInv, GeometryInv, OwnerInv, IntactInv, NEW p \in Procs, AdvanceTail(p) \/ Count(p),
           NEW g \in Loadable, opened = {Geometry(g)}
    PROVE  RecordInv(g)'
<1>0. /\ g.capacity \in Nat /\ hdr.reserve_tail \in Nat /\ hdr.committed_tail \in Nat /\ Usable(g)
      /\ RecordInv(g)
  BY LoadableUsable DEF Usable, TypeInv, HeaderFields, IntactInv
<1>1. CASE AdvanceTail(p)
  <2>1. /\ At(p, "advance") /\ OnlyMoves(p) /\ proc'[p].pc = "count" /\ UNCHANGED <<file, acked>>
        /\ proc'[p].slot = proc[p].slot /\ proc'[p].id = proc[p].id
        /\ hdr'.committed_tail = TailStop(file, Conf(p)) /\ hdr'.reserve_tail = hdr.reserve_tail
    BY <1>1, AdvanceFacts DEF ProcFields
  <2>2. IsMapped(p) /\ Holding(p) /\ ~ At(p, "write")
    BY <2>1 DEF IsMapped, Holding, At
  <2>3. /\ Conf(p).capacity = g.capacity
        /\ \A s : State(file, Conf(p), s) = State(file, g, s)
    BY <2>2, MappedSame DEF State
  <2>4. \A s \in 0 .. g.capacity - 1 : hdr.reserve_tail <= s => State(file, g, s) # COMMITTED
    BY <1>0 DEF RecordInv, SlotInv, FREE, COMMITTED
  <2>5. TailStop(file, Conf(p)) <= hdr.reserve_tail
    BY <1>0, <2>3, <2>4, TailBelow DEF RecordInv
  <2> QED
    BY <1>0, <2>1, <2>2, <2>5, RecordKept
<1>2. CASE Count(p)
  <2>0. PICK m : m = MetricsOffset(Conf(p), Conf(p).host_id)
    OBVIOUS
  <2>1. /\ At(p, "count") /\ OnlyMoves(p) /\ proc'[p].pc = "serve" /\ UNCHANGED hdr
        /\ m \in DOMAIN file /\ file[m].word \in Nat /\ file' = [file EXCEPT ![m].word = file[m].word + 1]
        /\ acked' = acked \cup {[slot |-> proc[p].slot, id |-> proc[p].id]}
    BY <1>2, <2>0, CountFacts
  <2>2. IsMapped(p) /\ Holding(p) /\ ~ At(p, "write") /\ ~ Holding(p)'
    BY <2>1 DEF IsMapped, Holding, At
  <2>3. PICK h \in Nat : h = Conf(p).host_id
    BY <2>2, MappedFacts DEF Usable
  <2>4. m = MetricsOffset(g, h)
    BY <2>0, <2>2, <2>3, MappedSame
  <2>5. ASSUME NEW s \in 0 .. g.capacity - 1
        PROVE  /\ file'[RecordOffset(g, s)] = file[RecordOffset(g, s)]
               /\ file'[PayloadOffset(g, s)] = file[PayloadOffset(g, s)]
    <3>1. s \in Nat /\ s < g.capacity
      BY <1>0
    <3>2. RecordOffset(g, s) # m /\ PayloadOffset(g, s) # m
      <4>1. RecordOffset(g, s) < m /\ PayloadOffset(g, s) < m
        BY <1>0, <2>4, <3>1, RecordInside
      <4>2. RecordOffset(g, s) \in Nat /\ PayloadOffset(g, s) \in Nat /\ m \in Nat
        BY <1>0, <2>4, <3>1, OffsetFacts
      <4> QED
        BY <4>1, <4>2
    <3> QED
      BY <2>1, <3>2
  <2>6. \A a \in acked' : a \in acked \/ (a.slot = proc[p].slot /\ a.id = proc[p].id)
    BY <2>1
  <2>7. hdr'.committed_tail <= hdr.reserve_tail
    BY <1>0, <2>1 DEF RecordInv
  <2> QED
    BY <1>0, <2>1, <2>2, <2>5, <2>6, <2>7, RecordKept
<1> QED
  BY <1>1, <1>2


\* Recovery abandons nothing that is whole.
LEMMA IntactRecover ==
    ASSUME TypeInv, GeometryInv, OwnerInv, IntactInv, NEW p \in Procs, Recover(p),
           NEW g \in Loadable, opened = {Geometry(g)}
    PROVE  RecordInv(g)'
<1>0. /\ g.capacity \in Nat /\ hdr.reserve_tail \in Nat /\ hdr.committed_tail \in Nat /\ Usable(g)
      /\ RecordInv(g)
  BY LoadableUsable DEF Usable, TypeInv, HeaderFields, IntactInv
<1>1. /\ At(p, "recover") /\ OnlyMoves(p) /\ proc'[p] = Exited /\ UNCHANGED acked
      /\ \A o \in DOMAIN file :
           \/ file'[o] = file[o]
           \/ /\ file'[o] = [file[o] EXCEPT !.word = ABANDONED]
              /\ \E s \in Scanned(Conf(p)) : Broken(Conf(p), s) /\ o = RecordOffset(Conf(p), s)
      /\ hdr' = [hdr EXCEPT !.committed_tail = TailStop(file', Conf(p))]
  BY RecoverFacts, ExitFacts DEF TypeInv
<1>2. IsMapped(p)
  BY <1>1 DEF IsMapped, At
<1>3. /\ Conf(p).capacity = g.capacity
      /\ \A s : RecordOffset(Conf(p), s) = RecordOffset(g, s) /\ PayloadOffset(Conf(p), s) = PayloadOffset(g, s)
  BY <1>2, MappedSame
<1>4. \A q \in Procs : ~ Holding(q)'
  <2>1. proc[p].cmd = "recover"
    BY <1>1 DEF TypeInv, ProcOK, Placed
  <2>2. \A q \in Procs : Holding(q) => proc[q].cmd = "serve"
    BY DEF TypeInv, ProcOK, Placed, Holding, Serving
  <2>3. \A q \in Procs : ~ Holding(q)
    BY <2>1, <2>2 DEF OwnerInv
  <2> QED
    BY <1>1, <2>3, ExitedFacts DEF OnlyMoves, Holding
<1>5. \A s \in Scanned(Conf(p)) : s \in Nat /\ s < hdr.reserve_tail
  BY <1>0 DEF Scanned
<1>6. \A s : Broken(Conf(p), s) <=> Broken(g, s)
  BY <1>3 DEF Broken, State, Verifies
<1>7. ASSUME NEW s \in 0 .. g.capacity - 1
      PROVE  /\ file'[PayloadOffset(g, s)] = file[PayloadOffset(g, s)]
             /\ \/ file'[RecordOffset(g, s)] = file[RecordOffset(g, s)]
                \/ /\ file'[RecordOffset(g, s)].word = ABANDONED
                   /\ Broken(g, s) /\ s < hdr.reserve_tail
  <2>1. /\ RecordOffset(g, s) \in DOMAIN file /\ PayloadOffset(g, s) \in DOMAIN file /\ s \in Nat
        /\ file[RecordOffset(g, s)] \in Cell
    BY RecordCells
  <2>2. file'[PayloadOffset(g, s)] = file[PayloadOffset(g, s)]
    <3>1. \A t \in Scanned(Conf(p)) : RecordOffset(Conf(p), t) # PayloadOffset(g, s)
      BY <1>0, <1>3, <1>5, <2>1, SlotsApart
    <3> QED
      BY <1>1, <2>1, <3>1
  <2>3. CASE file'[RecordOffset(g, s)] # file[RecordOffset(g, s)]
    <3>1. PICK t \in Scanned(Conf(p)) : Broken(Conf(p), t) /\ RecordOffset(g, s) = RecordOffset(Conf(p), t)
      BY <1>1, <2>1, <2>3
    <3>2. t = s
      BY <1>0, <1>3, <1>5, <2>1, <3>1, SlotsApart
    <3>3. file'[RecordOffset(g, s)].word = ABANDONED
      BY <1>1, <2>1, <2>3 DEF Cell
    <3> QED
      BY <1>5, <1>6, <2>2, <3>1, <3>2, <3>3
  <2> QED
    BY <2>2, <2>3
<1>8. ASSUME NEW s \in 0 .. g.capacity - 1 PROVE SlotInv(g, s)'
  <2>1. SlotInv(g, s) /\ s \in Nat
    BY <1>0 DEF RecordInv
  <2>2. hdr'.reserve_tail = hdr.reserve_tail
    <3>1. PICK n : hdr' = [hdr EXCEPT !.committed_tail = n]
      BY <1>1
    <3> QED
      BY <3>1 DEF TypeInv, HeaderFields
  <2>3. CASE file'[RecordOffset(g, s)] = file[RecordOffset(g, s)]
    BY <1>0, <1>1, <1>4, <1>7, <2>1, <2>2, <2>3, SlotKept
  <2>4. CASE file'[RecordOffset(g, s)].word = ABANDONED /\ Broken(g, s) /\ s < hdr.reserve_tail
    <3>1. State(file, g, s)' # COMMITTED
      BY <2>4 DEF State, ABANDONED, COMMITTED
    <3>2. \A a \in acked : a.slot # s
      <4> SUFFICES ASSUME NEW a \in acked, a.slot = s PROVE FALSE
        OBVIOUS
      <4>1. Whole(g, s, a.id) /\ a.id \in Nat /\ a.id > 0
        BY <2>1 DEF SlotInv, TypeInv
      <4>2. State(file, g, s) = COMMITTED /\ Verifies(g, s)
        BY <4>1 DEF Whole, Verifies
      <4> QED
        BY <2>4, <4>2 DEF Broken
    <3> QED
      BY <1>0, <1>1, <1>4, <2>1, <2>2, <2>4, <3>1, <3>2 DEF SlotInv
  <2> QED
    BY <1>7, <2>3, <2>4
<1>9. hdr'.reserve_tail = hdr.reserve_tail /\ hdr'.committed_tail <= hdr.reserve_tail
  <2>1. \A s \in 0 .. g.capacity - 1 : hdr.reserve_tail <= s => State(file', Conf(p), s) # COMMITTED
    <3> SUFFICES ASSUME NEW s \in 0 .. g.capacity - 1, hdr.reserve_tail <= s
                 PROVE  file'[RecordOffset(g, s)].word # COMMITTED
      BY <1>3 DEF State
    <3>1. s \in Nat /\ State(file, g, s) = FREE
      BY <1>0 DEF RecordInv, SlotInv
    <3>2. file'[RecordOffset(g, s)] = file[RecordOffset(g, s)]
      BY <1>0, <1>7, <3>1
    <3> QED
      BY <3>1, <3>2 DEF State, FREE, COMMITTED
  <2>2. TailStop(file', Conf(p)) <= hdr.reserve_tail
    BY <1>0, <1>3, <2>1, TailBelow DEF RecordInv
  <2>3. PICK n \in Nat : n = TailStop(file', Conf(p))
    BY <1>0, <1>3, TailStopFacts
  <2> QED
    BY <1>1, <2>2, <2>3, TailStored
<1> QED
  BY <1>0, <1>1, <1>4, <1>8, <1>9 DEF RecordInv

\* The other steps of a process.
LEMMA IntactQuiet ==
    ASSUME TypeInv, OwnerInv, IntactInv, NEW p \in Procs, OnlyMoves(p), UNCHANGED <<file, opened, acked>>,
           ~ Holding(p)', hdr'.reserve_tail = hdr.reserve_tail,
           hdr'.committed_tail \in {0, hdr.committed_tail}
    PROVE  IntactInv'
<1> SUFFICES ASSUME NEW g \in Loadable, opened = {Geometry(g)} PROVE RecordInv(g)'
  BY DEF IntactInv
<1>1. RecordInv(g) /\ hdr.reserve_tail \in Nat /\ hdr.committed_tail \in Nat
  BY DEF IntactInv, TypeInv, HeaderFields
<1>2. hdr'.committed_tail <= hdr'.reserve_tail
  BY <1>1 DEF RecordInv
<1> QED
  BY <1>1, <1>2, RecordKept

\* IntactInv is inductive, where the operators keep their promises.
LEMMA IntactNext == TypeInv /\ GeometryInv /\ OwnerInv /\ IntactInv /\ [Next]_vars => IntactInv'
<1> SUFFICES ASSUME TypeInv, GeometryInv, OwnerInv, IntactInv, [Next]_vars PROVE IntactInv'
  OBVIOUS
<1>1. CASE UNCHANGED vars
  <2>1. UNCHANGED <<hdr, file, proc, opened, acked>>
    BY <1>1 DEF vars
  <2>2. ASSUME NEW g \in Loadable, RecordInv(g) PROVE RecordInv(g)'
    <3>1. \A q \in Procs : Holding(q)' = Holding(q)
      BY <2>1 DEF Holding
    <3>2. ASSUME NEW s \in 0 .. g.capacity - 1 PROVE SlotInv(g, s)'
      <4>1. SlotInv(g, s) /\ s \in Nat /\ hdr.reserve_tail \in Nat
        BY <2>2, LoadableUsable DEF RecordInv, Usable, TypeInv, HeaderFields
      <4> QED
        BY <2>1, <4>1, SlotKept
    <3> QED
      BY <2>1, <2>2, <3>1, <3>2 DEF RecordInv
  <2> QED
    BY <2>1, <2>2 DEF IntactInv
<1>2. ASSUME NEW p \in Procs, At(p, "idle"), NEW cmd \in Commands, NEW path, Exec(p, cmd, path)
      PROVE  IntactInv'
  <2>1. ~ Holding(p)'
    BY <1>2, ExecFacts DEF Holding
  <2> QED
    BY <1>2, <2>1, ExecFacts, IntactQuiet
<1>3. ASSUME NEW p \in Procs, Quiet(p) PROVE IntactInv'
  <2>1. ~ Holding(p)'
    BY <1>3, ExitedFacts DEF Quiet, Holding
  <2> QED
    BY <1>3, <2>1, IntactQuiet DEF Quiet
<1>4. ASSUME NEW p \in Procs, NEW f \in HeaderFields, StoreHeader(p, f) PROVE IntactInv'
  <2>1. At(p, "header") /\ proc[p].cmd = "init"
    BY <1>4, StoreHeaderFacts DEF TypeInv, ProcOK, Placed
  <2>2. appends = 0
    BY <2>1 DEF OwnerInv
  <2>3. hdr'.reserve_tail = hdr.reserve_tail
    BY <1>4, <2>2, StoreHeaderFacts DEF TypeInv, HeaderFields
  <2>4. ~ Holding(p)'
    BY <1>4, StoreHeaderFacts DEF Holding
  <2> QED
    BY <1>4, <2>3, <2>4, StoreHeaderFacts, IntactQuiet
<1>5. ASSUME NEW p \in Procs, MapFile(p) \/ (MapFails(p) /\ ~ UNCHANGED <<file, opened>>) PROVE IntactInv'
  BY <1>5, IntactMap DEF IntactInv
<1>6. ASSUME NEW p \in Procs,
             \/ Claim(p) \/ ClaimFull(p) \/ Undo(p) \/ (\E f \in Fields : Store(p, f)) \/ Commit(p)
             \/ AdvanceTail(p) \/ Count(p) \/ Recover(p)
      PROVE  IntactInv'
  <2>1. UNCHANGED opened
    BY <1>6 DEF Claim, ClaimFull, Undo, Store, Commit, AdvanceTail, Count, Recover, history
  <2>2. ASSUME NEW g \in Loadable, opened = {Geometry(g)} PROVE RecordInv(g)'
    BY <1>6, <2>2, IntactClaim, IntactFail, IntactStore, IntactCommit, IntactCount, IntactRecover
  <2> QED
    BY <2>1, <2>2 DEF IntactInv
<1> QED
  BY <1>1, <1>2, <1>3, <1>4, <1>5, <1>6, QuietSteps DEF Next, Rest, main, LoadFails, CmdValidate

\* There are no records before the first open.
LEMMA IntactInit == Init => IntactInv
BY DEF Init, IntactInv

\* Where init is run alone and before the first append, and recover without writers, a COMMITTED
\* record is whole: the stores before the Release store are all there, whoever crashes or maps the
\* file again in between.
THEOREM PoolStaysIntact ==
    ASSUME Quiesced, InitOnce
    PROVE  Spec => []PoolIntact
<1>1. TypeInv /\ GeometryInv /\ IntactInv => PoolIntact
  BY DEF PoolIntact, IntactInv, RecordInv, SlotInv
<1>2. Init => TypeInv /\ GeometryInv /\ OwnerInv /\ IntactInv
  BY TypeInit, GeometryInit, OwnerInit, IntactInit
<1>3. TypeInv /\ GeometryInv /\ OwnerInv /\ IntactInv /\ [Next]_vars
        => (TypeInv /\ GeometryInv /\ OwnerInv /\ IntactInv)'
  BY TypeNext, GeometryNext, OwnerNext, IntactNext
<1> QED
  BY <1>1, <1>2, <1>3, PTL DEF Spec

\* Under the same promises, what append acknowledged stays, with its contents, through every later
\* open, status, recovery and crash, as long as the geometry does.
THEOREM AcknowledgedIsKept ==
    ASSUME Quiesced, InitOnce
    PROVE  Spec => []AckedKept
<1>1. TypeInv /\ GeometryInv /\ IntactInv => AckedKept
  <2> SUFFICES ASSUME TypeInv, GeometryInv, IntactInv, NEW g \in Loadable, opened = {Geometry(g)},
                      NEW a \in acked
               PROVE  /\ State(file, g, a.slot) = COMMITTED
                      /\ file[RecordOffset(g, a.slot)].crc = a.id
                      /\ Verifies(g, a.slot)
    BY DEF AckedKept
  <2>1. RecordInv(g) /\ a.slot \in Nat /\ a.id \in Nat /\ a.id > 0 /\ g.capacity \in Nat
    BY LoadableUsable DEF IntactInv, TypeInv, Usable
  <2>2. a.slot \in 0 .. g.capacity - 1
    BY <2>1 DEF RecordInv
  <2>3. Whole(g, a.slot, a.id)
    BY <2>1, <2>2 DEF RecordInv, SlotInv
  <2> QED
    BY <2>1, <2>3 DEF Whole, Verifies
<1>2. Init => TypeInv /\ GeometryInv /\ OwnerInv /\ IntactInv
  BY TypeInit, GeometryInit, OwnerInit, IntactInit
<1>3. TypeInv /\ GeometryInv /\ OwnerInv /\ IntactInv /\ [Next]_vars
        => (TypeInv /\ GeometryInv /\ OwnerInv /\ IntactInv)'
  BY TypeNext, GeometryNext, OwnerNext, IntactNext
<1> QED
  BY <1>1, <1>2, <1>3, PTL DEF Spec



-----------------------------------------------------------------------------
(***************************************************************************)
(* fenced status.                                                          *)
(***************************************************************************)

\* What a step may change of what a status command has loaded.
StatusMove(q) ==
    /\ At(q, "reserve")' => /\ Conf(q)' = Conf(q)
                            /\ \/ At(q, "reserve") /\ proc'[q].committed = proc[q].committed
                               \/ At(q, "status") /\ proc'[q].committed = hdr.committed_tail
    /\ At(q, "print")' => \/ /\ At(q, "print") /\ proc'[q].committed = proc[q].committed
                             /\ proc'[q].reserve = proc[q].reserve
                          \/ /\ At(q, "reserve") /\ proc'[q].committed = proc[q].committed
                             /\ proc'[q].reserve = hdr.reserve_tail

\* The loads are the only steps to the next number.
LEMMA StatusMoves == TypeInv /\ [Next]_vars => \A q \in Procs : StatusMove(q)
<1> SUFFICES ASSUME TypeInv, [Next]_vars, NEW q \in Procs PROVE StatusMove(q)
  OBVIOUS
<1>0. ASSUME proc'[q] = proc[q] PROVE StatusMove(q)
  BY <1>0 DEF StatusMove, At, Conf
<1>1. ASSUME proc'[q].pc \notin {"reserve", "print"} PROVE StatusMove(q)
  BY <1>1 DEF StatusMove, At
<1>2. ASSUME NEW p \in Procs, OnlyMoves(p), proc'[p].pc \notin {"reserve", "print"} PROVE StatusMove(q)
  BY <1>0, <1>1, <1>2 DEF OnlyMoves
<1>3. ASSUME NEW p \in Procs, Exit(p), appends' = appends PROVE StatusMove(q)
  BY <1>2, <1>3, ExitFacts, ExitedFacts DEF TypeInv
<1>4. ASSUME NEW p \in Procs, ReadStats(p) \/ LoadTail(p) PROVE StatusMove(q)
  <2>0. proc = [r \in Procs |-> proc[r]] /\ IsProc(proc[p])
    BY DEF TypeInv, ProcOK
  <2>1. CASE ReadStats(p)
    <3>1. PICK n : proc' = [proc EXCEPT ![p].todo = {}, ![p].appends = n]
      BY <2>1 DEF ReadStats
    <3>2. /\ OnlyMoves(p) /\ proc'[p].pc = proc[p].pc /\ proc'[p].committed = proc[p].committed
          /\ proc'[p].reserve = proc[p].reserve /\ proc'[p].conf = proc[p].conf
      BY <2>0, <3>1 DEF OnlyMoves, IsProc, ProcFields
    <3> QED
      BY <1>0, <3>2 DEF OnlyMoves, StatusMove, At, Conf
  <2>2. CASE At(p, "status") /\ proc' = [proc EXCEPT ![p].committed = hdr.committed_tail, ![p].pc = "reserve"]
    <3>1. /\ OnlyMoves(p) /\ proc'[p].pc = "reserve" /\ proc'[p].committed = hdr.committed_tail
          /\ proc'[p].conf = proc[p].conf
      BY <2>0, <2>2 DEF OnlyMoves, IsProc, ProcFields
    <3> QED
      BY <1>0, <2>2, <3>1 DEF OnlyMoves, StatusMove, At, Conf
  <2>3. CASE At(p, "reserve") /\ proc' = [proc EXCEPT ![p].reserve = hdr.reserve_tail, ![p].pc = "print"]
    <3>1. /\ OnlyMoves(p) /\ proc'[p].pc = "print" /\ proc'[p].reserve = hdr.reserve_tail
          /\ proc'[p].committed = proc[p].committed
      BY <2>0, <2>3 DEF OnlyMoves, IsProc, ProcFields
    <3> QED
      BY <1>0, <2>3, <3>1 DEF OnlyMoves, StatusMove, At
  <2> QED
    BY <1>4, <2>1, <2>2, <2>3 DEF LoadTail
<1>5. ASSUME NEW p \in Procs, CheckMagic(p), hdr.magic = MAGIC PROVE StatusMove(q)
  <2>0. proc = [r \in Procs |-> proc[r]] /\ IsProc(proc[p])
    BY DEF TypeInv, ProcOK
  <2>1. PICK td : td = IF proc[p].cmd = "status" THEN {"stats"} ELSE {}
    OBVIOUS
  <2>2. proc' = [proc EXCEPT ![p].pc = proc[p].cmd, ![p].todo = td]
    BY <1>5, <2>1 DEF CheckMagic
  <2>3. OnlyMoves(p) /\ proc'[p].pc = proc[p].cmd
    BY <2>0, <2>2 DEF OnlyMoves, IsProc, ProcFields
  <2>4. proc[p].cmd \in {"recover", "serve", "status"}
    BY <1>5 DEF CheckMagic, TypeInv, ProcOK, Placed
  <2> QED
    BY <1>2, <2>3, <2>4
<1>6. ASSUME NEW p \in Procs, ClaimFull(p) \/ Undo(p) \/ CountFull(p) PROVE StatusMove(q)
  BY <1>2, <1>6, GotoFacts DEF ClaimFull, Undo, CountFull
<1>7. ASSUME NEW p \in Procs, (\E i \in 1 .. MaxAppends : ReadCall(p, i)) \/ ReadDone(p) PROVE StatusMove(q)
  <2>0. proc = [r \in Procs |-> proc[r]] /\ IsProc(proc[p])
    BY DEF TypeInv, ProcOK
  <2>1. PICK l \in {"read", "serve"}, s \in Nat : proc' = [proc EXCEPT ![p].pc = l, ![p].slot = s]
    <3>1. CASE ReadDone(p)
      BY <3>1 DEF ReadDone
    <3>2. ASSUME NEW i \in 1 .. MaxAppends, ReadCall(p, i)
          PROVE  i - 1 \in Nat /\ proc' = [proc EXCEPT ![p].pc = "read", ![p].slot = i - 1]
      BY <3>2 DEF ReadCall
    <3> QED
      BY <1>7, <3>1, <3>2
  <2>2. OnlyMoves(p) /\ proc'[p].pc = l
    BY <2>0, <2>1 DEF OnlyMoves, IsProc, ProcFields
  <2> QED
    BY <1>2, <2>2
<1>8. ASSUME NEW p \in Procs, NEW f \in Fields, Store(p, f) PROVE StatusMove(q)
  <2>1. OnlyMoves(p) /\ proc'[p].pc = "write"
    BY <1>8, StoreFacts DEF ProcFields, At
  <2> QED
    BY <1>2, <2>1
<1>9. ASSUME NEW p \in Procs, Claim(p) \/ Commit(p) \/ AdvanceTail(p) \/ Count(p) PROVE StatusMove(q)
  <2>1. OnlyMoves(p) /\ proc'[p].pc \in {"write", "advance", "count", "serve"}
    BY <1>9, ClaimFacts, CommitFacts, AdvanceFacts, CountFacts
  <2> QED
    BY <1>2, <2>1
<1>10. ASSUME NEW p \in Procs, NEW f \in HeaderFields, StoreHeader(p, f) PROVE StatusMove(q)
  BY <1>2, <1>10, StoreHeaderFacts
<1>11. ASSUME NEW p \in Procs, MapFile(p) PROVE StatusMove(q)
  <2>1. OnlyMoves(p) /\ proc'[p].pc \notin {"reserve", "print"}
    BY <1>11, MapFacts, ExitedFacts
  <2> QED
    BY <1>2, <2>1
<1>12. ASSUME NEW p \in Procs, At(p, "idle"), NEW cmd \in Commands, NEW path, Exec(p, cmd, path)
       PROVE  StatusMove(q)
  BY <1>2, <1>12, ExecFacts
<1>13. ASSUME NEW p \in Procs,
              \/ MapFails(p) \/ Created(p) \/ (CheckMagic(p) /\ hdr.magic # MAGIC) \/ Close(p) \/ Recover(p)
              \/ EndStatus(p) \/ Fault(p) \/ Crash(p)
       PROVE  StatusMove(q)
  <2>1. Exit(p) /\ appends' = appends
    BY <1>13 DEF MapFails, Created, CheckMagic, Close, Recover, EndStatus, Fault, Crash, budget
  <2> QED
    BY <1>3, <2>1
<1>14. CASE UNCHANGED vars
  BY <1>0, <1>14 DEF vars
<1> QED
  BY <1>4, <1>5, <1>6, <1>7, <1>8, <1>9, <1>10, <1>11, <1>12, <1>13, <1>14
  DEF Next, Rest, main, LoadFails, CmdValidate

\* Geometries are only added, and what was reserved once init is done stays reserved: only a tail
\* beyond the capacity goes down, and it stays there.
LEMMA Growth ==
    TypeInv /\ GeometryInv /\ OwnerInv /\ [Next]_vars =>
      /\ opened \subseteq opened'
      /\ \A g \in Loadable : opened = {Geometry(g)} =>
            hdr.reserve_tail <= hdr'.reserve_tail \/ g.capacity <= hdr'.reserve_tail
<1> SUFFICES ASSUME TypeInv, GeometryInv, OwnerInv, [Next]_vars
             PROVE  /\ opened \subseteq opened'
                    /\ \A g \in Loadable : opened = {Geometry(g)} =>
                         hdr.reserve_tail <= hdr'.reserve_tail \/ g.capacity <= hdr'.reserve_tail
  OBVIOUS
<1>0. hdr.reserve_tail \in Nat /\ (hdr'.reserve_tail = hdr.reserve_tail => hdr.reserve_tail <= hdr'.reserve_tail)
  BY DEF TypeInv, HeaderFields
<1>1. ASSUME NEW p \in Procs, NEW f \in HeaderFields, StoreHeader(p, f)
      PROVE  UNCHANGED opened /\ hdr'.reserve_tail = hdr.reserve_tail
  <2>1. proc[p].cmd = "init" /\ UNCHANGED opened
    BY <1>1, StoreHeaderFacts DEF TypeInv, ProcOK, Placed
  <2> QED
    BY <1>1, <2>1, StoreHeaderFacts DEF OwnerInv, TypeInv, HeaderFields
<1>2. ASSUME NEW p \in Procs, Claim(p)
      PROVE  UNCHANGED opened /\ hdr.reserve_tail <= hdr'.reserve_tail
  BY <1>0, <1>2, ClaimFacts
<1>3. ASSUME NEW p \in Procs, AdvanceTail(p) \/ Recover(p)
      PROVE  UNCHANGED opened /\ hdr'.reserve_tail = hdr.reserve_tail
  <2>1. PICK n : hdr' = [hdr EXCEPT !.committed_tail = n]
    BY <1>3 DEF AdvanceTail, Recover
  <2> QED
    BY <1>3, <2>1 DEF AdvanceTail, Recover, history, TypeInv, HeaderFields
<1>4. ASSUME NEW p \in Procs, MapFile(p) \/ MapFails(p)
      PROVE  opened \subseteq opened' /\ UNCHANGED hdr
  BY <1>4 DEF MapFile, MapFails, Mapping
<1>5. ASSUME NEW p \in Procs, NEW f \in Fields, Store(p, f) PROVE UNCHANGED <<hdr, opened>>
  BY <1>5, StoreFacts
<1>6. ASSUME NEW p \in Procs, Commit(p) \/ Count(p) PROVE UNCHANGED <<hdr, opened>>
  BY <1>6 DEF Commit, Count, history
<1>7. ASSUME NEW p \in Procs, NEW cmd, NEW path, Exec(p, cmd, path) PROVE UNCHANGED <<hdr, opened>>
  BY <1>7 DEF Exec, history
<1>8. ASSUME NEW p \in Procs, Quiet(p) PROVE UNCHANGED <<hdr, opened>>
  BY <1>8 DEF Quiet
<1>9. ASSUME NEW p \in Procs, ClaimFull(p) \/ Undo(p)
      PROVE  UNCHANGED opened /\ \A g \in Loadable : opened = {Geometry(g)} => g.capacity <= hdr'.reserve_tail
  BY <1>9, FailFacts, FailBeyond
<1>10. CASE UNCHANGED <<hdr, opened>>
  BY <1>0, <1>10
<1> QED
  BY <1>0, <1>1, <1>2, <1>3, <1>4, <1>5, <1>6, <1>7, <1>8, <1>9, <1>10, QuietSteps
  DEF Next, Rest, main, LoadFails, CmdValidate, vars

\* A number of slots of the pool that was reserved still is.
LEMMA StillReserved ==
    ASSUME TypeInv, TypeInv', GeometryInv, OwnerInv, [Next]_vars, OneGeometry, NEW q \in Procs, IsMapped(q),
           NEW n \in Nat, n <= hdr.reserve_tail, n <= Conf(q).capacity
    PROVE  n <= hdr'.reserve_tail
<1>1. Conf(q) \in Loadable /\ opened = {Geometry(Conf(q))} /\ Conf(q).capacity \in Nat
  BY MappedFacts DEF Usable
<1>2. hdr.reserve_tail <= hdr'.reserve_tail \/ Conf(q).capacity <= hdr'.reserve_tail
  BY <1>1, Growth
<1>3. hdr.reserve_tail \in Nat /\ hdr'.reserve_tail \in Nat
  BY DEF TypeInv, HeaderFields
<1> QED
  BY <1>1, <1>2, <1>3

\* Geometries are never taken back: a file with one of them has had no other.
LEMMA OneBefore ==
    ASSUME TypeInv, TypeInv', GeometryInv, OwnerInv, [Next]_vars, OneGeometry'
    PROVE  OneGeometry
<1>1. opened \subseteq opened'
  BY Growth
<1>2. Cardinality(opened) <= Cardinality(opened') /\ Cardinality(opened) \in Nat /\ Cardinality(opened') \in Nat
  BY <1>1, FS_Subset, FS_CardinalityType DEF TypeInv
<1> QED
  BY <1>2 DEF OneGeometry

\* StatusInv is inductive.
LEMMA StatusNext ==
    TypeInv /\ TypeInv' /\ GeometryInv /\ OwnerInv /\ IntactInv /\ StatusInv /\ [Next]_vars => StatusInv'
<1> SUFFICES ASSUME TypeInv, TypeInv', GeometryInv, OwnerInv, IntactInv, StatusInv, [Next]_vars, OneGeometry',
                    NEW q \in Procs
             PROVE  /\ At(q, "reserve")' => /\ proc'[q].committed <= hdr'.reserve_tail
                                            /\ proc'[q].committed <= Conf(q)'.capacity
                    /\ At(q, "print")' => proc'[q].committed <= proc'[q].reserve
  BY DEF StatusInv
<1>1. OneGeometry
  BY OneBefore
<1>2. /\ hdr.reserve_tail \in Nat /\ hdr.committed_tail \in Nat
      /\ proc[q].committed \in Nat /\ proc'[q].committed \in Nat
  BY DEF TypeInv, HeaderFields, ProcOK
<1>3. StatusMove(q)
  BY StatusMoves
<1>4. ASSUME At(q, "status")
      PROVE  /\ hdr.committed_tail <= hdr.reserve_tail /\ hdr.committed_tail <= Conf(q).capacity
             /\ hdr.committed_tail <= hdr'.reserve_tail
  <2>1. IsMapped(q) /\ Conf(q) \in Loadable /\ opened = {Geometry(Conf(q))} /\ hdr.committed_tail <= Conf(q).capacity
    BY <1>1, <1>4, MappedFacts DEF IsMapped, At
  <2>2. hdr.committed_tail <= hdr.reserve_tail
    BY <2>1 DEF IntactInv, RecordInv
  <2> QED
    BY <1>1, <1>2, <2>1, <2>2, StillReserved
<1>5. ASSUME At(q, "reserve")
      PROVE  /\ proc[q].committed <= hdr.reserve_tail /\ proc[q].committed <= Conf(q).capacity
             /\ proc[q].committed <= hdr'.reserve_tail
  <2>1. /\ IsMapped(q)
        /\ proc[q].committed <= hdr.reserve_tail /\ proc[q].committed <= Conf(q).capacity
    BY <1>1, <1>5 DEF StatusInv, IsMapped, At
  <2> QED
    BY <1>1, <1>2, <2>1, StillReserved
<1>6. At(q, "print") => proc[q].committed <= proc[q].reserve
  BY <1>1 DEF StatusInv
<1> QED
  BY <1>2, <1>3, <1>4, <1>5, <1>6 DEF StatusMove

\* Under the same promises fenced status never prints more committed than reserved slots, although
\* writers move both between its loads.
THEOREM StatusFits ==
    ASSUME Quiesced, InitOnce
    PROVE  Spec => []StatusConsistent
<1>1. StatusInv => StatusConsistent
  BY DEF StatusInv, StatusConsistent, StatusPrinted
<1>2. Init => TypeInv /\ GeometryInv /\ OwnerInv /\ IntactInv /\ StatusInv
  <2>1. Init => StatusInv
    BY ExitedFacts DEF Init, StatusInv, At
  <2> QED
    BY <2>1, TypeInit, GeometryInit, OwnerInit, IntactInit
<1>3. TypeInv /\ GeometryInv /\ OwnerInv /\ IntactInv /\ StatusInv /\ [Next]_vars
        => (TypeInv /\ GeometryInv /\ OwnerInv /\ IntactInv /\ StatusInv)'
  BY TypeNext, GeometryNext, OwnerNext, IntactNext, StatusNext
<1> QED
  BY <1>1, <1>2, <1>3, PTL DEF Spec

-----------------------------------------------------------------------------
(***************************************************************************)
(* The counters: an append that is acknowledged is counted, once, and no   *)
(* store to a record reaches a MetricsBlock.                               *)
(***************************************************************************)

\* The first n natural numbers.
LEMMA BelowFinite ==
    ASSUME NEW n \in Nat
    PROVE  IsFiniteSet(0 .. n - 1) /\ Cardinality(0 .. n - 1) = n
<1> HIDE Sizes, ConfigAssumption, PoolBoundAssumption
<1>1. PICK z \in Int, m \in Int : z = 0 /\ m = n - 1
  OBVIOUS
<1>2. IsFiniteSet(z .. m) /\ Cardinality(z .. m) = IF z > m THEN 0 ELSE m - z + 1
  BY FS_Interval
<1>3. (IF z > m THEN 0 ELSE m - z + 1) = n
  BY <1>1
<1>4. z .. m = 0 .. n - 1
  BY <1>1
<1> QED
  BY <1>2, <1>3, <1>4, Zenon

\* The cells of the counters: in the file, natural, and behind the records.
LEMMA BlockCells ==
    ASSUME TypeInv, GeometryInv, NEW g \in Loadable, opened = {Geometry(g)}
    PROVE  /\ Usable(g) /\ IsFiniteSet(Hosts(g))
           /\ \A h \in Hosts(g) : /\ h \in Nat /\ h < g.max_hosts
                                  /\ MetricsOffset(g, h) \in DOMAIN file /\ file[MetricsOffset(g, h)].word \in Nat
           /\ \A h \in Hosts(g), s \in Nat : s < g.capacity =>
                RecordOffset(g, s) # MetricsOffset(g, h) /\ PayloadOffset(g, s) # MetricsOffset(g, h)
<1>1. Usable(g) /\ DOMAIN file = HeaderSize .. TotalSize(g) - 1
  BY LoadableUsable DEF GeometryInv
<1>2. \A h \in Hosts(g) : h \in Nat /\ h < g.max_hosts
  BY <1>1 DEF Hosts, Usable
<1>3. IsFiniteSet(Hosts(g))
  <2>1. PICK n \in Nat : n = g.max_hosts
    BY <1>1 DEF Usable
  <2> QED
    BY <2>1, BelowFinite DEF Hosts
<1>4. ASSUME NEW h \in Hosts(g) PROVE MetricsOffset(g, h) \in DOMAIN file /\ file[MetricsOffset(g, h)].word \in Nat
  <2>1. MetricsOffset(g, h) \in DOMAIN file
    BY <1>1, <1>2, MetricsInside
  <2>2. file[MetricsOffset(g, h)] \in Cell
    BY <2>1 DEF TypeInv
  <2> QED
    BY <2>1, <2>2 DEF Cell
<1>5. ASSUME NEW h \in Hosts(g), NEW s \in Nat, s < g.capacity
      PROVE  RecordOffset(g, s) # MetricsOffset(g, h) /\ PayloadOffset(g, s) # MetricsOffset(g, h)
  <2>1. RecordOffset(g, s) < MetricsOffset(g, h) /\ PayloadOffset(g, s) < MetricsOffset(g, h)
    BY <1>1, <1>2, <1>5, RecordInside
  <2>2. RecordOffset(g, s) \in Nat /\ PayloadOffset(g, s) \in Nat /\ MetricsOffset(g, h) \in Nat
    BY <1>1, <1>2, OffsetFacts
  <2> QED
    BY <2>1, <2>2
<1> QED
  BY <1>1, <1>2, <1>3, <1>4, <1>5

\* Two hosts have two counters.
LEMMA BlocksApart ==
    ASSUME NEW g, Usable(g), NEW h \in Nat, NEW k \in Nat, MetricsOffset(g, h) = MetricsOffset(g, k)
    PROVE  h = k
<1>1. g.capacity * RecordSize(g) \in Nat
  BY SizeFacts DEF Usable
<1>2. PICK n \in Nat : n = HeaderSize + g.capacity * RecordSize(g)
  BY <1>1
<1>3. n + h * Line = n + k * Line
  BY <1>2 DEF MetricsOffset
<1>4. h * Line \in Nat /\ k * Line \in Nat
  OBVIOUS
<1>5. h * Line = k * Line
  BY <1>2, <1>3, <1>4
<1>6. ASSUME NEW a \in Nat, NEW b \in Nat, a < b PROVE a * Line < b * Line
  <2>1. a * Line + Line <= b * Line /\ a * Line \in Nat /\ b * Line \in Nat
    BY <1>6, Strides
  <2> QED
    BY <2>1
<1>7. ~ (h < k) /\ ~ (k < h)
  BY <1>4, <1>5, <1>6
<1> QED
  BY <1>7

\* The sum stays where the counters do.
LEMMA TotalKept ==
    ASSUME TypeInv, GeometryInv, NEW g \in Loadable, opened = {Geometry(g)},
           \A h \in Hosts(g) : file'[MetricsOffset(g, h)].word = file[MetricsOffset(g, h)].word
    PROVE  AppendsTotal(g)' = AppendsTotal(g)
<1> DEFINE f == [h \in Hosts(g) |-> file[MetricsOffset(g, h)].word]
           e == [h \in Hosts(g) |-> file'[MetricsOffset(g, h)].word]
<1>1. e = f
  OBVIOUS
<1>2. AppendsTotal(g) = SumFunctionOnSet(f, Hosts(g)) /\ AppendsTotal(g)' = SumFunctionOnSet(e, Hosts(g))
  BY DEF AppendsTotal
<1> QED
  BY <1>1, <1>2

\* The acknowledged slots are reserved ones.
LEMMA AckedFinite ==
    ASSUME TypeInv, OwnerInv, NEW g \in Loadable, opened = {Geometry(g)}
    PROVE  /\ IsFiniteSet({a.slot : a \in acked}) /\ Cardinality({a.slot : a \in acked}) \in Nat
           /\ Cardinality({a.slot : a \in acked}) <= hdr.reserve_tail
           /\ Cardinality({a.slot : a \in acked}) <= g.capacity
<1>1. PICK n \in Nat, c \in Nat : n = hdr.reserve_tail /\ c = g.capacity
  BY LoadableUsable DEF TypeInv, HeaderFields, Usable
<1>2. Owned(g)
  BY DEF OwnerInv
<1>3. {a.slot : a \in acked} \subseteq 0 .. n - 1 /\ {a.slot : a \in acked} \subseteq 0 .. c - 1
  BY <1>1, <1>2 DEF TypeInv, Owned
<1>4. /\ IsFiniteSet(0 .. n - 1) /\ Cardinality(0 .. n - 1) = n
      /\ IsFiniteSet(0 .. c - 1) /\ Cardinality(0 .. c - 1) = c
  BY BelowFinite
<1>5. PICK S, m : S = {a.slot : a \in acked} /\ m = Cardinality(S)
  OBVIOUS
<1>6. IsFiniteSet(S) /\ m \in Nat /\ m <= n /\ m <= c
  <2> HIDE Sizes, ConfigAssumption, PoolBoundAssumption
  <2>1. IsFiniteSet(S) /\ Cardinality(S) <= Cardinality(0 .. n - 1)
    BY <1>3, <1>4, <1>5, FS_Subset
  <2>2. Cardinality(S) <= Cardinality(0 .. c - 1)
    BY <1>3, <1>4, <1>5, FS_Subset
  <2>3. Cardinality(S) \in Nat
    BY <2>1, FS_CardinalityType
  <2> QED
    BY <1>4, <1>5, <2>1, <2>2, <2>3
<1> QED
  BY <1>1, <1>5, <1>6

\* Append p counts once: the sum goes up by one, and its slot is a new one.
LEMMA CountOnce ==
    ASSUME TypeInv, GeometryInv, OwnerInv, NEW p \in Procs, Count(p), NEW g \in Loadable, opened = {Geometry(g)},
           AppendsTotal(g) = Cardinality({a.slot : a \in acked})
    PROVE  AppendsTotal(g)' = Cardinality({a.slot : a \in acked'})
<1> DEFINE f == [h \in Hosts(g) |-> file[MetricsOffset(g, h)].word]
           e == [h \in Hosts(g) |-> file'[MetricsOffset(g, h)].word]
           S == {a.slot : a \in acked}
<1>0. PICK m : m = MetricsOffset(Conf(p), Conf(p).host_id)
  OBVIOUS
<1>1. /\ At(p, "count") /\ m \in DOMAIN file /\ file[m].word \in Nat
      /\ file' = [file EXCEPT ![m].word = file[m].word + 1]
      /\ acked' = acked \cup {[slot |-> proc[p].slot, id |-> proc[p].id]}
  BY <1>0, CountFacts
<1>2. IsMapped(p) /\ Holding(p)
  BY <1>1 DEF IsMapped, Holding, At
<1>3. PICK k \in Hosts(g) : m = MetricsOffset(g, k)
  <2>1. Geometry(Conf(p)) = Geometry(g) /\ Usable(Conf(p))
    BY <1>2, MappedFacts
  <2>2. Conf(p).host_id \in Hosts(g)
    BY <2>1 DEF Geometry, Usable, Hosts
  <2> QED
    BY <1>0, <1>2, <2>2, MappedSame
<1>4. file'[m].word = file[m].word + 1 /\ \A x \in DOMAIN file \ {m} : file'[x] = file[x]
  <2>1. PICK v \in Nat : v = file[m].word + 1
    BY <1>1
  <2> QED
    BY <1>1, <2>1, StoreWord
<1>5. /\ IsFiniteSet(Hosts(g)) /\ Usable(g)
      /\ \A h \in Hosts(g) : /\ h \in Nat /\ MetricsOffset(g, h) \in DOMAIN file
                             /\ file[MetricsOffset(g, h)].word \in Nat
  BY BlockCells
<1>6. \A h \in Hosts(g) \ {k} : MetricsOffset(g, h) # m
  BY <1>3, <1>5, BlocksApart
<1>7. \A h \in Hosts(g) \ {k} : e[h] = f[h]
  BY <1>4, <1>5, <1>6
<1>8. e[k] = f[k] + 1 /\ f[k] \in Nat
  BY <1>1, <1>3, <1>4
<1>9. \A h \in Hosts(g) : f[h] \in Nat /\ e[h] \in Nat
  BY <1>5, <1>7, <1>8
<1>10. AppendsTotal(g) = SumFunctionOnSet(f, Hosts(g)) /\ AppendsTotal(g)' = SumFunctionOnSet(e, Hosts(g))
  BY DEF AppendsTotal
<1> HIDE DEF f, e
<1>11. /\ SumFunctionOnSet(e, Hosts(g)) + f[k] = SumFunctionOnSet(f, Hosts(g)) + e[k]
       /\ SumFunctionOnSet(e, Hosts(g)) \in Nat /\ SumFunctionOnSet(f, Hosts(g)) \in Nat
  BY <1>5, <1>7, <1>9, SumUpdate, SumNat
<1>12. AppendsTotal(g)' = AppendsTotal(g) + 1
  BY <1>8, <1>10, <1>11
<1>13. {a.slot : a \in acked'} = S \cup {proc[p].slot} /\ proc[p].slot \notin S
  <2> DEFINE r == [slot |-> proc[p].slot, id |-> proc[p].id]
  <2>1. r.slot = proc[p].slot
    OBVIOUS
  <2>2. acked' = acked \cup {r}
    BY <1>1
  <2>3. proc[p].slot \notin S
    BY <1>2 DEF OwnerInv, Owned
  <2> HIDE DEF r
  <2> QED
    BY <2>1, <2>2, <2>3, Zenon
<1>14. IsFiniteSet(S)
  BY AckedFinite
<1>15. Cardinality(S \cup {proc[p].slot}) = Cardinality(S) + 1
  BY <1>13, <1>14, FS_AddElement
<1> QED
  BY <1>12, <1>13, <1>15

\* Recovery stores to records only.
LEMMA RecoverBlocks ==
    ASSUME TypeInv, GeometryInv, NEW p \in Procs, Recover(p), NEW g \in Loadable, opened = {Geometry(g)},
           NEW h \in Hosts(g)
    PROVE  file'[MetricsOffset(g, h)] = file[MetricsOffset(g, h)]
<1>1. /\ At(p, "recover")
      /\ \A o \in DOMAIN file : file'[o] = file[o] \/ \E s \in Scanned(Conf(p)) : o = RecordOffset(Conf(p), s)
  <2>1. /\ At(p, "recover")
        /\ \A o \in DOMAIN file :
             \/ file'[o] = file[o]
             \/ /\ file'[o] = [file[o] EXCEPT !.word = ABANDONED]
                /\ \E s \in Scanned(Conf(p)) : Broken(Conf(p), s) /\ o = RecordOffset(Conf(p), s)
    BY RecoverFacts, Zenon
  <2> QED
    BY <2>1, Zenon
<1>2. IsMapped(p)
  BY <1>1 DEF IsMapped, At
<1>3. Conf(p).capacity = g.capacity /\ \A s : RecordOffset(Conf(p), s) = RecordOffset(g, s)
  BY <1>2, MappedSame
<1>4. ASSUME NEW s \in Scanned(Conf(p)) PROVE RecordOffset(Conf(p), s) # MetricsOffset(g, h)
  <2>1. s \in Nat /\ s < g.capacity
    BY <1>3 DEF Scanned, TypeInv, HeaderFields
  <2> QED
    BY <1>3, <2>1, BlockCells
<1>5. MetricsOffset(g, h) \in DOMAIN file
  BY BlockCells
<1> QED
  BY <1>1, <1>4, <1>5

\* So does a writer.
LEMMA WriteBlocks ==
    ASSUME TypeInv, GeometryInv, NEW p \in Procs, (\E f \in Fields : Store(p, f)) \/ Commit(p),
           NEW g \in Loadable, opened = {Geometry(g)}, NEW h \in Hosts(g)
    PROVE  file'[MetricsOffset(g, h)] = file[MetricsOffset(g, h)]
<1>1. At(p, "write")
  BY DEF Store, Commit
<1>2. IsMapped(p) /\ proc[p].slot \in Nat /\ proc[p].slot < Conf(p).capacity
  BY <1>1 DEF IsMapped, At, TypeInv, ProcOK
<1>3. PICK o, o2 : o = RecordOffset(Conf(p), proc[p].slot) /\ o2 = PayloadOffset(Conf(p), proc[p].slot)
  OBVIOUS
<1>4. o # MetricsOffset(g, h) /\ o2 # MetricsOffset(g, h) /\ MetricsOffset(g, h) \in DOMAIN file
  <2>1. /\ proc[p].slot < g.capacity
        /\ o = RecordOffset(g, proc[p].slot) /\ o2 = PayloadOffset(g, proc[p].slot)
    BY <1>2, <1>3, MappedSame
  <2> QED
    BY <1>2, <2>1, BlockCells
<1>5. \A x \in DOMAIN file \ {o, o2} : file'[x] = file[x]
  <2>1. ASSUME NEW f \in Fields, Store(p, f) PROVE \A x \in DOMAIN file \ {o, o2} : file'[x] = file[x]
    BY <1>3, <2>1, StoreCells
  <2>2. ASSUME Commit(p) PROVE \A x \in DOMAIN file \ {o, o2} : file'[x] = file[x]
    <3>1. o \in DOMAIN file /\ file' = [file EXCEPT ![o].word = COMMITTED] /\ COMMITTED \in Nat
      BY <1>3, <2>2, CommitFacts DEF COMMITTED
    <3> QED
      BY <3>1, StoreWord
  <2> QED
    BY <2>1, <2>2
<1> QED
  BY <1>4, <1>5

\* The file is mapped for the first time, or again.
LEMMA CountMap ==
    ASSUME TypeInv, GeometryInv, OwnerInv, CountInv, NEW p \in Procs,
           MapFile(p) \/ (MapFails(p) /\ ~ UNCHANGED <<file, opened>>),
           NEW g \in Loadable, opened' = {Geometry(g)}
    PROVE  AppendsTotal(g)' = Cardinality({a.slot : a \in acked'})
<1>0. /\ UNCHANGED <<appends, acked>>
      /\ file' = Resized(TotalSize(Conf(p))) /\ opened' = opened \cup {Geometry(Conf(p))}
  BY MapFacts
<1>1. Geometry(Conf(p)) = Geometry(g) /\ (opened = {} \/ opened = {Geometry(g)})
  BY <1>0
<1>2. PICK n \in Nat : n = TotalSize(g) /\ n > HeaderSize
  BY LoadableUsable, SizeFacts
<1>3. \A o \in HeaderSize .. n - 1 : file'[o] = IF o \in DOMAIN file THEN file[o] ELSE Zero
  BY <1>0, <1>1, <1>2, SameGeometry, ResizedFacts
<1>4. CASE opened = {Geometry(g)}
  <2>1. DOMAIN file = HeaderSize .. n - 1
    BY <1>2, <1>4 DEF GeometryInv
  <2>2. \A h \in Hosts(g) : file'[MetricsOffset(g, h)] = file[MetricsOffset(g, h)]
    BY <1>3, <1>4, <2>1, BlockCells
  <2> QED
    BY <1>0, <1>4, <2>2, TotalKept DEF CountInv
<1>5. CASE opened = {}
  <2>1. file = NoFile /\ acked' = {}
    BY <1>0, <1>5 DEF GeometryInv, OwnerInv, TypeInv
  <2> DEFINE e == [h \in Hosts(g) |-> file'[MetricsOffset(g, h)].word]
  <2>2. Usable(g) /\ IsFiniteSet(Hosts(g)) /\ \A h \in Hosts(g) : h \in Nat /\ h < g.max_hosts
    <3>1. PICK m \in Nat : m = g.max_hosts
      BY LoadableUsable DEF Usable
    <3>2. Hosts(g) = 0 .. m - 1
      BY <3>1 DEF Hosts
    <3>3. IsFiniteSet(Hosts(g))
      BY <3>2, BelowFinite
    <3>4. \A h \in Hosts(g) : h \in Nat /\ h < g.max_hosts
      BY <3>1, <3>2
    <3> QED
      BY <3>3, <3>4, LoadableUsable
  <2>3. \A h \in Hosts(g) : MetricsOffset(g, h) \in HeaderSize .. n - 1
    BY <1>2, <2>2, MetricsInside
  <2>4. \A h \in Hosts(g) : file'[MetricsOffset(g, h)] = Zero
    BY <1>3, <2>1, <2>3 DEF NoFile
  <2>5. \A h \in Hosts(g) : e[h] = 0
    BY <2>4 DEF Zero
  <2>6. AppendsTotal(g)' = SumFunctionOnSet(e, Hosts(g))
    BY DEF AppendsTotal
  <2> HIDE DEF e
  <2>7. AppendsTotal(g)' = 0
    BY <2>2, <2>5, <2>6, SumZero
  <2>8. {a.slot : a \in acked'} = {}
    BY <2>1
  <2> QED
    BY <2>7, <2>8, FS_EmptySet
<1> QED
  BY <1>1, <1>4, <1>5

\* CountInv is inductive.
LEMMA CountNext == TypeInv /\ GeometryInv /\ OwnerInv /\ CountInv /\ [Next]_vars => CountInv'
<1> SUFFICES ASSUME TypeInv, GeometryInv, OwnerInv, CountInv, [Next]_vars PROVE CountInv'
  OBVIOUS
<1>1. ASSUME UNCHANGED <<file, opened, acked>> PROVE CountInv'
  BY <1>1 DEF CountInv, AppendsTotal
<1>2. ASSUME NEW p \in Procs, MapFile(p) \/ (MapFails(p) /\ ~ UNCHANGED <<file, opened>>) PROVE CountInv'
  BY <1>2, CountMap DEF CountInv
<1>3. ASSUME NEW p \in Procs, (\E f \in Fields : Store(p, f)) \/ Commit(p) \/ Recover(p) PROVE CountInv'
  <2>1. UNCHANGED <<opened, acked>>
    BY <1>3 DEF Store, Commit, Recover, history
  <2>2. ASSUME NEW g \in Loadable, opened = {Geometry(g)} PROVE AppendsTotal(g)' = AppendsTotal(g)
    <3>1. \A h \in Hosts(g) : file'[MetricsOffset(g, h)] = file[MetricsOffset(g, h)]
      BY <1>3, <2>2, RecoverBlocks, WriteBlocks
    <3> QED
      BY <2>2, <3>1, TotalKept
  <2> QED
    BY <2>1, <2>2 DEF CountInv
<1>4. ASSUME NEW p \in Procs, Count(p) PROVE CountInv'
  <2>1. UNCHANGED opened
    BY <1>4 DEF Count
  <2> QED
    BY <1>4, <2>1, CountOnce DEF CountInv
<1>5. ASSUME NEW p \in Procs,
             \/ Claim(p) \/ ClaimFull(p) \/ Undo(p) \/ AdvanceTail(p)
             \/ (\E f \in HeaderFields : StoreHeader(p, f))
             \/ (\E cmd \in Commands, path \in Paths : Exec(p, cmd, path)) \/ Quiet(p)
      PROVE  CountInv'
  BY <1>1, <1>5 DEF Claim, ClaimFull, Undo, AdvanceTail, StoreHeader, Exec, Quiet, history
<1>6. CASE UNCHANGED vars
  BY <1>1, <1>6 DEF vars
<1> QED
  BY <1>2, <1>3, <1>4, <1>5, <1>6, QuietSteps DEF Next, Rest, main, LoadFails, CmdValidate

\* What a step may change of what a status command has added up.
SeenMove(q) ==
    proc'[q].pc \in Looking /\ proc'[q].todo = {} =>
        \/ ReadStats(q)
        \/ /\ proc[q].pc \in Looking /\ proc[q].todo = {}
           /\ proc'[q].appends = proc[q].appends /\ Conf(q)' = Conf(q)

\* Only read_stats gives the sum.
LEMMA SeenMoves == TypeInv /\ [Next]_vars => \A q \in Procs : SeenMove(q)
<1> SUFFICES ASSUME TypeInv, [Next]_vars, NEW q \in Procs PROVE SeenMove(q)
  OBVIOUS
<1>0. ASSUME proc'[q] = proc[q] PROVE SeenMove(q)
  BY <1>0 DEF SeenMove, Conf
<1>1. ASSUME NEW p \in Procs, OnlyMoves(p), proc'[p].pc \notin Looking PROVE SeenMove(q)
  <2>1. CASE q = p
    BY <1>1, <2>1 DEF SeenMove
  <2> QED
    BY <1>0, <1>1, <2>1 DEF OnlyMoves
<1>2. ASSUME NEW p \in Procs, Exit(p), appends' = appends PROVE SeenMove(q)
  <2>1. OnlyMoves(p) /\ proc'[p].pc \notin Looking
    BY <1>2, ExitFacts, ExitedFacts DEF TypeInv, Looking
  <2> QED
    BY <1>1, <2>1
<1>3. ASSUME NEW p \in Procs, ReadStats(p) PROVE SeenMove(q)
  <2>0. proc = [r \in Procs |-> proc[r]]
    BY DEF TypeInv
  <2>1. PICK n : proc' = [proc EXCEPT ![p].todo = {}, ![p].appends = n]
    BY <1>3 DEF ReadStats
  <2>2. q # p => proc'[q] = proc[q]
    BY <2>0, <2>1
  <2> QED
    BY <1>0, <1>3, <2>2 DEF SeenMove
<1>4. ASSUME NEW p \in Procs, LoadTail(p) PROVE SeenMove(q)
  <2>0. proc = [r \in Procs |-> proc[r]] /\ IsProc(proc[p])
    BY DEF TypeInv, ProcOK
  <2>1. /\ OnlyMoves(p) /\ proc[p].pc \in Looking /\ proc'[p].todo = proc[p].todo
        /\ proc'[p].appends = proc[p].appends /\ proc'[p].conf = proc[p].conf
    <3>1. CASE At(p, "status") /\ proc' = [proc EXCEPT ![p].committed = hdr.committed_tail, ![p].pc = "reserve"]
      BY <2>0, <3>1 DEF OnlyMoves, IsProc, ProcFields, At, Looking
    <3>2. CASE At(p, "reserve") /\ proc' = [proc EXCEPT ![p].reserve = hdr.reserve_tail, ![p].pc = "print"]
      BY <2>0, <3>2 DEF OnlyMoves, IsProc, ProcFields, At, Looking
    <3> QED
      BY <1>4, <3>1, <3>2 DEF LoadTail
  <2>2. CASE q = p
    BY <2>1, <2>2 DEF SeenMove, Conf
  <2> QED
    BY <1>0, <2>1, <2>2 DEF OnlyMoves
<1>5. ASSUME NEW p \in Procs, CheckMagic(p), hdr.magic = MAGIC PROVE SeenMove(q)
  <2>0. proc = [r \in Procs |-> proc[r]] /\ IsProc(proc[p])
    BY DEF TypeInv, ProcOK
  <2>1. PICK td : td = IF proc[p].cmd = "status" THEN {"stats"} ELSE {}
    OBVIOUS
  <2>2. proc' = [proc EXCEPT ![p].pc = proc[p].cmd, ![p].todo = td]
    BY <1>5, <2>1 DEF CheckMagic
  <2>3. OnlyMoves(p) /\ proc'[p].pc = proc[p].cmd /\ proc'[p].todo = td
    BY <2>0, <2>2 DEF OnlyMoves, IsProc, ProcFields
  <2>4. proc[p].cmd \in {"recover", "serve", "status"}
    BY <1>5 DEF CheckMagic, TypeInv, ProcOK, Placed
  <2>5. proc'[p].pc \in Looking => proc'[p].todo # {}
    BY <2>1, <2>3, <2>4 DEF Looking
  <2>6. CASE q = p
    BY <2>5, <2>6 DEF SeenMove
  <2> QED
    BY <1>0, <2>3, <2>6 DEF OnlyMoves
<1>6. ASSUME NEW p \in Procs, ClaimFull(p) \/ Undo(p) \/ CountFull(p) PROVE SeenMove(q)
  <2>1. OnlyMoves(p) /\ proc'[p].pc \notin Looking
    BY <1>6, GotoFacts DEF ClaimFull, Undo, CountFull, Looking
  <2> QED
    BY <1>1, <2>1
<1>7. ASSUME NEW p \in Procs, (\E i \in 1 .. MaxAppends : ReadCall(p, i)) \/ ReadDone(p) PROVE SeenMove(q)
  <2>0. proc = [r \in Procs |-> proc[r]] /\ IsProc(proc[p])
    BY DEF TypeInv, ProcOK
  <2>1. PICK l \in {"read", "serve"} : \E s : proc' = [proc EXCEPT ![p].pc = l, ![p].slot = s]
    BY <1>7 DEF ReadCall, ReadDone
  <2>2. PICK s : proc' = [proc EXCEPT ![p].pc = l, ![p].slot = s]
    BY <2>1
  <2>3. OnlyMoves(p) /\ proc'[p].pc = l
    BY <2>0, <2>2 DEF OnlyMoves, IsProc, ProcFields
  <2> QED
    BY <1>1, <2>1, <2>3 DEF Looking
<1>8. ASSUME NEW p \in Procs, NEW f \in Fields, Store(p, f) PROVE SeenMove(q)
  <2>1. OnlyMoves(p) /\ proc'[p].pc = "write"
    BY <1>8, StoreFacts DEF ProcFields, At
  <2> QED
    BY <1>1, <2>1 DEF Looking
<1>9. ASSUME NEW p \in Procs, Claim(p) \/ Commit(p) \/ AdvanceTail(p) \/ Count(p) PROVE SeenMove(q)
  <2>1. OnlyMoves(p) /\ proc'[p].pc \in {"write", "advance", "count", "serve"}
    BY <1>9, ClaimFacts, CommitFacts, AdvanceFacts, CountFacts
  <2> QED
    BY <1>1, <2>1 DEF Looking
<1>10. ASSUME NEW p \in Procs, NEW f \in HeaderFields, StoreHeader(p, f) PROVE SeenMove(q)
  BY <1>1, <1>10, StoreHeaderFacts DEF Looking
<1>11. ASSUME NEW p \in Procs, MapFile(p) PROVE SeenMove(q)
  <2>1. OnlyMoves(p) /\ proc'[p].pc \notin Looking
    BY <1>11, MapFacts, ExitedFacts DEF Looking
  <2> QED
    BY <1>1, <2>1
<1>12. ASSUME NEW p \in Procs, At(p, "idle"), NEW cmd \in Commands, NEW path, Exec(p, cmd, path)
       PROVE  SeenMove(q)
  BY <1>1, <1>12, ExecFacts DEF Looking
<1>13. ASSUME NEW p \in Procs,
              \/ MapFails(p) \/ Created(p) \/ (CheckMagic(p) /\ hdr.magic # MAGIC) \/ Close(p) \/ Recover(p)
              \/ EndStatus(p) \/ Fault(p) \/ Crash(p)
       PROVE  SeenMove(q)
  <2>1. Exit(p) /\ appends' = appends
    BY <1>13 DEF MapFails, Created, CheckMagic, Close, Recover, EndStatus, Fault, Crash, budget
  <2> QED
    BY <1>2, <2>1
<1>14. CASE UNCHANGED vars
  BY <1>0, <1>14 DEF vars
<1> QED
  BY <1>3, <1>4, <1>5, <1>6, <1>7, <1>8, <1>9, <1>10, <1>11, <1>12, <1>13, <1>14
  DEF Next, Rest, main, LoadFails, CmdValidate

\* SeenInv is inductive.
LEMMA SeenNext ==
    TypeInv /\ TypeInv' /\ GeometryInv /\ OwnerInv /\ CountInv /\ SeenInv /\ [Next]_vars => SeenInv'
<1> SUFFICES ASSUME TypeInv, TypeInv', GeometryInv, OwnerInv, CountInv, SeenInv, [Next]_vars, OneGeometry',
                    NEW q \in Procs, proc'[q].pc \in Looking, proc'[q].todo = {}
             PROVE  /\ proc'[q].appends \in Nat /\ proc'[q].appends <= hdr'.reserve_tail
                    /\ proc'[q].appends <= Conf(q)'.capacity
  BY DEF SeenInv
<1>1. OneGeometry
  BY OneBefore
<1>2. CASE ReadStats(q)
  <2>0. proc = [r \in Procs |-> proc[r]] /\ IsProc(proc[q]) /\ "stats" \in proc[q].todo
    BY <1>2 DEF TypeInv, ProcOK, ReadStats
  <2>1. PICK n : n = AppendsTotal(Conf(q))
    OBVIOUS
  <2>2. proc' = [proc EXCEPT ![q].todo = {}, ![q].appends = n]
    BY <1>2, <2>1 DEF ReadStats
  <2>3. proc'[q].appends = n /\ proc'[q].conf = proc[q].conf
    BY <2>0, <2>2 DEF IsProc, ProcFields
  <2>4. IsMapped(q)
    <3>1. Todo(q)
      BY DEF TypeInv, ProcOK
    <3> QED
      BY <2>0, <3>1 DEF Todo, IsMapped, At, Looking, HeaderFields, Fields
  <2>5. Conf(q) \in Loadable /\ opened = {Geometry(Conf(q))}
    BY <1>1, <2>4, MappedFacts
  <2>6. n = Cardinality({a.slot : a \in acked})
    BY <2>1, <2>5 DEF CountInv
  <2>7. n \in Nat /\ n <= hdr.reserve_tail /\ n <= Conf(q).capacity
    BY <2>5, <2>6, AckedFinite
  <2>8. n <= hdr'.reserve_tail
    BY <1>1, <2>4, <2>7, StillReserved
  <2> QED
    BY <2>3, <2>7, <2>8 DEF Conf
<1>3. CASE /\ proc[q].pc \in Looking /\ proc[q].todo = {}
           /\ proc'[q].appends = proc[q].appends /\ Conf(q)' = Conf(q)
  <2>1. /\ proc[q].appends \in Nat /\ proc[q].appends <= hdr.reserve_tail
        /\ proc[q].appends <= Conf(q).capacity /\ IsMapped(q)
    BY <1>1, <1>3 DEF SeenInv, IsMapped, Looking
  <2>2. proc[q].appends <= hdr'.reserve_tail
    BY <1>1, <2>1, StillReserved
  <2> QED
    BY <1>3, <2>1, <2>2
<1> QED
  BY <1>2, <1>3, SeenMoves DEF SeenMove

\* Under the same promises fenced status never prints more appends, added up over the hosts, than
\* slots are reserved, although writers count and claim between its loads and may die before they
\* count.
THEOREM StatusCounts ==
    ASSUME Quiesced, InitOnce
    PROVE  Spec => []StatusAppends
<1>1. SeenInv => StatusAppends
  BY DEF SeenInv, StatusAppends, StatusPrinted, At, Looking
<1>2. Init => TypeInv /\ GeometryInv /\ OwnerInv /\ CountInv /\ SeenInv
  <2>1. Init => CountInv /\ SeenInv
    BY ExitedFacts DEF Init, CountInv, SeenInv, Looking
  <2> QED
    BY <2>1, TypeInit, GeometryInit, OwnerInit
<1>3. TypeInv /\ GeometryInv /\ OwnerInv /\ CountInv /\ SeenInv /\ [Next]_vars
        => (TypeInv /\ GeometryInv /\ OwnerInv /\ CountInv /\ SeenInv)'
  BY TypeNext, GeometryNext, OwnerNext, CountNext, SeenNext
<1> QED
  BY <1>1, <1>2, <1>3, PTL DEF Spec
=============================================================================
