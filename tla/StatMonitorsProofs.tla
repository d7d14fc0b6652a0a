------------------------- MODULE StatMonitorsProofs --------------------------
(***************************************************************************)
(* Proofs about the kernel modules and their readers, for any number of    *)
(* CPUs, of records on the page and of loads and unloads.                  *)
(***************************************************************************)
EXTENDS StatMonitors, TLAPS

(***************************************************************************)
(* The life of a module.  init acquires the five resources in a fixed      *)
(* order, and exit and the error path release them in the reverse one, so  *)
(* what is held is always a prefix of that order.  Level is the first      *)
(* position in it that is not held, computed from the phase and the next   *)
(* step: this is where the labels of the error path must be right.         *)
(***************************************************************************)
Level == CASE mod = "coming"  -> at
           [] mod = "live"    -> 6
           [] mod = "failing" -> 6 - at
           [] mod = "going"   -> 8 - at
           [] OTHER           -> 1

HeldIsPrefix ==
    /\ held \subseteq Resources
    /\ "pages"  \in held <=> 1 < Level
    /\ "region" \in held <=> 2 < Level
    /\ "cdev"   \in held <=> 3 < Level
    /\ "class"  \in held <=> 4 < Level
    /\ "device" \in held <=> 5 < Level

Phases ==
    /\ mod \in {"unloaded", "coming", "failing", "live", "going"}
    /\ at \in 1 .. 7
    /\ mod = "failing" => at \in 1 .. 5

\* The timer is off before init starts it and after exit cancelled it.
TimerFits ==
    /\ timer \in {"off", "armed", "running"}
    /\ timer # "off" <=> mod = "live" \/ (mod = "going" /\ at = 1)

\* An update runs in the callback or as a step of init.
UpdateFits ==
    /\ store \in [idx : Nat, field : Nat]
    /\ store.idx = 0 <=> store = Resting
    /\ store # Resting => timer = "running" \/ (mod = "coming" /\ at = 6)
    /\ timer = "running" => store # Resting

\* The reader's file is open unless it is idle; it needs the device.
UsersFit ==
    /\ users = IF pc = "idle" THEN 0 ELSE 1
    /\ users > 0 => mod = "live" \/ (mod = "coming" /\ at > 5)

LifeInv == Phases /\ HeldIsPrefix /\ TimerFits /\ UpdateFits /\ UsersFit

(***************************************************************************)
(* The tables, read as functions of the position.                          *)
(***************************************************************************)

\* The steps of init, for either driver.
LEMMA InitTable ==
  /\ Module.init[1] = "pages" /\ Module.init[2] = "region" /\ Module.init[3] = "cdev"
  /\ Module.init[4] = "class" /\ Module.init[5] = "device"
  /\ Module.init[6] = "update" /\ Module.init[7] = "timer"
BY DEF Module, CpuStatModule, SoftirqModule

\* The label that each failing step goes to.
LEMMA GotoTable ==
  /\ Module.goto["pages"] = 5 /\ Module.goto["region"] = 4 /\ Module.goto["cdev"] = 3
  /\ Module.goto["class"] = 2 /\ Module.goto["device"] = 1
BY DEF Module, CpuStatModule, SoftirqModule

\* The steps of the error path.
LEMMA ErrTable ==
  /\ DOMAIN Module.err = 1 .. 4
  /\ Module.err[1] = "class" /\ Module.err[2] = "cdev"
  /\ Module.err[3] = "region" /\ Module.err[4] = "pages"
BY DEF Module, CpuStatModule, SoftirqModule

\* The steps of exit.
LEMMA ExitTable ==
  /\ DOMAIN Module.exit = 1 .. 6
  /\ Module.exit[1] = "timer" /\ Module.exit[2] = "device" /\ Module.exit[3] = "class"
  /\ Module.exit[4] = "cdev" /\ Module.exit[5] = "region" /\ Module.exit[6] = "pages"
BY DEF Module, CpuStatModule, SoftirqModule

\* Acquiring a resource is a step below the first update.
LEMMA AcquiredAt ==
  ASSUME at \in 1 .. 7
  PROVE  /\ Module.init[at] \in Resources => at < 6
         /\ Module.init[at] = "update" <=> at = 6
         /\ Module.init[at] = "timer" <=> at = 7
<1>1. at = 1 \/ at = 2 \/ at = 3 \/ at = 4 \/ at = 5 \/ at = 6 \/ at = 7
  OBVIOUS
<1> QED
  BY <1>1, InitTable DEF Resources
-----------------------------------------------------------------------------
(* Each step of the module preserves LifeInv. *)

LEMMA AcquireLife == ASSUME LifeInv, Acquire, UNCHANGED pc PROVE LifeInv'
<1> USE DEF LifeInv, Acquire
<1>1. at \in 1 .. 5
  BY AcquiredAt DEF Phases
<1>2. HeldIsPrefix'
  <2>1. at = 1 \/ at = 2 \/ at = 3 \/ at = 4 \/ at = 5
    BY <1>1
  <2> QED
    BY <2>1, <1>1, InitTable DEF HeldIsPrefix, Level, Resources
<1>3. Phases' /\ TimerFits' /\ UpdateFits' /\ UsersFit'
  BY <1>1 DEF Phases, TimerFits, UpdateFits, UsersFit
<1> QED
  BY <1>2, <1>3

LEMMA AcquireFailsLife == ASSUME LifeInv, AcquireFails, UNCHANGED pc PROVE LifeInv'
<1> USE DEF LifeInv, AcquireFails
<1>1. at \in 1 .. 5
  BY AcquiredAt DEF Phases
<1>2. at' = 6 - at
  <2>1. at = 1 \/ at = 2 \/ at = 3 \/ at = 4 \/ at = 5
    BY <1>1
  <2> QED
    BY <2>1, InitTable, GotoTable
<1>3. HeldIsPrefix'
  BY <1>1, <1>2 DEF HeldIsPrefix, Level
<1>4. Phases' /\ TimerFits' /\ UpdateFits' /\ UsersFit'
  BY <1>1, <1>2 DEF Phases, TimerFits, UpdateFits, UsersFit
<1> QED
  BY <1>3, <1>4

LEMMA ReleaseLife == ASSUME LifeInv, Release, UNCHANGED pc PROVE LifeInv'
<1> USE DEF LifeInv, Release
<1>1. CASE mod = "failing"
  <2>1. at = 1 \/ at = 2 \/ at = 3 \/ at = 4
    BY <1>1, ErrTable DEF Path, Phases
  <2>2. HeldIsPrefix'
    BY <1>1, <2>1, ErrTable DEF HeldIsPrefix, Level, Path
  <2>3. Phases' /\ TimerFits' /\ UpdateFits' /\ UsersFit'
    BY <1>1, <2>1 DEF Phases, TimerFits, UpdateFits, UsersFit
  <2> QED
    BY <2>2, <2>3
<1>2. CASE mod = "going"
  <2>1. at = 2 \/ at = 3 \/ at = 4 \/ at = 5 \/ at = 6
    BY <1>2, ExitTable DEF Path, Phases, Resources
  <2>2. HeldIsPrefix'
    BY <1>2, <2>1, ExitTable DEF HeldIsPrefix, Level, Path
  <2>3. Phases' /\ TimerFits' /\ UpdateFits' /\ UsersFit'
    BY <1>2, <2>1 DEF Phases, TimerFits, UpdateFits, UsersFit
  <2> QED
    BY <2>2, <2>3
<1> QED
  BY <1>1, <1>2

LEMMA CancelTimerLife == ASSUME LifeInv, CancelTimer, UNCHANGED pc PROVE LifeInv'
<1> USE DEF LifeInv, CancelTimer
<1>1. at = 1
  <2>1. at = 1 \/ at = 2 \/ at = 3 \/ at = 4 \/ at = 5 \/ at = 6
    BY ExitTable DEF Path, Phases
  <2> QED
    BY <2>1, ExitTable DEF Path
<1>2. HeldIsPrefix'
  BY <1>1 DEF HeldIsPrefix, Level
<1>3. Phases' /\ TimerFits' /\ UpdateFits' /\ UsersFit'
  BY <1>1 DEF Phases, TimerFits, UpdateFits, UsersFit
<1> QED
  BY <1>2, <1>3

LEMMA UnloadedLife == ASSUME LifeInv, Unloaded, UNCHANGED pc PROVE LifeInv'
<1> USE DEF LifeInv, Unloaded
<1>1. IF mod = "failing" THEN at = 5 ELSE at = 7
  BY ErrTable, ExitTable DEF Path, Phases
<1>2. HeldIsPrefix'
  BY <1>1 DEF HeldIsPrefix, Level
<1>3. Phases' /\ TimerFits' /\ UpdateFits' /\ UsersFit'
  BY <1>1 DEF Phases, TimerFits, UpdateFits, UsersFit
<1> QED
  BY <1>2, <1>3

LEMMA PhaseLife ==
  ASSUME LifeInv, Insmod \/ FirstUpdate \/ StartTimer \/ Rmmod, UNCHANGED pc
  PROVE  LifeInv'
<1> USE DEF LifeInv
<1>1. CASE Insmod
  BY <1>1 DEF Insmod, Phases, HeldIsPrefix, Level, TimerFits, UpdateFits, UsersFit
<1>2. CASE FirstUpdate
  <2>1. at = 6
    BY <1>2, AcquiredAt DEF FirstUpdate, Phases
  <2> QED
    BY <1>2, <2>1
       DEF FirstUpdate, Phases, HeldIsPrefix, Level, TimerFits, UpdateFits, UsersFit, Resting
<1>3. CASE StartTimer
  <2>1. at = 7
    BY <1>3, AcquiredAt DEF StartTimer, Phases
  <2> QED
    BY <1>3, <2>1
       DEF StartTimer, Phases, HeldIsPrefix, Level, TimerFits, UpdateFits, UsersFit
<1>4. CASE Rmmod
  BY <1>4 DEF Rmmod, Phases, HeldIsPrefix, Level, TimerFits, UpdateFits, UsersFit
<1> QED
  BY <1>1, <1>2, <1>3, <1>4

LEMMA TimerLife ==
  ASSUME LifeInv, Expire \/ UpdateEnds \/ StoreName \/ StoreField, UNCHANGED pc
  PROVE  LifeInv'
<1> USE DEF LifeInv
<1>1. CASE Expire
  BY <1>1 DEF Expire, Phases, HeldIsPrefix, Level, TimerFits, UpdateFits, UsersFit, Resting
<1>2. CASE UpdateEnds
  <2>1. UNCHANGED <<mod, held, users>> /\ store # Resting /\ store' = Resting
    BY <1>2 DEF UpdateEnds, UpdateFits
  <2>2. CASE timer = "running"
    <3>1. timer' = "armed" /\ at' = at
      BY <1>2, <2>2 DEF UpdateEnds
    <3> QED
      BY <2>1, <2>2, <3>1
         DEF Phases, HeldIsPrefix, Level, TimerFits, UpdateFits, UsersFit, Resting
  <2>3. CASE timer # "running"
    <3>1. mod = "coming" /\ at = 6 /\ at' = 7 /\ timer' = timer
      BY <1>2, <2>1, <2>3 DEF UpdateEnds, UpdateFits
    <3> QED
      BY <2>1, <2>3, <3>1
         DEF Phases, HeldIsPrefix, Level, TimerFits, UpdateFits, UsersFit, Resting
  <2> QED
    BY <2>2, <2>3
<1>3. CASE StoreName \/ StoreField
  <2>1. store.idx \in Nat \ {0} /\ store \in [idx : Nat, field : Nat]
    BY <1>3 DEF StoreName, StoreField, UpdateFits, Stored
  <2>2. store' \in [idx : Nat, field : Nat] /\ store'.idx # 0
    BY <1>3, <2>1 DEF StoreName, StoreField, Fields, CpuStatFields, SoftirqFields
  <2> QED
    BY <1>3, <2>1, <2>2
       DEF StoreName, StoreField, Phases, HeldIsPrefix, Level, TimerFits, UpdateFits, UsersFit, Resting
<1> QED
  BY <1>1, <1>2, <1>3

LEMMA ReaderLife ==
  ASSUME LifeInv, OpenDevice \/ Mmap \/ MmapFails \/ Update \/ CloseDevice
  PROVE  LifeInv'
<1> USE DEF LifeInv
<1>1. UNCHANGED <<mod, at, held, timer, store>>
  BY DEF OpenDevice, Open, Mmap, MmapFails, Close, CloseDevice, Update, Scan, Load, Save, kernelVars
<1>2. Phases' /\ HeldIsPrefix' /\ TimerFits' /\ UpdateFits'
  BY <1>1 DEF Phases, HeldIsPrefix, Level, TimerFits, UpdateFits, Resting
<1>3. UsersFit'
  <2>1. CASE OpenDevice
    BY <2>1, <1>1
       DEF OpenDevice, Open, Openable, UsersFit, HeldIsPrefix, Level, Phases
  <2>2. CASE Mmap \/ MmapFails \/ CloseDevice
    BY <2>2, <1>1 DEF Mmap, MmapFails, CloseDevice, Close, UsersFit, kernelVars
  <2>3. CASE Update
    BY <2>3, <1>1 DEF Update, Scan, Load, Save, UsersFit, kernelVars
  <2> QED
    BY <2>1, <2>2, <2>3
<1> QED
  BY <1>2, <1>3

LEMMA LifeHolds == Spec => []LifeInv
<1>1. Init => LifeInv
  BY DEF Init, KernelInit, LifeInv, Phases, HeldIsPrefix, Level, TimerFits, UpdateFits, UsersFit, Resting
<1>2. LifeInv /\ [Next]_vars => LifeInv'
  <2> SUFFICES ASSUME LifeInv, [Next]_vars PROVE LifeInv'
    OBVIOUS
  <2>1. CASE KernelStep
    <3>1. UNCHANGED pc
      BY <2>1 DEF KernelStep, readerVars
    <3>2. CASE Loading \/ Unloading
      BY <3>1, <3>2, AcquireLife, AcquireFailsLife, PhaseLife, ReleaseLife, UnloadedLife
         DEF Loading, Unloading
    <3>3. CASE Insmod \/ Rmmod
      BY <3>1, <3>3, PhaseLife
    <3>4. CASE CancelTimer
      BY <3>1, <3>4, CancelTimerLife
    <3>5. CASE Expire \/ UpdateEnds
      BY <3>1, <3>5, TimerLife
    <3>6. ASSUME NEW c \in 1 .. cpus, NEW f \in FieldNames, Account(c, f)
          PROVE  LifeInv'
      BY <3>1, <3>6
         DEF Account, LifeInv, Phases, HeldIsPrefix, Level, TimerFits, UpdateFits, UsersFit, Resting
    <3> QED
      BY <2>1, <3>2, <3>3, <3>4, <3>5, <3>6 DEF KernelStep
  <2>2. CASE StoreStep
    BY <2>2, TimerLife DEF StoreStep
  <2>3. CASE OpenDevice \/ Mmap \/ MmapFails \/ Update \/ CloseDevice
    BY <2>3, ReaderLife
  <2>4. CASE UNCHANGED vars
    BY <2>4
       DEF vars, kernelVars, readerVars, LifeInv, Phases, HeldIsPrefix, Level, TimerFits, UpdateFits,
           UsersFit, Resting
  <2> QED
    BY <2>1, <2>2, <2>3, <2>4 DEF Next
<1> QED
  BY <1>1, <1>2, PTL DEF Spec

\* As long as a timer, an update or a mapping may touch the page, the module
\* holds it (__get_free_pages to free_pages), whatever step of init fails and
\* whenever rmmod is called.
THEOREM PageLiveCorrect == Spec => []PageLive
<1>1. LifeInv => PageLive
  BY DEF LifeInv, PageLive, Phases, HeldIsPrefix, Level, TimerFits, UpdateFits, UsersFit
<1> QED
  BY <1>1, LifeHolds, PTL

\* A module that is not loaded holds nothing: every label of init's error
\* path, and exit, release all that was acquired.
THEOREM NoLeakCorrect == Spec => []NoLeak
<1>1. LifeInv => NoLeak
  <2> SUFFICES ASSUME LifeInv, mod = "unloaded"
               PROVE  held = {} /\ timer = "off" /\ users = 0
    BY DEF NoLeak
  <2>1. held = {}
    BY DEF LifeInv, HeldIsPrefix, Level, Resources
  <2>2. timer = "off" /\ users = 0
    BY DEF LifeInv, TimerFits, UsersFit, Phases
  <2> QED
    BY <2>1, <2>2
<1> QED
  BY <1>1, LifeHolds, PTL
-----------------------------------------------------------------------------
(***************************************************************************)
(* Types.                                                                  *)
(***************************************************************************)

\* The fields of a record, for either driver.
LEMMA FieldTable ==
  /\ driver = "cpu_stat" => FieldNames = {"user", "idle", "irq"} /\ DOMAIN Fields = 1 .. 3
  /\ driver # "cpu_stat" => FieldNames = {"hi", "rcu"} /\ DOMAIN Fields = 1 .. 2
  /\ \A k \in DOMAIN Fields : Fields[k] \in FieldNames
<1>1. \A k \in DOMAIN Fields : Fields[k] \in FieldNames
  BY DEF FieldNames
<1>2. CASE driver = "cpu_stat"
  <2>1. Fields = <<"user", "idle", "irq">>
    BY <1>2 DEF Fields, CpuStatFields
  <2>2. DOMAIN Fields = 1 .. 3 /\ Fields[1] = "user" /\ Fields[2] = "idle" /\ Fields[3] = "irq"
    BY <2>1
  <2>3. \A k \in 1 .. 3 : k = 1 \/ k = 2 \/ k = 3
    OBVIOUS
  <2> QED
    BY <1>1, <1>2, <2>2, <2>3 DEF FieldNames
<1>3. CASE driver # "cpu_stat"
  <2>1. Fields = <<"hi", "rcu">>
    BY <1>3 DEF Fields, SoftirqFields
  <2>2. DOMAIN Fields = 1 .. 2 /\ Fields[1] = "hi" /\ Fields[2] = "rcu"
    BY <2>1
  <2>3. \A k \in 1 .. 2 : k = 1 \/ k = 2
    OBVIOUS
  <2> QED
    BY <1>1, <1>3, <2>2, <2>3 DEF FieldNames
<1> QED
  BY <1>2, <1>3

\* What each load reads and where it adds, and what each save writes.
LEMMA LoadTable ==
  /\ Len(Loads) \in 1 .. 5 /\ DOMAIN Loads = 1 .. Len(Loads)
  /\ \A k \in 1 .. Len(Loads) : Loads[k][1] \in {"total", "busy"} /\ Loads[k][2] \in FieldNames
  /\ Len(Saves) \in 1 .. 3 /\ DOMAIN Saves = 1 .. Len(Saves)
  /\ \A k \in 1 .. Len(Saves) : Saves[k] \in FieldNames
<1>1. CASE driver = "cpu_stat"
  BY <1>1, FieldTable DEF Loads, Saves, CpuStatLoads, CpuStatSaves
<1>2. CASE driver # "cpu_stat"
  BY <1>2, FieldTable DEF Loads, Saves, SoftirqLoads, SoftirqSaves
<1> QED
  BY <1>1, <1>2

KernelTypes ==
    /\ driver \in {"cpu_stat", "softirq"} /\ cpus \in CpuCounts /\ nohz \in BOOLEAN
    /\ store \in [idx : 0 .. MaxCpus + 1, field : 0 .. 3]
    /\ page \in [Idx -> [name : BOOLEAN, val : [FieldNames -> Nat]]]
    /\ kstat \in [1 .. cpus -> [FieldNames -> Nat]]
    /\ loads \in Nat

\* The reader's loops stay within its tables and its limit.
LoopTypes ==
    /\ pc \in {"idle", "open", "scan", "load", "save", "done"}
    /\ rec \in 1 .. Limit + 1
    /\ pc \in {"load", "save"} => rec \in 1 .. Limit
    /\ step \in 1 .. 5
    /\ pc = "load" => step \in 1 .. Len(Loads)
    /\ pc = "save" => step \in 1 .. Len(Saves)

\* What it collects has its types.
DataTypes ==
    /\ sum \in [total : Nat, busy : Nat]
    /\ DOMAIN cache \subseteq 1 .. Limit
    /\ \A c \in DOMAIN cache : cache[c] \in [FieldNames -> Nat]
    /\ DOMAIN told \subseteq DOMAIN cache
    /\ \A c \in DOMAIN told : told[c] \in Int

FlagTypes == early \in BOOLEAN /\ torn \in BOOLEAN

ReaderTypes == LoopTypes /\ DataTypes /\ FlagTypes

\* The limits fit the page.
LEMMA Limits ==
  /\ MaxCpus \in Nat \ {0} /\ Limit \in 1 .. MaxCpus
  /\ KernelTypes => cpus \in Nat \ {0} /\ Stored \subseteq Idx /\ Stored \subseteq 1 .. cpus
<1>1. MaxCpus \in Nat \ {0} /\ Limit \in 1 .. MaxCpus
  BY CpuAssumption, StatCountAssumption DEF Limit
<1>2. ASSUME KernelTypes
      PROVE  cpus \in Nat \ {0} /\ Stored \subseteq Idx /\ Stored \subseteq 1 .. cpus
  <2>1. cpus \in Nat \ {0}
    BY <1>2, CpuAssumption DEF KernelTypes
  <2> QED
    BY <1>1, <2>1 DEF Stored, Idx
<1> QED
  BY <1>1, <1>2

\* Remainders and quotients of natural numbers.
LEMMA Remainder == ASSUME NEW x \in Int, NEW w \in Nat \ {0} PROVE x % w \in Nat
OBVIOUS

LEMMA Quotient == ASSUME NEW x \in Nat, NEW w \in Nat \ {0} PROVE x \div w \in Nat
OBVIOUS

\* What is stored is a natural number, and so is what is cached of it, or
\* loaded.
LEMMA ConvertType ==
  ASSUME NEW f, NEW n \in Nat
  PROVE  Convert(f, n) \in Nat
<1>1. UintLimit \in Nat \ {0} /\ PerJiffy \in Nat \ {0}
  BY UnitAssumption
<1>2. n % UintLimit \in Nat
  BY <1>1, Remainder
<1>3. (n % UintLimit) + (PerJiffy - 1) \in Nat
  BY <1>1, <1>2
<1>4. /\ ((n % UintLimit) + (PerJiffy - 1)) \div PerJiffy \in Nat
      /\ n \div PerJiffy \in Nat
  BY <1>1, <1>3, Quotient
<1> QED
  BY <1>2, <1>4 DEF Convert

LEMMA FloatType == ASSUME NEW n \in Nat PROVE Float(n) \in Nat /\ Cached(n) \in Nat
BY WordAssumption DEF Float, Cached

LEMMA FloatDiffType ==
  ASSUME NEW x \in Nat, NEW y \in Nat
  PROVE  FloatDiff(x, y) \in Int
<1>1. x >= y => Float(x - y) \in Nat
  BY FloatType
<1>2. ~(x >= y) => Float(y - x) \in Nat
  BY FloatType
<1> QED
  BY <1>1, <1>2 DEF FloatDiff

\* Usage is a number, which is not negative for a sample.
LEMMA BusyType ==
  ASSUME KernelTypes, NEW val \in [FieldNames -> Nat]
  PROVE  Busy(val) \in Nat
<1>1. CASE driver = "cpu_stat"
  BY <1>1, FieldTable DEF Busy
<1>2. CASE driver # "cpu_stat"
  BY <1>2, FieldTable DEF Busy
<1> QED
  BY <1>1, <1>2

LEMMA UsageType ==
  ASSUME KernelTypes, cache[rec] \in [FieldNames -> Nat],
         NEW s \in [total : Nat, busy : Nat]
  PROVE  UsageOf(s).busy \in Int
<1>1. CASE driver = "cpu_stat"
  <2>1. cache[rec]["user"] \in Nat /\ cache[rec]["irq"] \in Nat
    BY <1>1, FieldTable
  <2>2. cache[rec]["user"] + cache[rec]["irq"] \in Nat
    BY <2>1
  <2>3. Float(s.busy) \in Nat /\ Float(cache[rec]["user"] + cache[rec]["irq"]) \in Nat
    BY <2>2, FloatType
  <2>4. UsageOf(s).busy
          = FloatDiff(Float(s.busy), Float(cache[rec]["user"] + cache[rec]["irq"]))
    BY <1>1 DEF UsageOf
  <2> QED
    BY <2>3, <2>4, FloatDiffType
<1>2. CASE driver # "cpu_stat"
  BY <1>2 DEF UsageOf
<1> QED
  BY <1>1, <1>2

\* What a load adds is a natural number, since differences are unsigned.
LEMMA AmountType ==
  ASSUME page[rec].val \in [FieldNames -> Nat],
         rec \in DOMAIN cache => cache[rec] \in [FieldNames -> Nat], NEW f \in FieldNames
  PROVE  Amount(f) \in Nat
<1>1. WordLimit \in Nat \ {0} /\ page[rec].val[f] \in Nat
  BY UnitAssumption, WordAssumption
<1>2. ASSUME rec \in DOMAIN cache PROVE (page[rec].val[f] - cache[rec][f]) % WordLimit \in Nat
  <2>1. page[rec].val[f] - cache[rec][f] \in Int
    BY <1>1, <1>2
  <2> QED
    BY <1>1, <2>1, Remainder
<1> QED
  BY <1>1, <1>2 DEF Amount

\* No step changes the driver or the number of CPUs, so neither the tables
\* that depend on them.
LEMMA DriverStays ==
  ASSUME [Next]_vars
  PROVE  /\ driver' = driver /\ cpus' = cpus /\ nohz' = nohz
         /\ FieldNames' = FieldNames /\ Fields' = Fields /\ Loads' = Loads /\ Saves' = Saves
         /\ Limit' = Limit /\ Stored' = Stored
<1>1. driver' = driver /\ cpus' = cpus /\ nohz' = nohz
  BY DEF Next, vars, kernelVars, KernelStep, StoreStep, Loading, Unloading, Insmod, Rmmod, Acquire,
         AcquireFails, FirstUpdate, StartTimer, Release, Unloaded, CancelTimer, Expire, UpdateEnds,
         Account, StoreName, StoreField, OpenDevice, Open, Mmap, MmapFails, Close, Update, Scan,
         Load, Save, CloseDevice
<1> QED
  BY <1>1 DEF FieldNames, Fields, Loads, Saves, Limit, Stored

\* Each step preserves the types of the kernel's part.
LEMMA KernelTypesStep == ASSUME KernelTypes, [Next]_vars PROVE KernelTypes'
<1>0. /\ driver' = driver /\ cpus' = cpus /\ nohz' = nohz
      /\ FieldNames' = FieldNames /\ Stored' = Stored
      /\ Stored \subseteq Idx /\ Stored \subseteq 1 .. cpus /\ MaxCpus \in Nat /\ cpus \in Nat \ {0}
  BY DriverStays, Limits
<1>1. CASE UNCHANGED <<store, page, kstat, loads>>
  BY <1>0, <1>1 DEF KernelTypes
<1>2. CASE Insmod
  BY <1>0, <1>2 DEF Insmod, KernelTypes
<1>3. CASE Acquire
  <2>1. [i \in Idx |-> EmptyRecord] \in [Idx -> [name : BOOLEAN, val : [FieldNames -> Nat]]]
    BY DEF EmptyRecord
  <2> QED
    BY <1>0, <1>3, <2>1 DEF Acquire, KernelTypes
<1>4. CASE FirstUpdate \/ Expire
  <2>1. store' \in [idx : 0 .. MaxCpus + 1, field : 0 .. 3]
    BY <1>0, <1>4 DEF FirstUpdate, Expire
  <2> QED
    BY <1>0, <1>4, <2>1 DEF FirstUpdate, Expire, KernelTypes
<1>5. CASE StoreName
  <2>1. store' \in [idx : 0 .. MaxCpus + 1, field : 0 .. 3]
    <3>1. store' = [store EXCEPT !.field = 1] /\ 1 \in 0 .. 3
      BY <1>5 DEF StoreName
    <3> QED
      BY <3>1 DEF KernelTypes
  <2>2. page' \in [Idx -> [name : BOOLEAN, val : [FieldNames -> Nat]]]
    BY <1>5 DEF StoreName, KernelTypes
  <2> QED
    BY <1>0, <1>5, <2>1, <2>2 DEF StoreName, KernelTypes
<1>6. CASE StoreField
  <2>1. Fields[store.field] \in FieldNames /\ store.idx \in Idx /\ store.idx \in 1 .. cpus
    BY <1>0, <1>6, FieldTable DEF StoreField
  <2>2. page' \in [Idx -> [name : BOOLEAN, val : [FieldNames -> Nat]]]
    <3> DEFINE i == store.idx
               f == Fields[store.field]
               n == Convert(f, kstat[i][f])
               record == [page[i] EXCEPT !.val = [@ EXCEPT ![f] = n]]
    <3>0. kstat[i][f] \in Nat
      BY <2>1 DEF KernelTypes
    <3>1. page[i] \in [name : BOOLEAN, val : [FieldNames -> Nat]] /\ n \in Nat
      BY <2>1, <3>0, ConvertType DEF KernelTypes
    <3> HIDE DEF n
    <3>2. record \in [name : BOOLEAN, val : [FieldNames -> Nat]]
      BY <2>1, <3>1
    <3>3. page' = [page EXCEPT ![i] = record]
      BY <1>6 DEF StoreField, n
    <3> HIDE DEF i, f, record
    <3> QED
      BY <3>2, <3>3 DEF KernelTypes
  <2>3. DOMAIN Fields \subseteq 1 .. 3
    BY FieldTable
  <2>4. store' \in [idx : 0 .. MaxCpus + 1, field : 0 .. 3]
    <3>1. CASE store.field + 1 \in DOMAIN Fields
      <4>1. store' = [store EXCEPT !.field = @ + 1] /\ store.field + 1 \in 0 .. 3
        BY <1>6, <2>3, <3>1 DEF StoreField
      <4> QED
        BY <4>1 DEF KernelTypes
    <3>2. CASE store.field + 1 \notin DOMAIN Fields
      <4>1. store' = [idx |-> store.idx + 1, field |-> 0] /\ store.idx + 1 \in 0 .. MaxCpus + 1
        BY <1>0, <1>6, <2>1, <3>2 DEF StoreField, Idx
      <4> QED
        BY <4>1
    <3> QED
      BY <3>1, <3>2
  <2> QED
    BY <1>0, <1>6, <2>2, <2>4 DEF StoreField, KernelTypes
<1>7. CASE UpdateEnds
  <2>1. store' \in [idx : 0 .. MaxCpus + 1, field : 0 .. 3]
    BY <1>0, <1>7 DEF UpdateEnds, Resting
  <2>2. page' \in [Idx -> [name : BOOLEAN, val : [FieldNames -> Nat]]]
    BY <1>7 DEF UpdateEnds, KernelTypes
  <2> QED
    BY <1>0, <1>7, <2>1, <2>2 DEF UpdateEnds, KernelTypes
<1>8. ASSUME NEW c \in 1 .. cpus, NEW f \in FieldNames, Account(c, f) PROVE KernelTypes'
  BY <1>0, <1>8 DEF Account, KernelTypes
<1> QED
  BY <1>1, <1>2, <1>3, <1>4, <1>5, <1>6, <1>7, <1>8
     DEF Next, vars, kernelVars, KernelStep, StoreStep, Loading, Unloading, Rmmod, AcquireFails,
         StartTimer, Release, Unloaded, CancelTimer, OpenDevice, Open, Mmap, MmapFails, Close,
         Update, Scan, Load, Save, CloseDevice

\* Each step preserves the types of the reader's part.
LEMMA ReaderTypesStep == ASSUME KernelTypes, ReaderTypes, [Next]_vars PROVE ReaderTypes'
<1>0. /\ FieldNames' = FieldNames /\ Loads' = Loads /\ Saves' = Saves /\ Limit' = Limit
      /\ MaxCpus \in Nat /\ Limit \in 1 .. MaxCpus
  BY DriverStays, Limits
<1>1. CASE UNCHANGED readerVars
  BY <1>0, <1>1 DEF readerVars, ReaderTypes, LoopTypes, DataTypes, FlagTypes
<1>2. CASE StoreStep
  BY <1>0, <1>2 DEF StoreStep, ReaderTypes, LoopTypes, DataTypes, FlagTypes
<1>3. CASE OpenDevice \/ Mmap \/ MmapFails \/ CloseDevice
  <2>1. LoopTypes'
    BY <1>0, <1>3 DEF OpenDevice, Mmap, MmapFails, CloseDevice, ReaderTypes, LoopTypes
  <2>2. DataTypes' /\ FlagTypes'
    BY <1>0, <1>3
       DEF OpenDevice, Mmap, MmapFails, CloseDevice, ReaderTypes, DataTypes, FlagTypes
  <2> QED
    BY <2>1, <2>2 DEF ReaderTypes
<1>4. CASE Scan
  <2>1. Len(Loads) \in 1 .. 5 /\ Len(Saves) \in 1 .. 3
    BY LoadTable
  <2>2. pc' \in {"load", "save", "done"} /\ (pc' # "done" => rec \in 1 .. Limit)
    BY <1>0, <1>4 DEF Scan, ReaderTypes, LoopTypes
  <2>3. rec' = rec /\ step' = 1 /\ sum' = NoSum /\ cache' = cache /\ told' = told
    BY <1>4 DEF Scan
  <2>4. LoopTypes'
    BY <1>0, <2>1, <2>2, <2>3 DEF ReaderTypes, LoopTypes
  <2>5. DataTypes'
    BY <1>0, <2>3 DEF ReaderTypes, DataTypes, NoSum
  <2>6. FlagTypes'
    BY <1>4 DEF Scan, Look, ReaderTypes, FlagTypes
  <2> QED
    BY <2>4, <2>5, <2>6 DEF ReaderTypes
<1>5. CASE Load
  <2> DEFINE load == Loads[step]
  <2>1. /\ step \in 1 .. Len(Loads) /\ Len(Loads) \in 1 .. 5 /\ Len(Saves) \in 1 .. 3
        /\ load[1] \in {"total", "busy"} /\ load[2] \in FieldNames /\ rec \in 1 .. Limit
    BY <1>5, LoadTable DEF Load, ReaderTypes, LoopTypes
  <2>2. page[rec].val \in [FieldNames -> Nat]
    BY <1>0, <2>1 DEF KernelTypes, Idx
  <2>3. Amount(load[2]) \in Nat
    BY <2>1, <2>2, AmountType DEF ReaderTypes, DataTypes
  <2>4. sum' = [sum EXCEPT ![load[1]] = @ + Amount(load[2])]
    BY <1>5 DEF Load
  <2>5. sum' \in [total : Nat, busy : Nat]
    BY <2>1, <2>3, <2>4 DEF ReaderTypes, DataTypes
  <2>6. DOMAIN told' \subseteq DOMAIN told /\ \A c \in DOMAIN told' : told'[c] \in Int
    <3>1. CASE step = Len(Loads) /\ rec \in DOMAIN told /\ ~early'
      <4>1. told' = [told EXCEPT ![rec] = @ + UsageOf(sum').busy]
        BY <1>5, <3>1 DEF Load
      <4>2. UsageOf(sum').busy \in Int
        BY <2>5, <3>1, UsageType DEF ReaderTypes, DataTypes
      <4> QED
        BY <3>1, <4>1, <4>2 DEF ReaderTypes, DataTypes
    <3>2. CASE step = Len(Loads) /\ rec \in DOMAIN told /\ early'
      <4>1. told' = Restrict(told, DOMAIN told \ {rec})
        BY <1>5, <3>2 DEF Load
      <4> QED
        BY <4>1 DEF Restrict, ReaderTypes, DataTypes
    <3>3. CASE ~(step = Len(Loads) /\ rec \in DOMAIN told)
      BY <1>5, <3>3 DEF Load, ReaderTypes, DataTypes
    <3> QED
      BY <3>1, <3>2, <3>3
  <2>7. /\ pc' \in {"load", "save"} /\ rec' = rec /\ cache' = cache /\ torn' = torn
        /\ early' \in BOOLEAN
        /\ IF step = Len(Loads) THEN pc' = "save" /\ step' = 1
                                ELSE pc' = "load" /\ step' = step + 1
    BY <1>5 DEF Load, Look, ReaderTypes, FlagTypes
  <2>8. LoopTypes'
    <3>1. CASE step = Len(Loads)
      <4>1. \A n \in 1 .. 3 : 1 \in 1 .. n
        OBVIOUS
      <4>2. 1 \in 1 .. Len(Saves)
        BY <2>1, <4>1, Zenon
      <4>3. step' = 1 /\ pc' = "save" /\ rec' = rec
        BY <2>7, <3>1
      <4> QED
        BY <1>0, <2>1, <4>2, <4>3 DEF ReaderTypes, LoopTypes
    <3>2. CASE step # Len(Loads)
      <4>1. \A n \in 1 .. 5 : \A k \in 1 .. n : k # n => k + 1 \in 1 .. n /\ k + 1 \in 1 .. 5
        OBVIOUS
      <4>2. step + 1 \in 1 .. Len(Loads) /\ step + 1 \in 1 .. 5
        BY <2>1, <3>2, <4>1
      <4>3. step' = step + 1 /\ pc' = "load" /\ rec' = rec
        BY <2>7, <3>2
      <4> QED
        BY <1>0, <2>1, <4>2, <4>3 DEF ReaderTypes, LoopTypes
    <3> QED
      BY <3>1, <3>2
  <2>9. DataTypes'
    BY <1>0, <2>5, <2>6, <2>7 DEF ReaderTypes, DataTypes
  <2> QED
    BY <2>7, <2>8, <2>9 DEF ReaderTypes, FlagTypes
<1>6. CASE Save
  <2> DEFINE old == IF rec \in DOMAIN cache THEN cache[rec] ELSE Zero
             new == [old EXCEPT ![Saves[step]] = Cached(page[rec].val[Saves[step]])]
  <2>1. step \in 1 .. Len(Saves) /\ Len(Saves) \in 1 .. 3 /\ Saves[step] \in FieldNames
        /\ rec \in 1 .. Limit
    BY <1>6, LoadTable DEF Save, ReaderTypes, LoopTypes
  <2>2. page[rec].val \in [FieldNames -> Nat] /\ old \in [FieldNames -> Nat]
    BY <1>0, <2>1 DEF KernelTypes, ReaderTypes, DataTypes, Idx, Zero
  <2>3. new \in [FieldNames -> Nat]
    <3>1. page[rec].val[Saves[step]] \in Nat
      BY <2>1, <2>2
    <3>2. Cached(page[rec].val[Saves[step]]) \in Nat
      BY <3>1, FloatType
    <3> QED
      BY <2>1, <2>2, <3>2
  <2>4. cache' = [c \in DOMAIN cache \union {rec} |-> IF c = rec THEN new ELSE cache[c]]
    BY <1>6 DEF Save
  <2>5. /\ DOMAIN cache' \subseteq 1 .. Limit /\ DOMAIN told \subseteq DOMAIN cache'
        /\ \A c \in DOMAIN cache' : cache'[c] \in [FieldNames -> Nat]
    BY <2>1, <2>3, <2>4 DEF ReaderTypes, DataTypes
  <2>6. Busy(new) \in Nat
    BY <2>3, BusyType
  <2>7. DOMAIN told' \subseteq DOMAIN cache' /\ \A c \in DOMAIN told' : told'[c] \in Int
    <3>1. CASE told' = told
      BY <2>5, <3>1 DEF ReaderTypes, DataTypes
    <3>2. CASE told' = [c \in DOMAIN told \union {rec} |->
                          IF c = rec THEN Busy(new) ELSE told[c]]
      BY <2>4, <2>5, <2>6, <3>2 DEF ReaderTypes, DataTypes
    <3> QED
      BY <1>6, <3>1, <3>2 DEF Save
  <2>8. /\ sum' = NoSum /\ torn' = FALSE /\ early' \in BOOLEAN
        /\ IF step = Len(Saves) THEN pc' = "scan" /\ step' = 1 /\ rec' = rec + 1
                                ELSE pc' = "save" /\ step' = step + 1 /\ rec' = rec
    BY <1>6 DEF Save, Look, ReaderTypes, FlagTypes
  <2>9. LoopTypes'
    BY <1>0, <2>1, <2>8 DEF ReaderTypes, LoopTypes
  <2>10. DataTypes'
    BY <1>0, <2>5, <2>7, <2>8 DEF DataTypes, NoSum
  <2> QED
    BY <2>8, <2>9, <2>10 DEF ReaderTypes, FlagTypes
<1> QED
  BY <1>1, <1>2, <1>3, <1>4, <1>5, <1>6 DEF Next, KernelStep, Update, vars

LEMMA TypesHold == Spec => [](KernelTypes /\ ReaderTypes)
<1>1. Init => KernelTypes /\ ReaderTypes
  <2> SUFFICES ASSUME Init PROVE KernelTypes /\ ReaderTypes
    OBVIOUS
  <2>1. KernelTypes
    <3>1. [i \in Idx |-> EmptyRecord] \in [Idx -> [name : BOOLEAN, val : [FieldNames -> Nat]]]
      BY DEF EmptyRecord
    <3>2. Resting \in [idx : 0 .. MaxCpus + 1, field : 0 .. 3]
      BY Limits DEF Resting
    <3> QED
      BY <3>1, <3>2 DEF Init, KernelInit, KernelTypes
  <2>2. ReaderTypes
    <3>1. LoopTypes /\ FlagTypes
      <4>1. pc = "idle" /\ rec = 1 /\ step = 1 /\ early = FALSE /\ torn = FALSE
        BY DEF Init
      <4>2. 1 \in 1 .. Limit + 1
        BY Limits
      <4>3. FlagTypes
        BY <4>1, Zenon DEF FlagTypes
      <4>4. LoopTypes
        BY <4>1, <4>2 DEF LoopTypes
      <4> QED
        BY <4>3, <4>4
    <3>2. DataTypes
      BY DEF Init, DataTypes, NoSum
    <3> QED
      BY <3>1, <3>2 DEF ReaderTypes
  <2> QED
    BY <2>1, <2>2
<1>2. KernelTypes /\ ReaderTypes /\ [Next]_vars => (KernelTypes /\ ReaderTypes)'
  BY KernelTypesStep, ReaderTypesStep
<1> QED
  BY <1>1, <1>2, PTL DEF Spec

\* The type invariant of StatMonitors: the driver's steps and the reader's
\* loops stay within their tables, and the file is open unless the reader is
\* idle.
THEOREM TypeCorrect == Spec => []TypeOK
<1>1. LifeInv /\ KernelTypes /\ ReaderTypes => TypeOK
  <2> SUFFICES ASSUME LifeInv, KernelTypes, ReaderTypes PROVE TypeOK
    OBVIOUS
  <2>1. KernelTypeOK
    BY DEF KernelTypeOK, LifeInv, Phases, HeldIsPrefix, TimerFits, UsersFit, KernelTypes
  <2> QED
    BY <2>1 DEF TypeOK, LifeInv, UsersFit, ReaderTypes, LoopTypes, DataTypes, FlagTypes
<1> QED
  BY <1>1, LifeHolds, TypesHold, PTL
=============================================================================
