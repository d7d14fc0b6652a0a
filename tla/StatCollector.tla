---------------------------- MODULE StatCollector ----------------------------
(***************************************************************************)
(* The kernel modules cpu_stat_collector and softirq_collector: a page of  *)
(* per-CPU records that a timer rewrites every second and that user space  *)
(* maps.  The two have the same control and differ in what they release,   *)
(* store and count, so a behaviour is about one driver, described by its   *)
(* tables, from one insmod to the next.                                    *)
(*                                                                         *)
(* Fields that the code treats alike stand for one another: user for user, *)
(* nice and system; idle for idle and iowait; irq for irq, softirq and     *)
(* steal; hi and rcu for the ten softirq counters.  Records are stored in  *)
(* this order, each field on its own, since nothing locks the page.        *)
(*                                                                         *)
(* The kernel's own counters are kept without a limit; what the drivers    *)
(* make of them when they store them is Convert.                           *)
(***************************************************************************)
EXTENDS Integers, FiniteSets, FiniteSetsExt

CONSTANTS
    CpuCounts,   \* what num_possible_cpus() may return
    MaxCpus,     \* MAX_CPUS, the records of the page
    UintLimit,   \* one more than the largest unsigned int (2^32)
    PerJiffy,    \* microseconds in a jiffy
    MaxTime,     \* bound: what the kernel's counters add up to
    MaxLoads     \* bound: calls of insmod

ASSUME CpuAssumption == CpuCounts \subseteq Nat \ {0} /\ MaxCpus \in Nat \ {0}

ASSUME UnitAssumption == UintLimit \in Nat \ {0} /\ PerJiffy \in Nat \ {0}

VARIABLES
    driver,   \* the driver of this behaviour
    cpus,     \* num_possible_cpus()
    nohz,     \* get_cpu_idle_time_us() has an answer
    mod,      \* "unloaded", "coming" (in init), "failing" (in init's error
              \* path), "live", "going" (in exit)
    at,       \* the next step of init, of its error path or of exit
    held,     \* what the module has acquired and not released
    timer,    \* update_timer: "off", "armed", "running" (in its callback)
    store,    \* where update_*_stats() is: [idx, field]; idx 0: not running
    page,     \* the shared records
    kstat,    \* the kernel's own counters, per CPU and field
    users,    \* open files, each of which pins the module
    loads     \* bound: calls of insmod so far

kernelVars == <<driver, cpus, nohz, mod, at, held, timer, store, page, kstat,
                users, loads>>

CpuStatFields == <<"user", "idle", "irq">>
SoftirqFields == <<"hi", "rcu">>
Fields == IF driver = "cpu_stat" THEN CpuStatFields ELSE SoftirqFields
FieldNames == {Fields[k] : k \in DOMAIN Fields}

(***************************************************************************)
(* init runs its steps in order; a step that fails goes to a label of the  *)
(* error path and falls through to its end (5: a plain return).            *)
(***************************************************************************)
\* Mutant of CpuStatModule: the first update is left to the timer.
CpuStatModuleLate ==
    [init |-> <<"pages", "region", "cdev", "class", "device", "timer">>,
     err  |-> <<"class", "cdev", "region", "pages">>,
     goto |-> [pages |-> 5, region |-> 4, cdev |-> 3, class |-> 2,
               device |-> 1],
     exit |-> <<"timer", "device", "class", "cdev", "region", "pages">>]

CpuStatModule ==
    [init |-> <<"pages", "region", "cdev", "class", "device", "update",
                "timer">>,
     err  |-> <<"class", "cdev", "region", "pages">>,
     goto |-> [pages |-> 5, region |-> 4, cdev |-> 3, class |-> 2,
               device |-> 1],
     exit |-> <<"timer", "device", "class", "cdev", "region", "pages">>]

\* Mutant of SoftirqModule: a failing class_create goes to err_unregister.
SoftirqModuleLeaks ==
    [init |-> <<"pages", "region", "cdev", "class", "device", "update",
                "timer">>,
     err  |-> <<"class", "cdev", "region", "pages">>,
     goto |-> [pages |-> 5, region |-> 4, cdev |-> 3, class |-> 3,
               device |-> 1],
     exit |-> <<"timer", "device", "class", "cdev", "region", "pages">>]

SoftirqModule ==
    [init |-> <<"pages", "region", "cdev", "class", "device", "update",
                "timer">>,
     err  |-> <<"class", "cdev", "region", "pages">>,
     goto |-> [pages |-> 5, region |-> 4, cdev |-> 3, class |-> 2,
               device |-> 1],
     exit |-> <<"timer", "device", "class", "cdev", "region", "pages">>]

Module == IF driver = "cpu_stat" THEN CpuStatModule ELSE SoftirqModule
Resources == {"pages", "region", "cdev", "class", "device"}

Idx == 1 .. MaxCpus
EmptyRecord == [name |-> FALSE, val |-> [f \in FieldNames |-> 0]]
Stored == 1 .. (IF cpus < MaxCpus THEN cpus ELSE MaxCpus)
Resting == [idx |-> 0, field |-> 0]

KernelInit ==
    /\ driver \in {"cpu_stat", "softirq"}
    /\ cpus \in CpuCounts
    /\ nohz \in IF driver = "cpu_stat" THEN BOOLEAN ELSE {FALSE}
    /\ mod = "unloaded" /\ at = 1 /\ held = {}
    /\ timer = "off" /\ store = Resting
    /\ page = [i \in Idx |-> EmptyRecord]
    /\ kstat = [c \in 1 .. cpus |-> [f \in FieldNames |-> 0]]
    /\ users = 0 /\ loads = 0

-----------------------------------------------------------------------------
(* init and exit *)

Insmod ==
    /\ mod = "unloaded" /\ loads < MaxLoads
    /\ mod' = "coming" /\ at' = 1 /\ loads' = loads + 1
    /\ UNCHANGED <<driver, cpus, nohz, held, timer, store, page, kstat, users>>

\* A step of init that can fail: it does not ...
Acquire ==
    /\ mod = "coming" /\ Module.init[at] \in Resources
    /\ held' = held \union {Module.init[at]}
    /\ page' = IF Module.init[at] = "pages"          \* __GFP_ZERO
               THEN [i \in Idx |-> EmptyRecord] ELSE page
    /\ at' = at + 1
    /\ UNCHANGED <<driver, cpus, nohz, mod, timer, store, kstat, users, loads>>

\* ... or it does.
AcquireFails ==
    /\ mod = "coming" /\ Module.init[at] \in Resources
    /\ mod' = "failing" /\ at' = Module.goto[Module.init[at]]
    /\ UNCHANGED <<driver, cpus, nohz, held, timer, store, page, kstat, users, loads>>

FirstUpdate ==
    /\ mod = "coming" /\ Module.init[at] = "update" /\ store = Resting
    /\ store' = [idx |-> 1, field |-> 0]
    /\ UNCHANGED <<driver, cpus, nohz, mod, at, held, timer, page, kstat, users, loads>>

StartTimer ==
    /\ mod = "coming" /\ Module.init[at] = "timer"
    /\ timer' = "armed" /\ mod' = "live"
    /\ UNCHANGED <<driver, cpus, nohz, at, held, store, page, kstat, users, loads>>

\* Mutant of Rmmod: the file operations have no owner.
RmmodUnpinned ==
    /\ mod = "live"
    /\ mod' = "going" /\ at' = 1
    /\ UNCHANGED <<driver, cpus, nohz, held, timer, store, page, kstat, users, loads>>

\* A file that is open holds a reference: rmmod answers EBUSY.
Rmmod ==
    /\ mod = "live" /\ users = 0
    /\ mod' = "going" /\ at' = 1
    /\ UNCHANGED <<driver, cpus, nohz, held, timer, store, page, kstat, users, loads>>

Path == IF mod = "failing" THEN Module.err ELSE Module.exit

Release ==
    /\ mod \in {"failing", "going"} /\ at \in DOMAIN Path
    /\ Path[at] \in Resources
    /\ held' = held \ {Path[at]} /\ at' = at + 1
    /\ UNCHANGED <<driver, cpus, nohz, mod, timer, store, page, kstat, users, loads>>

\* hrtimer_cancel waits for a callback that is running.
CancelTimer ==
    /\ mod = "going" /\ at \in DOMAIN Path /\ Path[at] = "timer"
    /\ timer # "running"
    /\ timer' = "off" /\ at' = at + 1
    /\ UNCHANGED <<driver, cpus, nohz, mod, held, store, page, kstat, users, loads>>

Unloaded ==
    /\ mod \in {"failing", "going"} /\ at \notin DOMAIN Path
    /\ mod' = "unloaded" /\ at' = 1
    /\ UNCHANGED <<driver, cpus, nohz, held, timer, store, page, kstat, users, loads>>

-----------------------------------------------------------------------------
(* The timer, and the update it and init run *)

\* Mutant of Expire: the page is cleared before it is filled anew.
ExpireClears ==
    /\ timer = "armed"
    /\ timer' = "running" /\ store' = [idx |-> 1, field |-> 0]
    /\ page' = [i \in Idx |-> EmptyRecord]
    /\ UNCHANGED <<driver, cpus, nohz, mod, at, held, kstat, users, loads>>

Expire ==
    /\ timer = "armed"
    /\ timer' = "running" /\ store' = [idx |-> 1, field |-> 0]
    /\ UNCHANGED <<driver, cpus, nohz, mod, at, held, page, kstat, users, loads>>

StoreName ==
    /\ store.idx \in Stored /\ store.field = 0
    /\ page' = [page EXCEPT ![store.idx].name = TRUE]
    /\ store' = [store EXCEPT !.field = 1]
    /\ UNCHANGED <<driver, cpus, nohz, mod, at, held, timer, kstat, users, loads>>

\* What a driver stores of a counter: the kernel counts softirqs in an unsigned
\* int; the times of cpu_stat are 64 bits, rounded down to jiffies, but idle and
\* iowait are rounded up and, on their way to usecs_to_jiffies(unsigned int),
\* lose what is above 32 bits.
Convert(f, t) ==
    IF driver = "softirq" THEN t % UintLimit
    ELSE IF f = "idle" /\ nohz
         THEN ((t % UintLimit) + (PerJiffy - 1)) \div PerJiffy
         ELSE t \div PerJiffy

StoreField ==
    /\ store.idx \in Stored /\ store.field \in DOMAIN Fields
    /\ LET f == Fields[store.field]
       IN  page' = [page EXCEPT ![store.idx].val[f] = Convert(f, kstat[store.idx][f])]
    /\ store' = IF store.field + 1 \in DOMAIN Fields
                THEN [store EXCEPT !.field = @ + 1]
                ELSE [idx |-> store.idx + 1, field |-> 0]
    /\ UNCHANGED <<driver, cpus, nohz, mod, at, held, timer, kstat, users, loads>>

\* Mutant of UpdateEnds: the callback returns HRTIMER_NORESTART.
UpdateEndsForGood ==
    /\ store.idx > 0 /\ store.idx \notin Stored
    /\ page' = IF store.idx \in Idx
               THEN [page EXCEPT ![store.idx].name = FALSE] ELSE page
    /\ store' = Resting
    /\ IF timer = "running"
       THEN timer' = "off" /\ UNCHANGED at
       ELSE at' = at + 1 /\ UNCHANGED timer
    /\ UNCHANGED <<driver, cpus, nohz, mod, held, kstat, users, loads>>

\* The end mark, if there is room for it; then init goes on, or the callback
\* returns HRTIMER_RESTART.
UpdateEnds ==
    /\ store.idx > 0 /\ store.idx \notin Stored
    /\ page' = IF store.idx \in Idx
               THEN [page EXCEPT ![store.idx].name = FALSE] ELSE page
    /\ store' = Resting
    /\ IF timer = "running"
       THEN timer' = "armed" /\ UNCHANGED at
       ELSE at' = at + 1 /\ UNCHANGED timer
    /\ UNCHANGED <<driver, cpus, nohz, mod, held, kstat, users, loads>>

TimeLeft ==
    MapThenSumSet(LAMBDA cf : kstat[cf[1]][cf[2]],
                  (1 .. cpus) \X FieldNames) < MaxTime

\* The kernel accounts a unit of time, or a softirq.  Its counters survive
\* the module.
Account(c, f) ==
    /\ kstat' = [kstat EXCEPT ![c][f] = @ + 1]
    /\ UNCHANGED <<driver, cpus, nohz, mod, at, held, timer, store, page, users, loads>>

-----------------------------------------------------------------------------
(* What the file operations do to the module *)

\* There is a device file, and the module is not on its way out.
Openable == "device" \in held /\ mod # "going"

Open ==
    /\ Openable
    /\ users' = users + 1
    /\ UNCHANGED <<driver, cpus, nohz, mod, at, held, timer, store, page, kstat, loads>>

Close ==
    /\ users' = users - 1
    /\ UNCHANGED <<driver, cpus, nohz, mod, at, held, timer, store, page, kstat, loads>>

-----------------------------------------------------------------------------
(* Properties *)

\* Types.
KernelTypeOK ==
    /\ driver \in {"cpu_stat", "softirq"} /\ cpus \in CpuCounts /\ nohz \in BOOLEAN
    /\ mod \in {"unloaded", "coming", "failing", "live", "going"}
    /\ at \in 1 .. 7 /\ held \subseteq Resources
    /\ timer \in {"off", "armed", "running"}
    /\ store \in [idx : 0 .. MaxCpus + 1, field : 0 .. 3]
    /\ page \in [Idx -> [name : BOOLEAN, val : [FieldNames -> Nat]]]
    /\ kstat \in [1 .. cpus -> [FieldNames -> Nat]]
    /\ users \in Nat /\ loads \in Nat

\* The pages are there as long as anything may touch them: a timer that is
\* armed or in its callback, an update, or a file that may be mapped.
PageLive ==
    (timer # "off" \/ store # Resting \/ users > 0) => "pages" \in held

\* Whatever step of init fails, and after every rmmod, all that was acquired
\* is released, and the timer is off.
NoLeak == mod = "unloaded" => held = {} /\ timer = "off" /\ users = 0

=============================================================================
