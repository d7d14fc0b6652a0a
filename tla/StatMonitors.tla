---------------------------- MODULE StatMonitors -----------------------------
(***************************************************************************)
(* CpuStatMonitor and CpuSoftIrqMonitor, the readers of the page that      *)
(* StatCollector describes, and the two together.  Each push opens and     *)
(* maps the device, walks over the records, reports the differences to the *)
(* previous sample, and caches the new one.                                *)
(*                                                                         *)
(* The fields of a record are loaded one by one, several times: for the    *)
(* sums of the message, and again for the cache.  The timer may store      *)
(* between any two loads.  Times are not modelled but for their order: the *)
(* samples of two pushes are at least a second apart.                      *)
(*                                                                         *)
(* CpuStatMonitor keeps its sample in floats, and the sums and differences *)
(* it makes of them are floats.  CpuSoftIrqMonitor subtracts its int64_t   *)
(* sample from the uint64_t of the page, so that its differences are       *)
(* unsigned.  The percentages and rates made of the differences are left   *)
(* out.                                                                    *)
(***************************************************************************)
EXTENDS StatCollector, Sequences, Functions

CONSTANTS
    StatCount,   \* stat_count, the records CpuStatMonitor looks at
    WordLimit,   \* one more than the largest uint64_t (2^64)
    Rounded      \* the nearest float of each integer that is not one; the
                 \* least such integer is 2^24 + 1

ASSUME StatCountAssumption == StatCount \in 1 .. MaxCpus

ASSUME WordAssumption ==
    /\ WordLimit \in Nat /\ UintLimit <= WordLimit
    /\ DOMAIN Rounded \subseteq Nat /\ Rounded \in [DOMAIN Rounded -> Nat]

VARIABLES
    pc,      \* the reader: "idle", "open", "scan", "load", "save", "done"
    rec,     \* i, the record it is at
    step,    \* the next of the loads, or of the fields to save
    sum,     \* what the loads of this record add up to, by sum
    cache,   \* cpu_stat_map_ or cpu_softirqs_: CPUs sampled before
    told,    \* history: the first sample of a CPU plus all usage reported; it
             \* starts anew after a pass that met a driver still in its init
    early,   \* history: this pass has read the page before init was done
    torn     \* history: this record was stored to since the reader got to it

readerVars == <<pc, rec, step, sum, cache, told, early, torn>>
vars == <<kernelVars, readerVars>>

\* The loads for a message: the sum each adds to, and the field.
CpuStatLoads == <<<<"total", "user">>, <<"total", "idle">>, <<"total", "irq">>,
                  <<"busy", "user">>, <<"busy", "irq">>>>
SoftirqLoads == <<<<"busy", "hi">>, <<"busy", "rcu">>>>
Loads == IF driver = "cpu_stat" THEN CpuStatLoads ELSE SoftirqLoads

CpuStatSaves == <<"user", "idle", "irq">>
SoftirqSaves == <<"hi", "rcu">>
Saves == IF driver = "cpu_stat" THEN CpuStatSaves ELSE SoftirqSaves

Limit == IF driver = "cpu_stat" THEN StatCount ELSE MaxCpus
NoSum == [total |-> 0, busy |-> 0]
Zero == [f \in FieldNames |-> 0]

Float(n) == IF n \in DOMAIN Rounded THEN Rounded[n] ELSE n
FloatDiff(x, y) == IF x >= y THEN Float(x - y) ELSE - Float(y - x)

\* A value as the reader caches it, and as it loads it for a message.
Cached(v) == IF driver = "cpu_stat" THEN Float(v) ELSE v

Amount(f) ==
    IF driver = "softirq" /\ rec \in DOMAIN cache
    THEN (page[rec].val[f] - cache[rec][f]) % WordLimit
    ELSE page[rec].val[f]

\* The usage since the previous sample that a message is about, of the sums s
\* of its loads.
UsageOf(s) ==
    LET old == cache[rec]
    IN  IF driver = "cpu_stat"
        THEN [total |-> FloatDiff(Float(s.total),
                            Float(Float(old["user"] + old["idle"]) + old["irq"])),
              busy |-> FloatDiff(Float(s.busy), Float(old["user"] + old["irq"]))]
        ELSE s

Usage == UsageOf(sum)

\* The time or the softirqs of a sample.
Busy(val) == IF driver = "cpu_stat" THEN val["user"] + val["irq"]
                                    ELSE val["hi"] + val["rcu"]

Init ==
    /\ KernelInit
    /\ pc = "idle" /\ rec = 1 /\ step = 1 /\ sum = NoSum
    /\ cache = <<>> /\ told = <<>>
    /\ early = FALSE /\ torn = FALSE

-----------------------------------------------------------------------------
(* UpdateOnce.  Without a device it returns at once, which is a stutter. *)

OpenDevice ==
    /\ pc = "idle" /\ Open
    /\ pc' = "open" /\ rec' = 1
    /\ UNCHANGED <<step, sum, cache, told, early, torn>>

Mmap ==
    /\ pc = "open" /\ pc' = "scan"
    /\ UNCHANGED <<kernelVars, rec, step, sum, cache, told, early, torn>>

\* Mutant of MmapFails: the file stays open.
MmapFailsLeaksFile ==
    /\ pc = "open" /\ pc' = "idle"
    /\ UNCHANGED <<kernelVars, rec, step, sum, cache, told, early, torn>>

MmapFails ==
    /\ pc = "open" /\ Close /\ pc' = "idle"
    /\ UNCHANGED <<rec, step, sum, cache, told, early, torn>>

\* The page as this step reads it.
Look == early' = (early \/ mod = "coming")

\* The name of a record decides whether it is the last; the cache, whether
\* there is something to report.  (CpuSoftIrqMonitor reports its first sample
\* too, the raw counters: its loads are made in any case.)
Scan ==
    /\ pc = "scan" /\ Look
    /\ pc' = IF rec > Limit THEN "done"
             ELSE IF ~page[rec].name THEN "done"
             ELSE IF driver = "softirq" \/ rec \in DOMAIN cache THEN "load"
             ELSE "save"
    /\ step' = 1 /\ sum' = NoSum /\ torn' = FALSE
    /\ UNCHANGED <<kernelVars, rec, cache, told>>

\* The message is complete after the last load.
Load ==
    /\ pc = "load" /\ Look
    /\ LET load == Loads[step]
           last == step = Len(Loads)
       IN  /\ sum' = [sum EXCEPT ![load[1]] = @ + Amount(load[2])]
           /\ pc' = IF last THEN "save" ELSE "load"
           /\ step' = IF last THEN 1 ELSE step + 1
           /\ told' = IF ~last \/ rec \notin DOMAIN told THEN told
                      ELSE IF early' THEN Restrict(told, DOMAIN told \ {rec})
                      ELSE [told EXCEPT ![rec] = @ + UsageOf(sum').busy]
    /\ UNCHANGED <<kernelVars, rec, cache, torn>>

\* Mutant of Save: insert() instead of operator[], which keeps what is there.
SaveInserts ==
    /\ pc = "save" /\ Look
    /\ LET f == Saves[step]
           last == step = Len(Saves)
           old == IF rec \in DOMAIN cache THEN cache[rec] ELSE Zero
           new == IF rec \in DOMAIN told THEN old
                  ELSE [old EXCEPT ![f] = Cached(page[rec].val[f])]
       IN  /\ cache' = [c \in DOMAIN cache \union {rec} |->
                          IF c = rec THEN new ELSE cache[c]]
           /\ pc' = IF last THEN "scan" ELSE "save"
           /\ rec' = IF last THEN rec + 1 ELSE rec
           /\ step' = IF last THEN 1 ELSE step + 1
           /\ told' = IF last /\ rec \notin DOMAIN told
                      THEN [c \in DOMAIN told \union {rec} |->
                              IF c = rec THEN Busy(new) ELSE told[c]]
                      ELSE told
    /\ sum' = NoSum /\ torn' = FALSE
    /\ UNCHANGED kernelVars

\* cached.f = stats[i].f, field by field.
Save ==
    /\ pc = "save" /\ Look
    /\ LET f == Saves[step]
           last == step = Len(Saves)
           old == IF rec \in DOMAIN cache THEN cache[rec] ELSE Zero
           new == [old EXCEPT ![f] = Cached(page[rec].val[f])]
       IN  /\ cache' = [c \in DOMAIN cache \union {rec} |->
                          IF c = rec THEN new ELSE cache[c]]
           /\ pc' = IF last THEN "scan" ELSE "save"
           /\ rec' = IF last THEN rec + 1 ELSE rec
           /\ step' = IF last THEN 1 ELSE step + 1
           /\ told' = IF last /\ rec \notin DOMAIN told
                      THEN [c \in DOMAIN told \union {rec} |->
                              IF c = rec THEN Busy(new) ELSE told[c]]
                      ELSE told
    /\ sum' = NoSum /\ torn' = FALSE
    /\ UNCHANGED kernelVars

CloseDevice ==
    /\ pc = "done" /\ Close
    /\ pc' = "idle" /\ early' = FALSE
    /\ UNCHANGED <<rec, step, sum, cache, told, torn>>

Update == Scan \/ Load \/ Save

-----------------------------------------------------------------------------

StoreStep ==
    /\ StoreName \/ StoreField
    /\ torn' = (torn \/ (pc = "load" /\ store.idx = rec))
    /\ UNCHANGED <<pc, rec, step, sum, cache, told, early>>

Loading == Acquire \/ AcquireFails \/ FirstUpdate \/ StartTimer
Unloading == Release \/ Unloaded

KernelStep ==
    /\ \/ Insmod \/ Rmmod \/ Loading \/ Unloading \/ CancelTimer
       \/ Expire \/ UpdateEnds
       \/ TimeLeft /\ \E c \in 1 .. cpus, f \in FieldNames : Account(c, f)
    /\ UNCHANGED readerVars

Next ==
    \/ KernelStep \/ StoreStep
    \/ OpenDevice \/ Mmap \/ MmapFails \/ Update \/ CloseDevice

(***************************************************************************)
(* init and exit run to their end, the timer fires, and the worker comes   *)
(* back.  Strong fairness: mmap does not fail for ever, and hrtimer_cancel *)
(* finds the timer, which is at rest for almost all of a second, between   *)
(* two callbacks.                                                          *)
(***************************************************************************)
Fairness ==
    /\ WF_vars(Loading /\ UNCHANGED readerVars)
    /\ WF_vars(Unloading /\ UNCHANGED readerVars)
    /\ WF_vars((Expire \/ UpdateEnds) /\ UNCHANGED readerVars)
    /\ WF_vars(StoreStep)
    /\ WF_vars(OpenDevice) /\ WF_vars(Update) /\ WF_vars(CloseDevice)
    /\ SF_vars(Mmap) /\ SF_vars(CancelTimer /\ UNCHANGED readerVars)

Spec == Init /\ [][Next]_vars /\ Fairness

-----------------------------------------------------------------------------
(* Properties *)

\* Types; the program counters of the driver and of its reader fit together.
TypeOK ==
    /\ KernelTypeOK
    /\ pc \in {"idle", "open", "scan", "load", "save", "done"}
    /\ users = (IF pc = "idle" THEN 0 ELSE 1)
    /\ rec \in 1 .. Limit + 1
    /\ step \in 1 .. 5
    /\ sum \in [total : Nat, busy : Nat]
    /\ DOMAIN cache \subseteq 1 .. Limit
    /\ \A c \in DOMAIN cache : cache[c] \in [FieldNames -> Nat]
    /\ DOMAIN told \subseteq DOMAIN cache
    /\ \A c \in DOMAIN told : told[c] \in Int
    /\ early \in BOOLEAN /\ torn \in BOOLEAN

\* What an update would store of a CPU now.
Sample(c) == [f \in FieldNames |-> Convert(f, kstat[c][f])]

\* No counter of the CPU has wrapped yet, and no sum of its times needs
\* rounding.
Fits(c) ==
    IF driver = "cpu_stat"
    THEN /\ nohz => kstat[c]["idle"] < UintLimit
         /\ \A n \in 0 .. Busy(Sample(c)) + Sample(c)["idle"] :
                n \notin DOMAIN Rounded
    ELSE \A f \in FieldNames : kstat[c][f] < UintLimit

\* What a message says of a CPU, once its loads are made: the usage is what has
\* passed since the previous sample, no less than nothing and no more than the
\* kernel has counted since, although the counters are read while they are
\* stored and the page starts from zero at each insmod; and it is at most the
\* time that has passed, unless the record was stored to in between.  Not so
\* for a pass that meets a driver still in its init, before its first update
\* is complete, nor once a counter has wrapped or needs rounding.
UsageInRange ==
    (pc = "save" /\ step = 1 /\ rec \in DOMAIN cache /\ ~early /\ Fits(rec)) =>
        /\ Usage.busy \in 0 .. Busy(Sample(rec)) - Busy(cache[rec])
        /\ driver = "cpu_stat" =>
             /\ Usage.total >= 0
             /\ torn \/ Usage.busy <= Usage.total

\* No usage is reported twice: what the messages about a CPU add up to, on top
\* of its first sample, has really passed in the kernel, however the loads and
\* stores interleave and however often the driver is reloaded.  The messages of
\* a pass that meets a driver still in its init are not counted, and the count
\* starts anew after them; nor is anything said once a counter has wrapped or
\* needs rounding.
ReportedOnce ==
    \A c \in DOMAIN told : Fits(c) => told[c] <= Busy(Sample(c))

\* A softirq message never tells more than the kernel has counted (the comment
\* at cpu_softirq_monitor.cpp:67 calls its fields the frequency per second).
\* It does: a pass that meets a record whose name the first update after a
\* reload has stored, but not yet its counters, subtracts the old sample from
\* zero.
FrequencyIsReal ==
    (pc = "save" /\ step = 1 /\ driver = "softirq" /\ rec \in DOMAIN cache) =>
        Usage.busy <= Busy(Sample(rec))

\* A pass over the page sees every CPU that the driver stores, up to the limit
\* of the reader: no end mark shows up among the records while they are
\* rewritten.  A pass that meets a driver still in its init, whose first update
\* is not complete, may see fewer.
PassComplete ==
    (pc = "done" /\ ~early) => \A c \in Stored : c <= Limit => c < rec

\* What the kernel has counted reaches the reader while the driver stays
\* loaded: the timer is started again after each callback.  (The counters come
\* to rest at MaxTime, so the sample can equal them.)
CaughtUp ==
    \A c \in Stored : c <= Limit =>
        c \in DOMAIN cache
          /\ cache[c] = [f \in FieldNames |-> Cached(Sample(c)[f])]

Refreshes == <>[](mod = "live") => <>CaughtUp

=============================================================================
