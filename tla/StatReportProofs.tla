-------------------------- MODULE StatReportProofs ---------------------------
(***************************************************************************)
(* What the readers report, for any number of CPUs and of reloads, any     *)
(* units and any rounding: no usage of a CPU is reported twice, a pass     *)
(* sees every CPU, and a message claims no less than no usage, no more     *)
(* than the kernel has counted, and no more usage than time.               *)
(*                                                                         *)
(* The argument: a record on the page never exceeds what the kernel's      *)
(* counters would now be stored as, and it only grows while the file is    *)
(* open, since the page is cleared only before there is a device.  The     *)
(* reader loads what it reports before it saves the sample that the next   *)
(* report is taken against, so a save never falls behind what was          *)
(* reported.  In the other direction the page must not be behind a sample, *)
(* or an unsigned difference would wrap: init's own update, before the     *)
(* timer starts, is what makes up for the cleared page.                    *)
(*                                                                         *)
(* All of it is said of the CPUs in FitSet, none of whose counters has     *)
(* wrapped or needs rounding.  A CPU may leave it, and never comes back.   *)
(***************************************************************************)
EXTENDS StatMonitorsProofs

FitSet == {i \in Stored : Fits(i)}
Samples == [i \in Stored |-> Sample(i)]

\* What counts as usage, and as time, by driver.
BusyOf(d, val) ==
    IF d = "cpu_stat" THEN val["user"] + val["irq"] ELSE val["hi"] + val["rcu"]
TotalOf(val) == val["user"] + val["idle"] + val["irq"]

\* Only the records of CPUs have names, and they do not run ahead.
PageInv ==
    /\ \A i \in Idx : page[i].name => i \in Stored
    /\ \A i \in FitSet, f \in FieldNames : page[i].val[f] <= Samples[i][f]

RecInv == pc \in {"load", "save"} => rec \in Stored

CacheInv ==
    /\ DOMAIN cache \subseteq Stored
    /\ \A c \in DOMAIN cache \cap FitSet, f \in FieldNames : cache[c][f] <= Samples[c][f]

BoundInv == PageInv /\ RecInv /\ CacheInv

Types == KernelTypes /\ ReaderTypes
-----------------------------------------------------------------------------
(* Lemmas about the numbers. *)

\* Time and usage of a sample.
LEMMA BusyIs ==
  ASSUME KernelTypes, NEW val \in [FieldNames -> Nat]
  PROVE  /\ BusyOf(driver, val) \in Nat /\ Busy(val) = BusyOf(driver, val)
         /\ driver = "cpu_stat" => /\ TotalOf(val) \in Nat
                                   /\ TotalOf(val) = Busy(val) + val["idle"]
                                   /\ BusyOf(driver, val) <= TotalOf(val)
<1>1. CASE driver = "cpu_stat"
  BY <1>1, FieldTable DEF Busy, BusyOf, TotalOf
<1>2. CASE driver # "cpu_stat"
  BY <1>2, FieldTable DEF Busy, BusyOf
<1> QED
  BY <1>1, <1>2

\* Usage grows with the fields.
LEMMA BusyGrows ==
  ASSUME KernelTypes, NEW u \in [FieldNames -> Nat], NEW v \in [FieldNames -> Nat],
         \A f \in FieldNames : u[f] <= v[f]
  PROVE  /\ BusyOf(driver, u) <= BusyOf(driver, v)
         /\ driver = "cpu_stat" => TotalOf(u) <= TotalOf(v)
<1>1. CASE driver = "cpu_stat"
  <2>1. u["user"] <= v["user"] /\ u["irq"] <= v["irq"] /\ u["idle"] <= v["idle"]
    BY <1>1, FieldTable
  <2> QED
    BY <1>1, <2>1, FieldTable DEF BusyOf, TotalOf
<1>2. CASE driver # "cpu_stat"
  <2>1. u["hi"] <= v["hi"] /\ u["rcu"] <= v["rcu"]
    BY <1>2, FieldTable
  <2> QED
    BY <1>2, <2>1, FieldTable DEF BusyOf
<1> QED
  BY <1>1, <1>2

\* Quotients grow with the dividend, and what is small is its own remainder.
LEMMA QuotientGrows ==
  ASSUME NEW x \in Nat, NEW y \in Nat, x <= y, NEW w \in Nat \ {0}
  PROVE  x \div w <= y \div w
OBVIOUS

LEMMA SmallRemainder == ASSUME NEW x \in Nat, NEW w \in Nat, x < w PROVE x % w = x
OBVIOUS

\* Converted counters grow with the counters until they wrap.
LEMMA ConvertGrows ==
  ASSUME NEW f, NEW n \in Nat, NEW m \in Nat, n <= m,
         driver = "softirq" \/ (f = "idle" /\ nohz) => m < UintLimit
  PROVE  Convert(f, n) <= Convert(f, m)
<1>1. UintLimit \in Nat \ {0} /\ PerJiffy \in Nat \ {0}
  BY UnitAssumption
<1>2. CASE driver = "softirq"
  <2>1. n < UintLimit /\ m < UintLimit
    BY <1>1, <1>2
  <2>2. n % UintLimit = n /\ m % UintLimit = m
    BY <1>1, <2>1, SmallRemainder
  <2>3. Convert(f, n) = n % UintLimit /\ Convert(f, m) = m % UintLimit
    BY <1>1, <1>2 DEF Convert
  <2> QED
    BY <2>2, <2>3
<1>3. CASE driver # "softirq" /\ f = "idle" /\ nohz
  <2>1. n < UintLimit /\ m < UintLimit
    BY <1>1, <1>3
  <2>2. n % UintLimit = n /\ m % UintLimit = m
    BY <1>1, <2>1, SmallRemainder
  <2>3. n + (PerJiffy - 1) \in Nat /\ m + (PerJiffy - 1) \in Nat
        /\ n + (PerJiffy - 1) <= m + (PerJiffy - 1)
    BY <1>1
  <2>4. (n + (PerJiffy - 1)) \div PerJiffy <= (m + (PerJiffy - 1)) \div PerJiffy
    BY <1>1, <2>3, QuotientGrows
  <2> QED
    BY <1>3, <2>2, <2>4 DEF Convert
<1>4. CASE driver # "softirq" /\ ~(f = "idle" /\ nohz)
  <2>1. n \div PerJiffy <= m \div PerJiffy
    BY <1>1, QuotientGrows
  <2> QED
    BY <1>4, <2>1 DEF Convert
<1> QED
  BY <1>2, <1>3, <1>4

\* What an update would store is a sample.
LEMMA SamplesType ==
  ASSUME KernelTypes
  PROVE  /\ DOMAIN Samples = Stored
         /\ \A i \in Stored : /\ Samples[i] \in [FieldNames -> Nat]
                              /\ \A f \in FieldNames : /\ kstat[i][f] \in Nat
                                                       /\ Samples[i][f] = Convert(f, kstat[i][f])
<1>1. DOMAIN Samples = Stored /\ Stored \subseteq 1 .. cpus
  BY Limits DEF Samples
<1>2. SUFFICES ASSUME NEW i \in Stored
               PROVE  /\ Samples[i] \in [FieldNames -> Nat]
                      /\ \A f \in FieldNames : /\ kstat[i][f] \in Nat
                                               /\ Samples[i][f] = Convert(f, kstat[i][f])
  BY <1>1
<1>3. \A f \in FieldNames : kstat[i][f] \in Nat
  BY <1>1 DEF KernelTypes
<1>4. \A f \in FieldNames : Convert(f, kstat[i][f]) \in Nat
  BY <1>3, ConvertType
<1>5. Samples[i] = [f \in FieldNames |-> Convert(f, kstat[i][f])]
  BY DEF Samples, Sample
<1> QED
  BY <1>3, <1>4, <1>5

LEMMA SamplesTypeNow == KernelTypes => \A i \in Stored : Samples[i] \in [FieldNames -> Nat]
BY SamplesType

\* And so after every step.
LEMMA SamplesTypeNext == KernelTypes' => \A i \in Stored' : Samples'[i] \in [FieldNames' -> Nat]
<1>1. (KernelTypes => \A i \in Stored : Samples[i] \in [FieldNames -> Nat])'
  BY SamplesTypeNow, PTL
<1> QED
  BY <1>1

\* A counter that fits is below its limit.
LEMMA FitMeans ==
  ASSUME KernelTypes, NEW i \in FitSet
  PROVE  /\ i \in Stored
         /\ driver # "cpu_stat" => \A f \in FieldNames : kstat[i][f] < UintLimit
         /\ driver = "cpu_stat" => /\ nohz => kstat[i]["idle"] < UintLimit
                                   /\ \A n \in 0 .. TotalOf(Samples[i]) : n \notin DOMAIN Rounded
<1>1. i \in Stored /\ Fits(i) /\ Samples[i] = Sample(i) /\ Samples[i] \in [FieldNames -> Nat]
  BY SamplesType DEF FitSet, Samples
<1>2. driver = "cpu_stat" => TotalOf(Samples[i]) = Busy(Sample(i)) + Sample(i)["idle"]
  BY <1>1, BusyIs
<1> QED
  BY <1>1, <1>2 DEF Fits

\* Sums and values up to those of a CPU that fits are floats.
LEMMA Exact ==
  ASSUME KernelTypes, NEW i \in FitSet, driver = "cpu_stat",
         NEW n \in Nat, n <= TotalOf(Samples[i])
  PROVE  Float(n) = n
<1>1. TotalOf(Samples[i]) \in Nat
  BY FitMeans, SamplesType, BusyIs
<1> QED
  BY <1>1, FitMeans DEF Float

LEMMA CachedExact ==
  ASSUME KernelTypes, NEW i \in FitSet, NEW f \in FieldNames, NEW n \in Nat, n <= Samples[i][f]
  PROVE  Cached(n) = n
<1>1. CASE driver = "cpu_stat"
  <2>1. Samples[i] \in [FieldNames -> Nat]
    BY FitMeans, SamplesType
  <2>2. Samples[i][f] <= TotalOf(Samples[i])
    BY <1>1, <2>1, FieldTable DEF TotalOf
  <2>3. TotalOf(Samples[i]) \in Nat
    BY <1>1, <2>1, BusyIs
  <2>4. Samples[i][f] \in Nat
    BY <2>1
  <2>5. n <= TotalOf(Samples[i])
    BY <2>2, <2>3, <2>4
  <2> QED
    BY <1>1, <2>5, Exact DEF Cached
<1>2. CASE driver # "cpu_stat"
  BY <1>2 DEF Cached
<1> QED
  BY <1>1, <1>2

\* The kernel's counters only grow, and with them what an update would store;
\* a CPU that fits has always fitted.
LEMMA FitsGrow ==
  ASSUME KernelTypes, [Next]_vars
  PROVE  /\ FitSet' \subseteq FitSet
         /\ \A i \in FitSet', f \in FieldNames : Samples[i][f] <= Samples'[i][f]
<1>0. /\ driver' = driver /\ nohz' = nohz /\ FieldNames' = FieldNames /\ Stored' = Stored
      /\ KernelTypes' /\ Stored \subseteq 1 .. cpus
  BY DriverStays, KernelTypesStep, Limits
<1>1. \A i \in Stored, f \in FieldNames :
        /\ kstat[i][f] \in Nat /\ kstat'[i][f] \in Nat /\ kstat[i][f] <= kstat'[i][f]
  <2>1. CASE kstat' = kstat
    <3>1. \A i \in Stored, f \in FieldNames : kstat[i][f] \in Nat
      BY SamplesType
    <3> QED
      BY <2>1, <3>1
  <2>2. ASSUME NEW c \in 1 .. cpus, NEW g \in FieldNames, Account(c, g)
        PROVE  \A i \in Stored, f \in FieldNames :
                 /\ kstat[i][f] \in Nat /\ kstat'[i][f] \in Nat /\ kstat[i][f] <= kstat'[i][f]
    <3> SUFFICES ASSUME NEW i \in Stored, NEW f \in FieldNames
                 PROVE  /\ kstat[i][f] \in Nat /\ kstat'[i][f] \in Nat
                        /\ kstat[i][f] <= kstat'[i][f]
      OBVIOUS
    <3>1. i \in 1 .. cpus /\ kstat[i][f] \in Nat
      BY <1>0, SamplesType
    <3>2. kstat'[i][f] = IF i = c /\ f = g THEN kstat[i][f] + 1 ELSE kstat[i][f]
      BY <2>2, <3>1 DEF Account, KernelTypes
    <3> QED
      BY <3>1, <3>2
  <2> QED
    BY <2>1, <2>2
       DEF Next, vars, kernelVars, KernelStep, StoreStep, Loading, Unloading, Insmod, Rmmod, Acquire,
           AcquireFails, FirstUpdate, StartTimer, Release, Unloaded, CancelTimer, Expire, UpdateEnds,
           StoreName, StoreField, OpenDevice, Open, Mmap, MmapFails, Close, Update, Scan, Load, Save,
           CloseDevice
<1>2. \A i \in Stored, f \in FieldNames : Samples'[i][f] = Convert(f, kstat'[i][f])
  <2> SUFFICES ASSUME NEW i \in Stored, NEW f \in FieldNames
               PROVE  Samples'[i][f] = Convert(f, kstat'[i][f])
    OBVIOUS
  <2> QED
    BY <1>0 DEF Samples, Sample, Convert
<1>3. \A i \in Stored : Samples'[i] \in [FieldNames -> Nat]
  <2> SUFFICES ASSUME NEW i \in Stored PROVE Samples'[i] \in [FieldNames -> Nat]
    OBVIOUS
  <2>1. \A f \in FieldNames : Convert(f, kstat'[i][f]) \in Nat
    BY <1>1, ConvertType
  <2>2. Samples'[i] = [f \in FieldNames |-> Convert(f, kstat'[i][f])]
    BY <1>0 DEF Samples, Sample, Convert
  <2> QED
    BY <2>1, <2>2
<1>4. \A i \in FitSet' :
        /\ i \in Stored
        /\ driver # "cpu_stat" => \A f \in FieldNames : kstat'[i][f] < UintLimit
        /\ driver = "cpu_stat" => /\ nohz => kstat'[i]["idle"] < UintLimit
                                  /\ \A n \in 0 .. TotalOf(Samples'[i]) : n \notin DOMAIN Rounded
  <2> SUFFICES ASSUME NEW i \in FitSet'
               PROVE  /\ i \in Stored
                      /\ driver # "cpu_stat" => \A f \in FieldNames : kstat'[i][f] < UintLimit
                      /\ driver = "cpu_stat" =>
                           /\ nohz => kstat'[i]["idle"] < UintLimit
                           /\ \A n \in 0 .. TotalOf(Samples'[i]) : n \notin DOMAIN Rounded
    OBVIOUS
  <2>1. i \in Stored
    BY <1>0 DEF FitSet
  <2>2. Samples'[i] = Sample(i)'
    BY <1>0, <2>1 DEF Samples
  <2>3. driver = "cpu_stat" => TotalOf(Samples'[i]) = Busy(Sample(i))' + Sample(i)'["idle"]
    <3> SUFFICES ASSUME driver = "cpu_stat"
                 PROVE  TotalOf(Samples'[i]) = Busy(Sample(i))' + Sample(i)'["idle"]
      OBVIOUS
    <3>1. \A f \in FieldNames : Samples'[i][f] \in Nat
      BY <1>3, <2>1
    <3>2. Samples'[i]["user"] \in Nat /\ Samples'[i]["idle"] \in Nat /\ Samples'[i]["irq"] \in Nat
      BY <3>1, FieldTable
    <3>3. Busy(Sample(i))' = Samples'[i]["user"] + Samples'[i]["irq"]
      BY <1>0, <2>2 DEF Busy
    <3>4. Sample(i)'["idle"] = Samples'[i]["idle"]
      BY <2>2
    <3> QED
      BY <3>2, <3>3, <3>4 DEF TotalOf
  <2>4. Fits(i)'
    BY DEF FitSet
  <2> QED
    BY <1>0, <2>1, <2>3, <2>4 DEF Fits
<1>5. ASSUME NEW i \in FitSet'
      PROVE  i \in Stored /\ \A f \in FieldNames : Samples[i][f] <= Samples'[i][f]
  <2>1. i \in Stored
    BY <1>4, <1>5
  <2> SUFFICES ASSUME NEW f \in FieldNames PROVE Samples[i][f] <= Samples'[i][f]
    BY <2>1
  <2>2. driver = "softirq" \/ (f = "idle" /\ nohz) => kstat'[i][f] < UintLimit
    BY <1>4, <1>5 DEF KernelTypes
  <2>3. Convert(f, kstat[i][f]) <= Convert(f, kstat'[i][f])
    BY <1>1, <2>1, <2>2, ConvertGrows
  <2> QED
    BY <1>2, <2>1, <2>3, SamplesType
<1>6. ASSUME NEW i \in FitSet' PROVE i \in FitSet
  <2>1. i \in Stored
    BY <1>5, <1>6
  <2>2. CASE driver # "cpu_stat"
    <3>1. \A f \in FieldNames : kstat[i][f] < UintLimit
      BY <1>1, <1>4, <1>6, <2>1, <2>2, UnitAssumption
    <3> QED
      BY <2>1, <2>2, <3>1 DEF FitSet, Fits
  <2>3. CASE driver = "cpu_stat"
    <3>1. nohz => kstat[i]["idle"] < UintLimit
      <4>1. kstat[i]["idle"] \in Nat /\ kstat'[i]["idle"] \in Nat /\ kstat[i]["idle"] <= kstat'[i]["idle"]
        BY <1>1, <2>1, <2>3, FieldTable
      <4> QED
        BY <1>4, <1>6, <2>3, <4>1, UnitAssumption
    <3>2. Samples[i] \in [FieldNames -> Nat] /\ Samples'[i] \in [FieldNames -> Nat]
      BY <1>3, <2>1, SamplesType
    <3>3. TotalOf(Samples[i]) <= TotalOf(Samples'[i])
      BY <1>5, <1>6, <2>3, <3>2, BusyGrows
    <3>4. TotalOf(Samples[i]) \in Nat /\ TotalOf(Samples'[i]) \in Nat
      BY <2>3, <3>2, BusyIs
    <3>5. \A n \in 0 .. TotalOf(Samples[i]) : n \notin DOMAIN Rounded
      BY <1>4, <1>6, <2>3, <3>3, <3>4
    <3>6. TotalOf(Samples[i]) = Busy(Sample(i)) + Sample(i)["idle"] /\ Samples[i] = Sample(i)
      BY <2>1, <2>3, <3>2, BusyIs DEF Samples
    <3> QED
      BY <2>1, <2>3, <3>1, <3>5, <3>6 DEF FitSet, Fits
  <2> QED
    BY <2>2, <2>3
<1> QED
  BY <1>5, <1>6
-----------------------------------------------------------------------------
(* The page and the samples do not run ahead of the kernel. *)

\* The types of the records that the bounds are about.
LEMMA RecordTypes ==
  ASSUME Types, BoundInv
  PROVE  /\ Stored \subseteq Idx /\ Stored \subseteq 1 .. cpus /\ FitSet \subseteq Stored
         /\ \A c \in DOMAIN cache : cache[c] \in [FieldNames -> Nat] /\ c \in Stored
         /\ \A c \in DOMAIN told : c \in DOMAIN cache /\ told[c] \in Int
         /\ \A i \in Stored : /\ page[i].val \in [FieldNames -> Nat]
                              /\ Samples[i] \in [FieldNames -> Nat]
         /\ pc \in {"load", "save"} => rec \in Stored
<1>1. Stored \subseteq Idx /\ Stored \subseteq 1 .. cpus /\ FitSet \subseteq Stored
  BY Limits DEF Types, FitSet
<1>2. \A i \in Stored : /\ page[i].val \in [FieldNames -> Nat]
                        /\ Samples[i] \in [FieldNames -> Nat]
  BY <1>1, SamplesType DEF Types, KernelTypes
<1> QED
  BY <1>1, <1>2 DEF Types, ReaderTypes, DataTypes, BoundInv, CacheInv, RecInv

\* What a step can do to the page: give or take a name, store a field, or,
\* while no file is open, clear it.
LEMMA PageMoves ==
  ASSUME Types, LifeInv, [Next]_vars
  PROVE  \/ \A i \in Idx : page'[i].val = page[i].val /\ (page'[i].name => page[i].name \/ i \in Stored)
         \/ StoreStep /\ StoreField
         \/ pc = "idle" /\ UNCHANGED cache /\ \A i \in Idx : page'[i] = EmptyRecord
<1>1. CASE page' = page
  BY <1>1
<1>2. CASE Acquire /\ KernelStep /\ page' # page
  <2>1. mod = "coming" /\ at < 6 /\ page' = [i \in Idx |-> EmptyRecord]
    BY <1>2, AcquiredAt DEF Acquire, LifeInv, Phases
  <2>2. pc = "idle" /\ UNCHANGED cache
    BY <1>2, <2>1 DEF KernelStep, readerVars, LifeInv, Phases, UsersFit
  <2> QED
    BY <2>1, <2>2
<1>3. CASE StoreName
  <2>1. store.idx \in Stored /\ page' = [page EXCEPT ![store.idx].name = TRUE]
    BY <1>3 DEF StoreName
  <2> QED
    BY <2>1 DEF Types, KernelTypes
<1>4. CASE UpdateEnds
  <2>1. page' = IF store.idx \in Idx THEN [page EXCEPT ![store.idx].name = FALSE] ELSE page
    BY <1>4 DEF UpdateEnds
  <2>2. CASE store.idx \in Idx
    BY <2>1, <2>2 DEF Types, KernelTypes
  <2> QED
    BY <2>1, <2>2
<1> QED
  BY <1>1, <1>2, <1>3, <1>4
     DEF Next, vars, kernelVars, KernelStep, StoreStep, Loading, Unloading, Insmod, Rmmod, AcquireFails,
         FirstUpdate, StartTimer, Release, Unloaded, CancelTimer, Expire, Account, OpenDevice, Open,
         Mmap, MmapFails, Close, Update, Scan, Load, Save, CloseDevice

\* A field that is stored gets what the counter is converted to now.
LEMMA StoreFieldIs ==
  ASSUME Types, BoundInv, StoreField
  PROVE  /\ kstat' = kstat /\ store.idx \in Stored
         /\ Fields[store.field] \in FieldNames
         /\ \A i \in Idx : page'[i].name = page[i].name
         /\ \A i \in Stored, f \in FieldNames :
              page'[i].val[f] = IF i = store.idx /\ f = Fields[store.field]
                                THEN Samples[i][f] ELSE page[i].val[f]
<1> DEFINE j == store.idx
           g == Fields[store.field]
           n == Convert(g, kstat[j][g])
<1>1. /\ kstat' = kstat /\ j \in Stored /\ g \in FieldNames
      /\ page' = [page EXCEPT ![j].val[g] = n]
  BY FieldTable DEF StoreField
<1>2. n = Samples[j][g]
  BY <1>1, SamplesType DEF Types
<1> HIDE DEF n
<1>3. \A i \in Idx : page'[i].name = page[i].name
  BY <1>1 DEF Types, KernelTypes
<1>4. \A i \in Stored, f \in FieldNames :
        page'[i].val[f] = IF i = j /\ f = g THEN n ELSE page[i].val[f]
  BY <1>1, RecordTypes DEF Types, KernelTypes
<1> QED
  BY <1>1, <1>2, <1>3, <1>4

\* While a file is open the values on the page only grow.
LEMMA PageGrows ==
  ASSUME Types, LifeInv, BoundInv, [Next]_vars, pc # "idle"
  PROVE  \A i \in FitSet, f \in FieldNames : page[i].val[f] <= page'[i].val[f]
<1> SUFFICES ASSUME NEW i \in FitSet, NEW f \in FieldNames
             PROVE  page[i].val[f] <= page'[i].val[f]
  OBVIOUS
<1>1. /\ i \in Stored /\ i \in Idx /\ page[i].val[f] \in Nat /\ Samples[i][f] \in Nat
      /\ page[i].val[f] <= Samples[i][f]
  BY RecordTypes DEF BoundInv, PageInv
<1>2. CASE page'[i].val = page[i].val
  BY <1>1, <1>2
<1>3. CASE StoreField
  BY <1>1, <1>3, StoreFieldIs
<1> QED
  BY <1>1, <1>2, <1>3, PageMoves

LEMMA PageStep ==
  ASSUME Types, LifeInv, BoundInv, [Next]_vars
  PROVE  PageInv'
<1>0. /\ FieldNames' = FieldNames /\ Stored' = Stored /\ Idx' = Idx
      /\ FitSet' \subseteq FitSet
      /\ \A i \in FitSet', f \in FieldNames : Samples[i][f] <= Samples'[i][f]
      /\ KernelTypes'
  BY DriverStays, FitsGrow, KernelTypesStep DEF Types, Idx
<1>1. \A i \in Idx : page'[i].name => i \in Stored
  BY PageMoves, StoreFieldIs DEF BoundInv, PageInv, EmptyRecord
<1>2. ASSUME NEW i \in FitSet', NEW f \in FieldNames PROVE page'[i].val[f] <= Samples'[i][f]
  <2>1. /\ i \in FitSet /\ i \in Stored /\ i \in Idx
        /\ page[i].val[f] \in Nat /\ Samples[i][f] \in Nat /\ page[i].val[f] <= Samples[i][f]
        /\ Samples[i][f] <= Samples'[i][f]
    BY <1>0, <1>2, RecordTypes DEF BoundInv, PageInv
  <2>2. Samples'[i][f] \in Nat
    <3>1. \A j \in Stored' : Samples'[j] \in [FieldNames' -> Nat]
      BY <1>0, SamplesTypeNext
    <3> QED
      BY <1>0, <2>1, <3>1
  <2>3. page'[i].val[f] \in {page[i].val[f], Samples[i][f], 0}
    <3>1. CASE page'[i].val = page[i].val
      BY <3>1
    <3>2. CASE StoreField
      BY <2>1, <3>2, StoreFieldIs
    <3>3. CASE page'[i] = EmptyRecord
      BY <3>3 DEF EmptyRecord
    <3> QED
      BY <2>1, <3>1, <3>2, <3>3, PageMoves
  <2> QED
    BY <2>1, <2>2, <2>3
<1> QED
  BY <1>0, <1>1, <1>2 DEF PageInv

LEMMA CacheStep ==
  ASSUME Types, LifeInv, BoundInv, [Next]_vars
  PROVE  CacheInv'
<1>0. /\ FieldNames' = FieldNames /\ Stored' = Stored
      /\ FitSet' \subseteq FitSet
      /\ \A i \in FitSet', f \in FieldNames : Samples[i][f] <= Samples'[i][f]
      /\ KernelTypes'
  BY DriverStays, FitsGrow, KernelTypesStep DEF Types
<1>1. \A i \in FitSet', f \in FieldNames : Samples'[i][f] \in Nat
  BY <1>0, SamplesTypeNext DEF FitSet
<1>2. \A c \in DOMAIN cache \cap FitSet', f \in FieldNames : cache[c][f] <= Samples'[c][f]
  <2> SUFFICES ASSUME NEW c \in DOMAIN cache \cap FitSet', NEW f \in FieldNames
               PROVE  cache[c][f] <= Samples'[c][f]
    OBVIOUS
  <2>1. /\ cache[c][f] \in Nat /\ Samples[c][f] \in Nat /\ Samples'[c][f] \in Nat
        /\ cache[c][f] <= Samples[c][f] /\ Samples[c][f] <= Samples'[c][f]
    BY <1>0, <1>1, RecordTypes DEF BoundInv, CacheInv
  <2> QED
    BY <2>1
<1>3. CASE cache' = cache
  BY <1>0, <1>2, <1>3 DEF BoundInv, CacheInv
<1>4. CASE Save
  <2> DEFINE old == IF rec \in DOMAIN cache THEN cache[rec] ELSE Zero
             f == Saves[step]
             n == Cached(page[rec].val[f])
             new == [old EXCEPT ![f] = n]
  <2>1. /\ cache' = [c \in DOMAIN cache \union {rec} |-> IF c = rec THEN new ELSE cache[c]]
        /\ rec \in Stored
    BY <1>4, RecordTypes DEF Save
  <2>2. f \in FieldNames
    BY <1>4, LoadTable DEF Save, Types, ReaderTypes, LoopTypes
  <2>3. old \in [FieldNames -> Nat]
    BY RecordTypes DEF Zero
  <2>4. ASSUME NEW g \in FieldNames, rec \in FitSet' PROVE new[g] <= Samples'[rec][g]
    <3>1. CASE g = f
      <4>1. /\ page[rec].val[f] \in Nat /\ page[rec].val[f] <= Samples[rec][f] /\ rec \in FitSet
            /\ Samples[rec][f] \in Nat
        BY <1>0, <2>1, <2>2, <2>4, RecordTypes DEF BoundInv, PageInv
      <4>2. n = page[rec].val[f]
        BY <2>2, <4>1, CachedExact DEF Types
      <4>3. new[g] = n
        BY <2>3, <3>1
      <4> HIDE DEF new, n
      <4>4. Samples'[rec][f] \in Nat /\ Samples[rec][f] <= Samples'[rec][f]
        BY <1>0, <1>1, <2>2, <2>4
      <4> QED
        BY <3>1, <4>1, <4>2, <4>3, <4>4
    <3>2. CASE g # f
      <4>1. new[g] = old[g]
        BY <2>3, <3>2
      <4>2. CASE rec \in DOMAIN cache
        BY <1>2, <2>4, <4>1, <4>2
      <4>3. CASE rec \notin DOMAIN cache
        BY <1>1, <2>4, <4>1, <4>3 DEF Zero
      <4> QED
        BY <4>2, <4>3
    <3> QED
      BY <3>1, <3>2
  <2> HIDE DEF new
  <2>5. DOMAIN cache' \subseteq Stored
    BY <2>1, RecordTypes
  <2>6. ASSUME NEW c \in DOMAIN cache' \cap FitSet', NEW g \in FieldNames
        PROVE  cache'[c][g] <= Samples'[c][g]
    <3>1. CASE c = rec
      BY <2>1, <2>4, <2>6, <3>1
    <3>2. CASE c # rec
      <4>1. c \in DOMAIN cache /\ cache'[c] = cache[c]
        BY <2>1, <2>6, <3>2
      <4> QED
        BY <1>2, <2>6, <4>1
    <3> QED
      BY <3>1, <3>2
  <2> QED
    BY <1>0, <2>5, <2>6 DEF CacheInv
<1> QED
  BY <1>3, <1>4
     DEF Next, vars, KernelStep, StoreStep, readerVars, OpenDevice, Mmap, MmapFails, Update, Scan, Load,
         CloseDevice

LEMMA RecStep ==
  ASSUME Types, BoundInv, [Next]_vars
  PROVE  RecInv'
<1>0. Stored' = Stored
  BY DriverStays
<1>1. CASE UNCHANGED <<pc, rec>>
  BY <1>0, <1>1 DEF BoundInv, RecInv
<1>2. CASE Scan
  <2>1. pc' \in {"load", "save"} => page[rec].name /\ rec \in Idx /\ rec' = rec
    BY <1>2, Limits DEF Scan, Types, ReaderTypes, LoopTypes, Idx
  <2> QED
    BY <1>0, <2>1 DEF BoundInv, PageInv, RecInv
<1>3. CASE Load \/ Save
  BY <1>0, <1>3 DEF Load, Save, BoundInv, RecInv
<1>4. CASE OpenDevice \/ Mmap \/ MmapFails \/ CloseDevice
  BY <1>4 DEF OpenDevice, Mmap, MmapFails, CloseDevice, RecInv
<1> QED
  BY <1>1, <1>2, <1>3, <1>4 DEF Next, vars, KernelStep, StoreStep, Update, readerVars

LEMMA BoundHolds == Spec => []BoundInv
<1>1. Init => BoundInv
  <2> SUFFICES ASSUME Init PROVE BoundInv
    OBVIOUS
  <2>1. pc = "idle" /\ DOMAIN cache = {}
    BY DEF Init
  <2>2. cpus \in Nat \ {0} /\ Stored \subseteq Idx /\ Stored \subseteq 1 .. cpus
    BY Limits, CpuAssumption DEF Init, KernelInit, Stored, Idx
  <2>3. \A i \in Idx : page[i].name = FALSE /\ \A f \in FieldNames : page[i].val[f] = 0
    BY DEF Init, KernelInit, EmptyRecord
  <2>4. ASSUME NEW i \in Stored, NEW f \in FieldNames PROVE Samples[i][f] \in Nat
    <3>1. kstat[i][f] \in Nat
      BY <2>2, <2>4 DEF Init, KernelInit
    <3>2. Samples[i][f] = Convert(f, kstat[i][f])
      BY <2>4 DEF Samples, Sample
    <3> QED
      BY <3>1, <3>2, ConvertType
  <2> QED
    BY <2>1, <2>2, <2>3, <2>4 DEF BoundInv, PageInv, RecInv, CacheInv, FitSet
<1>2. Types /\ LifeInv /\ BoundInv /\ [Next]_vars => BoundInv'
  BY PageStep, CacheStep, RecStep DEF BoundInv
<1>3. Spec => []Types
  BY TypesHold DEF Types
<1> QED
  BY <1>1, <1>2, <1>3, LifeHolds, PTL DEF Spec
-----------------------------------------------------------------------------
(* A pass is complete. *)

\* Once the first update is done every CPU's record has its name, and keeps it
\* until the page is given back; while it runs, those behind it have.
NamesInv ==
    /\ mod = "live" \/ (mod = "coming" /\ at = 7) => \A i \in Stored : page[i].name
    /\ mod = "coming" /\ at = 6 =>
         \A i \in Stored :
           i < store.idx \/ (i = store.idx /\ store.field > 0) => page[i].name

\* The records are the first ones of the page.
LEMMA StoredIs ==
  ASSUME KernelTypes, NEW n \in Nat \ {0}, n \notin Stored, NEW i \in Stored
  PROVE  i < n /\ i \in Idx /\ i \in Nat
<1>1. cpus \in Nat \ {0} /\ MaxCpus \in Nat \ {0} /\ Stored \subseteq Idx
  BY Limits
<1> QED
  BY <1>1 DEF Stored, Idx

LEMMA NamesStep ==
  ASSUME KernelTypes, LifeInv, NamesInv, [Next]_vars
  PROVE  NamesInv'
<1>0. driver' = driver /\ Stored' = Stored /\ Stored \subseteq Idx /\ MaxCpus \in Nat
  BY DriverStays, Limits
<1>1. CASE UNCHANGED <<mod, at, store, page>>
  BY <1>0, <1>1 DEF NamesInv
<1>2. CASE Insmod \/ AcquireFails \/ Rmmod \/ Release \/ Unloaded \/ CancelTimer
  <2>1. mod' # "live" /\ (mod' = "coming" => at' = 1)
    BY <1>2 DEF Insmod, AcquireFails, Rmmod, Release, Unloaded, CancelTimer
  <2> QED
    BY <2>1 DEF NamesInv
<1>3. CASE Acquire
  <2>1. mod' = "coming" /\ at' # 7 /\ store' = Resting
    BY <1>3, AcquiredAt DEF Acquire, LifeInv, Phases, TimerFits, UpdateFits
  <2>2. \A i \in Stored : i > 0
    BY <1>0 DEF Idx
  <2> QED
    BY <1>0, <2>1, <2>2 DEF NamesInv, Resting, Idx
<1>4. CASE FirstUpdate
  <2>1. mod' = "coming" /\ at' = 6 /\ store' = [idx |-> 1, field |-> 0]
    BY <1>4, AcquiredAt DEF FirstUpdate, LifeInv, Phases
  <2> QED
    BY <1>0, <2>1 DEF NamesInv, Idx
<1>5. CASE StartTimer
  <2>1. mod = "coming" /\ at = 7 /\ mod' = "live" /\ page' = page
    BY <1>5, AcquiredAt DEF StartTimer, LifeInv, Phases
  <2> QED
    BY <1>0, <2>1 DEF NamesInv
<1>6. CASE Expire
  <2>1. mod' = mod /\ mod # "coming" /\ page' = page
    BY <1>6 DEF Expire, LifeInv, TimerFits
  <2> QED
    BY <1>0, <2>1 DEF NamesInv
<1>7. CASE UpdateEnds
  <2>1. /\ mod' = mod /\ store.idx \in Nat \ {0} /\ store.idx \notin Stored
        /\ \A i \in Stored : page'[i].name = page[i].name
    <3>1. /\ mod' = mod /\ store.idx \in Nat \ {0} /\ store.idx \notin Stored
          /\ page' = IF store.idx \in Idx THEN [page EXCEPT ![store.idx].name = FALSE] ELSE page
      BY <1>7 DEF UpdateEnds, LifeInv, UpdateFits
    <3>2. CASE store.idx \in Idx
      BY <1>0, <3>1, <3>2 DEF KernelTypes
    <3>3. CASE store.idx \notin Idx
      BY <3>1, <3>3
    <3> QED
      BY <3>1, <3>2, <3>3
  <2>2. CASE timer = "running"
    BY <1>0, <2>1, <2>2 DEF NamesInv, LifeInv, TimerFits
  <2>3. CASE timer # "running"
    <3>1. mod = "coming" /\ at = 6 /\ at' = 7
      BY <1>7, <2>1, <2>3 DEF UpdateEnds, LifeInv, UpdateFits, Resting
    <3>2. \A i \in Stored : page[i].name
      BY <2>1, <3>1, StoredIs DEF NamesInv
    <3> QED
      BY <1>0, <2>1, <3>1, <3>2 DEF NamesInv
  <2> QED
    BY <2>2, <2>3
<1>8. CASE StoreName
  <2>1. UNCHANGED <<mod, at>> /\ store'.idx = store.idx /\ store.idx \in Stored
    BY <1>8 DEF StoreName, KernelTypes
  <2>2. \A i \in Stored : page[i].name => page'[i].name
    BY <1>0, <1>8 DEF StoreName, KernelTypes
  <2>3. page'[store.idx].name
    BY <1>0, <1>8 DEF StoreName, KernelTypes
  <2>4. \A i \in Stored : i < store.idx \/ i = store.idx =>
                            i < store.idx \/ (i = store.idx /\ page'[i].name)
    BY <2>3
  <2> QED
    BY <1>0, <2>1, <2>2, <2>4 DEF NamesInv
<1>9. CASE StoreField
  <2>1. UNCHANGED <<mod, at>> /\ store.idx \in Stored /\ store.field \in DOMAIN Fields
    BY <1>9 DEF StoreField
  <2>2. \A i \in Stored : page[i].name => page'[i].name
    BY <1>0, <1>9 DEF StoreField, KernelTypes
  <2>3. store.field > 0 /\ store.idx \in Nat
    <3>1. DOMAIN Fields = 1 .. 2 \/ DOMAIN Fields = 1 .. 3
      BY FieldTable
    <3>2. store.field > 0
      BY <2>1, <3>1
    <3>3. store.idx \in Nat
      BY DEF LifeInv, UpdateFits
    <3> QED
      BY <3>2, <3>3
  <2>4. \/ store'.idx = store.idx
        \/ store'.idx = store.idx + 1 /\ store'.field = 0
    BY <1>9 DEF StoreField, KernelTypes
  <2>5. \A i \in Stored :
          i < store'.idx \/ (i = store'.idx /\ store'.field > 0) =>
            i < store.idx \/ (i = store.idx /\ store.field > 0)
    BY <1>0, <2>3, <2>4 DEF Idx
  <2> QED
    BY <1>0, <2>1, <2>2, <2>5 DEF NamesInv
<1> QED
  BY <1>1, <1>2, <1>3, <1>4, <1>5, <1>6, <1>7, <1>8, <1>9
     DEF Next, vars, kernelVars, KernelStep, StoreStep, Loading, Unloading, Account, OpenDevice,
         Open, Mmap, MmapFails, Close, Update, Scan, Load, Save, CloseDevice

LEMMA PassStep ==
  ASSUME Types, LifeInv, NamesInv, PassComplete, [Next]_vars
  PROVE  PassComplete'
<1>0. Stored' = Stored /\ Limit' = Limit
  BY DriverStays
<1>1. CASE UNCHANGED <<pc, rec, early>>
  BY <1>0, <1>1 DEF PassComplete
<1>2. CASE Scan
  <2> SUFFICES ASSUME pc' = "done", ~early', NEW c \in Stored, c <= Limit
               PROVE  c < rec
    BY <1>0, <1>2 DEF PassComplete, Scan
  <2>1. rec \in Nat \ {0} /\ Limit \in Nat /\ c \in Nat
    BY Limits DEF Types, ReaderTypes, LoopTypes, Idx
  <2>2. CASE rec > Limit
    BY <2>1, <2>2
  <2>3. CASE ~(rec > Limit)
    <3>1. ~page[rec].name
      BY <1>2, <2>3 DEF Scan
    <3>2. mod = "live"
      <4>1. pc = "scan" /\ mod # "coming"
        BY <1>2 DEF Scan, Look
      <4> QED
        BY <4>1 DEF LifeInv, UsersFit
    <3>3. rec \notin Stored
      BY <3>1, <3>2 DEF NamesInv
    <3> QED
      BY <2>1, <3>3, StoredIs DEF Types
  <2> QED
    BY <2>2, <2>3
<1>3. CASE OpenDevice \/ Mmap \/ MmapFails \/ Load \/ Save \/ CloseDevice
  <2>1. pc' # "done"
    BY <1>3 DEF OpenDevice, Mmap, MmapFails, Load, Save, CloseDevice
  <2> QED
    BY <2>1 DEF PassComplete
<1> QED
  BY <1>1, <1>2, <1>3 DEF Next, KernelStep, StoreStep, Update, readerVars, vars

\* A pass that did not meet a driver still in its init, before its first
\* update was complete, has seen the record of every CPU up to the reader's
\* limit: the names that end the loop of UpdateOnce are not disturbed by the
\* timer that rewrites the page.
THEOREM PassCompleteCorrect == Spec => []PassComplete
<1>1. Init => NamesInv /\ PassComplete
  BY DEF Init, KernelInit, NamesInv, PassComplete
<1>2. Types /\ LifeInv /\ NamesInv /\ PassComplete /\ [Next]_vars => NamesInv' /\ PassComplete'
  BY NamesStep, PassStep DEF Types
<1>3. Spec => []Types
  BY TypesHold DEF Types
<1> QED
  BY <1>1, <1>2, <1>3, LifeHolds, PTL DEF Spec
-----------------------------------------------------------------------------
(* The page is not behind the samples. *)

\* Once the first update is done, the page is not behind any sample: it starts
\* from zero at each insmod, but the update fills it with counters that have
\* survived.  While that update runs, this holds of what it has stored.
Fresh ==
    /\ mod = "live" \/ (mod = "coming" /\ at = 7) =>
         \A c \in DOMAIN cache \cap FitSet, f \in FieldNames : cache[c][f] <= page[c].val[f]
    /\ mod = "coming" /\ at = 6 =>
         \A c \in DOMAIN cache \cap FitSet, k \in DOMAIN Fields :
           c < store.idx \/ (c = store.idx /\ k < store.field) =>
             cache[c][Fields[k]] <= page[c].val[Fields[k]]

\* A pass that is not early has met a driver that is live, and its file pins
\* the driver.
LiveInv == pc \in {"load", "save"} /\ ~early => mod = "live"

\* What the steps of this section know.
Base == Types /\ LifeInv /\ BoundInv

\* The samples are those of records that the driver stores.
LEMMA CacheTypes ==
  ASSUME Base, NEW c \in DOMAIN cache \cap FitSet
  PROVE  /\ c \in Stored /\ c \in Idx /\ c \in Nat \ {0}
         /\ cache[c] \in [FieldNames -> Nat] /\ page[c].val \in [FieldNames -> Nat]
         /\ Samples[c] \in [FieldNames -> Nat]
         /\ \A f \in FieldNames : cache[c][f] <= Samples[c][f]
<1>1. c \in Stored /\ Stored \subseteq Idx /\ cache[c] \in [FieldNames -> Nat]
  BY RecordTypes DEF Base
<1>2. page[c].val \in [FieldNames -> Nat] /\ Samples[c] \in [FieldNames -> Nat]
  BY <1>1, RecordTypes DEF Base
<1>3. \A f \in FieldNames : cache[c][f] <= Samples[c][f]
  BY DEF Base, BoundInv, CacheInv
<1> QED
  BY <1>1, <1>2, <1>3 DEF Idx

\* A store to the page keeps what was not behind, and catches up with its
\* field.
LEMMA StoreFieldFresh ==
  ASSUME Base, [Next]_vars, StoreField, NEW c \in DOMAIN cache \cap FitSet, NEW f \in FieldNames
  PROVE  /\ cache[c][f] <= page[c].val[f] => cache[c][f] <= page'[c].val[f]
         /\ c = store.idx /\ f = Fields[store.field] => cache[c][f] <= page'[c].val[f]
<1>1. /\ c \in Stored /\ cache[c][f] \in Nat /\ page[c].val[f] \in Nat /\ Samples[c][f] \in Nat
      /\ cache[c][f] <= Samples[c][f]
  BY CacheTypes
<1> QED
  BY <1>1, StoreFieldIs DEF Base

LEMMA FreshStep ==
  ASSUME Base, Fresh, [Next]_vars
  PROVE  Fresh'
<1>0. /\ FieldNames' = FieldNames /\ Fields' = Fields /\ FitSet' \subseteq FitSet
      /\ \A k \in DOMAIN Fields : Fields[k] \in FieldNames /\ k \in 1 .. 3
  BY DriverStays, FieldTable, FitsGrow DEF Base, Types
<1>1. CASE UNCHANGED <<mod, at, store, page, cache>>
  BY <1>0, <1>1 DEF Fresh
<1>2. CASE Insmod \/ AcquireFails \/ Rmmod \/ Release \/ Unloaded \/ CancelTimer
  <2>1. mod' # "live" /\ (mod' = "coming" => at' = 1)
    BY <1>2 DEF Insmod, AcquireFails, Rmmod, Release, Unloaded, CancelTimer
  <2> QED
    BY <2>1 DEF Fresh
<1>3. CASE Acquire /\ cache' = cache
  <2>1. mod' = "coming" /\ at' # 7 /\ store' = Resting
    BY <1>3, AcquiredAt DEF Acquire, Base, LifeInv, Phases, TimerFits, UpdateFits
  <2> QED
    BY <1>0, <1>3, <2>1, CacheTypes DEF Fresh, Resting
<1>4. CASE FirstUpdate /\ cache' = cache
  <2>1. mod' = "coming" /\ at' = 6 /\ store' = [idx |-> 1, field |-> 0]
    BY <1>4, AcquiredAt DEF FirstUpdate, Base, LifeInv, Phases
  <2> QED
    BY <1>0, <1>4, <2>1, CacheTypes DEF Fresh
<1>5. CASE StartTimer /\ cache' = cache
  <2>1. mod = "coming" /\ at = 7 /\ mod' = "live" /\ page' = page
    BY <1>5, AcquiredAt DEF StartTimer, Base, LifeInv, Phases
  <2> QED
    BY <1>0, <1>5, <2>1 DEF Fresh
<1>6. CASE Expire /\ cache' = cache
  <2>1. mod' = mod /\ mod # "coming" /\ page' = page
    BY <1>6 DEF Expire, Base, LifeInv, TimerFits
  <2> QED
    BY <1>0, <1>6, <2>1 DEF Fresh
<1>7. CASE UpdateEnds /\ cache' = cache
  <2>1. /\ mod' = mod /\ store.idx \in Nat \ {0} /\ store.idx \notin Stored
        /\ page' = IF store.idx \in Idx THEN [page EXCEPT ![store.idx].name = FALSE] ELSE page
    BY <1>7 DEF UpdateEnds, Base, LifeInv, UpdateFits
  <2>2. \A i \in Idx : page'[i].val = page[i].val
    BY <2>1 DEF Base, Types, KernelTypes
  <2>3. \A c \in DOMAIN cache \cap FitSet : c < store.idx /\ page'[c].val = page[c].val
    BY <2>1, <2>2, StoredIs, CacheTypes DEF Base, Types
  <2>4. CASE timer = "running"
    <3>1. mod # "coming"
      BY <2>4 DEF Base, LifeInv, TimerFits
    <3> QED
      BY <1>0, <1>7, <2>1, <2>3, <3>1 DEF Fresh
  <2>5. CASE timer # "running"
    <3>1. mod = "coming" /\ at = 6
      BY <1>7, <2>1, <2>5 DEF UpdateEnds, Base, LifeInv, UpdateFits, Resting
    <3>2. \A c \in DOMAIN cache \cap FitSet, k \in DOMAIN Fields :
            cache[c][Fields[k]] <= page[c].val[Fields[k]]
      BY <2>3, <3>1 DEF Fresh
    <3>3. \A c \in DOMAIN cache \cap FitSet, f \in FieldNames : cache[c][f] <= page'[c].val[f]
      BY <2>3, <3>2 DEF FieldNames
    <3>4. at' = 7
      BY <1>7, <2>5, <3>1 DEF UpdateEnds
    <3> QED
      BY <1>0, <1>7, <3>3, <3>4 DEF Fresh
  <2> QED
    BY <2>4, <2>5
<1>8. CASE StoreName /\ cache' = cache
  <2>1. UNCHANGED <<mod, at>> /\ store'.idx = store.idx /\ store'.field = 1 /\ store.field = 0
    BY <1>8 DEF StoreName, Base, Types, KernelTypes
  <2>2. \A i \in Idx : page'[i].val = page[i].val
    BY <1>8 DEF StoreName, Base, Types, KernelTypes
  <2>3. \A c \in DOMAIN cache \cap FitSet : page'[c].val = page[c].val
    BY <2>2, CacheTypes
  <2>4. \A k \in DOMAIN Fields : ~(k < 1)
    BY <1>0
  <2> QED
    BY <1>0, <1>8, <2>1, <2>3, <2>4 DEF Fresh
<1>9. CASE StoreField /\ cache' = cache
  <2>1. UNCHANGED <<mod, at>> /\ store.idx \in Nat /\ store.field \in Nat
    BY <1>9 DEF StoreField, Base, LifeInv, UpdateFits
  <2>2. \A c \in DOMAIN cache \cap FitSet, f \in FieldNames :
          cache[c][f] <= page[c].val[f] => cache[c][f] <= page'[c].val[f]
    BY <1>9, StoreFieldFresh
  <2>3. \A c \in DOMAIN cache \cap FitSet, k \in DOMAIN Fields :
          c = store.idx /\ k = store.field => cache[c][Fields[k]] <= page'[c].val[Fields[k]]
    BY <1>0, <1>9, StoreFieldFresh
  <2>4. \A c \in DOMAIN cache \cap FitSet, k \in DOMAIN Fields :
          c < store'.idx \/ (c = store'.idx /\ k < store'.field) =>
            \/ c < store.idx \/ (c = store.idx /\ k < store.field)
            \/ c = store.idx /\ k = store.field
    <3> SUFFICES ASSUME NEW c \in DOMAIN cache \cap FitSet, NEW k \in DOMAIN Fields,
                        c < store'.idx \/ (c = store'.idx /\ k < store'.field)
                 PROVE  \/ c < store.idx \/ (c = store.idx /\ k < store.field)
                        \/ c = store.idx /\ k = store.field
      OBVIOUS
    <3>0. c \in Nat /\ k \in Nat /\ store.field \in DOMAIN Fields
      BY <1>0, <1>9, CacheTypes DEF StoreField
    <3>1. CASE store.field + 1 \in DOMAIN Fields
      <4>1. store'.idx = store.idx /\ store'.field = store.field + 1
        BY <1>9, <3>1 DEF StoreField, Base, Types, KernelTypes
      <4> QED
        BY <2>1, <3>0, <4>1
    <3>2. CASE store.field + 1 \notin DOMAIN Fields
      <4>1. store'.idx = store.idx + 1 /\ store'.field = 0
        BY <1>9, <3>2 DEF StoreField
      <4>2. k <= store.field
        <5>1. DOMAIN Fields = 1 .. 2 \/ DOMAIN Fields = 1 .. 3
          BY FieldTable
        <5> QED
          BY <3>0, <3>2, <5>1
      <4> QED
        BY <2>1, <3>0, <4>1, <4>2
    <3> QED
      BY <3>1, <3>2
  <2> QED
    BY <1>0, <1>9, <2>1, <2>2, <2>3, <2>4 DEF Fresh
<1>10. CASE Save
  <2>1. UNCHANGED <<mod, at, store, page>>
    BY <1>10 DEF Save, kernelVars
  <2>2. /\ rec \in Stored /\ page[rec].val \in [FieldNames -> Nat]
    BY <1>10, RecordTypes DEF Save, Base
  <2>3. \A c \in DOMAIN cache' \cap FitSet, f \in FieldNames :
          \/ c \in DOMAIN cache /\ cache'[c][f] = cache[c][f]
          \/ cache'[c][f] <= page[c].val[f]
    <3> DEFINE old == IF rec \in DOMAIN cache THEN cache[rec] ELSE Zero
               n == Cached(page[rec].val[Saves[step]])
               new == [old EXCEPT ![Saves[step]] = n]
    <3>1. cache' = [c \in DOMAIN cache \union {rec} |-> IF c = rec THEN new ELSE cache[c]]
      BY <1>10 DEF Save
    <3>2. old \in [FieldNames -> Nat]
      BY RecordTypes DEF Zero, Base
    <3>3. Saves[step] \in FieldNames
      BY <1>10, LoadTable DEF Save, Base, Types, ReaderTypes, LoopTypes
    <3>4. rec \in FitSet => n = page[rec].val[Saves[step]]
      BY <2>2, <3>3, CachedExact DEF Base, Types, BoundInv, PageInv
    <3>5. \A f \in FieldNames : new[f] = IF f = Saves[step] THEN n ELSE old[f]
      BY <3>2
    <3> HIDE DEF new, n
    <3>6. rec \in FitSet =>
            \A f \in FieldNames : \/ rec \in DOMAIN cache /\ new[f] = cache[rec][f]
                                  \/ new[f] <= page[rec].val[f]
      <4> SUFFICES ASSUME rec \in FitSet, NEW f \in FieldNames
                   PROVE  \/ rec \in DOMAIN cache /\ new[f] = cache[rec][f]
                          \/ new[f] <= page[rec].val[f]
        OBVIOUS
      <4>1. page[rec].val[f] \in Nat
        BY <2>2
      <4>2. rec \notin DOMAIN cache => old[f] = 0
        BY DEF Zero
      <4> QED
        BY <3>4, <3>5, <4>1, <4>2
    <3> QED
      BY <3>1, <3>6
  <2>4. \A c \in DOMAIN cache' \cap FitSet, k \in DOMAIN Fields :
          \/ c \in DOMAIN cache /\ cache'[c][Fields[k]] = cache[c][Fields[k]]
          \/ cache'[c][Fields[k]] <= page[c].val[Fields[k]]
    BY <1>0, <2>3
  <2> QED
    BY <1>0, <2>1, <2>3, <2>4 DEF Fresh
<1> QED
  BY <1>1, <1>2, <1>3, <1>4, <1>5, <1>6, <1>7, <1>8, <1>9, <1>10
     DEF Next, vars, kernelVars, readerVars, KernelStep, StoreStep, Loading, Unloading, Account,
         OpenDevice, Open, Mmap, MmapFails, Close, Update, Scan, Load, CloseDevice

LEMMA LiveStep ==
  ASSUME Base, LiveInv, [Next]_vars
  PROVE  LiveInv'
<1>1. CASE KernelStep \/ StoreStep \/ UNCHANGED vars
  <2>1. UNCHANGED <<pc, early>>
    BY <1>1 DEF KernelStep, StoreStep, readerVars, vars
  <2>2. pc \in {"load", "save"} => users > 0
    BY DEF Base, LifeInv, UsersFit
  <2>3. mod = "live" /\ users > 0 => mod' = "live"
    BY <1>1 DEF KernelStep, StoreStep, Loading, Unloading, Insmod, Rmmod, Acquire, AcquireFails,
                FirstUpdate, StartTimer, Release, Unloaded, CancelTimer, Expire, UpdateEnds,
                Account, StoreName, StoreField, vars, kernelVars
  <2> QED
    BY <2>1, <2>2, <2>3 DEF LiveInv
<1>2. CASE Update
  <2>1. pc # "idle" /\ users > 0 /\ mod' = mod /\ early' = (early \/ mod = "coming")
    BY <1>2 DEF Update, Scan, Load, Save, Look, kernelVars, Base, LifeInv, UsersFit
  <2> QED
    BY <2>1 DEF Base, LifeInv, UsersFit, LiveInv
<1>3. CASE OpenDevice \/ Mmap \/ MmapFails \/ CloseDevice
  <2>1. pc' \notin {"load", "save"}
    BY <1>3 DEF OpenDevice, Mmap, MmapFails, CloseDevice
  <2> QED
    BY <2>1 DEF LiveInv
<1> QED
  BY <1>1, <1>2, <1>3 DEF Next

LEMMA BaseHolds == Spec => []Base
<1>1. Types /\ LifeInv /\ BoundInv => Base
  BY DEF Base
<1>2. Spec => []Types
  BY TypesHold DEF Types
<1> QED
  BY <1>1, <1>2, LifeHolds, BoundHolds, PTL

LEMMA FreshHolds == Spec => [](Fresh /\ LiveInv)
<1>1. Init => Fresh /\ LiveInv
  BY DEF Init, KernelInit, Fresh, LiveInv
<1>2. Base /\ Fresh /\ LiveInv /\ [Next]_vars => Fresh' /\ LiveInv'
  BY FreshStep, LiveStep
<1> QED
  BY <1>1, <1>2, BaseHolds, PTL DEF Spec
-----------------------------------------------------------------------------
(* What a message says of a CPU. *)

\* What the first k - 1 loads of cpu_stat contribute to the sums.
SoFar(k, val) ==
    [total |-> (IF k > 1 THEN val["user"] ELSE 0) + (IF k > 2 THEN val["idle"] ELSE 0)
                 + (IF k > 3 THEN val["irq"] ELSE 0),
     busy |-> IF k > 4 THEN val["user"] ELSE 0]

\* The properties speak of this message.
Measured == rec \in DOMAIN cache \cap FitSet /\ ~early

\* The sums of cpu_stat are between those of the previous sample and those of
\* the page, and the page's own unless the record was stored to meanwhile.
CpuSumInv ==
    driver = "cpu_stat" /\ pc = "load" /\ Measured =>
      /\ SoFar(step, cache[rec]).total <= sum.total
      /\ SoFar(step, cache[rec]).busy <= sum.busy
      /\ sum.total <= SoFar(step, page[rec].val).total
      /\ sum.busy <= SoFar(step, page[rec].val).busy
      /\ torn \/ /\ sum.total = SoFar(step, page[rec].val).total
                 /\ sum.busy = SoFar(step, page[rec].val).busy

\* The differences of softirq have not wrapped.
IrqSumInv ==
    driver # "cpu_stat" /\ pc = "load" /\ Measured =>
      sum.busy <= IF step = 2 THEN page[rec].val["hi"] - cache[rec]["hi"] ELSE 0

\* The message is about usage between the previous sample and the page.
MessageInv ==
    pc = "save" /\ step = 1 /\ Measured =>
      /\ Usage.busy \in Nat
      /\ BusyOf(driver, cache[rec]) + Usage.busy <= BusyOf(driver, page[rec].val)
      /\ driver = "cpu_stat" => Usage.total >= 0 /\ (torn \/ Usage.busy <= Usage.total)

UsageInv == CpuSumInv /\ IrqSumInv /\ MessageInv

\* Each load of cpu_stat adds one field to one of the sums.
LEMMA PartStep ==
  ASSUME NEW k \in 1 .. 4, NEW x,
         x["user"] \in Nat, x["idle"] \in Nat, x["irq"] \in Nat
  PROVE  /\ SoFar(k, x).total \in Nat /\ SoFar(k, x).busy \in Nat
         /\ x[CpuStatLoads[k][2]] \in Nat
         /\ k = 4 => /\ CpuStatLoads[k][1] = "busy"
                     /\ SoFar(k + 1, x).total = SoFar(k, x).total
                     /\ SoFar(k + 1, x).busy = SoFar(k, x).busy + x[CpuStatLoads[k][2]]
         /\ k # 4 => /\ CpuStatLoads[k][1] = "total"
                     /\ SoFar(k + 1, x).total = SoFar(k, x).total + x[CpuStatLoads[k][2]]
                     /\ SoFar(k + 1, x).busy = SoFar(k, x).busy
<1>1. k = 1 \/ k = 2 \/ k = 3 \/ k = 4
  OBVIOUS
<1>2. /\ CpuStatLoads[1] = <<"total", "user">> /\ CpuStatLoads[2] = <<"total", "idle">>
      /\ CpuStatLoads[3] = <<"total", "irq">> /\ CpuStatLoads[4] = <<"busy", "user">>
  BY DEF CpuStatLoads
<1> QED
  BY <1>1, <1>2 DEF SoFar

\* The differences of sums up to those of a CPU that fits are exact.
LEMMA FloatDiffExact ==
  ASSUME KernelTypes, NEW i \in FitSet, driver = "cpu_stat",
         NEW x \in Nat, NEW y \in Nat, x <= TotalOf(Samples[i]), y <= TotalOf(Samples[i])
  PROVE  FloatDiff(Float(x), Float(y)) = x - y
<1>1. TotalOf(Samples[i]) \in Nat
  BY FitMeans, SamplesType, BusyIs
<1>2. Float(x) = x /\ Float(y) = y
  BY Exact
<1>3. x >= y => Float(x - y) = x - y
  <2> SUFFICES ASSUME x >= y PROVE Float(x - y) = x - y
    OBVIOUS
  <2>1. x - y \in Nat /\ x - y <= TotalOf(Samples[i])
    BY <1>1
  <2> QED
    BY <2>1, Exact
<1>4. ~(x >= y) => Float(y - x) = y - x
  <2> SUFFICES ASSUME ~(x >= y) PROVE Float(y - x) = y - x
    OBVIOUS
  <2>1. y - x \in Nat /\ y - x <= TotalOf(Samples[i])
    BY <1>1
  <2> QED
    BY <2>1, Exact
<1> QED
  BY <1>2, <1>3, <1>4 DEF FloatDiff

\* So the message of cpu_stat is about the differences of its sums.
LEMMA UsageExact ==
  ASSUME Base, driver = "cpu_stat", rec \in DOMAIN cache \cap FitSet,
         NEW s \in [total : Nat, busy : Nat],
         s.total <= TotalOf(Samples[rec]), s.busy <= TotalOf(Samples[rec])
  PROVE  /\ UsageOf(s).total = s.total - TotalOf(cache[rec])
         /\ UsageOf(s).busy = s.busy - BusyOf(driver, cache[rec])
<1>0. KernelTypes
  BY DEF Base, Types
<1>1. PICK i \in FitSet : i = rec
  OBVIOUS
<1>2. PICK o : o = cache[rec]
  OBVIOUS
<1>3. /\ o \in [FieldNames -> Nat] /\ Samples[i] \in [FieldNames -> Nat]
      /\ \A f \in FieldNames : o[f] <= Samples[i][f]
  BY <1>1, <1>2, CacheTypes
<1>4. o["user"] \in Nat /\ o["idle"] \in Nat /\ o["irq"] \in Nat
  BY <1>3, FieldTable
<1>5. TotalOf(o) <= TotalOf(Samples[i]) /\ TotalOf(Samples[i]) \in Nat
  BY <1>0, <1>3, BusyGrows, BusyIs
<1>6. PICK n \in Nat : n = TotalOf(Samples[i])
  BY <1>5
<1>7. /\ o["user"] + o["idle"] + o["irq"] <= n /\ s.total <= n /\ s.busy <= n
  BY <1>1, <1>5, <1>6 DEF TotalOf
<1>8. /\ o["user"] + o["idle"] \in Nat /\ o["user"] + o["idle"] <= n
      /\ o["user"] + o["irq"] \in Nat /\ o["user"] + o["irq"] <= n
      /\ o["user"] + o["idle"] + o["irq"] \in Nat
  BY <1>4, <1>7
<1>9. Float(o["user"] + o["idle"]) = o["user"] + o["idle"]
  BY <1>0, <1>6, <1>8, Exact
<1>10. FloatDiff(Float(s.total), Float(o["user"] + o["idle"] + o["irq"]))
         = s.total - (o["user"] + o["idle"] + o["irq"])
  BY <1>0, <1>6, <1>7, <1>8, FloatDiffExact
<1>11. FloatDiff(Float(s.busy), Float(o["user"] + o["irq"])) = s.busy - (o["user"] + o["irq"])
  BY <1>0, <1>6, <1>7, <1>8, FloatDiffExact
<1>12. UsageOf(s)
         = [total |-> FloatDiff(Float(s.total), Float(Float(o["user"] + o["idle"]) + o["irq"])),
            busy |-> FloatDiff(Float(s.busy), Float(o["user"] + o["irq"]))]
  BY <1>2 DEF UsageOf
<1> QED
  BY <1>2, <1>9, <1>10, <1>11, <1>12 DEF TotalOf, BusyOf

\* What has not wrapped is below every limit, so that the unsigned difference
\* of softirq is the difference.
LEMMA AmountExact ==
  ASSUME Base, Fresh, mod = "live", driver # "cpu_stat", rec \in DOMAIN cache \cap FitSet,
         NEW f \in FieldNames
  PROVE  Amount(f) = page[rec].val[f] - cache[rec][f]
<1>1. PICK i \in FitSet : i = rec
  OBVIOUS
<1>2. /\ cache[i][f] \in Nat /\ page[i].val[f] \in Nat /\ Samples[i][f] \in Nat
      /\ cache[i][f] <= page[i].val[f] /\ page[i].val[f] <= Samples[i][f]
  BY <1>1, CacheTypes DEF Fresh, Base, BoundInv, PageInv
<1>3. driver = "softirq" /\ kstat[i][f] \in Nat /\ kstat[i][f] < UintLimit
      /\ Samples[i][f] = Convert(f, kstat[i][f])
  BY FitMeans, SamplesType DEF Base, Types, KernelTypes
<1>4. Samples[i][f] = kstat[i][f]
  BY <1>3, SmallRemainder, UnitAssumption DEF Convert
<1>5. page[i].val[f] - cache[i][f] \in Nat /\ page[i].val[f] - cache[i][f] < WordLimit
  BY <1>2, <1>3, <1>4, UnitAssumption, WordAssumption
<1>6. (page[i].val[f] - cache[i][f]) % WordLimit = page[i].val[f] - cache[i][f]
  BY <1>5, SmallRemainder, WordAssumption
<1> QED
  BY <1>1, <1>3, <1>6 DEF Amount

\* A load adds to the sums what the next load of the sample contributes, and
\* as much as the page holds.  After the last one the message is complete.
LEMMA LoadCpu ==
  ASSUME Base, Fresh, LiveInv, UsageInv, Load, driver = "cpu_stat"
  PROVE  UsageInv'
<1>0. /\ [Next]_vars /\ pc = "load" /\ UNCHANGED <<page, cache, rec, torn, kernelVars>>
      /\ driver' = driver /\ FitSet' \subseteq FitSet
  BY DriverStays, FitsGrow DEF Load, Next, Update, kernelVars, Base, Types
<1> SUFFICES ASSUME ~early', rec \in DOMAIN cache \cap FitSet
             PROVE  UsageInv'
  BY <1>0 DEF UsageInv, CpuSumInv, IrqSumInv, MessageInv, Measured
<1>1. ~early /\ mod = "live" /\ Measured
  BY <1>0 DEF Load, Look, LiveInv, Measured
<1>a. PICK o : o = cache[rec]
  OBVIOUS
<1>b. PICK v : v = page[rec].val
  OBVIOUS
<1>c. PICK p : p = Samples[rec]
  OBVIOUS
<1>2. /\ o \in [FieldNames -> Nat] /\ v \in [FieldNames -> Nat] /\ p \in [FieldNames -> Nat]
      /\ \A f \in FieldNames : o[f] <= v[f] /\ v[f] <= p[f]
  BY <1>1, <1>a, <1>b, <1>c, CacheTypes DEF Fresh, Base, BoundInv, PageInv
<1>3. /\ SoFar(step, o).total <= sum.total /\ SoFar(step, o).busy <= sum.busy
      /\ sum.total <= SoFar(step, v).total /\ sum.busy <= SoFar(step, v).busy
      /\ torn \/ (sum.total = SoFar(step, v).total /\ sum.busy = SoFar(step, v).busy)
  BY <1>0, <1>1, <1>a, <1>b DEF UsageInv, CpuSumInv
<1>4. /\ sum \in [total : Nat, busy : Nat] /\ step \in 1 .. 5 /\ Loads = CpuStatLoads
      /\ Len(Loads) = 5
  BY <1>0 DEF Base, Types, ReaderTypes, DataTypes, LoopTypes, Loads, CpuStatLoads
<1>5. /\ sum' = [sum EXCEPT ![CpuStatLoads[step][1]] = @ + v[CpuStatLoads[step][2]]]
      /\ pc' = (IF step = 5 THEN "save" ELSE "load")
      /\ step' = (IF step = 5 THEN 1 ELSE step + 1)
  BY <1>4, <1>b DEF Load, Amount
<1>6. /\ o["user"] \in Nat /\ o["idle"] \in Nat /\ o["irq"] \in Nat
      /\ v["user"] \in Nat /\ v["idle"] \in Nat /\ v["irq"] \in Nat
      /\ o["user"] <= v["user"] /\ o["idle"] <= v["idle"] /\ o["irq"] <= v["irq"]
  BY <1>2, FieldTable
<1>7. CASE step # 5
  <2>1. PICK k \in 1 .. 4 : k = step
    BY <1>4, <1>7
  <2>2. PICK a, b : a = o[CpuStatLoads[k][2]] /\ b = v[CpuStatLoads[k][2]]
    OBVIOUS
  <2>3. a \in Nat /\ b \in Nat /\ a <= b
    <3>1. k = 1 \/ k = 2 \/ k = 3 \/ k = 4
      OBVIOUS
    <3>2. CpuStatLoads[k][2] \in {"user", "idle", "irq"}
      BY <3>1 DEF CpuStatLoads
    <3> QED
      BY <1>6, <2>2, <3>2
  <2>4. /\ k = 4 => /\ sum'.total = sum.total /\ sum'.busy = sum.busy + b
                    /\ SoFar(k + 1, o).total = SoFar(k, o).total
                    /\ SoFar(k + 1, o).busy = SoFar(k, o).busy + a
                    /\ SoFar(k + 1, v).total = SoFar(k, v).total
                    /\ SoFar(k + 1, v).busy = SoFar(k, v).busy + b
        /\ k # 4 => /\ sum'.total = sum.total + b /\ sum'.busy = sum.busy
                    /\ SoFar(k + 1, o).total = SoFar(k, o).total + a
                    /\ SoFar(k + 1, o).busy = SoFar(k, o).busy
                    /\ SoFar(k + 1, v).total = SoFar(k, v).total + b
                    /\ SoFar(k + 1, v).busy = SoFar(k, v).busy
    <3>1. /\ k = 4 => CpuStatLoads[k][1] = "busy"
          /\ k # 4 => CpuStatLoads[k][1] = "total"
      BY <1>6, PartStep
    <3>2. sum' = [sum EXCEPT ![CpuStatLoads[k][1]] = @ + b]
      BY <1>5, <2>1, <2>2
    <3>3. /\ k = 4 => sum'.total = sum.total /\ sum'.busy = sum.busy + b
          /\ k # 4 => sum'.total = sum.total + b /\ sum'.busy = sum.busy
      BY <1>4, <3>1, <3>2
    <3> QED
      BY <1>6, <2>2, <3>3, PartStep
  <2>5. /\ SoFar(k, o).total \in Nat /\ SoFar(k, o).busy \in Nat
        /\ SoFar(k, v).total \in Nat /\ SoFar(k, v).busy \in Nat
        /\ sum.total \in Nat /\ sum.busy \in Nat
    BY <1>4, <1>6, PartStep
  <2>6. /\ SoFar(k + 1, o).total <= sum'.total /\ SoFar(k + 1, o).busy <= sum'.busy
        /\ sum'.total <= SoFar(k + 1, v).total /\ sum'.busy <= SoFar(k + 1, v).busy
        /\ torn \/ (sum'.total = SoFar(k + 1, v).total /\ sum'.busy = SoFar(k + 1, v).busy)
    BY <1>3, <2>1, <2>3, <2>4, <2>5
  <2>7. /\ cache'[rec'] = o /\ page'[rec'].val = v /\ step' = k + 1 /\ torn' = torn
        /\ pc' = "load"
    BY <1>0, <1>5, <1>7, <1>a, <1>b, <2>1
  <2> QED
    BY <1>0, <2>6, <2>7 DEF UsageInv, CpuSumInv, IrqSumInv, MessageInv
<1>8. CASE step = 5
  <2>1. /\ SoFar(5, o).total = TotalOf(o) /\ SoFar(5, o).busy = o["user"]
        /\ SoFar(5, v).total = TotalOf(v) /\ SoFar(5, v).busy = v["user"]
    BY DEF SoFar, TotalOf
  <2>2. sum'.total = sum.total /\ sum'.busy = sum.busy + v["irq"]
    BY <1>4, <1>5, <1>8 DEF CpuStatLoads
  <2>3. /\ BusyOf(driver, o) = o["user"] + o["irq"] /\ BusyOf(driver, v) = v["user"] + v["irq"]
        /\ TotalOf(o) = o["user"] + o["idle"] + o["irq"]
        /\ TotalOf(v) = v["user"] + v["idle"] + v["irq"]
    BY DEF BusyOf, TotalOf
  <2>4. /\ TotalOf(o) <= sum'.total /\ BusyOf(driver, o) <= sum'.busy
        /\ sum'.total <= TotalOf(v) /\ sum'.busy <= BusyOf(driver, v)
        /\ torn \/ (sum'.total = TotalOf(v) /\ sum'.busy = BusyOf(driver, v))
        /\ sum'.total \in Nat /\ sum'.busy \in Nat
        /\ TotalOf(o) \in Nat /\ TotalOf(v) \in Nat
        /\ BusyOf(driver, o) \in Nat /\ BusyOf(driver, v) \in Nat
        /\ BusyOf(driver, v) <= TotalOf(v)
        /\ BusyOf(driver, v) - BusyOf(driver, o) <= TotalOf(v) - TotalOf(o)
    <3>1. sum.total \in Nat /\ sum.busy \in Nat
      BY <1>4
    <3>2. /\ TotalOf(o) <= sum.total /\ o["user"] <= sum.busy
          /\ sum.total <= TotalOf(v) /\ sum.busy <= v["user"]
          /\ torn \/ (sum.total = TotalOf(v) /\ sum.busy = v["user"])
      BY <1>3, <1>8, <2>1
    <3> QED
      BY <1>6, <2>2, <2>3, <3>1, <3>2
  <2>5. TotalOf(v) <= TotalOf(p) /\ TotalOf(p) \in Nat
    BY <1>2, BusyGrows, BusyIs DEF Base, Types
  <2>6. sum' \in [total : Nat, busy : Nat]
    BY <1>4, <1>5, <1>6, <1>8 DEF CpuStatLoads
  <2>7. sum'.total <= TotalOf(Samples[rec]) /\ sum'.busy <= TotalOf(Samples[rec])
    BY <1>c, <2>4, <2>5
  <2>8. /\ UsageOf(sum').total = sum'.total - TotalOf(o)
        /\ UsageOf(sum').busy = sum'.busy - BusyOf(driver, o)
    BY <1>a, <2>6, <2>7, UsageExact
  <2>9. Usage' = UsageOf(sum')
    BY <1>0, Zenon DEF Usage, UsageOf
  <2>10. /\ Usage'.busy \in Nat /\ BusyOf(driver, o) + Usage'.busy <= BusyOf(driver, v)
         /\ Usage'.total >= 0 /\ (torn \/ Usage'.busy <= Usage'.total)
    BY <2>4, <2>8, <2>9
  <2>11. /\ cache'[rec'] = o /\ page'[rec'].val = v /\ torn' = torn /\ pc' = "save"
    BY <1>0, <1>5, <1>8, <1>a, <1>b
  <2> QED
    BY <1>0, <2>10, <2>11 DEF UsageInv, CpuSumInv, IrqSumInv, MessageInv
<1> QED
  BY <1>7, <1>8

LEMMA LoadIrq ==
  ASSUME Base, Fresh, LiveInv, UsageInv, Load, driver # "cpu_stat"
  PROVE  UsageInv'
<1>0. /\ [Next]_vars /\ pc = "load" /\ UNCHANGED <<page, cache, rec, torn, kernelVars>>
      /\ driver' = driver /\ FitSet' \subseteq FitSet
  BY DriverStays, FitsGrow DEF Load, Next, Update, kernelVars, Base, Types
<1> SUFFICES ASSUME ~early', rec \in DOMAIN cache \cap FitSet
             PROVE  UsageInv'
  BY <1>0 DEF UsageInv, CpuSumInv, IrqSumInv, MessageInv, Measured
<1>1. ~early /\ mod = "live" /\ Measured
  BY <1>0 DEF Load, Look, LiveInv, Measured
<1>a. PICK o : o = cache[rec]
  OBVIOUS
<1>b. PICK v : v = page[rec].val
  OBVIOUS
<1>2. /\ o \in [FieldNames -> Nat] /\ v \in [FieldNames -> Nat]
      /\ \A f \in FieldNames : o[f] <= v[f]
  BY <1>1, <1>a, <1>b, CacheTypes DEF Fresh
<1>3. /\ o["hi"] \in Nat /\ o["rcu"] \in Nat /\ v["hi"] \in Nat /\ v["rcu"] \in Nat
      /\ o["hi"] <= v["hi"] /\ o["rcu"] <= v["rcu"]
      /\ "hi" \in FieldNames /\ "rcu" \in FieldNames
  BY <1>2, FieldTable
<1>4. Amount("hi") = v["hi"] - o["hi"] /\ Amount("rcu") = v["rcu"] - o["rcu"]
  BY <1>1, <1>3, <1>a, <1>b, AmountExact
<1>5. /\ sum \in [total : Nat, busy : Nat] /\ Loads = SoftirqLoads /\ Len(Loads) = 2
      /\ step = 1 \/ step = 2
      /\ Loads[1] = <<"busy", "hi">> /\ Loads[2] = <<"busy", "rcu">>
  BY <1>0 DEF Base, Types, ReaderTypes, DataTypes, LoopTypes, Loads, SoftirqLoads
<1>6. sum.busy <= IF step = 2 THEN v["hi"] - o["hi"] ELSE 0
  BY <1>0, <1>1, <1>a, <1>b DEF UsageInv, IrqSumInv
<1>7. CASE step = 1
  <2>1. pc' = "load" /\ step' = 2 /\ sum'.busy = sum.busy + (v["hi"] - o["hi"])
    BY <1>4, <1>5, <1>7 DEF Load
  <2>2. sum.busy = 0
    BY <1>5, <1>6, <1>7
  <2>3. sum'.busy <= v["hi"] - o["hi"]
    BY <1>3, <2>1, <2>2
  <2> QED
    BY <1>0, <1>a, <1>b, <2>1, <2>3 DEF UsageInv, CpuSumInv, IrqSumInv, MessageInv
<1>8. CASE step = 2
  <2>1. pc' = "save" /\ sum'.busy = sum.busy + (v["rcu"] - o["rcu"])
    BY <1>4, <1>5, <1>8 DEF Load
  <2>2. sum.busy \in Nat /\ sum.busy <= v["hi"] - o["hi"]
    BY <1>5, <1>6, <1>8
  <2>3. Usage' = sum'
    BY <1>0 DEF Usage, UsageOf
  <2>4. /\ BusyOf(driver, o) = o["hi"] + o["rcu"] /\ BusyOf(driver, v) = v["hi"] + v["rcu"]
    BY DEF BusyOf
  <2>5. Usage'.busy \in Nat /\ BusyOf(driver, o) + Usage'.busy <= BusyOf(driver, v)
    BY <1>3, <2>1, <2>2, <2>3, <2>4
  <2> QED
    BY <1>0, <1>a, <1>b, <2>1, <2>5 DEF UsageInv, CpuSumInv, IrqSumInv, MessageInv
<1> QED
  BY <1>5, <1>7, <1>8

\* Between two loads nothing disturbs the sums but a store to the record,
\* which is what torn says; and the values on the page only grow.
LEMMA DriverUsage ==
  ASSUME Base, UsageInv, KernelStep \/ StoreStep
  PROVE  UsageInv'
<1>0. /\ [Next]_vars /\ UNCHANGED <<pc, rec, step, sum, cache, early>> /\ driver' = driver
      /\ FitSet' \subseteq FitSet /\ FieldNames' = FieldNames /\ KernelTypes'
  BY DriverStays, FitsGrow, KernelTypesStep DEF Next, KernelStep, StoreStep, readerVars, Base, Types
<1>t. torn => torn'
  <2>1. CASE KernelStep
    BY <2>1, Zenon DEF KernelStep, readerVars
  <2>2. CASE StoreStep
    BY <2>2, Zenon DEF StoreStep
  <2> QED
    BY <2>1, <2>2
<1>1. CASE ~(pc \in {"load", "save"} /\ Measured')
  BY <1>0, <1>1 DEF UsageInv, CpuSumInv, IrqSumInv, MessageInv
<1>2. CASE pc \in {"load", "save"} /\ Measured'
  <2>a. PICK i \in FitSet : i = rec
    BY <1>0, <1>2 DEF Measured
  <2>b. PICK v : v = page[rec].val
    OBVIOUS
  <2>c. PICK w : w = page'[rec].val
    OBVIOUS
  <2>1. Measured /\ i \in Stored /\ i \in Idx /\ pc # "idle" /\ i \in DOMAIN cache
    BY <1>0, <1>2, <2>a, RecordTypes DEF Measured, Base
  <2>2. \A f \in FieldNames : v[f] <= w[f]
    BY <1>0, <2>1, <2>a, <2>b, <2>c, PageGrows DEF Base
  <2>3. v \in [FieldNames -> Nat] /\ w \in [FieldNames -> Nat]
    BY <1>0, <2>1, <2>a, <2>b, <2>c, RecordTypes DEF Base, KernelTypes, Idx
  <2>4. pc = "load" /\ ~torn' => w = v
    <3> SUFFICES ASSUME pc = "load", ~torn' PROVE w = v
      OBVIOUS
    <3>1. CASE page'[i].val = page[i].val
      BY <2>a, <2>b, <2>c, <3>1
    <3>2. CASE StoreStep /\ StoreField
      <4>1. store.idx # i
        BY <2>a, <3>2 DEF StoreStep
      <4>2. \A f \in FieldNames : w[f] = v[f]
        BY <2>1, <2>a, <2>b, <2>c, <3>2, <4>1, StoreFieldIs DEF Base
      <4> QED
        BY <2>3, <4>2
    <3> QED
      BY <1>0, <2>1, <3>1, <3>2, PageMoves DEF Base
  <2>5. BusyOf(driver, v) <= BusyOf(driver, w) /\ BusyOf(driver, v) \in Nat /\ BusyOf(driver, w) \in Nat
    BY <2>2, <2>3, BusyGrows, BusyIs DEF Base, Types
  <2>6. CpuSumInv'
    <3> SUFFICES ASSUME driver = "cpu_stat", pc = "load"
                 PROVE  /\ SoFar(step, cache[rec]).total <= sum.total
                        /\ SoFar(step, cache[rec]).busy <= sum.busy
                        /\ sum.total <= SoFar(step, w).total
                        /\ sum.busy <= SoFar(step, w).busy
                        /\ torn' \/ (/\ sum.total = SoFar(step, w).total
                                     /\ sum.busy = SoFar(step, w).busy)
      BY <1>0, <2>c DEF CpuSumInv
    <3>1. /\ SoFar(step, cache[rec]).total <= sum.total
          /\ SoFar(step, cache[rec]).busy <= sum.busy
          /\ sum.total <= SoFar(step, v).total /\ sum.busy <= SoFar(step, v).busy
          /\ torn \/ (sum.total = SoFar(step, v).total /\ sum.busy = SoFar(step, v).busy)
      BY <2>1, <2>b DEF UsageInv, CpuSumInv
    <3>2. CASE ~torn'
      BY <1>t, <2>4, <3>1, <3>2
    <3>3. CASE torn'
      <4>1. /\ v["user"] \in Nat /\ v["idle"] \in Nat /\ v["irq"] \in Nat
            /\ w["user"] \in Nat /\ w["idle"] \in Nat /\ w["irq"] \in Nat
            /\ v["user"] <= w["user"] /\ v["idle"] <= w["idle"] /\ v["irq"] <= w["irq"]
        BY <2>2, <2>3, FieldTable
      <4>2. /\ SoFar(step, v).total <= SoFar(step, w).total
            /\ SoFar(step, v).busy <= SoFar(step, w).busy
            /\ SoFar(step, v).total \in Nat /\ SoFar(step, w).total \in Nat
            /\ SoFar(step, v).busy \in Nat /\ SoFar(step, w).busy \in Nat
        BY <4>1 DEF SoFar
      <4>3. sum.total \in Nat /\ sum.busy \in Nat
        BY DEF Base, Types, ReaderTypes, DataTypes
      <4> QED
        BY <3>1, <3>3, <4>2, <4>3
    <3> QED
      BY <3>2, <3>3
  <2>7. IrqSumInv'
    <3> SUFFICES ASSUME driver # "cpu_stat", pc = "load"
                 PROVE  sum.busy <= IF step = 2 THEN w["hi"] - cache[rec]["hi"] ELSE 0
      BY <1>0, <2>c DEF IrqSumInv
    <3>1. sum.busy <= IF step = 2 THEN v["hi"] - cache[rec]["hi"] ELSE 0
      BY <2>1, <2>b DEF UsageInv, IrqSumInv
    <3>2. v["hi"] \in Nat /\ w["hi"] \in Nat /\ v["hi"] <= w["hi"] /\ cache[rec]["hi"] \in Nat
      BY <2>1, <2>2, <2>3, <2>a, CacheTypes, FieldTable DEF Base
    <3>3. sum.busy \in Nat
      BY DEF Base, Types, ReaderTypes, DataTypes
    <3> QED
      BY <3>1, <3>2, <3>3
  <2>8. MessageInv'
    <3> SUFFICES ASSUME pc = "save", step = 1
                 PROVE  /\ Usage'.busy \in Nat
                        /\ BusyOf(driver, cache[rec]) + Usage'.busy <= BusyOf(driver, w)
                        /\ driver = "cpu_stat" =>
                             Usage'.total >= 0 /\ (torn' \/ Usage'.busy <= Usage'.total)
      BY <1>0, <2>c DEF MessageInv
    <3>1. Usage' = Usage
      BY <1>0 DEF Usage, UsageOf
    <3>2. /\ Usage.busy \in Nat
          /\ BusyOf(driver, cache[rec]) + Usage.busy <= BusyOf(driver, v)
          /\ driver = "cpu_stat" => Usage.total >= 0 /\ (torn \/ Usage.busy <= Usage.total)
      BY <2>1, <2>b DEF UsageInv, MessageInv
    <3>3. BusyOf(driver, cache[rec]) \in Nat
      BY <2>1, <2>a, CacheTypes, BusyIs DEF Base, Types
    <3> QED
      <4>1. BusyOf(driver, cache[rec]) + Usage.busy <= BusyOf(driver, w)
        BY <2>5, <3>2, <3>3
      <4> QED
        BY <1>t, <3>1, <3>2, <4>1
  <2> QED
    BY <2>6, <2>7, <2>8 DEF UsageInv
<1> QED
  BY <1>1, <1>2

\* The other steps of the reader are not between two loads, nor do they
\* complete a message.
LEMMA OtherUsage ==
  ASSUME Base, OpenDevice \/ Mmap \/ MmapFails \/ Scan \/ Save \/ CloseDevice
  PROVE  UsageInv'
<1>1. CASE OpenDevice \/ Mmap \/ MmapFails \/ CloseDevice
  BY <1>1 DEF OpenDevice, Mmap, MmapFails, CloseDevice, UsageInv, CpuSumInv, IrqSumInv, MessageInv
<1>2. CASE Save
  <2>1. pc' = "scan" \/ (pc' = "save" /\ step' = step + 1)
    BY <1>2 DEF Save
  <2>2. step + 1 # 1
    BY DEF Base, Types, ReaderTypes, LoopTypes
  <2> QED
    BY <2>1, <2>2 DEF UsageInv, CpuSumInv, IrqSumInv, MessageInv
<1>3. CASE Scan
  <2>1. /\ step' = 1 /\ sum' = NoSum /\ rec' = rec /\ cache' = cache
        /\ pc' \in {"done", "load", "save"} /\ (pc' = "save" => rec \notin DOMAIN cache)
    BY <1>3 DEF Scan
  <2>2. MessageInv'
    BY <2>1 DEF MessageInv, Measured
  <2>3. \A v : SoFar(1, v) = NoSum
    BY DEF SoFar, NoSum
  <2>4. CpuSumInv' /\ IrqSumInv'
    BY <2>1, <2>3 DEF CpuSumInv, IrqSumInv, NoSum
  <2> QED
    BY <2>2, <2>4 DEF UsageInv
<1> QED
  BY <1>1, <1>2, <1>3

LEMMA UsageHolds == Spec => []UsageInv
<1>1. Init => UsageInv
  BY DEF Init, UsageInv, CpuSumInv, IrqSumInv, MessageInv
<1>2. Base /\ Fresh /\ LiveInv /\ UsageInv /\ [Next]_vars => UsageInv'
  <2> SUFFICES ASSUME Base, Fresh, LiveInv, UsageInv, [Next]_vars PROVE UsageInv'
    OBVIOUS
  <2>1. CASE Load
    BY <2>1, LoadCpu, LoadIrq
  <2>2. CASE KernelStep \/ StoreStep
    BY <2>2, DriverUsage
  <2>3. CASE OpenDevice \/ Mmap \/ MmapFails \/ Scan \/ Save \/ CloseDevice
    BY <2>3, OtherUsage
  <2>4. CASE UNCHANGED vars
    <3>1. /\ UNCHANGED <<pc, rec, step, sum, cache, early, torn, page, driver>>
          /\ FitSet' \subseteq FitSet
      BY <2>4, FitsGrow DEF vars, kernelVars, readerVars, Base, Types
    <3>2. Usage' = Usage
      BY <3>1 DEF Usage, UsageOf
    <3> QED
      BY <3>1, <3>2 DEF UsageInv, CpuSumInv, IrqSumInv, MessageInv, Measured
  <2> QED
    BY <2>1, <2>2, <2>3, <2>4 DEF Next, Update
<1> QED
  BY <1>1, <1>2, BaseHolds, FreshHolds, PTL DEF Spec

\* The usage in a message is not negative and not more than the kernel has
\* counted since the previous sample, and of cpu_stat it is at most the time
\* that has passed unless the record was stored to while it was loaded
\* (UpdateOnce of both readers, over a page that nothing locks and that starts
\* from zero at each insmod); for any number of CPUs, stores and reloads, any
\* units and any rounding.  Passes that meet a driver before its first update
\* is complete are exempt, and CPUs one of whose counters has wrapped or needs
\* rounding.
THEOREM UsageInRangeCorrect == Spec => []UsageInRange
<1>1. Base /\ UsageInv => UsageInRange
  <2> SUFFICES ASSUME Base, UsageInv, pc = "save", step = 1, rec \in DOMAIN cache, ~early, Fits(rec)
               PROVE  /\ Usage.busy \in 0 .. Busy(Sample(rec)) - Busy(cache[rec])
                      /\ driver = "cpu_stat" =>
                           Usage.total >= 0 /\ (torn \/ Usage.busy <= Usage.total)
    BY DEF UsageInRange
  <2>1. rec \in FitSet /\ Measured
    BY RecordTypes DEF FitSet, Measured, Base
  <2>2. /\ cache[rec] \in [FieldNames -> Nat] /\ page[rec].val \in [FieldNames -> Nat]
        /\ Samples[rec] \in [FieldNames -> Nat] /\ Samples[rec] = Sample(rec)
        /\ \A f \in FieldNames : page[rec].val[f] <= Samples[rec][f]
    BY <2>1, CacheTypes DEF Base, BoundInv, PageInv, Samples
  <2>3. /\ Busy(cache[rec]) = BusyOf(driver, cache[rec]) /\ Busy(cache[rec]) \in Nat
        /\ Busy(Sample(rec)) = BusyOf(driver, Samples[rec]) /\ Busy(Sample(rec)) \in Nat
        /\ BusyOf(driver, page[rec].val) \in Nat
        /\ BusyOf(driver, page[rec].val) <= BusyOf(driver, Samples[rec])
    BY <2>2, BusyIs, BusyGrows DEF Base, Types
  <2>4. /\ Usage.busy \in Nat
        /\ BusyOf(driver, cache[rec]) + Usage.busy <= BusyOf(driver, page[rec].val)
        /\ driver = "cpu_stat" => Usage.total >= 0 /\ (torn \/ Usage.busy <= Usage.total)
    BY <2>1 DEF UsageInv, MessageInv
  <2> QED
    BY <2>3, <2>4
<1> QED
  BY <1>1, BaseHolds, UsageHolds, PTL
-----------------------------------------------------------------------------
(* No usage is reported twice. *)

\* The fields saved so far, and the sample that the save is about to complete.
Saved == {Saves[k] : k \in 1 .. step - 1}
Mixed == [f \in FieldNames |-> IF f \in Saved THEN cache[rec][f] ELSE page[rec].val[f]]

\* Between messages a sample covers all that was told of the CPU.
ToldInv ==
    \A c \in DOMAIN told \cap FitSet :
        (pc = "save" /\ c = rec) \/ told[c] <= BusyOf(driver, cache[c])

\* Once the message is told, the sample that the save completes will.
SaveInv ==
    pc = "save" /\ rec \in DOMAIN told \cap FitSet => told[rec] <= BusyOf(driver, Mixed)

LEMMA MixedType ==
  ASSUME Base, pc = "save", rec \in DOMAIN told \cap FitSet
  PROVE  /\ rec \in DOMAIN cache \cap FitSet /\ told[rec] \in Int
         /\ Mixed \in [FieldNames -> Nat]
         /\ \A f \in FieldNames : Mixed[f] <= Samples[rec][f]
<1>1. rec \in DOMAIN cache \cap FitSet /\ told[rec] \in Int
  BY RecordTypes DEF Base
<1>2. PICK i \in DOMAIN cache \cap FitSet : i = rec
  BY <1>1
<1>3. /\ cache[i] \in [FieldNames -> Nat] /\ page[i].val \in [FieldNames -> Nat]
      /\ \A f \in FieldNames : cache[i][f] <= Samples[i][f] /\ page[i].val[f] <= Samples[i][f]
  BY CacheTypes DEF Base, BoundInv, PageInv
<1> QED
  BY <1>1, <1>2, <1>3 DEF Mixed

\* The bounds give the property.
LEMMA ToldBounded == ASSUME Base, ToldInv, SaveInv PROVE ReportedOnce
<1> SUFFICES ASSUME NEW c \in DOMAIN told, Fits(c) PROVE told[c] <= Busy(Sample(c))
  BY DEF ReportedOnce
<1>1. c \in DOMAIN cache \cap FitSet /\ told[c] \in Int
  BY RecordTypes DEF Base, FitSet
<1>2. /\ cache[c] \in [FieldNames -> Nat] /\ Samples[c] \in [FieldNames -> Nat]
      /\ Samples[c] = Sample(c) /\ \A f \in FieldNames : cache[c][f] <= Samples[c][f]
  BY <1>1, CacheTypes DEF Samples
<1>3. /\ BusyOf(driver, Samples[c]) = Busy(Sample(c)) /\ Busy(Sample(c)) \in Nat
      /\ BusyOf(driver, cache[c]) \in Nat
      /\ BusyOf(driver, cache[c]) <= BusyOf(driver, Samples[c])
  BY <1>2, BusyIs, BusyGrows DEF Base, Types
<1>4. CASE ~(pc = "save" /\ c = rec)
  BY <1>1, <1>3, <1>4 DEF ToldInv
<1>5. CASE pc = "save" /\ c = rec
  <2>1. told[c] <= BusyOf(driver, Mixed)
    BY <1>1, <1>5 DEF SaveInv
  <2>2. Mixed \in [FieldNames -> Nat] /\ \A f \in FieldNames : Mixed[f] <= Samples[c][f]
    BY <1>1, <1>5, MixedType
  <2>3. BusyOf(driver, Mixed) \in Nat /\ BusyOf(driver, Mixed) <= BusyOf(driver, Samples[c])
    BY <1>2, <2>2, BusyIs, BusyGrows DEF Base, Types
  <2> QED
    BY <1>1, <1>3, <2>1, <2>3
<1> QED
  BY <1>4, <1>5

\* The driver lets what is told stand, and the page under a pass only grows.
LEMMA DriverTold ==
  ASSUME Base, ToldInv, SaveInv, KernelStep \/ StoreStep \/ UNCHANGED vars
  PROVE  ToldInv' /\ SaveInv'
<1>0. /\ [Next]_vars /\ UNCHANGED <<pc, rec, step, cache, told>> /\ driver' = driver
      /\ FitSet' \subseteq FitSet /\ FieldNames' = FieldNames /\ KernelTypes' /\ Saves' = Saves
  BY DriverStays, FitsGrow, KernelTypesStep
     DEF Next, KernelStep, StoreStep, readerVars, vars, Base, Types, Saves
<1>1. ToldInv'
  BY <1>0 DEF ToldInv
<1>2. SaveInv'
  <2> SUFFICES ASSUME pc = "save", rec \in DOMAIN told \cap FitSet
               PROVE  told[rec] <= BusyOf(driver, Mixed')
    BY <1>0 DEF SaveInv
  <2>1. /\ Mixed \in [FieldNames -> Nat] /\ told[rec] \in Int
        /\ rec \in DOMAIN cache \cap FitSet
    BY MixedType
  <2>a. PICK i \in DOMAIN cache \cap FitSet : i = rec
    BY <2>1
  <2>2. /\ i \in Stored /\ i \in Idx /\ cache[i] \in [FieldNames -> Nat]
        /\ \A f \in FieldNames : page[i].val[f] \in Nat
    BY CacheTypes
  <2>3. page'[i].val \in [FieldNames -> Nat]
    BY <1>0, <2>2 DEF KernelTypes, Idx
  <2>4. \A f \in FieldNames : page[i].val[f] <= page'[i].val[f]
    BY <1>0, PageGrows DEF Base
  <2>5. Mixed' = [f \in FieldNames |-> IF f \in Saved THEN cache[rec][f] ELSE page'[rec].val[f]]
    BY <1>0 DEF Mixed, Saved
  <2>6. Mixed' \in [FieldNames -> Nat] /\ \A f \in FieldNames : Mixed[f] <= Mixed'[f]
    BY <2>2, <2>3, <2>4, <2>5, <2>a DEF Mixed
  <2>7. /\ BusyOf(driver, Mixed) <= BusyOf(driver, Mixed')
        /\ BusyOf(driver, Mixed) \in Nat /\ BusyOf(driver, Mixed') \in Nat
    BY <2>1, <2>6, BusyGrows, BusyIs DEF Base, Types
  <2> QED
    BY <2>1, <2>7 DEF SaveInv
<1> QED
  BY <1>1, <1>2

\* The last load tells the message, which is about what the page holds beyond
\* the sample; an early pass starts the count anew.
LEMMA LoadTold ==
  ASSUME Base, ToldInv, SaveInv, Load, UsageInv'
  PROVE  ToldInv' /\ SaveInv'
<1>0. /\ [Next]_vars /\ pc = "load" /\ UNCHANGED <<page, cache, rec, kernelVars>>
      /\ driver' = driver /\ FitSet' \subseteq FitSet /\ FieldNames' = FieldNames
  BY DriverStays, FitsGrow DEF Load, Next, Update, kernelVars, Base, Types
<1>1. CASE step # Len(Loads)
  <2>1. pc' = "load" /\ told' = told
    BY <1>1 DEF Load
  <2> QED
    BY <1>0, <2>1 DEF ToldInv, SaveInv
<1>2. CASE step = Len(Loads)
  <2>1. /\ pc' = "save" /\ step' = 1
        /\ told' = (IF rec \notin DOMAIN told THEN told
                    ELSE IF early' THEN Restrict(told, DOMAIN told \ {rec})
                    ELSE [told EXCEPT ![rec] = @ + UsageOf(sum').busy])
    BY <1>2 DEF Load
  <2>2. \A c \in DOMAIN told' : c # rec => c \in DOMAIN told /\ told'[c] = told[c]
    BY <2>1 DEF Restrict
  <2>3. ToldInv'
    BY <1>0, <2>1, <2>2 DEF ToldInv
  <2>4. SaveInv'
    <3> SUFFICES ASSUME rec \in DOMAIN told' \cap FitSet'
                 PROVE  told'[rec] <= BusyOf(driver, Mixed')
      BY <1>0 DEF SaveInv
    <3>1. /\ ~early' /\ rec \in DOMAIN told
          /\ told' = [told EXCEPT ![rec] = @ + UsageOf(sum').busy]
      BY <2>1 DEF Restrict
    <3>2. rec \in DOMAIN cache \cap FitSet /\ told[rec] \in Int
      BY <1>0, <3>1, RecordTypes DEF Base
    <3>a. PICK v : v = page[rec].val
      OBVIOUS
    <3>3. /\ Usage'.busy \in Nat /\ Usage' = UsageOf(sum')
          /\ BusyOf(driver, cache[rec]) + Usage'.busy <= BusyOf(driver, v)
      <4>1. Usage' = UsageOf(sum')
        BY <1>0, Zenon DEF Usage, UsageOf
      <4>2. Measured'
        BY <1>0, <3>1, <3>2 DEF Measured
      <4>3. MessageInv'
        BY DEF UsageInv
      <4> QED
        BY <1>0, <2>1, <3>a, <4>1, <4>2, <4>3 DEF MessageInv
    <3>4. told[rec] <= BusyOf(driver, cache[rec])
      BY <1>0, <3>1, <3>2 DEF ToldInv
    <3>5. Mixed' = v
      <4>1. Saved' = {}
        BY <2>1 DEF Saved
      <4>2. v \in [FieldNames -> Nat]
        BY <3>2, <3>a, CacheTypes
      <4>3. Mixed' = [f \in FieldNames |-> v[f]]
        BY <1>0, <3>a, <4>1 DEF Mixed
      <4> QED
        BY <4>2, <4>3
    <3>6. BusyOf(driver, cache[rec]) \in Nat /\ BusyOf(driver, v) \in Nat
      BY <3>2, <3>a, CacheTypes, BusyIs DEF Base, Types
    <3>7. told'[rec] = told[rec] + Usage'.busy
      BY <3>1, <3>3
    <3>8. told[rec] + Usage'.busy <= BusyOf(driver, v)
      BY <3>2, <3>3, <3>4, <3>6
    <3> QED
      BY <3>5, <3>7, <3>8
  <2> QED
    BY <2>3, <2>4
<1> QED
  BY <1>1, <1>2

\* Every field is saved once, and the last save completes the sample.
LEMMA SavesOnce ==
  ASSUME pc = "save", step \in 1 .. Len(Saves)
  PROVE  /\ Saves[step] \notin Saved
         /\ {Saves[k] : k \in 1 .. step} = Saved \union {Saves[step]}
         /\ step = Len(Saves) => FieldNames = Saved \union {Saves[step]}
<1>1. \A k \in 1 .. Len(Saves) : \A j \in 1 .. k - 1 : Saves[j] # Saves[k]
  <2>1. CASE driver = "cpu_stat"
    <3>1. Len(Saves) = 3 /\ Saves[1] = "user" /\ Saves[2] = "idle" /\ Saves[3] = "irq"
      BY <2>1 DEF Saves, CpuStatSaves
    <3>2. \A k \in 1 .. 3 : \A j \in 1 .. k - 1 : (k = 2 /\ j = 1) \/ (k = 3 /\ (j = 1 \/ j = 2))
      OBVIOUS
    <3> QED
      BY <3>1, <3>2
  <2>2. CASE driver # "cpu_stat"
    <3>1. Len(Saves) = 2 /\ Saves[1] = "hi" /\ Saves[2] = "rcu"
      BY <2>2 DEF Saves, SoftirqSaves
    <3>2. \A k \in 1 .. 2 : \A j \in 1 .. k - 1 : k = 2 /\ j = 1
      OBVIOUS
    <3> QED
      BY <3>1, <3>2
  <2> QED
    BY <2>1, <2>2
<1>2. Saves[step] \notin Saved
  BY <1>1 DEF Saved
<1>3. {Saves[k] : k \in 1 .. step} = Saved \union {Saves[step]}
  <2>1. Len(Saves) \in Nat
    BY LoadTable
  <2>2. \A k \in 1 .. step : k = step \/ k \in 1 .. step - 1
    BY <2>1
  <2>3. step \in 1 .. step /\ 1 .. step - 1 \subseteq 1 .. step
    BY <2>1
  <2> QED
    BY <2>2, <2>3 DEF Saved
<1>4. FieldNames = {Saves[k] : k \in 1 .. Len(Saves)}
  <2>1. CASE driver = "cpu_stat"
    <3>1. Len(Saves) = 3 /\ Saves[1] = "user" /\ Saves[2] = "idle" /\ Saves[3] = "irq"
      BY <2>1 DEF Saves, CpuStatSaves
    <3>2. \A k \in 1 .. 3 : k = 1 \/ k = 2 \/ k = 3
      OBVIOUS
    <3> QED
      BY <2>1, <3>1, <3>2, FieldTable
  <2>2. CASE driver # "cpu_stat"
    <3>1. Len(Saves) = 2 /\ Saves[1] = "hi" /\ Saves[2] = "rcu"
      BY <2>2 DEF Saves, SoftirqSaves
    <3>2. \A k \in 1 .. 2 : k = 1 \/ k = 2
      OBVIOUS
    <3> QED
      BY <2>2, <3>1, <3>2, FieldTable
  <2> QED
    BY <2>1, <2>2
<1> QED
  BY <1>2, <1>3, <1>4

\* A save replaces one field of the sample by what the page holds; what was
\* told before is covered by the sample when the last field is in.
LEMMA SaveTold ==
  ASSUME Base, ToldInv, SaveInv, Save
  PROVE  ToldInv' /\ SaveInv'
<1> DEFINE f == Saves[step]
           old == IF rec \in DOMAIN cache THEN cache[rec] ELSE Zero
           n == Cached(page[rec].val[f])
           new == [old EXCEPT ![f] = n]
<1>0. /\ [Next]_vars /\ pc = "save" /\ UNCHANGED kernelVars /\ page' = page
      /\ driver' = driver /\ FitSet' \subseteq FitSet /\ FieldNames' = FieldNames /\ Saves' = Saves
  BY DriverStays, FitsGrow DEF Save, Next, Update, kernelVars, Base, Types, Saves
<1>1. /\ rec \in Stored /\ page[rec].val \in [FieldNames -> Nat]
      /\ step \in 1 .. Len(Saves) /\ f \in FieldNames /\ step \in Nat
  BY <1>0, RecordTypes, LoadTable DEF Base, Types, ReaderTypes, LoopTypes
<1>2. n \in Nat /\ old \in [FieldNames -> Nat]
  <2>1. n \in Nat
    BY <1>1, FloatType
  <2>2. old \in [FieldNames -> Nat]
    BY RecordTypes DEF Zero, Base
  <2> QED
    BY <2>1, <2>2
<1>3. /\ new \in [FieldNames -> Nat]
      /\ \A g \in FieldNames : new[g] = IF g = f THEN n ELSE old[g]
  BY <1>1, <1>2
<1>4. /\ cache' = [c \in DOMAIN cache \union {rec} |-> IF c = rec THEN new ELSE cache[c]]
      /\ told' = IF step = Len(Saves) /\ rec \notin DOMAIN told
                 THEN [c \in DOMAIN told \union {rec} |-> IF c = rec THEN Busy(new) ELSE told[c]]
                 ELSE told
      /\ IF step = Len(Saves) THEN pc' = "scan"
                              ELSE pc' = "save" /\ step' = step + 1 /\ rec' = rec
  BY DEF Save
<1>5. rec \in FitSet => n = page[rec].val[f]
  BY <1>1, CachedExact DEF Base, Types, BoundInv, PageInv
<1> HIDE DEF n, new
<1>7. \A c \in DOMAIN told : c # rec => told'[c] = told[c] /\ cache'[c] = cache[c]
  BY <1>4, RecordTypes DEF Base
<1>8. \A c \in DOMAIN told \cap FitSet : c # rec => told'[c] <= BusyOf(driver, cache'[c])
  BY <1>7 DEF ToldInv
<1>9. CASE step # Len(Saves)
  <2>1. pc' = "save" /\ step' = step + 1 /\ rec' = rec /\ told' = told
    BY <1>4, <1>9
  <2>2. ToldInv'
    BY <1>0, <1>8, <2>1 DEF ToldInv
  <2>3. SaveInv'
    <3> SUFFICES ASSUME rec \in DOMAIN told \cap FitSet PROVE told[rec] <= BusyOf(driver, Mixed')
      BY <1>0, <2>1 DEF SaveInv
    <3>1. rec \in DOMAIN cache
      BY MixedType, <1>0
    <3>2. Saved' = Saved \union {f} /\ f \notin Saved
      <4>1. Saved' = {Saves[k] : k \in 1 .. step}
        BY <1>0, <1>1, <2>1 DEF Saved
      <4> QED
        BY <1>0, <1>1, <4>1, SavesOnce
    <3>3. cache'[rec'] = new /\ page'[rec'].val = page[rec].val
      BY <1>0, <1>4, <2>1
    <3>4. Mixed' = [g \in FieldNames |-> IF g \in Saved \union {f} THEN new[g]
                                                                 ELSE page[rec].val[g]]
      BY <1>0, <3>2, <3>3, Zenon DEF Mixed
    <3>5. Mixed' = Mixed
      BY <1>3, <1>5, <3>1, <3>2, <3>4 DEF Mixed
    <3> QED
      BY <1>0, <3>5 DEF SaveInv
  <2> QED
    BY <2>2, <2>3
<1>10. CASE step = Len(Saves)
  <2>1. pc' = "scan"
    BY <1>4, <1>10
  <2>2. rec \in DOMAIN told' \cap FitSet => told'[rec] <= BusyOf(driver, cache'[rec])
    <3> SUFFICES ASSUME rec \in FitSet PROVE told'[rec] <= BusyOf(driver, cache'[rec])
      OBVIOUS
    <3>1. cache'[rec] = new /\ BusyOf(driver, new) \in Nat /\ Busy(new) = BusyOf(driver, new)
      BY <1>3, <1>4, BusyIs DEF Base, Types
    <3>2. CASE rec \in DOMAIN told
      <4>1. told' = told /\ rec \in DOMAIN cache
        BY <1>0, <1>4, <3>2, RecordTypes DEF Base
      <4>2. f \notin Saved /\ FieldNames = Saved \union {f}
        BY <1>0, <1>1, <1>10, SavesOnce
      <4>3. Mixed = new
        <5>1. \A g \in FieldNames : Mixed[g] = new[g]
          BY <1>3, <1>5, <4>1, <4>2 DEF Mixed
        <5>2. DOMAIN Mixed = FieldNames /\ Mixed = [g \in FieldNames |-> Mixed[g]]
          BY DEF Mixed
        <5> QED
          BY <1>3, <5>1, <5>2
      <4> QED
        BY <1>0, <3>1, <3>2, <4>1, <4>3 DEF SaveInv
    <3>3. CASE rec \notin DOMAIN told
      <4>1. told'[rec] = Busy(new)
        BY <1>4, <1>10, <3>3
      <4> QED
        BY <3>1, <4>1
    <3> QED
      BY <3>2, <3>3
  <2>3. ToldInv'
    <3>1. \A c \in DOMAIN told' : c = rec \/ c \in DOMAIN told
      BY <1>4
    <3> QED
      BY <1>0, <1>8, <2>1, <2>2, <3>1 DEF ToldInv
  <2>4. SaveInv'
    BY <2>1 DEF SaveInv
  <2> QED
    BY <2>3, <2>4
<1> QED
  BY <1>9, <1>10

\* The other steps of the reader are between messages.
LEMMA MoveTold ==
  ASSUME Base, ToldInv, OpenDevice \/ Mmap \/ MmapFails \/ Scan \/ CloseDevice
  PROVE  ToldInv' /\ SaveInv'
<1>0. /\ [Next]_vars /\ UNCHANGED <<cache, told>> /\ pc \notin {"load", "save"}
      /\ driver' = driver /\ FitSet' \subseteq FitSet
  BY DriverStays, FitsGrow
     DEF Next, Update, OpenDevice, Mmap, MmapFails, Scan, CloseDevice, Base, Types
<1>1. ToldInv'
  BY <1>0 DEF ToldInv
<1>2. pc' = "save" => rec' \notin DOMAIN told'
  <2>1. pc' = "save" => rec' = rec /\ rec \notin DOMAIN cache
    BY DEF OpenDevice, Mmap, MmapFails, Scan, CloseDevice
  <2> QED
    BY <1>0, <2>1, RecordTypes DEF Base
<1> QED
  BY <1>1, <1>2 DEF SaveInv

\* No usage is reported twice: what the messages about a CPU add up to, on top
\* of its first sample, is never more than the kernel has counted (UpdateOnce
\* of both readers, which load the counters for the message and load them again
\* for the cache); for any number of CPUs, stores and reloads, any units and
\* any rounding.  The messages of a pass that meets a driver before its first
\* update is complete are exempt, and the count starts anew after them; so are
\* CPUs one of whose counters has wrapped or needs rounding.
THEOREM ReportedOnceCorrect == Spec => []ReportedOnce
<1>1. Init => ToldInv /\ SaveInv
  BY DEF Init, ToldInv, SaveInv
<1>2. Base /\ UsageInv' /\ ToldInv /\ SaveInv /\ [Next]_vars => ToldInv' /\ SaveInv'
  <2> SUFFICES ASSUME Base, UsageInv', ToldInv, SaveInv, [Next]_vars PROVE ToldInv' /\ SaveInv'
    OBVIOUS
  <2>1. CASE KernelStep \/ StoreStep \/ UNCHANGED vars
    BY <2>1, DriverTold
  <2>2. CASE Load
    BY <2>2, LoadTold
  <2>3. CASE Save
    BY <2>3, SaveTold
  <2>4. CASE OpenDevice \/ Mmap \/ MmapFails \/ Scan \/ CloseDevice
    BY <2>4, MoveTold
  <2> QED
    BY <2>1, <2>2, <2>3, <2>4 DEF Next, Update
<1>3. Base /\ ToldInv /\ SaveInv => ReportedOnce
  BY ToldBounded
<1> QED
  BY <1>1, <1>2, <1>3, BaseHolds, UsageHolds, PTL DEF Spec
=============================================================================
