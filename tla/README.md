# A formal model of linux_monitor_system

TLA+ modules, TLC configurations and TLAPS proofs for the distributed Linux
monitor of this repository: workers sample their machine and push reports over
gRPC to a manager, which scores them, keeps them in MySQL and answers queries.

Contents: [the system](#the-system) ·
[modules](#modules-and-how-they-correspond-to-the-code) ·
[runs](#what-is-checked) · [fairness](#fairness) ·
[disagreements found](#where-code-and-comments-disagree) ·
[proofs](#what-is-proved) · [not modelled](#what-is-not-modelled) ·
[plan](#plan) · [running it](#running-it)

## The system

```
 worker (one per machine)                     manager (one)
 ------------------------                     -------------
 kernel module  --mmap--.                     gRPC threads
 eBPF program   --map---+-> MetricCollector     SetMonitorInfo: host_data_ (mtx_), then callback
 /proc, ...     --------'        |                 |
                          MonitorPusher --gRPC-->  HostManager::OnDataReceived
                          (one thread)             |  hash(hostname) % N
                                                   v
                                            N SafeQueues -> N consumer threads
                                              ProcessData: score, rates, host_scores_ (mtx_)
                                              WriteToMysql: 5 tables, a connection per report
                                            ProcessLoop: drops silent hosts every 60 s
                                                   |
 clients  ------------- gRPC -------------> QueryService -> QueryManager -> MySQL
                                                            (mtx_, one connection)
```

### Inventory

**SafeQueue** (`manager/include/utils/safe_queue.h`).
State: `queue_`, `stop_`, a mutex, a condition variable. Operations: `Push`
(any gRPC thread), `Pop` (blocks; one consumer thread), `Stop`. Hard: lost
wakeups, spurious wakeups, a `Stop` between the predicate and the sleep.
Correct when: no value is lost, doubled or reordered; no consumer sleeps on a
queue that holds something; after `Stop` nobody sleeps; what is queued at
`Stop` can still be popped.

**HostManager** (`manager/src/host_manager.cpp`).
State: the queues and threads, `running_`, `host_scores_` under `mtx_`, five
families of file-scope vectors of maps (shards) without a lock, a
`thread_local` map. Operations: construction, `Start`, `Stop`,
`OnDataReceived`, `ConsumeMessage`, `ProcessData`, `WriteToMysql`,
`ProcessLoop`. Hard: threads that start inside the constructor; a queue and a
shard selected by hashes of different strings; histories replaced at different
points of a path that may end early; results of INSERTs ignored; a cleaner that
takes the time before the mutex; stopping threads that block or sleep. Correct
when: the reports of a server are handled in order, none skipped; rates are
taken against the previous report; rows are in order; the live table moves
forward, lists fresh hosts and forgets silent ones; `Stop` ends.

**Report ingestion service** (`manager/src/rpc/grpc_server.cpp`).
State: `host_data_` under `mtx_`. Operations: `SetMonitorInfo`, and readers.
Hard: table and callback are not one critical section, and handlers of
different calls run at once. Correct when: table and pipeline agree on the last
report of a host; what is acknowledged was passed on once.

**MonitorPusher** (`worker/src/rpc/monitor_pusher.cpp`, `worker/src/main.cpp`).
State: `running_`, one thread. Operations: `Start`, `Stop`, `PushLoop`,
`PushOnce`. Hard: calls without a deadline whose outcome may be unknown; `Stop`
during a call or a wait. Correct when: each report arrives at most once, in
order; the loop goes on after a failure; `Stop` returns.

**QueryManager** and **Query service** (`manager/src/query_manager.cpp`,
`manager/src/rpc/query_service.cpp`).
State: one MySQL connection, `initialized_`, `mtx_`. Operations: `Init`, five
queries on `server_performance` and four on detail tables. Hard: count and page
are two statements while rows are inserted; OFFSET counts from a moving end;
equal timestamps; int overflow of the offset; a connection never reopened;
statements that fail. Correct when: pages put together are the answer; the total
fits the page; the latest data of every server is there once; every query is
answered.

**Manager main** (`manager/src/main.cpp`). Creates the parts, starts the
HostManager, then serves until the process is killed: `server->Wait()` has no
counterpart that shuts the server down, so `HostManager::Stop` is reached only
by way of the destructor after it. The models treat `Stop` as an operation of
the class, at any time after `Start`.

**CPU statistics collectors** (`worker/src/kmod/*.c`,
`worker/src/monitor/cpu_stat_monitor.cpp`, `cpu_softirq_monitor.cpp`).
State: in the kernel five resources, a timer and a page of per-CPU records; in
the worker the previous sample of each CPU. Operations: module init and exit,
`open`, `mmap`, `release`, the timer's callback; `UpdateOnce` of either reader.
Hard: an init that fails half way while a reader has opened the device; `rmmod`
during a callback; a page that is read field by field while it is rewritten, and
that starts from zero after a reload. Correct when: nothing leaks and nothing is
used after it is freed; the usage reported is in range, of every CPU, and told
once.

**eBPF network statistics** (`worker/src/ebpf/net_stats.bpf.c`,
`worker/src/monitor/net_ebpf_monitor.cpp`).
State: a hash map of 64 interfaces shared by all CPUs, the hooks, the reader's
cached counters and names. Operations: a packet on a CPU, `InitEbpf`,
`UpdateOnce`, `CleanupEbpf`. Hard: two CPUs that insert one key; a full map; a
walk over a map that changes; counters that go back. Correct when: once an
interface is in the map no packet is lost; the reports never exceed the traffic;
every interface is reported; a walk ends.

**Other metric collectors** (`worker/src/monitor/*.cpp`). State: previous
samples. They run in the pusher's thread and read files under `/proc` and
`/sys`. Not modelled.

What can go wrong in each, at its line, is listed under `hazards` in
`PROJECT.json`.

## Modules and how they correspond to the code

| module | models | state ↔ code |
|---|---|---|
| `SafeQueue` | `safe_queue.h` | `queue_`, `stop_`; `pc` = who waits on `cond_`; `sent`, `got` are histories |
| `FifoChannel` | what the manager expects of a queue | abstract |
| `HostManager` | `host_manager.cpp`, `host_manager.h`, the life of `main` | see below |
| `HostHistory` | what the pipeline promises of each server | abstract |
| `MonitorPusher` | `monitor_pusher.cpp` | `running_`; `thread_` = where `PushLoop` is; `owner` = the thread that calls `Start`/`Stop` |
| `GrpcServer` | `grpc_server.cpp` | `host_data_`; `handlers` = calls inside `SetMonitorInfo` |
| `Ingestion` | the two above with gRPC between them | `network`, `answers` |
| `QueryManager` | `query_manager.cpp`, `query_service.cpp`, paging clients | `conn_`, `initialized_`, `mtx_`; `table` = the rows of the five tables |
| `StatCollector` | `cpu_stat_collector.c`, `softirq_collector.c` | `mod`, `at` = where init or exit is; `held` = resources; `page`; `kstat` = the kernel's counters |
| `StatMonitors` | `cpu_stat_monitor.cpp`, `cpu_softirq_monitor.cpp` over `StatCollector` | `pc`, `rec`, `step` = where `UpdateOnce` is; `cache` = the previous samples |
| `NetStats` | `net_stats.bpf.c` and the kernel's hash map | `map`, `order`, `elem`, `spare`; `cpu` = where each program is |
| `NetEbpfMonitor` | `net_ebpf_monitor.cpp` over `NetStats` | `loaded_`, `attached_ifindexes_`, `ifname_cache_`, `cache_`; `pc`, `key` = where the walk is |
| `SafeQueueProofs`, `HostManagerProofs`, `HostRowsProofs`, `IngestionProofs`, `QueryManagerProofs`, `StatMonitorsProofs`, `StatReportProofs`, `NetEbpfMonitorProofs` | theorems | – |
| `MC...` | constants of the TLC instances | – |

Names are those of the source where TLA+ allows; `map` in `PROJECT.json` gives
the lines each definition stands for.

A definition whose comment begins with "Mutant of X" is X with a plausible bug.
It is used by no specification: it documents, for each property, a change of the
code that the property catches.

### SafeQueue

A stretch of code under the mutex is one step, so the mutex has no variable. A
consumer inside `Pop` is "waiting" or "woken" (notified, or woken for no reason,
which `std::condition_variable` allows). The n-th value pushed is n.

### HostManager

A step is the code between two accesses to state that threads share:

| actions | code |
|---|---|
| `CtorPush`, `CtorSpawn`, `Start` | constructor loop, `Start` |
| `OnDataReceived` | the gRPC callback |
| `FetchQueue`, `TestRunning`, `Pop` | `ConsumeMessage` |
| `TakeSnapshot`, `ReadLast`, `SaveLast`, `UpdateScore` | `ProcessData` |
| `Connect`, `WriteMain`, `WriteDetail` | `WriteToMysql` |
| `CleanTest`, `CleanWake`, `CleanScan` | `ProcessLoop` |
| `Stop`, `StopQueue`, `Join` | `Stop` |

Abstractions:

- *Reports are numbered* in the order in which they are received, and
  `received[n]` keeps who sent report n and of which interfaces, CPUs and disks
  it has details (`items`; the memory is one item). Of the metrics nothing else
  is kept: a
  history holds the number of the report its sample comes from (0: none), and a
  row `[n, base]` the report it describes and the one its rates are against.
  Scores and rates are functions of those two reports.
- *Identifiers* put together from a hostname and an address are kept as the
  sequence of their parts. Strings that are equal although their parts differ
  ("a_1" of host "a" at "1", or of a host called "a_1") are kept apart.
  `Hash` is any function.
- *Details* are written section by section, in the order of the code. A section
  without items is passed over (`GoOn`); one with items reads, inserts and replaces the
  history of each of its items and of no other. A report that names an item twice
  is not told from one that names it once. The sample of the disk utilisation
  that `server_performance` is compared with has a history of its own, which
  every report moves. `written` remembers which reports came to an
  INSERT at all.
- *A queue is the FIFO channel* that `SafeQueue` is shown to implement: `Pop`
  waits until there is a value or the queue is stopped.
- *Data races.* A shard is a `std::map` without a lock. Two threads race when
  both are at an access to the same shard and one of them adds a server to it,
  which happens at its first report and, in each section of details, at the
  first report that has an item of it. (An item that is new later goes into the
  server's own map inside the shard, where only the thread of that server is.) A race is
  undefined behaviour: the process may die (`crashed`), or go on with a shard
  that holds anything from then on (`raced`; a read of such a shard returns any
  sample). The constructor's `push_back` races with a consumer that copies its
  queue (`FetchQueue`); the outcome is a crash or a good copy.
- *Time.* The code only compares differences of times, so the state holds ages,
  cut off at `MaxAge = StaleLimit + 1 + MaxLag`, above which no comparison
  changes. `MaxLag` bounds how long the cleaner waits for `mtx_` between taking
  its `now` and scanning; it is the only assumption about timing.
- *MySQL.* Connecting may fail; an INSERT may store its row or not, since the
  code ignores the result. The rows of the detail tables are not kept (no
  property needs them).

### MonitorPusher, GrpcServer, Ingestion

A call is a request in `network`, a handler in the manager, and the caller
waiting in "calling". A broken connection ends the call with an error
(`Fail`), and what was sent may be lost, may arrive later, or its handler may
run to its end while the worker makes its next call over a new connection.
Nothing is sent twice. Workers share nothing but the hosts they speak for.

### QueryManager

Each SQL statement is a step, since the HostManager's threads insert over
connections of their own. Row n is the n-th inserted: its table, server, time,
score, and the set of metrics above their thresholds. Its time is the one at which the
report was handled (what the code stores; the comment in the SQL file speaks of
the time of collection): it never decreases for a server, and rows of other
servers may overtake. (Clocks that are set back, and local times that repeat an
hour in autumn, are left out.) A record of an answer is the set of rows it was made from
and a tag (status, or the metric of an anomaly). Rows that tie in ORDER BY come
in any order. An `int` is less than `IntLimit` (2^31): `(page - 1) * page_size`
may wrap, and a negative OFFSET makes the statement fail. `QueryNetDetail`, `QueryDiskDetail`,
`QueryMemDetail` and `QuerySoftIrqDetail` select from tables of their own, in
which the rows of one report always tie, so `WalkMissesNothing` promises a walk
over them only what untied rows allow. `seen`, `sound`, `first`, `from`,
`since` and `until` are histories for the properties. A walk is promised to be
complete only if it began at page 1 (`first`): a client that begins later skips
the newest rows, and its offset can reach the end by wrapping. The proof of
`WalkMissesNothing` needs that condition; the instance is too small to show it.

### StatCollector and StatMonitors

The two drivers have the same control and differ in tables (`CpuStatModule`,
`SoftirqModule`: the steps of init, where each failure jumps to, the order of
exit), so a behaviour chooses one `driver` and keeps it. Each store to the page
and each load from it is a step: nothing locks the page, and the reader loads a
field several times, for the sums of the message and again for its cache.

- Fields that the code treats alike stand for one another (user for user, nice,
  system; idle for idle, iowait; irq for irq, softirq, steal; hi and rcu for the
  ten softirq counters). A name is stored at once; the end mark of the page is
  an empty name.
- The kernel's counters only grow. (The kernel's iowait may shrink now and then.)
- `Convert` is what a driver stores of a counter. softirq counters are unsigned
  ints in the kernel and wrap at `UintLimit` (2^32). Times are nanoseconds there,
  rounded down to jiffies; but when `get_cpu_idle_time_us` has an answer (`nohz`),
  idle and iowait are microseconds which, on their way into
  `usecs_to_jiffies(const unsigned int)`, lose what is above 32 bits, and are
  rounded up. The cap inside `usecs_to_jiffies`, which concerns the last few
  milliseconds below 2^32, is left out, and user, irq and the rest count in jiffies of `PerJiffy`
  units.
- `CpuStatMonitor` keeps its samples in floats, and its sums and differences are
  floats (`Float`, `FloatDiff`): `Rounded` says which integers are not floats,
  and what they become. The percentages made of the differences are left out,
  and with them the division by a total that may be zero.
- `CpuSoftIrqMonitor` subtracts an `int64_t` from a `uint64_t`: its differences
  are unsigned and wrap at `WordLimit` (2^64). The division by the seconds
  between two samples is left out.
- An open file pins the module; `rmmod` fails while it is pinned.
- Record 0 that `CpuStatMonitor` reports is the CPU of that number, not a sum
  over all; the limit is `stat_count`.

### NetStats and NetEbpfMonitor

A packet is a lookup and then either an atomic addition by way of the pointer
that the lookup returned, or an insertion. The map is modelled from the kernel:
elements allocated in advance, buckets that grow at their heads, a replaced
element that becomes the CPU's spare although others may still add to it. A walk
is a `get_next_key` or a lookup per step. `bpf_tc_detach` is called without the
handle of a filter, which libbpf refuses, so the hooks outlive `CleanupEbpf`.
Bytes and packets are counted alike and share one counter; a lookup copies a
value at once. CPUs are numbered from 1 without gaps, as the kernel's spares are
handed out, and `Bucket` is any function from interfaces to numbers.

## What is checked

| run | instance | properties | size |
|---|---|---|---|
| `safe_queue` | 3 consumers, 4 values | `TypeOK`, `NoLostWakeup`, `StopReleasesAll`, `FifoExactlyOnce`, `ImplementsChannel` | 392 states |
| `pipeline` | 2 threads, 2 servers sharing a shard with different queues, 3 reports with a disk | `TypeOK`, `RowsInOrder`, `RateBaseIsPrevious`, `DiskHistoryIsLatest`, `ScoreNeverGoesBack`, `ImplementsHistory` | 1.96 M |
| `cleaning` | 1 thread, a host that changes its identifier and its details, 2 reports, time passes | `FreshHostListed`, `DetailHistoryIsLatest`, `StopTerminates`, `QueuedIsHandled`, `SilentHostRemoved` | 111,587 |
| `ingestion` | 1 worker, 4 reports, interval of 2 | `TypeOK`, `ExactlyOnceIfOk`, `OvertakenOnlyIfFailed`, `TableAgreesWithQueue`, `StopReturns` | 64,328 |
| `query_pages` | 1 client, 2 servers, 2 tables, 3 rows, 3 seconds, ints below 8 | `TypeOK`, `WalkMissesNothing`, `WalkIsExact`, `TotalIsBracketed`, `LatestCoversServers`, `TrendPartitionsWindow` | 3.27 M |
| `query_calls` | 2 clients, 5 tables, 1 row | `QueriesAreAnswered` | 79,886 |
| `kernel_stats` | either driver, 1 or 2 CPUs, page of 2 records, 2 loads, 2 units of time, unsigned ints below 2 | `TypeOK`, `PageLive`, `NoLeak`, `UsageInRange`, `ReportedOnce`, `PassComplete`, `Refreshes` | 726,195 |
| `net_stats` | 2 CPUs, 2 interfaces and loopback, map of 1 or 2, 3 packets | `TypeOK`, `ReportedWithinSeen`, `EveryInterfaceReported`, `NoLossOnceSettled`, `WalkEnds` | 266,338 |
| `startup`, `shards` | as `pipeline` | one each, violated | – |
| `query_ties` | 1 client, 2 servers | one, violated | – |
| `softirq_reload` | 1 CPU, 2 loads, unsigned ints below 8 | one, violated | – |

What they show:

- **The queue** neither loses a wakeup nor leaves a sleeper behind, and is a
  fair FIFO channel even with several consumers and spurious wakeups. (The
  manager gives each queue one consumer.)
- **The pipeline** keeps the order of each server. Because the queue depends on
  the hostname and the server's identifier contains it, one thread handles all
  reports of a server; so rows are in order (`RowsInOrder`), rates are against
  the previous report even if it never reached the database
  (`RateBaseIsPrevious`, outside shards that were raced on), the whole
  `thread_local` disk history of a server is in one thread, at its newest report
  that reached the database (`DiskHistoryIsLatest`), and the live
  table never falls back (`ScoreNeverGoesBack`).
- **The details**: an interface, CPU or disk that some reports have and others
  have not is compared with the newest report that had it and reached the
  database, however many reports came without it or were lost with a connection
  in between, and this while other sections of a report are
  still to be written (`DetailHistoryIsLatest`, outside shards that were raced
  on). The histories of the two kinds do differ: after a report without
  disks the history of the disks is older than the one of the disk utilisation.
- **The cleaner** never drops a host whose stamp is fresh although it takes the
  time before the mutex, and silent hosts go.
- **Ingestion**: no retry, so at most once; acknowledged means exactly once. A
  report is overtaken only if its call failed for the worker. Table and
  pipeline agree for a host with one speaker whose calls did not fail
  (`TableAgreesWithQueue`). Two workers of one hostname, or a handler that
  outlives its failed call, can leave them apart for good: handlers cross between
  the table and the callback. `Stop` returns once a call has ended; that it
  ends, which no deadline in the code sees to, is assumed.
- **Queries**: walking pages newest first while rows are inserted shows rows
  twice but misses none, unless rows tie (rows with equal keys may change
  places between two statements, and then one can be missed); an undisturbed walk is exact; the
  total lies between the counts before and after.
- **Kernel modules**: whichever step of init fails, and whenever the module is
  unloaded, all that was acquired is released, in an order in which no timer, no
  update and no mapping outlives the page. The page is refreshed as long as the
  module is loaded, and no end mark shows up while it is rewritten, so a pass
  meets every CPU.
- **Usage**: although the page is read while it is rewritten, no usage is told
  twice, and none is negative or more than was counted. A torn record can
  make the busy part exceed the total (`UsageInRange` excludes just that).
  Counters wrap, and idle times are cut, within the bounds, and the two
  properties stop, for that CPU, where the first of these happens, or a sum is no
  float (`Fits`): after 71.6 minutes of idle time, or 2^24 jiffies. What the
  messages say after that is not promised; `idle` going back makes the total negative.
- **A driver in its init** opens the device to readers before its first update
  is done, and a pass that meets it then (`early`) sees fewer CPUs, or names without
  counters. `PassComplete`, `UsageInRange` and `ReportedOnce` are about the other
  passes; `softirq_reload` shows what the early ones can do.
- **Network statistics**: two CPUs that both miss an entry both insert it, and
  the packets counted in the first element are lost, and nothing here says
  otherwise; while nobody is in that race no packet of an interface in the map is
  lost, not even when the map is full
  (`NoLossOnceSettled`). Reports never exceed the
  traffic, an interface in the map is reported by every walk (unless its element is
  replaced meanwhile), and a walk ends.

### Bounds, and why they are enough

- `safe_queue`: three consumers allow a notified, a woken and a sleeping one at
  once; four values exceed the consumers, so some push finds nobody asleep.
- `pipeline`: every report has one disk, so the sections are entered and two
  threads can be in one shard of them. `MCHash` puts the two hosts into different queues and the same
  shard, the case in which the hashes disagree. Three reports give a server
  first, previous and current sample, or two servers in the race. Two threads
  are the default's smallest concurrent case: a race is between two. The order
  is proved for all values (below). Time stands still here (`Ticking = FALSE`),
  so the cleaner scans at any moment but finds every host fresh; removal is the
  subject of `cleaning`.
- `cleaning`: one thread (`thread_count = 0` becomes 1) keeps the passage of
  time affordable; limit, sleep and lag of one second each make every order of
  stamp, sleep, `now` and scan possible, with ages up to the cut-off of 3. Two
  reports let a host be refreshed, and its second identifier expire. They come
  with softirq, memory and one disk, with interfaces, memory and another disk, or
  without any: an item can be in the first and not in the second, be in both, and
  be lost with either connection. Histories of different servers, and the
  threads of different servers, meet only in races on a shard, which `pipeline`
  explores; the proof of `DetailHistoryIsLatest` is for all of it.
- `ingestion`: workers interact only through a common host, and the handlers of
  one worker's calls already cross; four reports let the handlers of
  failed and later calls be at work at once, and leave one report without
  hostname, to be refused. The interval of two
  seconds distinguishes a wait that ends, that is cut short, and that begins
  again.
- `query_pages`: three rows fill three pages of one or two of two; requests
  cover each kind, a window that ends before the last second, page 0 and size 0
  (normalised), and page 6 of size 2, whose offset is not below 8. Scores
  and thresholds take both values; three seconds let a server be OFFLINE.
  Only server a has rows in a detail table: a detail query selects one server.
- `query_calls`: two threads are enough for one to hold the mutex the other
  waits for, or to leave it locked.
- `kernel_stats`: two records let one be torn while the other is whole, and a
  machine with fewer CPUs than records has an end mark. Two loads are one
  reload, with a cache from before it. Two units of time tell a first sample from a
  difference, and an old record from a new one.
  An unsigned int that wraps at two makes idle time be cut and softirqs wrap
  while other counters of the CPU have not; an unsigned difference below zero is
  near 16, which no counter reaches. Sums stay at two, so no instance rounds: that
  the properties hold with sums that are floats among integers that are not is
  left to the proof, where `Rounded` is any function.
- `net_stats`: two CPUs race for one insertion; with two interfaces and a map of
  one element the map is full; all keys are in one bucket, where an insertion at
  the head overtakes a walk. Three packets are one before, one during and one
  after a race.

`CHECK_DEADLOCK FALSE` appears where the system may rest: clients stop asking
(`query_*`), no module is loaded or the counters have reached their bound
(`kernel_stats`), no more packets come (`net_stats`), the owner leaves the pusher off or the bound on reports is reached
(`ingestion`). `SafeQueue` cannot rest, because `Stop` may be called again, and
`HostManager` says when it has ended (`Terminated`).

## Fairness

- Every thread that can run runs (weak fairness of its steps), and every call
  of the MySQL client returns.
- `SafeQueue`: a consumer keeps calling `Pop`, as `ConsumeMessage` does; nothing
  obliges anyone to push or stop, and no wakeup comes without a notification.
- `HostManager`: time passes. Nothing obliges a worker to report or the manager
  to stop, so the liveness properties start from a report that is queued, a
  host that is listed, or a stop that has begun.
- `Ingestion`: a call ends. It has no deadline, so that is an assumption about
  gRPC, which reports a broken connection. Requests need not arrive. The worker
  that has reached `MaxReports` is excluded from `StopReturns`: it stands still
  because of the bound.
- `QueryManager`: weak fairness suffices although `std::mutex` is not fair,
  because a client makes one walk of finitely many pages; with clients that
  never stop asking, the code gives no such guarantee.
- `StatMonitors`: init and exit run to their end, the timer fires, and the worker
  comes back. Two steps need strong fairness. `mmap` may fail any number of
  times but not always. `hrtimer_cancel` waits for a callback that runs; the
  timer is at rest for almost all of each second, so it meets it at rest. The
  module need not stay loaded: `Refreshes` assumes that it does.
- `NetEbpfMonitor`: the worker's thread goes on with its walk; packets need not
  come, and `MaxPackets` bounds how often one is overtaken by insertions (the
  code relies on the map being small and filling up once).

## Where code and comments disagree

1. `startup`: the constructor starts the consumer threads before `Start` sets
   `running_`. One that tests it first ends, and its queue is never drained
   ("N 个队列，N 个线程").
2. `shards`: queue and shard are selected by the hashes of different strings,
   so two threads meet in one unlocked `std::map` ("实现无锁并发访问").
3. `query_ties`: timestamps have whole seconds; a server with two rows in its
   last second is listed and counted twice ("查询每台服务器的最新数据").
4. `softirq_reload`: `CpuSoftIrqMonitor` subtracts its cached `int64_t` from the
   page's `uint64_t`. A pass that meets a reloaded driver after its first update has
   stored a record's name, but not its counters, reports differences near 2^64
   ("计算每秒的软中断频率").

Noted in passing, without a run of their own: microseconds of idle time are cut
to 32 bits on their way to `usecs_to_jiffies` (`cpu_stat_collector.c:93`), so the
"累计时间" (accumulated time) on the page starts again from zero every 71.6 minutes
of it, and a total is negative; after a failed `Init` queries answer OK with nothing,
not the UNAVAILABLE of `query_service.cpp:38`, and `main` announced that there would
be no query service; the comment at
`net_stats.bpf.c:51-54` says that atomic operations make the counting safe on
several CPUs ("确保多 CPU 并发安全"), but two CPUs with the first packets of an
interface replace each other's element; `net_ebpf_monitor.cpp:87-91`
announces a fall-back to `/proc/net/dev` that nothing performs;
`CpuSoftIrqMonitor` reports its first sample as it is, the counters since boot;
the first report of a worker has no CPU usage, which the manager scores as idle;
two samples of one snapshot of the page have a total of zero, and a percentage
of 0/0; and the columns for the rates of change of received and of sent traffic
are listed at `host_manager.cpp:524` in the other order than their values at
`:538`.

## What is proved

Every invariant and every action property that a passing run checks is proved,
and so is that the pipeline implements `HostHistory` and that the queue
implements `FifoChannel` but for its fairness; for every value of the constants: any number of threads, servers, reports,
consumers, clients, rows and CPUs, any items of a report, any hash function, any
width of `int`, any way in which floats round. Each theorem holds under
the conditions that its property states: `TableCorrect` for hosts whose handlers
did not cross, `WalkComplete` for rows that do not tie, `NothingLostOnceSettled`
outside the race of two insertions, `DetailHistoryCorrect` and `RateBaseCorrect`
outside shards that were raced on, and the theorems of `StatReportProofs` for passes
that did not meet a driver in its init, two of them (`ReportedOnceCorrect`,
`UsageInRangeCorrect`) until a counter wraps or a sum is rounded.

| theorem | says |
|---|---|
| `SafeQueueProofs!TypeCorrect` | `Spec => []TypeOK` |
| `SafeQueueProofs!WakeupCorrect` | `[](NoLostWakeup /\ StopReleasesAll)`; `StopCorrect` is the second half |
| `SafeQueueProofs!FifoCorrect` | `[]FifoExactlyOnce` |
| `SafeQueueProofs!ImplementsChannelSafety` | the queue implements the channel but for its fairness |
| `HostManagerProofs!TypeCorrect` | `Spec => []TypeOK` |
| `HostManagerProofs!HistoryCorrect` | `Spec => ImplementsHistory` |
| `HostRowsProofs!RowsCorrect` | `[]RowsInOrder` |
| `HostRowsProofs!ScoreCorrect` | `ScoreNeverGoesBack` |
| `HostRowsProofs!RateBaseCorrect` | `[]RateBaseIsPrevious` |
| `HostRowsProofs!DiskHistoryCorrect` | `[]DiskHistoryIsLatest` |
| `HostRowsProofs!DetailHistoryCorrect` | `[]DetailHistoryIsLatest` |
| `HostRowsProofs!FreshHostCorrect` | `[]FreshHostListed` |
| `IngestionProofs!TypeCorrect` | `[]TypeOK` |
| `IngestionProofs!ExactlyOnceCorrect` | `[]ExactlyOnceIfOk` |
| `IngestionProofs!OvertakenCorrect` | `[]OvertakenOnlyIfFailed` |
| `IngestionProofs!TableCorrect` | `[]TableAgreesWithQueue` |
| `QueryManagerProofs!TypeCorrect` | `[]TypeOK` |
| `QueryManagerProofs!TotalCorrect` | `[]TotalIsBracketed` |
| `QueryManagerProofs!WalkComplete` | `[]WalkMissesNothing` |
| `QueryManagerProofs!WalkFaithful` | `[]WalkIsExact` |
| `QueryManagerProofs!LatestCorrect` | `[]LatestCoversServers` |
| `QueryManagerProofs!TrendCorrect` | `[]TrendPartitionsWindow` |
| `StatMonitorsProofs!TypeCorrect` | `[]TypeOK` |
| `StatMonitorsProofs!PageLiveCorrect` | `[]PageLive` |
| `StatMonitorsProofs!NoLeakCorrect` | `[]NoLeak` |
| `StatReportProofs!ReportedOnceCorrect` | `[]ReportedOnce` |
| `StatReportProofs!PassCompleteCorrect` | `[]PassComplete` |
| `StatReportProofs!UsageInRangeCorrect` | `[]UsageInRange` |
| `NetEbpfMonitorProofs!NetTypesHold` | `[]TypeOK` |
| `NetEbpfMonitorProofs!NothingLostOnceSettled` | `NoLossOnceSettled` |
| `NetEbpfMonitorProofs!WalkReportsAll` | `[]EveryInterfaceReported` |
| `NetEbpfMonitorProofs!NothingToldTwice` | `[]ReportedWithinSeen` |

Assumptions: those the modules state on their constants. `QueueAssumption`
(finitely many consumers), `CountAssumption` (`thread_count` is a natural number,
0 included), `ReportsAssumption` (a report has a hostname, or else a name and no
address, which is what the worker sends and the service lets through; a hostname that is empty
beside an address is left out, and the memory is a single item),
`TimeAssumption` (limits are natural numbers), `HashAssumption` (hashes are
natural numbers), `RequestsAssumption` and `SamplesAssumption` (the types of what
clients ask and workers measure), `UnitAssumption` and `WordAssumption` (an unsigned int holds
something and no more than a `uint64_t`, a jiffy has microseconds, and integers
round to integers that are not negative), `LimitsAssumption` (the default page size is an
`int`), `CpuAssumption` (at least one CPU and one record), `CpusAssumption`,
`IfsAssumption` and `BucketAssumption` (finitely many CPUs, numbered from 1;
interface indexes and capacities that are not 0; buckets are numbers), and the
bounds of the models, which are any natural numbers.

Arguments:

- *Wakeups.* `NoLostWakeup` counts: while somebody sleeps, the values queued are
  at most the consumers woken. It is inductive together with the types and
  `StopReleasesAll`: a push adds a value and, since somebody sleeps, a woken
  consumer; a consumer that takes a value leaves with it; and one that goes to
  sleep sees an empty queue.
- *Types of the pipeline.* `TypeOK` is not inductive: `HostName` reads
  `received[cur[i]]`. `TypeInv` adds `InFlight`: what a consumer has in hand or
  in its queue is the number of a received report, and it has one in hand at
  exactly the labels that use it.
- *Order.* `OrderInv` has four parts. `Routed`: what a thread has was routed to
  it; a server's reports all have one hostname, hence one queue
  (`SameServerSameQueue`). `Ordered`: a queue ascends, behind the report in
  hand. `Newer`: what is pending is newer than its server's history.
  `Accounted`: each report is covered by the history of its server or pending in
  the thread it was routed to. At `SaveLast` these four say that the report in
  hand is the oldest unhandled one of its server (`SaveIsNext`), which is the
  abstract step `Handle`; `OnDataReceived` is `Receive`, and the rest stutters.
  Races do not matter: `SaveLast` writes what the thread has in hand, and a
  crash is a stutter.

- *Rows.* On top of `OrderInv`, `HostRowsProofs` follows a report through
  `WriteToMysql`. `SavedInv`: a thread past `SaveLast` works on the newest
  report in its server's history, and no other thread can, so `WrittenInv`: a
  row is never newer than that history, nor is it repeated. `ShownInv`: the live
  table shows a report no newer than what its thread has. `BaseInv`: what
  `ReadLast` saw is the history of that server until `SaveLast` replaces it,
  unless the shard was raced on. It needs `OwnInv`: a history holds reports of its own
  server. 
- *Histories.* `LoggedInv`: what came to an INSERT is no newer than its server's
  history, is older than a report of that server that has yet to get there, and
  includes every report whose sections are being written. So when `WriteMain`
  and, later, a section replace a history, the report in hand is newer than all
  that moved it before. `DiskInv`: the owner of a server, the thread its reports
  are routed to, has its newest report of `WrittenOf`, the others have none.
  `DetailInv`: the history of an item is at the newest report of `Through`, those
  that had it and are through its section. That set only changes where `GoOn`
  leaves a section (`NextSection`, `TodoAfter`): a section that is passed over has
  no item of the report in it.
- *Ingestion.* `CallInv` places every report: not yet collected, in the call of
  its worker, or called; and a report that is passed on, handled or in the
  network is in exactly one of these places once. A worker goes on only when the
  call is answered or has failed, so what is newer than an unhandled report can
  only follow a failure. `TableInv` relates the table to the last report that
  each host's handlers stored, passed on or not yet.
- *Totals.* Rows are only added. `RowsGrowBehind`: what a statement makes of the
  first m rows does not change when more are added; `CountGrows`: it counts no
  fewer for a larger m. `TotalInv` is the claim with the count already made and
  the page not yet read.
- *Walks.* Number the places of the list a request selects. In a list ordered
  newest first, the place of a row only grows as rows are added, because the new
  ones come before it. `WalkInv` says, for a walk that has not failed, that every
  row of its beginning whose place is within what it has passed has been told
  (`Misses`) and, if no row was added since, that what was told is the list up to
  there (`Exact`). The offset of a page is what the walk has passed: `int`
  arithmetic may wrap, but the first offset beyond the largest `int` is then
  negative and the statement fails. So a page that comes back empty means that no
  place is left.
- *Latest scores and trends.* A server that has a row has one with the greatest
  time, so `LatestInv` finds each server in the records. The groups of a trend
  can be put in order, so the list that the statement returns exists, and its
  groups are the rows of the window, each in one group.
- *Induction.* Records are put together by `FlattenSeq`, which is a recursive
  function. What it returns is proved from the least-number principle for sets
  (`Least`, `Induct`), since the library's induction theorems take a predicate,
  which cannot be instantiated here.
- *Kernel modules.* init acquires in a fixed order and exit and the error path
  release in the reverse one, so what is held is a prefix of that order, of a
  `Level` that the phase and next step determine (`LifeInv`). The labels of the
  error path are right exactly if this is inductive.
- *Reports of usage.* All is said of the CPUs in `FitSet`, whose counters have
  not wrapped and whose sums are floats. `Fits` bounds the kernel's counters, which
  only grow, so the set only shrinks (`FitsGrow`); and as long as a CPU is in it, what
  `Convert` stores of it grows with the counter and every sum and difference is
  exact. `PageInv`: a record of such a CPU never exceeds what the driver would store now.
  `ToldInv`: between two visits to a record what was told of a CPU is at most
  what its cached sample says. A record only grows while the file is open, so
  the fields saved are at least those summed (`ReportInv`). `NamesInv`: once
  init is done, the records of all CPUs have names.
- *Range of usage.* `UsageInv` adds to that what the page and the sample in hand
  have to do with each other: a record that was never stored to between the loads
  is what the sums were made of (`SumInv`), so busy and total come from one
  state of it; a page whose first update is done is never behind a sample taken from
  it (`Fresh`, `LiveInv`). What is left is the torn record that `UsageInRange`
  excludes.
- *Network statistics.* `KernelInv` accounts for the elements: each is in the
  map, a spare, in the hands of CPUs, or none of these, and no two keys or spares
  share one. `NoLossOnceSettled` follows: what a packet adds can only be lost
  with an element that was replaced under it. The walk: the keys are a list
  ordered by bucket, and a key that is put in or put back changes the order of no
  two others and moves only towards the front of its bucket; so a key that a walk
  has still to report, and that is not itself put back, stays ahead of the cursor
  (`WalkInv`). `CountInv`: what was told, what the next walk would
  tell, and one for each CPU with a packet in hand are together at most the
  packets seen.

Only model-checked: liveness (`StopTerminates`, `QueuedIsHandled`,
`SilentHostRemoved`, `StopReturns`, `QueriesAreAnswered`,
`Refreshes`, `WalkEnds` and the fairness of the channel),
which is beyond the proof system used. 
## What is not modelled

- The collectors that read files under `/proc` and `/sys`: they are sequential
  and what remains of them without parsing and floating point is the difference
  of two samples, which `StatMonitors` and `NetEbpfMonitor` show.
- `CalcScore`, the arithmetic of rates, and the columns of rows and records.
  (They are functions of the samples whose identity the models track.)
- Conversions between local time and text, log output, `.proto` layout, build.
- `SafeQueue::Empty` and `Size` (no caller), `QueryManager::Close`, and the
  readers of `GrpcServer`, which change nothing.
- Memory: the queue and `host_data_` grow without bound in the code, and the
  models bound the reports.

## Plan

Done: queue, pipeline, ingestion, queries, kernel modules and their readers,
network statistics, and proofs of all safety properties that runs check. Next,
in order:

1. `Score` and `Rates` as pure operators: rates of two samples with wrapping
   counters, equal samples, first samples; the score and its bounds, with an
   absent `cpu_stat`; checked against reference definitions over counters of
   three or four bits.
2. Mutual exclusion of queries under `mtx_`, and that a failed statement leaves
   the mutex free, as invariants with proofs.
3. The pusher and the pipeline together: reports that wait in a queue while the
   cleaner ages their host by the time of handling.

## Running it

    tlc -workers 2 -config MCHostManagerPipeline.cfg MCHostManager
    tlapm HostManagerProofs.tla

Each `.cfg` names its module by its prefix. The longest runs (`pipeline`,
`kernel_stats`) take about two minutes each with two workers. The proofs take about ten minutes
in all, those of `QueryManagerProofs` about four.
