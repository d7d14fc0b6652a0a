---------------------------- MODULE HostManager ----------------------------
(***************************************************************************)
(* The manager's processing pipeline (manager/src/host_manager.cpp):       *)
(*                                                                         *)
(*   - the main thread constructs the HostManager (a queue and a consumer  *)
(*     thread at a time), starts it, serves, and finally stops it;         *)
(*   - gRPC threads call OnDataReceived, which routes a report to a queue; *)
(*   - each consumer thread runs ConsumeMessage on its queue and handles   *)
(*     one report at a time with ProcessData and WriteToMysql;             *)
(*   - the cleaning thread runs ProcessLoop on the table of live hosts.    *)
(*                                                                         *)
(* A step is a stretch of code between two accesses to state that threads  *)
(* share. A queue is the FIFO channel that SafeQueue is shown to implement.*)
(* The n-th report received is called n; received[n] says who sent it, and *)
(* what it has details of. Of the metrics in a report only its number is   *)
(* kept: a "sample" in a history is the number of the report it was taken  *)
(* from, 0 for none.                                                       *)
(*                                                                         *)
(* Time passes in seconds (Tick). Only differences of times matter to the  *)
(* code, so the state holds ages, cut off where they stop making a         *)
(* difference.                                                             *)
(***************************************************************************)
EXTENDS Integers, Sequences, FiniteSets

CONSTANTS
  thread_count,    \* the argument of the constructor
  Reports,         \* what matters of a report: [name, hostname, ip, items]
  Names,           \* of network interfaces, CPUs and disks
  Hash(_),         \* std::hash of an identifier
  Empty,           \* the empty string
  StaleLimit,      \* seconds after which ProcessLoop drops a host (60)
  SleepInterval,   \* seconds that ProcessLoop sleeps (60)
  MaxReports,      \* bound on the number of reports received
  MaxLag,          \* bound on the seconds ProcessLoop waits for mtx_
  Ticking          \* FALSE in the instances in which no time passes

thread_count_ == IF thread_count < 1 THEN 1 ELSE thread_count

Threads == 0 .. thread_count_ - 1

ASSUME CountAssumption == thread_count \in Nat

(* The sections of details in a report, in the order in which WriteToMysql *)
(* goes through them. An item is an interface, CPU or disk that a report   *)
(* has an entry for, or its mem_info.                                      *)
SectionOrder == <<"net", "softirq", "mem", "disk">>
Sections == {"net", "softirq", "mem", "disk"}
Items == ((Sections \ {"mem"}) \X Names) \cup {<<"mem", Empty>>}

(* A report without host_info has hostname = ip = Empty. The worker sets   *)
(* name and hostname from gethostname (metric_collector.cpp,               *)
(* host_info_monitor.cpp); the gRPC service refuses a report with neither. *)
(* A report has items only of the devices and metrics that were there when *)
(* it was made.                                                            *)
ASSUME ReportsAssumption ==
  \A r \in Reports : /\ DOMAIN r = {"name", "hostname", "ip", "items"}
                     /\ r.items \subseteq Items
                     /\ r.hostname # Empty \/ (r.ip = Empty /\ r.name # Empty)

ASSUME TimeAssumption ==
  /\ StaleLimit \in Nat /\ SleepInterval \in Nat /\ MaxLag \in Nat
  /\ MaxReports \in Nat /\ Ticking \in BOOLEAN

(* Strings put together from a hostname and an address are kept as the     *)
(* sequence of their parts: "hostname_ip" is <<hostname, ip>>.             *)

(* OnDataReceived: the name whose hash selects the queue.                  *)
RoutingName(r) == IF r.hostname # Empty THEN r.hostname ELSE r.name

(* ProcessData: the identifier of the server, key of every history.        *)
ServerId(r) ==
  IF r.hostname # Empty
  THEN IF r.ip # Empty THEN <<r.hostname, r.ip>> ELSE <<r.hostname>>
  ELSE IF r.ip # Empty THEN <<r.ip>> ELSE <<r.name>>

ShardIndex(id) == Hash(id) % thread_count_

Ids == {ServerId(r) : r \in Reports}

ASSUME HashAssumption ==
  \A r \in Reports : Hash(<<RoutingName(r)>>) \in Nat /\ Hash(ServerId(r)) \in Nat
----------------------------------------------------------------------------
VARIABLES
  main,            \* what the main thread does next
  k,               \* the index of its current loop
  running_,
  received,        \* the reports handed to OnDataReceived, in order
  queue_, stop_,   \* the SafeQueues: reports queued, stop flags
  pc,              \* what each consumer thread does next
  cur,             \* the report a consumer works on (0: none)
  base,            \* the sample it read as `last`
  now,             \* the age of the time it took as `now`
  last_perf,       \* last_perf_samples_shards, over all shards
  last_detail,     \* the net, softirq, mem and disk shards: by item
  last_disk_util,  \* thread_local in WriteToMysql
  raced,           \* the shards two threads met in, <<family, index>>
  crashed,         \* the process died of it
  host_scores_,    \* the live hosts: the report last shown (0: absent)
  age,             \* the age of the timestamp last stored for a host
  cleaner,         \* what the cleaning thread does next
  wake,            \* the seconds it still sleeps
  lag,             \* the age of the time it took as `now`
  perf_rows,       \* server_performance: the rows of each server
  written          \* history: the reports that WriteToMysql got through with

mainVars  == <<main, k, running_>>
queueVars == <<received, queue_, stop_>>
consVars  == <<pc, cur, base, now>>
perfVars  == <<last_perf>>
dbVars    == <<last_detail, last_disk_util, perf_rows, written>>
scoreVars == <<host_scores_, age>>
cleanVars == <<cleaner, wake, lag>>
raceVars  == <<raced, crashed>>
vars == <<mainVars, queueVars, consVars, perfVars, dbVars, scoreVars, cleanVars, raceVars>>

(* Ages are compared with StaleLimit after taking away at most MaxLag.     *)
MaxAge == StaleLimit + 1 + MaxLag

Init ==
  /\ main = "push" /\ k = 0 /\ running_ = FALSE
  /\ received = <<>>
  /\ queue_ = [i \in Threads |-> <<>>]
  /\ stop_ = [i \in Threads |-> FALSE]
  /\ pc = [i \in Threads |-> "none"]
  /\ cur = [i \in Threads |-> 0]
  /\ base = [i \in Threads |-> 0]
  /\ now = [i \in Threads |-> 0]
  /\ last_perf = [id \in Ids |-> 0]
  /\ last_detail = [id \in Ids |-> [it \in Items |-> 0]]
  /\ last_disk_util = [i \in Threads |-> [id \in Ids |-> 0]]
  /\ raced = {} /\ crashed = FALSE
  /\ host_scores_ = [id \in Ids |-> 0]
  /\ age = [id \in Ids |-> MaxAge]
  /\ cleaner = "none" /\ wake = 0 /\ lag = 0
  /\ perf_rows = [id \in Ids |-> <<>>]
  /\ written = {}

(* The server whose report consumer i works on.                            *)
HostName(i) == ServerId(received[cur[i]])
----------------------------------------------------------------------------
(* The main thread.                                                        *)

(* The constructor's loop: queues_.push_back ...                           *)
CtorPush ==
  /\ main = "push"
  /\ main' = "spawn"
  /\ UNCHANGED <<k, running_, queueVars, consVars, perfVars, dbVars, scoreVars, cleanVars, raceVars>>

(* ... and worker_threads_.emplace_back: thread k runs from here on.       *)
CtorSpawn ==
  /\ main = "spawn"
  /\ pc' = [pc EXCEPT ![k] = "fetch"]
  /\ IF k + 1 < thread_count_ THEN main' = "push" /\ k' = k + 1
                              ELSE main' = "built" /\ k' = 0
  /\ UNCHANGED <<running_, queueVars, cur, base, now, perfVars, dbVars, scoreVars, cleanVars, raceVars>>

Start ==
  /\ main = "built"
  /\ running_' = TRUE
  /\ cleaner' = "loop"
  /\ main' = "serving"
  /\ UNCHANGED <<k, queueVars, consVars, perfVars, dbVars, scoreVars, wake, lag, raceVars>>

(* Mutant of QueueIndex: the queues take turns.                            *)
QueueIndexRoundRobin(r) == Len(received) % thread_count_

QueueIndex(r) ==
  IF RoutingName(r) = Empty THEN 0 ELSE Hash(<<RoutingName(r)>>) % thread_count_

(* A gRPC thread delivers a report (the server listens after Start).       *)
OnDataReceived(r) ==
  /\ main = "serving"
  /\ Len(received) < MaxReports
  /\ received' = Append(received, r)
  /\ queue_' = [queue_ EXCEPT ![QueueIndex(r)] = Append(@, Len(received) + 1)]
  /\ UNCHANGED <<mainVars, stop_, consVars, perfVars, dbVars, scoreVars, cleanVars, raceVars>>

(* Stop, called by the destructor once the server is gone: the flag, ...   *)
Stop ==
  /\ main = "serving" /\ running_
  /\ running_' = FALSE
  /\ main' = "stopping"
  /\ UNCHANGED <<k, queueVars, consVars, perfVars, dbVars, scoreVars, cleanVars, raceVars>>

(* ... each queue in turn, ...                                             *)
(* Mutant of StopQueue: the loop runs once too often.                      *)
StopQueueTooFar ==
  /\ main = "stopping"
  /\ stop_' = [stop_ EXCEPT ![k] = TRUE]
  /\ IF k < thread_count_ THEN main' = main /\ k' = k + 1
                          ELSE main' = "joining" /\ k' = 0
  /\ UNCHANGED <<running_, received, queue_, consVars, perfVars, dbVars, scoreVars, cleanVars, raceVars>>

(* Mutant of StopQueue: the queues are not stopped.                        *)
StopQueueNot ==
  /\ main = "stopping"
  /\ IF k + 1 < thread_count_ THEN main' = main /\ k' = k + 1
                              ELSE main' = "joining" /\ k' = 0
  /\ UNCHANGED <<running_, queueVars, consVars, perfVars, dbVars, scoreVars, cleanVars, raceVars>>

StopQueue ==
  /\ main = "stopping"
  /\ stop_' = [stop_ EXCEPT ![k] = TRUE]
  /\ IF k + 1 < thread_count_ THEN main' = main /\ k' = k + 1
                              ELSE main' = "joining" /\ k' = 0
  /\ UNCHANGED <<running_, received, queue_, consVars, perfVars, dbVars, scoreVars, cleanVars, raceVars>>

(* ... and the joins, which return when every thread has ended.            *)
Join ==
  /\ main = "joining"
  /\ \A i \in Threads : pc[i] = "exited"
  /\ cleaner = "exited"
  /\ main' = "stopped"
  /\ UNCHANGED <<k, running_, queueVars, consVars, perfVars, dbVars, scoreVars, cleanVars, raceVars>>
----------------------------------------------------------------------------
(* The consumer threads.                                                   *)

Goto(i, l) == pc' = [pc EXCEPT ![i] = l]

(* The locals of a handled report are dead: forget them.                   *)
Finish(i) ==
  /\ pc' = [pc EXCEPT ![i] = "loop"]
  /\ cur' = [cur EXCEPT ![i] = 0]
  /\ base' = [base EXCEPT ![i] = 0]
  /\ now' = [now EXCEPT ![i] = 0]

(* The process dies of a data race: nothing happens after it.              *)
Crash ==
  /\ crashed' = TRUE
  /\ UNCHANGED <<mainVars, queueVars, consVars, perfVars, dbVars, scoreVars, cleanVars, raced>>

(* ConsumeMessage copies queues_[queue_index]; the main thread may be      *)
(* moving the vector's elements in push_back at that moment.               *)
FetchQueue(i) ==
  /\ pc[i] = "fetch"
  /\ \/ /\ Goto(i, "loop")
        /\ UNCHANGED <<mainVars, queueVars, cur, base, now, perfVars, dbVars, scoreVars, cleanVars, raceVars>>
     \/ main = "push" /\ Crash

TestRunning(i) ==
  /\ pc[i] = "loop"
  /\ Goto(i, IF running_ THEN "pop" ELSE "exited")
  /\ UNCHANGED <<mainVars, queueVars, cur, base, now, perfVars, dbVars, scoreVars, cleanVars, raceVars>>

(* Pop, and the part of ProcessData that names the server: a report that   *)
(* names none is dropped.                                                  *)
Pop(i) ==
  /\ pc[i] = "pop"
  /\ \/ /\ queue_[i] # <<>>
        /\ queue_' = [queue_ EXCEPT ![i] = Tail(@)]
        /\ IF ServerId(received[Head(queue_[i])]) = <<Empty>>
           THEN Goto(i, "loop") /\ UNCHANGED cur
           ELSE Goto(i, "stamp") /\ cur' = [cur EXCEPT ![i] = Head(queue_[i])]
     \/ /\ queue_[i] = <<>> /\ stop_[i]
        /\ Goto(i, "loop")
        /\ UNCHANGED <<queue_, cur>>
  /\ UNCHANGED <<mainVars, received, stop_, base, now, perfVars, dbVars, scoreVars, cleanVars, raceVars>>

(* ProcessData up to the histories: score, `now`, snapshot.                *)
TakeSnapshot(i) ==
  /\ pc[i] = "stamp"
  /\ now' = [now EXCEPT ![i] = 0]
  /\ Goto(i, "last")
  /\ UNCHANGED <<mainVars, queueVars, cur, base, perfVars, dbVars, scoreVars, cleanVars, raceVars>>

(* A shard is a std::map without a lock. Two threads in one shard race if  *)
(* one of them adds a server to it, which operator[] does the first time   *)
(* it is asked for it: with the first report, or with the first that has   *)
(* an item of the section. (A further item goes into the server's own map, *)
(* which only the thread of the server is in.) The keys and samples of a   *)
(* shard that was raced on may be anything from then on.                   *)
AtShard(family) == IF family = "perf" THEN {"last", "save"} ELSE {family}

AddsKey(i) ==
  \/ pc[i] = "last" /\ last_perf[HostName(i)] = 0
  \/ /\ pc[i] \in Sections
     /\ \A it \in Items : it[1] = pc[i] => last_detail[HostName(i)][it] = 0

Races(i, family) ==
  \E j \in Threads \ {i} :
     /\ pc[j] \in AtShard(family)
     /\ ShardIndex(HostName(j)) = ShardIndex(HostName(i))
     /\ AddsKey(i) \/ AddsKey(j)

Access(i, family) ==
  raced' = IF Races(i, family) THEN raced \cup {<<family, ShardIndex(HostName(i))>>}
                               ELSE raced

Corrupt(i, family) == <<family, ShardIndex(HostName(i))>> \in raced'

(* PerfSample last = last_perf_samples_shards[shard_idx][host_name]        *)
ReadLast(i) ==
  /\ pc[i] = "last"
  /\ \/ /\ Access(i, "perf")
        /\ \E s \in IF Corrupt(i, "perf") THEN 0 .. Len(received) ELSE {last_perf[HostName(i)]} :
              base' = [base EXCEPT ![i] = s]
        /\ Goto(i, "save")
        /\ UNCHANGED <<mainVars, queueVars, cur, now, perfVars, dbVars, scoreVars, cleanVars, crashed>>
     \/ Races(i, "perf") /\ Crash

(* last_perf_samples_shards[shard_idx][host_name] = curr                   *)
(* Mutant of SaveLast: the history is not updated.                         *)
SaveLastNot(i) ==
  /\ pc[i] = "save"
  /\ Goto(i, "publish")
  /\ UNCHANGED <<mainVars, queueVars, cur, base, now, perfVars, dbVars, scoreVars, cleanVars, raceVars>>

SaveLast(i) ==
  /\ pc[i] = "save"
  /\ \/ /\ Access(i, "perf")
        /\ last_perf' = [last_perf EXCEPT ![HostName(i)] = cur[i]]
        /\ Goto(i, "publish")
        /\ UNCHANGED <<mainVars, queueVars, cur, base, now, dbVars, scoreVars, cleanVars, crashed>>
     \/ Races(i, "perf") /\ Crash

(* host_scores_[host_name] = HostScore{info, score, now}, under mtx_.      *)
UpdateScore(i) ==
  /\ pc[i] = "publish"
  /\ host_scores_' = [host_scores_ EXCEPT ![HostName(i)] = cur[i]]
  /\ age' = [age EXCEPT ![HostName(i)] = now[i]]
  /\ Goto(i, "connect")
  /\ UNCHANGED <<mainVars, queueVars, cur, base, now, perfVars, dbVars, cleanVars, raceVars>>
----------------------------------------------------------------------------
(* WriteToMysql. The server may be away (nothing is written and the detail *)
(* histories keep their samples), and the outcome of an INSERT is ignored. *)

Connect(i) ==
  /\ pc[i] = "connect"
  /\ \/ Goto(i, "insert") /\ UNCHANGED <<cur, base, now>>
     \/ Finish(i)
  /\ UNCHANGED <<mainVars, queueVars, perfVars, dbVars, scoreVars, cleanVars, raceVars>>

(* INSERT INTO server_performance: the row is stored, or it is not.        *)
Insert(id, row) ==
  \/ perf_rows' = [perf_rows EXCEPT ![id] = Append(@, row)]
  \/ UNCHANGED perf_rows

(* After its first s sections: the next one that the report has items of.  *)
(* The loop over an empty section touches nothing.                         *)
GoOn(i, s) ==
  LET rest == {t \in s + 1 .. 4 : \E it \in received[cur[i]].items : it[1] = SectionOrder[t]}
  IN  \/ rest = {} /\ Finish(i)
      \/ \E t \in rest : /\ \A u \in rest : t <= u
                        /\ Goto(i, SectionOrder[t]) /\ UNCHANGED <<cur, base, now>>

WriteMain(i) ==
  /\ pc[i] = "insert"
  /\ Insert(HostName(i), [n |-> cur[i], base |-> base[i]])
  /\ last_disk_util' = [last_disk_util EXCEPT ![i][HostName(i)] = cur[i]]
  /\ written' = written \cup {cur[i]}
  /\ GoOn(i, 0)
  /\ UNCHANGED <<mainVars, queueVars, perfVars, last_detail, scoreVars, cleanVars, raceVars>>

(* The detail tables. For each of its items a section reads the history,   *)
(* inserts a row with the rates against it, and replaces it, stored or     *)
(* not. (The rows of these tables are not kept in the state.)              *)
NewSamples(i, section) ==
  [it \in Items |-> IF it \in received[cur[i]].items /\ it[1] = section
                    THEN cur[i] ELSE last_detail[HostName(i)][it]]

(* Mutant of WriteDetail: the histories move only when a row was stored.   *)
WriteDetailIfStored(i, s) ==
  /\ pc[i] = SectionOrder[s]
  /\ \/ last_detail' = [last_detail EXCEPT ![HostName(i)] = NewSamples(i, SectionOrder[s])]
     \/ UNCHANGED last_detail
  /\ GoOn(i, s)
  /\ UNCHANGED <<mainVars, queueVars, perfVars, last_disk_util, perf_rows, written, scoreVars,
                 cleanVars, raceVars>>

WriteDetail(i, s) ==
  /\ pc[i] = SectionOrder[s]
  /\ \/ /\ Access(i, SectionOrder[s])
        /\ last_detail' = [last_detail EXCEPT ![HostName(i)] = NewSamples(i, SectionOrder[s])]
        /\ GoOn(i, s)
        /\ UNCHANGED <<mainVars, queueVars, perfVars, last_disk_util, perf_rows, written,
                       scoreVars, cleanVars, crashed>>
     \/ Races(i, SectionOrder[s]) /\ Crash
----------------------------------------------------------------------------
(* The cleaning thread, ProcessLoop: the test of the loop, ...             *)
CleanTest ==
  /\ cleaner = "loop"
  /\ IF running_ THEN cleaner' = "sleep" /\ wake' = SleepInterval
                 ELSE cleaner' = "exited" /\ wake' = 0
  /\ UNCHANGED <<mainVars, queueVars, consVars, perfVars, dbVars, scoreVars, lag, raceVars>>

(* ... the end of the sleep, where it takes `now`, ...                     *)
CleanWake ==
  /\ cleaner = "sleep" /\ wake = 0
  /\ cleaner' = "scan" /\ lag' = 0
  /\ UNCHANGED <<mainVars, queueVars, consVars, perfVars, dbVars, scoreVars, wake, raceVars>>

(* ... and, under mtx_, the scan that drops the hosts that were too old    *)
(* at that time.                                                           *)
(* Mutant of CleanScan: the limit itself is too old.                       *)
CleanScanAtLimit ==
  /\ cleaner = "scan"
  /\ host_scores_' = [id \in Ids |-> IF age[id] - lag >= StaleLimit THEN 0 ELSE host_scores_[id]]
  /\ cleaner' = "loop" /\ lag' = 0
  /\ UNCHANGED <<mainVars, queueVars, consVars, perfVars, dbVars, age, wake, raceVars>>

(* Mutant of CleanScan: there is no loop around it.                        *)
CleanScanOnce ==
  /\ cleaner = "scan"
  /\ host_scores_' = [id \in Ids |-> IF age[id] - lag > StaleLimit THEN 0 ELSE host_scores_[id]]
  /\ cleaner' = "exited" /\ lag' = 0
  /\ UNCHANGED <<mainVars, queueVars, consVars, perfVars, dbVars, age, wake, raceVars>>

CleanScan ==
  /\ cleaner = "scan"
  /\ host_scores_' = [id \in Ids |-> IF age[id] - lag > StaleLimit THEN 0 ELSE host_scores_[id]]
  /\ cleaner' = "loop" /\ lag' = 0
  /\ UNCHANGED <<mainVars, queueVars, consVars, perfVars, dbVars, age, wake, raceVars>>

(* A second passes.                                                        *)
Older(a) == IF a < MaxAge THEN a + 1 ELSE a

Tick ==
  /\ Ticking
  /\ cleaner = "scan" => lag < MaxLag
  /\ age' = [id \in Ids |-> Older(age[id])]
  /\ now' = [i \in Threads |-> IF cur[i] # 0 /\ pc[i] # "stamp" THEN Older(now[i]) ELSE 0]
  /\ wake' = IF wake > 0 THEN wake - 1 ELSE 0
  /\ lag' = IF cleaner = "scan" THEN lag + 1 ELSE 0
  /\ UNCHANGED <<mainVars, queueVars, pc, cur, base, perfVars, dbVars, host_scores_, cleaner, raceVars>>
----------------------------------------------------------------------------
(* The process has ended: by returning from Stop, or by a crash.           *)
Ended == crashed \/ main = "stopped"

Main == ~Ended /\ (CtorPush \/ CtorSpawn \/ Start \/ StopQueue \/ Join)

Consumer(i) ==
  /\ ~Ended
  /\ \/ FetchQueue(i) \/ TestRunning(i) \/ Pop(i)
     \/ TakeSnapshot(i) \/ ReadLast(i) \/ SaveLast(i) \/ UpdateScore(i)
     \/ Connect(i) \/ WriteMain(i)
     \/ \E s \in DOMAIN SectionOrder : WriteDetail(i, s)

Cleaner == ~Ended /\ (CleanTest \/ CleanWake \/ CleanScan)

Environment == ~Ended /\ (Stop \/ \E r \in Reports : OnDataReceived(r))

Time == ~Ended /\ Tick

Terminated == Ended /\ UNCHANGED vars

Next ==
  \/ Main
  \/ \E i \in Threads : Consumer(i)
  \/ Cleaner
  \/ Environment
  \/ Time
  \/ Terminated

Spec == Init /\ [][Next]_vars

(* The scheduler runs every thread that can run, calls of the MySQL client *)
(* return, and time passes. Nothing obliges a worker to send a report or   *)
(* the server to shut down.                                                *)
Fairness ==
  /\ WF_vars(Main)
  /\ \A i \in Threads : WF_vars(Consumer(i))
  /\ WF_vars(Cleaner)
  /\ WF_vars(Time)

FairSpec == Spec /\ Fairness
----------------------------------------------------------------------------
Samples == 0 .. MaxReports
Rows == [n : Samples, base : Samples]

TypeMain ==
  /\ main \in {"push", "spawn", "built", "serving", "stopping", "joining", "stopped"}
  /\ k \in Threads
  /\ running_ \in BOOLEAN

TypeQueues ==
  /\ received \in Seq(Reports) /\ Len(received) <= MaxReports
  /\ queue_ \in [Threads -> Seq(Samples)]
  /\ stop_ \in [Threads -> BOOLEAN]

(* The labels at which a consumer has a report in hand.                    *)
Busy == {"stamp", "last", "save", "publish", "connect", "insert"} \cup Sections

TypeConsumers ==
  /\ pc \in [Threads -> Busy \cup {"none", "fetch", "loop", "pop", "exited"}]
  /\ cur \in [Threads -> Samples]
  /\ base \in [Threads -> Samples]
  /\ now \in [Threads -> 0 .. MaxAge]

TypeHistories ==
  /\ last_perf \in [Ids -> Samples]
  /\ last_detail \in [Ids -> [Items -> Samples]]
  /\ last_disk_util \in [Threads -> [Ids -> Samples]]
  /\ perf_rows \in [Ids -> Seq(Rows)]
  /\ written \subseteq Samples

TypeScores ==
  /\ host_scores_ \in [Ids -> Samples]
  /\ age \in [Ids -> 0 .. MaxAge]

TypeCleaner ==
  /\ cleaner \in {"none", "loop", "sleep", "scan", "exited"}
  /\ wake \in 0 .. SleepInterval
  /\ lag \in 0 .. MaxLag

TypeRaces ==
  /\ raced \subseteq (({"perf"} \cup Sections) \X Threads)
  /\ crashed \in BOOLEAN

TypeOK ==
  /\ TypeMain
  /\ TypeQueues
  /\ TypeConsumers
  /\ TypeHistories
  /\ TypeScores
  /\ TypeCleaner
  /\ TypeRaces
----------------------------------------------------------------------------
(* Every server's rows in server_performance are in the order in which its *)
(* reports were received, and none is there twice, although any of them    *)
(* may be missing (WriteToMysql returns on a failed connection and ignores *)
(* the result of an INSERT).                                               *)
RowsInOrder ==
  \A id \in Ids : \A p, q \in 1 .. Len(perf_rows[id]) :
    p < q => perf_rows[id][p].n < perf_rows[id][q].n

(* The report of server id received last before report n (0: none).        *)
IsPrevious(id, n, b) ==
  /\ b < n
  /\ b # 0 => ServerId(received[b]) = id
  /\ \A m \in 1 .. n - 1 : b < m => ServerId(received[m]) # id

(* The rates of change in a row are taken against the report received just *)
(* before it from the same server, even when that report never reached the *)
(* database, as long as no other thread raced in the shard that holds the  *)
(* server's history (ProcessData reads and replaces the sample before      *)
(* WriteToMysql tries to connect).                                         *)
RateBaseIsPrevious ==
  \A id \in Ids :
    <<"perf", ShardIndex(id)>> \notin raced =>
      \A p \in 1 .. Len(perf_rows[id]) :
        IsPrevious(id, perf_rows[id][p].n, perf_rows[id][p].base)

(* n is the newest of the reports ns (0 if there is none).                 *)
IsNewest(n, ns) == n \in ns \cup {0} /\ \A m \in ns : m <= n

(* The reports of a server that got as far as the database.                *)
WrittenOf(id) == {n \in written : ServerId(received[n]) = id}

(* The thread that has report n in hand has not been through a section.    *)
StillToDo(n, section) ==
  \E i \in Threads : cur[i] = n /\ \E s, t \in DOMAIN SectionOrder :
     pc[i] = SectionOrder[s] /\ section = SectionOrder[t] /\ s <= t

(* The rates of an interface, a CPU, the memory or a disk are taken        *)
(* against the newest report of the server that had it and that reached    *)
(* the database (the connection came about, even if the INSERT failed):    *)
(* reports without the section in between, and reports lost with a         *)
(* connection, leave the sample where it was, and no other thread moves it *)
(* (WriteToMysql), as long as no other thread raced in the shard.          *)
DetailHistoryIsLatest ==
  \A id \in Ids, it \in Items :
    <<it[1], ShardIndex(id)>> \notin raced =>
      IsNewest(last_detail[id][it],
               {n \in WrittenOf(id) : it \in received[n].items /\ ~StillToDo(n, it[1])})

(* The disk utilisation of a server is compared with that of its newest    *)
(* report that reached the database: one thread has the whole history, and *)
(* the others have none. (The comment in WriteToMysql justifies the        *)
(* thread_local map by "the same host is always handled by the same        *)
(* thread".)                                                               *)
DiskHistoryIsLatest ==
  \A id \in Ids : \E i \in Threads :
    /\ IsNewest(last_disk_util[i][id], WrittenOf(id))
    /\ \A j \in Threads \ {i} : last_disk_util[j][id] = 0

(* The live table never falls back to an older report of a server: its     *)
(* entry is replaced by a newer one or removed by ProcessLoop.             *)
ScoreNeverGoesBack ==
  [][\A id \in Ids : host_scores_'[id] # 0 => host_scores_'[id] >= host_scores_[id]]_vars

(* A host whose last report was stamped at most StaleLimit seconds ago is  *)
(* listed: ProcessLoop takes its `now` before it waits for mtx_, and a     *)
(* report may be published in between.                                     *)
FreshHostListed ==
  \A id \in Ids : age[id] <= StaleLimit => host_scores_[id] # 0

(* Each server's reports are handled in order and none is skipped, even    *)
(* under the data races on the shards.                                     *)
History == INSTANCE HostHistory WITH done <- last_perf

ImplementsHistory == History!Spec
----------------------------------------------------------------------------
(* Stop ends: every consumer leaves its loop and the cleaner its sleep.    *)
StopTerminates == main = "stopping" ~> Ended

Handled(n) == n \in 1 .. Len(received) /\ last_perf[ServerId(received[n])] >= n

(* A report queued for a consumer thread that is in its loop is handled,   *)
(* unless the manager is stopped first.                                    *)
QueuedIsHandled ==
  \A i \in Threads : \A n \in 1 .. MaxReports :
    (/\ running_ /\ pc[i] \notin {"none", "fetch", "loop", "exited"}
     /\ \E p \in 1 .. Len(queue_[i]) : queue_[i][p] = n)
      ~> (~running_ \/ crashed \/ Handled(n))

(* A host that is not heard of any more disappears from the live table.    *)
(* (Reports are finite in number here, so every host falls silent.)        *)
SilentHostRemoved ==
  \A id \in Ids :
    (main = "serving" /\ host_scores_[id] # 0)
      ~> (host_scores_[id] = 0 \/ ~running_ \/ crashed)
----------------------------------------------------------------------------
(* host_manager.h: "N queues, N threads", and ConsumeMessage's queue_index *)
(* "marks which queue the current thread is responsible for": while the    *)
(* manager serves, every queue has its thread.                             *)
EveryQueueHasItsThread ==
  main = "serving" => \A i \in Threads : pc[i] # "exited"

(* host_manager.cpp: the shards are there "for lock-free concurrent        *)
(* access": no two threads meet in one.                                    *)
ShardsAreUnshared == raced = {}
=============================================================================
