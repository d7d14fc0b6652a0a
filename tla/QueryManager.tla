---------------------------- MODULE QueryManager ----------------------------
(***************************************************************************)
(* The manager's query side: QueryManager (query_manager.cpp), the gRPC    *)
(* service in front of it (query_service.cpp), and clients that ask for    *)
(* one page after another until a page comes back empty.                   *)
(*                                                                         *)
(* All queries share one MySQL connection and hold mtx_ from the test of   *)
(* initialized_ to the answer; but a paged query makes two statements, and *)
(* the consumer threads of HostManager insert rows over connections of     *)
(* their own at any time. Each statement is a step.                        *)
(*                                                                         *)
(* Row n of table is the n-th inserted in the database; it belongs to      *)
(* server_performance or to the table of one kind of details. Of its       *)
(* metrics the score and the set of metrics above their thresholds are     *)
(* kept. Rows are only ever added, so what a statement saw is determined   *)
(* by the number of rows there were. A record of an answer is the set of   *)
(* rows it was made from and a tag: the status of a server, the metric of  *)
(* an anomaly.                                                             *)
(***************************************************************************)
EXTENDS Integers, Sequences, FiniteSets, SequencesExt

CONSTANTS
  Queriers,         \* the gRPC threads that serve queries
  NoOne,            \* not one of them
  Servers,
  AnyServer,        \* the empty server_name
  Requests,         \* what clients ask for: see RequestsAssumption
  Samples,          \* the data of a row: see SamplesAssumption
  DefaultPageSize,  \* 100
  OnlineLimit,      \* seconds after which a server is OFFLINE (60)
  IntLimit,         \* one more than the largest int (2^31)
  MaxRows,          \* bound on the rows
  MaxTime           \* bound on the clock

Details == {"net", "disk", "mem", "softirq"}
Listed  == {"performance", "anomaly"} \cup Details
Paged   == Listed \cup {"rank"}
Kinds   == Paged \cup {"trend", "latest"}
MetricOrder == <<"cpu", "mem", "disk", "cpu_rate", "mem_rate">>
Ints == -IntLimit .. IntLimit - 1

ASSUME QueriersAssumption == NoOne \notin Queriers

ASSUME RequestsAssumption ==
  Requests \subseteq [kind : Kinds, server : Servers \cup {AnyServer}, start : Nat, end : Nat,
                      order : {"ASC", "DESC"}, interval : Nat, page : Ints, page_size : Ints]

ASSUME SamplesAssumption ==
  Samples \subseteq [of : {"performance"} \cup Details, server : Servers,
                    score : 0 .. 100, alarms : SUBSET ToSet(MetricOrder)]

ASSUME LimitsAssumption ==
  /\ MaxRows \in Nat /\ MaxTime \in Nat /\ OnlineLimit \in Nat
  /\ IntLimit \in Nat \ {0} /\ DefaultPageSize \in 1 .. IntLimit - 1

VARIABLES
  main,          \* "init" until main has called QueryManager::Init
  conn_,         \* the connection: "none", "up" or "lost"
  initialized_,
  mtx_,          \* the querier that holds the mutex, or NoOne
  table,         \* the rows of the tables
  clock,
  stage,         \* what each querier does
  req,           \* its request
  status,        \* the status of its answer
  total,         \* total_count
  records,       \* the records of its answer
  seen,          \* those of the earlier pages (history)
  sound,         \* every statement of it succeeded (history)
  first,         \* the page it asked for first (history)
  from, since, until  \* the rows there were when it asked for the first
                      \* page, for this page, and when it got it (history)

sharedVars == <<main, conn_, initialized_>>
callVars   == <<req, status, total, records, seen, sound, first, from, since, until>>
vars == <<sharedVars, mtx_, table, clock, stage, callVars>>

NoRequest == [kind |-> "latest", server |-> AnyServer, start |-> 0, end |-> 0,
              order |-> "DESC", interval |-> 0, page |-> 1, page_size |-> 1]

Init ==
  /\ main = "init" /\ conn_ = "none" /\ initialized_ = FALSE
  /\ mtx_ = NoOne
  /\ table = <<>> /\ clock = 0
  /\ stage = [q \in Queriers |-> "idle"]
  /\ req = [q \in Queriers |-> NoRequest]
  /\ status = [q \in Queriers |-> "none"]
  /\ total = [q \in Queriers |-> 0]
  /\ records = [q \in Queriers |-> <<>>]
  /\ seen = [q \in Queriers |-> <<>>]
  /\ sound = [q \in Queriers |-> TRUE]
  /\ first = [q \in Queriers |-> 1]
  /\ from = [q \in Queriers |-> 0]
  /\ since = [q \in Queriers |-> 0]
  /\ until = [q \in Queriers |-> 0]
----------------------------------------------------------------------------
(* The statements, on the first m rows of the table.                       *)

Time(n) == table[n].time

(* The first m rows that are of the table a request is about.              *)
Rows(r, m) ==
  {n \in 1 .. m : table[n].of = IF r.kind \in Details THEN r.kind ELSE "performance"}

(* FROM ... WHERE: the rows of a server in the window; those of any server *)
(* with a metric above its threshold; or the latest rows of every server.  *)
(* Mutant of Selected: the latest rows of all, without GROUP BY.           *)
SelectedUngrouped(r, m) ==
  IF r.kind \in {"rank", "latest"}
  THEN {n \in Rows(r, m) : \A j \in Rows(r, m) : Time(j) <= Time(n)}
  ELSE {n \in Rows(r, m) :
          /\ Time(n) \in r.start .. r.end
          /\ table[n].server = r.server \/ (r.kind = "anomaly" /\ r.server = AnyServer)
          /\ r.kind = "anomaly" => table[n].alarms # {}}

Selected(r, m) ==
  IF r.kind \in {"rank", "latest"}
  THEN {n \in Rows(r, m) :
          \A j \in Rows(r, m) : table[j].server = table[n].server => Time(j) <= Time(n)}
  ELSE {n \in Rows(r, m) :
          /\ Time(n) \in r.start .. r.end
          /\ table[n].server = r.server \/ (r.kind = "anomaly" /\ r.server = AnyServer)
          /\ r.kind = "anomaly" => table[n].alarms # {}}

(* SELECT COUNT.                                                           *)
TotalCount(r, m) ==
  IF r.kind = "rank"
  THEN Cardinality({table[n].server : n \in Rows(r, m)})
  ELSE Cardinality(Selected(r, m))

(* ORDER BY: the server may return rows that tie in any order.             *)
(* Mutant of InOrder: a trend is listed from its end.                      *)
InOrderBackwards(r, m, n) ==
  IF r.kind \in {"rank", "latest"}
  THEN IF r.order = "ASC" THEN table[m].score <= table[n].score
                          ELSE table[m].score >= table[n].score
  ELSE Time(m) >= Time(n)

InOrder(r, m, n) ==
  IF r.kind \in {"rank", "latest"}
  THEN IF r.order = "ASC" THEN table[m].score <= table[n].score
                          ELSE table[m].score >= table[n].score
  ELSE IF r.kind = "trend" THEN Time(m) <= Time(n) ELSE Time(m) >= Time(n)

Orderings(r, S) ==
  {s \in SetToSeqs(S) : \A i, j \in DOMAIN s : i < j => InOrder(r, s[i], s[j])}

(* int offset = (page - 1) * page_size, which wraps.                       *)
ToInt(x) == ((x + IntLimit) % (2 * IntLimit)) - IntLimit

(* Mutant of Offset: pages count from 0.                                   *)
OffsetFromZero(r) == ToInt(r.page * r.page_size)

Offset(r) == ToInt((r.page - 1) * r.page_size)

(* LIMIT page_size OFFSET offset.                                          *)
(* Mutant of Page: the limit is the end of the page, not its size.         *)
PageToEnd(r, s) ==
  IF r.kind \in Paged
  THEN SubSeq(s, Offset(r) + 1, IF Offset(r) + r.page_size + 1 < Len(s)
                                THEN Offset(r) + r.page_size + 1 ELSE Len(s))
  ELSE s

Page(r, s) ==
  IF r.kind \in Paged
  THEN SubSeq(s, Offset(r) + 1, IF Offset(r) + r.page_size < Len(s)
                                THEN Offset(r) + r.page_size ELSE Len(s))
  ELSE s

(* GROUP BY time_bucket ORDER BY time_bucket.                              *)
Bucket(r, n) == Time(n) \div r.interval

Buckets(r, S) ==
  LET groups == {{m \in S : Bucket(r, m) = Bucket(r, n)} : n \in S}
  IN  CHOOSE s \in SetToSeqs(groups) :
        \A i, j \in DOMAIN s :
          i < j => \A a \in s[i], b \in s[j] : Bucket(r, a) < Bucket(r, b)

OnlineStatus(n) == IF clock - Time(n) > OnlineLimit THEN "OFFLINE" ELSE "ONLINE"

(* What a fetched row adds to the answer: an anomaly for each metric above *)
(* its threshold, or one record.                                           *)
RecordsOf(r, n) ==
  LET Record(tag) == [rows |-> {n}, tag |-> tag]
      Alarm(metric) == IF metric \in table[n].alarms THEN <<Record(metric)>> ELSE <<>>
  IN  CASE r.kind = "anomaly"            -> FlattenSeq([i \in DOMAIN MetricOrder |-> Alarm(MetricOrder[i])])
        [] r.kind \in {"rank", "latest"} -> <<Record(OnlineStatus(n))>>
        [] OTHER                         -> <<Record("")>>

Answers(r) ==
  LET S == Selected(r, Len(table))
      Answer(s) == FlattenSeq([i \in DOMAIN Page(r, s) |-> RecordsOf(r, Page(r, s)[i])])
      buckets == Buckets(r, S)
  IN  IF r.kind = "trend" /\ r.interval > 0
      THEN {[i \in DOMAIN buckets |-> [rows |-> buckets[i], tag |-> ""]]}
      ELSE {Answer(s) : s \in Orderings(r, S)}
----------------------------------------------------------------------------
(* main: QueryManager::Init connects, or does not; the server is started   *)
(* either way.                                                             *)
InitConnects ==
  /\ main = "init"
  /\ main' = "serving" /\ conn_' = "up" /\ initialized_' = TRUE
  /\ UNCHANGED <<mtx_, table, clock, stage, callVars>>

InitFails ==
  /\ main = "init"
  /\ main' = "serving"
  /\ UNCHANGED <<conn_, initialized_, mtx_, table, clock, stage, callVars>>

(* The MySQL server drops the connection, which is never opened again.     *)
LoseConnection ==
  /\ conn_ = "up"
  /\ conn_' = "lost"
  /\ UNCHANGED <<main, initialized_, mtx_, table, clock, stage, callVars>>

(* HostManager inserts a row, of any of the tables: the rows of a report   *)
(* are inserted one by one, and an insertion may fail. A server's rows     *)
(* carry the times at which its reports were handled, which never          *)
(* decrease; other rows may overtake.                                      *)
Insert ==
  /\ main = "serving"
  /\ Len(table) < MaxRows
  /\ \E d \in Samples, t \in 0 .. clock :
       /\ \A n \in 1 .. Len(table) : table[n].server = d.server => Time(n) <= t
       /\ table' = Append(table, [of |-> d.of, server |-> d.server, time |-> t,
                                  score |-> d.score, alarms |-> d.alarms])
  /\ UNCHANGED <<sharedVars, mtx_, clock, stage, callVars>>

Tick ==
  /\ clock < MaxTime
  /\ clock' = clock + 1
  /\ UNCHANGED <<sharedVars, mtx_, table, stage, callVars>>
----------------------------------------------------------------------------
(* A query.                                                                *)

(* The service normalises the page, and refuses an interval of time that   *)
(* ends before it starts; the ranking and the latest scores have none.     *)
(* (Its query_manager_ is never null.)                                     *)
Normalised(r) ==
  [r EXCEPT !.page = IF @ < 1 THEN 1 ELSE @,
            !.page_size = IF @ < 1 THEN DefaultPageSize ELSE @]

ValidateTimeRange(r) == r.start <= r.end

Accepts(r) == r.kind \in {"rank", "latest"} \/ ValidateTimeRange(r)

Call(q) ==
  /\ main = "serving" /\ stage[q] = "idle"
  /\ \E r \in Requests :
       /\ req' = [req EXCEPT ![q] = Normalised(r)]
       /\ first' = [first EXCEPT ![q] = Normalised(r).page]
       /\ IF Accepts(r)
          THEN /\ stage' = [stage EXCEPT ![q] = "called"]
               /\ UNCHANGED status
          ELSE /\ stage' = [stage EXCEPT ![q] = "answered"]
               /\ status' = [status EXCEPT ![q] = "INVALID_ARGUMENT"]
  /\ from' = [from EXCEPT ![q] = Len(table)]
  /\ since' = [since EXCEPT ![q] = Len(table)]
  /\ until' = [until EXCEPT ![q] = Len(table)]
  /\ UNCHANGED <<sharedVars, mtx_, table, clock, total, records, seen, sound>>

(* lock_guard, and the test whether there is a connection to ask.          *)
Lock(q) ==
  /\ stage[q] = "called" /\ mtx_ = NoOne
  /\ IF initialized_
     THEN /\ mtx_' = q
          /\ stage' = [stage EXCEPT ![q] = IF req[q].kind \in Paged THEN "count" ELSE "fetch"]
          /\ UNCHANGED <<status, total, records, sound>>
     ELSE /\ stage' = [stage EXCEPT ![q] = "answered"]
          /\ status' = [status EXCEPT ![q] = "OK"]
          /\ total' = [total EXCEPT ![q] = 0]
          /\ records' = [records EXCEPT ![q] = <<>>]
          /\ sound' = [sound EXCEPT ![q] = FALSE]
          /\ UNCHANGED mtx_
  /\ UNCHANGED <<sharedVars, table, clock, req, seen, first, from, since, until>>

(* GetTotalCount: the statement, or 0 if it fails.                         *)
(* Mutant of Count: an error code is passed on as the count.               *)
CountOrError(q) ==
  /\ stage[q] = "count"
  /\ stage' = [stage EXCEPT ![q] = "fetch"]
  /\ total' = [total EXCEPT ![q] = IF conn_ = "up" THEN TotalCount(req[q], Len(table)) ELSE -1]
  /\ sound' = [sound EXCEPT ![q] = @ /\ conn_ = "up"]
  /\ UNCHANGED <<sharedVars, mtx_, table, clock, req, status, records, seen, first, from, since, until>>

(* Mutant of Count: the count of the first page is kept for the next ones. *)
CountOnce(q) ==
  /\ stage[q] = "count"
  /\ stage' = [stage EXCEPT ![q] = "fetch"]
  /\ total' = [total EXCEPT ![q] = IF conn_ # "up" THEN 0
                                   ELSE IF req[q].page = 1 THEN TotalCount(req[q], Len(table)) ELSE @]
  /\ sound' = [sound EXCEPT ![q] = @ /\ conn_ = "up"]
  /\ UNCHANGED <<sharedVars, mtx_, table, clock, req, status, records, seen, first, from, since, until>>

Count(q) ==
  /\ stage[q] = "count"
  /\ stage' = [stage EXCEPT ![q] = "fetch"]
  /\ total' = [total EXCEPT ![q] = IF conn_ = "up" THEN TotalCount(req[q], Len(table)) ELSE 0]
  /\ sound' = [sound EXCEPT ![q] = @ /\ conn_ = "up"]
  /\ UNCHANGED <<sharedVars, mtx_, table, clock, req, status, records, seen, first, from, since, until>>

(* The second statement; it fails too when the offset is negative. The     *)
(* mutex is released on every path.                                        *)
Succeeds(q) == conn_ = "up" /\ (req[q].kind \in Paged => Offset(req[q]) >= 0)

(* Mutant of Fetch: the early return forgets the mutex.                    *)
FetchKeepsMutex(q) ==
  /\ stage[q] = "fetch"
  /\ stage' = [stage EXCEPT ![q] = "answered"]
  /\ status' = [status EXCEPT ![q] = "OK"]
  /\ \E answer \in IF Succeeds(q) THEN Answers(req[q]) ELSE {<<>>} :
       records' = [records EXCEPT ![q] = answer]
  /\ sound' = [sound EXCEPT ![q] = @ /\ Succeeds(q)]
  /\ until' = [until EXCEPT ![q] = Len(table)]
  /\ mtx_' = IF Succeeds(q) THEN NoOne ELSE mtx_
  /\ UNCHANGED <<sharedVars, table, clock, req, total, seen, first, from, since>>

Fetch(q) ==
  /\ stage[q] = "fetch"
  /\ stage' = [stage EXCEPT ![q] = "answered"]
  /\ status' = [status EXCEPT ![q] = "OK"]
  /\ \E answer \in IF Succeeds(q) THEN Answers(req[q]) ELSE {<<>>} :
       records' = [records EXCEPT ![q] = answer]
  /\ sound' = [sound EXCEPT ![q] = @ /\ Succeeds(q)]
  /\ until' = [until EXCEPT ![q] = Len(table)]
  /\ mtx_' = NoOne
  /\ UNCHANGED <<sharedVars, table, clock, req, total, seen, first, from, since>>

(* The client asks for the next page until one comes back empty.           *)
NextPage(q) ==
  /\ stage[q] = "answered" /\ req[q].kind \in Paged /\ records[q] # <<>>
  /\ stage' = [stage EXCEPT ![q] = "called"]
  /\ status' = [status EXCEPT ![q] = "none"]
  /\ req' = [req EXCEPT ![q].page = @ + 1]
  /\ seen' = [seen EXCEPT ![q] = @ \o records[q]]
  /\ since' = [since EXCEPT ![q] = Len(table)]
  /\ UNCHANGED <<sharedVars, mtx_, table, clock, total, records, sound, first, from, until>>
----------------------------------------------------------------------------
(* The methods of QueryManager.                                            *)
Serve(q) == Lock(q) \/ Count(q) \/ Fetch(q)
Query(kind, q) == req[q].kind = kind /\ Serve(q)

QueryPerformance(q)   == Query("performance", q)
QueryTrend(q)         == Query("trend", q)
QueryAnomaly(q)       == Query("anomaly", q)
QueryScoreRank(q)     == Query("rank", q)
QueryLatestScore(q)   == Query("latest", q)
QueryNetDetail(q)     == Query("net", q)
QueryDiskDetail(q)    == Query("disk", q)
QueryMemDetail(q)     == Query("mem", q)
QuerySoftIrqDetail(q) == Query("softirq", q)

QueryServer(q) ==
  \/ QueryPerformance(q) \/ QueryTrend(q) \/ QueryAnomaly(q)
  \/ QueryScoreRank(q) \/ QueryLatestScore(q)

QueryDetail(q) ==
  QueryNetDetail(q) \/ QueryDiskDetail(q) \/ QueryMemDetail(q) \/ QuerySoftIrqDetail(q)

Next ==
  \/ InitConnects \/ InitFails \/ LoseConnection
  \/ Insert \/ Tick
  \/ \E q \in Queriers : Call(q) \/ QueryServer(q) \/ QueryDetail(q) \/ NextPage(q)

(* A thread that can go on does, and statements return. Nothing obliges a  *)
(* client to ask, or rows to arrive.                                       *)
Spec == Init /\ [][Next]_vars /\ \A q \in Queriers : WF_vars(Serve(q))
----------------------------------------------------------------------------
Record == [rows : SUBSET (1 .. MaxRows),
           tag : {"", "ONLINE", "OFFLINE"} \cup ToSet(MetricOrder)]

TypeOK ==
  /\ main \in {"init", "serving"} /\ conn_ \in {"none", "up", "lost"}
  /\ initialized_ \in BOOLEAN
  /\ mtx_ \in Queriers \cup {NoOne}
  /\ Len(table) <= MaxRows /\ clock \in 0 .. MaxTime
  /\ stage \in [Queriers -> {"idle", "called", "count", "fetch", "answered"}]
  /\ status \in [Queriers -> {"none", "OK", "INVALID_ARGUMENT"}]
  /\ total \in [Queriers -> 0 .. MaxRows]
  /\ \A q \in Queriers : ToSet(records[q]) \cup ToSet(seen[q]) \subseteq Record
  /\ \A q \in Queriers : from[q] <= since[q] /\ since[q] <= Len(table) /\ until[q] <= Len(table)

(* The walk of querier q over the pages, from the first one, has come to   *)
(* its end.                                                                *)
Walked(q) ==
  /\ stage[q] = "answered" /\ status[q] = "OK" /\ sound[q] /\ first[q] = 1
  /\ req[q].kind \in Listed
  /\ records[q] = <<>>

(* No two of the rows asked for carry the same second.                     *)
NoTies(q) ==
  \A m, n \in Selected(req[q], Len(table)) : m # n => Time(m) # Time(n)

(* The rows of a list of records.                                          *)
RowsOf(recs) == UNION {rec.rows : rec \in ToSet(recs)}

(* A client that walks through the pages of a query ordered by time misses *)
(* no row that was there when it began, although rows are inserted between *)
(* the pages and between the two statements of a page, unless rows tie     *)
(* (LIMIT and OFFSET count from the newest row, QueryPerformance, and the  *)
(* same in QueryAnomaly and the detail queries).                           *)
WalkMissesNothing ==
  \A q \in Queriers :
    Walked(q) /\ NoTies(q) => Selected(req[q], from[q]) \subseteq RowsOf(seen[q])

(* When no row was inserted meanwhile, the pages put together are exactly  *)
(* the answer without pages: nothing twice, the newest first, and every    *)
(* anomaly of a row on the same page.                                      *)
WalkIsExact ==
  \A q \in Queriers :
    Walked(q) /\ NoTies(q) /\ Selected(req[q], Len(table)) = Selected(req[q], from[q]) =>
      \A s \in Orderings(req[q], Selected(req[q], from[q])) :
        seen[q] = FlattenSeq([i \in DOMAIN s |-> RecordsOf(req[q], s[i])])

(* total_count is not less than the rows there were when the page was      *)
(* asked for, and not more than those there are at the answer: the count   *)
(* and the page come from two statements.                                  *)
TotalIsBracketed ==
  \A q \in Queriers :
    stage[q] = "answered" /\ sound[q] /\ req[q].kind \in Paged /\ status[q] = "OK" =>
      total[q] \in TotalCount(req[q], since[q]) .. TotalCount(req[q], until[q])

(* The latest scores name every server that ever reported, and a server    *)
(* listed OFFLINE has no row that would make it ONLINE (QueryLatestScore). *)
LatestCoversServers ==
  \A q \in Queriers :
    stage[q] = "answered" /\ sound[q] /\ req[q].kind = "latest" =>
      /\ {table[n].server : n \in RowsOf(records[q])} =
           {table[n].server : n \in Rows(req[q], until[q])}
      /\ \A rec \in ToSet(records[q]) : rec.tag = "OFFLINE" =>
           \A m \in rec.rows : \A n \in Rows(req[q], until[q]) :
             table[n].server = table[m].server => clock - Time(n) > OnlineLimit

(* A trend puts every row of the window in one record, and its records do  *)
(* not overlap in time and ascend (QueryTrend, with or without buckets).   *)
TrendPartitionsWindow ==
  \A q \in Queriers :
    stage[q] = "answered" /\ sound[q] /\ req[q].kind = "trend" =>
      LET recs == records[q] IN
      /\ RowsOf(recs) = Selected(req[q], until[q])
      /\ \A i, j \in DOMAIN recs : i < j =>
           /\ recs[i].rows \cap recs[j].rows = {}
           /\ \A a \in recs[i].rows, b \in recs[j].rows :
                IF req[q].interval > 0 THEN Time(a) < Time(b) ELSE Time(a) <= Time(b)

(* Every query that was accepted is answered: no path keeps the mutex.     *)
QueriesAreAnswered ==
  \A q \in Queriers : stage[q] = "called" ~> stage[q] = "answered"
----------------------------------------------------------------------------
(* ClusterStats, gathered while the rows are read.                         *)
Stats(recs) ==
  LET Row(rec) == table[CHOOSE n \in rec.rows : TRUE]
      Add(a, rec) ==
        [online  |-> a.online + (IF rec.tag = "ONLINE" THEN 1 ELSE 0),
         offline |-> a.offline + (IF rec.tag = "ONLINE" THEN 0 ELSE 1),
         max     |-> IF Row(rec).score > a.max THEN Row(rec).score ELSE a.max,
         best    |-> IF Row(rec).score > a.max THEN Row(rec).server ELSE a.best,
         min     |-> IF Row(rec).score < a.min THEN Row(rec).score ELSE a.min,
         worst   |-> IF Row(rec).score < a.min THEN Row(rec).server ELSE a.worst]
      sums == FoldLeft(Add, [online |-> 0, offline |-> 0, max |-> -1, min |-> 101,
                             best |-> AnyServer, worst |-> AnyServer], recs)
  IN  [total   |-> Len(recs), online |-> sums.online, offline |-> sums.offline,
       max     |-> IF sums.max > 0 THEN sums.max ELSE 0,
       min     |-> IF sums.min < 101 THEN sums.min ELSE 0,
       best    |-> sums.best, worst |-> sums.worst]

(* query_manager.cpp and query_api.proto: "the latest data of each         *)
(* server"; total_servers of the statistics is the number of servers.      *)
TotalServersIsDistinct ==
  \A q \in Queriers :
    stage[q] = "answered" /\ sound[q] /\ req[q].kind = "latest" =>
      Stats(records[q]).total = Cardinality({table[n].server : n \in Rows(req[q], until[q])})
=============================================================================
