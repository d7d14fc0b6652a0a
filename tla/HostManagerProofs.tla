------------------------- MODULE HostManagerProofs -------------------------
(***************************************************************************)
(* Proofs about HostManager, for any number of consumer threads, any set   *)
(* of servers, any hash function and any number of reports.                *)
(***************************************************************************)
EXTENDS HostManager, SequenceTheorems, TLAPS

(* The constructor's argument is raised to one, so there is a thread.      *)
LEMMA ThreadCountPositive == thread_count_ \in Nat /\ thread_count_ > 0 /\ 0 \in Threads
BY CountAssumption DEF thread_count_, Threads

(* A remainder by the thread count is the index of a thread.               *)
LEMMA RemainderIsThread ==
  ASSUME NEW h \in Nat
  PROVE  h % thread_count_ \in Threads
<1>1. h % thread_count_ \in 0 .. thread_count_ - 1
  BY ThreadCountPositive
<1> QED
  BY <1>1 DEF Threads

(* Every report is routed to an existing queue (so the bound check of      *)
(* OnDataReceived never fails) and its server to an existing shard.        *)
LEMMA IndicesInRange ==
  ASSUME NEW r \in Reports
  PROVE  QueueIndex(r) \in Threads /\ ShardIndex(ServerId(r)) \in Threads
<1>1. Hash(<<RoutingName(r)>>) \in Nat /\ Hash(ServerId(r)) \in Nat
  BY HashAssumption
<1> QED
  BY <1>1, RemainderIsThread, ThreadCountPositive DEF QueueIndex, ShardIndex

(* Reports about one server are routed to one queue: the identifier        *)
(* determines the name that is hashed, although the two are built from     *)
(* different strings (OnDataReceived and ProcessData).                     *)
LEMMA SameServerSameQueue ==
  ASSUME NEW r1 \in Reports, NEW r2 \in Reports, ServerId(r1) = ServerId(r2)
  PROVE  QueueIndex(r1) = QueueIndex(r2)
<1>1. RoutingName(r1) = RoutingName(r2)
  BY ReportsAssumption DEF ServerId, RoutingName
<1> QED
  BY <1>1 DEF QueueIndex
----------------------------------------------------------------------------
(* A consumer has a report in hand exactly at the labels of ProcessData    *)
(* and WriteToMysql, and whatever is in hand or queued was received. While *)
(* the constructor runs, the threads from k on do not exist yet.           *)
InFlight ==
  /\ main \in {"push", "spawn"} => \A i \in Threads : i >= k => pc[i] = "none"
  /\ \A i \in Threads : cur[i] # 0 <=> pc[i] \in Busy
  /\ \A i \in Threads : cur[i] \in 0 .. Len(received)
  /\ \A i \in Threads : \A p \in 1 .. Len(queue_[i]) : queue_[i][p] \in 1 .. Len(received)

TypeInv == TypeOK /\ InFlight

(* A report in hand names a server that exists and a shard that exists.    *)
LEMMA InHand ==
  ASSUME TypeInv, NEW i \in Threads, pc[i] \in Busy
  PROVE  /\ cur[i] \in 1 .. Len(received)
         /\ received[cur[i]] \in Reports
         /\ HostName(i) \in Ids
         /\ ShardIndex(HostName(i)) \in Threads
<1>1. cur[i] \in 1 .. Len(received)
  BY DEF TypeInv, TypeOK, TypeQueues, InFlight
<1>2. received[cur[i]] \in Reports
  BY <1>1, ElementOfSeq DEF TypeInv, TypeOK, TypeQueues
<1> QED
  BY <1>1, <1>2, IndicesInRange DEF HostName, Ids

LEMMA InitTypeInv == Init => TypeInv
<1> SUFFICES ASSUME Init PROVE TypeInv
  OBVIOUS
<1> USE DEF Init
<1>1. TypeMain
  BY ThreadCountPositive, Zenon DEF TypeMain
<1>2. TypeQueues
  <2>1. <<>> \in Seq(Reports) /\ Len(<<>>) = 0 /\ <<>> \in Seq(Samples)
    BY EmptySeq
  <2> QED
    BY <2>1, TimeAssumption DEF TypeQueues
<1>3. TypeConsumers
  BY TimeAssumption DEF TypeConsumers, Samples, MaxAge
<1>4. TypeHistories
  <2>1. <<>> \in Seq(Rows)
    BY EmptySeq
  <2> QED
    BY <2>1, TimeAssumption DEF TypeHistories, Samples
<1>5. TypeScores
  BY TimeAssumption DEF TypeScores, Samples, MaxAge
<1>6. TypeCleaner
  BY TimeAssumption DEF TypeCleaner
<1>7. TypeRaces
  BY Zenon DEF TypeRaces
<1>8. InFlight
  BY EmptySeq DEF InFlight, Busy, Sections
<1> QED
  BY <1>1, <1>2, <1>3, <1>4, <1>5, <1>6, <1>7, <1>8 DEF TypeInv, TypeOK

(* Steps of the main thread, of the cleaner and of time.                   *)
LEMMA MainKeepsType ==
  ASSUME TypeInv, CtorPush \/ CtorSpawn \/ Start \/ Stop \/ StopQueue \/ Join
  PROVE  TypeInv'
<1> USE DEF TypeInv, TypeOK, mainVars, queueVars, consVars, perfVars, dbVars, scoreVars,
            cleanVars, raceVars
<1>1. UNCHANGED <<cur, base, now, received, queue_, perfVars, dbVars, scoreVars, raceVars, wake, lag>>
  BY DEF CtorPush, CtorSpawn, Start, Stop, StopQueue, Join
<1>2. TypeMain'
  <2>1. CASE CtorSpawn
    BY <2>1, ThreadCountPositive DEF CtorSpawn, TypeMain, Threads
  <2>2. CASE StopQueue
    BY <2>2, ThreadCountPositive DEF StopQueue, TypeMain, Threads
  <2> QED
    BY <2>1, <2>2 DEF CtorPush, Start, Stop, Join, TypeMain
<1>3. TypeQueues'
  BY <1>1 DEF CtorPush, CtorSpawn, Start, Stop, StopQueue, Join, TypeQueues
<1>4. TypeConsumers'
  BY <1>1 DEF CtorPush, CtorSpawn, Start, Stop, StopQueue, Join, TypeConsumers
<1>5. TypeHistories' /\ TypeScores' /\ TypeRaces'
  BY <1>1 DEF TypeHistories, TypeScores, TypeRaces
<1>6. TypeCleaner'
  BY <1>1 DEF CtorPush, CtorSpawn, Start, Stop, StopQueue, Join, TypeCleaner
<1>7. InFlight'
  <2>1. CASE CtorSpawn
    <3>1. k \in Threads /\ pc[k] = "none" /\ pc' = [pc EXCEPT ![k] = "fetch"]
      BY <2>1 DEF CtorSpawn, InFlight, TypeMain, Threads
    <3>2. \A i \in Threads : pc'[i] \in Busy <=> pc[i] \in Busy
      BY <3>1 DEF TypeConsumers, Busy, Sections
    <3>3. main' \in {"push", "spawn"} => k' = k + 1
      BY <2>1 DEF CtorSpawn
    <3>4. main' \in {"push", "spawn"} => \A i \in Threads : i >= k' => pc'[i] = "none"
      BY <2>1, <3>1, <3>3 DEF CtorSpawn, InFlight, Threads, TypeConsumers
    <3> QED
      BY <1>1, <3>2, <3>4 DEF InFlight
  <2> QED
    BY <1>1, <2>1 DEF CtorPush, Start, Stop, StopQueue, Join, InFlight, TypeMain
<1> QED
  BY <1>2, <1>3, <1>4, <1>5, <1>6, <1>7

LEMMA CleanerKeepsType ==
  ASSUME TypeInv, CleanTest \/ CleanWake \/ CleanScan \/ Tick
  PROVE  TypeInv'
<1> USE DEF TypeInv, TypeOK, mainVars, queueVars, consVars, perfVars, dbVars, scoreVars,
            cleanVars, raceVars
<1>1. UNCHANGED <<mainVars, queueVars, pc, cur, base, perfVars, dbVars, raceVars>>
  BY DEF CleanTest, CleanWake, CleanScan, Tick
<1>2. TypeMain' /\ TypeQueues' /\ TypeHistories' /\ TypeRaces' /\ InFlight'
  BY <1>1 DEF TypeMain, TypeQueues, TypeHistories, TypeRaces, InFlight
<1>3. \A a \in 0 .. MaxAge : Older(a) \in 0 .. MaxAge
  BY TimeAssumption DEF Older, MaxAge
<1>4. TypeConsumers'
  <2>1. now' \in [Threads -> 0 .. MaxAge]
    BY <1>3, TimeAssumption DEF CleanTest, CleanWake, CleanScan, Tick, TypeConsumers, MaxAge
  <2> QED
    BY <1>1, <2>1 DEF TypeConsumers
<1>5. TypeScores'
  <2>1. age' \in [Ids -> 0 .. MaxAge]
    BY <1>3 DEF CleanTest, CleanWake, CleanScan, Tick, TypeScores
  <2>2. host_scores_' \in [Ids -> Samples]
    BY TimeAssumption DEF CleanTest, CleanWake, CleanScan, Tick, TypeScores, Samples
  <2> QED
    BY <2>1, <2>2 DEF TypeScores
<1>6. TypeCleaner'
  BY TimeAssumption DEF CleanTest, CleanWake, CleanScan, Tick, TypeCleaner
<1> QED
  BY <1>2, <1>4, <1>5, <1>6

(* A report that arrives goes to the end of an existing queue.             *)
LEMMA ReceiveKeepsType ==
  ASSUME TypeInv, NEW r \in Reports, OnDataReceived(r)
  PROVE  TypeInv'
<1> USE DEF TypeInv, TypeOK, mainVars, queueVars, consVars, perfVars, dbVars, scoreVars,
            cleanVars, raceVars
<1>1. /\ UNCHANGED <<mainVars, stop_, consVars, perfVars, dbVars, scoreVars, cleanVars, raceVars>>
      /\ received' = Append(received, r) /\ Len(received) < MaxReports
      /\ main = "serving"
  BY DEF OnDataReceived
<1>2. received' \in Seq(Reports) /\ Len(received) \in Nat /\ Len(received') = Len(received) + 1
  BY <1>1, AppendProperties, LenProperties DEF TypeQueues
<1>3. Len(received) + 1 \in Samples
  BY <1>1, <1>2, TimeAssumption DEF Samples
<1>4. PICK j \in Threads : queue_' = [queue_ EXCEPT ![j] = Append(@, Len(received) + 1)]
  BY IndicesInRange DEF OnDataReceived
<1>5. /\ Append(queue_[j], Len(received) + 1) \in Seq(Samples)
      /\ \A p \in 1 .. Len(queue_'[j]) : queue_'[j][p] \in 1 .. Len(received')
  <2>1. queue_[j] \in Seq(Samples) /\ queue_'[j] = Append(queue_[j], Len(received) + 1)
    BY <1>4 DEF TypeQueues
  <2>2. \A p \in 1 .. Len(queue_[j]) : queue_[j][p] \in 1 .. Len(received)
    BY DEF InFlight
  <2> QED
    BY <1>2, <1>3, <2>1, <2>2, AppendProperties, LenProperties
<1>6. TypeQueues'
  <2>1. Len(received') <= MaxReports
    BY <1>1, <1>2, TimeAssumption
  <2>2. queue_' \in [Threads -> Seq(Samples)]
    BY <1>4, <1>5 DEF TypeQueues
  <2> QED
    BY <1>1, <1>2, <2>1, <2>2 DEF TypeQueues
<1>7. InFlight'
  <2>1. \A i \in Threads : \A p \in 1 .. Len(queue_'[i]) : queue_'[i][p] \in 1 .. Len(received')
    BY <1>2, <1>4, <1>5 DEF InFlight, TypeQueues
  <2> QED
    BY <1>1, <1>2, <2>1 DEF InFlight
<1>8. TypeMain' /\ TypeConsumers' /\ TypeHistories' /\ TypeScores' /\ TypeCleaner' /\ TypeRaces'
  BY <1>1 DEF TypeMain, TypeConsumers, TypeHistories, TypeScores, TypeCleaner, TypeRaces
<1> QED
  BY <1>6, <1>7, <1>8

(* A crash changes nothing but the flag.                                   *)
LEMMA CrashKeepsType ==
  ASSUME TypeInv, Crash
  PROVE  TypeInv'
<1>1. TypeMain' /\ TypeQueues' /\ TypeConsumers' /\ TypeHistories' /\ TypeScores' /\ TypeCleaner'
  BY DEF TypeInv, TypeOK, Crash, mainVars, queueVars, consVars, perfVars, dbVars, scoreVars,
         cleanVars, TypeMain, TypeQueues, TypeConsumers, TypeHistories, TypeScores, TypeCleaner
<1>2. TypeRaces'
  <2>1. crashed' \in BOOLEAN
    BY Zenon DEF Crash
  <2>2. raced' = raced
    BY DEF Crash
  <2> QED
    BY <2>1, <2>2 DEF TypeInv, TypeOK, TypeRaces
<1>3. InFlight'
  BY DEF TypeInv, Crash, mainVars, queueVars, consVars, InFlight
<1> QED
  BY <1>1, <1>2, <1>3 DEF TypeInv, TypeOK

(* A thread that takes its queue, tests the flag, or moves on to the next  *)
(* label with its report in hand.                                          *)
LEMMA GotoKeepsInFlight ==
  ASSUME TypeInv, NEW i \in Threads, NEW l, Goto(i, l), pc[i] # "none",
         l \in Busy \cup {"loop", "pop", "exited"},
         l \in Busy <=> pc[i] \in Busy,
         UNCHANGED <<mainVars, received, queue_, cur>>
  PROVE  InFlight' /\ pc' \in [Threads -> Busy \cup {"none", "fetch", "loop", "pop", "exited"}]
<1>1. pc \in [Threads -> Busy \cup {"none", "fetch", "loop", "pop", "exited"}]
  BY DEF TypeInv, TypeOK, TypeConsumers
<1>2. \A j \in Threads : pc'[j] = IF j = i THEN l ELSE pc[j]
  BY <1>1 DEF Goto
<1>3. main' \in {"push", "spawn"} => \A j \in Threads : j >= k' => pc'[j] = "none"
  BY <1>2 DEF TypeInv, InFlight, mainVars
<1>4. \A j \in Threads : cur'[j] # 0 <=> pc'[j] \in Busy
  BY <1>2 DEF TypeInv, InFlight
<1>5. /\ \A j \in Threads : cur'[j] \in 0 .. Len(received')
      /\ \A j \in Threads : \A p \in 1 .. Len(queue_'[j]) : queue_'[j][p] \in 1 .. Len(received')
  BY DEF TypeInv, InFlight
<1> QED
  BY <1>1, <1>3, <1>4, <1>5 DEF InFlight, Goto

(* A thread that is done with its report.                                  *)
LEMMA FinishKeepsInFlight ==
  ASSUME TypeInv, NEW i \in Threads, Finish(i), pc[i] \in Busy,
         UNCHANGED <<mainVars, received, queue_>>
  PROVE  InFlight' /\ TypeConsumers'
<1>1. TypeConsumers'
  BY TimeAssumption DEF TypeInv, TypeOK, TypeConsumers, Finish, Samples, MaxAge
<1>2. \A j \in Threads : /\ pc'[j] = IF j = i THEN "loop" ELSE pc[j]
                         /\ cur'[j] = IF j = i THEN 0 ELSE cur[j]
  BY DEF TypeInv, TypeOK, TypeConsumers, Finish
<1>3. main' \in {"push", "spawn"} => \A j \in Threads : j >= k' => pc'[j] = "none"
  BY <1>2 DEF TypeInv, InFlight, mainVars, Busy, Sections
<1>4. \A j \in Threads : cur'[j] # 0 <=> pc'[j] \in Busy
  BY <1>2 DEF TypeInv, InFlight, Busy, Sections
<1>5. Len(received) \in Nat
  BY LenProperties DEF TypeInv, TypeOK, TypeQueues
<1>6. /\ \A j \in Threads : cur'[j] \in 0 .. Len(received')
      /\ \A j \in Threads : \A p \in 1 .. Len(queue_'[j]) : queue_'[j][p] \in 1 .. Len(received')
  BY <1>2, <1>5 DEF TypeInv, InFlight
<1> QED
  BY <1>1, <1>3, <1>4, <1>6 DEF InFlight

(* The report that Pop takes was received, and the others stay.            *)
LEMMA PopKeepsType ==
  ASSUME TypeInv, NEW i \in Threads, Pop(i)
  PROVE  TypeInv'
<1> USE DEF TypeInv, TypeOK, mainVars, queueVars, consVars, perfVars, dbVars, scoreVars,
            cleanVars, raceVars
<1>1. UNCHANGED <<mainVars, received, stop_, base, now, perfVars, dbVars, scoreVars, cleanVars, raceVars>>
  BY DEF Pop
<1>2. TypeMain' /\ TypeHistories' /\ TypeScores' /\ TypeCleaner' /\ TypeRaces'
  BY <1>1 DEF TypeMain, TypeHistories, TypeScores, TypeCleaner, TypeRaces
<1>3. queue_[i] \in Seq(Samples) /\ Len(received) \in Nat
  BY LenProperties DEF TypeQueues
<1>4. CASE queue_[i] = <<>>
  <2>1. queue_' = queue_ /\ cur' = cur /\ Goto(i, "loop") /\ pc[i] = "pop"
    BY <1>4 DEF Pop
  <2>2. InFlight' /\ pc' \in [Threads -> Busy \cup {"none", "fetch", "loop", "pop", "exited"}]
    BY <1>1, <2>1, GotoKeepsInFlight DEF Busy, Sections
  <2> QED
    BY <1>1, <1>2, <2>1, <2>2 DEF TypeQueues, TypeConsumers
<1>5. CASE queue_[i] # <<>>
  <2> DEFINE h == Head(queue_[i])
             busy == ServerId(received[h]) # <<Empty>>
  <2>1. /\ queue_' = [queue_ EXCEPT ![i] = Tail(@)]
        /\ pc' = [pc EXCEPT ![i] = IF busy THEN "stamp" ELSE "loop"]
        /\ cur' = [cur EXCEPT ![i] = IF busy THEN h ELSE @]
        /\ pc[i] = "pop"
    BY <1>5 DEF Pop, Goto, TypeConsumers
  <2>2. /\ Tail(queue_[i]) \in Seq(Samples) /\ h \in Samples /\ h = queue_[i][1]
        /\ 1 \in 1 .. Len(queue_[i])
        /\ Len(Tail(queue_[i])) = Len(queue_[i]) - 1 /\ Len(queue_[i]) \in Nat
        /\ \A p \in 1 .. Len(Tail(queue_[i])) : Tail(queue_[i])[p] = queue_[i][p + 1]
    BY <1>3, <1>5, HeadTailProperties, EmptySeq, LenProperties
  <2>3. h \in 1 .. Len(received)
    BY <2>2 DEF InFlight
  <2>4. TypeQueues'
    BY <1>1, <2>1, <2>2 DEF TypeQueues
  <2>5. TypeConsumers'
    BY <1>1, <2>1, <2>2 DEF TypeConsumers, Busy, Sections
  <2>6. InFlight'
    <3>1. main' \in {"push", "spawn"} => \A j \in Threads : j >= k' => pc'[j] = "none"
      BY <1>1, <2>1 DEF InFlight, TypeConsumers
    <3>2. \A j \in Threads : cur'[j] # 0 <=> pc'[j] \in Busy
      BY <2>1, <2>3 DEF InFlight, TypeConsumers, Busy, Sections
    <3>3. \A j \in Threads : cur'[j] \in 0 .. Len(received')
      BY <1>1, <1>3, <2>1, <2>3 DEF InFlight, TypeConsumers
    <3>4. \A j \in Threads : \A p \in 1 .. Len(queue_'[j]) : queue_'[j][p] \in 1 .. Len(received')
      BY <1>1, <2>1, <2>2 DEF InFlight, TypeQueues
    <3> QED
      BY <3>1, <3>2, <3>3, <3>4 DEF InFlight
  <2> QED
    BY <1>2, <2>4, <2>5, <2>6
<1> QED
  BY <1>4, <1>5

(* The race set stays a set of shards.                                     *)
LEMMA AccessKeepsRaced ==
  ASSUME TypeInv, NEW i \in Threads, pc[i] \in Busy, NEW f \in {"perf"} \cup Sections, Access(i, f)
  PROVE  raced' \subseteq (({"perf"} \cup Sections) \X Threads)
BY InHand DEF Access, TypeInv, TypeOK, TypeRaces

(* ProcessData up to the connection: each step moves to the next label and *)
(* changes one table.                                                      *)
LEMMA ProcessKeepsType ==
  ASSUME TypeInv, NEW i \in Threads, ~Crash,
         \/ FetchQueue(i) \/ TestRunning(i) \/ TakeSnapshot(i) \/ ReadLast(i)
         \/ SaveLast(i) \/ UpdateScore(i)
  PROVE  TypeInv'
<1> USE DEF TypeInv, TypeOK, mainVars, queueVars, consVars, perfVars, dbVars, scoreVars,
            cleanVars, raceVars
<1> DEFINE Labels == Busy \cup {"none", "fetch", "loop", "pop", "exited"}
<1>1. UNCHANGED <<mainVars, queueVars, cur, last_detail, last_disk_util, perf_rows, written, cleanVars, crashed>>
  BY DEF FetchQueue, TestRunning, TakeSnapshot, ReadLast, SaveLast, UpdateScore
<1>2. TypeMain' /\ TypeQueues' /\ TypeCleaner'
  BY <1>1 DEF TypeMain, TypeQueues, TypeCleaner
<1>3. InFlight' /\ pc' \in [Threads -> Labels]
  <2>1. \E l \in Labels : /\ Goto(i, l) /\ l \notin {"none", "fetch"}
                          /\ l \in Busy <=> pc[i] \in Busy
                          /\ pc[i] # "none"
    BY DEF FetchQueue, TestRunning, TakeSnapshot, ReadLast, SaveLast, UpdateScore, Busy, Sections
  <2> QED
    BY <1>1, <2>1, GotoKeepsInFlight
<1>4. Len(received) \in Nat /\ Len(received) <= MaxReports
  BY LenProperties DEF TypeQueues
<1>5. TypeConsumers'
  <2>1. base' \in [Threads -> Samples]
    <3>1. CASE ReadLast(i)
      <4>1. HostName(i) \in Ids /\ last_perf[HostName(i)] \in Samples
        BY <3>1, InHand DEF ReadLast, Busy, Sections, TypeHistories
      <4> QED
        BY <1>4, <3>1, <4>1, TimeAssumption DEF ReadLast, TypeConsumers, Samples
    <3> QED
      BY <3>1 DEF FetchQueue, TestRunning, TakeSnapshot, SaveLast, UpdateScore, TypeConsumers
  <2>2. now' \in [Threads -> 0 .. MaxAge]
    BY TimeAssumption DEF FetchQueue, TestRunning, TakeSnapshot, ReadLast, SaveLast, UpdateScore,
       TypeConsumers, MaxAge
  <2> QED
    BY <1>1, <1>3, <2>1, <2>2 DEF TypeConsumers
<1>6. TypeHistories'
  <2>1. last_perf' \in [Ids -> Samples]
    BY DEF FetchQueue, TestRunning, TakeSnapshot, ReadLast, SaveLast, UpdateScore,
       TypeHistories, TypeConsumers
  <2> QED
    BY <1>1, <2>1 DEF TypeHistories
<1>7. TypeScores'
  BY DEF FetchQueue, TestRunning, TakeSnapshot, ReadLast, SaveLast, UpdateScore,
     TypeScores, TypeConsumers
<1>8. TypeRaces'
  <2>1. raced' \subseteq (({"perf"} \cup Sections) \X Threads)
    BY AccessKeepsRaced DEF FetchQueue, TestRunning, TakeSnapshot, ReadLast, SaveLast,
       UpdateScore, TypeRaces, Busy, Sections
  <2> QED
    BY <1>1, <2>1 DEF TypeRaces
<1> QED
  BY <1>2, <1>3, <1>5, <1>6, <1>7, <1>8

(* The sections of a report.                                               *)
LEMMA SectionsInOrder ==
  /\ DOMAIN SectionOrder = 1 .. 4
  /\ \A s \in 1 .. 4 : SectionOrder[s] \in Sections
  /\ \A s, t \in 1 .. 4 : SectionOrder[s] = SectionOrder[t] => s = t
BY DEF SectionOrder, Sections

(* After a section the thread goes on with another one, or is done.        *)
LEMMA GoesOn ==
  ASSUME NEW i, NEW s \in Nat, GoOn(i, s)
  PROVE  Finish(i) \/ \E l \in Sections : Goto(i, l) /\ UNCHANGED <<cur, base, now>>
BY SectionsInOrder DEF GoOn

LEMMA DetailStep ==
  ASSUME NEW i, NEW s \in DOMAIN SectionOrder, WriteDetail(i, s), ~Crash
  PROVE  /\ s \in 1 .. 4 /\ SectionOrder[s] \in Sections /\ pc[i] = SectionOrder[s]
         /\ Access(i, SectionOrder[s])
         /\ last_detail' = [last_detail EXCEPT ![HostName(i)] = NewSamples(i, SectionOrder[s])]
         /\ GoOn(i, s)
         /\ Finish(i) \/ \E l \in Sections : Goto(i, l) /\ UNCHANGED <<cur, base, now>>
         /\ UNCHANGED <<mainVars, queueVars, perfVars, last_disk_util, perf_rows, written,
                        scoreVars, cleanVars, crashed>>
<1>1. s \in 1 .. 4 /\ SectionOrder[s] \in Sections
  BY SectionsInOrder
<1>2. /\ pc[i] = SectionOrder[s] /\ Access(i, SectionOrder[s])
      /\ last_detail' = [last_detail EXCEPT ![HostName(i)] = NewSamples(i, SectionOrder[s])]
      /\ GoOn(i, s)
      /\ UNCHANGED <<mainVars, queueVars, perfVars, last_disk_util, perf_rows, written,
                     scoreVars, cleanVars, crashed>>
  BY Zenon DEF WriteDetail
<1> QED
  BY <1>1, <1>2, GoesOn

WritesSection(i) == \E s \in DOMAIN SectionOrder : WriteDetail(i, s)

(* WriteToMysql.                                                           *)
LEMMA WriteKeepsType ==
  ASSUME TypeInv, NEW i \in Threads, ~Crash,
         Connect(i) \/ WriteMain(i) \/ WritesSection(i)
  PROVE  TypeInv'
<1> USE DEF TypeInv, TypeOK, mainVars, queueVars, consVars, perfVars, dbVars, scoreVars,
            cleanVars, raceVars
<1>1. UNCHANGED <<mainVars, queueVars, last_perf, scoreVars, cleanVars, crashed>>
  BY DetailStep DEF Connect, WriteMain, WritesSection
<1>2. TypeMain' /\ TypeQueues' /\ TypeScores' /\ TypeCleaner'
  BY <1>1 DEF TypeMain, TypeQueues, TypeScores, TypeCleaner
<1>3. pc[i] \in Busy
  BY DetailStep DEF Connect, WriteMain, WritesSection, Busy
<1>4. InFlight' /\ TypeConsumers'
  <2>1. CASE Finish(i)
    BY <1>1, <1>3, <2>1, FinishKeepsInFlight
  <2>2. CASE ~Finish(i)
    <3>1. PICK l \in {"insert"} \cup Sections : Goto(i, l) /\ UNCHANGED <<cur, base, now>>
      BY <2>2, DetailStep, GoesOn DEF Connect, WriteMain, WritesSection
    <3>2. UNCHANGED <<cur, base, now>>
      BY <3>1
    <3>3. InFlight' /\ pc' \in [Threads -> Busy \cup {"none", "fetch", "loop", "pop", "exited"}]
      BY <1>1, <1>3, <3>1, <3>2, GotoKeepsInFlight DEF Busy, Sections
    <3> QED
      BY <3>2, <3>3 DEF TypeConsumers
  <2> QED
    BY <2>1, <2>2
<1>5. TypeHistories'
  <2>1. cur[i] \in Samples /\ base[i] \in Samples
    BY DEF TypeConsumers
  <2>2. last_detail' \in [Ids -> [Items -> Samples]]
    <3>1. ASSUME NEW s \in DOMAIN SectionOrder, WriteDetail(i, s)
          PROVE  last_detail' \in [Ids -> [Items -> Samples]]
      <4>1. HostName(i) \in Ids
        BY <1>3, InHand
      <4>2. NewSamples(i, SectionOrder[s]) \in [Items -> Samples]
        BY <2>1, <4>1 DEF NewSamples, TypeHistories
      <4> DEFINE new == NewSamples(i, SectionOrder[s])
      <4>3. last_detail' = [last_detail EXCEPT ![HostName(i)] = new]
        BY <3>1, DetailStep, Zenon
      <4>4. new \in [Items -> Samples]
        BY <4>2
      <4> HIDE DEF new
      <4> QED
        BY <4>3, <4>4 DEF TypeHistories
    <3> QED
      BY <3>1 DEF Connect, WriteMain, WritesSection, TypeHistories
  <2>3. last_disk_util' \in [Threads -> [Ids -> Samples]]
    <3>1. CASE last_disk_util' = [last_disk_util EXCEPT ![i][HostName(i)] = cur[i]]
      <4>1. last_disk_util[i] \in [Ids -> Samples]
        BY DEF TypeHistories
      <4>2. [last_disk_util[i] EXCEPT ![HostName(i)] = cur[i]] \in [Ids -> Samples]
        BY <2>1, <4>1
      <4> QED
        BY <3>1, <4>2 DEF TypeHistories
    <3>2. CASE UNCHANGED last_disk_util
      BY <3>2 DEF TypeHistories
    <3> QED
      BY <3>1, <3>2, DetailStep DEF Connect, WriteMain, WritesSection
  <2>4. perf_rows' \in [Ids -> Seq(Rows)]
    <3> DEFINE row == [n |-> cur[i], base |-> base[i]]
    <3>1. row \in Rows
      BY <2>1 DEF Rows
    <3>2. \A id \in Ids : Append(perf_rows[id], row) \in Seq(Rows)
      BY <3>1, AppendProperties DEF TypeHistories
    <3> HIDE DEF row
    <3>3. CASE perf_rows' = [perf_rows EXCEPT ![HostName(i)] = Append(@, row)]
      BY <3>2, <3>3 DEF TypeHistories
    <3>4. CASE UNCHANGED perf_rows
      BY <3>4 DEF TypeHistories
    <3> QED
      BY <3>3, <3>4, DetailStep DEF Connect, WriteMain, WritesSection, Insert, row
  <2>5. written' \subseteq Samples
    BY <2>1, DetailStep DEF Connect, WriteMain, WritesSection, TypeHistories
  <2> QED
    BY <1>1, <2>2, <2>3, <2>4, <2>5 DEF TypeHistories
<1>6. TypeRaces'
  <2>1. raced' \subseteq (({"perf"} \cup Sections) \X Threads)
    BY <1>3, AccessKeepsRaced, DetailStep DEF Connect, WriteMain, WritesSection, TypeRaces
  <2> QED
    BY <1>1, <2>1 DEF TypeRaces
<1> QED
  BY <1>2, <1>4, <1>5, <1>6

LEMMA NextKeepsType == TypeInv /\ [Next]_vars => TypeInv'
<1> SUFFICES ASSUME TypeInv, [Next]_vars
             PROVE  TypeInv'
  OBVIOUS
<1>1. CASE Main
  BY <1>1, MainKeepsType DEF Main
<1>2. ASSUME NEW i \in Threads, Consumer(i)
      PROVE  TypeInv'
  BY <1>2, CrashKeepsType, PopKeepsType, ProcessKeepsType, WriteKeepsType DEF Consumer, WritesSection
<1>3. CASE Cleaner
  BY <1>3, CleanerKeepsType DEF Cleaner
<1>4. CASE Environment
  BY <1>4, MainKeepsType, ReceiveKeepsType DEF Environment
<1>5. CASE Time
  BY <1>5, CleanerKeepsType DEF Time
<1>6. CASE UNCHANGED vars
  BY <1>6 DEF vars, mainVars, queueVars, consVars, perfVars, dbVars, scoreVars, cleanVars,
     raceVars, TypeInv, TypeOK, TypeMain, TypeQueues, TypeConsumers, TypeHistories,
     TypeScores, TypeCleaner, TypeRaces, InFlight
<1> QED
  BY <1>1, <1>2, <1>3, <1>4, <1>5, <1>6 DEF Next, Terminated

(* Every variable of the pipeline keeps its type in every behaviour: in    *)
(* particular every loop index is the index of an existing thread, and no  *)
(* report number in a queue, a history or a row is out of range.           *)
THEOREM TypeCorrect == Spec => []TypeOK
<1>1. TypeInv => TypeOK
  BY DEF TypeInv
<1> QED
  BY <1>1, InitTypeInv, NextKeepsType, PTL DEF Spec
-----------------------------------------------------------------------------
(***************************************************************************)
(* HostManager implements HostHistory: every server's reports are handled  *)
(* in the order in which they were received and none is skipped, for any   *)
(* number of threads, servers and reports, any hash function, and whatever *)
(* the data races on the shards do.                                        *)
(***************************************************************************)
(* The labels at which the report in hand is not in the history yet.       *)
Pending == {"stamp", "last", "save"}

(* What a consumer holds or has queued was routed to it.                   *)
Routed ==
  \A i \in Threads :
    /\ cur[i] # 0 => QueueIndex(received[cur[i]]) = i
    /\ \A p \in 1 .. Len(queue_[i]) : QueueIndex(received[queue_[i][p]]) = i

(* A queue is in the order of reception, behind the report in hand.        *)
Ordered ==
  \A i \in Threads :
    /\ \A p \in 1 .. Len(queue_[i]) : cur[i] < queue_[i][p]
    /\ \A p, q \in 1 .. Len(queue_[i]) : p < q => queue_[i][p] < queue_[i][q]

(* Reports that are pending or queued are newer than their server's        *)
(* history.                                                                *)
Newer ==
  \A i \in Threads :
    /\ pc[i] \in Pending => last_perf[HostName(i)] < cur[i]
    /\ \A p \in 1 .. Len(queue_[i]) : last_perf[ServerId(received[queue_[i][p]])] < queue_[i][p]

(* Report m is pending in, or queued for, the consumer it was routed to.   *)
Waits(m) ==
  LET i == QueueIndex(received[m])
  IN  \/ pc[i] \in Pending /\ cur[i] = m
      \/ \E p \in 1 .. Len(queue_[i]) : queue_[i][p] = m

(* No report is lost: each one is covered by its server's history or still *)
(* waits.                                                                  *)
Accounted ==
  /\ \A id \in Ids : last_perf[id] <= Len(received)
  /\ \A m \in 1 .. Len(received) :
       m <= last_perf[ServerId(received[m])] \/ Waits(m)

OrderInv == Routed /\ Ordered /\ Newer /\ Accounted

LEMMA InitOrderInv == Init => OrderInv
<1> SUFFICES ASSUME Init PROVE OrderInv
  OBVIOUS
<1>1. \A i \in Threads : Len(queue_[i]) = 0 /\ cur[i] = 0 /\ pc[i] \notin Pending
  BY EmptySeq DEF Init, Pending
<1>2. Len(received) = 0 /\ \A id \in Ids : last_perf[id] = 0
  BY EmptySeq DEF Init
<1>3. Routed /\ Ordered /\ Newer
  BY <1>1 DEF Routed, Ordered, Newer
<1>4. Accounted
  BY <1>2 DEF Accounted
<1> QED
  BY <1>3, <1>4 DEF OrderInv

(* A report always names its server, so ProcessData drops none.            *)
LEMMA ServerNamed ==
  ASSUME NEW r \in Reports
  PROVE  ServerId(r) # <<Empty>>
BY ReportsAssumption DEF ServerId

(* A received report names a server, a queue and a shard.                  *)
LEMMA Received ==
  ASSUME TypeInv, NEW m \in 1 .. Len(received)
  PROVE  /\ received[m] \in Reports
         /\ ServerId(received[m]) \in Ids
         /\ QueueIndex(received[m]) \in Threads
BY ElementOfSeq, IndicesInRange DEF TypeInv, TypeOK, TypeQueues, Ids

(* Steps that touch neither the reports nor the histories.                 *)
LEMMA QuietKeepsOrder ==
  ASSUME TypeInv, TypeInv', OrderInv, UNCHANGED <<received, queue_, last_perf>>,
         \A i \in Threads : pc'[i] \in Pending <=> pc[i] \in Pending,
         \A i \in Threads : cur'[i] = cur[i] \/ (cur'[i] = 0 /\ pc[i] \notin Pending)
  PROVE  OrderInv'
<1>1. Routed'
  BY DEF OrderInv, Routed
<1>2. Ordered'
  <2> SUFFICES ASSUME NEW i \in Threads
               PROVE  /\ \A p \in 1 .. Len(queue_[i]) : cur'[i] < queue_[i][p]
                      /\ \A p, q \in 1 .. Len(queue_[i]) : p < q => queue_[i][p] < queue_[i][q]
    BY DEF Ordered
  <2>1. \A p \in 1 .. Len(queue_[i]) : queue_[i][p] \in 1 .. Len(received) /\ cur[i] < queue_[i][p]
    BY DEF TypeInv, InFlight, OrderInv, Ordered
  <2> QED
    BY <2>1 DEF OrderInv, Ordered
<1>3. Newer'
  BY DEF OrderInv, Newer, HostName
<1>4. Accounted'
  <2> SUFFICES ASSUME NEW m \in 1 .. Len(received), Waits(m)
               PROVE  Waits(m)'
    BY DEF OrderInv, Accounted
  <2>1. QueueIndex(received[m]) \in Threads
    BY Received
  <2> QED
    BY <2>1 DEF Waits
<1> QED
  BY <1>1, <1>2, <1>3, <1>4 DEF OrderInv

(* A report that arrives is the newest and waits in the queue it is routed *)
(* to.                                                                     *)
LEMMA ReceiveKeepsOrder ==
  ASSUME TypeInv, OrderInv, NEW r \in Reports, OnDataReceived(r)
  PROVE  OrderInv'
<1> DEFINE n == Len(received) + 1
           j == QueueIndex(r)
<1>1. j \in Threads
  BY IndicesInRange
<1>2. UNCHANGED <<pc, cur, last_perf>>
  BY DEF OnDataReceived, consVars, perfVars
<1>3. /\ Len(received) \in Nat /\ Len(received') = n
      /\ received'[n] = r
      /\ \A m \in 1 .. Len(received) : received'[m] = received[m]
  BY AppendProperties, LenProperties DEF OnDataReceived, TypeInv, TypeOK, TypeQueues
<1>4. queue_[j] \in Seq(Samples) /\ n \in Samples
  BY <1>1, <1>3, TimeAssumption DEF OnDataReceived, TypeInv, TypeOK, TypeQueues, Samples
<1>5. /\ Len(queue_[j]) \in Nat
      /\ Len(queue_'[j]) = Len(queue_[j]) + 1
      /\ queue_'[j][Len(queue_[j]) + 1] = n
      /\ \A p \in 1 .. Len(queue_[j]) : queue_'[j][p] = queue_[j][p]
  <2>1. queue_'[j] = Append(queue_[j], n)
    BY <1>1 DEF OnDataReceived, TypeInv, TypeOK, TypeQueues
  <2> HIDE DEF n, j
  <2> QED
    BY <1>4, <2>1, AppendProperties, LenProperties
<1>6. \A i \in Threads : i # j => queue_'[i] = queue_[i]
  BY DEF OnDataReceived, TypeInv, TypeOK, TypeQueues
<1>7. \A i \in Threads : /\ cur[i] \in 0 .. Len(received)
                         /\ \A p \in 1 .. Len(queue_[i]) : queue_[i][p] \in 1 .. Len(received)
  BY DEF TypeInv, InFlight
<1> HIDE DEF n, j
<1>8. Routed'
  <2> SUFFICES ASSUME NEW i \in Threads
               PROVE  /\ cur[i] # 0 => QueueIndex(received'[cur[i]]) = i
                      /\ \A p \in 1 .. Len(queue_'[i]) : QueueIndex(received'[queue_'[i][p]]) = i
    BY <1>2 DEF Routed, QueueIndex, RoutingName
  <2>1. \A p \in 1 .. Len(queue_[i]) : QueueIndex(received'[queue_[i][p]]) = i
    BY <1>3, <1>7 DEF OrderInv, Routed
  <2>2. cur[i] # 0 => QueueIndex(received'[cur[i]]) = i
    BY <1>3, <1>7 DEF OrderInv, Routed
  <2>3. QueueIndex(received'[n]) = j
    BY <1>3 DEF j
  <2> QED
    BY <1>5, <1>6, <2>1, <2>2, <2>3
<1>9. Ordered'
  <2> SUFFICES ASSUME NEW i \in Threads
               PROVE  /\ \A p \in 1 .. Len(queue_'[i]) : cur[i] < queue_'[i][p]
                      /\ \A p, q \in 1 .. Len(queue_'[i]) : p < q => queue_'[i][p] < queue_'[i][q]
    BY <1>2 DEF Ordered
  <2>1. n = Len(received) + 1
    BY DEF n
  <2>2. CASE i # j
    BY <1>6, <2>2 DEF OrderInv, Ordered
  <2>3. CASE i = j
    <3>1. \A p \in 1 .. Len(queue_[i]) : cur[i] < queue_[i][p] /\ queue_[i][p] < n
      BY <1>3, <1>7, <2>1 DEF OrderInv, Ordered
    <3>2. cur[i] < n
      BY <1>3, <1>7, <2>1
    <3>3. \A p \in 1 .. Len(queue_'[j]) :
            \/ p \in 1 .. Len(queue_[j]) /\ queue_'[j][p] = queue_[j][p]
            \/ p = Len(queue_[j]) + 1 /\ queue_'[j][p] = n
      BY <1>5
    <3>4. \A p \in 1 .. Len(queue_'[j]) : cur[j] < queue_'[j][p]
      BY <2>3, <3>1, <3>2, <3>3
    <3>5. ASSUME NEW p \in 1 .. Len(queue_'[j]), NEW q \in 1 .. Len(queue_'[j]), p < q
          PROVE  queue_'[j][p] < queue_'[j][q]
      <4>1. p \in 1 .. Len(queue_[j]) /\ queue_'[j][p] = queue_[j][p]
        BY <1>5, <3>5
      <4>2. CASE q \in 1 .. Len(queue_[j])
        <5>1. queue_[j][p] < queue_[j][q]
          BY <1>1, <3>5, <4>1, <4>2 DEF OrderInv, Ordered
        <5> QED
          BY <1>5, <4>1, <4>2, <5>1
      <4>3. CASE queue_'[j][q] = n
        BY <2>3, <3>1, <4>1, <4>3
      <4> QED
        BY <3>3, <4>2, <4>3
    <3> QED
      BY <2>3, <3>4, <3>5
  <2> QED
    BY <2>2, <2>3
<1>10. Newer'
  <2> SUFFICES ASSUME NEW i \in Threads
               PROVE  /\ pc[i] \in Pending => last_perf[ServerId(received'[cur[i]])] < cur[i]
                      /\ \A p \in 1 .. Len(queue_'[i]) :
                           last_perf[ServerId(received'[queue_'[i][p]])] < queue_'[i][p]
    BY <1>2 DEF Newer, HostName
  <2>1. pc[i] \in Pending => cur[i] \in 1 .. Len(received)
    BY <1>7 DEF TypeInv, InFlight, Pending, Busy, Sections
  <2>2. pc[i] \in Pending => last_perf[ServerId(received'[cur[i]])] < cur[i]
    BY <1>3, <2>1 DEF OrderInv, Newer, HostName
  <2>3. \A p \in 1 .. Len(queue_[i]) : last_perf[ServerId(received'[queue_[i][p]])] < queue_[i][p]
    BY <1>3, <1>7 DEF OrderInv, Newer
  <2>4. last_perf[ServerId(received'[n])] < n
    <3>1. ServerId(r) \in Ids
      BY DEF Ids
    <3>2. last_perf[ServerId(r)] \in Samples /\ last_perf[ServerId(r)] <= Len(received)
      BY <3>1 DEF OrderInv, Accounted, TypeInv, TypeOK, TypeHistories
    <3>3. ServerId(received'[n]) = ServerId(r)
      BY <1>3
    <3> QED
      BY <1>3, <3>2, <3>3 DEF n, Samples
  <2> QED
    BY <1>5, <1>6, <2>2, <2>3, <2>4
<1>11. Accounted'
  <2>1. \A id \in Ids : last_perf'[id] <= Len(received')
    BY <1>2, <1>3 DEF OrderInv, Accounted, n, TypeInv, TypeOK, TypeHistories, Samples
  <2>2. ASSUME NEW m \in 1 .. Len(received')
        PROVE  m <= last_perf'[ServerId(received'[m])] \/ Waits(m)'
    <3>1. CASE m = n
      <4>1. QueueIndex(received'[m]) = j /\ queue_'[j][Len(queue_[j]) + 1] = m
        BY <1>3, <1>5, <3>1 DEF j
      <4>2. QueueIndex(received[m])' = QueueIndex(received'[m])
        BY DEF QueueIndex, RoutingName
      <4> QED
        BY <1>5, <4>1, <4>2 DEF Waits
    <3>2. CASE m \in 1 .. Len(received)
      <4>1. received'[m] = received[m] /\ QueueIndex(received[m]) \in Threads
        BY <1>3, <3>2, Received
      <4>2. CASE m <= last_perf[ServerId(received[m])]
        BY <1>2, <4>1, <4>2
      <4>3. CASE Waits(m)
        <5> DEFINE i == QueueIndex(received[m])
        <5>1. QueueIndex(received[m])' = i
          BY <4>1 DEF QueueIndex, RoutingName
        <5>2. CASE pc[i] \in Pending /\ cur[i] = m
          BY <1>2, <5>1, <5>2 DEF Waits
        <5>3. CASE \E p \in 1 .. Len(queue_[i]) : queue_[i][p] = m
          <6>1. \E p \in 1 .. Len(queue_'[i]) : queue_'[i][p] = m
            BY <1>5, <1>6, <4>1, <5>3
          <6> QED
            BY <5>1, <6>1 DEF Waits
        <5> QED
          BY <4>3, <5>2, <5>3 DEF Waits
      <4> QED
        BY <3>2, <4>2, <4>3 DEF OrderInv, Accounted
    <3> QED
      BY <1>3, <3>1, <3>2 DEF n
  <2> QED
    BY <2>1, <2>2 DEF Accounted
<1> QED
  BY <1>8, <1>9, <1>10, <1>11 DEF OrderInv

(* Pop moves the oldest queued report into the consumer's hand.            *)
LEMMA PopKeepsOrder ==
  ASSUME TypeInv, OrderInv, NEW i \in Threads, Pop(i)
  PROVE  OrderInv'
<1>1. UNCHANGED <<received, last_perf>>
  BY DEF Pop, perfVars
<1>2. pc[i] = "pop" /\ cur[i] = 0
  BY DEF Pop, TypeInv, InFlight, Busy, Sections
<1>3. queue_[i] \in Seq(Samples)
  BY DEF TypeInv, TypeOK, TypeQueues
<1>4. CASE queue_[i] = <<>>
  <2>1. queue_' = queue_ /\ cur' = cur /\ pc' = [pc EXCEPT ![i] = "loop"]
    BY <1>4 DEF Pop, Goto
  <2>2. \A j \in Threads : pc'[j] \in Pending <=> pc[j] \in Pending
    BY <1>2, <2>1 DEF Pending, TypeInv, TypeOK, TypeConsumers
  <2> QED
    BY <1>1, <2>1, <2>2, PopKeepsType, QuietKeepsOrder
<1>5. CASE queue_[i] # <<>>
  <2> DEFINE h == Head(queue_[i])
  <2>1. /\ h = queue_[i][1] /\ 1 \in 1 .. Len(queue_[i]) /\ Len(queue_[i]) \in Nat
        /\ Len(Tail(queue_[i])) = Len(queue_[i]) - 1
        /\ \A p \in 1 .. Len(Tail(queue_[i])) : Tail(queue_[i])[p] = queue_[i][p + 1]
    BY <1>3, <1>5, HeadTailProperties, EmptySeq, LenProperties
  <2>2. h \in 1 .. Len(received)
    BY <2>1 DEF TypeInv, InFlight
  <2>3. ServerId(received[h]) # <<Empty>>
    BY <2>2, Received, ServerNamed
  <2>4. /\ queue_' = [queue_ EXCEPT ![i] = Tail(@)]
        /\ pc' = [pc EXCEPT ![i] = "stamp"]
        /\ cur' = [cur EXCEPT ![i] = h]
    BY <1>5, <2>3 DEF Pop, Goto
  <2> HIDE DEF h
  <2>5. \A j \in Threads : /\ queue_'[j] = IF j = i THEN Tail(queue_[i]) ELSE queue_[j]
                           /\ pc'[j] = IF j = i THEN "stamp" ELSE pc[j]
                           /\ cur'[j] = IF j = i THEN h ELSE cur[j]
    BY <2>4 DEF TypeInv, TypeOK, TypeQueues, TypeConsumers
  <2>6. \A p \in 1 .. Len(queue_'[i]) : p + 1 \in 1 .. Len(queue_[i]) /\ queue_'[i][p] = queue_[i][p + 1]
    <3>1. queue_'[i] = Tail(queue_[i])
      BY <2>5
    <3> HIDE DEF h
    <3>2. \A p \in 1 .. Len(Tail(queue_[i])) : p + 1 \in 1 .. Len(queue_[i])
      BY <2>1
    <3> QED
      BY <2>1, <3>1, <3>2
  <2>7. Routed'
    <3> SUFFICES ASSUME NEW j \in Threads
                 PROVE  /\ cur'[j] # 0 => QueueIndex(received[cur'[j]]) = j
                        /\ \A p \in 1 .. Len(queue_'[j]) : QueueIndex(received[queue_'[j][p]]) = j
      BY <1>1 DEF Routed, QueueIndex, RoutingName
    <3>1. CASE j # i
      BY <2>5, <3>1 DEF OrderInv, Routed
    <3>2. CASE j = i
      <4>1. QueueIndex(received[h]) = i
        BY <2>1 DEF OrderInv, Routed
      <4>2. \A p \in 1 .. Len(queue_'[i]) : QueueIndex(received[queue_'[i][p]]) = i
        BY <2>6 DEF OrderInv, Routed
      <4> QED
        BY <2>5, <3>2, <4>1, <4>2
    <3> QED
      BY <3>1, <3>2
  <2>8. Ordered'
    <3> SUFFICES ASSUME NEW j \in Threads
                 PROVE  /\ \A p \in 1 .. Len(queue_'[j]) : cur'[j] < queue_'[j][p]
                        /\ \A p, q \in 1 .. Len(queue_'[j]) : p < q => queue_'[j][p] < queue_'[j][q]
      BY DEF Ordered
    <3>1. CASE j # i
      BY <2>5, <3>1 DEF OrderInv, Ordered
    <3>2. CASE j = i
      <4>1. \A p \in 1 .. Len(queue_'[i]) : h < queue_'[i][p]
        <5> SUFFICES ASSUME NEW p \in 1 .. Len(queue_'[i]) PROVE h < queue_'[i][p]
          OBVIOUS
        <5>1. p + 1 \in 1 .. Len(queue_[i]) /\ 1 < p + 1
          BY <2>6, <2>1, <2>5
        <5> QED
          BY <2>1, <2>6, <5>1 DEF OrderInv, Ordered
      <4>2. \A p, q \in 1 .. Len(queue_'[i]) : p < q => queue_'[i][p] < queue_'[i][q]
        <5> SUFFICES ASSUME NEW p \in 1 .. Len(queue_'[i]), NEW q \in 1 .. Len(queue_'[i]), p < q
                     PROVE  queue_'[i][p] < queue_'[i][q]
          OBVIOUS
        <5>1. /\ p + 1 \in 1 .. Len(queue_[i]) /\ q + 1 \in 1 .. Len(queue_[i])
              /\ p + 1 < q + 1
          BY <2>6, <2>1, <2>5
        <5> QED
          BY <2>6, <5>1 DEF OrderInv, Ordered
      <4> QED
        BY <2>5, <3>2, <4>1, <4>2
    <3> QED
      BY <3>1, <3>2
  <2>9. Newer'
    <3> SUFFICES ASSUME NEW j \in Threads
                 PROVE  /\ pc'[j] \in Pending => last_perf[ServerId(received[cur'[j]])] < cur'[j]
                        /\ \A p \in 1 .. Len(queue_'[j]) :
                             last_perf[ServerId(received[queue_'[j][p]])] < queue_'[j][p]
      BY <1>1 DEF Newer, HostName
    <3> QED
      BY <2>1, <2>5, <2>6 DEF OrderInv, Newer, HostName
  <2>10. Accounted'
    <3> SUFFICES ASSUME NEW m \in 1 .. Len(received), Waits(m)
                 PROVE  Waits(m)'
      BY <1>1 DEF OrderInv, Accounted
    <3> DEFINE j == QueueIndex(received[m])
    <3>1. j \in Threads /\ QueueIndex(received[m])' = j
      BY <1>1, Received DEF QueueIndex, RoutingName
    <3>2. CASE j # i
      BY <2>5, <3>1, <3>2 DEF Waits
    <3>3. CASE j = i
      <4>1. PICK p \in 1 .. Len(queue_[i]) : queue_[i][p] = m
        BY <1>2, <3>3 DEF Waits, Pending
      <4>2. CASE p = 1
        BY <2>1, <2>5, <3>1, <3>3, <4>1, <4>2 DEF Waits, Pending
      <4>3. CASE p # 1
        <5>1. Len(queue_'[i]) = Len(queue_[i]) - 1
          BY <2>1, <2>5
        <5>2. p - 1 \in 1 .. Len(queue_'[i]) /\ (p - 1) + 1 = p
          BY <2>1, <4>1, <4>3, <5>1
        <5>3. queue_'[i][p - 1] = m
          BY <2>6, <4>1, <5>2
        <5> QED
          BY <3>1, <3>3, <5>2, <5>3 DEF Waits
      <4> QED
        BY <4>2, <4>3
    <3> QED
      BY <3>2, <3>3
  <2> QED
    BY <2>7, <2>8, <2>9, <2>10 DEF OrderInv
<1> QED
  BY <1>4, <1>5
----------------------------------------------------------------------------
(* SaveLast is the step that handles a report. It handles the right one:   *)
(* the oldest report of its server that is not in the history yet.         *)
LEMMA SaveIsNext ==
  ASSUME TypeInv, OrderInv, NEW i \in Threads, pc[i] = "save"
  PROVE  /\ HostName(i) \in Ids
         /\ cur[i] \in 1 .. Len(received)
         /\ History!IsNext(HostName(i), cur[i])
<1>1. HostName(i) \in Ids /\ cur[i] \in 1 .. Len(received)
  BY InHand DEF Busy, Sections
<1>2. last_perf[HostName(i)] < cur[i]
  BY DEF OrderInv, Newer, Pending
<1>3. ASSUME NEW m \in 1 .. Len(received), last_perf[HostName(i)] < m, m < cur[i]
      PROVE  ServerId(received[m]) # HostName(i)
  <2> SUFFICES ASSUME ServerId(received[m]) = HostName(i)
               PROVE  FALSE
    OBVIOUS
  <2>1. QueueIndex(received[m]) = i
    BY <1>1, Received, SameServerSameQueue DEF HostName, OrderInv, Routed
  <2>2. last_perf[HostName(i)] \in Nat
    BY <1>1 DEF TypeInv, TypeOK, TypeHistories, Samples
  <2>3. Waits(m)
    BY <1>3, <2>2 DEF OrderInv, Accounted
  <2>4. cur[i] # m
    BY <1>1, <1>3
  <2>5. PICK p \in 1 .. Len(queue_[i]) : queue_[i][p] = m
    BY <2>1, <2>3, <2>4 DEF Waits
  <2>6. cur[i] < m
    BY <2>5 DEF OrderInv, Ordered
  <2> QED
    BY <1>1, <1>3, <2>6
<1> QED
  BY <1>1, <1>2, <1>3 DEF History!IsNext, HostName

(* What consumer i does to the history and to its label in SaveLast.       *)
LEMMA SaveStep ==
  ASSUME TypeInv, NEW i \in Threads, SaveLast(i), ~Crash
  PROVE  /\ UNCHANGED <<received, queue_, cur>>
         /\ pc[i] = "save"
         /\ \A id \in Ids : last_perf'[id] = IF id = HostName(i) THEN cur[i] ELSE last_perf[id]
         /\ \A j \in Threads : pc'[j] = IF j = i THEN "publish" ELSE pc[j]
         /\ last_perf' = [last_perf EXCEPT ![HostName(i)] = cur[i]]
BY DEF SaveLast, Goto, queueVars, TypeInv, TypeOK, TypeHistories, TypeConsumers

LEMMA SaveKeepsOrder ==
  ASSUME TypeInv, OrderInv, NEW i \in Threads, SaveLast(i), ~Crash
  PROVE  OrderInv'
<1> DEFINE id == HostName(i)
<1>1. /\ id \in Ids /\ cur[i] \in 1 .. Len(received) /\ last_perf[id] < cur[i]
      /\ received[cur[i]] \in Reports /\ id = ServerId(received[cur[i]])
      /\ QueueIndex(received[cur[i]]) = i
  BY SaveStep, SaveIsNext, Received DEF OrderInv, Newer, Pending, HostName, Routed
(* Whatever is about the same server was routed to the same consumer.      *)
<1>2. \A m \in 1 .. Len(received) : ServerId(received[m]) = id => QueueIndex(received[m]) = i
  BY <1>1, Received, SameServerSameQueue
<1>3. \A j \in Threads : /\ cur[j] # 0 => cur[j] \in 1 .. Len(received)
                         /\ \A p \in 1 .. Len(queue_[j]) : queue_[j][p] \in 1 .. Len(received)
                         /\ pc[j] \in Pending => cur[j] # 0
  BY DEF TypeInv, InFlight, Pending, Busy, Sections
<1> HIDE DEF id
<1>4. /\ UNCHANGED <<received, queue_, cur>> /\ pc[i] = "save"
      /\ \A x \in Ids : last_perf'[x] = IF x = id THEN cur[i] ELSE last_perf[x]
      /\ \A j \in Threads : pc'[j] = IF j = i THEN "publish" ELSE pc[j]
  BY SaveStep DEF id
<1>5. Routed' /\ Ordered'
  BY <1>4 DEF OrderInv, Routed, Ordered, QueueIndex, RoutingName
<1>6. Newer'
  <2> SUFFICES ASSUME NEW j \in Threads
               PROVE  /\ pc'[j] \in Pending => last_perf'[ServerId(received[cur[j]])] < cur[j]
                      /\ \A p \in 1 .. Len(queue_[j]) :
                           last_perf'[ServerId(received[queue_[j][p]])] < queue_[j][p]
    BY <1>4 DEF Newer, HostName
  <2>1. ASSUME pc'[j] \in Pending
        PROVE  last_perf'[ServerId(received[cur[j]])] < cur[j]
    <3>1. j # i /\ pc[j] \in Pending
      BY <1>4, <2>1 DEF Pending
    <3>2. ServerId(received[cur[j]]) \in Ids /\ QueueIndex(received[cur[j]]) = j
      BY <1>3, <3>1, Received DEF OrderInv, Routed
    <3>3. ServerId(received[cur[j]]) # id
      BY <1>2, <1>3, <3>1, <3>2
    <3> QED
      BY <1>4, <3>1, <3>2, <3>3 DEF OrderInv, Newer, HostName
  <2>2. ASSUME NEW p \in 1 .. Len(queue_[j])
        PROVE  last_perf'[ServerId(received[queue_[j][p]])] < queue_[j][p]
    <3>1. ServerId(received[queue_[j][p]]) \in Ids /\ QueueIndex(received[queue_[j][p]]) = j
      BY <1>3, Received DEF OrderInv, Routed
    <3>2. CASE ServerId(received[queue_[j][p]]) = id
      <4>1. j = i
        BY <1>2, <1>3, <3>1, <3>2
      <4>2. cur[i] < queue_[j][p]
        BY <4>1 DEF OrderInv, Ordered
      <4> QED
        BY <1>1, <1>4, <3>2, <4>2
    <3>3. CASE ServerId(received[queue_[j][p]]) # id
      BY <1>4, <3>1, <3>3 DEF OrderInv, Newer
    <3> QED
      BY <3>2, <3>3
  <2> QED
    BY <2>1, <2>2
<1>7. Accounted'
  <2>1. \A x \in Ids : last_perf'[x] <= Len(received')
    BY <1>1, <1>4 DEF OrderInv, Accounted
  <2>2. ASSUME NEW m \in 1 .. Len(received)
        PROVE  m <= last_perf'[ServerId(received[m])] \/ Waits(m)'
    <3>1. ServerId(received[m]) \in Ids /\ QueueIndex(received[m]) \in Threads
      BY Received
    <3>2. last_perf[ServerId(received[m])] \in Nat
      BY <3>1 DEF TypeInv, TypeOK, TypeHistories, Samples
    <3>3. CASE m <= last_perf[ServerId(received[m])]
      BY <1>1, <1>4, <3>1, <3>2, <3>3
    <3>4. CASE Waits(m) /\ ~(cur[i] = m)
      BY <1>4, <3>1, <3>4 DEF Waits, QueueIndex, RoutingName
    <3>5. CASE cur[i] = m
      BY <1>1, <1>4, <3>5
    <3> QED
      BY <3>3, <3>4, <3>5 DEF OrderInv, Accounted
  <2> QED
    BY <1>4, <2>1, <2>2 DEF Accounted
<1> QED
  BY <1>5, <1>6, <1>7 DEF OrderInv

(* The other steps leave the reports and the histories alone, and do not   *)
(* make a pending report less or more pending.                             *)
LEMMA OtherStepsQuiet ==
  ASSUME TypeInv, [Next]_vars,
         ~(\E r \in Reports : OnDataReceived(r)),
         ~(\E i \in Threads : Pop(i)),
         ~(\E i \in Threads : SaveLast(i) /\ ~Crash)
  PROVE  /\ UNCHANGED <<received, queue_, last_perf>>
         /\ \A i \in Threads : pc'[i] \in Pending <=> pc[i] \in Pending
         /\ \A i \in Threads : cur'[i] = cur[i] \/ (cur'[i] = 0 /\ pc[i] \notin Pending)
<1> USE DEF TypeInv, TypeOK, TypeConsumers, Pending
<1>1. CASE UNCHANGED vars \/ Terminated \/ Cleaner \/ Time
  BY <1>1 DEF vars, queueVars, consVars, perfVars, Terminated, Cleaner, Time,
     CleanTest, CleanWake, CleanScan, Tick
<1>2. CASE Main \/ Stop
  <2>1. CASE CtorSpawn
    <3>1. k \in Threads /\ pc[k] = "none" /\ pc' = [pc EXCEPT ![k] = "fetch"]
      BY <2>1 DEF CtorSpawn, InFlight, TypeMain, Threads
    <3> QED
      BY <2>1, <3>1 DEF CtorSpawn, queueVars, perfVars
  <2> QED
    BY <1>2, <2>1 DEF Main, CtorPush, Start, Stop, StopQueue, Join, queueVars, consVars, perfVars
<1>3. CASE Crash
  BY <1>3 DEF Crash, queueVars, consVars, perfVars
<1>4. ASSUME NEW i \in Threads, ~Crash,
             FetchQueue(i) \/ TestRunning(i) \/ TakeSnapshot(i) \/ ReadLast(i) \/ UpdateScore(i)
      PROVE  /\ UNCHANGED <<received, queue_, last_perf, cur>>
             /\ \A j \in Threads : pc'[j] \in Pending <=> pc[j] \in Pending
  BY <1>4 DEF FetchQueue, TestRunning, TakeSnapshot, ReadLast, UpdateScore, Goto,
     queueVars, perfVars
<1>5. ASSUME NEW i \in Threads, ~Crash, Connect(i) \/ WriteMain(i) \/ WritesSection(i)
      PROVE  /\ UNCHANGED <<received, queue_, last_perf>>
             /\ \A j \in Threads : pc'[j] \in Pending <=> pc[j] \in Pending
             /\ \A j \in Threads : cur'[j] = cur[j] \/ (cur'[j] = 0 /\ pc[j] \notin Pending)
  <2>1. pc[i] \in {"connect", "insert"} \cup Sections
    BY <1>5, DetailStep DEF Connect, WriteMain, WritesSection
  <2>2. Finish(i) \/ \E l \in {"insert"} \cup Sections : Goto(i, l) /\ UNCHANGED <<cur, base, now>>
    BY <1>5, DetailStep, GoesOn DEF Connect, WriteMain, WritesSection
  <2>3. UNCHANGED <<received, queue_, last_perf>>
    BY <1>5, DetailStep DEF Connect, WriteMain, WritesSection, queueVars, perfVars
  <2> QED
    BY <2>1, <2>2, <2>3 DEF Goto, Finish, Sections
<1> QED
  BY <1>1, <1>2, <1>3, <1>4, <1>5 DEF Next, Environment, Consumer, WritesSection

LEMMA NextKeepsOrder == TypeInv /\ OrderInv /\ [Next]_vars => OrderInv'
<1> SUFFICES ASSUME TypeInv, OrderInv, [Next]_vars
             PROVE  OrderInv'
  OBVIOUS
<1>1. CASE \E r \in Reports : OnDataReceived(r)
  BY <1>1, ReceiveKeepsOrder
<1>2. CASE \E i \in Threads : Pop(i)
  BY <1>2, PopKeepsOrder
<1>3. CASE \E i \in Threads : SaveLast(i) /\ ~Crash
  BY <1>3, SaveKeepsOrder
<1>4. TypeInv'
  BY NextKeepsType
<1> QED
  BY <1>1, <1>2, <1>3, <1>4, OtherStepsQuiet, QuietKeepsOrder

(* A step of the pipeline is a step of the history, or changes nothing     *)
(* that the history shows.                                                 *)
LEMMA StepRefines ==
  TypeInv /\ OrderInv /\ [Next]_vars => [History!Next]_(History!vars)
<1> SUFFICES ASSUME TypeInv, OrderInv, [Next]_vars
             PROVE  [History!Next]_(History!vars)
  OBVIOUS
<1>1. ASSUME NEW r \in Reports, OnDataReceived(r)
      PROVE  History!Receive(r)
  BY <1>1 DEF OnDataReceived, History!Receive, perfVars
<1>2. ASSUME NEW i \in Threads, Pop(i)
      PROVE  UNCHANGED <<received, last_perf>>
  BY <1>2 DEF Pop, perfVars
<1>3. ASSUME NEW i \in Threads, SaveLast(i), ~Crash
      PROVE  HostName(i) \in Ids /\ History!Handle(HostName(i))
  BY <1>3, SaveStep, SaveIsNext DEF History!Handle
<1> QED
  BY <1>1, <1>2, <1>3, OtherStepsQuiet DEF History!Next, History!vars

(* The pipeline implements HostHistory: the reports of one server are      *)
(* handled one after the other in the order of their reception, and none   *)
(* is skipped (OnDataReceived, SafeQueue, ConsumeMessage and ProcessData   *)
(* taken together).                                                        *)
THEOREM HistoryCorrect == Spec => ImplementsHistory
<1>1. Init => History!Init
  BY DEF Init, History!Init
<1> QED
  BY <1>1, InitTypeInv, InitOrderInv, NextKeepsType, NextKeepsOrder, StepRefines, PTL
  DEF Spec, ImplementsHistory, History!Spec
=============================================================================
