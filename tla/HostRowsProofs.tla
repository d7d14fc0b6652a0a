--------------------------- MODULE HostRowsProofs ---------------------------
(***************************************************************************)
(* What HostManager makes of the reports, proved for any number of threads *)
(* and servers and any hash function: the rows of server_performance, the  *)
(* bases of their rates, the histories of details, and the live table.     *)
(*                                                                         *)
(* All of it rests on one fact: a server's reports are in the hands of one *)
(* consumer, one at a time, and in order (HostManagerProofs).              *)
(***************************************************************************)
EXTENDS HostManagerProofs

(* The labels at which the report in hand is its server's history.         *)
Saved == {"publish", "connect", "insert"} \cup Sections

(* The labels at which a row for the report in hand may still be inserted. *)
Unwritten == {"publish", "connect", "insert"}

(* Two consumers never hold reports of one server.                         *)
LEMMA OneConsumer ==
  ASSUME TypeInv, OrderInv, NEW i \in Threads, NEW j \in Threads,
         pc[i] \in Busy, pc[j] \in Busy, HostName(i) = HostName(j)
  PROVE  i = j
<1>1. /\ received[cur[i]] \in Reports /\ received[cur[j]] \in Reports
      /\ cur[i] # 0 /\ cur[j] # 0
  BY InHand
<1>2. QueueIndex(received[cur[i]]) = i /\ QueueIndex(received[cur[j]]) = j
  BY <1>1 DEF OrderInv, Routed
<1> QED
  BY <1>1, <1>2, SameServerSameQueue DEF HostName

(* Reports are only added, so a report in hand keeps its server.           *)
LEMMA ReceivedStays ==
  ASSUME TypeInv, [Next]_vars, NEW m \in 1 .. Len(received)
  PROVE  /\ received'[m] = received[m] /\ m \in 1 .. Len(received')
         /\ ServerId(received[m])' = ServerId(received[m])
<1>1. CASE \E r \in Reports : OnDataReceived(r)
  <2>1. PICK r \in Reports : received' = Append(received, r)
    BY <1>1 DEF OnDataReceived
  <2>2. received'[m] = received[m] /\ Len(received') = Len(received) + 1 /\ Len(received) \in Nat
    BY <2>1, AppendProperties, LenProperties DEF TypeInv, TypeOK, TypeQueues
  <2> QED
    BY <2>2
<1>2. CASE ~(\E r \in Reports : OnDataReceived(r))
  <2>1. received' = received
    <3>1. CASE \E i \in Threads : Pop(i)
      BY <3>1 DEF Pop
    <3>2. CASE \E i \in Threads : SaveLast(i) /\ ~Crash
      BY <3>2, SaveStep
    <3> QED
      BY <1>2, <3>1, <3>2, OtherStepsQuiet
  <2> QED
    BY <2>1
<1> QED
  BY <1>1, <1>2

(* How the labels, reports and bases of the consumers move.                *)
Stays(j) == pc'[j] = pc[j] /\ cur'[j] = cur[j] /\ base'[j] = base[j]

Moves(j) ==
  \/ Stays(j)
  \/ pc'[j] \notin Busy
  \/ pc'[j] = "stamp"
  \/ pc[j] = "stamp" /\ pc'[j] = "last" /\ cur'[j] = cur[j]
  \/ /\ pc[j] = "last" /\ pc'[j] = "save" /\ cur'[j] = cur[j]
     /\ last_perf' = last_perf
     /\ <<"perf", ShardIndex(HostName(j))>> \notin raced' => base'[j] = last_perf[HostName(j)]
  \/ /\ pc[j] = "save" /\ pc'[j] = "publish" /\ cur'[j] = cur[j] /\ base'[j] = base[j]
     /\ last_perf' = [last_perf EXCEPT ![HostName(j)] = cur[j]]
  \/ /\ \/ <<pc[j], pc'[j]>> \in {<<"publish", "connect">>, <<"connect", "insert">>}
        \/ pc[j] \in {"insert"} \cup Sections /\ pc'[j] \in Sections
     /\ cur'[j] = cur[j] /\ base'[j] = base[j]

LEMMA EveryoneMoves ==
  ASSUME TypeInv, [Next]_vars, NEW j \in Threads
  PROVE  Moves(j)
<1> USE DEF TypeInv, TypeOK, TypeConsumers
<1>1. CASE UNCHANGED vars \/ Terminated \/ Cleaner \/ Time \/ Environment \/ Crash
  BY <1>1 DEF vars, consVars, Terminated, Cleaner, Time, CleanTest, CleanWake, CleanScan, Tick,
     Environment, Stop, OnDataReceived, Crash, Moves, Stays
<1>2. CASE Main
  <2>1. CASE CtorSpawn
    BY <2>1 DEF CtorSpawn, Moves, Stays, Busy, Sections
  <2> QED
    BY <1>2, <2>1 DEF Main, CtorPush, Start, StopQueue, Join, consVars, Moves, Stays
<1>3. ASSUME NEW i \in Threads, Consumer(i), ~Crash
      PROVE  Moves(j)
  <2>1. CASE i # j
    <3>1. CASE WritesSection(i) \/ WriteMain(i)
      BY <1>3, <2>1, <3>1, DetailStep, GoesOn DEF WriteMain, WritesSection, Goto, Finish, Moves, Stays
    <3>2. CASE ~WritesSection(i) /\ ~WriteMain(i)
      BY <1>3, <2>1, <3>2 DEF Consumer, FetchQueue, TestRunning, Pop, TakeSnapshot, ReadLast,
         SaveLast, UpdateScore, Connect, WritesSection, Goto, Finish, Moves, Stays
    <3> QED
      BY <3>1, <3>2
  <2>2. CASE i = j
    <3>1. CASE ReadLast(j)
      BY <1>3, <3>1 DEF ReadLast, Goto, perfVars, Corrupt, Moves
    <3>2. CASE FetchQueue(j) \/ TestRunning(j) \/ Pop(j) \/ TakeSnapshot(j)
      BY <1>3, <3>2 DEF FetchQueue, TestRunning, Pop, TakeSnapshot, Goto, Moves, Busy, Sections
    <3>3. CASE SaveLast(j) \/ UpdateScore(j) \/ Connect(j)
      BY <1>3, <3>3 DEF SaveLast, UpdateScore, Connect, Goto, Finish, Moves, Busy, Sections
    <3>4. CASE WriteMain(j) \/ WritesSection(j)
      <4>1. pc[j] \in {"insert"} \cup Sections
        BY <1>3, <3>4, DetailStep DEF WriteMain, WritesSection
      <4>2. Finish(j) \/ \E l \in Sections : Goto(j, l) /\ UNCHANGED <<cur, base, now>>
        BY <1>3, <3>4, DetailStep, GoesOn DEF WriteMain, WritesSection
      <4>3. CASE Finish(j)
        BY <4>3 DEF Finish, Moves, Busy, Sections
      <4> QED
        BY <4>1, <4>2, <4>3 DEF Goto, Moves
    <3> QED
      BY <1>3, <2>2, <3>1, <3>2, <3>3, <3>4 DEF Consumer, WritesSection
  <2> QED
    BY <2>1, <2>2
<1> QED
  BY <1>1, <1>2, <1>3 DEF Next

(* Who keeps a report in hand keeps its server.                            *)
LEMMA KeepsHost ==
  ASSUME TypeInv, [Next]_vars, NEW j \in Threads, pc'[j] \in Busy \ {"stamp"}
  PROVE  pc[j] \in Busy /\ cur'[j] = cur[j] /\ HostName(j)' = HostName(j)
<1>1. pc[j] \in Busy /\ cur'[j] = cur[j]
  BY EveryoneMoves DEF Moves, Stays, Busy, Sections
<1>2. cur[j] \in 1 .. Len(received)
  BY <1>1, InHand
<1> QED
  BY <1>1, <1>2, ReceivedStays DEF HostName

(* Who changes the history of reports, and who the rows.                   *)
LEMMA HistoryMoves ==
  ASSUME TypeInv, [Next]_vars
  PROVE  \/ last_perf' = last_perf
         \/ \E i \in Threads : pc[i] = "save" /\ SaveLast(i) /\ ~Crash
<1>1. CASE \E i \in Threads : SaveLast(i) /\ ~Crash
  BY <1>1 DEF SaveLast
<1>2. CASE \E r \in Reports : OnDataReceived(r)
  BY <1>2 DEF OnDataReceived, perfVars
<1>3. CASE \E i \in Threads : Pop(i)
  BY <1>3 DEF Pop, perfVars
<1> QED
  BY <1>1, <1>2, <1>3, OtherStepsQuiet

Writes(i) ==
  /\ pc[i] = "insert" /\ pc'[i] \notin Unwritten
  /\ perf_rows' = [perf_rows EXCEPT ![HostName(i)] = Append(@, [n |-> cur[i], base |-> base[i]])]
  /\ last_perf' = last_perf /\ raced' = raced /\ received' = received

LEMMA RowsMove ==
  ASSUME TypeInv, [Next]_vars
  PROVE  perf_rows' = perf_rows \/ \E i \in Threads : Writes(i)
<1> USE DEF dbVars
<1>1. CASE UNCHANGED vars \/ Terminated \/ Cleaner \/ Time \/ Environment \/ Crash \/ Main
  BY <1>1 DEF vars, Terminated, Cleaner, Time, CleanTest, CleanWake, CleanScan, Tick,
     Environment, Stop, OnDataReceived, Crash, Main, CtorPush, CtorSpawn, Start, StopQueue, Join
<1>2. ASSUME NEW i \in Threads, Consumer(i), ~Crash
      PROVE  perf_rows' = perf_rows \/ Writes(i)
  <2>1. CASE WriteMain(i)
    <3>1. pc'[i] \notin Unwritten
      BY <2>1, GoesOn DEF WriteMain, Goto, Finish, Unwritten, Sections, TypeInv, TypeOK, TypeConsumers
    <3> QED
      BY <2>1, <3>1 DEF WriteMain, Insert, Writes, perfVars, raceVars, queueVars
  <2>2. CASE WritesSection(i)
    BY <1>2, <2>2, DetailStep DEF WritesSection
  <2> QED
    BY <1>2, <2>1, <2>2 DEF Consumer, FetchQueue, TestRunning, Pop, TakeSnapshot, ReadLast, SaveLast,
       UpdateScore, Connect, WritesSection
<1> QED
  BY <1>1, <1>2 DEF Next

(* A history only moves forward, and only under the consumer that has the  *)
(* next report of the server in hand.                                      *)
LEMMA HistoryForward ==
  ASSUME TypeInv, OrderInv, [Next]_vars, NEW id \in Ids
  PROVE  /\ last_perf'[id] >= last_perf[id]
         /\ last_perf[id] \in Nat /\ last_perf'[id] \in Nat
         /\ \/ last_perf'[id] = last_perf[id]
            \/ \E i \in Threads : pc[i] = "save" /\ HostName(i) = id /\ last_perf'[id] = cur[i]
<1>1. last_perf[id] \in Nat
  BY DEF TypeInv, TypeOK, TypeHistories, Samples
<1>2. CASE last_perf' = last_perf
  BY <1>1, <1>2
<1>3. ASSUME NEW i \in Threads, pc[i] = "save", SaveLast(i), ~Crash
      PROVE  /\ last_perf'[id] = IF id = HostName(i) THEN cur[i] ELSE last_perf[id]
             /\ last_perf[HostName(i)] < cur[i] /\ cur[i] \in Nat
  <2>1. last_perf[HostName(i)] < cur[i] /\ cur[i] \in Nat
    BY <1>3 DEF OrderInv, Newer, Pending, TypeInv, TypeOK, TypeConsumers, Samples
  <2> QED
    BY <1>3, <2>1, SaveStep
<1> QED
  BY <1>1, <1>2, <1>3, HistoryMoves

(* A server's rows grow only by the one that a consumer adds for it.       *)
LEMMA WhoseRows ==
  ASSUME TypeInv, [Next]_vars, NEW id \in Ids
  PROVE  perf_rows'[id] = perf_rows[id] \/ \E i \in Threads : Writes(i) /\ HostName(i) = id
<1>1. ASSUME NEW i \in Threads, Writes(i), HostName(i) # id
      PROVE  perf_rows'[id] = perf_rows[id]
  BY <1>1 DEF Writes, TypeInv, TypeOK, TypeHistories
<1> QED
  BY <1>1, RowsMove

LEMMA RowsGrow ==
  ASSUME TypeInv, NEW id \in Ids, NEW i \in Threads, Writes(i), HostName(i) = id
  PROVE  /\ Len(perf_rows[id]) \in Nat
         /\ Len(perf_rows'[id]) = Len(perf_rows[id]) + 1
         /\ \A p \in 1 .. Len(perf_rows[id]) : perf_rows'[id][p] = perf_rows[id][p]
         /\ perf_rows'[id][Len(perf_rows[id]) + 1] = [n |-> cur[i], base |-> base[i]]
<1> DEFINE row == [n |-> cur[i], base |-> base[i]]
<1>1. perf_rows[id] \in Seq(Rows)
  BY DEF TypeInv, TypeOK, TypeHistories
<1>2. row \in Rows
  BY DEF Rows, TypeInv, TypeOK, TypeConsumers
<1>3. perf_rows'[id] = Append(perf_rows[id], row)
  BY DEF Writes, TypeInv, TypeOK, TypeHistories
<1> HIDE DEF row
<1>4. /\ Len(perf_rows[id]) \in Nat
      /\ Len(perf_rows'[id]) = Len(perf_rows[id]) + 1
      /\ \A p \in 1 .. Len(perf_rows[id]) : perf_rows'[id][p] = perf_rows[id][p]
      /\ perf_rows'[id][Len(perf_rows[id]) + 1] = row
  BY <1>1, <1>2, <1>3, AppendProperties, LenProperties
<1> QED
  BY <1>4 DEF row

LEMMA RowIsRow ==
  ASSUME TypeInv, NEW id \in Ids, NEW p \in 1 .. Len(perf_rows[id])
  PROVE  perf_rows[id][p] \in Rows /\ perf_rows[id][p].n \in Nat
<1>1. perf_rows[id] \in Seq(Rows)
  BY DEF TypeInv, TypeOK, TypeHistories
<1>2. perf_rows[id][p] \in Rows
  BY <1>1, ElementOfSeq
<1> QED
  BY <1>2 DEF Rows, Samples
----------------------------------------------------------------------------
(* Once SaveLast is done, the report in hand is the last of its server.    *)
SavedInv ==
  \A i \in Threads : pc[i] \in Saved => last_perf[HostName(i)] = cur[i]

(* The rows of a server are of reports in its history, and not of one that *)
(* is still to be written.                                                 *)
WrittenInv ==
  /\ \A id \in Ids : \A p \in 1 .. Len(perf_rows[id]) : perf_rows[id][p].n <= last_perf[id]
  /\ \A i \in Threads : pc[i] \in Unwritten =>
       \A p \in 1 .. Len(perf_rows[HostName(i)]) : perf_rows[HostName(i)][p].n < cur[i]

LEMMA SavedStep ==
  ASSUME TypeInv, OrderInv, SavedInv, [Next]_vars
  PROVE  SavedInv'
<1> SUFFICES ASSUME NEW j \in Threads, pc'[j] \in Saved
             PROVE  last_perf'[HostName(j)'] = cur'[j]
  BY DEF SavedInv
<1>1. pc[j] \in Busy /\ cur'[j] = cur[j] /\ HostName(j)' = HostName(j)
  BY KeepsHost DEF Saved, Sections, Busy
<1>2. HostName(j) \in Ids
  BY <1>1, InHand
<1>3. CASE pc[j] = "save"
  <2>1. last_perf' = [last_perf EXCEPT ![HostName(j)] = cur[j]]
    BY <1>3, EveryoneMoves DEF Moves, Stays, Saved, Sections, Busy
  <2> QED
    BY <1>1, <1>2, <2>1 DEF TypeInv, TypeOK, TypeHistories
<1>4. CASE pc[j] \in Saved
  <2>1. last_perf[HostName(j)] = cur[j]
    BY <1>4 DEF SavedInv
  <2>2. last_perf'[HostName(j)] = last_perf[HostName(j)]
    <3> SUFFICES ASSUME NEW i \in Threads, pc[i] = "save", HostName(i) = HostName(j)
                 PROVE  FALSE
      BY <1>2, HistoryForward
    <3> QED
      BY <1>1, <1>4, OneConsumer DEF Busy, Sections, Saved
  <2> QED
    BY <1>1, <2>1, <2>2
<1> QED
  BY <1>3, <1>4, EveryoneMoves DEF Moves, Stays, Saved, Sections, Busy

LEMMA WrittenStep ==
  ASSUME TypeInv, OrderInv, SavedInv, WrittenInv, [Next]_vars
  PROVE  WrittenInv'
<1>1. \A id \in Ids : /\ last_perf'[id] >= last_perf[id]
                      /\ last_perf[id] \in Nat /\ last_perf'[id] \in Nat
  BY HistoryForward
<1>2. \A id \in Ids : \A p \in 1 .. Len(perf_rows[id]) : perf_rows[id][p].n \in Nat
  BY RowIsRow
<1>3. ASSUME NEW id \in Ids, NEW p \in 1 .. Len(perf_rows'[id])
      PROVE  perf_rows'[id][p].n <= last_perf'[id]
  <2>1. CASE perf_rows'[id] = perf_rows[id]
    BY <1>1, <1>2, <1>3, <2>1 DEF WrittenInv
  <2>2. ASSUME NEW i \in Threads, Writes(i), HostName(i) = id
        PROVE  perf_rows'[id][p].n <= last_perf'[id]
    <3>1. /\ Len(perf_rows[id]) \in Nat
          /\ Len(perf_rows'[id]) = Len(perf_rows[id]) + 1
          /\ \A q \in 1 .. Len(perf_rows[id]) : perf_rows'[id][q] = perf_rows[id][q]
          /\ perf_rows'[id][Len(perf_rows[id]) + 1] = [n |-> cur[i], base |-> base[i]]
      BY <2>2, RowsGrow
    <3>2. CASE p \in 1 .. Len(perf_rows[id])
      BY <1>1, <1>2, <3>1, <3>2 DEF WrittenInv
    <3>3. CASE p = Len(perf_rows[id]) + 1
      <4>1. perf_rows'[id][p].n = cur[i]
        BY <3>1, <3>3
      <4>2. last_perf'[id] = cur[i]
        BY <2>2 DEF SavedInv, Writes, Saved, Sections
      <4> QED
        BY <1>1, <4>1, <4>2
    <3> QED
      BY <1>3, <3>1, <3>2, <3>3
  <2> QED
    BY <2>1, <2>2, WhoseRows
<1>4. ASSUME NEW j \in Threads, pc'[j] \in Unwritten,
             NEW p \in 1 .. Len(perf_rows'[HostName(j)'])
      PROVE  perf_rows'[HostName(j)'][p].n < cur'[j]
  <2>1. pc[j] \in Busy /\ cur'[j] = cur[j] /\ HostName(j)' = HostName(j)
    BY <1>4, KeepsHost DEF Unwritten, Busy, Sections
  <2>2. HostName(j) \in Ids /\ cur[j] \in Nat
    BY <2>1, InHand
  <2>3. perf_rows'[HostName(j)] = perf_rows[HostName(j)]
    <3> SUFFICES ASSUME NEW i \in Threads, Writes(i), HostName(i) = HostName(j)
                 PROVE  FALSE
      BY <2>2, WhoseRows
    <3>1. i = j
      BY <2>1, OneConsumer DEF Writes, Busy, Sections
    <3> QED
      BY <1>4, <3>1 DEF Writes, Unwritten
  <2>4. CASE pc[j] \in Unwritten
    BY <1>4, <2>1, <2>3, <2>4 DEF WrittenInv
  <2>5. CASE pc[j] = "save"
    <3>1. last_perf[HostName(j)] < cur[j]
      BY <2>5 DEF OrderInv, Newer, Pending
    <3> QED
      BY <1>1, <1>2, <1>4, <2>1, <2>2, <2>3, <3>1 DEF WrittenInv
  <2> QED
    BY <1>4, <2>4, <2>5, EveryoneMoves DEF Moves, Stays, Unwritten, Busy, Sections
<1> QED
  BY <1>3, <1>4 DEF WrittenInv

LEMMA RowsStep ==
  ASSUME TypeInv, OrderInv, WrittenInv, RowsInOrder, [Next]_vars
  PROVE  RowsInOrder'
<1> SUFFICES ASSUME NEW id \in Ids,
                    NEW p \in 1 .. Len(perf_rows'[id]), NEW q \in 1 .. Len(perf_rows'[id]), p < q
             PROVE  perf_rows'[id][p].n < perf_rows'[id][q].n
  BY DEF RowsInOrder
<1>1. CASE perf_rows'[id] = perf_rows[id]
  BY <1>1 DEF RowsInOrder
<1>2. ASSUME NEW i \in Threads, Writes(i), HostName(i) = id
      PROVE  perf_rows'[id][p].n < perf_rows'[id][q].n
  <2>1. /\ Len(perf_rows[id]) \in Nat /\ Len(perf_rows'[id]) = Len(perf_rows[id]) + 1
        /\ \A r \in 1 .. Len(perf_rows[id]) : perf_rows'[id][r] = perf_rows[id][r]
        /\ perf_rows'[id][Len(perf_rows[id]) + 1] = [n |-> cur[i], base |-> base[i]]
    BY <1>2, RowsGrow
  <2>2. p \in 1 .. Len(perf_rows[id])
    BY <2>1
  <2>3. CASE q \in 1 .. Len(perf_rows[id])
    BY <2>1, <2>2, <2>3 DEF RowsInOrder
  <2>4. CASE q = Len(perf_rows[id]) + 1
    <3>1. perf_rows[id][p].n < cur[i]
      BY <1>2, <2>2 DEF WrittenInv, Writes, Unwritten
    <3> QED
      BY <2>1, <2>2, <2>4, <3>1
  <2> QED
    BY <2>1, <2>3, <2>4
<1> QED
  BY <1>1, <1>2, WhoseRows

(* Every server's rows are in the order of its reports, and none is there  *)
(* twice, whatever connections and inserts fail (ProcessData and           *)
(* WriteToMysql).                                                          *)
THEOREM RowsCorrect == Spec => []RowsInOrder
<1>1. Init => SavedInv /\ WrittenInv /\ RowsInOrder
  BY EmptySeq DEF Init, SavedInv, Saved, Sections, WrittenInv, Unwritten, RowsInOrder
<1> QED
  BY <1>1, InitTypeInv, InitOrderInv, NextKeepsType, NextKeepsOrder, SavedStep, WrittenStep,
     RowsStep, PTL DEF Spec
----------------------------------------------------------------------------
(* Who changes the live table.                                             *)
LEMMA ScoreMoves ==
  ASSUME TypeInv, [Next]_vars, NEW id \in Ids
  PROVE  \/ host_scores_'[id] = host_scores_[id]
         \/ host_scores_'[id] = 0
         \/ \E i \in Threads : /\ pc[i] = "publish" /\ HostName(i) = id
                               /\ host_scores_'[id] = cur[i]
<1> USE DEF scoreVars
<1>1. CASE UNCHANGED vars \/ Terminated \/ Time \/ Environment \/ Crash \/ Main
  BY <1>1 DEF vars, Terminated, Time, Tick, Environment, Stop, OnDataReceived, Crash, Main,
     CtorPush, CtorSpawn, Start, StopQueue, Join
<1>2. CASE Cleaner
  BY <1>2 DEF Cleaner, CleanTest, CleanWake, CleanScan
<1>3. ASSUME NEW i \in Threads, UpdateScore(i)
      PROVE  host_scores_'[id] = host_scores_[id] \/
             (pc[i] = "publish" /\ HostName(i) = id /\ host_scores_'[id] = cur[i])
  BY <1>3 DEF UpdateScore, TypeInv, TypeOK, TypeScores
<1>4. ASSUME NEW i \in Threads, Consumer(i), ~Crash, ~UpdateScore(i)
      PROVE  host_scores_' = host_scores_
  BY <1>4, DetailStep DEF Consumer, FetchQueue, TestRunning, Pop, TakeSnapshot, ReadLast, SaveLast,
     Connect, WriteMain
<1> QED
  BY <1>1, <1>2, <1>3, <1>4 DEF Next

(* The report shown for a server is in its history.                        *)
ShownInv == \A id \in Ids : host_scores_[id] <= last_perf[id]

(* What a consumer is about to show is the last report in the history.     *)
LEMMA ScoreForward ==
  ASSUME TypeInv, SavedInv, ShownInv, [Next]_vars, NEW id \in Ids
  PROVE  /\ host_scores_'[id] # 0 => host_scores_'[id] >= host_scores_[id]
         /\ host_scores_'[id] <= last_perf[id]
<1>1. /\ host_scores_[id] \in Nat /\ last_perf[id] \in Nat
      /\ host_scores_[id] <= last_perf[id]
  BY DEF ShownInv, TypeInv, TypeOK, TypeScores, TypeHistories, Samples
<1>2. ASSUME NEW i \in Threads, pc[i] = "publish", HostName(i) = id, host_scores_'[id] = cur[i]
      PROVE  host_scores_'[id] = last_perf[id]
  BY <1>2 DEF SavedInv, Saved, Sections
<1> QED
  BY <1>1, <1>2, ScoreMoves

LEMMA ShownStep ==
  ASSUME TypeInv, TypeInv', OrderInv, SavedInv, ShownInv, [Next]_vars
  PROVE  ShownInv'
<1> SUFFICES ASSUME NEW id \in Ids
             PROVE  host_scores_'[id] <= last_perf'[id]
  BY DEF ShownInv
<1>1. host_scores_'[id] \in Nat
  BY DEF TypeInv, TypeOK, TypeScores, Samples
<1> QED
  BY <1>1, ScoreForward, HistoryForward

(* The entry of a server in the live table is replaced by a newer report   *)
(* or removed, never by an older one (ProcessData and ProcessLoop).        *)
THEOREM ScoreCorrect == Spec => ScoreNeverGoesBack
<1>1. Init => SavedInv /\ ShownInv
  BY TimeAssumption DEF Init, SavedInv, Saved, Sections, ShownInv
<1>2. TypeInv /\ SavedInv /\ ShownInv /\ [Next]_vars =>
        [\A id \in Ids : host_scores_'[id] # 0 => host_scores_'[id] >= host_scores_[id]]_vars
  BY ScoreForward
<1> QED
  BY <1>1, <1>2, InitTypeInv, InitOrderInv, NextKeepsType, NextKeepsOrder, SavedStep, ShownStep,
     PTL DEF Spec, ScoreNeverGoesBack
----------------------------------------------------------------------------
(* A shard that was raced on stays so.                                     *)
LEMMA RacedStays ==
  ASSUME [Next]_vars
  PROVE  raced \subseteq raced'
<1> USE DEF raceVars
<1>1. CASE UNCHANGED vars \/ Terminated \/ Cleaner \/ Time \/ Environment \/ Crash \/ Main
  BY <1>1 DEF vars, Terminated, Cleaner, Time, CleanTest, CleanWake, CleanScan, Tick,
     Environment, Stop, OnDataReceived, Crash, Main, CtorPush, CtorSpawn, Start, StopQueue, Join
<1>2. ASSUME NEW i \in Threads, Consumer(i), ~Crash
      PROVE  raced \subseteq raced'
  <2>1. ASSUME NEW family, Access(i, family)
        PROVE  raced \subseteq raced'
    BY <2>1 DEF Access
  <2> QED
    BY <1>2, <2>1, DetailStep DEF Consumer, FetchQueue, TestRunning, Pop, TakeSnapshot, ReadLast,
       SaveLast, UpdateScore, Connect, WriteMain
<1> QED
  BY <1>1, <1>2 DEF Next

Unraced(id) == <<"perf", ShardIndex(id)>> \notin raced

(* A history holds a report of its server.                                 *)
OwnInv ==
  \A id \in Ids : last_perf[id] # 0 =>
    last_perf[id] \in 1 .. Len(received) /\ ServerId(received[last_perf[id]]) = id

(* What a consumer took as the previous report is the previous report.     *)
BaseInv ==
  \A i \in Threads : Unraced(HostName(i)) =>
    /\ pc[i] = "save" => base[i] = last_perf[HostName(i)]
    /\ pc[i] \in Unwritten => IsPrevious(HostName(i), cur[i], base[i])

LEMMA PreviousStays ==
  ASSUME TypeInv, [Next]_vars, NEW id, NEW n \in Nat, n <= Len(received), NEW b \in Nat,
         IsPrevious(id, n, b)
  PROVE  IsPrevious(id, n, b)'
<1>1. Len(received) \in Nat
  BY LenProperties DEF TypeInv, TypeOK, TypeQueues
<1>2. b < n /\ (b # 0 => b \in 1 .. Len(received))
  BY <1>1 DEF IsPrevious
<1>3. b # 0 => ServerId(received[b])' = id
  BY <1>2, ReceivedStays DEF IsPrevious
<1>4. ASSUME NEW m \in 1 .. n - 1, b < m
      PROVE  ServerId(received[m])' # id
  <2>1. m \in 1 .. Len(received)
    BY <1>1
  <2>2. ServerId(received[m]) # id
    BY <1>4 DEF IsPrevious
  <2> QED
    BY <2>1, <2>2, ReceivedStays
<1> QED
  BY <1>2, <1>3, <1>4 DEF IsPrevious

LEMMA PreviousKept ==
  ASSUME TypeInv, [Next]_vars, NEW j \in Threads, cur[j] \in 1 .. Len(received), base[j] \in Nat,
         IsPrevious(HostName(j), cur[j], base[j]),
         HostName(j)' = HostName(j), cur'[j] = cur[j], base'[j] = base[j]
  PROVE  IsPrevious(HostName(j), cur[j], base[j])'
<1>1. PICK id, n, b : id = HostName(j) /\ n = cur[j] /\ b = base[j]
  OBVIOUS
<1>2. n \in Nat /\ n <= Len(received) /\ b \in Nat /\ IsPrevious(id, n, b)
  BY <1>1, LenProperties DEF TypeInv, TypeOK, TypeQueues
<1>3. IsPrevious(id, n, b)'
  BY <1>2, PreviousStays
<1>4. HostName(j)' = id /\ cur'[j] = n /\ base'[j] = b
  BY <1>1
<1> QED
  BY <1>3, <1>4 DEF IsPrevious

LEMMA OwnStep ==
  ASSUME TypeInv, OrderInv, OwnInv, [Next]_vars
  PROVE  OwnInv'
<1> SUFFICES ASSUME NEW id \in Ids, last_perf'[id] # 0
             PROVE  /\ last_perf'[id] \in 1 .. Len(received')
                    /\ ServerId(received[last_perf[id]])' = id
  BY DEF OwnInv
<1>1. CASE last_perf'[id] = last_perf[id]
  <2>1. last_perf[id] \in 1 .. Len(received) /\ ServerId(received[last_perf[id]]) = id
    BY <1>1 DEF OwnInv
  <2> QED
    BY <1>1, <2>1, ReceivedStays
<1>2. ASSUME NEW i \in Threads, pc[i] = "save", HostName(i) = id, last_perf'[id] = cur[i]
      PROVE  /\ last_perf'[id] \in 1 .. Len(received')
             /\ ServerId(received[last_perf[id]])' = id
  <2>1. cur[i] \in 1 .. Len(received)
    BY <1>2, InHand DEF Busy, Sections
  <2> QED
    BY <1>2, <2>1, ReceivedStays DEF HostName
<1> QED
  BY <1>1, <1>2, HistoryForward

LEMMA BaseStep ==
  ASSUME TypeInv, OrderInv, OwnInv, BaseInv, [Next]_vars
  PROVE  BaseInv'
<1> SUFFICES ASSUME NEW j \in Threads, pc'[j] \in Unwritten \cup {"save"},
                    <<"perf", ShardIndex(HostName(j)')>> \notin raced'
             PROVE  /\ pc'[j] = "save" => base'[j] = last_perf'[HostName(j)']
                    /\ pc'[j] \in Unwritten => IsPrevious(HostName(j), cur[j], base[j])'
  BY DEF BaseInv, Unraced, ShardIndex
<1>1. pc[j] \in Busy /\ cur'[j] = cur[j] /\ HostName(j)' = HostName(j)
  BY KeepsHost DEF Unwritten, Busy, Sections
<1>2. Unraced(HostName(j))
  BY <1>1, RacedStays DEF Unraced
<1>3. HostName(j) \in Ids /\ cur[j] \in 1 .. Len(received) /\ base[j] \in Nat
  BY <1>1, InHand DEF TypeInv, TypeOK, TypeConsumers, Samples
<1>4. CASE pc[j] = "last" /\ pc'[j] = "save"
  BY <1>1, <1>4, EveryoneMoves DEF Moves, Stays, Unwritten, Busy, Sections
<1>5. CASE pc[j] = "save" /\ pc'[j] = "save"
  <2>1. base'[j] = base[j]
    BY <1>5, EveryoneMoves DEF Moves, Stays, Busy, Sections
  <2>2. last_perf'[HostName(j)] = last_perf[HostName(j)]
    <3> SUFFICES ASSUME NEW i \in Threads, pc[i] = "save", SaveLast(i), ~Crash,
                        HostName(i) = HostName(j)
                 PROVE  FALSE
      BY <1>3, HistoryMoves, SaveStep
    <3>1. i = j
      BY <1>5, OneConsumer DEF Busy, Sections
    <3> QED
      BY <1>5, <3>1, SaveStep
  <2> QED
    BY <1>1, <1>2, <1>5, <2>1, <2>2 DEF BaseInv, Unwritten
<1>6. CASE pc[j] = "save" /\ pc'[j] = "publish"
  <2>1. base'[j] = base[j]
    BY <1>6, EveryoneMoves DEF Moves, Stays, Busy, Sections
  <2>2. base[j] = last_perf[HostName(j)]
    BY <1>2, <1>6 DEF BaseInv
  <2>3. History!IsNext(HostName(j), cur[j])
    BY <1>6, SaveIsNext
  <2>4. IsPrevious(HostName(j), cur[j], base[j])
    <3>1. base[j] < cur[j]
      BY <1>3, <2>2, <2>3 DEF History!IsNext
    <3>2. base[j] # 0 => ServerId(received[base[j]]) = HostName(j)
      BY <1>3, <2>2 DEF OwnInv
    <3>3. ASSUME NEW m \in 1 .. cur[j] - 1, base[j] < m
          PROVE  ServerId(received[m]) # HostName(j)
      BY <1>3, <2>2, <2>3, <3>3 DEF History!IsNext
    <3> QED
      BY <3>1, <3>2, <3>3 DEF IsPrevious
  <2> QED
    BY <1>1, <1>3, <1>6, <2>1, <2>4, PreviousKept
<1>7. CASE pc[j] \in Unwritten
  <2>1. base'[j] = base[j] /\ pc'[j] \in Unwritten
    BY <1>7, EveryoneMoves DEF Moves, Stays, Unwritten, Busy, Sections
  <2>2. IsPrevious(HostName(j), cur[j], base[j])
    BY <1>2, <1>7 DEF BaseInv
  <2> QED
    BY <1>1, <1>3, <2>1, <2>2, PreviousKept DEF Unwritten
<1> QED
  BY <1>1, <1>4, <1>5, <1>6, <1>7, EveryoneMoves DEF Moves, Stays, Unwritten, Busy, Sections

LEMMA RateStep ==
  ASSUME TypeInv, OrderInv, WrittenInv, BaseInv, RateBaseIsPrevious, [Next]_vars
  PROVE  RateBaseIsPrevious'
<1> SUFFICES ASSUME NEW id \in Ids, <<"perf", ShardIndex(id)>> \notin raced',
                    NEW p \in 1 .. Len(perf_rows'[id])
             PROVE  IsPrevious(id, perf_rows[id][p].n, perf_rows[id][p].base)'
  BY DEF RateBaseIsPrevious, ShardIndex
<1>1. <<"perf", ShardIndex(id)>> \notin raced
  BY RacedStays
(* A row that stays, and one that is added.                                *)
<1>2. ASSUME p \in 1 .. Len(perf_rows[id]), perf_rows'[id][p] = perf_rows[id][p]
      PROVE  IsPrevious(id, perf_rows[id][p].n, perf_rows[id][p].base)'
  <2>1. PICK n, b : n = perf_rows[id][p].n /\ b = perf_rows[id][p].base
    OBVIOUS
  <2>2. n \in Nat /\ b \in Nat
    BY <1>2, <2>1, RowIsRow DEF Rows, Samples
  <2>3. n <= Len(received)
    <3>1. n <= last_perf[id] /\ last_perf[id] <= Len(received)
      BY <1>2, <2>1 DEF WrittenInv, OrderInv, Accounted
    <3>2. last_perf[id] \in Nat /\ Len(received) \in Nat
      BY LenProperties DEF TypeInv, TypeOK, TypeQueues, TypeHistories, Samples
    <3> QED
      BY <2>2, <3>1, <3>2
  <2>4. IsPrevious(id, n, b)
    BY <1>1, <1>2, <2>1 DEF RateBaseIsPrevious
  <2>5. IsPrevious(id, n, b)'
    BY <2>2, <2>3, <2>4, PreviousStays
  <2> QED
    BY <1>2, <2>1, <2>5 DEF IsPrevious
<1>3. ASSUME NEW i \in Threads, Writes(i), HostName(i) = id,
             perf_rows'[id][p] = [n |-> cur[i], base |-> base[i]]
      PROVE  IsPrevious(id, perf_rows[id][p].n, perf_rows[id][p].base)'
  <2>1. IsPrevious(id, cur[i], base[i])
    BY <1>1, <1>3 DEF BaseInv, Unraced, Writes, Unwritten
  <2>2. received' = received /\ perf_rows'[id][p].n = cur[i] /\ perf_rows'[id][p].base = base[i]
    BY <1>3 DEF Writes
  <2> QED
    BY <2>1, <2>2 DEF IsPrevious
<1>4. CASE perf_rows'[id] = perf_rows[id]
  BY <1>2, <1>4
<1>5. ASSUME NEW i \in Threads, Writes(i), HostName(i) = id
      PROVE  IsPrevious(id, perf_rows[id][p].n, perf_rows[id][p].base)'
  <2>1. /\ Len(perf_rows[id]) \in Nat
        /\ Len(perf_rows'[id]) = Len(perf_rows[id]) + 1
        /\ \A q \in 1 .. Len(perf_rows[id]) : perf_rows'[id][q] = perf_rows[id][q]
        /\ perf_rows'[id][Len(perf_rows[id]) + 1] = [n |-> cur[i], base |-> base[i]]
    BY <1>5, RowsGrow
  <2>2. CASE p \in 1 .. Len(perf_rows[id])
    BY <1>2, <2>1, <2>2
  <2>3. CASE p = Len(perf_rows[id]) + 1
    BY <1>3, <1>5, <2>1, <2>3
  <2> QED
    BY <2>1, <2>2, <2>3
<1> QED
  BY <1>4, <1>5, WhoseRows

(* The rates of a row are taken against the report received just before it *)
(* from the same server, whatever became of that report in the database,   *)
(* unless threads raced in the shard (ProcessData).                        *)
THEOREM RateBaseCorrect == Spec => []RateBaseIsPrevious
<1>1. Init => SavedInv /\ WrittenInv /\ OwnInv /\ BaseInv /\ RateBaseIsPrevious
  BY EmptySeq DEF Init, SavedInv, Saved, Sections, WrittenInv, Unwritten, OwnInv, BaseInv,
     RateBaseIsPrevious
<1> QED
  BY <1>1, InitTypeInv, InitOrderInv, NextKeepsType, NextKeepsOrder, SavedStep, WrittenStep,
     OwnStep, BaseStep, RateStep, PTL DEF Spec
----------------------------------------------------------------------------
(* What WriteToMysql leaves in the histories. The reports that reached the *)
(* database are in their servers' histories; the one in hand is among them *)
(* from WriteMain on, and newer than all of them before.                   *)
LoggedInv ==
  /\ \A n \in written : n \in 1 .. Len(received) /\ n <= last_perf[ServerId(received[n])]
  /\ \A i \in Threads : pc[i] \in Unwritten => \A n \in WrittenOf(HostName(i)) : n < cur[i]
  /\ \A i \in Threads : pc[i] \in Sections => cur[i] \in written

(* What a step does to the histories: nothing, or it is WriteMain or the   *)
(* end of a section.                                                       *)
Quiet ==
  /\ UNCHANGED <<last_detail, last_disk_util, written>>
  /\ \A j \in Threads : pc[j] \in Sections \/ pc'[j] \in Sections =>
       pc'[j] = pc[j] /\ cur'[j] = cur[j]

Logs(i) ==
  /\ pc[i] = "insert" /\ GoOn(i, 0)
  /\ last_disk_util' = [last_disk_util EXCEPT ![i][HostName(i)] = cur[i]]
  /\ written' = written \cup {cur[i]}
  /\ UNCHANGED <<received, last_perf, last_detail>>

Details(i, s) ==
  /\ pc[i] = SectionOrder[s] /\ GoOn(i, s)
  /\ last_detail' = [last_detail EXCEPT ![HostName(i)] = NewSamples(i, SectionOrder[s])]
  /\ UNCHANGED <<received, last_perf, last_disk_util, written>>

LEMMA DetailMoves ==
  ASSUME TypeInv, [Next]_vars
  PROVE  \/ Quiet
         \/ \E i \in Threads : Logs(i)
         \/ \E i \in Threads : \E s \in 1 .. 4 : Details(i, s)
<1> USE DEF dbVars, consVars, TypeInv, TypeOK, TypeConsumers
<1>1. CASE UNCHANGED vars \/ Terminated \/ Cleaner \/ Time \/ Environment \/ Crash
  BY <1>1 DEF vars, Terminated, Cleaner, Time, CleanTest, CleanWake, CleanScan, Tick,
     Environment, Stop, OnDataReceived, Crash, Quiet
<1>2. CASE Main
  <2>1. CASE CtorSpawn
    <3>1. k \in Threads /\ pc[k] = "none"
      BY <2>1 DEF CtorSpawn, InFlight, TypeMain, Threads
    <3> QED
      BY <2>1, <3>1 DEF CtorSpawn, Quiet, Sections
  <2> QED
    BY <1>2, <2>1 DEF Main, CtorPush, Start, StopQueue, Join, Quiet
<1>3. ASSUME NEW i \in Threads, Consumer(i), ~Crash
      PROVE  Quiet \/ Logs(i) \/ \E s \in 1 .. 4 : Details(i, s)
  <2>1. CASE WriteMain(i)
    BY <2>1 DEF WriteMain, Logs, queueVars, perfVars
  <2>2. ASSUME NEW s \in DOMAIN SectionOrder, WriteDetail(i, s)
        PROVE  s \in 1 .. 4 /\ Details(i, s)
    <3>1. /\ s \in 1 .. 4 /\ pc[i] = SectionOrder[s] /\ GoOn(i, s)
          /\ last_detail' = [last_detail EXCEPT ![HostName(i)] = NewSamples(i, SectionOrder[s])]
          /\ UNCHANGED <<received, last_perf, last_disk_util, written>>
      BY <1>3, <2>2, DetailStep DEF queueVars, perfVars
    <3> QED
      BY <3>1, Zenon DEF Details
  <2>3. CASE FetchQueue(i) \/ TestRunning(i) \/ TakeSnapshot(i) \/ ReadLast(i) \/ SaveLast(i)
             \/ UpdateScore(i)
    BY <1>3, <2>3 DEF FetchQueue, TestRunning, TakeSnapshot, ReadLast, SaveLast, UpdateScore,
       Goto, Quiet, Sections
  <2>4. CASE Pop(i)
    BY <2>4 DEF Pop, Goto, Quiet, Sections
  <2>5. CASE Connect(i)
    BY <2>5 DEF Connect, Goto, Finish, Quiet, Sections
  <2> QED
    BY <1>3, <2>1, <2>2, <2>3, <2>4, <2>5 DEF Consumer
<1> QED
  BY <1>1, <1>2, <1>3 DEF Next

(* GoOn skips the sections that the report has nothing of, and no other.   *)
LEMMA NextSection ==
  ASSUME TypeInv, NEW i \in Threads, NEW s \in 0 .. 4, GoOn(i, s)
  PROVE  /\ \A j \in Threads \ {i} : pc'[j] = pc[j] /\ cur'[j] = cur[j]
         /\ \/ /\ pc'[i] = "loop" /\ cur'[i] = 0
               /\ \A t \in 1 .. 4 : \A it \in received[cur[i]].items :
                    it[1] = SectionOrder[t] => t <= s
            \/ /\ cur'[i] = cur[i]
               /\ \E u \in 1 .. 4 :
                    /\ u > s /\ pc'[i] = SectionOrder[u]
                    /\ \A t \in 1 .. 4 : \A it \in received[cur[i]].items :
                         it[1] = SectionOrder[t] => t <= s \/ u <= t
<1> DEFINE has(t) == \E it \in received[cur[i]].items : it[1] = SectionOrder[t]
           rest == {t \in s + 1 .. 4 : has(t)}
<1>1. pc \in [Threads -> Busy \cup {"none", "fetch", "loop", "pop", "exited"}]
      /\ cur \in [Threads -> Samples]
  BY DEF TypeInv, TypeOK, TypeConsumers
<1>2. \/ rest = {} /\ Finish(i)
      \/ \E u \in rest : /\ \A t \in rest : u <= t
                         /\ Goto(i, SectionOrder[u]) /\ UNCHANGED <<cur, base, now>>
  BY DEF GoOn
<1>3. \A t \in 1 .. 4 : has(t) => t <= s \/ t \in rest
  OBVIOUS
<1>4. CASE rest = {} /\ Finish(i)
  <2>1. \A t \in 1 .. 4 : has(t) => t <= s
    BY <1>3, <1>4
  <2> QED
    BY <1>1, <1>4, <2>1 DEF Finish
<1>5. ASSUME NEW u \in rest, \A t \in rest : u <= t,
             Goto(i, SectionOrder[u]), UNCHANGED <<cur, base, now>>
      PROVE  /\ \A j \in Threads \ {i} : pc'[j] = pc[j] /\ cur'[j] = cur[j]
             /\ cur'[i] = cur[i] /\ u \in 1 .. 4 /\ u > s /\ pc'[i] = SectionOrder[u]
             /\ \A t \in 1 .. 4 : has(t) => t <= s \/ u <= t
  <2>1. u \in s + 1 .. 4
    OBVIOUS
  <2>2. u \in 1 .. 4 /\ u > s
    BY <2>1
  <2>3. \A t \in 1 .. 4 : has(t) => t <= s \/ u <= t
    BY <1>3, <1>5
  <2> HIDE DEF rest, has
  <2> QED
    BY <1>1, <1>5, <2>2, <2>3 DEF Goto
<1> QED
  BY <1>2, <1>4, <1>5

(* The reports that a history may be the newest of.                        *)
Through(id, it) ==
  {n \in WrittenOf(id) : it \in received[n].items /\ ~StillToDo(n, it[1])}

(* Every history holds the newest.                                         *)
DetailInv == \A id \in Ids, it \in Items : IsNewest(last_detail[id][it], Through(id, it))

(* The consumer that works on a report of a server is the one its reports  *)
(* are routed to, and nobody else has the report.                          *)
LEMMA HolderIsOwner ==
  ASSUME TypeInv, OrderInv, NEW i \in Threads, pc[i] \in Busy, NEW r \in Reports,
         HostName(i) = ServerId(r)
  PROVE  i = QueueIndex(r)
<1>1. cur[i] # 0 /\ received[cur[i]] \in Reports
  BY InHand
<1>2. QueueIndex(received[cur[i]]) = i
  BY <1>1 DEF OrderInv, Routed
<1> QED
  BY <1>1, <1>2, SameServerSameQueue DEF HostName

LEMMA OneHolder ==
  ASSUME TypeInv, OrderInv, NEW i \in Threads, pc[i] \in Busy, NEW j \in Threads, cur[j] = cur[i]
  PROVE  j = i
<1>1. cur[i] # 0 /\ pc[j] \in Busy
  BY InHand DEF TypeInv, InFlight
<1> QED
  BY <1>1, OneConsumer DEF HostName

(* Of the reports that reached the database, those that the steps change:  *)
(* WriteMain adds one that is the newest of its server.                    *)
LEMMA LogsAdds ==
  ASSUME TypeInv, SavedInv, LoggedInv, NEW i \in Threads, Logs(i)
  PROVE  /\ HostName(i) \in Ids
         /\ \A id \in Ids : WrittenOf(id)' =
              IF id = HostName(i) THEN WrittenOf(id) \cup {cur[i]} ELSE WrittenOf(id)
         /\ \A n \in WrittenOf(HostName(i)) : n \in Nat /\ n < cur[i]
         /\ cur[i] \in Nat
<1>1. HostName(i) \in Ids /\ cur[i] \in Nat
  BY InHand DEF Logs, Busy, Sections
<1>2. \A n \in WrittenOf(HostName(i)) : n \in Nat /\ n < cur[i]
  BY DEF LoggedInv, Logs, Unwritten, WrittenOf
<1>3. ASSUME NEW id \in Ids
      PROVE  WrittenOf(id)' =
               IF id = HostName(i) THEN WrittenOf(id) \cup {cur[i]} ELSE WrittenOf(id)
  BY DEF Logs, WrittenOf, HostName
<1> QED
  BY <1>1, <1>2, <1>3

LEMMA OthersKeepWritten ==
  ASSUME TypeInv, LoggedInv, [Next]_vars, written' = written, NEW id
  PROVE  WrittenOf(id)' = WrittenOf(id)
<1>1. \A n \in written : ServerId(received[n])' = ServerId(received[n])
  BY ReceivedStays DEF LoggedInv
<1> QED
  BY <1>1 DEF WrittenOf

LEMMA LoggedStep ==
  ASSUME TypeInv, OrderInv, SavedInv, LoggedInv, [Next]_vars
  PROVE  LoggedInv'
<1>1. ASSUME NEW n \in written
      PROVE  n \in 1 .. Len(received') /\ n <= last_perf'[ServerId(received[n])']
  <2>1. /\ n \in 1 .. Len(received) /\ n <= last_perf[ServerId(received[n])]
        /\ ServerId(received[n]) \in Ids
    BY Received DEF LoggedInv
  <2>2. n \in 1 .. Len(received') /\ ServerId(received[n])' = ServerId(received[n])
    BY <2>1, ReceivedStays
  <2> DEFINE id == ServerId(received[n])
  <2>3. last_perf'[id] >= last_perf[id] /\ last_perf[id] \in Nat /\ last_perf'[id] \in Nat
    BY <2>1, HistoryForward
  <2> QED
    BY <2>1, <2>2, <2>3
<1>2. ASSUME NEW n \in written', n \notin written
      PROVE  n \in 1 .. Len(received') /\ n <= last_perf'[ServerId(received[n])']
  <2>1. PICK i \in Threads : Logs(i) /\ n = cur[i]
    BY <1>2, DetailMoves DEF Quiet, Logs, Details
  <2>2. n \in 1 .. Len(received) /\ last_perf[HostName(i)] = n /\ pc[i] = "insert"
    BY <2>1, InHand DEF SavedInv, Saved, Sections, Busy, Logs
  <2> QED
    BY <2>1, <2>2 DEF Logs, HostName
<1>3. ASSUME NEW j \in Threads, pc'[j] \in Unwritten, NEW n \in WrittenOf(HostName(j))'
      PROVE  n < cur'[j]
  <2>1. pc[j] \in Busy /\ cur'[j] = cur[j] /\ HostName(j)' = HostName(j)
    BY <1>3, KeepsHost DEF Unwritten, Busy, Sections
  <2>2. HostName(j) \in Ids
    BY <2>1, InHand
  <2>3. n \in WrittenOf(HostName(j))
    <3>1. ASSUME NEW i \in Threads, Logs(i)
          PROVE  n \in WrittenOf(HostName(j))
      <4>1. CASE HostName(i) = HostName(j)
        <5>1. i = j
          BY <2>1, <3>1, <4>1, OneConsumer DEF Logs, Busy, Sections
        <5>2. pc'[i] \notin Unwritten
          BY <3>1, GoesOn DEF Logs, Finish, Goto, Unwritten, Sections, TypeInv, TypeOK, TypeConsumers
        <5> QED
          BY <1>3, <5>1, <5>2
      <4>2. CASE HostName(i) # HostName(j)
        <5>1. n \in written' /\ ServerId(received'[n]) = HostName(j)
          BY <1>3, <2>1 DEF WrittenOf
        <5>2. received' = received /\ written' = written \cup {cur[i]}
          BY <3>1 DEF Logs
        <5>3. n # cur[i]
          BY <4>2, <5>1, <5>2 DEF HostName
        <5> QED
          BY <5>1, <5>2, <5>3 DEF WrittenOf
      <4> QED
        BY <4>1, <4>2
    <3>2. CASE written' = written
      <4>1. WrittenOf(HostName(j))' = {m \in written' : ServerId(received'[m]) = HostName(j)}
        BY <2>1 DEF WrittenOf
      <4>2. \A m \in written : ServerId(received[m])' = ServerId(received[m])
        BY ReceivedStays DEF LoggedInv
      <4> QED
        BY <1>3, <3>2, <4>1, <4>2 DEF WrittenOf
    <3> QED
      BY <3>1, <3>2, DetailMoves DEF Quiet, Details
  <2>4. CASE pc[j] \in Unwritten
    BY <2>1, <2>3, <2>4 DEF LoggedInv
  <2>5. CASE pc[j] = "save"
    <3>1. last_perf[HostName(j)] < cur[j] /\ last_perf[HostName(j)] \in Nat /\ cur[j] \in Nat
      BY <2>1, <2>2, <2>5, InHand DEF OrderInv, Newer, Pending, TypeInv, TypeOK, TypeHistories, Samples
    <3>2. n \in Nat /\ n <= last_perf[HostName(j)]
      BY <2>3 DEF LoggedInv, WrittenOf
    <3> QED
      BY <2>1, <3>1, <3>2
  <2> QED
    BY <1>3, <2>4, <2>5, EveryoneMoves DEF Moves, Stays, Unwritten, Busy, Sections
<1>4. ASSUME NEW j \in Threads, pc'[j] \in Sections
      PROVE  cur'[j] \in written'
  <2>1. pc[j] \in {"insert"} \cup Sections /\ cur'[j] = cur[j]
    BY <1>4, EveryoneMoves DEF Moves, Stays, Busy, Sections
  <2>2. CASE pc[j] \in Sections
    BY <2>1, <2>2, DetailMoves DEF LoggedInv, Quiet, Logs, Details
  <2>3. CASE pc[j] = "insert"
    <3>1. ~Quiet
      BY <1>4, <2>3 DEF Quiet, Sections
    <3>2. ASSUME NEW i \in Threads, NEW s \in 0 .. 4, GoOn(i, s), i # j
          PROVE  FALSE
      <4>1. pc'[j] = pc[j]
        BY <3>2, NextSection
      <4> QED
        BY <1>4, <2>3, <4>1 DEF Sections
    <3>3. ASSUME NEW i \in Threads, NEW s \in 1 .. 4, Details(i, s)
          PROVE  i # j
      BY <2>3, <3>3, SectionsInOrder DEF Details, Sections
    <3> QED
      BY <2>1, <3>1, <3>2, <3>3, DetailMoves DEF Logs, Details
  <2> QED
    BY <2>1, <2>2, <2>3
<1> QED
  BY <1>1, <1>2, <1>3, <1>4 DEF LoggedInv

(* The consumer to which a server's reports are routed has the newest that *)
(* reached the database in its thread_local history, the others have none. *)
DiskInv ==
  \A r \in Reports : \A i \in Threads :
    IF i = QueueIndex(r) THEN IsNewest(last_disk_util[i][ServerId(r)], WrittenOf(ServerId(r)))
                         ELSE last_disk_util[i][ServerId(r)] = 0

LEMMA DiskStep ==
  ASSUME TypeInv, OrderInv, SavedInv, LoggedInv, DiskInv, [Next]_vars
  PROVE  DiskInv'
<1> SUFFICES ASSUME NEW r \in Reports, NEW j \in Threads
             PROVE  IF j = QueueIndex(r)
                    THEN IsNewest(last_disk_util'[j][ServerId(r)], WrittenOf(ServerId(r))')
                    ELSE last_disk_util'[j][ServerId(r)] = 0
  BY DEF DiskInv, QueueIndex, RoutingName, ServerId, IsNewest, WrittenOf
<1>1. PICK id \in Ids : id = ServerId(r)
  BY DEF Ids
<1>2. IF j = QueueIndex(r) THEN IsNewest(last_disk_util[j][id], WrittenOf(id))
                           ELSE last_disk_util[j][id] = 0
  BY <1>1 DEF DiskInv
<1>3. CASE UNCHANGED <<last_disk_util, written>>
  <2>1. WrittenOf(ServerId(r))' = WrittenOf(ServerId(r))
    BY <1>3, OthersKeepWritten
  <2> QED
    BY <1>1, <1>2, <1>3, <2>1
<1>4. ASSUME NEW i \in Threads, Logs(i)
      PROVE  IF j = QueueIndex(r)
             THEN IsNewest(last_disk_util'[j][ServerId(r)], WrittenOf(ServerId(r))')
             ELSE last_disk_util'[j][ServerId(r)] = 0
  <2>1. /\ ServerId(r) \in Ids
        /\ WrittenOf(ServerId(r))' = IF ServerId(r) = HostName(i)
                                     THEN WrittenOf(ServerId(r)) \cup {cur[i]}
                                     ELSE WrittenOf(ServerId(r))
        /\ \A n \in WrittenOf(HostName(i)) : n \in Nat /\ n < cur[i]
        /\ cur[i] \in Nat
    <3>1. ServerId(r) \in Ids
      BY <1>1
    <3>2. WrittenOf(ServerId(r))' = IF ServerId(r) = HostName(i)
                                    THEN WrittenOf(ServerId(r)) \cup {cur[i]}
                                    ELSE WrittenOf(ServerId(r))
      BY <1>4 DEF Logs, WrittenOf, HostName
    <3> QED
      BY <1>4, <3>1, <3>2, LogsAdds
  <2>2. last_disk_util'[j][ServerId(r)] =
          IF j = i /\ HostName(i) = ServerId(r) THEN cur[i] ELSE last_disk_util[j][ServerId(r)]
    BY <1>1, <1>4 DEF Logs, TypeInv, TypeOK, TypeHistories
  <2>3. HostName(i) = ServerId(r) => i = QueueIndex(r)
    BY <1>4, HolderIsOwner DEF Logs, Busy
  <2>4. CASE ServerId(r) = HostName(i)
    <3>1. CASE j = i
      BY <2>1, <2>2, <2>3, <2>4, <3>1 DEF IsNewest
    <3>2. CASE j # i
      BY <1>1, <1>2, <2>2, <2>3, <2>4, <3>2
    <3> QED
      BY <3>1, <3>2
  <2>5. CASE ServerId(r) # HostName(i)
    BY <1>1, <1>2, <2>1, <2>2, <2>5
  <2> QED
    BY <2>4, <2>5
<1> QED
  BY <1>3, <1>4, DetailMoves DEF Quiet, Details

LEMMA DiskIsLatest == TypeInv /\ DiskInv => DiskHistoryIsLatest
<1> SUFFICES ASSUME TypeInv, DiskInv, NEW id \in Ids
             PROVE  \E i \in Threads :
                      /\ IsNewest(last_disk_util[i][id], WrittenOf(id))
                      /\ \A j \in Threads \ {i} : last_disk_util[j][id] = 0
  BY DEF DiskHistoryIsLatest
<1>1. PICK r \in Reports : id = ServerId(r)
  BY DEF Ids
<1>2. QueueIndex(r) \in Threads
  BY IndicesInRange
<1> QED
  BY <1>1, <1>2 DEF DiskInv

(* The thread_local history of disk utilisation of a server is in one      *)
(* thread and holds its newest report that reached the database, since all *)
(* its reports go to one thread (WriteToMysql).                            *)
THEOREM DiskHistoryCorrect == Spec => []DiskHistoryIsLatest
<1>1. Init => SavedInv /\ LoggedInv /\ DiskInv
  <2> SUFFICES ASSUME Init PROVE SavedInv /\ LoggedInv /\ DiskInv
    OBVIOUS
  <2>1. SavedInv /\ LoggedInv
    BY DEF Init, SavedInv, Saved, LoggedInv, Unwritten, Sections
  <2>2. ASSUME NEW r \in Reports, NEW i \in Threads
        PROVE  last_disk_util[i][ServerId(r)] = 0 /\ WrittenOf(ServerId(r)) = {}
    BY DEF Init, Ids, WrittenOf
  <2> QED
    BY <2>1, <2>2 DEF DiskInv, IsNewest
<1> QED
  BY <1>1, InitTypeInv, InitOrderInv, NextKeepsType, NextKeepsOrder, SavedStep, LoggedStep,
     DiskStep, DiskIsLatest, PTL DEF Spec

(* Going on says nothing about the reports of others. Of the report in     *)
(* hand, the sections after the s-th that it has items of are to be done,  *)
(* and no others.                                                          *)
LEMMA TodoOfOthers ==
  ASSUME TypeInv, NEW i \in Threads, NEW s \in 0 .. 4, GoOn(i, s),
         NEW n, n # 0, n # cur[i], NEW section
  PROVE  StillToDo(n, section)' <=> StillToDo(n, section)
<1>1. \A j \in Threads \ {i} : pc'[j] = pc[j] /\ cur'[j] = cur[j]
  BY NextSection
<1>2. cur'[i] # n
  BY NextSection
<1> QED
  BY <1>1, <1>2 DEF StillToDo

LEMMA TodoInSection ==
  ASSUME TypeInv, OrderInv, NEW i \in Threads, NEW s \in 1 .. 4, pc[i] = SectionOrder[s],
         NEW n, n = cur[i], NEW t \in 1 .. 4
  PROVE  StillToDo(n, SectionOrder[t]) <=> s <= t
<1>1. \A j \in Threads : cur[j] = n => j = i
  BY OneHolder, SectionsInOrder DEF Busy
<1>2. \A u, v \in DOMAIN SectionOrder :
        pc[i] = SectionOrder[u] /\ SectionOrder[t] = SectionOrder[v] => u = s /\ v = t
  BY SectionsInOrder
<1>3. s \in DOMAIN SectionOrder /\ t \in DOMAIN SectionOrder
  BY SectionsInOrder
<1> QED
  BY <1>1, <1>2, <1>3 DEF StillToDo

LEMMA TodoAfter ==
  ASSUME TypeInv, OrderInv, NEW i \in Threads, pc[i] \in Busy, NEW s \in 0 .. 4, GoOn(i, s),
         NEW n, n = cur[i], NEW t \in 1 .. 4, NEW it \in received[cur[i]].items,
         it[1] = SectionOrder[t]
  PROVE  StillToDo(n, it[1])' <=> s < t
<1>1. n # 0 /\ \A j \in Threads : cur[j] = n => j = i
  BY OneHolder, InHand
<1>2. \A j \in Threads \ {i} : cur'[j] # n
  BY <1>1, NextSection
<1>3. CASE pc'[i] = "loop" /\ cur'[i] = 0 /\ t <= s
  <2>1. ~StillToDo(n, it[1])'
    BY <1>1, <1>2, <1>3 DEF StillToDo
  <2> QED
    BY <1>3, <2>1
<1>4. ASSUME NEW u \in 1 .. 4, u > s, pc'[i] = SectionOrder[u], cur'[i] = cur[i], t <= s \/ u <= t
      PROVE  StillToDo(n, it[1])' <=> s < t
  <2>1. StillToDo(n, it[1])' <=> \E v, w \in DOMAIN SectionOrder :
          pc'[i] = SectionOrder[v] /\ it[1] = SectionOrder[w] /\ v <= w
    BY <1>2, <1>4 DEF StillToDo
  <2>2. \A v, w \in DOMAIN SectionOrder :
          pc'[i] = SectionOrder[v] /\ it[1] = SectionOrder[w] => v = u /\ w = t
    BY <1>4, SectionsInOrder
  <2>3. u \in DOMAIN SectionOrder /\ t \in DOMAIN SectionOrder
    BY SectionsInOrder
  <2>4. StillToDo(n, it[1])' <=> u <= t
    BY <1>4, <2>1, <2>2, <2>3
  <2> QED
    BY <1>4, <2>4
<1>5. \/ pc'[i] = "loop" /\ cur'[i] = 0 /\ t <= s
      \/ \E u \in 1 .. 4 : u > s /\ pc'[i] = SectionOrder[u] /\ cur'[i] = cur[i]
                           /\ (t <= s \/ u <= t)
  BY NextSection
<1> QED
  BY <1>3, <1>4, <1>5

(* An item is of one of the sections.                                      *)
LEMMA ItemSection ==
  ASSUME NEW it \in Items
  PROVE  \E t \in 1 .. 4 : it[1] = SectionOrder[t]
<1>1. it[1] \in Sections
  BY DEF Items, Sections
<1> QED
  BY <1>1 DEF Sections, SectionOrder

(* What the steps do to the reports that a history may be the newest of:   *)
(* nothing, unless the thread of the server goes through the section.      *)
LEMMA QuietThrough ==
  ASSUME TypeInv, LoggedInv, [Next]_vars, Quiet, NEW id, NEW it
  PROVE  Through(id, it)' = Through(id, it)
<1>1. \A n \in written : received'[n] = received[n] /\ ServerId(received[n])' = ServerId(received[n])
  BY ReceivedStays DEF LoggedInv
<1>2. WrittenOf(id)' = WrittenOf(id)
  BY OthersKeepWritten DEF Quiet
<1>3. ASSUME NEW n
      PROVE  StillToDo(n, it[1])' <=> StillToDo(n, it[1])
  <2>1. \A j \in Threads : \A u \in DOMAIN SectionOrder :
          pc'[j] = SectionOrder[u] /\ cur'[j] = n <=> pc[j] = SectionOrder[u] /\ cur[j] = n
    BY SectionsInOrder DEF Quiet
  <2> QED
    BY <2>1 DEF StillToDo
<1> QED
  BY <1>1, <1>2, <1>3 DEF Through, WrittenOf

LEMMA LogsThrough ==
  ASSUME TypeInv, OrderInv, SavedInv, LoggedInv, NEW i \in Threads, Logs(i),
         NEW id \in Ids, NEW it \in Items
  PROVE  Through(id, it)' = Through(id, it)
<1> DEFINE c == cur[i]
<1>1. /\ pc[i] \in Busy /\ GoOn(i, 0) /\ received' = received
      /\ written' = written \cup {cur[i]} /\ 0 \in 0 .. 4
  BY DEF Logs, Busy
<1>2. cur[i] \notin written /\ cur[i] # 0
  <2>1. \A n \in WrittenOf(HostName(i)) : n < cur[i] /\ cur[i] \in Nat
    BY LogsAdds
  <2> QED
    BY <1>1, <2>1, InHand DEF WrittenOf, HostName
<1>3. PICK t \in 1 .. 4 : it[1] = SectionOrder[t]
  BY ItemSection
<1>4. ASSUME NEW n, n = cur[i], it \in received[n].items
      PROVE  StillToDo(n, it[1])'
  <2>1. StillToDo(n, it[1])' <=> 0 < t
    BY <1>1, <1>3, <1>4, TodoAfter
  <2> QED
    BY <2>1
<1>5. ASSUME NEW n, n # cur[i], n # 0
      PROVE  StillToDo(n, it[1])' <=> StillToDo(n, it[1])
  BY <1>1, <1>5, TodoOfOthers
<1>6. 0 \notin written
  BY DEF LoggedInv
<1>7. ASSUME NEW n
      PROVE  n \in Through(id, it)' <=> n \in Through(id, it)
  <2>1. n \in Through(id, it)' <=> /\ n \in written \cup {cur[i]} /\ ServerId(received[n]) = id
                                   /\ it \in received[n].items /\ ~StillToDo(n, it[1])'
    BY <1>1 DEF Through, WrittenOf
  <2>2. n \in Through(id, it) <=> /\ n \in written /\ ServerId(received[n]) = id
                                  /\ it \in received[n].items /\ ~StillToDo(n, it[1])
    BY DEF Through, WrittenOf
  <2>3. CASE n = cur[i]
    BY <1>2, <1>4, <2>1, <2>2, <2>3
  <2>4. CASE n # cur[i]
    BY <1>5, <1>6, <1>2, <2>1, <2>2, <2>4
  <2> QED
    BY <2>3, <2>4
<1> QED
  BY <1>7

LEMMA DetailsThrough ==
  ASSUME TypeInv, OrderInv, LoggedInv, NEW i \in Threads, NEW s \in 1 .. 4, Details(i, s),
         NEW id \in Ids, NEW it \in Items
  PROVE  Through(id, it)' =
           IF id = HostName(i) /\ it \in received[cur[i]].items /\ it[1] = SectionOrder[s]
           THEN Through(id, it) \cup {cur[i]} ELSE Through(id, it)
<1>1. /\ pc[i] = SectionOrder[s] /\ SectionOrder[s] \in Sections /\ pc[i] \in Busy
      /\ GoOn(i, s) /\ received' = received /\ written' = written /\ s \in 0 .. 4
  BY SectionsInOrder DEF Details, Busy
<1>2. cur[i] \in written /\ 0 \notin written
  BY <1>1 DEF LoggedInv
<1>3. PICK t \in 1 .. 4 : it[1] = SectionOrder[t]
  BY ItemSection
<1>4. ASSUME NEW n, n = cur[i], it \in received[n].items
      PROVE  /\ StillToDo(n, it[1])' <=> s < t
             /\ StillToDo(n, it[1]) <=> s <= t
  BY <1>1, <1>3, <1>4, TodoAfter, TodoInSection
<1>5. ASSUME NEW n, n # cur[i], n # 0
      PROVE  StillToDo(n, it[1])' <=> StillToDo(n, it[1])
  BY <1>1, <1>5, TodoOfOthers
<1>6. it[1] = SectionOrder[s] <=> t = s
  BY <1>3, SectionsInOrder
<1> DEFINE new == id = HostName(i) /\ it \in received[cur[i]].items /\ t = s
<1>7. ASSUME NEW n
      PROVE  n \in Through(id, it)' <=> n \in Through(id, it) \/ (new /\ n = cur[i])
  <2>1. n \in Through(id, it)' <=> /\ n \in written /\ ServerId(received[n]) = id
                                   /\ it \in received[n].items /\ ~StillToDo(n, it[1])'
    BY <1>1 DEF Through, WrittenOf
  <2>2. n \in Through(id, it) <=> /\ n \in written /\ ServerId(received[n]) = id
                                  /\ it \in received[n].items /\ ~StillToDo(n, it[1])
    BY DEF Through, WrittenOf
  <2>3. CASE n = cur[i]
    <3>1. new <=> ServerId(received[n]) = id /\ it \in received[n].items /\ t = s
      BY <2>3 DEF HostName
    <3>2. CASE it \in received[n].items
      <4>1. (~(s < t)) <=> (~(s <= t)) \/ t = s
        OBVIOUS
      <4> HIDE DEF new
      <4> QED
        BY <1>2, <1>4, <2>1, <2>2, <2>3, <3>1, <3>2, <4>1
    <3>3. CASE it \notin received[n].items
      BY <2>1, <2>2, <3>1, <3>3
    <3> QED
      BY <3>2, <3>3
  <2>4. CASE n # cur[i]
    BY <1>2, <1>5, <2>1, <2>2, <2>4
  <2> QED
    BY <2>3, <2>4
<1>8. Through(id, it)' = IF new THEN Through(id, it) \cup {cur[i]} ELSE Through(id, it)
  <2> HIDE DEF new
  <2> QED
    BY <1>7
<1> QED
  BY <1>6, <1>8

LEMMA DetailsStep ==
  ASSUME TypeInv, OrderInv, SavedInv, LoggedInv, DetailInv, [Next]_vars
  PROVE  DetailInv'
<1> SUFFICES ASSUME NEW id \in Ids, NEW it \in Items
             PROVE  IsNewest(last_detail'[id][it], Through(id, it)')
  BY DEF DetailInv, IsNewest
<1>1. IsNewest(last_detail[id][it], Through(id, it))
  BY DEF DetailInv
<1>2. CASE Quiet
  <2>1. Through(id, it)' = Through(id, it) /\ last_detail' = last_detail
    BY <1>2, QuietThrough DEF Quiet
  <2> QED
    BY <1>1, <2>1
<1>3. ASSUME NEW i \in Threads, Logs(i)
      PROVE  IsNewest(last_detail'[id][it], Through(id, it)')
  <2>1. Through(id, it)' = Through(id, it) /\ last_detail' = last_detail
    BY <1>3, LogsThrough DEF Logs
  <2> QED
    BY <1>1, <2>1
<1>4. ASSUME NEW i \in Threads, NEW s \in 1 .. 4, Details(i, s)
      PROVE  IsNewest(last_detail'[id][it], Through(id, it)')
  <2> DEFINE new == id = HostName(i) /\ it \in received[cur[i]].items /\ it[1] = SectionOrder[s]
  <2>1. Through(id, it)' = IF new THEN Through(id, it) \cup {cur[i]} ELSE Through(id, it)
    BY <1>4, DetailsThrough
  <2>2. pc[i] \in Sections /\ pc[i] \in Busy /\ pc[i] \in Saved
    BY <1>4, SectionsInOrder DEF Details, Busy, Saved
  <2>3. last_detail'[id][it] = IF new THEN cur[i] ELSE last_detail[id][it]
    <3>1. HostName(i) \in Ids
      BY <2>2, InHand
    <3>2. NewSamples(i, SectionOrder[s])[it] =
            IF it \in received[cur[i]].items /\ it[1] = SectionOrder[s]
            THEN cur[i] ELSE last_detail[HostName(i)][it]
      BY DEF NewSamples
    <3>3. last_detail'[id] = IF id = HostName(i) THEN NewSamples(i, SectionOrder[s])
                                                 ELSE last_detail[id]
      BY <1>4 DEF Details, TypeInv, TypeOK, TypeHistories
    <3> QED
      BY <3>2, <3>3
  <2>4. CASE new
    <3>1. \A n \in Through(id, it) : n <= cur[i]
      <4>1. last_perf[id] = cur[i]
        BY <2>2, <2>4 DEF SavedInv
      <4> QED
        BY <4>1 DEF LoggedInv, Through, WrittenOf
    <3>2. cur[i] \in Nat
      BY <2>2, InHand
    <3> QED
      BY <2>1, <2>3, <2>4, <3>1, <3>2 DEF IsNewest
  <2>5. CASE ~new
    BY <1>1, <2>1, <2>3, <2>5
  <2> QED
    BY <2>4, <2>5
<1> QED
  BY <1>2, <1>3, <1>4, DetailMoves

(* The history of an interface, a CPU, the memory or a disk holds the      *)
(* sample of the newest report of the server that had it and reached the   *)
(* database, whatever reports had nothing of the section or were lost with *)
(* a connection (WriteToMysql).                                            *)
THEOREM DetailHistoryCorrect == Spec => []DetailHistoryIsLatest
<1>1. Init => SavedInv /\ LoggedInv /\ DetailInv
  <2> SUFFICES ASSUME Init PROVE SavedInv /\ LoggedInv /\ DetailInv
    OBVIOUS
  <2>1. SavedInv /\ LoggedInv
    BY DEF Init, SavedInv, Saved, LoggedInv, Unwritten, Sections
  <2>2. ASSUME NEW id \in Ids, NEW it \in Items
        PROVE  last_detail[id][it] = 0 /\ Through(id, it) = {}
    BY DEF Init, Through, WrittenOf
  <2> QED
    BY <2>1, <2>2 DEF DetailInv, IsNewest
<1>2. DetailInv => DetailHistoryIsLatest
  BY DEF DetailInv, DetailHistoryIsLatest, Through
<1> QED
  BY <1>1, <1>2, InitTypeInv, InitOrderInv, NextKeepsType, NextKeepsOrder, SavedStep, LoggedStep,
     DetailsStep, PTL DEF Spec
----------------------------------------------------------------------------
(* A time stamp only gets older, but for a report that is published, and a *)
(* host is dropped only when its time stamp is too old.                    *)
LEMMA AgeMoves ==
  ASSUME TypeInv, [Next]_vars, NEW id \in Ids
  PROVE  \/ age'[id] = age[id] /\ host_scores_'[id] = host_scores_[id]
         \/ age'[id] = Older(age[id]) /\ host_scores_'[id] = host_scores_[id]
         \/ age'[id] = age[id] /\ age[id] - lag > StaleLimit
         \/ host_scores_'[id] # 0
<1> USE DEF scoreVars
<1>1. CASE UNCHANGED vars \/ Terminated \/ Environment \/ Crash \/ Main
  BY <1>1 DEF vars, Terminated, Environment, Stop, OnDataReceived, Crash, Main,
     CtorPush, CtorSpawn, Start, StopQueue, Join
<1>2. CASE Cleaner
  BY <1>2 DEF Cleaner, CleanTest, CleanWake, CleanScan
<1>3. CASE Time
  BY <1>3 DEF Time, Tick
<1>4. ASSUME NEW i \in Threads, UpdateScore(i)
      PROVE  \/ age'[id] = age[id] /\ host_scores_'[id] = host_scores_[id]
             \/ host_scores_'[id] # 0
  <2>1. cur[i] # 0
    BY <1>4, InHand DEF UpdateScore, Busy, Sections
  <2> QED
    BY <1>4, <2>1 DEF UpdateScore, TypeInv, TypeOK, TypeScores
<1>5. ASSUME NEW i \in Threads, Consumer(i), ~Crash, ~UpdateScore(i)
      PROVE  age' = age /\ host_scores_' = host_scores_
  BY <1>5, DetailStep DEF Consumer, FetchQueue, TestRunning, Pop, TakeSnapshot, ReadLast, SaveLast,
     Connect, WriteMain
<1> QED
  BY <1>1, <1>2, <1>3, <1>4, <1>5 DEF Next

LEMMA FreshStep == TypeInv /\ FreshHostListed /\ [Next]_vars => FreshHostListed'
<1> SUFFICES ASSUME TypeInv, FreshHostListed, [Next]_vars,
                    NEW id \in Ids, age'[id] <= StaleLimit
             PROVE  host_scores_'[id] # 0
  BY DEF FreshHostListed
<1>1. age[id] \in Nat /\ lag \in Nat /\ StaleLimit \in Nat
  BY TimeAssumption DEF TypeInv, TypeOK, TypeScores, TypeCleaner, MaxAge
<1>2. Older(age[id]) \in Nat /\ Older(age[id]) >= age[id]
  BY <1>1 DEF Older
<1>3. age[id] <= StaleLimit => host_scores_[id] # 0
  BY DEF FreshHostListed
<1> QED
  BY <1>1, <1>2, <1>3, AgeMoves

(* A host whose last report is recent enough is listed, although the       *)
(* cleaning thread judges by a time it took before it got mtx_             *)
(* (ProcessData and ProcessLoop).                                          *)
THEOREM FreshHostCorrect == Spec => []FreshHostListed
<1>1. Init => FreshHostListed
  BY TimeAssumption DEF Init, FreshHostListed, MaxAge
<1> QED
  BY <1>1, InitTypeInv, NextKeepsType, FreshStep, PTL DEF Spec
=============================================================================
