-------------------------- MODULE IngestionProofs --------------------------
(***************************************************************************)
(* What becomes of a report on its way from the worker to the HostManager, *)
(* for any number of workers and reports, any names in the reports and any *)
(* connections that break: it is passed on at most once, certainly if the  *)
(* worker was told OK, and is overtaken only if the worker was told that   *)
(* it failed.                                                              *)
(***************************************************************************)
EXTENDS Ingestion, SequenceTheorems, FiniteSetTheorems, TLAPS

LEMMA ReportParts ==
  ASSUME NEW r \in AllReports
  PROVE  r[1] \in Workers /\ r[2] \in 1 .. MaxReports /\ r = <<r[1], r[2]>>
BY DEF AllReports

Stages == {"begin", "stored", "ok", "refused"}

TypeReports ==
  /\ thread_ \in [Workers -> {"none", "loop", "push", "calling", "wait", "exited"}]
  /\ collected \in [Workers -> 0 .. MaxReports]
  /\ network \subseteq AllReports
  /\ answers \in [AllReports -> {"none", "ok", "error"}]
  /\ handlers \subseteq [report : AllReports, at : Stages]
  /\ passed \in Seq(AllReports)

Passed(r) == \E p \in 1 .. Len(passed) : passed[p] = r

(* Only a report that was collected can be anywhere, and each of them is   *)
(* in one place: under way, or in the hands of one call.                   *)
Placed ==
  /\ \A r \in AllReports :
       (r \in network \/ Passed(r) \/ answers[r] # "none" \/ \E h \in handlers : h.report = r)
         => r[2] <= collected[r[1]]
  /\ \A g \in handlers : \A h \in handlers : g.report = h.report => g = h
  /\ \A h \in handlers : h.report \notin network

(* A report was passed on if and only if its call got beyond the callback. *)
PassedByCall ==
  /\ \A r \in network : ~Passed(r)
  /\ \A h \in handlers : Passed(h.report) <=> h.at = "ok"
  /\ \A p \in 1 .. Len(passed) : \A q \in 1 .. Len(passed) : passed[p] = passed[q] => p = q

(* A worker knows the answer to every report it collected, but to the one  *)
(* whose call it is in.                                                    *)
Answered ==
  /\ \A r \in AllReports :
       (r[2] <= collected[r[1]] /\ answers[r] = "none")
         <=> (thread_[r[1]] = "calling" /\ r[2] = collected[r[1]])
  /\ \A r \in AllReports : answers[r] = "ok" => Passed(r)
  /\ \A w \in Workers : thread_[w] = "calling" => collected[w] # 0

(* A pusher that is off has no thread.                                     *)
Idle ==
  /\ owner \in [Workers -> {"off", "on", "stopping"}]
  /\ \A w \in Workers : owner[w] = "off" <=> thread_[w] = "none"

CallInv ==
  TypeReports /\ Idle /\ Placed /\ PassedByCall /\ Answered /\ OvertakenOnlyIfFailed
----------------------------------------------------------------------------
(* A step that leaves the calls alone.                                     *)
LEMMA WorkerStep ==
  ASSUME CallInv, UNCHANGED <<serverVars, netVars, collected>>, Idle',
         thread_' \in [Workers -> {"none", "loop", "push", "calling", "wait", "exited"}],
         \A w \in Workers : thread_'[w] = "calling" <=> thread_[w] = "calling"
  PROVE  CallInv'
<1> USE DEF serverVars, netVars
<1>1. \A r \in AllReports : Passed(r)' <=> Passed(r)
  BY DEF Passed
<1>2. TypeReports' /\ PassedByCall' /\ OvertakenOnlyIfFailed'
  BY <1>1 DEF CallInv, TypeReports, PassedByCall, OvertakenOnlyIfFailed, Passed
<1>3. Placed'
  BY <1>1 DEF CallInv, Placed
<1>4. Answered'
  BY <1>1, ReportParts DEF CallInv, Answered
<1> QED
  BY <1>2, <1>3, <1>4 DEF CallInv

(* The worker collects a report that nobody has seen, and sends it.        *)
LEMMA SendStep ==
  ASSUME CallInv, NEW w \in Workers, Send(w)
  PROVE  CallInv'
<1> DEFINE s == <<w, collected[w] + 1>>
<1>1. /\ collected[w] \in Nat /\ collected[w] < MaxReports
      /\ \A v \in Workers : collected'[v] = IF v = w THEN collected[w] + 1 ELSE collected[v]
      /\ \A v \in Workers : thread_'[v] = IF v = w THEN "calling" ELSE thread_[v]
      /\ thread_[w] = "push"
      /\ network' = network \cup {s}
      /\ UNCHANGED <<handlers, passed, answers>>
  BY PusherAssumption DEF Send, Push, Goto, CallInv, TypeReports, serverVars
<1>2. s \in AllReports /\ s[1] = w /\ s[2] = collected[w] + 1
  BY <1>1, PusherAssumption DEF AllReports
<1>3. ~(s[2] <= collected[s[1]])
  BY <1>1, <1>2
<1>4. \A r \in AllReports : /\ r[1] \in Workers /\ r[2] \in Nat
                            /\ r = s <=> r[1] = w /\ r[2] = collected[w] + 1
  BY ReportParts, <1>2
<1>5. \A v \in Workers : collected[v] \in Nat
  BY PusherAssumption DEF CallInv, TypeReports
<1> HIDE DEF s
<1>6. \A r \in AllReports : Passed(r)' <=> Passed(r)
  BY <1>1 DEF Passed
<1>7. ~Passed(s) /\ answers[s] = "none" /\ \A h \in handlers : h.report # s
  BY <1>2, <1>3 DEF CallInv, Placed
<1>8. TypeReports'
  <2>1. /\ thread_' \in [Workers -> {"none", "loop", "push", "calling", "wait", "exited"}]
        /\ collected' \in [Workers -> 0 .. MaxReports]
    BY PusherAssumption DEF Send, Push, Goto, CallInv, TypeReports
  <2> QED
    BY <1>1, <1>2, <2>1 DEF CallInv, TypeReports
<1>13. Idle'
  BY <1>1 DEF Send, Push, CallInv, Idle
<1>9. Placed'
  <2>1. ASSUME NEW r \in AllReports,
               r \in network' \/ Passed(r) \/ answers[r] # "none" \/ \E h \in handlers : h.report = r
        PROVE  r[2] <= collected'[r[1]]
    <3>1. CASE r = s
      BY <1>1, <1>2, <3>1
    <3>2. CASE r # s
      <4>1. r[2] <= collected[r[1]]
        BY <1>1, <2>1, <3>2 DEF CallInv, Placed
      <4> QED
        BY <1>1, <1>4, <1>5, <4>1
    <3> QED
      BY <3>1, <3>2
  <2>2. \A h \in handlers : h.report \notin network'
    BY <1>1, <1>7 DEF CallInv, Placed
  <2> QED
    BY <1>1, <1>6, <2>1, <2>2 DEF CallInv, Placed
<1>10. PassedByCall'
  BY <1>1, <1>2, <1>6, <1>7 DEF CallInv, TypeReports, PassedByCall, Passed
<1>11. Answered'
  <2>1. ASSUME NEW r \in AllReports
        PROVE  (r[2] <= collected'[r[1]] /\ answers[r] = "none")
                 <=> (thread_'[r[1]] = "calling" /\ r[2] = collected'[r[1]])
    <3>1. CASE r[1] # w
      BY <1>1, <1>4, <3>1 DEF CallInv, Answered
    <3>2. CASE r = s
      BY <1>1, <1>2, <1>7, <3>2
    <3>3. CASE r[1] = w /\ r # s
      <4>1. ~(r[2] <= collected[w] /\ answers[r] = "none")
        BY <1>1, <3>3 DEF CallInv, Answered
      <4> QED
        BY <1>1, <1>4, <3>3, <4>1
    <3> QED
      BY <3>1, <3>2, <3>3
  <2>2. \A v \in Workers : thread_'[v] = "calling" => collected'[v] # 0
    BY <1>1 DEF CallInv, Answered
  <2> QED
    BY <1>1, <1>6, <2>1, <2>2 DEF CallInv, Answered
<1>12. OvertakenOnlyIfFailed'
  BY <1>1 DEF CallInv, OvertakenOnlyIfFailed
<1> QED
  BY <1>8, <1>9, <1>10, <1>11, <1>12, <1>13 DEF CallInv

(* The worker learns the answer to its call: an error, or OK for a report  *)
(* that was passed on. The call may be gone from the manager by then.      *)
LEMMA AnswerStep ==
  ASSUME CallInv, NEW w \in Workers, Returned(w), NEW answer \in {"ok", "error"},
         answers' = [answers EXCEPT ![Report(w)] = answer],
         answer = "ok" => Passed(Report(w)),
         handlers' \subseteq handlers, UNCHANGED <<network, passed>>
  PROVE  CallInv'
<1> DEFINE s == Report(w)
<1>1. /\ UNCHANGED collected
      /\ thread_[w] = "calling"
      /\ \A v \in Workers : thread_'[v] = IF v = w THEN "wait" ELSE thread_[v]
      /\ \A v \in Workers : collected[v] \in Nat
      /\ collected[w] \in 0 .. MaxReports /\ collected[w] # 0
  BY PusherAssumption DEF Returned, Goto, CallInv, TypeReports, Answered
<1>2. s \in AllReports /\ s[1] = w /\ s[2] = collected[w]
  BY <1>1, PusherAssumption DEF AllReports, Report
<1>3. \A r \in AllReports : /\ r[1] \in Workers
                            /\ r = s <=> r[1] = w /\ r[2] = collected[w]
  BY ReportParts, <1>2
<1>4. \A r \in AllReports : answers'[r] = IF r = s THEN answer ELSE answers[r]
  BY <1>2 DEF CallInv, TypeReports
<1>5. answers[s] = "none"
  BY <1>1, <1>2 DEF CallInv, Answered
<1> HIDE DEF s
<1>6. \A r \in AllReports : Passed(r)' <=> Passed(r)
  BY DEF Passed
<1>7. TypeReports'
  BY <1>1 DEF CallInv, TypeReports, Returned, Goto
<1>12. Idle'
  BY <1>1 DEF Returned, CallInv, Idle
<1>8. Placed'
  <2>1. s[2] <= collected[s[1]]
    BY <1>1, <1>2
  <2> QED
    BY <1>1, <1>4, <1>6, <2>1 DEF CallInv, Placed
<1>9. PassedByCall'
  BY <1>6 DEF CallInv, TypeReports, PassedByCall, Passed
<1>10. Answered'
  <2>1. ASSUME NEW r \in AllReports
        PROVE  (r[2] <= collected[r[1]] /\ answers'[r] = "none")
                 <=> (thread_'[r[1]] = "calling" /\ r[2] = collected[r[1]])
    <3>1. CASE r[1] # w
      BY <1>1, <1>3, <1>4, <3>1 DEF CallInv, Answered
    <3>2. CASE r = s
      BY <1>1, <1>2, <1>4, <3>2
    <3>3. CASE r[1] = w /\ r # s
      <4>1. ~(r[2] <= collected[w] /\ answers[r] = "none")
        BY <1>1, <1>3, <3>3 DEF CallInv, Answered
      <4> QED
        BY <1>1, <1>4, <3>3, <4>1
    <3> QED
      BY <3>1, <3>2, <3>3
  <2>2. \A r \in AllReports : answers'[r] = "ok" => Passed(r)
    BY <1>4, <1>6 DEF CallInv, Answered, s
  <2>3. \A v \in Workers : thread_'[v] = "calling" => collected[v] # 0
    BY <1>1 DEF CallInv, Answered
  <2> QED
    BY <1>1, <1>6, <2>1, <2>2, <2>3 DEF Answered
<1>11. OvertakenOnlyIfFailed'
  <2> SUFFICES ASSUME NEW p \in 1 .. Len(passed), NEW q \in 1 .. Len(passed),
                      p < q, passed[p][1] = passed[q][1], passed[q][2] < passed[p][2]
               PROVE  answers'[passed[q]] = "error"
    BY DEF OvertakenOnlyIfFailed
  <2>1. answers[passed[q]] = "error"
    BY DEF CallInv, OvertakenOnlyIfFailed
  <2>2. passed[q] \in AllReports
    BY ElementOfSeq DEF CallInv, TypeReports
  <2> QED
    BY <1>4, <1>5, <2>1, <2>2
<1> QED
  BY <1>7, <1>8, <1>9, <1>10, <1>11, <1>12 DEF CallInv
----------------------------------------------------------------------------
(* The manager's steps leave the workers alone.                            *)
LEMMA NetworkStep ==
  ASSUME CallInv, NEW r \in AllReports, Arrive(r) \/ Lose(r)
  PROVE  CallInv'
<1> USE DEF pusherVars
<1>1. /\ r \in network /\ network' = network \ {r}
      /\ UNCHANGED <<thread_, collected, answers, passed>>
      /\ \/ handlers' = handlers
         \/ handlers' = handlers \cup {[report |-> r, at |-> "begin"]}
  BY DEF Arrive, Lose, Receive, serverVars
<1>2. \A x \in AllReports : Passed(x)' <=> Passed(x)
  BY <1>1 DEF Passed
<1>3. ~Passed(r) /\ r[2] <= collected[r[1]] /\ \A h \in handlers : h.report # r
  BY <1>1 DEF CallInv, PassedByCall, Placed
<1>4. TypeReports'
  BY <1>1 DEF CallInv, TypeReports, Stages
<1>5. Placed'
  BY <1>1, <1>2, <1>3 DEF CallInv, Placed
<1>6. PassedByCall'
  BY <1>1, <1>2, <1>3 DEF CallInv, TypeReports, PassedByCall, Passed
<1>7. Idle' /\ Answered' /\ OvertakenOnlyIfFailed'
  <2>1. Answered'
    BY <1>1, <1>2 DEF CallInv, Answered
  <2>2. Idle'
    BY DEF Arrive, Lose, CallInv, Idle
  <2> QED
    BY <1>1, <2>1, <2>2 DEF CallInv, OvertakenOnlyIfFailed
<1> QED
  BY <1>4, <1>5, <1>6, <1>7 DEF CallInv

(* A call moves on without the callback.                                   *)
LEMMA HandleStep ==
  ASSUME CallInv, NEW h \in handlers, Refuse(h) \/ Store(h), UNCHANGED <<pusherVars, netVars>>
  PROVE  CallInv'
<1> USE DEF pusherVars, netVars
<1> DEFINE g == [h EXCEPT !.at = IF HostOf(h.report) = NoHost THEN "refused" ELSE "stored"]
<1>1. /\ UNCHANGED <<thread_, collected, answers, network, passed>>
      /\ h.at = "begin"
      /\ handlers' = (handlers \ {h}) \cup {g}
  BY DEF Refuse, Store, Move
<1>2. h \in [report : AllReports, at : Stages]
  BY DEF CallInv, TypeReports
<1>3. g \in [report : AllReports, at : Stages] /\ g.report = h.report /\ g.at # "ok"
  BY <1>2 DEF Stages
<1> HIDE DEF g
<1>4. \A x \in AllReports : Passed(x)' <=> Passed(x)
  BY <1>1 DEF Passed
<1>5. TypeReports'
  BY <1>1, <1>3 DEF CallInv, TypeReports
<1>6. Placed'
  BY <1>1, <1>3, <1>4 DEF CallInv, Placed
<1>7. PassedByCall'
  BY <1>1, <1>2, <1>3, <1>4 DEF CallInv, TypeReports, PassedByCall, Passed
<1>8. Idle' /\ Answered' /\ OvertakenOnlyIfFailed'
  <2>1. Idle' /\ Answered'
    BY <1>1, <1>4 DEF CallInv, Idle, Answered
  <2> QED
    BY <1>1, <2>1 DEF CallInv, OvertakenOnlyIfFailed
<1> QED
  BY <1>5, <1>6, <1>7, <1>8 DEF CallInv

(* The callback passes a report on for the first time. The reports of its  *)
(* worker that came before it and are newer were collected after its call  *)
(* had failed.                                                             *)
LEMMA CallbackStep ==
  ASSUME CallInv, NEW h \in handlers, Callback(h), UNCHANGED <<pusherVars, netVars>>
  PROVE  CallInv'
<1> USE DEF pusherVars, netVars
<1> DEFINE g == [h EXCEPT !.at = "ok"]
           s == h.report
           n == Len(passed)
<1>1. /\ UNCHANGED <<thread_, collected, answers, network>>
      /\ h.at = "stored"
      /\ handlers' = (handlers \ {h}) \cup {g}
      /\ passed' = Append(passed, s)
  BY DEF Callback, Move
<1>2. h \in [report : AllReports, at : Stages] /\ s \in AllReports
  BY DEF CallInv, TypeReports
<1>3. g \in [report : AllReports, at : Stages] /\ g.report = s /\ g.at = "ok"
  BY <1>2 DEF Stages
<1>4. passed \in Seq(AllReports)
  BY DEF CallInv, TypeReports
<1> HIDE DEF g, s
<1>5. /\ n \in Nat /\ Len(passed') = n + 1 /\ passed'[n + 1] = s
      /\ \A p \in 1 .. n : passed'[p] = passed[p]
      /\ passed' \in Seq(AllReports)
  BY <1>1, <1>2, <1>4, AppendProperties, LenProperties
<1> HIDE DEF n
<1>6. \A p \in 1 .. n + 1 : p \in 1 .. n \/ p = n + 1
  BY <1>5
<1>7. \A p \in 1 .. n : passed[p] # s /\ passed[p] \in AllReports
  BY <1>1, <1>4, ElementOfSeq DEF CallInv, PassedByCall, Passed, s, n
<1>8. \A x \in AllReports : Passed(x)' <=> Passed(x) \/ x = s
  <2> SUFFICES ASSUME NEW x \in AllReports
               PROVE  (\E p \in 1 .. n + 1 : passed'[p] = x)
                        <=> (\E p \in 1 .. n : passed[p] = x) \/ x = s
    BY <1>5 DEF Passed, n
  <2> QED
    BY <1>5, <1>6
<1>9. TypeReports'
  BY <1>1, <1>3, <1>5 DEF CallInv, TypeReports
<1>10. s[2] <= collected[s[1]] /\ s \notin network
  BY <1>2 DEF CallInv, Placed, s
<1>11. Placed'
  BY <1>1, <1>2, <1>3, <1>8, <1>10 DEF CallInv, Placed, s
<1>12. PassedByCall'
  <2>1. \A r \in network : ~Passed(r)'
    BY <1>8, <1>10 DEF CallInv, TypeReports, PassedByCall
  <2>2. ASSUME NEW f \in handlers'
        PROVE  Passed(f.report)' <=> f.at = "ok"
    <3>1. CASE f = g
      BY <1>2, <1>3, <1>8, <3>1
    <3>2. CASE f \in handlers /\ f # h
      <4>1. f.report # s /\ f.report \in AllReports
        BY <3>2 DEF CallInv, TypeReports, Placed, s
      <4>2. Passed(f.report) <=> f.at = "ok"
        BY <3>2 DEF CallInv, PassedByCall
      <4>3. PICK x \in AllReports : x = f.report
        BY <4>1
      <4> QED
        BY <1>8, <4>1, <4>2, <4>3 DEF Passed
    <3> QED
      BY <1>1, <2>2, <3>1, <3>2
  <2>3. ASSUME NEW p \in 1 .. n + 1, NEW q \in 1 .. n + 1, passed'[p] = passed'[q]
        PROVE  p = q
    <3>1. CASE p \in 1 .. n /\ q \in 1 .. n
      BY <1>5, <2>3, <3>1 DEF CallInv, PassedByCall, n
    <3> QED
      BY <1>5, <1>6, <1>7, <2>3, <3>1
  <2> QED
    BY <1>1, <1>5, <2>1, <2>2, <2>3 DEF PassedByCall
<1>13. Idle' /\ Answered'
  BY <1>1, <1>8 DEF CallInv, Idle, Answered
<1>14. OvertakenOnlyIfFailed'
  <2> SUFFICES ASSUME NEW p \in 1 .. n + 1, NEW q \in 1 .. n + 1, p < q,
                      passed'[p][1] = passed'[q][1], passed'[q][2] < passed'[p][2]
               PROVE  answers[passed'[q]] = "error"
    BY <1>1, <1>5 DEF OvertakenOnlyIfFailed
  <2>1. p \in 1 .. n /\ passed'[p] = passed[p]
    BY <1>5
  <2>2. CASE q \in 1 .. n
    BY <1>5, <2>1, <2>2 DEF CallInv, OvertakenOnlyIfFailed, n
  <2>3. CASE q = n + 1
    <3>1. passed'[q] = s
      BY <1>5, <2>3
    <3>2. passed[p] \in AllReports /\ passed[p][2] <= collected[passed[p][1]]
      BY <1>7, <2>1 DEF CallInv, Placed, Passed, n
    <3>3. /\ s[1] \in Workers /\ s[2] \in Nat /\ passed[p][2] \in Nat
          /\ collected[s[1]] \in Nat
      BY <1>2, <3>2, ReportParts, PusherAssumption DEF CallInv, TypeReports
    <3>4. s[2] < collected[s[1]]
      BY <2>1, <3>1, <3>2, <3>3
    <3>5. answers[s] # "none"
      BY <1>2, <3>3, <3>4 DEF CallInv, Answered
    <3>6. answers[s] # "ok"
      BY <1>1, <1>2 DEF CallInv, Answered, PassedByCall, s
    <3> QED
      BY <1>2, <3>1, <3>5, <3>6 DEF CallInv, TypeReports
  <2> QED
    BY <1>6, <2>2, <2>3
<1> QED
  BY <1>9, <1>11, <1>12, <1>13, <1>14 DEF CallInv

(* The status of a call whose worker does not wait any more is dropped.    *)
LEMMA DropStep ==
  ASSUME CallInv, handlers' \subseteq handlers, UNCHANGED <<pusherVars, network, answers, passed>>
  PROVE  CallInv'
<1> USE DEF pusherVars
<1>1. \A x \in AllReports : Passed(x)' <=> Passed(x)
  BY DEF Passed
<1>2. TypeReports' /\ Placed'
  BY <1>1 DEF CallInv, TypeReports, Placed
<1>3. PassedByCall'
  BY DEF CallInv, PassedByCall, Passed
<1>4. Idle' /\ Answered' /\ OvertakenOnlyIfFailed'
  <2>1. Idle' /\ Answered'
    BY <1>1 DEF CallInv, Idle, Answered
  <2> QED
    BY <2>1 DEF CallInv, OvertakenOnlyIfFailed
<1> QED
  BY <1>2, <1>3, <1>4 DEF CallInv

LEMMA ReturnStep ==
  ASSUME CallInv, NEW r \in AllReports, Return(r)
  PROVE  CallInv'
<1>1. PICK h \in handlers :
        /\ h.report = r /\ h.at \in {"ok", "refused"}
        /\ handlers' = handlers \ {h} /\ UNCHANGED <<network, passed>>
        /\ IF thread_[r[1]] = "calling" /\ Report(r[1]) = r
           THEN /\ Returned(r[1])
                /\ answers' = [answers EXCEPT ![r] = IF h.at = "ok" THEN "ok" ELSE "error"]
           ELSE UNCHANGED <<pusherVars, answers>>
  BY DEF Return, HandlersOf, Reply
<1>2. CASE thread_[r[1]] = "calling" /\ Report(r[1]) = r
  <2>1. h.at = "ok" => Passed(r)
    BY <1>1 DEF CallInv, PassedByCall
  <2>2. r[1] \in Workers
    BY ReportParts
  <2>3. PICK answer \in {"ok", "error"} : answer = IF h.at = "ok" THEN "ok" ELSE "error"
    OBVIOUS
  <2> QED
    BY <1>1, <1>2, <2>1, <2>2, <2>3, AnswerStep
<1>3. CASE ~(thread_[r[1]] = "calling" /\ Report(r[1]) = r)
  BY <1>1, <1>3, DropStep
<1> QED
  BY <1>2, <1>3
----------------------------------------------------------------------------
LEMMA InitCallInv == Init => CallInv
<1> SUFFICES ASSUME Init PROVE CallInv
  OBVIOUS
<1> USE DEF Init, PusherInit, ServerInit
<1>1. Len(passed) = 0 /\ passed \in Seq(AllReports)
  BY EmptySeq
<1>2. TypeReports
  BY <1>1, PusherAssumption DEF TypeReports
<1>3. Idle /\ Placed /\ PassedByCall /\ OvertakenOnlyIfFailed
  BY <1>1 DEF Idle, Placed, PassedByCall, Passed, OvertakenOnlyIfFailed
<1>4. Answered
  <2>1. ASSUME NEW r \in AllReports
        PROVE  ~(r[2] <= collected[r[1]])
    BY ReportParts
  <2> QED
    BY <2>1, ReportParts DEF Answered
<1> QED
  BY <1>2, <1>3, <1>4 DEF CallInv

LEMMA NextKeepsCalls == CallInv /\ [Next]_vars => CallInv'
<1> SUFFICES ASSUME CallInv, [Next]_vars
             PROVE  CallInv'
  OBVIOUS
<1>1. CASE UNCHANGED vars
  BY <1>1, WorkerStep DEF vars, pusherVars, CallInv, TypeReports, Idle
<1>2. ASSUME NEW w \in Workers, Owner(w) \/ Thread(w)
      PROVE  CallInv'
  <2>1. UNCHANGED <<serverVars, netVars, collected>>
    BY <1>2 DEF Owner, Thread, Start, Stop, Join, Loop, Wait
  <2>2. /\ thread_' \in [Workers -> {"none", "loop", "push", "calling", "wait", "exited"}]
        /\ \A v \in Workers : thread_'[v] = "calling" <=> thread_[v] = "calling"
    <3>1. CASE Start(w)
      BY <3>1 DEF Start, Goto, CallInv, TypeReports, Idle
    <3>2. CASE Stop(w)
      BY <3>2 DEF Stop, CallInv, TypeReports
    <3>3. CASE Join(w) \/ Loop(w) \/ Wait(w)
      BY <3>3 DEF Join, Loop, Wait, Goto, CallInv, TypeReports
    <3> QED
      BY <1>2, <3>1, <3>2, <3>3 DEF Owner, Thread
  <2>3. Idle'
    BY <1>2 DEF Owner, Thread, Start, Stop, Join, Loop, Wait, Goto, CallInv, TypeReports, Idle
  <2> QED
    BY <2>1, <2>2, <2>3, WorkerStep
<1>3. ASSUME NEW w \in Workers, Send(w)
      PROVE  CallInv'
  BY <1>3, SendStep
<1>4. ASSUME NEW w \in Workers, Fail(w)
      PROVE  CallInv'
  <2>1. handlers' \subseteq handlers /\ UNCHANGED <<network, passed>>
    BY <1>4 DEF Fail, serverVars
  <2> QED
    BY <1>4, <2>1, AnswerStep DEF Fail
<1>5. ASSUME NEW r \in AllReports, Arrive(r) \/ Lose(r)
      PROVE  CallInv'
  BY <1>5, NetworkStep
<1>6. ASSUME NEW r \in AllReports, Serve(r)
      PROVE  CallInv'
  BY <1>6, HandleStep, CallbackStep DEF Serve, HandlersOf, Handle
<1>7. ASSUME NEW r \in AllReports, Return(r)
      PROVE  CallInv'
  BY <1>7, ReturnStep
<1> QED
  BY <1>1, <1>2, <1>3, <1>4, <1>5, <1>6, <1>7 DEF Next

LEMMA OccursOnce == CallInv => ExactlyOnceIfOk
<1> SUFFICES ASSUME CallInv, NEW r \in AllReports
             PROVE  Occurrences(r) <= 1 /\ (Passed(r) => Occurrences(r) = 1)
  BY DEF ExactlyOnceIfOk, CallInv, Answered
<1> DEFINE places == {p \in 1 .. Len(passed) : passed[p] = r}
<1>1. CASE Passed(r)
  <2>1. PICK p \in 1 .. Len(passed) : passed[p] = r
    BY <1>1 DEF Passed
  <2>2. places = {p}
    BY <2>1 DEF CallInv, PassedByCall
  <2>3. Cardinality(places) = 1
    BY <2>2, FS_Singleton
  <2> QED
    BY <2>3 DEF Occurrences
<1>2. CASE ~Passed(r)
  <2>1. places = {}
    BY <1>2 DEF Passed
  <2>2. Cardinality(places) = 0
    BY <2>1, FS_EmptySet
  <2> QED
    BY <1>2, <2>2 DEF Occurrences
<1> QED
  BY <1>1, <1>2

(* A report reaches the HostManager at most once, and exactly once if its  *)
(* worker was told OK (PushOnce and SetMonitorInfo).                       *)
THEOREM ExactlyOnceCorrect == Spec => []ExactlyOnceIfOk
BY InitCallInv, NextKeepsCalls, OccursOnce, PTL DEF Spec

(* A worker's reports arrive in the order in which they were collected,    *)
(* but for those whose calls failed (PushLoop and SetMonitorInfo).         *)
THEOREM OvertakenCorrect == Spec => []OvertakenOnlyIfFailed
<1>1. CallInv => OvertakenOnlyIfFailed
  BY DEF CallInv
<1> QED
  BY <1>1, InitCallInv, NextKeepsCalls, PTL DEF Spec
----------------------------------------------------------------------------
LEMMA InitTypeOK == Init => TypeOK
BY PusherAssumption, EmptySeq DEF Init, PusherInit, ServerInit, TypeOK, PusherTypeOK

LEMMA WorkerKeepsType ==
  ASSUME TypeOK, NEW w \in Workers,
         Start(w) \/ Stop(w) \/ Join(w) \/ Loop(w) \/ Wait(w) \/ Push(w) \/ Returned(w)
  PROVE  PusherTypeOK'
<1> USE DEF PusherTypeOK, Goto
<1>1. PusherTypeOK /\ interval_seconds_ \in Nat /\ MaxReports \in Nat
  BY PusherAssumption DEF TypeOK
<1>2. CASE Start(w) \/ Stop(w) \/ Join(w)
  BY <1>1, <1>2 DEF Start, Stop, Join
<1>3. CASE Loop(w)
  BY <1>1, <1>3 DEF Loop
<1>4. CASE Wait(w)
  <2>1. waited[w] < interval_seconds_ => waited[w] + 1 \in 0 .. interval_seconds_
    BY <1>1
  <2> QED
    BY <1>1, <1>4, <2>1 DEF Wait
<1>5. CASE Push(w)
  <2>1. collected[w] + 1 \in 0 .. MaxReports
    BY <1>1, <1>5 DEF Push
  <2> QED
    BY <1>1, <1>5, <2>1 DEF Push
<1>6. CASE Returned(w)
  BY <1>1, <1>6 DEF Returned
<1> QED
  BY <1>2, <1>3, <1>4, <1>5, <1>6

LEMMA NextKeepsType == TypeOK /\ [Next]_vars => TypeOK'
<1> SUFFICES ASSUME TypeOK, [Next]_vars
             PROVE  TypeOK'
  OBVIOUS
<1> USE DEF TypeOK
<1>1. CASE UNCHANGED vars
  BY <1>1 DEF vars, pusherVars, serverVars, netVars, PusherTypeOK
<1>2. ASSUME NEW w \in Workers, Owner(w) \/ Thread(w)
      PROVE  TypeOK'
  BY <1>2, WorkerKeepsType DEF Owner, Thread, serverVars, netVars
<1>3. ASSUME NEW w \in Workers, Send(w)
      PROVE  TypeOK'
  <2>1. <<w, collected'[w]>> \in AllReports
    BY <1>3, PusherAssumption DEF Send, Push, PusherTypeOK, AllReports
  <2> QED
    BY <1>3, <2>1, WorkerKeepsType DEF Send, serverVars
<1>4. ASSUME NEW w \in Workers, Fail(w)
      PROVE  TypeOK'
  BY <1>4, WorkerKeepsType DEF Fail, serverVars
<1>5. ASSUME NEW r \in AllReports, Arrive(r) \/ Lose(r)
      PROVE  TypeOK'
  BY <1>5 DEF Arrive, Lose, Receive, pusherVars, serverVars, PusherTypeOK
<1>6. ASSUME NEW r \in AllReports, Serve(r)
      PROVE  TypeOK'
  <2>1. PICK h \in handlers : Handle(h) /\ UNCHANGED <<pusherVars, netVars>> /\ h.report = r
    BY <1>6 DEF Serve, HandlersOf
  <2>2. \A l \in Stages : Move(h, l) => handlers' \subseteq [report : AllReports, at : Stages]
    BY DEF Move, Stages
  <2>3. CASE Refuse(h)
    BY <2>1, <2>2, <2>3 DEF Refuse, pusherVars, netVars, PusherTypeOK, Stages
  <2>4. CASE Store(h)
    <3>1. HostOf(r) \in Hosts
      BY <2>1, <2>4 DEF Store, Hosts
    <3> QED
      BY <2>1, <2>2, <2>4, <3>1 DEF Store, pusherVars, netVars, PusherTypeOK, Stages
  <2>5. CASE Callback(h)
    BY <2>1, <2>2, <2>5, AppendProperties DEF Callback, pusherVars, netVars, PusherTypeOK, Stages
  <2> QED
    BY <2>1, <2>3, <2>4, <2>5 DEF Handle
<1>7. ASSUME NEW r \in AllReports, Return(r)
      PROVE  TypeOK'
  <2>1. handlers' \subseteq handlers /\ UNCHANGED <<host_data_, passed, network>>
    BY <1>7 DEF Return, HandlersOf, Reply
  <2>2. answers' \in [AllReports -> {"none", "ok", "error"}]
    BY <1>7 DEF Return
  <2>3. PusherTypeOK'
    BY <1>7, ReportParts, WorkerKeepsType DEF Return, pusherVars, PusherTypeOK
  <2> QED
    BY <2>1, <2>2, <2>3
<1> QED
  BY <1>1, <1>2, <1>3, <1>4, <1>5, <1>6, <1>7 DEF Next

(* The types of the composition of workers, network and manager.           *)
THEOREM TypeCorrect == Spec => []TypeOK
BY InitTypeOK, NextKeepsType, PTL DEF Spec
----------------------------------------------------------------------------
(* One worker alone speaks for host h, and none of its calls failed.       *)
Speaks(w, h) ==
  \A r \in AllReports : HostOf(r) = h => r[1] = w /\ answers[r] # "error"

(* The table shows the last report that was passed on for host h.          *)
Agrees(h) ==
  IF PassedFor(h) = {} THEN host_data_[h] = NoReport
  ELSE \E p \in PassedFor(h) : /\ host_data_[h] = passed[p]
                               /\ \A q \in PassedFor(h) : q <= p

Storing(h) == {g \in handlers : HostOf(g.report) = h /\ g.at = "stored"}

(* Between Store and Callback, the table is one report ahead.              *)
TableInv ==
  \A w \in Workers : \A h \in Hosts : Speaks(w, h) =>
    /\ \A g \in Storing(h) : host_data_[h] = g.report
    /\ Storing(h) = {} => Agrees(h)

(* Such a worker is in one call at a time.                                 *)
LEMMA OneCall ==
  ASSUME CallInv, NEW w \in Workers, NEW h, Speaks(w, h),
         NEW f \in handlers, HostOf(f.report) = h, f.at # "ok",
         NEW g \in handlers, HostOf(g.report) = h, g.at # "ok"
  PROVE  f = g
<1>1. f.report \in AllReports /\ g.report \in AllReports
  BY DEF CallInv, TypeReports
<1>2. PICK r \in AllReports, s \in AllReports : r = f.report /\ s = g.report
  BY <1>1
<1>3. ~Passed(r) /\ ~Passed(s)
  BY <1>2 DEF CallInv, PassedByCall
<1>4. /\ r[1] = w /\ answers[r] = "none" /\ r[2] <= collected[w]
      /\ s[1] = w /\ answers[s] = "none" /\ s[2] <= collected[w]
  BY <1>2, <1>3 DEF Speaks, CallInv, TypeReports, Answered, Placed
<1>5. r[2] = collected[w] /\ s[2] = collected[w]
  BY <1>4 DEF CallInv, Answered
<1>6. r = s
  BY <1>4, <1>5, ReportParts
<1> QED
  BY <1>2, <1>6 DEF CallInv, Placed

(* An error is never taken back.                                           *)
LEMMA SpeaksBefore ==
  ASSUME CallInv, [Next]_vars, NEW w, NEW h, Speaks(w, h)'
  PROVE  Speaks(w, h)
<1>1. ASSUME NEW r \in AllReports, answers[r] = "error"
      PROVE  answers'[r] = "error"
  <2>1. ASSUME NEW s \in AllReports, answers[s] = "none", NEW a,
               answers' = [answers EXCEPT ![s] = a]
        PROVE  answers'[r] = "error"
    BY <1>1, <2>1 DEF CallInv, TypeReports
  <2>2. ASSUME NEW v \in Workers, Returned(v)
        PROVE  Report(v) \in AllReports /\ answers[Report(v)] = "none"
    <3>1. Report(v) \in AllReports /\ Report(v)[1] = v /\ Report(v)[2] = collected[v]
      BY <2>2, PusherAssumption DEF Returned, CallInv, TypeReports, Answered, Report, AllReports
    <3> QED
      BY <2>2, <3>1 DEF Returned, CallInv, Answered
  <2>3. ASSUME NEW v \in Workers, Fail(v)
        PROVE  answers'[r] = "error"
    BY <2>1, <2>2, <2>3 DEF Fail
  <2>4. ASSUME NEW s \in AllReports, Return(s)
        PROVE  answers'[r] = "error"
    <3>1. s[1] \in Workers
      BY ReportParts
    <3> QED
      BY <1>1, <2>1, <2>2, <2>4, <3>1 DEF Return
  <2> QED
    BY <1>1, <2>3, <2>4 DEF Next, Owner, Thread, Send, Arrive, Lose, Serve, netVars, vars
<1> QED
  BY <1>1 DEF Speaks

LEMMA InitTableInv == Init => TableInv
<1> SUFFICES ASSUME Init, NEW h \in Hosts
             PROVE  Agrees(h) /\ Storing(h) = {}
  BY DEF TableInv
<1>1. PassedFor(h) = {}
  BY EmptySeq DEF Init, ServerInit, PassedFor
<1> QED
  BY <1>1 DEF Init, ServerInit, Agrees, Storing

(* A step that neither stores nor passes on a report.                      *)
LEMMA QuietKeepsTable ==
  ASSUME TableInv, UNCHANGED <<host_data_, passed>>,
         \A w, h : Speaks(w, h)' => Speaks(w, h),
         \A g : g.at = "stored" => (g \in handlers' <=> g \in handlers)
  PROVE  TableInv'
<1>1. \A h : Storing(h)' = Storing(h) /\ (Agrees(h)' <=> Agrees(h))
  BY DEF Storing, Agrees, PassedFor
<1> QED
  BY <1>1 DEF TableInv

LEMMA StoreKeepsTable ==
  ASSUME TypeOK, CallInv, TableInv, NEW g \in handlers, Store(g),
         UNCHANGED <<pusherVars, netVars>>
  PROVE  TableInv'
<1> DEFINE f == [g EXCEPT !.at = "stored"]
<1>1. /\ g.at = "begin" /\ handlers' = (handlers \ {g}) \cup {f}
      /\ passed' = passed
      /\ host_data_' = [host_data_ EXCEPT ![HostOf(g.report)] = g.report]
  BY DEF Store, Move
<1>2. f.report = g.report /\ f.at = "stored"
  BY DEF CallInv, TypeReports
<1> HIDE DEF f
<1> SUFFICES ASSUME NEW w \in Workers, NEW h \in Hosts, Speaks(w, h)
             PROVE  /\ \A e \in Storing(h)' : host_data_'[h] = e.report
                    /\ Storing(h)' = {} => Agrees(h)'
  BY DEF TableInv, Speaks, netVars
<1>3. CASE HostOf(g.report) = h
  <2>1. Storing(h) = {}
    BY <1>1, <1>3, OneCall DEF Storing
  <2>2. Storing(h)' = {f}
    BY <1>1, <1>2, <1>3, <2>1 DEF Storing
  <2>3. host_data_'[h] = g.report
    BY <1>1, <1>3 DEF TypeOK
  <2> QED
    BY <1>2, <2>2, <2>3
<1>4. CASE HostOf(g.report) # h
  <2>1. Storing(h)' = Storing(h)
    BY <1>1, <1>2, <1>4 DEF Storing
  <2>2. host_data_'[h] = host_data_[h]
    BY <1>1, <1>4 DEF TypeOK
  <2>3. Agrees(h)' <=> Agrees(h)
    BY <1>1, <2>2 DEF Agrees, PassedFor
  <2> QED
    BY <2>1, <2>2, <2>3 DEF TableInv
<1> QED
  BY <1>3, <1>4

LEMMA CallbackKeepsTable ==
  ASSUME TypeOK, CallInv, TableInv, NEW g \in handlers, Callback(g),
         UNCHANGED <<pusherVars, netVars>>
  PROVE  TableInv'
<1> DEFINE f == [g EXCEPT !.at = "ok"]
           n == Len(passed)
<1>1. /\ g.at = "stored" /\ handlers' = (handlers \ {g}) \cup {f}
      /\ passed' = Append(passed, g.report)
      /\ host_data_' = host_data_
  BY DEF Callback, Move
<1>2. f.report = g.report /\ f.at = "ok"
  BY DEF CallInv, TypeReports
<1>3. g.report \in AllReports /\ passed \in Seq(AllReports)
  BY DEF CallInv, TypeReports
<1> HIDE DEF f
<1>4. /\ n \in Nat /\ Len(passed') = n + 1 /\ passed'[n + 1] = g.report
      /\ \A p \in 1 .. n : passed'[p] = passed[p]
  BY <1>1, <1>3, AppendProperties, LenProperties
<1> SUFFICES ASSUME NEW w \in Workers, NEW h \in Hosts, Speaks(w, h)
             PROVE  /\ \A e \in Storing(h)' : host_data_'[h] = e.report
                    /\ Storing(h)' = {} => Agrees(h)'
  BY DEF TableInv, Speaks, netVars
<1>5. PassedFor(h) = {p \in 1 .. n : HostOf(passed[p]) = h}
  BY DEF PassedFor
<1>6. PassedFor(h)' = {p \in 1 .. n + 1 : HostOf(passed'[p]) = h}
  BY <1>4 DEF PassedFor
<1> HIDE DEF n
<1>7. CASE HostOf(g.report) = h
  <2>1. host_data_[h] = g.report
    BY <1>1, <1>7 DEF TableInv, Storing
  <2>2. Storing(h)' = {}
    BY <1>1, <1>2, <1>7, OneCall DEF Storing
  <2>3. n + 1 \in PassedFor(h)' /\ \A q \in PassedFor(h)' : q <= n + 1
    BY <1>4, <1>6, <1>7
  <2>4. Agrees(h)'
    BY <1>1, <1>4, <2>1, <2>3 DEF Agrees
  <2> QED
    BY <2>2, <2>4
<1>8. CASE HostOf(g.report) # h
  <2>1. Storing(h)' = Storing(h)
    BY <1>1, <1>2, <1>8 DEF Storing
  <2>2. PassedFor(h)' = PassedFor(h)
    BY <1>4, <1>5, <1>6, <1>8
  <2>3. \A p \in PassedFor(h) : passed'[p] = passed[p]
    BY <1>4, <1>5
  <2>4. Agrees(h) => Agrees(h)'
    BY <1>1, <2>2, <2>3 DEF Agrees
  <2> QED
    BY <1>1, <2>1, <2>4 DEF TableInv
<1> QED
  BY <1>7, <1>8

LEMMA NextKeepsTable == TypeOK /\ CallInv /\ TableInv /\ [Next]_vars => TableInv'
<1> SUFFICES ASSUME TypeOK, CallInv, TableInv, [Next]_vars
             PROVE  TableInv'
  OBVIOUS
<1>1. \A w, h : Speaks(w, h)' => Speaks(w, h)
  BY SpeaksBefore
<1>2. CASE UNCHANGED vars \/ \E w \in Workers : Owner(w) \/ Thread(w) \/ Send(w) \/ Fail(w)
  BY <1>1, <1>2, QuietKeepsTable DEF vars, Owner, Thread, Send, Fail, serverVars
<1>3. ASSUME NEW r \in AllReports, Arrive(r) \/ Lose(r)
      PROVE  TableInv'
  <2>1. UNCHANGED <<host_data_, passed>>
    BY <1>3 DEF Arrive, Lose, Receive, serverVars
  <2>2. \A g : g.at = "stored" => (g \in handlers' <=> g \in handlers)
    BY <1>3 DEF Arrive, Lose, Receive, serverVars
  <2> QED
    BY <1>1, <2>1, <2>2, QuietKeepsTable
<1>4. ASSUME NEW r \in AllReports, Serve(r)
      PROVE  TableInv'
  <2>1. PICK g \in handlers : Handle(g) /\ UNCHANGED <<pusherVars, netVars>>
    BY <1>4 DEF Serve, HandlersOf
  <2>2. CASE Refuse(g)
    <3>1. [g EXCEPT !.at = "refused"].at # "stored" /\ g.at # "stored"
      BY <2>2 DEF Refuse, CallInv, TypeReports
    <3>2. \A e : e.at = "stored" => (e \in handlers' <=> e \in handlers)
      BY <2>2, <3>1 DEF Refuse, Move
    <3>3. UNCHANGED <<host_data_, passed>>
      BY <2>2 DEF Refuse
    <3> QED
      BY <1>1, <3>2, <3>3, QuietKeepsTable
  <2> QED
    BY <2>1, <2>2, StoreKeepsTable, CallbackKeepsTable DEF Handle
<1>5. ASSUME NEW r \in AllReports, Return(r)
      PROVE  TableInv'
  <2>1. PICK g \in handlers : Reply(g)
    BY <1>5 DEF Return, HandlersOf
  <2>2. \A e : e.at = "stored" => (e \in handlers' <=> e \in handlers)
    BY <2>1 DEF Reply
  <2> QED
    BY <1>1, <2>1, <2>2, QuietKeepsTable DEF Reply
<1> QED
  BY <1>2, <1>3, <1>4, <1>5 DEF Next

(* Once the calls about a host are handled, the table of the service shows *)
(* the report that the HostManager got last (SetMonitorInfo), if one       *)
(* worker speaks for the host and its calls succeed.                       *)
THEOREM TableCorrect == Spec => []TableAgreesWithQueue
<1>1. CallInv /\ TableInv => TableAgreesWithQueue
  <2> SUFFICES ASSUME CallInv, TableInv, NEW w \in Workers,
                      NEW h \in {HostOf(<<w, n>>) : n \in 1 .. MaxReports} \ {NoHost},
                      \A r \in AllReports : HostOf(r) = h => r[1] = w /\ answers[r] # "error",
                      \A g \in handlers : HostOf(g.report) # h \/ g.at = "ok"
               PROVE  IF PassedFor(h) = {} THEN host_data_[h] = NoReport
                      ELSE \E p \in PassedFor(h) : /\ host_data_[h] = passed[p]
                                                   /\ \A q \in PassedFor(h) : q <= p
    BY Zenon DEF TableAgreesWithQueue
  <2>1. h \in Hosts
    BY DEF Hosts, AllReports
  <2>2. Storing(h) = {} /\ Speaks(w, h)
    BY DEF Storing, Speaks
  <2> QED
    BY <2>1, <2>2 DEF TableInv, Agrees
<1> QED
  BY <1>1, InitTypeOK, NextKeepsType, InitCallInv, NextKeepsCalls, InitTableInv, NextKeepsTable,
     PTL DEF Spec
=============================================================================
