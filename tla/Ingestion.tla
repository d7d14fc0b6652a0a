----------------------------- MODULE Ingestion -----------------------------
(***************************************************************************)
(* Workers push reports to the manager: MonitorPusher and GrpcServer, with *)
(* gRPC between them. A call fails when its connection breaks; what was    *)
(* sent may still arrive, or be handled to its end, while the worker makes *)
(* its next call over a new connection. No report is sent a second time.   *)
(***************************************************************************)
EXTENDS MonitorPusher, GrpcServer, FiniteSets

VARIABLES
  network,   \* the requests under way to the manager
  answers    \* how a report's call ended: "none", "ok" or "error"

netVars == <<network, answers>>
vars == <<pusherVars, serverVars, netVars>>

AllReports == Workers \X (1 .. MaxReports)

Hosts == {HostOf(r) : r \in AllReports} \ {NoHost}

Init ==
  /\ PusherInit
  /\ ServerInit(Hosts)
  /\ network = {}
  /\ answers = [r \in AllReports |-> "none"]
----------------------------------------------------------------------------
(* The worker's steps by itself.                                           *)
Owner(w) == (Start(w) \/ Stop(w)) /\ UNCHANGED <<serverVars, netVars>>

Thread(w) == (Join(w) \/ Loop(w) \/ Wait(w)) /\ UNCHANGED <<serverVars, netVars>>

Send(w) ==
  /\ Push(w)
  /\ network' = network \cup {<<w, collected'[w]>>}
  /\ UNCHANGED <<serverVars, answers>>

Arrive(r) ==
  /\ r \in network
  /\ network' = network \ {r}
  /\ Receive(r)
  /\ UNCHANGED <<pusherVars, answers>>

Lose(r) ==
  /\ r \in network
  /\ network' = network \ {r}
  /\ UNCHANGED <<pusherVars, serverVars, answers>>

HandlersOf(r) == {h \in handlers : h.report = r}

Serve(r) == \E h \in HandlersOf(r) : Handle(h) /\ UNCHANGED <<pusherVars, netVars>>

(* The status reaches the caller, if it still waits for it.                *)
Return(r) ==
  \E h \in HandlersOf(r) :
    /\ Reply(h)
    /\ IF thread_[r[1]] = "calling" /\ Report(r[1]) = r
       THEN /\ Returned(r[1])
            /\ answers' = [answers EXCEPT ![r] = IF h.at = "ok" THEN "ok" ELSE "error"]
       ELSE UNCHANGED <<pusherVars, answers>>
    /\ UNCHANGED network

(* The connection breaks while the worker waits in its call.               *)
(* Mutant of Fail: the status of the call is not looked at.                *)
FailUnnoticed(w) ==
  /\ Returned(w)
  /\ answers' = [answers EXCEPT ![Report(w)] = "ok"]
  /\ UNCHANGED <<serverVars, network>>

Fail(w) ==
  /\ Returned(w)
  /\ answers' = [answers EXCEPT ![Report(w)] = "error"]
  /\ UNCHANGED <<serverVars, network>>

CallEnds(w) == Fail(w) \/ Return(Report(w))
----------------------------------------------------------------------------
Next ==
  \/ \E w \in Workers : Owner(w) \/ Thread(w) \/ Send(w) \/ Fail(w)
  \/ \E r \in AllReports : Arrive(r) \/ Lose(r) \/ Serve(r) \/ Return(r)

Spec == Init /\ [][Next]_vars

(* The scheduler runs every thread that can run, and a sleep ends. A call  *)
(* has no deadline: that it ends at all is up to gRPC, which reports a     *)
(* broken connection, and is assumed. Nothing obliges a request to arrive, *)
(* or an owner to start or stop.                                           *)
Fairness ==
  /\ \A w \in Workers :
       WF_vars(Thread(w)) /\ WF_vars(Send(w)) /\ WF_vars(CallEnds(w))
  /\ \A r \in AllReports : WF_vars(Serve(r))

FairSpec == Spec /\ Fairness
----------------------------------------------------------------------------
TypeOK ==
  /\ PusherTypeOK
  /\ network \subseteq AllReports
  /\ answers \in [AllReports -> {"none", "ok", "error"}]
  /\ handlers \subseteq [report : AllReports, at : {"begin", "stored", "ok", "refused"}]
  /\ host_data_ \in [Hosts -> AllReports \cup {NoReport}]
  /\ passed \in Seq(AllReports)

Occurrences(r) == Cardinality({p \in 1 .. Len(passed) : passed[p] = r})

(* A report is passed to the HostManager at most once, and exactly once if *)
(* the worker was told OK, whatever connections break (PushOnce does not   *)
(* retry, and SetMonitorInfo answers after the callback).                  *)
ExactlyOnceIfOk ==
  \A r \in AllReports :
    /\ Occurrences(r) <= 1
    /\ answers[r] = "ok" => Occurrences(r) = 1

(* A worker's reports reach the HostManager in the order in which they     *)
(* were collected, but that one whose call failed may come late: its       *)
(* handler runs on while the next call is made (the callback is made       *)
(* without mtx_).                                                          *)
OvertakenOnlyIfFailed ==
  \A p, q \in 1 .. Len(passed) :
    (p < q /\ passed[p][1] = passed[q][1] /\ passed[q][2] < passed[p][2])
      => answers[passed[q]] = "error"

(* The reports passed on for host h.                                       *)
PassedFor(h) == {p \in 1 .. Len(passed) : HostOf(passed[p]) = h}

(* host_data_ and the HostManager agree on a host's last report when no    *)
(* call is being handled, as long as one worker alone speaks for the host  *)
(* and none of its calls failed: the two are updated one after the other,  *)
(* and only such calls may cross.                                          *)
TableAgreesWithQueue ==
  \A w \in Workers : \A h \in {HostOf(<<w, n>>) : n \in 1 .. MaxReports} \ {NoHost} :
    ( /\ \A r \in AllReports : HostOf(r) = h => r[1] = w /\ answers[r] # "error"
      /\ \A g \in handlers : HostOf(g.report) # h \/ g.at = "ok" )
      => IF PassedFor(h) = {} THEN host_data_[h] = NoReport
         ELSE \E p \in PassedFor(h) : /\ host_data_[h] = passed[p]
                                      /\ \A q \in PassedFor(h) : q <= p

(* Stop returns: the thread leaves its wait, and its call, and is joined.  *)
(* (A worker that has reached the bound on reports cannot go on.)          *)
StopReturns ==
  \A w \in Workers :
    (owner[w] = "stopping" /\ collected[w] < MaxReports) ~> owner[w] = "off"
=============================================================================
