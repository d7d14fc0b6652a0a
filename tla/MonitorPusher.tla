--------------------------- MODULE MonitorPusher ---------------------------
(***************************************************************************)
(* The worker's MonitorPusher (monitor_pusher.cpp), one for each worker:   *)
(* its owner starts and stops it, and its thread collects a report, pushes *)
(* it with a blocking call, waits and begins again. What becomes of the    *)
(* call is up to the module that composes this one with the manager.       *)
(*                                                                         *)
(* The n-th report that worker w collects is <<w, n>>.                     *)
(***************************************************************************)
EXTENDS Naturals

CONSTANTS
  Workers,
  interval_seconds_,
  MaxReports          \* bound on the reports a worker collects

ASSUME PusherAssumption == interval_seconds_ \in Nat \ {0} /\ MaxReports \in Nat

VARIABLES
  owner,      \* "off", "on", or "stopping": inside Stop
  running_,
  thread_,    \* what the thread does next
  waited,     \* the seconds it has waited
  collected   \* the reports it has collected

pusherVars == <<owner, running_, thread_, waited, collected>>

PusherInit ==
  /\ owner = [w \in Workers |-> "off"]
  /\ running_ = [w \in Workers |-> FALSE]
  /\ thread_ = [w \in Workers |-> "none"]
  /\ waited = [w \in Workers |-> 0]
  /\ collected = [w \in Workers |-> 0]

Report(w) == <<w, collected[w]>>

Goto(w, l) == thread_' = [thread_ EXCEPT ![w] = l]
----------------------------------------------------------------------------
Start(w) ==
  /\ owner[w] = "off" /\ ~running_[w]
  /\ owner' = [owner EXCEPT ![w] = "on"]
  /\ running_' = [running_ EXCEPT ![w] = TRUE]
  /\ Goto(w, "loop")
  /\ UNCHANGED <<waited, collected>>

(* Stop clears the flag and joins the thread.                              *)
Stop(w) ==
  /\ owner[w] = "on"
  /\ owner' = [owner EXCEPT ![w] = "stopping"]
  /\ running_' = [running_ EXCEPT ![w] = FALSE]
  /\ UNCHANGED <<thread_, waited, collected>>

Join(w) ==
  /\ owner[w] = "stopping" /\ thread_[w] = "exited"
  /\ owner' = [owner EXCEPT ![w] = "off"]
  /\ Goto(w, "none")
  /\ UNCHANGED <<running_, waited, collected>>

(* PushLoop: the test of the outer loop.                                   *)
Loop(w) ==
  /\ thread_[w] = "loop"
  /\ Goto(w, IF running_[w] THEN "push" ELSE "exited")
  /\ UNCHANGED <<owner, running_, waited, collected>>

(* PushOnce collects a report and calls SetMonitorInfo, without deadline.  *)
Push(w) ==
  /\ thread_[w] = "push"
  /\ collected[w] < MaxReports
  /\ collected' = [collected EXCEPT ![w] = @ + 1]
  /\ Goto(w, "calling")
  /\ UNCHANGED <<owner, running_, waited>>

(* The call returned, with or without success: the report is not kept.     *)
Returned(w) ==
  /\ thread_[w] = "calling"
  /\ Goto(w, "wait")
  /\ waited' = [waited EXCEPT ![w] = 0]
  /\ UNCHANGED <<owner, running_, collected>>

(* Mutant of Wait: the inner loop runs once too often.                     *)
WaitTooLong(w) ==
  /\ thread_[w] = "wait"
  /\ IF waited[w] <= interval_seconds_ /\ running_[w]
     THEN waited' = [waited EXCEPT ![w] = @ + 1] /\ UNCHANGED thread_
     ELSE waited' = [waited EXCEPT ![w] = 0] /\ Goto(w, "loop")
  /\ UNCHANGED <<owner, running_, collected>>

(* Mutant of Wait: the loop is not left when the pusher is stopped, and    *)
(* starts over instead.                                                    *)
WaitForever(w) ==
  /\ thread_[w] = "wait"
  /\ IF waited[w] < interval_seconds_
     THEN waited' = [waited EXCEPT ![w] = @ + 1] /\ UNCHANGED thread_
     ELSE /\ waited' = [waited EXCEPT ![w] = 0]
          /\ IF running_[w] THEN Goto(w, "loop") ELSE UNCHANGED thread_
  /\ UNCHANGED <<owner, running_, collected>>

(* The inner loop: sleep another second, or go back to the outer loop.     *)
Wait(w) ==
  /\ thread_[w] = "wait"
  /\ IF waited[w] < interval_seconds_ /\ running_[w]
     THEN waited' = [waited EXCEPT ![w] = @ + 1] /\ UNCHANGED thread_
     ELSE waited' = [waited EXCEPT ![w] = 0] /\ Goto(w, "loop")
  /\ UNCHANGED <<owner, running_, collected>>
----------------------------------------------------------------------------
PusherTypeOK ==
  /\ owner \in [Workers -> {"off", "on", "stopping"}]
  /\ running_ \in [Workers -> BOOLEAN]
  /\ thread_ \in [Workers -> {"none", "loop", "push", "calling", "wait", "exited"}]
  /\ waited \in [Workers -> 0 .. interval_seconds_]
  /\ collected \in [Workers -> 0 .. MaxReports]
=============================================================================
