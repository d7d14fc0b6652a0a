---------------------------- MODULE GrpcServer ----------------------------
(***************************************************************************)
(* The manager's GrpcServerImpl (grpc_server.cpp): any number of threads   *)
(* run SetMonitorInfo, one call each. A call updates host_data_ under mtx_ *)
(* and then, without the mutex, passes the report on to the callback,      *)
(* which is HostManager::OnDataReceived. The other methods only read.      *)
(***************************************************************************)
EXTENDS Naturals, Sequences

CONSTANTS
  HostOf(_),     \* the name in a report, or else its hostname
  NoHost         \* the empty string

VARIABLES
  handlers,      \* the calls being handled: [report, at]
  host_data_,    \* the last report stored for a host, in stored order
  passed         \* the reports passed to the callback, in order (history)

serverVars == <<handlers, host_data_, passed>>

NoReport == <<>>

ServerInit(hosts) ==
  /\ handlers = {}
  /\ host_data_ = [h \in hosts |-> NoReport]
  /\ passed = <<>>

Move(h, l) == handlers' = (handlers \ {h}) \cup {[h EXCEPT !.at = l]}
----------------------------------------------------------------------------
(* A call arrives.                                                         *)
Receive(r) ==
  /\ handlers' = handlers \cup {[report |-> r, at |-> "begin"]}
  /\ UNCHANGED <<host_data_, passed>>

(* A report that names no host is refused.                                 *)
Refuse(h) ==
  /\ h.at = "begin" /\ HostOf(h.report) = NoHost
  /\ Move(h, "refused")
  /\ UNCHANGED <<host_data_, passed>>

(* host_data_[hostname] is replaced by the report, under mtx_.             *)
(* Mutant of Store: the first report of a host stays.                      *)
StoreEmplace(h) ==
  /\ h.at = "begin" /\ HostOf(h.report) # NoHost
  /\ host_data_' = [host_data_ EXCEPT ![HostOf(h.report)] =
                       IF @ = NoReport THEN h.report ELSE @]
  /\ Move(h, "stored")
  /\ UNCHANGED passed

Store(h) ==
  /\ h.at = "begin" /\ HostOf(h.report) # NoHost
  /\ host_data_' = [host_data_ EXCEPT ![HostOf(h.report)] = h.report]
  /\ Move(h, "stored")
  /\ UNCHANGED passed

(* The callback with the report, then OK.                                  *)
(* Mutant of Callback: the callback may not be made at all.                *)
CallbackDropped(h) ==
  /\ h.at = "stored"
  /\ \/ passed' = Append(passed, h.report)
     \/ UNCHANGED passed
  /\ Move(h, "ok")
  /\ UNCHANGED host_data_

Callback(h) ==
  /\ h.at = "stored"
  /\ passed' = Append(passed, h.report)
  /\ Move(h, "ok")
  /\ UNCHANGED host_data_

(* The status goes back to the caller.                                     *)
Reply(h) ==
  /\ h.at \in {"ok", "refused"}
  /\ handlers' = handlers \ {h}
  /\ UNCHANGED <<host_data_, passed>>

Handle(h) == Refuse(h) \/ Store(h) \/ Callback(h)
=============================================================================
