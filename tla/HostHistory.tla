---------------------------- MODULE HostHistory ----------------------------
(***************************************************************************)
(* What the processing pipeline promises about each server: its reports    *)
(* are handled one by one, in the order in which they were received, and   *)
(* none is skipped, whatever happens to the reports of other servers.      *)
(***************************************************************************)
EXTENDS Naturals, Sequences

CONSTANTS
  Reports,       \* what a report can say about its sender
  Ids,           \* the servers
  ServerId(_),   \* the server a report is about
  MaxReports     \* bound on the number of reports received

VARIABLES
  received,   \* the reports received, in order
  done        \* done[id]: the last report of id that was handled (0: none)

vars == <<received, done>>

Init ==
  /\ received = <<>>
  /\ done = [id \in Ids |-> 0]

Receive(r) ==
  /\ Len(received) < MaxReports
  /\ received' = Append(received, r)
  /\ UNCHANGED done

(* n is the oldest report of server id that was not handled yet.           *)
IsNext(id, n) ==
  /\ n \in 1 .. Len(received)
  /\ n > done[id]
  /\ ServerId(received[n]) = id
  /\ \A m \in 1 .. Len(received) :
       done[id] < m /\ m < n => ServerId(received[m]) # id

Handle(id) ==
  \E n \in 1 .. Len(received) :
     /\ IsNext(id, n)
     /\ done' = [done EXCEPT ![id] = n]
     /\ UNCHANGED received

Next ==
  \/ \E r \in Reports : Receive(r)
  \/ \E id \in Ids : Handle(id)

Spec == Init /\ [][Next]_vars
=============================================================================
