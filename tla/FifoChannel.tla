---------------------------- MODULE FifoChannel ----------------------------
(***************************************************************************)
(* What the manager expects of a SafeQueue: a first-in first-out channel   *)
(* that delivers every value exactly once, never blocks a sender, keeps    *)
(* what it holds when it is closed, and does not leave a value behind      *)
(* while somebody keeps receiving.                                         *)
(* The values are numbered in the order in which they are sent.            *)
(***************************************************************************)
EXTENDS Naturals, Sequences

CONSTANT MaxPushes   \* bound on the number of values sent

VARIABLES
  sent,     \* how many values were sent so far
  buf,      \* sent and not yet received, oldest first
  out,      \* the values received, in the order of reception
  closed    \* the channel was closed

vars == <<sent, buf, out, closed>>

Init ==
  /\ sent = 0
  /\ buf = <<>>
  /\ out = <<>>
  /\ closed = FALSE

Send ==
  /\ sent < MaxPushes
  /\ sent' = sent + 1
  /\ buf' = Append(buf, sent')
  /\ UNCHANGED <<out, closed>>

Receive ==
  /\ buf # <<>>
  /\ out' = Append(out, Head(buf))
  /\ buf' = Tail(buf)
  /\ UNCHANGED <<sent, closed>>

Close ==
  /\ closed' = TRUE
  /\ UNCHANGED <<sent, buf, out>>

Next == Send \/ Receive \/ Close

(* The receivers keep receiving, so a value does not stay in the channel.  *)
Spec == Init /\ [][Next]_vars /\ WF_vars(Receive)
=============================================================================
