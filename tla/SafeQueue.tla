----------------------------- MODULE SafeQueue -----------------------------
(***************************************************************************)
(* SafeQueue<T> of manager/include/utils/safe_queue.h: an unbounded queue  *)
(* guarded by a mutex, with one condition variable on which Pop waits.     *)
(*                                                                         *)
(* Every method holds mtx_ from its first statement to its last, except    *)
(* while cond_.wait has released it; so each stretch under the mutex is    *)
(* one step, and the mutex itself needs no variable. Inside Pop a consumer *)
(* is "waiting" on the condition variable or, once notified (or woken for  *)
(* no reason, which std::condition_variable allows), "woken": about to     *)
(* take the mutex again and to re-evaluate the predicate of the wait.      *)
(***************************************************************************)
EXTENDS Integers, Sequences, FiniteSets

CONSTANTS
  Consumers,   \* the threads that call Pop
  MaxPushes    \* bound on the calls of Push

ASSUME QueueAssumption == IsFiniteSet(Consumers) /\ MaxPushes \in Nat

VARIABLES
  queue_,   \* the values queued, oldest first; the n-th value pushed is n
  stop_,    \* the stop flag
  pc,       \* pc[c]: "idle" outside Pop, "waiting" or "woken" inside
  sent,     \* how many values were pushed (history)
  got       \* the values that calls of Pop handed out, in order (history)

vars == <<queue_, stop_, pc, sent, got>>

Waiting == {c \in Consumers : pc[c] = "waiting"}
Woken   == {c \in Consumers : pc[c] = "woken"}

Init ==
  /\ queue_ = <<>>
  /\ stop_ = FALSE
  /\ pc = [c \in Consumers |-> "idle"]
  /\ sent = 0
  /\ got = <<>>
----------------------------------------------------------------------------
(* Mutant of NotifyOne: nobody is told.                                    *)
NotifyNobody ==
  UNCHANGED pc

(* notify_one: one waiter is woken, if there is one.                       *)
NotifyOne ==
  \/ Waiting = {} /\ UNCHANGED pc
  \/ \E c \in Waiting : pc' = [pc EXCEPT ![c] = "woken"]

NotifyAll ==
  pc' = [c \in Consumers |-> IF pc[c] = "waiting" THEN "woken" ELSE pc[c]]

(* Mutant of Push: a wakeup only when the queue was empty.                 *)
PushNotifyIfEmpty ==
  /\ sent < MaxPushes
  /\ sent' = sent + 1
  /\ queue_' = Append(queue_, sent')
  /\ IF queue_ = <<>> THEN NotifyOne ELSE UNCHANGED pc
  /\ UNCHANGED <<stop_, got>>

Push ==
  /\ sent < MaxPushes
  /\ sent' = sent + 1
  /\ queue_' = Append(queue_, sent')
  /\ NotifyOne
  /\ UNCHANGED <<stop_, got>>

(* Mutant of Take: the front of an empty queue is garbage.                 *)
TakeUnchecked(c) ==
  /\ got' = Append(got, IF queue_ = <<>> THEN -1 ELSE Head(queue_))
  /\ queue_' = IF queue_ = <<>> THEN queue_ ELSE Tail(queue_)
  /\ pc' = [pc EXCEPT ![c] = "idle"]
  /\ UNCHANGED <<stop_, sent>>

(* Mutant of Take: the newest value leaves first.                          *)
TakeLast(c) ==
  /\ queue_ # <<>>
  /\ got' = Append(got, queue_[Len(queue_)])
  /\ queue_' = SubSeq(queue_, 1, Len(queue_) - 1)
  /\ pc' = [pc EXCEPT ![c] = "idle"]
  /\ UNCHANGED <<stop_, sent>>

(* Pop after the wait when there is a value: move the front out.           *)
Take(c) ==
  /\ queue_ # <<>>
  /\ got' = Append(got, Head(queue_))
  /\ queue_' = Tail(queue_)
  /\ pc' = [pc EXCEPT ![c] = "idle"]
  /\ UNCHANGED <<stop_, sent>>

(* Pop after the wait when there is none: it returns false.                *)
ReturnFalse(c) ==
  /\ queue_ = <<>> /\ stop_
  /\ pc' = [pc EXCEPT ![c] = "idle"]
  /\ UNCHANGED <<queue_, stop_, sent, got>>

(* The predicate of the wait is false: release the mutex and wait.         *)
Block(c) ==
  /\ queue_ = <<>> /\ ~stop_
  /\ pc' = [pc EXCEPT ![c] = "waiting"]
  /\ UNCHANGED <<queue_, stop_, sent, got>>

(* A stretch of Pop under the mutex: on entry, and after each wakeup.      *)
Pop(c) ==
  /\ pc[c] \in {"idle", "woken"}
  /\ Take(c) \/ ReturnFalse(c) \/ Block(c)

SpuriousWakeup(c) ==
  /\ pc[c] = "waiting"
  /\ pc' = [pc EXCEPT ![c] = "woken"]
  /\ UNCHANGED <<queue_, stop_, sent, got>>

(* Mutant of Stop: notify_one instead of notify_all.                       *)
StopNotifyOne ==
  /\ stop_' = TRUE
  /\ NotifyOne
  /\ UNCHANGED <<queue_, sent, got>>

Stop ==
  /\ stop_' = TRUE
  /\ NotifyAll
  /\ UNCHANGED <<queue_, sent, got>>

Next ==
  \/ Push
  \/ Stop
  \/ \E c \in Consumers : Pop(c) \/ SpuriousWakeup(c)

(* A consumer keeps calling Pop (ConsumeMessage loops), and a thread that  *)
(* can take the mutex eventually does. Nothing obliges a producer to push, *)
(* anyone to stop the queue, or a wakeup to happen without a notification. *)
Spec == Init /\ [][Next]_vars /\ \A c \in Consumers : WF_vars(Pop(c))
----------------------------------------------------------------------------
TypeOK ==
  /\ queue_ \in Seq(Nat)
  /\ stop_ \in BOOLEAN
  /\ pc \in [Consumers -> {"idle", "waiting", "woken"}]
  /\ sent \in Nat
  /\ got \in Seq(Nat)

(* No wakeup is lost: while some consumer sleeps on cond_, every queued    *)
(* value has a consumer of its own that was woken and has not looked yet   *)
(* (safe_queue.h: Push notifies one waiter per value, and Pop never goes   *)
(* to sleep on a queue that holds something).                              *)
NoLostWakeup ==
  Waiting # {} => Len(queue_) <= Cardinality(Woken)

(* Stop releases everybody: once stop_ is set nobody sleeps on cond_ and   *)
(* nobody ever goes to sleep on it again (safe_queue.h, Stop and the       *)
(* second half of the predicate in Pop).                                   *)
StopReleasesAll ==
  stop_ => Waiting = {}

(* First in, first out, exactly once: what was handed out, followed by     *)
(* what is queued, is what was pushed, in the order of the pushes.         *)
FifoExactlyOnce ==
  got \o queue_ = [n \in 1..sent |-> n]

(* The queue is a FIFO channel that does not keep a value forever while    *)
(* the consumers keep calling Pop.                                         *)
Channel == INSTANCE FifoChannel WITH buf <- queue_, out <- got, closed <- stop_

ImplementsChannel == Channel!Spec
=============================================================================
