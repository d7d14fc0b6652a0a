-------------------------- MODULE SafeQueueProofs --------------------------
(***************************************************************************)
(* Proofs about SafeQueue, for any finite set of consumers and any number  *)
(* of values.                                                              *)
(***************************************************************************)
EXTENDS SafeQueue, FiniteSetTheorems, SequenceTheorems, TLAPS

(* The type invariant of SafeQueue: the stop flag stays a Boolean and a    *)
(* consumer is always outside Pop, asleep in it, or woken in it.           *)
THEOREM TypeCorrect == Spec => []TypeOK
<1>1. Init => TypeOK
  <2>1. <<>> \in Seq(Nat)
    BY EmptySeq
  <2>2. Init => queue_ \in Seq(Nat) /\ got \in Seq(Nat) /\ stop_ \in BOOLEAN
    BY <2>1, Zenon DEF Init
  <2>3. Init => /\ sent \in Nat
                /\ pc \in [Consumers -> {"idle", "waiting", "woken"}]
    BY DEF Init
  <2> QED
    BY <2>2, <2>3 DEF TypeOK
<1>2. TypeOK /\ [Next]_vars => TypeOK'
  <2> SUFFICES ASSUME TypeOK, [Next]_vars
               PROVE  TypeOK'
    OBVIOUS
  <2>1. CASE Push
    BY <2>1 DEF TypeOK, Push, NotifyOne, Waiting
  <2>2. CASE Stop
    BY <2>2 DEF TypeOK, Stop, NotifyAll
  <2>3. ASSUME NEW c \in Consumers, Take(c)
        PROVE  TypeOK'
    BY <2>3, HeadTailProperties, AppendProperties DEF TypeOK, Take
  <2>4. ASSUME NEW c \in Consumers, ReturnFalse(c) \/ Block(c) \/ SpuriousWakeup(c)
        PROVE  TypeOK'
    BY <2>4 DEF TypeOK, ReturnFalse, Block, SpuriousWakeup
  <2>5. CASE UNCHANGED vars
    BY <2>5 DEF TypeOK, vars
  <2> QED
    BY <2>1, <2>2, <2>3, <2>4, <2>5 DEF Next, Pop
<1> QED
  BY <1>1, <1>2, PTL DEF Spec
----------------------------------------------------------------------------
(* The wakeup invariant is inductive together with TypeOK: a sleeper is    *)
(* added only when the queue is empty, and a push that meets a sleeper     *)
(* adds one value and one woken consumer.                                  *)
WakeupInv == NoLostWakeup /\ StopReleasesAll

(* The consumers that are awake in Pop are finitely many.                  *)
LEMMA WokenFinite ==
  /\ IsFiniteSet(Woken) /\ Cardinality(Woken) \in Nat
  /\ IsFiniteSet(Woken') /\ Cardinality(Woken') \in Nat
<1>1. Woken \in SUBSET Consumers /\ Woken' \in SUBSET Consumers
  BY DEF Woken
<1> QED
  BY <1>1, QueueAssumption, FS_Subset, FS_CardinalityType

(* Push preserves the wakeup invariant: the value it adds is matched by    *)
(* the waiter that notify_one wakes, if anybody waits.                     *)
LEMMA PushKeepsWakeup ==
  ASSUME TypeOK, WakeupInv, Push
  PROVE  WakeupInv'
<1>1. Len(queue_') = Len(queue_) + 1 /\ Len(queue_) \in Nat
  BY AppendProperties, LenProperties DEF Push, TypeOK
<1>2. CASE Waiting = {}
  BY <1>2 DEF Push, NotifyOne, WakeupInv, NoLostWakeup, StopReleasesAll, Waiting
<1>3. CASE Waiting # {}
  <2>1. PICK c \in Waiting : pc' = [pc EXCEPT ![c] = "woken"]
    BY <1>3 DEF Push, NotifyOne
  <2>2. Woken' = Woken \cup {c} /\ c \notin Woken
    BY <2>1 DEF Woken, Waiting, TypeOK
  <2>3. Cardinality(Woken') = Cardinality(Woken) + 1
    BY <2>2, WokenFinite, FS_AddElement
  <2>4. NoLostWakeup'
    BY <1>1, <1>3, <2>3, WokenFinite DEF WakeupInv, NoLostWakeup
  <2>5. StopReleasesAll'
    BY <1>3 DEF Push, WakeupInv, StopReleasesAll
  <2> QED
    BY <2>4, <2>5 DEF WakeupInv
<1> QED
  BY <1>2, <1>3

(* Taking a value removes at most one woken consumer with it.              *)
LEMMA TakeKeepsWakeup ==
  ASSUME TypeOK, WakeupInv, NEW c \in Consumers, pc[c] \in {"idle", "woken"}, Take(c)
  PROVE  WakeupInv'
<1>1. Len(queue_') = Len(queue_) - 1 /\ Len(queue_) \in Nat
  BY HeadTailProperties, LenProperties DEF Take, TypeOK
<1>2. Waiting' = Waiting
  BY DEF Take, Waiting, TypeOK
<1>3. Woken' = Woken \ {c}
  BY DEF Take, Woken, TypeOK
<1>4. Cardinality(Woken') >= Cardinality(Woken) - 1
  BY <1>3, WokenFinite, FS_RemoveElement
<1>5. NoLostWakeup'
  BY <1>1, <1>2, <1>4, WokenFinite DEF WakeupInv, NoLostWakeup
<1>6. StopReleasesAll'
  BY <1>2 DEF Take, WakeupInv, StopReleasesAll
<1> QED
  BY <1>5, <1>6 DEF WakeupInv

(* No wakeup is lost and Stop releases every sleeper, whatever the number  *)
(* of consumers and however Push, Pop, Stop and spurious wakeups           *)
(* interleave.                                                             *)
THEOREM WakeupCorrect == Spec => [](NoLostWakeup /\ StopReleasesAll)
<1>1. Init => WakeupInv
  BY DEF Init, WakeupInv, NoLostWakeup, StopReleasesAll, Waiting
<1>2. TypeOK /\ WakeupInv /\ [Next]_vars => WakeupInv'
  <2> SUFFICES ASSUME TypeOK, WakeupInv, [Next]_vars
               PROVE  WakeupInv'
    OBVIOUS
  <2>1. CASE Push
    BY <2>1, PushKeepsWakeup
  <2>2. CASE Stop
    <3>1. Waiting' = {}
      BY <2>2 DEF Stop, NotifyAll, Waiting, TypeOK
    <3> QED
      BY <3>1 DEF WakeupInv, NoLostWakeup, StopReleasesAll
  <2>3. ASSUME NEW c \in Consumers, pc[c] \in {"idle", "woken"}, Take(c)
        PROVE  WakeupInv'
    BY <2>3, TakeKeepsWakeup
  <2>4. ASSUME NEW c \in Consumers, pc[c] \in {"idle", "woken"}, ReturnFalse(c)
        PROVE  WakeupInv'
    <3>1. Waiting' = Waiting
      BY <2>4 DEF ReturnFalse, Waiting, TypeOK
    <3>2. Waiting = {}
      BY <2>4 DEF ReturnFalse, WakeupInv, StopReleasesAll
    <3> QED
      BY <3>1, <3>2 DEF WakeupInv, NoLostWakeup, StopReleasesAll
  <2>5. ASSUME NEW c \in Consumers, Block(c)
        PROVE  WakeupInv'
    <3>1. Len(queue_') = 0 /\ stop_' = FALSE
      BY <2>5, EmptySeq DEF Block, TypeOK
    <3> QED
      BY <3>1, WokenFinite DEF WakeupInv, NoLostWakeup, StopReleasesAll
  <2>6. ASSUME NEW c \in Consumers, SpuriousWakeup(c)
        PROVE  WakeupInv'
    <3>1. Waiting' \subseteq Waiting /\ Woken' = Woken \cup {c} /\ queue_' = queue_
      BY <2>6 DEF SpuriousWakeup, Waiting, Woken, TypeOK
    <3>2. Cardinality(Woken') >= Cardinality(Woken)
      BY <3>1, WokenFinite, FS_AddElement
    <3>3. Len(queue_) \in Nat
      BY LenProperties DEF TypeOK
    <3>4. NoLostWakeup'
      BY <3>1, <3>2, <3>3, WokenFinite DEF WakeupInv, NoLostWakeup
    <3>5. StopReleasesAll'
      BY <2>6, <3>1 DEF SpuriousWakeup, WakeupInv, StopReleasesAll
    <3> QED
      BY <3>4, <3>5 DEF WakeupInv
  <2>7. CASE UNCHANGED vars
    BY <2>7 DEF vars, WakeupInv, NoLostWakeup, StopReleasesAll, Waiting, Woken
  <2> QED
    BY <2>1, <2>2, <2>3, <2>4, <2>5, <2>6, <2>7 DEF Next, Pop
<1> QED
  BY <1>1, <1>2, TypeCorrect, PTL DEF Spec, WakeupInv

(* Once Stop has set stop_, no consumer sleeps, nor goes to sleep again.   *)
THEOREM StopCorrect == Spec => []StopReleasesAll
<1>1. NoLostWakeup /\ StopReleasesAll => StopReleasesAll
  OBVIOUS
<1> QED
  BY <1>1, WakeupCorrect, PTL
----------------------------------------------------------------------------
(* The positions of the values handed out and of those still queued.       *)
OrderInv ==
  /\ Len(got) + Len(queue_) = sent
  /\ \A k \in 1..Len(got) : got[k] = k
  /\ \A k \in 1..Len(queue_) : queue_[k] = Len(got) + k

(* First in, first out, exactly once, over every behaviour.                *)
THEOREM FifoCorrect == Spec => []FifoExactlyOnce
<1>1. Init => OrderInv
  BY DEF Init, OrderInv
<1>2. TypeOK /\ OrderInv /\ [Next]_vars => OrderInv'
  <2> SUFFICES ASSUME TypeOK, OrderInv, [Next]_vars
               PROVE  OrderInv'
    OBVIOUS
  <2>1. CASE Push
    <3>1. /\ Len(queue_') = Len(queue_) + 1
          /\ \A k \in 1..Len(queue_) : queue_'[k] = queue_[k]
          /\ queue_'[Len(queue_) + 1] = sent + 1
      BY <2>1, AppendProperties DEF Push, TypeOK
    <3>2. got' = got /\ sent' = sent + 1
      BY <2>1 DEF Push
    <3>3. Len(queue_) \in Nat /\ Len(got) \in Nat
      BY LenProperties DEF TypeOK
    <3>4. Len(got') + Len(queue_') = sent'
      BY <3>1, <3>2, <3>3 DEF OrderInv
    <3>5. \A k \in 1..Len(queue_') : queue_'[k] = Len(got') + k
      <4> SUFFICES ASSUME NEW k \in 1..Len(queue_')
                   PROVE  queue_'[k] = Len(got) + k
        BY <3>2
      <4>1. CASE k \in 1..Len(queue_)
        BY <3>1, <4>1 DEF OrderInv
      <4>2. CASE k = Len(queue_) + 1
        BY <3>1, <3>3, <4>2 DEF OrderInv
      <4> QED
        BY <3>1, <3>3, <4>1, <4>2
    <3> QED
      BY <3>2, <3>4, <3>5 DEF OrderInv
  <2>2. ASSUME NEW c \in Consumers, Take(c)
        PROVE  OrderInv'
    <3>1. /\ Len(queue_') = Len(queue_) - 1
          /\ \A k \in 1..Len(queue_') : queue_'[k] = queue_[k+1]
      BY <2>2, HeadTailProperties DEF Take, TypeOK
    <3>2. Head(queue_) = Len(got) + 1
      BY <2>2, EmptySeq DEF Take, TypeOK, OrderInv
    <3>3. /\ Len(got') = Len(got) + 1
          /\ \A k \in 1..Len(got) : got'[k] = got[k]
          /\ got'[Len(got) + 1] = Len(got) + 1
      BY <2>2, <3>2, AppendProperties DEF Take, TypeOK
    <3>4. Len(queue_) \in Nat /\ Len(got) \in Nat /\ sent' = sent
      BY <2>2, LenProperties DEF Take, TypeOK
    <3>5. Len(got') + Len(queue_') = sent'
      BY <3>1, <3>3, <3>4 DEF OrderInv
    <3>6. \A k \in 1..Len(got') : got'[k] = k
      BY <3>3, <3>4 DEF OrderInv
    <3>7. \A k \in 1..Len(queue_') : queue_'[k] = Len(got') + k
      <4> SUFFICES ASSUME NEW k \in 1..Len(queue_')
                   PROVE  queue_'[k] = Len(got') + k
        OBVIOUS
      <4>1. k + 1 \in 1..Len(queue_)
        BY <3>1, <3>4
      <4> QED
        BY <3>1, <3>3, <3>4, <4>1 DEF OrderInv
    <3> QED
      BY <3>5, <3>6, <3>7 DEF OrderInv
  <2>3. CASE UNCHANGED <<queue_, sent, got>>
    BY <2>3 DEF OrderInv
  <2> QED
    BY <2>1, <2>2, <2>3
    DEF Next, Pop, Stop, ReturnFalse, Block, SpuriousWakeup, vars
<1>3. TypeOK /\ OrderInv => FifoExactlyOnce
  <2> SUFFICES ASSUME TypeOK, OrderInv
               PROVE  got \o queue_ = [n \in 1..sent |-> n]
    BY DEF FifoExactlyOnce
  <2> DEFINE s == got \o queue_
             t == [n \in 1..sent |-> n]
  <2>1. s \in Seq(Nat) /\ Len(s) = sent /\ \A k \in 1..sent : s[k] = k
    BY ConcatProperties, LenProperties DEF TypeOK, OrderInv
  <2>2. t \in Seq(Nat) /\ Len(t) = sent /\ \A k \in 1..sent : t[k] = k
    BY DEF TypeOK
  <2> QED
    BY <2>1, <2>2, SeqEqual
<1> QED
  BY <1>1, <1>2, <1>3, TypeCorrect, PTL DEF Spec
----------------------------------------------------------------------------
(* The safety part of the channel that SafeQueue implements: every step of *)
(* the queue is a step of the channel or changes nothing it shows. (That   *)
(* the channel's fairness is implemented too is checked by TLC.)           *)
THEOREM ImplementsChannelSafety == Spec => Channel!Init /\ [][Channel!Next]_(Channel!vars)
<1>1. Init => Channel!Init
  BY DEF Init, Channel!Init
<1>2. [Next]_vars => [Channel!Next]_(Channel!vars)
  BY DEF Next, vars, Push, Stop, Pop, Take, ReturnFalse, Block, SpuriousWakeup,
         Channel!Next, Channel!vars, Channel!Send, Channel!Receive, Channel!Close
<1> QED
  BY <1>1, <1>2, PTL DEF Spec
=============================================================================
