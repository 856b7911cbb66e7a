-------------------------- MODULE BufferedQueueProofs --------------------------
(***************************************************************************)
(* What TLAPS proves of BufferedQueue for every set of items, every size   *)
(* and every bound on the calls: the invariants TLC checks on one instance *)
(* and that the object implements BatchChannel, its fairness left aside.   *)
(***************************************************************************)
EXTENDS BufferedQueue, SequenceTheorems, TLAPS

QueueType == [items : Seq(Items), intervalId : {"null", "Timeout"}, timeouts : Nat]

(* The updates of one field, on a queue given by its three fields.         *)
LEMMA FlushedFields ==
  ASSUME NEW s, NEW b, NEW n
  PROVE  FlushItems([items |-> s, intervalId |-> b, timeouts |-> n])
           = [items |-> <<>>, intervalId |-> b, timeouts |-> n]
  BY DEF FlushItems

LEMMA FiredFields ==
  ASSUME NEW s, NEW b, NEW n \in Nat, NEW q,
         q = [items |-> s, intervalId |-> b, timeouts |-> n]
  PROVE  [q EXCEPT !.timeouts = @ - 1]
           = [items |-> s, intervalId |-> b, timeouts |-> n - 1]
  OBVIOUS

LEMMA StoppedFields ==
  ASSUME NEW s, NEW b, b = "Timeout", NEW n \in Nat, HasTimeout
  PROVE  StopTimeout([items |-> s, intervalId |-> b, timeouts |-> n])
           = [items |-> s, intervalId |-> "null",
              timeouts |-> IF n > 0 THEN n - 1 ELSE 0]
  BY DEF StopTimeout

LEMMA StartedFields ==
  ASSUME NEW s, NEW b, NEW n \in Nat
  PROVE  StartTimeout([items |-> s, intervalId |-> b, timeouts |-> n])
           = IF b = "null" /\ HasTimeout
             THEN [items |-> s, intervalId |-> "Timeout", timeouts |-> n + 1]
             ELSE [items |-> s, intervalId |-> b, timeouts |-> n]
  BY DEF StartTimeout

(* Appending one item, field by field. *)
LEMMA AppendedFields ==
  ASSUME NEW q \in QueueType, NEW x \in Items
  PROVE  /\ Appended(q, x) = [items |-> Append(q.items, x),
                              intervalId |-> q.intervalId,
                              timeouts |-> q.timeouts]
         /\ Append(q.items, x) \in Seq(Items)
         /\ Append(q.items, x) # <<>>
         /\ Len(Append(q.items, x)) = Len(q.items) + 1
<1>1. q = [items |-> q.items, intervalId |-> q.intervalId,
           timeouts |-> q.timeouts]
  BY DEF QueueType
<1>2. q.items \in Seq(Items)
  BY DEF QueueType
<1>3. /\ Append(q.items, x) \in Seq(Items)
      /\ Append(q.items, x) # <<>>
      /\ Len(Append(q.items, x)) = Len(q.items) + 1
  BY <1>2, AppendProperties
<1>4. QED
  BY <1>1, <1>3 DEF Appended

(* A call of add that fills the queue emits it and stops the timer.        *)
LEMMA PushedFull ==
  ASSUME NEW q \in QueueType, NEW x \in Items, Len(q.items) + 1 >= Size
  PROVE  /\ PushedBatch(q, x) = Append(q.items, x)
         /\ Pushed(q, x) =
              IF q.intervalId = "Timeout" /\ HasTimeout
              THEN [items |-> <<>>, intervalId |-> "null",
                    timeouts |-> IF q.timeouts > 0 THEN q.timeouts - 1 ELSE 0]
              ELSE [items |-> <<>>, intervalId |-> q.intervalId,
                    timeouts |-> q.timeouts]
<1>0. q.timeouts \in Nat
  BY DEF QueueType
<1>1. MaxQueueSizeReached(Appended(q, x))
  BY AppendedFields DEF MaxQueueSizeReached
<1>2. PushedBatch(q, x) = Append(q.items, x)
  BY <1>1, AppendedFields DEF PushedBatch
<1>3. Pushed(q, x) = FlushItems(StopTimeout(Appended(q, x)))
  BY <1>1 DEF Pushed, OnFlush
<1>4. CASE q.intervalId = "Timeout" /\ HasTimeout
  <2>1. StopTimeout(Appended(q, x)) =
          [items |-> Append(q.items, x), intervalId |-> "null",
           timeouts |-> IF q.timeouts > 0 THEN q.timeouts - 1 ELSE 0]
    <3>1. StopTimeout([items |-> Append(q.items, x),
                       intervalId |-> q.intervalId, timeouts |-> q.timeouts])
            = [items |-> Append(q.items, x), intervalId |-> "null",
               timeouts |-> IF q.timeouts > 0 THEN q.timeouts - 1 ELSE 0]
      BY <1>0, <1>4, StoppedFields, Zenon
    <3>2. QED
      BY <3>1, AppendedFields
  <2>2. QED
    BY <1>2, <1>3, <1>4, <2>1, FlushedFields
<1>5. CASE ~(q.intervalId = "Timeout" /\ HasTimeout)
  <2>1. StopTimeout(Appended(q, x)) = Appended(q, x)
    BY <1>5, AppendedFields DEF StopTimeout
  <2>2. QED
    BY <1>2, <1>3, <1>5, <2>1, AppendedFields DEF FlushItems
<1>6. QED
  BY <1>4, <1>5

(* Any other call keeps the item and starts a timer unless one is set.     *)
LEMMA PushedPartial ==
  ASSUME NEW q \in QueueType, NEW x \in Items, ~(Len(q.items) + 1 >= Size)
  PROVE  /\ PushedBatch(q, x) = <<>>
         /\ Pushed(q, x) =
              IF q.intervalId = "null" /\ HasTimeout
              THEN [items |-> Append(q.items, x), intervalId |-> "Timeout",
                    timeouts |-> q.timeouts + 1]
              ELSE [items |-> Append(q.items, x), intervalId |-> q.intervalId,
                    timeouts |-> q.timeouts]
<1>0. q.timeouts \in Nat
  BY DEF QueueType
<1>1. ~MaxQueueSizeReached(Appended(q, x))
  BY AppendedFields DEF MaxQueueSizeReached
<1>2. PushedBatch(q, x) = <<>> /\ Pushed(q, x) = StartTimeout(Appended(q, x))
  BY <1>1 DEF Pushed, PushedBatch
<1>3. QED
  <2>1. StartTimeout([items |-> Append(q.items, x),
                      intervalId |-> q.intervalId, timeouts |-> q.timeouts])
          = IF q.intervalId = "null" /\ HasTimeout
            THEN [items |-> Append(q.items, x), intervalId |-> "Timeout",
                  timeouts |-> q.timeouts + 1]
            ELSE [items |-> Append(q.items, x), intervalId |-> q.intervalId,
                  timeouts |-> q.timeouts]
    BY <1>0, StartedFields, Zenon
  <2>2. QED
    BY <1>2, <2>1, AppendedFields

(* The timer's callback on a queue that believes its timer is set: it is   *)
(* emptied, and no timer and no handle is left.                            *)
LEMMA RecurringFields ==
  ASSUME NEW q \in QueueType, q.items # <<>>, q.intervalId = "Timeout", HasTimeout,
         q.timeouts = 1
  PROVE  RecurringQueue(q) = NewQueue
<1> DEFINE fired == [q EXCEPT !.timeouts = @ - 1]
<1>1. Len(q.items) > 0
  BY EmptySeq, LenProperties DEF QueueType
<1>2. fired = [items |-> q.items, intervalId |-> "Timeout", timeouts |-> 0]
  <2>1. q = [items |-> q.items, intervalId |-> "Timeout", timeouts |-> 1]
    BY DEF QueueType
  <2>2. QED
    BY <2>1, FiredFields
<1>3. RecurringQueue(q) = OnFlush(fired)
  BY <1>1, <1>2 DEF RecurringQueue
<1>4. StopTimeout(fired) =
        [items |-> q.items, intervalId |-> "null", timeouts |-> 0]
  BY <1>2 DEF StopTimeout
<1>5. QED
  BY <1>3, <1>4, FlushedFields DEF OnFlush, NewQueue

IInv == TypeOK /\ TimerArmed /\ FifoNoLoss /\ NeverFull

LEMMA InitIInv == Init => IInv
<1>1. SUFFICES ASSUME Init PROVE IInv
  OBVIOUS
<1>2. TypeOK /\ TimerArmed /\ NeverFull
  BY <1>1 DEF Init, NewQueue, TypeOK, TimerArmed, NeverFull
<1>3. FifoNoLoss
  BY <1>1 DEF Init, NewQueue, FifoNoLoss
<1>4. QED
  BY <1>2, <1>3 DEF IInv

(* Emitting a batch moves items from the queue to out, in order.           *)
LEMMA AppendAssociates ==
  ASSUME NEW s \in Seq(Items), NEW t \in Seq(Items), NEW x \in Items
  PROVE  /\ Append(s \o t, x) = s \o Append(t, x)
         /\ (s \o Append(t, x)) \o <<>> = s \o Append(t, x)
         /\ (s \o <<>>) \o Append(t, x) = s \o Append(t, x)
  OBVIOUS

LEMMA AddKeepsIInv ==
  ASSUME IInv, NEW x \in Items, Add(x)
  PROVE  IInv'
<1>1. /\ queue \in QueueType /\ out \in Seq(Items) /\ added \in Seq(Items)
      /\ queue.items \in Seq(Items) /\ added = out \o queue.items
      /\ queue.intervalId \in {"null", "Timeout"}
      /\ Len(queue.items) \in Nat /\ Size \in Int
  BY QueueOptions DEF IInv, TypeOK, QueueType, FifoNoLoss
<1>2. /\ queue' = Pushed(queue, x)
      /\ out' = out \o PushedBatch(queue, x)
      /\ added' = Append(added, x)
  BY DEF Add
<1>3. added' \in Seq(Items) /\ Append(queue.items, x) \in Seq(Items)
  BY <1>1, <1>2, AppendProperties
<1>4. queue.timeouts = IF queue.intervalId = "Timeout" THEN 1 ELSE 0
  BY DEF IInv, TimerArmed
<1>5. CASE Len(queue.items) + 1 >= Size
  <2>1. out' = out \o Append(queue.items, x)
    BY <1>1, <1>2, <1>5, PushedFull
  <2>2. queue' = NewQueue
    <3>1. CASE queue.intervalId = "Timeout"
      BY <1>1, <1>2, <1>4, <1>5, <3>1, PushedFull
      DEF NewQueue, IInv, TimerArmed
    <3>2. CASE queue.intervalId = "null"
      BY <1>1, <1>2, <1>4, <1>5, <3>2, PushedFull DEF NewQueue
    <3>3. QED
      BY <1>1, <3>1, <3>2
  <2>3. out' \in Seq(Items)
    BY <1>1, <1>3, <2>1, ConcatProperties
  <2>4. TypeOK'
    BY <1>3, <2>2, <2>3 DEF TypeOK, NewQueue
  <2>5. TimerArmed' /\ NeverFull'
    BY <2>2 DEF TimerArmed, NeverFull, NewQueue
  <2>6. FifoNoLoss'
    <3>1. queue'.items = <<>>
      BY <2>2 DEF NewQueue
    <3>2. QED
      BY <1>1, <1>2, <2>1, <3>1, AppendAssociates DEF FifoNoLoss
  <2>7. QED
    BY <2>4, <2>5, <2>6 DEF IInv
<1>6. CASE ~(Len(queue.items) + 1 >= Size)
  <2>1. out' = out \o <<>> /\ out' \in Seq(Items)
    <3>1. PushedBatch(queue, x) = <<>>
      BY <1>1, <1>6, PushedPartial
    <3>2. QED
      BY <1>1, <1>2, <3>1
  <2>2. queue' = [items |-> Append(queue.items, x),
                  intervalId |-> IF HasTimeout THEN "Timeout" ELSE "null",
                  timeouts |-> IF HasTimeout THEN 1 ELSE 0]
    <3>1. CASE queue.intervalId = "Timeout"
      BY <1>1, <1>2, <1>4, <1>6, <3>1, PushedPartial DEF IInv, TimerArmed
    <3>2. CASE queue.intervalId = "null"
      <4>1. CASE HasTimeout
        BY <1>1, <1>2, <1>4, <1>6, <3>2, <4>1, PushedPartial
      <4>2. CASE ~HasTimeout
        BY <1>1, <1>2, <1>4, <1>6, <3>2, <4>2, PushedPartial, QueueOptions
      <4>3. QED
        BY <4>1, <4>2
    <3>3. QED
      BY <1>1, <3>1, <3>2
  <2>3. TypeOK'
    BY <1>3, <2>1, <2>2, QueueOptions DEF TypeOK
  <2>4. TimerArmed'
    BY <1>1, <2>2, AppendedFields DEF TimerArmed
  <2>5. FifoNoLoss'
    <3>1. queue'.items = Append(queue.items, x)
      BY <2>2
    <3>2. out' = out
      BY <1>1, <2>1
    <3>3. QED
      <4>1. added' = Append(out \o queue.items, x)
        BY <1>1, <1>2
      <4>2. QED
        <5>1. added' = out \o Append(queue.items, x)
          BY <1>1, <4>1, AppendAssociates
        <5>2. QED
          BY <3>1, <3>2, <5>1 DEF FifoNoLoss
  <2>6. NeverFull'
    <3>1. queue'.items = Append(queue.items, x)
      BY <2>2
    <3>2. QED
      BY <1>1, <1>6, <3>1, AppendedFields DEF NeverFull
  <2>7. QED
    BY <2>3, <2>4, <2>5, <2>6 DEF IInv
<1>7. QED
  BY <1>5, <1>6

LEMMA TimeoutKeepsIInv ==
  ASSUME IInv, TimeoutFires
  PROVE  IInv'
<1>1. /\ queue \in QueueType /\ out \in Seq(Items) /\ added \in Seq(Items)
      /\ queue.items \in Seq(Items)
  BY DEF IInv, TypeOK, QueueType
<1>2. queue.items # <<>> /\ queue.intervalId = "Timeout" /\ HasTimeout /\ queue.timeouts = 1
  BY <1>1 DEF TimeoutFires, IInv, TimerArmed, QueueType
<1>3. /\ queue' = NewQueue
      /\ out' = out \o queue.items
      /\ added' = added
  BY <1>1, <1>2, RecurringFields DEF TimeoutFires
<1>4. TypeOK'
  BY <1>1, <1>3 DEF TypeOK, NewQueue
<1>5. TimerArmed' /\ NeverFull'
  BY <1>3 DEF TimerArmed, NeverFull, NewQueue
<1>6. FifoNoLoss'
  BY <1>1, <1>3 DEF FifoNoLoss, NewQueue, IInv
<1>7. QED
  BY <1>4, <1>5, <1>6 DEF IInv

(* Every step of the object keeps the invariant.                           *)
LEMMA StepKeepsIInv == IInv /\ [Next]_vars => IInv'
<1>1. SUFFICES ASSUME IInv, [Next]_vars PROVE IInv'
  OBVIOUS
<1>2. ASSUME NEW x \in Items, Add(x) PROVE IInv'
  BY <1>1, <1>2, AddKeepsIInv
<1>3. CASE TimeoutFires
  BY <1>1, <1>3, TimeoutKeepsIInv
<1>4. CASE UNCHANGED vars
  BY <1>1, <1>4 DEF IInv, TypeOK, TimerArmed, FifoNoLoss, NeverFull, vars
<1>5. QED
  BY <1>1, <1>2, <1>3, <1>4 DEF Next

(* The inductive invariant: the type, the timer's discipline, what has     *)
(* been handed over and the room that is left keep each other true.        *)
THEOREM InductiveInvariant == Spec => []IInv
BY InitIInv, StepKeepsIInv, PTL DEF Spec, Safety

(* Every queue object keeps its type.                                      *)
THEOREM TypeCorrect == Spec => []TypeOK
<1>1. IInv => TypeOK
  BY DEF IInv
<1>2. QED
  BY <1>1, InductiveInvariant, PTL

(* A timer is set exactly while something waits, and never twice: the      *)
(* branch of recurringQueue that finds nothing to do is unreachable.       *)
THEOREM TimerAlwaysArmed == Spec => []TimerArmed
<1>1. IInv => TimerArmed
  BY DEF IInv
<1>2. QED
  BY <1>1, InductiveInvariant, PTL

(* No item is lost, duplicated or reordered by the queue, for every size.  *)
THEOREM NothingLost == Spec => []FifoNoLoss
<1>1. IInv => FifoNoLoss
  BY DEF IInv
<1>2. QED
  BY <1>1, InductiveInvariant, PTL

(* A queue never holds a full batch between two calls.                     *)
THEOREM NeverHoldsFullBatch == Spec => []NeverFull
<1>1. IInv => NeverFull
  BY DEF IInv
<1>2. QED
  BY <1>1, InductiveInvariant, PTL

(* Every step of the object is a step of the lossless channel or leaves it *)
(* unchanged.                                                              *)
THEOREM RefinesChannel == Spec => Channel!Safety
<1>1. Init => Channel!Init
  BY DEF Init, Channel!Init
<1>2. IInv /\ IInv' /\ [Next]_vars => [Channel!Next]_(Channel!chanVars)
  <2>1. SUFFICES ASSUME IInv, IInv', [Next]_vars
                 PROVE  [Channel!Next]_(Channel!chanVars)
    OBVIOUS
  <2>2. queue \in QueueType /\ out \in Seq(Items) /\ queue.items \in Seq(Items)
    BY <2>1 DEF IInv, TypeOK, QueueType
  <2>3. ASSUME queue'.items = <<>>
        PROVE  out' = added'
    <3>1. out' \o <<>> = added' /\ out' \in Seq(Items)
      BY <2>1, <2>3 DEF IInv, FifoNoLoss, TypeOK
    <3>2. QED
      BY <3>1
  <2>4. ASSUME NEW x \in Items, Add(x)
        PROVE  Channel!Accept(x) \/ Channel!AcceptAndDeliver(x)
    <3>1. /\ queue' = Pushed(queue, x) /\ out' = out \o PushedBatch(queue, x)
          /\ added' = Append(added, x)
      BY <2>4 DEF Add
    <3>2. CASE Len(queue.items) + 1 >= Size
      <4>1. queue'.items = <<>>
        BY <2>2, <3>1, <3>2, PushedFull
      <4>2. QED
        BY <2>3, <3>1, <4>1 DEF Channel!AcceptAndDeliver
    <3>3. CASE ~(Len(queue.items) + 1 >= Size)
      <4>1. out' = out
        BY <2>2, <3>1, <3>3, PushedPartial
      <4>2. QED
        BY <3>1, <4>1 DEF Channel!Accept
    <3>4. QED
      BY <3>2, <3>3
  <2>5. CASE TimeoutFires
    <3>1. /\ queue.items # <<>> /\ queue.intervalId = "Timeout" /\ HasTimeout
          /\ queue.timeouts = 1
      BY <2>1, <2>2, <2>5 DEF TimeoutFires, IInv, TimerArmed, QueueType
    <3>2. queue' = NewQueue /\ added' = added
      BY <2>2, <2>5, <3>1, RecurringFields DEF TimeoutFires
    <3>3. out' = added'
      BY <2>3, <3>2 DEF NewQueue
    <3>4. out # added
      <4>1. added = out \o queue.items
        BY <2>1 DEF IInv, FifoNoLoss
      <4>2. Len(added) = Len(out) + Len(queue.items) /\ Len(queue.items) # 0
        BY <2>2, <3>1, <4>1
      <4>3. QED
        BY <2>2, <4>2
    <3>5. QED
      BY <3>2, <3>3, <3>4 DEF Channel!Deliver, Channel!Next
  <2>6. CASE UNCHANGED vars
    BY <2>6 DEF vars, Channel!chanVars
  <2>7. QED
    BY <2>1, <2>4, <2>5, <2>6 DEF Next, Channel!Next
<1>3. QED
  BY <1>1, <1>2, StepKeepsIInv, InductiveInvariant, PTL DEF Spec, Safety, Channel!Safety
=============================================================================
