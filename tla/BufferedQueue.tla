----------------------------- MODULE BufferedQueue -----------------------------
(***************************************************************************)
(* One BufferedQueue object (src/client/common/utils/BufferedQueue.ts) and *)
(* the event loop that runs its timer.  A method runs to completion before *)
(* the event loop runs anything else, so each call is one step.  The three *)
(* queues of the server have the options [size 10, flushTimeout 2000] and  *)
(* listeners that neither throw nor add to the queue they listen to.       *)
(***************************************************************************)
EXTENDS BufferedQueueOps

CONSTANTS Items, MaxAdds    \* MaxAdds bounds the calls of add a run makes

ASSUME BoundAssumption == MaxAdds \in Nat

VARIABLES queue,    \* the object
          added,    \* every item add was called with, oldest first
          out       \* the batches emitted so far, concatenated

vars == <<queue, added, out>>

Init ==
  /\ queue = NewQueue
  /\ added = <<>>
  /\ out = <<>>

Add(x) ==
  /\ Len(added) < MaxAdds
  /\ queue' = Pushed(queue, x)
  /\ out' = out \o PushedBatch(queue, x)
  /\ added' = Append(added, x)

TimeoutFires ==
  /\ queue.timeouts > 0
  /\ queue' = RecurringQueue(queue)
  /\ out' = out \o queue.items
  /\ UNCHANGED added

Next == TimeoutFires \/ \E x \in Items : Add(x)

Safety == Init /\ [][Next]_vars

(* The event loop runs a timer that stays set; nobody must add.            *)
Spec == Safety /\ WF_vars(TimeoutFires)
-----------------------------------------------------------------------------
TypeOK ==
  /\ queue \in [items : Seq(Items), intervalId : {"null", "Timeout"}, timeouts : Nat]
  /\ added \in Seq(Items)
  /\ out \in Seq(Items)

(* The object believes a timer is set exactly when one is, there is never  *)
(* a second one, and one is set exactly while something waits.  Otherwise  *)
(* the branch of recurringQueue that leaves intervalId set could run, and  *)
(* the queue would never start a timer again.                              *)
TimerArmed ==
  /\ queue.timeouts = IF queue.intervalId = "Timeout" THEN 1 ELSE 0
  /\ queue.intervalId = "Timeout" <=> HasTimeout /\ queue.items # <<>>

(* Nothing is lost, duplicated or reordered between add and the listeners, *)
(* however calls of add and timeouts interleave.                           *)
FifoNoLoss == out \o queue.items = added

(* A queue never holds a full batch once add has returned.                 *)
NeverFull == queue.items # <<>> => Len(queue.items) < Size

Channel == INSTANCE BatchChannel WITH accepted <- added, delivered <- out

(* The object implements the channel its producers rely on, so what is     *)
(* added reaches the listeners even if nobody adds anything again.         *)
ImplementsChannel == Channel!Spec
=============================================================================
