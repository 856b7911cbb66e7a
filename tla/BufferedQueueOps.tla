--------------------------- MODULE BufferedQueueOps ---------------------------
(***************************************************************************)
(* The methods of src/client/common/utils/BufferedQueue.ts as functions of *)
(* the object's fields.  Each returns the object after the call; the batch *)
(* a call hands to the listeners of 'flush-recovvo-queue' is a function of *)
(* its own, because those listeners run inside the call.                   *)
(*                                                                         *)
(* A queue object is a record                                              *)
(*    items      _items, oldest first                                      *)
(*    intervalId whether the field of that name holds a timer handle       *)
(*    timeouts   how many timers set by this object the event loop holds   *)
(* The last one is the event loop's, not the object's: it differs from     *)
(* intervalId when a timer runs or when a handle is overwritten.           *)
(***************************************************************************)
EXTENDS Integers, Sequences

CONSTANTS Size,         \* _size: -1 when the options give none
          HasTimeout    \* whether the options give a flushTimeout other than 0

ASSUME QueueOptions == Size \in Int /\ HasTimeout \in BOOLEAN

NewQueue == [items |-> <<>>, intervalId |-> "null", timeouts |-> 0]

MaxQueueSizeReached(q) == Len(q.items) >= Size

(* Mutant: a timer is started even when one is set. *)
StartTimeout_Always(q) ==
  IF HasTimeout THEN [q EXCEPT !.intervalId = "Timeout", !.timeouts = @ + 1] ELSE q

StartTimeout(q) ==
  IF q.intervalId = "null" /\ HasTimeout
  THEN [items |-> q.items, intervalId |-> "Timeout", timeouts |-> q.timeouts + 1]
  ELSE q

(* Mutant: the timer is cleared and its handle is not reset. *)
StopTimeout_KeepsHandle(q) ==
  IF q.intervalId = "Timeout" /\ HasTimeout
  THEN [q EXCEPT !.timeouts = IF @ > 0 THEN @ - 1 ELSE 0]
  ELSE q

(* Mutant: a timer that already ran is taken from the event loop again. *)
StopTimeout_Twice(q) ==
  IF q.intervalId = "Timeout" /\ HasTimeout
  THEN [q EXCEPT !.intervalId = "null", !.timeouts = @ - 1]
  ELSE q

(* clearTimeout of a handle whose timer already ran does nothing.          *)
StopTimeout(q) ==
  IF q.intervalId = "Timeout" /\ HasTimeout
  THEN [items |-> q.items, intervalId |-> "null",
        timeouts |-> IF q.timeouts > 0 THEN q.timeouts - 1 ELSE 0]
  ELSE q

(* Mutant: the array is not emptied. *)
FlushItems_Nothing(q) == q

FlushItems(q) == [q EXCEPT !.items = <<>>]

(* The batch is the contents before the call: it is copied, emitted and    *)
(* only then erased.                                                       *)
OnFlush(q) == FlushItems(StopTimeout(q))

Appended(q, x) == [q EXCEPT !.items = Append(@, x)]

Pushed(q, x) ==
  IF MaxQueueSizeReached(Appended(q, x))
  THEN OnFlush(Appended(q, x))
  ELSE StartTimeout(Appended(q, x))

(* Mutant: the array is copied before the item is appended. *)
PushedBatch_WithoutLast(q, x) ==
  IF MaxQueueSizeReached(Appended(q, x)) THEN q.items ELSE <<>>

PushedBatch(q, x) ==
  IF MaxQueueSizeReached(Appended(q, x)) THEN Appended(q, x).items ELSE <<>>

(* The event loop runs the callback of the timer: that timer is gone.      *)
RecurringQueue(q) ==
  LET fired == [q EXCEPT !.timeouts = @ - 1]
  IN  IF Len(fired.items) > 0 THEN OnFlush(fired) ELSE fired
=============================================================================
