----------------------------- MODULE BatchChannel -----------------------------
(***************************************************************************)
(* What the producers of events may assume of a buffered queue: a lossless *)
(* first-in first-out channel that hands over everything it has accepted   *)
(* and not handed over yet at once, at a moment of its own choosing but    *)
(* not never.                                                              *)
(***************************************************************************)
EXTENDS Sequences

CONSTANT Items
VARIABLES accepted,    \* oldest first
          delivered    \* handed over to the listeners, oldest first

chanVars == <<accepted, delivered>>

Init == accepted = <<>> /\ delivered = <<>>

Accept(x) == accepted' = Append(accepted, x) /\ UNCHANGED delivered

AcceptAndDeliver(x) ==
  /\ accepted' = Append(accepted, x)
  /\ delivered' = accepted'

Deliver ==
  /\ delivered # accepted
  /\ delivered' = accepted
  /\ UNCHANGED accepted

Next == Deliver \/ \E x \in Items : Accept(x) \/ AcceptAndDeliver(x)

Safety == Init /\ [][Next]_chanVars

Spec == Safety /\ WF_chanVars(Deliver)
=============================================================================
