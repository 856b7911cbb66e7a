---------------------------- MODULE MCBufferedQueue ----------------------------
(***************************************************************************)
(* Instance of BufferedQueue for TLC: two kinds of item, a queue of three, *)
(* and enough calls of add for two full batches and a partial one.         *)
(***************************************************************************)
EXTENDS BufferedQueue
=============================================================================
