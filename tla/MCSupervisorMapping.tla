------------------------- MODULE MCSupervisorMapping -------------------------
(* Two users make the mappings (u1, u2) and (u2, u1); two requests at a    *)
(* time, followed by any others, and three rows, so that a pair can have   *)
(* two beside another one.                                                 *)
EXTENDS SupervisorMapping
=============================================================================
