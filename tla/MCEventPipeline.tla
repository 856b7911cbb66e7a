--------------------------- MODULE MCEventPipeline ---------------------------
(* Queues of two make every flush by size and by timer happen with three   *)
(* events, which may be of two users of one tenant and of another tenant's.*)
EXTENDS EventPipeline

MCAccounts == { [tenant |-> "t1", user |-> "u1"], [tenant |-> "t1", user |-> "u2"],
                [tenant |-> "t2", user |-> "u1"] }
=============================================================================
