---------------------------- MODULE MCUsageReport ----------------------------
(* One user and one day: calls for different reports never meet.           *)
EXTENDS UsageReport

MCCounts == {<<0, 1>>, <<1, 0>>, <<1, 1>>}
=============================================================================
