--------------------------- MODULE MCSummarySlots ---------------------------
(* An instance of SummarySlots for TLC: one process with three jobs.       *)
EXTENDS SummarySlots

CONSTANTS i1, j1, j2, j3

OneProcess == [j \in Jobs |-> i1]
=============================================================================
