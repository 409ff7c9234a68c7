-------------------------- MODULE MCSummaryStatus --------------------------
(* An upload of two files, in one batch or in two, for TLC.                *)
EXTENDS SummaryStatus

Together == [f \in Files |-> 1]
Apart == [f \in Files |-> f]
MCBatchings == {Together, Apart}
=============================================================================
