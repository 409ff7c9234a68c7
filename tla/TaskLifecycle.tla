--------------------------- MODULE TaskLifecycle ----------------------------
(***************************************************************************)
(* What a client that polls GET /status may rely on (docs/api-ingestor.md, *)
(* "Task Status Tracking"): an upload is PENDING while its progress grows, *)
(* and ends once, FINISHED with a verdict on every file, or FAILED.  A     *)
(* server that keeps its records in memory may forget a task.              *)
(***************************************************************************)
EXTENDS Naturals, FiniteSets

CONSTANT Files   \* the files of the upload

VARIABLES state,      \* the state of the task
          completed,  \* the documents reported as completed
          failed,     \* the documents reported as failed
          batches     \* batches_completed

vars == <<state, completed, failed, batches>>

Init == state = "none" /\ completed = {} /\ failed = {} /\ batches = 0

Submit ==
  /\ state = "none"
  /\ state' = "PENDING"
  /\ UNCHANGED <<completed, failed, batches>>

(* A batch completes: at least one more document, one more batch.          *)
Advance ==
  /\ state = "PENDING"
  /\ state' = "PENDING"
  /\ completed' \in {C \in SUBSET Files : completed \subseteq C /\ completed # C}
  /\ failed' \in SUBSET Files
  /\ batches' = batches + 1

(* Every file of the upload is either a document now, or listed as failed. *)
Finish ==
  /\ state = "PENDING"
  /\ state' = "FINISHED"
  /\ completed' \in SUBSET Files
  /\ failed' = Files \ completed'
  /\ batches' = batches

(* The validation gave the upload up before any batch.                     *)
Reject ==
  /\ state = "PENDING"
  /\ batches = 0
  /\ state' = "FINISHED"
  /\ failed' \in SUBSET Files
  /\ completed' = {}
  /\ batches' = 0

Fail ==
  /\ state = "PENDING"
  /\ state' = "FAILED"
  /\ completed' = {} /\ failed' = {} /\ batches' = 0

Forget ==
  /\ state # "none"
  /\ state' = "none"
  /\ completed' = {} /\ failed' = {} /\ batches' = 0

Next == Submit \/ Advance \/ Finish \/ Reject \/ Fail \/ Forget

Spec == Init /\ [][Next]_vars
=============================================================================
