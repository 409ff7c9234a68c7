----------------------------- MODULE IngestTask -----------------------------
(***************************************************************************)
(* The life of one non-blocking upload (POST /documents) in the Python     *)
(* ingestor: the handler submits a background task, the task validates the *)
(* files, ingests them in batches with NV-Ingest, reports progress after   *)
(* each batch through the same record that clients poll with GET /status,  *)
(* and ends FINISHED or FAILED.                                            *)
(*                                                                         *)
(* Everything runs on one asyncio loop, so an action is what runs between  *)
(* two suspensions.  Batches are coroutines of their own when they run in  *)
(* parallel; NV-Ingest itself works on its own and is external.            *)
(***************************************************************************)
EXTENDS Integers, FiniteSets, FiniteSetsExt

CONSTANTS
  NFiles,             \* the upload has the files 1..NFiles, in this order
  FilesPerBatch,      \* state_manager.files_per_batch
  ConcurrentBatches,  \* config.nv_ingest.concurrent_batches
  Parallel,           \* config.nv_ingest.enable_parallel_batch_mode
  RedisBackend,       \* ENABLE_REDIS_BACKEND of the task handler
  Unsupported,        \* the files whose extension NV-Ingest does not take
  Checks,             \* the validation checks that can fail
  MaxStray,           \* bound: metadata items for files not in the upload
  MayRaise,           \* whether NV-Ingest and the vector store raise
  MayCrash,           \* whether the ingestor process can die
  Polled              \* whether a client asks for the status

Files == 1..NFiles

AllChecks == {"metadata", "not_exists", "not_a_file", "already_stored", "format"}

ASSUME IngestAssumption ==
  /\ NFiles \in Nat \ {0}
  /\ FilesPerBatch \in Nat \ {0}
  /\ ConcurrentBatches \in Nat \ {0}
  /\ Parallel \in BOOLEAN
  /\ RedisBackend \in BOOLEAN
  /\ Unsupported \in SUBSET Files
  /\ Checks \in SUBSET AllChecks
  /\ MaxStray \in Nat
  /\ MayRaise \in BOOLEAN
  /\ MayCrash \in BOOLEAN
  /\ Polled \in BOOLEAN

VARIABLES
  task,        \* the record of the task handler: state and result
  main,        \* where the background task stands
  valid,       \* filepaths after validation
  rejected,    \* the files among failed_validation_documents
  batch,       \* where each batch coroutine stands
  future,      \* the NV-Ingest job of each batch
  extraction,  \* NV-Ingest's own status of each file
  reported,    \* nv_ingest_document_wise_status of the state manager
  stored,      \* the documents of the collection in the vector store
  onDisk,      \* the uploaded files not removed yet
  progress,    \* documents_completed_list and total_batches_completed
  answer       \* the state in the last answer to GET /status

batchVars == <<batch, future, extraction, reported>>
vars == <<task, main, valid, rejected, batch, future, extraction, reported,
          stored, onDisk, progress, answer>>

-----------------------------------------------------------------------------
(* filepaths[i : i + files_per_batch] for the b-th batch of the files V.   *)
BatchFiles(V, b) ==
  {f \in V : Cardinality({g \in V : g < f}) \div FilesPerBatch = b - 1}

Batches(V) == {b \in Files : BatchFiles(V, b) # {}}

Supported(b) == BatchFiles(valid, b) \ Unsupported

Running == {b \in Files : batch[b] \in {"polling", "sleeping"}}

(* The result of a record.  Only the one of a rejected upload has the key  *)
(* "state": "FAILED", which is the flag here; entries is the length of its *)
(* failed_documents, where a document may be listed twice.                 *)
Result(kind, docs, failed, batches) ==
  [kind |-> kind, docs |-> docs, failed |-> failed, batches |-> batches,
   entries |-> 0, state |-> kind = "rejected"]

Rejection(failed, entries) ==
  [Result("rejected", {}, failed, 0) EXCEPT !.entries = entries]

Job(state, results, failures) ==
  [state |-> state, results |-> results, failures |-> failures]

Results == [kind : {"none", "progress", "final", "rejected", "error"},
            docs : SUBSET Files, failed : SUBSET Files, batches : Nat,
            entries : Nat, state : BOOLEAN]

ExtractionStates == {"not_started", "submitted", "completed", "failed"}

TypeOK ==
  /\ task \in [state : {"none", "PENDING", "FINISHED", "FAILED"}, result : Results]
  /\ main \in {"idle", "validating", "ingesting", "done", "raised", "dead"}
  /\ valid \in SUBSET Files
  /\ rejected \in SUBSET Files
  /\ batch \in [Files -> {"absent", "waiting", "polling", "sleeping", "returned", "raised"}]
  /\ future \in [Files -> [state : {"none", "pending", "done", "raised"},
                           results : SUBSET Files, failures : SUBSET Files]]
  /\ extraction \in [Files -> ExtractionStates]
  /\ reported \in [Files -> ExtractionStates]
  /\ stored \in SUBSET Files
  /\ onDisk \in SUBSET Files
  /\ progress \in [docs : SUBSET Files, batches : Nat]
  /\ answer \in {"none", "PENDING", "FINISHED", "FAILED", "UNKNOWN"}

Init ==
  /\ task = [state |-> "none", result |-> Result("none", {}, {}, 0)]
  /\ main = "idle"
  /\ valid = {}
  /\ rejected = {}
  /\ batch = [b \in Files |-> "absent"]
  /\ future = [b \in Files |-> Job("none", {}, {})]
  /\ extraction = [f \in Files |-> "not_started"]
  /\ reported = [f \in Files |-> "not_started"]
  /\ stored \in IF "already_stored" \in Checks THEN SUBSET Files ELSE {{}}
  /\ onDisk = Files
  /\ progress = [docs |-> {}, batches |-> 0]
  /\ answer = "none"

SetTask(state, result) == task' = [state |-> state, result |-> result]

-----------------------------------------------------------------------------
(* upload_documents: submit_task, the initial document-wise status and the *)
(* batch-zero progress, all before the loop can start the new task.        *)
Upload ==
  /\ main = "idle"
  /\ main' = "validating"
  /\ SetTask("PENDING", Result("progress", {}, {}, 0))
  /\ UNCHANGED <<valid, rejected, batchVars, stored, onDisk, progress, answer>>

(* The failure entries that the checks can add for a file.  A metadata     *)
(* error takes the file out before the other checks; a missing file is not *)
(* a regular file either.                                                  *)
FailureEntries(f) ==
  {r \in SUBSET Checks :
     /\ "metadata" \in r => r = {"metadata"}
     /\ "not_exists" \in r => "not_a_file" \in r
     /\ "metadata" \notin r => ("already_stored" \in r <=> f \in stored)}

(* failed_validation_documents: entries of the files, and metadata items   *)
(* that name no file of the upload.                                        *)
EntryCount(entries, stray) ==
  stray + MapThenSumSet(LAMBDA f : Cardinality(entries[f]), Files)

Invalid(entries) == {f \in Files : entries[f] # {}}

(* Fault: the entries are compared with the files that the metadata check  *)
(* has left in filepaths.                                                  *)
RejectByRemaining ==
  /\ main = "validating"
  /\ \E entries \in [Files -> SUBSET Checks], stray \in 0..MaxStray :
       /\ \A f \in Files : entries[f] \in FailureEntries(f)
       /\ EntryCount(entries, stray) = Cardinality({f \in Files : "metadata" \notin entries[f]})
       /\ rejected' = Invalid(entries)
       /\ SetTask("FINISHED", Rejection(Invalid(entries), EntryCount(entries, stray)))
  /\ main' = "done"
  /\ UNCHANGED <<valid, batchVars, stored, onDisk, progress, answer>>

(* The checks of __run_background_ingest_task.  The job is given up when   *)
(* there are as many failure entries as files.                             *)
Reject ==
  /\ main = "validating"
  /\ \E entries \in [Files -> SUBSET Checks], stray \in 0..MaxStray :
       /\ \A f \in Files : entries[f] \in FailureEntries(f)
       /\ EntryCount(entries, stray) = NFiles
       /\ rejected' = Invalid(entries)
       /\ SetTask("FINISHED", Rejection(Invalid(entries), EntryCount(entries, stray)))
  /\ main' = "done"
  /\ UNCHANGED <<valid, batchVars, stored, onDisk, progress, answer>>

Accept ==
  /\ main = "validating"
  /\ \E entries \in [Files -> SUBSET Checks], stray \in 0..MaxStray :
       /\ \A f \in Files : entries[f] \in FailureEntries(f)
       /\ EntryCount(entries, stray) # NFiles
       /\ rejected' = Invalid(entries)
       /\ valid' = Files \ Invalid(entries)
  /\ batch' = [b \in Files |-> IF b \in Batches(valid') THEN "waiting" ELSE "absent"]
  /\ main' = "ingesting"
  /\ UNCHANGED <<task, future, extraction, reported, stored, onDisk, progress, answer>>

(* The collection cannot be read, or the metadata validation raises.       *)
ValidateRaise ==
  /\ main = "validating"
  /\ MayRaise
  /\ SetTask("FAILED", Result("error", {}, {}, 0))
  /\ main' = "raised"
  /\ UNCHANGED <<valid, rejected, batchVars, stored, onDisk, progress, answer>>

-----------------------------------------------------------------------------
(* Fault: the loop goes on to the next batch when one has raised.          *)
TurnAfterError(b) ==
  /\ \A c \in Files : c < b => batch[c] \in {"returned", "raised"}
  /\ main = "ingesting"

(* Whether the next batch may go: in the loop the one before has returned, *)
(* in the parallel mode the semaphore has room; gather neither cancels the *)
(* other batches nor stops the waiting ones when one of them raises.       *)
Turn(b) ==
  /\ \A c \in Files : c < b => batch[c] # "waiting"
  /\ IF Parallel
     THEN Cardinality(Running) < ConcurrentBatches /\ main # "dead"
     ELSE main = "ingesting" /\ \A c \in Files : c < b => batch[c] = "returned"

StartBatch(b) ==
  /\ batch[b] = "waiting"
  /\ Turn(b)
  /\ Supported(b) # {}
  /\ batch' = [batch EXCEPT ![b] = "polling"]
  /\ future' = [future EXCEPT ![b] = Job("pending", {}, {})]
  /\ extraction' = [f \in Files |-> IF f \in Supported(b) THEN "submitted"
                                                         ELSE extraction[f]]
  /\ UNCHANGED <<task, main, valid, rejected, reported, stored, onDisk, progress, answer>>

(* Nothing left after the unsupported files are filtered out: the batch    *)
(* returns without a word on the progress.                                 *)
SkipBatch(b) ==
  /\ batch[b] = "waiting"
  /\ Turn(b)
  /\ Supported(b) = {}
  /\ batch' = [batch EXCEPT ![b] = "returned"]
  /\ UNCHANGED <<task, main, valid, rejected, future, extraction, reported,
                 stored, onDisk, progress, answer>>

(* NV-Ingest extracts a document.                                          *)
Extract(f) ==
  /\ extraction[f] = "submitted"
  /\ main # "dead"
  /\ \E outcome \in {"completed", "failed"} :
       extraction' = [extraction EXCEPT ![f] = outcome]
  /\ UNCHANGED <<task, main, valid, rejected, batch, future, reported,
                 stored, onDisk, progress, answer>>

(* NV-Ingest ends the job of a batch: every document has a result, a       *)
(* failure or neither, and the documents with a result reach the vector    *)
(* store, or only some do.                                                 *)
JobDone(b) ==
  /\ future[b].state = "pending"
  /\ main # "dead"
  /\ \A f \in Supported(b) : extraction[f] # "submitted"
  /\ \E results \in SUBSET {f \in Supported(b) : extraction[f] = "completed"} :
     \E failures \in SUBSET (Supported(b) \ results) :
     \E written \in SUBSET results :
       /\ stored' = stored \cup written
       /\ future' = [future EXCEPT ![b] = Job("done", results, failures)]
  /\ UNCHANGED <<task, main, valid, rejected, batch, extraction, reported,
                 onDisk, progress, answer>>

JobRaise(b) ==
  /\ MayRaise
  /\ future[b].state = "pending"
  /\ main # "dead"
  /\ \E written \in SUBSET {f \in Supported(b) : extraction[f] = "completed"} :
       stored' = stored \cup written
  /\ future' = [future EXCEPT ![b] = Job("raised", {}, {})]
  /\ UNCHANGED <<task, main, valid, rejected, batch, extraction, reported,
                 onDisk, progress, answer>>

-----------------------------------------------------------------------------
(* update_nv_ingest_status with what get_status says of the batch.         *)
ReportedWith(b) ==
  [f \in Files |-> IF f \in Supported(b) THEN extraction[f] ELSE reported[f]]

(* The polling loop of a batch: get_status and its report, sleep(1), then  *)
(* future.done() decides on another round.                                 *)
Poll(b) ==
  /\ batch[b] = "polling"
  /\ main # "dead"
  /\ reported' = ReportedWith(b)
  /\ batch' = [batch EXCEPT ![b] = "sleeping"]
  /\ UNCHANGED <<task, main, valid, rejected, future, extraction,
                 stored, onDisk, progress, answer>>

(* get_status raises, or the record of the task cannot be written: the     *)
(* batch has raised, and NV-Ingest goes on with its job.                   *)
PollRaise(b) ==
  /\ MayRaise
  /\ batch[b] = "polling"
  /\ main # "dead"
  /\ reported' \in {reported, ReportedWith(b)}
  /\ batch' = [batch EXCEPT ![b] = "raised"]
  /\ UNCHANGED <<task, main, valid, rejected, future, extraction,
                 stored, onDisk, progress, answer>>

(* Fault: the loop does not ask whether the future is done.                *)
RepollForever(b) ==
  /\ batch[b] = "sleeping"
  /\ main # "dead"
  /\ batch' = [batch EXCEPT ![b] = "polling"]
  /\ UNCHANGED <<task, main, valid, rejected, future, extraction, reported,
                 stored, onDisk, progress, answer>>

(* The job is not done: another round.                                     *)
Repoll(b) ==
  /\ batch[b] = "sleeping"
  /\ main # "dead"
  /\ future[b].state = "pending"
  /\ batch' = [batch EXCEPT ![b] = "polling"]
  /\ UNCHANGED <<task, main, valid, rejected, future, extraction, reported,
                 stored, onDisk, progress, answer>>

(* The batch has results: the files without a failure count as completed   *)
(* and the record of the task is set to PENDING with the new progress.     *)
ReportBatch(b) ==
  /\ batch[b] = "sleeping"
  /\ main # "dead"
  /\ future[b].state = "done"
  /\ future[b].results # {}
  /\ batch' = [batch EXCEPT ![b] = "returned"]
  /\ progress' = [docs |-> progress.docs \cup (BatchFiles(valid, b) \ future[b].failures),
                  batches |-> progress.batches + 1]
  /\ SetTask("PENDING", Result("progress", progress'.docs, future[b].failures \cup rejected,
                               progress'.batches))
  /\ UNCHANGED <<main, valid, rejected, future, extraction, reported, stored, onDisk, answer>>

(* Fault: a batch without results is counted as completed.                 *)
ReturnCounted(b) ==
  /\ batch[b] = "sleeping"
  /\ main # "dead"
  /\ future[b].state = "done"
  /\ future[b].results = {} /\ future[b].failures # {}
  /\ batch' = [batch EXCEPT ![b] = "returned"]
  /\ progress' = [progress EXCEPT !.batches = @ + 1]
  /\ UNCHANGED <<task, main, valid, rejected, future, extraction, reported,
                 stored, onDisk, answer>>

(* No progress: there are only failures, or adding the document info       *)
(* raised, which is logged and swallowed.                                  *)
ReturnUnreported(b) ==
  /\ batch[b] = "sleeping"
  /\ main # "dead"
  /\ future[b].state = "done"
  /\ \/ future[b].results = {} /\ future[b].failures # {}
     \/ future[b].results # {} /\ MayRaise
  /\ batch' = [batch EXCEPT ![b] = "returned"]
  /\ UNCHANGED <<task, main, valid, rejected, future, extraction, reported,
                 stored, onDisk, progress, answer>>

(* The job raised, or gave neither results nor failures, or adding the     *)
(* totals of the collection raised.                                        *)
RaiseBatch(b) ==
  /\ batch[b] = "sleeping"
  /\ main # "dead"
  /\ \/ future[b].state = "raised"
     \/ future[b].state = "done" /\ MayRaise
     \/ future[b].state = "done" /\ future[b].results = {} /\ future[b].failures = {}
  /\ batch' = [batch EXCEPT ![b] = "raised"]
  /\ UNCHANGED <<task, main, valid, rejected, future, extraction, reported,
                 stored, onDisk, progress, answer>>

-----------------------------------------------------------------------------
(* Fault: the first batch that returns ends the upload.                    *)
SomeReturned == \E b \in Batches(valid) : batch[b] = "returned"

(* gather, or the loop, has an answer of every batch.                      *)
AllReturned == \A b \in Batches(valid) : batch[b] = "returned"

BatchFailures == UNION {future[b].failures : b \in Batches(valid)}

(* Fault: the collection is not asked whether it has the documents.        *)
FailedUnchecked == BatchFailures \cup (valid \cap Unsupported)

(* __get_failed_documents with is_final_batch.                             *)
FailedDocuments == BatchFailures \cup (valid \cap Unsupported) \cup (valid \ stored)

(* The final response, the record FINISHED, and the files of the upload    *)
(* that were ingested removed from the disk.                               *)
FinishMain ==
  /\ main = "ingesting"
  /\ AllReturned
  /\ SetTask("FINISHED", Result("final", valid \ FailedDocuments,
                                FailedDocuments \cup rejected, progress.batches))
  /\ main' = "done"
  /\ onDisk' = onDisk \ valid
  /\ UNCHANGED <<valid, rejected, batchVars, stored, progress, answer>>

(* Fault: the files are cleaned up when the task fails, too.               *)
FailMainCleansUp ==
  /\ main = "ingesting"
  /\ \E b \in Files : batch[b] = "raised"
  /\ SetTask("FAILED", Result("error", {}, {}, 0))
  /\ main' = "raised"
  /\ onDisk' = onDisk \ valid
  /\ UNCHANGED <<valid, rejected, batchVars, stored, progress, answer>>

(* A batch raised, or the final response does: the record is FAILED and    *)
(* the files stay where they are.                                          *)
FailMain ==
  /\ main = "ingesting"
  /\ \/ \E b \in Files : batch[b] = "raised"
     \/ AllReturned /\ MayRaise
  /\ SetTask("FAILED", Result("error", {}, {}, 0))
  /\ main' = "raised"
  /\ UNCHANGED <<valid, rejected, batchVars, stored, onDisk, progress, answer>>

(* The process dies: a record in memory is gone, one in Redis stays as it  *)
(* is, and no start-up code picks the task up again.                       *)
Crash ==
  /\ MayCrash
  /\ main \notin {"idle", "dead"}
  /\ main' = "dead"
  /\ IF RedisBackend THEN UNCHANGED task ELSE SetTask("none", Result("none", {}, {}, 0))
  /\ UNCHANGED <<valid, rejected, batchVars, stored, onDisk, progress, answer>>

(* GET /status.  A rejected upload is FINISHED with "state": "FAILED" in   *)
(* its result, which status() pops from the dictionary it was given: in    *)
(* memory that is the record itself.                                       *)
GetStatus ==
  /\ Polled
  /\ main # "idle"
  /\ answer' = IF task.state = "none" THEN "UNKNOWN"
               ELSE IF task.result.state THEN "FAILED"
               ELSE task.state
  /\ task' = IF RedisBackend THEN task ELSE [task EXCEPT !.result = [@ EXCEPT !.state = FALSE]]
  /\ UNCHANGED <<main, valid, rejected, batchVars, stored, onDisk, progress>>

BatchStep(b) ==
  \/ StartBatch(b) \/ SkipBatch(b) \/ Poll(b) \/ PollRaise(b) \/ Repoll(b)
  \/ ReportBatch(b) \/ ReturnUnreported(b) \/ RaiseBatch(b)

ServiceStep(b) == Extract(b) \/ JobDone(b) \/ JobRaise(b)

MainStep == Reject \/ Accept \/ ValidateRaise \/ FinishMain \/ FailMain

Next ==
  \/ Upload \/ MainStep \/ Crash \/ GetStatus
  \/ \E b \in Files : BatchStep(b) \/ ServiceStep(b)

Spec == Init /\ [][Next]_vars

(* The event loop runs what is ready, and NV-Ingest answers: the polling   *)
(* loop has no timeout of its own.                                         *)
FairSpec ==
  /\ Spec
  /\ WF_vars(MainStep)
  /\ \A b \in Files : WF_vars(BatchStep(b)) /\ WF_vars(Extract(b))
                       /\ WF_vars(JobDone(b) \/ JobRaise(b))

-----------------------------------------------------------------------------
(* The last record of an upload that was not rejected has a verdict on     *)
(* every file, and calls exactly those completed that NV-Ingest gave a     *)
(* result for and that are in the collection.  An upload is rejected with  *)
(* a file that nothing is wrong with only when other entries make up for   *)
(* it: the code counts entries, not files, and a file that failed twice or *)
(* metadata for an unknown file adds one too many.                         *)
VerdictOnEveryFile ==
  /\ task.result.kind = "final" =>
       /\ task.result.docs \cup task.result.failed = Files
       /\ task.result.docs \cap task.result.failed = {}
       /\ task.result.docs = stored \cap UNION {future[b].results : b \in Batches(valid)}
  /\ task.result.kind = "rejected" =>
       \/ task.result.failed = Files
       \/ task.result.entries > Cardinality(task.result.failed)

(* batches_completed is the number of batches that have a document in      *)
(* documents_completed_list, and those batches have returned: no batch is  *)
(* counted twice, before its end, or without its documents.                *)
Counted == {b \in Batches(valid) : BatchFiles(valid, b) \cap progress.docs # {}}

CountersAgree ==
  /\ progress.batches = Cardinality(Counted)
  /\ \A b \in Counted : batch[b] = "returned"

(* The files of a batch that has not ended are on the disk: the clean-up   *)
(* of the upload never removes a file that a batch still reads.            *)
FilesKept ==
  \A b \in Batches(valid) :
    batch[b] \in {"waiting", "polling", "sleeping"} => BatchFiles(valid, b) \subseteq onDisk

(* Once the record says FINISHED the upload is over: no batch reports, the *)
(* collection and the extraction status stay as they are, and the record   *)
(* is only forgotten, or loses the flag that status() pops.                *)
FinishedIsFinal ==
  [][task.state = "FINISHED" =>
       /\ task'.state \in {"FINISHED", "none"}
       /\ task'.state = "FINISHED" => task'.result.docs = task.result.docs
       /\ UNCHANGED <<stored, reported, progress>>]_vars

(* What the proofs of these properties rest on: which batches exist, how   *)
(* far the job of each is, which job a stored document comes from, and     *)
(* what the background task knows when it writes a record.                 *)
BatchesMatchFiles == \A b \in Files : batch[b] = "absent" <=> b \notin Batches(valid)

JobsMatchBatches ==
  \A b \in Files :
    /\ batch[b] \in {"absent", "waiting"} => future[b].state = "none"
    /\ future[b].state # "done" => future[b].results = {}
    /\ future[b].state = "pending" => batch[b] \in {"polling", "sleeping", "raised"}
    /\ future[b].state = "raised" => batch[b] \in {"polling", "sleeping", "raised"}
    /\ future[b].results \subseteq Supported(b)
    /\ future[b].failures \subseteq Supported(b) \ future[b].results

StoredByJobs ==
  \A f \in valid \cap stored : \E b \in Batches(valid) :
    \/ f \in future[b].results
    \/ future[b].state = "raised"

RecordsMatchMain ==
  /\ main \in {"idle", "validating"} => valid = {}
  /\ main = "ingesting" => rejected = Files \ valid
  /\ main = "done" => AllReturned
  /\ task.state = "FINISHED" => main \in {"done", "dead"} /\ AllReturned
  /\ task.result.kind = "final" => task.state = "FINISHED"
  /\ onDisk # Files => main \in {"done", "dead"} /\ AllReturned

Bookkeeping ==
  TypeOK /\ BatchesMatchFiles /\ JobsMatchBatches /\ StoredByJobs /\ RecordsMatchMain

Counting ==
  /\ CountersAgree
  /\ main \in {"idle", "validating"} => progress.docs = {}

(* Batches in sequence: when one has started, all before it have returned. *)
(* So none reports after another has raised, and as long as the task is at *)
(* work its record has the progress.                                       *)
InSequence ==
  /\ \A b, c \in Files :
       c < b /\ batch[b] \notin {"absent", "waiting"} => batch[c] = "returned"
  /\ main = "raised" => \A b \in Files : batch[b] \notin {"polling", "sleeping"}

RecordTellsProgress ==
  /\ main = "idle" => task = [state |-> "none", result |-> Result("none", {}, {}, 0)]
  /\ main \in {"done", "raised"} => task.state \in {"FINISHED", "FAILED"}
  /\ main \in {"validating", "ingesting"} =>
       /\ task.state = "PENDING"
       /\ task.result.docs = progress.docs
       /\ task.result.batches = progress.batches

InTurn == InSequence /\ RecordTellsProgress

(* Without a crash, an upload ends.                                        *)
UploadEnds == main = "validating" ~> main \in {"done", "raised", "dead"}

(* The record behaves as the documentation of GET /status says.            *)
Lifecycle == INSTANCE TaskLifecycle
               WITH state <- task.state, completed <- task.result.docs,
                    failed <- task.result.failed, batches <- task.result.batches

LifecycleSpec == Lifecycle!Spec
=============================================================================
