---------------------------- MODULE SummaryStatus ----------------------------
(***************************************************************************)
(* The status of document summaries: who writes it and who reads it.  The  *)
(* ingestor marks the files of an upload, runs a summary job for every     *)
(* file with a result, and marks all files when the ingestion fails.  The  *)
(* results are those of the ingestion or, with shallow_summary, of a text  *)
(* extraction before it; both by NV-Ingest, in batches, or by NRL, all     *)
(* files at once.  The statuses are keys in Redis, the summaries are       *)
(* objects in the object store.  GET /summary runs in the RAG server,      *)
(* another process, which reads first the status and then the object,      *)
(* possibly in a loop.                                                     *)
(*                                                                         *)
(* The ingestor is one asyncio loop: an action of it is what runs between  *)
(* two suspensions, as far as the RAG server cannot look in between.       *)
(***************************************************************************)
EXTENDS Integers, FiniteSets

CONSTANTS
  Files,      \* the files of one upload with generate_summary
  Batchings,  \* the ways to ingest them in batches, one after the other
  Backends,   \* "nvingest", "nrl"
  MaxFaults   \* bound: Redis calls that fail

ASSUME StatusAssumption ==
  /\ Batchings \subseteq [Files -> Nat \ {0}]
  /\ \A batching \in Batchings, f \in Files : \A i \in 1..batching[f] :
       \E g \in Files : batching[g] = i
  /\ Backends \subseteq {"nvingest", "nrl"}
  /\ MaxFaults \in Nat

VARIABLES
  backend,    \* config.nv_ingest.backend
  shallow,    \* summary_options.shallow_summary
  batchOf,    \* the batch of a file, by files_per_batch
  files,      \* the files that are ingested: NRL leaves out unsupported ones
  main,       \* where the ingestion task stands
  next,       \* the batch it ingests
  job,        \* the summary job of each file
  status,     \* the keys summary_status:<collection>:<file> in Redis
  store,      \* the files whose summary is in the object store
  deleted,    \* the files whose summary was deleted with the document
  ingRedis,   \* _redis_available of the ingestor
  ragRedis,   \* _redis_available of the RAG server
  faults,     \* Redis calls that failed so far
  reader      \* GET /summary: where it stands, file, blocking, answer

setting == <<backend, shallow, batchOf>>
ingVars == <<setting, files, main, next, job, store, deleted>>
redisVars == <<status, ingRedis, faults>>
vars == <<ingVars, redisVars, ragRedis, reader>>

Statuses == {"none", "PENDING", "IN_PROGRESS", "SUCCESS", "FAILED"}

Answers == Statuses \cup {"NOT_FOUND", "MISSING", "TIMEOUT"}

TypeOK ==
  /\ backend \in {"nvingest", "nrl"}
  /\ shallow \in BOOLEAN
  /\ batchOf \in Batchings
  /\ files \in SUBSET Files
  /\ main \in {"idle", "shallow", "ingesting", "ingested", "done", "raised"}
  /\ next \in Nat \ {0}
  /\ job \in [Files -> {"none", "created", "running", "stored", "done", "failed"}]
  /\ status \in [Files -> Statuses]
  /\ store \in SUBSET Files
  /\ deleted \in SUBSET Files
  /\ ingRedis \in BOOLEAN
  /\ ragRedis \in BOOLEAN
  /\ faults \in 0..MaxFaults
  /\ reader \in [at : {"idle", "asked", "fetching", "waiting", "polled"},
                 file : Files, wait : BOOLEAN, answer : Answers]

Init ==
  /\ backend \in Backends
  /\ shallow \in BOOLEAN
  /\ batchOf \in Batchings
  /\ files = Files
  /\ main = "idle"
  /\ next = 1
  /\ job = [f \in Files |-> "none"]
  /\ status = [f \in Files |-> "none"]
  /\ store = {}
  /\ deleted = {}
  /\ ingRedis = TRUE
  /\ ragRedis = TRUE
  /\ faults = 0
  /\ \E f \in Files :
       reader = [at |-> "idle", file |-> f, wait |-> FALSE, answer |-> "none"]

-----------------------------------------------------------------------------
Marked(S, s) == [f \in Files |-> IF f \in S THEN s ELSE status[f]]

(* set_status or update_progress for the files of S, one after the other:  *)
(* nothing without Redis, and an error ends the use of Redis for good, with *)
(* the statuses written so far.                                            *)
Write(S, s) ==
  \/ /\ ingRedis
     /\ status' = Marked(S, s)
     /\ UNCHANGED <<ingRedis, faults>>
  \/ /\ ingRedis
     /\ S # {}
     /\ faults < MaxFaults
     /\ faults' = faults + 1
     /\ ingRedis' = FALSE
     /\ \E W \in SUBSET S : status' = Marked(W, s)
  \/ /\ ~ingRedis
     /\ UNCHANGED redisVars

(* The loop is free: no job is between the object store and the status.    *)
LoopFree == \A f \in Files : job[f] # "stored"

Batch(b) == {f \in Files : batchOf[f] = b}

(* The task of a summary for each file with a result; without              *)
(* shallow_summary it follows the ingestion, with it the extraction.       *)
Summarize(results) ==
  job' = [f \in Files |-> IF f \in results THEN "created" ELSE job[f]]

SummarizeIngested(results) == IF shallow THEN job' = job ELSE Summarize(results)

(* __run_nvingest_batched_ingestion begins: every file is PENDING.         *)
StartIngestion ==
  /\ main = "idle" /\ backend = "nvingest"
  /\ main' = IF shallow THEN "shallow" ELSE "ingesting"
  /\ Write(Files, "PENDING")
  /\ UNCHANGED <<setting, files, next, job, store, deleted, ragRedis, reader>>

(* filter_unsupported leaves out the files of a type that NRL does not know.*)
FilterUnsupported == files' \in SUBSET Files

(* __run_nrl_ingestion begins, and ends at once if nothing is supported.   *)
StartNrl ==
  /\ main = "idle" /\ backend = "nrl"
  /\ FilterUnsupported
  /\ main' = IF files' = {} THEN "ingested"
             ELSE IF shallow THEN "shallow" ELSE "ingesting"
  /\ Write(files', "PENDING")
  /\ UNCHANGED <<setting, next, job, store, deleted, ragRedis, reader>>

(* The next batch of shallow extractions, or the first of the ingestion.   *)
ShallowNext ==
  IF Batch(next + 1) # {} THEN next' = next + 1 /\ UNCHANGED main
                          ELSE next' = 1 /\ main' = "ingesting"

(* _perform_shallow_extraction of a batch; if it raises, all files failed. *)
ShallowExtractions(b) ==
  {x \in [results : SUBSET Batch(b), failures : SUBSET Batch(b)] :
     x.results \cap x.failures = {}}

(* __process_shallow_batch: failures are marked, or the whole batch if     *)
(* there is no result.                                                     *)
ShallowBatch ==
  /\ main = "shallow" /\ backend = "nvingest" /\ LoopFree
  /\ \E x \in ShallowExtractions(next) :
       /\ Summarize(x.results)
       /\ Write(IF x.results = {} THEN Batch(next) ELSE x.failures, "FAILED")
  /\ ShallowNext
  /\ UNCHANGED <<setting, files, store, deleted, ragRedis, reader>>

(* ingest_shallow takes PDF, DOCX and PPTX files only, and may raise.      *)
IngestShallow == SUBSET files

(* The shallow extraction of NRL; a file without a result is not marked.   *)
ShallowNrl ==
  /\ main = "shallow" /\ backend = "nrl" /\ LoopFree
  /\ \E results \in IngestShallow : Summarize(results)
  /\ main' = "ingesting"
  /\ UNCHANGED <<setting, files, next, store, deleted, redisVars, ragRedis, reader>>

(* The next batch of the ingestion, or what follows the last one.          *)
IngestNext ==
  /\ next' = next + 1
  /\ main' = IF Batch(next + 1) # {} THEN "ingesting" ELSE "ingested"

(* A batch returns results for some of its files: each gets a summary job. *)
BatchResults ==
  /\ main = "ingesting" /\ backend = "nvingest" /\ LoopFree
  /\ \E results \in (SUBSET Batch(next)) \ {{}} : SummarizeIngested(results)
  /\ IngestNext
  /\ UNCHANGED <<setting, files, store, deleted, redisVars, ragRedis, reader>>

(* Only failures: the files of the batch are marked, the next batch goes.  *)
(* Files that are not supported have been filtered out and are not marked, *)
(* nor is any if the summaries are shallow.                                *)
BatchFailures ==
  /\ main = "ingesting" /\ backend = "nvingest" /\ LoopFree
  /\ \E supported \in SUBSET Batch(next) :
       Write(IF shallow THEN {} ELSE supported, "FAILED")
  /\ IngestNext
  /\ UNCHANGED <<setting, files, job, store, deleted, ragRedis, reader>>

(* The pipelines of NRL, one for each group of types.                      *)
Ingest == SUBSET files

(* NRL returns for all files at once; those without a result stay PENDING. *)
NrlResults ==
  /\ main = "ingesting" /\ backend = "nrl" /\ LoopFree
  /\ \E results \in Ingest : SummarizeIngested(results)
  /\ main' = "ingested"
  /\ UNCHANGED <<setting, files, next, store, deleted, redisVars, ragRedis, reader>>

(* Fault: the files keep the status they have.                             *)
IngestionRaisesSilently ==
  /\ main \in {"ingesting", "ingested"} /\ LoopFree
  /\ main' = "raised"
  /\ UNCHANGED <<setting, files, next, job, store, deleted, redisVars, ragRedis, reader>>

(* A batch, or the final response, raises: every file is marked FAILED.    *)
IngestionRaises ==
  /\ main \in {"ingesting", "ingested"} /\ LoopFree
  /\ main' = "raised"
  /\ Write(Files, "FAILED")
  /\ UNCHANGED <<setting, files, next, job, store, deleted, ragRedis, reader>>

IngestionEnds ==
  /\ main = "ingested" /\ LoopFree
  /\ main' = "done"
  /\ UNCHANGED <<setting, files, next, job, store, deleted, redisVars, ragRedis, reader>>

-----------------------------------------------------------------------------
(* _process_single_file_summary: "Queued...".                              *)
JobStart(f) ==
  /\ job[f] = "created" /\ LoopFree
  /\ job' = [job EXCEPT ![f] = "running"]
  /\ Write({f}, "IN_PROGRESS")
  /\ UNCHANGED <<setting, files, main, next, store, deleted, ragRedis, reader>>

(* A chunk is done.                                                        *)
JobProgress(f) ==
  /\ job[f] = "running" /\ LoopFree
  /\ Write({f}, "IN_PROGRESS")
  /\ UNCHANGED <<setting, files, main, next, job, store, deleted, ragRedis, reader>>

(* Fault: the status is set before the summary is stored.                  *)
JobStoreLate(f) ==
  /\ job[f] = "running" /\ LoopFree
  /\ job' = [job EXCEPT ![f] = "stored"]
  /\ Write({f}, "SUCCESS")
  /\ UNCHANGED <<setting, files, main, next, store, deleted, ragRedis, reader>>

JobStore(f) ==
  /\ job[f] = "running" /\ LoopFree
  /\ job' = [job EXCEPT ![f] = "stored"]
  /\ store' = store \cup {f}
  /\ UNCHANGED <<setting, files, main, next, deleted, redisVars, ragRedis, reader>>

JobSuccess(f) ==
  /\ job[f] = "stored"
  /\ job' = [job EXCEPT ![f] = "done"]
  /\ Write({f}, "SUCCESS")
  /\ UNCHANGED <<setting, files, main, next, store, deleted, ragRedis, reader>>

(* Fault: the error of a job is logged and nothing else.                   *)
JobFailsSilently(f) ==
  /\ job[f] = "running" /\ LoopFree
  /\ job' = [job EXCEPT ![f] = "failed"]
  /\ UNCHANGED <<setting, files, main, next, store, deleted, redisVars, ragRedis, reader>>

(* The LLM or the object store raises.                                     *)
JobFails(f) ==
  /\ job[f] = "running" /\ LoopFree
  /\ job' = [job EXCEPT ![f] = "failed"]
  /\ Write({f}, "FAILED")
  /\ UNCHANGED <<setting, files, main, next, store, deleted, ragRedis, reader>>

(* DELETE or PATCH of a document: its summary goes, its status stays.      *)
DeleteSummary(f) ==
  /\ f \in store /\ LoopFree
  /\ store' = store \ {f}
  /\ deleted' = deleted \cup {f}
  /\ UNCHANGED <<setting, files, main, next, job, redisVars, ragRedis, reader>>

-----------------------------------------------------------------------------
(* What get_status gives the RAG server: "none" without Redis, and an      *)
(* error of Redis counts as that and ends the use of Redis.                *)
ReadStatus(s) ==
  \/ s = (IF ragRedis THEN status[reader.file] ELSE "none") /\ UNCHANGED <<ragRedis, faults>>
  \/ /\ s = "none" /\ ragRedis /\ faults < MaxFaults
     /\ ragRedis' = FALSE /\ faults' = faults + 1

ReaderTo(at, answer) == reader' = [reader EXCEPT !.at = at, !.answer = answer]

Ask(f) ==
  /\ reader.at = "idle"
  /\ \E wait \in BOOLEAN :
       reader' = [at |-> "asked", file |-> f, wait |-> wait, answer |-> "none"]
  /\ UNCHANGED <<ingVars, redisVars, ragRedis>>

(* retrieve_summary, first the status ...                                  *)
Retrieve ==
  /\ reader.at = "asked"
  /\ \E s \in Statuses :
       /\ ReadStatus(s)
       /\ \/ s \in {"PENDING", "IN_PROGRESS"} /\ reader.wait /\ ReaderTo("waiting", "none")
          \/ s \in {"PENDING", "IN_PROGRESS"} /\ ~reader.wait /\ ReaderTo("idle", s)
          \/ s = "FAILED" /\ ReaderTo("idle", "FAILED")
          \/ s \in {"none", "SUCCESS"} /\ ReaderTo("fetching", "none")
  /\ UNCHANGED <<ingVars, status, ingRedis>>

(* ... and then the object store.                                          *)
Fetch ==
  /\ reader.at = "fetching"
  /\ \/ reader.file \in store /\ ReaderTo("idle", "SUCCESS")
     \/ reader.file \notin store /\ reader.wait /\ ReaderTo("waiting", "none")
     \/ reader.file \notin store /\ ~reader.wait /\ ReaderTo("idle", "NOT_FOUND")
  /\ UNCHANGED <<ingVars, redisVars, ragRedis>>

(* Fault: the round does not end for FAILED.                               *)
PollStatusForSuccess ==
  /\ reader.at = "waiting"
  /\ ragRedis
  /\ \E s \in Statuses :
       /\ ReadStatus(s)
       /\ IF s = "SUCCESS" THEN ReaderTo("polled", "none") ELSE ReaderTo("waiting", "none")
  /\ UNCHANGED <<ingVars, status, ingRedis>>

(* A round of _wait_for_summary_completion.  Without Redis only the object *)
(* store is asked.                                                         *)
PollStatus ==
  /\ reader.at = "waiting"
  /\ ragRedis
  /\ \E s \in Statuses :
       /\ ReadStatus(s)
       /\ \/ s \in {"none", "PENDING", "IN_PROGRESS"} /\ ReaderTo("waiting", "none")
          \/ s = "FAILED" /\ ReaderTo("idle", "FAILED")
          \/ s = "SUCCESS" /\ ReaderTo("polled", "none")
  /\ UNCHANGED <<ingVars, status, ingRedis>>

PollStore ==
  /\ reader.at = "waiting"
  /\ ~ragRedis
  /\ reader.file \in store
  /\ ReaderTo("idle", "SUCCESS")
  /\ UNCHANGED <<ingVars, redisVars, ragRedis>>

(* The status said SUCCESS: the summary has to be there.                   *)
PollFetch ==
  /\ reader.at = "polled"
  /\ ReaderTo("idle", IF reader.file \in store THEN "SUCCESS" ELSE "MISSING")
  /\ UNCHANGED <<ingVars, redisVars, ragRedis>>

(* The loop is given up; the answer is FAILED with the words of a timeout. *)
Timeout ==
  /\ reader.at = "waiting"
  /\ ReaderTo("idle", "TIMEOUT")
  /\ UNCHANGED <<ingVars, redisVars, ragRedis>>

-----------------------------------------------------------------------------
IngestionStep ==
  \/ StartIngestion \/ ShallowBatch \/ BatchResults \/ BatchFailures
  \/ StartNrl \/ ShallowNrl \/ NrlResults
  \/ IngestionRaises \/ IngestionEnds

JobStep(f) ==
  JobStart(f) \/ JobProgress(f) \/ JobStore(f) \/ JobSuccess(f) \/ JobFails(f)

ReaderStep == Retrieve \/ Fetch \/ PollStatus \/ PollStore \/ PollFetch

Next ==
  \/ IngestionStep
  \/ \E f \in Files : JobStep(f) \/ DeleteSummary(f) \/ Ask(f)
  \/ ReaderStep \/ Timeout

Spec == Init /\ [][Next]_vars

(* Both loops run what is ready; a document has finitely many chunks.  No  *)
(* timeout and no error of Redis has to happen.                            *)
FairSpec ==
  /\ Spec
  /\ WF_vars(ReaderStep /\ UNCHANGED faults)
  /\ \A f \in Files : /\ WF_vars(JobStart(f))
                      /\ WF_vars(JobStore(f) \/ JobFails(f))
                      /\ WF_vars(JobSuccess(f))

-----------------------------------------------------------------------------
(* A status SUCCESS is backed by a summary in the object store unless its  *)
(* document was deleted, so that no reader of another summary finds        *)
(* "Summary marked as complete but content not found".                     *)
SuccessIsBacked ==
  /\ \A f \in Files : status[f] = "SUCCESS" => f \in store \cup deleted
  /\ reader.answer = "MISSING" => reader.file \in deleted
  /\ reader.answer = "SUCCESS" => reader.file \in store \cup deleted

Quiet ==
  /\ main \in {"done", "raised"}
  /\ \A f \in Files : job[f] \in {"none", "done", "failed"}

(* Without errors of Redis, when nothing runs any more: a file has the     *)
(* status its summary job ended with, PENDING only without a job, none     *)
(* only if NRL left it out, and a failing ingestion leaves nothing that a  *)
(* reader would wait for; nor does a batch in which the shallow extraction *)
(* of NV-Ingest found nothing.                                             *)
StatusTellsOutcome ==
  (faults = 0 /\ Quiet) => \A f \in Files :
    /\ status[f] # "IN_PROGRESS"
    /\ status[f] = "none" => f \notin files
    /\ job[f] = "failed" => status[f] = "FAILED"
    /\ job[f] = "done" => status[f] = "SUCCESS" \/ main = "raised"
    /\ job[f] = "none" => status[f] # "SUCCESS"
    /\ status[f] = "PENDING" => job[f] = "none" /\ main = "done"
    /\ status[f] = "PENDING" /\ shallow /\ backend = "nvingest" =>
         \E g \in Batch(batchOf[f]) : job[g] # "none"

(* Every summary job ends in a status that ends the wait of a reader.      *)
EveryJobReported ==
  [](faults = 0) =>
     \A f \in Files : job[f] = "created" ~> status[f] \in {"SUCCESS", "FAILED"}

(* A reader that waits for the summary of a file with a job gets an answer *)
(* without having to run into its timeout.                                 *)
WaitersAnswered ==
  [](faults = 0) =>
     ((reader.at = "waiting" /\ job[reader.file] # "none") ~> reader.at = "idle")
=============================================================================
