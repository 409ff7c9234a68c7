------------------------- MODULE SummaryStatusProofs -------------------------
(***************************************************************************)
(* Theorems about SummaryStatus: its types, that a status SUCCESS is       *)
(* backed by a stored summary, and that without errors of Redis the        *)
(* statuses tell what became of the summary jobs.  The proofs go over what *)
(* a write of a status can do, stated once in Writes.                      *)
(***************************************************************************)
EXTENDS SummaryStatus, TLAPS

(* A set of files marked with a status: the others keep theirs.            *)
LEMMA MarkedIs ==
  ASSUME TypeOK, NEW S \in SUBSET Files, NEW s \in Statuses
  PROVE  /\ Marked(S, s) \in [Files -> Statuses]
         /\ \A f \in Files : Marked(S, s)[f] = IF f \in S THEN s ELSE status[f]
BY DEF Marked, TypeOK

(* A write of a status, whether or not Redis takes it, keeps the types and *)
(* changes only files of the set, to that status; and if no call to Redis  *)
(* has failed afterwards, it was carried out.                              *)
LEMMA Writes ==
  ASSUME TypeOK, NEW S \in SUBSET Files, NEW s \in Statuses, Write(S, s)
  PROVE  /\ status' \in [Files -> Statuses]
         /\ ingRedis' \in BOOLEAN
         /\ faults' \in 0..MaxFaults
         /\ \A f \in Files : status'[f] = status[f] \/ (f \in S /\ status'[f] = s)
         /\ faults' = 0 =>
              /\ faults = 0
              /\ ingRedis' = ingRedis
              /\ ingRedis => \A f \in Files :
                   status'[f] = IF f \in S THEN s ELSE status[f]
<1>1. faults \in 0..MaxFaults /\ MaxFaults \in Nat /\ ingRedis \in BOOLEAN
  BY StatusAssumption DEF TypeOK
<1>2. CASE ingRedis /\ status' = Marked(S, s) /\ ingRedis' = ingRedis /\ faults' = faults
  BY <1>1, <1>2, MarkedIs
<1>3. CASE /\ faults < MaxFaults
           /\ faults' = faults + 1
           /\ ingRedis' = FALSE
           /\ \E W \in SUBSET S : status' = Marked(W, s)
  <2>1. PICK W \in SUBSET S : status' = Marked(W, s)
    BY <1>3
  <2>2. W \in SUBSET Files
    OBVIOUS
  <2>3. /\ status' \in [Files -> Statuses]
        /\ \A f \in Files : status'[f] = IF f \in W THEN s ELSE status[f]
    BY <2>1, <2>2, MarkedIs
  <2>4. faults' \in 0..MaxFaults /\ faults' # 0
    BY <1>1, <1>3
  <2>5. ingRedis' \in BOOLEAN
    BY <1>3
  <2> QED
    BY <2>3, <2>4, <2>5
<1>4. CASE ~ingRedis /\ status' = status /\ ingRedis' = ingRedis /\ faults' = faults
  BY <1>1, <1>4 DEF TypeOK
<1> QED
  BY <1>2, <1>3, <1>4 DEF Write, redisVars

(* Only a write of SUCCESS makes a status SUCCESS.                         *)
LEMMA OtherWrites ==
  ASSUME TypeOK, NEW S \in SUBSET Files,
         NEW s \in {"PENDING", "IN_PROGRESS", "FAILED"}, Write(S, s)
  PROVE  \A f \in Files : status'[f] = "SUCCESS" => status[f] = "SUCCESS"
<1>1. s \in Statuses /\ s # "SUCCESS"
  BY DEF Statuses
<1>2. \A f \in Files : status'[f] = status[f] \/ (f \in S /\ status'[f] = s)
  BY <1>1, Writes
<1> QED
  BY <1>1, <1>2

(* What get_status answers is the key or nothing, and costs at most Redis. *)
LEMMA Reads ==
  ASSUME TypeOK, NEW s \in Statuses, ReadStatus(s)
  PROVE  /\ ragRedis' \in BOOLEAN
         /\ faults' \in 0..MaxFaults
         /\ faults' = 0 => faults = 0
         /\ s = "none" \/ s = status[reader.file]
<1>1. faults \in 0..MaxFaults /\ MaxFaults \in Nat /\ ragRedis \in BOOLEAN
  BY StatusAssumption DEF TypeOK
<1>2. CASE /\ s = (IF ragRedis THEN status[reader.file] ELSE "none")
           /\ ragRedis' = ragRedis
           /\ faults' = faults
  BY <1>1, <1>2
<1>3. CASE s = "none" /\ faults < MaxFaults /\ ragRedis' = FALSE /\ faults' = faults + 1
  <2>1. faults' \in 0..MaxFaults /\ faults' # 0
    BY <1>1, <1>3
  <2>2. ragRedis' \in BOOLEAN /\ s = "none"
    BY <1>3
  <2> QED
    BY <2>1, <2>2
<1> QED
  BY <1>2, <1>3 DEF ReadStatus

(* A move of the reader keeps its file.                                    *)
LEMMA ReaderMoves ==
  ASSUME TypeOK, NEW at \in {"idle", "asked", "fetching", "waiting", "polled"},
         NEW answer \in Answers, ReaderTo(at, answer)
  PROVE  /\ reader' \in [at : {"idle", "asked", "fetching", "waiting", "polled"},
                         file : Files, wait : BOOLEAN, answer : Answers]
         /\ reader'.at = at
         /\ reader'.file = reader.file
         /\ reader'.answer = answer
<1>1. reader' = [[reader EXCEPT !.at = at] EXCEPT !.answer = answer]
  BY DEF ReaderTo
<1>2. reader \in [at : {"idle", "asked", "fetching", "waiting", "polled"},
                  file : Files, wait : BOOLEAN, answer : Answers]
  BY DEF TypeOK
<1> DEFINE r == [reader EXCEPT !.at = at]
<1>3. /\ r \in [at : {"idle", "asked", "fetching", "waiting", "polled"},
                 file : Files, wait : BOOLEAN, answer : Answers]
      /\ r.at = at
      /\ r.file = reader.file
  BY <1>2
<1>4. reader' = [r EXCEPT !.answer = answer]
  BY <1>1
<1> QED
  BY <1>3, <1>4

-----------------------------------------------------------------------------
(* Every variable keeps its type: main.py, summarization.py and the status *)
(* handler use no status or job state beyond the ones named.               *)
THEOREM TypeCorrect == Spec => []TypeOK
<1>1. Init => TypeOK
  BY StatusAssumption DEF Init, TypeOK, Statuses, Answers
<1>2. TypeOK /\ [Next]_vars => TypeOK'
  <2> SUFFICES ASSUME TypeOK, [Next]_vars PROVE TypeOK'
    OBVIOUS
  <2> USE StatusAssumption
  <2> DEFINE All == {"PENDING", "IN_PROGRESS", "SUCCESS", "FAILED"}
  <2>0. All \subseteq Statuses
    BY DEF Statuses
  <2>1. CASE IngestionStep
    <3>1. CASE StartIngestion
      BY <2>0, <3>1, Writes DEF StartIngestion, TypeOK, setting
    <3>2. CASE BatchResults
      BY <3>2 DEF BatchResults, SummarizeIngested, Summarize, IngestNext, TypeOK, redisVars,
                  setting
    <3>3. CASE BatchFailures
      <4>1. PICK S \in SUBSET Files : Write(S, "FAILED")
        BY <3>3 DEF BatchFailures, Batch
      <4> QED
        BY <2>0, <3>3, <4>1, Writes DEF BatchFailures, IngestNext, TypeOK, setting
    <3>4. CASE IngestionRaises
      BY <2>0, <3>4, Writes DEF IngestionRaises, TypeOK, setting
    <3>5. CASE IngestionEnds
      BY <3>5 DEF IngestionEnds, TypeOK, redisVars, setting
    <3>6. CASE StartNrl
      BY <2>0, <3>6, Writes DEF StartNrl, FilterUnsupported, TypeOK, setting
    <3>7. CASE ShallowBatch
      <4>1. PICK S \in SUBSET Files : Write(S, "FAILED")
        BY <3>7 DEF ShallowBatch, ShallowExtractions, Batch
      <4> QED
        BY <2>0, <3>7, <4>1, Writes DEF ShallowBatch, ShallowExtractions, ShallowNext, Summarize, TypeOK, setting
    <3>8. CASE ShallowNrl
      BY <3>8 DEF ShallowNrl, IngestShallow, Summarize, TypeOK, redisVars, setting
    <3>9. CASE NrlResults
      BY <3>9 DEF NrlResults, Ingest, SummarizeIngested, Summarize, TypeOK, redisVars, setting
    <3> QED
      BY <2>1, <3>1, <3>2, <3>3, <3>4, <3>5, <3>6, <3>7, <3>8, <3>9 DEF IngestionStep
  <2>2. ASSUME NEW f \in Files, JobStep(f) PROVE TypeOK'
    <3>1. CASE JobStart(f)
      <4>1. /\ status' \in [Files -> Statuses]
            /\ ingRedis' \in BOOLEAN
            /\ faults' \in 0..MaxFaults
        BY <2>0, <3>1, Writes DEF JobStart
      <4> QED
        BY <3>1, <4>1 DEF JobStart, TypeOK, setting
    <3>2. CASE JobProgress(f)
      BY <2>0, <3>2, Writes DEF JobProgress, TypeOK, setting
    <3>3. CASE JobStore(f)
      BY <3>3 DEF JobStore, TypeOK, redisVars, setting
    <3>4. CASE JobSuccess(f)
      BY <2>0, <3>4, Writes DEF JobSuccess, TypeOK, setting
    <3>5. CASE JobFails(f)
      BY <2>0, <3>5, Writes DEF JobFails, TypeOK, setting
    <3> QED
      BY <2>2, <3>1, <3>2, <3>3, <3>4, <3>5 DEF JobStep
  <2>3. ASSUME NEW f \in Files, DeleteSummary(f) PROVE TypeOK'
    BY <2>3 DEF DeleteSummary, TypeOK, redisVars, setting
  <2>4. ASSUME NEW f \in Files, Ask(f) PROVE TypeOK'
    BY <2>4 DEF Ask, TypeOK, ingVars, setting, redisVars, Answers, Statuses
  <2>5. CASE ReaderStep \/ Timeout
    <3> USE DEF Answers, Statuses
    <3>1. CASE Retrieve
      <4>1. ragRedis' \in BOOLEAN /\ faults' \in 0..MaxFaults
        BY <3>1, Reads DEF Retrieve
      <4>2. \E at \in {"idle", "fetching", "waiting"}, answer \in Answers :
              ReaderTo(at, answer)
        BY <3>1 DEF Retrieve
      <4> QED
        BY <3>1, <4>1, <4>2, ReaderMoves DEF Retrieve, TypeOK, ingVars, setting
    <3>2. CASE Fetch
      <4>1. \E at \in {"idle", "waiting"}, answer \in Answers : ReaderTo(at, answer)
        BY <3>2 DEF Fetch
      <4> QED
        BY <3>2, <4>1, ReaderMoves DEF Fetch, TypeOK, ingVars, setting, redisVars
    <3>3. CASE PollStatus
      <4>1. ragRedis' \in BOOLEAN /\ faults' \in 0..MaxFaults
        BY <3>3, Reads DEF PollStatus
      <4>2. \E at \in {"idle", "polled", "waiting"}, answer \in Answers :
              ReaderTo(at, answer)
        BY <3>3 DEF PollStatus
      <4> QED
        BY <3>3, <4>1, <4>2, ReaderMoves DEF PollStatus, TypeOK, ingVars, setting
    <3>4. CASE PollStore
      BY <3>4, ReaderMoves DEF PollStore, TypeOK, ingVars, setting, redisVars
    <3>5. CASE PollFetch
      BY <3>5, ReaderMoves DEF PollFetch, TypeOK, ingVars, setting, redisVars
    <3>6. CASE Timeout
      BY <3>6, ReaderMoves DEF Timeout, TypeOK, ingVars, setting, redisVars
    <3> QED
      BY <2>5, <3>1, <3>2, <3>3, <3>4, <3>5, <3>6 DEF ReaderStep
  <2>6. CASE UNCHANGED vars
    BY <2>6 DEF vars, ingVars, redisVars, setting, TypeOK
  <2> QED
    BY <2>1, <2>2, <2>3, <2>4, <2>5, <2>6 DEF Next
<1> QED
  BY <1>1, <1>2, PTL DEF Spec

-----------------------------------------------------------------------------
(* The file may still get its summary job.                                 *)
Due(f) ==
  \/ main = "idle"
  \/ /\ main = IF shallow THEN "shallow" ELSE "ingesting"
     /\ backend = "nrl" \/ batchOf[f] >= next

(* The strengthening of SuccessIsBacked: a job that stored its summary     *)
(* left it there or it was deleted, only such a job writes SUCCESS, and    *)
(* the reader fetches only after it read SUCCESS.                          *)
Backed ==
  /\ TypeOK
  /\ \A f \in Files : job[f] \in {"stored", "done"} => f \in store \cup deleted
  /\ \A f \in Files : status[f] = "SUCCESS" => job[f] = "done"
  /\ main = "shallow" => shallow
  /\ \A f \in Files : Due(f) => job[f] = "none"
  /\ reader.at = "polled" => reader.file \in store \cup deleted
  /\ reader.answer = "MISSING" => reader.file \in deleted
  /\ reader.answer = "SUCCESS" => reader.file \in store \cup deleted

(* The strengthening is an invariant: _process_single_file_summary stores  *)
(* the summary before it sets the status.                                  *)
LEMMA BackedHolds == Spec => []Backed
<1>1. Init => Backed
  BY StatusAssumption DEF Init, Backed, Due, TypeOK, Statuses, Answers
<1>2. TypeOK' /\ Backed /\ [Next]_vars => Backed'
  <2> SUFFICES ASSUME TypeOK', Backed, [Next]_vars PROVE Backed'
    OBVIOUS
  <2> USE DEF Backed, Due, setting
  <2>0. /\ {"PENDING", "IN_PROGRESS", "SUCCESS", "FAILED"} \subseteq Statuses
        /\ {"FAILED", "SUCCESS", "MISSING", "NOT_FOUND", "TIMEOUT", "none"} \subseteq Answers
        /\ reader.file \in Files
    BY DEF Statuses, Answers, TypeOK
  <2>1. CASE IngestionStep
    <3> batchOf \in [Files -> Nat \ {0}] /\ next \in Nat \ {0}
      BY StatusAssumption DEF TypeOK
    <3>1. CASE StartIngestion
      <4>1. \A f \in Files : status'[f] = "SUCCESS" => status[f] = "SUCCESS"
        BY <3>1, OtherWrites DEF StartIngestion
      <4> QED
        BY <3>1, <4>1 DEF StartIngestion
    <3>2. CASE BatchResults
      <4>1. PICK results \in SUBSET Batch(next) : SummarizeIngested(results)
        BY <3>2 DEF BatchResults
      <4>2. \A f \in Files : f \in results /\ ~shallow => batchOf[f] = next /\ job[f] = "none"
        BY <3>2 DEF Batch, BatchResults
      <4>3. \A f \in Files :
              job'[f] = IF f \in results /\ ~shallow THEN "created" ELSE job[f]
        BY <4>1 DEF SummarizeIngested, Summarize
      <4>4. \A f \in Files : Due(f)' => Due(f) /\ batchOf[f] # next
        BY <3>2 DEF BatchResults, IngestNext
      <4> QED
        BY <3>2, <4>2, <4>3, <4>4 DEF BatchResults, IngestNext, redisVars
    <3>3. CASE BatchFailures
      <4>1. PICK S \in SUBSET Files : Write(S, "FAILED")
        BY <3>3 DEF BatchFailures, Batch
      <4>2. \A f \in Files : status'[f] = "SUCCESS" => status[f] = "SUCCESS"
        BY <4>1, OtherWrites
      <4>3. \A f \in Files : Due(f)' => Due(f)
        BY <3>3 DEF BatchFailures, IngestNext
      <4> QED
        BY <3>3, <4>2, <4>3 DEF BatchFailures, IngestNext
    <3>4. CASE IngestionRaises
      <4>1. \A f \in Files : status'[f] = "SUCCESS" => status[f] = "SUCCESS"
        BY <3>4, OtherWrites DEF IngestionRaises
      <4> QED
        BY <3>4, <4>1 DEF IngestionRaises
    <3>5. CASE IngestionEnds
      BY <3>5 DEF IngestionEnds, redisVars
    <3>6. CASE StartNrl
      <4>1. \A f \in Files : status'[f] = "SUCCESS" => status[f] = "SUCCESS"
        BY <3>6, OtherWrites DEF StartNrl, FilterUnsupported
      <4> QED
        BY <3>6, <4>1 DEF StartNrl, FilterUnsupported
    <3>7. CASE ShallowBatch
      <4>1. PICK results \in SUBSET Batch(next), S \in SUBSET Files :
              Summarize(results) /\ Write(S, "FAILED")
        BY <3>7 DEF ShallowBatch, ShallowExtractions, Batch
      <4>2. \A f \in Files : status'[f] = "SUCCESS" => status[f] = "SUCCESS"
        BY <4>1, OtherWrites
      <4>3. \A f \in Files : f \in results => batchOf[f] = next /\ job[f] = "none"
        BY <3>7 DEF Batch, ShallowBatch
      <4>4. \A f \in Files : job'[f] = IF f \in results THEN "created" ELSE job[f]
        BY <4>1 DEF Summarize
      <4>5. \A f \in Files : Due(f)' => Due(f) /\ batchOf[f] # next
        BY <3>7 DEF ShallowBatch, ShallowExtractions, ShallowNext
      <4> QED
        BY <3>7, <4>2, <4>3, <4>4, <4>5 DEF ShallowBatch, ShallowExtractions, ShallowNext
    <3>8. CASE ShallowNrl
      <4>1. PICK results \in SUBSET Files : Summarize(results)
        BY <3>8 DEF ShallowNrl, IngestShallow, TypeOK
      <4>2. \A f \in Files : job'[f] = IF f \in results THEN "created" ELSE job[f]
        BY <4>1 DEF Summarize
      <4> QED
        BY <3>8, <4>2 DEF ShallowNrl, IngestShallow, redisVars
    <3>9. CASE NrlResults
      <4>1. PICK results \in SUBSET Files : SummarizeIngested(results)
        BY <3>9 DEF NrlResults, Ingest, TypeOK
      <4>2. \A f \in Files :
              job'[f] = IF f \in results /\ ~shallow THEN "created" ELSE job[f]
        BY <4>1 DEF SummarizeIngested, Summarize
      <4> QED
        BY <3>9, <4>2 DEF NrlResults, Ingest, redisVars
    <3> QED
      BY <2>1, <3>1, <3>2, <3>3, <3>4, <3>5, <3>6, <3>7, <3>8, <3>9 DEF IngestionStep
  <2>2. ASSUME NEW f \in Files, JobStep(f) PROVE Backed'
    <3>0. {f} \in SUBSET Files /\ job \in [Files -> {"none", "created", "running",
                                                    "stored", "done", "failed"}]
      BY DEF TypeOK
    <3>1. CASE JobStart(f)
      <4>1. \A g \in Files : status'[g] = "SUCCESS" => status[g] = "SUCCESS"
        BY <3>1, OtherWrites DEF JobStart
      <4>2. \A g \in Files : job'[g] = IF g = f THEN "running" ELSE job[g]
        BY <3>0, <3>1 DEF JobStart
      <4> QED
        BY <3>1, <4>1, <4>2 DEF JobStart
    <3>2. CASE JobProgress(f)
      <4>1. \A g \in Files : status'[g] = "SUCCESS" => status[g] = "SUCCESS"
        BY <3>2, OtherWrites DEF JobProgress
      <4> QED
        BY <3>2, <4>1 DEF JobProgress
    <3>3. CASE JobStore(f)
      <4>1. \A g \in Files : job'[g] = IF g = f THEN "stored" ELSE job[g]
        BY <3>0, <3>3 DEF JobStore
      <4> QED
        BY <3>3, <4>1 DEF JobStore, redisVars
    <3>4. CASE JobSuccess(f)
      <4>1. \A g \in Files : status'[g] = "SUCCESS" => status[g] = "SUCCESS" \/ g = f
        BY <2>0, <3>0, <3>4, Writes DEF JobSuccess
      <4>2. \A g \in Files : job'[g] = IF g = f THEN "done" ELSE job[g]
        BY <3>0, <3>4 DEF JobSuccess
      <4> QED
        BY <3>4, <4>1, <4>2 DEF JobSuccess
    <3>5. CASE JobFails(f)
      <4>1. \A g \in Files : status'[g] = "SUCCESS" => status[g] = "SUCCESS"
        BY <3>5, OtherWrites DEF JobFails
      <4>2. \A g \in Files : job'[g] = IF g = f THEN "failed" ELSE job[g]
        BY <3>0, <3>5 DEF JobFails
      <4> QED
        BY <3>5, <4>1, <4>2 DEF JobFails
    <3> QED
      BY <2>2, <3>1, <3>2, <3>3, <3>4, <3>5 DEF JobStep
  <2>3. ASSUME NEW f \in Files, DeleteSummary(f) PROVE Backed'
    BY <2>3 DEF DeleteSummary, redisVars
  <2>4. ASSUME NEW f \in Files, Ask(f) PROVE Backed'
    BY <2>4 DEF Ask, ingVars, redisVars
  <2>5. CASE ReaderStep \/ Timeout
    <3>1. CASE Retrieve
      <4>1. \E at \in {"idle", "fetching", "waiting"}, answer \in Statuses \ {"SUCCESS"} :
              ReaderTo(at, answer)
        BY <3>1 DEF Retrieve, Statuses
      <4>2. Statuses \subseteq Answers /\ "MISSING" \notin Statuses
        BY DEF Answers, Statuses
      <4> QED
        BY <3>1, <4>1, <4>2, ReaderMoves DEF Retrieve, ingVars
    <3>2. CASE Fetch
      BY <2>0, <3>2, ReaderMoves DEF Fetch, ingVars, redisVars
    <3>3. CASE PollStatus
      <4>1. PICK s \in Statuses :
              /\ ReadStatus(s)
              /\ \/ ReaderTo("waiting", "none")
                 \/ ReaderTo("idle", "FAILED")
                 \/ s = "SUCCESS" /\ ReaderTo("polled", "none")
        BY <3>3 DEF PollStatus
      <4>2. s = "SUCCESS" => reader.file \in store \cup deleted
        BY <2>0, <4>1, Reads
      <4> QED
        BY <2>0, <3>3, <4>1, <4>2, ReaderMoves DEF PollStatus, ingVars
    <3>4. CASE PollStore
      BY <2>0, <3>4, ReaderMoves DEF PollStore, ingVars, redisVars
    <3>5. CASE PollFetch
      BY <2>0, <3>5, ReaderMoves DEF PollFetch, ingVars, redisVars
    <3>6. CASE Timeout
      BY <2>0, <3>6, ReaderMoves DEF Timeout, ingVars, redisVars
    <3> QED
      BY <2>5, <3>1, <3>2, <3>3, <3>4, <3>5, <3>6 DEF ReaderStep
  <2>6. CASE UNCHANGED vars
    BY <2>6 DEF vars, ingVars, redisVars
  <2> QED
    BY <2>1, <2>2, <2>3, <2>4, <2>5, <2>6 DEF Next
<1> QED
  BY <1>1, <1>2, TypeCorrect, PTL DEF Spec

(* GET /summary gives SUCCESS or "Summary marked as complete but content   *)
(* not found" only as SuccessIsBacked says.                                *)
THEOREM SuccessHolds == Spec => []SuccessIsBacked
<1>1. Backed => SuccessIsBacked
  BY DEF Backed, SuccessIsBacked
<1> QED
  BY <1>1, BackedHolds, PTL

-----------------------------------------------------------------------------
(* The shallow extraction of the batch of the file by NV-Ingest is over.   *)
Extracted(f) ==
  /\ shallow
  /\ backend = "nvingest"
  /\ main # "idle"
  /\ main = "shallow" => batchOf[f] < next

(* What the status of a file says of its job once the ingestion runs.      *)
Told(f) ==
  /\ job[f] = "none" => status[f] \in {"PENDING", "FAILED"}
                          \/ (status[f] = "none" /\ f \notin files)
  /\ job[f] = "created" => status[f] \in {"PENDING", "FAILED"}
  /\ job[f] \in {"running", "stored"} => status[f] \in {"IN_PROGRESS", "FAILED"}
  /\ job[f] = "failed" => status[f] = "FAILED"
  /\ job[f] = "done" => status[f] = "SUCCESS" \/ (main = "raised" /\ status[f] = "FAILED")
  /\ main = "raised" => status[f] # "PENDING"
  /\ Extracted(f) /\ status[f] = "PENDING" =>
       \E g \in Batch(batchOf[f]) : job[g] # "none"

(* The strengthening of StatusTellsOutcome: it holds for a job at work as  *)
(* well, and nothing is written before the ingestion begins.               *)
Telling ==
  /\ Backed
  /\ main = "idle" => next = 1 /\ \A f \in Files : status[f] = "none"
  /\ backend = "nvingest" => files = Files
  /\ faults = 0 => ingRedis /\ (main # "idle" => \A f \in Files : Told(f))

(* The reader changes nothing that Telling is about, and no error of Redis *)
(* is taken back.                                                          *)
LEMMA ReaderTells ==
  ASSUME Telling, Backed', UNCHANGED <<ingVars, status, ingRedis>>, faults' = 0 => faults = 0
  PROVE  Telling'
BY DEF Telling, Told, Extracted, Batch, ingVars, setting

(* A step of the ingestor without errors of Redis: its writes arrive.      *)
LEMMA WriteArrives ==
  ASSUME Telling, NEW S \in SUBSET Files, NEW s \in Statuses, Write(S, s), faults' = 0
  PROVE  /\ faults = 0 /\ ingRedis'
         /\ \A f \in Files : status'[f] = IF f \in S THEN s ELSE status[f]
<1>1. TypeOK /\ (faults = 0 => ingRedis)
  BY DEF Telling, Backed
<1>2. faults = 0 /\ ingRedis' = ingRedis
  BY <1>1, Writes
<1> QED
  BY <1>1, <1>2, Writes

(* GET /summary of a file whose job or ingestion failed ends, as the       *)
(* comment in __run_background_ingest_task (main.py:801) wants it: when    *)
(* nothing runs any more every status tells how it went.                   *)
THEOREM OutcomeHolds == Spec => []StatusTellsOutcome
<1>1. Init /\ Backed => Telling
  BY DEF Init, Telling
<1>2. Telling /\ Backed' /\ [Next]_vars => Telling'
  <2> SUFFICES ASSUME Telling, Backed', [Next]_vars PROVE Telling'
    OBVIOUS
  <2>0. /\ {"PENDING", "IN_PROGRESS", "SUCCESS", "FAILED"} \subseteq Statuses
        /\ Files \in SUBSET Files
        /\ TypeOK
        /\ job \in [Files -> {"none", "created", "running", "stored", "done", "failed"}]
    BY DEF Statuses, TypeOK, Telling, Backed
  <2>1. CASE IngestionStep
    <3> USE DEF setting
    <3>0. /\ batchOf \in [Files -> Nat \ {0}] /\ next \in Nat \ {0}
          /\ \A f \in Files : Due(f) => job[f] = "none"
          /\ main = "shallow" => shallow
          /\ backend \in {"nvingest", "nrl"}
      BY StatusAssumption DEF Telling, Backed, TypeOK
    <3>1. CASE StartIngestion
      <4>1. \A f \in Files : job[f] = "none"
        BY <3>0, <3>1 DEF Due, StartIngestion
      <4>2. \A f \in Files : ~Extracted(f)'
        BY <3>0, <3>1 DEF StartIngestion, Extracted, Telling
      <4> QED
        BY <2>0, <3>1, <4>1, <4>2, WriteArrives DEF StartIngestion, Telling, Told
    <3>2. CASE BatchResults
      <4>1. PICK results \in SUBSET Batch(next) : SummarizeIngested(results)
        BY <3>2 DEF BatchResults
      <4>2. \A f \in Files :
              job'[f] = IF f \in results /\ ~shallow THEN "created" ELSE job[f]
        BY <2>0, <4>1 DEF SummarizeIngested, Summarize
      <4>3. \A f \in Files : f \in results /\ ~shallow => job[f] = "none"
        BY <3>0, <3>2 DEF Batch, Due, BatchResults
      <4>4. files = Files /\ files' = files
        BY <3>2 DEF BatchResults, Telling
      <4>5. \A f \in Files : Told(f) => Told(f)'
        <5> SUFFICES ASSUME NEW f \in Files, Told(f) PROVE Told(f)'
          OBVIOUS
        <5>1. main = "ingesting" /\ main' \in {"ingesting", "ingested"}
          BY <3>2 DEF BatchResults, IngestNext
        <5>2. UNCHANGED <<setting, status>>
          BY <3>2 DEF BatchResults, redisVars
        <5>3. Extracted(f)' => Extracted(f)
          BY <5>1, <5>2 DEF Extracted
        <5> QED
          BY <4>2, <4>3, <4>4, <5>1, <5>2, <5>3 DEF Told, Batch
      <4> QED
        BY <3>2, <4>4, <4>5 DEF BatchResults, redisVars, IngestNext, Telling
    <3>3. CASE BatchFailures
      <4>1. PICK S \in SUBSET Batch(next) :
              Write(S, "FAILED") /\ (shallow => S = {})
        BY <3>3 DEF BatchFailures
      <4>2. S \in SUBSET Files /\ \A f \in S : job[f] = "none"
        BY <3>0, <3>3, <4>1 DEF Batch, Due, BatchFailures
      <4>3. /\ main = "ingesting" /\ main' \in {"ingesting", "ingested"}
            /\ UNCHANGED <<setting, files, job>>
        BY <3>3 DEF BatchFailures, IngestNext
      <4>4. ASSUME faults' = 0
            PROVE  /\ faults = 0 /\ ingRedis'
                   /\ \A f \in Files : status'[f] = IF f \in S THEN "FAILED" ELSE status[f]
        BY <2>0, <4>1, <4>2, <4>4, WriteArrives
      <4>5. \A f \in Files : Extracted(f)' => Extracted(f)
        BY <4>3 DEF Extracted
      <4> QED
        BY <4>2, <4>3, <4>4, <4>5 DEF Telling, Told, Batch
    <3>4. CASE IngestionRaises
      BY <2>0, <3>4, WriteArrives DEF IngestionRaises, Telling, Told, LoopFree
    <3>5. CASE IngestionEnds
      BY <3>5 DEF IngestionEnds, redisVars, Telling, Told, Extracted, Batch
    <3>6. CASE StartNrl
      <4>1. \A f \in Files : job[f] = "none"
        BY <3>0, <3>6 DEF Due, StartNrl
      <4>2. files' \in SUBSET Files /\ backend' = "nrl"
        BY <3>6 DEF StartNrl, FilterUnsupported
      <4>3. ASSUME faults' = 0
            PROVE  /\ faults = 0 /\ ingRedis'
                   /\ \A f \in Files : status'[f] = IF f \in files' THEN "PENDING" ELSE status[f]
        BY <2>0, <3>6, <4>2, <4>3, WriteArrives DEF StartNrl, FilterUnsupported
      <4> QED
        BY <3>6, <4>1, <4>2, <4>3 DEF StartNrl, FilterUnsupported, Telling, Told, Extracted
    <3>7. CASE ShallowBatch
      <4>1. PICK results \in SUBSET Batch(next), S \in SUBSET Batch(next) :
              /\ Summarize(results)
              /\ Write(S, "FAILED")
              /\ S \cap results = {}
              /\ results = {} => S = Batch(next)
        BY <3>7 DEF ShallowBatch, ShallowExtractions
      <4>2. \A f \in Batch(next) : f \in Files /\ batchOf[f] = next /\ job[f] = "none"
        BY <3>0, <3>7 DEF Batch, Due, ShallowBatch
      <4>3. \A f \in Files : job'[f] = IF f \in results THEN "created" ELSE job[f]
        BY <4>1 DEF Summarize
      <4>4. /\ shallow /\ files = Files /\ main = "shallow" /\ main' \in {"shallow", "ingesting"}
            /\ UNCHANGED <<setting, files>>
        BY <3>0, <3>7 DEF ShallowBatch, ShallowExtractions, ShallowNext, Telling
      <4>5. ASSUME faults' = 0
            PROVE  /\ faults = 0 /\ ingRedis'
                   /\ \A f \in Files : status'[f] = IF f \in S THEN "FAILED" ELSE status[f]
        <5>1. S \in SUBSET Files
          BY <4>2
        <5> QED
          BY <2>0, <4>1, <4>5, <5>1, WriteArrives
      <4>6. \A f \in Files : Extracted(f)' => Extracted(f) \/ f \in Batch(next)
        <5> SUFFICES ASSUME NEW f \in Files, Extracted(f)'
                     PROVE  batchOf[f] <= next
          BY <3>0, <3>7, <4>4 DEF Extracted, Batch, ShallowBatch
        <5>1. CASE Batch(next + 1) = {}
          <6>1. \A i \in 1..batchOf[f] : \E g \in Files : batchOf[g] = i
            BY StatusAssumption DEF Telling, Backed, TypeOK
          <6> QED
            BY <3>0, <5>1, <6>1 DEF Batch
        <5>2. CASE Batch(next + 1) # {}
          BY <3>0, <3>7, <5>2 DEF ShallowBatch, ShallowExtractions, ShallowNext, Extracted
        <5> QED
          BY <5>1, <5>2
      <4>7. ASSUME faults' = 0, NEW f \in Files PROVE Told(f)'
        <5>1. Told(f) /\ Batch(batchOf[f])' = Batch(batchOf[f])
          BY <4>4, <4>5, <4>7 DEF Telling, Batch
        <5>2. CASE f \in Batch(next)
          <6>1. Batch(batchOf[f]) = Batch(next)
            BY <4>2, <5>2
          <6> QED
            BY <4>1, <4>2, <4>3, <4>4, <4>5, <4>7, <5>1, <5>2, <6>1 DEF Told
        <5>3. CASE f \notin Batch(next)
          <6>1. \A g \in Files : job[g] # "none" => job'[g] # "none"
            BY <4>3
          <6>2. job'[f] = job[f] /\ status'[f] = status[f]
            BY <4>1, <4>3, <4>5, <4>7, <5>3
          <6>3. Extracted(f)' => Extracted(f)
            BY <4>6, <5>3
          <6>4. Batch(batchOf[f]) \subseteq Files
            BY DEF Batch
          <6> QED
            BY <4>4, <5>1, <6>1, <6>2, <6>3, <6>4 DEF Told
        <5> QED
          BY <5>2, <5>3
      <4> QED
        BY <4>4, <4>5, <4>7 DEF Telling
    <3>8. CASE ShallowNrl
      <4>1. PICK results \in SUBSET files : Summarize(results)
        BY <3>8 DEF ShallowNrl, IngestShallow
      <4>2. \A f \in Files : job'[f] = IF f \in results THEN "created" ELSE job[f]
        BY <4>1 DEF Summarize
      <4>3. \A f \in Files : job[f] = "none"
        BY <3>0, <3>8 DEF Due, ShallowNrl
      <4> QED
        BY <3>8, <4>1, <4>2, <4>3 DEF ShallowNrl, IngestShallow, redisVars, Telling, Told, Extracted
    <3>9. CASE NrlResults
      <4>1. PICK results \in SUBSET files : SummarizeIngested(results)
        BY <3>9 DEF NrlResults, Ingest
      <4>2. \A f \in Files :
              job'[f] = IF f \in results /\ ~shallow THEN "created" ELSE job[f]
        BY <2>0, <4>1 DEF SummarizeIngested, Summarize
      <4>3. ~shallow => \A f \in Files : job[f] = "none"
        BY <3>0, <3>9 DEF Due, NrlResults
      <4> QED
        BY <3>9, <4>1, <4>2, <4>3 DEF NrlResults, Ingest, redisVars, Telling, Told, Extracted
    <3> QED
      BY <2>1, <3>1, <3>2, <3>3, <3>4, <3>5, <3>6, <3>7, <3>8, <3>9 DEF IngestionStep
  <2>2. ASSUME NEW f \in Files, JobStep(f) PROVE Telling'
    <3> USE DEF setting, Extracted, Batch
    <3>0. {f} \in SUBSET Files /\ (job[f] # "none" => main # "idle")
      BY DEF Telling, Backed, Due
    <3>1. CASE JobStart(f)
      <4>1. faults' = 0 => /\ faults = 0 /\ ingRedis'
                           /\ \A g \in Files :
                                status'[g] = IF g = f THEN "IN_PROGRESS" ELSE status[g]
        BY <2>0, <3>0, <3>1, WriteArrives DEF JobStart
      <4>2. \A g \in Files : job'[g] = IF g = f THEN "running" ELSE job[g]
        BY <2>0, <3>1 DEF JobStart
      <4> QED
        BY <3>0, <3>1, <4>1, <4>2 DEF JobStart, Telling, Told
    <3>2. CASE JobProgress(f)
      <4>1. faults' = 0 => /\ faults = 0 /\ ingRedis'
                           /\ \A g \in Files :
                                status'[g] = IF g = f THEN "IN_PROGRESS" ELSE status[g]
        BY <2>0, <3>0, <3>2, WriteArrives DEF JobProgress
      <4> QED
        BY <3>0, <3>2, <4>1 DEF JobProgress, Telling, Told
    <3>3. CASE JobStore(f)
      <4>1. \A g \in Files : job'[g] = IF g = f THEN "stored" ELSE job[g]
        BY <2>0, <3>3 DEF JobStore
      <4> QED
        BY <3>0, <3>3, <4>1 DEF JobStore, redisVars, Telling, Told
    <3>4. CASE JobSuccess(f)
      <4>1. faults' = 0 => /\ faults = 0 /\ ingRedis'
                           /\ \A g \in Files :
                                status'[g] = IF g = f THEN "SUCCESS" ELSE status[g]
        BY <2>0, <3>0, <3>4, WriteArrives DEF JobSuccess
      <4>2. \A g \in Files : job'[g] = IF g = f THEN "done" ELSE job[g]
        BY <2>0, <3>4 DEF JobSuccess
      <4> QED
        BY <3>0, <3>4, <4>1, <4>2 DEF JobSuccess, Telling, Told
    <3>5. CASE JobFails(f)
      <4>1. faults' = 0 => /\ faults = 0 /\ ingRedis'
                           /\ \A g \in Files :
                                status'[g] = IF g = f THEN "FAILED" ELSE status[g]
        BY <2>0, <3>0, <3>5, WriteArrives DEF JobFails
      <4>2. \A g \in Files : job'[g] = IF g = f THEN "failed" ELSE job[g]
        BY <2>0, <3>5 DEF JobFails
      <4> QED
        BY <3>0, <3>5, <4>1, <4>2 DEF JobFails, Telling, Told
    <3> QED
      BY <2>2, <3>1, <3>2, <3>3, <3>4, <3>5 DEF JobStep
  <2>3. ASSUME NEW f \in Files, DeleteSummary(f) PROVE Telling'
    BY <2>3 DEF DeleteSummary, redisVars, setting, Telling, Told, Extracted, Batch
  <2>4. ASSUME NEW f \in Files, Ask(f) PROVE Telling'
    BY <2>4, ReaderTells DEF Ask, redisVars
  <2>5. CASE ReaderStep \/ Timeout
    <3>1. CASE Retrieve
      BY <2>0, <3>1, Reads, ReaderTells DEF Retrieve
    <3>2. CASE Fetch
      BY <3>2, ReaderTells DEF Fetch, redisVars
    <3>3. CASE PollStatus
      BY <2>0, <3>3, Reads, ReaderTells DEF PollStatus
    <3>4. CASE PollStore
      BY <3>4, ReaderTells DEF PollStore, redisVars
    <3>5. CASE PollFetch
      BY <3>5, ReaderTells DEF PollFetch, redisVars
    <3>6. CASE Timeout
      BY <3>6, ReaderTells DEF Timeout, redisVars
    <3> QED
      BY <2>5, <3>1, <3>2, <3>3, <3>4, <3>5, <3>6 DEF ReaderStep
  <2>6. CASE UNCHANGED vars
    BY <2>6, ReaderTells DEF vars, ingVars, redisVars
  <2> QED
    BY <2>1, <2>2, <2>3, <2>4, <2>5, <2>6 DEF Next
<1>3. Telling => StatusTellsOutcome
  <2> SUFFICES ASSUME Telling, faults = 0, Quiet, NEW f \in Files
               PROVE  /\ status[f] # "IN_PROGRESS"
                      /\ status[f] = "none" => f \notin files
                      /\ job[f] = "failed" => status[f] = "FAILED"
                      /\ job[f] = "done" => status[f] = "SUCCESS" \/ main = "raised"
                      /\ job[f] = "none" => status[f] # "SUCCESS"
                      /\ status[f] = "PENDING" => job[f] = "none" /\ main = "done"
                      /\ status[f] = "PENDING" /\ shallow /\ backend = "nvingest" =>
                           \E g \in Batch(batchOf[f]) : job[g] # "none"
    BY DEF StatusTellsOutcome
  <2> QED
    BY DEF Telling, Told, Extracted, Quiet, Backed, TypeOK
<1> QED
  BY <1>1, <1>2, <1>3, BackedHolds, PTL DEF Spec
=============================================================================
