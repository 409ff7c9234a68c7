-------------------------- MODULE IngestTaskProofs --------------------------
(***************************************************************************)
(* Proofs about the uploads of the ingestor: IngestTask, for every number  *)
(* of files, batch size and mode, and at the end UploadFiles, for any      *)
(* number of requests.                                                     *)
(***************************************************************************)
EXTENDS IngestTask, UploadFiles, FiniteSetTheorems, TLAPS

USE IngestAssumption DEF Files

(* A batch number is the number of a file: a batch has a file in it.       *)
LEMMA BatchesAreFiles == \A V : Batches(V) \subseteq Files
  BY DEF Batches

(* Every step keeps the types.                                             *)
LEMMA TypeStep ==
  ASSUME TypeOK, [Next]_vars
  PROVE  TypeOK'
<1> USE DEF TypeOK, Results, ExtractionStates, Result, Job, SetTask,
            batchVars, BatchFiles, Supported
<1>1. CASE UNCHANGED vars
  BY <1>1 DEF vars
<1>2. CASE Upload
  BY <1>2 DEF Upload
<1>3. CASE Reject
  <2>1. PICK entries \in [Files -> SUBSET Checks], stray \in 0..MaxStray :
          /\ EntryCount(entries, stray) = NFiles
          /\ rejected' = Invalid(entries)
          /\ SetTask("FINISHED", Rejection(Invalid(entries), EntryCount(entries, stray)))
    BY <1>3 DEF Reject
  <2>2. Rejection(Invalid(entries), NFiles) \in Results
    BY DEF Rejection, Invalid
  <2> QED
    BY <1>3, <2>1, <2>2 DEF Reject, Invalid
<1>4. CASE Accept
  BY <1>4 DEF Accept, Invalid
<1>5. CASE ValidateRaise
  BY <1>5 DEF ValidateRaise
<1>6. CASE FinishMain
  <2>1. BatchFailures \in SUBSET Files
    BY DEF BatchFailures, Batches
  <2>2. FailedDocuments \in SUBSET Files
    BY <2>1 DEF FailedDocuments
  <2>3. task' \in [state : {"none", "PENDING", "FINISHED", "FAILED"}, result : Results]
    BY <1>6, <2>2 DEF FinishMain
  <2> QED
    BY <1>6, <2>3 DEF FinishMain
<1>7. CASE FailMain
  BY <1>7 DEF FailMain
<1>8. CASE Crash
  BY <1>8 DEF Crash
<1>9. CASE GetStatus
  BY <1>9 DEF GetStatus
<1>10. ASSUME NEW b \in Files, BatchStep(b)
       PROVE  TypeOK'
  <2>1. CASE StartBatch(b)
    BY <2>1 DEF StartBatch
  <2>2. CASE SkipBatch(b)
    BY <2>2 DEF SkipBatch
  <2>3. CASE Poll(b)
    BY <2>3 DEF Poll, ReportedWith
  <2>4. CASE Repoll(b)
    BY <2>4 DEF Repoll
  <2>5. CASE ReportBatch(b)
    <3>0. future[b].failures \cup rejected \in SUBSET Files
      OBVIOUS
    <3>1. /\ progress' \in [docs : SUBSET Files, batches : Nat]
          /\ progress'.docs \in SUBSET Files /\ progress'.batches \in Nat
      <4>1. progress.docs \cup (BatchFiles(valid, b) \ future[b].failures) \in SUBSET Files
        OBVIOUS
      <4>2. progress.batches + 1 \in Nat
        OBVIOUS
      <4>3. progress' = [docs |-> progress.docs \cup (BatchFiles(valid, b) \ future[b].failures),
                         batches |-> progress.batches + 1]
        BY <2>5 DEF ReportBatch
      <4> QED
        BY <4>1, <4>2, <4>3
    <3>2. task' = [state |-> "PENDING",
                   result |-> Result("progress", progress'.docs, future[b].failures \cup rejected,
                                     progress'.batches)]
      BY <2>5 DEF ReportBatch
    <3>3. task' \in [state : {"none", "PENDING", "FINISHED", "FAILED"}, result : Results]
      BY <3>0, <3>1, <3>2
    <3> QED
      BY <2>5, <3>1, <3>3 DEF ReportBatch
  <2>6. CASE ReturnUnreported(b)
    BY <2>6 DEF ReturnUnreported
  <2>7. CASE RaiseBatch(b)
    BY <2>7 DEF RaiseBatch
  <2>8. CASE PollRaise(b)
    <3>1. CASE reported' = reported
      BY <2>8, <3>1 DEF PollRaise
    <3>2. CASE reported' = ReportedWith(b)
      BY <2>8, <3>2 DEF PollRaise, ReportedWith
    <3> QED
      BY <2>8, <3>1, <3>2 DEF PollRaise
  <2> QED
    BY <1>10, <2>1, <2>2, <2>3, <2>4, <2>5, <2>6, <2>7, <2>8 DEF BatchStep
<1>11. ASSUME NEW b \in Files, ServiceStep(b)
       PROVE  TypeOK'
  <2>1. CASE Extract(b)
    BY <2>1 DEF Extract
  <2>2. CASE JobDone(b)
    <3> DEFINE Jobs == [state : {"none", "pending", "done", "raised"},
                        results : SUBSET Files, failures : SUBSET Files]
    <3>1. \E job \in Jobs : future' = [future EXCEPT ![b] = job]
      BY <2>2 DEF JobDone
    <3>2. future \in [Files -> Jobs]
      OBVIOUS
    <3>3. future' \in [Files -> Jobs]
      <4> HIDE DEF Jobs, TypeOK
      <4> QED BY <3>1, <3>2
    <3>4. stored' \in SUBSET Files
      BY <2>2 DEF JobDone
    <3> QED
      BY <2>2, <3>3, <3>4 DEF JobDone
  <2>3. CASE JobRaise(b)
    BY <2>3 DEF JobRaise
  <2> QED
    BY <1>11, <2>1, <2>2, <2>3 DEF ServiceStep
<1> QED
  BY <1>1, <1>2, <1>3, <1>4, <1>5, <1>6, <1>7, <1>8, <1>9, <1>10, <1>11 DEF Next, MainStep

(* Every reachable record, batch, job and file set has its type.           *)
THEOREM TypeCorrect == Spec => []TypeOK
<1>1. Init => TypeOK
  BY DEF Init, TypeOK, Results, ExtractionStates, Result, Job
<1> QED
  BY <1>1, TypeStep, PTL DEF Spec

-----------------------------------------------------------------------------
(* A batch takes its files from the upload, and no two batches share one.  *)
LEMMA BatchesPartition ==
  ASSUME NEW V \in SUBSET Files
  PROVE  /\ \A b \in Files : BatchFiles(V, b) \subseteq V
         /\ \A b, c \in Files : b # c => BatchFiles(V, b) \cap BatchFiles(V, c) = {}
         /\ V = {} => Batches(V) = {}
<1>1. \A b \in Files : BatchFiles(V, b) \subseteq V
  BY DEF BatchFiles
<1>2. ASSUME NEW b \in Files, NEW c \in Files, NEW f \in BatchFiles(V, b) \cap BatchFiles(V, c)
      PROVE  b = c
  <2>1. Cardinality({g \in V : g < f}) \div FilesPerBatch = b - 1
    BY DEF BatchFiles
  <2>2. Cardinality({g \in V : g < f}) \div FilesPerBatch = c - 1
    BY DEF BatchFiles
  <2> HIDE IngestAssumption
  <2>3. b - 1 = c - 1
    BY <2>1, <2>2
  <2> QED
    BY <2>3, IngestAssumption DEF IngestAssumption
<1>3. V = {} => Batches(V) = {}
  BY <1>1 DEF Batches
<1> QED
  BY <1>1, <1>2, <1>3

(* The start satisfies the invariant.                                      *)
LEMMA BookkeepingInit == Init => Bookkeeping
<1> SUFFICES ASSUME Init PROVE Bookkeeping
  OBVIOUS
<1>1. TypeOK
  BY DEF Init, TypeOK, Results, ExtractionStates, Result, Job
<1>2. Batches(valid) = {}
  BY BatchesPartition DEF Init
<1> QED
  BY <1>1, <1>2 DEF Init, Bookkeeping, BatchesMatchFiles, JobsMatchBatches, StoredByJobs,
                    RecordsMatchMain, Job, Result, AllReturned

(* A step of the event loop that leaves the upload, the jobs and the       *)
(* collection alone keeps what the invariant says of them.                 *)
LEMMA JobsUntouched ==
  ASSUME BatchesMatchFiles, JobsMatchBatches, StoredByJobs,
         UNCHANGED <<valid, batch, future, stored>>
  PROVE  BatchesMatchFiles' /\ JobsMatchBatches' /\ StoredByJobs'
  BY DEF BatchesMatchFiles, JobsMatchBatches, StoredByJobs, Supported

(* The steps of the background task keep the invariant.                    *)
LEMMA MainKeepsBookkeeping ==
  ASSUME Bookkeeping, Upload \/ MainStep \/ Crash \/ GetStatus \/ UNCHANGED vars, TypeOK'
  PROVE  Bookkeeping'
<1> USE DEF Bookkeeping
<1>1. CASE Accept
  <2>1. PICK entries \in [Files -> SUBSET Checks] :
          /\ \A f \in Files : entries[f] \in FailureEntries(f)
          /\ rejected' = Invalid(entries)
          /\ valid' = Files \ Invalid(entries)
    BY <1>1 DEF Accept
  <2>2. valid = {} /\ (\A b \in Files : BatchFiles(valid, b) = {}) /\ Batches(valid) = {}
    BY <1>1, BatchesPartition DEF Accept, RecordsMatchMain
  <2>3. valid' \cap stored' = {}
    BY <1>1, <2>1 DEF Accept, Invalid, FailureEntries
  <2>4. BatchesMatchFiles'
    BY <1>1 DEF Accept, BatchesMatchFiles
  <2>5. \A b \in Files : future[b].state = "none" /\ future[b].results = {} /\ future[b].failures = {}
    BY <2>2 DEF BatchesMatchFiles, JobsMatchBatches, Supported
  <2>6. JobsMatchBatches'
    BY <1>1, <2>5 DEF Accept, JobsMatchBatches
  <2>7. RecordsMatchMain'
    BY <1>1, <2>1 DEF Accept, RecordsMatchMain, Invalid, AllReturned
  <2> QED
    BY <2>3, <2>4, <2>6, <2>7 DEF StoredByJobs
<1>2. ASSUME UNCHANGED <<valid, batch, future, stored>>, RecordsMatchMain'
      PROVE  Bookkeeping'
  BY <1>2, JobsUntouched
<1>3. CASE Upload
  BY <1>2, <1>3 DEF Upload, RecordsMatchMain, SetTask, Result, batchVars, AllReturned
<1>4. CASE Reject
  <2>1. AllReturned
    BY <1>4, BatchesPartition DEF Reject, RecordsMatchMain, AllReturned
  <2> QED
    BY <1>2, <1>4, <2>1 DEF Reject, RecordsMatchMain, SetTask, Rejection, Result, batchVars, AllReturned
<1>5. CASE ValidateRaise
  BY <1>2, <1>5 DEF ValidateRaise, RecordsMatchMain, SetTask, Result, batchVars, AllReturned
<1>6. CASE FinishMain
  BY <1>2, <1>6 DEF FinishMain, RecordsMatchMain, SetTask, Result, batchVars, AllReturned
<1>7. CASE FailMain
  BY <1>2, <1>7 DEF FailMain, RecordsMatchMain, SetTask, Result, batchVars, AllReturned
<1>8. CASE Crash
  BY <1>2, <1>8 DEF Crash, RecordsMatchMain, SetTask, Result, batchVars, AllReturned
<1>9. CASE GetStatus
  <2>1. task'.state = task.state /\ task'.result.kind = task.result.kind
    BY <1>9 DEF GetStatus, TypeOK, Results
  <2> QED
    BY <1>2, <1>9, <2>1 DEF GetStatus, RecordsMatchMain, batchVars, AllReturned
<1>10. CASE UNCHANGED vars
  BY <1>2, <1>10 DEF vars, RecordsMatchMain, AllReturned
<1> QED
  BY <1>1, <1>3, <1>4, <1>5, <1>6, <1>7, <1>8, <1>9, <1>10 DEF MainStep

(* The batch coroutines keep the invariant.                                *)
LEMMA BatchKeepsBookkeeping ==
  ASSUME Bookkeeping, NEW b \in Files, BatchStep(b), TypeOK'
  PROVE  Bookkeeping'
<1> USE DEF Bookkeeping
<1>1. b \in Batches(valid) /\ ~AllReturned
  BY DEF BatchStep, StartBatch, SkipBatch, Poll, ReportedWith, PollRaise, Repoll, ReportBatch, ReturnUnreported,
         RaiseBatch, BatchesMatchFiles, AllReturned, TypeOK
<1>2. /\ UNCHANGED <<main, valid, rejected, stored, onDisk>>
      /\ \E pos \in {"polling", "sleeping", "returned", "raised"} : batch' = [batch EXCEPT ![b] = pos]
  BY DEF BatchStep, StartBatch, SkipBatch, Poll, ReportedWith, PollRaise, Repoll, ReportBatch, ReturnUnreported, RaiseBatch
<1>3. BatchesMatchFiles'
  BY <1>1, <1>2 DEF BatchesMatchFiles, TypeOK
<1>4. /\ task.state # "FINISHED" /\ task.result.kind # "final"
      /\ main # "done" /\ onDisk = Files
  BY <1>1 DEF RecordsMatchMain
<1>5. RecordsMatchMain'
  <2>1. CASE ReportBatch(b)
    BY <1>2, <1>4, <2>1 DEF ReportBatch, RecordsMatchMain, SetTask, Result
  <2>2. CASE ~ReportBatch(b)
    <3>1. UNCHANGED task
      BY <2>2 DEF BatchStep, StartBatch, SkipBatch, Poll, ReportedWith, PollRaise, Repoll, ReturnUnreported, RaiseBatch
    <3> QED
      BY <1>2, <1>4, <3>1 DEF RecordsMatchMain
  <2> QED
    BY <2>1, <2>2
<1>6. CASE StartBatch(b)
  <2>1. JobsMatchBatches'
    BY <1>2, <1>6 DEF StartBatch, JobsMatchBatches, Job, Supported, TypeOK
  <2>2. \A c \in Files : c # b => future'[c] = future[c]
    BY <1>6 DEF StartBatch, TypeOK
  <2>3. future[b].state = "none" /\ future[b].results = {}
    BY <1>6 DEF StartBatch, JobsMatchBatches
  <2>4. StoredByJobs'
    BY <1>2, <2>2, <2>3, BatchesAreFiles DEF StoredByJobs
  <2> QED
    BY <1>3, <1>5, <2>1, <2>4
<1>7. CASE ~StartBatch(b)
  <2>1. UNCHANGED future
    BY <1>7 DEF BatchStep, SkipBatch, Poll, ReportedWith, PollRaise, Repoll, ReportBatch, ReturnUnreported, RaiseBatch
  <2>2. JobsMatchBatches'
    BY <1>2, <1>7, <2>1 DEF BatchStep, SkipBatch, Poll, ReportedWith, PollRaise, Repoll, ReportBatch, ReturnUnreported,
                            RaiseBatch, JobsMatchBatches, Supported, TypeOK
  <2>3. StoredByJobs'
    BY <1>2, <2>1 DEF StoredByJobs
  <2> QED
    BY <1>3, <1>5, <2>2, <2>3
<1> QED
  BY <1>6, <1>7

(* NV-Ingest keeps the invariant.                                          *)
LEMMA ServiceKeepsBookkeeping ==
  ASSUME Bookkeeping, NEW b \in Files, ServiceStep(b), TypeOK'
  PROVE  Bookkeeping'
<1> USE DEF Bookkeeping
<1>1. BatchesMatchFiles' /\ RecordsMatchMain'
  BY DEF ServiceStep, Extract, JobDone, JobRaise, BatchesMatchFiles, RecordsMatchMain, AllReturned
<1>2. CASE Extract(b)
  BY <1>1, <1>2, JobsUntouched DEF Extract
<1>3. CASE JobDone(b)
  <2>1. PICK results \in SUBSET Supported(b) : \E failures \in SUBSET (Supported(b) \ results) :
          \E written \in SUBSET results :
             /\ stored' = stored \cup written
             /\ future' = [future EXCEPT ![b] = Job("done", results, failures)]
    BY <1>3 DEF JobDone
  <2>2. PICK failures \in SUBSET (Supported(b) \ results) : \E written \in SUBSET results :
          /\ stored' = stored \cup written
          /\ future' = [future EXCEPT ![b] = Job("done", results, failures)]
    BY <2>1
  <2>3. b \in Batches(valid) /\ future[b].results = {} /\ future[b].state = "pending"
        /\ batch[b] \in {"polling", "sleeping", "raised"}
    BY <1>3 DEF JobDone, BatchesMatchFiles, JobsMatchBatches
  <2>4. UNCHANGED <<valid, batch>>
    BY <1>3 DEF JobDone
  <2>5. /\ \A c \in Files : c # b => future'[c] = future[c]
        /\ future'[b].state = "done" /\ future'[b].results = results
        /\ future'[b].failures = failures
    BY <2>2 DEF TypeOK, Job
  <2>6. JobsMatchBatches'
    BY <2>3, <2>4, <2>5 DEF JobsMatchBatches, Supported
  <2>7. StoredByJobs'
    BY <2>2, <2>3, <2>4, <2>5, BatchesAreFiles DEF StoredByJobs
  <2> QED
    BY <1>1, <2>6, <2>7
<1>4. CASE JobRaise(b)
  <2>1. PICK written \in SUBSET Supported(b) :
          /\ stored' = stored \cup written
          /\ future' = [future EXCEPT ![b] = Job("raised", {}, {})]
    BY <1>4 DEF JobRaise
  <2>2. b \in Batches(valid) /\ batch[b] \in {"polling", "sleeping", "raised"}
    BY <1>4 DEF JobRaise, BatchesMatchFiles, JobsMatchBatches
  <2>3. UNCHANGED <<valid, batch>>
    BY <1>4 DEF JobRaise
  <2>4. \A c \in Files : future'[c] = IF c = b THEN Job("raised", {}, {}) ELSE future[c]
    BY <2>1 DEF TypeOK
  <2>5. JobsMatchBatches'
    BY <2>2, <2>3, <2>4 DEF JobsMatchBatches, Job, Supported
  <2>6. StoredByJobs'
    BY <2>1, <2>2, <2>3, <2>4, BatchesAreFiles DEF StoredByJobs, Job
  <2> QED
    BY <1>1, <2>5, <2>6
<1> QED
  BY <1>2, <1>3, <1>4 DEF ServiceStep

(* The bookkeeping is an invariant of the specification.                   *)
LEMMA BookkeepingHolds == Spec => []Bookkeeping
<1>1. ASSUME Bookkeeping, [Next]_vars PROVE Bookkeeping'
  <2>1. TypeOK'
    BY <1>1, TypeStep DEF Bookkeeping
  <2> QED
    BY <1>1, <2>1, MainKeepsBookkeeping, BatchKeepsBookkeeping, ServiceKeepsBookkeeping DEF Next
<1> QED
  BY <1>1, BookkeepingInit, PTL DEF Spec

-----------------------------------------------------------------------------
(* After FINISHED no batch is at work and no job is out: the background    *)
(* task, the batches and NV-Ingest have nothing left to do.                *)
LEMMA FinishedIsQuiet ==
  ASSUME Bookkeeping, task.state = "FINISHED", [Next]_vars
  PROVE  /\ task'.state \in {"FINISHED", "none"}
         /\ task'.state = "FINISHED" => task'.result.docs = task.result.docs
         /\ UNCHANGED <<valid, stored, future, reported, progress>>
<1> USE DEF Bookkeeping
<1>1. main \in {"done", "dead"} /\ \A b \in Batches(valid) : batch[b] = "returned"
  BY DEF RecordsMatchMain, AllReturned
<1>2. \A b \in Files : batch[b] \in {"absent", "returned"} /\ future[b].state # "pending"
  BY <1>1 DEF BatchesMatchFiles, JobsMatchBatches, TypeOK
<1>3. ~Upload /\ ~MainStep
  BY <1>1 DEF Upload, MainStep, Reject, Accept, ValidateRaise, FinishMain, FailMain
<1>4. \A b \in Files : ~BatchStep(b) /\ ~JobDone(b) /\ ~JobRaise(b)
  BY <1>2 DEF BatchStep, StartBatch, SkipBatch, Poll, ReportedWith, PollRaise, Repoll, ReportBatch, ReturnUnreported,
              RaiseBatch, JobDone, JobRaise
<1>5. CASE \E b \in Files : Extract(b)
  BY <1>5 DEF Extract
<1>6. CASE Crash
  BY <1>6 DEF Crash, SetTask, batchVars
<1>7. CASE GetStatus
  BY <1>7 DEF GetStatus, batchVars, TypeOK, Results
<1>8. CASE UNCHANGED vars
  BY <1>8 DEF vars
<1> QED
  BY <1>3, <1>4, <1>5, <1>6, <1>7, <1>8 DEF Next, ServiceStep

(* As many entries as files: either each file is among them, or there are  *)
(* more of them than files that they name.                                 *)
LEMMA RejectedForEntries ==
  ASSUME Reject
  PROVE  /\ task'.result.kind = "rejected"
         /\ \/ task'.result.failed = Files
            \/ task'.result.entries > Cardinality(task'.result.failed)
<1>1. PICK entries \in [Files -> SUBSET Checks], stray \in 0..MaxStray :
        /\ EntryCount(entries, stray) = NFiles
        /\ SetTask("FINISHED", Rejection(Invalid(entries), EntryCount(entries, stray)))
  BY DEF Reject
<1>2. /\ task'.result.kind = "rejected"
      /\ task'.result.failed = Invalid(entries)
      /\ task'.result.entries = NFiles
  BY <1>1 DEF SetTask, Rejection, Result
<1>3. IsFiniteSet(Files) /\ Cardinality(Files) = NFiles
  <2>1. NFiles \in Nat
    BY DEF IngestAssumption
  <2>2. Cardinality(1..NFiles) = IF 1 > NFiles THEN 0 ELSE NFiles - 1 + 1
    BY <2>1, FS_Interval
  <2> QED
    BY <2>1, <2>2, FS_Interval DEF IngestAssumption
<1>4. Invalid(entries) \in SUBSET Files
  BY DEF Invalid
<1>5. IsFiniteSet(Invalid(entries)) /\ Cardinality(Invalid(entries)) <= Cardinality(Files)
  BY <1>3, <1>4, FS_Subset
<1>6. Invalid(entries) = Files \/ Cardinality(Invalid(entries)) # Cardinality(Files)
  BY <1>3, <1>4, FS_Subset
<1>7. Cardinality(Invalid(entries)) \in Nat
  BY <1>5, FS_CardinalityType
<1>8. Invalid(entries) = Files \/ NFiles > Cardinality(Invalid(entries))
  BY <1>3, <1>5, <1>6, <1>7 DEF IngestAssumption
<1> QED
  BY <1>2, <1>8

(* The final record is written with a verdict on every file, and nothing   *)
(* that it speaks of moves afterwards; a rejection stands as it is: the    *)
(* verdict is the invariant.                                               *)
LEMMA VerdictStep ==
  ASSUME Bookkeeping, VerdictOnEveryFile, [Next]_vars
  PROVE  VerdictOnEveryFile'
<1> USE DEF Bookkeeping
<1>1. CASE task'.result.kind \notin {"final", "rejected"}
  BY <1>1 DEF VerdictOnEveryFile
<1>4. CASE Reject
  BY <1>4, RejectedForEntries DEF VerdictOnEveryFile
<1>5. CASE ~Reject /\ task'.result.kind = "rejected"
  <2>1. /\ task.result.kind = "rejected"
        /\ task'.result.failed = task.result.failed
        /\ task'.result.entries = task.result.entries
    BY <1>5 DEF Next, MainStep, BatchStep, ServiceStep, Upload, FinishMain, Accept, ValidateRaise, FailMain,
                Crash, GetStatus, StartBatch, SkipBatch, Poll, PollRaise, Repoll, ReportBatch, ReturnUnreported,
                RaiseBatch, Extract, JobDone, JobRaise, SetTask, Result, vars, TypeOK, Results
  <2> QED
    BY <1>5, <2>1 DEF VerdictOnEveryFile
<1>2. CASE FinishMain
  <2>1. /\ task'.result.docs = valid \ FailedDocuments
        /\ task'.result.failed = FailedDocuments \cup rejected
        /\ rejected = Files \ valid
        /\ UNCHANGED <<valid, stored, future>>
    BY <1>2 DEF FinishMain, SetTask, Result, RecordsMatchMain, batchVars
  <2>2. \A b \in Batches(valid) : b \in Files /\ future[b].state # "raised"
    BY <1>2, BatchesAreFiles DEF FinishMain, AllReturned, JobsMatchBatches
  <2>3. FailedDocuments \subseteq valid
    BY <2>2, BatchesPartition DEF FailedDocuments, BatchFailures, JobsMatchBatches, Supported, TypeOK
  <2>4. ASSUME NEW f \in valid \ FailedDocuments
        PROVE  f \in stored /\ \E b \in Batches(valid) : f \in future[b].results
    BY <2>2, <2>4 DEF FailedDocuments, StoredByJobs
  <2>5. ASSUME NEW f \in stored, NEW b \in Batches(valid), f \in future[b].results
        PROVE  f \in valid \ FailedDocuments
    <3>1. f \in Supported(b)
      BY <2>2, <2>5 DEF JobsMatchBatches
    <3>2. f \in BatchFiles(valid, b) /\ f \notin Unsupported /\ f \in valid
      BY <2>2, <3>1, BatchesPartition DEF Supported, TypeOK
    <3>3. ASSUME NEW c \in Batches(valid), f \in future[c].failures
          PROVE  FALSE
      <4>1. f \in BatchFiles(valid, c) /\ f \notin future[c].results
        BY <2>2, <3>3 DEF JobsMatchBatches, Supported
      <4>2. b = c
        BY <2>2, <3>2, <4>1, BatchesPartition DEF TypeOK
      <4> QED
        BY <2>5, <4>1, <4>2
    <3> QED
      BY <2>5, <3>2, <3>3 DEF FailedDocuments, BatchFailures
  <2>6. valid \subseteq Files
    BY DEF TypeOK
  <2>7. valid \ FailedDocuments = stored \cap UNION {future[b].results : b \in Batches(valid)}
    BY <2>4, <2>5
  <2>8. /\ task'.result.docs \cup task'.result.failed = Files
        /\ task'.result.docs \cap task'.result.failed = {}
    BY <2>1, <2>3, <2>6
  <2>9. task'.result.docs = stored' \cap UNION {future'[b].results : b \in Batches(valid')}
    BY <2>1, <2>7
  <2>10. task'.result.kind = "final"
    BY <1>2 DEF FinishMain, SetTask, Result
  <2> QED
    BY <2>8, <2>9, <2>10 DEF VerdictOnEveryFile
<1>3. CASE ~FinishMain /\ task'.result.kind = "final"
  <2>0. ~Reject
    BY <1>3, RejectedForEntries
  <2>1. /\ task.result.kind = "final"
        /\ task'.result.docs = task.result.docs /\ task'.result.failed = task.result.failed
    BY <1>3, <2>0 DEF Next, MainStep, BatchStep, ServiceStep, Upload, Accept, ValidateRaise, FailMain,
                Crash, GetStatus, StartBatch, SkipBatch, Poll, ReportedWith, PollRaise, Repoll, ReportBatch, ReturnUnreported,
                RaiseBatch, Extract, JobDone, JobRaise, SetTask, Result, vars, TypeOK, Results
  <2>2. task.state = "FINISHED" /\ AllReturned /\ main \in {"done", "dead"}
    BY <2>1 DEF RecordsMatchMain
  <2>3. UNCHANGED <<valid, stored, future>>
    BY <1>3, <2>2, FinishedIsQuiet
  <2> QED
    BY <1>3, <2>1, <2>3 DEF VerdictOnEveryFile
<1> QED
  BY <1>1, <1>2, <1>3, <1>4, <1>5

(* An upload that was not rejected ends with a verdict on every file: the  *)
(* completed documents are those with a result and in the collection.  One *)
(* that was rejected has nothing but failed files, or more entries than    *)
(* files that failed.                                                      *)
THEOREM VerdictHolds == Spec => []VerdictOnEveryFile
<1>1. Init => VerdictOnEveryFile
  BY DEF Init, Result, VerdictOnEveryFile
<1> QED
  BY <1>1, BookkeepingHolds, VerdictStep, PTL DEF Spec

(* The record FINISHED is final: no batch or job is left that could touch  *)
(* the collection, the progress or the record.                             *)
THEOREM FinishedStays == Spec => FinishedIsFinal
<1>1. ASSUME Bookkeeping, [Next]_vars, task.state = "FINISHED"
      PROVE  /\ task'.state \in {"FINISHED", "none"}
             /\ task'.state = "FINISHED" => task'.result.docs = task.result.docs
             /\ UNCHANGED <<stored, reported, progress>>
  <2>1. AllReturned
    BY <1>1 DEF Bookkeeping, RecordsMatchMain
  <2> QED
    BY <1>1, <2>1, FinishedIsQuiet
<1> QED
  BY <1>1, BookkeepingHolds, PTL DEF Spec, FinishedIsFinal

(* No batch loses its files under it.                                      *)
THEOREM FilesStay == Spec => []FilesKept
<1>1. Bookkeeping => FilesKept
  <2> SUFFICES ASSUME Bookkeeping, NEW b \in Batches(valid),
                      batch[b] \in {"waiting", "polling", "sleeping"}
               PROVE  BatchFiles(valid, b) \subseteq onDisk
    BY DEF FilesKept
  <2>1. onDisk = Files
    BY DEF Bookkeeping, RecordsMatchMain, AllReturned
  <2> QED
    BY <2>1, BatchesPartition, BatchesAreFiles DEF Bookkeeping, TypeOK
<1> QED
  BY <1>1, BookkeepingHolds, PTL

-----------------------------------------------------------------------------
(* Only the report of a batch moves the progress, and only the validation  *)
(* decides which batches there are.                                        *)
LEMMA CountingKept ==
  ASSUME Counting, UNCHANGED <<valid, progress>>,
         \A b \in Files : batch[b] = "returned" => batch'[b] = "returned",
         main' \in {"idle", "validating"} => main \in {"idle", "validating"}
  PROVE  Counting'
<1>1. Counted' = Counted
  BY DEF Counted
<1>2. Counted \subseteq Files
  BY BatchesAreFiles DEF Counted
<1> QED
  BY <1>1, <1>2 DEF Counting, CountersAgree

(* Before the batches the progress is empty.                               *)
LEMMA NothingCounted ==
  ASSUME Counting, main \in {"idle", "validating"}
  PROVE  progress.docs = {} /\ progress.batches = 0
<1>1. Counted = {}
  BY DEF Counting, Counted
<1> QED
  BY <1>1, FS_EmptySet DEF Counting, CountersAgree

(* The report of a batch adds that batch, and no other, to those with a    *)
(* document in the list: it has a file that did not fail, and its files    *)
(* are in no other batch.                                                  *)
LEMMA ReportCounts ==
  ASSUME Bookkeeping, Counting, NEW b \in Files, ReportBatch(b)
  PROVE  Counting'
<1> USE DEF Bookkeeping
<1>1. b \in Batches(valid) /\ valid \in SUBSET Files
  BY DEF ReportBatch, BatchesMatchFiles, TypeOK
<1>2. /\ UNCHANGED <<main, valid>>
      /\ progress'.docs = progress.docs \cup (BatchFiles(valid, b) \ future[b].failures)
      /\ progress'.batches = progress.batches + 1
      /\ batch' = [batch EXCEPT ![b] = "returned"]
      /\ batch[b] # "returned"
  BY DEF ReportBatch
<1>3. b \notin Counted
  BY <1>2 DEF Counting, CountersAgree
<1>4. PICK f \in future[b].results : f \in BatchFiles(valid, b) /\ f \notin future[b].failures
  BY DEF ReportBatch, JobsMatchBatches, Supported
<1>5. Counted' = Counted \cup {b}
  <2>1. b \in Counted'
    BY <1>1, <1>2, <1>4 DEF Counted
  <2>2. ASSUME NEW c \in Batches(valid), c # b
        PROVE  c \in Counted' <=> c \in Counted
    <3>1. BatchFiles(valid, c) \cap BatchFiles(valid, b) = {}
      BY <1>1, <2>2, BatchesPartition, BatchesAreFiles
    <3> QED
      BY <1>2, <3>1 DEF Counted
  <2> QED
    BY <1>1, <1>2, <2>1, <2>2 DEF Counted
<1>6. IsFiniteSet(Counted)
  <2>1. IsFiniteSet(Files) /\ Counted \in SUBSET Files
    BY BatchesAreFiles, FS_Interval DEF Counted
  <2> QED
    BY <2>1, FS_Subset
<1>7. Cardinality(Counted') = Cardinality(Counted) + 1
  BY <1>3, <1>5, <1>6, FS_AddElement
<1>8. progress.batches = Cardinality(Counted)
  BY DEF Counting, CountersAgree
<1>9. \A c \in Counted' : batch'[c] = "returned"
  BY <1>2, <1>5, BatchesAreFiles DEF Counting, CountersAgree, TypeOK, Counted
<1>10. main' \notin {"idle", "validating"}
  BY <1>1, <1>2, BatchesPartition DEF RecordsMatchMain
<1> QED
  BY <1>2, <1>7, <1>8, <1>9, <1>10 DEF Counting, CountersAgree

LEMMA CountingStep ==
  ASSUME Bookkeeping, Counting, [Next]_vars
  PROVE  Counting'
<1>1. CASE Accept
  <2>1. progress'.docs = {} /\ progress'.batches = 0 /\ main' = "ingesting"
    BY <1>1, NothingCounted DEF Accept
  <2>2. Counted' = {}
    BY <2>1 DEF Counted
  <2> QED
    BY <2>1, <2>2, FS_EmptySet DEF Counting, CountersAgree
<1>2. CASE \E b \in Files : ReportBatch(b)
  BY <1>2, ReportCounts
<1>3. CASE Upload \/ Reject \/ ValidateRaise \/ FinishMain \/ FailMain \/ Crash \/ GetStatus
           \/ UNCHANGED vars
  <2>1. /\ UNCHANGED <<valid, progress, batch>>
        /\ main' \in {"idle", "validating"} => main \in {"idle", "validating"}
    BY <1>3 DEF Upload, Reject, ValidateRaise, FinishMain, FailMain, Crash, GetStatus, vars, batchVars
  <2> QED
    BY <2>1, CountingKept
<1>4. ASSUME NEW b \in Files, BatchStep(b), ~ReportBatch(b)
      PROVE  Counting'
  <2>1. /\ UNCHANGED <<main, valid, progress>>
        /\ batch[b] # "returned"
        /\ \E pos \in {"polling", "sleeping", "returned", "raised"} : batch' = [batch EXCEPT ![b] = pos]
    BY <1>4 DEF BatchStep, StartBatch, SkipBatch, Poll, ReportedWith, PollRaise, Repoll, ReturnUnreported, RaiseBatch
  <2>2. \A c \in Files : batch[c] = "returned" => batch'[c] = "returned"
    BY <2>1 DEF Bookkeeping, TypeOK
  <2> QED
    BY <2>1, <2>2, CountingKept
<1>5. ASSUME NEW b \in Files, ServiceStep(b)
      PROVE  Counting'
  BY <1>5, CountingKept DEF ServiceStep, Extract, JobDone, JobRaise
<1> QED
  BY <1>1, <1>2, <1>3, <1>4, <1>5 DEF Next, MainStep

LEMMA CountingHolds == Spec => []Counting
<1>1. Init => Counting
  <2> SUFFICES ASSUME Init PROVE Counting
    OBVIOUS
  <2>1. Counted = {}
    BY DEF Init, Counted
  <2> QED
    BY <2>1, FS_EmptySet DEF Init, Counting, CountersAgree
<1> QED
  BY <1>1, BookkeepingHolds, CountingStep, PTL DEF Spec

(* The two halves of the progress agree in every mode: batches_completed   *)
(* counts exactly the batches with a document in documents_completed_list, *)
(* whatever order their coroutines report in.                              *)
THEOREM CountersHold == Spec => []CountersAgree
<1>1. Counting => CountersAgree
  BY DEF Counting
<1> QED
  BY <1>1, CountingHolds, PTL

-----------------------------------------------------------------------------
(* A step of a batch in sequence: the ones before it have returned, and    *)
(* the loop over the batches goes on.                                      *)
LEMMA BatchInTurn ==
  ASSUME ~Parallel, Bookkeeping, InTurn, NEW b \in Files, BatchStep(b)
  PROVE  /\ main = "ingesting"
         /\ \A c \in Files : c < b => batch[c] = "returned"
         /\ \A c \in Files : b < c => batch[c] \in {"absent", "waiting"}
<1> USE DEF Bookkeeping, InTurn
<1>1. b \in Batches(valid) /\ batch[b] \in {"waiting", "polling", "sleeping"}
  BY DEF BatchStep, StartBatch, SkipBatch, Poll, ReportedWith, PollRaise, Repoll, ReportBatch, ReturnUnreported,
         RaiseBatch, BatchesMatchFiles
<1>2. main = "ingesting"
  <2>1. main \notin {"idle", "validating"}
    BY <1>1, BatchesPartition DEF RecordsMatchMain
  <2>2. main # "done"
    BY <1>1 DEF RecordsMatchMain, AllReturned
  <2>3. main \notin {"raised", "dead"}
    BY DEF BatchStep, StartBatch, SkipBatch, Poll, ReportedWith, PollRaise, Repoll, ReportBatch, ReturnUnreported,
           RaiseBatch, Turn, InSequence
  <2> QED
    BY <2>1, <2>2, <2>3 DEF TypeOK
<1>3. \A c \in Files : c < b => batch[c] = "returned"
  BY DEF BatchStep, StartBatch, SkipBatch, Poll, ReportedWith, PollRaise, Repoll, ReportBatch, ReturnUnreported,
         RaiseBatch, Turn, InSequence
<1>4. \A c \in Files : b < c => batch[c] \in {"absent", "waiting"}
  BY <1>1 DEF InSequence
<1> QED
  BY <1>2, <1>3, <1>4

(* What a report writes: the progress with at least one more document.     *)
LEMMA ReportAdvances ==
  ASSUME Bookkeeping, Counting, NEW b \in Files, ReportBatch(b)
  PROVE  /\ task'.state = "PENDING"
         /\ task'.result.docs = progress'.docs
         /\ task'.result.batches = progress'.batches
         /\ progress'.docs \in SUBSET Files
         /\ task'.result.failed \in SUBSET Files
         /\ progress.docs \subseteq progress'.docs /\ progress.docs # progress'.docs
         /\ progress'.batches = progress.batches + 1
<1> USE DEF Bookkeeping
<1>1. /\ progress'.docs = progress.docs \cup (BatchFiles(valid, b) \ future[b].failures)
      /\ progress'.batches = progress.batches + 1
  BY DEF ReportBatch
<1>2. /\ task'.state = "PENDING" /\ task'.result.docs = progress'.docs
      /\ task'.result.batches = progress'.batches
      /\ task'.result.failed = future[b].failures \cup rejected
  BY DEF ReportBatch, SetTask, Result
<1>3. PICK f \in future[b].results : f \in BatchFiles(valid, b) /\ f \notin future[b].failures
  BY DEF ReportBatch, JobsMatchBatches, Supported
<1>4. b \in Batches(valid) /\ batch[b] # "returned"
  BY DEF ReportBatch, BatchesMatchFiles
<1>5. f \notin progress.docs
  BY <1>3, <1>4 DEF Counting, CountersAgree, Counted
<1>6. BatchFiles(valid, b) \subseteq Files
  BY BatchesPartition DEF TypeOK
<1>7. progress'.docs \in SUBSET Files /\ task'.result.failed \in SUBSET Files
  BY <1>1, <1>2, <1>6 DEF TypeOK
<1> QED
  BY <1>1, <1>2, <1>3, <1>5, <1>7

LEMMA InTurnStep ==
  ASSUME ~Parallel, Bookkeeping, Counting, InTurn, [Next]_vars, TypeOK'
  PROVE  InTurn'
<1> USE DEF Bookkeeping, InTurn
<1>1. CASE Upload
  <2>1. progress.docs = {} /\ progress.batches = 0
    BY <1>1, NothingCounted DEF Upload
  <2> QED
    BY <1>1, <2>1 DEF Upload, InSequence, RecordTellsProgress, Result, SetTask, batchVars
<1>2. CASE Accept
  BY <1>2 DEF Accept, InSequence, RecordTellsProgress
<1>3. CASE Reject
  BY <1>3 DEF Reject, InSequence, RecordTellsProgress, SetTask, batchVars
<1>4. CASE ValidateRaise
  <2>1. \A b \in Files : batch[b] = "absent"
    BY <1>4, BatchesPartition DEF ValidateRaise, RecordsMatchMain, BatchesMatchFiles
  <2> QED
    BY <1>4, <2>1 DEF ValidateRaise, InSequence, RecordTellsProgress, SetTask, batchVars
<1>5. CASE FinishMain
  BY <1>5 DEF FinishMain, InSequence, RecordTellsProgress, SetTask, batchVars
<1>6. CASE FailMain
  <2>1. ASSUME NEW c \in Files, batch[c] \in {"polling", "sleeping"}
        PROVE  FALSE
    <3>1. PICK b \in Files : batch[b] = "raised"
      BY <1>6, <2>1 DEF FailMain, AllReturned, BatchesMatchFiles
    <3>2. b < c \/ c < b
      BY <2>1, <3>1
    <3> QED
      BY <2>1, <3>1, <3>2 DEF InSequence
  <2> QED
    BY <1>6, <2>1 DEF FailMain, InSequence, RecordTellsProgress, SetTask, batchVars
<1>7. CASE Crash
  BY <1>7 DEF Crash, InSequence, RecordTellsProgress, batchVars
<1>8. CASE GetStatus
  BY <1>8 DEF GetStatus, InSequence, RecordTellsProgress, batchVars, TypeOK, Results
<1>9. CASE UNCHANGED vars
  BY <1>9 DEF vars, InSequence, RecordTellsProgress
<1>10. ASSUME NEW b \in Files, ServiceStep(b)
       PROVE  InTurn'
  BY <1>10 DEF ServiceStep, Extract, JobDone, JobRaise, InSequence, RecordTellsProgress
<1>11. ASSUME NEW b \in Files, BatchStep(b)
       PROVE  InTurn'
  <2>1. /\ main = "ingesting" /\ main' = "ingesting"
        /\ \A c \in Files : c < b => batch[c] = "returned"
        /\ \A c \in Files : b < c => batch[c] \in {"absent", "waiting"}
    BY <1>11, BatchInTurn DEF BatchStep, StartBatch, SkipBatch, Poll, ReportedWith, PollRaise, Repoll, ReportBatch,
                              ReturnUnreported, RaiseBatch
  <2>2. \E pos \in {"polling", "sleeping", "returned", "raised"} : batch' = [batch EXCEPT ![b] = pos]
    BY <1>11 DEF BatchStep, StartBatch, SkipBatch, Poll, ReportedWith, PollRaise, Repoll, ReportBatch, ReturnUnreported, RaiseBatch
  <2>3. \A c \in Files : c # b => batch'[c] = batch[c]
    BY <2>2 DEF TypeOK
  <2>4. InSequence'
    <3> SUFFICES ASSUME NEW d \in Files, NEW c \in Files, c < d, batch'[d] \notin {"absent", "waiting"}
                 PROVE  batch'[c] = "returned"
      BY <2>1 DEF InSequence
    <3>1. d = b \/ d < b
      BY <2>1, <2>3
    <3> QED
      BY <2>1, <2>3, <3>1
  <2>5. RecordTellsProgress'
    <3>1. CASE ReportBatch(b)
      BY <2>1, <3>1, ReportAdvances DEF RecordTellsProgress
    <3>2. CASE ~ReportBatch(b)
      <4>1. UNCHANGED <<task, progress>>
        BY <1>11, <3>2 DEF BatchStep, StartBatch, SkipBatch, Poll, ReportedWith, PollRaise, Repoll, ReturnUnreported, RaiseBatch
      <4> QED
        BY <2>1, <4>1 DEF RecordTellsProgress
    <3> QED
      BY <3>1, <3>2
  <2> QED
    BY <2>4, <2>5
<1> QED
  BY <1>1, <1>2, <1>3, <1>4, <1>5, <1>6, <1>7, <1>8, <1>9, <1>10, <1>11 DEF Next, MainStep

(* The record starts as the documentation says.                            *)
LEMMA LifecycleInit == Init => Lifecycle!Init
  BY DEF Init, Result, Lifecycle!Init

(* Every step is a step of the documented record or leaves it as it is.    *)
LEMMA LifecycleStep ==
  ASSUME ~Parallel, Bookkeeping, Counting, InTurn, [Next]_vars
  PROVE  [Lifecycle!Next]_(Lifecycle!vars)
<1> USE DEF Bookkeeping, InTurn
<1>1. CASE Upload
  <2>1. Lifecycle!Submit
    BY <1>1 DEF Upload, RecordTellsProgress, SetTask, Result, Lifecycle!Submit
  <2> QED
    BY <2>1 DEF Lifecycle!Next
<1>2. CASE Reject
  <2>1. progress.batches = 0
    BY <1>2, NothingCounted DEF Reject
  <2>2. PICK entries \in [Files -> SUBSET Checks], stray \in 0..MaxStray :
          SetTask("FINISHED", Rejection(Invalid(entries), EntryCount(entries, stray)))
    BY <1>2 DEF Reject
  <2>3. Lifecycle!Reject
    BY <1>2, <2>1, <2>2 DEF Reject, RecordTellsProgress, SetTask, Rejection, Result, Invalid, Lifecycle!Reject
  <2> QED
    BY <2>3 DEF Lifecycle!Next
<1>3. CASE ValidateRaise \/ FailMain
  <2>1. Lifecycle!Fail
    BY <1>3 DEF ValidateRaise, FailMain, RecordTellsProgress, SetTask, Result, Lifecycle!Fail
  <2> QED
    BY <2>1 DEF Lifecycle!Next
<1>4. CASE FinishMain
  <2>1. /\ main = "ingesting" /\ task'.state = "FINISHED"
        /\ task'.result.docs = valid \ FailedDocuments
        /\ task'.result.failed = FailedDocuments \cup rejected
        /\ task'.result.batches = progress.batches
    BY <1>4 DEF FinishMain, SetTask, Result
  <2>2. \A b \in Batches(valid) : b \in Files /\ future[b].failures \subseteq Supported(b)
    BY BatchesAreFiles DEF JobsMatchBatches
  <2>3. FailedDocuments \subseteq valid
    BY <2>2, BatchesPartition DEF FailedDocuments, BatchFailures, Supported, TypeOK
  <2>4. rejected = Files \ valid /\ valid \subseteq Files
    BY <2>1 DEF RecordsMatchMain, TypeOK
  <2>5. Lifecycle!Finish
    BY <2>1, <2>3, <2>4 DEF RecordTellsProgress, Lifecycle!Finish
  <2> QED
    BY <2>5 DEF Lifecycle!Next
<1>5. CASE Crash
  <2>1. CASE RedisBackend
    BY <1>5, <2>1 DEF Crash, Lifecycle!vars
  <2>2. CASE ~RedisBackend
    <3>1. task.state # "none"
      BY <1>5 DEF Crash, RecordTellsProgress, TypeOK
    <3>2. Lifecycle!Forget
      BY <1>5, <2>2, <3>1 DEF Crash, SetTask, Result, Lifecycle!Forget
    <3> QED
      BY <3>2 DEF Lifecycle!Next
  <2> QED
    BY <2>1, <2>2
<1>6. CASE GetStatus
  BY <1>6 DEF GetStatus, TypeOK, Results, Lifecycle!vars
<1>7. ASSUME NEW b \in Files, ReportBatch(b)
      PROVE  [Lifecycle!Next]_(Lifecycle!vars)
  <2>1. main = "ingesting"
    BY <1>7, BatchInTurn DEF BatchStep
  <2>2. Lifecycle!Advance
    BY <1>7, <2>1, ReportAdvances DEF RecordTellsProgress, Lifecycle!Advance
  <2> QED
    BY <2>2 DEF Lifecycle!Next
<1>8. CASE UNCHANGED task
  BY <1>8 DEF Lifecycle!vars
<1>9. \/ Upload \/ Reject \/ ValidateRaise \/ FailMain \/ FinishMain \/ Crash \/ GetStatus
      \/ (\E b \in Files : ReportBatch(b))
      \/ UNCHANGED task
  BY DEF Next, MainStep, BatchStep, ServiceStep, Accept, StartBatch, SkipBatch, Poll, ReportedWith, PollRaise, Repoll,
         ReturnUnreported, RaiseBatch, Extract, JobDone, JobRaise, vars
<1> QED
  BY <1>1, <1>2, <1>3, <1>4, <1>5, <1>6, <1>7, <1>8, <1>9

(* With batches in sequence the record that clients poll behaves as the    *)
(* documentation says: PENDING with a progress that only grows, and one    *)
(* end, kept in Redis or in memory, with or without a crash.               *)
THEOREM ImplementsLifecycle ==
  ASSUME ~Parallel
  PROVE  Spec => LifecycleSpec
<1>1. Init => InTurn
  BY DEF Init, InTurn, InSequence, RecordTellsProgress
<1>2. ASSUME Bookkeeping, Counting, InTurn, [Next]_vars PROVE InTurn'
  BY <1>2, InTurnStep, TypeStep DEF Bookkeeping
<1>3. Spec => []InTurn
  BY <1>1, <1>2, BookkeepingHolds, CountingHolds, PTL DEF Spec
<1> QED
  BY <1>3, BookkeepingHolds, CountingHolds, LifecycleInit, LifecycleStep, PTL
     DEF Spec, LifecycleSpec, Lifecycle!Spec
-----------------------------------------------------------------------------
(* UploadFiles.  The argument is about who was under way together: the     *)
(* overlap of two requests is symmetric, and two that are under way now    *)
(* have met.                                                               *)
UnderWay == {r \in Requests : at[r] \notin Ended \cup {"idle"}}

(* Only the move of a request, and what it means for those under way.      *)
LEMMA Moves ==
  ASSUME FilesTypeOK, NEW r \in Requests, NEW s, Goto(r, s)
  PROVE  /\ at'[r] = s
         /\ \A q \in Requests \ {r} : at'[q] = at[q]
         /\ UnderWay' = IF s \in Ended \cup {"idle"} THEN UnderWay \ {r}
                        ELSE UnderWay \cup {r}
<1>1. at' = [at EXCEPT ![r] = s] /\ at \in [Requests -> {"idle", "compacting",
        "resubmitted", "submitted", "extracting", "read", "unread", "stored"} \cup Ended]
  BY DEF Goto, FilesTypeOK
<1>2. at'[r] = s /\ \A q \in Requests \ {r} : at'[q] = at[q]
  BY <1>1
<1> QED
  BY <1>2 DEF UnderWay

-----------------------------------------------------------------------------
(* A file is read before it is stored.                                     *)
Typed == FilesTypeOK /\ \A r \in Requests : at[r] = "read" => read[r] # NoFile

(* The types are inductive with the fact that NV-Ingest stores only what   *)
(* it has read.                                                            *)
LEMMA TypedStep == Typed /\ [FilesNext]_filesVars => Typed'
<1> SUFFICES ASSUME Typed, [FilesNext]_filesVars PROVE Typed'
  OBVIOUS
<1> USE DEF Typed, FilesTypeOK, Ended
<1>1. ASSUME NEW r \in Requests, Arrive(r) PROVE Typed'
  BY <1>1 DEF Arrive, Post, Patch, Goto, WriteFile, Meet
<1>2. ASSUME NEW r \in Requests, Advance(r) PROVE Typed'
  <2>1. CASE Compacted(r) \/ Validate(r)
    BY <2>1 DEF Compacted, Validate, Goto
  <2>2. CASE Read(r)
    BY <2>2 DEF Read, Goto
  <2>3. CASE Store(r)
    BY <2>3 DEF Store, Goto, Copies
  <2>4. CASE FinishFailure(r) \/ FinishResult(r)
    BY <2>4 DEF FinishFailure, FinishResult, CleanUp, Goto
  <2> QED
    BY <1>2, <2>1, <2>2, <2>3, <2>4 DEF Advance
<1>3. ASSUME NEW r \in Requests, PatchFails(r) \/ Raise(r) PROVE Typed'
  BY <1>3 DEF PatchFails, Raise, Goto
<1>4. CASE UNCHANGED filesVars
  BY <1>4 DEF filesVars
<1> QED
  BY <1>1, <1>2, <1>3, <1>4 DEF FilesNext

(* Every variable keeps its type through all requests and their failures.  *)
THEOREM FilesTypeCorrect == FilesSpec => []FilesTypeOK
<1>1. FilesInit => Typed
  BY DEF FilesInit, Typed, FilesTypeOK
<1>2. Typed => FilesTypeOK
  BY DEF Typed
<1> QED
  BY <1>1, <1>2, TypedStep, PTL DEF FilesSpec

-----------------------------------------------------------------------------
Reading == {"extracting", "read", "unread"}

(* The overlap is symmetric and has all who are under way together.        *)
Together ==
  /\ \A q, r \in Requests : <<q, r>> \in overlap => <<r, q>> \in overlap
  /\ \A q, r \in UnderWay : q # r => <<q, r>> \in overlap

(* The copies are of requests that have stored theirs, and whoever may     *)
(* still store one was under way together with them.                       *)
Raced ==
  /\ \A c \in collection : at[c.by] \in {"stored"} \cup Ended
  /\ \A c \in collection, q \in Requests :
       at[q] \in Reading => <<c.by, q>> \in overlap
  /\ CopiesOnlyByRace

(* The arrival of r keeps the overlap as Together says.                    *)
LEMMA TogetherMeets ==
  ASSUME Typed, Together, NEW r \in Requests, at[r] = "idle", Meet(r),
         NEW s, Goto(r, s)
  PROVE  /\ Together'
         /\ overlap \subseteq overlap'
<1>1. /\ FilesTypeOK
      /\ overlap' = overlap \cup (UnderWay \X {r}) \cup ({r} \X UnderWay)
  BY DEF Meet, UnderWay, Typed
<1>2. UnderWay' \subseteq UnderWay \cup {r} /\ UnderWay \subseteq Requests
  BY <1>1, Moves DEF UnderWay
<1> QED
  BY <1>1, <1>2 DEF Together

(* A request that moves on without an arrival changes no overlap.          *)
LEMMA TogetherStays ==
  ASSUME Typed, Together, NEW r \in UnderWay, NEW s, Goto(r, s), overlap' = overlap
  PROVE  Together'
<1>1. UnderWay' \subseteq UnderWay
  BY Moves DEF UnderWay, Typed
<1> QED
  BY <1>1 DEF Together

(* Where a request stands tells that it is under way.                      *)
LEMMA Acting ==
  ASSUME Typed, NEW r \in Requests, Advance(r) \/ PatchFails(r) \/ Raise(r)
  PROVE  /\ r \in UnderWay
         /\ overlap' = overlap
         /\ \E s : Goto(r, s)
BY DEF Advance, PatchFails, Raise, Compacted, Validate, Read, Store, FinishFailure,
       FinishResult, UnderWay, Ended, Typed, FilesTypeOK

(* Together and Raced are kept by every step; a copy is stored only by a   *)
(* request whose validation found none, so after it met all who stored one. *)
LEMMA RacedStep ==
  Typed /\ Typed' /\ Together /\ Raced /\ [FilesNext]_filesVars => Together' /\ Raced'
<1> SUFFICES ASSUME Typed, Typed', Together, Raced, [FilesNext]_filesVars
             PROVE  Together' /\ Raced'
  OBVIOUS
<1>0. FilesTypeOK /\ \A c \in collection : c \in Copies /\ c.by \in Requests
  BY DEF Typed, FilesTypeOK, Copies
<1>1. ASSUME NEW r \in Requests, Arrive(r) PROVE Together' /\ Raced'
  <2>1. PICK s \in {"submitted", "compacting", "error"} : Goto(r, s)
    BY <1>1 DEF Arrive, Post, Patch
  <2>2. at[r] = "idle" /\ Meet(r) /\ collection' \subseteq collection
    BY <1>1 DEF Arrive, Post, Patch
  <2>3. Together' /\ overlap \subseteq overlap'
    BY <2>1, <2>2, TogetherMeets
  <2>4. at'[r] = s /\ \A q \in Requests \ {r} : at'[q] = at[q]
    BY <1>0, <2>1, Moves
  <2>5. \A q \in Requests : at'[q] \in Reading => at[q] \in Reading
    BY <2>4 DEF Reading
  <2>6. \A q \in Requests \ {r} : at'[q] = at[q]
    BY <2>4
  <2>7. \A c \in collection : c.by # r
    BY <2>2 DEF Raced, Ended
  <2> QED
    BY <1>0, <2>2, <2>3, <2>5, <2>6, <2>7 DEF Raced, CopiesOnlyByRace
<1>2. ASSUME NEW r \in Requests, Advance(r) \/ PatchFails(r) \/ Raise(r)
      PROVE  Together' /\ Raced'
  <2>1. r \in UnderWay /\ overlap' = overlap /\ (\E s : Goto(r, s)) /\ Together'
    BY <1>2, Acting, TogetherStays
  <2>2. CASE Validate(r)
    <3>1. PICK s \in {"missing", "rejected", "extracting"} :
            Goto(r, s) /\ (s = "extracting" => collection = {})
      BY <2>2 DEF Validate
    <3>2. at'[r] = s /\ \A q \in Requests \ {r} : at'[q] = at[q]
      BY <1>0, <3>1, Moves
    <3> QED
      BY <1>0, <2>1, <2>2, <3>1, <3>2 DEF Validate, Raced, Reading, CopiesOnlyByRace, Ended
  <2>3. CASE Store(r)
    <3>1. /\ at[r] = "read" /\ at'[r] = "stored"
          /\ \A q \in Requests \ {r} : at'[q] = at[q]
      BY <1>0, <2>3, Moves DEF Store
    <3>2. collection' = collection \cup {[by |-> r, file |-> read[r]]}
      BY <2>3 DEF Store
    <3>3. \A q \in Requests \ {r} : at[q] \in Reading => <<r, q>> \in overlap
      BY <2>1 DEF Together, UnderWay, Reading, Ended
    <3>4. \A c \in collection : <<c.by, r>> \in overlap /\ <<r, c.by>> \in overlap
      BY <1>0, <3>1 DEF Raced, Reading, Together
    <3>5. \A q \in Requests : at'[q] \in Reading => q # r /\ at[q] \in Reading
      BY <3>1 DEF Reading
    <3>6. \A c \in collection' : c \in collection \/ c.by = r
      BY <3>2
    <3>7. \A c \in collection : c.by # r /\ at[c.by] = at'[c.by]
      BY <1>0, <3>1 DEF Raced, Ended
    <3>8. \A c \in collection' : at'[c.by] \in {"stored"} \cup Ended
      BY <3>1, <3>6, <3>7 DEF Raced
    <3>9. \A c \in collection', q \in Requests :
            at'[q] \in Reading => <<c.by, q>> \in overlap'
      BY <2>1, <3>3, <3>5, <3>6 DEF Raced
    <3>10. CopiesOnlyByRace'
      BY <2>1, <3>4, <3>6 DEF Raced, CopiesOnlyByRace
    <3> QED
      BY <2>1, <3>8, <3>9, <3>10 DEF Raced
  <2>4. CASE \/ Compacted(r) \/ PatchFails(r) \/ Read(r) \/ FinishFailure(r)
             \/ FinishResult(r) \/ Raise(r)
    <3>1. collection' = collection
      BY <2>4 DEF Compacted, PatchFails, Read, FinishFailure, FinishResult, Raise
    <3>2. PICK s : Goto(r, s) /\ (s \in Reading => at[r] \in Reading)
                              /\ (at[r] \in {"stored"} \cup Ended => s \in Ended)
      BY <2>4 DEF Compacted, PatchFails, Read, FinishFailure, FinishResult, Raise,
                  Reading, Ended
    <3>3. at'[r] = s /\ \A q \in Requests \ {r} : at'[q] = at[q]
      BY <1>0, <3>2, Moves
    <3> QED
      BY <1>0, <2>1, <3>1, <3>2, <3>3 DEF Raced, CopiesOnlyByRace
  <2> QED
    BY <1>2, <2>2, <2>3, <2>4 DEF Advance
<1>3. CASE UNCHANGED filesVars
  BY <1>3 DEF filesVars, Together, Raced, UnderWay, CopiesOnlyByRace
<1> QED
  BY <1>1, <1>2, <1>3 DEF FilesNext

(* The invariant of the two lemmas.                                        *)
LEMMA RacedHolds == FilesSpec => [](Typed /\ Together /\ Raced)
<1>1. FilesInit => Typed /\ Together /\ Raced
  BY DEF FilesInit, Typed, FilesTypeOK, Together, Raced, UnderWay, CopiesOnlyByRace
<1> QED
  BY <1>1, TypedStep, RacedStep, PTL DEF FilesSpec

(* Two copies need two requests under way together: otherwise the check of *)
(* __run_background_ingest_task or the deletion of a PATCH came between.   *)
THEOREM CopiesRaced == FilesSpec => []CopiesOnlyByRace
<1>1. Raced => CopiesOnlyByRace
  BY DEF Raced
<1> QED
  BY <1>1, RacedHolds, PTL

-----------------------------------------------------------------------------
(* The file at the path while r is under way, and the one read for it.     *)
Known(f, r) == f \in {NoFile, r} \/ <<f, r>> \in overlap

Recent ==
  /\ \A r \in UnderWay : Known(path, r)
  /\ \A r \in Requests : Known(read[r], r)

(* Whoever writes the path, or restores a file to it, is under way.        *)
LEMMA RecentStep ==
  Typed /\ Together /\ Together' /\ Recent /\ [FilesNext]_filesVars => Recent'
<1> SUFFICES ASSUME Typed, Together, Together', Recent, [FilesNext]_filesVars PROVE Recent'
  OBVIOUS
<1>0. FilesTypeOK
  BY DEF Typed
<1>1. ASSUME NEW p \in Requests, Arrive(p) PROVE Recent'
  <2>1. PICK s \in {"submitted", "compacting", "error"} : Goto(p, s)
    BY <1>1 DEF Arrive, Post, Patch
  <2>2. /\ path' = p /\ read' = read /\ Meet(p)
    BY <1>1 DEF Arrive, Post, Patch, WriteFile
  <2>3. UnderWay' \subseteq UnderWay \cup {p}
    BY <1>0, <2>1, Moves
  <2>4. overlap \subseteq overlap' /\ \A r \in UnderWay : <<p, r>> \in overlap'
    BY <2>2 DEF Meet, UnderWay
  <2> QED
    BY <2>2, <2>3, <2>4 DEF Recent, Known
<1>2. ASSUME NEW p \in Requests, Advance(p) \/ PatchFails(p) \/ Raise(p) PROVE Recent'
  <2>1. PICK s : p \in UnderWay /\ overlap' = overlap /\ Goto(p, s)
    BY <1>2, Acting
  <2>2. UnderWay' \subseteq UnderWay
    BY <1>0, <2>1, Moves
  <2>3. path' \in {path, NoFile, p}
    BY <1>2 DEF Advance, PatchFails, Raise, Compacted, Validate, Read, Store,
       FinishFailure, FinishResult, CleanUp
  <2>4. \A r \in UnderWay : r # p => <<p, r>> \in overlap
    BY <2>1 DEF Together
  <2>5. \A r \in Requests : read'[r] = read[r] \/ (r = p /\ read'[r] = path)
    BY <1>0, <1>2 DEF Advance, PatchFails, Raise, Compacted, Validate, Read, Store,
       FinishFailure, FinishResult, FilesTypeOK
  <2> QED
    BY <2>1, <2>2, <2>3, <2>4, <2>5 DEF Recent, Known
<1>3. CASE UNCHANGED filesVars
  BY <1>3 DEF filesVars, Recent, Known, UnderWay
<1> QED
  BY <1>1, <1>2, <1>3 DEF FilesNext

(* No upload ingests a file that was left at the shared path before it     *)
(* arrived, however many uploads failed, were rejected or restored a file. *)
THEOREM NothingOlder == FilesSpec => []NothingOlderRead
<1>1. FilesInit => Recent
  BY DEF FilesInit, Recent, Known, UnderWay
<1>2. Recent => NothingOlderRead
  BY DEF Recent, Known, NothingOlderRead
<1> QED
  BY <1>1, <1>2, RecentStep, RacedHolds, PTL DEF FilesSpec

-----------------------------------------------------------------------------
Alone(r) == \A q \in Requests : <<q, r>> \notin overlap

(* What a request that is under way and has met nobody may count on.       *)
Undisturbed(r) ==
  /\ path = r
  /\ at[r] = "read" => read[r] = r
  /\ at[r] \in Reading => collection = {}
  /\ at[r] = "stored" => collection = {[by |-> r, file |-> r]}

Solo == \A r \in UnderWay : Alone(r) => Undisturbed(r)

(* While a request is under way alone, only it moves, from its arrival to  *)
(* its end.                                                                *)
LEMMA SoloStep ==
  Typed /\ Together /\ Together' /\ Solo /\ [FilesNext]_filesVars => Solo'
<1> SUFFICES ASSUME Typed, Together, Together', Solo, [FilesNext]_filesVars,
                    NEW r \in UnderWay', Alone(r)'
             PROVE  Undisturbed(r)'
  BY DEF Solo
<1>0. FilesTypeOK /\ r \in Requests
  BY DEF Typed, UnderWay
<1>1. ASSUME NEW p \in Requests, Arrive(p) PROVE Undisturbed(r)'
  <2>1. PICK s \in {"submitted", "compacting", "error"} : Goto(p, s)
    BY <1>1 DEF Arrive, Post, Patch
  <2>2. at'[p] = s /\ \A q \in Requests \ {p} : at'[q] = at[q]
    BY <1>0, <2>1, Moves
  <2>3. p = r
    <3>1. SUFFICES ASSUME p # r PROVE FALSE
      OBVIOUS
    <3>2. r \in UnderWay
      BY <1>0, <2>2, <3>1 DEF UnderWay
    <3>3. <<p, r>> \in overlap'
      BY <1>1, <3>2 DEF Arrive, Post, Patch, Meet, UnderWay
    <3> QED
      BY <1>0, <3>3 DEF Alone
  <2>4. path' = r
    BY <1>1, <2>3 DEF Arrive, Post, Patch, WriteFile
  <2> QED
    BY <2>2, <2>3, <2>4 DEF Undisturbed, Reading
<1>2. ASSUME NEW p \in Requests, Advance(p) \/ PatchFails(p) \/ Raise(p)
      PROVE  Undisturbed(r)'
  <2>1. PICK s : p \in UnderWay /\ overlap' = overlap /\ Goto(p, s)
    BY <1>2, Acting
  <2>2. at'[p] = s /\ \A q \in Requests \ {p} : at'[q] = at[q]
    BY <1>0, <2>1, Moves
  <2>3. r \in UnderWay /\ Alone(r)
    BY <1>0, <2>1, <2>2 DEF UnderWay, Alone
  <2>4. p = r
    BY <1>2, <2>1, <2>3 DEF Together, Alone
  <2>5. Undisturbed(r)
    BY <2>3 DEF Solo
  <2>6. at'[r] \notin Ended
    BY DEF UnderWay
  <2>7. CASE Compacted(r) \/ Validate(r)
    BY <1>0, <2>2, <2>4, <2>5, <2>7
    DEF Compacted, Validate, Undisturbed, Reading, Goto, Typed, FilesTypeOK
  <2>8. CASE Read(r)
    BY <1>0, <2>5, <2>8 DEF Read, Undisturbed, Reading, Goto, FilesTypeOK
  <2>9. CASE Store(r)
    BY <1>0, <2>5, <2>9 DEF Store, Undisturbed, Reading, Goto, FilesTypeOK
  <2>10. CASE FinishFailure(r) \/ FinishResult(r) \/ Raise(r) \/ PatchFails(r)
    BY <1>0, <2>6, <2>10
    DEF FinishFailure, FinishResult, Raise, PatchFails, Goto, FilesTypeOK, Ended
  <2> QED
    BY <1>2, <2>4, <2>7, <2>8, <2>9, <2>10 DEF Advance
<1>3. CASE UNCHANGED filesVars
  BY <1>3 DEF filesVars, UnderWay, Solo, Alone, Undisturbed
<1> QED
  BY <1>1, <1>2, <1>3 DEF FilesNext

(* An upload that met no other one leaves exactly its own file in the      *)
(* collection, for any uploads that ended before it, however they ended.   *)
THEOREM OwnIfAlone == FilesSpec => AloneGetsOwn
<1>1. FilesInit => Solo
  BY DEF FilesInit, Solo, UnderWay
<1>2. ASSUME Typed, Solo, [FilesNext]_filesVars, NEW r \in Requests,
             at[r] # "completed", at'[r] = "completed", Alone(r)
      PROVE  collection' = {[by |-> r, file |-> r]}
  <2>0. FilesTypeOK
    BY <1>2 DEF Typed
  <2>1. PICK p \in Requests : Arrive(p) \/ Advance(p) \/ PatchFails(p) \/ Raise(p)
    BY <1>2 DEF FilesNext, filesVars
  <2>2. PICK s : Goto(p, s)
    BY <1>2, <2>1, Acting DEF Arrive, Post, Patch
  <2>3. p = r /\ s = "completed"
    BY <1>2, <2>0, <2>2, Moves
  <2>4. FinishResult(r)
    BY <1>2, <2>0, <2>1, <2>3 DEF Arrive, Post, Patch, Advance, PatchFails, Raise,
       Compacted, Validate, Read, Store, FinishFailure, Goto, FilesTypeOK
  <2>5. r \in UnderWay /\ collection # {} /\ collection' = collection
    BY <1>2, <2>0, <2>4 DEF FinishResult, UnderWay, Goto, FilesTypeOK, Ended
  <2>6. Undisturbed(r)
    BY <1>2, <2>5 DEF Solo
  <2> QED
    BY <2>4, <2>5, <2>6 DEF FinishResult, Undisturbed, Reading
<1>3. Typed /\ Solo /\ [FilesNext]_filesVars =>
        [\A r \in Requests :
           (/\ at[r] # "completed" /\ at'[r] = "completed"
            /\ \A q \in Requests : <<q, r>> \notin overlap)
           => collection' = {[by |-> r, file |-> r]}]_filesVars
  BY <1>2 DEF Alone
<1> QED
  BY <1>1, <1>3, SoloStep, RacedHolds, PTL DEF FilesSpec, AloneGetsOwn
=============================================================================
