------------------------------ MODULE JobQueue ------------------------------
(***************************************************************************)
(* The queued mode of the .NET ingestor (APP_INGESTION_EXECUTION_MODE      *)
(* "queued" with the file-backed queue and task store).  The API process   *)
(* records an upload as PENDING and puts a job file in pending/.  A worker *)
(* claims the job by renaming its file, records IN_PROGRESS, ingests,      *)
(* records the outcome and renames the file once more.                     *)
(*                                                                         *)
(* The task store is a dictionary per process, loaded when the process     *)
(* starts; every write saves the whole dictionary over one shared file.    *)
(* APP_INGESTOR_ROLE decides which processes run the worker loop, so the   *)
(* API process may be one of the workers.                                  *)
(***************************************************************************)
EXTENDS Naturals

CONSTANTS
  Jobs,       \* the uploads, by their task id
  Procs,      \* the processes of the ingestor
  Api,        \* the process that answers the clients
  Workers,    \* the processes with the worker loop
  None,       \* no job, no process
  MaxFaults,  \* bound: steps of the file system or the host that fail
  MaxDeaths   \* bound: processes that die from outside

ASSUME JobQueueAssumption ==
  /\ Api \in Procs
  /\ Workers \in SUBSET Procs
  /\ None \notin Jobs \cup Procs
  /\ MaxFaults \in Nat
  /\ MaxDeaths \in Nat

VARIABLES
  dir,       \* the directory with the file of each job
  upload,    \* where the request that submits each job stands
  pc,        \* where each process stands
  held,      \* the job a worker has in its hands
  cache,     \* _taskStates of each process: the state of each task
  file,      \* the task store file
  readable,  \* FALSE: the file was cut short and cannot be parsed
  faults,    \* failed steps so far
  deaths,    \* deaths so far
  runs,      \* history: how often each job was ingested
  owner,     \* history: who claimed each job and has run ever since
  unread     \* history: jobs whose file could not be read after the claim

storeVars == <<cache, file, readable>>
vars == <<dir, upload, pc, held, cache, file, readable, faults, deaths, runs, owner, unread>>

Status == {"UNKNOWN", "PENDING", "IN_PROGRESS", "FINISHED", "FAILED"}

TypeOK ==
  /\ dir \in [Jobs -> {"none", "pending", "processing", "completed", "failed"}]
  /\ upload \in [Jobs -> {"new", "recorded", "accepted", "error"}]
  /\ pc \in [Procs -> {"serve", "idle", "read", "start", "ingest", "finish",
                       "complete", "failing", "fail", "down"}]
  /\ held \in [Procs -> Jobs \cup {None}]
  /\ cache \in [Procs -> [Jobs -> Status]]
  /\ file \in [Jobs -> Status]
  /\ readable \in BOOLEAN
  /\ faults \in 0..MaxFaults
  /\ deaths \in 0..MaxDeaths
  /\ runs \in [Jobs -> Nat]
  /\ owner \in [Jobs -> Procs \cup {None}]
  /\ unread \in SUBSET Jobs

(* A worker process serves requests too, beside its loop.                  *)
Ready(p) == IF p \in Workers THEN "idle" ELSE "serve"

Init ==
  /\ dir = [j \in Jobs |-> "none"]
  /\ upload = [j \in Jobs |-> "new"]
  /\ pc = [p \in Procs |-> Ready(p)]
  /\ held = [p \in Procs |-> None]
  /\ cache = [p \in Procs |-> [j \in Jobs |-> "UNKNOWN"]]
  /\ file = [j \in Jobs |-> "UNKNOWN"]
  /\ readable = TRUE
  /\ faults = 0
  /\ deaths = 0
  /\ runs = [j \in Jobs |-> 0]
  /\ owner = [j \in Jobs |-> None]
  /\ unread = {}

-----------------------------------------------------------------------------
Goto(p, s) == pc' = [pc EXCEPT ![p] = s]

Fault == faults < MaxFaults /\ faults' = faults + 1

NoFault == UNCHANGED faults

(* Set: the dictionary of the process, then the whole dictionary over the  *)
(* file.                                                                   *)
Set(p, j, s) ==
  /\ cache' = [cache EXCEPT ![p][j] = s]
  /\ file' = cache'[p]
  /\ readable' = TRUE

(* Set raises in Save: the dictionary has changed, the file is as it was   *)
(* or cut short.                                                           *)
SetRaises(p, j, s) ==
  /\ Fault
  /\ cache' = [cache EXCEPT ![p][j] = s]
  /\ file' = file
  /\ readable' \in {readable, FALSE}

(* The process is gone; its job stays where it is, and so do the requests  *)
(* it was answering.                                                       *)
Down(p) ==
  /\ Goto(p, "down")
  /\ held' = [held EXCEPT ![p] = None]
  /\ owner' = [j \in Jobs |-> IF owner[j] = p THEN None ELSE owner[j]]
  /\ upload' = [j \in Jobs |-> IF p = Api /\ upload[j] = "recorded"
                               THEN "error" ELSE upload[j]]

-----------------------------------------------------------------------------
(* Fault: the status is set once more when the job is in the queue.        *)
RecordAgain(j) ==
  /\ upload[j] \in {"new", "accepted"}
  /\ pc[Api] # "down"
  /\ \/ NoFault /\ Set(Api, j, "PENDING")
                /\ upload' = [upload EXCEPT ![j] = IF @ = "new" THEN "recorded" ELSE "error"]
     \/ SetRaises(Api, j, "PENDING") /\ upload' = [upload EXCEPT ![j] = "error"]
  /\ UNCHANGED <<dir, pc, held, deaths, runs, owner, unread>>

(* UploadDocumentsAsync: the task is PENDING before its job exists.        *)
Record(j) ==
  /\ upload[j] = "new"
  /\ pc[Api] # "down"
  /\ \/ NoFault /\ Set(Api, j, "PENDING") /\ upload' = [upload EXCEPT ![j] = "recorded"]
     \/ SetRaises(Api, j, "PENDING") /\ upload' = [upload EXCEPT ![j] = "error"]
  /\ UNCHANGED <<dir, pc, held, deaths, runs, owner, unread>>

(* EnqueueAsync: a temporary file that no worker looks at, then a rename;  *)
(* only then is the task id given to the client.                           *)
Enqueue(j) ==
  /\ upload[j] = "recorded"
  /\ \/ NoFault /\ upload' = [upload EXCEPT ![j] = "accepted"]
                /\ dir' = [dir EXCEPT ![j] = "pending"]
     \/ Fault /\ upload' = [upload EXCEPT ![j] = "error"] /\ UNCHANGED dir
  /\ UNCHANGED <<pc, held, storeVars, deaths, runs, owner, unread>>

-----------------------------------------------------------------------------
(* Fault: the job is copied, not moved.                                    *)
ClaimCopies(p, j) ==
  /\ pc[p] = "idle"
  /\ dir[j] \in {"pending", "processing"}
  /\ dir' = [dir EXCEPT ![j] = "processing"]
  /\ held' = [held EXCEPT ![p] = j]
  /\ owner' = [owner EXCEPT ![j] = p]
  /\ Goto(p, "read")
  /\ UNCHANGED <<upload, storeVars, faults, deaths, runs, unread>>

(* TryClaimAsync: the rename succeeds for one worker; the others get an    *)
(* IOException and look at the next job.  The listing may be old, so the   *)
(* order of the claims is open.                                            *)
Claim(p, j) ==
  /\ pc[p] = "idle"
  /\ dir[j] = "pending"
  /\ dir' = [dir EXCEPT ![j] = "processing"]
  /\ held' = [held EXCEPT ![p] = j]
  /\ owner' = [owner EXCEPT ![j] = p]
  /\ Goto(p, "read")
  /\ UNCHANGED <<upload, storeVars, faults, deaths, runs, unread>>

(* Fault: a job that cannot be read is left in processing/.                *)
ReadFailsLeaves(p) ==
  /\ pc[p] = "read"
  /\ Fault
  /\ held' = [held EXCEPT ![p] = None]
  /\ Goto(p, "idle")
  /\ UNCHANGED <<dir, unread, upload, storeVars, deaths, runs, owner>>

Read(p) ==
  /\ pc[p] = "read"
  /\ Goto(p, "start")
  /\ UNCHANGED <<dir, upload, held, storeVars, faults, deaths, runs, owner, unread>>

(* The file cannot be read or parsed, or the host is stopping: the job     *)
(* goes to failed/ and nobody changes its status.                          *)
ReadFails(p) ==
  /\ pc[p] = "read"
  /\ Fault
  /\ dir' = [dir EXCEPT ![held[p]] = "failed"]
  /\ unread' = unread \cup {held[p]}
  /\ held' = [held EXCEPT ![p] = None]
  /\ Goto(p, "idle")
  /\ UNCHANGED <<upload, storeVars, deaths, runs, owner>>

(* IN_PROGRESS is set outside the try block.                               *)
Start(p) ==
  /\ pc[p] = "start"
  /\ Set(p, held[p], "IN_PROGRESS")
  /\ Goto(p, "ingest")
  /\ UNCHANGED <<dir, upload, held, faults, deaths, runs, owner, unread>>

(* An exception outside the try block ends the loop and stops the host.    *)
StartRaises(p) ==
  /\ pc[p] = "start"
  /\ SetRaises(p, held[p], "IN_PROGRESS")
  /\ Down(p)
  /\ UNCHANGED <<dir, deaths, runs, unread>>

(* ExecuteQueuedIngestionAsync returns or raises.                          *)
Ingest(p) ==
  /\ pc[p] = "ingest"
  /\ runs' = [runs EXCEPT ![held[p]] = @ + 1]
  /\ Goto(p, "finish") \/ Goto(p, "failing")
  /\ UNCHANGED <<dir, upload, held, storeVars, faults, deaths, owner, unread>>

(* Fault: the job is completed before its status is set.                   *)
FinishLate(p) ==
  /\ pc[p] = "finish"
  /\ Goto(p, "complete")
  /\ UNCHANGED <<dir, upload, held, storeVars, faults, deaths, runs, owner, unread>>

Finish(p) ==
  /\ pc[p] = "finish"
  /\ \/ NoFault /\ Set(p, held[p], "FINISHED") /\ Goto(p, "complete")
     \/ SetRaises(p, held[p], "FINISHED") /\ Goto(p, "failing")
  /\ UNCHANGED <<dir, upload, held, deaths, runs, owner, unread>>

Retire(p, to) ==
  /\ dir' = [dir EXCEPT ![held[p]] = to]
  /\ held' = [held EXCEPT ![p] = None]
  /\ Goto(p, "idle")

(* CompleteAsync; an exception is caught and makes the job FAILED.         *)
Complete(p) ==
  /\ pc[p] = "complete"
  /\ \/ NoFault /\ Retire(p, "completed")
     \/ Fault /\ Goto(p, "failing") /\ UNCHANGED <<dir, held>>
  /\ UNCHANGED <<upload, storeVars, deaths, runs, owner, unread>>

(* Fault: the handler of the exception goes back to the queue.             *)
FailingRequeues(p) ==
  /\ pc[p] = "failing"
  /\ Set(p, held[p], "FAILED")
  /\ Retire(p, "pending")
  /\ UNCHANGED <<upload, faults, deaths, runs, owner, unread>>

(* The catch block: FAILED, then FailAsync.                                *)
Failing(p) ==
  /\ pc[p] = "failing"
  /\ Set(p, held[p], "FAILED")
  /\ Goto(p, "fail")
  /\ UNCHANGED <<dir, upload, held, faults, deaths, runs, owner, unread>>

FailingRaises(p) ==
  /\ pc[p] = "failing"
  /\ SetRaises(p, held[p], "FAILED")
  /\ Down(p)
  /\ UNCHANGED <<dir, deaths, runs, unread>>

Fail(p) ==
  /\ pc[p] = "fail"
  /\ Retire(p, "failed")
  /\ UNCHANGED <<upload, storeVars, faults, deaths, runs, owner, unread>>

(* A rename that raises in a catch block stops the host too, before the    *)
(* move or, for the error text of FailAsync, after it.                     *)
RetireRaises(p) ==
  /\ pc[p] \in {"read", "fail"}
  /\ Fault
  /\ dir' \in {dir, IF pc[p] = "fail" THEN [dir EXCEPT ![held[p]] = "failed"] ELSE dir}
  /\ Down(p)
  /\ UNCHANGED <<storeVars, deaths, runs, unread>>

-----------------------------------------------------------------------------
(* A process may be killed while it writes the file of the task store.     *)
Saving(p) ==
  \/ pc[p] \in {"start", "finish", "failing"}
  \/ p = Api /\ \E j \in Jobs : upload[j] = "new"

Die(p) ==
  /\ pc[p] # "down"
  /\ deaths < MaxDeaths
  /\ deaths' = deaths + 1
  /\ readable' \in {readable, IF Saving(p) THEN FALSE ELSE readable}
  /\ Down(p)
  /\ UNCHANGED <<dir, cache, file, faults, runs, unread>>

(* A process starts: Load gives an empty dictionary when the file cannot   *)
(* be parsed.  The jobs in processing/ are not looked at.                  *)
Restart(p) ==
  /\ pc[p] = "down"
  /\ Goto(p, Ready(p))
  /\ cache' = [cache EXCEPT ![p] = IF readable THEN file ELSE [j \in Jobs |-> "UNKNOWN"]]
  /\ UNCHANGED <<dir, upload, held, file, readable, faults, deaths, runs, owner, unread>>

-----------------------------------------------------------------------------
(* A step of the worker loop that goes as it should.                       *)
Loop(p) ==
  \/ \E j \in Jobs : Claim(p, j)
  \/ Read(p) \/ Start(p) \/ Ingest(p) \/ Finish(p) \/ Complete(p) \/ Failing(p) \/ Fail(p)

Breaks(p) ==
  ReadFails(p) \/ StartRaises(p) \/ FailingRaises(p) \/ RetireRaises(p) \/ Die(p)

Next ==
  \/ \E j \in Jobs : Record(j) \/ Enqueue(j)
  \/ \E p \in Procs : Loop(p) \/ Breaks(p) \/ Restart(p)

Spec == Init /\ [][Next]_vars

(* The loop of a worker goes on as long as its process runs; no process    *)
(* has to be started again, and nothing has to fail.                       *)
FairSpec == Spec /\ \A p \in Workers : WF_vars(Loop(p))

-----------------------------------------------------------------------------
(* A job is ingested at most once, whatever fails or dies, and is in the   *)
(* hands of at most one worker, which finds its file in processing/.       *)
ExecutedOnce ==
  /\ \A j \in Jobs : runs[j] <= 1
  /\ \A p, q \in Procs : held[p] # None /\ held[p] = held[q] => p = q
  /\ \A p \in Procs : held[p] # None => dir[held[p]] = "processing"

(* While the worker that claimed a job lives, what it says of the job and  *)
(* the directory of the job agree: completed/ means FINISHED, failed/      *)
(* means FAILED unless the file could not be read, and nothing is FINISHED *)
(* before it was ingested.                                                 *)
AgreesWithDir ==
  \A j \in Jobs, p \in Procs :
    owner[j] = p =>
      /\ dir[j] = "completed" => cache[p][j] = "FINISHED"
      /\ dir[j] = "failed" => cache[p][j] = "FAILED" \/ j \in unread
      /\ cache[p][j] = "FINISHED" => runs[j] = 1 /\ dir[j] \in {"processing", "completed"}

Rank(s) ==
  CASE s = "UNKNOWN" -> 0 [] s = "PENDING" -> 1 [] s = "IN_PROGRESS" -> 2
    [] s = "FINISHED" -> 3 [] s = "FAILED" -> 4

(* In a process that keeps running, the state of a task never goes back:   *)
(* no PENDING of the request after the IN_PROGRESS of the worker.          *)
StatusForward ==
  [][\A p \in Procs, j \in Jobs :
       pc[p] # "down" => Rank(cache'[p][j]) >= Rank(cache[p][j])]_vars

(* A job in pending/ ends in completed/ or failed/, unless the worker that *)
(* claimed it dies, or no worker runs.                                     *)
Stranded(j) == dir[j] = "processing" /\ owner[j] = None

EveryJobEnds ==
  \A j \in Jobs :
    dir[j] = "pending" ~> \/ dir[j] \in {"completed", "failed"}
                         \/ Stranded(j)
                         \/ \A p \in Workers : pc[p] = "down"

(* The four directories are a queue whose jobs are taken once and never    *)
(* come back (WorkQueue).                                                  *)
Stage(j) ==
  CASE dir[j] = "none" -> "absent" [] dir[j] = "pending" -> "waiting"
    [] dir[j] = "processing" -> "taken" [] OTHER -> "ended"

Queue == INSTANCE WorkQueue WITH stage <- [j \in Jobs |-> Stage(j)], work <- runs

QueueSpec == Queue!Spec
=============================================================================
