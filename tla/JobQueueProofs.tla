--------------------------- MODULE JobQueueProofs ---------------------------
(* Proofs about the queue of the .NET ingestor, for every number of jobs,  *)
(* processes and faults.                                                   *)
EXTENDS JobQueue, TLAPS

-----------------------------------------------------------------------------
(* Typing                                                                  *)

LEMMA TypeInit == Init => TypeOK
  BY JobQueueAssumption DEF Init, TypeOK, Ready, Status

LEMMA SetTyped ==
  ASSUME TypeOK, NEW p \in Procs, NEW j \in Jobs, NEW s \in Status,
         Set(p, j, s) \/ SetRaises(p, j, s)
  PROVE  /\ cache' \in [Procs -> [Jobs -> Status]]
         /\ file' \in [Jobs -> Status]
         /\ readable' \in BOOLEAN
<1>1. cache' = [cache EXCEPT ![p][j] = s] /\ cache[p] \in [Jobs -> Status]
  BY DEF TypeOK, Set, SetRaises
<1>2. cache' = [cache EXCEPT ![p] = [cache[p] EXCEPT ![j] = s]]
  BY <1>1
<1>3. [cache[p] EXCEPT ![j] = s] \in [Jobs -> Status]
  BY <1>1
<1>4. cache' \in [Procs -> [Jobs -> Status]]
  BY <1>2, <1>3 DEF TypeOK
<1>5. CASE Set(p, j, s)
  <2>1. file' = cache'[p] /\ readable' = TRUE
    BY <1>5 DEF Set
  <2> QED
    BY <1>4, <2>1
<1>6. CASE SetRaises(p, j, s)
  <2>1. file' = file /\ readable' \in {readable, FALSE}
    BY <1>6 DEF SetRaises
  <2> QED
    BY <1>4, <2>1 DEF TypeOK
<1> QED
  BY <1>5, <1>6

LEMMA DownTyped ==
  ASSUME TypeOK, NEW p \in Procs, Down(p)
  PROVE  /\ pc' \in [Procs -> {"serve", "idle", "read", "start", "ingest", "finish",
                               "complete", "failing", "fail", "down"}]
         /\ held' \in [Procs -> Jobs \cup {None}]
         /\ owner' \in [Jobs -> Procs \cup {None}]
         /\ upload' \in [Jobs -> {"new", "recorded", "accepted", "error"}]
  BY DEF TypeOK, Down, Goto

LEMMA FaultTyped == TypeOK /\ (Fault \/ NoFault) => faults' \in 0..MaxFaults
  BY JobQueueAssumption DEF TypeOK, Fault, NoFault

(* A process past its claim has a job.                                     *)
Holding ==
  \A p \in Procs :
    /\ held[p] = None <=> pc[p] \in {"serve", "idle", "down"}
    /\ held[p] # None => dir[held[p]] = "processing" /\ owner[held[p]] = p

LEMMA HoldsJob ==
  ASSUME TypeOK, Holding, NEW p \in Procs, pc[p] \notin {"serve", "idle", "down"}
  PROVE  held[p] \in Jobs /\ held[p] # None
  BY DEF TypeOK, Holding

LEMMA TypeNext == TypeOK /\ Holding /\ [Next]_vars => TypeOK'
<1> SUFFICES ASSUME TypeOK, Holding, [Next]_vars PROVE TypeOK'
  OBVIOUS
<1>1. ASSUME NEW j \in Jobs, Record(j) PROVE TypeOK'
  <2>1. Set(Api, j, "PENDING") \/ SetRaises(Api, j, "PENDING")
    BY <1>1 DEF Record
  <2>2. faults' \in 0..MaxFaults
    BY <1>1, FaultTyped DEF Record, SetRaises
  <2>3. upload' \in [Jobs -> {"new", "recorded", "accepted", "error"}]
    BY <1>1 DEF Record, TypeOK
  <2>4. /\ cache' \in [Procs -> [Jobs -> Status]]
        /\ file' \in [Jobs -> Status]
        /\ readable' \in BOOLEAN
    BY <2>1, SetTyped, JobQueueAssumption DEF Status
  <2> QED
    BY <1>1, <2>2, <2>3, <2>4 DEF TypeOK, Record
<1>2. ASSUME NEW j \in Jobs, Enqueue(j) PROVE TypeOK'
  <2>1. faults' \in 0..MaxFaults
    BY <1>2, FaultTyped DEF Enqueue
  <2> QED
    BY <1>2, <2>1 DEF TypeOK, Enqueue, storeVars
<1>3. ASSUME NEW p \in Procs, NEW j \in Jobs, Claim(p, j) PROVE TypeOK'
  BY <1>3 DEF TypeOK, Claim, Goto, storeVars
<1>4. ASSUME NEW p \in Procs, Read(p) PROVE TypeOK'
  BY <1>4 DEF TypeOK, Read, Goto, storeVars
<1>5. ASSUME NEW p \in Procs, ReadFails(p) PROVE TypeOK'
  <2>1. faults' \in 0..MaxFaults
    BY <1>5, FaultTyped DEF ReadFails
  <2>2. held[p] \in Jobs
    BY <1>5, HoldsJob DEF ReadFails
  <2> QED
    BY <1>5, <2>1, <2>2 DEF TypeOK, ReadFails, Goto, storeVars
<1>6. ASSUME NEW p \in Procs, Start(p) PROVE TypeOK'
  <2>1. held[p] \in Jobs /\ Set(p, held[p], "IN_PROGRESS")
    BY <1>6, HoldsJob DEF Start
  <2>2. /\ cache' \in [Procs -> [Jobs -> Status]]
        /\ file' \in [Jobs -> Status]
        /\ readable' \in BOOLEAN
    BY <2>1, SetTyped DEF Status
  <2> QED
    BY <1>6, <2>2 DEF TypeOK, Start, Goto
<1>7. ASSUME NEW p \in Procs, StartRaises(p) PROVE TypeOK'
  <2>1. faults' \in 0..MaxFaults
    BY <1>7, FaultTyped DEF StartRaises, SetRaises
  <2>2. held[p] \in Jobs /\ SetRaises(p, held[p], "IN_PROGRESS")
    BY <1>7, HoldsJob DEF StartRaises
  <2>3. /\ cache' \in [Procs -> [Jobs -> Status]]
        /\ file' \in [Jobs -> Status]
        /\ readable' \in BOOLEAN
    BY <2>2, SetTyped DEF Status
  <2> QED
    BY <1>7, <2>1, <2>3, DownTyped DEF TypeOK, StartRaises
<1>8. ASSUME NEW p \in Procs, Ingest(p) PROVE TypeOK'
  <2>1. held[p] \in Jobs
    BY <1>8, HoldsJob DEF Ingest
  <2>2. runs' \in [Jobs -> Nat]
    BY <1>8, <2>1 DEF TypeOK, Ingest
  <2> QED
    BY <1>8, <2>2 DEF TypeOK, Ingest, Goto, storeVars
<1>9. ASSUME NEW p \in Procs, Finish(p) PROVE TypeOK'
  <2>1. faults' \in 0..MaxFaults
    BY <1>9, FaultTyped DEF Finish, SetRaises
  <2>2. pc' \in [Procs -> {"serve", "idle", "read", "start", "ingest", "finish",
                           "complete", "failing", "fail", "down"}]
    BY <1>9 DEF Finish, Goto, TypeOK
  <2>3. held[p] \in Jobs
    BY <1>9, HoldsJob DEF Finish
  <2>4. Set(p, held[p], "FINISHED") \/ SetRaises(p, held[p], "FINISHED")
    BY <1>9 DEF Finish
  <2>5. /\ cache' \in [Procs -> [Jobs -> Status]]
        /\ file' \in [Jobs -> Status]
        /\ readable' \in BOOLEAN
    BY <2>3, <2>4, SetTyped DEF Status
  <2> QED
    BY <1>9, <2>1, <2>2, <2>5 DEF TypeOK, Finish
<1>10. ASSUME NEW p \in Procs, Complete(p) PROVE TypeOK'
  <2>1. faults' \in 0..MaxFaults
    BY <1>10, FaultTyped DEF Complete
  <2>2. held[p] \in Jobs
    BY <1>10, HoldsJob DEF Complete
  <2> QED
    BY <1>10, <2>1, <2>2 DEF TypeOK, Complete, Retire, Goto, storeVars
<1>11. ASSUME NEW p \in Procs, Failing(p) PROVE TypeOK'
  <2>1. held[p] \in Jobs /\ Set(p, held[p], "FAILED")
    BY <1>11, HoldsJob DEF Failing
  <2>2. /\ cache' \in [Procs -> [Jobs -> Status]]
        /\ file' \in [Jobs -> Status]
        /\ readable' \in BOOLEAN
    BY <2>1, SetTyped DEF Status
  <2> QED
    BY <1>11, <2>2 DEF TypeOK, Failing, Goto
<1>12. ASSUME NEW p \in Procs, FailingRaises(p) PROVE TypeOK'
  <2>1. faults' \in 0..MaxFaults
    BY <1>12, FaultTyped DEF FailingRaises, SetRaises
  <2>2. held[p] \in Jobs /\ SetRaises(p, held[p], "FAILED")
    BY <1>12, HoldsJob DEF FailingRaises
  <2>3. /\ cache' \in [Procs -> [Jobs -> Status]]
        /\ file' \in [Jobs -> Status]
        /\ readable' \in BOOLEAN
    BY <2>2, SetTyped DEF Status
  <2> QED
    BY <1>12, <2>1, <2>3, DownTyped DEF TypeOK, FailingRaises
<1>13. ASSUME NEW p \in Procs, Fail(p) PROVE TypeOK'
  <2>1. held[p] \in Jobs
    BY <1>13, HoldsJob DEF Fail
  <2> QED
    BY <1>13, <2>1 DEF TypeOK, Fail, Retire, Goto, storeVars
<1>14. ASSUME NEW p \in Procs, RetireRaises(p) PROVE TypeOK'
  <2>1. dir' \in [Jobs -> {"none", "pending", "processing", "completed", "failed"}]
    BY <1>14, HoldsJob DEF RetireRaises, TypeOK
  <2>2. faults' \in 0..MaxFaults
    BY <1>14, FaultTyped DEF RetireRaises
  <2> QED
    BY <1>14, <2>1, <2>2, DownTyped DEF TypeOK, RetireRaises, storeVars
<1>15. ASSUME NEW p \in Procs, Die(p) PROVE TypeOK'
  <2>1. deaths' \in 0..MaxDeaths
    BY <1>15, JobQueueAssumption DEF Die, TypeOK
  <2> QED
    BY <1>15, <2>1, DownTyped DEF TypeOK, Die
<1>16. ASSUME NEW p \in Procs, Restart(p) PROVE TypeOK'
  BY <1>16 DEF TypeOK, Restart, Goto, Ready, Status
<1>17. CASE UNCHANGED vars
  BY <1>17 DEF TypeOK, vars
<1> QED
  BY <1>1, <1>2, <1>3, <1>4, <1>5, <1>6, <1>7, <1>8, <1>9, <1>10, <1>11, <1>12,
     <1>13, <1>14, <1>15, <1>16, <1>17 DEF Next, Loop, Breaks

-----------------------------------------------------------------------------
(* Who holds what                                                          *)

(* What a job has been through, by its directory and by its holder.        *)
Counted ==
  /\ \A j \in Jobs : dir[j] \in {"none", "pending"} =>
                      runs[j] = 0 /\ owner[j] = None /\ j \notin unread
  /\ \A j \in Jobs : upload[j] \in {"new", "recorded"} => dir[j] = "none"
  /\ \A j \in Jobs : runs[j] <= 1
  /\ \A j \in unread : runs[j] = 0 /\ dir[j] = "failed"
  /\ \A p \in Procs : held[p] # None =>
       runs[held[p]] = IF pc[p] \in {"read", "start", "ingest"} THEN 0 ELSE 1
  /\ \A j \in Jobs, p \in Procs : owner[j] = p =>
       pc[p] # "down" /\ (dir[j] = "processing" => held[p] = j)

(* What the processes say of a job: nothing before its request, nothing    *)
(* final before it was ingested, and the holder its own last word.         *)
Words ==
  /\ \A j \in Jobs : upload[j] = "new" =>
       file[j] = "UNKNOWN" /\ \A p \in Procs : cache[p][j] = "UNKNOWN"
  /\ \A j \in Jobs : runs[j] = 0 =>
       /\ file[j] \in {"UNKNOWN", "PENDING", "IN_PROGRESS"}
       /\ \A p \in Procs : cache[p][j] \in {"UNKNOWN", "PENDING", "IN_PROGRESS"}
  /\ \A p \in Procs : pc[p] \in {"ingest", "finish"} => cache[p][held[p]] = "IN_PROGRESS"
  /\ \A p \in Procs : pc[p] = "complete" => cache[p][held[p]] = "FINISHED"
  /\ \A p \in Procs : pc[p] = "fail" => cache[p][held[p]] = "FAILED"
  /\ \A j \in Jobs, p \in Procs : owner[j] = p =>
       /\ dir[j] = "completed" => cache[p][j] = "FINISHED"
       /\ dir[j] = "failed" => cache[p][j] = "FAILED" \/ j \in unread

LEMMA DownHeld ==
  ASSUME TypeOK, NEW p \in Procs, Down(p)
  PROVE  /\ pc'[p] = "down" /\ held'[p] = None
         /\ \A q \in Procs \ {p} : pc'[q] = pc[q] /\ held'[q] = held[q]
         /\ \A j \in Jobs : owner'[j] = IF owner[j] = p THEN None ELSE owner[j]
         /\ \A j \in Jobs : upload'[j] = upload[j] \/ upload'[j] = "error"
  BY DEF TypeOK, Down, Goto

(* A process that goes down lets go of its job and owns no job any more.   *)
LEMMA DownKeeps ==
  ASSUME TypeOK, Holding, Counted, NEW p \in Procs, Down(p), UNCHANGED <<dir, runs, unread>>
  PROVE  Holding' /\ Counted'
<1>1. Holding'
  <2>1. \A q \in Procs : held'[q] = None <=> pc'[q] \in {"serve", "idle", "down"}
    BY DownHeld DEF Holding
  <2>2. ASSUME NEW q \in Procs, held'[q] # None
        PROVE  dir'[held'[q]] = "processing" /\ owner'[held'[q]] = q
    <3>1. /\ q # p /\ held'[q] = held[q] /\ held[q] \in Jobs
          /\ owner[held[q]] = q /\ dir[held[q]] = "processing"
      BY <2>2, DownHeld DEF Holding, TypeOK
    <3> QED
      BY <3>1, DownHeld DEF Holding
  <2> QED
    BY <2>1, <2>2 DEF Holding
<1>2. Counted'
  <2> USE JobQueueAssumption
  <2>1. \A j \in Jobs : dir'[j] \in {"none", "pending"} =>
           runs'[j] = 0 /\ owner'[j] = None /\ j \notin unread'
    BY DownHeld DEF Counted
  <2>2. \A j \in Jobs : upload'[j] \in {"new", "recorded"} => dir'[j] = "none"
    BY DownHeld DEF Counted
  <2>3. \A q \in Procs : held'[q] # None =>
           runs'[held'[q]] = IF pc'[q] \in {"read", "start", "ingest"} THEN 0 ELSE 1
    BY DownHeld DEF Counted
  <2>4. \A j \in Jobs, q \in Procs : owner'[j] = q =>
           pc'[q] # "down" /\ (dir'[j] = "processing" => held'[q] = j)
    BY DownHeld DEF Counted
  <2> QED
    BY <2>1, <2>2, <2>3, <2>4 DEF Counted
<1> QED
  BY <1>1, <1>2

(* Every step keeps what is known of holders and counts.  The holder of a  *)
(* job is its owner, so there is only one.                                 *)
LEMMA HeldNext == TypeOK /\ Holding /\ Counted /\ [Next]_vars => Holding' /\ Counted'
<1> SUFFICES ASSUME TypeOK, Holding, Counted, [Next]_vars PROVE Holding' /\ Counted'
  OBVIOUS
<1> USE JobQueueAssumption DEF TypeOK, Holding, Counted
<1>1. ASSUME NEW j \in Jobs, Record(j) PROVE Holding' /\ Counted'
  BY <1>1, HoldsJob DEF Record, Goto
<1>2. ASSUME NEW j \in Jobs, Enqueue(j) PROVE Holding' /\ Counted'
  BY <1>2, HoldsJob DEF Enqueue, Goto
<1>3. ASSUME NEW p \in Procs, NEW j \in Jobs, Claim(p, j) PROVE Holding' /\ Counted'
  BY <1>3, HoldsJob DEF Claim, Goto
<1>4. ASSUME NEW p \in Procs, Read(p) PROVE Holding' /\ Counted'
  BY <1>4, HoldsJob DEF Read, Goto
<1>5. ASSUME NEW p \in Procs, ReadFails(p) PROVE Holding' /\ Counted'
  BY <1>5, HoldsJob DEF ReadFails, Goto
<1>6. ASSUME NEW p \in Procs, Start(p) PROVE Holding' /\ Counted'
  BY <1>6, HoldsJob DEF Start, Goto
<1>7. ASSUME NEW p \in Procs, StartRaises(p) PROVE Holding' /\ Counted'
  BY <1>7, DownKeeps DEF StartRaises, SetRaises
<1>8. ASSUME NEW p \in Procs, Ingest(p) PROVE Holding' /\ Counted'
  BY <1>8, HoldsJob DEF Ingest, Goto
<1>9. ASSUME NEW p \in Procs, Finish(p) PROVE Holding' /\ Counted'
  <2>1. held[p] # None /\ held[p] \in Jobs /\ UNCHANGED <<dir, upload, held, runs, owner, unread>>
    BY <1>9, HoldsJob DEF Finish
  <2>2. PICK s \in {"complete", "failing"} : pc' = [pc EXCEPT ![p] = s]
    BY <1>9 DEF Finish, Goto
  <2> QED
    BY <1>9, <2>1, <2>2 DEF Finish
<1>10. ASSUME NEW p \in Procs, Complete(p) PROVE Holding' /\ Counted'
  <2>1. held[p] # None /\ held[p] \in Jobs /\ UNCHANGED <<upload, runs, owner, unread>> /\ pc[p] = "complete"
    BY <1>10, HoldsJob DEF Complete
  <2>2. CASE Retire(p, "completed")
    BY <2>1, <2>2 DEF Retire, Goto
  <2>3. CASE Goto(p, "failing") /\ UNCHANGED <<dir, held>>
    BY <2>1, <2>3 DEF Goto
  <2> QED
    BY <1>10, <2>2, <2>3 DEF Complete
<1>11. ASSUME NEW p \in Procs, Failing(p) PROVE Holding' /\ Counted'
  BY <1>11, HoldsJob DEF Failing, Goto
<1>12. ASSUME NEW p \in Procs, FailingRaises(p) PROVE Holding' /\ Counted'
  BY <1>12, DownKeeps DEF FailingRaises, SetRaises
<1>13. ASSUME NEW p \in Procs, Fail(p) PROVE Holding' /\ Counted'
  BY <1>13, HoldsJob DEF Fail, Retire, Goto
<1>14. ASSUME NEW p \in Procs, RetireRaises(p) PROVE Holding' /\ Counted'
  BY <1>14, HoldsJob, DownHeld DEF RetireRaises, Goto
<1>15. ASSUME NEW p \in Procs, Die(p) PROVE Holding' /\ Counted'
  BY <1>15, DownKeeps DEF Die, SetRaises
<1>16. ASSUME NEW p \in Procs, Restart(p) PROVE Holding' /\ Counted'
  BY <1>16, HoldsJob DEF Restart, Ready, Goto
<1>17. CASE UNCHANGED vars
  BY <1>17 DEF vars
<1> QED
  BY <1>1, <1>2, <1>3, <1>4, <1>5, <1>6, <1>7, <1>8, <1>9, <1>10, <1>11, <1>12,
     <1>13, <1>14, <1>15, <1>16, <1>17 DEF Next, Loop, Breaks

-----------------------------------------------------------------------------
(* What is said of a job                                                   *)

(* A write to the task store changes one entry of one dictionary; each     *)
(* entry of the file is the old one or the one of the writer.              *)
LEMMA SetEffect ==
  ASSUME TypeOK, NEW p \in Procs, NEW j \in Jobs, NEW s \in Status,
         Set(p, j, s) \/ SetRaises(p, j, s)
  PROVE  /\ cache'[p][j] = s
         /\ \A q \in Procs, k \in Jobs : q # p \/ k # j => cache'[q][k] = cache[q][k]
         /\ \A k \in Jobs : file'[k] = file[k] \/ file'[k] = cache'[p][k]
<1>1. cache' = [cache EXCEPT ![p][j] = s] /\ cache \in [Procs -> [Jobs -> Status]]
  BY DEF TypeOK, Set, SetRaises
<1>2. file' = cache'[p] \/ file' = file
  BY DEF Set, SetRaises
<1> QED
  BY <1>1, <1>2

(* The steps of the holder p: its job gets the state s, and p goes on, or  *)
(* down.                                                                   *)
LEMMA HolderWrites ==
  ASSUME TypeOK, Holding, Counted, Words, NEW p \in Procs, NEW s \in Status, held[p] # None,
         Set(p, held[p], s) \/ SetRaises(p, held[p], s),
         s = "IN_PROGRESS" \/ runs[held[p]] = 1,
         \A q \in Procs \ {p} : pc'[q] = pc[q] /\ held'[q] = held[q],
         \/ pc'[p] = "down"
         \/ pc'[p] = "failing"
         \/ held'[p] = held[p] /\ (\/ pc'[p] = "ingest" /\ s = "IN_PROGRESS"
                                   \/ pc'[p] = "complete" /\ s = "FINISHED"
                                   \/ pc'[p] = "fail" /\ s = "FAILED"),
         \A j \in Jobs : owner'[j] = owner[j] \/ owner'[j] = None,
         \A j \in Jobs : upload'[j] = upload[j] \/ upload'[j] = "error",
         UNCHANGED <<dir, runs, unread>>
  PROVE  Words'
<1> DEFINE h == held[p]
<1>1. h \in Jobs /\ dir[h] = "processing" /\ upload[h] \notin {"new", "recorded"}
  BY DEF Holding, Counted, TypeOK
<1>2. /\ cache'[p][h] = s
      /\ \A q \in Procs, k \in Jobs : q # p \/ k # h => cache'[q][k] = cache[q][k]
      /\ \A k \in Jobs : file'[k] = file[k] \/ file'[k] = cache'[p][k]
  BY <1>1, SetEffect
<1>3. \A j \in Jobs : upload'[j] = "new" =>
        file'[j] = "UNKNOWN" /\ \A q \in Procs : cache'[q][j] = "UNKNOWN"
  BY <1>1, <1>2 DEF Words
<1>4. \A j \in Jobs : runs'[j] = 0 =>
        /\ file'[j] \in {"UNKNOWN", "PENDING", "IN_PROGRESS"}
        /\ \A q \in Procs : cache'[q][j] \in {"UNKNOWN", "PENDING", "IN_PROGRESS"}
  BY <1>1, <1>2 DEF Words
<1>5. \A q \in Procs \ {p} : pc[q] \in {"ingest", "finish", "complete", "fail"} => held[q] \in Jobs
  BY DEF Holding, TypeOK
<1>6. /\ \A q \in Procs : pc'[q] \in {"ingest", "finish"} => cache'[q][held'[q]] = "IN_PROGRESS"
      /\ \A q \in Procs : pc'[q] = "complete" => cache'[q][held'[q]] = "FINISHED"
      /\ \A q \in Procs : pc'[q] = "fail" => cache'[q][held'[q]] = "FAILED"
  BY <1>2, <1>5 DEF Words
<1>7. \A j \in Jobs, q \in Procs : owner'[j] = q =>
        /\ dir'[j] = "completed" => cache'[q][j] = "FINISHED"
        /\ dir'[j] = "failed" => cache'[q][j] = "FAILED" \/ j \in unread'
  BY <1>1, <1>2, JobQueueAssumption DEF Words
<1> QED
  BY <1>3, <1>4, <1>6, <1>7 DEF Words

(* The words keep their meaning in every step.                             *)
LEMMA WordsNext ==
  TypeOK /\ TypeOK' /\ Holding /\ Counted /\ Words /\ [Next]_vars => Words'
<1> SUFFICES ASSUME TypeOK, TypeOK', Holding, Counted, Words, [Next]_vars PROVE Words'
  OBVIOUS
<1> USE JobQueueAssumption
<1>1. ASSUME NEW j \in Jobs, Record(j) PROVE Words'
  <2>1. /\ UNCHANGED <<dir, pc, held, runs, owner, unread>>
        /\ upload[j] = "new" /\ dir[j] = "none" /\ upload' = [upload EXCEPT ![j] = upload'[j]]
        /\ upload'[j] # "new"
    BY <1>1 DEF Record, Counted, TypeOK
  <2>2. Set(Api, j, "PENDING") \/ SetRaises(Api, j, "PENDING")
    BY <1>1 DEF Record
  <2>3. /\ cache'[Api][j] = "PENDING"
        /\ \A q \in Procs, k \in Jobs : q # Api \/ k # j => cache'[q][k] = cache[q][k]
        /\ \A k \in Jobs : file'[k] = file[k] \/ file'[k] = cache'[Api][k]
    BY <2>2, SetEffect DEF Status
  <2>4. \A q \in Procs : held[q] # j
    BY <2>1 DEF Holding
  <2>5. \A k \in Jobs : upload'[k] = "new" =>
          file'[k] = "UNKNOWN" /\ \A q \in Procs : cache'[q][k] = "UNKNOWN"
    BY <2>1, <2>3 DEF Words, TypeOK
  <2>6. \A k \in Jobs : runs'[k] = 0 =>
        /\ file'[k] \in {"UNKNOWN", "PENDING", "IN_PROGRESS"}
        /\ \A q \in Procs : cache'[q][k] \in {"UNKNOWN", "PENDING", "IN_PROGRESS"}
    BY <2>1, <2>3 DEF Words
  <2>7. \A q \in Procs : pc[q] \in {"ingest", "finish", "complete", "fail"} => held[q] \in Jobs
    BY DEF Holding, TypeOK
  <2>8. /\ \A q \in Procs : pc'[q] \in {"ingest", "finish"} => cache'[q][held'[q]] = "IN_PROGRESS"
        /\ \A q \in Procs : pc'[q] = "complete" => cache'[q][held'[q]] = "FINISHED"
        /\ \A q \in Procs : pc'[q] = "fail" => cache'[q][held'[q]] = "FAILED"
    BY <2>1, <2>3, <2>4, <2>7 DEF Words
  <2>9. \A k \in Jobs, q \in Procs : owner'[k] = q =>
          /\ dir'[k] = "completed" => cache'[q][k] = "FINISHED"
          /\ dir'[k] = "failed" => cache'[q][k] = "FAILED" \/ k \in unread'
    BY <2>1, <2>3 DEF Words
  <2> QED
    BY <2>5, <2>6, <2>8, <2>9 DEF Words
<1>2. ASSUME NEW j \in Jobs, Enqueue(j) PROVE Words'
  BY <1>2 DEF Words, Enqueue, storeVars, Counted, TypeOK
<1>3. ASSUME NEW p \in Procs, NEW j \in Jobs, Claim(p, j) PROVE Words'
  BY <1>3 DEF Words, Claim, Goto, storeVars, Counted, TypeOK
<1>4. ASSUME NEW p \in Procs, Read(p) PROVE Words'
  BY <1>4 DEF Words, Read, Goto, storeVars, TypeOK
<1>5. ASSUME NEW p \in Procs, ReadFails(p) PROVE Words'
  BY <1>5, HoldsJob DEF Words, ReadFails, Goto, storeVars, TypeOK
<1>6. ASSUME NEW p \in Procs, Start(p) PROVE Words'
  <2>1. held[p] # None /\ Set(p, held[p], "IN_PROGRESS") /\ pc'[p] = "ingest"
    BY <1>6, HoldsJob DEF Start, Goto, TypeOK
  <2>2. \A q \in Procs \ {p} : pc'[q] = pc[q]
    BY <1>6 DEF Start, Goto, TypeOK
  <2> QED
    BY <1>6, <2>1, <2>2, HolderWrites DEF Start, Status
<1>7. ASSUME NEW p \in Procs, StartRaises(p) PROVE Words'
  <2>1. held[p] # None /\ SetRaises(p, held[p], "IN_PROGRESS") /\ Down(p)
    BY <1>7, HoldsJob DEF StartRaises
  <2> QED
    BY <1>7, <2>1, DownHeld, HolderWrites DEF StartRaises, Status
<1>8. ASSUME NEW p \in Procs, Ingest(p) PROVE Words'
  BY <1>8, HoldsJob DEF Words, Ingest, Goto, storeVars, TypeOK, Counted
<1>9. ASSUME NEW p \in Procs, Finish(p) PROVE Words'
  <2>1. /\ held[p] # None /\ runs[held[p]] = 1
        /\ Set(p, held[p], "FINISHED") \/ SetRaises(p, held[p], "FINISHED")
    BY <1>9, HoldsJob DEF Finish, Counted
  <2>2. \/ pc' = [pc EXCEPT ![p] = "complete"]
        \/ pc' = [pc EXCEPT ![p] = "failing"]
    BY <1>9 DEF Finish, Goto
  <2>3. /\ \A q \in Procs \ {p} : pc'[q] = pc[q]
        /\ pc'[p] \in {"complete", "failing"}
    BY <2>2 DEF TypeOK
  <2>4. UNCHANGED <<dir, upload, held, runs, owner, unread>>
    BY <1>9 DEF Finish
  <2> QED
    BY <2>1, <2>3, <2>4, HolderWrites DEF Status
<1>10. ASSUME NEW p \in Procs, Complete(p) PROVE Words'
  <2>1. /\ UNCHANGED <<upload, storeVars, runs, owner, unread>>
        /\ pc[p] = "complete" /\ held[p] \in Jobs /\ held[p] # None
    BY <1>10, HoldsJob DEF Complete
  <2>2. CASE Retire(p, "completed")
    BY <2>1, <2>2 DEF Words, Retire, Goto, storeVars, TypeOK, Holding
  <2>3. CASE Goto(p, "failing") /\ UNCHANGED <<dir, held>>
    BY <2>1, <2>3 DEF Words, Goto, storeVars, TypeOK
  <2> QED
    BY <1>10, <2>2, <2>3 DEF Complete
<1>11. ASSUME NEW p \in Procs, Failing(p) PROVE Words'
  <2>1. /\ held[p] # None /\ runs[held[p]] = 1 /\ pc'[p] = "fail"
        /\ Set(p, held[p], "FAILED")
    BY <1>11, HoldsJob DEF Failing, Counted, Goto, TypeOK
  <2>2. \A q \in Procs \ {p} : pc'[q] = pc[q]
    BY <1>11 DEF Failing, Goto, TypeOK
  <2> QED
    BY <1>11, <2>1, <2>2, HolderWrites DEF Failing, Status
<1>12. ASSUME NEW p \in Procs, FailingRaises(p) PROVE Words'
  <2>1. /\ held[p] # None /\ runs[held[p]] = 1
        /\ SetRaises(p, held[p], "FAILED") /\ Down(p)
    BY <1>12, HoldsJob DEF FailingRaises, Counted
  <2> QED
    BY <1>12, <2>1, DownHeld, HolderWrites DEF FailingRaises, Status
<1>13. ASSUME NEW p \in Procs, Fail(p) PROVE Words'
  BY <1>13, HoldsJob DEF Words, Fail, Retire, Goto, storeVars, TypeOK, Holding
<1>14. ASSUME NEW p \in Procs, RetireRaises(p) PROVE Words'
  <2>1. /\ UNCHANGED <<storeVars, runs, unread>> /\ held[p] \in Jobs /\ held[p] # None
        /\ dir' = dir \/ (pc[p] = "fail" /\ dir' = [dir EXCEPT ![held[p]] = "failed"])
    BY <1>14, HoldsJob DEF RetireRaises
  <2>2. \A j \in Jobs : dir'[j] = dir[j] \/ owner[j] = p
    BY <2>1 DEF Holding, TypeOK
  <2>3. Down(p)
    BY <1>14 DEF RetireRaises
  <2> QED
    BY <2>1, <2>2, <2>3, DownHeld DEF Words, storeVars
<1>15. ASSUME NEW p \in Procs, Die(p) PROVE Words'
  BY <1>15, DownHeld DEF Words, Die
<1>16. ASSUME NEW p \in Procs, Restart(p) PROVE Words'
  <2>1. \A j \in Jobs : cache'[p][j] \in {file[j], "UNKNOWN"}
    BY <1>16 DEF Restart, TypeOK
  <2>2. \A q \in Procs \ {p} : cache'[q] = cache[q] /\ pc'[q] = pc[q]
    BY <1>16 DEF Restart, Goto, TypeOK
  <2>3. \A j \in Jobs : owner[j] # p
    BY <1>16 DEF Counted, Restart
  <2>4. pc'[p] \in {"idle", "serve"}
    BY <1>16 DEF Restart, Goto, Ready, TypeOK
  <2> QED
    BY <1>16, <2>1, <2>2, <2>3, <2>4 DEF Words, Restart
<1>17. CASE UNCHANGED vars
  BY <1>17 DEF vars, Words
<1> QED
  BY <1>1, <1>2, <1>3, <1>4, <1>5, <1>6, <1>7, <1>8, <1>9, <1>10, <1>11, <1>12,
     <1>13, <1>14, <1>15, <1>16, <1>17 DEF Next, Loop, Breaks

-----------------------------------------------------------------------------
(* The inductive invariant.  Agreement of status and directory is about    *)
(* one process and one job, but to keep it one must know that no other     *)
(* process, and no file a restart may load, has a final word too early.    *)
IInv == TypeOK /\ Holding /\ Counted /\ Words

LEMMA IInvInit == Init => IInv
<1> SUFFICES ASSUME Init PROVE IInv
  OBVIOUS
<1>1. TypeOK
  BY TypeInit
<1>2. Holding /\ Counted
  BY JobQueueAssumption DEF Init, Holding, Counted, Ready
<1>3. Words
  BY JobQueueAssumption DEF Init, Words, Ready
<1> QED
  BY <1>1, <1>2, <1>3 DEF IInv

LEMMA IInvNext == IInv /\ [Next]_vars => IInv'
  BY TypeNext, HeldNext, WordsNext DEF IInv

LEMMA Invariance == Spec => []IInv
  BY IInvInit, IInvNext, PTL DEF Spec

(* Every variable keeps its type, whatever fails or dies.                  *)
THEOREM TypeCorrect == Spec => []TypeOK
<1>1. IInv => TypeOK
  BY DEF IInv
<1> QED
  BY <1>1, Invariance, PTL

(* A job is ingested at most once and held by at most one worker, for any  *)
(* number of workers, faults and deaths.                                   *)
THEOREM ExecutedAtMostOnce == Spec => []ExecutedOnce
<1>1. IInv => ExecutedOnce
  BY DEF IInv, ExecutedOnce, Holding, Counted, TypeOK
<1> QED
  BY <1>1, Invariance, PTL

(* The status a living worker gives its job agrees with the directory.     *)
THEOREM StatusAgrees == Spec => []AgreesWithDir
<1>1. IInv => AgreesWithDir
  <2> SUFFICES ASSUME IInv, NEW j \in Jobs, NEW p \in Procs, owner[j] = p
               PROVE  /\ dir[j] = "completed" => cache[p][j] = "FINISHED"
                      /\ dir[j] = "failed" => cache[p][j] = "FAILED" \/ j \in unread
                      /\ cache[p][j] = "FINISHED" =>
                           runs[j] = 1 /\ dir[j] \in {"processing", "completed"}
    BY DEF AgreesWithDir
  <2>1. /\ dir[j] = "completed" => cache[p][j] = "FINISHED"
        /\ dir[j] = "failed" => cache[p][j] = "FAILED" \/ j \in unread
    BY DEF IInv, Words
  <2>2. cache[p][j] = "FINISHED" => runs[j] = 1
    <3>1. runs[j] = 0 => cache[p][j] \in {"UNKNOWN", "PENDING", "IN_PROGRESS"}
      BY DEF IInv, Words
    <3>2. runs[j] \in Nat /\ runs[j] <= 1
      BY DEF IInv, Counted, TypeOK
    <3> QED
      BY <3>1, <3>2
  <2>3. dir[j] \notin {"none", "pending"}
    BY JobQueueAssumption DEF IInv, Counted
  <2>4. j \in unread => runs[j] = 0
    BY DEF IInv, Counted
  <2> QED
    BY <2>1, <2>2, <2>3, <2>4 DEF IInv, TypeOK
<1> QED
  BY <1>1, Invariance, PTL

-----------------------------------------------------------------------------
(* Steps                                                                   *)

Forward ==
  \A p \in Procs, j \in Jobs :
    pc[p] # "down" => Rank(cache'[p][j]) >= Rank(cache[p][j])

(* A write whose state ranks at least as high as the one it replaces.      *)
LEMMA SetForward ==
  ASSUME TypeOK, NEW p \in Procs, NEW j \in Jobs, NEW s \in Status,
         Set(p, j, s) \/ SetRaises(p, j, s), Rank(s) >= Rank(cache[p][j])
  PROVE  Forward
<1>1. \A q \in Procs, k \in Jobs : cache[q][k] \in Status
  BY DEF TypeOK
<1>2. \A x \in Status : Rank(x) \in Nat
  BY DEF Rank, Status
<1>3. /\ cache'[p][j] = s
      /\ \A q \in Procs, k \in Jobs : q # p \/ k # j => cache'[q][k] = cache[q][k]
  BY SetEffect
<1> SUFFICES ASSUME NEW q \in Procs, NEW k \in Jobs
             PROVE  Rank(cache'[q][k]) >= Rank(cache[q][k])
  BY DEF Forward
<1>4. CASE q = p /\ k = j
  BY <1>3, <1>4
<1>5. CASE q # p \/ k # j
  <2>1. cache'[q][k] = cache[q][k] /\ Rank(cache[q][k]) \in Nat
    BY <1>1, <1>2, <1>3, <1>5
  <2> QED
    BY <2>1
<1> QED
  BY <1>4, <1>5

LEMMA NoWordForward ==
  ASSUME TypeOK, \A p \in Procs : pc[p] # "down" => cache'[p] = cache[p]
  PROVE  Forward
<1>1. \A q \in Procs, k \in Jobs : cache[q][k] \in Status
  BY DEF TypeOK
<1>2. \A x \in Status : Rank(x) \in Nat
  BY DEF Rank, Status
<1>3. \A q \in Procs, k \in Jobs : Rank(cache[q][k]) \in Nat
  BY <1>1, <1>2
<1> QED
  BY <1>3 DEF Forward

(* In a process that runs, the state of a task only moves forward: a       *)
(* request is recorded once, before its job exists; IN_PROGRESS follows a  *)
(* claim, FINISHED follows IN_PROGRESS, and FAILED may follow anything.    *)
THEOREM StatusOnlyForward == Spec => StatusForward
<1>1. IInv /\ [Next]_vars => Forward
  <2> SUFFICES ASSUME IInv, [Next]_vars PROVE Forward
    OBVIOUS
  <2> USE DEF IInv
  <2>0. Rank("UNKNOWN") = 0 /\ Rank("PENDING") = 1 /\ Rank("IN_PROGRESS") = 2
        /\ Rank("FINISHED") = 3 /\ Rank("FAILED") = 4
    BY DEF Rank
  <2>1. ASSUME NEW j \in Jobs, Record(j) PROVE Forward
    <3>1. cache[Api][j] = "UNKNOWN" /\ (Set(Api, j, "PENDING") \/ SetRaises(Api, j, "PENDING"))
      BY <2>1, JobQueueAssumption DEF Record, Words
    <3>2. Rank("PENDING") >= Rank(cache[Api][j])
      BY <2>0, <3>1
    <3> QED
      BY <3>1, <3>2, SetForward, JobQueueAssumption DEF Status
  <2>2. ASSUME NEW p \in Procs, Start(p) \/ StartRaises(p) PROVE Forward
    <3>1. held[p] \in Jobs /\ (Set(p, held[p], "IN_PROGRESS") \/ SetRaises(p, held[p], "IN_PROGRESS"))
      BY <2>2, HoldsJob DEF Start, StartRaises
    <3>2. runs[held[p]] = 0
      BY <2>2, HoldsJob DEF Counted, Start, StartRaises
    <3>3. cache[p][held[p]] \in {"UNKNOWN", "PENDING", "IN_PROGRESS"}
      BY <3>1, <3>2 DEF Words
    <3>4. Rank("IN_PROGRESS") >= Rank(cache[p][held[p]])
      BY <2>0, <3>3
    <3> QED
      BY <3>1, <3>4, SetForward DEF Status
  <2>3. ASSUME NEW p \in Procs, Finish(p) PROVE Forward
    <3>1. held[p] \in Jobs /\ (Set(p, held[p], "FINISHED") \/ SetRaises(p, held[p], "FINISHED"))
      BY <2>3, HoldsJob DEF Finish
    <3>2. Rank("FINISHED") >= Rank(cache[p][held[p]])
      BY <2>0, <2>3 DEF Words, Finish
    <3> QED
      BY <3>1, <3>2, SetForward DEF Status
  <2>4. ASSUME NEW p \in Procs, Failing(p) \/ FailingRaises(p) PROVE Forward
    <3>1. held[p] \in Jobs /\ (Set(p, held[p], "FAILED") \/ SetRaises(p, held[p], "FAILED"))
      BY <2>4, HoldsJob DEF Failing, FailingRaises
    <3>2. cache[p][held[p]] \in Status
      BY <3>1 DEF TypeOK
    <3>3. Rank("FAILED") >= Rank(cache[p][held[p]])
      BY <2>0, <3>2 DEF Status
    <3> QED
      BY <3>1, <3>3, SetForward DEF Status
  <2>5. ASSUME NEW p \in Procs, Restart(p) PROVE Forward
    <3>1. \A q \in Procs : pc[q] # "down" => cache'[q] = cache[q]
      BY <2>5 DEF Restart, TypeOK
    <3> QED
      BY <3>1, NoWordForward
  <2>6. CASE UNCHANGED cache
    BY <2>6, NoWordForward
  <2>7. ASSUME NEW p \in Procs, NEW j \in Jobs, Claim(p, j) PROVE UNCHANGED cache
    BY <2>7 DEF Claim, storeVars
  <2>8. ASSUME NEW j \in Jobs, Enqueue(j) PROVE UNCHANGED cache
    BY <2>8 DEF Enqueue, storeVars
  <2>9. ASSUME NEW p \in Procs, Read(p) \/ ReadFails(p) \/ Ingest(p) \/ Complete(p)
               \/ Fail(p) \/ RetireRaises(p) \/ Die(p)
        PROVE  UNCHANGED cache
    BY <2>9 DEF Read, ReadFails, Ingest, Complete, Fail, RetireRaises, Die, storeVars
  <2>10. CASE UNCHANGED vars
    BY <2>6, <2>10 DEF vars
  <2> QED
    BY <2>1, <2>2, <2>3, <2>4, <2>5, <2>6, <2>7, <2>8, <2>9, <2>10 DEF Next, Loop, Breaks
<1>2. Forward => \A p \in Procs, j \in Jobs :
                   pc[p] # "down" => Rank(cache'[p][j]) >= Rank(cache[p][j])
  BY DEF Forward
<1> QED
  BY <1>1, <1>2, Invariance, PTL DEF Spec, StatusForward

-----------------------------------------------------------------------------
(* One job moves: what that is in the abstract queue.                      *)
LEMMA MoveMaps ==
  ASSUME TypeOK, NEW j \in Jobs, NEW to \in {"none", "pending", "processing", "completed", "failed"},
         dir' = [dir EXCEPT ![j] = to], runs' = runs,
         \/ dir[j] = "none" /\ to = "pending"
         \/ dir[j] = "pending" /\ to = "processing"
         \/ dir[j] = "processing" /\ to \in {"completed", "failed"}
  PROVE  Queue!Next
<1> DEFINE S == [k \in Jobs |-> Stage(k)]
<1>1. /\ dir[j] = "none" => Stage(j) = "absent" /\ Stage(j)' = "waiting"
      /\ dir[j] = "pending" => Stage(j) = "waiting" /\ Stage(j)' = "taken"
      /\ dir[j] = "processing" => Stage(j) = "taken" /\ Stage(j)' = "ended"
  BY DEF Stage, TypeOK
<1>2. \A k \in Jobs \ {j} : Stage(k)' = Stage(k)
  BY DEF Stage, TypeOK
<1>3. S' = [S EXCEPT ![j] = Stage(j)']
  BY <1>1, <1>2
<1>4. S[j] = Stage(j)
  OBVIOUS
<1> HIDE DEF S
<1>5. CASE dir[j] = "none"
  <2>1. Queue!Put(j)
    BY <1>1, <1>3, <1>4, <1>5 DEF Queue!Put, Queue!Move, S
  <2> QED
    BY <2>1 DEF Queue!Next
<1>6. CASE dir[j] = "pending"
  <2>1. Queue!Take(j)
    BY <1>1, <1>3, <1>4, <1>6 DEF Queue!Take, Queue!Move, S
  <2> QED
    BY <2>1 DEF Queue!Next
<1>7. CASE dir[j] = "processing"
  <2>1. Queue!End(j)
    BY <1>1, <1>3, <1>4, <1>7 DEF Queue!End, Queue!Move, S
  <2> QED
    BY <2>1 DEF Queue!Next
<1> QED
  BY <1>5, <1>6, <1>7

LEMMA StayMaps ==
  ASSUME dir' = dir, runs' = runs PROVE UNCHANGED Queue!vars
  BY DEF Queue!vars, Stage

(* The four directories and the renames between them implement the         *)
(* abstract queue: taken once, worked on at most once, never put back.     *)
THEOREM ImplementsQueue == Spec => QueueSpec
<1>1. Init => Queue!Init
  BY DEF Init, Queue!Init, Stage
<1>2. IInv /\ [Next]_vars => [Queue!Next]_(Queue!vars)
  <2> SUFFICES ASSUME IInv, [Next]_vars PROVE Queue!Next \/ UNCHANGED Queue!vars
    OBVIOUS
  <2>0. TypeOK /\ Holding /\ Counted
    BY DEF IInv
  <2>1. ASSUME NEW j \in Jobs, Record(j) PROVE UNCHANGED Queue!vars
    BY <2>1, StayMaps DEF Record
  <2>2. ASSUME NEW j \in Jobs, Enqueue(j) PROVE Queue!Next \/ UNCHANGED Queue!vars
    <3>1. dir[j] = "none" /\ runs' = runs
      BY <2>0, <2>2 DEF Enqueue, Counted
    <3>2. dir' = [dir EXCEPT ![j] = "pending"] \/ dir' = dir
      BY <2>2 DEF Enqueue
    <3> QED
      BY <2>0, <3>1, <3>2, MoveMaps, StayMaps
  <2>3. ASSUME NEW p \in Procs, NEW j \in Jobs, Claim(p, j) PROVE Queue!Next
    BY <2>0, <2>3, MoveMaps DEF Claim
  <2>4. ASSUME NEW p \in Procs, ReadFails(p) \/ Complete(p) \/ Fail(p) \/ RetireRaises(p)
        PROVE  Queue!Next \/ UNCHANGED Queue!vars
    <3>1. held[p] \in Jobs /\ dir[held[p]] = "processing" /\ runs' = runs
      BY <2>0, <2>4, HoldsJob DEF ReadFails, Complete, Fail, RetireRaises, Holding
    <3>2. \/ dir' = dir
          \/ dir' = [dir EXCEPT ![held[p]] = "completed"]
          \/ dir' = [dir EXCEPT ![held[p]] = "failed"]
      BY <2>4 DEF ReadFails, Complete, Fail, RetireRaises, Retire
    <3> QED
      BY <2>0, <3>1, <3>2, MoveMaps, StayMaps
  <2>5. ASSUME NEW p \in Procs, Ingest(p) PROVE Queue!Next
    <3>1. held[p] \in Jobs /\ dir[held[p]] = "processing" /\ runs[held[p]] = 0
      BY <2>0, <2>5, HoldsJob DEF Ingest, Holding, Counted
    <3>2. dir' = dir /\ runs' = [runs EXCEPT ![held[p]] = 1]
      BY <2>5, <3>1 DEF Ingest
    <3>3. Queue!Work(held[p])
      BY <3>1, <3>2 DEF Queue!Work, Stage
    <3> QED
      BY <3>1, <3>3 DEF Queue!Next
  <2>6. ASSUME NEW p \in Procs,
               Read(p) \/ Start(p) \/ StartRaises(p) \/ Finish(p) \/ Failing(p)
               \/ FailingRaises(p) \/ Die(p) \/ Restart(p)
        PROVE  UNCHANGED Queue!vars
    BY <2>6, StayMaps DEF Read, Start, StartRaises, Finish, Failing, FailingRaises, Die, Restart
  <2>7. CASE UNCHANGED vars
    BY <2>7, StayMaps DEF vars
  <2> QED
    BY <2>1, <2>2, <2>3, <2>4, <2>5, <2>6, <2>7 DEF Next, Loop, Breaks
<1> QED
  BY <1>1, <1>2, Invariance, PTL DEF Spec, QueueSpec, Queue!Spec
=============================================================================
