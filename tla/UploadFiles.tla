----------------------------- MODULE UploadFiles -----------------------------
(***************************************************************************)
(* Several uploads of one document.  The ingestor keeps an uploaded file   *)
(* at uploaded_files/<collection>/<file name>, without a directory for the *)
(* request, so POST and PATCH requests for the same document share a path: *)
(* each writes it, has NV-Ingest read it later, and removes it at its end. *)
(* A file is known by the request that wrote it.  All of it but NV-Ingest  *)
(* and the compaction runs on one asyncio loop; an action is the code      *)
(* between two suspensions.  IngestTask has the task of one upload in full. *)
(***************************************************************************)
EXTENDS FiniteSets

CONSTANTS
  Requests,   \* requests for one document of one collection
  NoFile      \* nothing at the path

ASSUME FilesAssumption == NoFile \notin Requests

VARIABLES
  path,        \* the request whose file is at the shared path
  at,          \* where each request stands
  read,        \* the file NV-Ingest read for it
  collection,  \* the copies in the collection: by which request, of which file
  overlap      \* history: pairs of requests that were under way together

filesVars == <<path, at, read, collection, overlap>>

Ended == {"completed", "incomplete", "missing", "rejected", "failed", "error"}

Copies == [by : Requests, file : Requests]

FilesTypeOK ==
  /\ path \in Requests \cup {NoFile}
  /\ at \in [Requests -> {"idle", "compacting", "resubmitted", "submitted",
                          "extracting", "read", "unread", "stored"} \cup Ended]
  /\ read \in [Requests -> Requests \cup {NoFile}]
  /\ collection \in SUBSET Copies
  /\ overlap \in SUBSET (Requests \X Requests)

FilesInit ==
  /\ path = NoFile
  /\ at = [r \in Requests |-> "idle"]
  /\ read = [r \in Requests |-> NoFile]
  /\ collection = {}
  /\ overlap = {}

-----------------------------------------------------------------------------
Goto(r, s) == at' = [at EXCEPT ![r] = s]

(* History: r has arrived while the requests under way are.                *)
Meet(r) ==
  LET underWay == {q \in Requests : at[q] \notin Ended \cup {"idle"}}
  IN  overlap' = overlap \cup (underWay \X {r}) \cup ({r} \X underWay)

(* Fault: a file that is there already is not written again.               *)
WriteFileOnce(r) == path' = IF path = NoFile THEN r ELSE path

(* process_file_paths: "wb" at the path of the document.                   *)
WriteFile(r) == path' = r

(* POST /documents: the file, and a background task, unless the vector     *)
(* store raises before that.                                               *)
Post(r) ==
  /\ at[r] = "idle"
  /\ Goto(r, "submitted") \/ Goto(r, "error")
  /\ WriteFile(r)
  /\ Meet(r)
  /\ UNCHANGED <<read, collection>>

(* PATCH /documents: the file, then the document is deleted.  If there was *)
(* one, a snapshot of the file is taken, which is still the file of r, and *)
(* the collection compacted; if not, or if it cannot be deleted, the       *)
(* upload goes on like a POST.                                             *)
Patch(r) ==
  /\ at[r] = "idle"
  /\ WriteFile(r)
  /\ Meet(r)
  /\ \/ collection # {} /\ collection' = {} /\ Goto(r, "compacting")
     \/ UNCHANGED collection /\ (Goto(r, "submitted") \/ Goto(r, "error"))
  /\ UNCHANGED read

(* The compaction is over: a file removed meanwhile comes back from the    *)
(* snapshot, and the upload is submitted.                                  *)
Compacted(r) ==
  /\ at[r] = "compacting"
  /\ path' = IF path = NoFile THEN r ELSE path
  /\ Goto(r, "resubmitted")
  /\ UNCHANGED <<read, collection, overlap>>

(* The vector store raises before the compaction or after it: the answer   *)
(* is an error, and the document is gone.                                  *)
PatchFails(r) ==
  /\ at[r] = "compacting"
  /\ path' \in {path, IF path = NoFile THEN r ELSE path}
  /\ Goto(r, "error")
  /\ UNCHANGED <<read, collection, overlap>>

(* Fault: the documents in the collection are not looked at.               *)
ValidateUnchecked(r) ==
  /\ at[r] \in {"submitted", "resubmitted"}
  /\ Goto(r, IF path = NoFile THEN "missing" ELSE "extracting")
  /\ UNCHANGED <<path, read, collection, overlap>>

(* Fault: a file that is missing is waited for.                            *)
ValidateWaits(r) ==
  /\ at[r] \in {"submitted", "resubmitted"}
  /\ path # NoFile
  /\ Goto(r, IF collection # {} THEN "rejected" ELSE "extracting")
  /\ UNCHANGED <<path, read, collection, overlap>>

(* The task validates its file.  One failure of one file rejects the       *)
(* upload; a missing file has two, so the task ends FINISHED without it.   *)
Validate(r) ==
  /\ at[r] \in {"submitted", "resubmitted"}
  /\ Goto(r, IF path = NoFile THEN "missing"
             ELSE IF collection # {} THEN "rejected" ELSE "extracting")
  /\ UNCHANGED <<path, read, collection, overlap>>

-----------------------------------------------------------------------------
(* NV-Ingest reads what is at the path.                                    *)
Read(r) ==
  /\ at[r] = "extracting"
  /\ read' = [read EXCEPT ![r] = path]
  /\ Goto(r, IF path = NoFile THEN "unread" ELSE "read")
  /\ UNCHANGED <<path, collection, overlap>>

Store(r) ==
  /\ at[r] = "read"
  /\ collection' = collection \cup {[by |-> r, file |-> read[r]]}
  /\ Goto(r, "stored")
  /\ UNCHANGED <<path, read, overlap>>

-----------------------------------------------------------------------------
(* The file at the path is removed, whosever it is.                        *)
CleanUp == path' = NoFile

(* NV-Ingest gave a failure: FINISHED, with a failed document.             *)
FinishFailure(r) ==
  /\ at[r] \in {"read", "unread"}
  /\ Goto(r, "incomplete")
  /\ CleanUp
  /\ UNCHANGED <<read, collection, overlap>>

(* NV-Ingest gave a result.  The document is looked up by its name; its    *)
(* size is taken from the file, and the task fails if the file is gone.    *)
FinishResult(r) ==
  /\ at[r] \in {"read", "stored"}
  /\ \/ collection = {} /\ Goto(r, "incomplete") /\ CleanUp
     \/ collection # {} /\ path # NoFile /\ Goto(r, "completed") /\ CleanUp
     \/ collection # {} /\ path = NoFile /\ Goto(r, "failed") /\ UNCHANGED path
  /\ UNCHANGED <<read, collection, overlap>>

(* NV-Ingest or the vector store raises: the task fails and leaves the     *)
(* file where it is.                                                       *)
Raise(r) ==
  /\ at[r] \in {"submitted", "resubmitted", "read", "unread", "stored"}
  /\ Goto(r, "failed")
  /\ UNCHANGED <<path, read, collection, overlap>>

-----------------------------------------------------------------------------
Arrive(r) == Post(r) \/ Patch(r)

Advance(r) ==
  \/ Compacted(r) \/ Validate(r)
  \/ Read(r) \/ Store(r)
  \/ FinishFailure(r) \/ FinishResult(r)

FilesNext == \E r \in Requests : Arrive(r) \/ Advance(r) \/ PatchFails(r) \/ Raise(r)

FilesSpec == FilesInit /\ [][FilesNext]_filesVars

(* The loop runs what is ready, the compaction has a deadline, NV-Ingest   *)
(* ends its jobs; no request has to arrive and nothing has to raise.       *)
FilesFairSpec == FilesSpec /\ \A r \in Requests : WF_filesVars(Advance(r))

-----------------------------------------------------------------------------
(* Two copies of the document are in the collection only if the requests   *)
(* that stored them were under way together: a POST after the first is     *)
(* rejected by __run_background_ingest_task, a PATCH deletes it.           *)
CopiesOnlyByRace ==
  \A c, d \in collection : c.by # d.by => <<c.by, d.by>> \in overlap

(* A request that met no other one and completes leaves exactly its own    *)
(* file in the collection, whatever failed uploads before it left on the   *)
(* disk or in the collection.                                              *)
AloneGetsOwn ==
  [][\A r \in Requests :
       (/\ at[r] # "completed" /\ at'[r] = "completed"
        /\ \A q \in Requests : <<q, r>> \notin overlap)
       => collection' = {[by |-> r, file |-> r]}]_filesVars

(* What NV-Ingest reads for a request was uploaded by it or by a request   *)
(* that was under way with it: neither a file that a failed upload left at *)
(* the shared path nor one that a PATCH restores is older than that.       *)
NothingOlderRead ==
  \A r \in Requests : read[r] \in {NoFile, r} \/ <<read[r], r>> \in overlap

(* Every request gets a verdict although others take away its file.        *)
RequestsEnd == \A r \in Requests : at[r] # "idle" ~> at[r] \in Ended
=============================================================================
