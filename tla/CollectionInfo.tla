--------------------------- MODULE CollectionInfo ---------------------------
(***************************************************************************)
(* What the vector store knows about one collection besides its chunks:    *)
(* the metrics entry (number_of_files and the like, info_type "collection")*)
(* and the catalog entry (description, tags, ...) in the table             *)
(* document_info.  The server aggregates, deletes and inserts with three   *)
(* separate calls, several servers may do so at once, and Elasticsearch    *)
(* shows a search only what it has refreshed.  LanceDB, which serves the   *)
(* NRL ingestion only, gets no metrics from an upload and has its delete   *)
(* errors swallowed.                                                       *)
(*                                                                         *)
(* The calls of one request follow each other without an await, so one     *)
(* server interleaves with itself only while NV-Ingest works.  The entries *)
(* of single documents and the metadata schema are written like the        *)
(* catalog entry and are left out: any documents may have an entry.  Of    *)
(* the metrics only number_of_files is kept.                               *)
(***************************************************************************)
EXTENDS Naturals, FiniteSets

CONSTANTS
  Requests,   \* the requests, an upload with its ingestion task
  Servers,    \* ingestor processes
  ServerOf,   \* the process a request runs in
  Docs,       \* documents
  Pdfs,       \* those that are PDF files
  Fields,     \* fields of the catalog that PATCH may set
  Backends,   \* "milvus", "elastic", "lancedb"
  Splits,     \* TRUE: pdf_extract_method is set
  BypassMetadataThreshold  \* more documents are not read from the collection

ASSUME InfoAssumption ==
  /\ ServerOf \in [Requests -> Servers]
  /\ IsFiniteSet(Docs)
  /\ Pdfs \subseteq Docs
  /\ Backends \subseteq {"milvus", "elastic", "lancedb"}
  /\ Splits \subseteq BOOLEAN
  /\ BypassMetadataThreshold \in Nat

VARIABLES
  backend,  \* vector_store.name
  split,    \* nv_ingest.pdf_extract_method is not None
  exists,   \* check_collection_exists
  docs,     \* documents with chunks in the collection
  live,     \* entries of the table that are inserted and not deleted
  snap,     \* what a search and a delete by query see of them
  count,    \* entries inserted so far, the _seq_no of the last one
  op,       \* what each request is doing
  last,     \* history: the number of the last entry inserted for a key
  want,     \* history: the catalog fields that were set
  sound     \* history: TRUE while nothing has spoiled the entry of a key

setting == <<backend, split>>
table == <<live, snap, count, last>>
vars == <<setting, exists, docs, table, op, want, sound>>

Keys == {"collection", "catalog"}

Entries == [no: Nat, by: Servers, files: Nat, fields: SUBSET Fields]

Phases == {"idle", "ingest", "written", "create", "get", "aggregate", "count",
           "remove", "insert", "purge", "done"}

(* keys: the entries the request writes; key: the one it writes now.       *)
Ops == [at: Phases, key: Keys, keys: SUBSET Keys, files: Nat,
        fields: SUBSET Fields, docs: SUBSET Docs,
        recount: BOOLEAN,   \* the count comes from the documents themselves
        alone: BOOLEAN,     \* no other request writes one of the keys
        right: BOOLEAN]     \* history: it has read the last entry

TypeOK ==
  /\ backend \in Backends
  /\ split \in Splits
  /\ exists \in BOOLEAN
  /\ docs \in SUBSET Docs
  /\ live \in [Keys -> SUBSET Entries]
  /\ snap \in [Keys -> SUBSET Entries]
  /\ count \in Nat
  /\ op \in [Requests -> Ops]
  /\ last \in [Keys -> Nat]
  /\ want \in SUBSET Fields
  /\ sound \in [Keys -> BOOLEAN]

Fresh == [at |-> "idle", key |-> "collection", keys |-> {}, files |-> 0,
          fields |-> {}, docs |-> {}, recount |-> FALSE, alone |-> TRUE,
          right |-> TRUE]

Done == [Fresh EXCEPT !.at = "done"]

Init ==
  /\ backend \in Backends
  /\ split \in Splits
  /\ exists = FALSE
  /\ docs = {}
  /\ live = [k \in Keys |-> {}]
  /\ snap = [k \in Keys |-> {}]
  /\ count = 0
  /\ op = [r \in Requests |-> Fresh]
  /\ last = [k \in Keys |-> 0]
  /\ want = {}
  /\ sound = [k \in Keys |-> TRUE]

-----------------------------------------------------------------------------
(* A request has the event loop of its server to itself until it awaits.   *)
Awaits(r) == op[r].at \in {"idle", "ingest", "written", "done"}

HasLoop(r) == \A q \in Requests \ {r} : ServerOf[q] = ServerOf[r] => Awaits(q)

(* The request begins to write the entries of ks.  It and the requests     *)
(* that write one of them already are not alone any more.                  *)
Clash(r, ks) == {q \in Requests \ {r} : op[q].keys \cap ks # {}}

Begins(r, ks, o) ==
  /\ op[r].at = "idle"
  /\ HasLoop(r)
  /\ op' = [q \in Requests |->
       IF q = r THEN [o EXCEPT !.keys = ks, !.alone = (Clash(r, ks) = {})]
       ELSE IF q \in Clash(r, ks) THEN [op[q] EXCEPT !.alone = FALSE]
       ELSE op[q]]

Goes(r, o) == op' = [op EXCEPT ![r] = o]

(* The newest entry; Elasticsearch is asked for the highest _seq_no.       *)
Newest(es) == {e \in es : \A f \in es : f.no <= e.no}

(* The entry that get_document_info returns; the others keep no order.     *)
Shown(k) == IF backend = "elastic" THEN Newest(snap[k]) ELSE snap[k]

(* A read of the table that fails is one without result.                   *)
ReadMayFail == backend # "milvus"

(* An entry is added next to others, and nothing says which is the newer.  *)
Doubles(k) == backend # "elastic" /\ live[k] # {}

(* Milvus has no delete before the insert of an entry of the catalog.      *)
AddPhase(k) == IF backend = "milvus" /\ k = "catalog" THEN "insert" ELSE "remove"

-----------------------------------------------------------------------------
(* POST /collection, where the collection does not exist yet.              *)
Create(r) ==
  /\ ~exists
  /\ Begins(r, {"catalog"}, [Fresh EXCEPT !.at = "create"])
  /\ UNCHANGED <<setting, exists, docs, table, want, sound>>

(* POST /collections: a collection without an entry.                       *)
CreateBare(r) ==
  /\ op[r].at = "idle"
  /\ HasLoop(r)
  /\ exists' = TRUE
  /\ Goes(r, Done)
  /\ UNCHANGED <<setting, docs, table, want, sound>>

(* create_collection of the vector store leaves a collection that is there. *)
CreateCollection == exists' = TRUE

(* vdb_op.create_collection, in the vector store.                          *)
Created(r) ==
  /\ op[r].at = "create"
  /\ CreateCollection
  /\ Goes(r, [op[r] EXCEPT !.at = AddPhase("catalog"), !.key = "catalog"])
  /\ UNCHANGED <<setting, docs, table, want, sound>>

(* PATCH /collections/.../metadata.                                        *)
Patch(r) ==
  /\ exists
  /\ \E f \in Fields :
       Begins(r, {"catalog"}, [Fresh EXCEPT !.at = "get", !.key = "catalog",
                                           !.fields = {f}])
  /\ UNCHANGED <<setting, exists, docs, table, want, sound>>

(* The fields of the request replace those of the entry.                   *)
Merged(fields, es) == fields \cup UNION {e.fields : e \in es}

(* get_catalog_metadata; a read that fails counts as one without result.   *)
Get(r) ==
  /\ op[r].at = "get"
  /\ \E es \in SUBSET Shown("catalog") :
       /\ Cardinality(es) <= 1
       /\ Goes(r, [op[r] EXCEPT
            !.at = AddPhase("catalog"),
            !.fields = Merged(@, es),
            !.right = (es = Newest(live["catalog"]))])
  /\ UNCHANGED <<setting, exists, docs, table, want, sound>>

-----------------------------------------------------------------------------
(* POST /documents with new files; a missing collection is created first.  *)
Upload(r) ==
  /\ \E ds \in (SUBSET (Docs \ docs)) \ {{}} :
       IF exists
       THEN Begins(r, {"collection"}, [Fresh EXCEPT !.at = "ingest", !.docs = ds])
       ELSE Begins(r, Keys, [Fresh EXCEPT !.at = "create", !.docs = ds])
  /\ UNCHANGED <<setting, exists, docs, table, want, sound>>

(* Chunks are appended to the collection, created if it has been dropped.  *)
WriteToIndex(ds) ==
  /\ docs' = docs \cup ds
  /\ exists' = TRUE

(* NV-Ingest, or NRL, has the chunks of the files it can read.             *)
Write(r) ==
  /\ op[r].at = "ingest"
  /\ \E ds \in SUBSET op[r].docs :
       /\ WriteToIndex(ds)
       /\ Goes(r, [op[r] EXCEPT !.at = "written", !.docs = ds])
  /\ UNCHANGED <<setting, table, want, sound>>

(* _log_result_info: of files that are split into PDF and other files only *)
(* the others are counted.                                                 *)
Counted(ds) == IF split THEN ds \ Pdfs ELSE ds

Report(r) ==
  /\ op[r].at = "written"
  /\ backend # "lancedb"
  /\ HasLoop(r)
  /\ Goes(r, [op[r] EXCEPT !.at = "aggregate", !.key = "collection",
                           !.files = Cardinality(Counted(op[r].docs)),
                           !.right = (Counted(op[r].docs) = op[r].docs),
                           !.docs = {}])
  /\ UNCHANGED <<setting, exists, docs, table, want, sound>>

(* The NRL ingestion returns and has not written any metrics.              *)
Unreported(r) ==
  /\ op[r].at = "written"
  /\ backend = "lancedb"
  /\ sound' = [sound EXCEPT !["collection"] = @ /\ op[r].docs = {}]
  /\ Goes(r, Done)
  /\ UNCHANGED <<setting, exists, docs, table, want>>

(* Fault: the counts of the batch replace those of the collection.         *)
AggregateAnew(r) ==
  /\ op[r].at = "aggregate"
  /\ Goes(r, [op[r] EXCEPT !.at = "remove"])
  /\ UNCHANGED <<setting, exists, docs, table, want, sound>>

(* perform_document_info_aggregation                                       *)
Aggregated(files, e) == files + e.files

(* What is added is right: the last counts to new ones, but none to those  *)
(* of all documents.                                                       *)
AddsRight(r, es) ==
  IF op[r].recount THEN \A e \in es : e.files = 0
  ELSE es = Newest(live["collection"])

(* _get_aggregated_document_info: the counts so far and the new ones.  If  *)
(* the read fails, the new ones alone.                                     *)
Aggregate(r) ==
  /\ op[r].at = "aggregate"
  /\ \/ \E e \in Shown("collection") :
          Goes(r, [op[r] EXCEPT !.at = "remove", !.files = Aggregated(@, e),
                     !.right = @ /\ AddsRight(r, {e})])
     \/ /\ Shown("collection") = {} \/ ReadMayFail
        /\ Goes(r, [op[r] EXCEPT !.at = "remove",
                      !.right = @ /\ AddsRight(r, {})])
  /\ UNCHANGED <<setting, exists, docs, table, want, sound>>

(* The request goes on where Elasticsearch fails to delete a file, and     *)
(* where LanceDB fails to open the collection, whatever the files.         *)
CountsAsDeleted(gone) ==
  gone # {} \/ (backend = "elastic" /\ docs # {}) \/ backend = "lancedb"

(* DELETE /documents with files that are there.                            *)
Delete(r) ==
  /\ exists
  /\ \E gone \in SUBSET docs :
       /\ CountsAsDeleted(gone)
       /\ docs' = docs \ gone
  /\ Begins(r, {"collection"}, [Fresh EXCEPT !.at = "count", !.recount = TRUE])
  /\ UNCHANGED <<setting, exists, table, want, sound>>

(* get_documents.  Milvus lists none where its iteration fails, and where  *)
(* more documents than the threshold have an entry of their own it lists   *)
(* the entries.  LanceDB lists none where it fails to open the collection. *)
Listings ==
  {ds \in SUBSET Docs :
     \/ ds = docs
     \/ ds = {} /\ backend \in {"milvus", "lancedb"}
     \/ Cardinality(ds) > BypassMetadataThreshold /\ backend = "milvus"}

(* The metrics are computed again from the documents that are listed.      *)
(* Milvus and Elasticsearch store them as they are, LanceDB adds them to   *)
(* those it has.                                                           *)
Recount(r) ==
  /\ op[r].at = "count"
  /\ \E ds \in Listings :
       Goes(r, [op[r] EXCEPT
         !.at = IF backend = "lancedb" THEN "aggregate" ELSE "remove",
         !.files = Cardinality(ds),
         !.right = (ds = docs)])
  /\ UNCHANGED <<setting, exists, docs, table, want, sound>>

-----------------------------------------------------------------------------
(* Fault: the delete of Elasticsearch takes the entry that was read.       *)
RemoveNewest(r) ==
  /\ op[r].at = "remove"
  /\ live' = [live EXCEPT ![op[r].key] = @ \ Newest(snap[op[r].key])]
  /\ snap' = IF backend # "elastic" THEN live' ELSE snap
  /\ Goes(r, [op[r] EXCEPT !.at = "insert"])
  /\ UNCHANGED <<setting, exists, docs, count, last, want, sound>>

(* A delete of LanceDB that fails is logged, and the insert follows.       *)
RemoveMayFail == backend = "lancedb"

(* The delete of add_document_info, by a query that sees the snapshot.     *)
Remove(r) ==
  /\ op[r].at = "remove"
  /\ \/ live' = [live EXCEPT ![op[r].key] = @ \ snap[op[r].key]]
     \/ RemoveMayFail /\ live' = live
  /\ snap' = IF backend # "elastic" THEN live' ELSE snap
  /\ Goes(r, [op[r] EXCEPT !.at = "insert"])
  /\ UNCHANGED <<setting, exists, docs, count, last, want, sound>>

(* The insert of add_document_info.  DELETE /documents has Elasticsearch   *)
(* refresh the table; an upload that has created the collection goes on.   *)
Insert(r) ==
  LET k == op[r].key
      e == [no |-> count + 1, by |-> ServerOf[r], files |-> op[r].files,
            fields |-> op[r].fields]
  IN
  /\ op[r].at = "insert"
  /\ count' = count + 1
  /\ live' = [live EXCEPT ![k] = @ \cup {e}]
  /\ snap' = IF backend # "elastic" \/ op[r].recount THEN live' ELSE snap
  /\ last' = [last EXCEPT ![k] = count + 1]
  /\ want' = IF k = "catalog" THEN want \cup op[r].fields ELSE want
  /\ sound' = [sound EXCEPT ![k] =
       op[r].alone /\ op[r].right /\ ~Doubles(k) /\ (op[r].recount \/ @)]
  /\ Goes(r, IF op[r].docs = {} THEN Done
             ELSE [op[r] EXCEPT !.at = "ingest", !.keys = {"collection"}])
  /\ UNCHANGED <<setting, exists, docs>>

-----------------------------------------------------------------------------
(* delete_collections of the vector store, where the collection is there.  *)
DropCollection ==
  /\ exists
  /\ exists' = FALSE
  /\ docs' = {}

(* DELETE /collections: first the collection, then its entries.            *)
Drop(r) ==
  /\ DropCollection
  /\ Begins(r, Keys, [Fresh EXCEPT !.at = "purge"])
  /\ UNCHANGED <<setting, table, want, sound>>

(* If Elasticsearch or LanceDB fails to delete the entries, that is logged.*)
PurgeMayFail == backend # "milvus"

Purge(r) ==
  /\ op[r].at = "purge"
  /\ \/ live' = [k \in Keys |-> live[k] \ snap[k]]
     \/ PurgeMayFail /\ live' = live
  /\ snap' = IF backend # "elastic" THEN live' ELSE snap
  /\ sound' = [k \in Keys |-> op[r].alone /\ live'[k] = {}]
  /\ want' = {}
  /\ Goes(r, Done)
  /\ UNCHANGED <<setting, exists, docs, count, last>>

(* Elasticsearch makes visible what was written since its last refresh.    *)
Refresh ==
  /\ backend = "elastic"
  /\ snap' = live
  /\ UNCHANGED <<setting, exists, docs, live, count, last, op, want, sound>>

(* A call to the store raises, or the server dies.                         *)
Break(r) ==
  /\ op[r].at \notin {"idle", "done"}
  /\ sound' = [k \in Keys |-> sound[k] /\ k \notin op[r].keys]
  /\ Goes(r, Done)
  /\ UNCHANGED <<setting, exists, docs, table, want>>

Next ==
  \/ \E r \in Requests :
       \/ Create(r) \/ CreateBare(r) \/ Created(r) \/ Patch(r) \/ Get(r)
       \/ Upload(r) \/ Write(r) \/ Report(r) \/ Unreported(r) \/ Aggregate(r)
       \/ Delete(r) \/ Recount(r) \/ Remove(r) \/ Insert(r)
       \/ Drop(r) \/ Purge(r) \/ Break(r)
  \/ Refresh

Spec == Init /\ [][Next]_vars

-----------------------------------------------------------------------------
Quiet(k) == \A r \in Requests : k \notin op[r].keys

(* The entries one of which is shown after a refresh.                      *)
Stored(k) == IF backend = "elastic" THEN Newest(live[k]) ELSE live[k]

Files(k) == IF Stored(k) = {} THEN {0} ELSE {e.files : e \in Stored(k)}
FieldsOf(k) == IF Stored(k) = {} THEN {{}} ELSE {e.fields : e \in Stored(k)}

(* number_of_files is the number of the documents of the collection, and   *)
(* its catalog has every field that was set, unless one of these came in   *)
(* between: two requests wrote the entry at once, a request broke off, it  *)
(* read an entry that was not the last one or none at all, a batch had PDF *)
(* files split off, an entry was put next to one that was not deleted, as  *)
(* Milvus does with a changed catalog, files were uploaded to LanceDB, or  *)
(* a deletion was not given the list of the documents that remain: Milvus  *)
(* and LanceDB list none after an error, and Milvus lists the entries of   *)
(* single documents where these are many.  A deletion that runs alone and  *)
(* has that list makes the number right again, whatever came before; with  *)
(* LanceDB only if the number so far is 0.                                 *)
InfoRight ==
  /\ sound["collection"] /\ exists /\ Quiet("collection") =>
       Files("collection") = {Cardinality(docs)}
  /\ sound["catalog"] /\ exists /\ Quiet("catalog") =>
       FieldsOf("catalog") = {want}

(* Deletes that see an old snapshot leave entries behind, but an older     *)
(* entry never outlives a newer one: what the order by _seq_no gives after *)
(* a refresh is what was written last, or nothing.                         *)
LatestSurvives ==
  \A k \in Keys : \A e \in Newest(live[k]) : e.no = last[k]

(* With Milvus the duplicates that races leave in the metrics are bounded: *)
(* no two of them are of the same server, so one server leaves none.       *)
OneEntryPerServer ==
  backend = "milvus" =>
    \A e, f \in live["collection"] : e.by = f.by => e = f
=============================================================================
