# TLA+ models of the RAG blueprint

Specifications of the parts of this repository that are hard to test. Of the
Python servers: the ingestion task of an upload, uploads of one document that
share a file, the global rate limit on document summaries, the status of
summaries that the RAG server reads, one request to the RAG server from
validation to the end of its stream, the graph of the agentic pipeline, the
information the three vector stores keep about a collection, the connection that
Milvus instances share, and the metadata of documents with the filters that
search in it. Of the .NET port: the job queue with its workers. TLC
checks the modules on small instances; TLAPS proves all but one of the safety
properties that the passing runs check for every value of the constants.

## The system

| Part | State it keeps | Operations | Who it talks to | What is hard | What makes it correct |
|---|---|---|---|---|---|
| Ingestor server, upload task (`ingestor_server/main.py`, `task_handler.py`, `ingestion_state_manager.py`) | task record (in memory or Redis), progress counters, extraction status, uploaded files | POST and PATCH /documents, GET /status, background task, batches | NV-Ingest, vector store, task record shared with GET /status | parallel batches, failures of one batch, crashes, polling without timeout | one verdict per file, counters that agree with the batches, states that only move forward, files kept while they are read |
| Ingestor server, collections (`ingestor_server/main.py`, `utils/vdb`) | metrics and catalog entries in the table `document_info` | POST and DELETE /collection, PATCH of the catalog, uploads and deletions that update the metrics | vector store, other ingestor servers | read, delete and insert as three calls, searches that see an old refresh | counts and catalog that agree with the collection, no older entry over a newer one |
| Summaries (`utils/summarization.py`, `summary_status_handler.py`) | Redis counter, status per file, object store | summary jobs after a batch, GET /summary | Redis, LLM, object store | several processes on one counter, errors of Redis, restarts, timeouts | limit on working jobs, no leaked slot, status that agrees with the object store |
| RAG server (`rag_server/main.py`, `server.py`, `response_generator.py`, `reflection.py`, `query_decomposition.py`, `vlm.py`) | the state of each request, its operator of the vector store | POST /generate, /search, GET /summary | vector store, LLM, VLM, reranker | many branches, two loops of reflection, rounds of questions, a stream that outlives its handler, clients that leave | operators closed, citations that belong to the answer, filter and threshold kept on every branch, an end |
| Agentic RAG (`rag_server/agentic_rag/`) | graph state of one request: plan, tasks, retries | plan, execute, verify, synthesise | LLM, retriever | retry limits on several routes, tokens already shown | one answer, grounded, cited; ends within its limits |
| Vector store adapters (`utils/vdb`) | collections outside the process, a connection counted per endpoint | CRUD, compaction, opening and closing | Milvus, Elasticsearch, LanceDB | sharing, the garbage collector | a connection open while it is used |
| .NET port (`dotnet_rag/`) | job queue in directories, task store in a file, catalog in a file | enqueue, claim, complete, fail; catalog updates | file system, vector store | several processes on the same files, crashes between two renames | each job executed once, states not lost |
| Metadata and filters (`utils/metadata_validation.py`, `es_filter_validator.py`, `common.py`) | the schema of each collection, the values stored with documents | creation of a collection, validation of an upload, validation and transformation of the filter of a search | vector store | the same value is normalised in several places, dates without a time, three languages of filters | a document found by its own values, opposites that exclude each other, the same answer from both stores |
| Prompts, configuration | none | parse | - | strings | - |
| Frontends, deployment, examples, notebooks | - | - | REST | - | - |

An upload writes its files to `uploaded_files/<collection>/`, starts the
background task and answers with a task id. The task validates the files,
sends batches to NV-Ingest, which extracts and stores them, writes its
progress into the record that GET /status reads, and updates the metrics of the
collection. With `generate_summary` each batch starts summary jobs, which take a
slot of the Redis counter, ask the LLM, store the summary and set the status
that GET /summary polls. A request to POST /generate opens an operator of the
vector store, or takes the shared one, runs one of its pipelines and hands back
a generator, which sends the answer and its citations and closes the operator.

`PROJECT.json` lists every component with its status, the hazards at their
lines, and for every definition the lines it models.

## Modules

| Module | Models |
|---|---|
| `SummarySlots` | the Redis counter of `summarization.py`: processes, their local semaphore, jobs, errors of Redis, crashes |
| `CountingLimiter` | what the documentation promises of the limiter; `SummarySlots` implements it (`LimiterSpec`) |
| `IngestTask` | one non-blocking upload: handler, background task, batch coroutines, NV-Ingest, GET /status, crash |
| `TaskLifecycle` | what GET /status may answer in which order; `IngestTask` implements it (`LifecycleSpec`) |
| `UploadFiles` | POST and PATCH requests for one document on their shared path |
| `SummaryStatus` | the statuses of summaries: their writers in the ingestor, GET /summary in the RAG server |
| `JobQueue` | the queued mode of the .NET ingestor: API process, workers, directories, task store, errors, deaths, restarts |
| `WorkQueue` | an abstract queue: a job is taken once and ends once; `JobQueue` implements it (`QueueSpec`) |
| `AgenticRag` | one request to the agentic pipeline: the graph with its retries, the citations, the stream |
| `CollectionInfo` | the metrics and the catalog of one collection in Milvus, Elasticsearch or LanceDB, written by several servers |
| `RagRequest` | one request to POST /generate or POST /search, in all four pipelines |
| `MilvusConnections` | the instances of `MilvusVDB` that share a connection, their reference count, the garbage collector |
| `MetadataValues` | fields and schemas, the values of an upload, what is stored of them |
| `MilvusFilters` | filter expressions: which are accepted for a schema, what they become for Milvus, what Milvus finds |
| `ElasticFilters` | Elasticsearch clauses: which are accepted, their rewritten paths, what Elasticsearch finds |
| `Trees` | what a walk over an expression or a filter computes, from its leaves up |
| `MetadataSearch` | collections with schemas, uploads with metadata, and searches with a filter, in both stores; extends the other four |
| `...Proofs` | the theorems about the module of that name; `RagRequestProofs` also has those about `MilvusConnections`, whose instances the requests use, and `IngestTaskProofs` those about `UploadFiles`, whose requests are such uploads |
| `MC...` | values of the constants for TLC |

`IngestTask` has the task of one upload in full, `UploadFiles` several uploads
with the task reduced to what touches the shared path and the collection,
`SummaryStatus` the upload reduced to what it writes about summaries, and
`CollectionInfo` the upload reduced to what it writes about the collection.
In the same way the agentic pipeline is one step of `RagRequest` (`Agent`) and
its graph is `AgenticRag`.

Each component also defines, right before the operator it is a
variant of, a few seeded faults (their comments start with "Fault:"). `Next`
uses none of them. They document which slip in the code each property notices;
`PROJECT.json` pairs them.

### SummarySlots and the code

A job is one call of `_process_single_file_summary`. Its control is `pc`:

| `pc` | in the code |
|---|---|
| `idle` | not submitted by `generate_document_summaries` |
| `queued` | before `async with semaphore` |
| `acquiring` | in the loop `while not await acquire_global_summary_slot`, before the INCR, or in its sleep |
| `backing_off` | INCR came back over the limit, DECR not done |
| `working` | from the answer True to the end of the `async with` |
| `releasing` | in `finally`, DECR not done |
| `done`, `lost` | returned; its process died |

`counter` is the key in Redis, `available[i]` the flag `_redis_available` of a
process, `up` the processes that run. INCR and DECR are executed in threads
(`asyncio.to_thread`), so every one of them is an action of its own, and the
two of a refused job are apart. `Boot` is the import of the module with its
DELETE, `BootFault` the case that ping or DELETE fail; `LoseRedis` stands for
any status write or read that raises, after which the flag is never set again.
A call to Redis that raises may or may not have been executed.

### IngestTask and the code

Everything of an upload runs on one asyncio loop (uvicorn has one worker), so
an action is the code between two points where a coroutine really suspends.
An uncontended `asyncio.Lock` and the tracing decorators do not suspend, and
`__get_failed_documents`, `__build_ingestion_response`,
`update_batch_progress` and `set_task_status_and_result` run without a
suspension: a batch's report is one action.

| Variable | in the code |
|---|---|
| `task` | the record of `IngestionTaskHandler`: state and result; the key `"state": "FAILED"` of a rejected upload's result is the flag `result.state` |
| `main` | where `__run_background_ingest_task` stands |
| `valid`, `rejected` | `filepaths` after the validation; the files named in `failed_validation_documents` |
| `batch` | each `__nv_ingest_ingestion_pipeline`: waiting for its turn, in a `get_status` round, asleep, returned, raised |
| `future` | `ingest_async`: its state, the files with a result, the files with a failure |
| `extraction`, `reported` | NV-Ingest's status of each file, and the copy that GET /status shows |
| `stored`, `onDisk` | documents in the collection, uploaded files not removed |
| `progress` | `documents_completed_list`, as a set, and `total_batches_completed` |
| `answer` | the state in the last answer to GET /status |

`Reject`, `Accept` and `ValidateRaise` are the checks from the start of the
task to the routing; a file has a set of failure entries, and entries are
counted, not files, as in the code; the record of a rejected upload has their number
(`result.entries`). `Turn` is the `for` loop or the semaphore.
`ReturnUnreported` is a batch with failures only, or an error that the pipeline
swallows while it reports. `PollRaise` is a get_status, or a write of the record, that
raises while NV-Ingest still works: the batch has raised, its job goes on.
`FailMain` is the exception that reaches
`_execute_ingestion_task`; the other batches of `gather` run on after it.
NV-Ingest (`Extract`, `JobDone`, `JobRaise`) is external: it gives any
combination of results, failures and nothing, and stores any part of the results.

In sequential mode the report of a batch, the start of the next one and the
final response follow each other without a suspension; as separate actions they
allow more interleavings with GET /status than the code.

### UploadFiles and the code

| Variable | in the code |
|---|---|
| `path` | what is at `uploaded_files/<collection>/<file name>`, by the request that wrote it |
| `at` | where a request stands: `compacting` in `compact_and_wait_async`, `submitted` or, after a compaction, `resubmitted` with its background task created, `extracting` validated, `read`, `unread` (nothing was there), `stored` at NV-Ingest, then its verdict |
| `read` | the file that NV-Ingest read |
| `collection` | the copies of the document in the collection |
| `overlap` | history, not in the code: which requests were under way together |

Writing the file, deleting the document and taking the snapshot have no
suspension in between, so they are one action (`Patch`) and the snapshot is the
file of its own request; the restore and the submission are another
(`Compacted`). The verdicts: `completed` and `incomplete` are FINISHED without
and with a failed document, `missing` is FINISHED after a validation that did not
find the file (two failure entries, so the upload is not rejected), `rejected`
is a validation with one, `failed` is FAILED, `error` an answer 500. Only the
first two clean up.

### SummaryStatus and the code

`backend` and `shallow` choose the path: batches of NV-Ingest or one call of NRL,
summaries from the results of the ingestion or from a text extraction before it
(`main` is `shallow` during that one). `Summarize` creates the jobs;
`ShallowBatch` and `BatchFailures` mark files FAILED, the actions of NRL never do.
`files` is what NRL takes of the upload: other files get no status.

`status` are the keys in Redis, `store` the summaries in the object store,
`ingRedis` and `ragRedis` the flags `_redis_available` of the two processes.
`Write` is `set_status` and `update_progress`: nothing without Redis, and an error
ends the use of Redis for good, after any part of a loop over files. A job goes
from `created` (its task exists) over `running` to `stored` (`put_payload` done,
status not set) and `done`, or to `failed`. The ingestor does not suspend between
`put_payload` and the status, but the RAG server can look in between, hence two
actions and the guard `LoopFree`. `reader` is one GET /summary after the other:
`asked` before the status is read, `fetching` before the object store,
`waiting` in the polling loop, `polled` when that read SUCCESS.

### JobQueue and the code

`dir[j]` is the directory with the file of a job, `cache[p]` the dictionary
`_taskStates` of a process, `file` the shared task store, `readable` whether it
can be parsed. `Record` and `Enqueue` are the submission, `Claim` is the rename
in `TryClaimAsync`: the listing before it may be old, so only the rename counts,
and the job claimed is any pending one. `Start`, `Ingest`, `Finish`, `Complete`,
`Failing` and `Fail` are the loop of `IngestionWorkerService`. What stands
outside its try block (`StartRaises`, `FailingRaises`, `RetireRaises`) ends the
process, as an exception of a background service stops the host; `Die` is a
death from outside. A `Set` that raises has changed the dictionary and may have
cut the file short. `Restart` loads the file and looks at no directory.
`runs`, `owner` and `unread` are history.

### AgenticRag and the code

| Variable | in the code |
|---|---|
| `node`, `steps`, `limit` | the node LangGraph runs, the number of its step, `recursion_limit` |
| `attempt`, `plan`, `rounds`, `scoped` | `planner_attempt`, `retrieval_plan`, `scope_rounds`, whether there are `scope_results` |
| `call` | the streaming LLM call of the node: no token yet, reasoning, content, and its retries |
| `work` | each task of the running node: retrieving, answering, its retries, whether it has seed documents |
| `results`, `vFound` | the tasks whose answer is not "[NO DATA]"; those of a verification whose answer has data |
| `answer`, `shown` | `final_answer`; what the translator of the stream has sent as the answer |
| `keys`, `cited` | the stages of `citations_acc` in their order; the stage whose citations were attached |
| `latest` | history: the stage that retrieved last |

Tasks of a plan run in parallel, so each one is a process of its own within its
node. LangGraph runs a hidden start node as step 0, the first node of the graph as
step 1, and compares the step with `recursion_limit` before it looks whether there is
a node left: a run of n nodes needs a limit of n + 1, and with verification one that is
cut off after its last node has lost its answer. `NeverCutOff` says which limit is enough.
A task may call its answer complete and leave it empty (`empty`): `synthesize` takes
it for an answer, the route after `execute` and the revision do not.
`Chunk` is a token of an LLM call: after the first one a call that breaks off
is not tried again, since the client has seen the token.

### CollectionInfo and the code

`live` are the entries of `document_info`, `snap` those that a search or a
delete by query sees (the last refresh of Elasticsearch; the same as `live` with
Milvus). A request aggregates, counts, deletes and inserts with separate calls,
each an action. They follow each other without an await in one server, which
`HasLoop` expresses; two servers interleave freely. `last`, `want` and `sound`
are history: `sound` falls when one of the races or errors that `InfoRight` names
has come in between, and a deletion of documents that runs alone, which recounts,
makes the metrics sound again. The fields of an entry are reduced to
`number_of_files` and the set of catalog fields that were set.

The operators named for calls of the adapters (`WriteToIndex`, `CreateCollection`,
`DropCollection`, `CountsAsDeleted`, `Listings`, `PurgeMayFail`) hold for all three
stores and say where they differ. A deletion of documents counts those that
`get_documents` lists. Milvus answers an empty list where its iteration fails
(`milvus_vdb.py:783`), and where more than `BYPASS_METADATA_THRESHOLD` documents have
an entry in `document_info` it lists the entries (`milvus_vdb.py:721`); what they are is
left open, so any set of that size may be listed. LanceDB has no connection to lose; its adapter logs
what a delete of entries raises and goes on, and takes a table that it cannot open for
an empty one. It serves the NRL ingestion, which writes no metrics (`Unreported`);
only DELETE /documents does, and `Recount` then goes through `aggregate` once more.

### RagRequest and the code

| Variable | in the code |
|---|---|
| `req` | kind, collections and the features of the request and the configuration that branches look at |
| `at` | what the request does next |
| `op` | the operator of `_prepare_vdb_op`: shared, or one-off, open or closed |
| `colls`, `filter` | `validated_collections`, `collection_filter_mapping` |
| `found`, `scored` | what the last retrieval gave, and which of it passes the confidence threshold |
| `docs`, `cites` | `context_to_show`, `docs_for_citations` |
| `loops`, `judged` | the two `ReflectionCounter`s; history: the answers whose groundedness was scored |
| `todo`, `round` | questions of a round of `iterative_query_decomposition`, its rounds |
| `body`, `status` | what the generator of the response yields, and the status code |
| `shown`, `left` | what the client has got; how it went away |

The kinds are the RAG chain, the agentic chain, the chain without a knowledge
base and search. A document is a member of a small set; whether it passes the
filter is fixed by `Passing`, which chunks stand next to it by `Near`, and its
score is the nondeterministic `scored`. Every step that calls a service may fail
(`MayFail`) and ends as the pipeline's except block says: `_rag_chain` and the
direct chain answer with a message, search and the agentic chain raise.
The reflection is a step of its own (`reflect`): a score is 0, 1 or 2 against
`ContextThreshold` and `AnswerThreshold`; a call of its model is tried again and counts
as 0 in the end, but the retrieval of its loop raises, and with no loop at all it
returns documents it has never retrieved, which raises too (`reflection.py:300`).
The decomposition has a phase for each of its calls (`SubRewrite`, `SubRetrieve`,
`SubAnswer`, `FollowUps`), and `answered` says whether it has an answer yet. The
citations are part of the context shown: documents without content or with an image
that cannot be read are skipped (`Citations`).
`Leave` is a client that goes away while it gets the response, `Cancel` one that
goes away while the handler awaits; the finally of a generator runs only if
the generator was started.

### MilvusConnections and the code

`place` is what the thread of an instance does next, `refcount` the entry of
`_conn_refcount`, `lock` the holder of
`_conn_refcount_lock`, `read` what a locked section has read and not written
yet. `Make` is `MilvusClient()`, `Checks` and `Connects` the use of
`has_connection` and `connect` after it. `Collected` is a `__del__` that the
garbage collector runs in the thread that holds the lock: the lock is reentrant,
so the whole release comes between the read and the write of that section
(`nested` remembers it). pymilvus is external and modelled as its version 2.6.9,
which the comment in the code names, keeps its connections.

### MetadataSearch and the code

The state is what lasts from one request to the next: the setting of the server
(`store`, `partial`), for each collection its schema and at most one document
(`collection`), and the last search with what it found (`search`). The rest are
operators, one for each function of the code that takes a value to a value.

| Operator | in the code |
|---|---|
| `SchemaOf`, `ValidField`, `ValidSchema` | `create_collection`, `MetadataField`, `MetadataSchema` |
| `Validated`, `FieldValue`, `Normalized`, `ValidMetadata` | the validators of a field, the model class made from a schema |
| `Written` | `prepare_custom_metadata_dataframe` |
| `ParseDatetime`, `Start`, `End` | `DatetimeUtility` |
| `ReadsAsDate`, `AsDate`, `NumeralDay` | `dateutil.parser.parse`, which takes some numerals for dates ("20240115", "15"); which and for what day is a constant |
| `Valid`, `ValidAtom` | `FilterSemanticValidator`, a method for each kind of atom (`ValidComparison`, `ValidIn`, ...) |
| `Raises`, `Transform`, `Atom` | `MilvusQueryTransformer`, likewise (`ComparisonAtom`, `InAtom`, ...) |
| `TreeFold` | lark's `Visitor` and `Transformer`, `_walk_clauses`, the recursion over OpenAI filters |
| `ValidFilter`, `Normal` | `ElasticsearchFilterValidator`: `validate_filter`, `process_filter` |
| `ToMilvus`, `ToElastic` | `_convert_openai_filter_to_milvus_string`, `..._to_elasticsearch` |
| `Supports`, `Finds`, `Search`, `SearchVectorStore` | `validate_filter_expr`, `process_filter_expr`, and their use in `search` and in POST /vector_stores/.../search |
| `Holds`, `EsHolds` | Milvus and Elasticsearch (external) |

A text is a word with capitals or not and with blanks or not; what reads as a
number or a date is a kind of its own, because the validators ask for that. `Values`
is what a client can send for a field, `Atoms` are the expressions about one field; an
expression is the tree the grammar gives, and whatever the code computes by walking
over it is a `TreeFold`: a function of the ways from the root, with an operator for
one node. Milvus is taken to compare values of
the JSON field by type and to find a missing field different from everything;
Elasticsearch to analyse texts into lower case under the path itself and to keep
them under `.keyword`, to have no such path for other types, and to read a date
without a time as its whole day.

## Runs

| Run | Instance | Checks |
|---|---|---|
| `slots` | 1 process, 3 jobs, limit 1, 2 local permits, 1 error, 1 crash | `CounterCoversClaims`, `EveryJobServed`, `LimiterSpec` |
| `ingest_seq` | 3 files, batches of 2 in sequence, one unsupported file, metadata and "already stored" errors, one metadata item without a file, record in Redis, exceptions, crash, polling client | `CountersAgree`, `VerdictOnEveryFile`, `LifecycleSpec`, `UploadEnds` |
| `ingest_par` | 3 files, 3 batches, 2 at a time, record in memory | `FilesKept`, `FinishedIsFinal` |
| `upload_files` | 3 requests, each POST or PATCH | `CopiesOnlyByRace`, `AloneGetsOwn`, `NothingOlderRead`, `RequestsEnd` |
| `summary_status` | 2 files in one batch or two, NV-Ingest and NRL, with and without shallow summaries, one error of Redis, deletions, readers that wait and that do not; 430 thousand states | `SuccessIsBacked`, `StatusTellsOutcome`, `EveryJobReported`, `WaitersAnswered` |
| `job_queue` | 2 uploads, 2 processes with the worker loop, 2 failing steps, 1 death | `ExecutedOnce`, `AgreesWithDir`, `StatusForward`, `QueueSpec`, `EveryJobEnds` |
| `agentic` | 2 tasks a plan, 1 of a verification, 2 scope rounds, 2 attempts of everything, with and without verification, limits 11 and 12 | `OneAnswer`, `NeverCutOff`, `CitesLastStage`, `Grounded`, `Ends` |
| `collection_info` | 3 requests in 2 servers, 2 documents, one of them a PDF file, 1 catalog field, three stores, entries listed instead of documents from 2 on; 2.4 million states | `InfoRight`, `LatestSurvives` |
| `rag_request` | every request close to an ordinary one, 3 documents in 2 collections, all failures, clients that leave | `OneOffClosed`, `CitesRight`, `ContextRespects`, `AnswerJudged`, `Ends` |
| `milvus_connections` | 4 instances | `UsedIsOpen`, `LastCloses` |
| `metadata` | a collection with a field "f" of any type and one without fields of its own, values at and around every limit, filters of the three languages, days of 4 seconds, a server 1 second ahead of UTC; 240 thousand states | `OwnValueFound`, `OppositesExclude`, `DaysPartition`, `BackendsAgree` |
| `rag_filter` | a request with a filter, decomposed | violates `FilterKept` |

Every type invariant (`TypeOK`, `ConnTypeOK`) is proved, so the runs check none. `WithinLimit` follows from `LimiterSpec`, and is a theorem, as
`OneEntryPerServer` is.

### Where the code and its documentation disagree

The run `rag_filter` shows one: the decomposition of a query is given the first
collection and neither the filter of the request nor the mapping of the filters,
so its answer cites documents the filter excludes.

The models contain more of them, which no run is spent on; the properties of
the runs name them as exceptions, or are stated so that they are allowed:

* The check "if all provided files have failed" (`ingestor_server/main.py:673`)
  compares the number of failure entries with the number of files. A file that fails
  its validation and a metadata item for a file that is not in the upload are two
  entries, as are those of one missing file, and reject an upload of two files of which
  one is valid. `VerdictOnEveryFile` allows a rejection with a valid file for this reason
  only: there must be more entries than files they name.
* A process that starts deletes the counter of the summaries although jobs of
  another process hold slots (`summarization.py:71`), and more than the limit
  work at once, against `docs/summarization.md:352-353`. `LimitHolds` is therefore
  a theorem about one process.
* `status()` of the task handler pops `"state"` from the record of a rejected
  upload: kept in memory, the first poll says FAILED and the second FINISHED.
* `asyncio.gather` leaves the other batches running when one raises; the next one
  that completes writes PENDING over FAILED, and nothing corrects it afterwards.
* With a worker process beside the API process, GET /status answers from the
  dictionary that the API process loaded at its start: it says PENDING for a job
  that is in `completed/` (`FileBackedIngestionTaskStore.cs:36`), although
  `python-analysis.md:397-399` says that it continues to work.
* The snapshot of a PATCH is used when the compaction ends, and the clean-up of
  another request between that and the validation still removes the file. The
  document was deleted before, so the PATCH ends FINISHED with neither.
* A failing ingestion sets the status of all its summaries to FAILED
  (`ingestor_server/main.py:807`), also of those that were generated; and a file
  without a result in a batch that has results stays PENDING.
* With NRL no file is marked FAILED but by an exception of the ingestion: a file that
  its shallow extraction skips (all but PDF, DOCX and PPTX) or fails, and one without a
  result, stay PENDING for ever (`ingestor_server/main.py:2399`), although the comment
  at `main.py:2348` speaks of mirroring the path of NV-Ingest.
* With `pdf_extract_method` set, the statistics of the PDF part of a batch are
  computed from the empty list `results` and not from `results_pdf`
  (`ingestor_server/main.py:3081`): PDF files are not counted in the metrics.
  `InfoRight` exempts a batch with PDF files split off.
* With LanceDB a deletion adds the counts of all remaining documents to the stored
  ones, which its comment concedes (`ingestor_server/main.py:2012`), and uploads are
  not counted at all. `InfoRight` names both.
* With Milvus and LanceDB a deletion that runs alone can store a wrong number of files:
  the error of a listing becomes an empty list (`milvus_vdb.py:783`), which is counted,
  and so are the entries that Milvus lists for a large collection, although their own
  deletion or insertion may have failed. The deletion succeeds, and the count stays wrong until
  another one. `InfoRight` exempts what was counted from such a list.
* `check_response_groundedness` is handed its context as one text and joins it with
  line ends (`reflection.py`, `context: list[str]`), so the judge reads one character
  a line. Contents are not modelled.
* A fixed answer of the agentic pipeline ("no information found", or the message
  of an error) comes from no LLM call, and without verification only the tokens
  of LLM calls are streamed: the client gets an empty answer.
* The documents of all questions of a decomposition are reranked at the end
  without the confidence threshold (`query_decomposition.py:158`), and the
  retrieval for an image takes no filter. `ContextRespects` exempts both.
* A search that is refused because of its reranker, a client that leaves before
  the response has started, and one that leaves while the chain works, each leave
  a one-off operator open, to be closed by `MilvusVDB.__del__` if at all.
  `OneOffClosed` names exactly these three.
* With reflection on, only what the RAG chain's own LLM answers is judged. An answer of
  the VLM (`rag_server/main.py:3530`) and one of a decomposed query (`main.py:3141`)
  leave the pipeline before the reflection on the answer, and nothing tells the client.
* The reference count of a Milvus connection is guarded by a reentrant lock "so
  that `__del__` can run" inside (`milvus_vdb.py:111`). A release that does
  run there is overwritten, the count stays too high, and the last holder does not
  close the connection. It is never too low, so nobody loses a connection in use.
* `!=` with a date without a time excludes only its first second, `==` means the
  whole day (`metadata_validation.py:2149`): a document of that day is found by both.
  `OppositesExclude` exempts such dates.
* The upload removes blanks around a text, the transformer does not, neither around a
  single text nor in the list of an `in`; a string field may be compared with `true`,
  which no stored text equals; `filename in [...]` is made lower case although file
  names are stored as they are; a list of numbers may be asked for `true`, and
  `includes` does not look at the type of its value at all. Such filters are accepted
  and find nothing. `OwnValueFound` exempts blanks and foreign types (`Loose`), and
  file names.
* A client may send a value for a field that the system extracts itself, such as
  `page_number`: it is validated and then not written
  (`prepare_custom_metadata_dataframe`). `OwnValueFound` is about the other fields.
* A schema may declare `filename` as a datetime. What is stored is the name of the
  file, which no operator on dates finds; `DaysPartition` exempts it.
* Elasticsearch compares a field that has a list with each of its elements, Milvus
  with the list: `eq` and a list agree in neither direction, and `BackendsAgree`
  exempts them.
* The bounds of `between`, and what the length of a list is compared with, may be quoted
  numbers, which Milvus compares as texts, and `before` and `after` are not validated at all. Dates with a time are read in
  the local time of the server for Milvus and in UTC by Elasticsearch.
* `create_collection` makes the collection before it looks at the fields
  (`ingestor_server/main.py:1315`): after an error it exists without a schema, takes
  any metadata, and a second request finds that it already exists. A field
  " filename " is accepted beside `filename` and stored under the same name; every
  upload to that collection then fails.

### Bounds

Three jobs are the least for which one works and two refused ones overlap their
claims; two local permits make the process' own semaphore bind as well. One
error and one crash reach every error path, and their effects add up one by one.
Three files in batches of two give a full and a short batch; three batches and
a concurrency of two give a waiting, a running and an ended batch at once.
Three requests allow a race of two with a third that cleans up or arrives later,
or, in two servers, one that follows in the server of one of them. With a threshold
of 1 the entries of both documents are listed instead of the documents, as those of
more than 1000 are in the code.
Two files of a batch interact only through the writes to all files, and two batches
through the writes of a failing ingestion, so a third file shows nothing new in
`summary_status`.
Two jobs and two workers give both orders of a claim and a worker that loses
one; the second failure can hit the handler of the first.
Two tasks are a task that succeeds beside one that does not; two scope rounds let
the second one find the results of the first; a limit of 12 is what two scope
rounds and a verification need (`Room`), 11 one too few: there the step in which
LangGraph finds no node left exceeds the limit.
Three documents are two neighbours, one passing the filter and one not, and one
in another collection; two loops and two rounds are the least with a round that
is neither first nor beyond the end. `MCRequests` has, for each kind and no, one
or two collections, the requests that differ in at most `Changes` = 2 features
from the usual one or from the one with filter and threshold: any two features meet.
Four instances let one be collected while one is made, one released and one in
use; they are interchangeable, hence the symmetry.
In `metadata` the limits for texts and lists are 4 and 2, so that values below, at and
above them are short; a day of 4 seconds has a first, a last and inner ones, and two
days have a border. One field of each type is enough, as validators look at one
field at a time; one document, as filters do. Depth 2 and 4 clauses let filters be
too deep and too large; the code has 8 and 64. One numeral reads as a date, the others
do not.
`MaxFaults`, `MaxCrashes`, `MaxDeaths`, `MaxStray`, `MayRaise`, `MayCrash` and
`Polled` bound or switch off what the environment does; nothing in the code
corresponds to them. Uploads, jobs, requests and instances are finite and the
system then stops, so deadlock is checked only in `rag_request`, whose request
stutters at its end and nowhere else.

### Fairness

`FairSpec` of `SummarySlots` lets every job take its next step (the event loop
runs what is ready, the LLM answers); nobody has to upload, boot, fail or die.
`EveryJobServed` moreover assumes that from some time on no retry overlaps the
claim of another refused job. Without that assumption it is false: two waiting
jobs can keep each other over the limit for ever. The code sleeps 0.5 s between
two tries against a round trip of about a millisecond, which makes such an
overlap improbable but not impossible.

`FairSpec` of `IngestTask` lets the task and every batch go on and NV-Ingest end
its jobs. The latter is an assumption on the environment: the polling loop has
no timeout, and `UploadEnds` is false without it.

`FilesFairSpec` of `UploadFiles` assumes the same of NV-Ingest, and that the compaction
ends (it has a deadline of 30 s); nothing has to raise. `FairSpec` of
`SummaryStatus` lets jobs end and the polling loop go on; no timeout and no error
has to happen. `EveryJobReported` and `WaitersAnswered` assume that no call to
Redis fails: after one the ingestor writes no status at all.

`FairSpec` of `JobQueue` lets the loop of each worker take its next step while the
process runs. Nothing has to fail, die or be started, and `EveryJobEnds` exempts
what was in the hands of a process that died: no code takes it up again.
`FairSpec` of `AgenticRag` and of `RagRequest` let the one request go on
(every call of a model has a timeout or ends the stream); what the models answer
stays open, so the retries have to end by their own counters. The client does
not have to leave. `CollectionInfo`, `MilvusConnections` and `MetadataSearch` state
no liveness and need no fairness.

## Proofs

All theorems hold for every value of the constants allowed by the assumptions of
the modules.

* `SummarySlotsProofs`. `TypeCorrect` needs no more than `TypeOK`. `LimitHolds`
  and `ImplementsLimiter` assume `SingleInstance` (there is one process), since
  the property is false otherwise. `WithinLimit` is not inductive: an admission
  looks at the counter and not at the jobs, so the invariant `SlotInv` relates the
  counter to the claims (the jobs with an INCR and no DECR yet, up to the
  errors), claims to working jobs, and says that no job runs in a process that is
  down. `CounterHolds` states the other half of it, `CounterCoversClaims`.
  `CountMove` and `MoveEffect` say how one job's move changes the cardinalities.
  The refinement maps an admission to `Admit`, one after an error to `AdmitOnError`, a
  crash to `Restart`, and the other steps to stutters.
* `IngestTaskProofs`. `TypeCorrect`, `VerdictHolds`, `FilesStay` and
  `FinishedStays`. The inductive invariant is `Bookkeeping`: batches exist
  exactly for the batches of `valid`; the job of a batch has started only if the
  batch has, and gives results only for its own supported files; a document of
  the upload that is in the collection has a result, or comes from a job that
  raised; and a FINISHED record means that all batches have returned.
  `BatchesPartition` is the lemma that each file is in exactly one batch.
  `FinishedIsFinal` follows because with all batches returned no batch or job step
  is enabled; `VerdictOnEveryFile` because the final response is computed when all
  batches have returned, so none of them raised, and because as many entries as files
  name either every file or one of them twice, or a file that is not there
  (`RejectedForEntries`).
  `CountersHold` has the invariant `Counting`: what a batch reports is of its own
  files, so no report lets another batch count, and nothing is in the list before
  the first batch. `ImplementsLifecycle` shows that every step of the upload is a
  step of `TaskLifecycle` or leaves the record alone. It assumes `~Parallel`: with
  parallel batches one that reports after another has raised sets a record that is
  FAILED back to PENDING. Its invariant `InTurn` says that a batch starts when
  those before it have returned (`InSequence`), and that while the task works its
  record tells how far the batches are (`RecordTellsProgress`), so a report only
  adds to it.
  The last part is about `UploadFiles`: `FilesTypeCorrect`, `CopiesRaced`,
  `NothingOlder` and `OwnIfAlone`. The types need that NV-Ingest stores only what it has read (`Typed`). `Together` says that two
  requests under way have met, `Raced` that whoever may still store a copy has met
  all who stored one: the validation lets a request pass only if there is none.
  `Recent` adds to `NothingOlderRead` the file at the path: every request under way
  has met the one that wrote it.
  `Solo` says what a request under way that has met nobody may count on; only its
  own steps touch it.
* `SummaryStatusProofs`. `TypeCorrect`, `SuccessHolds` and `OutcomeHolds`. `Writes`
  states once what a write of a status can do. `Backed` adds to `SuccessIsBacked`
  that only a finished job has the status SUCCESS and that a file that may still get
  its job (`Due`) has none, so no job starts again. `Telling` extends
  `StatusTellsOutcome` to jobs at work, and to the batches whose shallow extraction is
  over while others wait for theirs (`Extracted`).
* `JobQueueProofs`. `TypeCorrect`, `ExecutedAtMostOnce`, `StatusAgrees`,
  `StatusOnlyForward` and `ImplementsQueue`. The inductive invariant `IInv` adds
  three facts to the types. `Holding`: a process past its claim has a job in its
  hands, which is in `processing/` and has the process as its owner. `Counted`: where a job is and what its holder is doing tell whether it was run.
  `Words`: no dictionary says more of a job than has happened to it, and the holder
  says exactly where it is. One worker per job follows from the rename alone, whatever the
  listing said.
* `AgenticRagProofs`. `TypeCorrect`, `OneAnswerShown`, `GraphNeverCutOff`,
  `CitationsOfLastStage` and `AnswersGrounded`. `Flow` relates the superstep to the
  node, the scope rounds and the verification round, which bounds the
  steps for any configured number of rounds, the last one that finds no node left included; `Seen` says which texts the client
  may have got in each node; `Ordered` and `Citing` that stages enter the
  accumulator in the order of the graph, so that its last key is the stage that
  retrieved last; `Sources` what the answer of a node
  may rest on.
* `CollectionInfoProofs`. `TypeCorrect`, `LatestEntrySurvives` and
  `ServerLeavesOneEntry`. `Numbered` says that among the entries of a key, if there are any, is the last one
  that was written; `Ordered` that what a search does not see yet is newer than all
  it sees, so a deletion by query never takes the last entry and leaves an older
  one; `Current` that a search of Milvus sees everything; `OneLoop` that one request
  of a server at most is between two calls, and `Cleared` that it has removed what
  its server left when it inserts, which together leave one entry per server.
  `InfoStaysRight` has an invariant of its own, `RightInv`, since `InfoRight` speaks
  only of moments without a request. `Held`: which keys a request writes, and with
  what, follows from where it stands. `Apart`: no two requests that count as alone
  write the same key. `CountRight`, `FieldsRight`: while the history is sound and
  nobody is about to count anew or to write the catalog (`Recounts`, `Rewrites`), the
  entry is right, up to the documents that are stored and not yet counted
  (`Pending`); a recount makes it so only from a list of exactly the documents. `OwnCount`, `OwnFields`: what a request that is alone holds in its
  hands is right when it writes it. `Forgotten`: a collection that does not exist
  has no fields to keep. A request that is not alone makes the history unsound when
  it ends (`Taints`), so it may hold anything.
* `RagRequestProofs`. `TypeCorrect`, `OneOffOperatorClosed`, `CitationsRight`,
  `ContextRestricted` and `AnswersJudged`. `Opened`, `Selected`, `Cited`,
  `Restricted` and `Judged` each extend one property to the phases before the
  end: where the operator is open, that what was retrieved is of the collections
  that were checked, that citations are part of the context, that the filter in
  force is still that of the user, that an answer on its way out is judged unless
  no loop is left. Each has a lemma of its own, with a step for every action that
  can disturb it.
  The last part is about `MilvusConnections`: `ConnectionsTypeCorrect`,
  `UsedStaysOpen` and `LastOneCloses`, from the invariant `ConnInv`. `Sections`: the
  lock belongs to the one instance inside a locked section, and what it has read
  covers all counted instances, because those that the collector takes in between
  only leave. `Covering`: so does the entry of the table, hence a release that
  reaches 0 has nobody left to hurt. `Exact`: without a collection inside a section
  the entry is their number.

* `MetadataSearchProofs`. `OwnValuesFound`, `OppositesExcluded` and
  `DaysPartitioned`, from the assumption that what clients send is a JSON value
  (`SearchAssumption`); schemas, expressions and OpenAI filters are any at all. The
  properties are about one search, so the inductive invariant `Inv` says where its
  parts come from: a document is what an upload of its metadata writes under the
  schema of its collection (`Uploaded`), and a search that was not refused has
  looked into the collections that support its filter and found what `Finds` says
  (`Searched`). The rest is about the operators. At a leaf the folds are the
  operator of one node (`AtomAccepted`, `AtomFinds`), which an
  atom always is, so no induction is needed. `WrittenField` says what a document has
  for a field of the user that was sent, and then the two ways of a value meet, with
  a lemma for each type of field (`StringAnswered`, `DatetimeAnswered`,
  `BooleanAnswered`, `NumberAnswered`, `ArrayAnswered`): what the validator of the
  upload stores is what the transformer's literal matches, if the validator of the
  filter let it pass. `DayFinds` computes each operator on a date without a time as
  a comparison of the stored second with the first or last of its day;
  `OppositeAtoms` that an atom and its opposite become complements. Both need what
  the schema's type says of the stored value, neither how long the day is or what the
  local time.

Only model-checked:

* `BackendsAgree`. It compares the folds of three walks (the OpenAI filter, the
  expression and the clauses made from it) for filters joined to any depth, and
  needs an induction over them: induction over data is beyond the provers here. Even a
  single test is a list of clauses for Elasticsearch, hence a tree that is no leaf.
* The liveness properties (`EveryJobServed`, `UploadEnds`, `RequestsEnd`,
  `EveryJobReported`, `WaitersAnswered`, `EveryJobEnds`, `Ends` of both modules):
  their fairness conditions are about ENABLED, which the prover does not know.

## Not modelled

* Blocking uploads, `enable_batch_mode = False`, the split into PDF and other
  files of one upload (but for its counts, in `CollectionInfo`); the NRL backend but
  for what it does to summaries and metrics; errors of the Redis client of the task
  handler, but for those that a batch meets while it polls.
* The contents of documents, chunks and summaries, what the models answer, scores
  (but for which side of the threshold they are on), prompts, metrics, tracing.
* Two uploads of several documents at once, a crash during several uploads.
* The expiry of a status after 24 hours; the death of a process with summary jobs
  (their statuses stay IN_PROGRESS).
* The in-process mode of the .NET ingestor; what an ingestion does there.
* In `CollectionInfo` the entries of single documents and the metadata schema,
  which are written like the catalog.
* The catalog and the RAG server of the .NET port, hierarchical summarisation,
  health checks, configuration, observability, frontends, deployment. They hold no
  state that several steps share, or are strings and I/O; `PROJECT.json` has the
  reason for each.
* Of the metadata, the characters of texts, patterns of LIKE and wildcards, numbers
  in lists of other types (which only pydantic's coercions tell apart), the cache
  of model classes, and the prompt of generated filters, whose verdict is an input
  of `RagRequest`.

## What could come next

1. `HierarchicalSummary`: levels over lengths; ends if the summaries fit in pairs,
   and does not otherwise (`summarization.py:937`).
2. The .NET catalog: a dictionary saved whole by several processes, as the task
   store of `JobQueue` is.
