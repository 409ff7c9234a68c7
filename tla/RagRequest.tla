----------------------------- MODULE RagRequest -----------------------------
(***************************************************************************)
(* One request to the RAG server: POST /generate over a knowledge base     *)
(* ("rag"), the same with the agentic pipeline ("agentic") or without a    *)
(* knowledge base ("direct"), and POST /search ("search").  The pipeline   *)
(* retrieves documents, may judge and rewrite (reflection), may decompose  *)
(* the query, expands the context, asks a model and streams its answer     *)
(* with citations.  The request may have a vector database operator of its *)
(* own, which nobody but the request closes; every service it calls may    *)
(* fail, and the client may leave at every await.                          *)
(*                                                                         *)
(* Texts, prompts and scores are abstracted to what the properties tell    *)
(* apart: which documents a call returns and which of them pass the        *)
(* confidence threshold is a choice of the step.                           *)
(***************************************************************************)
EXTENDS Naturals, Sequences

CONSTANTS
  Docs,          \* chunks of documents
  Colls,         \* collections
  CollOf,        \* the collection of a document
  Passing,       \* the documents the filter of the user lets through
  Near,          \* the other chunks of the pages around a document
  Requests,      \* the requests: their kind, collection_names and settings
  MaxLoops,      \* reflection.max_loops
  ContextThreshold,  \* reflection.context_relevance_threshold
  AnswerThreshold,   \* reflection.response_groundedness_threshold
  Depth,         \* query_decomposition.recursion_depth
  MaxQuestions   \* bound: questions a query is decomposed into

Features == {"oneOff", "citations", "reranker", "threshold", "filter",
             "generator", "history", "rewrite", "image", "reflect",
             "decompose", "expand", "vlm", "noFallback", "stream"}

Request == [kind: {"rag", "agentic", "direct", "search"},
            names: Seq(Colls), on: SUBSET Features]

ASSUME RequestAssumption ==
  /\ CollOf \in [Docs -> Colls]
  /\ Passing \in SUBSET Docs
  /\ Near \in [Docs -> SUBSET Docs]
  /\ Requests \subseteq Request
  /\ MaxLoops \in Nat
  /\ ContextThreshold \in Nat
  /\ AnswerThreshold \in Nat
  /\ Depth \in Nat
  /\ MaxQuestions \in Nat

VARIABLES
  req,      \* the request
  at,       \* what it does next
  op,       \* its operator: "none", "shared", "open" or "closed" (one-off)
  colls,    \* validated_collections
  filter,   \* collection_filter_mapping: "none", "user" or "own" (generated)
  found,    \* the documents the last retrieval gave, of all rounds when
            \* the query is decomposed
  scored,   \* those of them whose score passes the confidence threshold
  docs,     \* context_to_show
  cites,    \* docs_for_citations
  loops,    \* the counters of the two reflections
  judged,   \* the answers whose groundedness has been scored
  todo,     \* questions of the decomposition still to be answered
  round,    \* rounds of the decomposition done
  answered, \* has a question been answered (conversation_history)
  body,     \* what the generator of the response yields
  status,   \* "none", "ok" or "error": status code of the response
  shown,    \* what the client got: a text and its citations
  left      \* how the client left: "no" while it has not

query == <<colls, filter>>
retrieved == <<found, scored>>
context == <<docs, cites>>
reflection == <<loops, judged>>
decomposition == <<todo, round, answered>>
response == <<body, status>>
client == <<shown, left>>
vars == <<req, at, op, query, retrieved, context, reflection, decomposition,
          response, client>>

Phases == {"new", "check", "rewrite", "generator", "retrieve", "rerank",
           "reflect", "score", "requery", "shape", "model", "vlm", "llm",
           "draft", "ground", "regenerate", "questions", "subquery",
           "subretrieve", "subanswer", "merge", "graph", "agent", "direct",
           "respond", "stream", "end"}

TypeOK ==
  /\ req \in Request
  /\ at \in Phases
  /\ op \in {"none", "shared", "open", "closed"}
  /\ colls \in SUBSET Colls
  /\ filter \in [Colls -> {"none", "user", "own"}]
  /\ found \in SUBSET Docs
  /\ scored \in SUBSET Docs
  /\ docs \in SUBSET Docs
  /\ cites \in SUBSET Docs
  /\ loops \in [context: Nat, answer: Nat]
  /\ judged \in SUBSET {"first", "again"}
  /\ todo \in Nat
  /\ round \in Nat
  /\ answered \in BOOLEAN
  /\ body \in {"none", "message", "empty", "stream", "late", "first", "again"}
  /\ status \in {"none", "ok", "error"}
  /\ shown \in [text: {"nothing", "some", "whole", "message", "broken",
                       "refused"},
                cites: SUBSET Docs]
  /\ left \in {"no", "cancelled", "unstarted", "streaming"}

On(f) == f \in req.on
In(cs) == {cs[i] : i \in DOMAIN cs}
Of(cs) == {d \in Docs : CollOf[d] \in cs}

Init ==
  /\ req \in Requests
  /\ at = "new"
  /\ op = "none"
  /\ colls = {}
  /\ filter = [c \in Colls |-> "none"]
  /\ found = {}
  /\ scored = {}
  /\ docs = {}
  /\ cites = {}
  /\ loops = [context |-> 0, answer |-> 0]
  /\ judged = {}
  /\ todo = 0
  /\ round = 0
  /\ answered = FALSE
  /\ body = "none"
  /\ status = "none"
  /\ shown = [text |-> "nothing", cites |-> {}]
  /\ left = "no"

(***************************************************************************)
(* The operator of the request and the ways it ends.                       *)
(***************************************************************************)
(* _prepare_vdb_op: the default operator unless the request has a token,   *)
(* an endpoint or an embedding model of its own.                           *)
Prepared == IF On("oneOff") THEN "open" ELSE "shared"

(* _close_vdb_op_if_one_off: a shared operator stays open.                 *)
Closed(o) == IF o = "open" THEN "closed" ELSE o

(* The request ends with an error the handler of the server turns into a   *)
(* response; the operator becomes o.                                       *)
EndsWith(text, o) ==
  /\ at' = "end"
  /\ op' = o
  /\ status' = "error"
  /\ shown' = [text |-> text, cites |-> {}]
  /\ UNCHANGED <<req, query, retrieved, context, reflection, decomposition,
                 body, left>>

(* Parameters are validated before the operator is opened ...              *)
Refuse ==
  /\ at = "new"
  /\ EndsWith("refused", op)

Accept ==
  /\ at = "new"
  /\ IF req.kind = "direct"
     THEN at' = "direct" /\ op' = op
     ELSE at' = "check" /\ op' = Prepared
  /\ UNCHANGED <<req, query, retrieved, context, reflection, decomposition,
                 response, client>>

(* ... but search validates the model and the endpoint of the reranker     *)
(* after that, and before the block that closes it.                        *)
RefuseSearch ==
  /\ at = "new"
  /\ req.kind = "search"
  /\ EndsWith("refused", Prepared)

(***************************************************************************)
(* Errors of the pipelines.  Those of _rag_chain become a response with    *)
(* their message and no contexts.                                          *)
(***************************************************************************)
Rewrites ==
  On("history") /\ On("rewrite") /\ (On("image") => req.kind = "agentic")

(* A question is rewritten with the answers there are; a follow-up question *)
(* is always asked for.                                                    *)
AsksModel == todo = 0 \/ answered

(* Where a step calls a service that may fail, or raises an error itself.  *)
(* The scores of the reflection are not here: their calls are retried and  *)
(* count as 0 when all of them fail.                                       *)
MayFail ==
  \/ at \in {"check", "retrieve", "reflect", "rerank", "requery", "shape",
             "vlm", "llm", "draft", "regenerate", "questions", "subretrieve",
             "subanswer", "merge", "graph"}
  \/ at = "rewrite" /\ Rewrites
  \/ at = "generator" /\ On("generator")
  \/ at = "subquery" /\ AsksModel

RagFails ==
  /\ MayFail
  /\ req.kind = "rag"
  /\ at' = "respond"
  /\ body' = "message"
  /\ status' = "error"
  /\ cites' = {}
  /\ UNCHANGED <<req, op, query, retrieved, docs, reflection, decomposition,
                 client>>

(* The two chains without a knowledge base make a response of their own.   *)
DirectFails(model) ==
  /\ at = model
  /\ req.kind = "direct"
  /\ at' = "respond"
  /\ body' = "message"
  /\ status' = "error"
  /\ UNCHANGED <<req, op, query, retrieved, context, reflection,
                 decomposition, client>>

DirectLlmFails == DirectFails("llm")
DirectVlmFails == DirectFails("vlm")

(* search re-raises and closes, whatever happens ...                       *)
SearchFails ==
  /\ MayFail
  /\ req.kind = "search"
  /\ EndsWith("message", Closed(op))

(* ... and generate closes what the agentic chain leaves when it raises.   *)
AgenticFails ==
  /\ MayFail
  /\ req.kind = "agentic"
  /\ EndsWith("message", Closed(op))

(***************************************************************************)
(* The collections and their filters.                                      *)
(***************************************************************************)
(* No collection, or several without the reranker, are refused.            *)
NamesAccepted ==
  /\ req.names # <<>>
  /\ Len(req.names) > 1 => On("reranker")

(* validate_filter_expr: the collections whose schema supports the filter  *)
(* (all of them without a filter, and unless partial filtering is allowed).*)
Validated ==
  IF On("filter")
  THEN (SUBSET In(req.names)) \ {{}}
  ELSE {In(req.names)}

(* process_filter_expr for every validated collection.                     *)
Mapped(cs) ==
  [c \in Colls |-> IF On("filter") /\ c \in cs THEN "user" ELSE "none"]

Check(kind, accepted) ==
  /\ at = "check"
  /\ req.kind = kind
  /\ accepted
  /\ at' = "rewrite"

RagCheck ==
  /\ Check("rag", NamesAccepted)
  /\ \E cs \in Validated : colls' = cs /\ filter' = Mapped(cs)
  /\ UNCHANGED <<req, op, retrieved, context, reflection, decomposition,
                 response, client>>

SearchCheck ==
  /\ Check("search", NamesAccepted)
  /\ \E cs \in Validated : colls' = cs /\ filter' = Mapped(cs)
  /\ UNCHANGED <<req, op, retrieved, context, reflection, decomposition,
                 response, client>>

(* The searches of the agent check the names again, one call at a time.    *)
AgenticCheck ==
  /\ Check("agentic", req.names # <<>>)
  /\ colls' = In(req.names)
  /\ UNCHANGED <<req, op, filter, retrieved, context, reflection,
                 decomposition, response, client>>

(* The query is rewritten with the history, or joined with it: a text.     *)
Rewrite(kind, next) ==
  /\ at = "rewrite"
  /\ req.kind = kind
  /\ at' = next
  /\ UNCHANGED <<req, op, query, retrieved, context, reflection,
                 decomposition, response, client>>

RagRewrite == Rewrite("rag", "generator")
SearchRewrite == Rewrite("search", "generator")
AgenticRewrite == Rewrite("agentic", "graph")

(* A filter generated from the query replaces that of the user; where none *)
(* is generated, the collection is searched without a filter.              *)
Generated ==
  {[c \in Colls |-> IF c \in S THEN "own" ELSE "none"] :
     S \in SUBSET colls}

Filters(kind, next) ==
  /\ at = "generator"
  /\ req.kind = kind
  /\ IF On("generator") /\ ~On("image")
     THEN filter' \in Generated
     ELSE filter' = filter
  /\ at' = next
  /\ UNCHANGED <<req, op, colls, retrieved, context, reflection,
                 decomposition, response, client>>

(* Decomposition takes the query over, before any retrieval.               *)
Decomposes == On("decompose") /\ ~On("image")

RagFilters == Filters("rag", IF Decomposes THEN "questions" ELSE "retrieve")
SearchFilters == Filters("search", "retrieve")

(***************************************************************************)
(* Retrieval.                                                              *)
(***************************************************************************)
(* What retrieval_langchain may return: documents of the collections that  *)
(* pass the filter in force there.                                         *)
Matching(cs) ==
  {d \in Docs : /\ CollOf[d] \in cs
                /\ filter[CollOf[d]] = "user" => d \in Passing}

(* validated_collections[0], as a set: they keep the order of the request. *)
First ==
  {c \in colls :
     \E i \in DOMAIN req.names :
       /\ req.names[i] = c
       /\ \A j \in 1..(i - 1) : req.names[j] \notin colls}

(* All the collections in parallel, for the reranker.                      *)
RankedRetrieval ==
  /\ found' \in SUBSET Matching(colls)
  /\ at' = "rerank"
  /\ UNCHANGED <<scored, docs>>

(* The first collection only, without scores.                              *)
PlainRetrieval(candidates, next) ==
  /\ found' \in SUBSET candidates
  /\ docs' = found'
  /\ scored' = {}
  /\ at' = next

RagRetrieve ==
  /\ at = "retrieve"
  /\ req.kind = "rag"
  /\ ~On("reflect")
  /\ IF On("reranker") /\ ~On("image")
     THEN RankedRetrieval
     ELSE PlainRetrieval(IF On("image") THEN Of(First)
                                        ELSE Matching(First), "shape")
  /\ UNCHANGED <<req, op, query, cites, reflection, decomposition, response,
                 client>>

SearchRetrieve ==
  /\ at = "retrieve"
  /\ req.kind = "search"
  /\ ~On("reflect")
  /\ IF On("reranker") /\ ~On("image")
     THEN RankedRetrieval
     ELSE PlainRetrieval(IF On("image") THEN Of(First)
                                        ELSE Matching(First), "shape")
  /\ UNCHANGED <<req, op, query, cites, reflection, decomposition, response,
                 client>>

(* With reflection a counter is made for the context of this request, and  *)
(* the collections go with their filters to check_context_relevance.       *)
Reflects(kind) ==
  /\ at = "retrieve"
  /\ req.kind = kind
  /\ On("reflect")
  /\ loops' = [loops EXCEPT !.context = 0]
  /\ at' = "reflect"
  /\ UNCHANGED <<req, op, query, retrieved, context, judged, decomposition,
                 response, client>>

RagReflect == Reflects("rag")
SearchReflect == Reflects("search")

(* Fault: the filters are not handed to the reflection.                    *)
ReflectUnfiltered ==
  /\ at = "reflect"
  /\ loops.context < MaxLoops
  /\ found' \in SUBSET Of(colls)
  /\ docs' = IF On("reranker") THEN docs ELSE found'
  /\ scored' = {}
  /\ at' = IF On("reranker") THEN "rerank" ELSE "score"
  /\ UNCHANGED <<req, op, query, cites, reflection, decomposition, response,
                 client>>

(* It retrieves by text, for an image too, and only while it may judge     *)
(* what it retrieved: with no loops at all it has nothing to return and    *)
(* fails.                                                                  *)
ReflectRetrieve ==
  /\ at = "reflect"
  /\ loops.context < MaxLoops
  /\ IF On("reranker")
     THEN RankedRetrieval
     ELSE PlainRetrieval(Matching(First), "score")
  /\ UNCHANGED <<req, op, query, cites, reflection, decomposition, response,
                 client>>

(* The reranker keeps the best of the documents and scores them.           *)
Rerank ==
  /\ at = "rerank"
  /\ docs' \in SUBSET found
  /\ scored' \in SUBSET docs'
  /\ at' = IF On("reflect") THEN "score" ELSE "shape"
  /\ UNCHANGED <<req, op, query, found, cites, reflection, decomposition,
                 response, client>>

(* Fault: the loops on the context are not counted.                        *)
ScoreUncounted ==
  /\ at = "score"
  /\ at' \in {"shape", "requery"}
  /\ UNCHANGED <<req, op, query, retrieved, context, reflection,
                 decomposition, response, client>>

(* _retry_score_generation_async: a score is always there, 0 where every   *)
(* call failed or named none.                                              *)
Scores == 0..2

(* The context is judged against a threshold; below it the query is        *)
(* rewritten while loops are left.                                         *)
Score ==
  /\ at = "score"
  /\ loops' = [loops EXCEPT !.context = @ + 1]
  /\ \E score \in Scores :
       at' = IF score < ContextThreshold /\ loops'.context < MaxLoops
             THEN "requery" ELSE "shape"
  /\ UNCHANGED <<req, op, query, retrieved, context, judged, decomposition,
                 response, client>>

Requery ==
  /\ at = "requery"
  /\ at' = "reflect"
  /\ UNCHANGED <<req, op, query, retrieved, context, reflection,
                 decomposition, response, client>>

(***************************************************************************)
(* The context, its citations and its expansion.                           *)
(***************************************************************************)
(* filter_documents_by_confidence, where there is a reranker: a document   *)
(* without a score does not pass.                                          *)
Confident(ds) ==
  IF On("reranker") /\ On("threshold") THEN ds \cap scored ELSE ds

(* _expand_and_organize_context: chunks of the same and of neighbouring    *)
(* pages, whatever the filter; a source that cannot be read adds nothing.  *)
Expanded(ds) ==
  IF On("expand")
  THEN {ds \cup more : more \in SUBSET UNION {Near[d] : d \in ds}}
  ELSE {ds}

(* Fault: the citations are built from the expanded context.               *)
RagShapeCitesAll ==
  /\ at = "shape"
  /\ req.kind = "rag"
  /\ docs' \in Expanded(Confident(docs))
  /\ cites' = docs'
  /\ at' = "model"
  /\ UNCHANGED <<req, op, query, retrieved, reflection, decomposition,
                 response, client>>

(* The citations are those of the documents before the expansion.          *)
RagShape ==
  /\ at = "shape"
  /\ req.kind = "rag"
  /\ cites' = Confident(docs)
  /\ docs' \in Expanded(Confident(docs))
  /\ at' = "model"
  /\ UNCHANGED <<req, op, query, retrieved, reflection, decomposition,
                 response, client>>

(* prepare_citations: a document without content, or whose image cannot be *)
(* read, is left out.                                                      *)
Citations(ds) == SUBSET ds

(* search answers with the citations themselves, and closes.               *)
Returns(ds) ==
  /\ docs' = ds
  /\ cites' = ds
  /\ \E cs \in Citations(ds) : shown' = [text |-> "whole", cites |-> cs]
  /\ status' = "ok"
  /\ op' = Closed(op)
  /\ at' = "end"
  /\ UNCHANGED <<req, query, retrieved, reflection, decomposition, body, left>>

SearchShape ==
  /\ at = "shape"
  /\ req.kind = "search"
  /\ ~On("reflect")
  /\ Returns(IF On("image") THEN docs ELSE Confident(docs))

SearchReflected ==
  /\ at = "shape"
  /\ req.kind = "search"
  /\ On("reflect")
  /\ Returns(Confident(docs))

(***************************************************************************)
(* The answer.                                                             *)
(***************************************************************************)
(* The vision model answers for an image, for images among the messages or *)
(* the context, and always where the fallback to the LLM is disabled.      *)
VlmFor == On("image") \/ On("vlm")
VlmOnly == On("image") \/ (On("vlm") /\ On("noFallback"))

RagModel ==
  /\ at = "model"
  /\ \/ VlmFor /\ at' = "vlm"
     \/ ~VlmOnly /\ at' = IF On("reflect") THEN "draft" ELSE "llm"
  /\ UNCHANGED <<req, op, query, retrieved, context, reflection,
                 decomposition, response, client>>

(* _llm_chain and _vlm_direct_chain: an image without a vision model is an *)
(* error raised to the server, the rest as above and without a context.    *)
DirectModel ==
  /\ at = "direct"
  /\ On("image") => On("vlm")
  /\ \/ On("vlm") /\ at' = "vlm"
     \/ ~VlmOnly /\ at' = "llm"
  /\ UNCHANGED <<req, op, query, retrieved, context, reflection,
                 decomposition, response, client>>

DirectRefuses ==
  /\ at = "direct"
  /\ On("image") /\ ~On("vlm")
  /\ EndsWith("message", op)

(* generate returns a response whose generator yields b.                   *)
Answers(b) ==
  /\ at' = "respond"
  /\ body' = b
  /\ status' = "ok"

(* _eager_prefetch_astream: the response is made when the first chunk is   *)
(* there, or when the stream turns out to be empty.                        *)
Prefetched(model, kind, streams) ==
  /\ at = model
  /\ req.kind = kind
  /\ \E b \in streams : Answers(b)
  /\ UNCHANGED <<req, op, query, retrieved, context, reflection,
                 decomposition, client>>

RagLlm == Prefetched("llm", "rag", {"stream", "empty"})
DirectLlm == Prefetched("llm", "direct", {"stream", "empty"})

(* stream_with_messages: chunks that cannot be read are skipped, and a     *)
(* call that fails for anything but the connection ends the stream.        *)
VlmStreams == {"stream", "empty"}

RagVlm == Prefetched("vlm", "rag", VlmStreams)
DirectVlm == Prefetched("vlm", "direct", VlmStreams)

(* With reflection the answer is generated whole, and there is a counter   *)
(* for it, ...                                                             *)
Draft ==
  /\ at = "draft"
  /\ at' = "ground"
  /\ body' = "first"
  /\ loops' = [loops EXCEPT !.answer = 0]
  /\ UNCHANGED <<req, op, query, retrieved, context, judged, decomposition,
                 status, client>>

(* Fault: one counter for both reflections.                                *)
GroundShared ==
  /\ at = "ground"
  /\ IF loops.context < MaxLoops
     THEN /\ loops' = [loops EXCEPT !.context = @ + 1]
          /\ judged' = judged \cup {body}
          /\ \/ at' = "respond" /\ status' = "ok"
             \/ /\ loops'.context < MaxLoops
                /\ at' = "regenerate"
                /\ UNCHANGED status
     ELSE /\ at' = "respond"
          /\ status' = "ok"
          /\ UNCHANGED reflection
  /\ UNCHANGED <<req, op, query, retrieved, context, decomposition, body,
                 client>>

(* ... its groundedness is judged, with a counter of its own, ...          *)
Ground ==
  /\ at = "ground"
  /\ IF loops.answer < MaxLoops
     THEN /\ loops' = [loops EXCEPT !.answer = @ + 1]
          /\ judged' = judged \cup {body}
          /\ \E score \in Scores :
               IF score < AnswerThreshold /\ loops'.answer < MaxLoops
               THEN at' = "regenerate" /\ UNCHANGED status
               ELSE at' = "respond" /\ status' = "ok"
     ELSE /\ at' = "respond"
          /\ status' = "ok"
          /\ UNCHANGED reflection
  /\ UNCHANGED <<req, op, query, retrieved, context, decomposition, body,
                 client>>

(* ... and it is generated again, or given up for the first answer when    *)
(* the query is out of the context.                                        *)
Regenerate ==
  /\ at = "regenerate"
  /\ \/ /\ at' = "ground"
        /\ body' = "again"
        /\ judged' = judged \ {"again"}
        /\ UNCHANGED status
     \/ Answers("first") /\ UNCHANGED judged
  /\ UNCHANGED <<req, op, query, retrieved, context, loops, decomposition,
                 client>>

(***************************************************************************)
(* Query decomposition.  It is given the first collection and no filter.   *)
(***************************************************************************)
(* retrieve_and_rank_documents: the reranker leaves some of the documents, *)
(* if there are any.                                                       *)
RetrievedAndRanked == SUBSET Of(First)

(* normalize_relevance_scores: where the documents have scores, those      *)
(* below the threshold are left out.                                       *)
Normalized(ds) == IF On("threshold") THEN SUBSET ds ELSE {ds}

(* generate_final_response: the answer is made while the client reads it.  *)
FinalResponse(ds) ==
  /\ docs' = ds
  /\ cites' = ds
  /\ Answers("late")

(* generate_subqueries returns the one question there is ...               *)
SingleQuestion ==
  /\ at = "questions"
  /\ found' \in RetrievedAndRanked
  /\ \E ds \in IF On("reranker") THEN Normalized(found') ELSE {found'} :
       /\ FinalResponse(ds)
       /\ scored' = IF On("reranker") THEN ds ELSE {}
  /\ UNCHANGED <<req, op, query, reflection, decomposition, client>>

(* ... or several, or none it can read: the rounds are gone through.       *)
Questions ==
  /\ at = "questions"
  /\ todo' \in (0..MaxQuestions) \ {1}
  /\ at' = IF Depth > 0 THEN "subquery" ELSE "merge"
  /\ UNCHANGED <<req, op, query, retrieved, context, reflection, round,
                 answered, response, client>>

(* Each question of the round is rewritten with the answers before it, ... *)
SubRewrite ==
  /\ at = "subquery"
  /\ todo > 0
  /\ at' = "subretrieve"
  /\ UNCHANGED <<req, op, query, retrieved, context, reflection,
                 decomposition, response, client>>

(* ... its documents are kept, ...                                         *)
SubRetrieve ==
  /\ at = "subretrieve"
  /\ \E ds \in RetrievedAndRanked : found' = found \cup ds
  /\ at' = "subanswer"
  /\ UNCHANGED <<req, op, query, scored, context, reflection, decomposition,
                 response, client>>

(* ... and it is answered.                                                 *)
SubAnswer ==
  /\ at = "subanswer"
  /\ todo' = todo - 1
  /\ answered' = TRUE
  /\ at' = "subquery"
  /\ UNCHANGED <<req, op, query, retrieved, context, reflection, round,
                 response, client>>

(* generate_followup_question: a question, or nothing left to ask.         *)
FollowUps == {0, 1}

(* After the round: a follow-up question is the next round, unless there   *)
(* is none, it is known to have no answer, or the depth is reached.        *)
FollowUp ==
  /\ at = "subquery"
  /\ todo = 0
  /\ round' = round + 1
  /\ todo' \in FollowUps
  /\ \/ todo' = 1 /\ round' < Depth /\ UNCHANGED at
     \/ /\ todo' = 0 \/ answered \/ round' >= Depth
        /\ at' = "merge"
  /\ UNCHANGED <<req, op, query, retrieved, context, reflection, answered,
                 response, client>>

(* The documents of the query and of all questions, reranked as one list.  *)
Merge ==
  /\ at = "merge"
  /\ \E ds \in RetrievedAndRanked : found' = found \cup ds
  /\ \E ds \in IF On("reranker") THEN SUBSET found' ELSE {found'} :
       FinalResponse(ds)
  /\ UNCHANGED <<req, op, query, scored, reflection, decomposition, client>>

(***************************************************************************)
(* The agentic pipeline: its graph is the module AgenticRag.  A streamed   *)
(* answer is made while the client reads it; otherwise the graph runs      *)
(* first and its failure is a message.                                     *)
(***************************************************************************)
Sought ==
  {d \in Docs : /\ CollOf[d] \in colls
                /\ On("filter") /\ ~On("generator") => d \in Passing}

(* The graph is built with the first request of the pipeline and kept.     *)
AgentReady ==
  /\ at = "graph"
  /\ at' = "agent"
  /\ UNCHANGED <<req, op, query, retrieved, context, reflection,
                 decomposition, response, client>>

Agent ==
  /\ at = "agent"
  /\ found' \in SUBSET Sought
  /\ docs' = found'
  /\ cites' \in SUBSET found'
  /\ Answers(IF On("stream") THEN "late" ELSE "stream")
  /\ UNCHANGED <<req, op, query, scored, reflection, decomposition, client>>

AgentFails ==
  /\ at = "agent"
  /\ ~On("stream")
  /\ at' = "respond"
  /\ body' = "message"
  /\ status' = "error"
  /\ UNCHANGED <<req, op, query, retrieved, context, reflection,
                 decomposition, client>>

(***************************************************************************)
(* The response: generate_answer_async inside _with_vdb_cleanup.           *)
(***************************************************************************)
StartBody ==
  /\ at = "respond"
  /\ at' = "stream"
  /\ UNCHANGED <<req, op, query, retrieved, context, reflection,
                 decomposition, response, client>>

(* The citations come with the first chunk (a refusal of the guardrails    *)
(* clears them); the agentic pipeline brings them along.                   *)
FirstChunk ==
  /\ at = "stream"
  /\ body # "empty"
  /\ shown.text = "nothing"
  /\ \E cs \in IF On("citations") THEN Citations(cites) ELSE {{}} :
       shown' = [text  |-> IF body = "message" THEN "message" ELSE "some",
                 cites |-> IF body = "message" THEN {} ELSE cs]
  /\ UNCHANGED <<req, at, op, query, retrieved, context, reflection,
                 decomposition, response, left>>

(* The generator ends, and what encloses it closes the operator.           *)
LastChunk ==
  /\ at = "stream"
  /\ shown.text = "nothing" => body = "empty"
  /\ shown' = [shown EXCEPT !.text = IF @ = "some" THEN "whole" ELSE @]
  /\ op' = Closed(op)
  /\ at' = "end"
  /\ UNCHANGED <<req, query, retrieved, context, reflection, decomposition,
                 response, left>>

(* The call behind the generator fails: after the first chunk, which has   *)
(* been prefetched, or at once where nothing is prefetched.                *)
Break ==
  /\ at = "stream"
  /\ body \in {"stream", "late"}
  /\ shown.text = "nothing" => body = "late"
  /\ shown' = [shown EXCEPT !.text = "broken"]
  /\ op' = Closed(op)
  /\ at' = "end"
  /\ UNCHANGED <<req, query, retrieved, context, reflection, decomposition,
                 response, left>>

(***************************************************************************)
(* The client.                                                             *)
(***************************************************************************)
(* Fault: the generator closes after its loop, not in a finally.           *)
LeaveOpen ==
  /\ at \in {"respond", "stream"}
  /\ left' = IF at = "respond" THEN "unstarted" ELSE "streaming"
  /\ at' = "end"
  /\ UNCHANGED <<req, op, query, retrieved, context, reflection,
                 decomposition, response, shown>>

(* It leaves during the response: the finally of the generator runs, but   *)
(* only if the generator was started.                                      *)
Leave ==
  /\ at \in {"respond", "stream"}
  /\ left' = IF at = "respond" THEN "unstarted" ELSE "streaming"
  /\ op' = IF at = "respond" THEN op ELSE Closed(op)
  /\ at' = "end"
  /\ UNCHANGED <<req, query, retrieved, context, reflection, decomposition,
                 response, shown>>

(* The handler is cancelled at an await.  search closes in a finally;      *)
(* generate closes on Exception, which a cancellation is not.              *)
Awaiting ==
  \/ at \in {"rerank", "score", "requery", "vlm", "llm", "draft", "ground",
             "regenerate", "questions", "subanswer", "graph", "agent"}
  \/ at = "rewrite" /\ Rewrites
  \/ at = "subquery" /\ AsksModel

Cancel ==
  /\ Awaiting
  /\ left' = "cancelled"
  /\ op' = IF req.kind = "search" THEN Closed(op) ELSE op
  /\ status' = "error"
  /\ shown' = [text |-> "message", cites |-> {}]
  /\ at' = "end"
  /\ UNCHANGED <<req, query, retrieved, context, reflection, decomposition,
                 body>>

(***************************************************************************)
(* The request as a whole.                                                 *)
(***************************************************************************)
Pipeline ==
  \/ Refuse \/ Accept \/ RefuseSearch
  \/ RagFails \/ DirectLlmFails \/ DirectVlmFails \/ SearchFails \/ AgenticFails
  \/ RagCheck \/ SearchCheck \/ AgenticCheck
  \/ RagRewrite \/ SearchRewrite \/ AgenticRewrite
  \/ RagFilters \/ SearchFilters
  \/ RagRetrieve \/ SearchRetrieve \/ RagReflect \/ SearchReflect
  \/ ReflectRetrieve \/ Rerank \/ Score \/ Requery
  \/ RagShape \/ SearchShape \/ SearchReflected
  \/ RagModel \/ DirectModel \/ DirectRefuses
  \/ RagLlm \/ DirectLlm \/ RagVlm \/ DirectVlm
  \/ Draft \/ Ground \/ Regenerate
  \/ SingleQuestion \/ Questions \/ SubRewrite \/ SubRetrieve \/ SubAnswer
  \/ FollowUp \/ Merge
  \/ AgentReady \/ Agent \/ AgentFails

Streaming == StartBody \/ FirstChunk \/ LastChunk \/ Break

Server == Pipeline \/ Streaming

Done == at = "end" /\ UNCHANGED vars

Next == Server \/ Leave \/ Cancel \/ Done

Spec == Init /\ [][Next]_vars

FairSpec == Spec /\ WF_vars(Server)
(***************************************************************************)
(* Properties                                                              *)
(***************************************************************************)
(* Cleanup: the operator of a request is closed when nothing uses it any   *)
(* more, a shared one never, and what is left open at the end is left by a *)
(* client that went away before the response began or while generate       *)
(* worked, or by a search refused after the operator was made              *)
(* (_with_vdb_cleanup, the except and finally blocks).                     *)
OneOffClosed ==
  /\ op = "closed" => On("oneOff") /\ at = "end"
  /\ at = "end" /\ op = "open" =>
       \/ left = "unstarted"
       \/ left = "cancelled" /\ req.kind # "search"
       \/ shown.text = "refused" /\ req.kind = "search"

(* Citations: what the client is told an answer comes from is in the last  *)
(* retrieval of the request, in the collections it named and in what the   *)
(* model was given; an error and a request without citations have none     *)
(* (context_to_show against docs_for_citations, contexts of error          *)
(* responses).                                                             *)
CitesRight ==
  /\ shown.cites \subseteq docs \cap found
  /\ \A d \in shown.cites : CollOf[d] \in In(req.names) \cap colls
  /\ status = "error" => shown.cites = {}
  /\ shown.cites # {} => On("citations") \/ req.kind = "search"

(* Filter and threshold: through reflection, reranking and rewriting, the  *)
(* documents an answer cites pass the filter of the user and, where there  *)
(* are scores, the confidence threshold.  Not so for an image, whose       *)
(* retrieval takes no filter, and for a decomposed query                   *)
(* (collection_filter_mapping, filter_documents_by_confidence).            *)
ContextRespects ==
  req.kind \in {"rag", "search"} /\ ~On("image") /\ ~On("decompose") =>
    /\ On("filter") /\ ~On("generator") => cites \subseteq Passing
    /\ On("threshold") /\ On("reranker") => cites \subseteq scored

(* Reflection: no answer of the RAG chain's own LLM reaches the client     *)
(* without having been judged, the one generated in the last loop          *)
(* included, and the loops spent on the context take none away from the    *)
(* answer (the two ReflectionCounters).  An answer of the VLM (main.py,    *)
(* from 3530) and one of a decomposed query (3141) goes out unjudged even  *)
(* with reflection on, and so does one of the agentic or the direct chain. *)
AnswerJudged ==
  /\ at \in {"respond", "stream", "end"}
  /\ body \in {"first", "again"}
  /\ status = "ok"
  /\ MaxLoops > 0
  => body \in judged

(* Termination: a request ends whatever fails, the rounds of reflection    *)
(* and of decomposition included.                                          *)
Ends == <>(at = "end")

(* The documents an answer rests on pass the filter of the request         *)
(* ("Filter expression to filter documents from vector database.", the     *)
(* request model of POST /generate).                                       *)
FilterKept ==
  req.kind = "rag" /\ On("filter") /\ ~On("generator") =>
    cites \subseteq Passing

=============================================================================
