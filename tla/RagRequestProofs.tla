-------------------------- MODULE RagRequestProofs --------------------------
(* Proofs about one request to the RAG server, for every set of documents, *)
(* collections and requests and every depth of reflection and              *)
(* decomposition; and, in the last part, about the connection to Milvus    *)
(* that the operators of the requests share (MilvusConnections).           *)
EXTENDS RagRequest, MilvusConnections, FiniteSetTheorems, TLAPS

-----------------------------------------------------------------------------
(* The inductive invariant                                                 *)

(* The operator, by where the request is.                                  *)
Opened ==
  /\ at \in {"new", "direct"} => op = "none"
  /\ op \in {"open", "closed"} => On("oneOff")
  /\ op = "closed" => at = "end"
  /\ at = "end" /\ op = "open" =>
       \/ left = "unstarted"
       \/ left = "cancelled" /\ req.kind # "search"
       \/ shown.text = "refused" /\ req.kind = "search"

(* The phases that come after the context is complete.                     *)
Answering == {"model", "vlm", "llm", "draft", "ground", "regenerate",
              "respond", "stream", "end"}

(* The collections stay those of the check, and what is retrieved is in    *)
(* them.                                                                   *)
Selected ==
  /\ colls \subseteq In(req.names)
  /\ found \subseteq Of(colls)
  /\ at \in {"new", "check"} => colls = {} /\ found = {}
  /\ at \in {"score", "shape"} => docs \subseteq found

(* Citations are documents of the context, and those shown are citations.  *)
Cited ==
  /\ cites # {} => at \in Answering
  /\ cites \subseteq docs \cap found
  /\ shown.cites \subseteq cites
  /\ shown.cites # {} => On("citations") \/ req.kind = "search"
  /\ shown.cites # {} => at \in {"stream", "end"}
  /\ status = "error" => shown.cites = {}
  /\ at \in {"respond", "stream"} /\ status = "error" => body = "message"

(* Which requests are restricted by the filter of their user.              *)
UserFilter ==
  /\ req.kind \in {"rag", "search"}
  /\ ~On("image") /\ ~On("decompose")
  /\ On("filter") /\ ~On("generator")

Thresholded ==
  /\ req.kind \in {"rag", "search"}
  /\ ~On("image") /\ ~On("decompose")
  /\ On("threshold") /\ On("reranker")

Restricted ==
  /\ at \in {"questions", "subquery", "subretrieve", "subanswer", "merge"} =>
       On("decompose")
  /\ at \in {"subretrieve", "subanswer"} => todo > 0
  /\ at \in {"graph", "agent"} => req.kind = "agentic"
  /\ UserFilter /\ at \notin {"new", "check"} =>
       \A c \in colls : filter[c] = "user"
  /\ UserFilter => found \subseteq Passing
  /\ Thresholded => cites \subseteq scored

(* The answers of the reflection, by what has been done about them.        *)
Judged ==
  /\ at \notin {"ground", "regenerate", "respond", "stream", "end"} =>
       loops.answer = 0 /\ body = "none"
  /\ at \notin {"respond", "stream", "end"} => status = "none"
  /\ at \in {"ground", "regenerate"} =>
       body \in {"first", "again"} /\ (MaxLoops > 0 => loops.answer < MaxLoops)
  /\ at = "regenerate" => MaxLoops > 0 /\ "first" \in judged
  /\ at = "ground" /\ body = "again" => "first" \in judged
  /\ AnswerJudged

IInv == TypeOK /\ Opened /\ Selected /\ Cited /\ Restricted /\ Judged
LEMMA NamesIn == TypeOK => In(req.names) \subseteq Colls
<1> SUFFICES ASSUME TypeOK PROVE In(req.names) \subseteq Colls
  OBVIOUS
<1>1. req.names \in Seq(Colls)
  BY DEF TypeOK, Request
<1> QED
  BY <1>1 DEF In

LEMMA TypeNext == IInv /\ [Next]_vars => TypeOK'
<1> SUFFICES ASSUME IInv, [Next]_vars PROVE TypeOK'
  OBVIOUS
<1> USE RequestAssumption DEF IInv, TypeOK, Phases,
           query, retrieved, context, reflection, decomposition, response, client
<1>1. CASE Refuse
  BY <1>1 DEF Refuse, EndsWith
<1>2. CASE DirectRefuses
  BY <1>2 DEF DirectRefuses, EndsWith
<1>3. CASE RefuseSearch
  BY <1>3 DEF RefuseSearch, EndsWith, Prepared
<1>4. CASE SearchFails
  BY <1>4 DEF SearchFails, EndsWith, Closed, MayFail, Rewrites,
       AsksModel
<1>5. CASE AgenticFails
  BY <1>5 DEF AgenticFails, EndsWith, Closed, MayFail, Rewrites,
       AsksModel
<1>6. CASE RagFails \/ DirectLlmFails \/ DirectVlmFails \/ AgentFails
  BY <1>6 DEF RagFails, DirectLlmFails, DirectVlmFails, DirectFails,
       AgentFails, MayFail, Rewrites, AsksModel
<1>7. CASE RagCheck
  BY <1>7, NamesIn DEF RagCheck, Check, Validated, Mapped, On
<1>8. CASE SearchCheck
  BY <1>8, NamesIn DEF SearchCheck, Check, Validated, Mapped, On
<1>9. CASE AgenticCheck
  BY <1>9, NamesIn DEF AgenticCheck, Check
<1>10. CASE Accept
  BY <1>10 DEF Accept, Prepared
<1>11. CASE RagRewrite
  BY <1>11 DEF RagRewrite, Rewrite
<1>12. CASE SearchRewrite
  BY <1>12 DEF SearchRewrite, Rewrite
<1>13. CASE AgenticRewrite
  BY <1>13 DEF AgenticRewrite, Rewrite
<1>14. CASE Requery \/ AgentReady
  <2>1. CASE Requery
    BY <2>1 DEF Requery
  <2>2. CASE AgentReady
    BY <2>2 DEF AgentReady
  <2> QED
    BY <1>14, <2>1, <2>2
<1>15. CASE RagModel
  BY <1>15 DEF RagModel
<1>16. CASE DirectModel
  BY <1>16 DEF DirectModel
<1>17. CASE StartBody
  BY <1>17 DEF StartBody
<1>18. CASE RagFilters
  BY <1>18 DEF RagFilters, Filters, Generated, Decomposes
<1>19. CASE SearchFilters
  BY <1>19 DEF SearchFilters, Filters, Generated, Decomposes
<1>20. CASE RagRetrieve
  BY <1>20 DEF RagRetrieve, RankedRetrieval, PlainRetrieval, Matching, First,
       Of
<1>21. CASE SearchRetrieve
  BY <1>21 DEF SearchRetrieve, RankedRetrieval, PlainRetrieval, Matching,
       First, Of
<1>22. CASE RagReflect \/ SearchReflect \/ ReflectRetrieve
  BY <1>22 DEF RagReflect, SearchReflect, Reflects, ReflectRetrieve,
       RankedRetrieval, PlainRetrieval, Matching, First, Of
<1>23. CASE Rerank \/ Score
  BY <1>23 DEF Rerank, Score, Scores
<1>24. CASE RagShape \/ SearchShape \/ SearchReflected
  BY <1>24 DEF RagShape, SearchShape, SearchReflected, Returns,
       Citations, Expanded, Confident, Closed
<1>25. CASE RagLlm \/ DirectLlm \/ RagVlm \/ DirectVlm \/ Draft \/ Ground
     \/ Regenerate
  BY <1>25 DEF RagLlm, DirectLlm, RagVlm, DirectVlm, Prefetched,
       VlmStreams, Draft, Ground, Scores, Regenerate, Answers, Judged
<1>26. CASE SingleQuestion
  BY <1>26 DEF SingleQuestion, FinalResponse, Normalized, RetrievedAndRanked,
       Answers, First, Of
<1>27. CASE Questions \/ SubRewrite \/ SubRetrieve \/ SubAnswer
  <2>1. CASE Questions
    BY <2>1 DEF Questions
  <2>2. CASE SubRewrite
    BY <2>2 DEF SubRewrite
  <2>3. CASE SubRetrieve
    BY <2>3 DEF SubRetrieve, RetrievedAndRanked, First, Of
  <2>4. CASE SubAnswer
    BY <2>4 DEF SubAnswer, Restricted
  <2> QED
    BY <1>27, <2>1, <2>2, <2>3, <2>4
<1>28. CASE FollowUp
  BY <1>28 DEF FollowUp, FollowUps
<1>29. CASE Merge
  BY <1>29 DEF Merge, FinalResponse, RetrievedAndRanked, Answers, First, Of
<1>30. CASE Agent
  BY <1>30 DEF Agent, Answers, Sought
<1>31. CASE FirstChunk \/ LastChunk \/ Break
  BY <1>31 DEF FirstChunk, LastChunk, Break, Citations, Closed
<1>32. CASE Leave
  BY <1>32 DEF Leave, Closed
<1>33. CASE Cancel
  BY <1>33 DEF Cancel, Closed, Awaiting, Rewrites, AsksModel
<1>34. CASE UNCHANGED vars
  BY <1>34 DEF vars
<1> QED
  BY <1>1, <1>2, <1>3, <1>4, <1>5, <1>6, <1>7, <1>8, <1>9, <1>10, <1>11,
       <1>12, <1>13, <1>14, <1>15, <1>16, <1>17, <1>18, <1>19, <1>20, <1>21,
       <1>22, <1>23, <1>24, <1>25, <1>26, <1>27, <1>28, <1>29, <1>30, <1>31,
       <1>32, <1>33, <1>34 DEF Next, Server, Pipeline, Streaming, Done

LEMMA OpenedNext == IInv /\ [Next]_vars => Opened'
<1> SUFFICES ASSUME IInv, [Next]_vars PROVE Opened'
  OBVIOUS
<1> USE RequestAssumption DEF IInv, TypeOK, Phases, Opened, On,
           query, retrieved, context, reflection, decomposition, response, client
<1>1. CASE Refuse \/ RefuseSearch \/ DirectRefuses \/ SearchFails \/
     AgenticFails
  BY <1>1 DEF Refuse, RefuseSearch, DirectRefuses, SearchFails, AgenticFails,
       EndsWith, Prepared, Closed, MayFail, Rewrites, AsksModel
<1>2. CASE RagFails \/ DirectLlmFails \/ DirectVlmFails \/ AgentFails
  BY <1>2 DEF RagFails, DirectLlmFails, DirectVlmFails, DirectFails,
       AgentFails, MayFail, Rewrites, AsksModel
<1>3. CASE RagCheck \/ SearchCheck \/ AgenticCheck
  BY <1>3 DEF RagCheck, SearchCheck, AgenticCheck, Check, Validated, Mapped
<1>4. CASE Accept \/ RagRewrite \/ SearchRewrite \/ AgenticRewrite \/ Requery
     \/ RagModel \/ DirectModel \/ StartBody \/ AgentReady
  BY <1>4 DEF Accept, RagRewrite, SearchRewrite, AgenticRewrite, Requery,
       RagModel, DirectModel, StartBody, AgentReady, Prepared, Rewrite
<1>5. CASE RagFilters \/ SearchFilters
  BY <1>5 DEF RagFilters, SearchFilters, Filters, Generated, Decomposes
<1>6. CASE RagRetrieve \/ SearchRetrieve \/ RagReflect \/ SearchReflect
     \/ ReflectRetrieve
  BY <1>6 DEF RagRetrieve, SearchRetrieve, RagReflect, SearchReflect,
       Reflects, ReflectRetrieve, RankedRetrieval, PlainRetrieval, Matching,
       First, Of
<1>7. CASE Rerank \/ Score
  BY <1>7 DEF Rerank, Score, Scores
<1>8. CASE RagShape \/ SearchShape \/ SearchReflected
  BY <1>8 DEF RagShape, SearchShape, SearchReflected, Returns,
       Citations, Expanded, Confident, Closed
<1>9. CASE RagLlm \/ DirectLlm \/ RagVlm \/ DirectVlm \/ Draft \/ Ground
     \/ Regenerate
  BY <1>9 DEF RagLlm, DirectLlm, RagVlm, DirectVlm, Prefetched,
       VlmStreams, Draft, Ground, Scores, Regenerate, Answers
<1>10. CASE SingleQuestion \/ Questions \/ SubRewrite \/ SubRetrieve
     \/ SubAnswer \/ FollowUp \/ Merge
  BY <1>10 DEF SingleQuestion, Questions, SubRewrite, SubRetrieve,
       SubAnswer, FollowUp, FollowUps, Merge, FinalResponse, Normalized,
       RetrievedAndRanked, Answers, First, Of
<1>11. CASE Agent
  BY <1>11 DEF Agent, Answers, Sought
<1>12. CASE FirstChunk \/ LastChunk \/ Break
  BY <1>12 DEF FirstChunk, LastChunk, Break, Citations, Closed
<1>13. CASE Leave \/ Cancel
  BY <1>13 DEF Leave, Cancel, Closed, Awaiting, Rewrites, AsksModel
<1>14. CASE UNCHANGED vars
  BY <1>14 DEF vars
<1> QED
  BY <1>1, <1>2, <1>3, <1>4, <1>5, <1>6, <1>7, <1>8, <1>9, <1>10, <1>11,
       <1>12, <1>13, <1>14 DEF Next, Server, Pipeline, Streaming, Done

LEMMA SelectedNext == IInv /\ [Next]_vars => Selected'
<1> SUFFICES ASSUME IInv, [Next]_vars PROVE Selected'
  OBVIOUS
<1> USE RequestAssumption DEF IInv, TypeOK, Phases, Selected, On, In, Of, Request,
           query, retrieved, context, reflection, decomposition, response, client
<1>1. CASE Refuse \/ RefuseSearch \/ DirectRefuses \/ SearchFails \/
     AgenticFails
  BY <1>1 DEF Refuse, RefuseSearch, DirectRefuses, SearchFails, AgenticFails,
       EndsWith, Prepared, Closed, MayFail, Rewrites, AsksModel
<1>2. CASE RagFails \/ DirectLlmFails \/ DirectVlmFails \/ AgentFails
  BY <1>2 DEF RagFails, DirectLlmFails, DirectVlmFails, DirectFails,
       AgentFails, MayFail, Rewrites, AsksModel
<1>3. CASE RagCheck \/ SearchCheck \/ AgenticCheck
  BY <1>3 DEF RagCheck, SearchCheck, AgenticCheck, Check, Validated, Mapped
<1>4. CASE Accept \/ RagRewrite \/ SearchRewrite \/ AgenticRewrite \/ Requery
     \/ RagModel \/ DirectModel \/ StartBody \/ AgentReady
  BY <1>4 DEF Accept, RagRewrite, SearchRewrite, AgenticRewrite, Requery,
       RagModel, DirectModel, StartBody, AgentReady, Prepared, Rewrite
<1>5. CASE RagFilters \/ SearchFilters
  BY <1>5 DEF RagFilters, SearchFilters, Filters, Generated, Decomposes
<1>6. CASE RagRetrieve \/ SearchRetrieve \/ RagReflect \/ SearchReflect
     \/ ReflectRetrieve
  BY <1>6 DEF RagRetrieve, SearchRetrieve, RagReflect, SearchReflect,
       Reflects, ReflectRetrieve, RankedRetrieval, PlainRetrieval, Matching,
       First
<1>7. CASE Rerank \/ Score
  BY <1>7 DEF Rerank, Score, Scores
<1>8. CASE RagShape \/ SearchShape \/ SearchReflected
  BY <1>8 DEF RagShape, SearchShape, SearchReflected, Returns,
       Citations, Expanded, Confident, Closed
<1>9. CASE RagLlm \/ DirectLlm \/ RagVlm \/ DirectVlm \/ Draft \/ Ground
     \/ Regenerate
  BY <1>9 DEF RagLlm, DirectLlm, RagVlm, DirectVlm, Prefetched,
       VlmStreams, Draft, Ground, Scores, Regenerate, Answers
<1>10. CASE SingleQuestion \/ Questions \/ SubRewrite \/ SubRetrieve
     \/ SubAnswer \/ FollowUp \/ Merge
  BY <1>10 DEF SingleQuestion, Questions, SubRewrite, SubRetrieve,
       SubAnswer, FollowUp, FollowUps, Merge, FinalResponse, Normalized,
       RetrievedAndRanked, Answers, First
<1>11. CASE Agent
  BY <1>11 DEF Agent, Answers, Sought
<1>12. CASE FirstChunk \/ LastChunk \/ Break
  BY <1>12 DEF FirstChunk, LastChunk, Break, Citations, Closed
<1>13. CASE Leave \/ Cancel
  BY <1>13 DEF Leave, Cancel, Closed, Awaiting, Rewrites, AsksModel
<1>14. CASE UNCHANGED vars
  BY <1>14 DEF vars
<1> QED
  BY <1>1, <1>2, <1>3, <1>4, <1>5, <1>6, <1>7, <1>8, <1>9, <1>10, <1>11,
       <1>12, <1>13, <1>14 DEF Next, Server, Pipeline, Streaming, Done

LEMMA CitedNext == IInv /\ [Next]_vars => Cited'
<1> SUFFICES ASSUME IInv, [Next]_vars PROVE Cited'
  OBVIOUS
<1> USE RequestAssumption DEF IInv, TypeOK, Phases, Cited, On, Selected, Answering, Judged,
           query, retrieved, context, reflection, decomposition, response, client
<1>1. CASE Refuse \/ RefuseSearch \/ DirectRefuses \/ SearchFails \/
     AgenticFails
  BY <1>1 DEF Refuse, RefuseSearch, DirectRefuses, SearchFails, AgenticFails,
       EndsWith, Prepared, Closed, MayFail, Rewrites, AsksModel
<1>2. CASE RagFails \/ DirectLlmFails \/ DirectVlmFails \/ AgentFails
  BY <1>2 DEF RagFails, DirectLlmFails, DirectVlmFails, DirectFails,
       AgentFails, MayFail, Rewrites, AsksModel
<1>3. CASE RagCheck \/ SearchCheck \/ AgenticCheck
  BY <1>3 DEF RagCheck, SearchCheck, AgenticCheck, Check, Validated, Mapped
<1>4. CASE Accept \/ RagRewrite \/ SearchRewrite \/ AgenticRewrite \/ Requery
     \/ RagModel \/ DirectModel \/ StartBody \/ AgentReady
  BY <1>4 DEF Accept, RagRewrite, SearchRewrite, AgenticRewrite, Requery,
       RagModel, DirectModel, StartBody, AgentReady, Prepared, Rewrite
<1>5. CASE RagFilters \/ SearchFilters
  BY <1>5 DEF RagFilters, SearchFilters, Filters, Generated, Decomposes
<1>6. CASE RagRetrieve \/ SearchRetrieve \/ RagReflect \/ SearchReflect
     \/ ReflectRetrieve
  BY <1>6 DEF RagRetrieve, SearchRetrieve, RagReflect, SearchReflect,
       Reflects, ReflectRetrieve, RankedRetrieval, PlainRetrieval, Matching,
       First, Of
<1>7. CASE Rerank \/ Score
  BY <1>7 DEF Rerank, Score, Scores
<1>8. CASE RagShape \/ SearchShape \/ SearchReflected
  BY <1>8 DEF RagShape, SearchShape, SearchReflected, Returns,
       Citations, Expanded, Confident, Closed
<1>9. CASE RagLlm \/ DirectLlm \/ RagVlm \/ DirectVlm \/ Draft \/ Ground
     \/ Regenerate
  BY <1>9 DEF RagLlm, DirectLlm, RagVlm, DirectVlm, Prefetched,
       VlmStreams, Draft, Ground, Scores, Regenerate, Answers
<1>10. CASE SingleQuestion \/ Questions \/ SubRewrite \/ SubRetrieve
     \/ SubAnswer \/ FollowUp \/ Merge
  BY <1>10 DEF SingleQuestion, Questions, SubRewrite, SubRetrieve,
       SubAnswer, FollowUp, FollowUps, Merge, FinalResponse, Normalized,
       RetrievedAndRanked, Answers, First, Of
<1>11. CASE Agent
  BY <1>11 DEF Agent, Answers, Sought
<1>12. CASE FirstChunk \/ LastChunk \/ Break
  BY <1>12 DEF FirstChunk, LastChunk, Break, Citations, Closed
<1>13. CASE Leave \/ Cancel
  BY <1>13 DEF Leave, Cancel, Closed, Awaiting, Rewrites, AsksModel
<1>14. CASE UNCHANGED vars
  BY <1>14 DEF vars
<1> QED
  BY <1>1, <1>2, <1>3, <1>4, <1>5, <1>6, <1>7, <1>8, <1>9, <1>10, <1>11,
       <1>12, <1>13, <1>14 DEF Next, Server, Pipeline, Streaming, Done

LEMMA RestrictedNext == IInv /\ [Next]_vars => Restricted'
<1> SUFFICES ASSUME IInv, [Next]_vars PROVE Restricted'
  OBVIOUS
<1> USE RequestAssumption DEF IInv, TypeOK, Restricted, Selected, UserFilter, Thresholded, On, Cited, Answering,
           query, retrieved, context, reflection, decomposition, response, client
<1>1. CASE Refuse \/ RefuseSearch \/ DirectRefuses \/ SearchFails \/
     AgenticFails
  BY <1>1 DEF Refuse, RefuseSearch, DirectRefuses, SearchFails, AgenticFails,
       EndsWith, Prepared, Closed, MayFail, Rewrites, AsksModel
<1>2. CASE RagFails \/ DirectLlmFails \/ DirectVlmFails \/ AgentFails
  BY <1>2 DEF RagFails, DirectLlmFails, DirectVlmFails, DirectFails,
       AgentFails, MayFail, Rewrites, AsksModel
<1>3. CASE RagCheck \/ SearchCheck \/ AgenticCheck
  BY <1>3, NamesIn DEF RagCheck, SearchCheck, AgenticCheck, Check, Validated,
       Mapped
<1>4. CASE Accept \/ RagRewrite \/ SearchRewrite \/ AgenticRewrite \/ Requery
     \/ RagModel \/ DirectModel \/ StartBody \/ AgentReady
  BY <1>4 DEF Accept, RagRewrite, SearchRewrite, AgenticRewrite, Requery,
       RagModel, DirectModel, StartBody, AgentReady, Prepared, Rewrite
<1>5. CASE RagFilters \/ SearchFilters
  BY <1>5 DEF RagFilters, SearchFilters, Filters, Generated, Decomposes
<1>6. CASE RagRetrieve \/ SearchRetrieve \/ RagReflect \/ SearchReflect
     \/ ReflectRetrieve
  BY <1>6 DEF RagRetrieve, SearchRetrieve, RagReflect, SearchReflect,
       Reflects, ReflectRetrieve, RankedRetrieval, PlainRetrieval, Matching,
       First, Of
<1>7. CASE Rerank \/ Score
  BY <1>7 DEF Rerank, Score, Scores
<1>8. CASE RagShape \/ SearchShape \/ SearchReflected
  BY <1>8 DEF RagShape, SearchShape, SearchReflected, Returns,
       Citations, Expanded, Confident, Closed
<1>9. CASE RagLlm \/ DirectLlm \/ RagVlm \/ DirectVlm \/ Draft \/ Ground
     \/ Regenerate
  BY <1>9 DEF RagLlm, DirectLlm, RagVlm, DirectVlm, Prefetched,
       VlmStreams, Draft, Ground, Scores, Regenerate, Answers
<1>10. CASE SingleQuestion \/ Questions \/ SubRewrite \/ SubRetrieve
     \/ SubAnswer \/ FollowUp \/ Merge
  BY <1>10 DEF SingleQuestion, Questions, SubRewrite, SubRetrieve,
       SubAnswer, FollowUp, FollowUps, Merge, FinalResponse, Normalized,
       RetrievedAndRanked, Answers, First, Of
<1>11. CASE Agent
  BY <1>11 DEF Agent, Answers, Sought
<1>12. CASE FirstChunk \/ LastChunk \/ Break
  BY <1>12 DEF FirstChunk, LastChunk, Break, Citations, Closed
<1>13. CASE Leave \/ Cancel
  BY <1>13 DEF Leave, Cancel, Closed, Awaiting, Rewrites, AsksModel
<1>14. CASE UNCHANGED vars
  BY <1>14 DEF vars
<1> QED
  BY <1>1, <1>2, <1>3, <1>4, <1>5, <1>6, <1>7, <1>8, <1>9, <1>10, <1>11,
       <1>12, <1>13, <1>14 DEF Next, Server, Pipeline, Streaming, Done

LEMMA JudgedNext == IInv /\ [Next]_vars => Judged'
<1> SUFFICES ASSUME IInv, [Next]_vars PROVE Judged'
  OBVIOUS
<1> USE RequestAssumption DEF IInv, TypeOK, Judged, AnswerJudged,
           query, retrieved, context, reflection, decomposition, response, client
<1>1. CASE Refuse \/ RefuseSearch \/ DirectRefuses \/ SearchFails \/
     AgenticFails
  BY <1>1 DEF Refuse, RefuseSearch, DirectRefuses, SearchFails, AgenticFails,
       EndsWith, Prepared, Closed, MayFail, Rewrites, AsksModel
<1>2. CASE RagFails \/ DirectLlmFails \/ DirectVlmFails \/ AgentFails
  BY <1>2 DEF RagFails, DirectLlmFails, DirectVlmFails, DirectFails,
       AgentFails, MayFail, Rewrites, AsksModel
<1>3. CASE RagCheck \/ SearchCheck \/ AgenticCheck
  BY <1>3 DEF RagCheck, SearchCheck, AgenticCheck, Check, Validated, Mapped
<1>4. CASE Accept \/ RagRewrite \/ SearchRewrite \/ AgenticRewrite \/ Requery
     \/ RagModel \/ DirectModel \/ StartBody \/ AgentReady
  BY <1>4 DEF Accept, RagRewrite, SearchRewrite, AgenticRewrite, Requery,
       RagModel, DirectModel, StartBody, AgentReady, Prepared, Rewrite
<1>5. CASE RagFilters \/ SearchFilters
  BY <1>5 DEF RagFilters, SearchFilters, Filters, Generated, Decomposes
<1>6. CASE RagRetrieve \/ SearchRetrieve \/ RagReflect \/ SearchReflect
     \/ ReflectRetrieve
  BY <1>6 DEF RagRetrieve, SearchRetrieve, RagReflect, SearchReflect,
       Reflects, ReflectRetrieve, RankedRetrieval, PlainRetrieval, Matching,
       First, Of
<1>7. CASE Rerank \/ Score
  BY <1>7 DEF Rerank, Score, Scores
<1>8. CASE RagShape \/ SearchShape \/ SearchReflected
  BY <1>8 DEF RagShape, SearchShape, SearchReflected, Returns,
       Citations, Expanded, Confident, Closed
<1>9. CASE RagLlm \/ DirectLlm \/ RagVlm \/ DirectVlm \/ Draft \/ Ground
     \/ Regenerate
  BY <1>9 DEF RagLlm, DirectLlm, RagVlm, DirectVlm, Prefetched,
       VlmStreams, Draft, Ground, Scores, Regenerate, Answers
<1>10. CASE SingleQuestion \/ Questions \/ SubRewrite \/ SubRetrieve
     \/ SubAnswer \/ FollowUp \/ Merge
  BY <1>10 DEF SingleQuestion, Questions, SubRewrite, SubRetrieve,
       SubAnswer, FollowUp, FollowUps, Merge, FinalResponse, Normalized,
       RetrievedAndRanked, Answers, First, Of
<1>11. CASE Agent
  BY <1>11 DEF Agent, Answers, Sought
<1>12. CASE FirstChunk \/ LastChunk \/ Break
  BY <1>12 DEF FirstChunk, LastChunk, Break, Citations, Closed
<1>13. CASE Leave \/ Cancel
  BY <1>13 DEF Leave, Cancel, Closed, Awaiting, Rewrites, AsksModel
<1>14. CASE UNCHANGED vars
  BY <1>14 DEF vars
<1> QED
  BY <1>1, <1>2, <1>3, <1>4, <1>5, <1>6, <1>7, <1>8, <1>9, <1>10, <1>11,
       <1>12, <1>13, <1>14 DEF Next, Server, Pipeline, Streaming, Done


-----------------------------------------------------------------------------
(* The theorems                                                            *)

LEMMA IInvInit == Init => IInv
<1> SUFFICES ASSUME Init PROVE IInv
  OBVIOUS
<1>1. TypeOK
  BY RequestAssumption DEF Init, TypeOK, Phases
<1>2. Opened /\ Judged
  BY DEF Init, Opened, Judged, AnswerJudged
<1>3. Selected /\ Cited /\ Restricted
  BY DEF Init, Selected, Cited, Restricted, UserFilter, Thresholded, Of
<1> QED
  BY <1>1, <1>2, <1>3 DEF IInv

LEMMA IInvNext == IInv /\ [Next]_vars => IInv'
  BY TypeNext, OpenedNext, SelectedNext, CitedNext, RestrictedNext,
     JudgedNext DEF IInv

LEMMA Invariance == Spec => []IInv
  BY IInvInit, IInvNext, PTL DEF Spec

(* Every variable keeps its type, whatever the services of _rag_chain,     *)
(* _llm_chain, _agentic_chain and search answer.                           *)
THEOREM TypeCorrect == Spec => []TypeOK
<1>1. IInv => TypeOK
  BY DEF IInv
<1> QED
  BY <1>1, Invariance, PTL

(* _with_vdb_cleanup and the handlers of generate and search close the     *)
(* operator of a request once nothing uses it any more, and never a shared *)
(* one; what they leave open is what a client left before the response     *)
(* was read, or a search refused after the operator was made.              *)
THEOREM OneOffOperatorClosed == Spec => []OneOffClosed
<1>1. IInv => OneOffClosed
  BY DEF IInv, Opened, OneOffClosed
<1> QED
  BY <1>1, Invariance, PTL

(* generate_answer_async cites documents of the last retrieval only, from  *)
(* the collections of the request, and none with an error.                 *)
THEOREM CitationsRight == Spec => []CitesRight
<1>1. IInv => CitesRight
  BY DEF IInv, Selected, Cited, CitesRight, Of, On
<1> QED
  BY <1>1, Invariance, PTL

(* _rag_chain and search: without an image and without decomposition the   *)
(* filter of the user and the confidence threshold hold for every citation *)
(* of every round of reflection.                                           *)
THEOREM ContextRestricted == Spec => []ContextRespects
<1>1. IInv => ContextRespects
  BY DEF IInv, Restricted, Cited, UserFilter, Thresholded, ContextRespects
<1> QED
  BY <1>1, Invariance, PTL

(* check_response_groundedness judges every answer that is returned, for   *)
(* every number of loops.                                                  *)
THEOREM AnswersJudged == Spec => []AnswerJudged
<1>1. IInv => AnswerJudged
  BY DEF IInv, Judged
<1> QED
  BY <1>1, Invariance, PTL

-----------------------------------------------------------------------------
(***************************************************************************)
(* The connection that the operators of the requests, instances of         *)
(* MilvusVDB, share.                                                       *)
(***************************************************************************)
USE ConnectionsAssumption DEF ConnectionsAssumption

(* The instances that the count stands for, and those that use the         *)
(* connection or have asked pymilvus for it.                               *)
Counting == {"counted", "connect", "used", "garbage", "releasing"}
CountedIn == {i \in Instances : place[i] \in Counting}

(* The lock belongs to the instance inside a locked section, and what it   *)
(* has read there covers all counted instances: those that the collector   *)
(* takes in between only leave.                                            *)
Sections ==
  \A i \in Instances :
    /\ place[i] \in {"counting", "releasing"} <=> lock = i
    /\ lock = i => Cardinality(CountedIn) <= read[i]

(* The count covers them, too, although the collector may leave it too     *)
(* high, and is right if the collector stayed out of the sections.         *)
Covering == Cardinality(CountedIn) <= refcount

Exact ==
  ~nested =>
    /\ refcount = Cardinality(CountedIn)
    /\ \A i \in Instances : lock = i => read[i] = refcount
    /\ open => \E i \in Instances : place[i] \in Counting \cup {"made", "counting"}

ConnInv ==
  ConnTypeOK /\ Sections /\ Covering /\ Exact /\ UsedIsOpen

(* One instance moves: how the number of those that are counted changes.   *)
LEMMA CountedMoves ==
  ASSUME ConnTypeOK, NEW i \in Instances, NEW p, GoTo(i, p)
  PROVE  /\ Cardinality(CountedIn) \in Nat
         /\ i \in CountedIn <=> place[i] \in Counting
         /\ Cardinality(CountedIn') =
              IF p \in Counting
              THEN IF i \in CountedIn THEN Cardinality(CountedIn) ELSE Cardinality(CountedIn) + 1
              ELSE IF i \in CountedIn THEN Cardinality(CountedIn) - 1 ELSE Cardinality(CountedIn)
         /\ \A j \in Instances : place'[j] = IF j = i THEN p ELSE place[j]
<1>1. IsFiniteSet(CountedIn)
  <2>1. IsFiniteSet(Instances) /\ CountedIn \in SUBSET Instances
    BY DEF CountedIn
  <2> QED
    BY <2>1, FS_Subset
<1>2. Cardinality(CountedIn) \in Nat
  BY <1>1, FS_CardinalityType
<1>3. \A j \in Instances : place'[j] = IF j = i THEN p ELSE place[j]
  BY DEF ConnTypeOK, GoTo
<1>4. CountedIn' = IF p \in Counting THEN CountedIn \cup {i} ELSE CountedIn \ {i}
  BY <1>3 DEF CountedIn
<1>5. i \in CountedIn <=> place[i] \in Counting
  BY DEF CountedIn
<1>6. /\ Cardinality(CountedIn \cup {i}) =
            IF i \in CountedIn THEN Cardinality(CountedIn) ELSE Cardinality(CountedIn) + 1
      /\ Cardinality(CountedIn \ {i}) =
            IF i \in CountedIn THEN Cardinality(CountedIn) - 1 ELSE Cardinality(CountedIn)
  BY <1>1, FS_AddElement, FS_RemoveElement
<1> QED
  BY <1>2, <1>3, <1>4, <1>5, <1>6

LEMMA ConnInitInv ==
  ASSUME ConnInit
  PROVE  ConnInv
<1>1. Cardinality(CountedIn) = 0
  BY FS_EmptySet DEF ConnInit, CountedIn, Counting
<1> USE DEF ConnInit
<1>2. ConnTypeOK
  BY DEF ConnTypeOK
<1>3. Sections
  BY DEF Sections
<1>4. Covering /\ Exact /\ UsedIsOpen
  BY <1>1 DEF Covering, Exact, UsedIsOpen
<1> QED
  BY <1>2, <1>3, <1>4 DEF ConnInv

(* Steps outside the locked sections: nothing that is counted changes.     *)
LEMMA OutsideKeeps ==
  ASSUME ConnInv, NEW i \in Instances,
         \/ Make(i) \/ MakeRaises(i) \/ Checks(i)
         \/ Connects(i) \/ InitRaises(i) \/ Forgotten(i)
  PROVE  ConnInv'
<1> USE DEF ConnInv
<1>1. PICK p \in {"made", "gone", "used", "connect", "garbage"} :
        /\ GoTo(i, p)
        /\ place[i] \in {"none", "counted", "connect", "used"}
        /\ p \in Counting <=> place[i] \in Counting
        /\ UNCHANGED <<refcount, lock, read, nested>>
        /\ open' = open \/ (open' = TRUE /\ p # "gone")
        /\ p = "used" => open'
  BY DEF Make, MakeRaises, Checks, Connects,
         InitRaises, Forgotten, UsedIsOpen, Counting, ConnTypeOK
<1>2. /\ Cardinality(CountedIn') = Cardinality(CountedIn)
      /\ \A j \in Instances : place'[j] = IF j = i THEN p ELSE place[j]
  BY <1>1, CountedMoves
<1>3. ConnTypeOK'
  BY <1>1 DEF ConnTypeOK, GoTo
<1>4. Sections' /\ Covering'
  BY <1>1, <1>2 DEF Sections, Covering
<1>5. Exact'
  <2> SUFFICES ASSUME ~nested', open'
               PROVE  \E j \in Instances : place'[j] \in Counting \cup {"made", "counting"}
    BY <1>1, <1>2 DEF Exact
  <2>1. CASE p # "gone"
    BY <1>2, <2>1 DEF Counting
  <2>2. CASE p = "gone"
    <3>1. PICK j \in Instances : place[j] \in Counting \cup {"made", "counting"}
      BY <1>1, <2>2 DEF Exact
    <3>2. j # i
      BY <1>1, <2>2, <3>1 DEF Counting
    <3> QED
      BY <1>2, <3>1, <3>2
  <2> QED
    BY <2>1, <2>2
<1>6. UsedIsOpen'
  BY <1>1, <1>2 DEF UsedIsOpen
<1> QED
  BY <1>3, <1>4, <1>5, <1>6

(* A locked section begins and reads the count.                            *)
LEMMA ReadsKeep ==
  ASSUME ConnInv, NEW i \in Instances,
         CountReads(i) \/ ReleaseReads(i)
  PROVE  ConnInv'
<1> USE DEF ConnInv
<1>1. PICK p \in {"counting", "releasing"} :
        /\ GoTo(i, p)
        /\ p \in Counting <=> place[i] \in Counting
        /\ lock = Nobody /\ lock' = i /\ read' = [read EXCEPT ![i] = refcount]
        /\ UNCHANGED <<refcount, open, nested>>
  BY DEF CountReads, ReleaseReads, Counting
<1>2. /\ Cardinality(CountedIn') = Cardinality(CountedIn)
      /\ \A j \in Instances : place'[j] = IF j = i THEN p ELSE place[j]
  BY <1>1, CountedMoves
<1>3. ConnTypeOK'
  BY <1>1 DEF ConnTypeOK, GoTo
<1>4. read'[i] = refcount
  BY <1>1 DEF ConnTypeOK
<1>5. \A j \in Instances : lock # j
  BY <1>1
<1>6. Sections'
  BY <1>1, <1>2, <1>4, <1>5 DEF Sections, Covering
<1>7. Covering' /\ UsedIsOpen'
  BY <1>1, <1>2 DEF Covering, UsedIsOpen
<1>8. Exact'
  BY <1>1, <1>2, <1>4 DEF Exact, Counting
<1> QED
  BY <1>3, <1>6, <1>7, <1>8

(* ... and stores one more.                                                *)
LEMMA CountStoresKeeps ==
  ASSUME ConnInv, NEW i \in Instances,
         CountStores(i)
  PROVE  ConnInv'
<1> USE DEF ConnInv
<1>1. /\ place[i] = "counting" /\ lock = i
      /\ GoTo(i, "counted")
      /\ refcount' = read[i] + 1 /\ lock' = Nobody
      /\ UNCHANGED <<read, open, nested>>
  BY DEF CountStores, Sections
<1>2. /\ Cardinality(CountedIn) \in Nat
      /\ Cardinality(CountedIn') = Cardinality(CountedIn) + 1
      /\ \A j \in Instances : place'[j] = IF j = i THEN "counted" ELSE place[j]
  BY <1>1, CountedMoves DEF Counting
<1>3. ConnTypeOK'
  BY <1>1 DEF ConnTypeOK, GoTo
<1>4. Sections'
  BY <1>1, <1>2 DEF Sections
<1>5. Covering'
  BY <1>1, <1>2 DEF Sections, Covering, ConnTypeOK
<1>6. Exact'
  BY <1>1, <1>2 DEF Exact, Counting
<1>7. UsedIsOpen'
  BY <1>1, <1>2 DEF UsedIsOpen
<1> QED
  BY <1>3, <1>4, <1>5, <1>6, <1>7

(* A counted instance goes.  Only if the count that it goes by is one at   *)
(* most does it close the connection, and then it was the last.            *)
LEMMA GoesLast ==
  ASSUME ConnInv, NEW i \in Instances,
         place[i] \in Counting, place[i] # "used", GoTo(i, "gone"),
         NEW n \in Nat, Cardinality(CountedIn) <= n, Releases(n)
  PROVE  /\ refcount' \in Nat /\ open' \in BOOLEAN
         /\ Cardinality(CountedIn) \in Nat
         /\ Cardinality(CountedIn') = Cardinality(CountedIn) - 1
         /\ \A j \in Instances : place'[j] = IF j = i THEN "gone" ELSE place[j]
         /\ Covering'
         /\ UsedIsOpen'
         /\ n = Cardinality(CountedIn) => refcount' = Cardinality(CountedIn')
         /\ open' /\ n = Cardinality(CountedIn) => \E j \in Instances : place'[j] \in Counting
<1> USE DEF ConnInv
<1>1. /\ Cardinality(CountedIn) \in Nat /\ i \in CountedIn
      /\ Cardinality(CountedIn') = Cardinality(CountedIn) - 1
      /\ \A j \in Instances : place'[j] = IF j = i THEN "gone" ELSE place[j]
  BY CountedMoves DEF Counting
<1>2. IsFiniteSet(CountedIn)
  <2>1. IsFiniteSet(Instances) /\ CountedIn \in SUBSET Instances
    BY DEF CountedIn
  <2> QED
    BY <2>1, FS_Subset
<1>3. CASE n <= 1
  <2>1. refcount' = 0 /\ open' = FALSE
    BY <1>3 DEF Releases
  <2>2. Cardinality(CountedIn) = 1
    <3>1. Cardinality(CountedIn) # 0
      BY <1>1, <1>2, FS_EmptySet
    <3> QED
      BY <1>1, <1>3, <3>1
  <2>3. CountedIn = {i}
    BY <1>1, <1>2, <2>2, FS_Singleton
  <2>4. ASSUME NEW j \in Instances, place'[j] = "used"
        PROVE  FALSE
    <3>1. j # i /\ place[j] = "used"
      BY <1>1, <2>4
    <3>2. j \in CountedIn
      BY <3>1 DEF CountedIn, Counting
    <3> QED
      BY <2>3, <3>1, <3>2
  <2>5. UsedIsOpen'
    BY <2>4 DEF UsedIsOpen
  <2>6. Cardinality(CountedIn') = 0 /\ Covering'
    BY <1>1, <2>1, <2>2 DEF Covering
  <2> QED
    BY <1>1, <2>1, <2>5, <2>6
<1>4. CASE ~(n <= 1)
  <2>1. refcount' = n - 1 /\ open' = open
    BY <1>4 DEF Releases
  <2>2. UsedIsOpen'
    BY <1>1, <2>1 DEF UsedIsOpen
  <2>3. ASSUME n = Cardinality(CountedIn)
        PROVE  \E j \in Instances : place'[j] \in Counting
    <3>1. CountedIn # {i}
      BY <1>2, <1>4, <2>3, FS_Singleton
    <3>2. PICK j \in CountedIn : j # i
      BY <1>1, <3>1
    <3> QED
      BY <1>1, <3>2 DEF CountedIn
  <2> QED
    BY <1>1, <1>4, <2>1, <2>2, <2>3 DEF Covering, ConnTypeOK
<1> QED
  BY <1>3, <1>4

LEMMA ReleaseStoresKeeps ==
  ASSUME ConnInv, NEW i \in Instances,
         ReleaseStores(i)
  PROVE  ConnInv'
<1> USE DEF ConnInv
<1>1. /\ place[i] = "releasing" /\ lock = i /\ lock' = Nobody
      /\ GoTo(i, "gone") /\ Releases(read[i])
      /\ UNCHANGED <<read, nested>>
      /\ read[i] \in Nat /\ Cardinality(CountedIn) <= read[i]
  BY DEF ReleaseStores, Sections, ConnTypeOK
<1>2. /\ refcount' \in Nat /\ open' \in BOOLEAN
      /\ \A j \in Instances : place'[j] = IF j = i THEN "gone" ELSE place[j]
      /\ Covering'
      /\ UsedIsOpen'
      /\ read[i] = Cardinality(CountedIn) => refcount' = Cardinality(CountedIn')
      /\ open' /\ read[i] = Cardinality(CountedIn) => \E j \in Instances : place'[j] \in Counting
  BY <1>1, GoesLast DEF Counting
<1>3. ConnTypeOK'
  BY <1>1, <1>2 DEF ConnTypeOK, GoTo
<1>4. Sections'
  BY <1>1, <1>2 DEF Sections
<1>5. Exact'
  BY <1>1, <1>2 DEF Exact
<1> QED
  BY <1>2, <1>3, <1>4, <1>5

(* The collector releases an instance while another holds the lock.        *)
LEMMA CollectedKeeps ==
  ASSUME ConnInv, NEW i \in Instances,
         Collected(i)
  PROVE  ConnInv'
<1> USE DEF ConnInv
<1>1. /\ place[i] = "garbage" /\ nested' = TRUE
      /\ GoTo(i, "gone") /\ Releases(refcount)
      /\ UNCHANGED <<lock, read>>
      /\ refcount \in Nat /\ Cardinality(CountedIn) <= refcount
  BY DEF Collected, Covering, ConnTypeOK
<1>2. /\ refcount' \in Nat /\ open' \in BOOLEAN
      /\ Cardinality(CountedIn) \in Nat
      /\ Cardinality(CountedIn') = Cardinality(CountedIn) - 1
      /\ \A j \in Instances : place'[j] = IF j = i THEN "gone" ELSE place[j]
      /\ Covering'
      /\ UsedIsOpen'
  BY <1>1, GoesLast DEF Counting
<1>3. ConnTypeOK'
  BY <1>1, <1>2 DEF ConnTypeOK, GoTo
<1>4. Sections'
  BY <1>1, <1>2 DEF Sections, ConnTypeOK
<1>5. Exact'
  BY <1>1 DEF Exact
<1> QED
  BY <1>2, <1>3, <1>4, <1>5

LEMMA ConnNextKeeps ==
  ASSUME ConnInv, [ConnNext]_connVars
  PROVE  ConnInv'
<1>1. CASE ConnNext
  BY <1>1, OutsideKeeps, ReadsKeep, CountStoresKeeps, ReleaseStoresKeeps, CollectedKeeps
     DEF ConnNext
<1>2. CASE UNCHANGED connVars
  BY <1>2 DEF connVars, ConnInv, ConnTypeOK, Sections, Covering, Exact,
              UsedIsOpen, CountedIn
<1> QED
  BY <1>1, <1>2

(* The count is a number, and every instance is where it can be.           *)
THEOREM ConnectionsTypeCorrect == ConnSpec => []ConnTypeOK
<1>1. ConnInv => ConnTypeOK
  BY DEF ConnInv
<1> QED
  BY <1>1, ConnInitInv, ConnNextKeeps, PTL DEF ConnSpec

(* No instance of MilvusVDB loses its connection to another: whoever       *)
(* closes it was the last one that is counted, although the collector may  *)
(* spoil the count, and who was not counted yet asks for it again.         *)
THEOREM UsedStaysOpen == ConnSpec => []UsedIsOpen
<1>1. ConnInv => UsedIsOpen
  BY DEF ConnInv
<1> QED
  BY <1>1, ConnInitInv, ConnNextKeeps, PTL DEF ConnSpec

(* The last instance that goes closes the connection and leaves no entry   *)
(* in the table, if the collector stayed out of the locked sections.       *)
THEOREM LastOneCloses == ConnSpec => []LastCloses
<1>1. ConnInv => LastCloses
  <2> SUFFICES ASSUME ConnInv, AllGone, ~nested
               PROVE  refcount = 0 /\ ~open
    BY DEF LastCloses
  <2>1. CountedIn = {}
    BY DEF CountedIn, Counting, AllGone
  <2> QED
    BY <2>1, FS_EmptySet DEF ConnInv, Exact, AllGone, Counting
<1> QED
  BY <1>1, ConnInitInv, ConnNextKeeps, PTL DEF ConnSpec
=============================================================================
