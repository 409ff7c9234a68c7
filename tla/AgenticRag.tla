----------------------------- MODULE AgenticRag -----------------------------
(***************************************************************************)
(* One request to the agentic pipeline of the RAG server.  A LangGraph of  *)
(* six nodes retrieves for the query itself, plans tasks, executes them in *)
(* parallel, plans again while a scope discovery brings data, synthesizes  *)
(* an answer, and verifies it once.  A translator turns what the nodes do  *)
(* into the stream of the client: the answer is shown token by token when  *)
(* there is no verification, and as one chunk at the end when there is.    *)
(*                                                                         *)
(* Texts are abstracted to what they are: an answer of the pipeline is one *)
(* of its fixed sentences ("nothing", "error"), the synthesis of the first *)
(* pass ("draft") or of the second one ("revised").  The ids of the tasks  *)
(* of a plan are distinct.                                                 *)
(***************************************************************************)
EXTENDS Naturals, Sequences

CONSTANTS
  Tasks,               \* places for the tasks of a plan (max_plan_tasks)
  VTasks,              \* places for the tasks of the verification (max_tasks)
  Modes,               \* the settings of verification_cfg.enabled
  Limits,              \* the settings of recursion_limit
  MaxPlannerAttempts,  \* planner_cfg.max_attempts
  MaxScopeRounds,      \* planner_cfg.max_scope_rounds
  MaxScopeRetries,     \* task_exec_cfg.scope_max_retries
  MaxAnswerRetries,    \* task_exec_cfg.answer_max_retries
  MaxLlmRetries        \* llm_cfg.max_retries

ASSUME AgenticAssumption ==
  /\ VTasks \in SUBSET Tasks
  /\ Modes \in SUBSET BOOLEAN
  /\ Limits \in SUBSET (Nat \ {0})
  /\ MaxPlannerAttempts \in Nat \ {0}
  /\ MaxScopeRounds \in Nat
  /\ MaxScopeRetries \in Nat \ {0}
  /\ MaxAnswerRetries \in Nat \ {0}
  /\ MaxLlmRetries \in Nat

VARIABLES
  enabled,   \* verification_cfg.enabled
  limit,     \* recursion_limit
  node,      \* the node of the graph that runs
  steps,     \* the step of LangGraph's loop; the hidden start node has 0
  outcome,   \* "running", "finished" (finish chunk) or "error" (error chunk)
  call,      \* the streaming LLM call of the node: its phase and its retries
  attempt,   \* planner_attempt
  chunks,    \* TRUE: initial_context has documents
  plan,      \* retrieval_plan: scope_only and its tasks
  rounds,    \* scope_rounds
  scoped,    \* TRUE: scope_results is not empty
  work,      \* where each task of the running node stands
  results,   \* task_results: the tasks whose answer is not "[NO DATA]"
  vRound,    \* verification_round
  vFound,    \* verification_results: the tasks whose answer has data
  answer,    \* final_answer
  shown,     \* what the client got as final_answer, one entry per text
  keys,      \* the stages in citations_acc, in the order of insertion
  cited,     \* the stage whose citations went to the client
  latest     \* history: the stage that retrieved last

settings == <<enabled, limit>>
planner == <<attempt, plan, rounds, scoped>>
findings == <<work, results, vFound>>
stream == <<outcome, shown, cited>>
vars == <<settings, node, steps, call, chunks, planner, findings, vRound,
          answer, stream, keys, latest>>

Nodes == {"initial_retrieval", "plan", "execute", "synthesize", "verify",
          "verify_execute", "end"}
Stages == {"initial_retrieval", "execute_scope", "execute", "verify_execute"}
Phases == {"none", "wait", "reasoning", "content"}
Answers == {"", "nothing", "error", "draft", "revised"}

TypeOK ==
  /\ enabled \in BOOLEAN
  /\ limit \in Nat \ {0}
  /\ node \in Nodes
  /\ steps \in Nat
  /\ outcome \in {"running", "finished", "error"}
  /\ call \in [phase: Phases, retry: 0..MaxLlmRetries]
  /\ attempt \in 1..MaxPlannerAttempts
  /\ chunks \in BOOLEAN
  /\ plan \in [scope: BOOLEAN, tasks: SUBSET Tasks]
  /\ rounds \in Nat
  /\ scoped \in BOOLEAN
  /\ work \in [Tasks -> [at: {"off", "retrieve", "answer", "seed",
                              "answered", "empty", "no_data", "error"},
                         try: Nat, kept: BOOLEAN]]
  /\ results \in SUBSET Tasks
  /\ vRound \in {0, 1}
  /\ vFound \in SUBSET Tasks
  /\ answer \in Answers
  /\ shown \in Seq(Answers \cup {"cut"})
  /\ keys \in Seq(Stages)
  /\ cited \in Stages \cup {"unset", "none"}
  /\ latest \in Stages \cup {"none"}

NoCall == [phase |-> "none", retry |-> 0]
NewCall == [phase |-> "wait", retry |-> 0]

(* The tasks of ts at the start of a node, the other places empty.         *)
Launched(ts) ==
  [t \in Tasks |-> [at |-> IF t \in ts THEN "retrieve" ELSE "off",
                    try |-> 1, kept |-> FALSE]]

Init ==
  /\ enabled \in Modes
  /\ limit \in Limits
  /\ node = "initial_retrieval"
  /\ steps = 1
  /\ outcome = "running"
  /\ call = NoCall
  /\ attempt = 1
  /\ chunks = FALSE
  /\ plan = [scope |-> FALSE, tasks |-> {}]
  /\ rounds = 0
  /\ scoped = FALSE
  /\ work = Launched({})
  /\ results = {}
  /\ vRound = 0
  /\ vFound = {}
  /\ answer = ""
  /\ shown = <<>>
  /\ keys = <<>>
  /\ cited = "unset"
  /\ latest = "none"

-----------------------------------------------------------------------------
(* LangGraph begins a step while it is within recursion_limit, and looks   *)
(* only then whether there is a node left to run: the end is a step too.   *)
At(n) == outcome = "running" /\ node = n /\ steps <= limit

(* An edge of the graph; the nodes with one LLM call begin with it, except *)
(* synthesize, which first looks at what it has.                           *)
GoTo(n) ==
  /\ node' = n
  /\ steps' = steps + 1
  /\ call' = IF n \in {"plan", "verify"} THEN NewCall ELSE NoCall

(* The stage a task retrieves for.                                         *)
Stage ==
  IF node = "execute" /\ plan.scope THEN "execute_scope" ELSE node

(* retriever_fn: a search that answers, even with no document, enters its  *)
(* stage into citations_acc, at the end if it is new.                      *)
Retrieved(stage, result) ==
  IF result = "error" THEN UNCHANGED <<keys, latest>>
  ELSE /\ keys' = IF \E i \in 1..Len(keys) : keys[i] = stage THEN keys
                  ELSE Append(keys, stage)
       /\ latest' = stage

(* _collate_citations: the stage that was entered last.                    *)
LastStage == IF keys = <<>> THEN "none" ELSE keys[Len(keys)]

InitialRetrieval ==
  /\ At("initial_retrieval")
  /\ \E result \in {"error", "empty", "found"} :
       /\ chunks' = (result = "found")
       /\ Retrieved("initial_retrieval", result)
  /\ GoTo("plan")
  /\ UNCHANGED <<settings, planner, findings, vRound, answer, stream>>

-----------------------------------------------------------------------------
(* _call_llm with a config: plan, verify and synthesize stream.            *)
Calling == outcome = "running" /\ steps <= limit /\ call.phase # "none"

(* Fault: a call that broke off is tried again, whatever it has streamed.  *)
CallRetriesLate ==
  /\ Calling
  /\ call.retry < MaxLlmRetries
  /\ call' = [phase |-> "wait", retry |-> call.retry + 1]
  /\ UNCHANGED <<settings, node, steps, chunks, planner, findings, vRound,
                 answer, stream, keys, latest>>

(* A timeout or a transient error before the first chunk.                  *)
CallRetries ==
  /\ Calling
  /\ call.phase = "wait"
  /\ call.retry < MaxLlmRetries
  /\ call' = [call EXCEPT !.retry = @ + 1]
  /\ UNCHANGED <<settings, node, steps, chunks, planner, findings, vRound,
                 answer, stream, keys, latest>>

(* The first chunk, and the first chunk with content.  Without             *)
(* verification the content of synthesize goes to the client at once, and  *)
(* the citations with its first token.                                     *)
Chunk ==
  /\ Calling
  /\ \E p \in {"reasoning", "content"} :
       /\ call.phase = "wait" \/ (call.phase = "reasoning" /\ p = "content")
       /\ call' = [call EXCEPT !.phase = p]
       /\ IF p = "content" /\ node = "synthesize" /\ ~enabled
          THEN /\ shown' = Append(shown, "cut")
               /\ cited' = IF cited = "unset" THEN LastStage ELSE cited
          ELSE UNCHANGED <<shown, cited>>
  /\ UNCHANGED <<settings, node, steps, chunks, planner, findings, vRound,
                 answer, outcome, keys, latest>>

-----------------------------------------------------------------------------
(* plan_node: a response that is no plan, or whose tasks are malformed, is *)
(* asked for again.                                                        *)
PlanAgain ==
  /\ At("plan")
  /\ attempt < MaxPlannerAttempts
  /\ attempt' = attempt + 1
  /\ call' = NewCall
  /\ UNCHANGED <<settings, node, steps, chunks, plan, rounds, scoped, findings,
                 vRound, answer, stream, keys, latest>>

(* The plan, with what plan_node makes of it, to execute_node.             *)
ToExecute(scope, ts) ==
  /\ plan' = [scope |-> scope, tasks |-> ts]
  /\ work' = Launched(ts)
  /\ attempt' = 1
  /\ GoTo("execute")

(* Fault: every scope discovery is granted, without a look at its round.   *)
PlanParsedUncounted ==
  /\ At("plan")
  /\ \E scope \in BOOLEAN, ts \in SUBSET Tasks :
       /\ ToExecute(scope /\ ts # {}, ts)
       /\ rounds' = IF plan'.scope THEN rounds + 1 ELSE rounds
  /\ UNCHANGED <<settings, chunks, scoped, results, vFound, vRound, answer,
                 stream, keys, latest>>

(* A plan without tasks is no scope discovery, and neither is one that     *)
(* follows max_scope_rounds of them.  After the last attempt a response    *)
(* that cannot be parsed counts as a plan without tasks.                   *)
PlanParsed ==
  /\ At("plan")
  /\ \E scope \in BOOLEAN, ts \in SUBSET Tasks :
       /\ ToExecute(scope /\ ts # {} /\ ~(scoped /\ rounds >= MaxScopeRounds), ts)
       /\ rounds' = IF plan'.scope THEN rounds + 1 ELSE rounds
  /\ UNCHANGED <<settings, chunks, scoped, results, vFound, vRound, answer,
                 stream, keys, latest>>

(* An exception, of the LLM call or of tasks that are no dictionaries.     *)
PlanFails ==
  /\ At("plan")
  /\ ToExecute(FALSE, {})
  /\ UNCHANGED <<settings, chunks, rounds, scoped, results, vFound, vRound,
                 answer, stream, keys, latest>>

-----------------------------------------------------------------------------
(* _execute_single_task, for the tasks of execute and of verify_execute.   *)
Executing ==
  outcome = "running" /\ steps <= limit /\ node \in {"execute", "verify_execute"}

MaxRetries == IF Stage = "execute_scope" THEN MaxScopeRetries ELSE MaxAnswerRetries

TaskUnchanged ==
  UNCHANGED <<settings, node, steps, call, chunks, planner, results, vFound,
              vRound, answer, stream>>

TaskTo(t, place) == work' = [work EXCEPT ![t].at = place]

(* A task that ends without a complete answer has the partial one it kept. *)
Settled(t) == IF work[t].kept THEN "answered" ELSE "no_data"

(* A new query for what is missing, or the decision that there is none.    *)
TaskSeeds(t) ==
  /\ Executing
  /\ work[t].at = "seed"
  /\ \E place \in {"retrieve", Settled(t)} : TaskTo(t, place)
  /\ TaskUnchanged
  /\ UNCHANGED <<keys, latest>>

TaskRetrieves(t) ==
  /\ Executing
  /\ work[t].at = "retrieve"
  /\ \E result \in {"error", "empty", "found"} :
       /\ Retrieved(Stage, result)
       /\ TaskTo(t, IF result = "found" THEN "answer" ELSE Settled(t))
  /\ TaskUnchanged

(* Fault: the attempts of a task are not counted.                          *)
TaskAnswersUncounted(t) ==
  /\ Executing
  /\ work[t].at = "answer"
  /\ \/ \E place \in {"answered", "empty", "no_data", Settled(t)} : TaskTo(t, place)
     \/ \E kept \in BOOLEAN :
          work' = [work EXCEPT ![t].at = "seed", ![t].kept = kept]
  /\ TaskUnchanged
  /\ UNCHANGED <<keys, latest>>

(* A complete answer, whose text may be empty or "[NO DATA]"; no data; or a*)
(* partial answer: it replaces the one kept so far (by nothing if its text *)
(* is empty), and the next attempt follows if there is one.                *)
TaskAnswers(t) ==
  /\ Executing
  /\ work[t].at = "answer"
  /\ \/ \E place \in {"answered", "empty", "no_data", Settled(t)} : TaskTo(t, place)
     \/ \E kept \in BOOLEAN :
          work' = [work EXCEPT ![t] =
            IF @.try < MaxRetries
            THEN [at |-> "seed", try |-> @.try + 1, kept |-> kept]
            ELSE [@ EXCEPT !.at = IF kept THEN "answered" ELSE "no_data",
                           !.kept = kept]]
  /\ TaskUnchanged
  /\ UNCHANGED <<keys, latest>>

(* An exception of an LLM call, or of a task without a question; what the  *)
(* task had found is lost.                                                 *)
TaskRaises(t) ==
  /\ Executing
  /\ work[t].at \in {"seed", "answer"} \/ (work[t].at = "retrieve" /\ work[t].try = 1)
  /\ TaskTo(t, "error")
  /\ TaskUnchanged
  /\ UNCHANGED <<keys, latest>>

AllEnded == \A t \in Tasks : work[t].at \notin {"seed", "retrieve", "answer"}

(* The tasks whose answer has a text, and those whose answer is not        *)
(* "[NO DATA]", which an empty one is not either.                          *)
Found == {t \in Tasks : work[t].at = "answered"}
Answered == {t \in Tasks : work[t].at \in {"answered", "empty"}}

-----------------------------------------------------------------------------
(* The end of execute_node and the route after it: back to plan while a    *)
(* scope discovery has brought data, in this round or an earlier one.  An  *)
(* empty answer is no data here, yet synthesize takes it for one.          *)
ExecuteEnds ==
  /\ At("execute")
  /\ AllEnded
  /\ results' = Answered
  /\ scoped' = (scoped \/ (plan.scope /\ Found # {}))
  /\ GoTo(IF plan.scope /\ scoped' THEN "plan" ELSE "synthesize")
  /\ UNCHANGED <<settings, chunks, attempt, plan, rounds, work, vFound, vRound,
                 answer, stream, keys, latest>>

(* Fault: the graph leads from the tasks of the verification to a new plan.*)
VerifyExecuteReplans ==
  /\ At("verify_execute")
  /\ AllEnded
  /\ vFound' = Found
  /\ GoTo("plan")
  /\ UNCHANGED <<settings, chunks, planner, work, results, vRound, answer, stream,
                 keys, latest>>

VerifyExecuteEnds ==
  /\ At("verify_execute")
  /\ AllEnded
  /\ vFound' = Found
  /\ GoTo("synthesize")
  /\ UNCHANGED <<settings, chunks, planner, work, results, vRound, answer, stream,
                 keys, latest>>

-----------------------------------------------------------------------------
Effective == plan.tasks \cap results

(* _route_after_synthesize                                                 *)
AfterSynthesize == IF enabled /\ vRound = 0 THEN "verify" ELSE "end"

SynthesizeUnchanged ==
  UNCHANGED <<settings, chunks, planner, findings, vRound, outcome, keys, latest>>

(* The verification found no data: the answer stays.                       *)
SynthesizeKeeps ==
  /\ At("synthesize")
  /\ call.phase = "none"
  /\ vRound > 0 /\ vFound = {}
  /\ GoTo(AfterSynthesize)
  /\ UNCHANGED <<answer, shown, cited>>
  /\ SynthesizeUnchanged

(* Neither a task nor the initial retrieval has anything.                  *)
SynthesizeNothing ==
  /\ At("synthesize")
  /\ call.phase = "none"
  /\ vRound = 0 /\ Effective = {} /\ ~chunks
  /\ answer' = "nothing"
  /\ GoTo(AfterSynthesize)
  /\ UNCHANGED <<shown, cited>>
  /\ SynthesizeUnchanged

(* Fault: the LLM is asked whatever there is to synthesize from.           *)
SynthesizeCallsAnyway ==
  /\ At("synthesize")
  /\ call.phase = "none"
  /\ call' = NewCall
  /\ UNCHANGED <<node, steps, answer, shown, cited>>
  /\ SynthesizeUnchanged

SynthesizeCalls ==
  /\ At("synthesize")
  /\ call.phase = "none"
  /\ IF vRound > 0 THEN vFound # {} ELSE Effective # {} \/ chunks
  /\ call' = NewCall
  /\ UNCHANGED <<node, steps, answer, shown, cited>>
  /\ SynthesizeUnchanged

(* The call has returned; its text may be empty, or all of it reasoning.   *)
(* What the client has seen token by token is now whole.                   *)
SynthesizeEnds ==
  /\ At("synthesize")
  /\ call.phase # "none"
  /\ \/ answer' = "nothing" /\ UNCHANGED shown
     \/ /\ call.phase = "content"
        /\ answer' = IF vRound = 0 THEN "draft" ELSE "revised"
        /\ shown' = IF enabled THEN shown ELSE [shown EXCEPT ![Len(shown)] = answer']
  /\ GoTo(AfterSynthesize)
  /\ UNCHANGED cited
  /\ SynthesizeUnchanged

(* The call has raised; the answer of the first pass is replaced as well.  *)
SynthesizeFails ==
  /\ At("synthesize")
  /\ call.phase # "none"
  /\ answer' = "error"
  /\ GoTo(AfterSynthesize)
  /\ UNCHANGED <<shown, cited>>
  /\ SynthesizeUnchanged

(* verify_node and the route after it; an answer that passes, and a        *)
(* verification that raises, leave no tasks.                               *)
VerifyEnds ==
  /\ At("verify")
  /\ \E ts \in SUBSET VTasks :
       /\ work' = Launched(ts)
       /\ GoTo(IF ts = {} THEN "end" ELSE "verify_execute")
  /\ vRound' = vRound + 1
  /\ UNCHANGED <<settings, chunks, planner, results, vFound, answer, stream, keys,
                 latest>>

-----------------------------------------------------------------------------
(* The graph has ended: with verification the answer goes to the client    *)
(* now, and then the finish chunk.                                         *)
StreamEnds ==
  /\ At("end")
  /\ outcome' = "finished"
  /\ IF enabled /\ answer # ""
     THEN shown' = Append(shown, answer) /\ cited' = LastStage
     ELSE UNCHANGED <<shown, cited>>
  /\ UNCHANGED <<settings, node, steps, call, chunks, planner, findings, vRound,
                 answer, keys, latest>>

(* The graph raises GraphRecursionError, be it after its last node; the    *)
(* client gets the error chunk, and with verification no answer.           *)
CutOff ==
  /\ outcome = "running"
  /\ steps > limit
  /\ outcome' = "error"
  /\ UNCHANGED <<settings, node, steps, call, chunks, planner, findings, vRound,
                 answer, shown, cited, keys, latest>>

(* Steps that need no failure outside the pipeline.                        *)
Work ==
  \/ InitialRetrieval \/ Chunk \/ PlanAgain \/ PlanParsed
  \/ \E t \in Tasks : TaskSeeds(t) \/ TaskRetrieves(t) \/ TaskAnswers(t)
  \/ ExecuteEnds \/ VerifyExecuteEnds \/ VerifyEnds
  \/ SynthesizeKeeps \/ SynthesizeNothing \/ SynthesizeCalls \/ SynthesizeEnds
  \/ StreamEnds \/ CutOff

Failure ==
  \/ CallRetries \/ PlanFails \/ SynthesizeFails
  \/ \E t \in Tasks : TaskRaises(t)

Next == Work \/ Failure

Spec == Init /\ [][Next]_vars

(* Every LLM call has a timeout, and the server awaits what it started.    *)
FairSpec == Spec /\ WF_vars(Work)

-----------------------------------------------------------------------------
(* The client gets at most one text as final answer, although LLM calls    *)
(* are tried again and the synthesis may run twice.  With verification it  *)
(* gets it only at the end, and what it gets is the answer of the state.   *)
OneAnswer ==
  /\ shown = <<>> \/ Len(shown) = 1
  /\ enabled =>
       shown = IF outcome = "finished" THEN <<answer>> ELSE <<>>
  /\ outcome = "finished" => answer # ""

(* A graph whose recursion limit leaves room for the first retrieval, the  *)
(* scope rounds, the answer round, one verification and the step in which  *)
(* LangGraph finds no node left is never cut off.                          *)
Room == 2 * (IF MaxScopeRounds = 0 THEN 1 ELSE MaxScopeRounds) + 8

NeverCutOff == outcome = "error" => limit < Room

(* Once citations are attached to the answer, they are those of the stage  *)
(* that retrieved last: a stage never retrieves again after a later one.   *)
CitesLastStage == cited # "unset" => cited = latest

(* A draft was written from documents or from answers of tasks of the plan *)
(* that is in force, whatever the scope discoveries before it have found,  *)
(* and it is revised only with data that the verification has found.  An   *)
(* answer here is one that is not "[NO DATA]": a complete answer without   *)
(* any text counts for the draft, but not for the revision.                *)
Grounded ==
  /\ answer = "draft" => chunks \/ Effective # {}
  /\ answer = "revised" => vFound # {}

(* Every request ends, with the finish chunk or with the error chunk.      *)
Ends == <>(outcome # "running")
=============================================================================
