-------------------------- MODULE AgenticRagProofs --------------------------
(* Proofs about the agentic pipeline, for every setting of its limits and  *)
(* retries and every number of tasks.                                      *)
EXTENDS AgenticRag, SequenceTheorems, TLAPS

-----------------------------------------------------------------------------
(* The inductive invariant                                                 *)

Most == IF MaxScopeRounds = 0 THEN 1 ELSE MaxScopeRounds

(* Which steps each node can have, by the scope rounds behind it.          *)
Flow ==
  /\ rounds <= Most
  /\ steps <= Room
  /\ node = "initial_retrieval" => steps = 1 /\ rounds = 0 /\ ~scoped
  /\ node = "plan" => steps = 2 * rounds + 2 /\ (scoped \/ rounds = 0)
  /\ node = "execute" => steps = IF plan.scope THEN 2 * rounds + 1 ELSE 2 * rounds + 3
  /\ node = "synthesize" => steps <= 2 * rounds + IF vRound = 0 THEN 4 ELSE 7
  /\ node = "verify" => steps <= 2 * rounds + 5
  /\ node = "verify_execute" => steps <= 2 * rounds + 6
  /\ node = "end" => steps <= 2 * rounds + 8
  /\ node \in {"initial_retrieval", "plan", "execute", "verify"} => vRound = 0
  /\ node = "verify_execute" => vRound = 1
  /\ node = "verify" \/ vRound = 1 => enabled
  /\ outcome = "finished" => node = "end"
  /\ outcome = "error" => steps > limit

(* The synthesis has begun to write its answer.                            *)
Writing == node = "synthesize" /\ call.phase = "content"

(* What the client has seen, by where the request is.                      *)
Seen ==
  /\ enabled /\ outcome # "finished" => shown = <<>>
  /\ enabled /\ outcome = "finished" => shown = <<answer>>
  /\ ~enabled /\ Writing => Len(shown) = 1
  /\ ~enabled /\ node = "end" => shown = <<>> \/ Len(shown) = 1
  /\ ~enabled /\ ~Writing /\ node # "end" => shown = <<>>
  /\ node \in {"verify", "verify_execute", "end"} \/ vRound = 1 => answer # ""

Rank == [s \in Stages |-> IF s = "initial_retrieval" THEN 1
                          ELSE IF s = "execute_scope" THEN 2
                          ELSE IF s = "execute" THEN 3 ELSE 4]

(* The last stage that may have retrieved when a node runs.                *)
Reach == IF node = "initial_retrieval" THEN 0
         ELSE IF node = "plan" \/ (node = "execute" /\ plan.scope) THEN 2
         ELSE IF node = "execute" THEN 3 ELSE 4

Ordered ==
  /\ \A i, j \in 1..Len(keys) : i < j => Rank[keys[i]] < Rank[keys[j]]
  /\ \A i \in 1..Len(keys) : Rank[keys[i]] <= Reach
  /\ latest = LastStage

Citing == cited # "unset" => cited = latest /\ (node = "end" \/ (Writing /\ ~enabled))

(* What the LLM has been given to synthesize from.                         *)
Sources ==
  /\ answer \in {"draft", "revised"} =>
       node \notin {"initial_retrieval", "plan", "execute"}
  /\ answer = "revised" => node = "end"
  /\ node = "synthesize" /\ call.phase # "none" =>
       IF vRound = 0 THEN chunks \/ Effective # {} ELSE vFound # {}
  /\ Grounded

IInv == TypeOK /\ Flow /\ Seen /\ Ordered /\ Citing /\ Sources

-----------------------------------------------------------------------------
(* Typing                                                                  *)

LEMMA LaunchedTyped ==
  ASSUME NEW ts \in SUBSET Tasks
  PROVE  Launched(ts) \in [Tasks -> [at: {"off", "retrieve", "answer", "seed",
                                          "answered", "empty", "no_data", "error"},
                                     try: Nat, kept: BOOLEAN]]
  BY DEF Launched

LEMMA TypeInit == Init => TypeOK
<1>1. ASSUME Init PROVE work = Launched({}) /\ {} \in SUBSET Tasks
  BY <1>1 DEF Init
<1>2. ASSUME Init PROVE enabled \in BOOLEAN /\ limit \in Nat \ {0}
  BY <1>2, AgenticAssumption DEF Init
<1>3. ASSUME Init PROVE shown \in Seq(Answers \cup {"cut"}) /\ keys \in Seq(Stages)
  BY <1>3, EmptySeq DEF Init
<1>4. 0 \in 0..MaxLlmRetries /\ 1 \in 1..MaxPlannerAttempts
  BY AgenticAssumption
<1>5. NoCall \in [phase: Phases, retry: 0..MaxLlmRetries]
  BY <1>4 DEF NoCall, Phases
<1>6. ASSUME Init
      PROVE  /\ call \in [phase: Phases, retry: 0..MaxLlmRetries]
             /\ attempt \in 1..MaxPlannerAttempts
             /\ plan \in [scope: BOOLEAN, tasks: SUBSET Tasks]
  BY <1>4, <1>5, <1>6 DEF Init
<1>7. ASSUME Init
      PROVE  /\ node \in Nodes /\ steps \in Nat /\ rounds \in Nat
             /\ outcome \in {"running", "finished", "error"}
             /\ chunks \in BOOLEAN /\ scoped \in BOOLEAN
             /\ results \in SUBSET Tasks /\ vFound \in SUBSET Tasks
             /\ vRound \in {0, 1} /\ answer \in Answers
             /\ cited \in Stages \cup {"unset", "none"}
             /\ latest \in Stages \cup {"none"}
  BY <1>7 DEF Init, Nodes, Answers
<1> QED
  BY <1>1, <1>2, <1>3, <1>6, <1>7, LaunchedTyped DEF TypeOK

LEMMA GoToTyped ==
  ASSUME TypeOK, NEW n \in Nodes, GoTo(n)
  PROVE  node' \in Nodes /\ steps' \in Nat /\ call' \in [phase: Phases, retry: 0..MaxLlmRetries]
  BY AgenticAssumption DEF TypeOK, GoTo, NewCall, NoCall, Phases

LEMMA RetrievedTyped ==
  ASSUME TypeOK, NEW s \in Stages, NEW r, Retrieved(s, r)
  PROVE  keys' \in Seq(Stages) /\ latest' \in Stages \cup {"none"}
<1>1. Append(keys, s) \in Seq(Stages)
  BY AppendProperties DEF TypeOK
<1> QED
  BY <1>1 DEF TypeOK, Retrieved

LEMMA LastStageTyped == TypeOK => LastStage \in Stages \cup {"none"}
  BY DEF TypeOK, LastStage

LEMMA TaskToTyped ==
  ASSUME TypeOK, NEW t \in Tasks,
         NEW place \in {"retrieve", "answer", "answered", "empty", "no_data", "error"},
         TaskTo(t, place)
  PROVE  work' \in [Tasks -> [at: {"off", "retrieve", "answer", "seed",
                                   "answered", "empty", "no_data", "error"},
                              try: Nat, kept: BOOLEAN]]
  BY DEF TypeOK, TaskTo

LEMMA TaskTypes ==
  ASSUME TypeOK, Executing, NEW t \in Tasks,
         TaskSeeds(t) \/ TaskRetrieves(t) \/ TaskAnswers(t) \/ TaskRaises(t)
  PROVE  /\ work' \in [Tasks -> [at: {"off", "retrieve", "answer", "seed",
                                      "answered", "empty", "no_data", "error"},
                                 try: Nat, kept: BOOLEAN]]
         /\ keys' \in Seq(Stages) /\ latest' \in Stages \cup {"none"}
<1>0. Stage \in Stages /\ Settled(t) \in {"answered", "no_data"}
  BY DEF Stage, Stages, Executing, Settled
<1>1. CASE TaskSeeds(t)
  <2>1. PICK place \in {"retrieve", Settled(t)} : TaskTo(t, place)
    BY <1>1 DEF TaskSeeds
  <2> QED
    BY <1>0, <1>1, <2>1, TaskToTyped DEF TaskSeeds, TypeOK
<1>2. CASE TaskRetrieves(t)
  <2>1. PICK r \in {"error", "empty", "found"} :
          Retrieved(Stage, r) /\ TaskTo(t, IF r = "found" THEN "answer" ELSE Settled(t))
    BY <1>2 DEF TaskRetrieves
  <2> QED
    BY <1>0, <2>1, RetrievedTyped, TaskToTyped
<1>3. CASE TaskAnswers(t)
  <2>1. CASE \E place \in {"answered", "empty", "no_data", Settled(t)} : TaskTo(t, place)
    <3>1. keys' = keys /\ latest' = latest
      BY <1>3 DEF TaskAnswers
    <3> QED
      BY <1>0, <2>1, <3>1, TaskToTyped DEF TypeOK
  <2>2. ASSUME NEW kept \in BOOLEAN,
               work' = [work EXCEPT ![t] =
                 IF @.try < MaxRetries
                 THEN [at |-> "seed", try |-> @.try + 1, kept |-> kept]
                 ELSE [@ EXCEPT !.at = IF kept THEN "answered" ELSE "no_data",
                                !.kept = kept]]
        PROVE  work' \in [Tasks -> [at: {"off", "retrieve", "answer", "seed",
                                         "answered", "empty", "no_data", "error"},
                                    try: Nat, kept: BOOLEAN]]
    <3>1. /\ work[t] \in [at: {"off", "retrieve", "answer", "seed",
                               "answered", "empty", "no_data", "error"},
                          try: Nat, kept: BOOLEAN]
          /\ work' = [work EXCEPT ![t] = IF work[t].try < MaxRetries
                 THEN [at |-> "seed", try |-> work[t].try + 1, kept |-> kept]
                 ELSE [work[t] EXCEPT !.at = IF kept THEN "answered" ELSE "no_data",
                                      !.kept = kept]]
      BY <2>2 DEF TypeOK
    <3>2. work'[t] = IF work[t].try < MaxRetries
                     THEN [at |-> "seed", try |-> work[t].try + 1, kept |-> kept]
                     ELSE [work[t] EXCEPT !.at = IF kept THEN "answered" ELSE "no_data",
                                          !.kept = kept]
      BY <3>1 DEF TypeOK
    <3>3. [at |-> "seed", try |-> work[t].try + 1, kept |-> kept]
            \in [at: {"off", "retrieve", "answer", "seed", "answered", "empty", "no_data", "error"},
                try: Nat, kept: BOOLEAN]
      BY <3>1
    <3>4. [work[t] EXCEPT !.at = IF kept THEN "answered" ELSE "no_data", !.kept = kept]
            \in [at: {"off", "retrieve", "answer", "seed", "answered", "empty", "no_data", "error"},
                try: Nat, kept: BOOLEAN]
      BY <3>1
    <3>5. work'[t] \in [at: {"off", "retrieve", "answer", "seed",
                            "answered", "empty", "no_data", "error"},
                       try: Nat, kept: BOOLEAN]
      BY <3>2, <3>3, <3>4
    <3> QED
      BY <3>1, <3>5 DEF TypeOK
  <2> QED
    BY <1>3, <2>1, <2>2 DEF TaskAnswers, TypeOK
<1>4. CASE TaskRaises(t)
  BY <1>4, TaskToTyped DEF TaskRaises, TypeOK
<1> QED
  BY <1>1, <1>2, <1>3, <1>4

LEMMA TypeNext == TypeOK /\ Flow /\ Seen /\ [Next]_vars => TypeOK'
<1> SUFFICES ASSUME TypeOK, Flow, Seen, [Next]_vars PROVE TypeOK'
  OBVIOUS
<1>1. CASE InitialRetrieval
  <2>1. PICK r \in {"error", "empty", "found"} :
          chunks' = (r = "found") /\ Retrieved("initial_retrieval", r)
    BY <1>1 DEF InitialRetrieval
  <2>2. keys' \in Seq(Stages) /\ latest' \in Stages \cup {"none"}
    BY <2>1, RetrievedTyped DEF Stages
  <2> QED
    BY <1>1, <2>1, <2>2, GoToTyped DEF InitialRetrieval, TypeOK, settings, planner, findings, stream, Nodes
<1>2. CASE CallRetries
  BY <1>2, AgenticAssumption DEF CallRetries, TypeOK, settings, planner, findings, stream, Phases
<1>3. CASE Chunk
  <2>1. call' \in [phase: Phases, retry: 0..MaxLlmRetries]
    BY <1>3 DEF Chunk, TypeOK, Phases
  <2>2. Append(shown, "cut") \in Seq(Answers \cup {"cut"})
    BY AppendProperties DEF TypeOK
  <2>3. shown' \in Seq(Answers \cup {"cut"}) /\ cited' \in Stages \cup {"unset", "none"}
    BY <1>3, <2>2, LastStageTyped DEF Chunk, TypeOK
  <2> QED
    BY <1>3, <2>1, <2>3 DEF Chunk, TypeOK, settings, planner, findings
<1>4. CASE PlanAgain
  BY <1>4, AgenticAssumption DEF PlanAgain, TypeOK, settings, planner, findings, stream, NewCall, Phases
<1>5. CASE PlanParsed
  <2>1. PICK scope \in BOOLEAN, ts \in SUBSET Tasks :
          /\ ToExecute(scope /\ ts # {} /\ ~(scoped /\ rounds >= MaxScopeRounds), ts)
          /\ rounds' = IF plan'.scope THEN rounds + 1 ELSE rounds
    BY <1>5 DEF PlanParsed
  <2>2. /\ plan' \in [scope: BOOLEAN, tasks: SUBSET Tasks]
        /\ attempt' \in 1..MaxPlannerAttempts /\ rounds' \in Nat
    BY <2>1, AgenticAssumption DEF ToExecute, TypeOK
  <2> QED
    BY <1>5, <2>1, <2>2, GoToTyped, LaunchedTyped DEF PlanParsed, ToExecute, TypeOK, settings, planner, findings, stream, Nodes
<1>6. CASE PlanFails
  <2>1. {} \in SUBSET Tasks
    OBVIOUS
  <2>2. /\ plan' \in [scope: BOOLEAN, tasks: SUBSET Tasks]
        /\ attempt' \in 1..MaxPlannerAttempts
    BY <1>6, AgenticAssumption DEF PlanFails, ToExecute, TypeOK
  <2> QED
    BY <1>6, <2>1, <2>2, GoToTyped, LaunchedTyped DEF PlanFails, ToExecute, TypeOK, settings, planner, findings, stream, Nodes
<1>7. ASSUME NEW t \in Tasks,
             TaskSeeds(t) \/ TaskRetrieves(t) \/ TaskAnswers(t) \/ TaskRaises(t)
      PROVE  TypeOK'
  <2>1. Executing /\ TaskUnchanged
    BY <1>7 DEF TaskSeeds, TaskRetrieves, TaskAnswers, TaskRaises
  <2> QED
    BY <1>7, <2>1, TaskTypes DEF TaskUnchanged, TypeOK, settings, planner, findings, stream
<1>8. CASE ExecuteEnds
  BY <1>8, GoToTyped DEF ExecuteEnds, TypeOK, settings, planner, findings, stream, Nodes, Found, Answered
<1>9. CASE VerifyExecuteEnds
  BY <1>9, GoToTyped DEF VerifyExecuteEnds, TypeOK, settings, planner, findings, stream, Nodes, Found
<1>10. CASE SynthesizeKeeps \/ SynthesizeNothing \/ SynthesizeFails
  BY <1>10, GoToTyped DEF SynthesizeKeeps, SynthesizeNothing, SynthesizeFails,
     SynthesizeUnchanged, AfterSynthesize, TypeOK, settings, planner, findings, stream, Nodes, Answers
<1>11. CASE SynthesizeCalls
  BY <1>11, AgenticAssumption DEF SynthesizeCalls, SynthesizeUnchanged, TypeOK, settings, planner, findings, stream,
     NewCall, Phases
<1>12. CASE SynthesizeEnds
  <2>1. AfterSynthesize \in Nodes
    BY DEF AfterSynthesize, Nodes
  <2>2. answer' \in Answers
    BY <1>12 DEF SynthesizeEnds, Answers
  <2>3. shown' \in Seq(Answers \cup {"cut"})
    <3>1. CASE shown' = shown
      BY <3>1 DEF TypeOK
    <3>2. CASE shown' # shown
      <4>1. Writing /\ ~enabled /\ shown' = [shown EXCEPT ![Len(shown)] = answer']
        BY <1>12, <3>2 DEF SynthesizeEnds, Writing, At
      <4>2. Len(shown) = 1
        BY <4>1 DEF Seen
      <4>3. shown \in Seq(Answers \cup {"cut"}) /\ answer' \in Answers \cup {"cut"}
        BY <2>2 DEF TypeOK
      <4>4. Len(shown) \in 1..Len(shown)
        BY <4>2
      <4> QED
        BY <4>1, <4>3, <4>4, ExceptSeq
    <3> QED
      BY <3>1, <3>2
  <2> QED
    BY <1>12, <2>1, <2>2, <2>3, GoToTyped DEF SynthesizeEnds, SynthesizeUnchanged, TypeOK, settings, planner, findings, stream
<1>13. CASE VerifyEnds
  <2>1. PICK ts \in SUBSET VTasks :
          work' = Launched(ts) /\ GoTo(IF ts = {} THEN "end" ELSE "verify_execute")
    BY <1>13 DEF VerifyEnds
  <2>2. ts \in SUBSET Tasks
    BY AgenticAssumption
  <2>3. vRound' = 1
    BY <1>13 DEF VerifyEnds, At, Flow
  <2> QED
    BY <1>13, <2>1, <2>2, <2>3, GoToTyped, LaunchedTyped DEF VerifyEnds, TypeOK, settings, planner, findings, stream, Nodes
<1>14. CASE StreamEnds
  <2>1. Append(shown, answer) \in Seq(Answers \cup {"cut"})
    BY AppendProperties DEF TypeOK
  <2>2. shown' \in Seq(Answers \cup {"cut"}) /\ cited' \in Stages \cup {"unset", "none"}
    BY <1>14, <2>1, LastStageTyped DEF StreamEnds, TypeOK
  <2> QED
    BY <1>14, <2>2 DEF StreamEnds, TypeOK, settings, planner, findings
<1>15. CASE CutOff
  BY <1>15 DEF CutOff, TypeOK, settings, planner, findings, stream
<1>16. CASE UNCHANGED vars
  BY <1>16 DEF vars, TypeOK, settings, planner, findings, stream
<1> QED
  BY <1>1, <1>2, <1>3, <1>4, <1>5, <1>6, <1>7, <1>8, <1>9, <1>10, <1>11, <1>12,
     <1>13, <1>14, <1>15, <1>16 DEF Next, Work, Failure

-----------------------------------------------------------------------------
(* The steps of the graph                                                  *)

LEMMA TaskFrame ==
  ASSUME NEW t \in Tasks,
         TaskSeeds(t) \/ TaskRetrieves(t) \/ TaskAnswers(t) \/ TaskRaises(t)
  PROVE  /\ UNCHANGED <<enabled, limit, node, steps, call, chunks, attempt, plan, rounds,
                        scoped, results, vRound, vFound, answer, outcome, shown, cited>>
         /\ node \in {"execute", "verify_execute"} /\ outcome = "running" /\ steps <= limit
  BY DEF TaskSeeds, TaskRetrieves, TaskAnswers, TaskRaises, TaskUnchanged, Executing, settings, planner, findings, stream

LEMMA FlowNext == TypeOK /\ Flow /\ Seen /\ [Next]_vars => Flow'
<1> SUFFICES ASSUME TypeOK, Flow, Seen, [Next]_vars PROVE Flow'
  OBVIOUS
<1> USE AgenticAssumption DEF Flow, Room, Most, TypeOK, At, GoTo, settings, planner, findings, stream
<1>1. CASE InitialRetrieval
  BY <1>1 DEF InitialRetrieval
<1>2. CASE CallRetries
  BY <1>2 DEF CallRetries
<1>3. CASE Chunk
  BY <1>3 DEF Chunk
<1>4. CASE PlanAgain
  BY <1>4 DEF PlanAgain
<1>5. CASE PlanParsed
  <2>1. PICK scope \in BOOLEAN, ts \in SUBSET Tasks :
          /\ ToExecute(scope /\ ts # {} /\ ~(scoped /\ rounds >= MaxScopeRounds), ts)
          /\ rounds' = IF plan'.scope THEN rounds + 1 ELSE rounds
    BY <1>5 DEF PlanParsed
  <2>2. /\ node = "plan" /\ node' = "execute" /\ steps' = steps + 1 /\ outcome = "running"
        /\ steps = 2 * rounds + 2 /\ vRound = 0 /\ (scoped \/ rounds = 0)
        /\ UNCHANGED <<enabled, limit, vRound, outcome, scoped>>
    BY <1>5, <2>1 DEF PlanParsed, ToExecute
  <2>3. plan'.scope => ~(scoped /\ rounds >= MaxScopeRounds)
    BY <2>1 DEF ToExecute
  <2>4. rounds' <= Most
    BY <2>1, <2>2, <2>3
  <2> QED
    BY <2>1, <2>2, <2>4
<1>6. CASE PlanFails
  BY <1>6 DEF PlanFails, ToExecute
<1>7. ASSUME NEW t \in Tasks,
             TaskSeeds(t) \/ TaskRetrieves(t) \/ TaskAnswers(t) \/ TaskRaises(t)
      PROVE  Flow'
  BY <1>7, TaskFrame
<1>8. CASE ExecuteEnds
  BY <1>8 DEF ExecuteEnds
<1>9. CASE VerifyExecuteEnds
  BY <1>9 DEF VerifyExecuteEnds
<1>10. CASE SynthesizeKeeps \/ SynthesizeNothing \/ SynthesizeFails
  BY <1>10 DEF SynthesizeKeeps, SynthesizeNothing, SynthesizeFails, SynthesizeUnchanged,
     AfterSynthesize
<1>11. CASE SynthesizeCalls
  BY <1>11 DEF SynthesizeCalls, SynthesizeUnchanged
<1>12. CASE SynthesizeEnds
  BY <1>12 DEF SynthesizeEnds, SynthesizeUnchanged, AfterSynthesize
<1>13. CASE VerifyEnds
  BY <1>13 DEF VerifyEnds
<1>14. CASE StreamEnds
  BY <1>14 DEF StreamEnds
<1>15. CASE CutOff
  BY <1>15 DEF CutOff
<1>16. CASE UNCHANGED vars
  BY <1>16 DEF vars
<1> QED
  BY <1>1, <1>2, <1>3, <1>4, <1>5, <1>6, <1>7, <1>8, <1>9, <1>10, <1>11, <1>12,
     <1>13, <1>14, <1>15, <1>16 DEF Next, Work, Failure

-----------------------------------------------------------------------------
(* The answer and the stream                                               *)

LEMMA Texts ==
  /\ Len(<<>>) = 0
  /\ \A e : Append(<<>>, e) = <<e>> /\ Len(<<e>>) = 1
  OBVIOUS

LEMMA SeenFew == Seen /\ ~enabled => shown = <<>> \/ Len(shown) = 1
  BY DEF Seen

LEMMA LastReplaced ==
  ASSUME NEW S, NEW s \in Seq(S), Len(s) = 1, NEW e \in S
  PROVE  Len([s EXCEPT ![Len(s)] = e]) = 1
<1>1. Len(s) \in 1..Len(s)
  OBVIOUS
<1> QED
  BY <1>1, ExceptSeq

LEMMA SeenNext == TypeOK /\ Flow /\ Seen /\ [Next]_vars => Seen'
<1> SUFFICES ASSUME TypeOK, Flow, Seen, [Next]_vars PROVE Seen'
  OBVIOUS
<1>0. enabled \in BOOLEAN /\ enabled' = enabled
  BY DEF TypeOK, Next, Work, Failure, vars, settings, InitialRetrieval, CallRetries, Chunk,
     PlanAgain, PlanParsed, PlanFails, TaskSeeds, TaskRetrieves, TaskAnswers, TaskRaises,
     TaskUnchanged, ExecuteEnds, VerifyExecuteEnds, SynthesizeKeeps, SynthesizeNothing,
     SynthesizeCalls, SynthesizeEnds, SynthesizeFails, SynthesizeUnchanged, VerifyEnds,
     StreamEnds, CutOff
<1>1. CASE InitialRetrieval
  BY <1>1 DEF InitialRetrieval, Seen, Writing, Flow, At, GoTo, NewCall, NoCall, settings, planner,
     findings, stream
<1>2. CASE CallRetries
  BY <1>2 DEF CallRetries, Calling, TypeOK, Seen, Writing, Flow, At, GoTo, NewCall, NoCall, settings, planner,
     findings, stream
<1>3. CASE Chunk
  <2>1. CASE node = "synthesize" /\ ~enabled /\ call'.phase = "content"
    <3>1. shown = <<>> /\ shown' = Append(shown, "cut")
      BY <1>3, <2>1 DEF Chunk, Calling, TypeOK, Seen, Writing
    <3>2. Len(shown') = 1
      BY <3>1, Texts
    <3> QED
      BY <1>0, <1>3, <2>1, <3>2 DEF Chunk, Calling, Seen, Writing, stream
  <2>2. CASE ~(node = "synthesize" /\ ~enabled /\ call'.phase = "content")
    <3>1. shown' = shown
      BY <1>0, <1>3, <2>2 DEF Chunk, TypeOK
    <3> QED
      BY <1>0, <1>3, <2>2, <3>1 DEF Chunk, Calling, TypeOK, Seen, Writing
  <2> QED
    BY <2>1, <2>2
<1>4. CASE PlanAgain
  BY <1>4 DEF PlanAgain, Seen, Writing, Flow, At, GoTo, NewCall, NoCall, settings, planner,
     findings, stream
<1>5. CASE PlanParsed
  BY <1>5 DEF PlanParsed, ToExecute, Seen, Writing, Flow, At, GoTo, NewCall, NoCall, settings, planner,
     findings, stream
<1>6. CASE PlanFails
  BY <1>6 DEF PlanFails, ToExecute, Seen, Writing, Flow, At, GoTo, NewCall, NoCall, settings, planner,
     findings, stream
<1>7. ASSUME NEW t \in Tasks,
             TaskSeeds(t) \/ TaskRetrieves(t) \/ TaskAnswers(t) \/ TaskRaises(t)
      PROVE  Seen'
  BY <1>7, TaskFrame DEF Seen, Writing
<1>8. CASE ExecuteEnds
  BY <1>8 DEF ExecuteEnds, Seen, Writing, Flow, At, GoTo, NewCall, NoCall, settings, planner,
     findings, stream
<1>9. CASE VerifyExecuteEnds
  BY <1>9 DEF VerifyExecuteEnds, Seen, Writing, Flow, At, GoTo, NewCall, NoCall, settings, planner,
     findings, stream
<1>10. CASE SynthesizeKeeps \/ SynthesizeNothing \/ SynthesizeFails
  <2>1. /\ node = "synthesize" /\ outcome = "running" /\ outcome' = outcome /\ vRound' = vRound
        /\ node' = AfterSynthesize /\ shown' = shown
    BY <1>10 DEF SynthesizeKeeps, SynthesizeNothing, SynthesizeFails, SynthesizeUnchanged,
       At, GoTo
  <2>2. AfterSynthesize \in {"verify", "end"} /\ (~enabled => AfterSynthesize = "end")
    BY DEF AfterSynthesize
  <2>3. ~enabled => shown = <<>> \/ Len(shown) = 1
    BY SeenFew
  <2>4. CASE SynthesizeKeeps
    <3>1. vRound = 1 /\ answer' = answer
      BY <2>4 DEF SynthesizeKeeps, TypeOK
    <3> QED
      BY <1>0, <2>1, <2>2, <2>3, <3>1 DEF Seen, Writing
  <2>5. CASE SynthesizeNothing \/ SynthesizeFails
    <3>1. answer' # ""
      BY <2>5 DEF SynthesizeNothing, SynthesizeFails
    <3> QED
      BY <1>0, <2>1, <2>2, <2>3, <3>1 DEF Seen, Writing
  <2> QED
    BY <1>10, <2>4, <2>5
<1>11. CASE SynthesizeCalls
  BY <1>11 DEF SynthesizeCalls, SynthesizeUnchanged, Seen, Writing, Flow, At, GoTo, NewCall, NoCall, settings, planner,
     findings, stream
<1>12. CASE SynthesizeEnds
  <2>1. ~enabled => AfterSynthesize = "end"
    BY DEF AfterSynthesize
  <2>2. /\ node = "synthesize" /\ outcome = "running" /\ outcome' = outcome /\ vRound' = vRound
        /\ node' = AfterSynthesize /\ AfterSynthesize \in {"verify", "end"} /\ answer' # ""
    BY <1>12 DEF SynthesizeEnds, SynthesizeUnchanged, AfterSynthesize, At, GoTo
  <2>3. enabled => shown' = shown
    BY <1>12 DEF SynthesizeEnds
  <2>4. ~enabled => shown' = <<>> \/ Len(shown') = 1
    <3>1. CASE ~enabled /\ shown' = shown
      BY <3>1, SeenFew
    <3>2. CASE ~enabled /\ shown' # shown
      <4>1. call.phase = "content" /\ shown' = [shown EXCEPT ![Len(shown)] = answer']
        BY <1>12, <3>2 DEF SynthesizeEnds
      <4>2. Len(shown) = 1
        BY <2>2, <3>2, <4>1 DEF Seen, Writing
      <4>3. shown \in Seq(Answers \cup {"cut"}) /\ answer' \in Answers \cup {"cut"}
        BY <1>12 DEF TypeOK, SynthesizeEnds, Answers
      <4>4. Len([shown EXCEPT ![Len(shown)] = answer']) = 1
        BY <4>2, <4>3, LastReplaced
      <4> QED
        BY <4>1, <4>4
    <3> QED
      BY <3>1, <3>2
  <2> QED
    BY <1>0, <2>1, <2>2, <2>3, <2>4 DEF Seen, Writing
<1>13. CASE VerifyEnds
  BY <1>13 DEF VerifyEnds, Seen, Writing, Flow, At, GoTo, NewCall, NoCall, settings, planner,
     findings, stream
<1>14. CASE StreamEnds
  <2>1. /\ node = "end" /\ node' = node /\ answer # "" /\ answer' = answer /\ call' = call
        /\ vRound' = vRound /\ outcome = "running" /\ outcome' = "finished"
    BY <1>14 DEF StreamEnds, At, Seen
  <2>2. enabled => shown' = <<answer>>
    <3>1. enabled => shown = <<>> /\ shown' = Append(shown, answer)
      BY <1>14, <2>1 DEF StreamEnds, Seen
    <3> QED
      BY <3>1, Texts
  <2>3. ~enabled => shown' = shown
    BY <1>14 DEF StreamEnds
  <2> QED
    BY <1>0, <2>1, <2>2, <2>3 DEF Seen, Writing
<1>15. CASE CutOff
  BY <1>15 DEF CutOff, Seen, Writing, Flow, At, GoTo, NewCall, NoCall, settings, planner,
     findings, stream
<1>16. CASE UNCHANGED vars
  BY <1>16 DEF vars, Seen, Writing, Flow, At, GoTo, NewCall, NoCall, settings, planner,
     findings, stream
<1> QED
  BY <1>1, <1>2, <1>3, <1>4, <1>5, <1>6, <1>7, <1>8, <1>9, <1>10, <1>11, <1>12,
     <1>13, <1>14, <1>15, <1>16 DEF Next, Work, Failure

-----------------------------------------------------------------------------
(* The stages and the citations                                            *)

(* A stage that is not behind the last one keeps the stages in order.      *)
LEMMA RetrievedOrders ==
  ASSUME TypeOK, NEW s \in Stages, NEW r, Retrieved(s, r),
         \A i, j \in 1..Len(keys) : i < j => Rank[keys[i]] < Rank[keys[j]],
         \A i \in 1..Len(keys) : Rank[keys[i]] <= Rank[s],
         latest = LastStage
  PROVE  /\ \A i, j \in 1..Len(keys') : i < j => Rank[keys'[i]] < Rank[keys'[j]]
         /\ \A i \in 1..Len(keys') : Rank[keys'[i]] <= Rank[s]
         /\ latest' = LastStage'
<1>0. keys \in Seq(Stages) /\ Rank \in [Stages -> 1..4] /\ Len(keys) \in Nat
      /\ \A i \in 1..Len(keys) : keys[i] \in Stages
  BY DEF TypeOK, Rank
<1>1. CASE r = "error"
  BY <1>1 DEF Retrieved, LastStage
<1>2. CASE r # "error" /\ \E i \in 1..Len(keys) : keys[i] = s
  <2>1. PICK i \in 1..Len(keys) : keys[i] = s
    BY <1>2
  <2>2. Len(keys) \in 1..Len(keys) /\ keys # <<>>
    BY <1>0, <2>1, Texts
  <2>3. i = Len(keys)
    <3>1. ASSUME i < Len(keys) PROVE FALSE
      BY <1>0, <2>1, <2>2, <3>1
    <3> QED
      BY <1>0, <3>1
  <2>4. keys' = keys /\ latest' = s
    BY <1>2 DEF Retrieved
  <2> QED
    BY <2>1, <2>2, <2>3, <2>4 DEF LastStage
<1>3. CASE r # "error" /\ ~\E i \in 1..Len(keys) : keys[i] = s
  <2>1. keys' = Append(keys, s) /\ latest' = s
    BY <1>3 DEF Retrieved
  <2>2. /\ keys' # <<>> /\ Len(keys') = Len(keys) + 1
        /\ \A i \in 1..Len(keys) : keys'[i] = keys[i]
        /\ keys'[Len(keys) + 1] = s
    BY <1>0, <2>1, AppendProperties
  <2>3. \A i \in 1..Len(keys) : Rank[keys[i]] < Rank[s]
    <3>1. \A a, b \in Stages : Rank[a] = Rank[b] => a = b
      BY DEF Rank, Stages
    <3> QED
      BY <1>0, <1>3, <3>1
  <2>4. \A i \in 1..Len(keys') : i \in 1..Len(keys) \/ i = Len(keys) + 1
    BY <1>0, <2>2
  <2>5. \A i, j \in 1..Len(keys') : i < j => Rank[keys'[i]] < Rank[keys'[j]]
    <3>1. SUFFICES ASSUME NEW i \in 1..Len(keys'), NEW j \in 1..Len(keys'), i < j
                   PROVE  Rank[keys'[i]] < Rank[keys'[j]]
      OBVIOUS
    <3>2. i \in 1..Len(keys)
      BY <1>0, <2>2, <3>1
    <3>3. CASE j \in 1..Len(keys)
      BY <2>2, <3>1, <3>2, <3>3
    <3>4. CASE j = Len(keys) + 1
      BY <2>2, <2>3, <3>2, <3>4
    <3> QED
      BY <2>4, <3>3, <3>4
  <2>6. \A i \in 1..Len(keys') : Rank[keys'[i]] <= Rank[s]
    BY <1>0, <2>2, <2>4
  <2>7. latest' = LastStage'
    BY <2>1, <2>2 DEF LastStage
  <2> QED
    BY <2>5, <2>6, <2>7
<1> QED
  BY <1>1, <1>2, <1>3

LEMMA RankOfStages ==
  /\ Rank["initial_retrieval"] = 1 /\ Rank["execute_scope"] = 2
  /\ Rank["execute"] = 3 /\ Rank["verify_execute"] = 4
  /\ \A s \in Stages : Rank[s] \in 1..4
  BY DEF Rank, Stages

(* A node from which no stage is behind the reach of the last one.         *)
LEMMA ReachGrows ==
  ASSUME TypeOK, Ordered, UNCHANGED <<keys, latest>>, Reach' \in Nat, Reach <= Reach'
  PROVE  Ordered'
<1>1. Reach \in Nat /\ \A i \in 1..Len(keys) : Rank[keys[i]] \in Nat
  BY RankOfStages DEF TypeOK, Reach
<1> QED
  BY <1>1 DEF Ordered, LastStage

LEMMA OrderedNext == TypeOK /\ Flow /\ Ordered /\ [Next]_vars => Ordered'
<1> SUFFICES ASSUME TypeOK, Flow, Ordered, [Next]_vars PROVE Ordered'
  OBVIOUS
<1>0. Reach \in Nat /\ Reach' \in Nat
  BY DEF Reach
<1>1. CASE InitialRetrieval
  <2>1. PICK r \in {"error", "empty", "found"} : Retrieved("initial_retrieval", r)
    BY <1>1 DEF InitialRetrieval
  <2>2. Reach = 0 /\ Reach' = 2
    BY <1>1 DEF InitialRetrieval, At, GoTo, Reach
  <2>3. \A i \in 1..Len(keys) : Rank[keys[i]] <= Rank["initial_retrieval"]
    <3>1. SUFFICES ASSUME NEW i \in 1..Len(keys) PROVE FALSE
      OBVIOUS
    <3>2. keys[i] \in Stages
      BY DEF TypeOK
    <3>3. Rank[keys[i]] \in 1..4
      BY <3>2, RankOfStages
    <3>4. Rank[keys[i]] <= 0
      BY <2>2 DEF Ordered
    <3> QED
      BY <3>3, <3>4
  <2>4. /\ \A i, j \in 1..Len(keys') : i < j => Rank[keys'[i]] < Rank[keys'[j]]
        /\ \A i \in 1..Len(keys') : Rank[keys'[i]] <= Rank["initial_retrieval"]
        /\ latest' = LastStage'
    BY <2>1, <2>3, RetrievedOrders DEF Ordered, Stages
  <2>5. keys' \in Seq(Stages)
    BY <2>1, RetrievedTyped DEF Stages
  <2>6. \A i \in 1..Len(keys') : Rank[keys'[i]] \in 1..4
    BY <2>5, RankOfStages
  <2> QED
    BY <2>2, <2>4, <2>6, RankOfStages DEF Ordered
<1>2. CASE CallRetries
  BY <1>0, <1>2, ReachGrows DEF CallRetries, Reach, planner
<1>3. CASE Chunk
  BY <1>0, <1>3, ReachGrows DEF Chunk, Reach, planner
<1>4. CASE PlanAgain
  BY <1>0, <1>4, ReachGrows DEF PlanAgain, Reach
<1>5. CASE PlanParsed \/ PlanFails
  <2>1. node = "plan" /\ node' = "execute" /\ UNCHANGED <<keys, latest>>
    BY <1>5 DEF PlanParsed, PlanFails, ToExecute, At, GoTo
  <2>2. Reach <= Reach'
    BY <2>1 DEF Reach
  <2> QED
    BY <1>0, <2>1, <2>2, ReachGrows
<1>6. ASSUME NEW t \in Tasks, TaskRetrieves(t) PROVE Ordered'
  <2>1. PICK r \in {"error", "empty", "found"} : Retrieved(Stage, r)
    BY <1>6 DEF TaskRetrieves
  <2>2. node \in {"execute", "verify_execute"} /\ UNCHANGED <<node, plan>>
    BY <1>6, TaskFrame
  <2>3. Stage \in Stages /\ Rank[Stage] = Reach /\ Reach' = Reach
    BY <2>2, RankOfStages DEF Stage, Stages, Reach
  <2>4. /\ \A i, j \in 1..Len(keys') : i < j => Rank[keys'[i]] < Rank[keys'[j]]
        /\ \A i \in 1..Len(keys') : Rank[keys'[i]] <= Rank[Stage]
        /\ latest' = LastStage'
    BY <2>1, <2>3, RetrievedOrders DEF Ordered
  <2> QED
    BY <2>3, <2>4 DEF Ordered
<1>7. ASSUME NEW t \in Tasks, TaskSeeds(t) \/ TaskAnswers(t) \/ TaskRaises(t)
      PROVE  Ordered'
  <2>1. UNCHANGED <<node, plan>> /\ UNCHANGED <<keys, latest>>
    BY <1>7, TaskFrame DEF TaskSeeds, TaskAnswers, TaskRaises
  <2> QED
    BY <1>0, <2>1, ReachGrows DEF Reach
<1>8. CASE ExecuteEnds
  <2>1. /\ node = "execute" /\ UNCHANGED <<keys, latest>> /\ plan' = plan
        /\ node' = IF plan.scope /\ scoped' THEN "plan" ELSE "synthesize"
    BY <1>8 DEF ExecuteEnds, At, GoTo
  <2>2. Reach <= Reach'
    BY <2>1 DEF Reach
  <2> QED
    BY <1>0, <2>1, <2>2, ReachGrows
<1>9. CASE VerifyExecuteEnds
  BY <1>0, <1>9, ReachGrows DEF VerifyExecuteEnds, At, GoTo, Reach
<1>10. CASE SynthesizeKeeps \/ SynthesizeNothing \/ SynthesizeFails \/ SynthesizeEnds
  <2>1. node = "synthesize" /\ node' \in {"verify", "end"} /\ UNCHANGED <<keys, latest>>
    BY <1>10 DEF SynthesizeKeeps, SynthesizeNothing, SynthesizeFails, SynthesizeEnds,
       SynthesizeUnchanged, AfterSynthesize, At, GoTo
  <2> QED
    BY <1>0, <2>1, ReachGrows DEF Reach
<1>11. CASE SynthesizeCalls
  <2>1. node = "synthesize" /\ node' = node /\ UNCHANGED <<keys, latest>>
    BY <1>11 DEF SynthesizeCalls, SynthesizeUnchanged, At
  <2> QED
    BY <1>0, <2>1, ReachGrows DEF Reach
<1>12. CASE VerifyEnds
  <2>1. node = "verify" /\ node' \in {"end", "verify_execute"} /\ UNCHANGED <<keys, latest>>
    BY <1>12 DEF VerifyEnds, At, GoTo
  <2> QED
    BY <1>0, <2>1, ReachGrows DEF Reach
<1>13. CASE StreamEnds
  <2>1. UNCHANGED <<node, plan, keys, latest>>
    BY <1>13 DEF StreamEnds, planner
  <2>2. Reach' = Reach
    BY <2>1 DEF Reach
  <2> QED
    BY <1>0, <2>1, <2>2, ReachGrows
<1>14. CASE CutOff
  BY <1>0, <1>14, ReachGrows DEF CutOff, Reach, planner
<1>15. CASE UNCHANGED vars
  BY <1>0, <1>15, ReachGrows DEF vars, Reach, planner
<1> QED
  BY <1>1, <1>2, <1>3, <1>4, <1>5, <1>6, <1>7, <1>8, <1>9, <1>10, <1>11, <1>12,
     <1>13, <1>14, <1>15 DEF Next, Work, Failure

(* What the client has been given as citations is not touched any more.    *)
LEMMA CitingNext ==
  TypeOK /\ Flow /\ Seen /\ Ordered /\ Citing /\ [Next]_vars => Citing'
<1> SUFFICES ASSUME TypeOK, Flow, Seen, Ordered, Citing, [Next]_vars PROVE Citing'
  OBVIOUS
<1>0. latest = LastStage
  BY DEF Ordered
<1>1. CASE node \in {"initial_retrieval", "plan", "execute", "verify", "verify_execute"}
  <2>1. cited = "unset"
    BY <1>1 DEF Citing, Writing
  <2>2. cited' = cited
    BY <1>1 DEF Next, Work, Failure, vars, stream, InitialRetrieval, CallRetries, Chunk,
       PlanAgain, PlanParsed, PlanFails, TaskSeeds, TaskRetrieves, TaskAnswers,
       TaskRaises, TaskUnchanged, ExecuteEnds, VerifyExecuteEnds, SynthesizeKeeps,
       SynthesizeNothing, SynthesizeCalls, SynthesizeEnds, SynthesizeFails, VerifyEnds,
       StreamEnds, CutOff, At
  <2> QED
    BY <2>1, <2>2 DEF Citing
<1>2. CASE node = "synthesize"
  <2>1. UNCHANGED <<enabled, latest>>
    BY <1>2 DEF Next, Work, Failure, vars, settings, InitialRetrieval, CallRetries, Chunk,
       PlanAgain, PlanParsed, PlanFails, TaskSeeds, TaskRetrieves, TaskAnswers,
       TaskRaises, TaskUnchanged, Executing, ExecuteEnds, VerifyExecuteEnds,
       SynthesizeKeeps, SynthesizeNothing, SynthesizeCalls, SynthesizeEnds,
       SynthesizeFails, SynthesizeUnchanged, VerifyEnds, StreamEnds, CutOff, At
  <2>2. CASE Chunk
    <3>1. node' = node /\ (cited' = cited \/ cited' = LastStage)
      BY <2>2 DEF Chunk
    <3>2. cited # "unset" => FALSE
      BY <1>2, <2>2 DEF Chunk, Citing, Writing
    <3>3. cited' # "unset" => call'.phase = "content" /\ ~enabled /\ cited' = LastStage
      BY <1>2, <2>2, <3>2 DEF Chunk, TypeOK
    <3> QED
      BY <1>0, <1>2, <2>1, <3>1, <3>3 DEF Citing, Writing
  <2>3. CASE CallRetries
    BY <1>2, <2>1, <2>3 DEF CallRetries, Citing, Writing, stream
  <2>4. CASE SynthesizeCalls \/ SynthesizeKeeps \/ SynthesizeNothing
    <3>1. cited = "unset" /\ cited' = cited
      BY <1>2, <2>4 DEF SynthesizeCalls, SynthesizeKeeps, SynthesizeNothing, Citing, Writing
    <3> QED
      BY <3>1 DEF Citing
  <2>5. CASE SynthesizeEnds \/ SynthesizeFails
    <3>1. cited' = cited /\ (~enabled => node' = "end")
      BY <2>5 DEF SynthesizeEnds, SynthesizeFails, AfterSynthesize, GoTo
    <3> QED
      BY <1>2, <2>1, <3>1 DEF Citing, Writing
  <2>6. CASE CutOff
    BY <1>2, <2>1, <2>6 DEF CutOff, Citing, Writing
  <2>7. CASE UNCHANGED vars
    BY <1>2, <2>1, <2>7 DEF vars, stream, Citing, Writing
  <2> QED
    BY <1>2, <2>2, <2>3, <2>4, <2>5, <2>6, <2>7 DEF Next, Work, Failure, InitialRetrieval,
       PlanAgain, PlanParsed, PlanFails, TaskSeeds, TaskRetrieves, TaskAnswers, TaskRaises,
       Executing, ExecuteEnds, VerifyExecuteEnds, VerifyEnds, StreamEnds, At
<1>3. CASE node = "end"
  <2>1. UNCHANGED <<node, latest>>
    BY <1>3 DEF Next, Work, Failure, vars, InitialRetrieval, CallRetries, Chunk, PlanAgain,
       PlanParsed, PlanFails, TaskSeeds, TaskRetrieves, TaskAnswers, TaskRaises,
       Executing, ExecuteEnds, VerifyExecuteEnds, SynthesizeKeeps, SynthesizeNothing,
       SynthesizeCalls, SynthesizeEnds, SynthesizeFails, VerifyEnds, StreamEnds, CutOff, At
  <2>2. cited' = cited \/ cited' = LastStage
    BY <1>3 DEF Next, Work, Failure, vars, stream, InitialRetrieval, CallRetries, Chunk,
       PlanAgain, PlanParsed, PlanFails, TaskSeeds, TaskRetrieves, TaskAnswers, TaskRaises,
       Executing, ExecuteEnds, VerifyExecuteEnds, SynthesizeKeeps, SynthesizeNothing,
       SynthesizeCalls, SynthesizeEnds, SynthesizeFails, VerifyEnds, StreamEnds, CutOff, At
  <2> QED
    BY <1>0, <1>3, <2>1, <2>2 DEF Citing
<1> QED
  BY <1>1, <1>2, <1>3 DEF TypeOK, Nodes

(* What the answer was written from stays as it was.                       *)
LEMMA SourcesStay ==
  ASSUME Sources, UNCHANGED <<chunks, plan, results, vFound, vRound, answer>>,
         node \in {"synthesize", "verify", "verify_execute", "end"},
         node' \in {"synthesize", "verify", "verify_execute", "end"},
         node = "end" => node' = "end",
         node' = "synthesize" /\ call'.phase # "none" =>
           node = "synthesize" /\ call.phase # "none"
  PROVE  Sources'
  BY DEF Sources, Grounded, Effective

(* Before the synthesis there is no answer to account for.                 *)
LEMMA SourcesBefore ==
  ASSUME Sources, node \in {"initial_retrieval", "plan", "execute"},
         answer' = answer, node' = "synthesize" => call'.phase = "none"
  PROVE  Sources'
  BY DEF Sources, Grounded

LEMMA SourcesNext == TypeOK /\ Flow /\ Sources /\ [Next]_vars => Sources'
<1> SUFFICES ASSUME TypeOK, Flow, Sources, [Next]_vars PROVE Sources'
  OBVIOUS
<1>1. CASE InitialRetrieval \/ PlanAgain \/ PlanParsed \/ PlanFails \/ ExecuteEnds
  <2>1. /\ node \in {"initial_retrieval", "plan", "execute"} /\ answer' = answer
        /\ node' = "synthesize" => call'.phase = "none"
    BY <1>1 DEF InitialRetrieval, PlanAgain, PlanParsed, PlanFails, ToExecute,
       ExecuteEnds, At, GoTo, NoCall, NewCall
  <2> QED
    BY <2>1, SourcesBefore
<1>2. CASE CallRetries \/ Chunk \/ UNCHANGED vars \/ CutOff \/ StreamEnds
  <2>1. /\ UNCHANGED <<chunks, plan, results, vFound, vRound, answer, node>>
        /\ call.phase = "none" => call'.phase = "none"
    BY <1>2 DEF CallRetries, Chunk, CutOff, StreamEnds, vars, planner, findings, Calling
  <2> QED
    BY <2>1 DEF Sources, Grounded, Effective
<1>3. ASSUME NEW t \in Tasks,
             TaskSeeds(t) \/ TaskRetrieves(t) \/ TaskAnswers(t) \/ TaskRaises(t)
      PROVE  Sources'
  <2>1. UNCHANGED <<node, call, chunks, plan, results, vRound, vFound, answer>>
    BY <1>3, TaskFrame
  <2> QED
    BY <2>1 DEF Sources, Grounded, Effective
<1>4. CASE VerifyExecuteEnds
  <2>1. /\ node = "verify_execute" /\ node' = "synthesize" /\ call'.phase = "none"
        /\ UNCHANGED <<chunks, plan, results, vRound, answer>>
    BY <1>4 DEF VerifyExecuteEnds, At, GoTo, NoCall, planner
  <2> QED
    BY <2>1 DEF Sources, Grounded, Effective
<1>5. CASE VerifyEnds
  <2>1. /\ node = "verify" /\ node' \in {"end", "verify_execute"}
        /\ UNCHANGED <<chunks, plan, results, vFound, answer>>
    BY <1>5 DEF VerifyEnds, At, GoTo, planner
  <2> QED
    BY <2>1 DEF Sources, Grounded, Effective
<1>6. CASE SynthesizeKeeps
  <2>1. /\ node = "synthesize" /\ node' \in {"verify", "end"}
        /\ UNCHANGED <<chunks, plan, results, vFound, vRound, answer>>
    BY <1>6 DEF SynthesizeKeeps, SynthesizeUnchanged, AfterSynthesize, At, GoTo, planner,
       findings
  <2> QED
    BY <2>1, SourcesStay
<1>7. CASE SynthesizeNothing \/ SynthesizeFails
  <2>1. /\ answer' \in {"nothing", "error"} /\ node' \in {"verify", "end"}
    BY <1>7 DEF SynthesizeNothing, SynthesizeFails, AfterSynthesize, GoTo
  <2> QED
    BY <2>1 DEF Sources, Grounded
<1>8. CASE SynthesizeCalls
  <2>1. /\ node = "synthesize" /\ node' = node
        /\ IF vRound > 0 THEN vFound # {} ELSE Effective # {} \/ chunks
        /\ UNCHANGED <<chunks, plan, results, vFound, vRound, answer>>
    BY <1>8 DEF SynthesizeCalls, SynthesizeUnchanged, At, planner, findings
  <2>2. vRound = 0 \/ vRound > 0
    BY DEF TypeOK
  <2> QED
    BY <2>1, <2>2 DEF Sources, Grounded, Effective, TypeOK
<1>9. CASE SynthesizeEnds
  <2>1. /\ node = "synthesize" /\ call.phase # "none"
        /\ node' = IF enabled /\ vRound = 0 THEN "verify" ELSE "end"
        /\ UNCHANGED <<chunks, plan, results, vFound, vRound>>
    BY <1>9 DEF SynthesizeEnds, SynthesizeUnchanged, AfterSynthesize, At, GoTo, planner,
       findings
  <2>2. answer' = "nothing" \/ answer' = IF vRound = 0 THEN "draft" ELSE "revised"
    BY <1>9 DEF SynthesizeEnds
  <2> QED
    BY <2>1, <2>2 DEF Sources, Grounded, Effective
<1> QED
  BY <1>1, <1>2, <1>3, <1>4, <1>5, <1>6, <1>7, <1>8, <1>9 DEF Next, Work, Failure

-----------------------------------------------------------------------------
(* The theorems                                                            *)

LEMMA IInvInit == Init => IInv
<1> SUFFICES ASSUME Init PROVE IInv
  OBVIOUS
<1>1. TypeOK
  BY TypeInit
<1>2. Flow
  <2>1. /\ node = "initial_retrieval" /\ steps = 1 /\ rounds = 0 /\ ~scoped
        /\ vRound = 0 /\ outcome = "running"
    BY DEF Init
  <2>2. 0 <= Most /\ 1 <= Room
    BY AgenticAssumption DEF Most, Room
  <2> QED
    BY <2>1, <2>2 DEF Flow
<1>3. Seen
  <2>1. /\ node = "initial_retrieval" /\ shown = <<>> /\ vRound = 0
        /\ outcome = "running"
    BY DEF Init
  <2> QED
    BY <2>1 DEF Seen, Writing
<1>4. Ordered
  <2>1. keys = <<>> /\ Len(keys) = 0 /\ latest = "none"
    BY EmptySeq DEF Init
  <2> QED
    BY <2>1 DEF Ordered, LastStage
<1>5. Citing /\ Sources
  BY DEF Init, Citing, Sources, Grounded, NoCall
<1> QED
  BY <1>1, <1>2, <1>3, <1>4, <1>5 DEF IInv

LEMMA IInvNext == IInv /\ [Next]_vars => IInv'
  BY TypeNext, FlowNext, SeenNext, OrderedNext, CitingNext, SourcesNext DEF IInv

LEMMA Invariance == Spec => []IInv
  BY IInvInit, IInvNext, PTL DEF Spec

(* Every variable keeps its type, whatever the planner, the tasks and the  *)
(* LLM calls of agentic_rag.py do.                                         *)
THEOREM TypeCorrect == Spec => []TypeOK
<1>1. IInv => TypeOK
  BY DEF IInv
<1> QED
  BY <1>1, Invariance, PTL

(* translate_graph_stream gives the client at most one final answer, and   *)
(* with verification exactly the one that the graph ended with.            *)
THEOREM OneAnswerShown == Spec => []OneAnswer
<1>1. IInv => OneAnswer
  <2> SUFFICES ASSUME IInv PROVE OneAnswer
    OBVIOUS
  <2>1. TypeOK /\ Flow /\ Seen
    BY DEF IInv
  <2>2. shown = <<>> \/ Len(shown) = 1
    <3>1. Len(<<answer>>) = 1
      BY Texts DEF TypeOK
    <3> QED
      BY <2>1, <3>1 DEF Seen, TypeOK
  <2>3. enabled => shown = IF outcome = "finished" THEN <<answer>> ELSE <<>>
    BY <2>1 DEF Seen
  <2>4. outcome = "finished" => answer # ""
    BY <2>1 DEF Seen, Flow
  <2> QED
    BY <2>2, <2>3, <2>4 DEF OneAnswer
<1> QED
  BY <1>1, Invariance, PTL

(* build_graph: the routes cannot take more than Room steps, whatever       *)
(* the planner asks for, so a larger recursion_limit is never reached.     *)
THEOREM GraphNeverCutOff == Spec => []NeverCutOff
<1>1. IInv => NeverCutOff
  BY AgenticAssumption DEF IInv, TypeOK, Flow, NeverCutOff, Room
<1> QED
  BY <1>1, Invariance, PTL

(* _collate_citations takes the stage that was entered last, and that is   *)
(* the one that retrieved last: no stage retrieves after a later one.      *)
THEOREM CitationsOfLastStage == Spec => []CitesLastStage
<1>1. IInv => CitesLastStage
  BY DEF IInv, Citing, CitesLastStage
<1> QED
  BY <1>1, Invariance, PTL

(* synthesize_node asks the LLM only with something to answer from, in the *)
(* first pass and in the second one.                                       *)
THEOREM AnswersGrounded == Spec => []Grounded
<1>1. IInv => Grounded
  BY DEF IInv, Sources
<1> QED
  BY <1>1, Invariance, PTL
=============================================================================
