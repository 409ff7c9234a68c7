\* Two tasks per plan, two scope rounds, two attempts of everything that is
\* tried again; with and without verification, recursion limits 11 and 12.
CONSTANTS
  t1 = t1
  t2 = t2
  Tasks <- TwoTasks
  VTasks <- OneTask
  Modes <- Both
  Limits <- Around
  MaxPlannerAttempts = 2
  MaxScopeRounds = 2
  MaxScopeRetries = 1
  MaxAnswerRetries = 2
  MaxLlmRetries = 1
SPECIFICATION FairSpec
INVARIANT OneAnswer
INVARIANT NeverCutOff
INVARIANT CitesLastStage
INVARIANT Grounded
PROPERTY Ends
CHECK_DEADLOCK FALSE
