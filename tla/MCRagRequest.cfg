CONSTANTS
  d1 = d1
  d2 = d2
  d3 = d3
  c1 = c1
  c2 = c2
  Changes = 2
  Docs <- MCDocs
  Colls <- MCColls
  CollOf <- MCCollOf
  Passing <- MCPassing
  Near <- MCNear
  Requests <- MCRequests
  MaxLoops = 2
  ContextThreshold = 1
  AnswerThreshold = 1
  Depth = 2
  MaxQuestions = 2
SPECIFICATION FairSpec
INVARIANT OneOffClosed
INVARIANT CitesRight
INVARIANT ContextRespects
INVARIANT AnswerJudged
PROPERTY Ends
