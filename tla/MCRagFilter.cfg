CONSTANTS
  d1 = d1
  d2 = d2
  d3 = d3
  c1 = c1
  c2 = c2
  Changes = 0
  Docs <- MCDocs
  Colls <- MCColls
  CollOf <- MCCollOf
  Passing <- MCPassing
  Near <- MCNear
  Requests <- DecomposedRequests
  MaxLoops = 2
  ContextThreshold = 1
  AnswerThreshold = 1
  Depth = 2
  MaxQuestions = 2
SPECIFICATION Spec
INVARIANT FilterKept
