---------------------------- MODULE MCRagRequest ----------------------------
(***************************************************************************)
(* Three documents in two collections, two of them on neighbouring pages,  *)
(* and every request that differs in at most Changes of the features its   *)
(* kind looks at from one of two ordinary ones: the usual one ...          *)
(***************************************************************************)
EXTENDS RagRequest, FiniteSets

CONSTANTS d1, d2, d3, c1, c2, Changes

MCDocs == {d1, d2, d3}
MCColls == {c1, c2}
MCCollOf == [d \in MCDocs |-> IF d = d3 THEN c2 ELSE c1]
MCPassing == {d1, d3}
MCNear == [d \in MCDocs |-> IF d = d1 THEN {d2} ELSE {}]

Usual == {"oneOff", "citations", "reranker"}

(* ... and one that restricts what may be retrieved.                       *)
Strict == Usual \cup {"filter", "threshold"}

LooksAt(kind) ==
  CASE kind = "rag"     -> Features \ {"stream"}
    [] kind = "agentic" -> {"oneOff", "citations", "filter", "generator",
                            "history", "rewrite", "image", "stream"}
    [] kind = "direct"  -> {"image", "vlm", "noFallback"}
    [] kind = "search"  -> {"oneOff", "reranker", "threshold", "filter",
                            "generator", "history", "rewrite", "image",
                            "reflect"}

Changed(kind) ==
  UNION {{(on \ S) \cup (S \ on) : on \in {Usual, Strict}} :
     S \in {T \in SUBSET LooksAt(kind) : Cardinality(T) <= Changes}}

MCRequests ==
  UNION {[kind: {kind}, names: {<<>>, <<c1>>, <<c1, c2>>},
          on: Changed(kind)] : kind \in {"rag", "agentic", "search"}}
    \cup [kind: {"direct"}, names: {<<>>}, on: Changed("direct")]

(* An ordinary request with a filter, decomposed.                          *)
DecomposedRequests ==
  [kind: {"rag"}, names: {<<c1>>},
   on: {Strict \cup {"decompose"}}]
=============================================================================
