--------------------------- MODULE ElasticFilters ---------------------------
(***************************************************************************)
(* The filters of requests when the vector store is Elasticsearch: the     *)
(* walk of ElasticsearchFilterValidator over their clauses, the paths it   *)
(* rewrites, and which documents Elasticsearch then finds.                 *)
(*                                                                         *)
(* A filter is a sequence of clauses.  Texts are stored under the path     *)
(* metadata.content_metadata.<field>, analysed, and as they are under its  *)
(* sub-field .keyword; other values have no such sub-field.                *)
(***************************************************************************)
EXTENDS MetadataValues, Trees, FiniteSetsExt

CONSTANTS
  MaxDepth,   \* _MAX_DEPTH, 8 in the code
  MaxClauses  \* _MAX_CLAUSES, 64 in the code

ASSUME ElasticAssumption == {MaxDepth, MaxClauses} \subseteq Nat

Path(field, prefixed, keyword) ==
  [field |-> field, prefixed |-> prefixed, keyword |-> keyword]

(* Leaves, and "bool" with its four lists of clauses.                      *)
Leaf(clause, path, value) == [clause |-> clause, path |-> path, value |-> value]
Bounded(path, op, value) ==
  [clause |-> "range", path |-> path, op |-> op, value |-> value]
BoolClause(must, should, must_not, minimum) ==
  [clause |-> "bool", must |-> must, should |-> should, must_not |-> must_not,
   minimum |-> minimum]

(* Of these only whole texts are modelled.                                 *)
Patterns == {"match", "match_phrase", "wildcard", "prefix"}

(* _TYPE_TO_CLAUSES *)
Clauses(type) ==
  {"term", "terms", "exists"} \cup
  CASE type = "string" -> Patterns
    [] type \in Numeric \cup {"datetime"} -> {"range"}
    [] OTHER -> {}

-----------------------------------------------------------------------------
(* _lookup_field: a field of the schema, or one of the system's.           *)
Known(schema, name) == name \in Names(schema) \cup Filterable
Lookup(schema, name) ==
  IF name \in Names(schema) THEN FieldNamed(schema, name)
  ELSE FieldNamed(SystemFields, name)

StringLike(f) == f.type = "string" \/ (f.type = "array" /\ f.array_type = "string")

(* _validate_leaf; of the values only the bounds of dates are looked at,   *)
(* and that terms has a list.                                              *)
ValidLeaf(schema, c) ==
  /\ Known(schema, c.path.field)
  /\ LET f == Lookup(schema, c.path.field)
     IN /\ c.clause \in Clauses(f.type)
        /\ (c.clause = "range" /\ f.type = "datetime")
             => (c.value.kind = "date" /\ c.value.form # "worded")
        /\ c.clause = "terms" => c.value.kind = "list"

(* _normalize_field_path: .keyword for what is matched exactly, and only   *)
(* for texts.                                                              *)
NormalPath(schema, c) ==
  LET f == Lookup(schema, c.path.field)
      exact == c.clause \in {"term", "terms", "prefix"}
  IN Path(c.path.field, TRUE, StringLike(f) /\ (exact \/ c.path.keyword))

(* _walk_clauses: the parts of a list of clauses are these, the parts of a *)
(* bool clause its lists, where "filter" is another "must".                *)
ListOf(clauses) == [list |-> clauses]
IsList(x) == "list" \in DOMAIN x
IsBool(x) == ~IsList(x) /\ x.clause = "bool"
IsLeaf(x) == ~IsList(x) /\ ~IsBool(x)
Nested(x) ==
  IF IsList(x) THEN x.list
  ELSE IF IsBool(x) THEN <<ListOf(x.must), ListOf(x.should), ListOf(x.must_not)>> ELSE <<>>

(* How many clauses there are, and how deep they are nested.               *)
Size(clauses) ==
  TreeFold(LAMBDA x, sizes : (IF IsList(x) THEN 0 ELSE 1)
                              + MapThenSumSet(LAMBDA i : sizes[i], DOMAIN sizes),
           Nested, ListOf(clauses))
Depth(clauses) ==
  TreeFold(LAMBDA x, depths : (IF IsBool(x) THEN 1 ELSE 0) + Max({0} \cup Seqs!ToSet(depths)),
           Nested, ListOf(clauses))

ValidFilter(schema, clauses) ==
  /\ Size(clauses) <= MaxClauses /\ Depth(clauses) <= MaxDepth
  /\ TreeFold(LAMBDA x, valid : /\ IsLeaf(x) => ValidLeaf(schema, x)
                                /\ \A i \in DOMAIN valid : valid[i], Nested, ListOf(clauses))

(* process_filter *)
Normal(schema, clauses) ==
  TreeFold(LAMBDA x, parts : IF IsBool(x) THEN BoolClause(parts[1], parts[2], parts[3], x.minimum)
                             ELSE IF IsLeaf(x) THEN [x EXCEPT !.path = NormalPath(schema, x)]
                             ELSE parts, Nested, ListOf(clauses))

-----------------------------------------------------------------------------
(* Elasticsearch.  A number or a date in a text counts as such where the   *)
(* field has one; a date without a time is its whole day, and all are UTC. *)
Low(x) == IF x.kind = "date" THEN Start(x) + x.second ELSE x.n
High(x) == IF x.kind = "date" /\ ~HasExplicitTime(x) THEN End(x) ELSE Low(x)
Comparable(v, x) ==
  \/ v.kind = "number" /\ x.kind \in {"number", "numeral"}
  \/ v.kind = "instant" /\ x.kind = "date"
At(v) == IF v.kind = "number" THEN v.n ELSE v.at

Matches(path, v, x) ==
  IF IsText(v) THEN IF path.keyword THEN v = x ELSE Lower(v) = x
  ELSE /\ ~path.keyword
       /\ v = x \/ (Comparable(v, x) /\ At(v) \in Low(x) .. High(x))

InRange(op, v, x) ==
  Comparable(v, x) /\ CASE op = "gt"  -> At(v) > High(x)
                         [] op = "gte" -> At(v) >= Low(x)
                         [] op = "lt"  -> At(v) < Low(x)
                         [] op = "lte" -> At(v) <= High(x)

Found(document, path) ==
  IF ~path.prefixed \/ path.field \notin DOMAIN document THEN {}
  ELSE LET v == document[path.field]
       IN IF v.kind = "list" THEN {v.items[i] : i \in DOMAIN v.items} ELSE {v}

HoldsClause(document, c) ==
  LET Elements == Found(document, c.path)
  IN CASE c.clause \in {"term"} \cup Patterns -> \E v \in Elements : Matches(c.path, v, c.value)
       [] c.clause = "terms" ->
            /\ c.value.kind = "list"
            /\ \E v \in Elements, j \in DOMAIN c.value.items :
                 Matches(c.path, v, c.value.items[j])
       [] c.clause = "range" -> \E v \in Elements : InRange(c.op, v, c.value)
       [] c.clause = "exists" -> Elements # {}

(* Of a list of clauses, which of them hold.                               *)
Holding(document, clauses) ==
  TreeFold(LAMBDA x, holding :
             IF IsBool(x)
             THEN /\ \A i \in DOMAIN holding[1] : holding[1][i]
                  /\ Cardinality({i \in DOMAIN holding[2] : holding[2][i]}) >= x.minimum
                  /\ \A i \in DOMAIN holding[3] : ~holding[3][i]
             ELSE IF IsLeaf(x) THEN HoldsClause(document, x) ELSE holding, Nested, ListOf(clauses))

EsHolds(document, clauses) ==
  LET holding == Holding(document, clauses) IN \A i \in DOMAIN clauses : holding[i]
=============================================================================
