--------------------------- MODULE MetadataSearch ---------------------------
(***************************************************************************)
(* Collections with a metadata schema, documents with metadata, and        *)
(* searches with a filter: create_collection and the validation of an      *)
(* upload in the ingestor, validate_filter_expr and process_filter_expr    *)
(* in the RAG server, for Milvus and for Elasticsearch.  A collection has  *)
(* at most one document.                                                   *)
(***************************************************************************)
EXTENDS MilvusFilters, ElasticFilters

CONSTANTS
  Collections,
  Requests,   \* for each collection, the fields clients may ask for
  Metadata,   \* what they may send with a file for it
  FileName,   \* the name of the file
  Filters     \* for each kind of filter (milvus, elasticsearch, openai), some

VARIABLES
  store,       \* config.vector_store.name
  partial,     \* config.metadata.allow_partial_filtering
  collection,  \* for each collection: does it exist, its schema, its documents
  search       \* the last search: its filter, and what came of it

vars == <<store, partial, collection, search>>

ASSUME SearchAssumption ==
  \A c \in Collections : \A metadata \in Metadata[c] \ {Absent} :
    \A n \in DOMAIN metadata : metadata[n] \in Values

NoSearch == [kind |-> "none"]
NoCollection == [exists |-> FALSE, schema |-> <<>>, documents |-> {}]
Existing(schema, documents) == [exists |-> TRUE, schema |-> schema, documents |-> documents]

Init ==
  /\ store \in {"milvus", "elasticsearch"}
  /\ partial \in BOOLEAN
  /\ collection = [c \in Collections |-> NoCollection]
  /\ search = NoSearch

-----------------------------------------------------------------------------
(* POST /collection.  It makes the collection before it looks at the       *)
(* fields: one that is not valid leaves it there, without a schema.        *)
CreateCollection(c, request) ==
  /\ ~collection[c].exists
  /\ LET schema == SchemaOf(request)
         kept == IF \A i \in DOMAIN schema : ValidField(schema[i]) THEN schema ELSE <<>>
     IN collection' = [collection EXCEPT ![c] = Existing(kept, {})]
  /\ search' = NoSearch
  /\ UNCHANGED <<store, partial>>

(* _validate_custom_metadata of an upload of one file, with metadata for   *)
(* it or without.  Without a schema there is nothing to validate; with one *)
(* that has a name twice the upload fails.  (IngestTask has what becomes   *)
(* of an upload whose files are not valid.)                                *)
ValidUpload(schema, metadata) ==
  \/ schema = <<>>
  \/ /\ ValidSchema(schema)
     /\ IF metadata = Absent THEN \A i \in DOMAIN schema : ~schema[i].required
        ELSE ValidMetadata(schema, metadata)

Document(schema, metadata) ==
  [sent |-> metadata,
   stored |-> Written(schema, FileName,
                CASE metadata = Absent -> <<>>
                  [] schema = <<>>     -> metadata
                  [] OTHER             -> Normalized(schema, metadata))]

Upload(c, metadata) ==
  /\ collection[c].exists /\ collection[c].documents = {}
  /\ LET schema == collection[c].schema
     IN /\ ValidUpload(schema, metadata)
        /\ collection' = [collection EXCEPT ![c] = Existing(schema, {Document(schema, metadata)})]
  /\ search' = NoSearch
  /\ UNCHANGED <<store, partial>>

-----------------------------------------------------------------------------
(* POST /vector_stores/{id}/search takes filters of another form: a key,   *)
(* an operator and a value, or some of these joined.                       *)
Test(key, op, value) == [key |-> key, op |-> op, value |-> value]
Join(op, filters) == [join |-> op, filters |-> filters]
IsTest(o) == "key" \in DOMAIN o
Operated(o) == IF IsTest(o) THEN <<>> ELSE o.filters

(* Keys that are not put into content_metadata["..."]; the grammar knows   *)
(* no others.                                                              *)
Standard == {"page_number", "description", "language", "document_type"}

(* What a value reads as in an expression, where it is not put into quotes.*)
Unquoted(v) ==
  CASE v.kind = "numeral" -> {Digits(v.n)}
    [] IsText(v)          -> {}
    [] OTHER              -> {Literal(v)}

Symbol == [eq |-> "==", ne |-> "!=", gt |-> ">", gte |-> ">=", lt |-> "<", lte |-> "<="]

(* _convert_openai_filter_to_milvus_string; none, or one expression.       *)
TestExpression(t) ==
  CASE t.key \in Standard -> {}
    [] t.op \in {"in", "nin"} ->
         {Listed(t.key, t.op = "nin", l) :
            l \in IF t.value.kind = "list" THEN {Literal(t.value)}
                  ELSE {Array(<<u>>) : u \in Unquoted(t.value)}}
    [] t.op \in {"eq", "ne"} -> {Compare(t.key, Symbol[t.op], Literal(t.value))}
    [] OTHER -> {Compare(t.key, Symbol[t.op], l) : l \in Unquoted(t.value)}

ToMilvus(o) ==
  TreeFold(LAMBDA x, parts :
             IF IsTest(x)
             THEN LET e == TestExpression(x) IN IF e = {} THEN Unparsable ELSE CHOOSE y \in e : TRUE
             ELSE Seqs!FoldLeft(LAMBDA left, right : Joined(x.join, left, right), parts[1], Tail(parts)),
           Operated, o)

(* Fault: what should not match has to.                                    *)
ExceptMatches(clause) == BoolClause(<<clause>>, <<>>, <<>>, 0)

Except(clause) == BoolClause(<<>>, <<>>, <<clause>>, 0)

TestClause(t) ==
  LET path == Path(t.key, FALSE, FALSE)
      terms == IF t.value.kind = "list" THEN t.value ELSE List(<<t.value>>)
  IN CASE t.op = "eq"  -> Leaf("term", path, t.value)
       [] t.op = "ne"  -> Except(Leaf("term", path, t.value))
       [] t.op = "in"  -> Leaf("terms", path, terms)
       [] t.op = "nin" -> Except(Leaf("terms", path, terms))
       [] OTHER        -> Bounded(path, t.op, t.value)

(* _convert_openai_filter_to_elasticsearch                                 *)
ToElastic(o) ==
  << TreeFold(LAMBDA x, clauses :
                IF IsTest(x) THEN TestClause(x)
                ELSE IF x.join = "and" THEN BoolClause(clauses, <<>>, <<>>, 0)
                ELSE BoolClause(<<>>, clauses, <<>>, 1),
              Operated, o) >>

(* The filter in the language of a store.                                  *)
ToStore(s, kind, filter) ==
  IF kind # "openai" THEN filter
  ELSE IF s = "milvus" THEN ToMilvus(filter) ELSE ToElastic(filter)

-----------------------------------------------------------------------------
(* Which collections support a filter.  Milvus needs a schema; in          *)
(* Elasticsearch every filter suits a collection that has none, and a      *)
(* filter without clauses every collection.                                *)
SupportsMilvus(schema, f) ==
  schema # <<>> /\ ValidSchema(schema) /\ Accepted(schema, f)

SupportsElastic(schema, f) ==
  <<>> \in {schema, f} \/ (ValidSchema(schema) /\ ValidFilter(schema, f))

Supports(s, schema, f) ==
  IF s = "milvus" THEN SupportsMilvus(schema, f) ELSE SupportsElastic(schema, f)

(* All collections have to, or with partial filtering one of them.         *)
Suffices(supporting, names) ==
  IF partial THEN supporting # {} ELSE supporting = names

(* Does a filter that is processed for a schema find a document?           *)
Finds(s, schema, f, document) ==
  IF s = "milvus" THEN Holds(document, Transform(schema, f))
  ELSE EsHolds(document, IF schema = <<>> THEN f ELSE Normal(schema, f))

(* What a search of some collections comes to with a filter f: it is       *)
(* refused, or the collections that support f are looked into.             *)
Outcome(names, kind, filter, f) ==
  LET supporting == {c \in names : Supports(store, collection[c].schema, f)}
      found == {c \in supporting : \E d \in collection[c].documents :
                  Finds(store, collection[c].schema, f, d.stored)}
  IN IF Suffices(supporting, names)
     THEN [kind |-> kind, filter |-> filter, names |-> supporting, found |-> found]
     ELSE [kind |-> "refused", filter |-> filter]

(* POST /search, with a filter in the language of the store.  A search     *)
(* changes nothing; bound: there is one after each change.                 *)
Search(names, filter) ==
  /\ search = NoSearch
  /\ names # {} /\ \A c \in names : collection[c].exists
  /\ search' = Outcome(names, store, filter, filter)
  /\ UNCHANGED <<store, partial, collection>>

(* POST /vector_stores/{id}/search: one collection, and the filter         *)
(* converted first.                                                        *)
SearchVectorStore(c, filter) ==
  /\ search = NoSearch
  /\ collection[c].exists
  /\ search' = Outcome({c}, "openai", filter, ToStore(store, "openai", filter))
  /\ UNCHANGED <<store, partial, collection>>

Next ==
  \/ \E c \in Collections :
       \/ \E request \in Requests[c] : CreateCollection(c, request)
       \/ \E metadata \in Metadata[c] : Upload(c, metadata)
       \/ \E filter \in Filters["openai"] : SearchVectorStore(c, filter)
  \/ \E names \in SUBSET Collections, filter \in Filters[store] : Search(names, filter)

Spec == Init /\ [][Next]_vars

-----------------------------------------------------------------------------
(* The last search was in Milvus: its expression, and what Milvus would    *)
(* find of a collection with the expression e instead.                     *)
SearchedMilvus == store = "milvus" /\ search.kind \in {"milvus", "openai"}
Expression == ToStore("milvus", search.kind, search.filter)
FindsWith(c, e) ==
  \E d \in collection[c].documents : Finds("milvus", collection[c].schema, e, d.stored)

(* Literals that the validators let pass for fields where the same value   *)
(* is stored in another form: blanks are removed from texts, and a list of *)
(* numbers, or of true and false, holds nothing else, although "includes"  *)
(* may ask for any value.                                                  *)
Trimmed(l) == IsQuoted(l) /\ l.text.kind = "text" /\ l.text.blank
Loose(f, l) ==
  LET parts == IF IsArray(l) THEN Items(l) ELSE {l}
  IN CASE f.type = "string"          -> \E i \in parts : Trimmed(i)
       [] f.array_type \in Numeric   -> \E i \in parts : i.lit # "number"
       [] f.array_type = "boolean"   -> \E i \in parts : i.lit # "boolean"
       [] OTHER                      -> FALSE

(* Does the expression e ask for the value v of the field?                 *)
AsksFor(e, v) ==
  LET own == Literal(v)
  IN \/ e.expr = "comparison" /\ e.op = "==" /\ e.value = own
     \/ /\ e.expr = "in" /\ ~e.negated
        /\ IF IsArray(own) THEN Items(e.value) \cap Items(own) # {} ELSE own \in Items(e.value)
     \/ /\ e.expr \in {"includes", "member"} /\ ~e.negated /\ IsArray(own)
        /\ IF IsArray(e.value) THEN Items(e.value) \subseteq Items(own) ELSE e.value \in Items(own)

(* A document is found by the values it was sent with: what the upload     *)
(* makes of a value (lower case, no blanks, a number, an instant), and     *)
(* what the filter makes of it, in two other modules of the code, meet.    *)
(* The name of the file is always that of the file, and for what the       *)
(* system extracts itself nothing is taken from the client.                *)
OwnValueFound ==
  SearchedMilvus /\ Expression \in Atoms =>
    \A c \in search.names : \A d \in collection[c].documents :
      LET e == Expression
          f == FieldNamed(collection[c].schema, e.field)
      IN (/\ d.sent # Absent /\ e.field \in DOMAIN d.sent \ {"filename"} /\ f.user_defined
          /\ AsksFor(e, d.sent[e.field]) /\ ~Loose(f, e.value))
           => c \in search.found

(* An expression and the same with the opposite operator.                  *)
Opposite(e) ==
  CASE e.expr = "comparison" /\ e.op = "==" -> {[e EXCEPT !.op = "!="]}
    [] e.expr \in {"in", "includes", "member"} -> {[e EXCEPT !.negated = ~@]}
    [] OTHER -> {}

(* No document is found both by an expression and by its opposite, so that *)
(* one excludes what the other asks for.  Not so with != and a date that   *)
(* has no time of day: the code reads it as the start of that day, and ==  *)
(* as all of it.                                                           *)
OppositesExclude ==
  SearchedMilvus /\ Expression \in Atoms =>
    \A e \in Opposite(Expression), c \in search.names :
      c \in search.found /\ FindsWith(c, e)
        => e.expr = "comparison" /\ DateOnly(e.value)

(* A date without a time of day is a day: every document with an instant   *)
(* lies before it, in it or after it, and the other operators agree.  (A   *)
(* file name is no instant, even if the schema calls it one.)              *)
DaysPartition ==
  SearchedMilvus /\ Expression \in Atoms
    /\ Expression.expr = "comparison" /\ DateOnly(Expression.value)
    /\ Expression.field # "filename" =>
    \A c \in search.names :
      LET e == Expression
          Finding(op) == FindsWith(c, [e EXCEPT !.op = op])
          day == {op \in {"<", "==", ">"} : Finding(op)}
          dated == \E d \in collection[c].documents : Stored(d.stored, e.field) # Null
      IN FieldNamed(collection[c].schema, e.field).type = "datetime" /\ dated =>
           /\ Cardinality(day) = 1
           /\ Finding("<=") <=> day \cap {"<", "=="} # {}
           /\ Finding(">=") <=> day \cap {">", "=="} # {}
           /\ FindsWith(c, BeforeAfter(e.field, "before", e.value)) <=> "<" \in day
           /\ FindsWith(c, BeforeAfter(e.field, "after", e.value)) <=> ">" \in day
           /\ FindsWith(c, Between(e.field, e.value, e.value)) <=> "==" \in day

(* The values for which both stores can agree: those of the type of the    *)
(* field, texts in lower case (only Milvus lowers them) and dates without  *)
(* a time of day (only Milvus reads one in local time).                    *)
Plain(v) == Lower(v) = v /\ Strip(v) = v
Alike(type, v) ==
  CASE type = "string"   -> IsText(v) /\ Plain(v)
    [] type = "datetime" -> v.kind = "date" /\ ~HasExplicitTime(v)
    [] type = "boolean"  -> v.kind = "bool"
    [] OTHER             -> v.kind \in {"number", "numeral"}

(* Tests of fields that the document has; != of a date apart, as above,    *)
(* and lists but for "in", which Elasticsearch would compare with one      *)
(* element after the other.                                                *)
ComparesAlike(schema, document, t) ==
  LET f == FieldNamed(schema, t.key)
      type == IF f.type = "array" THEN f.array_type ELSE f.type
  IN /\ t.key \in DOMAIN document
     /\ IF t.value.kind = "list"
        THEN t.op \in {"in", "nin"} /\ \A i \in DOMAIN t.value.items : Alike(type, t.value.items[i])
        ELSE Alike(type, t.value)
     /\ ~(t.op = "ne" /\ type = "datetime")
Comparison(schema, document, o) ==
  TreeFold(LAMBDA x, alike : /\ IsTest(x) => ComparesAlike(schema, document, x)
                            /\ \A i \in DOMAIN alike : alike[i], Operated, o)

(* A filter of the OpenAI form that both stores accept finds the same      *)
(* documents in both: the code writes it as a text for Milvus, which it    *)
(* parses and transforms again, and as clauses for Elasticsearch.          *)
BackendsAgree ==
  search.kind = "openai" =>
    \A c \in search.names : \A d \in collection[c].documents :
      LET schema == collection[c].schema
          m == ToMilvus(search.filter)
          e == ToElastic(search.filter)
      IN /\ schema # <<>> /\ Supports("milvus", schema, m) /\ Supports("elasticsearch", schema, e)
         /\ Comparison(schema, d.stored, search.filter)
         => (Finds("milvus", schema, m, d.stored) <=> Finds("elasticsearch", schema, e, d.stored))
=============================================================================
