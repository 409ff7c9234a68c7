------------------------ MODULE MetadataSearchProofs ------------------------
(***************************************************************************)
(* Proofs about MetadataSearch for every schema, metadata and filter.      *)
(* What is found is related to what was sent with a document by the same   *)
(* steps as in the code: the value is validated, changed and written; the  *)
(* expression is validated, transformed and evaluated.                     *)
(***************************************************************************)
EXTENDS MetadataSearch, FiniteSetTheorems, TLAPS

-----------------------------------------------------------------------------
(* The collections.  A document is what some metadata made of it.          *)
UploadedTo(c, schema, documents) ==
  /\ \A i \in DOMAIN schema : ValidField(schema[i])
  /\ \A d1, d2 \in documents : d1 = d2
  /\ \A d \in documents : \E metadata \in Metadata[c] :
       ValidUpload(schema, metadata) /\ d = Document(schema, metadata)

Uploaded(c) == UploadedTo(c, collection[c].schema, collection[c].documents)

(* The last search looked into collections that support its filter, and    *)
(* found what the filter finds.                                            *)
Searched ==
  search.kind \in {"milvus", "elasticsearch", "openai"} =>
    LET f == ToStore(store, search.kind, search.filter)
    IN \A c \in search.names :
         /\ c \in Collections /\ Supports(store, collection[c].schema, f)
         /\ c \in search.found <=>
              \E d \in collection[c].documents : Finds(store, collection[c].schema, f, d.stored)

Inv ==
  /\ store \in {"milvus", "elasticsearch"}
  /\ DOMAIN collection = Collections
  /\ \A c \in Collections : Uploaded(c)
  /\ Searched

LEMMA InvInit == Init => Inv
  BY DEF Init, Inv, Uploaded, UploadedTo, Searched, NoSearch, NoCollection

(* A change of a collection, after which there has been no search yet.     *)
LEMMA CollectionChanged ==
  ASSUME Inv, NEW c \in Collections, NEW schema, NEW documents, UploadedTo(c, schema, documents)
  PROVE  /\ UNCHANGED store /\ search' = NoSearch
         /\ collection' = [collection EXCEPT ![c] = Existing(schema, documents)]
         => Inv'
<1> SUFFICES ASSUME UNCHANGED store, search' = NoSearch,
                    collection' = [collection EXCEPT ![c] = Existing(schema, documents)]
             PROVE  Inv'
  OBVIOUS
<1>1. /\ collection'[c].schema = schema /\ collection'[c].documents = documents
      /\ \A b \in Collections \ {c} : collection'[b] = collection[b]
      /\ DOMAIN collection' = Collections
  BY DEF Inv, Existing
<1>2. \A b \in Collections : Uploaded(b)'
  BY <1>1 DEF Inv, Uploaded
<1>3. Searched'
  BY DEF Searched, NoSearch
<1> QED
  BY <1>1, <1>2, <1>3 DEF Inv

LEMMA CreateKeepsInv ==
  ASSUME Inv, NEW c \in Collections, NEW request, CreateCollection(c, request)
  PROVE  Inv'
<1> DEFINE schema == SchemaOf(request)
           kept == IF \A i \in DOMAIN schema : ValidField(schema[i]) THEN schema ELSE <<>>
<1>1. UploadedTo(c, kept, {})
  BY DEF UploadedTo
<1>2. /\ UNCHANGED store /\ search' = NoSearch
      /\ collection' = [collection EXCEPT ![c] = Existing(kept, {})]
  BY DEF CreateCollection
<1> HIDE DEF kept
<1> QED
  BY <1>1, <1>2, CollectionChanged

LEMMA UploadKeepsInv ==
  ASSUME Inv, NEW c \in Collections, NEW metadata \in Metadata[c], Upload(c, metadata)
  PROVE  Inv'
<1> DEFINE schema == collection[c].schema
           documents == {Document(schema, metadata)}
<1>1. Uploaded(c) /\ ValidUpload(schema, metadata)
  BY DEF Inv, Upload
<1>2. UploadedTo(c, schema, documents)
  BY <1>1 DEF Uploaded, UploadedTo
<1>3. /\ UNCHANGED store /\ search' = NoSearch
      /\ collection' = [collection EXCEPT ![c] = Existing(schema, documents)]
  BY DEF Upload
<1> HIDE DEF documents
<1> QED
  BY <1>2, <1>3, CollectionChanged

(* A search of some collections.                                           *)
LEMMA OutcomeSearched ==
  ASSUME Inv, NEW names \in SUBSET Collections, NEW kind \in {store, "openai"}, NEW filter,
         search' = Outcome(names, kind, filter, ToStore(store, kind, filter)),
         UNCHANGED <<store, partial, collection>>
  PROVE  Inv'
<1> DEFINE f == ToStore(store, kind, filter)
           supporting == {c \in names : Supports(store, collection[c].schema, f)}
           found == {c \in supporting : \E d \in collection[c].documents :
                      Finds(store, collection[c].schema, f, d.stored)}
<1>1. \/ search' = [kind |-> kind, filter |-> filter, names |-> supporting, found |-> found]
      \/ search' = [kind |-> "refused", filter |-> filter]
  BY DEF Outcome
<1>2. ASSUME search' = [kind |-> kind, filter |-> filter, names |-> supporting, found |-> found]
      PROVE  Searched'
  <2>1. search'.kind = kind /\ search'.filter = filter /\ search'.names = supporting
          /\ search'.found = found
    BY <1>2
  <2>2. ToStore(store', search'.kind, search'.filter) = f
    BY <2>1
  <2> HIDE DEF f
  <2> QED
    BY <2>1, <2>2 DEF Searched
<1>3. ASSUME search' = [kind |-> "refused", filter |-> filter] PROVE Searched'
  BY <1>3 DEF Searched
<1>4. Searched'
  BY <1>1, <1>2, <1>3
<1> QED
  BY <1>4 DEF Inv, Uploaded

LEMMA InvStep == Inv /\ [Next]_vars => Inv'
<1> SUFFICES ASSUME Inv, [Next]_vars PROVE Inv'
  OBVIOUS
<1>1. CASE UNCHANGED vars
  <2>1. UNCHANGED <<store, collection, search>>
    BY <1>1 DEF vars
  <2>2. Searched' /\ \A c \in Collections : Uploaded(c)'
    BY <2>1 DEF Inv, Uploaded, Searched
  <2> QED
    BY <2>1, <2>2 DEF Inv
<1>2. ASSUME NEW c \in Collections, NEW request \in Requests[c], CreateCollection(c, request)
      PROVE  Inv'
  BY <1>2, CreateKeepsInv
<1>3. ASSUME NEW c \in Collections, NEW metadata \in Metadata[c], Upload(c, metadata) PROVE Inv'
  BY <1>3, UploadKeepsInv
<1>4. ASSUME NEW c \in Collections, NEW filter \in Filters["openai"], SearchVectorStore(c, filter)
      PROVE  Inv'
  <2>1. {c} \in SUBSET Collections
    OBVIOUS
  <2> QED
    BY <1>4, <2>1, OutcomeSearched DEF SearchVectorStore
<1>5. ASSUME NEW names \in SUBSET Collections, NEW filter \in Filters[store], Search(names, filter)
      PROVE  Inv'
  <2>1. ToStore(store, store, filter) = filter
    BY DEF Inv, ToStore
  <2> QED
    BY <1>5, <2>1, OutcomeSearched DEF Search
<1> QED
  BY <1>1, <1>2, <1>3, <1>4, <1>5 DEF Next

LEMMA InvHolds == Spec => []Inv
  BY InvInit, InvStep, PTL DEF Spec

-----------------------------------------------------------------------------
(* Expressions about one field: the functions on trees are those on nodes. *)
AtomKinds ==
  {"comparison", "length", "like", "between", "before_after", "includes", "member", "in",
   "function", "is_null"}

LEMMA KindsOfAtoms == \A e \in Atoms : e.expr \in AtomKinds
  BY DEF Atoms, AtomKinds

LEMMA NoOperands == ASSUME NEW e, e.expr \in AtomKinds PROVE Operands(e) = <<>>
  BY DEF AtomKinds, Operands

LEMMA FieldOf ==
  ASSUME NEW schema, NEW n \in Names(schema), \A i \in DOMAIN schema : ValidField(schema[i])
  PROVE  FieldNamed(schema, n).name = n /\ ValidField(FieldNamed(schema, n))
<1> DEFINE i == CHOOSE j \in DOMAIN schema : schema[j].name = n
<1>1. i \in DOMAIN schema /\ schema[i].name = n
  BY DEF Names
<1> QED
  BY <1>1 DEF FieldNamed

LEMMA AtomAccepted ==
  ASSUME NEW schema, NEW e, e.expr \in AtomKinds, Accepted(schema, e)
  PROVE  /\ e.field \in Names(schema) /\ ValidAtom(FieldNamed(schema, e.field), e)
         /\ ~RaisesNode(e)
<1>1. Operands(e) = <<>>
  BY NoOperands
<1>2. ValidNode(schema, e)
  BY <1>1 DEF Accepted, Valid, TreeFold
<1>3. ~RaisesNode(e)
  BY <1>1 DEF Accepted, Raises, TreeFold
<1> QED
  BY <1>1, <1>2, <1>3 DEF ValidNode, HasField, AtomKinds

(* What is left of a tree of Milvus is a leaf.                             *)
LeafKinds == {"compare", "range", "in", "contains", "length", "like"}

LEMMA LeafHolds ==
  ASSUME NEW document, NEW m, m.milvus \in LeafKinds
  PROVE  Holds(document, m) <=> HoldsLeaf(document, m)
<1>1. Parts(m) = <<>>
  BY DEF Parts, LeafKinds
<1>2. m.milvus \notin {"not", "and", "or"}
  BY DEF LeafKinds
<1> QED
  BY <1>1, <1>2 DEF Holds, TreeFold

LEMMA AtomFinds ==
  ASSUME NEW schema, NEW document, NEW e, e.expr \in AtomKinds,
         Atom(FieldNamed(schema, e.field), e).milvus \in LeafKinds
  PROVE  Finds("milvus", schema, e, document)
           <=> HoldsLeaf(document, Atom(FieldNamed(schema, e.field), e))
<1>1. Operands(e) = <<>>
  BY NoOperands
<1>2. Transform(schema, e) = Atom(FieldNamed(schema, e.field), e)
  BY <1>1 DEF Transform, TreeFold
<1> QED
  BY <1>2, LeafHolds DEF Finds

LEMMA AtomOf ==
  ASSUME NEW f, NEW e
  PROVE  /\ e.expr = "comparison" => Atom(f, e) = ComparisonAtom(f, e)
         /\ e.expr = "like" => Atom(f, e) = LikeText(f.name, e.value)
         /\ e.expr = "between" => Atom(f, e) = BetweenAtom(f, e)
         /\ e.expr = "before_after" => Atom(f, e) = BeforeAfterAtom(f, e)
         /\ e.expr = "includes" => Atom(f, e) = IncludesAtom(f, e)
         /\ e.expr = "function" => Atom(f, e) = FunctionAtom(f, e)
         /\ e.expr = "length" => Atom(f, e) = LengthIs(f.name, e.op, e.value)
         /\ e.expr = "member" => Atom(f, e) = MemberAtom(f, e)
         /\ e.expr = "in" => Atom(f, e) = InAtom(f, e)
  BY DEF Atom

LEMMA AtomIsLeaf ==
  ASSUME NEW f, NEW e, e.expr \in AtomKinds \ {"is_null"}
  PROVE  Atom(f, e).milvus \in LeafKinds
<1>1. /\ ComparisonAtom(f, e).milvus \in LeafKinds /\ BetweenAtom(f, e).milvus \in LeafKinds
      /\ BeforeAfterAtom(f, e).milvus \in LeafKinds
  BY DEF ComparisonAtom, BetweenAtom, BeforeAfterAtom, Is, Within, LeafKinds
<1>2. /\ IncludesAtom(f, e).milvus \in LeafKinds /\ FunctionAtom(f, e).milvus \in LeafKinds
      /\ MemberAtom(f, e).milvus \in LeafKinds /\ InAtom(f, e).milvus \in LeafKinds
  BY DEF IncludesAtom, FunctionAtom, MemberAtom, InAtom, In, Contains, LeafKinds
<1>3. /\ LikeText(f.name, e.value).milvus \in LeafKinds
      /\ LengthIs(f.name, e.op, e.value).milvus \in LeafKinds
  BY DEF LikeText, LengthIs, LeafKinds
<1> QED
  BY <1>1, <1>2, <1>3, AtomOf DEF AtomKinds

(* When they hold.                                                         *)
LEMMA CompareHolds ==
  ASSUME NEW document, NEW name, NEW op, NEW l
  PROVE  HoldsLeaf(document, Is(name, op, l)) <=> Related(op, Stored(document, name), l)
  BY DEF HoldsLeaf, Is

LEMMA RangeHolds ==
  ASSUME NEW document, NEW name, NEW from, NEW to
  PROVE  HoldsLeaf(document, Within(name, from, to))
           <=> /\ Related(">=", Stored(document, name), from)
               /\ Related("<=", Stored(document, name), to)
  BY DEF HoldsLeaf, Within

LEMMA InHolds ==
  ASSUME NEW document, NEW name, NEW l
  PROVE  /\ HoldsLeaf(document, In(name, FALSE, l)) <=> Stored(document, name) \in Items(l)
         /\ HoldsLeaf(document, In(name, TRUE, l)) <=> Stored(document, name) \notin Items(l)
<1>1. ASSUME NEW negated \in BOOLEAN
      PROVE  HoldsLeaf(document, In(name, negated, l))
               <=> ((Stored(document, name) \in Items(l)) # negated)
  <2> DEFINE m == In(name, negated, l)
  <2>1. m.milvus = "in" /\ m.field = name /\ m.negated = negated /\ m.value = l
    BY DEF In
  <2> HIDE DEF m
  <2>2. HoldsLeaf(document, m) <=> ((Stored(document, m.field) \in Items(m.value)) # m.negated)
    BY <2>1 DEF HoldsLeaf
  <2> QED
    BY <2>1, <2>2 DEF m
<1>2. (Stored(document, name) \in Items(l)) \in BOOLEAN
  OBVIOUS
<1> QED
  BY <1>1, <1>2

(* The elements of a literal that an array may have.                       *)
Elements(l) == IF IsArray(l) THEN Items(l) ELSE {l}
Contained(v, all, l) ==
  IsArray(v) /\ IF all THEN Elements(l) \subseteq Items(v) ELSE Elements(l) \cap Items(v) # {}

LEMMA ContainsHolds ==
  ASSUME NEW document, NEW name, NEW all, NEW l
  PROVE  /\ HoldsLeaf(document, Contains(name, FALSE, all, l))
              <=> Contained(Stored(document, name), all, l)
         /\ HoldsLeaf(document, Contains(name, TRUE, all, l))
              <=> ~Contained(Stored(document, name), all, l)
<1> DEFINE v == Stored(document, name)
<1>1. ASSUME NEW negated \in BOOLEAN
      PROVE  HoldsLeaf(document, Contains(name, negated, all, l))
               <=> (Contained(v, all, l) # negated)
  <2> DEFINE m == Contains(name, negated, all, l)
  <2>1. m.milvus = "contains" /\ m.field = name /\ m.negated = negated /\ m.all = all
    BY DEF Contains
  <2>2. Items(m.value) = Elements(l)
    BY DEF Contains, Elements, Items, Array, IsArray
  <2> HIDE DEF m
  <2>3. HoldsLeaf(document, m) <=>
          (IsArray(v) /\ IF m.all THEN Items(m.value) \subseteq Items(v)
                         ELSE Items(m.value) \cap Items(v) # {}) # m.negated
    BY <2>1 DEF HoldsLeaf
  <2> QED
    BY <2>1, <2>2, <2>3 DEF Contained, m
<1>2. Contained(v, all, l) \in BOOLEAN
  BY DEF Contained
<1> QED
  BY <1>1, <1>2

(* An inequality holds between values that have an order.                  *)
LEMMA Relations ==
  ASSUME NEW l1, NEW l2
  PROVE  /\ Related("==", l1, l2) <=> l1 = l2
         /\ Related("!=", l1, l2) <=> l1 # l2
         /\ Related(">", l1, l2) <=> Ordered(l1, l2) /\ Rank(l1) > Rank(l2)
         /\ Related(">=", l1, l2) <=> Ordered(l1, l2) /\ Rank(l1) >= Rank(l2)
         /\ Related("<", l1, l2) <=> Ordered(l1, l2) /\ Rank(l1) < Rank(l2)
         /\ Related("<=", l1, l2) <=> Ordered(l1, l2) /\ Rank(l1) <= Rank(l2)
<1>1. Related("==", l1, l2) <=> l1 = l2
  BY DEF Related
<1>2. Related("!=", l1, l2) <=> l1 # l2
  BY DEF Related
<1>3. Related(">", l1, l2) <=> Ordered(l1, l2) /\ Rank(l1) > Rank(l2)
  BY DEF Related
<1>4. Related(">=", l1, l2) <=> Ordered(l1, l2) /\ Rank(l1) >= Rank(l2)
  BY DEF Related
<1>5. Related("<", l1, l2) <=> Ordered(l1, l2) /\ Rank(l1) < Rank(l2)
  BY DEF Related
<1>6. Related("<=", l1, l2) <=> Ordered(l1, l2) /\ Rank(l1) <= Rank(l2)
  BY DEF Related
<1> QED
  BY <1>1, <1>2, <1>3, <1>4, <1>5, <1>6

-----------------------------------------------------------------------------
(* Literals.                                                               *)
LEMMA AtomTypes ==
  ASSUME NEW e \in Atoms
  PROVE  /\ e.expr = "comparison" =>
              e \in [expr : {"comparison", "length"}, field : STRING,
                     op : {"==", "!="} \cup Orders, value : Literals]
         /\ e.expr \in {"includes", "member"} =>
              e \in [expr : {"includes", "member"}, field : STRING, negated : BOOLEAN,
                     value : Literals]
         /\ e.expr = "in" =>
              e \in [expr : {"in"}, field : STRING, negated : BOOLEAN, value : Arrays]
  BY DEF Atoms

LEMMA ArrayOrScalar ==
  /\ \A l \in Arrays : IsArray(l) /\ l.items \in Seq(ScalarLiterals)
  /\ \A l \in ScalarLiterals : ~IsArray(l)
  /\ \A l \in Literals : IsArray(l) => l \in Arrays
  BY DEF Literals, Arrays, ScalarLiterals, IsArray, Null

LEMMA SomeElement ==
  ASSUME NEW l \in Literals, ~RaisesFor(l)
  PROVE  Elements(l) # {}
<1>1. CASE IsArray(l)
  <2>1. l.items \in Seq(ScalarLiterals) /\ l.items # <<>>
    BY <1>1, ArrayOrScalar DEF RaisesFor
  <2>2. 1 \in DOMAIN l.items
    BY <2>1
  <2> QED
    BY <1>1, <2>2 DEF Elements, Items
<1>2. CASE ~IsArray(l)
  BY <1>2 DEF Elements
<1> QED
  BY <1>1, <1>2

(* Lower case, element by element.                                         *)
LEMMA LoweredElements ==
  ASSUME NEW l
  PROVE  /\ IsArray(LowerItem(l)) <=> IsArray(l)
         /\ IsArray(LowerItems(l)) <=> IsArray(l)
         /\ IsArray(l) => Items(LowerItems(l)) = {LowerItem(x) : x \in Items(l)}
         /\ ~IsArray(l) => LowerItems(l) = l
<1>1. IsArray(LowerItem(l)) <=> IsArray(l)
  BY DEF IsArray, LowerItem, IsQuoted, Quoted
<1>2. ~IsArray(l) => LowerItems(l) = l
  BY DEF LowerItems
<1>3. ASSUME IsArray(l)
      PROVE  IsArray(LowerItems(l)) /\ Items(LowerItems(l)) = {LowerItem(x) : x \in Items(l)}
  <2> DEFINE items == [i \in DOMAIN l.items |-> LowerItem(l.items[i])]
  <2>1. LowerItems(l) = Array(items)
    BY <1>3 DEF LowerItems
  <2>2. DOMAIN items = DOMAIN l.items /\ \A i \in DOMAIN l.items : items[i] = LowerItem(l.items[i])
    OBVIOUS
  <2>3. Array(items).items = items /\ IsArray(Array(items))
    BY DEF Array, IsArray
  <2> HIDE DEF items
  <2> QED
    BY <2>1, <2>2, <2>3 DEF Items
<1> QED
  BY <1>1, <1>2, <1>3

LEMMA NeedleElements ==
  ASSUME NEW f, NEW l
  PROVE  /\ IsArray(Needle(f, l)) <=> IsArray(l)
         /\ IsArray(l) => Elements(Needle(f, l)) = {LowerItem(x) : x \in Items(l)}
         /\ ~IsArray(l) => Elements(Needle(f, l)) =
              {IF f.array_type = "string" THEN LowerItem(l) ELSE l}
  BY LoweredElements DEF Needle, Elements

-----------------------------------------------------------------------------
(* An expression and its opposite.                                         *)
LEMMA OppositeOf ==
  ASSUME NEW e \in Atoms, NEW o \in Opposite(e)
  PROVE  /\ o.expr = e.expr /\ o.field = e.field /\ o.value = e.value
         /\ e.expr \in {"comparison", "in", "includes", "member"}
         /\ e.expr = "comparison" => e.op = "==" /\ o.op = "!="
         /\ e.expr # "comparison" =>
              e.negated \in BOOLEAN /\ o.negated \in BOOLEAN /\ o.negated = ~e.negated
<1>1. CASE e.expr = "comparison"
  <2>1. e.op = "==" /\ o = [e EXCEPT !.op = "!="]
    BY <1>1 DEF Opposite
  <2> QED
    BY <1>1, <2>1, AtomTypes
<1>2. CASE e.expr \in {"in", "includes", "member"}
  <2>1. o = [e EXCEPT !.negated = ~@]
    BY <1>2 DEF Opposite
  <2>2. CASE e.expr = "in"
    BY <1>2, <2>1, <2>2, AtomTypes
  <2>3. CASE e.expr # "in"
    BY <1>2, <2>1, <2>3, AtomTypes
  <2> QED
    BY <2>2, <2>3
<1> QED
  BY <1>1, <1>2 DEF Opposite

(* A date with a time of day, and what is no date, mean the same to both   *)
(* operators.                                                              *)
LEMMA SameComparedTo ==
  ASSUME NEW f, NEW l, ~DateOnly(l)
  PROVE  ComparedTo(f, "==", l) = ComparedTo(f, "!=", l)
<1>1. Parsed(l, "==") = Parsed(l, "!=")
  BY DEF Parsed, DateOnly, ParseDatetime
<1> QED
  BY <1>1 DEF ComparedTo

LEMMA OppositeAtoms ==
  ASSUME NEW f, NEW e \in Atoms, ~RaisesNode(e), NEW o \in Opposite(e), NEW document,
         HoldsLeaf(document, Atom(f, e)), HoldsLeaf(document, Atom(f, o))
  PROVE  o.expr = "comparison" /\ DateOnly(o.value)
<1> DEFINE v == Stored(document, f.name)
<1>1. /\ o.expr = e.expr /\ o.field = e.field /\ o.value = e.value
      /\ e.expr \in {"comparison", "in", "includes", "member"}
      /\ e.expr = "comparison" => e.op = "==" /\ o.op = "!="
      /\ e.expr # "comparison" =>
           e.negated \in BOOLEAN /\ o.negated \in BOOLEAN /\ o.negated = ~e.negated
  BY OppositeOf
<1>2. \/ e.expr = "comparison"
      \/ e.negated = TRUE /\ o.negated = FALSE
      \/ e.negated = FALSE /\ o.negated = TRUE
  BY <1>1
<1>3. CASE e.expr = "comparison" /\ ~DateOnly(e.value)
  <2>1. Atom(f, e) = Is(f.name, "==", ComparedTo(f, "==", e.value))
    BY <1>1, <1>3, AtomOf DEF ComparisonAtom
  <2>2. Atom(f, o) = Is(f.name, "!=", ComparedTo(f, "!=", e.value))
    BY <1>1, <1>3, AtomOf DEF ComparisonAtom
  <2>3. v = ComparedTo(f, "==", e.value)
    BY <2>1, CompareHolds, Relations
  <2>4. v # ComparedTo(f, "!=", e.value)
    BY <2>2, CompareHolds, Relations
  <2> QED
    BY <1>3, <2>3, <2>4, SameComparedTo
<1>4. CASE e.expr = "in" /\ f.type # "array"
  <2>1. /\ Atom(f, e) = In(f.name, e.negated, LowerItems(e.value))
        /\ Atom(f, o) = In(f.name, o.negated, LowerItems(e.value))
    BY <1>1, <1>4, AtomOf DEF InAtom
  <2> QED
    BY <1>2, <1>4, <2>1, InHolds
<1>5. CASE e.expr = "in" /\ f.type = "array"
  <2>1. /\ Atom(f, e) = Contains(f.name, e.negated, FALSE, LowerItems(e.value))
        /\ Atom(f, o) = Contains(f.name, o.negated, FALSE, LowerItems(e.value))
    BY <1>1, <1>5, AtomOf DEF InAtom
  <2> QED
    BY <1>2, <1>5, <2>1, ContainsHolds
<1>6. CASE e.expr = "member"
  <2>1. /\ Atom(f, e) = Contains(f.name, e.negated, FALSE, Needle(f, e.value))
        /\ Atom(f, o) = Contains(f.name, o.negated, FALSE, Needle(f, e.value))
    BY <1>1, <1>6, AtomOf DEF MemberAtom
  <2> QED
    BY <1>2, <1>6, <2>1, ContainsHolds
<1>7. CASE e.expr = "includes"
  <2> DEFINE needle == Needle(f, e.value)
  <2>1. /\ Atom(f, e) = Contains(f.name, e.negated, ~e.negated, needle)
        /\ Atom(f, o) = Contains(f.name, o.negated, ~o.negated, needle)
    BY <1>1, <1>7, AtomOf DEF IncludesAtom
  <2>2. Elements(needle) # {}
    <3>1. e.value \in Literals /\ ~RaisesFor(e.value)
      <4>1. e.value \in Literals
        BY <1>7, AtomTypes
      <4>2. Operands(e) = <<>>
        BY <1>7, NoOperands DEF AtomKinds
      <4>3. ~RaisesFor(e.value)
        BY <1>7, <4>2 DEF RaisesNode
      <4> QED
        BY <4>1, <4>3
    <3>2. Elements(e.value) # {}
      BY <3>1, SomeElement
    <3>3. IsArray(e.value) => Elements(e.value) = Items(e.value)
      BY DEF Elements
    <3> QED
      BY <3>2, <3>3, NeedleElements
  <2>3. Contained(v, TRUE, needle) /\ ~Contained(v, FALSE, needle)
    BY <1>2, <1>7, <2>1, ContainsHolds
  <2> HIDE DEF needle, v
  <2> QED
    BY <2>2, <2>3 DEF Contained
<1> QED
  BY <1>1, <1>3, <1>4, <1>5, <1>6, <1>7

(* What the last search says of the collections it looked into.            *)
LEMMA SearchedAtom ==
  ASSUME Inv, SearchedMilvus, Expression \in Atoms, NEW c \in search.names
  PROVE  LET schema == collection[c].schema
             f == FieldNamed(schema, Expression.field)
         IN /\ c \in Collections /\ Uploaded(c)
            /\ schema # <<>> /\ ValidSchema(schema)
            /\ Expression.field \in Names(schema)
            /\ f.name = Expression.field /\ ValidField(f) /\ ValidAtom(f, Expression)
            /\ ~RaisesNode(Expression)
            /\ c \in search.found <=>
                 \E d \in collection[c].documents : Finds("milvus", schema, Expression, d.stored)
<1> DEFINE schema == collection[c].schema
<1>1. ToStore(store, search.kind, search.filter) = Expression
  BY DEF SearchedMilvus, Expression
<1>2. /\ c \in Collections /\ Supports("milvus", schema, Expression)
      /\ c \in search.found <=>
           \E d \in collection[c].documents : Finds("milvus", schema, Expression, d.stored)
  BY <1>1 DEF Inv, Searched, SearchedMilvus
<1>3. Uploaded(c) /\ \A i \in DOMAIN schema : ValidField(schema[i])
  BY <1>2 DEF Inv, Uploaded, UploadedTo
<1>4. schema # <<>> /\ ValidSchema(schema) /\ Accepted(schema, Expression)
  BY <1>2 DEF Supports, SupportsMilvus
<1>5. /\ Expression.field \in Names(schema) /\ ~RaisesNode(Expression)
      /\ ValidAtom(FieldNamed(schema, Expression.field), Expression)
  BY <1>4, KindsOfAtoms, AtomAccepted
<1> QED
  BY <1>2, <1>3, <1>4, <1>5, FieldOf

(* No document of a collection that was searched is found both by an       *)
(* expression and by its opposite: "does not include", "not in" and != are *)
(* the complements of what they negate, except for dates as whole days.    *)
THEOREM OppositesExcluded == Spec => []OppositesExclude
<1>1. Inv => OppositesExclude
  <2> SUFFICES ASSUME Inv, SearchedMilvus, Expression \in Atoms,
                      NEW o \in Opposite(Expression), NEW c \in search.names,
                      c \in search.found, FindsWith(c, o)
               PROVE  o.expr = "comparison" /\ DateOnly(o.value)
    BY DEF OppositesExclude
  <2> DEFINE e == Expression
             schema == collection[c].schema
             f == FieldNamed(schema, e.field)
  <2>1. /\ ~RaisesNode(e)
        /\ \E d \in collection[c].documents : Finds("milvus", schema, e, d.stored)
        /\ \A d1, d2 \in collection[c].documents : d1 = d2
    BY SearchedAtom DEF Uploaded, UploadedTo
  <2>2. PICK d \in collection[c].documents :
          Finds("milvus", schema, e, d.stored) /\ Finds("milvus", schema, o, d.stored)
    BY <2>1 DEF FindsWith
  <2>3. /\ o.field = e.field /\ o.expr = e.expr
        /\ e.expr \in AtomKinds \ {"is_null"}
    BY OppositeOf DEF AtomKinds
  <2>4. HoldsLeaf(d.stored, Atom(f, e))
    BY <2>2, <2>3, AtomIsLeaf, AtomFinds
  <2>5. HoldsLeaf(d.stored, Atom(f, o))
    BY <2>2, <2>3, AtomIsLeaf, AtomFinds
  <2> HIDE DEF e
  <2>6. e \in Atoms /\ o \in Opposite(e)
    BY DEF e
  <2> QED
    BY <2>1, <2>4, <2>5, <2>6, OppositeAtoms
<1> QED
  BY <1>1, InvHolds, PTL

-----------------------------------------------------------------------------
(* What an upload makes of the metadata: the value of a field is what its  *)
(* validator made of what was sent, and empty ones are not written.        *)
Given(metadata, n) == IF n \in DOMAIN metadata THEN metadata[n] ELSE Absent
Empty == {None, List(<<>>), Text("", FALSE, FALSE)}

LEMMA WrittenField ==
  ASSUME NEW schema, schema # <<>>, NEW metadata, ValidUpload(schema, metadata),
         NEW n \in Names(schema) \ {"filename"}
  PROVE  LET stored == Document(schema, metadata).stored
             f == FieldNamed(schema, n)
             value == FieldValue(f, Given(metadata, n))
         IN /\ n \in DOMAIN stored => metadata # Absent
            /\ metadata # Absent =>
                 /\ value # Bad
                 /\ n \in DOMAIN stored => stored[n] = value /\ value \notin Empty
                 /\ f.user_defined /\ value \notin Empty => n \in DOMAIN stored /\ stored[n] = value
<1> DEFINE f == FieldNamed(schema, n)
           value == FieldValue(f, Given(metadata, n))
           values == Normalized(schema, metadata)
           stored == Document(schema, metadata).stored
<1>1. CASE metadata = Absent
  <2>1. stored = Written(schema, FileName, <<>>)
    BY <1>1 DEF Document
  <2>2. DOMAIN stored = {"filename"}
    BY <2>1 DEF Written
  <2> QED
    BY <1>1, <2>2
<1>2. CASE metadata # Absent
  <2>1. stored = Written(schema, FileName, values)
    BY <1>2 DEF Document
  <2>2. DOMAIN values = Names(schema) /\ values[n] = value
    BY DEF Normalized, Given
  <2>3. values[n] # Bad
    BY <1>2 DEF ValidUpload, ValidMetadata
  <2> HIDE DEF values, value
  <2>4. n \in DOMAIN stored <=> values[n] \notin Empty /\ f.user_defined
    BY <2>1, <2>2 DEF Written, Empty
  <2>5. n \in DOMAIN stored => stored[n] = values[n]
    BY <2>1 DEF Written
  <2> QED
    BY <1>2, <2>2, <2>3, <2>4, <2>5 DEF value
<1> QED
  BY <1>1, <1>2

(* The kinds of values that clients can send.                              *)
LEMMA KindsOfValues ==
  ASSUME NEW v \in Values
  PROVE  /\ v.kind = "text" => v \in Texts
         /\ v.kind = "date" => v \in Dates
         /\ v.kind \in {"number", "numeral"} => v \in [kind : {"number", "numeral"}, n : Int]
         /\ v.kind = "bool" => v \in [kind : {"bool"}, b : BOOLEAN]
         /\ v.kind = "list" => v \in [kind : {"list"}, items : Seq(Scalars)]
         /\ v.kind = "none" => v = None
         /\ v.kind \in {"text", "date", "number", "numeral", "bool", "list", "none"}
<1>1. CASE v \in Texts
  <2>1. v.kind = "text"
    BY <1>1 DEF Texts
  <2> QED
    BY <1>1, <2>1
<1>2. CASE v \in Dates
  <2>1. v.kind = "date"
    BY <1>2 DEF Dates
  <2> QED
    BY <1>2, <2>1
<1>3. CASE v \in [kind : {"number", "numeral"}, n : Int]
  <2>1. v.kind \in {"number", "numeral"}
    BY <1>3
  <2> QED
    BY <1>3, <2>1
<1>4. CASE v \in [kind : {"bool"}, b : BOOLEAN]
  <2>1. v.kind = "bool"
    BY <1>4
  <2> QED
    BY <1>4, <2>1
<1>5. CASE v = None
  <2>1. v.kind = "none"
    BY <1>5 DEF None
  <2> QED
    BY <1>5, <2>1
<1>6. CASE v \in [kind : {"list"}, items : Seq(Scalars)]
  <2>1. v.kind = "list"
    BY <1>6
  <2> QED
    BY <1>6, <2>1
<1> QED
  BY <1>1, <1>2, <1>3, <1>4, <1>5, <1>6 DEF Values, Scalars

(* The validator of a field is that of its type.                           *)
LEMMA ValidatorOf ==
  ASSUME NEW f, NEW v, v # Absent
  PROVE  /\ f.type = "string" => FieldValue(f, v) \in {Bad, StringValue(f, v)}
         /\ f.type = "datetime" => FieldValue(f, v) = DatetimeValue(v)
         /\ f.type = "boolean" => FieldValue(f, v) = BooleanValue(v)
         /\ f.type = "array" => FieldValue(f, v) \in {Bad, ArrayValue(f, v)}
         /\ f.type \in Numeric =>
              FieldValue(f, v) = IF v = None /\ ~f.required THEN None ELSE NumericValue(f.type, v)
<1>1. f.type = "string" => Validated(f, v) = StringValue(f, v)
  BY DEF Validated, Numeric
<1>2. f.type = "datetime" => Validated(f, v) = DatetimeValue(v)
  BY DEF Validated, Numeric
<1>3. f.type = "boolean" => Validated(f, v) = BooleanValue(v)
  BY DEF Validated, Numeric
<1>4. f.type = "array" => Validated(f, v) = ArrayValue(f, v)
  BY DEF Validated, Numeric
<1>5. f.type \in Numeric =>
        Validated(f, v) = IF v = None /\ ~f.required THEN None ELSE NumericValue(f.type, v)
  BY DEF Validated, Numeric
<1>6. f.type \notin {"string", "array"} => ~TooLong(f, Validated(f, v))
  BY DEF TooLong
<1> QED
  BY <1>1, <1>2, <1>3, <1>4, <1>5, <1>6 DEF FieldValue, Numeric

(* A datetime field of a document holds an instant.                        *)
LEMMA InstantOf ==
  ASSUME NEW v \in Dates, NEW op
  PROVE  ParseDatetime(v, op) \in Int
  BY MetadataAssumption DEF Dates, ParseDatetime, Start, End

LEMMA DateOf ==
  ASSUME NEW v \in Values, ReadsAsDate(v)
  PROVE  AsDate(v) \in Dates
<1>1. CASE v.kind = "date"
  BY <1>1, KindsOfValues DEF AsDate
<1>2. CASE v.kind # "date"
  <2>1. NumeralDay[v.n] \in Int /\ 0 \in 0 .. DaySeconds - 1
    BY <1>2, MetadataAssumption DEF ReadsAsDate
  <2> QED
    BY <1>2, <2>1 DEF AsDate, Date, Dates
<1> QED
  BY <1>1, <1>2

LEMMA DatetimeStored ==
  ASSUME NEW schema, schema # <<>>, NEW metadata,
         metadata # Absent => \A n \in DOMAIN metadata : metadata[n] \in Values,
         ValidUpload(schema, metadata),
         NEW n \in Names(schema) \ {"filename"}, FieldNamed(schema, n).type = "datetime",
         Stored(Document(schema, metadata).stored, n) # Null
  PROVE  \E t \in Int : Stored(Document(schema, metadata).stored, n) = Quoted(Instant(t))
<1> DEFINE stored == Document(schema, metadata).stored
           f == FieldNamed(schema, n)
           v == Given(metadata, n)
<1>1. n \in DOMAIN stored /\ Stored(stored, n) = Literal(stored[n])
  BY DEF Stored
<1>2. /\ metadata # Absent /\ stored[n] = FieldValue(f, v)
      /\ FieldValue(f, v) # Bad /\ FieldValue(f, v) # None
  BY <1>1, WrittenField DEF Empty
<1>3. v # Absent
  BY <1>2 DEF FieldValue
<1>4. v \in Values
  BY <1>2, <1>3 DEF Given
<1>5. FieldValue(f, v) = DatetimeValue(v)
  BY <1>3, ValidatorOf
<1> DEFINE at == ParseDatetime(AsDate(v), "")
<1>6. ReadsAsDate(v) /\ FieldValue(f, v) = Instant(at)
  BY <1>2, <1>5 DEF DatetimeValue
<1>7. at \in Int
  BY <1>4, <1>6, DateOf, InstantOf
<1> HIDE DEF at
<1>8. Literal(Instant(at)) = Quoted(Instant(at))
  BY DEF Literal, Instant
<1> QED
  BY <1>1, <1>2, <1>6, <1>7, <1>8

-----------------------------------------------------------------------------
(* Days: a date without a time of day and a document with an instant.      *)
Moment(t) == Quoted(Instant(t))

LEMMA MomentsOrdered ==
  ASSUME NEW document, NEW name, NEW t \in Int, Stored(document, name) = Moment(t),
         NEW u \in Int, NEW w \in Int
  PROVE  /\ HoldsLeaf(document, Is(name, ">", Moment(u))) <=> t > u
         /\ HoldsLeaf(document, Is(name, ">=", Moment(u))) <=> t >= u
         /\ HoldsLeaf(document, Is(name, "<", Moment(u))) <=> t < u
         /\ HoldsLeaf(document, Is(name, "<=", Moment(u))) <=> t <= u
         /\ HoldsLeaf(document, Within(name, Moment(u), Moment(w))) <=> u <= t /\ t <= w
<1>1. \A i \in Int : Rank(Moment(i)) = i /\ \A j \in Int : Ordered(Moment(i), Moment(j))
  BY DEF Moment, Rank, Ordered, IsQuoted, Quoted, Instant
<1>2. /\ HoldsLeaf(document, Is(name, ">", Moment(u))) <=> t > u
      /\ HoldsLeaf(document, Is(name, ">=", Moment(u))) <=> t >= u
      /\ HoldsLeaf(document, Is(name, "<", Moment(u))) <=> t < u
      /\ HoldsLeaf(document, Is(name, "<=", Moment(u))) <=> t <= u
  BY <1>1, CompareHolds, Relations
<1>3. HoldsLeaf(document, Within(name, Moment(u), Moment(w))) <=> t >= u /\ t <= w
  BY <1>1, RangeHolds, Relations
<1> QED
  BY <1>2, <1>3

(* What becomes of a date in an expression, and of a day.                  *)
LEMMA ParsedDate ==
  ASSUME NEW l, IsQuoted(l), l.text.kind = "date", NEW op
  PROVE  Parsed(l, op) = Moment(ParseDatetime(l.text, op))
<1>1. IsWord(l) /\ AsText(l) = l.text
  BY DEF IsWord, AsText, IsQuoted
<1>2. ReadsAsDate(l.text) /\ AsDate(l.text) = l.text
  BY DEF ReadsAsDate, AsDate
<1> QED
  BY <1>1, <1>2 DEF Parsed, Moment

LEMMA DayAtoms ==
  ASSUME NEW f, f.type = "datetime", NEW e, DateOnly(e.value)
  PROVE  LET day == e.value.text
         IN /\ e.expr = "comparison" =>
                 /\ e.op = "==" => Atom(f, e) = Within(f.name, Moment(Start(day)), Moment(End(day)))
                 /\ e.op \in {"<", ">="} => Atom(f, e) = Is(f.name, e.op, Moment(Start(day)))
                 /\ e.op \in {">", "<="} => Atom(f, e) = Is(f.name, e.op, Moment(End(day)))
            /\ e.expr = "before_after" =>
                 /\ e.op = "before" => Atom(f, e) = Is(f.name, "<", Moment(Start(day)))
                 /\ e.op = "after" => Atom(f, e) = Is(f.name, ">", Moment(End(day)))
<1> DEFINE day == e.value.text
<1>1. \A op : Parsed(e.value, op) = Moment(IF op \in {">", "<="} THEN End(day) ELSE Start(day))
  BY ParsedDate DEF ParseDatetime, DateOnly
<1>2. \A op : ComparedTo(f, op, e.value) = Parsed(e.value, op)
  BY DEF ComparedTo
<1>3. e.expr = "comparison" =>
        /\ e.op = "==" => Atom(f, e) = Within(f.name, Moment(Start(day)), Moment(End(day)))
        /\ e.op # "==" => Atom(f, e) = Is(f.name, e.op, Parsed(e.value, e.op))
  BY <1>2, AtomOf DEF ComparisonAtom, Moment
<1>4. Side("before") = "<" /\ Side("after") = ">"
  BY DEF Side
<1>5. e.expr = "before_after" => Atom(f, e) = Is(f.name, Side(e.op), Parsed(e.value, Side(e.op)))
  BY AtomOf DEF BeforeAfterAtom
<1> QED
  BY <1>1, <1>3, <1>4, <1>5

LEMMA DayBetween ==
  ASSUME NEW f, f.type = "datetime", NEW name, NEW l, DateOnly(l)
  PROVE  Atom(f, Between(name, l, l)) = Within(f.name, Moment(Start(l.text)), Moment(End(l.text)))
<1>1. Parsed(l, ">=") = Moment(Start(l.text)) /\ Parsed(l, "<=") = Moment(End(l.text))
  BY ParsedDate DEF ParseDatetime, DateOnly
<1>2. /\ Between(name, l, l).expr = "between"
      /\ Between(name, l, l).from = l /\ Between(name, l, l).to = l
  BY DEF Between
<1> QED
  BY <1>1, <1>2, AtomOf DEF BetweenAtom

LEMMA QuotedText ==
  ASSUME NEW l \in ScalarLiterals, IsQuoted(l)
  PROVE  l.text \in Values /\ IsText(l.text)
<1>1. l \in [lit : {"quoted"}, text : Texts \cup Dates \cup [kind : {"numeral"}, n : Int]]
  BY DEF ScalarLiterals, IsQuoted, Null
<1>2. l.text \in Texts \cup Dates \cup [kind : {"numeral"}, n : Int]
  BY <1>1
<1>3. l.text.kind \in {"text", "date", "numeral"}
  BY <1>2 DEF Texts, Dates
<1> QED
  BY <1>2, <1>3 DEF Values, Scalars, IsText

(* The same comparison with another operator.                              *)
WithOp(e, op) == [e EXCEPT !.op = op]

(* A document with an instant t, and the day: it is found by the operators *)
(* as the instant lies to the day's first and last second.                 *)
LEMMA DayFinds ==
  ASSUME NEW schema, NEW e \in Atoms, e.expr = "comparison", DateOnly(e.value),
         FieldNamed(schema, e.field).name = e.field,
         FieldNamed(schema, e.field).type = "datetime",
         NEW document, NEW t \in Int, Stored(document, e.field) = Moment(t)
  PROVE  LET first == Start(e.value.text)
             last == End(e.value.text)
             FoundBy(x) == Finds("milvus", schema, x, document)
         IN /\ first \in Int /\ last \in Int /\ first <= last
            /\ FoundBy(WithOp(e, "<")) <=> t < first
            /\ FoundBy(WithOp(e, "<=")) <=> t <= last
            /\ FoundBy(WithOp(e, "==")) <=> first <= t /\ t <= last
            /\ FoundBy(WithOp(e, ">=")) <=> t >= first
            /\ FoundBy(WithOp(e, ">")) <=> t > last
            /\ FoundBy(BeforeAfter(e.field, "before", e.value)) <=> t < first
            /\ FoundBy(BeforeAfter(e.field, "after", e.value)) <=> t > last
            /\ FoundBy(Between(e.field, e.value, e.value)) <=> first <= t /\ t <= last
<1> DEFINE first == Start(e.value.text)
           last == End(e.value.text)
           f == FieldNamed(schema, e.field)
           HoldsFor(x) == HoldsLeaf(document, Atom(f, x))
<1>1. first \in Int /\ last \in Int /\ first <= last
  <2>1. e.value \in ScalarLiterals
    <3>1. e.value \in Literals /\ ~IsArray(e.value)
      BY AtomTypes DEF DateOnly, IsQuoted, IsArray
    <3> QED
      BY <3>1, ArrayOrScalar DEF Literals
  <2>2. e.value.text \in Dates
    BY <2>1, QuotedText, KindsOfValues DEF DateOnly
  <2> QED
    BY <2>2, MetadataAssumption DEF Dates, Start, End
<1>2. ASSUME NEW x, x.expr \in AtomKinds \ {"is_null"}, x.field = e.field
      PROVE  Finds("milvus", schema, x, document) <=> HoldsFor(x)
  BY <1>2, AtomIsLeaf, AtomFinds
<1>3. ASSUME NEW op
      PROVE  /\ WithOp(e, op).expr = "comparison" /\ WithOp(e, op).field = e.field
             /\ WithOp(e, op).value = e.value /\ WithOp(e, op).op = op
             /\ BeforeAfter(e.field, op, e.value).expr = "before_after"
             /\ BeforeAfter(e.field, op, e.value).op = op
             /\ BeforeAfter(e.field, op, e.value).field = e.field
             /\ BeforeAfter(e.field, op, e.value).value = e.value
  BY AtomTypes DEF BeforeAfter, WithOp
<1>4. /\ Between(e.field, e.value, e.value).expr = "between"
      /\ Between(e.field, e.value, e.value).field = e.field
  BY DEF Between
<1>5. ASSUME NEW op
      PROVE  /\ op = "==" => Atom(f, WithOp(e, op)) = Within(e.field, Moment(first), Moment(last))
             /\ op \in {"<", ">="} => Atom(f, WithOp(e, op)) = Is(e.field, op, Moment(first))
             /\ op \in {">", "<="} => Atom(f, WithOp(e, op)) = Is(e.field, op, Moment(last))
             /\ op = "before" =>
                  Atom(f, BeforeAfter(e.field, op, e.value)) = Is(e.field, "<", Moment(first))
             /\ op = "after" =>
                  Atom(f, BeforeAfter(e.field, op, e.value)) = Is(e.field, ">", Moment(last))
  BY <1>3, DayAtoms
<1>6. Atom(f, Between(e.field, e.value, e.value)) = Within(e.field, Moment(first), Moment(last))
  BY DayBetween
<1> HIDE DEF first, last
<1>7. /\ HoldsFor(WithOp(e, "<")) <=> t < first
      /\ HoldsFor(WithOp(e, "<=")) <=> t <= last
      /\ HoldsFor(WithOp(e, "==")) <=> first <= t /\ t <= last
      /\ HoldsFor(WithOp(e, ">=")) <=> t >= first
      /\ HoldsFor(WithOp(e, ">")) <=> t > last
      /\ HoldsFor(BeforeAfter(e.field, "before", e.value)) <=> t < first
      /\ HoldsFor(BeforeAfter(e.field, "after", e.value)) <=> t > last
      /\ HoldsFor(Between(e.field, e.value, e.value)) <=> first <= t /\ t <= last
  BY <1>1, <1>5, <1>6, MomentsOrdered
<1>8. /\ \A op : Finds("milvus", schema, WithOp(e, op), document)
                   <=> HoldsFor(WithOp(e, op))
      /\ \A op : Finds("milvus", schema, BeforeAfter(e.field, op, e.value), document)
                   <=> HoldsFor(BeforeAfter(e.field, op, e.value))
      /\ Finds("milvus", schema, Between(e.field, e.value, e.value), document)
           <=> HoldsFor(Between(e.field, e.value, e.value))
  BY <1>2, <1>3, <1>4 DEF AtomKinds
<1> HIDE DEF HoldsFor
<1> QED
  BY <1>1, <1>7, <1>8 DEF first, last

(* The only document of a collection.                                      *)
LEMMA OnlyDocument ==
  ASSUME Inv, NEW c \in Collections, NEW d \in collection[c].documents
  PROVE  /\ \A e : FindsWith(c, e) <=> Finds("milvus", collection[c].schema, e, d.stored)
         /\ \E metadata \in Metadata[c] :
              /\ ValidUpload(collection[c].schema, metadata)
              /\ d = Document(collection[c].schema, metadata)
              /\ metadata # Absent => \A n \in DOMAIN metadata : metadata[n] \in Values
<1>1. UploadedTo(c, collection[c].schema, collection[c].documents)
  BY DEF Inv, Uploaded
<1>2. \A e : FindsWith(c, e) <=> Finds("milvus", collection[c].schema, e, d.stored)
  BY <1>1 DEF UploadedTo, FindsWith
<1>3. PICK metadata \in Metadata[c] :
        ValidUpload(collection[c].schema, metadata) /\ d = Document(collection[c].schema, metadata)
  BY <1>1 DEF UploadedTo
<1>4. metadata # Absent => \A n \in DOMAIN metadata : metadata[n] \in Values
  BY SearchAssumption
<1> QED
  BY <1>2, <1>3, <1>4

(* A date without a time of day is a whole day to every operator: a        *)
(* document with an instant is before, in or after it, and <=, >=, before, *)
(* after and between say the same.                                         *)
THEOREM DaysPartitioned == Spec => []DaysPartition
<1>1. Inv => DaysPartition
  <2> SUFFICES ASSUME Inv, SearchedMilvus, Expression \in Atoms,
                      Expression.expr = "comparison", DateOnly(Expression.value),
                      Expression.field # "filename", NEW c \in search.names,
                      FieldNamed(collection[c].schema, Expression.field).type = "datetime",
                      NEW d \in collection[c].documents, Stored(d.stored, Expression.field) # Null
               PROVE
                 LET e == Expression
                     Finding(op) == FindsWith(c, [e EXCEPT !.op = op])
                     day == {op \in {"<", "==", ">"} : Finding(op)}
                 IN /\ Cardinality(day) = 1
                    /\ Finding("<=") <=> day \cap {"<", "=="} # {}
                    /\ Finding(">=") <=> day \cap {">", "=="} # {}
                    /\ FindsWith(c, BeforeAfter(e.field, "before", e.value)) <=> "<" \in day
                    /\ FindsWith(c, BeforeAfter(e.field, "after", e.value)) <=> ">" \in day
                    /\ FindsWith(c, Between(e.field, e.value, e.value)) <=> "==" \in day
    BY DEF DaysPartition
  <2> DEFINE e == Expression
             schema == collection[c].schema
             first == Start(e.value.text)
             last == End(e.value.text)
             day == {op \in {"<", "==", ">"} : FindsWith(c, [e EXCEPT !.op = op])}
  <2>1. /\ c \in Collections /\ schema # <<>> /\ e.field \in Names(schema)
        /\ FieldNamed(schema, e.field).name = e.field
    BY SearchedAtom
  <2>2. PICK metadata \in Metadata[c] :
          /\ ValidUpload(schema, metadata) /\ d = Document(schema, metadata)
          /\ metadata # Absent => \A n \in DOMAIN metadata : metadata[n] \in Values
    BY <2>1, OnlyDocument
  <2>3. PICK t \in Int : Stored(d.stored, e.field) = Moment(t)
    BY <2>1, <2>2, DatetimeStored DEF Moment
  <2>4. \A x : FindsWith(c, x) <=> Finds("milvus", schema, x, d.stored)
    BY <2>1, OnlyDocument
  <2> HIDE DEF e
  <2>5. /\ e \in Atoms /\ e.expr = "comparison" /\ DateOnly(e.value)
        /\ FieldNamed(schema, e.field).type = "datetime"
    BY DEF e
  <2>6. /\ first \in Int /\ last \in Int /\ first <= last
        /\ FindsWith(c, [e EXCEPT !.op = "<"]) <=> t < first
        /\ FindsWith(c, [e EXCEPT !.op = "<="]) <=> t <= last
        /\ FindsWith(c, [e EXCEPT !.op = "=="]) <=> first <= t /\ t <= last
        /\ FindsWith(c, [e EXCEPT !.op = ">="]) <=> t >= first
        /\ FindsWith(c, [e EXCEPT !.op = ">"]) <=> t > last
        /\ FindsWith(c, BeforeAfter(e.field, "before", e.value)) <=> t < first
        /\ FindsWith(c, BeforeAfter(e.field, "after", e.value)) <=> t > last
        /\ FindsWith(c, Between(e.field, e.value, e.value)) <=> first <= t /\ t <= last
    BY <2>1, <2>3, <2>4, <2>5, DayFinds DEF WithOp
  <2> HIDE DEF first, last
  <2>7. /\ "<" \in day <=> t < first
        /\ "==" \in day <=> first <= t /\ t <= last
        /\ ">" \in day <=> t > last
    BY <2>6
  <2>8. Cardinality(day) = 1
    <3>1. day \subseteq {"<", "==", ">"}
      OBVIOUS
    <3> HIDE DEF day
    <3>2. day = {"<"} \/ day = {"=="} \/ day = {">"}
      BY <2>6, <2>7, <3>1
    <3> QED
      BY <3>2, FS_Singleton
  <2> QED
    <3>1. /\ day \cap {"<", "=="} # {} <=> t <= last
          /\ day \cap {">", "=="} # {} <=> t >= first
      <4> HIDE DEF day
      <4> QED
        BY <2>6, <2>7
    <3> QED
      BY <2>6, <2>7, <2>8, <3>1 DEF e
<1> QED
  BY <1>1, InvHolds, PTL

-----------------------------------------------------------------------------
(* Own values: what an upload and what a filter make of the same value.    *)
ElementLiteral(x) ==
  IF x.kind = "number" THEN Digits(x.n) ELSE IF x.kind = "bool" THEN Truth(x.b) ELSE Quoted(x)

LEMMA LiteralOf ==
  ASSUME NEW v
  PROVE  /\ v.kind = "number" => Literal(v) = Digits(v.n)
         /\ v.kind = "bool" => Literal(v) = Truth(v.b)
         /\ v.kind = "list" => Literal(v) = Array([i \in DOMAIN v.items |-> ElementLiteral(v.items[i])])
         /\ v.kind = "none" => Literal(v) = Null
         /\ v.kind \in {"text", "date", "numeral", "instant"} => Literal(v) = Quoted(v)
<1>1. v.kind = "number" => Literal(v) = Digits(v.n)
  BY DEF Literal
<1>2. v.kind = "bool" => Literal(v) = Truth(v.b)
  BY DEF Literal
<1>3. v.kind = "list" => Literal(v) = Array([i \in DOMAIN v.items |-> ElementLiteral(v.items[i])])
  BY DEF Literal, ElementLiteral
<1>4. v.kind = "none" => Literal(v) = Null
  BY DEF Literal
<1>5. v.kind \in {"text", "date", "numeral", "instant"} => Literal(v) = Quoted(v)
  BY DEF Literal
<1> QED
  BY <1>1, <1>2, <1>3, <1>4, <1>5

LEMMA ArrayLiteral ==
  ASSUME NEW v \in Values
  PROVE  IsArray(Literal(v)) <=> v.kind = "list"
  BY KindsOfValues, LiteralOf DEF IsArray, Digits, Truth, Array, Null, Quoted

LEMMA LowerText ==
  ASSUME NEW v \in Values, IsText(v)
  PROVE  /\ Lower(v).kind = v.kind
         /\ v.kind # "text" => Strip(Lower(v)) = Lower(v)
         /\ v.kind = "text" => Lower(v).word = v.word /\ (~v.blank => Strip(Lower(v)) = Lower(v))
         /\ LowerItem(Quoted(v)) = Quoted(Lower(v))
<1>1. LowerItem(Quoted(v)) = Quoted(Lower(v))
  BY DEF LowerItem, Quoted, IsQuoted
<1>2. CASE v.kind = "text"
  <2>1. v \in [kind : {"text"}, word : STRING, upper : BOOLEAN, blank : BOOLEAN]
    BY <1>2, KindsOfValues DEF Texts
  <2>2. Lower(v) = [v EXCEPT !.upper = FALSE]
    BY <1>2 DEF Lower
  <2>3. /\ Lower(v) \in [kind : {"text"}, word : STRING, upper : BOOLEAN, blank : BOOLEAN]
        /\ Lower(v).kind = "text" /\ Lower(v).word = v.word /\ Lower(v).blank = v.blank
    BY <2>1, <2>2
  <2>4. ~v.blank => Strip(Lower(v)) = Lower(v)
    BY <2>1, <2>3 DEF Strip
  <2> QED
    BY <1>1, <1>2, <2>3, <2>4
<1>3. CASE v.kind # "text"
  BY <1>1, <1>3 DEF Lower, Strip
<1> QED
  BY <1>2, <1>3

(* What the validators of the filter say of an atom.                       *)
LEMMA AtomRules ==
  ASSUME NEW f, NEW e, ValidAtom(f, e)
  PROVE  /\ e.expr = "comparison" => ValidComparison(f, e)
         /\ e.expr = "in" => ValidIn(f, e)
         /\ e.expr = "includes" => ValidIncludes(f, e)
         /\ e.expr = "member" => f.type = "array"
<1>1. e.expr = "comparison" => ValidComparison(f, e)
  BY DEF ValidAtom
<1>2. e.expr = "in" => ValidIn(f, e)
  BY DEF ValidAtom
<1>3. e.expr = "includes" => ValidIncludes(f, e)
  BY DEF ValidAtom
<1>4. e.expr = "member" => f.type = "array"
  BY DEF ValidAtom, ValidMember
<1> QED
  BY <1>1, <1>2, <1>3, <1>4

LEMMA OperatorsOf ==
  ASSUME NEW type \in Types
  PROVE  /\ "in" \in Operators(type) => type \in {"string", "array"} \cup Numeric
         /\ "includes" \in Operators(type) => type = "array"
<1>1. type = "datetime" => Operators(type) = {"==", "!="} \cup Orders \cup {"between"}
  BY DEF Operators, Numeric
<1>2. type = "boolean" => Operators(type) = {"==", "!="}
  BY DEF Operators, Numeric
<1>3. type = "string" => Operators(type) = {"==", "!=", "like", "in"}
  BY DEF Operators, Numeric
<1>4. type \in Numeric => Operators(type) = {"==", "!="} \cup Orders \cup {"between", "in"}
  BY DEF Operators, Numeric
<1> QED
  BY <1>1, <1>2, <1>3, <1>4 DEF Types, Numeric, Orders

(* The transformer raises for null and "".                                 *)
Usable(x) == x # Null /\ x # Quoted(Text("", FALSE, FALSE))

LEMMA NotRaising ==
  ASSUME NEW e, e.expr \in {"comparison", "in", "includes", "member"}, ~RaisesNode(e)
  PROVE  /\ ~RaisesFor(e.value)
         /\ \A x \in Elements(e.value) : Usable(x)
<1>1. Operands(e) = <<>>
  BY NoOperands DEF AtomKinds
<1>2. ~RaisesFor(e.value)
  BY <1>1 DEF RaisesNode
<1> QED
  BY <1>2 DEF RaisesFor, Elements, Usable

(* A valid expression that asks for the value v of a field, and what the   *)
(* upload made of v.                                                       *)
Asking(f, e, v, value) ==
  /\ ValidField(f) /\ f.name # "filename"
  /\ e \in Atoms /\ ValidAtom(f, e) /\ ~RaisesNode(e) /\ ~Loose(f, e.value)
  /\ v \in Values /\ AsksFor(e, v)
  /\ value = FieldValue(f, v) /\ value # Bad

(* The value is written, and the expression finds it.                      *)
Answered(f, e, value) ==
  /\ value \notin Empty
  /\ \A document : Stored(document, f.name) = Literal(value) => HoldsLeaf(document, Atom(f, e))

LEMMA AskingFor ==
  ASSUME NEW f, NEW e, NEW v, NEW value, Asking(f, e, v, value)
  PROVE  /\ ValidField(f) /\ f.type \in Types /\ f.name # "filename"
         /\ v \in Values /\ v # Absent /\ value = FieldValue(f, v) /\ value # Bad
         /\ e.expr \in {"comparison", "in", "includes", "member"}
         /\ e.expr = "comparison" =>
              e.op = "==" /\ e.value = Literal(v) /\ ValidComparison(f, e)
         /\ e.expr = "in" => IsArray(e.value) /\ ValidIn(f, e) /\ f.type \in {"string", "array"} \cup Numeric
         /\ e.expr \in {"includes", "member"} => f.type = "array"
         /\ e.expr # "comparison" => e.negated = FALSE
         /\ e.value \in Literals
         /\ ~RaisesFor(e.value) /\ ~Loose(f, e.value)
         /\ \A x \in Elements(e.value) : Usable(x)
<1>1. /\ ValidField(f) /\ f.type \in Types /\ f.name # "filename"
      /\ v \in Values /\ value = FieldValue(f, v) /\ value # Bad
      /\ e \in Atoms /\ ValidAtom(f, e) /\ ~RaisesNode(e) /\ ~Loose(f, e.value)
  BY DEF Asking, ValidField
<1>2. /\ e.expr \in {"comparison", "in", "includes", "member"}
      /\ e.expr = "comparison" => e.op = "==" /\ e.value = Literal(v)
      /\ e.expr # "comparison" => ~e.negated
  BY DEF Asking, AsksFor
<1>3. e.expr # "comparison" => e.negated \in BOOLEAN
  BY <1>1, <1>2, AtomTypes
<1>4. e.value \in Literals /\ (e.expr = "in" => IsArray(e.value))
  BY <1>1, <1>2, AtomTypes, ArrayOrScalar DEF Literals
<1>5. v # Absent
  <2>1. v.kind # "absent"
    BY <1>1, KindsOfValues
  <2> QED
    BY <2>1 DEF Absent
<1>6. /\ e.expr = "comparison" => ValidComparison(f, e)
      /\ e.expr = "in" => ValidIn(f, e)
      /\ e.expr = "includes" => "includes" \in Operators(f.type)
      /\ e.expr = "member" => f.type = "array"
  BY <1>1, AtomRules DEF ValidIncludes, Allows
<1>7. e.expr = "in" => "in" \in Operators(f.type)
  BY <1>6 DEF ValidIn, Allows
<1>8. /\ ~RaisesFor(e.value)
      /\ \A x \in Elements(e.value) : Usable(x)
  <2>1. e.expr \in {"comparison", "in", "includes", "member"} /\ ~RaisesNode(e)
    BY <1>1, <1>2
  <2> QED
    BY <2>1, NotRaising
<1> QED
  BY <1>1, <1>2, <1>3, <1>4, <1>5, <1>6, <1>7, <1>8, OperatorsOf

(* What is left of the literals that the validators let pass.              *)
LEMMA NotLoose ==
  ASSUME NEW f, ValidField(f), NEW l, ~Loose(f, l), NEW x \in Elements(l)
  PROVE  /\ f.type = "string" => ~Trimmed(x)
         /\ f.type = "array" /\ f.array_type \in Numeric => x.lit = "number"
         /\ f.type = "array" /\ f.array_type = "boolean" => x.lit = "boolean"
<1>1. f.type = "string" => f.array_type = "" /\ f.array_type \notin Numeric
  BY DEF ValidField, Numeric
<1>2. f.type = "string" => ~Trimmed(x)
  BY <1>1 DEF Loose, Elements
<1>3. f.type = "array" /\ f.array_type \in Numeric => x.lit = "number"
  BY DEF Loose, Elements, Numeric
<1>4. f.type = "array" /\ f.array_type = "boolean" => x.lit = "boolean"
  BY DEF Loose, Elements, Numeric
<1> QED
  BY <1>2, <1>3, <1>4

LEMMA NotEmpty ==
  ASSUME NEW x, x.kind \in {"number", "numeral", "bool", "date", "instant"}
  PROVE  x \notin Empty
<1>1. x # None
  BY DEF None
<1>2. x # List(<<>>)
  BY DEF List
<1>3. x # Text("", FALSE, FALSE)
  <2>1. Text("", FALSE, FALSE).kind = "text"
    BY DEF Text
  <2> QED
    BY <2>1
<1> QED
  BY <1>1, <1>2, <1>3 DEF Empty

(* For a field with one value, the expression is == or "in", and has the   *)
(* literal of the value, or what is made of it.                            *)
LEMMA ScalarAsked ==
  ASSUME NEW f, NEW e, NEW v, NEW value, Asking(f, e, v, value), v.kind # "list"
  PROVE  f.type # "array" => Literal(v) \in Elements(e.value)
<1>1. ~IsArray(Literal(v))
  BY ArrayLiteral DEF Asking
<1> QED
  BY <1>1, AskingFor DEF Asking, AsksFor, Elements

LEMMA ScalarAnswered ==
  ASSUME NEW f, NEW e, NEW v, NEW value, Asking(f, e, v, value), value \notin Empty,
         f.type # "array",
         e.expr = "comparison" => Atom(f, e) = Is(f.name, "==", Literal(value)),
         e.expr = "in" => Literal(value) \in Items(LowerItems(e.value))
  PROVE  Answered(f, e, value)
<1> SUFFICES ASSUME NEW document, Stored(document, f.name) = Literal(value)
             PROVE  HoldsLeaf(document, Atom(f, e))
  BY DEF Answered
<1>1. CASE e.expr = "comparison"
  BY <1>1, CompareHolds, Relations
<1>2. CASE e.expr = "in"
  <2>1. Atom(f, e) = In(f.name, FALSE, LowerItems(e.value))
    BY <1>2, AskingFor, AtomOf DEF InAtom
  <2> QED
    BY <1>2, <2>1, InHolds
<1> QED
  BY <1>1, <1>2, AskingFor

LEMMA StringAnswered ==
  ASSUME NEW f, NEW e, NEW v, NEW value, Asking(f, e, v, value), f.type = "string"
  PROVE  Answered(f, e, value)
<1>1. value = StringValue(f, v) /\ value # Bad /\ v \in Values
  BY AskingFor, ValidatorOf DEF Asking
<1>2. v = None \/ Blank(v) \/ IsText(v)
  BY <1>1 DEF StringValue
<1>3. \/ v.kind = "none" /\ Literal(v) = Null
      \/ IsText(v) /\ v.kind # "list" /\ Literal(v) = Quoted(v)
  <2>1. CASE v = None
    <3>1. v.kind = "none"
      BY <2>1 DEF None
    <3> QED
      BY <3>1, LiteralOf
  <2>2. CASE v.kind \in {"text", "date", "numeral"}
    BY <2>2, LiteralOf DEF IsText
  <2> QED
    BY <1>2, <2>1, <2>2 DEF Blank, IsText
<1>4. Literal(v) \in Elements(e.value)
  BY <1>3, ScalarAsked
<1>5. Usable(Literal(v)) /\ ~Trimmed(Literal(v))
  <2>1. \A x \in Elements(e.value) : Usable(x)
    BY AskingFor
  <2>2. \A x \in Elements(e.value) : ~Trimmed(x)
    BY AskingFor, NotLoose
  <2> QED
    BY <1>4, <2>1, <2>2
<1>6. IsText(v) /\ Literal(v) = Quoted(v) /\ (v.kind = "text" => ~v.blank)
  <2>1. IsText(v) /\ Literal(v) = Quoted(v) /\ ~Trimmed(Quoted(v))
    BY <1>3, <1>5 DEF Usable
  <2> QED
    BY <2>1 DEF Trimmed, IsQuoted, Quoted
<1>7. ~Blank(v)
  <2> SUFFICES ASSUME Blank(v) PROVE FALSE
    OBVIOUS
  <2>1. v \in Texts /\ v.word = "" /\ v.blank = FALSE
    <3>1. v \in Texts /\ v.kind = "text" /\ v.word = ""
      BY <1>1, KindsOfValues DEF Blank
    <3>2. v.blank \in BOOLEAN
      BY <3>1 DEF Texts
    <3> QED
      BY <1>6, <3>1, <3>2
  <2>2. v = Text("", FALSE, FALSE)
    BY <2>1 DEF Texts, Text
  <2> QED
    BY <1>5, <1>6, <2>2 DEF Usable
<1>8. value = Lower(v) /\ Literal(value) = Quoted(Lower(v)) /\ value \notin Empty
  <2>1. v # None
    BY <1>6 DEF IsText, None
  <2>2. value = Strip(Lower(v))
    BY <1>1, <1>6, <1>7, <2>1 DEF StringValue
  <2>3. value = Lower(v) /\ value.kind = v.kind /\ (v.kind = "text" => value.word = v.word)
    BY <1>1, <1>6, <2>2, LowerText
  <2>4. Literal(value) = Quoted(value)
    BY <1>6, <2>3, LiteralOf DEF IsText
  <2>5. value \notin Empty
    <3>1. value.kind \in {"text", "date", "numeral"}
      BY <1>6, <2>3 DEF IsText
    <3>2. value # None /\ value # List(<<>>)
      BY <3>1 DEF None, List
    <3>3. value # Text("", FALSE, FALSE)
      <4>1. Text("", FALSE, FALSE).kind = "text" /\ Text("", FALSE, FALSE).word = ""
        BY DEF Text
      <4>2. value.kind = "text" => value.word # ""
        BY <1>7, <2>3 DEF Blank
      <4> QED
        BY <4>1, <4>2
    <3> QED
      BY <3>2, <3>3 DEF Empty
  <2> QED
    BY <2>3, <2>4, <2>5
<1>9. LowerItem(Literal(v)) = Literal(value)
  BY <1>1, <1>6, <1>8, LowerText
<1>10. e.expr = "comparison" => Atom(f, e) = Is(f.name, "==", Literal(value))
  <2> SUFFICES ASSUME e.expr = "comparison" PROVE Atom(f, e) = Is(f.name, "==", Literal(value))
    OBVIOUS
  <2>1. e.op = "==" /\ e.value = Literal(v) /\ f.name # "filename"
    BY AskingFor
  <2>2. ComparedTo(f, "==", e.value) = Literal(value)
    BY <1>9, <2>1 DEF ComparedTo
  <2> QED
    BY <2>1, <2>2, AtomOf DEF ComparisonAtom
<1>11. e.expr = "in" => Literal(value) \in Items(LowerItems(e.value))
  BY <1>4, <1>9, AskingFor, LoweredElements DEF Elements
<1> QED
  BY <1>8, <1>10, <1>11, ScalarAnswered

LEMMA DatetimeAnswered ==
  ASSUME NEW f, NEW e, NEW v, NEW value, Asking(f, e, v, value), f.type = "datetime"
  PROVE  Answered(f, e, value)
<1>1. value = DatetimeValue(v) /\ value # Bad /\ v \in Values
  BY AskingFor, ValidatorOf DEF Asking
<1>2. e.expr = "comparison" /\ e.op = "==" /\ e.value = Literal(v) /\ ValueFits("datetime", e.value)
  <2>1. e.expr = "comparison"
    BY AskingFor DEF Numeric
  <2> QED
    BY <2>1, AskingFor DEF ValidComparison
<1>3. v.kind = "date" /\ e.value = Quoted(v)
  <2>1. v.kind \in {"date", "numeral"} /\ e.value = Quoted(v)
    BY <1>1, <1>2, LiteralOf DEF DatetimeValue, ReadsAsDate
  <2>2. e.value.text.kind = v.kind
    BY <2>1 DEF Quoted
  <2>3. ~Blank(e.value.text)
    BY <2>1, <2>2 DEF Blank
  <2>4. DatetimeFits(e.value)
    BY <1>2, <2>3 DEF ValueFits, Numeric
  <2> QED
    BY <2>1, <2>2, <2>4 DEF DatetimeFits
<1>4. /\ value = Moment(ParseDatetime(v, "")).text /\ value \notin Empty
      /\ Literal(value) = Moment(ParseDatetime(v, ""))
  <2>1. value = Instant(ParseDatetime(v, ""))
    BY <1>1, <1>3 DEF DatetimeValue, ReadsAsDate, AsDate
  <2> QED
    BY <2>1, LiteralOf DEF Moment, Quoted, Instant, Empty, None, List, Text
<1>5. e.value.text = v /\ IsQuoted(e.value)
  BY <1>3 DEF Quoted, IsQuoted
<1>6. CASE DateOnly(e.value)
  <2>1. Atom(f, e) = Within(f.name, Moment(Start(v)), Moment(End(v)))
    BY <1>2, <1>5, <1>6, DayAtoms
  <2>2. ParseDatetime(v, "") = Start(v)
    BY <1>5, <1>6 DEF DateOnly, ParseDatetime
  <2>3. Start(v) \in Int /\ End(v) \in Int /\ Start(v) <= End(v)
    <3>1. v \in Dates
      BY <1>1, <1>3, KindsOfValues
    <3> QED
      BY <3>1, MetadataAssumption DEF Dates, Start, End
  <2>4. ASSUME NEW document, Stored(document, f.name) = Moment(Start(v))
        PROVE  HoldsLeaf(document, Within(f.name, Moment(Start(v)), Moment(End(v))))
    BY <2>3, <2>4, MomentsOrdered
  <2> QED
    BY <1>4, <2>1, <2>2, <2>4 DEF Answered
<1>7. CASE ~DateOnly(e.value)
  <2>1. HasExplicitTime(v)
    BY <1>3, <1>5, <1>7 DEF DateOnly
  <2>2. ComparedTo(f, "==", e.value) = Moment(ParseDatetime(v, ""))
    <3>1. Parsed(e.value, "==") = Moment(ParseDatetime(v, "=="))
      BY <1>3, <1>5, ParsedDate
    <3>2. ParseDatetime(v, "==") = ParseDatetime(v, "")
      BY <2>1 DEF ParseDatetime
    <3> QED
      BY <3>1, <3>2 DEF ComparedTo
  <2>3. Atom(f, e) = Is(f.name, "==", Literal(value))
    BY <1>2, <1>4, <1>7, <2>2, AtomOf DEF ComparisonAtom
  <2> QED
    BY <1>2, <1>4, <2>3, ScalarAnswered
<1> QED
  BY <1>6, <1>7

LEMMA BooleanAnswered ==
  ASSUME NEW f, NEW e, NEW v, NEW value, Asking(f, e, v, value), f.type = "boolean"
  PROVE  Answered(f, e, value)
<1>1. value = BooleanValue(v) /\ value # Bad
  <2>1. v # Absent /\ value = FieldValue(f, v) /\ value # Bad
    BY AskingFor
  <2> QED
    BY <2>1, ValidatorOf
<1>2. e.expr = "comparison" /\ e.op = "==" /\ e.value = Literal(v) /\ ValueFits("boolean", Literal(v))
  <2>1. e.expr # "in" /\ e.expr \notin {"includes", "member"}
    BY AskingFor DEF Numeric
  <2> QED
    BY <2>1, AskingFor DEF ValidComparison
<1>3. (IsQuoted(Literal(v)) /\ Blank(Literal(v).text)) \/ BooleanFits(Literal(v))
  BY <1>2 DEF ValueFits, Numeric
<1>4. \/ v.kind = "bool" /\ value = v
      \/ v.kind = "number" /\ v.n \in {0, 2} /\ value = Bool(v.n = 2)
  <2>1. CASE v.kind = "bool"
    BY <1>1, <2>1 DEF BooleanValue
  <2>2. CASE v.kind = "number"
    BY <1>1, <2>2 DEF BooleanValue
  <2>3. CASE v.kind \in {"text", "numeral"}
    <3>1. Literal(v) = Quoted(v)
      BY <2>3, LiteralOf
    <3>2. ~BooleanFits(Quoted(v))
      BY DEF BooleanFits, Quoted, Digits
    <3>3. Blank(v)
      BY <1>3, <3>1, <3>2 DEF Quoted
    <3>4. v.kind = "text" /\ v.word \notin DOMAIN Truths
      BY <3>3 DEF Blank, Truths
    <3>5. BooleanValue(v) = Bad
      BY <3>4 DEF BooleanValue
    <3> QED
      BY <1>1, <3>5
  <2>4. CASE v.kind \notin {"bool", "number", "text", "numeral"}
    BY <1>1, <2>4 DEF BooleanValue
  <2> QED
    BY <2>1, <2>2, <2>3, <2>4
<1>5. value \notin Empty /\ ComparedTo(f, "==", Literal(v)) = Literal(value)
  <2>1. CASE v.kind = "bool" /\ value = v
    <3>1. Literal(v) = Truth(v.b) /\ ~IsArray(Truth(v.b))
      BY <2>1, LiteralOf DEF Truth, IsArray
    <3>2. ComparedTo(f, "==", Truth(v.b)) = LowerItems(Truth(v.b))
      BY DEF ComparedTo, Truth
    <3>3. value \notin Empty
      BY <2>1, NotEmpty
    <3> QED
      BY <2>1, <3>1, <3>2, <3>3, LoweredElements
  <2>2. CASE v.kind = "number" /\ value = Bool(v.n = 2)
    <3>1. Literal(v) = Digits(v.n)
      BY <2>2, LiteralOf
    <3>2. ComparedTo(f, "==", Digits(v.n)) = Truth(v.n = 2)
      BY DEF ComparedTo, Digits
    <3>3. value.kind = "bool" /\ value.b = (v.n = 2)
      BY <2>2 DEF Bool
    <3>4. Literal(value) = Truth(v.n = 2)
      BY <3>3, LiteralOf
    <3>5. value \notin Empty
      BY <3>3, NotEmpty
    <3> QED
      BY <3>1, <3>2, <3>4, <3>5
  <2> QED
    BY <1>4, <2>1, <2>2
<1>6. Atom(f, e) = Is(f.name, "==", Literal(value))
  BY <1>2, <1>5, AtomOf DEF ComparisonAtom
<1> QED
  BY <1>2, <1>5, <1>6, ScalarAnswered

LEMMA NumberAnswered ==
  ASSUME NEW f, NEW e, NEW v, NEW value, Asking(f, e, v, value), f.type \in Numeric
  PROVE  Answered(f, e, value)
<1>1. (value = IF v = None /\ ~f.required THEN None ELSE NumericValue(f.type, v)) /\ value # Bad
  <2>1. v # Absent /\ value = FieldValue(f, v) /\ value # Bad
    BY AskingFor
  <2> QED
    BY <2>1, ValidatorOf
<1>2. f.type \notin {"string", "datetime", "boolean", "array"}
  BY DEF Numeric
<1>3. v.kind \in {"none", "number", "numeral", "bool"}
  <2>1. v # None => v.kind \in {"number", "numeral", "bool"}
    BY <1>1 DEF NumericValue
  <2> QED
    BY <2>1 DEF None
<1>4. Literal(v) \in Elements(e.value) /\ Usable(Literal(v))
  <2>1. Literal(v) \in Elements(e.value)
    BY <1>2, <1>3, ScalarAsked
  <2> QED
    BY <2>1, AskingFor
<1>5. Literal(v).lit = "number" \/ (IsQuoted(Literal(v)) /\ Blank(Literal(v).text))
  <2>1. CASE e.expr = "comparison"
    <3>1. ValueFits(f.type, Literal(v))
      BY <1>2, <2>1, AskingFor DEF ValidComparison
    <3> QED
      BY <1>2, <3>1 DEF ValueFits, NumberFits
  <2>2. CASE e.expr = "in"
    <3>1. Literal(v) \in Items(e.value) /\ ListFits(f, e.value)
      BY <1>4, <2>2, AskingFor DEF Elements, ValidIn
    <3> QED
      BY <1>2, <3>1 DEF ListFits
  <2> QED
    BY <1>2, <2>1, <2>2, AskingFor
<1>6. v.kind = "number" /\ Literal(v) = Digits(v.n)
  <2>1. CASE v.kind = "none"
    BY <1>4, <2>1, LiteralOf DEF Usable
  <2>2. CASE v.kind = "bool"
    <3>1. Literal(v) = Truth(v.b)
      BY <2>2, LiteralOf
    <3> QED
      BY <1>5, <3>1 DEF Truth, IsQuoted
  <2>3. CASE v.kind = "numeral"
    <3>1. Literal(v) = Quoted(v)
      BY <2>3, LiteralOf
    <3>2. Quoted(v).lit = "quoted" /\ Quoted(v).text = v
      BY DEF Quoted
    <3> QED
      BY <1>5, <2>3, <3>1, <3>2 DEF Blank
  <2> QED
    BY <1>3, <2>1, <2>2, <2>3, LiteralOf
<1>7. value = Number(v.n)
  <2>1. v # None
    BY <1>6 DEF None
  <2> QED
    BY <1>1, <1>6, <2>1 DEF NumericValue
<1>8. Literal(value) = Digits(v.n) /\ value \notin Empty
  <2>1. value.kind = "number" /\ value.n = v.n
    BY <1>7 DEF Number
  <2>2. Literal(value) = Digits(v.n)
    BY <2>1, LiteralOf
  <2>3. value \notin Empty
    BY <2>1, NotEmpty
  <2> QED
    BY <2>2, <2>3
<1>9. LowerItem(Digits(v.n)) = Digits(v.n) /\ LowerItems(Digits(v.n)) = Digits(v.n)
  BY DEF LowerItem, LowerItems, IsQuoted, IsArray, Digits
<1>10. e.expr = "comparison" => Atom(f, e) = Is(f.name, "==", Literal(value))
  <2> SUFFICES ASSUME e.expr = "comparison" PROVE Atom(f, e) = Is(f.name, "==", Literal(value))
    OBVIOUS
  <2>1. e.op = "==" /\ e.value = Literal(v)
    BY AskingFor
  <2>2. ComparedTo(f, "==", e.value) = Literal(value)
    BY <1>2, <1>6, <1>8, <1>9, <2>1 DEF ComparedTo
  <2> QED
    BY <1>2, <2>1, <2>2, AtomOf DEF ComparisonAtom
<1>11. e.expr = "in" => Literal(value) \in Items(LowerItems(e.value))
  <2> SUFFICES ASSUME e.expr = "in" PROVE Literal(value) \in Items(LowerItems(e.value))
    OBVIOUS
  <2>1. IsArray(e.value) /\ Digits(v.n) \in Items(e.value)
    BY <1>4, <1>6, AskingFor DEF Elements
  <2> QED
    BY <1>8, <1>9, <2>1, LoweredElements
<1> QED
  BY <1>2, <1>8, <1>10, <1>11, ScalarAnswered

(* The elements of an array: upload and filter make the same of one.       *)
Strict(array_type, l) ==
  /\ array_type \in Numeric => l.lit = "number"
  /\ array_type = "boolean" => l.lit = "boolean"

LEMMA ElementAnswered ==
  ASSUME NEW type \in ArrayTypes, NEW x \in Scalars, ElementValue(type, x) # Bad,
         Strict(type, ElementLiteral(x))
  PROVE  ElementLiteral(ElementValue(type, x)) = LowerItem(ElementLiteral(x))
<1>1. x \in Values
  BY DEF Values
<1>2. CASE type = "string"
  <2>1. IsText(x) /\ ElementValue(type, x) = Lower(x)
    BY <1>2 DEF ElementValue
  <2>2. Lower(x).kind = x.kind /\ LowerItem(Quoted(x)) = Quoted(Lower(x))
    BY <1>1, <2>1, LowerText
  <2> QED
    BY <2>1, <2>2 DEF ElementLiteral, IsText
<1>3. CASE type = "boolean"
  <2>1. ElementLiteral(x).lit = "boolean"
    BY <1>3 DEF Strict
  <2>2. x.kind = "bool"
    BY <2>1 DEF ElementLiteral, Digits, Quoted
  <2>3. ElementValue(type, x) = x
    BY <1>3, <2>2 DEF ElementValue, BooleanValue
  <2>4. LowerItem(Truth(x.b)) = Truth(x.b)
    BY DEF LowerItem, IsQuoted, Truth
  <2> QED
    BY <2>2, <2>3, <2>4 DEF ElementLiteral
<1>4. CASE type \in Numeric
  <2>1. ElementLiteral(x).lit = "number" /\ type \notin {"string", "boolean"}
    BY <1>4 DEF Strict, Numeric
  <2>2. x.kind = "number"
    BY <2>1 DEF ElementLiteral, Truth, Quoted
  <2>3. ElementValue(type, x) = NumericValue(type, x)
    BY <2>1 DEF ElementValue
  <2>4. NumericValue(type, x) = Number(x.n)
    BY <2>2, <2>3 DEF NumericValue
  <2>5. ElementLiteral(Number(x.n)) = Digits(x.n)
    BY DEF ElementLiteral, Number
  <2>6. LowerItem(Digits(x.n)) = Digits(x.n)
    BY DEF LowerItem, IsQuoted, Digits
  <2> QED
    BY <2>2, <2>3, <2>4, <2>5, <2>6 DEF ElementLiteral
<1> QED
  BY <1>2, <1>3, <1>4 DEF ArrayTypes

(* Who asks for an array has some of its elements.                         *)
LEMMA ArrayAsked ==
  ASSUME NEW f, NEW e, NEW v, NEW value, Asking(f, e, v, value), f.type = "array"
  PROVE  LET own == Literal(v)
         IN /\ v.kind = "list" /\ IsArray(own) /\ Items(own) # {}
            /\ e.expr = "in" => Items(e.value) \cap Items(own) # {}
            /\ e.expr \in {"includes", "member"} => Elements(e.value) \subseteq Items(own)
            /\ Elements(e.value) # {}
<1> DEFINE own == Literal(v)
<1>1. /\ e.expr = "comparison" => e.value = own
      /\ e.expr = "in" => IsArray(e.value)
      /\ e.expr \in {"comparison", "in", "includes", "member"}
      /\ \A x \in Elements(e.value) : Usable(x)
  BY AskingFor
<1>2. Elements(e.value) # {}
  <2>1. e.value \in Literals /\ ~RaisesFor(e.value)
    BY AskingFor
  <2> QED
    BY <2>1, SomeElement
<1>3. /\ e.expr = "in" => IF IsArray(own) THEN Items(e.value) \cap Items(own) # {}
                          ELSE own \in Items(e.value)
      /\ e.expr \in {"includes", "member"} =>
           IsArray(own) /\ IF IsArray(e.value) THEN Items(e.value) \subseteq Items(own)
                           ELSE e.value \in Items(own)
  BY DEF Asking, AsksFor
<1>4. v.kind = "list"
  <2>1. v \in Values /\ v # Absent /\ value = FieldValue(f, v) /\ value # Bad
    BY AskingFor
  <2>2. value = ArrayValue(f, v) /\ value # Bad
    BY <2>1, ValidatorOf
  <2>3. v.kind \in {"none", "list"}
    BY <2>2 DEF ArrayValue
  <2>4. ASSUME v.kind = "none" PROVE FALSE
    <3>1. own = Null /\ ~IsArray(own)
      <4>1. own = Null
        BY <2>4, LiteralOf
      <4>2. ~IsArray(Null)
        BY DEF Null, IsArray
      <4> QED
        BY <4>1, <4>2
    <3>2. own \in Elements(e.value)
      BY <1>1, <1>3, <3>1 DEF Elements
    <3> QED
      BY <1>1, <3>1, <3>2 DEF Usable
  <2> QED
    BY <2>3, <2>4
<1>5. IsArray(own)
  BY <1>4, LiteralOf DEF IsArray, Array
<1>6. e.expr \in {"includes", "member"} => Elements(e.value) \subseteq Items(own)
  BY <1>3 DEF Elements
<1>7. Items(own) # {}
  <2>1. CASE e.expr = "comparison"
    BY <1>1, <1>2, <1>5, <2>1 DEF Elements
  <2>2. CASE e.expr = "in"
    BY <1>3, <1>5, <2>2
  <2>3. CASE e.expr \in {"includes", "member"}
    BY <1>2, <1>6, <2>3
  <2> QED
    BY <1>1, <2>1, <2>2, <2>3
<1> QED
  BY <1>2, <1>3, <1>4, <1>5, <1>6, <1>7

LEMMA ArrayAnswered ==
  ASSUME NEW f, NEW e, NEW v, NEW value, Asking(f, e, v, value), f.type = "array"
  PROVE  Answered(f, e, value)
<1> DEFINE own == Literal(v)
           items == [i \in DOMAIN v.items |-> ElementValue(f.array_type, v.items[i])]
           lits == [i \in DOMAIN v.items |-> ElementLiteral(v.items[i])]
<1>1. /\ v.kind = "list" /\ IsArray(own) /\ Items(own) # {}
      /\ e.expr = "in" => Items(e.value) \cap Items(own) # {}
      /\ e.expr \in {"includes", "member"} => Elements(e.value) \subseteq Items(own)
      /\ Elements(e.value) # {}
  BY ArrayAsked
<1>2. /\ v \in Values /\ v # Absent /\ value = FieldValue(f, v) /\ value # Bad
      /\ ValidField(f) /\ ~Loose(f, e.value)
      /\ e.expr = "comparison" => e.op = "==" /\ e.value = own
      /\ e.expr = "in" => IsArray(e.value)
      /\ e.expr # "comparison" => e.negated = FALSE
      /\ e.expr \in {"comparison", "in", "includes", "member"}
  BY AskingFor
<1>3. v.items \in Seq(Scalars) /\ \A i \in DOMAIN v.items : v.items[i] \in Scalars
  <2>1. v.items \in Seq(Scalars)
    BY <1>1, <1>2, KindsOfValues
  <2> QED
    BY <2>1
<1>4. own = Array(lits) /\ own.items = lits /\ Items(own) = {lits[i] : i \in DOMAIN v.items}
  <2>1. own = Array(lits)
    BY <1>1, LiteralOf
  <2>2. Array(lits).items = lits
    BY DEF Array
  <2> QED
    BY <2>1, <2>2 DEF Items
<1>5. DOMAIN v.items # {}
  BY <1>1, <1>4
<1>6. value = List(items) /\ \A i \in DOMAIN v.items : items[i] # Bad
  <2>1. value = ArrayValue(f, v)
    BY <1>2, ValidatorOf
  <2>2. v.items # <<>> /\ v.kind # "none"
    BY <1>1, <1>5
  <2>3. ArrayValue(f, v) = IF \E i \in DOMAIN items : items[i] = Bad THEN Bad ELSE List(items)
    BY <1>1, <2>2 DEF ArrayValue
  <2> QED
    BY <1>2, <2>1, <2>3
<1>7. /\ Literal(value) = Array([i \in DOMAIN v.items |-> ElementLiteral(items[i])])
      /\ value \notin Empty
  <2>1. value.kind = "list" /\ value.items = items
    BY <1>6 DEF List
  <2>2. DOMAIN items = DOMAIN v.items
    OBVIOUS
  <2>3. value # None
    BY <2>1 DEF None
  <2>4. value # Text("", FALSE, FALSE)
    <3>1. Text("", FALSE, FALSE).kind = "text"
      BY DEF Text
    <3> QED
      BY <2>1, <3>1
  <2>5. value # List(<<>>)
    <3>1. List(<<>>).items = <<>>
      BY DEF List
    <3>2. items # <<>>
      BY <1>5, <2>2
    <3> QED
      BY <2>1, <3>1, <3>2
  <2> HIDE DEF items
  <2>6. Literal(value) = Array([i \in DOMAIN v.items |-> ElementLiteral(items[i])])
    BY <2>1, <2>2, LiteralOf
  <2> QED
    BY <2>3, <2>4, <2>5, <2>6 DEF Empty
<1>8. ASSUME NEW i \in DOMAIN v.items, lits[i] \in Elements(e.value)
      PROVE  ElementLiteral(items[i]) = LowerItem(lits[i])
  <2>1. f.array_type \in ArrayTypes
    BY <1>2 DEF ValidField
  <2>2. Strict(f.array_type, lits[i])
    BY <1>2, <1>8, NotLoose DEF Strict
  <2> QED
    BY <1>3, <1>6, <1>8, <2>1, <2>2, ElementAnswered
<1>9. IsArray(Literal(value))
        /\ Items(Literal(value)) = {ElementLiteral(items[i]) : i \in DOMAIN v.items}
  <2> DEFINE stored == [i \in DOMAIN v.items |-> ElementLiteral(items[i])]
  <2> HIDE DEF items
  <2>1. DOMAIN stored = DOMAIN v.items /\ \A i \in DOMAIN v.items : stored[i] = ElementLiteral(items[i])
    OBVIOUS
  <2>2. Literal(value) = Array(stored)
    BY <1>7
  <2> HIDE DEF stored
  <2>3. Array(stored).items = stored /\ IsArray(Array(stored))
    BY DEF Array, IsArray
  <2> QED
    BY <2>1, <2>2, <2>3 DEF Items
<1>10. \A x \in Items(own) \cap Elements(e.value) : LowerItem(x) \in Items(Literal(value))
  <2> HIDE DEF items, lits
  <2> QED
    BY <1>4, <1>8, <1>9
<1>11. CASE e.expr = "comparison"
  <2>1. ComparedTo(f, "==", own) = LowerItems(own)
    BY DEF ComparedTo
  <2>2. LowerItems(own) = Array([i \in DOMAIN v.items |-> LowerItem(lits[i])])
    BY <1>1, <1>4 DEF LowerItems
  <2>3. \A i \in DOMAIN v.items : lits[i] \in Elements(e.value)
    <3> HIDE DEF lits
    <3> QED
      BY <1>1, <1>2, <1>4, <1>11 DEF Elements
  <2>4. LowerItems(own) = Literal(value)
    <3> HIDE DEF lits, items
    <3>1. [i \in DOMAIN v.items |-> LowerItem(lits[i])]
             = [i \in DOMAIN v.items |-> ElementLiteral(items[i])]
      BY <1>8, <2>3
    <3> QED
      BY <1>7, <2>2, <3>1
  <2>5. Atom(f, e) = Is(f.name, "==", Literal(value))
    BY <1>2, <1>11, <2>1, <2>4, AtomOf DEF ComparisonAtom
  <2> QED
    BY <1>7, <2>5, CompareHolds, Relations DEF Answered
<1>12. CASE e.expr = "in"
  <2>1. Atom(f, e) = Contains(f.name, FALSE, FALSE, LowerItems(e.value))
    BY <1>2, <1>12, AtomOf DEF InAtom
  <2>2. Elements(LowerItems(e.value)) = {LowerItem(x) : x \in Items(e.value)}
    BY <1>2, <1>12, LoweredElements DEF Elements
  <2>3. Elements(e.value) = Items(e.value)
    BY <1>2, <1>12 DEF Elements
  <2>4. Elements(LowerItems(e.value)) \cap Items(Literal(value)) # {}
    BY <1>1, <1>10, <1>12, <2>2, <2>3
  <2> QED
    BY <1>7, <1>9, <2>1, <2>4, ContainsHolds DEF Answered, Contained
<1>13. CASE e.expr \in {"includes", "member"}
  <2>1. Elements(Needle(f, e.value)) = {LowerItem(x) : x \in Elements(e.value)}
    <3>1. CASE IsArray(e.value)
      BY <3>1, NeedleElements DEF Elements
    <3>2. CASE ~IsArray(e.value)
      <4>1. Elements(e.value) = {e.value}
        BY <3>2 DEF Elements
      <4>2. f.array_type # "string" => LowerItem(e.value) = e.value
        <5>1. f.array_type \in ArrayTypes
          BY <1>2 DEF ValidField
        <5>2. f.array_type # "string" => e.value.lit \in {"number", "boolean"}
          BY <1>2, <4>1, <5>1, NotLoose DEF ArrayTypes
        <5> QED
          BY <5>2 DEF LowerItem, IsQuoted
      <4> QED
        BY <3>2, <4>1, <4>2, NeedleElements
    <3> QED
      BY <3>1, <3>2
  <2>2. Elements(Needle(f, e.value)) \subseteq Items(Literal(value))
    BY <1>1, <1>10, <1>13, <2>1
  <2>3. Elements(Needle(f, e.value)) \cap Items(Literal(value)) # {}
    BY <1>1, <2>1, <2>2
  <2>4. e.expr = "includes" => Atom(f, e) = Contains(f.name, FALSE, TRUE, Needle(f, e.value))
    BY <1>2, AtomOf DEF IncludesAtom
  <2>5. e.expr = "member" => Atom(f, e) = Contains(f.name, FALSE, FALSE, Needle(f, e.value))
    BY <1>2, AtomOf DEF MemberAtom
  <2>6. /\ Contained(Literal(value), TRUE, Needle(f, e.value))
        /\ Contained(Literal(value), FALSE, Needle(f, e.value))
    BY <1>9, <2>2, <2>3 DEF Contained
  <2>7. \A document : Stored(document, f.name) = Literal(value) => HoldsLeaf(document, Atom(f, e))
    <3>1. CASE e.expr = "includes"
      BY <2>4, <2>6, <3>1, ContainsHolds
    <3>2. CASE e.expr = "member"
      BY <2>5, <2>6, <3>2, ContainsHolds
    <3> QED
      BY <1>13, <3>1, <3>2
  <2> QED
    BY <1>7, <2>7 DEF Answered
<1> QED
  BY <1>2, <1>11, <1>12, <1>13

LEMMA OwnAnswered ==
  ASSUME NEW f, NEW e, NEW v, NEW value, Asking(f, e, v, value)
  PROVE  Answered(f, e, value)
<1>1. f.type \in {"string", "datetime", "boolean", "array"} \cup Numeric
  BY AskingFor DEF Types
<1> QED
  BY <1>1, StringAnswered, DatetimeAnswered, BooleanAnswered, NumberAnswered, ArrayAnswered

(* Whatever the upload makes of a value and the filter of the same value,  *)
(* they meet: a document is found by ==, in, includes and array_contains   *)
(* (member) with what it was sent with, for every type of field.           *)
THEOREM OwnValuesFound == Spec => []OwnValueFound
<1>1. Inv => OwnValueFound
  <2> SUFFICES ASSUME Inv, SearchedMilvus, Expression \in Atoms, NEW c \in search.names,
                      NEW d \in collection[c].documents,
                      d.sent # Absent, Expression.field \in DOMAIN d.sent \ {"filename"},
                      FieldNamed(collection[c].schema, Expression.field).user_defined,
                      AsksFor(Expression, d.sent[Expression.field]),
                      ~Loose(FieldNamed(collection[c].schema, Expression.field), Expression.value)
               PROVE  c \in search.found
    BY DEF OwnValueFound
  <2> DEFINE e == Expression
             schema == collection[c].schema
             f == FieldNamed(schema, e.field)
  <2>1. /\ c \in Collections /\ schema # <<>> /\ e.field \in Names(schema)
        /\ f.name = e.field /\ ValidField(f) /\ ValidAtom(f, e) /\ ~RaisesNode(e)
        /\ (\E x \in collection[c].documents : Finds("milvus", schema, e, x.stored)) => c \in search.found
    BY SearchedAtom
  <2>2. PICK metadata \in Metadata[c] :
          /\ ValidUpload(schema, metadata) /\ d = Document(schema, metadata)
          /\ metadata # Absent => \A n \in DOMAIN metadata : metadata[n] \in Values
    BY <2>1, OnlyDocument
  <2>3. d.sent = metadata
    BY <2>2 DEF Document
  <2> HIDE DEF e
  <2> DEFINE v == Given(metadata, e.field)
             value == FieldValue(f, v)
  <2>4. v = d.sent[e.field] /\ v \in Values
    BY <2>2, <2>3 DEF Given, e
  <2>5. /\ value # Bad
        /\ value \notin Empty => e.field \in DOMAIN d.stored /\ d.stored[e.field] = value
    <3>1. e.field \in Names(schema) \ {"filename"} /\ metadata # Absent /\ f.user_defined
      BY <2>1, <2>3 DEF e
    <3> HIDE DEF f
    <3> QED
      BY <2>1, <2>2, <3>1, WrittenField DEF f
  <2>6. Asking(f, e, v, value)
    BY <2>1, <2>4, <2>5 DEF Asking, e
  <2>7. Answered(f, e, value)
    BY <2>6, OwnAnswered
  <2>8. HoldsLeaf(d.stored, Atom(f, e))
    BY <2>1, <2>5, <2>7 DEF Answered, Stored
  <2>9. Finds("milvus", schema, e, d.stored)
    <3>1. e.expr \in AtomKinds \ {"is_null"}
      BY <2>6, AskingFor DEF AtomKinds
    <3> QED
      BY <2>8, <3>1, AtomIsLeaf, AtomFinds
  <2> QED
    BY <2>1, <2>9
<1> QED
  BY <1>1, InvHolds, PTL
=============================================================================
