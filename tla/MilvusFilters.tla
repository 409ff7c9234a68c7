---------------------------- MODULE MilvusFilters ----------------------------
(***************************************************************************)
(* The filter expressions of requests when the vector store is Milvus:     *)
(* what FilterSemanticValidator accepts for a schema, what                 *)
(* MilvusQueryTransformer makes of it, and which documents Milvus then     *)
(* finds.  An expression is the tree that filter_grammar.lark gives it.    *)
(* "=" is left out, it is "==" everywhere.  So are a single value to the   *)
(* right of "in" and a list to its left, which only Milvus refuses.        *)
(***************************************************************************)
EXTENDS MetadataValues, Trees

-----------------------------------------------------------------------------
(* Literals: texts in double quotes, numbers, true and false, null, and    *)
(* lists of these.                                                         *)
Quoted(text) == [lit |-> "quoted", text |-> text]
Digits(n) == [lit |-> "number", n |-> n]
Truth(b) == [lit |-> "boolean", b |-> b]
Null == [lit |-> "null"]
Array(items) == [lit |-> "array", items |-> items]

IsQuoted(l) == l.lit = "quoted"
IsArray(l) == l.lit = "array"
IsWord(l) == l.lit \in {"quoted", "number"}
AsText(l) == IF IsQuoted(l) THEN l.text ELSE Numeral(l.n)
Items(l) == {l.items[i] : i \in DOMAIN l.items}

ScalarLiterals ==
  [lit : {"quoted"}, text : Texts \cup Dates \cup [kind : {"numeral"}, n : Int]]
    \cup [lit : {"number"}, n : Int] \cup [lit : {"boolean"}, b : BOOLEAN] \cup {Null}
Arrays == [lit : {"array"}, items : Seq(ScalarLiterals)]
Literals == ScalarLiterals \cup Arrays

(* Expressions.                                                            *)
Compare(f, op, l) == [expr |-> "comparison", field |-> f, op |-> op, value |-> l]
Like(f, l) == [expr |-> "like", field |-> f, value |-> l]
Between(f, from, to) == [expr |-> "between", field |-> f, from |-> from, to |-> to]
BeforeAfter(f, op, l) == [expr |-> "before_after", field |-> f, op |-> op, value |-> l]
Includes(f, negated, l) == [expr |-> "includes", field |-> f, negated |-> negated, value |-> l]
Function(f, func, l) == [expr |-> "function", field |-> f, func |-> func, value |-> l]
HasLength(f, op, l) == [expr |-> "length", field |-> f, op |-> op, value |-> l]
Member(f, negated, l) == [expr |-> "member", field |-> f, negated |-> negated, value |-> l]
Listed(f, negated, l) == [expr |-> "in", field |-> f, negated |-> negated, value |-> l]
IsNull(f) == [expr |-> "is_null", field |-> f]
Unparsable == [expr |-> "unparsable"]   \* anything else
Not(e) == [expr |-> "not", arg |-> e]
Joined(op, e1, e2) == [expr |-> op, left |-> e1, right |-> e2]   \* "and", "or"

Operands(e) ==
  CASE e.expr = "not"           -> <<e.arg>>
    [] e.expr \in {"and", "or"} -> <<e.left, e.right>>
    [] OTHER                    -> <<>>

Orders == {">", ">=", "<", "<="}

(* The expressions about one field.                                        *)
Atoms ==
  [expr : {"comparison", "length"}, field : STRING, op : {"==", "!="} \cup Orders, value : Literals]
    \cup [expr : {"like"}, field : STRING, value : Literals]
    \cup [expr : {"between"}, field : STRING, from : Literals, to : Literals]
    \cup [expr : {"before_after"}, field : STRING, op : {"before", "after"}, value : Literals]
    \cup [expr : {"includes", "member"}, field : STRING, negated : BOOLEAN, value : Literals]
    \cup [expr : {"in"}, field : STRING, negated : BOOLEAN, value : Arrays]
    \cup [expr : {"function"}, field : STRING, value : Literals,
          func : {"array_contains", "array_contains_any", "array_contains_all"}]
    \cup [expr : {"is_null"}, field : STRING]

(* TYPE_OPERATOR_MAPPING *)
Operators(type) ==
  {"==", "!="} \cup
  CASE type = "string"   -> {"like", "in"}
    [] type = "datetime" -> Orders \cup {"between"}
    [] type \in Numeric  -> Orders \cup {"between", "in"}
    [] type = "boolean"  -> {}
    [] type = "array"    -> {"includes", "in"}

-----------------------------------------------------------------------------
(* The validators of literals, one for each type of field.                 *)
StringFits(l) == l.lit \in {"quoted", "boolean"}
NumberFits(type, l) == l.lit = "number" /\ (type = "integer" => l.n % 2 = 0)
BooleanFits(l) == l.lit = "boolean" \/ l \in {Digits(0), Digits(2)}
DatetimeFits(l) == IsQuoted(l) /\ l.text.kind = "date"

(* validate_value_type_for_field.  A blank text is not looked at; "null"   *)
(* is null, in any case.                                                   *)
IsNullWord(l) == IsQuoted(l) /\ Lower(l.text) = Text("null", FALSE, FALSE)

ValueFits(type, l) ==
  \/ IsQuoted(l) /\ Blank(l.text)
  \/ /\ l # Null /\ ~IsNullWord(l)
     /\ CASE type = "string"   -> StringFits(l)
          [] type \in Numeric  -> NumberFits(type, l)
          [] type = "boolean"  -> BooleanFits(l)
          [] type = "datetime" -> DatetimeFits(l)

(* _validate_array_element_type; to Python true and false are integers.    *)
ElementFits(array_type, l) ==
  CASE array_type = "string"  -> IsQuoted(l)
    [] array_type = "integer" -> l.lit = "boolean" \/ (l.lit = "number" /\ l.n % 2 = 0)
    [] array_type = "boolean" -> l.lit = "boolean"
    [] OTHER                  -> l.lit = "number"

(* validate_array_value: here a number passes for a text.  The elements    *)
(* are looked at twice, the second time with all numbers as texts, so that *)
(* one of true and false among them is refused.                            *)
ArrayFits(f, l) ==
  \/ IsQuoted(l) /\ Blank(l.text)
  \/ /\ IsArray(l) /\ Len(l.items) <= MaxLength(f)
     /\ \A i \in Items(l) :
          ElementFits(f.array_type, i) \/ (f.array_type = "string" /\ i.lit = "number")
     /\ \A i, j \in Items(l) : i.lit = "boolean" <=> j.lit = "boolean"

(* _validate_field_in_list_common *)
ListFits(f, l) ==
  \A i \in Items(l) :
    CASE f.type = "array"  -> ElementFits(f.array_type, i)
      [] f.type = "string" -> IsQuoted(i)
      [] OTHER             -> i.lit = "number"

(* The bounds of between: dates as they are written, and numbers, both     *)
(* with quotes or without.                                                 *)
HasBound(type, l) ==
  IsWord(l) /\ IF type = "datetime" THEN ReadsAsDate(AsText(l)) ELSE AsText(l).kind = "numeral"
Bound(type, l) ==
  IF type = "datetime" THEN Start(AsDate(AsText(l))) + AsDate(AsText(l)).second ELSE AsText(l).n

(* The methods of FilterSemanticValidator, for each kind of atom one; it   *)
(* has none for before and after, of which only the field is looked up.    *)
Allows(f, op) == op \in Operators(f.type)

ValidComparison(f, e) ==
  Allows(f, e.op) /\ IF f.type = "array" THEN ArrayFits(f, e.value) ELSE ValueFits(f.type, e.value)

ValidBetween(f, e) ==
  /\ Allows(f, "between")
  /\ HasBound(f.type, e.from) /\ HasBound(f.type, e.to)
  /\ Bound(f.type, e.from) <= Bound(f.type, e.to)

ValidFunction(f, e) ==
  f.type = "array" /\ (e.func = "array_contains" <=> ~IsArray(e.value))

(* A whole number, with quotes or without.                                 *)
ValidLength(f, e) ==
  /\ f.type = "array"
  /\ IsWord(e.value) /\ AsText(e.value).kind = "numeral"
  /\ LET n == AsText(e.value).n IN n % 2 = 0 /\ n \in 0 .. 2 * MaxLength(f)

ValidMember(f, e) == f.type = "array"
ValidLike(f, e) == Allows(f, "like")
ValidIncludes(f, e) == Allows(f, "includes")
ValidIn(f, e) == Allows(f, "in") /\ ListFits(f, e.value)

ValidAtom(f, e) ==
  CASE e.expr = "comparison"   -> ValidComparison(f, e)
    [] e.expr = "like"         -> ValidLike(f, e)
    [] e.expr = "between"      -> ValidBetween(f, e)
    [] e.expr = "before_after" -> TRUE
    [] e.expr = "includes"     -> ValidIncludes(f, e)
    [] e.expr = "function"     -> ValidFunction(f, e)
    [] e.expr = "length"       -> ValidLength(f, e)
    [] e.expr = "member"       -> ValidMember(f, e)
    [] e.expr = "in"           -> ValidIn(f, e)
    [] e.expr = "is_null"      -> FALSE

(* FieldValidator *)
HasField(schema, e) == e.field \in Names(schema)

ValidNode(schema, e) ==
  CASE Operands(e) # <<>>    -> TRUE
    [] e.expr = "unparsable" -> FALSE
    [] OTHER -> HasField(schema, e) /\ ValidAtom(FieldNamed(schema, e.field), e)

Valid(schema, e) ==
  TreeFold(LAMBDA x, valid : ValidNode(schema, x) /\ \A i \in DOMAIN valid : valid[i], Operands, e)

-----------------------------------------------------------------------------
(* The transformer raises for null and "", for an empty list, and for a    *)
(* length of no elements, compared with == or !=.                          *)
RaisesFor(l) ==
  \/ l \in {Null, Quoted(Text("", FALSE, FALSE))}
  \/ IsArray(l) /\ (l.items = <<>> \/ Items(l) \cap {Null, Quoted(Text("", FALSE, FALSE))} # {})

RaisesNode(e) ==
  CASE Operands(e) # <<>>  -> FALSE
    [] e.expr = "between"  -> RaisesFor(e.from) \/ RaisesFor(e.to)
    [] e.expr = "length"   -> e.op \in {"==", "!="} /\ e.value = Digits(0)
    [] e.expr = "is_null"  -> TRUE
    [] OTHER               -> RaisesFor(e.value)

Raises(e) ==
  TreeFold(LAMBDA x, raises : RaisesNode(x) \/ \E i \in DOMAIN raises : raises[i], Operands, e)

Accepted(schema, e) == Valid(schema, e) /\ ~Raises(e)

(* Fault: texts stay as they are.                                          *)
KeepItem(l) == l

(* Texts are lower-case; so are elements of lists, whatever the field.     *)
LowerItem(l) == IF IsQuoted(l) THEN Quoted(Lower(l.text)) ELSE l

LowerItems(l) ==
  IF IsArray(l) THEN Array([i \in DOMAIN l.items |-> LowerItem(l.items[i])]) ELSE l

(* _normalize_array_string_value *)
Needle(f, l) ==
  IF IsArray(l) THEN LowerItems(l) ELSE IF f.array_type = "string" THEN LowerItem(l) ELSE l

Parsed(l, op) ==
  IF IsWord(l) /\ ReadsAsDate(AsText(l))
  THEN Quoted(Instant(ParseDatetime(AsDate(AsText(l)), op))) ELSE l

(* What comparison() writes to the right of the operator: file names keep  *)
(* their capitals, other texts do not.                                     *)
ComparedTo(f, op, l) ==
  CASE f.type = "datetime" -> Parsed(l, op)
    [] f.type = "string" /\ f.name # "filename" -> LowerItem(l)
    [] f.type = "boolean" /\ l.lit = "number" -> Truth(l.n = 2)
    [] OTHER -> LowerItems(l)

(* What Milvus gets: comparisons, ranges, and array functions (any, all or *)
(* one of some elements), some of them with a "not".                       *)
Is(f, op, l) == [milvus |-> "compare", field |-> f, op |-> op, value |-> l]
Within(f, from, to) == [milvus |-> "range", field |-> f, from |-> from, to |-> to]
In(f, negated, l) == [milvus |-> "in", field |-> f, negated |-> negated, value |-> l]
Contains(f, negated, all, l) ==
  [milvus |-> "contains", field |-> f, negated |-> negated, all |-> all,
   value |-> IF IsArray(l) THEN l ELSE Array(<<l>>)]
LengthIs(f, op, l) == [milvus |-> "length", field |-> f, op |-> op, value |-> l]
LikeText(f, l) == [milvus |-> "like", field |-> f, value |-> l]
Combined(op, parts) == [milvus |-> op, parts |-> parts]   \* "and", "or", "not"

Side(op) == [before |-> "<", after |-> ">"][op]

DateOnly(l) == IsQuoted(l) /\ l.text.kind = "date" /\ ~HasExplicitTime(l.text)

(* Fault: "does not include" without the not.                              *)
IncludesAny(f, e) == Contains(f.name, FALSE, FALSE, Needle(f, e.value))

(* array_comparison: a list is included if all of it is there, and not if  *)
(* none of it is.                                                          *)
IncludesAtom(f, e) ==
  Contains(f.name, e.negated, ~e.negated, Needle(f, e.value))

FunctionAtom(f, e) == Contains(f.name, FALSE, e.func = "array_contains_all", Needle(f, e.value))
MemberAtom(f, e) == Contains(f.name, e.negated, FALSE, Needle(f, e.value))

ComparisonAtom(f, e) ==
  IF e.op = "==" /\ f.type = "datetime" /\ DateOnly(e.value)
  THEN Within(f.name, Quoted(Instant(Start(e.value.text))), Quoted(Instant(End(e.value.text))))
  ELSE Is(f.name, e.op, ComparedTo(f, e.op, e.value))

BetweenAtom(f, e) ==
  IF f.type = "datetime" THEN Within(f.name, Parsed(e.from, ">="), Parsed(e.to, "<="))
  ELSE Within(f.name, e.from, e.to)

BeforeAfterAtom(f, e) ==
  Is(f.name, Side(e.op),
     IF f.type = "datetime" THEN Parsed(e.value, Side(e.op)) ELSE e.value)

InAtom(f, e) ==
  IF f.type = "array" THEN Contains(f.name, e.negated, FALSE, LowerItems(e.value))
  ELSE In(f.name, e.negated, LowerItems(e.value))

(* The methods of MilvusQueryTransformer.                                  *)
Atom(f, e) ==
  CASE e.expr = "comparison"   -> ComparisonAtom(f, e)
    [] e.expr = "like"         -> LikeText(f.name, e.value)
    [] e.expr = "between"      -> BetweenAtom(f, e)
    [] e.expr = "before_after" -> BeforeAfterAtom(f, e)
    [] e.expr = "includes"     -> IncludesAtom(f, e)
    [] e.expr = "function"     -> FunctionAtom(f, e)
    [] e.expr = "length"       -> LengthIs(f.name, e.op, e.value)
    [] e.expr = "member"       -> MemberAtom(f, e)
    [] e.expr = "in"           -> InAtom(f, e)

Transform(schema, e) ==
  TreeFold(LAMBDA x, parts : IF Operands(x) # <<>> THEN Combined(x.expr, parts)
                             ELSE Atom(FieldNamed(schema, x.field), x), Operands, e)

-----------------------------------------------------------------------------
(* Milvus: values of different types are different, and not ordered.       *)
Literal(v) ==
  CASE v.kind = "number" -> Digits(v.n)
    [] v.kind = "bool"   -> Truth(v.b)
    [] v.kind = "list"   -> Array([i \in DOMAIN v.items |->
                              IF v.items[i].kind = "number" THEN Digits(v.items[i].n)
                              ELSE IF v.items[i].kind = "bool" THEN Truth(v.items[i].b)
                              ELSE Quoted(v.items[i])])
    [] v.kind = "none"   -> Null
    [] OTHER             -> Quoted(v)

Rank(l) == IF l.lit = "number" THEN l.n ELSE l.text.at
Ordered(l1, l2) ==
  \/ l1.lit = "number" /\ l2.lit = "number"
  \/ IsQuoted(l1) /\ IsQuoted(l2) /\ l1.text.kind = "instant" /\ l2.text.kind = "instant"

Related(op, l1, l2) ==
  CASE op = "==" -> l1 = l2
    [] op = "!=" -> l1 # l2
    [] op = ">"  -> Ordered(l1, l2) /\ Rank(l1) > Rank(l2)
    [] op = ">=" -> Ordered(l1, l2) /\ Rank(l1) >= Rank(l2)
    [] op = "<"  -> Ordered(l1, l2) /\ Rank(l1) < Rank(l2)
    [] op = "<=" -> Ordered(l1, l2) /\ Rank(l1) <= Rank(l2)

(* The value of a field of a document, as a literal.                       *)
Stored(document, f) ==
  IF f \in DOMAIN document THEN Literal(document[f]) ELSE Null

HoldsLeaf(document, m) ==
  LET v == Stored(document, m.field)
      contained == /\ IsArray(v)
                   /\ IF m.all THEN Items(m.value) \subseteq Items(v)
                      ELSE Items(m.value) \cap Items(v) # {}
  IN CASE m.milvus = "compare"  -> Related(m.op, v, m.value)
       [] m.milvus = "range"    -> Related(">=", v, m.from) /\ Related("<=", v, m.to)
       [] m.milvus = "like"     -> v = m.value
       [] m.milvus = "in"       -> (v \in Items(m.value)) # m.negated
       [] m.milvus = "length"   -> IsArray(v) /\ Related(m.op, Digits(2 * Len(v.items)), m.value)
       [] m.milvus = "contains" -> contained # m.negated

Parts(m) == IF m.milvus \in {"and", "or", "not"} THEN m.parts ELSE <<>>

Holds(document, m) ==
  TreeFold(LAMBDA x, holds :
             CASE x.milvus = "not" -> ~holds[1]
               [] x.milvus = "and" -> holds[1] /\ holds[2]
               [] x.milvus = "or"  -> holds[1] \/ holds[2]
               [] OTHER            -> HoldsLeaf(document, x), Parts, m)
=============================================================================
