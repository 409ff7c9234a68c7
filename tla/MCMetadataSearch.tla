-------------------------- MODULE MCMetadataSearch --------------------------
(***************************************************************************)
(* One collection with a field "f" of each type, and one with the fields   *)
(* of the system or without a schema; values at and around the limits.     *)
(***************************************************************************)
EXTENDS MetadataSearch, TLC

CONSTANTS c1, c2

MCCollections == {c1, c2}

-----------------------------------------------------------------------------
(* Texts of up to MaxString = 4 letters, lists of up to MaxArray = 2, days *)
(* of 4 seconds, a server one second ahead of UTC.                         *)
a == Text("a", FALSE, FALSE)
A == Text("a", TRUE, FALSE)
blankA == Text("a", TRUE, TRUE)
b == Text("b", FALSE, FALSE)
long == Text("abcde", FALSE, FALSE)
true == Text("true", FALSE, FALSE)
empty == Text("", FALSE, FALSE)
blank == Text("", FALSE, TRUE)
one == Number(2)
half == Number(1)
day == Date("plain", 1, 0)
dayAfter == Date("plain", 2, 0)
late == Date("timed", 1, 3)
worded == Date("worded", 1, 0)

MCFileName == Text("rep", TRUE, FALSE)

(* The numeral "1" is read as a date.                                      *)
MCNumeralDay == 2 :> 2

MCScalars == {a, A, blankA, long, true, blank, Numeral(2), one, half,
            Bool(TRUE), day, late, worded, None}
MCLists == {List(<<>>), List(<<A>>), List(<<a, b>>), List(<<a, b, A>>),
          List(<<one>>), List(<<half>>), List(<<Bool(TRUE), one>>),
          List(<<true>>)}

MCMetadata ==
  c1 :> {Absent} \cup {[f |-> v] : v \in MCScalars} \cup {[f |-> v] : v \in MCLists}
         \cup {[page_number |-> one]}
  @@ c2 :> {}

-----------------------------------------------------------------------------
Requested(type, array_type, max_length, required) ==
  << [field |-> Field("f", type, array_type, max_length, required, TRUE), padded |-> FALSE] >>

MCRequests ==
  c1 :> {Requested(t, "", 0, FALSE) : t \in {"integer", "number", "boolean", "datetime"}}
          \cup {Requested("string", "", 0, r) : r \in BOOLEAN}
          \cup {Requested("array", t, 0, FALSE) : t \in {"string", "integer", "boolean"}}
          \cup {Requested("array", "string", 1, TRUE),
                << [field |-> SystemFields[1], padded |-> TRUE] >>,
                << [field |-> Field("filename", "datetime", "", 0, FALSE, TRUE), padded |-> FALSE] >>}
  @@ c2 :> {<<>>, Requested("integer", "string", 0, FALSE)}

-----------------------------------------------------------------------------
Single ==
  {Quoted(v) : v \in {a, A, blankA, empty, blank, Text("null", TRUE, FALSE), Numeral(2),
                      day, dayAfter, late, worded}}
    \cup {Digits(n) : n \in {0, 1, 2}} \cup {Truth(TRUE), Null}
Several ==
  {Array(<<>>), Array(<<Quoted(A)>>), Array(<<Quoted(a), Quoted(b)>>), Array(<<Quoted(a), Digits(2)>>),
   Array(<<Digits(2)>>), Array(<<Digits(1), Digits(2)>>), Array(<<Truth(TRUE)>>),
   Array(<<Truth(TRUE), Digits(2)>>),
   Array(<<Digits(2), Digits(2), Digits(2)>>), Array(<<Quoted(empty)>>),
   Array(<<Quoted(blankA)>>), Array(<<Quoted(true)>>)}

Comparisons == {Compare("f", op, l) : op \in {"==", "!=", ">"}, l \in Single \cup Several}
Bounds == {Quoted(day), Quoted(late), Digits(1), Digits(2)}
Others ==
  {Like("f", Quoted(v)) : v \in {a, A}}
    \cup {Between("f", l1, l2) : l1 \in Bounds, l2 \in Bounds}
    \cup {BeforeAfter("f", op, l) : op \in {"before", "after"}, l \in Bounds}
    \cup {Includes("f", n, l) : n \in BOOLEAN, l \in Several \cup {Quoted(A), Digits(2)}}
    \cup {Listed("f", n, l) : n \in BOOLEAN, l \in Several}
    \cup {Member("f", n, l) : n \in BOOLEAN, l \in {Quoted(A), Digits(2), Truth(TRUE)}}
    \cup {Function("f", g, l) : g \in {"array_contains", "array_contains_any", "array_contains_all"},
                                l \in {Quoted(A), Array(<<Quoted(a), Quoted(b)>>)}}
    \cup {HasLength("f", op, Digits(n)) : op \in {"==", ">="}, n \in {0, 1, 4, 6}}
    \cup {HasLength("f", "==", Quoted(Numeral(2)))}
    \cup {IsNull("f"), Unparsable, Compare("g", "==", Digits(2)),
          Compare("filename", "==", Quoted(MCFileName)), Compare("filename", "==", Quoted(day)),
          Compare("page_number", "==", Digits(2)), Listed("filename", FALSE, Array(<<Quoted(MCFileName)>>))}
Compounds ==
  LET e == Compare("f", "==", Quoted(a))
      g == Compare("filename", "!=", Quoted(b))
  IN {Not(e), Not(IsNull("f"))} \cup {Joined(op, e, g) : op \in {"and", "or"}}

FPath == Path("f", FALSE, FALSE)
Leaves ==
  {Leaf("term", p, v) : p \in {FPath, Path("f", TRUE, TRUE), Path("g", TRUE, FALSE)}, v \in {a, A, one}}
    \cup {Leaf("terms", FPath, v) : v \in {List(<<a, b>>), a}}
    \cup {Leaf(c, Path("f", TRUE, TRUE), a) : c \in {"match", "prefix", "exists"}}
    \cup {Bounded(FPath, op, v) : op \in {"gt", "lte"}, v \in {one, day, worded}}
    \cup {Leaf("term", Path("page_number", FALSE, FALSE), one)}
ClauseLists ==
  {<<>>} \cup {<<l>> : l \in Leaves}
    \cup {<<Except(l)>> : l \in Leaves}
    \cup {<<BoolClause(<<>>, <<l, Leaf("exists", FPath, None)>>, <<>>, 1)>> : l \in Leaves}
    \cup {<<Except(Except(Except(Leaf("term", FPath, a))))>>, [i \in 1 .. 5 |-> Leaf("exists", FPath, None)]}

Tests ==
  {Test("f", op, v) : op \in {"eq", "ne", "gt", "gte", "lt", "lte", "in", "nin"},
                     v \in {a, A, Numeral(2), one, Bool(TRUE), day}}
    \cup {Test("f", op, v) : op \in {"in", "nin"}, v \in {List(<<a, b>>), List(<<one>>), List(<<Bool(TRUE)>>), List(<<>>)}}
    \cup {Test("f", "eq", List(<<a>>)), Test("page_number", "eq", one), Test("filename", "eq", MCFileName)}
Joins == {Join(op, <<Test("f", "ne", v), Test("f", "eq", v)>>) : op \in {"and", "or"}, v \in {a, one}}

MCFilters ==
  [milvus |-> Comparisons \cup Others \cup Compounds,
   elasticsearch |-> ClauseLists,
   openai |-> Tests \cup Joins]
=============================================================================
