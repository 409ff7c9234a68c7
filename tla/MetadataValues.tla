--------------------------- MODULE MetadataValues ---------------------------
(***************************************************************************)
(* The metadata of documents: the schema of a collection, and what becomes *)
(* of the values a client sends with a file (utils/metadata_validation.py, *)
(* create_collection and _validate_custom_metadata of the ingestor).       *)
(*                                                                         *)
(* A value is a record with a kind.  A text is a word with two flags:      *)
(* whether it has capitals, and whether it has blanks around it.  Texts    *)
(* that read as a number or as a date have kinds of their own.  Numbers    *)
(* are counted in halves, so that whole ones are the even ones; time is    *)
(* counted in seconds of a day that has DaySeconds of them.                *)
(***************************************************************************)
EXTENDS Integers, Sequences

CONSTANTS
  MaxString,   \* config.metadata.max_string_length
  MaxArray,    \* config.metadata.max_array_length
  DaySeconds,  \* bound: the seconds of a day
  Offset,      \* seconds by which the local time of the servers is ahead of UTC
  NumeralDay   \* the numerals that dateutil reads as dates, and their days

ASSUME MetadataAssumption ==
  /\ {MaxString, MaxArray, DaySeconds} \subseteq Nat \ {0}
  /\ Offset \in Int
  /\ NumeralDay \in [DOMAIN NumeralDay -> Int]

Text(word, upper, blank) ==
  [kind |-> "text", word |-> word, upper |-> upper, blank |-> blank]
Number(n) == [kind |-> "number", n |-> n]
Numeral(n) == [kind |-> "numeral", n |-> n]
Bool(b) == [kind |-> "bool", b |-> b]
List(items) == [kind |-> "list", items |-> items]
Instant(at) == [kind |-> "instant", at |-> at]

(* A text that reads as a date: "2024-01-15" (plain), with a time of day   *)
(* (timed), or a plain one with a T in it, as in "Tue, 16 Jan 2024".       *)
Date(form, day, second) ==
  [kind |-> "date", form |-> form, day |-> day, second |-> second]

None == [kind |-> "none"]      \* null
Absent == [kind |-> "absent"]  \* no such key
Bad == [kind |-> "bad"]        \* the validation raises

(* What a client can send for a field: the values of JSON.                 *)
Texts ==
  {t \in [kind : {"text"}, word : STRING, upper : BOOLEAN, blank : BOOLEAN] :
     t.word = "" => ~t.upper}
Dates ==
  [kind : {"date"}, form : {"plain", "timed", "worded"}, day : Int, second : 0 .. DaySeconds - 1]
Scalars ==
  Texts \cup Dates \cup [kind : {"number", "numeral"}, n : Int]
    \cup [kind : {"bool"}, b : BOOLEAN] \cup {None}
Values == Scalars \cup [kind : {"list"}, items : Seq(Scalars)]

IsText(v) == v.kind \in {"text", "numeral", "date"}
Blank(v) == v.kind = "text" /\ v.word = ""
Lower(v) == IF v.kind = "text" THEN [v EXCEPT !.upper = FALSE] ELSE v
Strip(v) == IF v.kind = "text" THEN [v EXCEPT !.blank = FALSE] ELSE v
Length(v) == IF v.kind = "text" THEN Len(v.word) + (IF v.blank THEN 2 ELSE 0)
             ELSE 1

-----------------------------------------------------------------------------
(* Dates.  dateutil also takes some numerals for dates without a time,     *)
(* "20240115", or "15" of this month.                                      *)
ReadsAsDate(v) == v.kind = "date" \/ (v.kind = "numeral" /\ v.n \in DOMAIN NumeralDay)
AsDate(v) == IF v.kind = "date" THEN v ELSE Date("plain", NumeralDay[v.n], 0)

(* Any T, colon, AM or PM counts as a time of day.                         *)
HasExplicitTime(d) == d.form \in {"timed", "worded"}

Start(d) == d.day * DaySeconds
End(d) == Start(d) + DaySeconds - 1

(* Fault: the operator does not matter.                                    *)
ParseAsStart(d, op) == IF HasExplicitTime(d) THEN Start(d) + d.second - Offset ELSE Start(d)

(* parse_datetime, with the operator of a filter or "" for an upload.  A   *)
(* date without a time is in UTC, one with a time in local time.           *)
ParseDatetime(d, op) ==
  IF HasExplicitTime(d) THEN Start(d) + d.second - Offset
  ELSE IF op \in {">", "<="} THEN End(d)
  ELSE Start(d)

-----------------------------------------------------------------------------
(* A field of a schema.  array_type is "" and max_length 0 when not given. *)
Field(name, type, array_type, max_length, required, user_defined) ==
  [name |-> name, type |-> type, array_type |-> array_type,
   max_length |-> max_length, required |-> required,
   user_defined |-> user_defined]

Numeric == {"number", "integer", "float"}
ArrayTypes == {"string", "boolean"} \cup Numeric
Types == {"string", "boolean", "datetime", "array"} \cup Numeric

(* SYSTEM_MANAGED_FIELDS: those every schema gets ...                      *)
Extracted == <<"page_number", "start_time", "end_time">>
SystemFields ==
  << Field("filename", "string", "", 0, FALSE, TRUE) >>
    \o [i \in DOMAIN Extracted |-> Field(Extracted[i], "integer", "", 0, FALSE, FALSE)]

(* ... those a filter may name although the schema lacks them ...          *)
Filterable == {"filename", "page_number"}

(* ... and the names nobody may take.                                      *)
Reserved == {"type", "subtype", "location"}

ValidField(f) ==
  /\ f.name \notin Reserved \cup {""}
  /\ f.type \in Types
  /\ f.type = "array" <=> f.array_type # ""
  /\ f.array_type \in ArrayTypes \cup {""}
  /\ f.max_length # 0 => f.type \in {"string", "array"} /\ f.max_length > 0

Names(schema) == {schema[i].name : i \in DOMAIN schema}
FieldNamed(schema, name) ==
  schema[CHOOSE i \in DOMAIN schema : schema[i].name = name]

(* MetadataSchema: names are unique.                                       *)
ValidSchema(schema) ==
  \A i, j \in DOMAIN schema : schema[i].name = schema[j].name => i = j

(* What create_collection stores for a request of fields: these, without   *)
(* the blanks around their names, and the system's that are not in it.     *)
(* The names are compared before the blanks are removed.                   *)
SchemaOf(request) ==
  LET named == {request[i].field.name :
                  i \in {j \in DOMAIN request : ~request[j].padded}}
      Missing(f) == f.name \notin named
  IN [i \in DOMAIN request |-> request[i].field] \o SelectSeq(SystemFields, Missing)

-----------------------------------------------------------------------------
(* The validators of the model class that is made from a schema.  Each     *)
(* returns the value that is stored, or Bad.                               *)
StringValue(f, v) ==
  CASE v = None \/ Blank(v) -> IF f.required THEN Bad ELSE None
    [] IsText(v) /\ ~Blank(v) -> Strip(Lower(v))
    [] OTHER -> Bad

DatetimeValue(v) ==
  IF ReadsAsDate(v) THEN Instant(ParseDatetime(AsDate(v), "")) ELSE Bad

Truths == [true |-> TRUE, false |-> FALSE, on |-> TRUE, off |-> FALSE]

BooleanValue(v) ==
  CASE v.kind = "bool" -> v
    [] v.kind = "text" /\ v.word \in DOMAIN Truths /\ ~v.blank -> Bool(Truths[v.word])
    [] v.kind \in {"number", "numeral"} /\ v.n \in {0, 2} -> Bool(v.n = 2)
    [] OTHER -> Bad

(* Numbers, also in texts, and true and false as 1 and 0; integers are     *)
(* whole.                                                                  *)
NumericValue(type, v) ==
  LET n == CASE v.kind \in {"number", "numeral"} -> v.n
             [] v.kind = "bool" -> IF v.b THEN 2 ELSE 0
             [] OTHER -> 0
  IN IF v.kind \notin {"number", "numeral", "bool"}
          \/ (type = "integer" /\ n % 2 # 0)
     THEN Bad ELSE Number(n)

ElementValue(type, v) ==
  CASE type = "string" -> IF IsText(v) THEN Lower(v) ELSE Bad
    [] type = "boolean" -> BooleanValue(v)
    [] OTHER -> NumericValue(type, v)

ArrayValue(f, v) ==
  IF v.kind = "none" THEN IF f.required THEN Bad ELSE None
  ELSE IF v.kind # "list" THEN Bad
  ELSE IF v.items = <<>> THEN IF f.required THEN Bad ELSE v
  ELSE LET items == [i \in DOMAIN v.items |-> ElementValue(f.array_type, v.items[i])]
       IN IF \E i \in DOMAIN items : items[i] = Bad THEN Bad ELSE List(items)

(* max_length of the field, or of the configuration.                       *)
MaxLength(f) ==
  IF f.max_length > 0 THEN f.max_length
  ELSE IF f.type = "string" THEN MaxString ELSE MaxArray

TooLong(f, v) ==
  \/ f.type = "string" /\ IsText(v) /\ Length(v) > MaxLength(f)
  \/ f.type = "array" /\ v.kind = "list" /\ Len(v.items) > MaxLength(f)

Validated(f, v) ==
  CASE f.type = "string"   -> StringValue(f, v)
    [] f.type = "datetime" -> DatetimeValue(v)
    [] f.type = "boolean"  -> BooleanValue(v)
    [] f.type = "array"    -> ArrayValue(f, v)
    [] f.type \in Numeric  -> IF v = None /\ ~f.required THEN None ELSE NumericValue(f.type, v)

(* An absent key skips the validators, a null does not.                    *)
FieldValue(f, v) ==
  IF v = Absent THEN IF f.required THEN Bad ELSE None
  ELSE IF TooLong(f, Validated(f, v)) THEN Bad ELSE Validated(f, v)

(* validate_and_normalize_metadata_values: other keys are forbidden.       *)
Normalized(schema, metadata) ==
  [n \in Names(schema) |->
     FieldValue(FieldNamed(schema, n),
                IF n \in DOMAIN metadata THEN metadata[n] ELSE Absent)]

ValidMetadata(schema, metadata) ==
  /\ DOMAIN metadata \subseteq Names(schema)
  /\ \A n \in Names(schema) : Normalized(schema, metadata)[n] # Bad

(* prepare_custom_metadata_dataframe: the name of the file as it is, and   *)
(* of the other fields that come with a file those that are not empty.     *)
(* What the system extracts itself is not written.                         *)
Written(schema, filename, values) ==
  LET Extract(n) == n \in Names(schema) /\ ~FieldNamed(schema, n).user_defined
      empty == {None, List(<<>>), Text("", FALSE, FALSE)}
      given == {n \in DOMAIN values : ~Extract(n) /\ values[n] \notin empty}
  IN [n \in given \cup {"filename"} |->
        IF n = "filename" THEN filename ELSE values[n]]
=============================================================================
