------------------------ MODULE CollectionInfoProofs ------------------------
(***************************************************************************)
(* Proofs about the table of collection information: the types, that an    *)
(* older entry never outlives a newer one, that with Milvus one server     *)
(* leaves at most one entry of metrics, and that between two requests the  *)
(* stored metrics and the catalog are those of the collection.             *)
(***************************************************************************)
EXTENDS CollectionInfo, FiniteSetTheorems, TLAPS

(* The part of a step that the entries depend on: r moves, and if it holds *)
(* the loop afterwards, it held it before or nobody else of its server did. *)
Moves(r) ==
  /\ op' \in [Requests -> Ops]
  /\ \A q \in Requests \ {r} : op'[q].at = op[q].at /\ op'[q].key = op[q].key
  /\ ~Awaits(r) \/ HasLoop(r) \/ op'[r].at \in {"ingest", "written", "done"}

LEMMA BeginsMoves ==
  ASSUME TypeOK, NEW r \in Requests, NEW ks \in SUBSET Keys, NEW o \in Ops,
         Begins(r, ks, o)
  PROVE  /\ Moves(r)
         /\ op'[r].at = o.at
         /\ op'[r].key = o.key
<1>1. [o EXCEPT !.keys = ks, !.alone = (Clash(r, ks) = {})] \in Ops
  BY DEF Ops
<1>2. \A q \in Requests : [op[q] EXCEPT !.alone = FALSE] \in Ops
  BY DEF TypeOK, Ops
<1>3. op' \in [Requests -> Ops]
  BY <1>1, <1>2 DEF Begins, TypeOK
<1>4. op'[r] = [o EXCEPT !.keys = ks, !.alone = (Clash(r, ks) = {})]
  BY DEF Begins
<1>5. op'[r].at = o.at /\ op'[r].key = o.key
  BY <1>4 DEF Ops
<1>6. ASSUME NEW q \in Requests \ {r}
      PROVE  op'[q].at = op[q].at /\ op'[q].key = op[q].key
  <2>1. op[q] \in Ops
    BY DEF TypeOK
  <2>2. op'[q] = IF q \in Clash(r, ks) THEN [op[q] EXCEPT !.alone = FALSE]
                 ELSE op[q]
    BY DEF Begins
  <2> QED
    BY <2>1, <2>2 DEF Ops
<1>7. HasLoop(r)
  BY DEF Begins
<1> QED
  BY <1>3, <1>5, <1>6, <1>7 DEF Moves

LEMMA GoesMoves ==
  ASSUME TypeOK, NEW r \in Requests, NEW o \in Ops, Goes(r, o),
         ~Awaits(r) \/ HasLoop(r) \/ o.at \in {"ingest", "written", "done"}
  PROVE  Moves(r) /\ op'[r] = o
BY DEF TypeOK, Goes, Moves

LEMMA FreshTypes ==
  /\ Fresh \in Ops
  /\ Done \in Ops
  /\ Done.at = "done"
BY DEF Fresh, Done, Ops, Phases, Keys

LEMMA DocsFinite ==
  ASSUME NEW ds \in SUBSET Docs
  PROVE  Cardinality(ds) \in Nat
BY InfoAssumption, FS_Subset, FS_CardinalityType

LEMMA ShownEntries ==
  ASSUME TypeOK, NEW k \in Keys
  PROVE  /\ Shown(k) \subseteq snap[k]
         /\ \A e \in Shown(k) : e \in Entries
BY DEF TypeOK, Shown, Newest

-----------------------------------------------------------------------------
(* The inductive invariant.                                                *)

(* Entries are numbered up to count, and the last one of a key is live if  *)
(* any entry of the key is.                                                *)
Numbered ==
  \A k \in Keys :
    /\ last[k] <= count
    /\ \A e \in snap[k] : e.no <= count
    /\ \A e \in live[k] : e.no <= last[k]
    /\ live[k] # {} => \E e \in live[k] : e.no = last[k]

(* What a search does not see yet is newer than all that it sees.          *)
Ordered ==
  \A k \in Keys : \A e \in live[k] \ snap[k], s \in snap[k] : s.no < e.no

(* Milvus and LanceDB show every search what is live.                      *)
Current == backend # "elastic" => snap = live

(* One request of a server at a time has its event loop.                   *)
OneLoop ==
  \A r \in Requests : ~Awaits(r) => HasLoop(r)

(* A request that is about to insert has deleted the entries of its server.*)
Cleared ==
  /\ \A r \in Requests : op[r].at = "get" => op[r].key = "catalog"
  /\ backend = "milvus" =>
       \A r \in Requests : op[r].at = "insert" /\ op[r].key = "collection" =>
         \A e \in live["collection"] : e.by # ServerOf[r]

IInv ==
  /\ TypeOK
  /\ Numbered
  /\ Ordered
  /\ Current
  /\ OneLoop
  /\ Cleared
  /\ OneEntryPerServer

-----------------------------------------------------------------------------
LEMMA InitIInv == Init => IInv
<1> SUFFICES ASSUME Init PROVE IInv
  OBVIOUS
<1>1. TypeOK
  BY FreshTypes DEF Init, TypeOK, Entries
<1>2. Numbered /\ Ordered /\ Current /\ OneEntryPerServer
  BY DEF Init, Numbered, Ordered, Current, OneEntryPerServer, Keys
<1>3. OneLoop /\ Cleared
  BY DEF Init, OneLoop, Cleared, Awaits, Fresh
<1> QED
  BY <1>1, <1>2, <1>3 DEF IInv

LEMMA Loops ==
  ASSUME IInv, NEW r \in Requests, Moves(r)
  PROVE  OneLoop'
<1> SUFFICES ASSUME NEW p \in Requests, ~Awaits(p)',
                    NEW q \in Requests \ {p}, ServerOf[q] = ServerOf[p]
             PROVE  Awaits(q)'
  BY DEF OneLoop, HasLoop
<1>1. CASE p = r
  <2>1. Awaits(q)' <=> Awaits(q)
    BY <1>1 DEF Moves, Awaits
  <2>2. HasLoop(r)
    BY <1>1 DEF Moves, IInv, OneLoop, Awaits
  <2> QED
    BY <1>1, <2>1, <2>2 DEF HasLoop
<1>2. CASE p # r
  <2>1. ~Awaits(p) /\ HasLoop(p)
    BY <1>2 DEF Moves, Awaits, IInv, OneLoop
  <2>2. Awaits(q)
    BY <2>1 DEF HasLoop
  <2>3. CASE q # r
    BY <2>2, <2>3 DEF Moves, Awaits
  <2>4. CASE q = r
    <3>1. ~HasLoop(r)
      BY <1>2, <2>1, <2>4 DEF HasLoop
    <3> QED
      BY <2>2, <2>4, <3>1 DEF Moves, Awaits
  <2> QED
    BY <2>3, <2>4
<1> QED
  BY <1>1, <1>2

(* A step that leaves the table alone.                                     *)
LEMMA StillTable ==
  ASSUME IInv, NEW r \in Requests, Moves(r), UNCHANGED <<setting, table>>,
         exists' \in BOOLEAN, docs' \in SUBSET Docs, want' \in SUBSET Fields,
         sound' \in [Keys -> BOOLEAN],
         op'[r].at = "get" => op'[r].key = "catalog",
         op'[r].at = "insert" => op'[r].key = "catalog"
  PROVE  IInv'
<1>1. OneLoop'
  BY Loops
<1>2. (Numbered /\ Ordered /\ Current /\ OneEntryPerServer)'
  BY DEF setting, table, IInv, Numbered, Ordered, Current, OneEntryPerServer
<1>3. Cleared'
  BY DEF setting, table, IInv, Cleared, Moves
<1>4. TypeOK'
  BY DEF setting, table, IInv, TypeOK, Moves
<1> QED
  BY <1>1, <1>2, <1>3, <1>4 DEF IInv

-----------------------------------------------------------------------------
(* The requests begin.                                                     *)

LEMMA CreateKeeps == ASSUME IInv, NEW r \in Requests, Create(r) PROVE IInv'
<1> DEFINE o == [Fresh EXCEPT !.at = "create"]
<1>1. o \in Ops /\ o.at = "create"
  BY FreshTypes DEF Ops, Phases, Fresh
<1>2. Begins(r, {"catalog"}, o) /\ TypeOK
  BY DEF Create, IInv
<1>3. Moves(r) /\ op'[r].at = "create"
  BY <1>1, <1>2, BeginsMoves DEF Keys
<1> QED
  BY <1>3, StillTable DEF Create, IInv, TypeOK

LEMMA CreateBareKeeps == ASSUME IInv, NEW r \in Requests, CreateBare(r) PROVE IInv'
<1>1. Moves(r) /\ op'[r] = Done
  BY FreshTypes, GoesMoves DEF CreateBare, IInv
<1> QED
  BY <1>1, FreshTypes, StillTable DEF CreateBare, IInv, TypeOK

LEMMA PatchKeeps == ASSUME IInv, NEW r \in Requests, Patch(r) PROVE IInv'
<1> PICK f \in Fields :
      Begins(r, {"catalog"}, [Fresh EXCEPT !.at = "get", !.key = "catalog",
                                          !.fields = {f}])
  BY DEF Patch
<1> DEFINE o == [Fresh EXCEPT !.at = "get", !.key = "catalog", !.fields = {f}]
<1>1. o \in Ops /\ o.at = "get" /\ o.key = "catalog"
  BY FreshTypes DEF Ops, Phases, Fresh, Keys
<1>2. Begins(r, {"catalog"}, o) /\ TypeOK
  BY DEF IInv
<1> HIDE DEF o
<1>3. Moves(r) /\ op'[r].at = "get" /\ op'[r].key = "catalog"
  BY <1>1, <1>2, BeginsMoves DEF Keys
<1> QED
  BY <1>3, StillTable DEF Patch, IInv, TypeOK

LEMMA UploadKeeps == ASSUME IInv, NEW r \in Requests, Upload(r) PROVE IInv'
<1> PICK ds \in SUBSET Docs :
      IF exists
      THEN Begins(r, {"collection"}, [Fresh EXCEPT !.at = "ingest", !.docs = ds])
      ELSE Begins(r, Keys, [Fresh EXCEPT !.at = "create", !.docs = ds])
  BY DEF Upload
<1>1. ASSUME NEW a \in {"ingest", "create"}
      PROVE  /\ [Fresh EXCEPT !.at = a, !.docs = ds] \in Ops
             /\ [Fresh EXCEPT !.at = a, !.docs = ds].at = a
  BY FreshTypes DEF Ops, Phases, Fresh
<1>2. Moves(r) /\ op'[r].at \in {"ingest", "create"}
  <2>1. CASE exists
    BY <1>1, <2>1, BeginsMoves DEF IInv, Keys
  <2>2. CASE ~exists
    BY <1>1, <2>2, BeginsMoves DEF IInv, Keys
  <2> QED
    BY <2>1, <2>2
<1> QED
  BY <1>2, StillTable DEF Upload, IInv, TypeOK

LEMMA DeleteKeeps == ASSUME IInv, NEW r \in Requests, Delete(r) PROVE IInv'
<1> DEFINE o == [Fresh EXCEPT !.at = "count", !.recount = TRUE]
<1>1. o \in Ops /\ o.at = "count"
  BY FreshTypes DEF Ops, Phases, Fresh
<1>2. Begins(r, {"collection"}, o) /\ TypeOK
  BY DEF Delete, IInv
<1> HIDE DEF o
<1>3. Moves(r) /\ op'[r].at = "count"
  BY <1>1, <1>2, BeginsMoves DEF Keys
<1>4. docs' \in SUBSET Docs
  BY DEF Delete, IInv, TypeOK
<1> QED
  BY <1>3, <1>4, StillTable DEF Delete, IInv, TypeOK

LEMMA DropKeeps == ASSUME IInv, NEW r \in Requests, Drop(r) PROVE IInv'
<1> DEFINE o == [Fresh EXCEPT !.at = "purge"]
<1>1. o \in Ops /\ o.at = "purge"
  BY FreshTypes DEF Ops, Phases, Fresh
<1>2. Begins(r, Keys, o) /\ TypeOK
  BY DEF Drop, IInv
<1> HIDE DEF o
<1>3. Moves(r) /\ op'[r].at = "purge"
  BY <1>1, <1>2, BeginsMoves
<1> QED
  BY <1>3, StillTable DEF Drop, DropCollection, IInv, TypeOK

-----------------------------------------------------------------------------
(* The steps up to the delete.                                             *)

LEMMA CreatedKeeps == ASSUME IInv, NEW r \in Requests, Created(r) PROVE IInv'
<1> DEFINE o == [op[r] EXCEPT !.at = AddPhase("catalog"), !.key = "catalog"]
<1>0. op[r] \in Ops /\ AddPhase("catalog") \in {"insert", "remove"}
  BY DEF IInv, TypeOK, AddPhase
<1>1. o \in Ops /\ o.key = "catalog" /\ o.at \in {"insert", "remove"}
  BY <1>0 DEF Ops, Phases, Keys
<1>2. Goes(r, o) /\ TypeOK /\ ~Awaits(r)
  BY DEF Created, IInv, Awaits
<1> HIDE DEF o
<1>3. Moves(r) /\ op'[r] = o
  BY <1>1, <1>2, GoesMoves
<1> QED
  BY <1>1, <1>3, StillTable DEF Created, CreateCollection, IInv, TypeOK

LEMMA GetKeeps == ASSUME IInv, NEW r \in Requests, Get(r) PROVE IInv'
<1> PICK es \in SUBSET Shown("catalog") :
      Goes(r, [op[r] EXCEPT !.at = AddPhase("catalog"),
                            !.fields = @ \cup UNION {e.fields : e \in es},
                            !.right = (es = Newest(live["catalog"]))])
  BY DEF Get, Merged
<1> DEFINE fs == op[r].fields \cup UNION {e.fields : e \in es}
<1> DEFINE o == [op[r] EXCEPT !.at = AddPhase("catalog"), !.fields = fs,
                              !.right = (es = Newest(live["catalog"]))]
<1>1. fs \in SUBSET Fields
  BY ShownEntries DEF IInv, TypeOK, Ops, Entries, Keys
<1>2. op[r] \in Ops /\ op[r].key = "catalog"
  BY DEF Get, IInv, TypeOK, Cleared
<1>3. Goes(r, o) /\ TypeOK /\ ~Awaits(r)
  BY DEF Get, IInv, Awaits
<1> HIDE DEF fs
<1>4. o \in Ops /\ o.key = "catalog" /\ o.at \in {"insert", "remove"}
  BY <1>1, <1>2 DEF Ops, Phases, AddPhase
<1> HIDE DEF o
<1>5. Moves(r) /\ op'[r] = o
  BY <1>3, <1>4, GoesMoves
<1> QED
  BY <1>4, <1>5, StillTable DEF Get, IInv, TypeOK

LEMMA WriteKeeps == ASSUME IInv, NEW r \in Requests, Write(r) PROVE IInv'
<1> PICK ds \in SUBSET op[r].docs :
      /\ docs' = docs \cup ds
      /\ Goes(r, [op[r] EXCEPT !.at = "written", !.docs = ds])
  BY DEF Write, WriteToIndex
<1> DEFINE o == [op[r] EXCEPT !.at = "written", !.docs = ds]
<1>1. o \in Ops /\ o.at = "written"
  BY DEF IInv, TypeOK, Ops, Phases
<1>2. docs' \in SUBSET Docs
  BY DEF IInv, TypeOK, Ops
<1> HIDE DEF o
<1>3. Moves(r) /\ op'[r] = o
  BY <1>1, GoesMoves DEF IInv, o
<1> QED
  BY <1>1, <1>2, <1>3, StillTable DEF Write, WriteToIndex, IInv, TypeOK

LEMMA ReportKeeps == ASSUME IInv, NEW r \in Requests, Report(r) PROVE IInv'
<1> DEFINE n == Cardinality(Counted(op[r].docs))
<1> DEFINE o == [op[r] EXCEPT !.at = "aggregate", !.key = "collection", !.files = n,
                    !.right = (Counted(op[r].docs) = op[r].docs), !.docs = {}]
<1>1. n \in Nat
  BY DocsFinite DEF IInv, TypeOK, Ops, Counted
<1>2. Goes(r, o) /\ HasLoop(r) /\ TypeOK
  BY DEF Report, IInv
<1> HIDE DEF n
<1>3. o \in Ops /\ o.at = "aggregate"
  <2>1. op[r] \in Ops /\ (Counted(op[r].docs) = op[r].docs) \in BOOLEAN
    BY DEF IInv, TypeOK
  <2> QED
    BY <1>1, <2>1 DEF Ops, Phases, Keys
<1> HIDE DEF o
<1>4. Moves(r) /\ op'[r] = o
  BY <1>2, <1>3, GoesMoves
<1> QED
  BY <1>3, <1>4, StillTable DEF Report, IInv, TypeOK

LEMMA UnreportedKeeps == ASSUME IInv, NEW r \in Requests, Unreported(r) PROVE IInv'
<1>1. Moves(r) /\ op'[r] = Done
  BY FreshTypes, GoesMoves DEF Unreported, IInv
<1>2. sound' \in [Keys -> BOOLEAN]
  BY DEF Unreported, IInv, TypeOK
<1> QED
  BY <1>1, <1>2, FreshTypes, StillTable DEF Unreported, IInv, TypeOK

LEMMA AggregateKeeps == ASSUME IInv, NEW r \in Requests, Aggregate(r) PROVE IInv'
<1>1. op[r] \in Ops /\ ~Awaits(r) /\ TypeOK
  BY DEF Aggregate, IInv, TypeOK, Awaits
<1>0. \A es : AddsRight(r, es) \in BOOLEAN
  BY DEF AddsRight
<1>2. PICK n \in Nat, b \in BOOLEAN :
        Goes(r, [op[r] EXCEPT !.at = "remove", !.files = n, !.right = b])
  <2>1. CASE \E e \in Shown("collection") :
          Goes(r, [op[r] EXCEPT !.at = "remove", !.files = Aggregated(@, e),
                     !.right = @ /\ AddsRight(r, {e})])
    <3> PICK e \in Shown("collection") :
          Goes(r, [op[r] EXCEPT !.at = "remove", !.files = Aggregated(@, e),
                     !.right = @ /\ AddsRight(r, {e})])
      BY <2>1
    <3>1. e \in Entries
      BY <1>1, ShownEntries DEF Keys
    <3>2. Aggregated(op[r].files, e) \in Nat
      BY <1>1, <3>1 DEF Ops, Entries, Aggregated
    <3>3. (op[r].right /\ AddsRight(r, {e})) \in BOOLEAN
      OBVIOUS
    <3> QED
      BY <3>2, <3>3
  <2>2. CASE Goes(r, [op[r] EXCEPT !.at = "remove", !.right = @ /\ AddsRight(r, {})])
    <3>1. op[r].files \in Nat
      BY <1>1 DEF Ops
    <3> DEFINE c == AddsRight(r, {})
    <3> HIDE DEF c
    <3>2. [op[r] EXCEPT !.at = "remove", !.right = @ /\ c]
            = [op[r] EXCEPT !.at = "remove", !.files = op[r].files,
                            !.right = op[r].right /\ c]
      BY <1>1 DEF Ops
    <3> QED
      BY <2>2, <3>1, <3>2 DEF c
  <2> QED
    BY <2>1, <2>2 DEF Aggregate
<1> DEFINE o == [op[r] EXCEPT !.at = "remove", !.files = n, !.right = b]
<1>3. o \in Ops /\ o.at = "remove"
  BY <1>1 DEF Ops, Phases
<1>4. Goes(r, o)
  BY <1>2
<1> HIDE DEF o
<1>5. Moves(r) /\ op'[r] = o
  BY <1>1, <1>3, <1>4, GoesMoves
<1> QED
  BY <1>3, <1>5, StillTable DEF Aggregate, IInv, TypeOK

LEMMA RecountKeeps == ASSUME IInv, NEW r \in Requests, Recount(r) PROVE IInv'
<1> PICK ds \in Listings :
      Goes(r, [op[r] EXCEPT
        !.at = IF backend = "lancedb" THEN "aggregate" ELSE "remove",
        !.files = Cardinality(ds),
        !.right = (ds = docs)])
  BY DEF Recount
<1> DEFINE n == Cardinality(ds)
           o == [op[r] EXCEPT
                  !.at = IF backend = "lancedb" THEN "aggregate" ELSE "remove",
                  !.files = n,
                  !.right = (ds = docs)]
<1>1. n \in Nat
  <2>1. ds \in SUBSET Docs
    BY DEF IInv, TypeOK, Listings
  <2> QED
    BY <2>1, DocsFinite
<1>2. Goes(r, o) /\ ~Awaits(r) /\ TypeOK
  BY DEF Recount, IInv, Awaits
<1> HIDE DEF n
<1>3. o \in Ops /\ o.at \in {"aggregate", "remove"}
  BY <1>1 DEF IInv, TypeOK, Ops, Phases
<1> HIDE DEF o
<1>4. Moves(r) /\ op'[r] = o
  BY <1>2, <1>3, GoesMoves
<1> QED
  BY <1>3, <1>4, StillTable DEF Recount, IInv, TypeOK

LEMMA BreakKeeps == ASSUME IInv, NEW r \in Requests, Break(r) PROVE IInv'
<1>1. Moves(r) /\ op'[r] = Done
  BY FreshTypes, GoesMoves DEF Break, IInv
<1>2. sound' \in [Keys -> BOOLEAN]
  BY DEF Break
<1> QED
  BY <1>1, <1>2, FreshTypes, StillTable DEF Break, IInv, TypeOK

-----------------------------------------------------------------------------
(* The steps that write the table.                                         *)

(* Deleting what a search sees, of any of the keys.                        *)
LEMMA DeletesKeep ==
  ASSUME IInv, NEW ks \in SUBSET Keys,
         live' = [k \in Keys |-> IF k \in ks THEN live[k] \ snap[k] ELSE live[k]],
         snap' = IF backend # "elastic" THEN live' ELSE snap,
         UNCHANGED <<setting, count, last>>
  PROVE  /\ live' \in [Keys -> SUBSET Entries]
         /\ snap' \in [Keys -> SUBSET Entries]
         /\ (Numbered /\ Ordered /\ Current /\ OneEntryPerServer)'
         /\ \A k \in Keys : live'[k] \subseteq live[k]
         /\ backend = "milvus" => \A k \in ks : live'[k] = {}
<1> USE DEF IInv
<1>1. live' \in [Keys -> SUBSET Entries] /\ \A k \in Keys : live'[k] \subseteq live[k]
  BY DEF TypeOK
<1>2. snap' \in [Keys -> SUBSET Entries]
  BY <1>1 DEF TypeOK
<1>3. Current'
  BY DEF setting, Current
<1>4. OneEntryPerServer'
  BY <1>1 DEF setting, OneEntryPerServer, Keys
<1>5. Ordered'
  <2> SUFFICES ASSUME NEW k \in Keys, NEW e \in live'[k] \ snap'[k], NEW s \in snap'[k]
               PROVE  s.no < e.no
    BY DEF Ordered
  <2>1. snap' = snap /\ e \in live[k]
    BY <1>1
  <2> QED
    BY <2>1 DEF Ordered
<1>6. Numbered'
  <2> SUFFICES ASSUME NEW k \in Keys
               PROVE  /\ last[k] <= count
                      /\ \A e \in snap'[k] : e.no <= count
                      /\ \A e \in live'[k] : e.no <= last[k]
                      /\ live'[k] # {} => \E e \in live'[k] : e.no = last[k]
    BY DEF Numbered
  <2>1. last[k] \in Nat /\ count \in Nat
    BY DEF TypeOK
  <2>2. last[k] <= count /\ \A e \in live'[k] : e.no <= last[k]
    BY <1>1 DEF Numbered
  <2>3. \A e \in snap'[k] : e.no <= count
    <3>1. CASE snap' = live'
      BY <1>2, <2>1, <2>2, <3>1 DEF Entries
    <3>2. CASE snap' = snap
      BY <3>2 DEF Numbered
    <3> QED
      BY <3>1, <3>2
  <2>4. ASSUME live'[k] # {} PROVE \E e \in live'[k] : e.no = last[k]
    <3>1. PICK f \in live[k] : f.no = last[k]
      BY <1>1, <2>4 DEF Numbered
    <3>2. PICK e \in live'[k] : TRUE
      BY <2>4
    <3>3. CASE f \in live'[k]
      BY <3>1, <3>3
    <3>4. CASE f \notin live'[k]
      <4>1. f \in snap[k] /\ e \in live[k] \ snap[k]
        BY <3>1, <3>2, <3>4
      <4>2. f.no < e.no /\ e.no <= last[k]
        BY <4>1 DEF Ordered, Numbered
      <4>3. e.no \in Nat
        BY <4>1 DEF TypeOK, Entries
      <4> QED
        BY <2>1, <3>1, <4>2, <4>3
    <3> QED
      BY <3>3, <3>4
  <2> QED
    BY <2>2, <2>3, <2>4
<1>7. backend = "milvus" => \A k \in ks : live'[k] = {}
  BY DEF Current
<1> QED
  BY <1>1, <1>2, <1>3, <1>4, <1>5, <1>6, <1>7

LEMMA RemoveKeeps == ASSUME IInv, NEW r \in Requests, Remove(r) PROVE IInv'
<1> DEFINE o == [op[r] EXCEPT !.at = "insert"]
<1>1. op[r] \in Ops
  BY DEF IInv, TypeOK
<1>2. o \in Ops /\ o.at = "insert" /\ o.key = op[r].key
  BY <1>1 DEF Ops, Phases
<1>3. Goes(r, o) /\ ~Awaits(r) /\ TypeOK
  BY DEF Remove, IInv, Awaits
<1>4. PICK ks \in SUBSET Keys :
        /\ live' = [k \in Keys |-> IF k \in ks THEN live[k] \ snap[k] ELSE live[k]]
        /\ backend = "milvus" => op[r].key \in ks
  <2>1. CASE live' = [live EXCEPT ![op[r].key] = @ \ snap[op[r].key]]
    <3>1. {op[r].key} \in SUBSET Keys
      BY <1>1 DEF Ops
    <3>2. live' = [k \in Keys |-> IF k \in {op[r].key} THEN live[k] \ snap[k]
                                  ELSE live[k]]
      BY <2>1 DEF IInv, TypeOK
    <3> QED
      BY <3>1, <3>2
  <2>2. CASE RemoveMayFail /\ live' = live
    <3> WITNESS {} \in SUBSET Keys
    <3> QED
      BY <2>2 DEF RemoveMayFail, IInv, TypeOK
  <2> QED
    BY <2>1, <2>2 DEF Remove
<1> HIDE DEF o
<1>5. Moves(r) /\ op'[r] = o
  BY <1>2, <1>3, GoesMoves
<1>6. /\ live' \in [Keys -> SUBSET Entries]
      /\ snap' \in [Keys -> SUBSET Entries]
      /\ (Numbered /\ Ordered /\ Current /\ OneEntryPerServer)'
      /\ \A k \in Keys : live'[k] \subseteq live[k]
      /\ backend = "milvus" => \A k \in ks : live'[k] = {}
  BY <1>4, DeletesKeep DEF Remove
<1>7. OneLoop'
  BY <1>5, Loops
<1>8. TypeOK'
  BY <1>5, <1>6 DEF Remove, IInv, TypeOK, Moves, setting
<1>9. Cleared'
  <2>1. \A q \in Requests : op'[q].at = "get" => op'[q].key = "catalog"
    BY <1>2, <1>5 DEF Moves, IInv, Cleared
  <2>2. ASSUME backend' = "milvus", NEW q \in Requests,
               op'[q].at = "insert", op'[q].key = "collection",
               NEW e \in live'["collection"]
        PROVE  e.by # ServerOf[q]
    <3>1. backend = "milvus"
      BY <2>2 DEF Remove, setting
    <3>2. CASE q = r
      <4>1. "collection" \in ks
        BY <1>2, <1>4, <1>5, <2>2, <3>1, <3>2
      <4> QED
        BY <1>6, <2>2, <3>1, <4>1
    <3>3. CASE q # r
      BY <1>5, <1>6, <2>2, <3>1, <3>3 DEF Moves, IInv, Cleared, Keys
    <3> QED
      BY <3>2, <3>3
  <2> QED
    BY <2>1, <2>2 DEF Cleared
<1> QED
  BY <1>6, <1>7, <1>8, <1>9 DEF IInv

LEMMA PurgeKeeps == ASSUME IInv, NEW r \in Requests, Purge(r) PROVE IInv'
<1>1. Moves(r) /\ op'[r] = Done
  BY FreshTypes, GoesMoves DEF Purge, IInv
<1>2. PICK ks \in SUBSET Keys :
        live' = [k \in Keys |-> IF k \in ks THEN live[k] \ snap[k] ELSE live[k]]
  <2>1. CASE live' = [k \in Keys |-> live[k] \ snap[k]]
    <3> WITNESS Keys \in SUBSET Keys
    <3> QED
      BY <2>1
  <2>2. CASE live' = live
    <3> WITNESS {} \in SUBSET Keys
    <3> QED
      BY <2>2 DEF IInv, TypeOK
  <2> QED
    BY <2>1, <2>2 DEF Purge
<1>3. /\ live' \in [Keys -> SUBSET Entries]
      /\ snap' \in [Keys -> SUBSET Entries]
      /\ (Numbered /\ Ordered /\ Current /\ OneEntryPerServer)'
      /\ \A k \in Keys : live'[k] \subseteq live[k]
  BY <1>2, DeletesKeep DEF Purge
<1>4. OneLoop'
  BY <1>1, Loops
<1>5. sound' \in [Keys -> BOOLEAN]
  BY DEF Purge, IInv, TypeOK, Ops
<1>6. TypeOK'
  BY <1>1, <1>3, <1>5 DEF Purge, IInv, TypeOK, Moves, setting
<1>7. Cleared'
  BY <1>1, <1>3, FreshTypes DEF Purge, IInv, Cleared, Moves, setting, Keys
<1> QED
  BY <1>3, <1>4, <1>6, <1>7 DEF IInv

LEMMA InsertKeeps == ASSUME IInv, NEW r \in Requests, Insert(r) PROVE IInv'
<1> USE DEF IInv
<1> DEFINE k == op[r].key
           e == [no |-> count + 1, by |-> ServerOf[r], files |-> op[r].files,
                 fields |-> op[r].fields]
           o == IF op[r].docs = {} THEN Done
                ELSE [op[r] EXCEPT !.at = "ingest", !.keys = {"collection"}]
<1>1. op[r] \in Ops /\ k \in Keys /\ count \in Nat
  BY DEF TypeOK, Ops
<1>2. e \in Entries /\ e.no = count + 1 /\ e.by = ServerOf[r]
  BY <1>1, InfoAssumption DEF Entries, Ops
<1>3. o \in Ops /\ o.at \in {"ingest", "done"}
  BY <1>1, FreshTypes DEF Ops, Phases, Keys
<1>4. /\ Goes(r, o)
      /\ count' = count + 1
      /\ live' = [live EXCEPT ![k] = @ \cup {e}]
      /\ snap' = live' \/ (snap' = snap /\ backend = "elastic")
      /\ last' = [last EXCEPT ![k] = count + 1]
      /\ UNCHANGED <<setting, exists, docs>>
      /\ op[r].at = "insert"
  BY DEF Insert
<1>5. want' \in SUBSET Fields /\ sound' \in [Keys -> BOOLEAN]
  <2>1. want' \in SUBSET Fields
    BY <1>1 DEF Insert, TypeOK, Ops
  <2>2. (op[r].alone /\ op[r].right /\ ~Doubles(k) /\ (op[r].recount \/ sound[k]))
          \in BOOLEAN
    OBVIOUS
  <2> QED
    BY <2>1, <2>2 DEF Insert, TypeOK
<1> HIDE DEF e, o
<1>6. Moves(r) /\ op'[r] = o
  BY <1>3, <1>4, GoesMoves
<1>7. OneLoop'
  BY <1>6, Loops
<1>8. live' \in [Keys -> SUBSET Entries] /\ snap' \in [Keys -> SUBSET Entries]
  BY <1>1, <1>2, <1>4 DEF TypeOK
<1>9. TypeOK'
  BY <1>1, <1>4, <1>5, <1>6, <1>8 DEF TypeOK, Moves, setting
<1>10. \A j \in Keys : \A f \in live[j] \cup snap[j] : f.no \in Nat /\ f.no <= count
  BY <1>1 DEF TypeOK, Numbered, Entries
<1>11. Numbered'
  <2> SUFFICES ASSUME NEW j \in Keys
               PROVE  /\ last'[j] <= count'
                      /\ \A f \in snap'[j] : f.no <= count'
                      /\ \A f \in live'[j] : f.no <= last'[j]
                      /\ live'[j] # {} => \E f \in live'[j] : f.no = last'[j]
    BY DEF Numbered
  <2>1. last[j] \in Nat
    BY DEF TypeOK
  <2>2. \A f \in snap'[j] : f.no <= count'
    <3>1. \A f \in live[j] \cup snap[j] \cup {e} : f.no <= count + 1
      BY <1>1, <1>2, <1>10
    <3>2. snap'[j] \subseteq live[j] \cup snap[j] \cup {e}
      BY <1>4 DEF TypeOK
    <3> QED
      BY <1>4, <3>1, <3>2
  <2>3. CASE j = k
    <3>1. last'[j] = count + 1 /\ live'[j] = live[j] \cup {e}
      BY <1>1, <1>4, <2>3 DEF TypeOK
    <3>2. \A f \in live'[j] : f.no <= last'[j]
      BY <1>1, <1>2, <1>10, <3>1
    <3>3. e \in live'[j] /\ e.no = last'[j]
      BY <1>2, <3>1
    <3> QED
      BY <1>1, <1>4, <2>2, <3>1, <3>2, <3>3
  <2>4. CASE j # k
    <3>1. last'[j] = last[j] /\ live'[j] = live[j]
      BY <1>4, <2>4 DEF TypeOK
    <3> QED
      BY <1>1, <1>4, <2>1, <2>2, <3>1 DEF Numbered
  <2> QED
    BY <2>3, <2>4
<1>12. Ordered'
  <2> SUFFICES ASSUME NEW j \in Keys, NEW f \in live'[j] \ snap'[j], NEW s \in snap'[j]
               PROVE  s.no < f.no
    BY DEF Ordered
  <2>1. snap' = snap
    BY <1>4
  <2>2. f \in live[j] \/ f = e
    BY <1>1, <1>4 DEF TypeOK
  <2>3. CASE f \in live[j]
    BY <2>1, <2>3 DEF Ordered
  <2>4. CASE f = e
    BY <1>1, <1>2, <1>10, <2>1, <2>4
  <2> QED
    BY <2>2, <2>3, <2>4
<1>13. Current'
  BY <1>4 DEF setting, Current
<1>14. OneEntryPerServer'
  <2> SUFFICES ASSUME backend = "milvus", NEW f \in live'["collection"],
                      NEW g \in live'["collection"], f.by = g.by
               PROVE  f = g
    BY <1>4 DEF setting, OneEntryPerServer
  <2>1. CASE k = "collection"
    <3>1. live'["collection"] = live["collection"] \cup {e}
      BY <1>4, <2>1 DEF TypeOK, Keys
    <3>2. \A h \in live["collection"] : h.by # ServerOf[r]
      BY <1>4, <2>1 DEF Cleared
    <3> QED
      BY <1>2, <3>1, <3>2 DEF OneEntryPerServer
  <2>2. CASE k # "collection"
    BY <1>4, <2>2 DEF TypeOK, Keys, OneEntryPerServer
  <2> QED
    BY <2>1, <2>2
<1>15. Cleared'
  <2>1. \A q \in Requests : op'[q].at = "get" => op'[q].key = "catalog"
    BY <1>3, <1>6 DEF Moves, Cleared
  <2>2. ASSUME backend' = "milvus", NEW q \in Requests,
               op'[q].at = "insert", op'[q].key = "collection",
               NEW f \in live'["collection"]
        PROVE  f.by # ServerOf[q]
    <3>1. backend = "milvus" /\ q # r
      BY <1>3, <1>4, <1>6, <2>2 DEF setting
    <3>2. op[q].at = "insert" /\ op[q].key = "collection"
      BY <1>6, <2>2, <3>1 DEF Moves
    <3>3. ServerOf[q] # ServerOf[r]
      BY <1>4, <3>1, <3>2 DEF OneLoop, HasLoop, Awaits
    <3>4. f \in live["collection"] \/ f = e
      BY <1>1, <1>4, <2>2 DEF TypeOK, Keys
    <3> QED
      BY <1>2, <3>1, <3>2, <3>3, <3>4 DEF Cleared
  <2> QED
    BY <2>1, <2>2 DEF Cleared
<1> QED
  BY <1>7, <1>9, <1>11, <1>12, <1>13, <1>14, <1>15

LEMMA RefreshKeeps == ASSUME IInv, Refresh PROVE IInv'
<1> USE DEF IInv, Refresh
<1>1. TypeOK'
  BY DEF TypeOK, setting
<1>2. Numbered'
  <2>1. \A k \in Keys : last[k] \in Nat /\ count \in Nat /\ \A e \in live[k] : e.no \in Nat
    BY DEF TypeOK, Entries
  <2> QED
    BY <2>1 DEF Numbered
<1>3. (Ordered /\ Current /\ OneEntryPerServer)'
  BY DEF Ordered, Current, OneEntryPerServer, setting
<1>4. (OneLoop /\ Cleared)'
  BY DEF OneLoop, HasLoop, Awaits, Cleared, setting
<1> QED
  BY <1>1, <1>2, <1>3, <1>4

LEMMA NextIInv == IInv /\ [Next]_vars => IInv'
<1> SUFFICES ASSUME IInv, [Next]_vars PROVE IInv'
  OBVIOUS
<1>1. ASSUME NEW r \in Requests,
             \/ Create(r) \/ CreateBare(r) \/ Created(r) \/ Patch(r) \/ Get(r)
             \/ Upload(r) \/ Write(r) \/ Report(r) \/ Unreported(r) \/ Aggregate(r)
             \/ Delete(r) \/ Recount(r) \/ Remove(r) \/ Insert(r)
             \/ Drop(r) \/ Purge(r) \/ Break(r)
      PROVE  IInv'
  BY <1>1, CreateKeeps, CreateBareKeeps, CreatedKeeps, PatchKeeps, GetKeeps,
     UploadKeeps, WriteKeeps, ReportKeeps, UnreportedKeeps, AggregateKeeps, DeleteKeeps,
     RecountKeeps, RemoveKeeps, InsertKeeps, DropKeeps, PurgeKeeps, BreakKeeps
<1>2. CASE UNCHANGED vars
  BY <1>2 DEF vars, setting, table, IInv, TypeOK, Numbered, Ordered, Current,
     OneLoop, HasLoop, Awaits, Cleared, OneEntryPerServer
<1> QED
  BY <1>1, <1>2, RefreshKeeps DEF Next

LEMMA Invariance == Spec => []IInv
  BY InitIInv, NextIInv, PTL DEF Spec

-----------------------------------------------------------------------------
(* Every variable keeps its type, whatever the requests of ingestor_server *)
(* do to the collection.                                                   *)
THEOREM TypeCorrect == Spec => []TypeOK
<1>1. IInv => TypeOK
  BY DEF IInv
<1> QED
  BY <1>1, Invariance, PTL

(* The delete and the insert of add_document_info may see an old snapshot  *)
(* of the table, yet the newest entry that is left is the last one written:*)
(* a delete takes all that a search sees, which is older than the rest.    *)
THEOREM LatestEntrySurvives == Spec => []LatestSurvives
<1>1. IInv => LatestSurvives
  <2> SUFFICES ASSUME IInv, NEW k \in Keys, NEW e \in Newest(live[k])
               PROVE  e.no = last[k]
    BY DEF LatestSurvives
  <2>1. e \in live[k] /\ e.no \in Nat /\ last[k] \in Nat
    BY DEF IInv, TypeOK, Entries, Newest
  <2>2. PICK f \in live[k] : f.no = last[k]
    BY <2>1 DEF IInv, Numbered
  <2>3. f.no <= e.no /\ e.no <= last[k]
    BY <2>1, <2>2 DEF IInv, Numbered, Newest
  <2> QED
    BY <2>1, <2>2, <2>3
<1> QED
  BY <1>1, Invariance, PTL

(* With Milvus the requests of one server, whose event loop runs one       *)
(* add_document_info at a time, leave one entry of metrics at most.        *)
THEOREM ServerLeavesOneEntry == Spec => []OneEntryPerServer
<1>1. IInv => OneEntryPerServer
  BY DEF IInv
<1> QED
  BY <1>1, Invariance, PTL
-----------------------------------------------------------------------------
(* The numbers and the fields of the entries.                              *)

(* The entries a request is going to write, by where it stands.            *)
KeysWritten(o) ==
  CASE o.at \in {"idle", "done"} -> {}
    [] o.at = "purge" -> Keys
    [] \/ o.at \in {"ingest", "written", "count", "aggregate"}
       \/ o.at \in {"remove", "insert"} /\ o.key = "collection" -> {"collection"}
    [] OTHER -> IF o.docs = {} THEN {"catalog"} ELSE Keys

HeldBy(o) ==
  /\ o.keys = KeysWritten(o)
  /\ o.at = "get" => o.docs = {} /\ o.key = "catalog" /\ o.fields # {}
  /\ o.at = "create" => o.fields = {}
  /\ o.at \in {"count", "aggregate"} => o.key = "collection"
  /\ o.at \in {"count", "aggregate", "remove", "insert"} /\ o.key = "collection" =>
       o.docs = {}
  /\ o.recount => /\ o.at \in {"count", "aggregate", "remove", "insert"}
                  /\ o.key = "collection"
  /\ o.at = "count" => o.recount
  /\ o.at = "aggregate" => (o.recount <=> backend = "lancedb")

Held == \A r \in Requests : HeldBy(op[r])

(* Nobody else writes an entry of a request that is alone.                 *)
Apart ==
  \A r \in Requests : op[r].alone =>
    \A q \in Requests \ {r} : op[q].keys \cap op[r].keys = {}

(* While r is at this, the entry of metrics may be wrong, and r will make  *)
(* it right or leave it unsound.                                           *)
Recounts(r) ==
  /\ "collection" \in op[r].keys
  /\ \/ op[r].recount
     \/ op[r].at = "purge"
     \/ op[r].key = "collection" /\ op[r].at \in {"aggregate", "remove", "insert"}
     \/ /\ ~op[r].alone
        /\ backend # "lancedb" \/ (op[r].at = "written" /\ op[r].docs # {})

(* The same for the entry of the catalog.                                  *)
Rewrites(r) ==
  /\ "catalog" \in op[r].keys
  /\ ~op[r].alone \/ op[r].at \in {"purge", "remove", "insert"}

(* Documents that are written and not reported yet.                        *)
Pending ==
  {d \in Docs : \E r \in Requests : op[r].at = "written" /\ d \in op[r].docs}

CountRight ==
  sound["collection"] /\ (\A r \in Requests : ~Recounts(r)) =>
    Files("collection") = {Cardinality(docs \ Pending)}

FieldsRight ==
  sound["catalog"] /\ (\A r \in Requests : ~Rewrites(r)) =>
    FieldsOf("catalog") = {want}

(* What a request that is alone with the metrics may count on.             *)
OwnCount(r) ==
  op[r].alone /\ "collection" \in op[r].keys =>
    /\ op[r].at = "written" => op[r].docs \subseteq docs
    /\ op[r].at # "written" => op[r].docs \cap docs = {}
    /\ op[r].at = "purge" => docs = {}
    /\ op[r].at = "aggregate" /\ op[r].right =>
         IF op[r].recount THEN op[r].files = Cardinality(docs)
         ELSE sound["collection"] =>
                \A n \in Files("collection") : n + op[r].files = Cardinality(docs)
    /\ /\ op[r].at \in {"remove", "insert"} /\ op[r].key = "collection"
       /\ op[r].right
       /\ op[r].recount \/ sound["collection"]
       => op[r].files = Cardinality(docs)

(* And one that is alone with the catalog.                                 *)
OwnFields(r) ==
  op[r].alone /\ "catalog" \in op[r].keys =>
    /\ op[r].at = "create" /\ sound["catalog"] => want = {}
    /\ op[r].at \in {"remove", "insert"} /\ op[r].right /\ sound["catalog"] =>
         want \subseteq op[r].fields
    /\ op[r].fields # {} => exists

(* A collection that is gone has no fields, once its entry is purged.      *)
Taints(r) ==
  "catalog" \in op[r].keys /\ (~op[r].alone \/ op[r].at = "purge")

Forgotten ==
  ~exists /\ sound["catalog"] /\ (\A r \in Requests : ~Taints(r)) => want = {}

RightInv ==
  /\ Held
  /\ Apart
  /\ CountRight
  /\ FieldsRight
  /\ \A r \in Requests : OwnCount(r) /\ OwnFields(r)
  /\ Forgotten

-----------------------------------------------------------------------------
(* One request moves: the others stay, but may not be alone any more.      *)
Others(r) ==
  /\ op' \in [Requests -> Ops]
  /\ \A q \in Requests \ {r} :
       /\ op'[q].at = op[q].at /\ op'[q].key = op[q].key /\ op'[q].keys = op[q].keys
       /\ op'[q].files = op[q].files /\ op'[q].fields = op[q].fields
       /\ op'[q].docs = op[q].docs /\ op'[q].recount = op[q].recount
       /\ op'[q].right = op[q].right
       /\ op'[q].alone => op[q].alone

(* A request begins; it is alone unless somebody writes one of its keys.   *)
Began(r, ks, o) ==
  /\ Others(r)
  /\ op'[r].at = o.at /\ op'[r].key = o.key /\ op'[r].keys = ks
  /\ op'[r].fields = o.fields /\ op'[r].docs = o.docs
  /\ op'[r].recount = o.recount
  /\ op'[r].alone => \A q \in Requests \ {r} : op[q].keys \cap ks = {}

LEMMA BeginsShape ==
  ASSUME TypeOK, Apart, NEW r \in Requests, NEW ks \in SUBSET Keys, NEW o \in Ops,
         Begins(r, ks, o)
  PROVE  Began(r, ks, o) /\ Apart'
<1>1. [o EXCEPT !.keys = ks, !.alone = (Clash(r, ks) = {})] \in Ops
  BY DEF Ops
<1>2. \A q \in Requests : [op[q] EXCEPT !.alone = FALSE] \in Ops
  BY DEF TypeOK, Ops
<1>3. op' \in [Requests -> Ops]
  BY <1>1, <1>2 DEF Begins, TypeOK
<1>4. op'[r] = [o EXCEPT !.keys = ks, !.alone = (Clash(r, ks) = {})]
  BY DEF Begins
<1>5. /\ op'[r].at = o.at /\ op'[r].key = o.key /\ op'[r].keys = ks
      /\ op'[r].fields = o.fields /\ op'[r].docs = o.docs
      /\ op'[r].recount = o.recount
      /\ op'[r].alone <=> Clash(r, ks) = {}
  BY <1>4 DEF Ops
<1>6. ASSUME NEW q \in Requests \ {r}
      PROVE  /\ op'[q].at = op[q].at /\ op'[q].key = op[q].key
             /\ op'[q].keys = op[q].keys
             /\ op'[q].files = op[q].files /\ op'[q].fields = op[q].fields
             /\ op'[q].docs = op[q].docs /\ op'[q].recount = op[q].recount
             /\ op'[q].right = op[q].right
             /\ op'[q].alone => op[q].alone /\ q \notin Clash(r, ks)
  <2>1. op[q] \in Ops
    BY DEF TypeOK
  <2>2. op'[q] = IF q \in Clash(r, ks) THEN [op[q] EXCEPT !.alone = FALSE]
                 ELSE op[q]
    BY DEF Begins
  <2>3. CASE q \in Clash(r, ks)
    BY <2>1, <2>2, <2>3 DEF Ops
  <2>4. CASE q \notin Clash(r, ks)
    BY <2>2, <2>4
  <2> QED
    BY <2>3, <2>4
<1>7. Others(r)
  BY <1>3, <1>6 DEF Others
<1>8. Apart'
  <2> SUFFICES ASSUME NEW p \in Requests, op'[p].alone, NEW q \in Requests \ {p}
               PROVE  op'[q].keys \cap op'[p].keys = {}
    BY DEF Apart
  <2>1. CASE p = r
    BY <1>5, <1>6, <2>1 DEF Clash
  <2>2. CASE p # r /\ q = r
    BY <1>5, <1>6, <2>2 DEF Clash
  <2>3. CASE p # r /\ q # r
    BY <1>6, <2>3 DEF Apart
  <2> QED
    BY <2>1, <2>2, <2>3
<1> QED
  BY <1>5, <1>7, <1>8 DEF Clash, Began

(* A request goes on with no more entries to write.                        *)
LEMMA GoesShape ==
  ASSUME TypeOK, Apart, NEW r \in Requests, NEW o \in Ops, Goes(r, o),
         o.keys \subseteq op[r].keys,
         o.keys = {} \/ o.alone = op[r].alone
  PROVE  Others(r) /\ Apart' /\ op'[r] = o
<1>1. op'[r] = o /\ \A q \in Requests \ {r} : op'[q] = op[q]
  BY DEF Goes, TypeOK
<1>2. Others(r)
  BY <1>1 DEF Others, Goes, TypeOK
<1>3. Apart'
  <2> SUFFICES ASSUME NEW p \in Requests, op'[p].alone, NEW q \in Requests \ {p}
               PROVE  op'[q].keys \cap op'[p].keys = {}
    BY DEF Apart
  <2>1. CASE p = r
    BY <1>1, <2>1 DEF Apart
  <2>2. CASE p # r /\ q = r
    BY <1>1, <2>2 DEF Apart
  <2>3. CASE p # r /\ q # r
    BY <1>1, <2>3 DEF Apart
  <2> QED
    BY <2>1, <2>2, <2>3
<1> QED
  BY <1>1, <1>2, <1>3

(* A step of r leaves alone what belongs to entries it does not write.     *)
Leaves(r) ==
  \A k \in Keys : k \notin op[r].keys \cup op'[r].keys =>
    /\ live'[k] = live[k]
    /\ sound'[k] => sound[k]
    /\ k = "collection" => docs' = docs
    /\ k = "catalog" => want' = want /\ (exists => exists')

LEMMA StoredKept ==
  ASSUME NEW k \in Keys, live'[k] = live[k], backend' = backend
  PROVE  Files(k)' = Files(k) /\ FieldsOf(k)' = FieldsOf(k)
BY DEF Files, FieldsOf, Stored, Newest

LEMMA OthersKeep ==
  ASSUME RightInv, NEW r \in Requests, Others(r), Apart', Leaves(r),
         backend' = backend, NEW q \in Requests \ {r}
  PROVE  OwnCount(q)' /\ OwnFields(q)'
<1>1. ASSUME NEW k \in Keys, op'[q].alone, k \in op'[q].keys
      PROVE  /\ op[q].alone /\ k \in op[q].keys
             /\ k \notin op[r].keys \cup op'[r].keys
  <2>1. op[q].alone /\ k \in op[q].keys
    BY <1>1 DEF Others
  <2>2. k \notin op[r].keys
    BY <2>1 DEF RightInv, Apart
  <2>3. k \notin op'[r].keys
    BY <1>1 DEF Apart
  <2> QED
    BY <2>1, <2>2, <2>3
<1>2. OwnCount(q)'
  <2> SUFFICES ASSUME op'[q].alone, "collection" \in op'[q].keys
               PROVE  OwnCount(q)'
    BY DEF OwnCount
  <2>1. op[q].alone /\ "collection" \in op[q].keys /\ OwnCount(q)
    BY <1>1 DEF RightInv, Keys
  <2>2. docs' = docs /\ (sound'["collection"] => sound["collection"])
        /\ live'["collection"] = live["collection"]
    BY <1>1 DEF Leaves, Keys
  <2>3. Files("collection")' = Files("collection")
    BY <2>2, StoredKept DEF Keys
  <2> QED
    BY <2>1, <2>2, <2>3 DEF OwnCount, Others
<1>3. OwnFields(q)'
  <2> SUFFICES ASSUME op'[q].alone, "catalog" \in op'[q].keys
               PROVE  OwnFields(q)'
    BY DEF OwnFields
  <2>1. op[q].alone /\ "catalog" \in op[q].keys /\ OwnFields(q)
    BY <1>1 DEF RightInv, Keys
  <2>2. /\ want' = want /\ (exists => exists')
        /\ sound'["catalog"] => sound["catalog"]
    BY <1>1 DEF Leaves, Keys
  <2> QED
    BY <2>1, <2>2 DEF OwnFields, Others
<1> QED
  BY <1>2, <1>3

(* If r does not spoil the metrics, they stay right.                       *)
LEMMA CountKept ==
  ASSUME RightInv, NEW r \in Requests, Others(r), backend' = backend,
         sound'["collection"] /\ ~Recounts(r)' =>
           /\ sound["collection"]
           /\ ~Recounts(r)
           /\ live'["collection"] = live["collection"]
           /\ docs' \ Pending' = docs \ Pending
  PROVE  CountRight'
<1> SUFFICES ASSUME sound'["collection"], \A q \in Requests : ~Recounts(q)'
             PROVE  Files("collection")' = {Cardinality(docs' \ Pending')}
  BY DEF CountRight
<1>1. \A q \in Requests : ~Recounts(q)
  <2> TAKE q \in Requests
  <2>1. CASE q = r
    BY <2>1
  <2>2. CASE q # r
    BY <2>2 DEF Recounts, Others
  <2> QED
    BY <2>1, <2>2
<1>2. Files("collection") = {Cardinality(docs \ Pending)}
  BY <1>1 DEF RightInv, CountRight
<1>3. Files("collection")' = Files("collection")
  BY StoredKept DEF Keys
<1> QED
  BY <1>2, <1>3

LEMMA FieldsKept ==
  ASSUME RightInv, NEW r \in Requests, Others(r), backend' = backend,
         sound'["catalog"] /\ ~Rewrites(r)' =>
           /\ sound["catalog"]
           /\ ~Rewrites(r)
           /\ live'["catalog"] = live["catalog"]
           /\ want' = want
  PROVE  FieldsRight'
<1> SUFFICES ASSUME sound'["catalog"], \A q \in Requests : ~Rewrites(q)'
             PROVE  FieldsOf("catalog")' = {want'}
  BY DEF FieldsRight
<1>1. \A q \in Requests : ~Rewrites(q)
  <2> TAKE q \in Requests
  <2>1. CASE q = r
    BY <2>1
  <2>2. CASE q # r
    BY <2>2 DEF Rewrites, Others
  <2> QED
    BY <2>1, <2>2
<1>2. FieldsOf("catalog") = {want}
  BY <1>1 DEF RightInv, FieldsRight
<1>3. FieldsOf("catalog")' = FieldsOf("catalog")
  BY StoredKept DEF Keys
<1> QED
  BY <1>2, <1>3

LEMMA ForgottenKept ==
  ASSUME RightInv, NEW r \in Requests, Others(r),
         ~exists' /\ sound'["catalog"] /\ ~Taints(r)' =>
           ~exists /\ sound["catalog"] /\ ~Taints(r) /\ want' = want
  PROVE  Forgotten'
<1> SUFFICES ASSUME ~exists', sound'["catalog"], \A q \in Requests : ~Taints(q)'
             PROVE  want' = {}
  BY DEF Forgotten
<1>1. \A q \in Requests : ~Taints(q)
  <2> TAKE q \in Requests
  <2>1. CASE q = r
    BY <2>1
  <2>2. CASE q # r
    BY <2>2 DEF Taints, Others
  <2> QED
    BY <2>1, <2>2
<1> QED
  BY <1>1 DEF RightInv, Forgotten

LEMMA PendingKept ==
  ASSUME NEW r \in Requests, Others(r), op[r].at # "written", op'[r].at # "written"
  PROVE  Pending' = Pending
<1>1. ASSUME NEW d \in Docs
      PROVE  (\E q \in Requests : op'[q].at = "written" /\ d \in op'[q].docs)
             <=> (\E q \in Requests : op[q].at = "written" /\ d \in op[q].docs)
  BY DEF Others
<1> QED
  BY <1>1 DEF Pending

(* The parts together.                                                     *)
LEMMA StepKeeps ==
  ASSUME RightInv, NEW r \in Requests, Others(r), Apart', Leaves(r), backend' = backend,
         HeldBy(op'[r]), OwnCount(r)', OwnFields(r)', CountRight', FieldsRight',
         Forgotten'
  PROVE  RightInv'
<1>1. Held'
  <2> SUFFICES ASSUME NEW q \in Requests PROVE HeldBy(op[q])'
    BY DEF Held
  <2>1. CASE q = r
    BY <2>1 DEF HeldBy
  <2>2. CASE q # r
    BY <2>2 DEF RightInv, Held, HeldBy, KeysWritten, Others
  <2> QED
    BY <2>1, <2>2
<1>2. \A q \in Requests : OwnCount(q)' /\ OwnFields(q)'
  BY OthersKeep
<1> QED
  BY <1>1, <1>2 DEF RightInv

(* A step that changes neither the table nor the documents.                *)
LEMMA CalmKeeps ==
  ASSUME RightInv, NEW r \in Requests, Others(r), Apart',
         UNCHANGED <<setting, docs, table, want, sound>>, exists => exists',
         HeldBy(op'[r]), OwnCount(r)', OwnFields(r)',
         ~Recounts(r)' => ~Recounts(r) /\ op[r].at # "written" /\ op'[r].at # "written",
         Rewrites(r) => Rewrites(r)',
         Taints(r) => Taints(r)'
  PROVE  RightInv'
<1>1. backend' = backend /\ Leaves(r)
  BY DEF setting, table, Leaves
<1>2. CountRight'
  BY <1>1, CountKept, PendingKept DEF table
<1>3. FieldsRight'
  BY <1>1, FieldsKept DEF table
<1>4. Forgotten'
  BY ForgottenKept
<1> QED
  BY <1>1, <1>2, <1>3, <1>4, StepKeeps

-----------------------------------------------------------------------------
(* The requests begin.                                                     *)

LEMMA IdleHolds ==
  ASSUME RightInv, NEW r \in Requests, op[r].at \in {"idle", "done"}
  PROVE  op[r].keys = {} /\ ~Recounts(r) /\ ~Rewrites(r) /\ ~Taints(r)
<1>1. op[r].keys = {}
  BY DEF RightInv, Held, HeldBy, KeysWritten
<1> QED
  BY <1>1 DEF Recounts, Rewrites, Taints

LEMMA CreateRight ==
  ASSUME IInv, RightInv, NEW r \in Requests, Create(r) PROVE RightInv'
<1> DEFINE o == [Fresh EXCEPT !.at = "create"]
<1>1. o \in Ops /\ Begins(r, {"catalog"}, o)
  BY FreshTypes DEF Create, Ops, Phases
<1>2. /\ o.at = "create" /\ o.key = "collection" /\ o.docs = {} /\ o.fields = {}
      /\ ~o.recount
  BY DEF Fresh
<1> HIDE DEF o
<1>3. /\ Others(r) /\ Apart'
      /\ op'[r].at = "create" /\ op'[r].keys = {"catalog"} /\ op'[r].docs = {}
      /\ op'[r].fields = {} /\ op'[r].key = "collection" /\ ~op'[r].recount
      /\ op'[r].alone => \A q \in Requests \ {r} : op[q].keys \cap {"catalog"} = {}
  <2>1. TypeOK /\ Apart /\ {"catalog"} \in SUBSET Keys
    BY DEF IInv, RightInv, Keys
  <2>2. Began(r, {"catalog"}, o) /\ Apart'
    BY <1>1, <2>1, BeginsShape
  <2> QED
    BY <1>2, <2>2 DEF Began
<1>4. /\ op[r].at = "idle" /\ ~exists
      /\ UNCHANGED <<setting, exists, docs, table, want, sound>>
  BY DEF Create, Begins
<1>5. op[r].keys = {} /\ ~Recounts(r) /\ ~Rewrites(r) /\ ~Taints(r)
  BY <1>4, IdleHolds
<1>6. HeldBy(op'[r])
  BY <1>3 DEF HeldBy, KeysWritten
<1>7. OwnCount(r)'
  BY <1>3 DEF OwnCount
<1>8. OwnFields(r)'
  <2> SUFFICES ASSUME op'[r].alone, sound["catalog"] PROVE want = {}
    BY <1>3, <1>4 DEF OwnFields
  <2>1. \A q \in Requests : ~Taints(q)
    BY <1>3, <1>5 DEF Taints
  <2> QED
    BY <1>4, <2>1 DEF RightInv, Forgotten
<1> QED
  BY <1>3, <1>4, <1>5, <1>6, <1>7, <1>8, CalmKeeps

LEMMA CreateBareRight ==
  ASSUME IInv, RightInv, NEW r \in Requests, CreateBare(r) PROVE RightInv'
<1>1. Done \in Ops /\ Done.at = "done" /\ Done.keys = {} /\ HeldBy(Done)
  BY FreshTypes DEF Done, Fresh, HeldBy, KeysWritten
<1>2. Others(r) /\ Apart' /\ op'[r] = Done
  BY <1>1, GoesShape DEF CreateBare, IInv, RightInv
<1>3. op[r].at = "idle" /\ ~Recounts(r) /\ ~Rewrites(r) /\ ~Taints(r)
  BY IdleHolds DEF CreateBare
<1>4. OwnCount(r)' /\ OwnFields(r)'
  BY <1>1, <1>2 DEF OwnCount, OwnFields
<1> QED
  BY <1>1, <1>2, <1>3, <1>4, CalmKeeps DEF CreateBare

LEMMA PatchRight ==
  ASSUME IInv, RightInv, NEW r \in Requests, Patch(r) PROVE RightInv'
<1> PICK f \in Fields :
      Begins(r, {"catalog"}, [Fresh EXCEPT !.at = "get", !.key = "catalog",
                                          !.fields = {f}])
  BY DEF Patch
<1> DEFINE o == [Fresh EXCEPT !.at = "get", !.key = "catalog", !.fields = {f}]
<1>1. o \in Ops /\ Begins(r, {"catalog"}, o)
  BY FreshTypes DEF Ops, Phases, Keys
<1>2. o.at = "get" /\ o.key = "catalog" /\ o.docs = {} /\ o.fields # {} /\ ~o.recount
  BY DEF Fresh
<1> HIDE DEF o
<1>3. /\ Others(r) /\ Apart'
      /\ op'[r].at = "get" /\ op'[r].keys = {"catalog"} /\ op'[r].docs = {}
      /\ op'[r].key = "catalog" /\ op'[r].fields # {} /\ ~op'[r].recount
  <2>1. TypeOK /\ Apart /\ {"catalog"} \in SUBSET Keys
    BY DEF IInv, RightInv, Keys
  <2>2. Began(r, {"catalog"}, o) /\ Apart'
    BY <1>1, <2>1, BeginsShape
  <2> QED
    BY <1>2, <2>2 DEF Began
<1>4. /\ op[r].at = "idle" /\ exists
      /\ UNCHANGED <<setting, exists, docs, table, want, sound>>
  BY DEF Patch, Begins
<1>5. ~Recounts(r) /\ ~Rewrites(r) /\ ~Taints(r)
  BY <1>4, IdleHolds
<1>6. HeldBy(op'[r])
  BY <1>3 DEF HeldBy, KeysWritten
<1>7. OwnCount(r)' /\ OwnFields(r)'
  BY <1>3, <1>4 DEF OwnCount, OwnFields
<1> QED
  BY <1>3, <1>4, <1>5, <1>6, <1>7, CalmKeeps

LEMMA UploadRight ==
  ASSUME IInv, RightInv, NEW r \in Requests, Upload(r) PROVE RightInv'
<1> PICK ds \in (SUBSET (Docs \ docs)) \ {{}} :
      IF exists
      THEN Begins(r, {"collection"}, [Fresh EXCEPT !.at = "ingest", !.docs = ds])
      ELSE Begins(r, Keys, [Fresh EXCEPT !.at = "create", !.docs = ds])
  BY DEF Upload
<1>0. op[r].at = "idle" /\ UNCHANGED <<setting, exists, docs, table, want, sound>>
  BY DEF Upload, Begins
<1>1. op[r].keys = {} /\ ~Recounts(r) /\ ~Rewrites(r) /\ ~Taints(r)
  BY <1>0, IdleHolds
<1>2. CASE exists
  <2> DEFINE o == [Fresh EXCEPT !.at = "ingest", !.docs = ds]
  <2>1. o \in Ops /\ Begins(r, {"collection"}, o)
    BY <1>2, FreshTypes DEF Ops, Phases
  <2>2. o.at = "ingest" /\ o.docs = ds /\ ~o.recount
    BY DEF Fresh
  <2> HIDE DEF o
  <2>3. /\ Others(r) /\ Apart'
        /\ op'[r].at = "ingest" /\ op'[r].keys = {"collection"} /\ op'[r].docs = ds
        /\ ~op'[r].recount
    <3>1. TypeOK /\ Apart /\ {"collection"} \in SUBSET Keys
      BY DEF IInv, RightInv, Keys
    <3>2. Began(r, {"collection"}, o) /\ Apart'
      BY <2>1, <3>1, BeginsShape
    <3> QED
      BY <2>2, <3>2 DEF Began
  <2>4. HeldBy(op'[r])
    BY <2>3 DEF HeldBy, KeysWritten
  <2>5. OwnCount(r)' /\ OwnFields(r)'
    BY <1>0, <2>3 DEF OwnCount, OwnFields
  <2> QED
    BY <1>0, <1>1, <2>3, <2>4, <2>5, CalmKeeps
<1>3. CASE ~exists
  <2> DEFINE o == [Fresh EXCEPT !.at = "create", !.docs = ds]
  <2>1. o \in Ops /\ Begins(r, Keys, o)
    BY <1>3, FreshTypes DEF Ops, Phases
  <2>2. /\ o.at = "create" /\ o.key = "collection" /\ o.docs = ds /\ o.fields = {}
        /\ ~o.recount
    BY DEF Fresh
  <2> HIDE DEF o
  <2>3. /\ Others(r) /\ Apart'
        /\ op'[r].at = "create" /\ op'[r].keys = Keys /\ op'[r].docs = ds /\ ds # {}
        /\ op'[r].fields = {} /\ op'[r].key = "collection" /\ ~op'[r].recount
        /\ op'[r].alone => \A q \in Requests \ {r} : op[q].keys \cap Keys = {}
    <3>1. TypeOK /\ Apart /\ Keys \in SUBSET Keys
      BY DEF IInv, RightInv, Keys
    <3>2. Began(r, Keys, o) /\ Apart'
      BY <2>1, <3>1, BeginsShape
    <3> QED
      BY <2>2, <3>2 DEF Began
  <2>4. HeldBy(op'[r])
    BY <2>3 DEF HeldBy, KeysWritten
  <2>5. OwnCount(r)'
    BY <1>0, <2>3 DEF OwnCount
  <2>6. OwnFields(r)'
    <3> SUFFICES ASSUME op'[r].alone, sound["catalog"] PROVE want = {}
      BY <1>0, <2>3 DEF OwnFields
    <3>1. \A q \in Requests : ~Taints(q)
      BY <1>1, <2>3 DEF Taints, Keys
    <3> QED
      BY <1>3, <3>1 DEF RightInv, Forgotten
  <2> QED
    BY <1>0, <1>1, <2>3, <2>4, <2>5, <2>6, CalmKeeps
<1> QED
  BY <1>2, <1>3

LEMMA DeleteRight ==
  ASSUME IInv, RightInv, NEW r \in Requests, Delete(r) PROVE RightInv'
<1> DEFINE o == [Fresh EXCEPT !.at = "count", !.recount = TRUE]
<1>1. o \in Ops /\ Begins(r, {"collection"}, o)
  BY FreshTypes DEF Delete, Ops, Phases
<1>2. o.at = "count" /\ o.key = "collection" /\ o.docs = {} /\ o.recount
  BY DEF Fresh
<1> HIDE DEF o
<1>3. /\ Others(r) /\ Apart'
      /\ op'[r].at = "count" /\ op'[r].keys = {"collection"} /\ op'[r].docs = {}
      /\ op'[r].key = "collection" /\ op'[r].recount
      /\ op'[r].alone => \A q \in Requests \ {r} : op[q].keys \cap {"collection"} = {}
  <2>1. TypeOK /\ Apart /\ {"collection"} \in SUBSET Keys
    BY DEF IInv, RightInv, Keys
  <2>2. Began(r, {"collection"}, o) /\ Apart'
    BY <1>1, <2>1, BeginsShape
  <2> QED
    BY <1>2, <2>2 DEF Began
<1>4. op[r].at = "idle" /\ UNCHANGED <<setting, exists, table, want, sound>>
  BY DEF Delete, Begins
<1>5. ~Rewrites(r) /\ ~Taints(r)
  BY <1>4, IdleHolds
<1>6. HeldBy(op'[r])
  BY <1>3 DEF HeldBy, KeysWritten
<1>7. OwnCount(r)' /\ OwnFields(r)'
  BY <1>3 DEF OwnCount, OwnFields
<1>8. Leaves(r) /\ backend' = backend
  BY <1>3, <1>4 DEF Leaves, table, setting
<1>9. CountRight'
  BY <1>3 DEF CountRight, Recounts
<1>10. FieldsRight'
  BY <1>3, <1>4, <1>5, <1>8, FieldsKept DEF table
<1>11. Forgotten'
  BY <1>3, <1>4, <1>5, ForgottenKept
<1> QED
  BY <1>3, <1>6, <1>7, <1>8, <1>9, <1>10, <1>11, StepKeeps

LEMMA DropRight ==
  ASSUME IInv, RightInv, NEW r \in Requests, Drop(r) PROVE RightInv'
<1> DEFINE o == [Fresh EXCEPT !.at = "purge"]
<1>1. o \in Ops /\ Begins(r, Keys, o)
  BY FreshTypes DEF Drop, Ops, Phases
<1>2. o.at = "purge" /\ o.docs = {} /\ o.fields = {} /\ ~o.recount
  BY DEF Fresh
<1> HIDE DEF o
<1>3. /\ Others(r) /\ Apart'
      /\ op'[r].at = "purge" /\ op'[r].keys = Keys /\ op'[r].docs = {}
      /\ op'[r].fields = {} /\ ~op'[r].recount
      /\ op'[r].alone => \A q \in Requests \ {r} : op[q].keys \cap Keys = {}
  <2>1. TypeOK /\ Apart /\ Keys \in SUBSET Keys
    BY DEF IInv, RightInv, Keys
  <2>2. Began(r, Keys, o) /\ Apart'
    BY <1>1, <2>1, BeginsShape
  <2> QED
    BY <1>2, <2>2 DEF Began
<1>4. docs' = {} /\ UNCHANGED <<setting, table, want, sound>>
  BY DEF Drop, DropCollection
<1>5. HeldBy(op'[r])
  BY <1>3 DEF HeldBy, KeysWritten
<1>6. OwnCount(r)' /\ OwnFields(r)'
  BY <1>3, <1>4 DEF OwnCount, OwnFields
<1>7. Leaves(r) /\ backend' = backend
  BY <1>3, <1>4 DEF Leaves, setting
<1>8. CountRight' /\ FieldsRight' /\ Forgotten'
  BY <1>3 DEF CountRight, Recounts, FieldsRight, Rewrites, Forgotten, Taints, Keys
<1> QED
  BY <1>3, <1>5, <1>6, <1>7, <1>8, StepKeeps

-----------------------------------------------------------------------------
(* The steps up to the delete.                                             *)

LEMMA Sole ==
  ASSUME RightInv, NEW r \in Requests, op[r].alone, NEW q \in Requests \ {r}
  PROVE  /\ "collection" \in op[r].keys => ~Recounts(q) /\ op[q].at # "written"
         /\ "catalog" \in op[r].keys => ~Rewrites(q) /\ ~Taints(q)
<1>1. op[q].keys \cap op[r].keys = {}
  BY DEF RightInv, Apart
<1>2. op[q].at = "written" => op[q].keys = {"collection"}
  BY DEF RightInv, Held, HeldBy, KeysWritten
<1> QED
  BY <1>1, <1>2 DEF Recounts, Rewrites, Taints

(* What a search that finds the last entry knows of what is stored.        *)
LEMMA ReadsStored ==
  ASSUME IInv, NEW k \in Keys
  PROVE  /\ Newest(live[k]) = {} => Files(k) = {0} /\ FieldsOf(k) = {{}}
         /\ \A e \in Newest(live[k]) : e.files \in Files(k) /\ e.fields \in FieldsOf(k)
         /\ Files(k) \subseteq Nat
<1>1. live[k] \in SUBSET Entries
  BY DEF IInv, TypeOK
<1>2. Newest(live[k]) \subseteq live[k] /\ Stored(k) \subseteq live[k]
  BY DEF Newest, Stored
<1>3. Newest(live[k]) \subseteq Stored(k)
  BY DEF Newest, Stored
<1>4. ASSUME Newest(live[k]) = {} PROVE Stored(k) = {}
  <2>1. ASSUME live[k] # {} PROVE FALSE
    <3>1. PICK e \in live[k] : e.no = last[k]
      BY <2>1 DEF IInv, Numbered
    <3>2. e \in Newest(live[k])
      BY <3>1 DEF IInv, Numbered, Newest
    <3> QED
      BY <1>4, <3>2
  <2> QED
    BY <1>2, <2>1
<1>5. Files(k) \subseteq Nat
  BY <1>1, <1>2 DEF Files, Entries
<1> QED
  BY <1>3, <1>4, <1>5 DEF Files, FieldsOf

LEMMA CreatedRight ==
  ASSUME IInv, RightInv, NEW r \in Requests, Created(r) PROVE RightInv'
<1> DEFINE o == [op[r] EXCEPT !.at = AddPhase("catalog"), !.key = "catalog"]
<1>1. op[r] \in Ops /\ AddPhase("catalog") \in {"insert", "remove"}
  BY DEF IInv, TypeOK, AddPhase
<1>2. /\ o \in Ops /\ o.key = "catalog" /\ o.at \in {"insert", "remove"}
      /\ o.keys = op[r].keys /\ o.alone = op[r].alone /\ o.docs = op[r].docs
      /\ o.fields = op[r].fields /\ o.recount = op[r].recount
  BY <1>1 DEF Ops, Phases, Keys
<1>3. Goes(r, o) /\ TypeOK /\ Apart
  BY DEF Created, IInv, RightInv
<1> HIDE DEF o
<1>4. Others(r) /\ Apart' /\ op'[r] = o
  BY <1>2, <1>3, GoesShape
<1>5. /\ op[r].at = "create" /\ exists' = TRUE
      /\ UNCHANGED <<setting, docs, table, want, sound>>
  BY DEF Created, CreateCollection
<1>6. HeldBy(op[r]) /\ OwnCount(r) /\ OwnFields(r)
  BY DEF RightInv, Held
<1>7. HeldBy(op'[r])
  BY <1>2, <1>4, <1>5, <1>6 DEF HeldBy, KeysWritten
<1>8. OwnCount(r)' /\ OwnFields(r)'
  BY <1>2, <1>4, <1>5, <1>6 DEF HeldBy, OwnCount, OwnFields
<1>9. (Recounts(r)' <=> Recounts(r)) /\ (Taints(r)' <=> Taints(r))
      /\ (Rewrites(r) => Rewrites(r)')
  BY <1>2, <1>4, <1>5 DEF Recounts, Taints, Rewrites, setting
<1> QED
  BY <1>2, <1>4, <1>5, <1>7, <1>8, <1>9, CalmKeeps

LEMMA GetRight ==
  ASSUME IInv, RightInv, NEW r \in Requests, Get(r) PROVE RightInv'
<1> PICK es \in SUBSET Shown("catalog") :
      /\ Cardinality(es) <= 1
      /\ Goes(r, [op[r] EXCEPT !.at = AddPhase("catalog"),
                            !.fields = @ \cup UNION {e.fields : e \in es},
                            !.right = (es = Newest(live["catalog"]))])
  BY DEF Get, Merged
<1> DEFINE fs == op[r].fields \cup UNION {e.fields : e \in es}
           ok == (es = Newest(live["catalog"]))
           o == [op[r] EXCEPT !.at = AddPhase("catalog"), !.fields = fs, !.right = ok]
<1>1. fs \in SUBSET Fields
  BY ShownEntries DEF IInv, TypeOK, Ops, Entries, Keys
<1>2. op[r] \in Ops /\ AddPhase("catalog") \in {"insert", "remove"}
  BY DEF IInv, TypeOK, AddPhase
<1>3. Goes(r, o) /\ TypeOK /\ Apart
  BY DEF IInv, RightInv
<1>4. ok <=> es = Newest(live["catalog"])
  OBVIOUS
<1> HIDE DEF fs, ok
<1>6. /\ o \in Ops /\ o.key = op[r].key /\ o.at \in {"insert", "remove"}
      /\ o.keys = op[r].keys /\ o.alone = op[r].alone /\ o.docs = op[r].docs
      /\ o.fields = fs /\ o.recount = op[r].recount /\ (o.right => ok)
  <2>1. ok \in BOOLEAN
    BY DEF ok
  <2> QED
    BY <1>1, <1>2, <2>1 DEF Ops, Phases
<1> HIDE DEF o
<1>7. Others(r) /\ Apart' /\ op'[r] = o
  BY <1>3, <1>6, GoesShape
<1>8. op[r].at = "get" /\ UNCHANGED <<setting, exists, docs, table, want, sound>>
  BY DEF Get
<1>9. HeldBy(op[r]) /\ OwnFields(r)
  BY DEF RightInv, Held
<1>10. op[r].keys = {"catalog"} /\ op[r].docs = {} /\ op[r].key = "catalog" /\ ~op[r].recount
  BY <1>8, <1>9 DEF HeldBy, KeysWritten
<1>11. HeldBy(op'[r])
  BY <1>6, <1>7, <1>10 DEF HeldBy, KeysWritten
<1>12. OwnCount(r)' /\ ~Recounts(r)' /\ ~Recounts(r)
  BY <1>6, <1>7, <1>10 DEF OwnCount, Recounts
<1>13. (Taints(r)' <=> Taints(r)) /\ Rewrites(r)'
  BY <1>6, <1>7, <1>8, <1>10 DEF Taints, Rewrites
<1>14. ASSUME op[r].alone, ok, sound["catalog"] PROVE want \subseteq fs
  <2>1. \A q \in Requests : ~Rewrites(q)
    BY <1>8, <1>10, <1>14, Sole DEF Rewrites
  <2>2. FieldsOf("catalog") = {want}
    BY <1>14, <2>1 DEF RightInv, FieldsRight
  <2>3. CASE es = {}
    BY <1>4, <1>14, <2>2, <2>3, ReadsStored DEF Keys
  <2>4. CASE es # {}
    <3>1. PICK e \in es : e.fields = want
      BY <1>4, <1>14, <2>2, <2>4, ReadsStored DEF Keys
    <3> QED
      BY <3>1 DEF fs
  <2> QED
    BY <2>3, <2>4
<1>15. op[r].alone => exists
  BY <1>8, <1>9, <1>10 DEF HeldBy, OwnFields
<1>16. OwnFields(r)'
  BY <1>6, <1>7, <1>8, <1>10, <1>14, <1>15 DEF OwnFields
<1> QED
  BY <1>6, <1>7, <1>8, <1>11, <1>12, <1>13, <1>16, CalmKeeps

LEMMA WriteRight ==
  ASSUME IInv, RightInv, NEW r \in Requests, Write(r) PROVE RightInv'
<1> PICK ds \in SUBSET op[r].docs :
      /\ docs' = docs \cup ds
      /\ Goes(r, [op[r] EXCEPT !.at = "written", !.docs = ds])
  BY DEF Write, WriteToIndex
<1> DEFINE o == [op[r] EXCEPT !.at = "written", !.docs = ds]
<1>1. op[r] \in Ops
  BY DEF IInv, TypeOK
<1>2. /\ o \in Ops /\ o.at = "written" /\ o.docs = ds
      /\ o.key = op[r].key /\ o.keys = op[r].keys /\ o.alone = op[r].alone
      /\ o.recount = op[r].recount
  BY <1>1 DEF Ops, Phases
<1>3. Goes(r, o) /\ TypeOK /\ Apart
  BY DEF IInv, RightInv
<1> HIDE DEF o
<1>4. Others(r) /\ Apart' /\ op'[r] = o
  BY <1>2, <1>3, GoesShape
<1>5. op[r].at = "ingest" /\ exists' = TRUE /\ UNCHANGED <<setting, table, want, sound>>
  BY DEF Write, WriteToIndex
<1>6. HeldBy(op[r]) /\ OwnCount(r)
  BY DEF RightInv, Held
<1>7. op[r].keys = {"collection"} /\ ~op[r].recount
  BY <1>5, <1>6 DEF HeldBy, KeysWritten
<1>8. HeldBy(op'[r])
  BY <1>2, <1>4, <1>7 DEF HeldBy, KeysWritten
<1>9. OwnCount(r)' /\ OwnFields(r)'
  BY <1>2, <1>4, <1>7 DEF OwnCount, OwnFields
<1>10. Leaves(r) /\ backend' = backend
  BY <1>5, <1>7 DEF Leaves, table, setting
<1>11. /\ ~Rewrites(r) /\ ~Taints(r)
  BY <1>7 DEF Rewrites, Taints
<1>12. ASSUME ~Recounts(r)' PROVE ~Recounts(r) /\ docs' \ Pending' = docs \ Pending
  <2>1. op[r].alone \/ (ds = {} /\ backend = "lancedb")
    BY <1>2, <1>4, <1>7, <1>10, <1>12 DEF Recounts
  <2>2. ~Recounts(r)
    BY <1>5, <1>7, <2>1 DEF Recounts
  <2>3. ds \cap docs = {}
    BY <1>5, <1>6, <1>7, <2>1 DEF OwnCount
  <2>4. ds \subseteq Docs /\ docs \subseteq Docs
    BY <1>1 DEF Ops, IInv, TypeOK
  <2>5. Pending' = Pending \cup ds
    <3>1. ASSUME NEW d \in Docs
          PROVE  (\E q \in Requests : op'[q].at = "written" /\ d \in op'[q].docs)
                 <=> \/ \E q \in Requests : op[q].at = "written" /\ d \in op[q].docs
                     \/ d \in ds
      BY <1>2, <1>4, <1>5 DEF Others
    <3> QED
      BY <2>4, <3>1 DEF Pending
  <2> QED
    BY <2>2, <2>3, <2>5
<1>13. CountRight'
  BY <1>4, <1>5, <1>10, <1>12, CountKept DEF table
<1>14. FieldsRight' /\ Forgotten'
  BY <1>4, <1>5, <1>10, <1>11, FieldsKept, ForgottenKept DEF table
<1> QED
  BY <1>4, <1>8, <1>9, <1>10, <1>13, <1>14, StepKeeps

(* The documents of the batch have been missing in the count so far.       *)
LEMMA ReportRight ==
  ASSUME IInv, RightInv, NEW r \in Requests, Report(r) PROVE RightInv'
<1> DEFINE n == Cardinality(Counted(op[r].docs))
           ok == (Counted(op[r].docs) = op[r].docs)
           o == [op[r] EXCEPT !.at = "aggregate", !.key = "collection", !.files = n,
                    !.right = ok, !.docs = {}]
<1>1. op[r] \in Ops
  BY DEF IInv, TypeOK
<1>2. n \in Nat /\ ok \in BOOLEAN
  BY <1>1, DocsFinite DEF Ops, Counted
<1>3. Goes(r, o) /\ TypeOK /\ Apart
  BY DEF Report, IInv, RightInv
<1>4. ok => n = Cardinality(op[r].docs)
  OBVIOUS
<1> HIDE DEF n, ok
<1>5. /\ o \in Ops /\ o.at = "aggregate" /\ o.docs = {} /\ o.key = "collection"
      /\ o.files = n /\ (o.right => ok)
      /\ o.keys = op[r].keys /\ o.alone = op[r].alone /\ o.recount = op[r].recount
  BY <1>1, <1>2 DEF Ops, Phases, Keys
<1> HIDE DEF o
<1>6. Others(r) /\ Apart' /\ op'[r] = o
  BY <1>3, <1>5, GoesShape
<1>7. /\ op[r].at = "written" /\ backend # "lancedb"
      /\ UNCHANGED <<setting, exists, docs, table, want, sound>>
  BY DEF Report
<1>8. HeldBy(op[r]) /\ OwnCount(r)
  BY DEF RightInv, Held
<1>9. op[r].keys = {"collection"} /\ ~op[r].recount
  BY <1>7, <1>8 DEF HeldBy, KeysWritten
<1>10. HeldBy(op'[r])
  BY <1>5, <1>6, <1>7, <1>9 DEF HeldBy, KeysWritten
<1>11. ASSUME op[r].alone, ok, sound["collection"], NEW m \in Files("collection")
       PROVE  m + n = Cardinality(docs)
  <2>1. \A q \in Requests : ~Recounts(q)
    BY <1>7, <1>9, <1>11, Sole DEF Recounts
  <2>2. m = Cardinality(docs \ Pending)
    BY <1>11, <2>1 DEF RightInv, CountRight
  <2>3. op[r].docs \subseteq docs /\ docs \in SUBSET Docs
    BY <1>7, <1>8, <1>9, <1>11 DEF OwnCount, IInv, TypeOK
  <2>4. Pending = op[r].docs
    BY <1>7, <1>9, <1>11, <2>3, Sole DEF Pending
  <2>5. IsFiniteSet(docs) /\ docs \cap op[r].docs = op[r].docs
    BY <2>3, InfoAssumption, FS_Subset
  <2>6. Cardinality(docs \ op[r].docs) = Cardinality(docs) - Cardinality(op[r].docs)
    BY <2>5, FS_Difference
  <2>7. Cardinality(docs) \in Nat /\ Cardinality(op[r].docs) \in Nat
    BY <2>3, DocsFinite
  <2> QED
    BY <1>4, <1>11, <2>2, <2>4, <2>6, <2>7
<1>12. Files("collection")' = Files("collection")
  BY <1>7, StoredKept DEF table, setting, Keys
<1>13. OwnCount(r)' /\ OwnFields(r)'
  BY <1>5, <1>6, <1>7, <1>9, <1>11, <1>12 DEF OwnCount, OwnFields
<1>14. Recounts(r)' /\ ~Rewrites(r) /\ ~Taints(r)
  BY <1>5, <1>6, <1>9 DEF Recounts, Rewrites, Taints
<1> QED
  BY <1>6, <1>7, <1>10, <1>13, <1>14, CalmKeeps

LEMMA UnreportedRight ==
  ASSUME IInv, RightInv, NEW r \in Requests, Unreported(r) PROVE RightInv'
<1>1. Done \in Ops /\ Done.at = "done" /\ Done.keys = {} /\ HeldBy(Done)
  BY FreshTypes DEF Done, Fresh, HeldBy, KeysWritten
<1>2. Others(r) /\ Apart' /\ op'[r] = Done
  BY <1>1, GoesShape DEF Unreported, IInv, RightInv
<1>3. /\ op[r].at = "written" /\ backend = "lancedb"
      /\ sound' = [sound EXCEPT !["collection"] = @ /\ op[r].docs = {}]
      /\ UNCHANGED <<setting, exists, docs, table, want>>
  BY DEF Unreported
<1>4. sound \in [Keys -> BOOLEAN]
  BY DEF IInv, TypeOK
<1>5. /\ sound'["collection"] => sound["collection"] /\ op[r].docs = {}
      /\ sound'["catalog"] = sound["catalog"]
  BY <1>3, <1>4 DEF Keys
<1>6. HeldBy(op[r])
  BY DEF RightInv, Held
<1>7. op[r].keys = {"collection"} /\ ~op[r].recount
  BY <1>3, <1>6 DEF HeldBy, KeysWritten
<1>8. OwnCount(r)' /\ OwnFields(r)'
  BY <1>1, <1>2 DEF OwnCount, OwnFields
<1>9. Leaves(r) /\ backend' = backend
  BY <1>3, <1>5, <1>7 DEF Leaves, table, setting
<1>10. ASSUME op[r].docs = {} PROVE ~Recounts(r) /\ Pending' = Pending
  <2>1. ~Recounts(r)
    BY <1>3, <1>7, <1>10 DEF Recounts
  <2>2. ASSUME NEW d \in Docs
        PROVE  (\E q \in Requests : op'[q].at = "written" /\ d \in op'[q].docs)
               <=> (\E q \in Requests : op[q].at = "written" /\ d \in op[q].docs)
    BY <1>1, <1>2, <1>10 DEF Others
  <2> QED
    BY <2>1, <2>2 DEF Pending
<1>11. CountRight'
  BY <1>2, <1>3, <1>5, <1>9, <1>10, CountKept DEF table
<1>12. ~Rewrites(r) /\ ~Taints(r)
  BY <1>7 DEF Rewrites, Taints
<1>13. FieldsRight' /\ Forgotten'
  BY <1>2, <1>3, <1>5, <1>9, <1>12, FieldsKept, ForgottenKept DEF table
<1> QED
  BY <1>1, <1>2, <1>8, <1>9, <1>11, <1>13, StepKeeps

(* The new count is that of a recount, or adds to what is stored.          *)
LEMMA AggregateAdds ==
  ASSUME IInv, NEW r \in Requests, Aggregate(r)
  PROVE  \E n \in Nat, ok \in BOOLEAN :
           /\ Goes(r, [op[r] EXCEPT !.at = "remove", !.files = n, !.right = ok])
           /\ ok => op[r].right
           /\ ok /\ op[r].recount => n = op[r].files
           /\ ok /\ ~op[r].recount =>
                \E m \in Files("collection") : n = m + op[r].files
<1>1. op[r] \in Ops /\ op[r].files \in Nat
  BY DEF IInv, TypeOK, Ops
<1>2. CASE \E e \in Shown("collection") :
        Goes(r, [op[r] EXCEPT !.at = "remove", !.files = Aggregated(@, e),
                   !.right = @ /\ AddsRight(r, {e})])
  <2> PICK e \in Shown("collection") :
        Goes(r, [op[r] EXCEPT !.at = "remove", !.files = Aggregated(@, e),
                   !.right = @ /\ AddsRight(r, {e})])
    BY <1>2
  <2> DEFINE n == Aggregated(op[r].files, e)
             c == AddsRight(r, {e})
             ok == op[r].right /\ c
  <2>1. e.files \in Nat
    BY ShownEntries DEF IInv, Entries, Keys
  <2>2. n \in Nat /\ n = e.files + op[r].files
    BY <1>1, <2>1 DEF Aggregated
  <2>3. Goes(r, [op[r] EXCEPT !.at = "remove", !.files = n, !.right = ok])
    OBVIOUS
  <2>4. c /\ op[r].recount => e.files = 0
    BY DEF AddsRight
  <2>5. ASSUME c, ~op[r].recount PROVE e.files \in Files("collection")
    <3>1. e \in Newest(live["collection"])
      BY <2>5 DEF AddsRight
    <3> QED
      BY <3>1, ReadsStored DEF Keys
  <2> HIDE DEF n, c
  <2>6. /\ ok \in BOOLEAN /\ (ok => op[r].right)
        /\ ok /\ op[r].recount => n = op[r].files
        /\ ok /\ ~op[r].recount => \E m \in Files("collection") : n = m + op[r].files
    BY <1>1, <2>1, <2>2, <2>4, <2>5
  <2> QED
    BY <2>2, <2>3, <2>6
<1>3. CASE Goes(r, [op[r] EXCEPT !.at = "remove", !.right = @ /\ AddsRight(r, {})])
  <2> DEFINE c == AddsRight(r, {})
             ok == op[r].right /\ c
  <2>1. ASSUME c, ~op[r].recount PROVE Files("collection") = {0}
    <3>1. Newest(live["collection"]) = {}
      BY <2>1 DEF AddsRight
    <3> QED
      BY <3>1, ReadsStored DEF Keys
  <2>2. Goes(r, [op[r] EXCEPT !.at = "remove", !.right = @ /\ c])
    BY <1>3
  <2> HIDE DEF c
  <2>3. [op[r] EXCEPT !.at = "remove", !.right = @ /\ c]
          = [op[r] EXCEPT !.at = "remove", !.files = op[r].files, !.right = ok]
    BY <1>1 DEF Ops
  <2>4. op[r].files = 0 + op[r].files
    BY <1>1
  <2> QED
    BY <1>1, <2>1, <2>2, <2>3, <2>4
<1> QED
  BY <1>2, <1>3 DEF Aggregate

LEMMA AggregateRight ==
  ASSUME IInv, RightInv, NEW r \in Requests, Aggregate(r) PROVE RightInv'
<1> PICK n \in Nat, ok \in BOOLEAN :
      /\ Goes(r, [op[r] EXCEPT !.at = "remove", !.files = n, !.right = ok])
      /\ ok => op[r].right
      /\ ok /\ op[r].recount => n = op[r].files
      /\ ok /\ ~op[r].recount => \E m \in Files("collection") : n = m + op[r].files
  BY AggregateAdds
<1> DEFINE o == [op[r] EXCEPT !.at = "remove", !.files = n, !.right = ok]
<1>1. op[r] \in Ops
  BY DEF IInv, TypeOK
<1>2. /\ o \in Ops /\ o.at = "remove" /\ o.files = n /\ o.right = ok
      /\ o.key = op[r].key /\ o.keys = op[r].keys /\ o.docs = op[r].docs
      /\ o.alone = op[r].alone /\ o.recount = op[r].recount
  BY <1>1 DEF Ops, Phases
<1>3. Goes(r, o) /\ TypeOK /\ Apart
  BY DEF IInv, RightInv
<1> HIDE DEF o
<1>4. Others(r) /\ Apart' /\ op'[r] = o
  BY <1>2, <1>3, GoesShape
<1>5. op[r].at = "aggregate" /\ UNCHANGED <<setting, exists, docs, table, want, sound>>
  BY DEF Aggregate
<1>6. HeldBy(op[r]) /\ OwnCount(r)
  BY DEF RightInv, Held
<1>7. op[r].keys = {"collection"} /\ op[r].key = "collection" /\ op[r].docs = {}
  BY <1>5, <1>6 DEF HeldBy, KeysWritten
<1>8. HeldBy(op'[r])
  BY <1>2, <1>4, <1>7 DEF HeldBy, KeysWritten
<1>9. ASSUME op[r].alone, ok, op[r].recount \/ sound["collection"]
      PROVE  n = Cardinality(docs)
  BY <1>5, <1>6, <1>7, <1>9 DEF OwnCount
<1>10. OwnCount(r)' /\ OwnFields(r)'
  BY <1>2, <1>4, <1>5, <1>7, <1>9 DEF OwnCount, OwnFields
<1>11. Recounts(r)' /\ ~Rewrites(r) /\ ~Taints(r)
  BY <1>2, <1>4, <1>7 DEF Recounts, Rewrites, Taints
<1> QED
  BY <1>4, <1>5, <1>8, <1>10, <1>11, CalmKeeps

LEMMA RecountRight ==
  ASSUME IInv, RightInv, NEW r \in Requests, Recount(r) PROVE RightInv'
<1> PICK ds \in Listings :
      Goes(r, [op[r] EXCEPT
        !.at = IF backend = "lancedb" THEN "aggregate" ELSE "remove",
        !.files = Cardinality(ds),
        !.right = (ds = docs)])
  BY DEF Recount
<1> DEFINE n == Cardinality(ds)
           ok == (ds = docs)
           a == IF backend = "lancedb" THEN "aggregate" ELSE "remove"
           o == [op[r] EXCEPT !.at = a, !.files = n, !.right = ok]
<1>1. op[r] \in Ops
  BY DEF IInv, TypeOK
<1>2. n \in Nat /\ ok \in BOOLEAN /\ a \in {"aggregate", "remove"}
      /\ (a = "aggregate" <=> backend = "lancedb") /\ (ok => n = Cardinality(docs))
  <2>1. ds \in SUBSET Docs
    BY DEF IInv, TypeOK, Listings
  <2> QED
    BY <2>1, DocsFinite
<1>3. Goes(r, o) /\ TypeOK /\ Apart
  BY DEF IInv, RightInv
<1> HIDE DEF n, ok, a
<1>4. /\ o \in Ops /\ o.at = a /\ o.files = n /\ o.right = ok
      /\ o.key = op[r].key /\ o.keys = op[r].keys /\ o.docs = op[r].docs
      /\ o.alone = op[r].alone /\ o.recount = op[r].recount
  BY <1>1, <1>2 DEF Ops, Phases
<1> HIDE DEF o
<1>5. Others(r) /\ Apart' /\ op'[r] = o
  BY <1>3, <1>4, GoesShape
<1>6. op[r].at = "count" /\ UNCHANGED <<setting, exists, docs, table, want, sound>>
  BY DEF Recount
<1>7. HeldBy(op[r])
  BY DEF RightInv, Held
<1>8. /\ op[r].keys = {"collection"} /\ op[r].key = "collection" /\ op[r].docs = {}
      /\ op[r].recount
  BY <1>6, <1>7 DEF HeldBy, KeysWritten
<1>9. HeldBy(op'[r])
  BY <1>2, <1>4, <1>5, <1>8 DEF HeldBy, KeysWritten
<1>10. OwnCount(r)' /\ OwnFields(r)'
  <2>1. op'[r].right => op'[r].files = Cardinality(docs')
    BY <1>2, <1>4, <1>5, <1>6
  <2>2. /\ op'[r].at \in {"aggregate", "remove"} /\ op'[r].docs = {}
        /\ op'[r].keys = {"collection"} /\ op'[r].recount
    BY <1>2, <1>4, <1>5, <1>8
  <2> QED
    BY <2>1, <2>2 DEF OwnCount, OwnFields
<1>11. Recounts(r)' /\ ~Rewrites(r) /\ ~Taints(r)
  BY <1>4, <1>5, <1>8 DEF Recounts, Rewrites, Taints
<1> QED
  BY <1>5, <1>6, <1>9, <1>10, <1>11, CalmKeeps

-----------------------------------------------------------------------------
(* The steps that write the table.                                         *)

LEMMA RemoveRight ==
  ASSUME IInv, RightInv, NEW r \in Requests, Remove(r) PROVE RightInv'
<1> DEFINE o == [op[r] EXCEPT !.at = "insert"]
<1>1. op[r] \in Ops /\ op[r].key \in {"collection", "catalog"}
  BY DEF IInv, TypeOK, Ops, Keys
<1>2. /\ o \in Ops /\ o.at = "insert" /\ o.key = op[r].key /\ o.keys = op[r].keys
      /\ o.files = op[r].files /\ o.fields = op[r].fields /\ o.docs = op[r].docs
      /\ o.alone = op[r].alone /\ o.recount = op[r].recount /\ o.right = op[r].right
  BY <1>1 DEF Ops, Phases
<1>3. Goes(r, o) /\ TypeOK /\ Apart
  BY DEF Remove, IInv, RightInv
<1> HIDE DEF o
<1>4. Others(r) /\ Apart' /\ op'[r] = o
  BY <1>2, <1>3, GoesShape
<1>5. /\ op[r].at = "remove" /\ UNCHANGED <<setting, exists, docs, want, sound>>
      /\ backend' = backend
  BY DEF Remove, setting
<1>6. \A k \in Keys : k # op[r].key => live'[k] = live[k]
  BY DEF Remove, IInv, TypeOK
<1>7. HeldBy(op[r]) /\ OwnCount(r) /\ OwnFields(r)
  BY DEF RightInv, Held
<1>8. /\ op[r].key \in op[r].keys
      /\ op[r].key = "collection" => op[r].keys = {"collection"}
  BY <1>1, <1>5, <1>7 DEF HeldBy, KeysWritten, Keys
<1>9. HeldBy(op'[r])
  BY <1>2, <1>4, <1>5, <1>7 DEF HeldBy, KeysWritten
<1>10. Leaves(r)
  BY <1>5, <1>6, <1>8 DEF Leaves
<1>11. OwnCount(r)'
  BY <1>2, <1>4, <1>5, <1>7 DEF OwnCount
<1>12. OwnFields(r)'
  BY <1>2, <1>4, <1>5, <1>7 DEF OwnFields
<1>13. (Recounts(r)' <=> Recounts(r)) /\ (Rewrites(r)' <=> Rewrites(r))
       /\ (Taints(r)' <=> Taints(r))
  BY <1>2, <1>4, <1>5 DEF Recounts, Rewrites, Taints
<1>14. Pending' = Pending
  BY <1>2, <1>4, <1>5, PendingKept
<1>15. CountRight'
  <2>1. op[r].key = "collection" => Recounts(r)'
    BY <1>2, <1>4, <1>8 DEF Recounts
  <2>2. op[r].key # "collection" => live'["collection"] = live["collection"]
    BY <1>6 DEF Keys
  <2> QED
    BY <1>4, <1>5, <1>13, <1>14, <2>1, <2>2, CountKept
<1>16. FieldsRight'
  <2>1. op[r].key = "catalog" => Rewrites(r)'
    BY <1>2, <1>4, <1>8 DEF Rewrites
  <2>2. op[r].key # "catalog" => live'["catalog"] = live["catalog"]
    BY <1>6 DEF Keys
  <2> QED
    BY <1>4, <1>5, <1>13, <2>1, <2>2, FieldsKept
<1>17. Forgotten'
  BY <1>4, <1>5, <1>13, ForgottenKept
<1> QED
  BY <1>4, <1>5, <1>9, <1>10, <1>11, <1>12, <1>15, <1>16, <1>17, StepKeeps

(* An entry that is put in the place of all others, or next to older ones  *)
(* that Elasticsearch does not show, is the one that is shown.             *)
LEMMA InsertShows ==
  ASSUME IInv, NEW k \in Keys, NEW e, e.no = count + 1, ~Doubles(k),
         live'[k] = live[k] \cup {e}, backend' = backend
  PROVE  Files(k)' = {e.files} /\ FieldsOf(k)' = {e.fields}
<1>1. \A f \in live[k] : f.no \in Nat /\ f.no <= count
  BY DEF IInv, TypeOK, Entries, Numbered
<1>2. count \in Nat
  BY DEF IInv, TypeOK
<1>3. Stored(k)' = {e}
  <2>1. CASE backend = "elastic"
    <3>1. Newest(live'[k]) = {e}
      BY <1>1, <1>2 DEF Newest
    <3> QED
      BY <2>1, <3>1 DEF Stored, Newest
  <2>2. CASE backend # "elastic"
    BY <2>2 DEF Doubles, Stored
  <2> QED
    BY <2>1, <2>2
<1> QED
  BY <1>3 DEF Files, FieldsOf

LEMMA InsertRight ==
  ASSUME IInv, RightInv, NEW r \in Requests, Insert(r) PROVE RightInv'
<1> DEFINE k == op[r].key
           e == [no |-> count + 1, by |-> ServerOf[r], files |-> op[r].files,
                 fields |-> op[r].fields]
           o == IF op[r].docs = {} THEN Done
                ELSE [op[r] EXCEPT !.at = "ingest", !.keys = {"collection"}]
           ok == op[r].alone /\ op[r].right /\ ~Doubles(k) /\ (op[r].recount \/ sound[k])
<1>1. op[r] \in Ops /\ k \in Keys /\ k \in {"collection", "catalog"}
  BY DEF IInv, TypeOK, Ops, Keys
<1>2. e.no = count + 1 /\ e.files = op[r].files /\ e.fields = op[r].fields
  OBVIOUS
<1>3. /\ op[r].at = "insert"
      /\ live' = [live EXCEPT ![k] = @ \cup {e}]
      /\ want' = IF k = "catalog" THEN want \cup op[r].fields ELSE want
      /\ sound' = [sound EXCEPT ![k] = ok]
      /\ Goes(r, o)
      /\ UNCHANGED <<setting, exists, docs>>
  BY DEF Insert
<1>4. /\ ok <=> op[r].alone /\ op[r].right /\ ~Doubles(k) /\ (op[r].recount \/ sound[k])
      /\ ok \in BOOLEAN
  BY <1>1
<1> HIDE DEF e, ok
<1>5. HeldBy(op[r]) /\ OwnCount(r) /\ OwnFields(r)
  BY DEF RightInv, Held
<1>6. /\ k = "collection" =>
           op[r].keys = {"collection"} /\ op[r].docs = {}
      /\ k = "catalog" =>
           /\ op[r].keys = IF op[r].docs = {} THEN {"catalog"} ELSE Keys
           /\ ~op[r].recount
  BY <1>3, <1>5 DEF HeldBy, KeysWritten
<1>7. Done \in Ops /\ Done.at = "done" /\ Done.keys = {}
  BY FreshTypes DEF Done, Fresh
<1>8. op[r].docs # {} =>
        /\ o \in Ops /\ o.at = "ingest" /\ o.keys = {"collection"}
        /\ o.docs = op[r].docs
        /\ o.alone = op[r].alone /\ o.recount = op[r].recount
  BY <1>1 DEF Ops, Phases, Keys
<1>9. op[r].docs = {} => o = Done
  OBVIOUS
<1> HIDE DEF o
<1>10. Others(r) /\ Apart' /\ op'[r] = o
  <2>1. o \in Ops /\ o.keys \subseteq op[r].keys /\ (o.keys = {} \/ o.alone = op[r].alone)
    BY <1>1, <1>6, <1>7, <1>8, <1>9 DEF Keys
  <2> QED
    BY <1>3, <2>1, GoesShape DEF IInv, RightInv
<1>11. /\ live'[k] = live[k] \cup {e}
       /\ sound'[k] = ok
       /\ \A j \in Keys : j # k => live'[j] = live[j] /\ sound'[j] = sound[j]
       /\ backend' = backend
  BY <1>1, <1>3 DEF IInv, TypeOK, setting
<1>12. HeldBy(op'[r])
  <2>1. CASE op[r].docs = {}
    BY <1>9, <1>10, <2>1 DEF Done, Fresh, HeldBy, KeysWritten
  <2>2. CASE op[r].docs # {}
    BY <1>1, <1>6, <1>8, <1>10, <2>2 DEF HeldBy, KeysWritten
  <2> QED
    BY <2>1, <2>2
<1>13. Leaves(r)
  <2>1. k \in op[r].keys
    BY <1>1, <1>6 DEF Keys
  <2> QED
    BY <1>1, <1>3, <1>11, <2>1 DEF Leaves
<1>14. OwnCount(r)'
  <2>1. CASE op[r].docs = {}
    BY <1>7, <1>9, <1>10, <2>1 DEF OwnCount
  <2>2. CASE op[r].docs # {}
    <3>1. k = "catalog" /\ "collection" \in op[r].keys
      BY <1>1, <1>6, <2>2 DEF Keys
    <3>2. op[r].alone => op[r].docs \cap docs = {}
      BY <1>3, <1>5, <3>1 DEF OwnCount
    <3> QED
      BY <1>3, <1>8, <1>10, <2>2, <3>2 DEF OwnCount
  <2> QED
    BY <2>1, <2>2
<1>15. "catalog" \notin op'[r].keys
  BY <1>7, <1>8, <1>9, <1>10
<1>16. OwnFields(r)' /\ ~Rewrites(r)' /\ ~Taints(r)'
  BY <1>15 DEF OwnFields, Rewrites, Taints
<1>17. CASE k = "collection"
  <2>1. op'[r] = Done /\ op[r].keys = {"collection"}
    BY <1>6, <1>9, <1>10, <1>17
  <2>2. CountRight'
    <3> SUFFICES ASSUME ok PROVE Files("collection")' = {Cardinality(docs' \ Pending')}
      BY <1>11, <1>17 DEF CountRight
    <3>1. op[r].files = Cardinality(docs)
      BY <1>3, <1>4, <1>5, <1>17, <2>1 DEF OwnCount
    <3>2. Files("collection")' = {op[r].files}
      BY <1>1, <1>2, <1>4, <1>11, <1>17, InsertShows
    <3>3. \A q \in Requests \ {r} : op[q].at # "written"
      BY <1>4, <2>1, Sole
    <3>4. Pending' = {}
      BY <1>7, <1>10, <2>1, <3>3 DEF Pending, Others
    <3> QED
      BY <1>3, <3>1, <3>2, <3>4
  <2>3. ~Rewrites(r) /\ ~Taints(r)
    BY <2>1 DEF Rewrites, Taints
  <2>4. live'["catalog"] = live["catalog"] /\ sound'["catalog"] = sound["catalog"]
        /\ want' = want
    BY <1>3, <1>11, <1>17 DEF Keys
  <2>5. FieldsRight' /\ Forgotten'
    BY <1>3, <1>10, <1>11, <2>3, <2>4, FieldsKept, ForgottenKept
  <2> QED
    BY <1>10, <1>11, <1>12, <1>13, <1>14, <1>16, <2>2, <2>5, StepKeeps
<1>18. CASE k = "catalog"
  <2>1. /\ live'["collection"] = live["collection"]
        /\ sound'["collection"] = sound["collection"]
    BY <1>11, <1>18 DEF Keys
  <2>2. Pending' = Pending
    BY <1>3, <1>7, <1>8, <1>9, <1>10, PendingKept
  <2>3. Recounts(r) => Recounts(r)'
    <3>1. CASE op[r].docs = {}
      BY <1>6, <1>18, <3>1 DEF Recounts
    <3>2. CASE op[r].docs # {}
      BY <1>3, <1>6, <1>8, <1>10, <1>11, <1>18, <3>2 DEF Recounts
    <3> QED
      BY <3>1, <3>2
  <2>4. CountRight'
    BY <1>3, <1>10, <1>11, <2>1, <2>2, <2>3, CountKept
  <2>5. "catalog" \in op[r].keys /\ (ok => op[r].alone /\ op[r].right /\ sound["catalog"])
    BY <1>4, <1>6, <1>18 DEF Keys
  <2>6. FieldsRight'
    <3> SUFFICES ASSUME ok PROVE FieldsOf("catalog")' = {want'}
      BY <1>11, <1>18 DEF FieldsRight
    <3>1. want \subseteq op[r].fields
      BY <1>3, <1>5, <2>5 DEF OwnFields
    <3>2. want' = op[r].fields
      BY <1>3, <1>18, <3>1
    <3>3. FieldsOf("catalog")' = {op[r].fields}
      BY <1>1, <1>2, <1>4, <1>11, <1>18, InsertShows
    <3> QED
      BY <3>2, <3>3
  <2>7. Forgotten'
    <3> SUFFICES ASSUME ok, ~exists PROVE want' = {}
      BY <1>3, <1>11, <1>18 DEF Forgotten
    <3>1. op[r].fields = {}
      BY <1>5, <2>5 DEF OwnFields
    <3>2. \A q \in Requests : ~Taints(q)
      BY <1>3, <2>5, Sole DEF Taints
    <3>3. want = {}
      BY <2>5, <3>2 DEF RightInv, Forgotten
    <3> QED
      BY <1>3, <3>1, <3>3
  <2> QED
    BY <1>10, <1>11, <1>12, <1>13, <1>14, <1>16, <2>4, <2>6, <2>7, StepKeeps
<1> QED
  BY <1>1, <1>17, <1>18

LEMMA PurgeRight ==
  ASSUME IInv, RightInv, NEW r \in Requests, Purge(r) PROVE RightInv'
<1>1. Done \in Ops /\ Done.at = "done" /\ Done.keys = {} /\ HeldBy(Done)
  BY FreshTypes DEF Done, Fresh, HeldBy, KeysWritten
<1>2. Others(r) /\ Apart' /\ op'[r] = Done
  BY <1>1, GoesShape DEF Purge, IInv, RightInv
<1>3. /\ op[r].at = "purge" /\ want' = {}
      /\ sound' = [k \in Keys |-> op[r].alone /\ live'[k] = {}]
      /\ UNCHANGED <<setting, exists, docs>>
  BY DEF Purge
<1>4. OwnCount(r) /\ op[r].keys = Keys
  BY <1>3 DEF RightInv, Held, HeldBy, KeysWritten
<1>5. Leaves(r) /\ backend' = backend
  BY <1>3, <1>4 DEF Leaves, setting
<1>6. OwnCount(r)' /\ OwnFields(r)'
  BY <1>1, <1>2 DEF OwnCount, OwnFields
<1>7. ASSUME NEW k \in Keys, sound'[k]
      PROVE  op[r].alone /\ Files(k)' = {0} /\ FieldsOf(k)' = {{}}
  <2>1. op[r].alone /\ live'[k] = {}
    BY <1>3, <1>7
  <2>2. Stored(k)' = {}
    BY <2>1 DEF Stored, Newest
  <2> QED
    BY <2>1, <2>2 DEF Files, FieldsOf
<1>8. CountRight'
  <2> SUFFICES ASSUME sound'["collection"]
               PROVE  Files("collection")' = {Cardinality(docs' \ Pending')}
    BY DEF CountRight
  <2>1. docs' = {}
    BY <1>3, <1>4, <1>7 DEF OwnCount, Keys
  <2>2. Cardinality(docs' \ Pending') = 0
    BY <2>1, FS_EmptySet
  <2> QED
    BY <1>7, <2>2 DEF Keys
<1>9. FieldsRight' /\ Forgotten'
  BY <1>3, <1>7 DEF FieldsRight, Forgotten, Keys
<1> QED
  BY <1>1, <1>2, <1>5, <1>6, <1>8, <1>9, StepKeeps

LEMMA BreakRight ==
  ASSUME IInv, RightInv, NEW r \in Requests, Break(r) PROVE RightInv'
<1>1. Done \in Ops /\ Done.at = "done" /\ Done.keys = {} /\ HeldBy(Done)
  BY FreshTypes DEF Done, Fresh, HeldBy, KeysWritten
<1>2. Others(r) /\ Apart' /\ op'[r] = Done
  BY <1>1, GoesShape DEF Break, IInv, RightInv
<1>3. /\ \A k \in Keys : sound'[k] => sound[k] /\ k \notin op[r].keys
      /\ UNCHANGED <<setting, exists, docs, table, want>>
  BY DEF Break
<1>4. Leaves(r) /\ backend' = backend
  BY <1>3 DEF Leaves, table, setting
<1>5. OwnCount(r)' /\ OwnFields(r)'
  BY <1>1, <1>2 DEF OwnCount, OwnFields
<1>6. op[r].at = "written" => "collection" \in op[r].keys
  BY DEF RightInv, Held, HeldBy, KeysWritten
<1>7. sound'["collection"] =>
        sound["collection"] /\ ~Recounts(r) /\ docs' \ Pending' = docs \ Pending
  BY <1>1, <1>2, <1>3, <1>6, PendingKept DEF Recounts, Keys
<1>8. CountRight'
  BY <1>2, <1>3, <1>4, <1>7, CountKept DEF table
<1>9. sound'["catalog"] => sound["catalog"] /\ ~Rewrites(r) /\ ~Taints(r)
  BY <1>3 DEF Rewrites, Taints, Keys
<1>10. FieldsRight' /\ Forgotten'
  BY <1>2, <1>3, <1>4, <1>9, FieldsKept, ForgottenKept DEF table
<1> QED
  BY <1>1, <1>2, <1>4, <1>5, <1>8, <1>10, StepKeeps

(* Refresh changes only what a search sees.                                *)
LEMMA UnseenRight ==
  ASSUME RightInv, UNCHANGED <<setting, exists, docs, live, op, want, sound>>
  PROVE  RightInv'
<1>1. backend' = backend
  BY DEF setting
<1>2. Files("collection")' = Files("collection") /\ FieldsOf("catalog")' = FieldsOf("catalog")
  BY <1>1, StoredKept DEF Keys
<1>3. Held'
  BY <1>1 DEF RightInv, Held, HeldBy, KeysWritten
<1>4. Apart'
  BY DEF RightInv, Apart
<1>5. CountRight'
  BY <1>1, <1>2 DEF RightInv, CountRight, Recounts, Pending
<1>6. FieldsRight'
  BY <1>2 DEF RightInv, FieldsRight, Rewrites
<1>7. \A r \in Requests : OwnCount(r)' /\ OwnFields(r)'
  BY <1>2 DEF RightInv, OwnCount, OwnFields
<1>8. Forgotten'
  BY DEF RightInv, Forgotten, Taints
<1> QED
  BY <1>3, <1>4, <1>5, <1>6, <1>7, <1>8 DEF RightInv

LEMMA InitRight == Init => RightInv
<1> SUFFICES ASSUME Init PROVE RightInv
  OBVIOUS
<1>1. \A r \in Requests : op[r] = Fresh /\ op[r].at = "idle" /\ op[r].keys = {}
  BY DEF Init, Fresh
<1>2. Held
  BY <1>1 DEF Held, HeldBy, KeysWritten, Fresh
<1>3. Apart
  BY <1>1 DEF Apart
<1>4. \A k \in Keys : Files(k) = {0} /\ FieldsOf(k) = {{}}
  BY DEF Init, Files, FieldsOf, Stored, Newest
<1>5. Cardinality(docs \ Pending) = 0
  BY FS_EmptySet DEF Init
<1>6. CountRight
  BY <1>4, <1>5 DEF CountRight, Keys
<1>7. FieldsRight /\ Forgotten
  BY <1>4 DEF Init, FieldsRight, Forgotten, Keys
<1>8. \A r \in Requests : OwnCount(r) /\ OwnFields(r)
  BY <1>1 DEF OwnCount, OwnFields
<1> QED
  BY <1>2, <1>3, <1>6, <1>7, <1>8 DEF RightInv

LEMMA NextRight == IInv /\ RightInv /\ [Next]_vars => RightInv'
<1> SUFFICES ASSUME IInv, RightInv, [Next]_vars PROVE RightInv'
  OBVIOUS
<1>1. ASSUME NEW r \in Requests,
             \/ Create(r) \/ CreateBare(r) \/ Created(r) \/ Patch(r) \/ Get(r)
             \/ Upload(r) \/ Write(r) \/ Report(r) \/ Unreported(r) \/ Aggregate(r)
             \/ Delete(r) \/ Recount(r) \/ Remove(r) \/ Insert(r)
             \/ Drop(r) \/ Purge(r) \/ Break(r)
      PROVE  RightInv'
  BY <1>1, CreateRight, CreateBareRight, CreatedRight, PatchRight, GetRight,
     UploadRight, WriteRight, ReportRight, UnreportedRight, AggregateRight, DeleteRight,
     RecountRight, RemoveRight, InsertRight, DropRight, PurgeRight, BreakRight
<1>2. CASE Refresh \/ UNCHANGED vars
  BY <1>2, UnseenRight DEF Refresh, vars, table
<1> QED
  BY <1>1, <1>2 DEF Next

(* number_of_files is the number of documents and the catalog has all that *)
(* was set, in Milvus, Elasticsearch and LanceDB, whatever the requests of *)
(* any number of servers do to the table document_info, unless one of the  *)
(* listed events has come in between (add_document_info, delete_documents, *)
(* update_catalog_metadata).                                               *)
THEOREM InfoStaysRight == Spec => []InfoRight
<1>1. RightInv => InfoRight
  <2> SUFFICES ASSUME RightInv PROVE InfoRight
    OBVIOUS
  <2>1. ASSUME Quiet("collection"), sound["collection"]
        PROVE  Files("collection") = {Cardinality(docs)}
    <3>1. \A r \in Requests : ~Recounts(r)
      BY <2>1 DEF Quiet, Recounts
    <3>2. \A r \in Requests : op[r].at # "written"
      BY <2>1 DEF Quiet, RightInv, Held, HeldBy, KeysWritten
    <3>3. docs \ Pending = docs
      BY <3>2 DEF Pending
    <3> QED
      BY <2>1, <3>1, <3>3 DEF RightInv, CountRight
  <2>2. ASSUME Quiet("catalog"), sound["catalog"]
        PROVE  FieldsOf("catalog") = {want}
    BY <2>2 DEF Quiet, Rewrites, RightInv, FieldsRight
  <2> QED
    BY <2>1, <2>2 DEF InfoRight
<1> QED
  BY <1>1, InitRight, NextRight, Invariance, PTL DEF Spec
=============================================================================
