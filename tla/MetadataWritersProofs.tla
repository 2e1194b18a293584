----------------------- MODULE MetadataWritersProofs -----------------------
(***************************************************************************)
(* Theorems about MetadataWriters for any number of imports and containers,*)
(* any bundles and any rows the database begins with.                      *)
(*                                                                         *)
(* First lemmas about rows and about what each statement writes, then the  *)
(* inductive invariant, one part of it at a time, then the properties, and *)
(* last the refinement of ReplaceImport.                                   *)
(***************************************************************************)
EXTENDS MetadataWriters, TLAPS

(* The labels at which a statement has been carried out. *)
PastTables         == {"children", "commit"}
PastDatasources    == {"tables"} \union PastTables
PastDeletes        == {"datasources"} \union PastDatasources
PastDeleteTables   == {"deleteDatasources"} \union PastDeletes
PastDeleteChildren == {"deleteTables"} \union PastDeleteTables
PastPolicy         == {"deleteChildren"} \union PastDeleteChildren
Deleting           == {"deleteChildren", "deleteTables", "deleteDatasources"}

Ended == {"done", "failed", "refused"}
Label == {"absent", "start", "create", "begin", "commit", "done", "failed", "refused"}
           \union Writing

Parts == {"ds", "table", "child"}
InsertedAt(kind) ==
  IF kind = "ds" THEN PastDatasources ELSE IF kind = "table" THEN PastTables ELSE {"commit"}
DeletedAt(kind) ==
  IF kind = "ds" THEN PastDeletes ELSE IF kind = "table" THEN PastDeleteTables
                                       ELSE PastDeleteChildren

PolicyRow(p) == Row("policy", "default_select_guard", p)
Enabled(r) == [r EXCEPT !.enabled = TRUE]
Seeded == {FullName(r) : r \in SeedRows}

-----------------------------------------------------------------------------
(* The inductive invariant. *)

(* Where a program is, and what it has then. *)
Phase(p) ==
  /\ pc[p] = "create" => missing[p] \subseteq Table /\ Table \subseteq schema \union missing[p]
  /\ pc[p] \in {"begin"} \union InTransaction => schema = Table
  /\ pc[p] \notin InTransaction => view[p] = {} /\ gone[p] = {} /\ added[p] = {}
  /\ p \in Import /\ pc[p] \in {"create", "begin"} \union InTransaction => bundle[p] \in Offered
  /\ pc[p] \in Deleting => p \in Import

Phases ==
  /\ schema \subseteq Table
  /\ pc \in [Program -> Label] /\ bundle \in [Program -> Offered \union {NoBundle}]
  /\ DOMAIN missing = Program
  /\ DOMAIN view = Program /\ DOMAIN gone = Program /\ DOMAIN added = Program
  /\ \A p \in Program : Phase(p)

(* What a transaction has read and written is known from its label. *)
AddedByImport(p) ==
  /\ \A a \in added[p] :
       \/ a = PolicyRow(p)
       \/ \E kind \in Parts : pc[p] \in InsertedAt(kind) /\ a \in BundleRows(bundle[p], kind, p)
  /\ \A kind \in Parts :
       pc[p] \in InsertedAt(kind) => BundleRows(bundle[p], kind, p) \subseteq added[p]

GoneByImport(p) ==
  \A g \in gone[p] :
    \/ g.kind \in {"ds", "table"} /\ Id(g) \in ImportedIds(view[p], g.kind)
    \/ Kind(g) = "child" /\ g.table \in ImportedIds(view[p], "table")

AddedByContainer(p) ==
  \A a \in added[p] :
    /\ ~a.imported
    /\ a.kind = "policy" \/ \E kind \in Parts : pc[p] \in InsertedAt(kind) /\ Kind(a) = kind
    /\ a.table # None => a.table[3] \in SeedTables
    /\ \/ a.by = p /\ FullName(a) \in Seeded \union {FullName(PolicyRow(p))}
       \/ \E g \in gone[p] : a = Enabled(g)

GoneByContainer(p) ==
  \A g \in gone[p] : g.kind = "ds" /\ ~g.imported /\ Enabled(g) \in added[p]

PolicySeen(p) == \E r \in Sees(p) : Key(r) = Key(PolicyRow(p))
SeedsSeen(p, kind) ==
  \A s \in SeedRows : Kind(s) = kind => \E r \in Sees(p) : FullName(r) = FullName(s)

Session(p) ==
  /\ \A r \in view[p] \union added[p] : RowOK(r)
  /\ ~Violates(view[p], view[p])
  /\ p \in Import => AddedByImport(p) /\ GoneByImport(p)
  /\ p \in Container =>
       /\ AddedByContainer(p) /\ GoneByContainer(p)
       /\ \A kind \in Parts : pc[p] \in InsertedAt(kind) => SeedsSeen(p, kind)
  /\ pc[p] \in PastPolicy => PolicySeen(p)

Sessions == \A p \in Program : Session(p)

(* The rows there are and the rows there will be satisfy the constraints.  *)
Sound ==
  /\ \A r \in db : RowOK(r) /\ (r.imported => r.by # "operator")
  /\ ~Violates(db, db)
  /\ \A p \in Program : gone[p] \subseteq db /\ ~Violates(Writes(p), Writes(p))

(* Two transactions write neither one row nor a row and a child of it.     *)
Apart(p, q) ==
  \A r \in gone[p] \union added[p], h \in gone[q] \union added[q] :
    Key(r) # Key(h) /\ Id(h) \notin References(r) /\ Id(r) \notin References(h)
Disjoint == \A p, q \in Program : p # q => Apart(p, q)

(* No row is there under the name of a program that has not committed.     *)
Fresh ==
  \A p \in Program : pc[p] \notin Ended =>
    (\A r \in db : r.by # p) /\ \A q \in Program : \A r \in view[q] : r.by # p

(* What a view says of the rows that are there: a row that is no import's  *)
(* stays, an id keeps its mark, and the rows of an import come together;   *)
(* what was deleted does not come back.                                    *)
Current(p) ==
  /\ \A v \in view[p], r \in db :
       Id(v) = Id(r) /\ r.kind \in {"ds", "table"} => v.imported = r.imported
  /\ \A v \in view[p] : ~OfImport(view[p], v) => \E r \in db : SameRow(v, r)
  /\ \A v \in view[p], r \in db :
       v.imported /\ r.imported /\ v.by = r.by => \E u \in view[p] : SameRow(u, r)
  /\ \A kind \in Parts :
       p \in Import /\ pc[p] \in DeletedAt(kind) => PreviousImport(p, kind) = {}
Views == \A p \in Program : Current(p)

IInv == Phases /\ Sessions /\ Sound /\ Disjoint /\ Fresh /\ Views

-----------------------------------------------------------------------------
(* Rows. *)

(* Switching a row off or on changes nothing else about it.                *)
LEMMA SwitchedRow ==
  ASSUME NEW r, RowOK(r), NEW b \in BOOLEAN
  PROVE  LET e == [r EXCEPT !.enabled = b] IN
         /\ RowOK(e) /\ e.enabled = b
         /\ e.kind = r.kind /\ e.name = r.name /\ e.by = r.by /\ e.table = r.table
         /\ e.ds = r.ds /\ e.data = r.data /\ e.imported = r.imported
<1> DEFINE e == [r EXCEPT !.enabled = b]
<1>1. r = [kind |-> r.kind, name |-> r.name, by |-> r.by, table |-> r.table, ds |-> r.ds,
           data |-> r.data, imported |-> r.imported, enabled |-> r.enabled]
  BY DEF RowOK
<1>2. e = [kind |-> r.kind, name |-> r.name, by |-> r.by, table |-> r.table, ds |-> r.ds,
           data |-> r.data, imported |-> r.imported, enabled |-> b]
  BY <1>1
<1>3. /\ e.enabled = b
      /\ e.kind = r.kind /\ e.name = r.name /\ e.by = r.by /\ e.table = r.table
      /\ e.ds = r.ds /\ e.data = r.data /\ e.imported = r.imported
  BY <1>2
<1> HIDE DEF e
<1>4. RowOK(e)
  BY <1>2, <1>3 DEF RowOK, Kind, Id
<1> QED BY <1>3, <1>4 DEF e

LEMMA EnabledRow ==
  ASSUME NEW r, RowOK(r)
  PROVE  LET e == Enabled(r) IN
         /\ RowOK(e) /\ e.enabled
         /\ e.kind = r.kind /\ e.name = r.name /\ e.by = r.by /\ e.table = r.table
         /\ e.ds = r.ds /\ e.data = r.data /\ e.imported = r.imported
         /\ Key(e) = Key(r) /\ Id(e) = Id(r) /\ References(e) = References(r)
         /\ Kind(e) = Kind(r) /\ FullName(e) = FullName(r) /\ SameRow(e, r)
<1> DEFINE e == Enabled(r)
<1>1. /\ RowOK(e) /\ e.enabled
      /\ e.kind = r.kind /\ e.name = r.name /\ e.by = r.by /\ e.table = r.table
      /\ e.ds = r.ds /\ e.data = r.data /\ e.imported = r.imported
  BY SwitchedRow DEF Enabled
<1> HIDE DEF e
<1> QED BY <1>1 DEF Key, Id, References, Kind, FullName, SameRow, e

(* A factor, a rule and a route have a table, and a route a datasource;    *)
(* what refers to a row is one of these.                                   *)
LEMMA Columns ==
  ASSUME NEW r, RowOK(r)
  PROVE  /\ r.kind \in Kinds /\ r.by \in Author /\ r.name \in Name
         /\ Id(r) # None
         /\ IF Kind(r) = "child"
            THEN r.table \in RowId /\ r.table # None /\ r.table[2] = "table"
            ELSE r.table = None
         /\ IF r.kind = "route"
            THEN r.ds \in RowId /\ r.ds # None /\ r.ds[2] = "ds"
            ELSE r.ds = None
         /\ Kind(r) = "child" <=> r.kind \in {"factor", "rule", "route"}
         /\ Kind(r) \in {"policy", "ds", "table", "child"}
         /\ Kind(r) # "child" => Kind(r) = r.kind
         /\ r.imported => r.kind \in {"ds", "table"} /\ r.name \notin SeedNames
<1>1. r.kind \in Kinds /\ r.by \in Author /\ r.name \in Name
  BY DEF RowOK, RowId, Id
<1>2. Id(r) # None
  BY NameAssumption DEF RowOK
<1>3. /\ Kind(r) = "child" <=> r.kind \in {"factor", "rule", "route"}
      /\ Kind(r) \in {"policy", "ds", "table", "child"}
      /\ Kind(r) # "child" => Kind(r) = r.kind
  BY <1>1 DEF Kind, Kinds
<1>4. Kind(r) = "child" => r.table \in RowId /\ r.table # None /\ r.table[2] = "table"
  BY NameAssumption DEF RowOK, ForeignKey
<1>5. r.kind = "route" => r.ds \in RowId /\ r.ds # None /\ r.ds[2] = "ds"
  BY NameAssumption DEF RowOK, ForeignKey
<1>6. /\ Kind(r) # "child" => r.table = None
      /\ r.kind # "route" => r.ds = None
      /\ r.imported => r.kind \in {"ds", "table"} /\ r.name \notin SeedNames
  BY DEF RowOK
<1> QED BY <1>1, <1>2, <1>3, <1>4, <1>5, <1>6

(* An id of a datasource or a table is the id of one row.                  *)
LEMMA IdGivesKey ==
  ASSUME NEW a, NEW b, RowOK(a), RowOK(b), Id(a) = Id(b), a.kind \in {"ds", "table"}
  PROVE  Key(a) = Key(b) /\ a.kind = b.kind /\ a.name = b.name /\ a.by = b.by
<1>1. a.kind = b.kind /\ a.name = b.name /\ a.by = b.by
  BY DEF Id
<1>2. Kind(a) # "child" /\ Kind(b) # "child"
  BY <1>1 DEF Kind
<1>3. a.table = None /\ b.table = None
  BY <1>2, Columns
<1> QED BY <1>1, <1>3 DEF Key

LEMMA WhatIsReferredTo ==
  ASSUME NEW a, NEW t, RowOK(a), Id(t) \in References(a)
  PROVE  /\ Kind(a) = "child"
         /\ \/ t.kind = "table" /\ Id(t) = a.table
            \/ t.kind = "ds" /\ Id(t) = a.ds /\ a.kind = "route"
<1>1. Id(t)[2] = t.kind
  BY DEF Id
<1>2. \/ Id(t) = a.table /\ a.table # None
      \/ Id(t) = a.ds /\ a.ds # None
  BY DEF References
<1>3. Kind(a) = "child" => a.table[2] = "table"
  BY Columns
<1>4. a.kind = "route" => a.ds[2] = "ds"
  BY Columns
<1>5. /\ Kind(a) # "child" => a.table = None
      /\ a.kind # "route" => a.ds = None
      /\ a.kind = "route" => Kind(a) = "child"
  BY Columns
<1> QED BY <1>1, <1>2, <1>3, <1>4, <1>5

(* In rows that satisfy the constraints a key and a reference mean one row.*)
LEMMA OneRow ==
  ASSUME NEW rows, ~Violates(rows, rows), NEW a \in rows
  PROVE  /\ \A b \in rows : Key(a) = Key(b) => a = b
         /\ \A id \in References(a) : \E t \in rows : Id(t) = id
BY DEF Violates, Ids

LEMMA SoundRows ==
  ASSUME NEW rows,
         \A a, b \in rows : Key(a) = Key(b) => a = b,
         \A a \in rows : \A id \in References(a) : \E t \in rows : Id(t) = id
  PROVE  ~Violates(rows, rows)
BY DEF Violates, Ids

-----------------------------------------------------------------------------
(* What the statements insert. *)

LEMMA RowFrom ==
  ASSUME NEW r,
         r = [kind |-> r.kind, name |-> r.name, by |-> r.by, table |-> r.table, ds |-> r.ds,
              data |-> r.data, imported |-> r.imported, enabled |-> r.enabled],
         r.kind \in Kinds, r.name \in Name, r.by \in Author,
         r.imported \in BOOLEAN, r.enabled \in BOOLEAN,
         IF r.kind \in {"factor", "rule", "route"} THEN r.table \in ForeignKey("table")
                                                   ELSE r.table = None,
         IF r.kind = "route" THEN r.ds \in ForeignKey("ds") ELSE r.ds = None,
         r.imported => r.kind \in {"ds", "table"} /\ r.name \notin SeedNames
  PROVE  RowOK(r)
<1>1. Id(r) \in RowId
  BY DEF Id, RowId
<1> QED BY <1>1 DEF RowOK, Kind, Kinds

LEMMA PolicyRowIs ==
  ASSUME NEW p \in Program
  PROVE  LET r == PolicyRow(p) IN
         /\ RowOK(r) /\ r.kind = "policy" /\ r.by = p /\ r.table = None /\ r.ds = None
         /\ ~r.imported /\ References(r) = {}
<1> DEFINE r == PolicyRow(p)
<1>1. r = [kind |-> "policy", name |-> "default_select_guard", by |-> p, table |-> None,
           ds |-> None, data |-> None, imported |-> FALSE, enabled |-> TRUE]
  BY DEF PolicyRow, Row
<1>2. "default_select_guard" \in Name /\ p \in Author /\ "policy" \in Kinds
  BY NameAssumption, ProgramAssumption DEF Kinds
<1> HIDE DEF r
<1>4. r.kind = "policy" /\ r.by = p /\ r.table = None /\ r.ds = None /\ ~r.imported
  BY <1>1
<1>5. RowOK(r)
  BY <1>1, <1>2, RowFrom
<1>6. References(r) = {}
  BY <1>4 DEF References
<1> QED BY <1>4, <1>5, <1>6 DEF r

LEMMA ForeignKeyIs ==
  ASSUME NEW by \in Author, NEW kind \in Kinds, NEW name \in Name
  PROVE  <<by, kind, name>> \in ForeignKey(kind)
BY DEF ForeignKey, RowId

LEMMA ChildRowIs ==
  ASSUME NEW p, NEW kind \in {"factor", "rule", "route"}, NEW name, NEW l, NEW data
  PROVE  ChildRow(kind, name, l, data, p) =
           [kind |-> kind, name |-> name, by |-> p, table |-> <<p, "table", l>>, ds |-> None,
            data |-> data, imported |-> FALSE, enabled |-> TRUE]
<1> DEFINE t == <<p, "table", l>>
           b == Row(kind, name, p)
           r == [b EXCEPT !.table = t, !.data = data]
<1>1. r = [b EXCEPT !.table = t, !.data = data]
  OBVIOUS
<1>2. b = [kind |-> kind, name |-> name, by |-> p, table |-> None, ds |-> None, data |-> None,
           imported |-> FALSE, enabled |-> TRUE]
  BY DEF Row
<1>3. ChildRow(kind, name, l, data, p) = r
  BY DEF ChildRow
<1> HIDE DEF t, b, r
<1>4. r = [kind |-> kind, name |-> name, by |-> p, table |-> t, ds |-> None, data |-> data,
           imported |-> FALSE, enabled |-> TRUE]
  BY <1>1, <1>2
<1> QED BY <1>3, <1>4 DEF t

LEMMA FactorOrRuleIs ==
  ASSUME NEW p \in Author, NEW kind \in {"factor", "rule"}, NEW name \in Name, NEW l \in Name,
         NEW data
  PROVE  LET r == ChildRow(kind, name, l, data, p) IN
         /\ RowOK(r) /\ r.kind = kind /\ r.name = name /\ r.by = p /\ r.data = data
         /\ r.table = <<p, "table", l>> /\ r.ds = None /\ ~r.imported /\ r.enabled
<1> DEFINE r == ChildRow(kind, name, l, data, p)
           t == <<p, "table", l>>
<1>1. r = [kind |-> kind, name |-> name, by |-> p, table |-> t,
           ds |-> None, data |-> data, imported |-> FALSE, enabled |-> TRUE]
  BY ChildRowIs
<1>2. t \in ForeignKey("table")
  BY ForeignKeyIs DEF Kinds
<1>3. kind \in Kinds
  BY DEF Kinds
<1> HIDE DEF r, t
<1>4. /\ r.kind = kind /\ r.name = name /\ r.by = p /\ r.data = data
      /\ r.table = t /\ r.ds = None /\ ~r.imported /\ r.enabled
  BY <1>1
<1>5. RowOK(r)
  BY <1>1, <1>2, <1>3, <1>4, RowFrom
<1> QED BY <1>4, <1>5 DEF r, t

LEMMA RouteRowIs ==
  ASSUME NEW p, NEW name, NEW l, NEW d, NEW data
  PROVE  RouteRow(name, l, data, d, p) =
           [kind |-> "route", name |-> name, by |-> p, table |-> <<p, "table", l>>,
            ds |-> <<p, "ds", d>>, data |-> data, imported |-> FALSE, enabled |-> TRUE]
<1> DEFINE t == <<p, "table", l>>
           s == <<p, "ds", d>>
           b == ChildRow("route", name, l, data, p)
           r == [b EXCEPT !.ds = s]
<1>1. r = [b EXCEPT !.ds = s]
  OBVIOUS
<1>2. b = [kind |-> "route", name |-> name, by |-> p, table |-> t, ds |-> None, data |-> data,
           imported |-> FALSE, enabled |-> TRUE]
  BY ChildRowIs
<1>3. RouteRow(name, l, data, d, p) = r
  BY DEF RouteRow
<1> HIDE DEF t, s, b, r
<1>4. r = [kind |-> "route", name |-> name, by |-> p, table |-> t, ds |-> s, data |-> data,
           imported |-> FALSE, enabled |-> TRUE]
  BY <1>1, <1>2
<1> QED BY <1>3, <1>4 DEF t, s

LEMMA RouteIs ==
  ASSUME NEW p \in Author, NEW name \in Name, NEW l \in Name, NEW d \in Name, NEW data
  PROVE  LET r == RouteRow(name, l, data, d, p) IN
         /\ RowOK(r) /\ r.kind = "route" /\ r.name = name /\ r.by = p /\ r.data = data
         /\ r.table = <<p, "table", l>> /\ r.ds = <<p, "ds", d>> /\ ~r.imported /\ r.enabled
<1> DEFINE t == <<p, "table", l>>
           s == <<p, "ds", d>>
           r == RouteRow(name, l, data, d, p)
<1>1. t \in ForeignKey("table") /\ s \in ForeignKey("ds") /\ "route" \in Kinds
  BY ForeignKeyIs DEF Kinds
<1>2. r = [kind |-> "route", name |-> name, by |-> p, table |-> t, ds |-> s, data |-> data,
           imported |-> FALSE, enabled |-> TRUE]
  BY RouteRowIs
<1> HIDE DEF t, s, r
<1>3. /\ r.kind = "route" /\ r.name = name /\ r.by = p /\ r.data = data
      /\ r.table = t /\ r.ds = s /\ ~r.imported /\ r.enabled
  BY <1>2
<1>4. RowOK(r)
  BY <1>1, <1>2, <1>3, RowFrom
<1> QED BY <1>3, <1>4 DEF r, t, s

LEMMA ImportedRowIs ==
  ASSUME NEW p \in Author, NEW kind \in {"ds", "table"}, NEW name \in Name \ SeedNames
  PROVE  LET r == ImportedRow(kind, name, p) IN
         /\ RowOK(r) /\ r.kind = kind /\ r.name = name /\ r.by = p /\ r.data = None
         /\ r.table = None /\ r.ds = None /\ r.imported /\ r.enabled
<1> DEFINE b == Row(kind, name, p)
           r == [b EXCEPT !.imported = TRUE]
<1>1. r = [b EXCEPT !.imported = TRUE]
  OBVIOUS
<1>2. b = [kind |-> kind, name |-> name, by |-> p, table |-> None, ds |-> None, data |-> None,
           imported |-> FALSE, enabled |-> TRUE]
  BY DEF Row
<1>3. kind \in Kinds
  BY DEF Kinds
<1>0. ImportedRow(kind, name, p) = r
  BY DEF ImportedRow
<1> HIDE DEF b, r
<1>4. r = [kind |-> kind, name |-> name, by |-> p, table |-> None, ds |-> None, data |-> None,
           imported |-> TRUE, enabled |-> TRUE]
  BY <1>1, <1>2
<1>5. /\ r.kind = kind /\ r.name = name /\ r.by = p /\ r.data = None
      /\ r.table = None /\ r.ds = None /\ r.imported /\ r.enabled
  BY <1>4
<1>6. RowOK(r)
  BY <1>3, <1>4, <1>5, RowFrom
<1> QED BY <1>0, <1>5, <1>6

-----------------------------------------------------------------------------
(* The rows of a bundle: all by the import, datasources and tables marked, *)
(* and what the others refer to comes with them.                           *)
BundleRowFacts(a, b, kind, p) ==
  /\ RowOK(a) /\ a.by = p /\ Kind(a) = kind
  /\ a.imported <=> kind # "child"
  /\ kind = "ds" => a.name \in b.datasources
  /\ kind = "table" => a.name \in b.tables
  /\ kind = "child" => \E l \in b.tables : a.table = <<p, "table", l>>
  /\ a.ds # None => \E d \in b.datasources : a.ds = <<p, "ds", d>>

LEMMA BundleRowIs ==
  ASSUME NEW p \in Program, NEW b, BundleOK(b), NEW kind \in Parts,
         NEW a \in BundleRows(b, kind, p)
  PROVE  BundleRowFacts(a, b, kind, p)
<1>1. p \in Author
  BY ProgramAssumption
<1>2. CASE kind = "ds"
  <2>1. PICK d \in b.datasources : a = ImportedRow("ds", d, p)
    BY <1>2 DEF BundleRows
  <2>2. d \in Name \ SeedNames
    BY DEF BundleOK
  <2>3. RowOK(a) /\ a.kind = "ds" /\ a.name = d /\ a.by = p /\ a.ds = None /\ a.imported
    BY <1>1, <2>1, <2>2, ImportedRowIs
  <2> QED BY <1>2, <2>3 DEF BundleRowFacts, Kind
<1>3. CASE kind = "table"
  <2>1. PICK l \in b.tables : a = ImportedRow("table", l, p)
    BY <1>3 DEF BundleRows
  <2>2. l \in Name \ SeedNames
    BY DEF BundleOK
  <2>3. RowOK(a) /\ a.kind = "table" /\ a.name = l /\ a.by = p /\ a.ds = None /\ a.imported
    BY <1>1, <2>1, <2>2, ImportedRowIs
  <2> QED BY <1>3, <2>3 DEF BundleRowFacts, Kind
<1>4. CASE kind = "child"
  <2>1. \/ \E f \in b.factors : a = ChildRow("factor", f.name, f.logical, f.sourceKey, p)
        \/ \E u \in b.rules : a = ChildRow("rule", u.kind, u.logical, None, p)
        \/ \E t \in b.routes :
             a = RouteRow(t.value, t.logical, <<t.physical, t.segment>>, t.ds, p)
    BY <1>4 DEF BundleRows
  <2>2. ASSUME NEW f \in b.factors, a = ChildRow("factor", f.name, f.logical, f.sourceKey, p)
        PROVE  BundleRowFacts(a, b, kind, p)
    <3>1. f.name \in Name /\ f.logical \in b.tables /\ f.logical \in Name
      BY DEF BundleOK
    <3>2. /\ RowOK(a) /\ a.kind = "factor" /\ a.by = p /\ a.table = <<p, "table", f.logical>>
          /\ a.ds = None /\ ~a.imported
      BY <1>1, <2>2, <3>1, FactorOrRuleIs
    <3> QED BY <1>4, <3>1, <3>2 DEF BundleRowFacts, Kind
  <2>3. ASSUME NEW u \in b.rules, a = ChildRow("rule", u.kind, u.logical, None, p)
        PROVE  BundleRowFacts(a, b, kind, p)
    <3>1. u.kind \in Name /\ u.logical \in b.tables /\ u.logical \in Name
      BY DEF BundleOK
    <3>2. /\ RowOK(a) /\ a.kind = "rule" /\ a.by = p /\ a.table = <<p, "table", u.logical>>
          /\ a.ds = None /\ ~a.imported
      BY <1>1, <2>3, <3>1, FactorOrRuleIs
    <3> QED BY <1>4, <3>1, <3>2 DEF BundleRowFacts, Kind
  <2>4. ASSUME NEW t \in b.routes,
               a = RouteRow(t.value, t.logical, <<t.physical, t.segment>>, t.ds, p)
        PROVE  BundleRowFacts(a, b, kind, p)
    <3>1. /\ t.value \in Name /\ t.logical \in b.tables /\ t.logical \in Name
          /\ t.ds \in b.datasources /\ t.ds \in Name
      BY DEF BundleOK
    <3>2. /\ RowOK(a) /\ a.kind = "route" /\ a.by = p /\ a.table = <<p, "table", t.logical>>
          /\ a.ds = <<p, "ds", t.ds>> /\ ~a.imported
      BY <1>1, <2>4, <3>1, RouteIs
    <3> QED BY <1>4, <3>1, <3>2 DEF BundleRowFacts, Kind
  <2> QED BY <2>1, <2>2, <2>3, <2>4
<1> QED BY <1>2, <1>3, <1>4 DEF Parts

LEMMA BundleBrings ==
  ASSUME NEW p \in Program, NEW b, BundleOK(b)
  PROVE  /\ \A d \in b.datasources : \E r \in BundleRows(b, "ds", p) :
              Id(r) = <<p, "ds", d>> /\ r.kind = "ds" /\ r.imported
         /\ \A l \in b.tables : \E r \in BundleRows(b, "table", p) :
              Id(r) = <<p, "table", l>> /\ r.kind = "table" /\ r.imported
<1>1. p \in Author
  BY ProgramAssumption
<1>2. ASSUME NEW d \in b.datasources
      PROVE  \E r \in BundleRows(b, "ds", p) :
               Id(r) = <<p, "ds", d>> /\ r.kind = "ds" /\ r.imported
  <2> DEFINE r == ImportedRow("ds", d, p)
  <2>1. d \in Name \ SeedNames
    BY DEF BundleOK
  <2>2. r.kind = "ds" /\ r.name = d /\ r.by = p /\ r.imported
    BY <1>1, <2>1, ImportedRowIs
  <2>3. r \in BundleRows(b, "ds", p)
    BY DEF BundleRows
  <2> HIDE DEF r
  <2> QED BY <2>2, <2>3 DEF Id
<1>3. ASSUME NEW l \in b.tables
      PROVE  \E r \in BundleRows(b, "table", p) :
               Id(r) = <<p, "table", l>> /\ r.kind = "table" /\ r.imported
  <2> DEFINE r == ImportedRow("table", l, p)
  <2>1. l \in Name \ SeedNames
    BY DEF BundleOK
  <2>2. r.kind = "table" /\ r.name = l /\ r.by = p /\ r.imported
    BY <1>1, <2>1, ImportedRowIs
  <2>3. r \in BundleRows(b, "table", p)
    BY DEF BundleRows
  <2> HIDE DEF r
  <2> QED BY <2>2, <2>3 DEF Id
<1> QED BY <1>2, <1>3

(* A seed, as seed_reference_data names it.                                *)
SeedFacts(s) ==
  /\ s = [kind |-> s.kind, name |-> s.name, by |-> s.by, table |-> s.table, ds |-> s.ds,
          data |-> s.data, imported |-> s.imported, enabled |-> s.enabled]
  /\ s.kind \in {"ds", "table", "factor", "rule", "route"} /\ s.name \in Name
  /\ ~s.imported /\ s.imported \in BOOLEAN /\ s.enabled /\ s.enabled \in BOOLEAN
  /\ s.kind = "ds" => s.name \in SeedDatasources
  /\ s.kind = "table" => s.name \in SeedTables
  /\ IF Kind(s) = "child" THEN \E l \in SeedTables : s.table = <<"seed", "table", l>>
                          ELSE s.table = None
  /\ IF s.kind = "route" THEN \E d \in SeedDatasources : s.ds = <<"seed", "ds", d>>
                         ELSE s.ds = None

LEMMA SeedIs ==
  ASSUME NEW s \in SeedRows
  PROVE  SeedFacts(s)
<1>1. s.name \in Name
  BY NameAssumption
<1>2. \/ \E d \in SeedDatasources : s = Row("ds", d, "seed")
      \/ \E l \in SeedTables : s = Row("table", l, "seed")
      \/ \E kind \in {"factor", "rule"}, l \in SeedTables : \E name, data :
           s = ChildRow(kind, name, l, data, "seed")
      \/ \E l \in SeedTables, d \in SeedDatasources : \E name, data :
           s = RouteRow(name, l, data, d, "seed")
  BY DEF SeedRows, SeedTables, SeedDatasources
<1>3. ASSUME NEW kind \in {"ds", "table"}, NEW name, s = Row(kind, name, "seed"),
             kind = "ds" => name \in SeedDatasources, kind = "table" => name \in SeedTables
      PROVE  SeedFacts(s)
  <2>1. s = [kind |-> kind, name |-> name, by |-> "seed", table |-> None, ds |-> None,
             data |-> None, imported |-> FALSE, enabled |-> TRUE]
    BY <1>3 DEF Row
  <2>2. /\ s.kind = kind /\ s.name = name /\ s.by = "seed" /\ s.table = None /\ s.ds = None
        /\ s.data = None /\ s.imported = FALSE /\ s.enabled = TRUE
    BY <2>1
  <2> QED BY <1>1, <1>3, <2>1, <2>2 DEF SeedFacts, Kind
<1>4. ASSUME NEW kind \in {"factor", "rule"}, NEW l \in SeedTables, NEW name, NEW data,
             s = ChildRow(kind, name, l, data, "seed")
      PROVE  SeedFacts(s)
  <2>1. s = [kind |-> kind, name |-> name, by |-> "seed", table |-> <<"seed", "table", l>>,
             ds |-> None, data |-> data, imported |-> FALSE, enabled |-> TRUE]
    BY <1>4, ChildRowIs
  <2>2. /\ s.kind = kind /\ s.name = name /\ s.by = "seed" /\ s.table = <<"seed", "table", l>>
        /\ s.ds = None /\ s.data = data /\ s.imported = FALSE /\ s.enabled = TRUE
    BY <2>1
  <2> QED BY <1>1, <2>1, <2>2 DEF SeedFacts, Kind
<1>5. ASSUME NEW l \in SeedTables, NEW d \in SeedDatasources, NEW name, NEW data,
             s = RouteRow(name, l, data, d, "seed")
      PROVE  SeedFacts(s)
  <2>1. s = [kind |-> "route", name |-> name, by |-> "seed", table |-> <<"seed", "table", l>>,
             ds |-> <<"seed", "ds", d>>, data |-> data, imported |-> FALSE, enabled |-> TRUE]
    BY <1>5, RouteRowIs
  <2>2. /\ s.kind = "route" /\ s.name = name /\ s.by = "seed"
        /\ s.table = <<"seed", "table", l>> /\ s.ds = <<"seed", "ds", d>>
        /\ s.data = data /\ s.imported = FALSE /\ s.enabled = TRUE
    BY <2>1
  <2> QED BY <1>1, <2>1, <2>2 DEF SeedFacts, Kind
<1> QED BY <1>2, <1>3, <1>4, <1>5

-----------------------------------------------------------------------------
(* The parent a bootstrap finds for a seed is a row it sees.               *)
LEMMA ParentIs ==
  ASSUME NEW p \in Program, \A r \in Sees(p) : RowOK(r),
         NEW kind \in {"ds", "table"}, NEW name \in Name,
         \E r \in Sees(p) : r.kind = kind /\ r.name = name
  PROVE  LET id == ParentOf(p, <<"seed", kind, name>>) IN
         /\ id \in ForeignKey(kind) /\ id # None /\ NameOf(id) = name
         /\ \E r \in Sees(p) : Id(r) = id
<1> DEFINE id == <<"seed", kind, name>>
           r == CHOOSE r \in Sees(p) : r.kind = kind /\ r.name = name
<1>1. id # None /\ id[2] = kind /\ id[3] = name
  <2>1. "seed" \in Author /\ kind \in Kinds
    BY ProgramAssumption DEF Kinds
  <2>2. <<"seed", kind, name>> \in ForeignKey(kind)
    BY <2>1, ForeignKeyIs
  <2>3. id \in RowId /\ id[2] = kind /\ id[3] = name
    BY <2>2 DEF ForeignKey
  <2> HIDE DEF id
  <2> QED BY <2>3, NameAssumption
<1>2. r \in Sees(p) /\ r.kind = kind /\ r.name = name
  OBVIOUS
<1>3. ParentOf(p, id) = Id(r)
  <2> HIDE DEF id
  <2> QED BY <1>1 DEF ParentOf
<1>4. RowOK(r)
  BY <1>2
<1> HIDE DEF id, r
<1>5. Id(r) \in RowId /\ Id(r)[2] = kind /\ Id(r)[3] = name /\ Id(r) # None
  BY <1>2, <1>4, Columns DEF RowOK, Id
<1>6. ParentOf(p, id) \in ForeignKey(kind) /\ NameOf(ParentOf(p, id)) = name
  BY <1>3, <1>5 DEF ForeignKey, NameOf
<1>7. ParentOf(p, id) # None /\ \E t \in Sees(p) : Id(t) = ParentOf(p, id)
  BY <1>2, <1>3, <1>5
<1> QED BY <1>6, <1>7 DEF id

(* A seed as a bootstrap inserts it: under the parents it sees.            *)
LEMMA SeedOfIs ==
  ASSUME NEW p \in Program, NEW s \in SeedRows, \A r \in Sees(p) : RowOK(r),
         Kind(s) = "child" => SeedsSeen(p, "ds") /\ SeedsSeen(p, "table")
  PROVE  LET r == SeedOf(p, s) IN
         /\ RowOK(r) /\ r.by = p /\ r.kind = s.kind /\ r.name = s.name /\ Kind(r) = Kind(s)
         /\ ~r.imported /\ FullName(r) = FullName(s)
         /\ r.table # None => r.table[3] \in SeedTables
         /\ \A id \in References(r) : \E t \in Sees(p) : Id(t) = id
<1> DEFINE t == ParentOf(p, s.table)
           d == ParentOf(p, s.ds)
           r == SeedOf(p, s)
<1>1. SeedFacts(s)
  BY SeedIs
<1>2. r = [s EXCEPT !.by = p, !.table = t, !.ds = d]
  BY DEF SeedOf
<1>3. IF Kind(s) = "child"
      THEN /\ t \in ForeignKey("table") /\ t # None /\ NameOf(t) \in SeedTables
           /\ NameOf(t) = NameOf(s.table)
           /\ \E x \in Sees(p) : Id(x) = t
      ELSE t = None /\ s.table = None
  <2>1. CASE Kind(s) = "child"
    <3>1. PICK l \in SeedTables : s.table = <<"seed", "table", l>>
      BY <1>1, <2>1 DEF SeedFacts
    <3>2. Row("table", l, "seed") \in SeedRows
      BY DEF SeedRows
    <3>3. Kind(Row("table", l, "seed")) = "table" /\ FullName(Row("table", l, "seed")) = <<"table", None, l>>
      BY DEF Row, Kind, FullName, NameOf
    <3>4. PICK x \in Sees(p) : FullName(x) = <<"table", None, l>>
      BY <2>1, <3>2, <3>3 DEF SeedsSeen
    <3>5. x.kind = "table" /\ x.name = l
      BY <3>4 DEF FullName
    <3>6. l \in Name
      <4>1. SeedFacts(Row("table", l, "seed"))
        BY <3>2, SeedIs
      <4> QED BY <4>1 DEF SeedFacts, Row
    <3>7. /\ t \in ForeignKey("table") /\ t # None /\ NameOf(t) = l
          /\ \E y \in Sees(p) : Id(y) = t
      BY <3>1, <3>5, <3>6, ParentIs
    <3>8. NameOf(s.table) = l
      <4>1. <<"seed", "table", l>> \in RowId
        BY <3>6, ProgramAssumption DEF RowId, Kinds
      <4> QED BY <3>1, <4>1, NameAssumption DEF NameOf
    <3> QED BY <2>1, <3>7, <3>8
  <2>2. CASE Kind(s) # "child"
    BY <1>1, <2>2 DEF SeedFacts, ParentOf
  <2> QED BY <2>1, <2>2
<1>4. IF s.kind = "route"
      THEN /\ d \in ForeignKey("ds") /\ d # None
           /\ \E x \in Sees(p) : Id(x) = d
      ELSE d = None
  <2>1. CASE s.kind = "route"
    <3>1. PICK l \in SeedDatasources : s.ds = <<"seed", "ds", l>>
      BY <1>1, <2>1 DEF SeedFacts
    <3>2. Row("ds", l, "seed") \in SeedRows
      BY DEF SeedRows
    <3>3. Kind(Row("ds", l, "seed")) = "ds" /\ FullName(Row("ds", l, "seed")) = <<"ds", None, l>>
      BY DEF Row, Kind, FullName, NameOf
    <3>4. PICK x \in Sees(p) : FullName(x) = <<"ds", None, l>>
      BY <2>1, <3>2, <3>3 DEF SeedsSeen, Kind
    <3>5. x.kind = "ds" /\ x.name = l
      BY <3>4 DEF FullName
    <3>6. l \in Name
      <4>1. SeedFacts(Row("ds", l, "seed"))
        BY <3>2, SeedIs
      <4> QED BY <4>1 DEF SeedFacts, Row
    <3>7. /\ d \in ForeignKey("ds") /\ d # None
          /\ \E y \in Sees(p) : Id(y) = d
      BY <3>1, <3>5, <3>6, ParentIs
    <3> QED BY <2>1, <3>7
  <2>2. CASE s.kind # "route"
    BY <1>1, <2>2 DEF SeedFacts, ParentOf
  <2> QED BY <2>1, <2>2
<1>5. p \in Author
  BY ProgramAssumption
<1> HIDE DEF t, d, r
<1>6. r = [kind |-> s.kind, name |-> s.name, by |-> p, table |-> t, ds |-> d,
           data |-> s.data, imported |-> s.imported, enabled |-> s.enabled]
  BY <1>1, <1>2 DEF SeedFacts
<1>7. /\ r.kind = s.kind /\ r.name = s.name /\ r.by = p /\ r.table = t /\ r.ds = d
      /\ r.data = s.data /\ r.imported = s.imported /\ r.enabled = s.enabled
  BY <1>6
<1>8. RowOK(r)
  <2>1. r.kind \in Kinds /\ r.name \in Name /\ r.imported \in BOOLEAN /\ r.enabled \in BOOLEAN
        /\ ~r.imported
    BY <1>1, <1>7 DEF SeedFacts, Kinds
  <2>2. IF r.kind \in {"factor", "rule", "route"} THEN r.table \in ForeignKey("table")
                                                   ELSE r.table = None
    BY <1>1, <1>3, <1>7 DEF SeedFacts, Kind
  <2>3. IF r.kind = "route" THEN r.ds \in ForeignKey("ds") ELSE r.ds = None
    BY <1>4, <1>7
  <2> QED BY <1>5, <1>6, <1>7, <2>1, <2>2, <2>3, RowFrom
<1>9. Kind(r) = Kind(s) /\ ~r.imported
  BY <1>1, <1>7 DEF Kind, SeedFacts
<1>10. FullName(r) = FullName(s)
  BY <1>3, <1>7 DEF FullName, NameOf
<1>11. r.table # None => r.table[3] \in SeedTables
  BY <1>3, <1>7 DEF NameOf
<1>12. \A id \in References(r) : \E x \in Sees(p) : Id(x) = id
  BY <1>3, <1>4, <1>7 DEF References
<1> QED BY <1>7, <1>8, <1>9, <1>10, <1>11, <1>12 DEF r

-----------------------------------------------------------------------------
(* What a statement does. *)

LEMMA StatementAt ==
  ASSUME NEW p \in Program
  PROVE  /\ pc[p] = "policy" => Statement(p) = EnsurePolicy(p)
         /\ pc[p] = "deleteChildren" => Statement(p) = Deletes(p, "child")
         /\ pc[p] = "deleteTables" => Statement(p) = Deletes(p, "table")
         /\ pc[p] = "deleteDatasources" => Statement(p) = Deletes(p, "ds")
         /\ pc[p] = "datasources" => Statement(p) = Inserts(p, "ds")
         /\ pc[p] = "tables" => Statement(p) = Inserts(p, "table")
         /\ pc[p] = "children" => Statement(p) = Inserts(p, "child")
BY DEF Statement

LEMMA AfterAt ==
  ASSUME NEW p \in Program
  PROVE  /\ pc[p] = "policy" => After(p) = IF p \in Import THEN "deleteChildren" ELSE "datasources"
         /\ pc[p] = "deleteChildren" => After(p) = "deleteTables"
         /\ pc[p] = "deleteTables" => After(p) = "deleteDatasources"
         /\ pc[p] = "deleteDatasources" => After(p) = "datasources"
         /\ pc[p] = "datasources" => After(p) = "tables"
         /\ pc[p] = "tables" => After(p) = "children"
         /\ pc[p] = "children" => After(p) = "commit"
BY DEF After

(* The label at which a part is deleted, and at which it is inserted.      *)
DeleteLabel(kind) ==
  IF kind = "ds" THEN "deleteDatasources"
  ELSE IF kind = "table" THEN "deleteTables" ELSE "deleteChildren"
InsertLabel(kind) ==
  IF kind = "ds" THEN "datasources" ELSE IF kind = "table" THEN "tables" ELSE "children"

LEMMA LabelCases ==
  ASSUME NEW p \in Program, pc[p] \in Writing
  PROVE  \/ pc[p] = "policy"
         \/ \E kind \in Parts : pc[p] = DeleteLabel(kind)
         \/ \E kind \in Parts : pc[p] = InsertLabel(kind)
<1>1. /\ pc[p] = "deleteChildren" => pc[p] = DeleteLabel("child")
      /\ pc[p] = "deleteTables" => pc[p] = DeleteLabel("table")
      /\ pc[p] = "deleteDatasources" => pc[p] = DeleteLabel("ds")
      /\ pc[p] = "datasources" => pc[p] = InsertLabel("ds")
      /\ pc[p] = "tables" => pc[p] = InsertLabel("table")
      /\ pc[p] = "children" => pc[p] = InsertLabel("child")
  BY DEF DeleteLabel, InsertLabel
<1>2. "ds" \in Parts /\ "table" \in Parts /\ "child" \in Parts
  BY DEF Parts
<1> QED BY <1>1, <1>2 DEF Writing

(* What is past after a statement is what was, and the statement.          *)
LEMMA PastAfter ==
  ASSUME NEW p \in Program, pc[p] \in Writing
  PROVE  /\ After(p) \in InTransaction /\ After(p) \in PastPolicy
         /\ After(p) \in Deleting => (pc[p] = "policy" /\ p \in Import) \/ pc[p] \in Deleting
         /\ \A kind \in Parts :
              /\ After(p) \in InsertedAt(kind) <=>
                   pc[p] \in InsertedAt(kind) \/ pc[p] = InsertLabel(kind)
              /\ p \in Import =>
                   (After(p) \in DeletedAt(kind) <=>
                      pc[p] \in DeletedAt(kind) \/ pc[p] = DeleteLabel(kind))
         /\ pc[p] = "policy" => pc[p] \notin PastPolicy
<1>1. CASE pc[p] = "policy"
  BY <1>1, AfterAt DEF InTransaction, Writing, PastPolicy, PastDeleteChildren, PastDeleteTables,
     PastDeletes, PastDatasources, PastTables, Deleting, Parts, InsertedAt, DeletedAt,
     InsertLabel, DeleteLabel
<1>2. CASE pc[p] \in Deleting
  BY <1>2, AfterAt DEF InTransaction, Writing, PastPolicy, PastDeleteChildren, PastDeleteTables,
     PastDeletes, PastDatasources, PastTables, Deleting, Parts, InsertedAt, DeletedAt,
     InsertLabel, DeleteLabel
<1>3. CASE pc[p] \in {"datasources", "tables", "children"}
  BY <1>3, AfterAt DEF InTransaction, Writing, PastPolicy, PastDeleteChildren, PastDeleteTables,
     PastDeletes, PastDatasources, PastTables, Deleting, Parts, InsertedAt, DeletedAt,
     InsertLabel, DeleteLabel
<1> QED BY <1>1, <1>2, <1>3 DEF Writing, Deleting

(* The transaction after a statement, and what it leaves of the others.    *)
LEMMA FlushIs ==
  ASSUME Phases, NEW p \in Program, Flush(p)
  PROVE  LET s == Statement(p) IN
         /\ pc[p] \in Writing /\ pc' = [pc EXCEPT ![p] = After(p)] /\ pc'[p] = After(p)
         /\ gone'[p] = gone[p] \union (s.old \intersect db)
         /\ added'[p] = (added[p] \ s.old) \union s.new
         /\ \A q \in Program \ {p} :
              pc'[q] = pc[q] /\ gone'[q] = gone[q] /\ added'[q] = added[q]
         /\ UNCHANGED <<schema, db, missing, bundle, view>>
         /\ DOMAIN gone' = Program /\ DOMAIN added' = Program
         /\ ~Held(p, s.old \union s.new)
         /\ ~Violates((Writes(p) \ s.old) \union s.new, s.new)
BY DEF Flush, Goto, Accepted, Waits, Phases

LEMMA FlushWrites ==
  ASSUME Phases, NEW p \in Program, Flush(p)
  PROVE  LET s == Statement(p) IN
         /\ Writes(p)' = (Writes(p) \ s.old) \union s.new
         /\ \A q \in Program \ {p} : Writes(q)' = Writes(q) /\ Sees(q)' = Sees(q)
<1> DEFINE s == Statement(p)
<1>1. /\ gone'[p] = gone[p] \union (s.old \intersect db)
      /\ added'[p] = (added[p] \ s.old) \union s.new
      /\ \A q \in Program \ {p} : gone'[q] = gone[q] /\ added'[q] = added[q]
      /\ db' = db /\ view' = view
  BY FlushIs
<1> HIDE DEF s
<1>2. Writes(p)' = (Writes(p) \ s.old) \union s.new
  BY <1>1 DEF Writes
<1>3. \A q \in Program \ {p} : Writes(q)' = Writes(q) /\ Sees(q)' = Sees(q)
  BY <1>1 DEF Writes, Sees, SameRow, Key, Id
<1> QED BY <1>2, <1>3 DEF s

-----------------------------------------------------------------------------
(* The statements one by one. *)

LEMMA PolicyStatement ==
  ASSUME NEW p \in Program, pc[p] = "policy"
  PROVE  LET s == Statement(p) IN
         /\ s.ids = {} /\ s.old = {} /\ s.new \subseteq {PolicyRow(p)}
         /\ s.new = {} => PolicySeen(p)
         /\ PolicySeen(p) => s.new = {}
BY StatementAt DEF EnsurePolicy, PolicySeen, PolicyRow

LEMMA DeleteStatement ==
  ASSUME NEW p \in Program, NEW kind \in Parts, pc[p] = DeleteLabel(kind)
  PROVE  LET s == Statement(p) IN
         s.ids = {} /\ s.old = PreviousImport(p, kind) /\ s.new = {}
<1>1. Statement(p) = Deletes(p, kind)
  BY StatementAt DEF Parts, DeleteLabel
<1> QED BY <1>1 DEF Deletes

LEMMA ImportStatement ==
  ASSUME NEW p \in Import, NEW kind \in Parts, pc[p] = InsertLabel(kind)
  PROVE  LET s == Statement(p) IN
         s.ids = {} /\ s.old = {} /\ s.new = BundleRows(bundle[p], kind, p)
<1>1. Statement(p) = Inserts(p, kind)
  BY StatementAt DEF Parts, InsertLabel, Program
<1> QED BY <1>1 DEF Inserts

LEMMA ContainerStatement ==
  ASSUME NEW p \in Container, NEW kind \in Parts, pc[p] = InsertLabel(kind), Session(p)
  PROVE  LET s == Statement(p) IN
         /\ s.ids = IF kind = "ds" THEN Ids(Disabled(p)) ELSE {}
         /\ s.old = {r \in Writes(p) : Id(r) \in s.ids}
         /\ s.new = MissingSeeds(p, kind) \union {Enabled(r) : r \in s.old}
         /\ \A r \in s.old :
              kind = "ds" /\ r.kind = "ds" /\ r.name \in SeedDatasources /\ r \in db
<1> DEFINE s == Statement(p)
<1>1. Statement(p) = Inserts(p, kind)
  BY StatementAt DEF Parts, InsertLabel, Program
<1>2. p \notin Import
  BY ProgramAssumption
<1>3. /\ s.ids = IF kind = "ds" THEN Ids(Disabled(p)) ELSE {}
      /\ s.old = {r \in Writes(p) : Id(r) \in s.ids}
      /\ s.new = MissingSeeds(p, kind) \union {Enabled(r) : r \in s.old}
  BY <1>1, <1>2 DEF Inserts, Enabled
<1> HIDE DEF s
<1>4. ASSUME NEW r \in s.old
      PROVE  kind = "ds" /\ r.kind = "ds" /\ r.name \in SeedDatasources /\ r \in db
  <2>1. kind = "ds" /\ r \in Writes(p) /\ Id(r) \in Ids(Disabled(p))
    BY <1>3
  <2>2. PICK x \in Disabled(p) : Id(x) = Id(r)
    BY <2>1 DEF Ids
  <2>3. PICK t \in SeedRows : t.kind = "ds" /\ Key(t) = Key(x)
    BY <2>2 DEF Disabled
  <2>4. t.name \in SeedDatasources
    BY <2>3, SeedIs DEF SeedFacts
  <2>5. r.kind = "ds" /\ r.name \in SeedDatasources
    BY <2>2, <2>3, <2>4 DEF Id, Key
  <2>6. r \notin added[p]
    <3>1. pc[p] \notin InsertedAt("ds")
      BY <2>1 DEF InsertLabel, InsertedAt, PastDatasources, PastTables
    <3>2. Kind(r) = "ds" /\ r.kind # "policy"
      BY <2>5 DEF Kind
    <3> QED BY <3>1, <3>2 DEF Session, AddedByContainer
  <2> QED BY <2>1, <2>5, <2>6 DEF Writes
<1> QED BY <1>3, <1>4 DEF s

(* A row is seen until a statement writes it.                              *)
LEMMA SeesAfter ==
  ASSUME Phases, NEW p \in Program, Flush(p)
  PROVE  LET s == Statement(p) IN
         /\ s.new \subseteq Sees(p)'
         /\ \A r \in Sees(p) : r \in Sees(p)' \/ \E g \in s.old : SameRow(g, r)
<1> DEFINE s == Statement(p)
<1>1. /\ gone'[p] = gone[p] \union (s.old \intersect db)
      /\ added'[p] = (added[p] \ s.old) \union s.new
      /\ view' = view
  BY FlushIs
<1> HIDE DEF s
<1>2. s.new \subseteq Sees(p)'
  BY <1>1 DEF Sees
<1>3. ASSUME NEW r \in Sees(p), \A g \in s.old : ~SameRow(g, r)
      PROVE  r \in Sees(p)'
  <2>1. CASE r \in added[p]
    <3>1. r \notin s.old
      BY <1>3 DEF SameRow
    <3> QED BY <1>1, <2>1, <3>1 DEF Sees
  <2>2. CASE r \in view[p] /\ \A g \in gone[p] : ~SameRow(g, r)
    BY <1>1, <1>3, <2>2 DEF Sees, SameRow, Key, Id
  <2> QED BY <2>1, <2>2 DEF Sees
<1> QED BY <1>2, <1>3 DEF s

LEMMA SeesRows ==
  ASSUME NEW p \in Program, Session(p)
  PROVE  \A r \in Sees(p) : RowOK(r)
BY DEF Session, Sees

LEMMA WritesRows ==
  ASSUME Sound, NEW p \in Program, Session(p)
  PROVE  \A r \in Writes(p) : RowOK(r)
BY DEF Session, Sound, Writes

-----------------------------------------------------------------------------
(* A session keeps its account of what it has read and written.            *)

LEMMA ImportFlushes ==
  ASSUME Phases, Sound, NEW p \in Import, Session(p), Flush(p)
  PROVE  Session(p)'
<1> DEFINE s == Statement(p)
<1>1. p \in Program /\ p \notin Container
  BY ProgramAssumption DEF Program
<1>2. /\ pc[p] \in Writing /\ pc'[p] = After(p)
      /\ gone'[p] = gone[p] \union (s.old \intersect db)
      /\ added'[p] = (added[p] \ s.old) \union s.new
      /\ bundle' = bundle /\ view' = view
  BY <1>1, FlushIs
<1>3. BundleOK(bundle[p])
  <2>1. bundle[p] \in Offered
    BY <1>1, <1>2 DEF Phases, Phase, InTransaction
  <2> QED BY <2>1, OfferedAssumption
<1>4. /\ \A kind \in Parts : pc'[p] \in InsertedAt(kind) <=>
                               pc[p] \in InsertedAt(kind) \/ pc[p] = InsertLabel(kind)
      /\ pc[p] = "policy" => pc[p] \notin PastPolicy
  BY <1>1, <1>2, PastAfter
<1>5. CASE pc[p] = "policy"
  <2>1. s.old = {} /\ s.new \subseteq {PolicyRow(p)} /\ (s.new = {} => PolicySeen(p))
    BY <1>1, <1>5, PolicyStatement
  <2>2. \A kind \in Parts : pc'[p] \notin InsertedAt(kind) /\ pc[p] \notin InsertedAt(kind)
    BY <1>4, <1>5 DEF Parts, InsertedAt, InsertLabel, PastDatasources, PastTables
  <2>3. \A r \in view'[p] \union added'[p] : RowOK(r)
    BY <1>1, <1>2, <2>1, PolicyRowIs DEF Session
  <2>4. AddedByImport(p)'
    BY <1>2, <2>1, <2>2 DEF Session, AddedByImport, PolicyRow, Row
  <2>5. GoneByImport(p)'
    BY <1>2, <2>1 DEF Session, GoneByImport, ImportedIds, Ids, Id, Kind
  <2>6. PolicySeen(p)'
    <3>1. s.new \subseteq Sees(p)' /\ \A r \in Sees(p) : r \in Sees(p)'
      BY <1>1, <2>1, SeesAfter
    <3> HIDE DEF s
    <3> QED BY <2>1, <3>1 DEF PolicySeen, PolicyRow, Row, Key
  <2> QED BY <1>1, <1>2, <2>3, <2>4, <2>5, <2>6 DEF Session, Violates, Key, References, Ids, Id
<1>6. ASSUME NEW kind \in Parts, pc[p] = DeleteLabel(kind)
      PROVE  Session(p)'
  <2>1. s.old = PreviousImport(p, kind) /\ s.new = {}
    BY <1>1, <1>6, DeleteStatement
  <2>2. \A k \in Parts : pc'[p] \notin InsertedAt(k) /\ pc[p] \notin InsertedAt(k)
    BY <1>4, <1>6 DEF Parts, InsertedAt, InsertLabel, DeleteLabel, PastDatasources, PastTables
  <2>3. \A r \in view'[p] \union added'[p] : RowOK(r)
    BY <1>2, <2>1 DEF Session
  <2>4. AddedByImport(p)'
    BY <1>2, <2>1, <2>2 DEF Session, AddedByImport, PolicyRow, Row
  <2>5. GoneByImport(p)'
    <3>1. \A g \in PreviousImport(p, kind) :
            \/ g.kind \in {"ds", "table"} /\ Id(g) \in ImportedIds(view[p], g.kind)
            \/ Kind(g) = "child" /\ g.table \in ImportedIds(view[p], "table")
      BY DEF PreviousImport, Parts
    <3> QED BY <1>1, <1>2, <2>1, <3>1 DEF Session, GoneByImport, ImportedIds, Ids, Id, Kind
  <2>6. PolicySeen(p)'
    <3>1. PICK r \in Sees(p) : Key(r) = Key(PolicyRow(p))
      <4>1. pc[p] \in PastPolicy
        BY <1>6 DEF DeleteLabel, PastPolicy, PastDeleteChildren, PastDeleteTables
      <4> QED BY <4>1 DEF Session, PolicySeen
    <3>2. r.kind = "policy"
      BY <1>1, <3>1, PolicyRowIs DEF Key
    <3>3. \A g \in s.old : ~SameRow(g, r)
      BY <2>1, <3>2 DEF PreviousImport, SameRow, Key, Kind, Parts
    <3>4. r \in Sees(p)'
      BY <1>1, <3>3, SeesAfter
    <3> QED BY <3>1, <3>4 DEF PolicySeen, PolicyRow, Row, Key
  <2> QED BY <1>1, <1>2, <2>3, <2>4, <2>5, <2>6 DEF Session, Violates, Key, References, Ids, Id
<1>7. ASSUME NEW kind \in Parts, pc[p] = InsertLabel(kind)
      PROVE  Session(p)'
  <2>1. s.old = {} /\ s.new = BundleRows(bundle[p], kind, p)
    BY <1>7, ImportStatement
  <2>3. \A r \in view'[p] \union added'[p] : RowOK(r)
    BY <1>1, <1>2, <1>3, <2>1, BundleRowIs DEF Session, BundleRowFacts
  <2>4. AddedByImport(p)'
    <3>1. \A k \in Parts : pc[p] = InsertLabel(k) => k = kind
      BY <1>7 DEF Parts, InsertLabel
    <3>2. \A k \in Parts : BundleRows(bundle[p], k, p)' = BundleRows(bundle[p], k, p)
      BY <1>2
    <3>3. PolicyRow(p)' = PolicyRow(p)
      OBVIOUS
    <3>4. AddedByImport(p)
      BY DEF Session
    <3> HIDE DEF s
    <3>5. ASSUME NEW a \in added'[p]
          PROVE  \/ a = PolicyRow(p)
                 \/ \E k \in Parts : pc'[p] \in InsertedAt(k) /\ a \in BundleRows(bundle[p], k, p)
      BY <1>2, <1>4, <1>7, <2>1, <3>4 DEF AddedByImport
    <3>6. ASSUME NEW k \in Parts, pc'[p] \in InsertedAt(k)
          PROVE  BundleRows(bundle[p], k, p) \subseteq added'[p]
      BY <1>2, <1>4, <2>1, <3>1, <3>4, <3>6 DEF AddedByImport
    <3> QED BY <1>2, <3>5, <3>6 DEF AddedByImport, PolicyRow, Row, InsertedAt
  <2>5. GoneByImport(p)'
    BY <1>2, <2>1 DEF Session, GoneByImport, ImportedIds, Ids, Id, Kind
  <2>6. PolicySeen(p)'
    <3>1. PICK r \in Sees(p) : Key(r) = Key(PolicyRow(p))
      <4>1. pc[p] \in PastPolicy
        BY <1>7 DEF InsertLabel, PastPolicy, PastDeleteChildren, PastDeleteTables, PastDeletes,
           PastDatasources, PastTables
      <4> QED BY <4>1 DEF Session, PolicySeen
    <3>2. r \in Sees(p)'
      BY <1>1, <2>1, SeesAfter
    <3> QED BY <3>1, <3>2 DEF PolicySeen, PolicyRow, Row, Key
  <2> QED BY <1>1, <1>2, <2>3, <2>4, <2>5, <2>6 DEF Session, Violates, Key, References, Ids, Id
<1> QED BY <1>1, <1>2, <1>5, <1>6, <1>7, LabelCases

-----------------------------------------------------------------------------
LEMMA ContainerFlushes ==
  ASSUME Phases, Sound, NEW p \in Container, Session(p), Flush(p)
  PROVE  Session(p)'
<1> DEFINE s == Statement(p)
<1>1. p \in Program /\ p \notin Import
  BY ProgramAssumption DEF Program
<1>2. /\ pc[p] \in Writing /\ pc'[p] = After(p)
      /\ gone'[p] = gone[p] \union (s.old \intersect db)
      /\ added'[p] = (added[p] \ s.old) \union s.new
      /\ view' = view
  BY <1>1, FlushIs
<1>3. \A kind \in Parts : pc'[p] \in InsertedAt(kind) <=>
                            pc[p] \in InsertedAt(kind) \/ pc[p] = InsertLabel(kind)
  BY <1>1, <1>2, PastAfter
<1>4. AddedByContainer(p) /\ GoneByContainer(p)
  BY DEF Session
<1>5. PolicyRow(p)' = PolicyRow(p)
  OBVIOUS
<1>6. ~Violates(view[p], view[p])'
  BY <1>2 DEF Session, Violates, Key, References, Ids, Id
<1>7. CASE pc[p] = "policy"
  <2>1. s.old = {} /\ s.new \subseteq {PolicyRow(p)} /\ (s.new = {} => PolicySeen(p))
    BY <1>1, <1>7, PolicyStatement
  <2>2. \A kind \in Parts : pc'[p] \notin InsertedAt(kind) /\ pc[p] \notin InsertedAt(kind)
    BY <1>3, <1>7 DEF Parts, InsertedAt, InsertLabel, PastDatasources, PastTables
  <2>3. \A r \in view'[p] \union added'[p] : RowOK(r)
    BY <1>1, <1>2, <2>1, PolicyRowIs DEF Session
  <2> HIDE DEF s
  <2>4. AddedByContainer(p)'
    <3>1. gone'[p] = gone[p]
      BY <1>2, <2>1
    <3>2. ASSUME NEW a \in s.new
          PROVE  /\ ~a.imported /\ a.kind = "policy" /\ a.table = None
                 /\ a.by = p /\ a = PolicyRow(p)
      BY <1>1, <2>1, PolicyRowIs
    <3> QED BY <1>2, <1>4, <2>1, <2>2, <3>1, <3>2
            DEF AddedByContainer, PolicyRow, Row, FullName, NameOf, Kind, Enabled
  <2>5. GoneByContainer(p)'
    BY <1>2, <1>4, <2>1 DEF GoneByContainer, Enabled
  <2>6. PolicySeen(p)'
    <3>1. s.new \subseteq Sees(p)' /\ \A r \in Sees(p) : r \in Sees(p)'
      BY <1>1, <2>1, SeesAfter DEF s
    <3> QED BY <2>1, <3>1 DEF PolicySeen, PolicyRow, Row, Key
  <2> QED BY <1>1, <1>2, <1>6, <2>2, <2>3, <2>4, <2>5, <2>6 DEF Session
<1>8. ASSUME NEW kind \in Parts, pc[p] = DeleteLabel(kind)
      PROVE  FALSE
  <2>1. pc[p] \in Deleting
    BY <1>8 DEF DeleteLabel, Deleting
  <2> QED BY <1>1, <2>1 DEF Phases, Phase
<1>9. ASSUME NEW kind \in Parts, pc[p] = InsertLabel(kind)
      PROVE  Session(p)'
  <2>1. /\ s.new = MissingSeeds(p, kind) \union {Enabled(r) : r \in s.old}
        /\ s.old \subseteq Writes(p)
        /\ \A r \in s.old :
              kind = "ds" /\ r.kind = "ds" /\ r.name \in SeedDatasources /\ r \in db
    BY <1>9, ContainerStatement
  <2> HIDE DEF s
  <2>2. \A r \in s.old : RowOK(r) /\ ~r.imported
    BY <2>1, Columns DEF Sound, SeedNames
  <2>3. \A r \in Sees(p) : RowOK(r)
    BY <1>1, SeesRows
  <2>4. kind = "child" => SeedsSeen(p, "ds") /\ SeedsSeen(p, "table")
    <3>1. kind = "child" => pc[p] \in InsertedAt("ds") /\ pc[p] \in InsertedAt("table")
      BY <1>9 DEF InsertLabel, InsertedAt, PastDatasources, PastTables
    <3> QED BY <3>1 DEF Session, Parts
  <2>5. ASSUME NEW t \in SeedRows, Kind(t) = kind
        PROVE  LET r == SeedOf(p, t) IN
               /\ RowOK(r) /\ r.by = p /\ Kind(r) = kind /\ ~r.imported
               /\ FullName(r) = FullName(t) /\ (r.table # None => r.table[3] \in SeedTables)
    BY <1>1, <2>3, <2>4, <2>5, SeedOfIs
  <2>6. \A a \in MissingSeeds(p, kind) : \E t \in SeedRows : Kind(t) = kind /\ a = SeedOf(p, t)
    BY DEF MissingSeeds, Seeds
  <2>7. \A r \in view'[p] \union added'[p] : RowOK(r)
    BY <1>2, <2>1, <2>2, <2>5, <2>6, EnabledRow DEF Session
  <2>8. AddedByContainer(p)'
    <3>1. ASSUME NEW a \in added[p]
          PROVE  /\ ~a.imported
                 /\ a.kind = "policy" \/ \E k \in Parts : pc'[p] \in InsertedAt(k) /\ Kind(a) = k
                 /\ a.table # None => a.table[3] \in SeedTables
                 /\ \/ a.by = p /\ FullName(a) \in Seeded \union {FullName(PolicyRow(p))}
                    \/ \E g \in gone'[p] : a = Enabled(g)
      BY <1>2, <1>3, <1>4 DEF AddedByContainer
    <3>2. ASSUME NEW a \in MissingSeeds(p, kind)
          PROVE  /\ ~a.imported
                 /\ \E k \in Parts : pc'[p] \in InsertedAt(k) /\ Kind(a) = k
                 /\ a.table # None => a.table[3] \in SeedTables
                 /\ a.by = p /\ FullName(a) \in Seeded
      BY <1>3, <1>9, <2>5, <2>6 DEF Seeded
    <3>3. ASSUME NEW r \in s.old
          PROVE  /\ ~Enabled(r).imported
                 /\ \E k \in Parts : pc'[p] \in InsertedAt(k) /\ Kind(Enabled(r)) = k
                 /\ Enabled(r).table = None
                 /\ r \in gone'[p]
      <4>1. Kind(r) = kind /\ r.table = None
        BY <2>1, <2>2, Columns DEF Kind
      <4> QED BY <1>2, <1>3, <1>9, <2>1, <2>2, <4>1, EnabledRow
    <3>4. ASSUME NEW a \in added'[p]
          PROVE  /\ ~a.imported
                 /\ a.kind = "policy" \/ \E k \in Parts : pc'[p] \in InsertedAt(k) /\ Kind(a) = k
                 /\ a.table # None => a.table[3] \in SeedTables
                 /\ \/ a.by = p /\ FullName(a) \in Seeded \union {FullName(PolicyRow(p))}
                    \/ \E g \in gone'[p] : a = Enabled(g)
      <4>1. a \in added[p] \/ a \in MissingSeeds(p, kind) \/ \E r \in s.old : a = Enabled(r)
        BY <1>2, <2>1
      <4> QED BY <3>1, <3>2, <3>3, <4>1
    <3> QED BY <1>5, <3>4 DEF AddedByContainer, Seeded, FullName, NameOf, Kind, Enabled, InsertedAt
  <2>9. GoneByContainer(p)'
    <3>1. ASSUME NEW g \in gone[p] PROVE g.kind = "ds" /\ ~g.imported /\ Enabled(g) \in added'[p]
      <4>1. g.kind = "ds" /\ ~g.imported /\ Enabled(g) \in added[p]
        BY <1>4 DEF GoneByContainer
      <4>2. CASE s.old = {}
        BY <1>2, <4>1, <4>2
      <4>3. CASE s.old # {}
        <5>1. kind = "ds" /\ pc[p] \notin InsertedAt("ds")
          BY <1>9, <2>1, <4>3 DEF InsertLabel, InsertedAt, PastDatasources, PastTables
        <5>2. Kind(Enabled(g)) = "ds" /\ Enabled(g).kind = "ds"
          <6>1. RowOK(g)
            BY <1>1 DEF Sound
          <6> QED BY <4>1, <6>1, EnabledRow DEF Kind
        <5> QED BY <1>4, <4>1, <5>1, <5>2 DEF AddedByContainer
      <4> QED BY <4>2, <4>3
    <3>2. ASSUME NEW g \in s.old PROVE g.kind = "ds" /\ ~g.imported /\ Enabled(g) \in added'[p]
      BY <1>2, <2>1, <2>2
    <3> QED BY <1>2, <3>1, <3>2 DEF GoneByContainer, Enabled
  <2>10. /\ s.new \subseteq Sees(p)'
         /\ \A r \in Sees(p) : \E x \in Sees(p)' : Key(x) = Key(r)
    <3>1. /\ s.new \subseteq Sees(p)'
          /\ \A r \in Sees(p) : r \in Sees(p)' \/ \E g \in s.old : SameRow(g, r)
      BY <1>1, SeesAfter DEF s
    <3>2. ASSUME NEW r \in Sees(p), NEW g \in s.old, SameRow(g, r)
          PROVE  \E x \in Sees(p)' : Key(x) = Key(r)
      BY <2>1, <2>2, <3>1, <3>2, EnabledRow DEF SameRow
    <3> QED BY <3>1, <3>2
  <2>11. \A x, r : Key(x) = Key(r) => FullName(x) = FullName(r)
    BY DEF Key, FullName
  <2>12. ASSUME NEW k \in Parts, pc'[p] \in InsertedAt(k), NEW t \in SeedRows, Kind(t) = k
         PROVE  \E x \in Sees(p)' : FullName(x) = FullName(t)
    <3>1. CASE pc[p] \in InsertedAt(k)
      <4>1. PICK r \in Sees(p) : FullName(r) = FullName(t)
        BY <2>12, <3>1 DEF Session, SeedsSeen
      <4> QED BY <2>10, <2>11, <4>1
    <3>2. CASE k = kind
      <4>1. SeedOf(p, t) \in MissingSeeds(p, kind) \/ \E r \in Sees(p) : Key(r) = Key(SeedOf(p, t))
        BY <2>12, <3>2 DEF MissingSeeds, Seeds
      <4>2. FullName(SeedOf(p, t)) = FullName(t)
        BY <2>5, <2>12, <3>2
      <4> QED BY <2>1, <2>10, <2>11, <4>1, <4>2
    <3>3. pc[p] = InsertLabel(k) => k = kind
      BY <1>9 DEF Parts, InsertLabel
    <3> QED BY <1>3, <2>12, <3>1, <3>2, <3>3
  <2>13. \A k \in Parts : pc'[p] \in InsertedAt(k) => SeedsSeen(p, k)'
    BY <2>12 DEF SeedsSeen, FullName, NameOf, Kind
  <2>14. PolicySeen(p)'
    <3>1. PICK r \in Sees(p) : Key(r) = Key(PolicyRow(p))
      <4>1. pc[p] \in PastPolicy
        BY <1>9 DEF InsertLabel, PastPolicy, PastDeleteChildren, PastDeleteTables, PastDeletes,
           PastDatasources, PastTables
      <4> QED BY <4>1 DEF Session, PolicySeen
    <3> QED BY <2>10, <3>1 DEF PolicySeen, PolicyRow, Row, Key
  <2> QED BY <1>1, <1>6, <2>7, <2>8, <2>9, <2>13, <2>14 DEF Session
<1> QED BY <1>1, <1>2, <1>7, <1>8, <1>9, LabelCases

-----------------------------------------------------------------------------
(* A program outside a transaction has nothing to account for, and one     *)
(* that does not move keeps its account.                                   *)
LEMMA IdleSession ==
  ASSUME NEW p \in Program, pc'[p] \notin InTransaction,
         view'[p] = {}, gone'[p] = {}, added'[p] = {}
  PROVE  Session(p)' /\ Current(p)'
<1>1. \A kind \in Parts : pc'[p] \notin InsertedAt(kind) /\ pc'[p] \notin DeletedAt(kind)
  BY DEF Parts, InsertedAt, DeletedAt, InTransaction, Writing, PastDeleteChildren,
     PastDeleteTables, PastDeletes, PastDatasources, PastTables
<1>2. pc'[p] \notin PastPolicy
  BY DEF InTransaction, Writing, PastPolicy, PastDeleteChildren,
     PastDeleteTables, PastDeletes, PastDatasources, PastTables
<1>3. ~Violates(view[p], view[p])'
  BY DEF Violates
<1>4. p \in Import => AddedByImport(p)' /\ GoneByImport(p)'
  BY <1>1 DEF AddedByImport, GoneByImport
<1>5. p \in Container => AddedByContainer(p)' /\ GoneByContainer(p)'
  BY DEF AddedByContainer, GoneByContainer
<1>6. Session(p)'
  BY <1>1, <1>2, <1>3, <1>4, <1>5 DEF Session
<1>7. Current(p)'
  BY <1>1 DEF Current
<1> QED BY <1>6, <1>7

LEMMA SessionStays ==
  ASSUME NEW p \in Program, Session(p), pc'[p] = pc[p], bundle'[p] = bundle[p],
         view'[p] = view[p], gone'[p] = gone[p], added'[p] = added[p]
  PROVE  Session(p)' /\ Sees(p)' = Sees(p)
<1>1. Sees(p)' = Sees(p)
  BY DEF Sees, SameRow, Key, Id
<1>2. PolicyRow(p)' = PolicyRow(p)
  OBVIOUS
<1>3. ~Violates(view[p], view[p])'
  BY DEF Session, Violates, Key, References, Ids, Id
<1>4. p \in Import => AddedByImport(p)' /\ GoneByImport(p)'
  BY <1>2 DEF Session, AddedByImport, GoneByImport, ImportedIds, Ids, Id, Kind
<1>5. p \in Container => AddedByContainer(p)' /\ GoneByContainer(p)'
  BY <1>2 DEF Session, AddedByContainer, GoneByContainer, FullName, NameOf, Kind, Enabled, Seeded
<1>6. \A kind \in Parts : SeedsSeen(p, kind) => SeedsSeen(p, kind)'
  BY <1>1 DEF SeedsSeen, FullName, NameOf, Kind
<1>7. PolicySeen(p) => PolicySeen(p)'
  BY <1>1, <1>2 DEF PolicySeen, Key
<1> QED BY <1>1, <1>3, <1>4, <1>5, <1>6, <1>7 DEF Session

LEMMA CurrentStays ==
  ASSUME NEW p \in Program, Current(p), pc'[p] = pc[p], db' = db,
         view'[p] = view[p], gone'[p] = gone[p], added'[p] = added[p]
  PROVE  Current(p)' /\ Writes(p)' = Writes(p)
<1>1. Writes(p)' = Writes(p)
  BY DEF Writes
<1>2. \A kind \in Parts : PreviousImport(p, kind)' = PreviousImport(p, kind)
  BY <1>1 DEF PreviousImport, ImportedIds, Ids, Id, Kind
<1>3. \A v \in view[p] : OfImport(view[p], v)' <=> OfImport(view[p], v)
  BY DEF OfImport, ImportedIds, Ids, Id
<1> QED BY <1>1, <1>2, <1>3 DEF Current, SameRow, Key, Id

(* What a transaction inserts is its own, but for the datasources a        *)
(* bootstrap switches on.                                                  *)
LEMMA AddedIs ==
  ASSUME Phases, Sound, NEW p \in Program, Session(p), NEW a \in added[p]
  PROVE  /\ RowOK(a)
         /\ a.imported => a.by = p /\ p \in Import
         /\ \/ a.by = p
            \/ \E g \in gone[p] : /\ p \in Container /\ g.kind = "ds" /\ ~g.imported
                                  /\ g \in db /\ RowOK(g) /\ a = Enabled(g) /\ SameRow(a, g)
<1>1. RowOK(a)
  BY DEF Session
<1>2. CASE p \in Import
  <2>1. pc[p] \in InTransaction
    BY DEF Phases, Phase
  <2>2. BundleOK(bundle[p])
    BY <1>2, <2>1, OfferedAssumption DEF Phases, Phase
  <2>3. a = PolicyRow(p) \/ \E kind \in Parts : a \in BundleRows(bundle[p], kind, p)
    BY <1>2 DEF Session, AddedByImport
  <2>4. a.by = p
    BY <2>2, <2>3, PolicyRowIs, BundleRowIs DEF BundleRowFacts
  <2> QED BY <1>1, <1>2, <2>4
<1>3. CASE p \in Container
  <2>1. AddedByContainer(p) /\ GoneByContainer(p)
    BY <1>3 DEF Session
  <2>2. ~a.imported /\ (a.by = p \/ \E g \in gone[p] : a = Enabled(g))
    BY <2>1 DEF AddedByContainer
  <2>3. ASSUME NEW g \in gone[p], a = Enabled(g)
        PROVE  g.kind = "ds" /\ ~g.imported /\ g \in db /\ RowOK(g) /\ SameRow(a, g)
    BY <2>1, <2>3, EnabledRow DEF GoneByContainer, Sound
  <2> QED BY <1>1, <1>3, <2>2, <2>3
<1> QED BY <1>2, <1>3 DEF Program

(* What an import deletes was imported; what a bootstrap replaces was not. *)
LEMMA GoneIs ==
  ASSUME Phases, Sessions, Sound, Views, NEW p \in Program, NEW g \in gone[p]
  PROVE  /\ g \in db /\ RowOK(g)
         /\ p \in Import => OfImport(db, g)
         /\ p \in Container => g.kind = "ds" /\ ~g.imported /\ Enabled(g) \in added[p]
                               /\ SameRow(Enabled(g), g)
<1>1. g \in db /\ RowOK(g)
  BY DEF Sound
<1>2. ASSUME p \in Import PROVE OfImport(db, g)
  <2>1. Session(p) /\ Current(p)
    BY DEF Sessions, Views
  <2>2. \/ g.kind \in {"ds", "table"} /\ Id(g) \in ImportedIds(view[p], g.kind)
        \/ Kind(g) = "child" /\ g.table \in ImportedIds(view[p], "table")
    BY <1>2, <2>1 DEF Session, GoneByImport
  <2>3. CASE g.kind \in {"ds", "table"} /\ Id(g) \in ImportedIds(view[p], g.kind)
    <3>1. PICK v \in view[p] : v.imported /\ Id(v) = Id(g)
      BY <2>3 DEF ImportedIds, Ids
    <3>2. g.imported
      BY <1>1, <2>1, <2>3, <3>1 DEF Current
    <3> QED BY <3>2 DEF OfImport
  <2>4. CASE Kind(g) = "child" /\ g.table \in ImportedIds(view[p], "table")
    <3>1. PICK v \in view[p] : v.imported /\ v.kind = "table" /\ Id(v) = g.table
      BY <2>4 DEF ImportedIds, Ids
    <3>2. g.table # None
      BY <1>1, <2>4, Columns
    <3>3. PICK t \in db : Id(t) = g.table
      <4>1. g.table \in References(g)
        BY <3>2 DEF References
      <4> QED BY <1>1, <4>1, OneRow DEF Sound
    <3>4. t.kind = "table"
      BY <3>1, <3>3 DEF Id
    <3>5. t.imported
      BY <2>1, <3>1, <3>3, <3>4 DEF Current
    <3> QED BY <3>3, <3>4, <3>5 DEF OfImport, ImportedIds, Ids
  <2> QED BY <2>2, <2>3, <2>4
<1>3. ASSUME p \in Container
      PROVE  g.kind = "ds" /\ ~g.imported /\ Enabled(g) \in added[p] /\ SameRow(Enabled(g), g)
  BY <1>1, <1>3, EnabledRow DEF Sessions, Session, GoneByContainer
<1> QED BY <1>1, <1>2, <1>3

-----------------------------------------------------------------------------
(* A statement that is accepted preserves the invariant.                   *)

LEMMA OldIsWritten ==
  ASSUME NEW p \in Program, pc[p] \in Writing, Session(p)
  PROVE  Statement(p).old \subseteq Writes(p)
<1>1. CASE pc[p] = "policy"
  BY <1>1, PolicyStatement
<1>2. ASSUME NEW kind \in Parts, pc[p] = DeleteLabel(kind)
      PROVE  Statement(p).old \subseteq Writes(p)
  BY <1>2, DeleteStatement DEF PreviousImport
<1>3. ASSUME NEW kind \in Parts, pc[p] = InsertLabel(kind)
      PROVE  Statement(p).old \subseteq Writes(p)
  <2>1. CASE p \in Import
    BY <1>3, <2>1, ImportStatement
  <2>2. CASE p \in Container
    BY <1>3, <2>2, ContainerStatement
  <2> QED BY <2>1, <2>2 DEF Program
<1> QED BY <1>1, <1>2, <1>3, LabelCases

LEMMA FlushKeepsSound ==
  ASSUME IInv, NEW p \in Program, Flush(p)
  PROVE  Sound'
<1> DEFINE s == Statement(p)
<1>1. Phases /\ Sound /\ Session(p)
  BY DEF IInv, Sessions
<1>2. /\ pc[p] \in Writing
      /\ gone'[p] = gone[p] \union (s.old \intersect db)
      /\ \A q \in Program \ {p} : gone'[q] = gone[q]
      /\ ~Violates((Writes(p) \ s.old) \union s.new, s.new)
      /\ db' = db
  BY <1>1, FlushIs
<1>3. /\ Writes(p)' = (Writes(p) \ s.old) \union s.new
      /\ \A q \in Program \ {p} : Writes(q)' = Writes(q)
  BY <1>1, FlushWrites
<1> HIDE DEF s
<1>4. \A a, b \in Writes(p)' : Key(a) = Key(b) => a = b
  <2>1. \A a, b \in Writes(p) : Key(a) = Key(b) => a = b
    BY <1>1, OneRow DEF Sound
  <2>2. \A a \in s.new, b \in Writes(p)' : Key(a) = Key(b) => a = b
    BY <1>2, <1>3 DEF Violates
  <2> QED BY <1>3, <2>1, <2>2
<1>5. \A a \in Writes(p)' : \A id \in References(a) : \E t \in Writes(p)' : Id(t) = id
  BY <1>2, <1>3 DEF Violates, Ids
<1>6. ~Violates(Writes(p)', Writes(p)')
  BY <1>4, <1>5, SoundRows
<1>7. ASSUME NEW q \in Program
      PROVE  gone'[q] \subseteq db' /\ ~Violates(Writes(q)', Writes(q)')
  BY <1>1, <1>2, <1>3, <1>6 DEF Sound
<1> QED BY <1>1, <1>2, <1>7 DEF Sound, Violates, Ids, Key, Id, References, RowOK, Kind

LEMMA FlushKeepsDisjoint ==
  ASSUME IInv, NEW p \in Program, Flush(p)
  PROVE  Disjoint'
<1> DEFINE s == Statement(p)
           Wrote(q) == gone[q] \union added[q]
<1>1. /\ gone'[p] \union added'[p] \subseteq Wrote(p) \union s.old \union s.new
      /\ \A q \in Program \ {p} : gone'[q] = gone[q] /\ added'[q] = added[q]
      /\ ~Held(p, s.old \union s.new)
  BY FlushIs DEF IInv
<1> HIDE DEF s
<1>2. ASSUME NEW q \in Program \ {p}, NEW r \in s.old \union s.new, NEW h \in Wrote(q)
      PROVE  Key(r) # Key(h) /\ Id(h) \notin References(r) /\ Id(r) \notin References(h)
  BY <1>1 DEF Held
<1>3. ASSUME NEW q \in Program, NEW t \in Program, q # t,
             NEW r \in Wrote(q), NEW h \in Wrote(t)
      PROVE  Key(r) # Key(h) /\ Id(h) \notin References(r) /\ Id(r) \notin References(h)
  BY <1>3 DEF IInv, Disjoint, Apart
<1>4. ASSUME NEW q \in Program, NEW t \in Program, q # t,
             NEW r \in gone'[q] \union added'[q], NEW h \in gone'[t] \union added'[t]
      PROVE  Key(r) # Key(h) /\ Id(h) \notin References(r) /\ Id(r) \notin References(h)
  <2>1. CASE q = p
    BY <1>1, <1>2, <1>3, <1>4, <2>1
  <2>2. CASE t = p
    BY <1>1, <1>2, <1>3, <1>4, <2>2
  <2>3. CASE q # p /\ t # p
    BY <1>1, <1>3, <1>4, <2>3
  <2> QED BY <2>1, <2>2, <2>3
<1> QED BY <1>4 DEF Disjoint, Apart, Key, Id, References

LEMMA FlushKeepsPhases ==
  ASSUME IInv, NEW p \in Program, Flush(p)
  PROVE  Phases'
<1>1. Phases
  BY DEF IInv
<1>2. /\ pc[p] \in Writing /\ pc' = [pc EXCEPT ![p] = After(p)] /\ pc'[p] = After(p)
      /\ UNCHANGED <<schema, missing, bundle, view>>
      /\ \A q \in Program \ {p} :
           pc'[q] = pc[q] /\ gone'[q] = gone[q] /\ added'[q] = added[q]
      /\ DOMAIN gone' = Program /\ DOMAIN added' = Program
  BY <1>1, FlushIs
<1>3. After(p) \in InTransaction /\ (After(p) \in Deleting => p \in Import)
  BY <1>1, <1>2, PastAfter DEF Phases, Phase
<1>4. pc' \in [Program -> Label]
  BY <1>1, <1>2, <1>3 DEF Phases, Label, InTransaction
<1>5. Phase(p)'
  BY <1>1, <1>2, <1>3 DEF Phases, Phase, InTransaction, Writing
<1>6. ASSUME NEW q \in Program \ {p} PROVE Phase(q)'
  BY <1>1, <1>2 DEF Phases, Phase
<1> QED BY <1>1, <1>2, <1>4, <1>5, <1>6 DEF Phases

LEMMA FlushKeepsSessions ==
  ASSUME IInv, NEW p \in Program, Flush(p)
  PROVE  Sessions'
<1>1. Phases /\ Sound /\ Sessions
  BY DEF IInv
<1>2. Session(p)'
  BY <1>1, ImportFlushes, ContainerFlushes DEF Sessions, Program
<1>3. ASSUME NEW q \in Program \ {p} PROVE Session(q)'
  BY <1>1, FlushIs, SessionStays DEF Sessions
<1> QED BY <1>2, <1>3 DEF Sessions

LEMMA FlushKeepsFresh ==
  ASSUME IInv, NEW p \in Program, Flush(p)
  PROVE  Fresh'
<1>1. /\ pc[p] \in Writing /\ db' = db /\ view' = view
      /\ \A q \in Program \ {p} : pc'[q] = pc[q]
  BY FlushIs DEF IInv
<1>2. pc[p] \notin Ended
  BY <1>1 DEF Writing, Ended
<1> QED BY <1>1, <1>2 DEF IInv, Fresh

LEMMA FlushKeepsViews ==
  ASSUME IInv, NEW p \in Program, Flush(p)
  PROVE  Views'
<1> DEFINE s == Statement(p)
<1>1. Phases /\ Sound /\ Session(p) /\ Current(p) /\ Views /\ Fresh
  BY DEF IInv, Sessions, Views
<1>2. /\ pc[p] \in Writing /\ pc'[p] = After(p) /\ view' = view /\ db' = db
      /\ \A q \in Program \ {p} :
           pc'[q] = pc[q] /\ gone'[q] = gone[q] /\ added'[q] = added[q]
  BY <1>1, FlushIs
<1>3. \A q \in Program \ {p} : Current(q)'
  BY <1>1, <1>2, CurrentStays DEF Views
<1>4. ASSUME NEW kind \in Parts, p \in Import, pc'[p] \in DeletedAt(kind)
      PROVE  PreviousImport(p, kind)' = {}
  <2>1. Writes(p)' = (Writes(p) \ s.old) \union s.new
    BY <1>1, FlushWrites
  <2>2. \A k : ImportedIds(view[p], k)' = ImportedIds(view[p], k)
    BY <1>2 DEF ImportedIds, Ids, Id
  <2>3. PreviousImport(p, kind) \subseteq s.old
    <3>1. CASE pc[p] \in DeletedAt(kind)
      BY <1>1, <1>4, <3>1 DEF Current
    <3>2. CASE pc[p] = DeleteLabel(kind)
      BY <3>2, DeleteStatement
    <3> QED BY <1>2, <1>4, <3>1, <3>2, PastAfter
  <2>4. s.new \intersect PreviousImport(p, kind)' = {}
    <3>1. ASSUME NEW a \in s.new
          PROVE  a.kind = "policy" \/ \E k \in Parts : BundleRowFacts(a, bundle[p], k, p)
      <4>1. CASE pc[p] = "policy"
        BY <3>1, <4>1, PolicyStatement, PolicyRowIs
      <4>2. ASSUME NEW k \in Parts, pc[p] = DeleteLabel(k)
            PROVE  FALSE
        BY <3>1, <4>2, DeleteStatement
      <4>3. ASSUME NEW k \in Parts, pc[p] = InsertLabel(k)
            PROVE  BundleRowFacts(a, bundle[p], k, p)
        <5>1. BundleOK(bundle[p])
          BY <1>1, <1>2, <1>4, OfferedAssumption DEF Phases, Phase, InTransaction
        <5> QED BY <1>4, <3>1, <4>3, <5>1, ImportStatement, BundleRowIs
      <4> QED BY <1>2, <4>1, <4>2, <4>3, LabelCases
    <3>2. \A v \in view[p] : v.by # p
      <4>1. pc[p] \notin Ended
        BY <1>2 DEF Writing, Ended
      <4> QED BY <1>1, <4>1 DEF Fresh
    <3>3. ASSUME NEW k \in Parts, NEW id \in ImportedIds(view[p], k), NEW n PROVE id # <<p, k, n>>
      BY <3>2 DEF ImportedIds, Ids, Id
    <3>4. ASSUME NEW a \in s.new, NEW k \in Parts, BundleRowFacts(a, bundle[p], k, p),
                 a \in PreviousImport(p, kind)'
          PROVE  FALSE
      <4>1. a.by = p /\ Kind(a) = k /\ (k = "child" => \E l : a.table = <<p, "table", l>>)
        BY <3>4 DEF BundleRowFacts
      <4>2. IF kind = "child"
            THEN Kind(a) = "child" /\ a.table \in ImportedIds(view[p], "table")
            ELSE a.kind = kind /\ Id(a) \in ImportedIds(view[p], kind)
        BY <2>2, <3>4 DEF PreviousImport, Kind, Id
      <4> QED BY <3>3, <4>1, <4>2 DEF Id, Parts
    <3>5. ASSUME NEW a \in PreviousImport(p, kind)' PROVE a.kind # "policy"
      BY <3>5 DEF PreviousImport, Kind, Parts
    <3> QED BY <3>1, <3>4, <3>5
  <2> HIDE DEF s
  <2>5. ASSUME NEW a \in PreviousImport(p, kind)' PROVE a \in PreviousImport(p, kind) \/ a \in s.new
    BY <2>1, <2>2 DEF PreviousImport, Kind, Id
  <2>6. ASSUME NEW a \in PreviousImport(p, kind)' PROVE a \notin s.old \/ a \in s.new
    BY <2>1, <2>2 DEF PreviousImport, Kind, Id
  <2> QED BY <2>3, <2>4, <2>5, <2>6
<1>5. Current(p)'
  <2>1. \A v \in view[p] : OfImport(view[p], v)' <=> OfImport(view[p], v)
    BY <1>2 DEF OfImport, ImportedIds, Ids, Id
  <2> QED BY <1>1, <1>2, <1>4, <2>1 DEF Current, SameRow, Key, Id
<1> QED BY <1>3, <1>5 DEF Views

-----------------------------------------------------------------------------
(* The end of a session, with its changes or without.                      *)

Stops(p) ==
  /\ pc[p] \notin Ended /\ pc'[p] \in Ended
  /\ pc' = [pc EXCEPT ![p] = pc'[p]]
  /\ view' = [view EXCEPT ![p] = {}]
  /\ gone' = [gone EXCEPT ![p] = {}]
  /\ added' = [added EXCEPT ![p] = {}]
  /\ UNCHANGED <<schema, missing, bundle>>

LEMMA EndIs ==
  ASSUME Phases, NEW p \in Program, NEW l \in Ended, pc[p] \notin Ended, End(p, l)
  PROVE  Stops(p)
BY DEF End, Goto, Stops, Phases

LEMMA CommitIs ==
  ASSUME Phases, NEW p \in Program, Commit(p) \/ CommitUnacknowledged(p)
  PROVE  Stops(p) /\ pc[p] = "commit" /\ db' = Writes(p)
<1>1. pc[p] = "commit" /\ db' = Writes(p) /\ (End(p, "done") \/ End(p, "failed"))
  BY DEF Commit, CommitUnacknowledged
<1> QED BY <1>1, EndIs DEF Ended

LEMMA GiveUpIs ==
  ASSUME Phases, NEW p \in Program,
         TableExists(p) \/ FlushRefused(p) \/ LockWaitTimeout(p) \/ Break(p)
  PROVE  Stops(p) /\ db' = db
<1>1. /\ pc[p] \in {"start", "create", "begin"} \union InTransaction /\ db' = db
      /\ End(p, "refused") \/ End(p, "failed")
  BY DEF TableExists, FlushRefused, LockWaitTimeout, Break, InTransaction
<1> QED BY <1>1, EndIs DEF Ended, InTransaction, Writing

LEMMA StopIs ==
  ASSUME Phases, NEW p \in Program, Stops(p)
  PROVE  /\ pc'[p] \in Ended /\ view'[p] = {} /\ gone'[p] = {} /\ added'[p] = {}
         /\ \A q \in Program \ {p} : /\ pc'[q] = pc[q] /\ view'[q] = view[q]
                                     /\ gone'[q] = gone[q] /\ added'[q] = added[q]
         /\ bundle' = bundle
BY DEF Stops, Phases

LEMMA StopKeepsPhases ==
  ASSUME IInv, NEW p \in Program, Stops(p)
  PROVE  Phases'
<1>1. Phases
  BY DEF IInv
<1>2. /\ pc'[p] \in Ended /\ view'[p] = {} /\ gone'[p] = {} /\ added'[p] = {}
      /\ \A q \in Program \ {p} : /\ pc'[q] = pc[q] /\ view'[q] = view[q]
                                  /\ gone'[q] = gone[q] /\ added'[q] = added[q]
  BY <1>1, StopIs
<1>3. UNCHANGED <<schema, missing, bundle>>
  BY DEF Stops
<1>4. pc' \in [Program -> Label] /\ DOMAIN view' = Program /\ DOMAIN gone' = Program
      /\ DOMAIN added' = Program
  BY <1>1, <1>2 DEF Phases, Stops, Label, Ended
<1>5. Phase(p)'
  BY <1>2 DEF Phase, Ended, InTransaction, Writing, Deleting
<1>6. ASSUME NEW q \in Program \ {p} PROVE Phase(q)'
  BY <1>1, <1>2, <1>3 DEF Phases, Phase
<1> QED BY <1>1, <1>3, <1>4, <1>5, <1>6 DEF Phases

LEMMA StopKeepsSessions ==
  ASSUME IInv, NEW p \in Program, Stops(p)
  PROVE  Sessions'
<1>1. Phases /\ Sessions
  BY DEF IInv
<1>2. pc'[p] \notin InTransaction
  BY <1>1, StopIs DEF Ended, InTransaction, Writing
<1>3. Session(p)'
  BY <1>1, <1>2, StopIs, IdleSession
<1>4. ASSUME NEW q \in Program \ {p} PROVE Session(q)'
  BY <1>1, StopIs, SessionStays DEF Sessions
<1> QED BY <1>3, <1>4 DEF Sessions

LEMMA StopKeepsDisjoint ==
  ASSUME IInv, NEW p \in Program, Stops(p)
  PROVE  Disjoint'
<1>1. Phases /\ Disjoint
  BY DEF IInv
<1>2. \A q \in Program : gone'[q] \subseteq gone[q] /\ added'[q] \subseteq added[q]
  BY <1>1, StopIs
<1> QED BY <1>1, <1>2 DEF Disjoint, Apart, Key, Id, References

LEMMA IdleWrites ==
  ASSUME NEW p, gone'[p] = {}, added'[p] = {}
  PROVE  Writes(p)' = db'
BY DEF Writes

LEMMA GiveUpKeepsIInv ==
  ASSUME IInv, NEW p \in Program, Stops(p), db' = db
  PROVE  IInv'
<1>1. Phases' /\ Sessions' /\ Disjoint'
  BY StopKeepsPhases, StopKeepsSessions, StopKeepsDisjoint
<1>2. /\ pc'[p] \in Ended /\ view'[p] = {} /\ gone'[p] = {} /\ added'[p] = {}
      /\ \A q \in Program \ {p} : /\ pc'[q] = pc[q] /\ view'[q] = view[q]
                                  /\ gone'[q] = gone[q] /\ added'[q] = added[q]
  BY StopIs DEF IInv
<1>3. \A q \in Program \ {p} : Current(q)' /\ Writes(q)' = Writes(q)
  BY <1>2, CurrentStays DEF IInv, Views
<1>4. Current(p)'
  <2>1. pc'[p] \notin InTransaction
    BY <1>2 DEF Ended, InTransaction, Writing
  <2> QED BY <1>2, <2>1, IdleSession
<1>5. Sound'
  <2>1. ASSUME NEW q \in Program
        PROVE  gone'[q] \subseteq db' /\ ~Violates(Writes(q)', Writes(q)')
    BY <1>2, <1>3, IdleWrites DEF IInv, Sound
  <2> QED BY <2>1 DEF IInv, Sound, Violates, Ids, Key, Id, References, RowOK, Kind
<1>6. Fresh'
  BY <1>2 DEF IInv, Fresh
<1> QED BY <1>1, <1>3, <1>4, <1>5, <1>6 DEF IInv, Views

-----------------------------------------------------------------------------
(* A commit: what the program wrote is there for the others.               *)

Commits(p) == Stops(p) /\ pc[p] = "commit" /\ db' = Writes(p)

(* Two transactions write different rows, and no parent and child.         *)
LEMMA ApartIs ==
  ASSUME IInv, NEW p \in Program, NEW q \in Program, p # q
  PROVE  /\ gone[p] \intersect gone[q] = {} /\ added[p] \intersect gone[q] = {}
         /\ added[q] \intersect gone[p] = {}
         /\ \A r \in gone[p] \union added[p], h \in gone[q] \union added[q] :
              Key(r) # Key(h) /\ Id(h) \notin References(r) /\ Id(r) \notin References(h)
BY DEF IInv, Disjoint, Apart

(* Together, what two transactions write satisfies the constraints when    *)
(* what each of them writes does.                                          *)
LEMMA TwoWriters ==
  ASSUME IInv, NEW p \in Program, NEW q \in Program, p # q, Commits(p)
  PROVE  gone'[q] \subseteq db' /\ ~Violates(Writes(q)', Writes(q)')
<1>1. /\ db' = (db \ gone[p]) \union added[p] /\ gone'[q] = gone[q] /\ added'[q] = added[q]
  BY StopIs DEF Commits, IInv, Writes
<1>2. /\ gone[p] \intersect gone[q] = {} /\ added[p] \intersect gone[q] = {}
      /\ added[q] \intersect gone[p] = {}
      /\ \A r \in gone[p] \union added[p], h \in gone[q] \union added[q] :
           Key(r) # Key(h) /\ Id(h) \notin References(r) /\ Id(r) \notin References(h)
  BY ApartIs
<1>3. gone[q] \subseteq db'
  BY <1>1, <1>2 DEF IInv, Sound
<1>4. /\ ~Violates(Writes(p), Writes(p)) /\ ~Violates(Writes(q), Writes(q))
      /\ ~Violates(db, db)
      /\ \A r \in db : RowOK(r)
  BY DEF IInv, Sound
<1>5. Writes(p) = (db \ gone[p]) \union added[p] /\ Writes(q) = (db \ gone[q]) \union added[q]
  BY DEF Writes
<1> DEFINE W == ((db \ (gone[p] \union gone[q])) \union added[p]) \union added[q]
<1>6. Writes(q)' = W
  BY <1>1, <1>2 DEF Writes
<1>7. ASSUME NEW a \in W, NEW b \in W, Key(a) = Key(b) PROVE a = b
  <2>1. CASE a \in Writes(p) /\ b \in Writes(p)
    BY <1>4, <1>7, <2>1, OneRow
  <2>2. CASE a \in Writes(q) /\ b \in Writes(q)
    BY <1>4, <1>7, <2>2, OneRow
  <2>3. CASE (a \in added[p] /\ b \in added[q]) \/ (a \in added[q] /\ b \in added[p])
    BY <1>2, <1>7, <2>3
  <2>4. \/ a \in Writes(p) /\ a \in Writes(q)
        \/ a \in Writes(p) /\ a \in added[p]
        \/ a \in Writes(q) /\ a \in added[q]
    BY <1>5
  <2>5. \/ b \in Writes(p) /\ b \in Writes(q)
        \/ b \in Writes(p) /\ b \in added[p]
        \/ b \in Writes(q) /\ b \in added[q]
    BY <1>5
  <2> QED BY <2>1, <2>2, <2>3, <2>4, <2>5
<1>8. ASSUME NEW a \in W, NEW id \in References(a) PROVE \E t \in W : Id(t) = id
  <2>1. CASE a \in added[p]
    <3>1. PICK t \in Writes(p) : Id(t) = id
      BY <1>4, <1>5, <2>1, <1>8, OneRow
    <3>2. t \notin gone[q]
      BY <1>2, <1>8, <2>1, <3>1
    <3> QED BY <1>5, <3>1, <3>2
  <2>2. CASE a \in added[q]
    <3>1. PICK t \in Writes(q) : Id(t) = id
      BY <1>4, <1>5, <2>2, <1>8, OneRow
    <3>2. t \notin gone[p]
      BY <1>2, <1>8, <2>2, <3>1
    <3> QED BY <1>5, <3>1, <3>2
  <2>3. CASE a \in db /\ a \notin gone[p] /\ a \notin gone[q]
    <3>1. PICK t \in Writes(p) : Id(t) = id
      BY <1>4, <1>5, <2>3, <1>8, OneRow
    <3>2. CASE t \in added[p]
      BY <3>1, <3>2
    <3>3. CASE t \in db /\ t \notin gone[p]
      <4>1. PICK u \in Writes(q) : Id(u) = id
        BY <1>4, <1>5, <2>3, <1>8, OneRow
      <4>2. CASE u \in added[q]
        BY <4>1, <4>2
      <4>3. CASE u \in db /\ u \notin gone[q]
        <5>1. t.kind \in {"ds", "table"}
          BY <1>4, <1>8, <2>3, <3>1, WhatIsReferredTo
        <5>2. Key(t) = Key(u)
          BY <1>4, <3>1, <3>3, <4>1, <4>3, <5>1, IdGivesKey
        <5>3. t = u
          BY <1>4, <3>3, <4>3, <5>2, OneRow
        <5> QED BY <3>1, <3>3, <4>3, <5>3
      <4> QED BY <1>5, <4>1, <4>2, <4>3
    <3> QED BY <1>5, <3>2, <3>3
  <2> QED BY <2>1, <2>2, <2>3
<1> HIDE DEF W
<1>9. ~Violates(W, W)
  BY <1>7, <1>8, SoundRows
<1> QED BY <1>1, <1>3, <1>6, <1>9

LEMMA CommitKeepsSound ==
  ASSUME IInv, NEW p \in Program, Commits(p)
  PROVE  Sound'
<1>1. db' = Writes(p) /\ gone'[p] = {} /\ added'[p] = {}
  BY StopIs DEF IInv, Commits
<1>2. ~Violates(Writes(p), Writes(p))
  BY DEF IInv, Sound
<1>3. \A q \in Program : gone'[q] \subseteq db' /\ ~Violates(Writes(q)', Writes(q)')
  BY <1>1, <1>2, TwoWriters, IdleWrites
<1>4. ASSUME NEW r \in Writes(p) PROVE RowOK(r) /\ (r.imported => r.by # "operator")
  <2>1. CASE r \in db
    BY <2>1 DEF IInv, Sound
  <2>2. CASE r \in added[p]
    BY <2>2, AddedIs, ProgramAssumption DEF IInv, Sessions
  <2> QED BY <2>1, <2>2 DEF Writes
<1> QED BY <1>1, <1>2, <1>3, <1>4 DEF Sound, Violates, Ids, Key, Id, References, RowOK, Kind

LEMMA CommitKeepsFresh ==
  ASSUME IInv, NEW p \in Program, Commits(p)
  PROVE  Fresh'
<1>1. /\ db' = Writes(p) /\ pc'[p] \in Ended /\ view'[p] = {}
      /\ \A q \in Program \ {p} : pc'[q] = pc[q] /\ view'[q] = view[q]
  BY StopIs DEF IInv, Commits
<1>2. ASSUME NEW q \in Program, pc'[q] \notin Ended
      PROVE  (\A r \in db' : r.by # q) /\ \A t \in Program : \A r \in view'[t] : r.by # q
  <2>1. q # p /\ pc[q] \notin Ended
    BY <1>1, <1>2
  <2>2. (\A r \in db : r.by # q) /\ \A t \in Program : \A r \in view[t] : r.by # q
    BY <2>1 DEF IInv, Fresh
  <2>3. ASSUME NEW r \in added[p] PROVE r.by # q
    <3>1. r.by = p \/ \E g \in db : SameRow(r, g)
      BY AddedIs DEF IInv, Sessions
    <3>2. \A g \in db : SameRow(r, g) => r.by = g.by
      BY DEF SameRow, Id
    <3> QED BY <2>1, <2>2, <3>1, <3>2
  <2> QED BY <1>1, <2>2, <2>3 DEF Writes
<1> QED BY <1>2 DEF Fresh

-----------------------------------------------------------------------------
(* A factor, rule or route belongs to a table of the import that inserted  *)
(* it, or to one a seed has the name of.                                   *)
LEMMA AddedChildIs ==
  ASSUME Phases, Sound, NEW p \in Program, Session(p), NEW a \in added[p], Kind(a) = "child"
  PROVE  \/ p \in Import /\ \E l : a.table = <<p, "table", l>>
         \/ p \in Container /\ a.table[3] \in SeedTables
<1>1. CASE p \in Import
  <2>1. pc[p] \in InTransaction
    BY DEF Phases, Phase
  <2>2. BundleOK(bundle[p])
    BY <1>1, <2>1, OfferedAssumption DEF Phases, Phase
  <2>3. a = PolicyRow(p) \/ \E kind \in Parts : a \in BundleRows(bundle[p], kind, p)
    BY <1>1 DEF Session, AddedByImport
  <2>4. a # PolicyRow(p)
    <3>1. Kind(PolicyRow(p)) = "policy"
      BY PolicyRowIs DEF Kind
    <3> QED BY <3>1
  <2>5. PICK kind \in Parts : BundleRowFacts(a, bundle[p], kind, p)
    BY <2>2, <2>3, <2>4, BundleRowIs
  <2> QED BY <1>1, <2>5 DEF BundleRowFacts
<1>2. CASE p \in Container
  <2>1. RowOK(a)
    BY DEF Session
  <2>2. a.table # None
    BY <2>1, Columns
  <2> QED BY <1>2, <2>2 DEF Session, AddedByContainer
<1> QED BY <1>1, <1>2 DEF Program

(* What belongs to an import now did so in every view that has it.         *)
LEMMA SameOrigin ==
  ASSUME Sound, NEW p \in Program, Session(p), Current(p),
         NEW v \in view[p], NEW r \in db, SameRow(v, r), OfImport(db, r)
  PROVE  OfImport(view[p], v)
<1>1. RowOK(r) /\ RowOK(v) /\ Id(v) = Id(r) /\ v.table = r.table
  BY DEF Sound, Session, SameRow, Key
<1>2. CASE r.imported
  <2>1. r.kind \in {"ds", "table"}
    BY <1>1, <1>2, Columns
  <2>2. v.imported
    BY <1>1, <1>2, <2>1 DEF Current
  <2> QED BY <2>2 DEF OfImport
<1>3. CASE r.table \in ImportedIds(db, "table")
  <2>1. PICK t \in db : t.imported /\ t.kind = "table" /\ Id(t) = r.table
    BY <1>3 DEF ImportedIds, Ids
  <2>2. v.table # None
    BY <1>1, <2>1, Columns DEF Sound
  <2>3. PICK u \in view[p] : Id(u) = v.table
    <3>1. v.table \in References(v)
      BY <2>2 DEF References
    <3> QED BY <3>1, OneRow DEF Session
  <2>4. Id(u) = Id(t) /\ u.kind = "table"
    BY <1>1, <2>1, <2>3 DEF Id
  <2>5. u.imported
    BY <2>1, <2>4 DEF Current
  <2> QED BY <2>3, <2>4, <2>5 DEF OfImport, ImportedIds, Ids
<1> QED BY <1>2, <1>3 DEF OfImport

LEMMA CommitKeepsViews ==
  ASSUME IInv, NEW p \in Program, Commits(p)
  PROVE  Views'
<1>1. /\ pc[p] = "commit" /\ db' = (db \ gone[p]) \union added[p]
      /\ pc'[p] \in Ended /\ view'[p] = {} /\ gone'[p] = {} /\ added'[p] = {}
      /\ \A q \in Program \ {p} : /\ pc'[q] = pc[q] /\ view'[q] = view[q]
                                  /\ gone'[q] = gone[q] /\ added'[q] = added[q]
  BY StopIs DEF IInv, Commits, Writes
<1>2. Phases /\ Sound /\ Session(p) /\ Views /\ Fresh /\ Sessions
  BY DEF IInv, Sessions
<1>3. Current(p)'
  <2>1. pc'[p] \notin InTransaction
    BY <1>1 DEF Ended, InTransaction, Writing
  <2> QED BY <1>1, <2>1, IdleSession
<1>4. ASSUME NEW q \in Program \ {p} PROVE Current(q)'
  <2>1. Session(q) /\ Current(q)
    BY <1>2 DEF Sessions, Views
  <2>2. \A v \in view[q] : v.by # p
    <3>1. pc[p] \notin Ended
      BY <1>1 DEF Ended
    <3> QED BY <1>2, <3>1 DEF Fresh
  <2>3. ASSUME NEW a \in added[p], NEW v \in view[q], Id(v) = Id(a)
        PROVE  \E g \in gone[p] : g.kind = "ds" /\ ~g.imported /\ g \in db /\ RowOK(g)
                                  /\ SameRow(a, g) /\ ~a.imported
    <3>1. a.by # p
      BY <2>2, <2>3 DEF Id
    <3> QED BY <1>2, <3>1, AddedIs
  <2>4. ASSUME NEW v \in view[q], NEW r \in db', Id(v) = Id(r), r.kind \in {"ds", "table"}
        PROVE  v.imported = r.imported
    <3>1. CASE r \in db
      BY <2>1, <2>4, <3>1 DEF Current
    <3>2. CASE r \in added[p]
      <4>1. PICK g \in gone[p] : g.kind = "ds" /\ ~g.imported /\ g \in db /\ SameRow(r, g)
                                 /\ ~r.imported
        BY <2>3, <2>4, <3>2
      <4>2. v.imported = g.imported
        BY <2>1, <2>4, <4>1 DEF Current, SameRow
      <4>3. RowOK(v) /\ RowOK(r)
        BY <1>2, <2>1, <3>2 DEF Session
      <4> QED BY <4>1, <4>2, <4>3 DEF RowOK
    <3> QED BY <1>1, <3>1, <3>2
  <2>5. ASSUME NEW v \in view[q], ~OfImport(view[q], v) PROVE \E r \in db' : SameRow(v, r)
    <3>1. PICK r \in db : SameRow(v, r)
      BY <2>1, <2>5 DEF Current
    <3>2. CASE r \notin gone[p]
      BY <1>1, <3>1, <3>2
    <3>3. CASE r \in gone[p] /\ p \in Container
      <4>1. Enabled(r) \in added[p] /\ SameRow(Enabled(r), r)
        BY <1>2, <3>3, GoneIs
      <4> QED BY <1>1, <3>1, <4>1 DEF SameRow
    <3>4. CASE r \in gone[p] /\ p \in Import
      <4>1. OfImport(db, r)
        BY <1>2, <3>4, GoneIs
      <4> QED BY <1>2, <2>1, <2>5, <3>1, <4>1, SameOrigin
    <3> QED BY <3>2, <3>3, <3>4 DEF Program
  <2>6. ASSUME NEW v \in view[q], NEW r \in db', v.imported, r.imported, v.by = r.by
        PROVE  \E u \in view[q] : SameRow(u, r)
    <3>1. r \notin added[p]
      BY <1>2, <2>2, <2>6, AddedIs
    <3> QED BY <1>1, <2>1, <2>6, <3>1 DEF Current
  <2>7. ASSUME NEW kind \in Parts, q \in Import, pc[q] \in DeletedAt(kind)
        PROVE  PreviousImport(q, kind)' = {}
    <3>1. \A k : ImportedIds(view[q], k)' = ImportedIds(view[q], k)
      BY <1>1 DEF ImportedIds, Ids, Id
    <3>2. PreviousImport(q, kind) = {}
      BY <2>1, <2>7 DEF Current
    <3>3. Writes(q)' \subseteq Writes(q) \union added[p]
      BY <1>1 DEF Writes
    <3>4. ASSUME NEW a \in PreviousImport(q, kind)' PROVE FALSE
      <4>1. /\ a \in Writes(q)'
            /\ IF kind = "child"
               THEN Kind(a) = "child" /\ a.table \in ImportedIds(view[q], "table")
               ELSE a.kind = kind /\ Id(a) \in ImportedIds(view[q], kind)
        BY <3>1, <3>4 DEF PreviousImport, Kind, Id
      <4>2. a \notin Writes(q)
        BY <3>2, <4>1 DEF PreviousImport
      <4>3. a \in added[p]
        BY <3>3, <4>1, <4>2
      <4>4. CASE kind = "child"
        <5>1. PICK v \in view[q] : v.kind = "table" /\ v.imported /\ Id(v) = a.table
          BY <4>1, <4>4 DEF ImportedIds, Ids
        <5>2. a.table[1] = v.by /\ a.table[3] = v.name
          BY <5>1 DEF Id
        <5>3. v.name \notin SeedTables
          BY <2>1, <5>1, Columns DEF Session, SeedNames
        <5>4. v.by # p
          BY <2>2
        <5> QED BY <1>2, <4>1, <4>3, <4>4, <5>2, <5>3, <5>4, AddedChildIs
      <4>5. CASE kind # "child"
        <5>1. PICK v \in view[q] : v.kind = kind /\ v.imported /\ Id(v) = Id(a)
          BY <4>1, <4>5 DEF ImportedIds, Ids
        <5>2. PICK g \in gone[p] : g.kind = "ds" /\ ~g.imported /\ g \in db /\ SameRow(a, g)
          BY <2>3, <4>3, <5>1
        <5>3. v.imported = g.imported
          BY <2>1, <5>1, <5>2 DEF Current, SameRow
        <5> QED BY <5>1, <5>2, <5>3
      <4> QED BY <4>4, <4>5
    <3> QED BY <3>4
  <2>8. \A v \in view[q] : OfImport(view[q], v)' <=> OfImport(view[q], v)
    BY <1>1 DEF OfImport, ImportedIds, Ids, Id
  <2> QED BY <1>1, <2>4, <2>5, <2>6, <2>7, <2>8 DEF Current, SameRow, Key, Id
<1> QED BY <1>3, <1>4 DEF Views

LEMMA CommitKeepsIInv ==
  ASSUME IInv, NEW p \in Program, Commits(p)
  PROVE  IInv'
<1>1. Phases' /\ Sessions' /\ Disjoint'
  BY StopKeepsPhases, StopKeepsSessions, StopKeepsDisjoint DEF Commits
<1> QED BY <1>1, CommitKeepsSound, CommitKeepsFresh, CommitKeepsViews DEF IInv

LEMMA FlushKeepsIInv ==
  ASSUME IInv, NEW p \in Program, Flush(p)
  PROVE  IInv'
BY FlushKeepsPhases, FlushKeepsSessions, FlushKeepsSound, FlushKeepsDisjoint, FlushKeepsFresh,
   FlushKeepsViews DEF IInv

-----------------------------------------------------------------------------
(* A database that begins with sound rows, and programs that have done     *)
(* nothing yet.                                                            *)
LEMMA InitIInv ==
  ASSUME Init
  PROVE  IInv
<1>1. PICK i \in Initial :
        schema = i[1] /\ db = i[2] /\ pc = [p \in Program |-> IF p \in i[3] THEN "start" ELSE "absent"]
  BY DEF Init
<1>2. /\ missing = [p \in Program |-> {}] /\ bundle = [p \in Program |-> NoBundle]
      /\ view = [p \in Program |-> {}] /\ gone = [p \in Program |-> {}]
      /\ added = [p \in Program |-> {}]
  BY DEF Init
<1>3. /\ schema \subseteq Table /\ ~Violates(db, db)
      /\ \A r \in db : RowOK(r) /\ r.by \notin Program /\ (r.imported => r.by # "operator")
  BY <1>1, InitialAssumption
<1>4. \A p \in Program : /\ pc[p] \in {"start", "absent"} /\ bundle[p] = NoBundle
                         /\ view[p] = {} /\ gone[p] = {} /\ added[p] = {}
  BY <1>1, <1>2
<1>5. Phases
  <2>1. \A p \in Program : Phase(p)
    BY <1>4 DEF Phase, InTransaction, Writing, Deleting
  <2> QED BY <1>1, <1>2, <1>3, <2>1 DEF Phases, Label
<1>6. \A p \in Program, kind \in Parts : pc[p] \notin InsertedAt(kind) /\ pc[p] \notin DeletedAt(kind)
  BY <1>4 DEF Parts, InsertedAt, DeletedAt, PastDeleteChildren, PastDeleteTables, PastDeletes,
              PastDatasources, PastTables
<1>7. Sessions
  <2>1. \A p \in Program : pc[p] \notin PastPolicy
    BY <1>4 DEF PastPolicy, PastDeleteChildren, PastDeleteTables, PastDeletes, PastDatasources,
                PastTables
  <2>2. \A p \in Program : ~Violates(view[p], view[p])
    BY <1>4 DEF Violates
  <2> QED BY <1>4, <1>6, <2>1, <2>2 DEF Sessions, Session, AddedByImport, GoneByImport,
                                  AddedByContainer, GoneByContainer
<1>8. Sound
  <2>1. \A p \in Program : Writes(p) = db
    BY <1>4 DEF Writes
  <2> QED BY <1>3, <1>4, <2>1 DEF Sound
<1>9. Disjoint /\ Fresh
  BY <1>3, <1>4 DEF Disjoint, Apart, Fresh
<1>10. Views
  BY <1>4, <1>6 DEF Views, Current
<1> QED BY <1>5, <1>7, <1>8, <1>9, <1>10 DEF IInv

-----------------------------------------------------------------------------
(* The steps before a session, and its first SELECT.                       *)

LEMMA SetUpKeepsIInv ==
  ASSUME IInv, NEW p \in Program, Build(p) \/ InspectSchema(p) \/ CreateTable(p)
  PROVE  IInv'
<1> DEFINE l == pc'[p]
<1>1. Phases
  BY DEF IInv
<1>2. /\ pc[p] \in {"start", "create"} /\ l \in {"start", "create", "begin", "failed"}
      /\ pc' = [pc EXCEPT ![p] = l] /\ UNCHANGED <<db, view, gone, added>>
      /\ \A q \in Program \ {p} : pc'[q] = pc[q] /\ bundle'[q] = bundle[q] /\ missing'[q] = missing[q]
      /\ DOMAIN missing' = Program
  BY <1>1 DEF Build, InspectSchema, CreateTable, Goto, Phases
<1>3. view[p] = {} /\ gone[p] = {} /\ added[p] = {}
  BY <1>1, <1>2 DEF Phases, Phase, InTransaction, Writing
<1>4. Phases'
  <2>1. CASE Build(p)
    <3>1. bundle' \in [Program -> Offered \union {NoBundle}] /\ schema' = schema /\ missing' = missing
      BY <1>1, <2>1 DEF Build, Phases
    <3>2. l \in {"start", "failed"}
      BY <1>1, <2>1 DEF Build, Goto, Phases
    <3>3. Phase(p)'
      BY <1>2, <1>3, <3>2 DEF Phase, InTransaction, Writing, Deleting
    <3>4. ASSUME NEW q \in Program \ {p} PROVE Phase(q)'
      BY <1>1, <1>2, <3>1 DEF Phases, Phase
    <3> QED BY <1>1, <1>2, <3>1, <3>3, <3>4 DEF Phases, Label
  <2>2. CASE InspectSchema(p)
    <3>1. /\ bundle' = bundle /\ schema' = schema /\ missing'[p] = Table \ schema
          /\ l = IF Table \subseteq schema THEN "begin" ELSE "create"
          /\ p \in Import => bundle[p] \in Offered
      BY <1>1, <2>2 DEF InspectSchema, Goto, Phases
    <3>2. Phase(p)'
      BY <1>1, <1>2, <1>3, <3>1 DEF Phases, Phase, InTransaction, Writing, Deleting
    <3>3. ASSUME NEW q \in Program \ {p} PROVE Phase(q)'
      BY <1>1, <1>2, <3>1 DEF Phases, Phase
    <3> QED BY <1>1, <1>2, <3>1, <3>2, <3>3 DEF Phases, Label
  <2>3. CASE CreateTable(p)
    <3>1. PICK t \in missing[p] \ schema :
            schema' = schema \union {t} /\ missing' = [missing EXCEPT ![p] = @ \ {t}]
      BY <2>3 DEF CreateTable
    <3>2. /\ pc[p] = "create" /\ bundle' = bundle /\ missing'[p] = missing[p] \ {t}
          /\ l = IF missing'[p] = {} THEN "begin" ELSE "create"
      BY <1>1, <2>3, <3>1 DEF CreateTable, Goto, Phases
    <3>3. missing[p] \subseteq Table /\ Table \subseteq schema \union missing[p] /\ schema \subseteq Table
          /\ (p \in Import => bundle[p] \in Offered)
      BY <1>1, <3>2 DEF Phases, Phase
    <3>4. Phase(p)'
      BY <1>2, <1>3, <3>1, <3>2, <3>3 DEF Phase, InTransaction, Writing, Deleting
    <3>5. ASSUME NEW q \in Program \ {p} PROVE Phase(q)'
      <4>1. Phase(q)
        BY <1>1 DEF Phases
      <4>2. schema = Table => schema' = Table
        BY <3>1, <3>3
      <4> QED BY <1>2, <3>1, <3>2, <4>1, <4>2 DEF Phase
    <3> QED BY <1>1, <1>2, <3>1, <3>2, <3>3, <3>4, <3>5 DEF Phases, Label
  <2> QED BY <2>1, <2>2, <2>3
<1>5. l \notin InTransaction /\ pc[p] \notin Ended
  BY <1>2 DEF InTransaction, Writing, Ended
<1>6. \A q \in Program : Session(q)' /\ Current(q)'
  <2>1. Session(p)' /\ Current(p)'
    BY <1>2, <1>3, <1>5, IdleSession
  <2>2. ASSUME NEW q \in Program \ {p} PROVE Session(q)' /\ Current(q)'
    BY <1>2, SessionStays, CurrentStays DEF IInv, Sessions, Views
  <2> QED BY <2>1, <2>2
<1>7. Sound' /\ Disjoint'
  BY <1>2 DEF IInv, Sound, Disjoint, Apart, Violates, Ids, Key, Id, References, RowOK, Kind, Writes
<1>8. Fresh'
  BY <1>2, <1>5 DEF IInv, Fresh
<1> QED BY <1>4, <1>6, <1>7, <1>8 DEF IInv, Sessions, Views

LEMMA BeginKeepsIInv ==
  ASSUME IInv, NEW p \in Program, Begin(p)
  PROVE  IInv'
<1>1. Phases /\ Sound /\ Fresh
  BY DEF IInv
<1>2. /\ pc[p] = "begin" /\ view' = [view EXCEPT ![p] = db] /\ pc' = [pc EXCEPT ![p] = "policy"]
      /\ pc'[p] = "policy" /\ view'[p] = db
      /\ \A q \in Program \ {p} : pc'[q] = pc[q] /\ view'[q] = view[q]
      /\ UNCHANGED <<schema, db, missing, bundle, gone, added>>
  BY <1>1 DEF Begin, Goto, Phases
<1>3. gone[p] = {} /\ added[p] = {}
  BY <1>1, <1>2 DEF Phases, Phase, InTransaction, Writing
<1>4. Phases'
  <2>1. Phase(p)'
    BY <1>1, <1>2 DEF Phases, Phase, InTransaction, Writing, Deleting
  <2>2. ASSUME NEW q \in Program \ {p} PROVE Phase(q)'
    BY <1>1, <1>2 DEF Phases, Phase
  <2> QED BY <1>1, <1>2, <2>1, <2>2 DEF Phases, Label, Writing
<1>5. /\ \A kind \in Parts : pc'[p] \notin InsertedAt(kind) /\ pc'[p] \notin DeletedAt(kind)
      /\ pc'[p] \notin PastPolicy
  BY <1>2 DEF Parts, InsertedAt, DeletedAt, PastPolicy, PastDeleteChildren, PastDeleteTables,
              PastDeletes, PastDatasources, PastTables
<1>6. Session(p)'
  <2>1. \A r \in view'[p] \union added'[p] : RowOK(r)'
    BY <1>1, <1>2, <1>3 DEF Sound, RowOK, Id, Kind
  <2>2. ~Violates(view[p], view[p])'
    BY <1>1, <1>2 DEF Sound, Violates, Ids, Key, Id, References
  <2> QED BY <1>2, <1>3, <1>5, <2>1, <2>2 DEF Session, AddedByImport, GoneByImport,
                                               AddedByContainer, GoneByContainer
<1>7. Current(p)'
  <2>1. ASSUME NEW v \in db, NEW r \in db, Id(v) = Id(r), r.kind \in {"ds", "table"}
        PROVE  v.imported = r.imported
    <3>1. Key(v) = Key(r)
      BY <1>1, <2>1, IdGivesKey DEF Sound
    <3> QED BY <1>1, <3>1, OneRow DEF Sound
  <2> QED BY <1>2, <1>5, <2>1 DEF Current, SameRow, Key, Id
<1>8. ASSUME NEW q \in Program \ {p} PROVE Session(q)' /\ Current(q)'
  BY <1>2, SessionStays, CurrentStays DEF IInv, Sessions, Views
<1>9. Sound' /\ Disjoint'
  BY <1>2 DEF IInv, Sound, Disjoint, Apart, Violates, Ids, Key, Id, References, RowOK, Kind, Writes
<1>10. Fresh'
  BY <1>1, <1>2 DEF Fresh, Ended
<1> QED BY <1>4, <1>6, <1>7, <1>8, <1>9, <1>10 DEF IInv, Sessions, Views

-----------------------------------------------------------------------------
(* An operator. *)

LEMMA ReplacedRow ==
  ASSUME NEW rows, ~Violates(rows, rows), NEW r \in rows, NEW e,
         Key(e) = Key(r), Id(e) = Id(r), References(e) = References(r)
  PROVE  ~Violates((rows \ {r}) \union {e}, (rows \ {r}) \union {e})
<1> DEFINE new == (rows \ {r}) \union {e}
<1>1. ASSUME NEW a \in new, NEW b \in new, Key(a) = Key(b) PROVE a = b
  BY <1>1, OneRow
<1>2. ASSUME NEW a \in new, NEW id \in References(a) PROVE \E t \in new : Id(t) = id
  <2>1. PICK t \in rows : Id(t) = id
    BY <1>2, OneRow
  <2> QED BY <2>1
<1> HIDE DEF new
<1>3. ~Violates(new, new)
  BY <1>1, <1>2, SoundRows
<1> QED BY <1>3 DEF new

(* Row r is now e, and no transaction has written it. *)
Switched(r, e) ==
  /\ db' = (db \ {r}) \union {e} /\ RowOK(e) /\ SameRow(e, r)
  /\ e.kind = r.kind /\ e.by = r.by /\ e.table = r.table /\ e.ds = r.ds /\ e.data = r.data
  /\ e.imported = r.imported /\ Kind(e) = Kind(r) /\ References(e) = References(r)
  /\ \A q \in Program : r \notin gone[q] /\ Writes(q)' = (Writes(q) \ {r}) \union {e}

LEMMA SwitchIs ==
  ASSUME IInv, Switch
  PROVE  \E r \in db : \E e : Switched(r, e)
<1>1. PICK r \in db : Free(r) /\ db' = (db \ {r}) \union {[r EXCEPT !.enabled = ~@]}
  BY DEF Switch
<1>2. RowOK(r) /\ r.enabled \in BOOLEAN
  BY DEF IInv, Sound, RowOK
<1> DEFINE b == ~r.enabled
           e == [r EXCEPT !.enabled = b]
<1>3. b \in BOOLEAN /\ b # r.enabled
  BY <1>2
<1>4. db' = (db \ {r}) \union {e}
  BY <1>1
<1> HIDE DEF b
<1>5. /\ RowOK(e) /\ e.enabled = b
      /\ e.kind = r.kind /\ e.name = r.name /\ e.by = r.by /\ e.table = r.table
      /\ e.ds = r.ds /\ e.data = r.data /\ e.imported = r.imported
  BY <1>2, <1>3, SwitchedRow
<1> HIDE DEF e
<1>6. Key(e) = Key(r) /\ Id(e) = Id(r) /\ References(e) = References(r) /\ Kind(e) = Kind(r)
  BY <1>5 DEF Key, Id, References, Kind
<1>7. ASSUME NEW q \in Program
      PROVE  r \notin gone[q] /\ Writes(q)' = (Writes(q) \ {r}) \union {e}
  <2>1. r \notin gone[q]
    BY <1>1 DEF Free
  <2>2. \A g \in gone[q] : g \in db /\ (Key(g) = Key(r) => g = r)
    BY OneRow DEF IInv, Sound
  <2>3. e \notin gone[q]
    BY <1>3, <1>5, <1>6, <2>1, <2>2
  <2>4. r \notin added[q]
    <3>1. SUFFICES ASSUME r \in added[q] PROVE FALSE
      OBVIOUS
    <3>2. pc[q] \notin Ended
      BY <3>1 DEF IInv, Phases, Phase, Ended, InTransaction, Writing
    <3>3. r.by # q
      BY <3>2 DEF IInv, Fresh
    <3>4. PICK g \in gone[q] : SameRow(r, g)
      BY <3>1, <3>3, AddedIs DEF IInv, Sessions
    <3> QED BY <2>1, <2>2, <3>4 DEF SameRow
  <2>5. gone'[q] = gone[q] /\ added'[q] = added[q]
    BY DEF Switch
  <2> QED BY <1>4, <2>1, <2>3, <2>4, <2>5 DEF Writes
<1> QED BY <1>4, <1>5, <1>6, <1>7 DEF SameRow, Switched

LEMMA SwitchKeepsIInv ==
  ASSUME IInv, Switch
  PROVE  IInv'
<1>0. PICK r \in db : \E e : Switched(r, e)
  BY SwitchIs
<1>e. PICK e : Switched(r, e)
  BY <1>0
<1>1. /\ db' = (db \ {r}) \union {e} /\ RowOK(e) /\ SameRow(e, r)
      /\ e.kind = r.kind /\ e.by = r.by /\ e.table = r.table
      /\ e.imported = r.imported /\ Kind(e) = Kind(r) /\ References(e) = References(r)
      /\ \A q \in Program : r \notin gone[q] /\ Writes(q)' = (Writes(q) \ {r}) \union {e}
  BY <1>e DEF Switched
<1>2. UNCHANGED <<schema, pc, missing, bundle, view, gone, added>>
  BY DEF Switch
<1>3. Key(e) = Key(r) /\ Id(e) = Id(r)
  BY <1>1 DEF SameRow
<1>4. Phases' /\ Disjoint'
  BY <1>2 DEF IInv, Phases, Phase, Disjoint, Apart, Key, Id, References
<1>5. Sessions'
  BY <1>2, SessionStays DEF IInv, Sessions
<1>6. Fresh'
  BY <1>1, <1>2 DEF IInv, Fresh
<1>7. Sound'
  <2>1. ~Violates(db', db')
    BY <1>1, <1>3, ReplacedRow DEF IInv, Sound
  <2>2. ASSUME NEW q \in Program PROVE gone'[q] \subseteq db' /\ ~Violates(Writes(q)', Writes(q)')
    <3>1. r \in Writes(q)
      BY <1>1 DEF Writes
    <3>2. ~Violates(Writes(q)', Writes(q)')
      BY <1>1, <1>3, <3>1, ReplacedRow DEF IInv, Sound
    <3> QED BY <1>1, <1>2, <3>2 DEF IInv, Sound
  <2>3. \A s \in db' : RowOK(s) /\ (s.imported => s.by # "operator")
    BY <1>1 DEF IInv, Sound
  <2> QED BY <2>1, <2>2, <2>3 DEF Sound, Violates, Ids, Key, Id, References, RowOK, Kind
<1>8. ASSUME NEW q \in Program PROVE Current(q)'
  <2>1. Current(q) /\ view'[q] = view[q]
    BY <1>2 DEF IInv, Views
  <2>2. ASSUME NEW v \in view[q], NEW s \in db', Id(v) = Id(s), s.kind \in {"ds", "table"}
        PROVE  v.imported = s.imported
    BY <1>1, <1>3, <2>1, <2>2 DEF Current
  <2>3. ASSUME NEW v \in view[q], ~OfImport(view[q], v) PROVE \E s \in db' : SameRow(v, s)
    <3>1. PICK s \in db : SameRow(v, s)
      BY <2>1, <2>3 DEF Current
    <3> QED BY <1>1, <1>3, <3>1 DEF SameRow
  <2>4. ASSUME NEW v \in view[q], NEW s \in db', v.imported, s.imported, v.by = s.by
        PROVE  \E u \in view[q] : SameRow(u, s)
    <3>1. CASE s \in db
      BY <2>1, <2>4, <3>1 DEF Current
    <3>2. CASE s = e
      <4>1. PICK u \in view[q] : SameRow(u, r)
        BY <1>1, <2>1, <2>4, <3>2 DEF Current
      <4> QED BY <1>3, <3>2, <4>1 DEF SameRow
    <3> QED BY <1>1, <3>1, <3>2
  <2>5. ASSUME NEW kind \in Parts, q \in Import, pc[q] \in DeletedAt(kind)
        PROVE  PreviousImport(q, kind)' = {}
    <3>1. \A k : ImportedIds(view[q], k)' = ImportedIds(view[q], k)
      BY <2>1 DEF ImportedIds, Ids, Id
    <3>2. PreviousImport(q, kind) = {}
      BY <2>1, <2>5 DEF Current
    <3>3. r \in Writes(q)
      BY <1>1 DEF Writes
    <3>4. ASSUME NEW a \in PreviousImport(q, kind)' PROVE FALSE
      <4>1. /\ a \in Writes(q)'
            /\ IF kind = "child"
               THEN Kind(a) = "child" /\ a.table \in ImportedIds(view[q], "table")
               ELSE a.kind = kind /\ Id(a) \in ImportedIds(view[q], kind)
        BY <3>1, <3>4 DEF PreviousImport, Kind, Id
      <4>2. a = e
        BY <1>1, <3>2, <4>1 DEF PreviousImport
      <4>3. r \in PreviousImport(q, kind)
        BY <1>1, <1>3, <3>3, <4>1, <4>2 DEF PreviousImport
      <4> QED BY <3>2, <4>3
    <3> QED BY <3>4
  <2>6. \A v \in view[q] : OfImport(view[q], v)' <=> OfImport(view[q], v)
    BY <2>1 DEF OfImport, ImportedIds, Ids, Id
  <2> QED BY <1>2, <2>1, <2>2, <2>3, <2>4, <2>5, <2>6 DEF Current, SameRow, Key, Id
<1> QED BY <1>4, <1>5, <1>6, <1>7, <1>8 DEF IInv, Views

(* An operator's route: n refers to rows no transaction has written, and   *)
(* to no table of an import.                                               *)
Registered(n) ==
  /\ db' = db \union {n} /\ n \notin db /\ RowOK(n)
  /\ n.kind = "route" /\ n.by = "operator" /\ ~n.imported
  /\ \E l \in db : l.kind = "table" /\ n.table = Id(l) /\ ~l.imported
  /\ \A r \in db : Key(r) # Key(n)
  /\ \A id \in References(n) : \E t \in db : Id(t) = id
  /\ \A q \in Program :
       /\ \A a \in added[q] : Key(a) # Key(n)
       /\ \A id \in References(n) : \E t \in db \ gone[q] : Id(t) = id

LEMMA RegisterIs ==
  ASSUME IInv, Register
  PROVE  \E n : Registered(n)
<1>1. PICK l \in db, d \in db :
        /\ l.kind = "table" /\ l.by = "operator" /\ d.kind = "ds" /\ Free(l) /\ Free(d)
        /\ \A r \in db : r.table # Id(l)
        /\ db' = db \union {[Row("route", "0", "operator") EXCEPT !.table = Id(l), !.ds = Id(d)]}
  BY DEF Register
<1>2. RowOK(l) /\ RowOK(d) /\ (l.imported => l.by # "operator")
  BY DEF IInv, Sound
<1> DEFINE t == Id(l)
           s == Id(d)
           b == Row("route", "0", "operator")
           n == [b EXCEPT !.table = t, !.ds = s]
<1>3. db' = db \union {n}
  BY <1>1
<1>4. n = [b EXCEPT !.table = t, !.ds = s]
  OBVIOUS
<1>5. b = [kind |-> "route", name |-> "0", by |-> "operator", table |-> None, ds |-> None,
           data |-> None, imported |-> FALSE, enabled |-> TRUE]
  BY DEF Row
<1>6. t # None /\ s # None /\ t \in ForeignKey("table") /\ s \in ForeignKey("ds")
  <2>1. t[2] = "table" /\ s[2] = "ds"
    BY <1>1 DEF Id
  <2>2. t \in RowId /\ s \in RowId
    BY <1>2 DEF RowOK
  <2> HIDE DEF t, s
  <2> QED BY <2>1, <2>2, NameAssumption DEF ForeignKey
<1>7. "0" \in Name /\ "operator" \in Author /\ "route" \in Kinds
  <2>1. RouteRow("0", "user", "user_0", "biz_user_db", "seed") \in SeedRows
    BY DEF SeedRows
  <2>2. RouteRow("0", "user", "user_0", "biz_user_db", "seed").name = "0"
    BY RouteRowIs
  <2>3. "0" \in Name
    BY <2>1, <2>2, NameAssumption
  <2> QED BY <2>3, ProgramAssumption DEF Kinds
<1> HIDE DEF n, b, t, s
<1>8. n = [kind |-> "route", name |-> "0", by |-> "operator", table |-> t, ds |-> s,
           data |-> None, imported |-> FALSE, enabled |-> TRUE]
  BY <1>4, <1>5
<1>9. n.kind = "route" /\ n.by = "operator" /\ ~n.imported /\ n.table = t /\ n.ds = s
  BY <1>8
<1>10. RowOK(n)
  BY <1>6, <1>7, <1>8, RowFrom
<1>11. References(n) = {t, s}
  BY <1>6, <1>9 DEF References
<1>12. \A r : Key(r) = Key(n) => r.table = t
  BY <1>9 DEF Key
<1>13. \A r \in db : Key(r) # Key(n)
  BY <1>1, <1>12 DEF t
<1>14. ASSUME NEW q \in Program
       PROVE  /\ \A a \in added[q] : Key(a) # Key(n)
              /\ \A id \in References(n) : \E r \in db \ gone[q] : Id(r) = id
  <2>1. l \notin gone[q] /\ d \notin gone[q] /\ \A a \in added[q] : t \notin References(a)
    BY <1>1 DEF Free, t
  <2>2. \A a \in added[q] : Key(a) # Key(n)
    BY <1>6, <1>12, <2>1 DEF References
  <2> QED BY <1>11, <2>1, <2>2 DEF t, s
<1>15. n \notin db /\ \A id \in References(n) : \E r \in db : Id(r) = id
  BY <1>11, <1>13 DEF t, s
<1> QED BY <1>1, <1>2, <1>3, <1>9, <1>10, <1>13, <1>14, <1>15 DEF Registered, t

LEMMA RegisterKeepsIInv ==
  ASSUME IInv, Register
  PROVE  IInv'
<1>1. PICK n : Registered(n)
  BY RegisterIs
<1>2. UNCHANGED <<schema, pc, missing, bundle, view, gone, added>>
  BY DEF Register
<1>3. Phases' /\ Disjoint'
  BY <1>2 DEF IInv, Phases, Phase, Disjoint, Apart, Key, Id, References
<1>4. Sessions'
  BY <1>2, SessionStays DEF IInv, Sessions
<1>5. Fresh'
  BY <1>1, <1>2, ProgramAssumption DEF IInv, Fresh, Registered
<1>6. \A q \in Program : Writes(q)' = Writes(q) \union {n}
  BY <1>1, <1>2 DEF IInv, Sound, Writes, Registered
<1>7. ASSUME NEW rows, ~Violates(rows, rows), \A r \in rows : Key(r) # Key(n),
             \A id \in References(n) : \E t \in rows : Id(t) = id
      PROVE  ~Violates(rows \union {n}, rows \union {n})
  <2>1. ASSUME NEW a \in rows \union {n}, NEW b \in rows \union {n}, Key(a) = Key(b)
        PROVE  a = b
    BY <1>7, <2>1, OneRow
  <2>2. ASSUME NEW a \in rows \union {n}, NEW id \in References(a)
        PROVE  \E t \in rows \union {n} : Id(t) = id
    BY <1>7, <2>2, OneRow
  <2> QED BY <2>1, <2>2, SoundRows
<1>8. Sound'
  <2>1. ASSUME NEW q \in Program PROVE gone'[q] \subseteq db' /\ ~Violates(Writes(q)', Writes(q)')
    <3>1. \A r \in Writes(q) : Key(r) # Key(n)
      BY <1>1 DEF Registered, Writes
    <3>2. \A id \in References(n) : \E t \in Writes(q) : Id(t) = id
      BY <1>1 DEF Registered, Writes
    <3>3. ~Violates(Writes(q)', Writes(q)')
      BY <1>6, <1>7, <3>1, <3>2 DEF IInv, Sound
    <3> QED BY <1>1, <1>2, <3>3 DEF IInv, Sound, Registered
  <2>2. ~Violates(db', db')
    BY <1>1, <1>7 DEF IInv, Sound, Registered
  <2>3. \A s \in db' : RowOK(s) /\ (s.imported => s.by # "operator")
    BY <1>1 DEF IInv, Sound, Registered
  <2> QED BY <2>1, <2>2, <2>3 DEF Sound, Violates, Ids, Key, Id, References, RowOK, Kind
<1>9. ASSUME NEW q \in Program PROVE Current(q)'
  <2>1. Current(q) /\ view'[q] = view[q] /\ Kind(n) = "child" /\ db \subseteq db'
    BY <1>1, <1>2 DEF IInv, Views, Registered, Kind
  <2>2. ASSUME NEW kind \in Parts, q \in Import, pc[q] \in DeletedAt(kind)
        PROVE  PreviousImport(q, kind)' = {}
    <3>1. \A k : ImportedIds(view[q], k)' = ImportedIds(view[q], k)
      BY <2>1 DEF ImportedIds, Ids, Id
    <3>2. PreviousImport(q, kind) = {}
      BY <2>1, <2>2 DEF Current
    <3>3. n.table \notin ImportedIds(view[q], "table")
      <4>1. PICK l \in db : l.kind = "table" /\ n.table = Id(l) /\ ~l.imported
        BY <1>1 DEF Registered
      <4>2. \A v \in view[q] : Id(v) = Id(l) => v.imported = l.imported
        BY <2>1, <4>1 DEF Current
      <4> QED BY <4>1, <4>2 DEF ImportedIds, Ids
    <3> QED BY <1>1, <1>6, <2>1, <3>1, <3>2, <3>3
            DEF PreviousImport, Kind, Id, Parts, Registered
  <2>3. \A v \in view[q] : OfImport(view[q], v)' <=> OfImport(view[q], v)
    BY <2>1 DEF OfImport, ImportedIds, Ids, Id
  <2>4. ASSUME NEW v \in view[q], NEW s \in db', Id(v) = Id(s), s.kind \in {"ds", "table"}
        PROVE  v.imported = s.imported
    BY <1>1, <2>1, <2>4 DEF Current, Registered
  <2>5. ASSUME NEW v \in view[q], NEW s \in db', v.imported, s.imported, v.by = s.by
        PROVE  \E u \in view[q] : SameRow(u, s)
    BY <1>1, <2>1, <2>5 DEF Current, Registered
  <2> QED BY <1>2, <2>1, <2>2, <2>3, <2>4, <2>5 DEF Current, SameRow, Key, Id
<1> QED BY <1>3, <1>4, <1>5, <1>8, <1>9 DEF IInv, Views

LEMMA Inductive ==
  ASSUME IInv, [Next]_vars
  PROVE  IInv'
<1>1. ASSUME NEW p \in Program, Advance(p) \/ CommitUnacknowledged(p) \/ Break(p)
      PROVE  IInv'
  <2>1. CASE Build(p) \/ InspectSchema(p) \/ CreateTable(p)
    BY <2>1, SetUpKeepsIInv
  <2>2. CASE Begin(p)
    BY <2>2, BeginKeepsIInv
  <2>3. CASE Flush(p)
    BY <2>3, FlushKeepsIInv
  <2>4. CASE TableExists(p) \/ FlushRefused(p) \/ LockWaitTimeout(p) \/ Break(p)
    BY <2>4, GiveUpIs, GiveUpKeepsIInv DEF IInv
  <2>5. CASE Commit(p) \/ CommitUnacknowledged(p)
    BY <2>5, CommitIs, CommitKeepsIInv DEF IInv, Commits
  <2> QED BY <1>1, <2>1, <2>2, <2>3, <2>4, <2>5 DEF Advance
<1>2. CASE Switch
  BY <1>2, SwitchKeepsIInv
<1>3. CASE Register
  BY <1>3, RegisterKeepsIInv
<1>4. CASE UNCHANGED vars
  <2>1. /\ UNCHANGED <<schema, db, pc, missing, bundle, view, gone, added>>
        /\ \A q \in Program : Session(q)' /\ Current(q)' /\ Writes(q)' = Writes(q)
    BY <1>4, SessionStays, CurrentStays DEF vars, IInv, Sessions, Views
  <2>2. Phases' /\ Disjoint' /\ Fresh'
    BY <2>1 DEF IInv, Phases, Phase, Disjoint, Apart, Fresh, Key, Id, References
  <2>3. Sound'
    BY <2>1 DEF IInv, Sound, Violates, Ids, Key, Id, References, RowOK, Kind
  <2> QED BY <2>1, <2>2, <2>3 DEF IInv, Sessions, Views
<1> QED BY <1>1, <1>2, <1>3, <1>4 DEF Next

-----------------------------------------------------------------------------
(* The invariant holds of every run: sessions are what their labels say,   *)
(* the rows there are and those every open transaction would leave satisfy *)
(* the constraints, open transactions write rows apart, and what a view    *)
(* lacks of the committed rows is known.                                   *)
THEOREM Invariance == Spec => []IInv
<1> QED BY InitIInv, Inductive, PTL DEF Spec

(* The database keeps its constraints, and no program reads or writes it   *)
(* before every table of the schema exists, whatever runs at once.         *)
THEOREM TypeCorrect == Spec => []TypeOK
<1>1. ASSUME IInv PROVE TypeOK
  <2>1. Phases /\ Sound
    BY <1>1 DEF IInv
  <2>2. pc \in [Program -> {"absent", "start", "create", "begin", "commit", "done", "failed",
                           "refused"} \union Writing]
    BY <2>1 DEF Phases, Label
  <2>3. ASSUME NEW p \in Program
        PROVE  /\ gone[p] \subseteq db
               /\ pc[p] \notin InTransaction => view[p] = {} /\ gone[p] = {} /\ added[p] = {}
               /\ pc[p] \in InTransaction => schema = Table
    BY <2>1 DEF Phases, Phase, Sound
  <2> QED BY <2>1, <2>2, <2>3 DEF Phases, Sound, TypeOK
<1> QED BY <1>1, Invariance, PTL

(* No commit takes away, or switches on again, a row an operator switched  *)
(* off, unless it is a datasource or belongs to an import: however many    *)
(* imports and containers run, and whatever their sessions saw.            *)
THEOREM OperatorsKeepTheirRowsOff == Spec => SwitchedOffStaysOff
<1> DEFINE StaysOff ==
      \A r \in db : ~r.enabled /\ r.kind # "ds" /\ ~OfImport(db, r) /\ pc' # pc => r \in db'
<1>1. ASSUME IInv, [Next]_vars PROVE [StaysOff]_vars
  <2>1. ASSUME NEW p \in Program, Commit(p) \/ CommitUnacknowledged(p) PROVE StaysOff
    <3>1. db' = (db \ gone[p]) \union added[p]
      BY <2>1 DEF Commit, CommitUnacknowledged, Writes
    <3>2. \A g \in gone[p] : g.kind = "ds" \/ OfImport(db, g)
      BY <1>1, GoneIs DEF Program, IInv
    <3> QED BY <3>1, <3>2
  <2>2. CASE db' = db \/ pc' = pc
    BY <2>2
  <2>3. (\E p \in Program : Commit(p) \/ CommitUnacknowledged(p)) \/ db' = db \/ pc' = pc
    BY <1>1 DEF Next, Advance, Build, InspectSchema, CreateTable, TableExists, Begin, Flush,
                FlushRefused, LockWaitTimeout, Break, Switch, Register, vars
  <2> QED BY <2>1, <2>2, <2>3
<1> QED BY <1>1, Invariance, PTL DEF Spec, SwitchedOffStaysOff

-----------------------------------------------------------------------------
(* A program whose session sees what is committed.                         *)

LEMMA NothingCameBetween ==
  ASSUME IInv, NEW p \in Program, view[p] = db
  PROVE  Sees(p) = Writes(p)
<1>1. \A g \in gone[p], r \in db : SameRow(g, r) => g = r
  BY OneRow DEF IInv, Sound, SameRow
<1>2. \A g \in gone[p] : SameRow(g, g)
  BY DEF SameRow
<1> QED BY <1>1, <1>2 DEF Sees, Writes

LEMMA WritesSound ==
  ASSUME IInv, NEW p \in Program
  PROVE  /\ \A a \in Writes(p) : RowOK(a)
         /\ \A a, b \in Writes(p) : Key(a) = Key(b) => a = b
         /\ \A a \in Writes(p) : \A id \in References(a) : \E t \in Writes(p) : Id(t) = id
<1>1. \A a \in Writes(p) : RowOK(a)
  BY WritesRows DEF IInv, Sessions
<1>2. ~Violates(Writes(p), Writes(p))
  BY DEF IInv, Sound
<1> QED BY <1>1, <1>2, OneRow

LEMMA PolicyAccepted ==
  ASSUME IInv, NEW p \in Program, view[p] = db, pc[p] = "policy"
  PROVE  Accepted(p)
<1> DEFINE s == Statement(p)
           rows == (Writes(p) \ s.old) \union s.new
<1>1. s.ids = {} /\ s.old = {} /\ s.new \subseteq {PolicyRow(p)}
  BY PolicyStatement
<1>2. s.new # {} => \A r \in Writes(p) : Key(r) # Key(PolicyRow(p))
  BY PolicyStatement, NothingCameBetween DEF PolicySeen
<1>3. References(PolicyRow(p)) = {}
  BY PolicyRowIs
<1> HIDE DEF s
<1>4. ASSUME NEW a \in s.new, NEW b \in rows, Key(a) = Key(b) PROVE a = b
  BY <1>1, <1>2, <1>4
<1>5. ASSUME NEW a \in rows PROVE References(a) \subseteq Ids(rows)
  BY <1>1, <1>3, WritesSound DEF Ids
<1> QED BY <1>1, <1>4, <1>5 DEF Accepted, Violates, s

(* What is deleted is referred to by what was deleted before, and by       *)
(* somebody else's routes.                                                 *)
LEMMA DeleteAccepted ==
  ASSUME IInv, NEW p \in Import, view[p] = db, NEW kind \in Parts, pc[p] = DeleteLabel(kind),
         ~ForeignRows(p)
  PROVE  Accepted(p)
<1> DEFINE old == PreviousImport(p, kind)
           rows == Writes(p) \ old
<1>1. Statement(p).ids = {} /\ Statement(p).old = old /\ Statement(p).new = {}
  BY DeleteStatement DEF Program
<1>2. Current(p) /\ Session(p) /\ p \in Program
  BY DEF IInv, Views, Sessions, Program
<1>3. ASSUME NEW a \in rows, NEW t \in old, Id(t) \in References(a) PROVE FALSE
  <2>1. RowOK(a)
    BY <1>2, WritesSound
  <2>2. /\ Kind(a) = "child"
        /\ \/ t.kind = "table" /\ Id(t) = a.table
           \/ t.kind = "ds" /\ Id(t) = a.ds /\ a.kind = "route"
    BY <1>3, <2>1, WhatIsReferredTo
  <2>3. kind # "child" /\ t.kind = kind /\ Id(t) \in ImportedIds(view[p], kind)
    BY <2>2 DEF PreviousImport, Kind
  <2>4. pc[p] \in DeletedAt("child")
    BY <2>3 DEF Parts, DeleteLabel, DeletedAt, PastDeleteChildren, PastDeleteTables
  <2>5. a.table \notin ImportedIds(view[p], "table")
    BY <1>2, <2>2, <2>4 DEF Current, Parts, PreviousImport
  <2>6. t.kind = "ds" /\ Id(t) = a.ds
    BY <2>2, <2>3, <2>5
  <2>7. a \in db
    <3>1. \A k \in Parts : pc[p] \notin InsertedAt(k)
      BY DEF Parts, DeleteLabel, InsertedAt, PastDatasources, PastTables
    <3>2. \A r \in added[p] : r = PolicyRow(p)
      BY <1>2, <3>1 DEF Session, AddedByImport
    <3>3. References(PolicyRow(p)) = {}
      BY <1>2, PolicyRowIs
    <3> QED BY <1>3, <3>2, <3>3 DEF Writes
  <2>8. ~OfImport(db, a)
    BY <2>1, <2>2, <2>5, Columns DEF OfImport
  <2>9. a.ds \in Ids({d \in db : d.kind = "ds" /\ d.imported})
    BY <2>3, <2>6 DEF ImportedIds
  <2> QED BY <2>7, <2>8, <2>9 DEF ForeignRows
<1>4. ASSUME NEW a \in rows PROVE References(a) \subseteq Ids(rows)
  <2>1. ASSUME NEW id \in References(a) PROVE id \in Ids(rows)
    <3>1. PICK t \in Writes(p) : Id(t) = id
      BY <1>2, <2>1, WritesSound
    <3> QED BY <1>3, <2>1, <3>1 DEF Ids
  <2> QED BY <2>1
<1> HIDE DEF old
<1> QED BY <1>1, <1>4 DEF Accepted, Violates

(* Without two routes of one table with one value, a bundle brings no key  *)
(* twice.                                                                  *)
LEMMA BundleKeys ==
  ASSUME NEW p \in Program, NEW b, BundleOK(b), ~DuplicateRoutes(b), NEW kind \in Parts,
         NEW a \in BundleRows(b, kind, p), NEW c \in BundleRows(b, kind, p), Key(a) = Key(c)
  PROVE  a = c
<1>1. p \in Author /\ a.kind = c.kind /\ a.name = c.name /\ a.table = c.table
  BY ProgramAssumption DEF Key
<1>2. CASE kind = "ds"
  <2>1. PICK d \in b.datasources : a = ImportedRow("ds", d, p)
    BY <1>2 DEF BundleRows
  <2>2. PICK e \in b.datasources : c = ImportedRow("ds", e, p)
    BY <1>2 DEF BundleRows
  <2>3. a.name = d /\ c.name = e
    BY <1>1, <2>1, <2>2, ImportedRowIs DEF BundleOK
  <2> QED BY <1>1, <2>1, <2>2, <2>3
<1>3. CASE kind = "table"
  <2>1. PICK l \in b.tables : a = ImportedRow("table", l, p)
    BY <1>3 DEF BundleRows
  <2>2. PICK m \in b.tables : c = ImportedRow("table", m, p)
    BY <1>3 DEF BundleRows
  <2>3. a.name = l /\ c.name = m
    BY <1>1, <2>1, <2>2, ImportedRowIs DEF BundleOK
  <2> QED BY <1>1, <2>1, <2>2, <2>3
<1>4. CASE kind = "child"
  <2> DEFINE Factor(f) == ChildRow("factor", f.name, f.logical, f.sourceKey, p)
             Rule(u)   == ChildRow("rule", u.kind, u.logical, None, p)
             Route(t)  == RouteRow(t.value, t.logical, <<t.physical, t.segment>>, t.ds, p)
  <2>1. ASSUME NEW r \in BundleRows(b, kind, p)
        PROVE  \/ \E f \in b.factors : r = Factor(f)
               \/ \E u \in b.rules : r = Rule(u)
               \/ \E t \in b.routes : r = Route(t)
    BY <1>4, <2>1 DEF BundleRows
  <2>2. \A f : /\ Factor(f).kind = "factor" /\ Factor(f).name = f.name
               /\ Factor(f).table = <<p, "table", f.logical>>
    BY ChildRowIs
  <2>3. \A u : /\ Rule(u).kind = "rule" /\ Rule(u).name = u.kind
               /\ Rule(u).table = <<p, "table", u.logical>>
    BY ChildRowIs
  <2>4. \A t : /\ Route(t).kind = "route" /\ Route(t).name = t.value
               /\ Route(t).table = <<p, "table", t.logical>>
    BY RouteRowIs
  <2>5. ASSUME NEW f \in b.factors, NEW g \in b.factors, a = Factor(f), c = Factor(g)
        PROVE  a = c
    <3>1. f.name = g.name /\ f.logical = g.logical
      BY <1>1, <2>2, <2>5
    <3>2. f.sourceKey = g.sourceKey
      BY <3>1 DEF BundleOK
    <3> QED BY <2>5, <3>1, <3>2
  <2>6. ASSUME NEW u \in b.rules, NEW w \in b.rules, a = Rule(u), c = Rule(w)
        PROVE  a = c
    <3>1. u.kind = w.kind /\ u.logical = w.logical
      BY <1>1, <2>3, <2>6
    <3> QED BY <2>6, <3>1
  <2>7. ASSUME NEW t \in b.routes, NEW w \in b.routes, a = Route(t), c = Route(w)
        PROVE  a = c
    <3>1. t.value = w.value /\ t.logical = w.logical
      BY <1>1, <2>4, <2>7
    <3>2. t = w
      BY <3>1 DEF DuplicateRoutes
    <3> QED BY <2>7, <3>2
  <2> HIDE DEF Factor, Rule, Route
  <2>8. \/ a.kind = "factor" /\ \E f \in b.factors : a = Factor(f)
        \/ a.kind = "rule" /\ \E u \in b.rules : a = Rule(u)
        \/ a.kind = "route" /\ \E t \in b.routes : a = Route(t)
    BY <2>1, <2>2, <2>3, <2>4
  <2>9. \/ c.kind = "factor" /\ \E f \in b.factors : c = Factor(f)
        \/ c.kind = "rule" /\ \E u \in b.rules : c = Rule(u)
        \/ c.kind = "route" /\ \E t \in b.routes : c = Route(t)
    BY <2>1, <2>2, <2>3, <2>4
  <2> QED BY <1>1, <2>5, <2>6, <2>7, <2>8, <2>9
<1> QED BY <1>2, <1>3, <1>4 DEF Parts

(* What an import brings is new to the database and finds its parents.     *)
LEMMA ImportInsertAccepted ==
  ASSUME IInv, NEW p \in Import, view[p] = db, NEW kind \in Parts, pc[p] = InsertLabel(kind),
         ~ForeignRows(p), ~DuplicateRoutes(bundle[p])
  PROVE  Accepted(p)
<1> DEFINE b == bundle[p]
           new == BundleRows(b, kind, p)
           rows == Writes(p) \union new
<1>1. Statement(p).ids = {} /\ Statement(p).old = {} /\ Statement(p).new = new
  BY ImportStatement
<1>2. Current(p) /\ Session(p) /\ p \in Program
  BY DEF IInv, Views, Sessions, Program
<1>3. BundleOK(b)
  <2>1. pc[p] \in InTransaction
    BY DEF Parts, InsertLabel, InTransaction, Writing
  <2> QED BY <1>2, <2>1, OfferedAssumption DEF IInv, Phases, Phase
<1>4. \A a \in new : BundleRowFacts(a, b, kind, p)
  BY <1>2, <1>3, BundleRowIs
<1>5. pc[p] \notin InsertedAt(kind) /\ pc[p] \in DeletedAt(kind) /\ pc[p] \notin Ended
  BY DEF Parts, InsertLabel, InsertedAt, DeletedAt, PastDeleteChildren, PastDeleteTables,
         PastDeletes, PastDatasources, PastTables, Ended
<1>6. ASSUME NEW a \in new, NEW c \in Writes(p), Key(a) = Key(c) PROVE FALSE
  <2>1. RowOK(c) /\ RowOK(a) /\ Kind(a) = kind
    BY <1>2, <1>4, WritesSound DEF BundleRowFacts
  <2>2. c.kind = a.kind /\ c.name = a.name /\ c.table = a.table /\ Kind(c) = kind
    BY <1>6, <2>1 DEF Key, Kind
  <2>3. c \notin added[p]
    <3>1. Kind(PolicyRow(p)) = "policy"
      BY <1>2, PolicyRowIs DEF Kind
    <3>2. \A k \in Parts : c \in BundleRows(b, k, p) => k = kind
      BY <1>2, <1>3, <2>2, BundleRowIs DEF BundleRowFacts
    <3> QED BY <1>2, <1>5, <2>2, <3>1, <3>2 DEF Session, AddedByImport, Parts
  <2>4. c \in db
    BY <2>3 DEF Writes
  <2>5. CASE kind = "child"
    <3>1. PICK l : c.table = <<p, "table", l>>
      BY <1>4, <2>2, <2>5 DEF BundleRowFacts
    <3>2. c.table \in References(c)
      BY <2>1, <2>2, <2>5, Columns DEF References
    <3>3. PICK t \in db : Id(t) = c.table
      BY <2>4, <3>2, OneRow DEF IInv, Sound
    <3>4. t.by = p
      BY <3>1, <3>3 DEF Id
    <3> QED BY <1>2, <1>5, <3>4 DEF IInv, Fresh
  <2>6. CASE kind # "child"
    <3>1. c.kind = kind /\ kind \in {"ds", "table"} /\ c.table = None
      BY <2>1, <2>2, <2>6, Columns DEF Parts
    <3>2. kind = "ds" => c.name \in b.datasources
      BY <1>4, <2>2 DEF BundleRowFacts
    <3>3. kind = "table" => c.name \in b.tables
      BY <1>4, <2>2 DEF BundleRowFacts
    <3>4. OfImport(db, c)
      BY <2>4, <3>1, <3>2, <3>3 DEF ForeignRows
    <3>5. None \notin ImportedIds(db, "table")
      BY Columns DEF ImportedIds, Ids, IInv, Sound
    <3>6. c.imported
      BY <3>1, <3>4, <3>5 DEF OfImport
    <3>7. c \in PreviousImport(p, kind)
      BY <2>4, <3>1, <3>6 DEF PreviousImport, ImportedIds, Ids
    <3> QED BY <1>2, <1>5, <3>7 DEF Current
  <2> QED BY <2>5, <2>6
<1>7. ASSUME NEW a \in new, NEW c \in rows, Key(a) = Key(c) PROVE a = c
  BY <1>2, <1>3, <1>6, <1>7, BundleKeys
<1>8. ASSUME NEW a \in rows, NEW id \in References(a) PROVE \E t \in rows : Id(t) = id
  <2>1. CASE a \in Writes(p)
    BY <1>2, <1>8, <2>1, WritesSound
  <2>2. CASE a \in new
    <3>1. BundleRowFacts(a, b, kind, p)
      BY <1>4, <2>2
    <3>2. a.table = id \/ a.ds = id
      BY <1>8 DEF References
    <3>3. id # None
      BY <1>8 DEF References
    <3>4. Kind(a) = "child"
      BY <3>1, <3>2, <3>3, Columns DEF BundleRowFacts
    <3>5. pc[p] \in InsertedAt("ds") /\ pc[p] \in InsertedAt("table")
      BY <3>1, <3>4 DEF BundleRowFacts, InsertLabel, InsertedAt, PastDatasources, PastTables
    <3>6. BundleRows(b, "ds", p) \subseteq Writes(p) /\ BundleRows(b, "table", p) \subseteq Writes(p)
      BY <1>2, <3>5 DEF Session, AddedByImport, Parts, Writes
    <3>7. \/ \E l \in b.tables : id = <<p, "table", l>>
          \/ \E d \in b.datasources : id = <<p, "ds", d>>
      BY <3>1, <3>2, <3>3, <3>4 DEF BundleRowFacts
    <3>8. \E t \in Writes(p) : Id(t) = id
      BY <1>2, <1>3, <3>6, <3>7, BundleBrings
    <3> QED BY <3>8
  <2> QED BY <2>1, <2>2
<1>9. ASSUME NEW a \in rows PROVE References(a) \subseteq Ids(rows)
  BY <1>8 DEF Ids
<1>10. (Writes(p) \ {}) \union new = rows
  OBVIOUS
<1> HIDE DEF new, rows
<1>11. ~Violates(rows, new)
  BY <1>7, <1>9 DEF Violates
<1> QED BY <1>1, <1>10, <1>11 DEF Accepted

-----------------------------------------------------------------------------
(* No two seeds of a kind have one name.                                   *)
LEMMA SeedByName ==
  ASSUME NEW s \in SeedRows, NEW t \in SeedRows, s.kind = t.kind, s.name = t.name
  PROVE  s = t
<1> DEFINE Factor(name, l, data) == ChildRow("factor", name, l, data, "seed")
           Rule(name, l, data)   == ChildRow("rule", name, l, data, "seed")
           Route(name, l, x, d)  == RouteRow(name, l, x, d, "seed")
<1>1. \A kind, name : Row(kind, name, "seed").kind = kind /\ Row(kind, name, "seed").name = name
  BY DEF Row
<1>2. \A name, l, data :
        /\ Factor(name, l, data).kind = "factor" /\ Factor(name, l, data).name = name
        /\ Rule(name, l, data).kind = "rule" /\ Rule(name, l, data).name = name
  BY ChildRowIs
<1>3. \A name, l, x, d : Route(name, l, x, d).kind = "route" /\ Route(name, l, x, d).name = name
  BY RouteRowIs
<1>4. \A r \in SeedRows :
        \/ \E d \in SeedDatasources : r = Row("ds", d, "seed")
        \/ \E l \in SeedTables : r = Row("table", l, "seed")
        \/ r = Factor("uid", "user", "sql_predicate") \/ r = Factor("biz_date", "order", "route_context")
        \/ r = Rule("user_mod_2", "user", "mod") \/ r = Rule("order_month", "order", "format")
        \/ r = Route("0", "user", "user_0", "biz_user_db")
        \/ r = Route("1", "user", "user_1", "biz_user_db")
        \/ r = Route("2025_06", "order", "order_2025_06", "biz_order_db")
        \/ r = Route("2025_07", "order", "order_2025_07", "biz_order_db")
  BY DEF SeedRows
<1> HIDE DEF Factor, Rule, Route
<1>5. ASSUME NEW r \in SeedRows
      PROVE  \/ r.kind = "ds" /\ r = Row("ds", r.name, "seed")
             \/ r.kind = "table" /\ r = Row("table", r.name, "seed")
             \/ /\ r.kind = "factor"
                /\ \/ r.name = "uid" /\ r = Factor("uid", "user", "sql_predicate")
                   \/ r.name = "biz_date" /\ r = Factor("biz_date", "order", "route_context")
             \/ /\ r.kind = "rule"
                /\ \/ r.name = "user_mod_2" /\ r = Rule("user_mod_2", "user", "mod")
                   \/ r.name = "order_month" /\ r = Rule("order_month", "order", "format")
             \/ /\ r.kind = "route"
                /\ \/ r.name = "0" /\ r = Route("0", "user", "user_0", "biz_user_db")
                   \/ r.name = "1" /\ r = Route("1", "user", "user_1", "biz_user_db")
                   \/ r.name = "2025_06" /\ r = Route("2025_06", "order", "order_2025_06", "biz_order_db")
                   \/ r.name = "2025_07" /\ r = Route("2025_07", "order", "order_2025_07", "biz_order_db")
  BY <1>1, <1>2, <1>3, <1>4
<1> QED BY <1>5

LEMMA ContainerInsertAccepted ==
  ASSUME IInv, NEW p \in Container, view[p] = db, NEW kind \in Parts, pc[p] = InsertLabel(kind)
  PROVE  Accepted(p)
<1> DEFINE s == Statement(p)
           rows == (Writes(p) \ s.old) \union s.new
<1>1. Session(p) /\ p \in Program
  BY DEF IInv, Sessions, Program
<1>2. /\ s.ids = IF kind = "ds" THEN Ids(Disabled(p)) ELSE {}
      /\ s.old = {r \in Writes(p) : Id(r) \in s.ids}
      /\ s.new = MissingSeeds(p, kind) \union {Enabled(r) : r \in s.old}
  BY <1>1, ContainerStatement
<1>3. Sees(p) = Writes(p) /\ \A r \in Sees(p) : RowOK(r)
  BY <1>1, NothingCameBetween, SeesRows
<1> HIDE DEF s
<1>4. s.ids \subseteq Ids(s.old)
  BY <1>2, <1>3 DEF Ids, Disabled
<1>5. kind = "child" => SeedsSeen(p, "ds") /\ SeedsSeen(p, "table")
  BY <1>1 DEF Session, Parts, InsertLabel, InsertedAt, PastDatasources, PastTables
<1>6. ASSUME NEW a \in MissingSeeds(p, kind)
      PROVE  /\ \E x \in SeedRows : a = SeedOf(p, x) /\ a.kind = x.kind /\ a.name = x.name
             /\ \A id \in References(a) : \E t \in Writes(p) : Id(t) = id
             /\ \A r \in Writes(p) : Key(r) # Key(a)
  <2>1. PICK x \in SeedRows : Kind(x) = kind /\ a = SeedOf(p, x)
    BY <1>6 DEF MissingSeeds, Seeds
  <2>2. /\ a.kind = x.kind /\ a.name = x.name
        /\ \A id \in References(a) : \E t \in Sees(p) : Id(t) = id
    BY <1>1, <1>3, <1>5, <2>1, SeedOfIs
  <2> QED BY <1>3, <1>6, <2>1, <2>2 DEF MissingSeeds
<1>7. \A r \in s.old : r \in Writes(p) /\ Key(Enabled(r)) = Key(r) /\ Id(Enabled(r)) = Id(r)
                       /\ References(Enabled(r)) = References(r)
  BY <1>2, <1>3, EnabledRow
<1>8. ASSUME NEW a \in s.new, NEW c \in rows, Key(a) = Key(c) PROVE a = c
  <2>1. CASE a \in MissingSeeds(p, kind) /\ c \in MissingSeeds(p, kind)
    BY <1>6, <1>8, <2>1, SeedByName DEF Key
  <2>2. CASE a \in MissingSeeds(p, kind) /\ c \notin MissingSeeds(p, kind)
    BY <1>2, <1>6, <1>7, <1>8, <2>2
  <2>3. CASE a \notin MissingSeeds(p, kind)
    <3>1. PICK r \in s.old : a = Enabled(r)
      BY <1>2, <2>3
    <3>2. c \notin MissingSeeds(p, kind)
      BY <1>6, <1>7, <1>8, <3>1
    <3>3. CASE c \in Writes(p) /\ c \notin s.old
      BY <1>1, <1>7, <1>8, <3>1, <3>3, WritesSound
    <3>4. CASE c \in s.new
      <4>1. PICK t \in s.old : c = Enabled(t)
        BY <1>2, <3>2, <3>4
      <4> QED BY <1>1, <1>7, <1>8, <3>1, <4>1, WritesSound
    <3> QED BY <3>3, <3>4
  <2> QED BY <2>1, <2>2, <2>3
<1>9. ASSUME NEW t \in Writes(p) PROVE Id(t) \in Ids(rows)
  BY <1>2, <1>7 DEF Ids
<1>10. ASSUME NEW a \in rows, NEW id \in References(a) PROVE id \in Ids(rows)
  <2>1. \E t \in Writes(p) : Id(t) = id
    BY <1>1, <1>2, <1>6, <1>7, <1>10, WritesSound
  <2> QED BY <1>9, <2>1
<1> HIDE DEF rows
<1>11. ~Violates(rows, s.new)
  BY <1>8, <1>10 DEF Violates
<1> QED BY <1>4, <1>11 DEF Accepted, s, rows

LEMMA RefusedOnlyForCause ==
  ASSUME IInv, NEW p \in Program, view[p] = db, pc[p] \in Writing, ~Accepted(p)
  PROVE  p \in Import /\ (DuplicateRoutes(bundle[p]) \/ ForeignRows(p))
<1>1. pc[p] # "policy"
  BY PolicyAccepted
<1>2. p \in Import
  <2>1. SUFFICES ASSUME p \in Container PROVE FALSE
    BY DEF Program
  <2>2. p \notin Import
    BY <2>1, ProgramAssumption
  <2>3. pc[p] \notin Deleting
    BY <2>2 DEF IInv, Phases, Phase
  <2>4. \A kind \in Parts : pc[p] # DeleteLabel(kind)
    BY <2>3 DEF Deleting, Parts, DeleteLabel
  <2> QED BY <1>1, <2>1, <2>4, LabelCases, ContainerInsertAccepted
<1> QED BY <1>1, <1>2, LabelCases, DeleteAccepted, ImportInsertAccepted

(* A program whose session still sees what is committed is refused only    *)
(* for what is wrong with its import: a bootstrap never, and an import     *)
(* whose values are told apart and whose names are its own never either,   *)
(* so that it can be repeated.                                             *)
THEOREM ProgramsAreRefusedForCause == Spec => RefusedForCause
<1> DEFINE ForCause ==
      \A p \in Program : pc[p] \in Writing /\ pc'[p] = "refused" =>
        \/ view[p] # db
        \/ p \in Import /\ (DuplicateRoutes(bundle[p]) \/ ForeignRows(p))
<1>1. ASSUME IInv, [Next]_vars PROVE [ForCause]_vars
  <2>1. ASSUME NEW p \in Program, pc[p] \in Writing, pc'[p] = "refused" PROVE ~Accepted(p)
    <3>1. pc[p] # "refused" /\ pc[p] \notin {"start", "create", "begin", "commit"}
      BY <2>1 DEF Writing
    <3>2. ASSUME NEW q \in Program, pc'[q] = "refused", pc[q] \in Writing,
                 Advance(q) \/ CommitUnacknowledged(q) \/ Break(q)
          PROVE  ~Accepted(q)
      <4>1. pc[q] \notin {"start", "create", "begin", "commit"}
        BY <3>2 DEF Writing
      <4>2. After(q) # "refused"
        BY <3>2, PastAfter DEF InTransaction, Writing
      <4>3. ~Flush(q) /\ ~LockWaitTimeout(q) /\ ~Break(q)
        BY <1>1, <3>2, <4>2 DEF Flush, LockWaitTimeout, Break, End, Goto, IInv, Phases
      <4> QED BY <3>2, <4>1, <4>3 DEF Advance, Build, InspectSchema, CreateTable, TableExists,
                                  Begin, FlushRefused, Commit, CommitUnacknowledged
    <3>3. ASSUME NEW q \in Program \ {p}, Advance(q) \/ CommitUnacknowledged(q) \/ Break(q)
          PROVE  pc'[p] = pc[p]
      BY <1>1, <3>3 DEF Advance, Build, InspectSchema, CreateTable, TableExists, Begin, Flush,
                        FlushRefused, LockWaitTimeout, Commit, CommitUnacknowledged, Break,
                        End, Goto, IInv, Phases
    <3>4. Switch \/ Register \/ UNCHANGED vars => pc' = pc
      BY DEF Switch, Register, vars
    <3> QED BY <1>1, <2>1, <3>1, <3>2, <3>3, <3>4 DEF Next
  <2> QED BY <1>1, <2>1, RefusedOnlyForCause
<1> QED BY <1>1, Invariance, PTL DEF Spec, RefusedForCause

-----------------------------------------------------------------------------
(* MetadataWriters implements ReplaceImport, for any number of imports and *)
(* containers: what a commit does to the rows is what the promise says it  *)
(* does to the entries, and every other step changes nothing of it but the *)
(* result.                                                                 *)
Entry(r) == [owner |-> Owner(r), content |-> Content(r)]
PolicyName == FullName(Row("policy", "default_select_guard", "seed"))

-----------------------------------------------------------------------------
(* The rows of a bundle under the ids of one program say what they say     *)
(* under the ids of another.                                               *)
LEMMA SameContent ==
  ASSUME NEW p \in Author, NEW q \in Author, NEW b, BundleOK(b), NEW kind \in Parts,
         NEW r \in BundleRows(b, kind, p)
  PROVE  \E s \in BundleRows(b, kind, q) : Content(s) = Content(r)
<1>1. NameOf(None) = None
  BY DEF NameOf
<1>2. \A by \in Author, k \in Kinds, name \in Name : NameOf(<<by, k, name>>) = name
  <2>1. ASSUME NEW by \in Author, NEW k \in Kinds, NEW name \in Name
        PROVE  NameOf(<<by, k, name>>) = name
    <3> DEFINE id == <<by, k, name>>
    <3>1. id \in RowId /\ id[3] = name
      BY DEF RowId
    <3> HIDE DEF id
    <3>2. NameOf(id) = name
      BY <3>1, NameAssumption DEF NameOf
    <3> QED BY <3>2 DEF id
  <2> QED BY <2>1
<1>3. "table" \in Kinds /\ "ds" \in Kinds
  BY DEF Kinds
<1>4. ASSUME NEW k \in {"ds", "table"}, NEW name \in Name \ SeedNames, NEW by \in Author
      PROVE  Content(ImportedRow(k, name, by)) = <<k, None, name, None, None>>
  BY <1>1, ImportedRowIs DEF Content
<1>5. ASSUME NEW k \in {"factor", "rule"}, NEW name \in Name, NEW l \in Name, NEW data,
             NEW by \in Author
      PROVE  Content(ChildRow(k, name, l, data, by)) = <<k, l, name, None, data>>
  <2> DEFINE c == ChildRow(k, name, l, data, by)
             t == <<by, "table", l>>
  <2>1. c.kind = k /\ c.name = name /\ c.data = data /\ c.table = t /\ c.ds = None
    BY <1>5, FactorOrRuleIs
  <2>2. NameOf(t) = l
    BY <1>2, <1>3, <1>5
  <2> HIDE DEF c, t
  <2>3. Content(c) = <<k, l, name, None, data>>
    BY <1>1, <2>1, <2>2 DEF Content
  <2> QED BY <2>3 DEF c
<1>6. ASSUME NEW name \in Name, NEW l \in Name, NEW d \in Name, NEW data, NEW by \in Author
      PROVE  Content(RouteRow(name, l, data, d, by)) = <<"route", l, name, d, data>>
  <2> DEFINE c == RouteRow(name, l, data, d, by)
             t == <<by, "table", l>>
             e == <<by, "ds", d>>
  <2>1. c.kind = "route" /\ c.name = name /\ c.data = data /\ c.table = t /\ c.ds = e
    BY <1>6, RouteIs
  <2>2. NameOf(t) = l /\ NameOf(e) = d
    BY <1>2, <1>3, <1>6
  <2> HIDE DEF c, t, e
  <2>3. Content(c) = <<"route", l, name, d, data>>
    BY <2>1, <2>2 DEF Content
  <2> QED BY <2>3 DEF c
<1>7. CASE kind = "ds"
  <2>1. PICK d \in b.datasources : r = ImportedRow("ds", d, p)
    BY <1>7 DEF BundleRows
  <2>2. d \in Name \ SeedNames /\ ImportedRow("ds", d, q) \in BundleRows(b, kind, q)
    BY <1>7 DEF BundleRows, BundleOK
  <2> QED BY <1>4, <2>1, <2>2
<1>8. CASE kind = "table"
  <2>1. PICK l \in b.tables : r = ImportedRow("table", l, p)
    BY <1>8 DEF BundleRows
  <2>2. l \in Name \ SeedNames /\ ImportedRow("table", l, q) \in BundleRows(b, kind, q)
    BY <1>8 DEF BundleRows, BundleOK
  <2> QED BY <1>4, <2>1, <2>2
<1>9. CASE kind = "child"
  <2> DEFINE Factor(f, by) == ChildRow("factor", f.name, f.logical, f.sourceKey, by)
             Rule(u, by)   == ChildRow("rule", u.kind, u.logical, None, by)
             Route(t, by)  == RouteRow(t.value, t.logical, <<t.physical, t.segment>>, t.ds, by)
  <2>1. /\ \A f \in b.factors : f.name \in Name /\ f.logical \in Name
        /\ \A u \in b.rules : u.kind \in Name /\ u.logical \in Name
        /\ \A t \in b.routes : t.value \in Name /\ t.logical \in Name /\ t.ds \in Name
    BY DEF BundleOK
  <2>2. \A by : BundleRows(b, kind, by) = {Factor(f, by) : f \in b.factors}
                    \union {Rule(u, by) : u \in b.rules} \union {Route(t, by) : t \in b.routes}
    BY <1>9 DEF BundleRows
  <2>3. \A f \in b.factors : Content(Factor(f, p)) = Content(Factor(f, q))
    BY <1>5, <2>1
  <2>4. \A u \in b.rules : Content(Rule(u, p)) = Content(Rule(u, q))
    BY <1>5, <2>1
  <2>5. \A t \in b.routes : Content(Route(t, p)) = Content(Route(t, q))
    BY <1>6, <2>1
  <2> HIDE DEF Factor, Rule, Route
  <2> QED BY <2>2, <2>3, <2>4, <2>5
<1> QED BY <1>7, <1>8, <1>9 DEF Parts

LEMMA OfferIs ==
  ASSUME NEW p \in Program, NEW b, BundleOK(b)
  PROVE  {Entry(r) : r \in UNION {BundleRows(b, kind, p) : kind \in Parts}}
           = {[owner |-> p, content |-> c] : c \in Offer(b)}
<1>1. p \in Author /\ "operator" \in Author
  BY ProgramAssumption
<1>2. \A kind \in Parts : \A r \in BundleRows(b, kind, p) : Owner(r) = p
  <2>1. ASSUME NEW kind \in Parts, NEW r \in BundleRows(b, kind, p) PROVE Owner(r) = p
    <3>1. BundleRowFacts(r, b, kind, p)
      BY BundleRowIs
    <3>2. CASE r.table = None
      BY <3>1, <3>2 DEF Owner, BundleRowFacts
    <3>3. CASE r.table # None
      <4>1. Kind(r) = "child" /\ kind = "child"
        BY <3>1, <3>3, Columns DEF BundleRowFacts
      <4>2. PICK l \in b.tables : r.table = <<p, "table", l>>
        BY <3>1, <4>1 DEF BundleRowFacts
      <4> QED BY <3>3, <4>2 DEF Owner
    <3> QED BY <3>2, <3>3
  <2> QED BY <2>1
<1>3. \A c : c \in Offer(b) <=>
        \E kind \in Parts : \E s \in BundleRows(b, kind, "operator") : c = Content(s)
  BY DEF Offer, Parts
<1>4. \A c : c \in Offer(b) <=>
        \E kind \in Parts : \E r \in BundleRows(b, kind, p) : c = Content(r)
  BY <1>1, <1>3, SameContent
<1> QED BY <1>2, <1>4 DEF Entry

-----------------------------------------------------------------------------
(* What is an import's, before and after a commit.                         *)

LEMMA NoIdNone ==
  ASSUME IInv
  PROVE  /\ None \notin ImportedIds(db, "table")
         /\ \A p \in Program : None \notin ImportedIds(view[p], "table")
BY Columns DEF ImportedIds, Ids, IInv, Sound, Sessions, Session

(* A row that stays is an import's if it was.                              *)
LEMMA KeptOrigin ==
  ASSUME IInv, NEW p \in Program, pc[p] = "commit", NEW r \in db \ gone[p]
  PROVE  OfImport(Writes(p), r) <=> OfImport(db, r)
<1>1. Phases /\ Sound /\ Sessions /\ Views /\ Session(p)
  BY DEF IInv, Sessions
<1>2. RowOK(r) /\ r \in Writes(p) /\ \A t \in db : t.by # p
  BY <1>1 DEF Sound, Writes, IInv, Fresh, Ended
<1>3. ASSUME NEW t \in Writes(p), t.imported, Id(t) = r.table PROVE t \in db
  <2>1. t.by # p
    <3>1. r.table \in References(r)
      BY <1>1, <1>3, WritesSound, Columns DEF References
    <3>2. PICK u \in db : Id(u) = r.table
      BY <1>1, <3>1, OneRow DEF Sound
    <3> QED BY <1>2, <1>3, <3>2 DEF Id
  <2> QED BY <1>1, <1>3, <2>1, AddedIs DEF Writes
<1>4. ASSUME NEW t \in db, t.imported, t.kind = "table", Id(t) = r.table PROVE t \in Writes(p)
  <2>1. RowOK(t) /\ Id(t) # None
    BY <1>1, Columns DEF Sound
  <2>2. PICK u \in Writes(p) : Id(u) = r.table
    BY <1>2, <1>4, <2>1, WritesSound DEF References
  <2>3. RowOK(u) /\ u.kind = "table" /\ u.by # p
    BY <1>2, <1>4, <2>2, WritesSound DEF Id
  <2>4. Key(u) = Key(t)
    BY <1>4, <2>1, <2>2, <2>3, IdGivesKey
  <2>5. CASE u \in db
    BY <1>1, <2>2, <2>4, <2>5, OneRow DEF Sound
  <2>6. CASE u \in added[p]
    BY <1>1, <2>3, <2>4, <2>6, AddedIs DEF SameRow, Key
  <2> QED BY <2>2, <2>5, <2>6 DEF Writes
<1>5. r.table \in ImportedIds(Writes(p), "table") <=> r.table \in ImportedIds(db, "table")
  BY <1>3, <1>4 DEF ImportedIds, Ids
<1> QED BY <1>5 DEF OfImport

(* Of what a program adds, the rows of its bundle are an import's.         *)
LEMMA AddedOrigin ==
  ASSUME IInv, NEW p \in Program, pc[p] = "commit", NEW a \in added[p]
  PROVE  OfImport(Writes(p), a) <=>
           p \in Import /\ \E kind \in Parts : a \in BundleRows(bundle[p], kind, p)
<1>1. Phases /\ Sound /\ Session(p) /\ RowOK(a) /\ \A r \in Writes(p) : RowOK(r)
  BY WritesSound DEF IInv, Sessions, Session
<1>2. None \notin ImportedIds(Writes(p), "table")
  BY <1>1, Columns DEF ImportedIds, Ids
<1>3. CASE p \in Import
  <2>1. BundleOK(bundle[p])
    BY <1>1, <1>3, OfferedAssumption DEF Phases, Phase, InTransaction
  <2>2. ~OfImport(Writes(p), PolicyRow(p))
    BY <1>2, PolicyRowIs DEF OfImport
  <2>3. \A kind \in Parts : a \in BundleRows(bundle[p], kind, p) => a # PolicyRow(p)
    BY <2>1, BundleRowIs, PolicyRowIs DEF BundleRowFacts, Kind, Parts
  <2>4. ASSUME NEW kind \in Parts, a \in BundleRows(bundle[p], kind, p)
        PROVE  OfImport(Writes(p), a)
    <3>1. BundleRowFacts(a, bundle[p], kind, p)
      BY <2>1, <2>4, BundleRowIs
    <3>2. CASE kind # "child"
      BY <3>1, <3>2 DEF BundleRowFacts, OfImport
    <3>3. CASE kind = "child"
      <4>1. PICK l \in bundle[p].tables : a.table = <<p, "table", l>>
        BY <3>1, <3>3 DEF BundleRowFacts
      <4>2. PICK t \in BundleRows(bundle[p], "table", p) :
              Id(t) = <<p, "table", l>> /\ t.kind = "table" /\ t.imported
        BY <2>1, <4>1, BundleBrings
      <4>3. t \in Writes(p)
        BY <1>1, <1>3 DEF Session, AddedByImport, Parts, InsertedAt, PastTables, Writes
      <4> QED BY <4>1, <4>2, <4>3 DEF OfImport, ImportedIds, Ids
    <3> QED BY <3>2, <3>3
  <2> QED BY <1>1, <1>3, <2>2, <2>3, <2>4 DEF Session, AddedByImport
<1>4. CASE p \in Container
  <2>1. ~a.imported /\ (a.table # None => a.table[3] \in SeedNames)
    BY <1>1, <1>4 DEF Session, AddedByContainer, SeedNames
  <2>2. \A t \in Writes(p) : t.imported => Id(t)[3] \notin SeedNames
    BY <1>1, Columns DEF Id
  <2>3. ~OfImport(Writes(p), a)
    BY <1>2, <2>1, <2>2 DEF OfImport, ImportedIds, Ids
  <2> QED BY <1>4, <2>3, ProgramAssumption
<1> QED BY <1>3, <1>4 DEF Program

-----------------------------------------------------------------------------
(* What an import replaces: the entries of the imports its session found.  *)

(* Everything of an import is owned by the program that inserted a         *)
(* datasource or a table of it.                                            *)
LEMMA OwnerIs ==
  ASSUME NEW rows, \A r \in rows : RowOK(r), NEW r \in Imports(rows)
  PROVE  \E t \in rows :
           /\ t.imported /\ Owner(r) = t.by
           /\ \/ t = r /\ r.kind \in {"ds", "table"}
              \/ t.kind = "table" /\ r.table = Id(t) /\ Kind(r) = "child"
<1>1. CASE r.imported
  <2>1. r.kind \in {"ds", "table"} /\ Kind(r) # "child"
    BY <1>1, Columns DEF Imports, Kind
  <2>2. r.table = None
    BY <2>1, Columns DEF Imports
  <2> QED BY <1>1, <2>1, <2>2 DEF Owner, Imports
<1>2. CASE ~r.imported
  <2>1. PICK t \in rows : t.kind = "table" /\ t.imported /\ Id(t) = r.table
    BY <1>2 DEF Imports, OfImport, ImportedIds, Ids
  <2>2. r.table # None
    BY <2>1, Columns
  <2>3. Kind(r) = "child"
    BY <2>2, Columns DEF Imports
  <2>4. Owner(r) = t.by
    BY <2>1, <2>2 DEF Owner, Id
  <2> QED BY <2>1, <2>3, <2>4
<1> QED BY <1>1, <1>2

LEMMA OwnersAre ==
  ASSUME NEW rows, NEW o
  PROVE  o \in Owners(rows) <=> \E v \in Imports(rows) : Owner(v) = o
<1>1. \A v : [owner |-> Owner(v), content |-> Content(v)].owner = Owner(v)
  OBVIOUS
<1> QED BY <1>1 DEF Owners, Image

(* A row of an import that the session found is deleted, or it is not of   *)
(* an import the session found.                                            *)
LEMMA FoundIsGone ==
  ASSUME IInv, NEW p \in Import, pc[p] = "commit", NEW r \in db, OfImport(db, r)
  PROVE  r \in gone[p] <=> Owner(r) \in Owners(view[p])
<1>1. p \in Program /\ Session(p) /\ Current(p) /\ Sound
  BY DEF IInv, Sessions, Views, Program
<1>2. RowOK(r) /\ (\A v \in view[p] : RowOK(v)) /\ \A t \in db : RowOK(t)
  BY <1>1 DEF Sound, Session
<1>3. ASSUME r \in gone[p] PROVE Owner(r) \in Owners(view[p])
  <2>1. CASE r.kind \in {"ds", "table"} /\ Id(r) \in ImportedIds(view[p], r.kind)
    <3>1. PICK v \in view[p] : v.imported /\ Id(v) = Id(r)
      BY <2>1 DEF ImportedIds, Ids
    <3>2. v.table = None /\ r.table = None /\ v.by = r.by
      BY <1>2, <2>1, <3>1, IdGivesKey, Columns DEF Kind
    <3> QED BY <3>1, <3>2, OwnersAre DEF Owner, Imports, OfImport
  <2>2. CASE Kind(r) = "child" /\ r.table \in ImportedIds(view[p], "table")
    <3>1. PICK v \in view[p] : v.imported /\ v.kind = "table" /\ Id(v) = r.table
      BY <2>2 DEF ImportedIds, Ids
    <3>2. v.table = None /\ r.table # None
      BY <1>2, <3>1, Columns DEF Kind
    <3>3. Owner(r) = v.by /\ Owner(v) = v.by
      BY <3>1, <3>2 DEF Owner, Id
    <3> QED BY <3>1, <3>3, OwnersAre DEF Imports, OfImport
  <2> QED BY <1>1, <1>3, <2>1, <2>2 DEF Session, GoneByImport
<1>4. ASSUME r \notin gone[p], Owner(r) \in Owners(view[p]) PROVE FALSE
  <2>1. \A kind \in Parts : PreviousImport(p, kind) = {}
    BY <1>1 DEF Current, Parts, DeletedAt, PastDeleteChildren, PastDeleteTables, PastDeletes,
                PastDatasources, PastTables
  <2>2. r \in Writes(p)
    BY <1>4 DEF Writes
  <2>3. PICK v \in Imports(view[p]) : Owner(v) = Owner(r)
    BY <1>4, OwnersAre
  <2>4. PICK u \in view[p] : u.imported /\ Owner(v) = u.by
    BY <1>2, OwnerIs
  <2>5. PICK t \in db : /\ t.imported /\ Owner(r) = t.by
                        /\ \/ t = r /\ r.kind \in {"ds", "table"}
                           \/ t.kind = "table" /\ r.table = Id(t) /\ Kind(r) = "child"
    BY <1>2, OwnerIs DEF Imports
  <2>6. PICK w \in view[p] : SameRow(w, t)
    BY <1>1, <2>3, <2>4, <2>5 DEF Current
  <2>7. t.kind \in {"ds", "table"} /\ w.kind = t.kind /\ Id(w) = Id(t)
    BY <1>2, <2>5, <2>6, Columns DEF SameRow, Key
  <2>8. w.imported
    BY <1>1, <2>5, <2>7 DEF Current
  <2>9. CASE t = r
    <3>1. r \in PreviousImport(p, r.kind)
      BY <2>2, <2>7, <2>8, <2>9 DEF PreviousImport, ImportedIds, Ids
    <3> QED BY <2>1, <2>7, <2>9, <3>1 DEF Parts
  <2>10. CASE t.kind = "table" /\ r.table = Id(t) /\ Kind(r) = "child"
    <3>1. r \in PreviousImport(p, "child")
      BY <2>2, <2>7, <2>8, <2>10 DEF PreviousImport, ImportedIds, Ids
    <3> QED BY <2>1, <3>1 DEF Parts
  <2> QED BY <2>5, <2>9, <2>10
<1> QED BY <1>3, <1>4

(* What a session saw of others is still there.                            *)
LEMMA SeenIsThere ==
  ASSUME IInv, NEW p \in Program, NEW v \in view[p], ~OfImport(view[p], v)
  PROVE  FullName(v) \in Others(db)
<1>1. Session(p) /\ Current(p) /\ Sound
  BY DEF IInv, Sessions, Views
<1>2. PICK r \in db : SameRow(v, r)
  BY <1>1 DEF Current
<1>3. ~OfImport(db, r)
  BY <1>1, <1>2, SameOrigin
<1>4. FullName(r) = FullName(v)
  BY <1>2 DEF SameRow, Key, FullName
<1> QED BY <1>3, <1>4 DEF Others, Imports

(* Every program leaves a policy.                                          *)
LEMMA PolicyIsLeft ==
  ASSUME IInv, NEW p \in Program, pc[p] = "commit",
         \A a \in added[p] : a.kind = "policy" => FullName(a) \in Others(Writes(p))
  PROVE  PolicyName \in Others(Writes(p)) \union Others(db)
<1>1. Session(p) /\ Sound
  BY DEF IInv, Sessions
<1>2. PICK r \in Sees(p) : Key(r) = Key(PolicyRow(p))
  BY <1>1 DEF Session, PolicySeen, PastPolicy, PastDeleteChildren, PastDeleteTables, PastDeletes,
              PastDatasources, PastTables
<1>3. FullName(r) = PolicyName /\ r.kind = "policy" /\ r.table = None
  <2>1. PolicyRow(p) = [kind |-> "policy", name |-> "default_select_guard", by |-> p,
          table |-> None, ds |-> None, data |-> None, imported |-> FALSE, enabled |-> TRUE]
    BY DEF PolicyRow, Row
  <2>2. PolicyName = <<"policy", NameOf(None), "default_select_guard">>
    BY DEF PolicyName, FullName, Row
  <2>3. Key(PolicyRow(p)) = <<"policy", None, "default_select_guard">>
    BY <2>1 DEF Key
  <2> QED BY <1>2, <2>2, <2>3 DEF FullName, Key
<1>4. CASE r \in added[p]
  BY <1>3, <1>4
<1>5. CASE r \in view[p]
  <2>1. ~r.imported
    BY <1>1, <1>3, <1>5, Columns DEF Session
  <2>2. ~OfImport(view[p], r)
    BY <1>3, <2>1, NoIdNone DEF OfImport
  <2> QED BY <1>3, <1>5, <2>2, SeenIsThere
<1> QED BY <1>2, <1>4, <1>5 DEF Sees

LEMMA ImportReplaces ==
  ASSUME IInv, NEW p \in Import, pc[p] = "commit"
  PROVE  /\ Image(Writes(p)) = {e \in Image(db) : e.owner \notin Owners(view[p])}
                 \union {[owner |-> p, content |-> c] : c \in Offer(bundle[p])}
         /\ Others(Writes(p)) = Others(db) \union {PolicyName}
<1> DEFINE b == bundle[p]
           Brought == UNION {BundleRows(b, kind, p) : kind \in Parts}
<1>1. p \in Program /\ Session(p) /\ Current(p) /\ Sound /\ Phases /\ Sessions /\ Views
  BY DEF IInv, Sessions, Views, Program
<1>2. BundleOK(b)
  BY <1>1, OfferedAssumption DEF Phases, Phase, InTransaction
<1>3. Brought \subseteq added[p] /\ \A a \in added[p] : a \in Brought \/ a = PolicyRow(p)
  BY <1>1 DEF Session, AddedByImport, Parts, InsertedAt, PastDatasources, PastTables
<1>4. \A a \in added[p] : OfImport(Writes(p), a) <=> a \in Brought
  BY <1>1, AddedOrigin
<1>5. \A r \in db \ gone[p] : OfImport(Writes(p), r) <=> OfImport(db, r)
  BY <1>1, KeptOrigin
<1>6. \A g \in gone[p] : g \in db /\ OfImport(db, g)
  BY <1>1, GoneIs
<1> HIDE DEF Brought
<1>7. Imports(Writes(p)) = {r \in Imports(db) : Owner(r) \notin Owners(view[p])} \union Brought
  BY <1>3, <1>4, <1>5, FoundIsGone DEF Imports, Writes
<1>8. Image(Writes(p)) = {e \in Image(db) : e.owner \notin Owners(view[p])}
                           \union {Entry(r) : r \in Brought}
  <2>1. \A r : Entry(r).owner = Owner(r)
    BY DEF Entry
  <2>2. \A rows : Image(rows) = {Entry(r) : r \in Imports(rows)}
    BY DEF Image, Entry
  <2> HIDE DEF Entry
  <2> QED BY <1>7, <2>1, <2>2
<1>9. {Entry(r) : r \in Brought} = {[owner |-> p, content |-> c] : c \in Offer(b)}
  BY <1>1, <1>2, OfferIs DEF Brought
<1>10. \A r : r \in Writes(p) \ Imports(Writes(p)) <=>
              r \in db \ Imports(db) \/ (r \in added[p] /\ r \notin Brought)
  BY <1>4, <1>5, <1>6 DEF Imports, Writes
<1>11. FullName(PolicyRow(p)) = PolicyName
  BY DEF PolicyName, PolicyRow, FullName, Row
<1>12. Others(db) \subseteq Others(Writes(p)) /\ Others(Writes(p)) \subseteq Others(db) \union {PolicyName}
  BY <1>3, <1>10, <1>11 DEF Others
<1>13. \A a \in added[p] : a.kind = "policy" => FullName(a) \in Others(Writes(p))
  <2>1. \A a \in Brought : a.kind # "policy"
    BY <1>1, <1>2, BundleRowIs DEF BundleRowFacts, Brought, Parts, Kind
  <2> QED BY <1>10, <2>1 DEF Others
<1>14. PolicyName \in Others(Writes(p))
  BY <1>1, <1>12, <1>13, PolicyIsLeft
<1> QED BY <1>8, <1>9, <1>12, <1>14

-----------------------------------------------------------------------------
(* What a bootstrap leaves.                                                *)
LEMMA ContainerSeeds ==
  ASSUME IInv, NEW p \in Container, pc[p] = "commit"
  PROVE  /\ Image(Writes(p)) = Image(db)
         /\ Others(Writes(p)) = Others(db) \union Seeded \union {PolicyName}
<1>1. p \in Program /\ p \notin Import /\ Session(p) /\ Current(p) /\ Sound /\ Phases /\ Sessions /\ Views
  BY ProgramAssumption DEF IInv, Sessions, Views, Program
<1>2. \A a \in added[p] : ~OfImport(Writes(p), a)
  BY <1>1, AddedOrigin
<1>3. \A r \in db \ gone[p] : OfImport(Writes(p), r) <=> OfImport(db, r)
  BY <1>1, KeptOrigin
<1>4. ASSUME NEW g \in gone[p]
      PROVE  g \in db /\ ~OfImport(db, g) /\ Enabled(g) \in added[p] /\ FullName(Enabled(g)) = FullName(g)
  <2>1. g \in db /\ RowOK(g) /\ g.kind = "ds" /\ ~g.imported /\ Enabled(g) \in added[p]
    BY <1>1, GoneIs
  <2>2. g.table = None
    BY <2>1, Columns DEF Kind
  <2> QED BY <2>1, <2>2, NoIdNone, EnabledRow DEF OfImport
<1>5. Imports(Writes(p)) = Imports(db)
  BY <1>2, <1>3, <1>4 DEF Imports, Writes
<1>6. Image(Writes(p)) = Image(db)
  BY <1>5 DEF Image
<1>7. Others(db) \subseteq Others(Writes(p))
  BY <1>2, <1>3, <1>4 DEF Others, Imports, Writes
<1>8. \A a \in added[p] : FullName(a) \in Others(Writes(p))
  BY <1>2 DEF Others, Imports, Writes
<1>9. \A p2 : FullName(PolicyRow(p2)) = PolicyName
  BY DEF PolicyName, PolicyRow, FullName, Row
<1>10. Others(Writes(p)) \subseteq Others(db) \union Seeded \union {PolicyName}
  <2>1. \A a \in added[p] : FullName(a) \in Others(db) \union Seeded \union {PolicyName}
    BY <1>1, <1>4, <1>9 DEF Session, AddedByContainer, Others, Imports
  <2> QED BY <1>3, <2>1 DEF Others, Imports, Writes
<1>11. PolicyName \in Others(Writes(p))
  BY <1>1, <1>7, <1>8, PolicyIsLeft
<1>12. ASSUME NEW s \in SeedRows PROVE FullName(s) \in Others(Writes(p))
  <2>1. SeedFacts(s) /\ Kind(s) \in Parts
    BY SeedIs DEF SeedFacts, Kind, Parts
  <2>2. PICK r \in Sees(p) : FullName(r) = FullName(s)
    BY <1>1, <2>1 DEF Session, SeedsSeen, Parts, InsertedAt, PastDatasources, PastTables
  <2>3. CASE r \in added[p]
    BY <1>8, <2>2, <2>3
  <2>4. CASE r \in view[p]
    <3>1. RowOK(r) /\ r.kind = s.kind /\ r.name = s.name /\ NameOf(r.table) = NameOf(s.table)
      BY <1>1, <2>2, <2>4 DEF Session, FullName
    <3>2. ~r.imported
      BY <2>1, <3>1, Columns DEF SeedFacts, SeedNames
    <3>3. r.table \notin ImportedIds(view[p], "table")
      <4>1. CASE Kind(s) # "child"
        BY <2>1, <3>1, <4>1, NoIdNone, Columns, <1>1 DEF Kind
      <4>2. CASE Kind(s) = "child"
        <5>1. PICK l \in SeedTables : s.table = <<"seed", "table", l>>
          BY <2>1, <4>2 DEF SeedFacts
        <5>2. NameOf(s.table) = l
          <6>1. Row("table", l, "seed") \in SeedRows
            BY DEF SeedRows
          <6>2. l \in Name
            BY <6>1, SeedIs DEF SeedFacts, Row
          <6>3. <<"seed", "table", l>> \in RowId
            BY <6>2, ProgramAssumption DEF RowId, Kinds
          <6> QED BY <5>1, <6>3, NameAssumption DEF NameOf
        <5>3. r.table # None /\ r.table[3] = l
          BY <3>1, <4>2, <5>2, Columns DEF Kind, NameOf
        <5>4. ASSUME NEW v \in view[p], v.imported PROVE Id(v)[3] \notin SeedTables
          BY <1>1, <5>4, Columns DEF Session, Id, SeedNames
        <5> QED BY <5>3, <5>4 DEF ImportedIds, Ids
      <4> QED BY <4>1, <4>2
    <3>4. FullName(r) \in Others(db)
      BY <1>1, <2>4, <3>2, <3>3, SeenIsThere DEF OfImport
    <3> QED BY <1>7, <2>2, <3>4
  <2> QED BY <2>2, <2>3, <2>4 DEF Sees
<1> QED BY <1>6, <1>7, <1>10, <1>11, <1>12 DEF Seeded

-----------------------------------------------------------------------------
(* The abstract variables under the mapping. *)
OfferMap == [p \in Import |-> IF bundle[p] = NoBundle THEN NoBundle ELSE Offer(bundle[p])]
BaseMap == [p \in Program |-> Owners(view[p])]
ResultOf(p) == CASE pc[p] = "done" -> "done"
                 [] pc[p] \in {"failed", "refused"} -> "failed"
                 [] OTHER -> "running"
ResultMap == [p \in Program |-> ResultOf(p)]

LEMMA ResultIs ==
  ASSUME NEW p
  PROVE  /\ ResultOf(p) = "done" <=> pc[p] = "done"
         /\ ResultOf(p) = "failed" <=> pc[p] \in {"failed", "refused"}
         /\ ResultOf(p) = "running" <=> pc[p] \notin Ended
         /\ ResultOf(p) \in {"done", "failed", "running"}
<1>1. CASE pc[p] = "done"
  BY <1>1 DEF ResultOf, Ended
<1>2. CASE pc[p] \in {"failed", "refused"}
  BY <1>2 DEF ResultOf, Ended
<1>3. CASE pc[p] \notin {"done", "failed", "refused"}
  BY <1>3 DEF ResultOf, Ended
<1> QED BY <1>1, <1>2, <1>3

LEMMA NoRowsNoOwners == Owners({}) = {}
BY DEF Owners, Image, Imports

LEMMA EndStep ==
  ASSUME IInv, NEW p \in Program, Stops(p)
  PROVE  /\ OfferMap' = OfferMap
         /\ IF pc'[p] = "done" THEN Promise!Ends(p, "done") ELSE Promise!Ends(p, "failed")
<1>1. /\ pc[p] \notin Ended /\ pc'[p] \in Ended /\ view'[p] = {} /\ bundle' = bundle
      /\ \A q \in Program \ {p} : pc'[q] = pc[q] /\ view'[q] = view[q]
  BY StopIs DEF IInv, Stops
<1>2. OfferMap' = OfferMap
  BY <1>1 DEF OfferMap, Offer, Content, NameOf
<1>3. BaseMap' = [BaseMap EXCEPT ![p] = {}]
  <2>1. \A q \in Program : Owners(view[q])' = IF q = p THEN {} ELSE Owners(view[q])
    BY <1>1, NoRowsNoOwners DEF Owners, Image, Imports, OfImport, ImportedIds, Ids, Id, Owner, Content, NameOf
  <2> QED BY <2>1 DEF BaseMap
<1>4. ResultMap[p] = "running"
  BY <1>1, ResultIs DEF ResultMap
<1>5. ResultMap' = [ResultMap EXCEPT ![p] = IF pc'[p] = "done" THEN "done" ELSE "failed"]
  <2>1. \A q \in Program :
          ResultOf(q)' = IF q = p THEN IF pc'[p] = "done" THEN "done" ELSE "failed" ELSE ResultOf(q)
    BY <1>1 DEF ResultOf, Ended
  <2> QED BY <2>1 DEF ResultMap
<1> QED BY <1>2, <1>3, <1>4, <1>5 DEF Promise!Ends, BaseMap, ResultMap, ResultOf

LEMMA SameRowsSame ==
  ASSUME UNCHANGED db
  PROVE  Image(db)' = Image(db) /\ Others(db)' = Others(db)
BY DEF Image, Others, Imports, OfImport, ImportedIds, Ids, Id, Owner, Content, NameOf, FullName

LEMMA QuietStep ==
  ASSUME UNCHANGED <<db, bundle, view>>, \A q \in Program : ResultOf(q)' = ResultOf(q)
  PROVE  UNCHANGED Promise!vars
<1>1. Image(db)' = Image(db) /\ Others(db)' = Others(db)
  BY SameRowsSame
<1>2. OfferMap' = OfferMap
  BY DEF OfferMap, Offer, Content, NameOf
<1>3. BaseMap' = BaseMap
  BY DEF BaseMap, Owners, Image, Imports, OfImport, ImportedIds, Ids, Id, Owner, Content, NameOf
<1>4. ResultMap' = ResultMap
  BY DEF ResultMap
<1> QED BY <1>1, <1>2, <1>3, <1>4 DEF Promise!vars, OfferMap, BaseMap, ResultMap, ResultOf

LEMMA PrepareStep ==
  ASSUME IInv, NEW p \in Import, Build(p)
  PROVE  Promise!Next
<1>1. PICK b \in Offered : /\ bundle' = [bundle EXCEPT ![p] = b]
                           /\ pc' = [pc EXCEPT ![p] = IF b.raises THEN "failed" ELSE "start"]
  BY DEF Build, Goto
<1>2. /\ p \in Program /\ pc[p] = "start" /\ bundle[p] = NoBundle
      /\ UNCHANGED <<db, view>>
      /\ bundle \in [Program -> Offered \union {NoBundle}] /\ pc \in [Program -> Label]
      /\ view[p] = {}
  BY DEF Build, Program, IInv, Phases, Phase, InTransaction, Writing
<1>3. b # NoBundle /\ Offer(b) # NoBundle
  BY OfferedAssumption
<1>4. Image(db)' = Image(db) /\ Others(db)' = Others(db)
  BY <1>2, SameRowsSame
<1>5. OfferMap' = [OfferMap EXCEPT ![p] = Offer(b)]
  <2>1. \A q \in Import : (IF bundle'[q] = NoBundle THEN NoBundle ELSE Offer(bundle'[q])) =
          IF q = p THEN Offer(b) ELSE IF bundle[q] = NoBundle THEN NoBundle ELSE Offer(bundle[q])
    BY <1>1, <1>2, <1>3 DEF Program
  <2>2. OfferMap' =
          [q \in Import |-> IF bundle'[q] = NoBundle THEN NoBundle ELSE Offer(bundle'[q])]
    BY DEF OfferMap, Offer, Content, NameOf
  <2> QED BY <2>1, <2>2 DEF OfferMap
<1>6. OfferMap[p] = NoBundle /\ ResultMap[p] = "running"
  BY <1>2, ResultIs DEF OfferMap, ResultMap, Ended
<1>7. BaseMap' = BaseMap /\ BaseMap = [BaseMap EXCEPT ![p] = {}]
  <2>1. BaseMap' = BaseMap
    BY <1>2 DEF BaseMap, Owners, Image, Imports, OfImport, ImportedIds, Ids, Id, Owner, Content,
                NameOf
  <2>2. BaseMap[p] = {}
    BY <1>2, NoRowsNoOwners DEF BaseMap
  <2> QED BY <2>1, <2>2 DEF BaseMap
<1>8. ResultMap' = ResultMap \/ ResultMap' = [ResultMap EXCEPT ![p] = "failed"]
  <2>1. CASE b.raises
    <3>1. \A q \in Program : ResultOf(q)' = IF q = p THEN "failed" ELSE ResultOf(q)
      BY <1>1, <1>2, <2>1 DEF ResultOf
    <3> QED BY <3>1 DEF ResultMap
  <2>2. CASE ~b.raises
    <3>1. \A q \in Program : ResultOf(q)' = ResultOf(q)
      BY <1>1, <1>2, <2>2 DEF ResultOf
    <3> QED BY <3>1 DEF ResultMap
  <2> QED BY <2>1, <2>2
<1>9. OfferMap'[p] = Offer(b)
  BY <1>5 DEF OfferMap
<1>10. Promise!Prepare(p)
  BY <1>3, <1>4, <1>5, <1>6, <1>7, <1>8, <1>9
     DEF Promise!Prepare, Promise!Ends, OfferMap, BaseMap, ResultMap, ResultOf
<1> QED BY <1>10 DEF Promise!Next

LEMMA BeginStep ==
  ASSUME IInv, NEW p \in Program, Begin(p)
  PROVE  Promise!Next
<1>1. /\ pc[p] = "begin" /\ view' = [view EXCEPT ![p] = db] /\ pc' = [pc EXCEPT ![p] = "policy"]
      /\ UNCHANGED <<db, bundle>> /\ DOMAIN view = Program /\ pc \in [Program -> Label]
  BY DEF Begin, Goto, IInv, Phases
<1>2. Image(db)' = Image(db) /\ Others(db)' = Others(db)
  BY <1>1, SameRowsSame
<1>3. OfferMap' = OfferMap
  BY <1>1 DEF OfferMap, Offer, Content, NameOf
<1>4. BaseMap' = [BaseMap EXCEPT ![p] = Owners(db)]
  <2>1. \A q \in Program : Owners(view[q])' = IF q = p THEN Owners(db) ELSE Owners(view[q])
    BY <1>1 DEF Owners, Image, Imports, OfImport, ImportedIds, Ids, Id, Owner, Content, NameOf
  <2> QED BY <2>1 DEF BaseMap
<1>5. ResultMap' = ResultMap /\ ResultMap[p] = "running"
  <2>1. \A q \in Program : ResultOf(q)' = ResultOf(q)
    BY <1>1 DEF ResultOf
  <2> QED BY <1>1, <2>1, ResultIs DEF ResultMap, Ended
<1>6. Owners(db) = Promise!InForce
  BY DEF Owners, Promise!InForce
<1>7. Promise!Begin(p)
  BY <1>2, <1>3, <1>4, <1>5, <1>6 DEF Promise!Begin, OfferMap, BaseMap, ResultMap, ResultOf
<1> QED BY <1>7 DEF Promise!Next, Promise!Program, Program

LEMMA FailStep ==
  ASSUME IInv, NEW p \in Program, Stops(p), db' = db, pc'[p] # "done"
  PROVE  Promise!Next
<1>1. Image(db)' = Image(db) /\ Others(db)' = Others(db)
  BY SameRowsSame
<1>2. Promise!Fail(p)
  BY <1>1, EndStep DEF Promise!Fail, OfferMap
<1> QED BY <1>2 DEF Promise!Next, Promise!Program, Program

LEMMA CommitStep ==
  ASSUME IInv, NEW p \in Program, Commits(p)
  PROVE  Promise!Next
<1>1. pc[p] = "commit" /\ db' = Writes(p)
  BY DEF Commits
<1>2. Image(db)' = Image(Writes(p)) /\ Others(db)' = Others(Writes(p))
  BY <1>1 DEF Image, Others, Imports, OfImport, ImportedIds, Ids, Id, Owner, Content, NameOf,
              FullName
<1>3. OfferMap' = OfferMap /\ (Promise!Ends(p, "done") \/ Promise!Ends(p, "failed"))
  BY EndStep DEF Commits
<1>4. CASE p \in Import
  <2>1. /\ Image(db)' = {e \in Image(db) : e.owner \notin Owners(view[p])}
                 \union {[owner |-> p, content |-> c] : c \in Offer(bundle[p])}
        /\ Others(db)' = Others(db) \union {PolicyName}
    BY <1>1, <1>2, <1>4, ImportReplaces
  <2>2. bundle[p] \in Offered
    BY <1>1, <1>4 DEF IInv, Phases, Phase, InTransaction
  <2>3. bundle[p] # NoBundle /\ Offer(bundle[p]) # NoBundle
    BY <2>2, OfferedAssumption
  <2>4. OfferMap[p] = Offer(bundle[p]) /\ BaseMap[p] = Owners(view[p])
    BY <1>4, <2>3 DEF OfferMap, BaseMap
  <2>5. Promise!Replace(p)
    BY <1>3, <2>1, <2>3, <2>4 DEF Promise!Replace, OfferMap, BaseMap, PolicyName
  <2> QED BY <1>4, <2>5 DEF Promise!Next
<1>5. CASE p \in Container
  <2>1. /\ Image(db)' = Image(db)
        /\ Others(db)' = Others(db) \union Seeded \union {PolicyName}
    BY <1>1, <1>2, <1>5, ContainerSeeds
  <2>2. Promise!PutSeeds(p)
    BY <1>3, <2>1 DEF Promise!PutSeeds, OfferMap, PolicyName, Seeded
  <2> QED BY <1>5, <2>2 DEF Promise!Next
<1> QED BY <1>4, <1>5 DEF Program

LEMMA SwitchStep ==
  ASSUME IInv, Switch
  PROVE  Image(db)' = Image(db) /\ Others(db)' = Others(db)
<1>0. PICK r \in db : \E e : Switched(r, e)
  BY SwitchIs
<1>e. PICK e : Switched(r, e)
  BY <1>0
<1>1. /\ db' = (db \ {r}) \union {e} /\ e.kind = r.kind /\ e.by = r.by /\ e.table = r.table
      /\ e.ds = r.ds /\ e.data = r.data /\ e.imported = r.imported /\ e.name = r.name
  BY <1>e DEF Switched, SameRow, Key
<1>2. Id(e) = Id(r) /\ Content(e) = Content(r) /\ Owner(e) = Owner(r) /\ FullName(e) = FullName(r)
  BY <1>1 DEF Id, Content, Owner, FullName
<1>3. ImportedIds(db', "table") = ImportedIds(db, "table")
  BY <1>1, <1>2 DEF ImportedIds, Ids
<1>4. \A s : OfImport(db', s) <=> OfImport(db, s)
  BY <1>3 DEF OfImport
<1>5. OfImport(db, e) <=> OfImport(db, r)
  BY <1>1 DEF OfImport
<1>6. Image(db') = Image(db)
  BY <1>1, <1>2, <1>4, <1>5 DEF Image, Imports
<1>7. Others(db') = Others(db)
  BY <1>1, <1>2, <1>4, <1>5 DEF Others, Imports
<1>8. Image(db)' = Image(db') /\ Others(db)' = Others(db')
  BY DEF Image, Others, Imports, OfImport, ImportedIds, Ids, Id, Owner, Content, NameOf, FullName
<1> QED BY <1>6, <1>7, <1>8

LEMMA RegisterStep ==
  ASSUME IInv, Register
  PROVE  Image(db)' = Image(db) /\ Others(db) \subseteq Others(db)'
<1>1. PICK n : Registered(n)
  BY RegisterIs
<1>2. PICK l \in db : l.kind = "table" /\ n.table = Id(l) /\ ~l.imported
  BY <1>1 DEF Registered
<1>3. n.table \notin ImportedIds(db, "table")
  <2>1. ASSUME NEW t \in db, t.imported, Id(t) = Id(l) PROVE FALSE
    <3>1. Key(l) = Key(t)
      BY <1>2, <2>1, IdGivesKey DEF IInv, Sound
    <3> QED BY <1>2, <2>1, <3>1, OneRow DEF IInv, Sound
  <2> QED BY <1>2, <2>1 DEF ImportedIds, Ids
<1>4. ImportedIds(db', "table") = ImportedIds(db, "table")
  BY <1>1 DEF ImportedIds, Ids, Registered
<1>5. Imports(db') = Imports(db)
  BY <1>1, <1>3, <1>4 DEF Imports, OfImport, Registered
<1>6. Image(db') = Image(db) /\ Others(db) \subseteq Others(db')
  BY <1>1, <1>5 DEF Image, Others, Registered
<1>7. Image(db)' = Image(db') /\ Others(db)' = Others(db')
  BY DEF Image, Others, Imports, OfImport, ImportedIds, Ids, Id, Owner, Content, NameOf, FullName
<1> QED BY <1>6, <1>7

LEMMA EditStep ==
  ASSUME UNCHANGED <<pc, bundle, view>>, Image(db)' = Image(db), Others(db) \subseteq Others(db)'
  PROVE  Promise!Next
<1>1. OfferMap' = OfferMap
  BY DEF OfferMap, Offer, Content, NameOf
<1>2. BaseMap' = BaseMap
  BY DEF BaseMap, Owners, Image, Imports, OfImport, ImportedIds, Ids, Id, Owner, Content, NameOf
<1>3. ResultMap' = ResultMap
  BY DEF ResultMap, ResultOf
<1>4. Promise!Edit
  BY <1>1, <1>2, <1>3 DEF Promise!Edit, OfferMap, BaseMap, ResultMap, ResultOf
<1> QED BY <1>4 DEF Promise!Next

-----------------------------------------------------------------------------
(* Every step of a program or an operator is a step of the promise, or     *)
(* changes nothing it speaks of.                                           *)
LEMMA PromiseStep ==
  ASSUME IInv, [Next]_vars
  PROVE  [Promise!Next]_Promise!vars
<1>1. ASSUME NEW p \in Program, Advance(p) \/ CommitUnacknowledged(p) \/ Break(p)
      PROVE  [Promise!Next]_Promise!vars
  <2>1. CASE Build(p)
    BY <2>1, PrepareStep DEF Build
  <2>2. CASE Begin(p)
    BY <2>2, BeginStep
  <2>3. CASE InspectSchema(p) \/ CreateTable(p) \/ Flush(p)
    <3>1. PICK l \in Label \ Ended : pc[p] \notin Ended /\ pc' = [pc EXCEPT ![p] = l]
      <4>1. CASE InspectSchema(p) \/ CreateTable(p)
        BY <4>1 DEF InspectSchema, CreateTable, Goto, Label, Ended
      <4>2. CASE Flush(p)
        <5>1. pc[p] \in Writing
          BY <4>2 DEF Flush
        <5>2. After(p) \in Label \ Ended /\ pc[p] \notin Ended
          BY <5>1, PastAfter DEF InTransaction, Writing, Label, Ended
        <5> QED BY <4>2, <5>2 DEF Flush, Goto
      <4> QED BY <2>3, <4>1, <4>2
    <3>2. UNCHANGED <<db, bundle, view>>
      BY <2>3 DEF InspectSchema, CreateTable, Flush
    <3>3. ASSUME NEW q \in Program PROVE ResultOf(q)' = ResultOf(q)
      BY <3>1 DEF ResultOf, Ended, IInv, Phases
    <3> QED BY <3>2, <3>3, QuietStep
  <2>4. CASE TableExists(p) \/ FlushRefused(p) \/ LockWaitTimeout(p) \/ Break(p)
    <3>1. Stops(p) /\ db' = db
      BY <2>4, GiveUpIs DEF IInv
    <3>2. pc'[p] # "done"
      BY <2>4 DEF TableExists, FlushRefused, LockWaitTimeout, Break, End, Goto, IInv, Phases
    <3> QED BY <3>1, <3>2, FailStep
  <2>5. CASE Commit(p) \/ CommitUnacknowledged(p)
    BY <2>5, CommitIs, CommitStep DEF IInv, Commits
  <2> QED BY <1>1, <2>1, <2>2, <2>3, <2>4, <2>5 DEF Advance
<1>2. CASE Switch
  BY <1>2, SwitchStep, EditStep DEF Switch
<1>3. CASE Register
  BY <1>3, RegisterStep, EditStep DEF Register
<1>4. CASE UNCHANGED vars
  <2>1. UNCHANGED <<db, bundle, view>> /\ \A q \in Program : ResultOf(q)' = ResultOf(q)
    BY <1>4 DEF vars, ResultOf
  <2> QED BY <2>1, QuietStep
<1> QED BY <1>1, <1>2, <1>3, <1>4 DEF Next

LEMMA PromiseInit ==
  ASSUME Init
  PROVE  Promise!Init
<1>1. \A p \in Program : bundle[p] = NoBundle /\ view[p] = {} /\ pc[p] \in {"start", "absent"}
  BY DEF Init
<1>2. OfferMap = [p \in Import |-> NoBundle]
  BY <1>1 DEF OfferMap, Program
<1>3. BaseMap = [p \in Program |-> {}]
  BY <1>1, NoRowsNoOwners DEF BaseMap
<1>4. ResultMap = [p \in Program |-> "running"]
  BY <1>1 DEF ResultMap, ResultOf
<1> QED BY <1>2, <1>3, <1>4 DEF Promise!Init, Promise!Program, Program, OfferMap, BaseMap,
                              ResultMap, ResultOf

(* The programs keep their promise, with any number of them at once: an    *)
(* import that commits leaves all of its bundle and nothing of the imports *)
(* it found when it began, no row of anybody else goes with it, and a      *)
(* bootstrap that commits leaves no seed and no policy out.                *)
THEOREM Refinement == Spec => ReplaceSpec
<1>1. Init => Promise!Init
  BY PromiseInit
<1>2. IInv /\ [Next]_vars => [Promise!Next]_Promise!vars
  BY PromiseStep
<1> QED BY <1>1, <1>2, Invariance, PTL DEF Spec, ReplaceSpec, Promise!Spec
=============================================================================
