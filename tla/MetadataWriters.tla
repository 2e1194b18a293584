-------------------------- MODULE MetadataWriters --------------------------
(***************************************************************************)
(* The programs that write the metadata database: the import of            *)
(* spy.table_config (tools/spy_table_config_sync.py) and the bootstrap each *)
(* container runs before it serves (bootstrap/meta.py).  Each creates the  *)
(* tables that are missing and then writes in one transaction.             *)
(*                                                                         *)
(* A row is a record                                                       *)
(*    kind      "policy", "ds", "table", "factor", "rule" or "route"       *)
(*    name      policy_code, datasource_code, table_name, factor_name,     *)
(*              rule_name or route_value                                   *)
(*    by        who inserted it: with kind and name, its id                *)
(*    table, ds the ids in logical_table_id and datasource_id              *)
(*    data      its other columns                                          *)
(*    imported  extra["sync_origin"] is "spy.table_config"                 *)
(*    enabled                                                              *)
(* A transaction reads the view its first SELECT fixed and its own writes; *)
(* its writes, and the checks of unique and foreign keys, see what is      *)
(* committed, and wait for other transactions that hold a row.             *)
(***************************************************************************)
EXTENDS FiniteSets, Sequences

CONSTANTS
  Import,      \* runs of the sync tool
  Container,   \* containers that start
  Offered,     \* the bundles build_sync_bundle may yield
  Table,       \* the tables of the metadata schema
  Initial,     \* how it may begin: the tables, the rows, the programs that will run
  Edited,      \* the ids of the rows an operator switches off and on
  Author,      \* who inserts rows: the programs, an operator, earlier releases
  Name,        \* what a column for a name holds
  NoBundle, None

Program == Import \union Container

VARIABLES
  schema,   \* the tables that exist
  db,       \* the committed rows
  pc,       \* where each program is
  missing,  \* the tables it found missing
  bundle,   \* what an import writes
  view,     \* the view of its session
  gone,     \* committed rows its transaction deleted or replaced
  added     \* rows its transaction inserted or rewrote

vars == <<schema, db, pc, missing, bundle, view, gone, added>>

-----------------------------------------------------------------------------
(* The metadata database. *)

Id(r) == <<r.by, r.kind, r.name>>
References(r) == {r.table, r.ds} \ {None}
Ids(rows) == {Id(r) : r \in rows}
ImportedIds(rows, kind) == Ids({r \in rows : r.kind = kind /\ r.imported})

(* The unique columns and UniqueConstraints of db/models.py. *)
Key(r) == <<r.kind, r.table, r.name>>
SameRow(a, b) == Key(a) = Key(b) /\ Id(a) = Id(b)

(* What a SELECT returns, and what the writes of a session act on. *)
Sees(p) == {r \in view[p] : \A g \in gone[p] : ~SameRow(g, r)} \union added[p]
Writes(p) == (db \ gone[p]) \union added[p]

(* Another open transaction wrote one of the rows, or its parent, or a     *)
(* child of it.                                                            *)
Held(p, rows) ==
  \E q \in Program \ {p} : \E r \in rows, h \in gone[q] \union added[q] :
    Key(r) = Key(h) \/ Id(h) \in References(r) \/ Id(r) \in References(h)

(* A key that is there already, or a reference to no row. *)
Violates(rows, new) ==
  \/ \E a \in new, b \in rows : a # b /\ Key(a) = Key(b)
  \/ \E a \in rows : ~(References(a) \subseteq Ids(rows))

-----------------------------------------------------------------------------
(* What an import writes: its bundle, under the ids the flushes give. *)

Row(kind, name, by) ==
  [kind |-> kind, name |-> name, by |-> by, table |-> None, ds |-> None,
   data |-> None, imported |-> FALSE, enabled |-> TRUE]

ChildRow(kind, name, l, data, by) ==
  [Row(kind, name, by) EXCEPT !.table = <<by, "table", l>>, !.data = data]

RouteRow(value, l, data, d, by) ==
  [ChildRow("route", value, l, data, by) EXCEPT !.ds = <<by, "ds", d>>]

ImportedRow(kind, name, by) == [Row(kind, name, by) EXCEPT !.imported = TRUE]

BundleRows(b, kind, by) ==
  CASE kind = "ds"    -> {ImportedRow("ds", d, by) : d \in b.datasources}
    [] kind = "table" -> {ImportedRow("table", l, by) : l \in b.tables}
    [] kind = "child" ->
         {ChildRow("factor", f.name, f.logical, f.sourceKey, by) : f \in b.factors}
         \union {ChildRow("rule", u.kind, u.logical, None, by) : u \in b.rules}
         \union {RouteRow(t.value, t.logical, <<t.physical, t.segment>>, t.ds, by) :
                   t \in b.routes}

(* A row without its id, and what an import is to put in place, under      *)
(* whatever ids.                                                           *)
NameOf(id) == IF id = None THEN None ELSE id[3]
Content(r) == <<r.kind, NameOf(r.table), r.name, NameOf(r.ds), r.data>>
Offer(b) ==
  {Content(r) : r \in UNION {BundleRows(b, kind, "operator") : kind \in {"ds", "table", "child"}}}

Kind(r) == IF r.kind \in {"factor", "rule", "route"} THEN "child" ELSE r.kind

\* mutant: every row of the kind
AllRows(p, kind) ==
  {r \in Writes(p) : IF kind = "child" THEN Kind(r) = "child"
                                       ELSE r.kind = kind /\ Id(r) \in Ids(view[p])}
\* mutant: the datasources of the earlier import stay
PreviousTables(p, kind) ==
  {r \in Writes(p) : IF kind = "child" THEN r.table \in ImportedIds(view[p], "table")
                      ELSE r.kind = "table" /\ Id(r) \in ImportedIds(view[p], kind)}
(* delete_previous_import: the rows with the ids its session sees marked   *)
(* as imported, and the children of the tables among them.                 *)
PreviousImport(p, kind) ==
  {r \in Writes(p) :
     IF kind = "child" THEN Kind(r) = "child" /\ r.table \in ImportedIds(view[p], "table")
                       ELSE r.kind = kind /\ Id(r) \in ImportedIds(view[p], kind)}

-----------------------------------------------------------------------------
(* What a bootstrap writes: the seed rows its session does not see, under  *)
(* the parents it sees or has inserted.                                    *)

(* seed_reference_data, under the ids of a bootstrap of its own. *)
SeedDatasources == {"biz_user_db", "biz_order_db", "demo_redis"}
SeedTables == {"user", "order"}
SeedRows ==
  {Row("ds", d, "seed") : d \in SeedDatasources}
  \union {Row("table", l, "seed") : l \in SeedTables}
  \union {ChildRow("factor", "uid", "user", "sql_predicate", "seed"),
          ChildRow("factor", "biz_date", "order", "route_context", "seed"),
          ChildRow("rule", "user_mod_2", "user", "mod", "seed"),
          ChildRow("rule", "order_month", "order", "format", "seed"),
          RouteRow("0", "user", "user_0", "biz_user_db", "seed"),
          RouteRow("1", "user", "user_1", "biz_user_db", "seed"),
          RouteRow("2025_06", "order", "order_2025_06", "biz_order_db", "seed"),
          RouteRow("2025_07", "order", "order_2025_07", "biz_order_db", "seed")}

ParentOf(p, id) ==
  IF id = None THEN None
  ELSE Id(CHOOSE r \in Sees(p) : r.kind = id[2] /\ r.name = id[3])
SeedOf(p, s) == [s EXCEPT !.by = p, !.table = ParentOf(p, @), !.ds = ParentOf(p, @)]
Seeds(p, kind) == {SeedOf(p, s) : s \in {r \in SeedRows : Kind(r) = kind}}
MissingSeeds(p, kind) == {s \in Seeds(p, kind) : \A r \in Sees(p) : Key(r) # Key(s)}

(* _upsert_datasource sets every column of a row that is there: the row is *)
(* enabled again.  The others leave a row as it is.                        *)
Disabled(p) ==
  {r \in Sees(p) : ~r.enabled /\ \E s \in SeedRows : s.kind = "ds" /\ Key(s) = Key(r)}

-----------------------------------------------------------------------------
(* The statement a program sends at each label: the ids it means to change,*)
(* the rows it deletes or rewrites, the rows it inserts or rewrites.       *)

Deletes(p, kind) == [ids |-> {}, old |-> PreviousImport(p, kind), new |-> {}]

Inserts(p, kind) ==
  IF p \in Import THEN [ids |-> {}, old |-> {}, new |-> BundleRows(bundle[p], kind, p)]
  ELSE LET ids == IF kind = "ds" THEN Ids(Disabled(p)) ELSE {}
           old == {r \in Writes(p) : Id(r) \in ids}
       IN [ids |-> ids, old |-> old,
           new |-> MissingSeeds(p, kind) \union {[r EXCEPT !.enabled = TRUE] : r \in old}]

\* mutant: a policy that is there is replaced by the default
ResetPolicy(p) ==
  LET old == {r \in Writes(p) : r.kind = "policy"}
  IN [ids |-> {}, old |-> old, new |-> {Row("policy", "default_select_guard", p)}]
(* A policy that is there is left as it is. *)
EnsurePolicy(p) ==
  LET policy == Row("policy", "default_select_guard", p)
  IN [ids |-> {}, old |-> {},
      new |-> IF \E r \in Sees(p) : Key(r) = Key(policy) THEN {} ELSE {policy}]

Statement(p) ==
  CASE pc[p] = "policy"            -> EnsurePolicy(p)
    [] pc[p] = "deleteChildren"    -> Deletes(p, "child")
    [] pc[p] = "deleteTables"      -> Deletes(p, "table")
    [] pc[p] = "deleteDatasources" -> Deletes(p, "ds")
    [] pc[p] = "datasources"       -> Inserts(p, "ds")
    [] pc[p] = "tables"            -> Inserts(p, "table")
    [] pc[p] = "children"          -> Inserts(p, "child")

After(p) ==
  CASE pc[p] = "policy"            -> IF p \in Import THEN "deleteChildren" ELSE "datasources"
    [] pc[p] = "deleteChildren"    -> "deleteTables"
    [] pc[p] = "deleteTables"      -> "deleteDatasources"
    [] pc[p] = "deleteDatasources" -> "datasources"
    [] pc[p] = "datasources"       -> "tables"
    [] pc[p] = "tables"            -> "children"
    [] pc[p] = "children"          -> "commit"

Writing == {"policy", "deleteChildren", "deleteTables", "deleteDatasources",
            "datasources", "tables", "children"}
InTransaction == Writing \union {"commit"}

-----------------------------------------------------------------------------
(* What the columns hold.  The foreign keys of a row are ids of tables and *)
(* datasources, only these two are marked as imported, and no name of an   *)
(* import is a seed's: a datasource_code begins with "spy_src_", and a     *)
(* table_name has "__" in it unless the catalog or the table it comes from *)
(* is named with punctuation alone.                                        *)
SeedNames == SeedDatasources \union SeedTables
Kinds == {"policy", "ds", "table", "factor", "rule", "route"}
RowId == Author \X Kinds \X Name
ForeignKey(kind) == {id \in RowId : id[2] = kind}

RowOK(r) ==
  /\ r = [kind |-> r.kind, name |-> r.name, by |-> r.by, table |-> r.table, ds |-> r.ds,
          data |-> r.data, imported |-> r.imported, enabled |-> r.enabled]
  /\ Id(r) \in RowId
  /\ r.imported \in BOOLEAN /\ r.enabled \in BOOLEAN
  /\ IF Kind(r) = "child" THEN r.table \in ForeignKey("table") ELSE r.table = None
  /\ IF r.kind = "route" THEN r.ds \in ForeignKey("ds") ELSE r.ds = None
  /\ r.imported => r.kind \in {"ds", "table"} /\ r.name \notin SeedNames

(* A bundle is closed: what refers to a table or a datasource brings it. *)
BundleOK(b) ==
  /\ b.datasources \subseteq Name \ SeedNames /\ b.tables \subseteq Name \ SeedNames
  /\ \A f \in b.factors : f.name \in Name /\ f.logical \in b.tables
  /\ \A f, g \in b.factors :
       f.logical = g.logical /\ f.name = g.name => f.sourceKey = g.sourceKey
  /\ \A u \in b.rules : u.kind \in Name /\ u.logical \in b.tables
  /\ \A t \in b.routes : t.value \in Name /\ t.logical \in b.tables /\ t.ds \in b.datasources

ASSUME NameAssumption ==
  /\ None \notin RowId
  /\ {r.name : r \in SeedRows} \union {"default_select_guard"} \subseteq Name

ASSUME ProgramAssumption ==
  /\ Import \intersect Container = {} /\ "operator" \notin Program
  /\ Program \union {"operator", "seed"} \subseteq Author

ASSUME OfferedAssumption ==
  \A b \in Offered : BundleOK(b) /\ b # NoBundle /\ Offer(b) # NoBundle

(* No program has written before it runs, and operators do not import.     *)
ASSUME InitialAssumption ==
  \A i \in Initial :
    /\ i[1] \subseteq Table /\ ~Violates(i[2], i[2])
    /\ \A r \in i[2] : RowOK(r) /\ r.by \notin Program /\ (r.imported => r.by # "operator")

-----------------------------------------------------------------------------
Init ==
  /\ \E i \in Initial :
       /\ schema = i[1] /\ db = i[2]
       /\ pc = [p \in Program |-> IF p \in i[3] THEN "start" ELSE "absent"]
  /\ missing = [p \in Program |-> {}]
  /\ bundle = [p \in Program |-> NoBundle]
  /\ view = [p \in Program |-> {}]
  /\ gone = [p \in Program |-> {}]
  /\ added = [p \in Program |-> {}]

Goto(p, label) == pc' = [pc EXCEPT ![p] = label]

(* The session ends; what it did not commit is rolled back. *)
End(p, label) ==
  /\ Goto(p, label)
  /\ view' = [view EXCEPT ![p] = {}]
  /\ gone' = [gone EXCEPT ![p] = {}]
  /\ added' = [added EXCEPT ![p] = {}]
  /\ UNCHANGED <<schema, missing, bundle>>

(* The tool builds its bundle before it opens the database. *)
Build(p) ==
  /\ p \in Import /\ pc[p] = "start" /\ bundle[p] = NoBundle
  /\ \E b \in Offered :
       /\ bundle' = [bundle EXCEPT ![p] = b]
       /\ Goto(p, IF b.raises THEN "failed" ELSE "start")
  /\ UNCHANGED <<schema, db, missing, view, gone, added>>

(* create_all looks which tables exist, and creates the others one by one: *)
(* DDL commits by itself.                                                  *)
InspectSchema(p) ==
  /\ pc[p] = "start" /\ (p \in Import => bundle[p] # NoBundle)
  /\ missing' = [missing EXCEPT ![p] = Table \ schema]
  /\ Goto(p, IF Table \subseteq schema THEN "begin" ELSE "create")
  /\ UNCHANGED <<schema, db, bundle, view, gone, added>>

\* mutant: the first table stands for all
CreateOneTable(p) ==
  /\ pc[p] = "create"
  /\ \E t \in missing[p] \ schema : schema' = schema \union {t}
  /\ Goto(p, "begin")
  /\ UNCHANGED <<db, missing, bundle, view, gone, added>>
CreateTable(p) ==
  /\ pc[p] = "create"
  /\ \E t \in missing[p] \ schema :
       /\ schema' = schema \union {t}
       /\ missing' = [missing EXCEPT ![p] = @ \ {t}]
  /\ Goto(p, IF missing'[p] = {} THEN "begin" ELSE "create")
  /\ UNCHANGED <<db, bundle, view, gone, added>>

\* mutant: it is tried again
TableRetried(p) ==
  /\ pc[p] = "create"
  /\ missing[p] \intersect schema # {}
  /\ UNCHANGED vars
(* Another program created the table since. *)
TableExists(p) ==
  /\ pc[p] = "create"
  /\ missing[p] \intersect schema # {}
  /\ End(p, "refused")
  /\ UNCHANGED db

(* The first SELECT of the session, for the policy, fixes its view. *)
Begin(p) ==
  /\ pc[p] = "begin"
  /\ view' = [view EXCEPT ![p] = db]
  /\ Goto(p, "policy")
  /\ UNCHANGED <<schema, db, missing, bundle, gone, added>>

(* A statement is sent; the database carries it out or refuses it.         *)
Accepted(p) ==
  LET s    == Statement(p)
      rows == (Writes(p) \ s.old) \union s.new
  IN s.ids \subseteq Ids(s.old) /\ ~Violates(rows, s.new)

Waits(p) == LET s == Statement(p) IN Held(p, s.old \union s.new)

Flush(p) ==
  /\ pc[p] \in Writing /\ ~Waits(p) /\ Accepted(p)
  /\ LET s == Statement(p)
     IN /\ gone' = [gone EXCEPT ![p] = @ \union (s.old \intersect db)]
        /\ added' = [added EXCEPT ![p] = (@ \ s.old) \union s.new]
  /\ Goto(p, After(p))
  /\ UNCHANGED <<schema, db, missing, bundle, view>>

(* IntegrityError, or StaleDataError for a row that is gone. *)
FlushRefused(p) ==
  /\ pc[p] \in Writing /\ ~Waits(p) /\ ~Accepted(p)
  /\ End(p, "refused")
  /\ UNCHANGED db

(* The lock wait ends, by timeout or because the database found a cycle.   *)
LockWaitTimeout(p) ==
  /\ pc[p] \in Writing /\ Waits(p)
  /\ End(p, "failed")
  /\ UNCHANGED db

Commit(p) ==
  /\ pc[p] = "commit"
  /\ db' = Writes(p)
  /\ End(p, "done")

(* The commit took effect and the program did not hear of it. *)
CommitUnacknowledged(p) ==
  /\ pc[p] = "commit"
  /\ db' = Writes(p)
  /\ End(p, "failed")

(* A call fails, or the program is killed. *)
Break(p) ==
  /\ pc[p] \in {"start", "create", "begin"} \union InTransaction
  /\ End(p, "failed")
  /\ UNCHANGED db

-----------------------------------------------------------------------------
(* An operator edits rows nobody holds: switches one off or on, and routes *)
(* a table of their own to a datasource that is there.                     *)

Free(r) == \A q \in Program : r \notin gone[q] /\ Id(r) \notin UNION {References(a) : a \in added[q]}

Switch ==
  /\ \E r \in db :
       /\ Id(r) \in Edited /\ Free(r)
       /\ r.enabled => \A s \in db : s.enabled    \* bound: one row is off at a time
       /\ db' = (db \ {r}) \union {[r EXCEPT !.enabled = ~@]}
  /\ UNCHANGED <<schema, pc, missing, bundle, view, gone, added>>

Register ==
  /\ \E l, d \in db :
       /\ l.kind = "table" /\ l.by = "operator" /\ d.kind = "ds" /\ Free(l) /\ Free(d)
       /\ \A r \in db : r.table # Id(l)           \* bound: one route
       /\ db' = db \union {[Row("route", "0", "operator") EXCEPT !.table = Id(l), !.ds = Id(d)]}
  /\ UNCHANGED <<schema, pc, missing, bundle, view, gone, added>>

-----------------------------------------------------------------------------
Advance(p) ==
  \/ Build(p) \/ InspectSchema(p) \/ CreateTable(p) \/ TableExists(p) \/ Begin(p)
  \/ Flush(p) \/ FlushRefused(p) \/ LockWaitTimeout(p) \/ Commit(p)

Next ==
  \/ \E p \in Program : Advance(p) \/ CommitUnacknowledged(p) \/ Break(p)
  \/ Switch \/ Register

Spec == Init /\ [][Next]_vars

(* A program runs on, and each call it makes ends.  Nothing is assumed of  *)
(* operators or of failures.                                               *)
FairSpec == Spec /\ \A p \in Program : WF_vars(Advance(p))

-----------------------------------------------------------------------------
(* What is imported, and what is not. *)

OfImport(rows, r) == r.imported \/ r.table \in ImportedIds(rows, "table")
Imports(rows) == {r \in rows : OfImport(rows, r)}

(* The import a row belongs to: a factor, a rule or a route belongs where  *)
(* its table does.                                                         *)
Owner(r) == IF r.table = None THEN r.by ELSE r.table[1]

Image(rows) == {[owner |-> Owner(r), content |-> Content(r)] : r \in Imports(rows)}
Owners(rows) == {e.owner : e \in Image(rows)}
FullName(r) == <<r.kind, NameOf(r.table), r.name>>
Others(rows) == {FullName(r) : r \in rows \ Imports(rows)}

Promise == INSTANCE ReplaceImport WITH
  Policy  <- FullName(Row("policy", "default_select_guard", "seed")),
  Seeded  <- {FullName(r) : r \in SeedRows},
  Nothing <- NoBundle,
  offer   <- [p \in Import |-> IF bundle[p] = NoBundle THEN NoBundle ELSE Offer(bundle[p])],
  image   <- Image(db),
  base    <- [p \in Program |-> Owners(view[p])],
  others  <- Others(db),
  result  <- [p \in Program |-> CASE pc[p] = "done" -> "done"
                                  [] pc[p] \in {"failed", "refused"} -> "failed"
                                  [] OTHER -> "running"]

(* The programs keep their promise, with any number of them at once: what  *)
(* an import leaves is all of its bundle and nothing of the one it found,  *)
(* no row of anybody else goes with it, and a bootstrap that is done left  *)
(* no seed out.                                                            *)
ReplaceSpec == Promise!Spec

-----------------------------------------------------------------------------
(* Properties.                                                             *)

(* The rows the database keeps satisfy its constraints, and nothing reads  *)
(* or writes them before every table exists.                               *)
TypeOK ==
  /\ schema \subseteq Table
  /\ pc \in [Program -> {"absent", "start", "create", "begin", "commit", "done", "failed", "refused"}
                        \union Writing]
  /\ \A r \in db : RowOK(r)
  /\ ~Violates(db, db)
  /\ \A p \in Program :
       /\ gone[p] \subseteq db
       /\ pc[p] \notin InTransaction => view[p] = {} /\ gone[p] = {} /\ added[p] = {}
       /\ pc[p] \in InTransaction => schema = Table

(* A program that finds no writer beside it is only refused for what is    *)
(* wrong with its input: an import with one route value twice, or with a   *)
(* table or source that belongs to somebody else, or whose datasources     *)
(* somebody else's route refers to.  In particular an import can be        *)
(* repeated, and a container started again.                                *)
DuplicateRoutes(b) ==
  \E t, u \in b.routes : t # u /\ t.logical = u.logical /\ t.value = u.value
ForeignRows(p) ==
  \E r \in db : ~OfImport(db, r) /\
    \/ r.kind = "ds" /\ r.name \in bundle[p].datasources
    \/ r.kind = "table" /\ r.name \in bundle[p].tables
    \/ r.ds \in Ids({d \in db : d.kind = "ds" /\ d.imported})
RefusedForCause ==
  [][\A p \in Program : pc[p] \in Writing /\ pc'[p] = "refused" =>
       \/ view[p] # db
       \/ p \in Import /\ (DuplicateRoutes(bundle[p]) \/ ForeignRows(p))]_vars

(* What an operator switched off stays off: no program switches a policy,  *)
(* a table, a rule or a route on again that it does not own.  (Datasources *)
(* of the seed are switched on by every container that starts.)            *)
SwitchedOffStaysOff ==
  [][\A r \in db : ~r.enabled /\ r.kind # "ds" /\ ~OfImport(db, r) /\ pc' # pc => r \in db']_vars

(* Every program ends, whoever holds the rows it wants. *)
EveryProgramEnds ==
  \A p \in Program : <>(pc[p] \in {"absent", "done", "failed", "refused"})
=============================================================================
