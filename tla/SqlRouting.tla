---------------------------- MODULE SqlRouting ----------------------------
(***************************************************************************)
(* Route resolution of one SQL request: services/routing.py over what      *)
(* services/sql_parser.py extracted from the statement and over one        *)
(* consistent view of the metadata tables.                                 *)
(*                                                                         *)
(* A parsed statement is a record                                          *)
(*    guard    what BasicSqlGuard answers: "ALLOW" or a rejection code     *)
(*    type     the first word of the statement                             *)
(*    tables   the FROM/JOIN tables in textual order, [name, alias]        *)
(*    preds    the equality predicates in textual order,                   *)
(*             [qualifier, column, value]                                  *)
(*    hasLimit, limit   the LIMIT clause                                   *)
(* A view of the metadata is a record                                      *)
(*    datasources  the codes of the ENABLED rows of datasource_instance    *)
(*    logical      rows of logical_table: [name, family, enabled], where   *)
(*                 family is the set of names starting with the literal    *)
(*                 head of physical_name_template                          *)
(*    factors      rows of route_factor_def                                *)
(*    rules        rows of route_rule; "eval" is the expression and its    *)
(*                 output format, as a function from the extracted values  *)
(*                 to the route value: outside its domain eval() raises    *)
(*    routes       rows of physical_table_route                            *)
(*    policy       the row "default_select_guard" of policy_set            *)
(* Names compare as the metadata database compares them; values are the    *)
(* strings the code keeps.                                                 *)
(***************************************************************************)
EXTENDS Integers, Sequences, FiniteSets

CONSTANTS
  NoValue,   \* Python's None where a string is expected
  NoTarget,  \* no RouteTarget: the outcome is a rejection or an exception
  Numeral,   \* the value of every string int() accepts
  Decimal    \* str(n) for the numbers that occur

\* str() yields a string int() reads back.
ASSUME DecimalAssumption ==
  \A n \in DOMAIN Decimal : Decimal[n] \in DOMAIN Numeral /\ Numeral[Decimal[n]] = n

-----------------------------------------------------------------------------
(* scalar_one_or_none(): nothing, the row, or MultipleResultsFound.        *)
Multiple(S) == \E a, b \in S : a # b
The(S) == CHOOSE a \in S : TRUE

(* The repositories. *)
EnabledByPhysicalName(m, name) == {p \in m.routes : p.enabled /\ p.physical = name}
\* mutant: disabled routes are found too
RouteByValue(m, table, v) == {p \in m.routes : p.logical = table /\ p.value = v}
EnabledByRouteValue(m, table, v) ==
  {p \in m.routes : p.enabled /\ p.logical = table /\ p.value = v}
\* mutant: the routes of all tables
EnabledRouteCountOfAll(m, table) == Cardinality({p \in m.routes : p.enabled})
EnabledRouteCount(m, table) == Cardinality({p \in m.routes : p.enabled /\ p.logical = table})
EnabledByName(m, name) == {l \in m.logical : l.enabled /\ l.name = name}
RequiredFactors(m, table) == {f \in m.factors : f.enabled /\ f.required /\ f.logical = table}
EnabledRules(m, table) == {u \in m.rules : u.enabled /\ u.logical = table}

-----------------------------------------------------------------------------
(* ParsedSql.predicate_value: the first predicate on the column, and on    *)
(* the qualifier when one is given.                                        *)
PredicateValue(sql, column, qualifier) ==
  LET hits == {i \in DOMAIN sql.preds :
                 /\ sql.preds[i].column = column
                 /\ qualifier = NoValue \/ sql.preds[i].qualifier = qualifier}
  IN IF hits = {} THEN NoValue
     ELSE sql.preds[CHOOSE i \in hits : \A j \in hits : i <= j].value

\* mutant: the qualifier is ignored
ValueOfAnyTable(sql, column, t) == PredicateValue(sql, column, NoValue)
(* "predicate_value(c, qualifier=alias) or predicate_value(c)": None and   *)
(* the empty string both fall through to the unqualified search.           *)
ValueForTable(sql, column, t) ==
  LET own == PredicateValue(sql, column, t.alias)
  IN IF own \in {NoValue, ""} THEN PredicateValue(sql, column, NoValue) ELSE own

ContextValue(ctx, key) == IF key \in DOMAIN ctx THEN ctx[key] ELSE NoValue

ExtractFactorValue(f, sql, t, ctx) ==
  LET column == ContextValue(ctx, f.sourceKey)
  IN CASE f.sourceType = "sql_predicate" -> ValueForTable(sql, f.sourceKey, t)
       [] f.sourceType = "sql_predicate_from_context" ->
            IF column \in {NoValue, ""} THEN NoValue ELSE ValueForTable(sql, column, t)
       [] f.sourceType = "route_context" -> column
       [] f.sourceType = "physical_table_name" -> t.name
       [] OTHER -> NoValue

\* mutant: a value that is no number goes to the first shard
LegacyRouteSuffixOrFirst(m, l, sql, t, ctx) ==
  LET column == ContextValue(ctx, "shard_column")
      value  == IF column \in {NoValue, ""} THEN NoValue ELSE ValueForTable(sql, column, t)
      count  == EnabledRouteCount(m, l.name)
  IN IF count = 0 THEN NoValue
     ELSE Decimal[IF value \in DOMAIN Numeral THEN Numeral[value] % count ELSE 0]
(* Metadata imported before business routing existed asks for the suffix   *)
(* itself; it is derived from the shard column modulo the number of        *)
(* ENABLED routes.                                                         *)
LegacyRouteSuffix(m, l, sql, t, ctx) ==
  LET column == ContextValue(ctx, "shard_column")
      value  == IF column \in {NoValue, ""} THEN NoValue ELSE ValueForTable(sql, column, t)
      count  == EnabledRouteCount(m, l.name)
  IN IF value = NoValue \/ count = 0 \/ value \notin DOMAIN Numeral
     THEN NoValue
     ELSE Decimal[Numeral[value] % count]

FactorValue(m, l, f, sql, t, ctx) ==
  LET value == ExtractFactorValue(f, sql, t, ctx)
  IN IF value = NoValue /\ f.sourceKey = "route_suffix"
     THEN LegacyRouteSuffix(m, l, sql, t, ctx)
     ELSE value

MissingFactors(m, l, sql, t, ctx) ==
  {f \in RequiredFactors(m, l.name) : FactorValue(m, l, f, sql, t, ctx) = NoValue}

(* extracted_values: what the rule's expression is evaluated over.         *)
ExtractedValues(m, l, sql, t, ctx) ==
  LET required == RequiredFactors(m, l.name)
  IN [n \in {f.name : f \in required} |->
        FactorValue(m, l, CHOOSE f \in required : f.name = n, sql, t, ctx)]

-----------------------------------------------------------------------------
RouteReason ==
  {"TABLE_NOT_FOUND", "DATASOURCE_NOT_FOUND", "INVALID_PHYSICAL_TABLE",
   "LOGICAL_TABLE_NOT_FOUND", "ROUTE_RULE_NOT_FOUND", "MISSING_ROUTE_FACTOR",
   "PHYSICAL_ROUTE_NOT_FOUND"}

(* What one turn of the loop in resolve() comes to: a target to append, a  *)
(* rejection, or an exception that leaves the handler.                     *)
Resolved(target) == [outcome |-> "target", reason |-> "ALLOW", target |-> target]
Rejected(reason) == [outcome |-> "reject", reason |-> reason, target |-> NoTarget]
Raised == [outcome |-> "raise", reason |-> "EXCEPTION", target |-> NoTarget]

(* A registered physical table named directly: routed as it stands.        *)
ResolvePhysical(m, p) ==
  IF p.ds \notin m.datasources THEN Rejected("DATASOURCE_NOT_FOUND")
  ELSE Resolved([logical |-> p.logical, physical |-> p.physical, ds |-> p.ds,
                 value |-> p.value, rewrite |-> FALSE])

(* A name in neither table: a shard-like name nobody registered is told    *)
(* apart from an unknown one.                                              *)
ResolveUnknown(m, t) ==
  IF \E l \in m.logical : l.enabled /\ t.name \in l.family
  THEN Rejected("INVALID_PHYSICAL_TABLE")
  ELSE Rejected("LOGICAL_TABLE_NOT_FOUND")

(* The end of the loop's body, once the rule gave a route value.           *)
ResolveRoute(m, l, value) ==
  LET routes == EnabledByRouteValue(m, l.name, value)
      route  == The(routes)
  IN CASE routes = {}      -> Rejected("PHYSICAL_ROUTE_NOT_FOUND")
       [] Multiple(routes) -> Raised
       [] OTHER ->
            IF route.ds \notin m.datasources THEN Rejected("DATASOURCE_NOT_FOUND")
            ELSE Resolved([logical |-> l.name, physical |-> route.physical, ds |-> route.ds,
                           value |-> value, rewrite |-> TRUE])

ResolveLogical(m, l, sql, t, ctx) ==
  LET rules  == EnabledRules(m, l.name)
      values == ExtractedValues(m, l, sql, t, ctx)
      eval   == The(rules).eval
  IN CASE Multiple(rules) -> Raised
       [] rules = {}      -> Rejected("ROUTE_RULE_NOT_FOUND")
       [] OTHER ->
            CASE MissingFactors(m, l, sql, t, ctx) # {} -> Rejected("MISSING_ROUTE_FACTOR")
              [] MissingFactors(m, l, sql, t, ctx) = {} /\ values \notin DOMAIN eval -> Raised
              [] OTHER -> ResolveRoute(m, l, eval[values])

ResolveTable(m, sql, t, ctx) ==
  LET physical == EnabledByPhysicalName(m, t.name)
      logical  == EnabledByName(m, t.name)
  IN CASE Multiple(physical) -> Raised
       [] physical # {} /\ ~Multiple(physical) -> ResolvePhysical(m, The(physical))
       [] physical = {} /\ logical = {} -> ResolveUnknown(m, t)
       [] OTHER -> ResolveLogical(m, The(logical), sql, t, ctx)

-----------------------------------------------------------------------------
(* A RouteTarget. *)
TargetRecord ==
  [logical : STRING, physical : STRING, ds : STRING, value : STRING, rewrite : BOOLEAN]

(* Every text column of the routing metadata holds a string, and so does   *)
(* what a rule yields: str.format returns one.                             *)
RoutingMetadataOK(m) ==
  /\ \A l \in m.logical : l.name \in STRING
  /\ \A p \in m.routes : p.physical \in STRING /\ p.logical \in STRING /\ p.ds \in STRING
                         /\ p.value \in STRING
  /\ \A u \in m.rules : \A v \in DOMAIN u.eval : u.eval[v] \in STRING
=============================================================================
