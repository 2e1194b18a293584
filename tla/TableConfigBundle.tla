------------------------- MODULE TableConfigBundle -------------------------
(***************************************************************************)
(* build_sync_bundle of tools/spy_table_config_sync.py: what the rows of   *)
(* spy.table_config are turned into.  A row is a record                    *)
(*    [source, catalog, table, begin, end, shards]                         *)
(* and the rows are a sequence, in the order they were fetched.  A route   *)
(* keeps the segment it came from, as its "extra" column does: two routes  *)
(* that differ in nothing else are two rows to insert.                     *)
(***************************************************************************)
EXTENDS Integers, Sequences, FiniteSetsExt

CONSTANTS
  Stripped,                \* strip() of each name
  DatasourceCode(_),       \* make_datasource_code
  LogicalTableName(_, _),  \* make_logical_table_name
  Digits                   \* str(n) for the numbers that occur

Normalized(row) ==
  [row EXCEPT !.source = Stripped[@], !.catalog = Stripped[@], !.table = Stripped[@]]

(* Rows without a table name are skipped. *)
Kept(rows) == {i \in DOMAIN rows : Stripped[rows[i].table] # ""}

LogicalOf(rows, i) ==
  LET row == Normalized(rows[i]) IN LogicalTableName(row.catalog, row.table)

\* mutant: a segment is known by its numbers alone
SegmentOfAnySource(row) == <<"", row.begin, row.end, row.shards>>
Segment(row) == <<row.source, row.begin, row.end, row.shards>>

(* The rows of one logical table, the last one of each segment. *)
Deduped(rows, l) ==
  LET group   == {i \in Kept(rows) : LogicalOf(rows, i) = l}
      seg(i)  == Segment(Normalized(rows[i]))
  IN {Normalized(rows[i]) : i \in {k \in group : \A j \in group : seg(j) = seg(k) => j <= k}}

SourceName(row) == IF row.source = "" THEN "unknown_source" ELSE row.source

IsSharded(group) == \E r \in group : r.shards > 0
ShardModulus(group) == Max({r.shards : r \in group})
ShardSuffixes(group) == UNION {r.begin .. r.end : r \in {s \in group : s.shards > 0}}

\* mutant: a table is complete when every suffix below the modulus is there
SupportsBusinessFactorAtLeast(group) ==
  IsSharded(group) /\ 1 .. ShardModulus(group) - 1 \subseteq ShardSuffixes(group)
SupportsBusinessFactor(group) ==
  IsSharded(group) /\ ShardSuffixes(group) = 0 .. ShardModulus(group) - 1

RequiresSourceRouting(group) ==
  ~IsSharded(group) /\ Cardinality({SourceName(r) : r \in group}) > 1

-----------------------------------------------------------------------------
(* The routing metadata of one logical table.  A rule is named by what its *)
(* expression computes.                                                    *)
Factors(l, group) ==
  LET factor(name, type, key) ==
        {[logical |-> l, name |-> name, sourceType |-> type, sourceKey |-> key,
          required |-> TRUE, enabled |-> TRUE]}
  IN CASE SupportsBusinessFactor(group) ->
            factor("shard_value", "sql_predicate_from_context", "shard_column")
       [] IsSharded(group) /\ ~SupportsBusinessFactor(group) ->
            factor("route_suffix", "route_context", "route_suffix")
       [] RequiresSourceRouting(group) -> factor("source_name", "route_context", "source_name")
       [] OTHER -> {}

Rule(l, group) ==
  [logical |-> l, enabled |-> TRUE, modulus |-> ShardModulus(group),
   kind |-> CASE SupportsBusinessFactor(group) -> "mod"
              [] IsSharded(group) /\ ~SupportsBusinessFactor(group) -> "suffix_passthrough"
              [] RequiresSourceRouting(group) -> "source_passthrough"
              [] OTHER -> "constant"]

(* What one turn of the route loop registers for a row. *)
RoutesOf(l, group, row) ==
  LET route(value, physical, segment) ==
        [logical |-> l, value |-> value, physical |-> physical,
         ds |-> DatasourceCode(row.source), enabled |-> TRUE, segment |-> segment]
  IN IF RequiresSourceRouting(group) THEN {route(SourceName(row), row.table, Segment(row))}
     ELSE IF ~IsSharded(group) THEN {route("0", row.table, Segment(row))}
     ELSE {route(Digits[n], row.table \o "_" \o Digits[n], <<>>) : n \in row.begin .. row.end}
          \* a suffix seen again is skipped: one route, whatever the segment

(* Two rows claim one route value for different tables: ValueError.        *)
Conflict(routes) ==
  \E a, b \in routes :
    /\ a.logical = b.logical /\ a.value = b.value
    /\ <<a.physical, a.ds>> # <<b.physical, b.ds>>

BuildSyncBundle(rows) ==
  LET names    == {LogicalOf(rows, i) : i \in Kept(rows)}
      group(l) == Deduped(rows, l)
      routes   == UNION {UNION {RoutesOf(l, group(l), r) : r \in group(l)} : l \in names}
  IN [raises      |-> Conflict(routes),
      datasources |-> {DatasourceCode(Normalized(rows[i]).source) : i \in Kept(rows)},
      tables      |-> names,
      factors     |-> UNION {Factors(l, group(l)) : l \in names},
      rules       |-> {Rule(l, group(l)) : l \in names},
      routes      |-> routes,
      skipped     |-> Cardinality(DOMAIN rows \ Kept(rows))]
=============================================================================
