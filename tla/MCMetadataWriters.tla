------------------------- MODULE MCMetadataWriters -------------------------
(***************************************************************************)
(* Imports and containers on a fresh database, and on one with the seeds,  *)
(* an earlier import and a table of an operator's own.  The bundles are    *)
(* what build_sync_bundle makes of a few contents of table_config: none, a *)
(* single table, the same table in shards and one more, a range twice, two *)
(* tables for one suffix, a table of another source.                       *)
(***************************************************************************)
EXTENDS MetadataWriters, Integers

CONSTANTS i1, i2, c1, c2

MCDigits == [n \in 0 .. 1 |-> <<"0", "1">>[n + 1]]
MCStripped == [s \in {"main", "lot", "t", "u"} |-> s]
MCDatasourceCode(source) == "spy_src_" \o source
MCLogicalTableName(catalog, table) == catalog \o "__" \o table

TableConfig == INSTANCE TableConfigBundle WITH
  Stripped <- MCStripped, Digits <- MCDigits,
  DatasourceCode <- MCDatasourceCode, LogicalTableName <- MCLogicalTableName

Config(source, table, begin, end, shards) ==
  [source |-> source, catalog |-> "main", table |-> table,
   begin |-> begin, end |-> end, shards |-> shards]

Single    == <<Config("main", "t", 0, 0, 0)>>
Sharded   == <<Config("main", "t", 0, 0, 2), Config("lot", "t", 1, 1, 2), Config("lot", "u", 0, 0, 0)>>
Twice     == <<Config("main", "t", 0, 0, 0), Config("main", "t", 0, 1, 0)>>
Contended == <<Config("main", "t", 0, 1, 2), Config("lot", "t", 1, 1, 2)>>

Elsewhere == <<Config("lot", "u", 0, 0, 0)>>

MCOffered == {TableConfig!BuildSyncBundle(r) :
                r \in {<<>>, Single, Sharded, Twice, Contended, Elsewhere}}
MCOneOffered == {TableConfig!BuildSyncBundle(Single)}

(* An earlier import, the policy, and a table of the operator's. *)
Imported ==
  LET b == TableConfig!BuildSyncBundle(Single)
  IN UNION {BundleRows(b, k, "earlier") : k \in {"ds", "table", "child"}}
     \union {Row("policy", "default_select_guard", "operator"), Row("table", "manual", "operator")}

(* A policy, a datasource of the seed, a rule of the seed. *)
MCEdited == {<<"seed", "policy", "default_select_guard">>, <<"seed", "ds", "biz_user_db">>,
             <<"seed", "rule", "user_mod_2">>}

(* What an older release seeded: no routes of a later month, no Redis. *)
OlderSeeds == {r \in SeedRows : r.name \notin {"2025_07", "demo_redis"}}

MCAuthor == Program \union {"operator", "earlier", "seed"}
MCName == STRING

MCTable == {"policy_set", "datasource_instance"}

(* Two imports with no import before them or one, an import while a        *)
(* container starts, or two containers on an empty database.               *)
MCRegistered ==
  {<<MCTable, rows, {i1, i2}>> : rows \in {{}, Imported}}
  \union {<<MCTable, OlderSeeds \union {Row("policy", "default_select_guard", "seed")}, {i1, c1}>>,
          <<{}, {}, {c1, c2}>>}

(* All programs on a database with no table or one. *)
MCFresh == {<<tables, {}, Program>> : tables \in {{}, {"policy_set"}}}
=============================================================================
