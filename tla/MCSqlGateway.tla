--------------------------- MODULE MCSqlGateway ---------------------------
(***************************************************************************)
(* An instance of SqlGateway close to the seed data of bootstrap/meta.py:  *)
(* a table "user" sharded by uid on one datasource, a table "order" of     *)
(* another, and the ways an operator may leave the metadata.               *)
(***************************************************************************)
EXTENDS SqlGateway, TLC

MCNumeral == [s \in {"0", "1", "3"} |-> CASE s = "0" -> 0 [] s = "1" -> 1 [] OTHER -> 3]
MCDecimal == [n \in {0, 1} |-> IF n = 0 THEN "0" ELSE "1"]

(* "int(uid) % 2" with output format "{value}". *)
ModTwo(factor) ==
  [v \in [{factor} -> DOMAIN MCNumeral] |-> MCDecimal[MCNumeral[v[factor]] % 2]]

Policy == [enabled |-> TRUE, types |-> {"select"}, requireLimit |-> TRUE, maxLimit |-> 2,
           maxScanRows |-> 5, largeTableRows |-> 8, rejectFullScan |-> TRUE,
           rejectTemporary |-> TRUE, rejectFilesort |-> TRUE]

Seed ==
  [datasources |-> {"user_db", "order_db"},
   logical |-> {[name |-> "user", family |-> {"user_0", "user_1", "user_9"}, enabled |-> TRUE],
                [name |-> "order", family |-> {"order_07"}, enabled |-> TRUE]},
   factors |-> {[logical |-> "user", name |-> "uid", sourceType |-> "sql_predicate",
                 sourceKey |-> "uid", required |-> TRUE, enabled |-> TRUE],
                [logical |-> "order", name |-> "biz_date", sourceType |-> "route_context",
                 sourceKey |-> "biz_date", required |-> TRUE, enabled |-> TRUE]},
   rules |-> {[logical |-> "user", eval |-> ModTwo("uid"), enabled |-> TRUE],
              [logical |-> "order", eval |-> [v \in [{"biz_date"} -> {"7"}] |-> "07"],
               enabled |-> TRUE]},
   routes |-> {[logical |-> "user", value |-> "0", physical |-> "user_0", ds |-> "user_db",
                enabled |-> TRUE],
               [logical |-> "user", value |-> "1", physical |-> "user_1", ds |-> "user_db",
                enabled |-> TRUE],
               [logical |-> "order", value |-> "07", physical |-> "order_07", ds |-> "order_db",
                enabled |-> TRUE]},
   policy |-> Policy]

(* The policy relaxed: a larger limit, LIMIT not required. *)
Relaxed == [Seed EXCEPT !.policy.maxLimit = 4, !.policy.requireLimit = FALSE]
UserDbDisabled == [Seed EXCEPT !.datasources = {"order_db"}]
PolicyDisabled == [Seed EXCEPT !.policy.enabled = FALSE]
(* The shard user_1 moved to the other server. *)
Moved == [Seed EXCEPT !.routes =
            {IF p.physical = "user_1" THEN [p EXCEPT !.ds = "order_db"] ELSE p : p \in Seed.routes}]

MCMetaVersion == {Seed, Relaxed, UserDbDisabled, PolicyDisabled, Moved}

Table(name) == [name |-> name, alias |-> NoValue]
On(column, value) == [qualifier |-> NoValue, column |-> column, value |-> value]
Select(tables, preds, limit) ==
  [guard |-> "ALLOW", type |-> "select", tables |-> tables, preds |-> preds,
   hasLimit |-> limit > 0, limit |-> limit]

PointLookup == Select(<<Table("user")>>, <<On("uid", "3")>>, 1)
Unlimited == Select(<<Table("user_1")>>, <<>>, 0)
SameShardJoin == Select(<<Table("user"), Table("user_1")>>, <<On("uid", "1")>>, 2)
CrossJoin == Select(<<Table("user"), Table("order")>>, <<On("uid", "1")>>, 1)
NotANumber == Select(<<Table("user")>>, <<On("uid", "x")>>, 1)
Update == [PointLookup EXCEPT !.guard = "SQL_TYPE_DENIED"]
NoTable == Select(<<>>, <<>>, 1)
NoFactor == Select(<<Table("user_1"), Table("user")>>, <<>>, 1)

To(endpoint, sql) == [endpoint |-> endpoint, sql |-> sql, ctx |-> [k \in {"biz_date"} |-> "7"]]

MCCall ==
  {To("execute", PointLookup), To("execute", Unlimited), To("execute", SameShardJoin),
   To("execute", CrossJoin), To("execute", NotANumber), To("check", PointLookup),
   To("execute", Update), To("check", NoTable), To("execute", NoFactor)}

Row(access, rows) == [access |-> access, rows |-> rows, temporary |-> FALSE, filesort |-> FALSE]
MCPlan == {<<Row("ref", 1)>>, <<Row("ALL", 3)>>, <<Row("ref", 1), Row("ALL", 9)>>, <<>>}

(* For the run with several requests. *)
\* The shard's name registered for another logical table, too: the column
\* physical_table_name is not unique, and naming it then raises.
Doubled == [Relaxed EXCEPT !.routes = @ \union
              {[logical |-> "order", value |-> "1", physical |-> "user_1", ds |-> "user_db",
                enabled |-> TRUE]}]

FewVersions == {Relaxed, PolicyDisabled, Doubled}
FewCalls == {To("execute", NotANumber), To("execute", Unlimited), To("execute", Update)}
JoinOnly == {To("execute", SameShardJoin)}
GoodPlan == {<<Row("ref", 1)>>}
=============================================================================
