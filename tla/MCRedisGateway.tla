-------------------------- MODULE MCRedisGateway --------------------------
(***************************************************************************)
(* An instance of RedisGateway: two Redis datasources of one catalog with  *)
(* a prefix each, a MySQL one, and what an operator may do to them.        *)
(***************************************************************************)
EXTENDS RedisGateway, TLC

MCNumeral == [s \in {"0", "1", "2", "-1"} |->
                CASE s = "0" -> 0 [] s = "1" -> 1 [] s = "2" -> 2 [] OTHER -> -1]

Keys == {"user:a", "user:b", "demo:a", "user:*", "user:too:long", ""}
MCKeyLength == [k \in Keys |-> IF k = "user:too:long" THEN 9 ELSE 6]
MCStartsWith ==
  {<<k, "user:">> : k \in {"user:a", "user:b", "user:*", "user:too:long"}} \union
  {<<"demo:a", "demo:">>}

Datasource(name, type, prefixes) ==
  [code |-> name, type |-> type, catalog |-> "cache", prefixes |-> prefixes, enabled |-> TRUE]

Users == Datasource("users", "redis", {"user:"})
Demo == Datasource("demo", "redis", NoValue)
MySQL == Datasource("mysql", "mysql", NoValue)

Both == {Users, Demo, MySQL}
UsersDisabled == {[Users EXCEPT !.enabled = FALSE], Demo, MySQL}
(* Every key allowed on "demo": the catalog alone no longer decides.       *)
DemoOpen == {Users, [Demo EXCEPT !.prefixes = {}], MySQL}
MCMetaVersion == {Both, UsersDisabled, DemoOpen}

(* The keys that requests with an approval read first. *)
MCPlace == {<<"users", "user:a">>, <<"demo", "demo:a">>}

Ask(endpoint, command, args, datasource) ==
  [endpoint |-> endpoint, command |-> command, args |-> args,
   ctx |-> [datasource |-> datasource, catalog |-> IF datasource = "" THEN "cache" ELSE ""]]

MCCall ==
  {Ask("execute", "HGETALL", <<"user:a">>, ""),
   Ask("execute", "SMEMBERS", <<"user:a">>, "users"),
   Ask("execute", "MGET", <<"user:a", "user:b">>, ""),
   Ask("execute", "MGET", <<"user:a", "demo:a">>, "users"),
   Ask("execute", "MGET", <<"demo:a", "user:a">>, ""),
   Ask("execute", "MGET", <<"user:a", "user:b", "user:a">>, ""),
   Ask("execute", "LRANGE", <<"user:a", "0", "1">>, "users"),
   Ask("execute", "ZRANGE", <<"user:a", "0", "2">>, "users"),
   Ask("execute", "LRANGE", <<"user:a", "-1", "1">>, "users"),
   Ask("execute", "HMGET", <<"user:a", "f", "g">>, ""),
   Ask("execute", "GET", <<"demo:a">>, "demo"),
   Ask("execute", "GET", <<"user:*">>, "users"),
   Ask("execute", "GET", <<"user:too:long">>, "users"),
   Ask("execute", "GET", <<"">>, "users"),
   Ask("execute", "GET", <<"user:a">>, "mysql"),
   Ask("execute", "DEL", <<"user:a">>, "users"),
   Ask("check", "HGETALL", <<"user:a">>, ""),
   Ask("check", "", <<>>, "users")}
=============================================================================
