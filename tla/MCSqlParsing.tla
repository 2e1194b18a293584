---------------------------- MODULE MCSqlParsing ----------------------------
(***************************************************************************)
(* WrittenStatements on a small vocabulary: "user" has two shards and a    *)
(* rule over uid, "order" a single table.                                  *)
(***************************************************************************)
EXTENDS WrittenStatements

MCDecimal == [n \in 0 .. 5 |-> <<"0", "1", "2", "3", "4", "5">>[n + 1]]
MCNumeral == [s \in {MCDecimal[n] : n \in 0 .. 5} |-> CHOOSE n \in 0 .. 5 : MCDecimal[n] = s]
MCHeads == {"select", "from", "join", "as", "on", "where", "and", "limit",
            "user", "order", "a", "b", "uid", "note"}
MCTails == {"_0", "_1"}
MCSpelling == [p \in {"user_0", "user_1", "order_0"} |->
                 CASE p = "user_0"  -> <<"user", "_0">>
                   [] p = "user_1"  -> <<"user", "_1">>
                   [] p = "order_0" -> <<"order", "_0">>]

MCNames == {<<"user">>, <<"order">>, <<"user", "_1">>}
MCKeyLiterals == {<<"1">>, <<"'", "4", "'">>}
MCRemarks == {<<"uid", "=", "3">>, <<"from", "user", "limit", "1">>}
MCBounds == {<<"2">>, <<"5">>, <<"4", ",", "2">>}

MCMetadata ==
  LET route(l, v, p) == [logical |-> l, value |-> v, physical |-> p, ds |-> "db", enabled |-> TRUE]
  IN [datasources |-> {"db"},
      logical |-> {[name |-> l, family |-> {}, enabled |-> TRUE] : l \in {"user", "order"}},
      factors |-> {[logical |-> "user", name |-> "uid", sourceType |-> "sql_predicate",
                    sourceKey |-> "uid", required |-> TRUE, enabled |-> TRUE]},
      rules   |-> {[logical |-> "user", enabled |-> TRUE, eval |->
                      [e \in [{"uid"} -> DOMAIN Numeral] |-> Decimal[Numeral[e["uid"]] % 2]]],
                   [logical |-> "order", enabled |-> TRUE, eval |-> [e \in {<<>>} |-> "0"]]},
      routes  |-> {route("user", "0", "user_0"), route("user", "1", "user_1"),
                   route("order", "0", "order_0")},
      policy  |-> [enabled |-> TRUE, types |-> {"select"}, requireLimit |-> TRUE, maxLimit |-> 2]]
=============================================================================
