--------------------------- MODULE ShardedTables ---------------------------
(***************************************************************************)
(* Route resolution while an operator takes shards out of service: two     *)
(* logical tables of Modulus shards each, "orders" imported before         *)
(* business routing existed (its factor is the suffix itself) and "users"  *)
(* with a rule over its shard column, each asked for through the alias "a" *)
(* next to another table under "b".  The rows of key v are on shard        *)
(* v % Modulus.                                                            *)
(***************************************************************************)
EXTENDS SqlRouting

CONSTANTS
  Modulus,           \* the shards of each table
  Key,               \* what the predicates compare the shard column with
  PhysicalName(_),   \* physical_table_name of a shard
  MaxPredicates,     \* bound: the predicates of a statement
  MaxOff             \* bound: the shards out of service at once

VARIABLES
  off,      \* the shards an operator disabled, pairs <<table, suffix>>
  asked     \* the last question and its outcome, if off is as it was

-----------------------------------------------------------------------------
Suffix == 0 .. Modulus - 1
Table == {"orders", "users"}
Shard == Table \X Suffix

(* Suffixes have a spelling, int() refuses None and the empty string, and  *)
(* no shard has the name of a logical table.                               *)
ASSUME ShardAssumption ==
  /\ Modulus \in Nat \ {0} /\ Suffix \subseteq DOMAIN Decimal
  /\ \A s \in DOMAIN Numeral : Numeral[s] \in Int
  /\ \A s \in Shard : PhysicalName(s) \notin Table
  /\ {NoValue, ""} \intersect DOMAIN Numeral = {} /\ NoValue \notin Key \union {"", "a", "uid"}
  /\ MaxPredicates \in Nat

(* "orders": the factor route_suffix and the expression "route_suffix";    *)
(* "users": the factor uid and the expression "int(uid) % Modulus".        *)
Factor(table) ==
  IF table = "orders"
  THEN [logical |-> table, name |-> "route_suffix", sourceType |-> "route_context",
        sourceKey |-> "route_suffix", required |-> TRUE, enabled |-> TRUE]
  ELSE [logical |-> table, name |-> "uid", sourceType |-> "sql_predicate",
        sourceKey |-> "uid", required |-> TRUE, enabled |-> TRUE]

Eval(table) ==
  IF table = "orders"
  THEN [e \in [{"route_suffix"} -> DOMAIN Numeral] |-> e["route_suffix"]]
  ELSE [e \in [{"uid"} -> DOMAIN Numeral] |-> Decimal[Numeral[e["uid"]] % Modulus]]

Logical(table) == [name |-> table, family |-> {}, enabled |-> TRUE]
Rule(table) == [logical |-> table, eval |-> Eval(table), enabled |-> TRUE]
Route(s) ==
  [logical |-> s[1], physical |-> PhysicalName(s), ds |-> "db", value |-> Decimal[s[2]],
   enabled |-> s \notin off]

Metadata ==
  [datasources |-> {"db"},
   logical |-> {Logical(t) : t \in Table},
   factors |-> {Factor(t) : t \in Table},
   rules   |-> {Rule(t) : t \in Table},
   routes  |-> {Route(s) : s \in Shard},
   policy  |-> NoValue]

-----------------------------------------------------------------------------
Predicate == [qualifier : {"a", "b", NoValue}, column : {"uid"}, value : Key]
Predicates == UNION {[1 .. n -> Predicate] : n \in 0 .. MaxPredicates}

Statement(preds) ==
  [guard |-> "ALLOW", type |-> "SELECT", tables |-> <<>>, preds |-> preds,
   hasLimit |-> TRUE, limit |-> 1]

Context == [k \in {"shard_column"} |-> "uid"]

Outcome(table, preds) ==
  ResolveTable(Metadata, Statement(preds), [name |-> table, alias |-> "a"], Context)

Init == off = {} /\ asked = NoValue

Ask ==
  /\ asked = NoValue
  /\ \E table \in Table, preds \in Predicates :
       asked' = [table |-> table, preds |-> preds, outcome |-> Outcome(table, preds)]
  /\ UNCHANGED off

(* An operator takes a shard out of service, and back into it. *)
TakeOut ==
  /\ \E s \in Shard \ off : off' = off \union {s}
  /\ Cardinality(off) < MaxOff
  /\ asked' = NoValue

TakeBack ==
  /\ \E s \in off : off' = off \ {s}
  /\ asked' = NoValue

Next == Ask \/ TakeOut \/ TakeBack

Spec == Init /\ [][Next]_<<off, asked>>

-----------------------------------------------------------------------------
(* Properties.                                                             *)

Of(qualifier) == {i \in DOMAIN asked.preds : asked.preds[i].qualifier = qualifier}

(* The value the table "a" is routed by, when a's own predicate or an      *)
(* unqualified one comes before any other.                                 *)
FirstKey == asked.preds[1].value
KeyIsOwn == asked.preds # <<>> /\ asked.preds[1].qualifier # "b"

HomeSuffix(v) == Decimal[Numeral[v] % Modulus]

(* A table with a predicate of its own is routed by that one, wherever the *)
(* predicates of the tables it is joined to stand.                         *)
OwnPredicateWins ==
  asked # NoValue =>
    \A i \in Of("a") :
      (asked.preds[i].value # "" /\ \A j \in Of("a") : i <= j) =>
        asked.outcome = Outcome(asked.table, <<asked.preds[i]>>)

(* As long as no shard is out of service, the suffix derived for imported  *)
(* tables is the shard the key's rows are on, exactly as the rule of a     *)
(* business-routed table finds it.                                         *)
CompleteShardsAreRight ==
  asked # NoValue /\ off = {} /\ asked.preds # <<>> =>
    \A v \in DOMAIN Numeral :
      (\A i \in DOMAIN asked.preds : asked.preds[i].value = v) =>
        /\ asked.outcome.outcome = "target"
        /\ asked.outcome.target.value = HomeSuffix(v)

(* A statement that says nothing of the key, or compares it with what is   *)
(* no number, is never routed.                                             *)
NoKeyNoRoute ==
  asked # NoValue /\ (\A i \in DOMAIN asked.preds : asked.preds[i].value \notin DOMAIN Numeral) =>
    asked.outcome.outcome # "target"

(* A rule over the business column never sends a statement to a shard that *)
(* is out of service, nor to another one in its place.                     *)
RuleNeverMisroutes ==
  asked # NoValue /\ asked.table = "users" /\ asked.outcome.outcome = "target" =>
    /\ <<"users", Numeral[asked.outcome.target.value]>> \notin off
    /\ KeyIsOwn /\ Len(asked.preds) = 1 => asked.outcome.target.value = HomeSuffix(FirstKey)

(* "The gateway should fail closed" (ROADMAP.md:33): with a shard out of   *)
(* service no statement is sent to the wrong one.                          *)
NeverTheWrongShard ==
  asked # NoValue /\ Len(asked.preds) = 1 /\ asked.outcome.outcome = "target" =>
    asked.outcome.target.value = HomeSuffix(FirstKey)
=============================================================================
