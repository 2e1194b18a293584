------------------------ MODULE ShardedTablesProofs ------------------------
(***************************************************************************)
(* Theorems about ShardedTables for any number of shards, any keys,        *)
(* statements with any number of predicates, and any shards out of         *)
(* service.                                                                *)
(*                                                                         *)
(* The outcome of a question is brought down to the value the table is     *)
(* routed by (KeyOf) and to the shards that are in service (ByKey); the    *)
(* properties then follow from what that value is.                         *)
(***************************************************************************)
EXTENDS ShardedTables, SqlCheckProofs, FiniteSetTheorems, FunctionTheorems

Asks(table) == [name |-> table, alias |-> "a"]

(* The value the required factor of a table gets from a statement. *)
KeyOf(table, preds) ==
  FactorValue(Metadata, Logical(table), Factor(table), Statement(preds), Asks(table), Context)

(* What the rule of a table makes of it. *)
ShardOf(table, value) ==
  IF table = "orders" THEN value ELSE Decimal[Numeral[value] % Modulus]

-----------------------------------------------------------------------------
(* Suffixes and their spelling. *)

LEMMA Spelled ==
  \A n \in Suffix : n \in Int /\ Decimal[n] \in DOMAIN Numeral /\ Numeral[Decimal[n]] = n
<1>1. \A n \in Suffix : n \in Int
  <2>1. Modulus \in Nat
    BY ShardAssumption
  <2> QED BY <2>1 DEF Suffix
<1>2. Suffix \subseteq DOMAIN Decimal
  BY ShardAssumption
<1> QED BY <1>1, <1>2, DecimalAssumption

LEMMA Remainder ==
  \A v \in DOMAIN Numeral : Numeral[v] % Modulus \in Suffix
<1> SUFFICES ASSUME NEW v \in DOMAIN Numeral
             PROVE  Numeral[v] % Modulus \in Suffix
  OBVIOUS
<1>1. Numeral[v] \in Int /\ Modulus \in Nat \ {0}
  BY ShardAssumption
<1> QED BY <1>1 DEF Suffix

-----------------------------------------------------------------------------
(* The metadata of a table: one logical table, one factor, one rule, and   *)
(* an enabled route for each suffix in service.                            *)

LEMMA OneLogical ==
  ASSUME NEW table \in Table
  PROVE  /\ EnabledByPhysicalName(Metadata, table) = {}
         /\ EnabledByName(Metadata, table) = {Logical(table)}
<1>1. \A s \in Shard : Route(s).physical # table
  BY ShardAssumption DEF Route
<1> QED BY <1>1 DEF EnabledByPhysicalName, EnabledByName, Metadata, Logical

LEMMA OneRule ==
  ASSUME NEW table \in Table
  PROVE  EnabledRules(Metadata, table) = {Rule(table)}
BY DEF EnabledRules, Metadata, Rule

LEMMA OneFactor ==
  ASSUME NEW table \in Table
  PROVE  RequiredFactors(Metadata, table) = {Factor(table)}
<1>1. \A t \in Table : Factor(t).enabled /\ Factor(t).required /\ Factor(t).logical = t
  BY DEF Factor
<1>2. Metadata.factors = {Factor(t) : t \in Table}
  BY DEF Metadata
<1> QED BY <1>1, <1>2 DEF RequiredFactors

LEMMA TheOnly ==
  ASSUME NEW a
  PROVE  The({a}) = a /\ ~Multiple({a}) /\ {a} # {}
BY DEF The, Multiple

LEMMA RoutesInService ==
  ASSUME NEW table \in Table, NEW value
  PROVE  EnabledByRouteValue(Metadata, table, value) =
           {Route(s) : s \in {<<table, n>> : n \in {k \in Suffix : Decimal[k] = value /\ <<table, k>> \notin off}}}
<1>1. Metadata.routes = {Route(s) : s \in Shard}
  BY DEF Metadata
<1>2. \A s \in Shard : /\ Route(s).enabled = (s \notin off)
                       /\ Route(s).logical = s[1] /\ Route(s).value = Decimal[s[2]]
  BY DEF Route
<1>3. \A s \in Shard : s[1] = table => s = <<table, s[2]>> /\ s[2] \in Suffix
  BY DEF Shard
<1>4. \A n \in Suffix : /\ <<table, n>> \in Shard /\ <<table, n>>[1] = table
                        /\ <<table, n>>[2] = n
  BY DEF Shard
<1> DEFINE left == EnabledByRouteValue(Metadata, table, value)
           right == {Route(s) : s \in {<<table, n>> : n \in {k \in Suffix : Decimal[k] = value /\ <<table, k>> \notin off}}}
<1>5. ASSUME NEW p \in left PROVE p \in right
  <2>1. PICK s \in Shard : p = Route(s)
    BY <1>1, <1>5 DEF EnabledByRouteValue
  <2>2. p.enabled /\ p.logical = table /\ p.value = value
    BY <1>5 DEF EnabledByRouteValue
  <2>3. s[1] = table /\ Decimal[s[2]] = value /\ s \notin off
    BY <1>2, <2>1, <2>2
  <2> QED BY <1>3, <2>1, <2>3
<1>6. ASSUME NEW p \in right PROVE p \in left
  <2>1. PICK n \in Suffix : Decimal[n] = value /\ <<table, n>> \notin off /\ p = Route(<<table, n>>)
    BY <1>6
  <2> QED BY <1>1, <1>2, <1>4, <2>1 DEF EnabledByRouteValue
<1> QED BY <1>5, <1>6

LEMMA RouteOfShard ==
  ASSUME NEW table \in Table, NEW n \in Suffix
  PROVE  EnabledByRouteValue(Metadata, table, Decimal[n]) =
           IF <<table, n>> \in off THEN {} ELSE {Route(<<table, n>>)}
<1>1. {k \in Suffix : Decimal[k] = Decimal[n] /\ <<table, k>> \notin off} =
        IF <<table, n>> \in off THEN {} ELSE {n}
  BY Spelled
<1>2. EnabledByRouteValue(Metadata, table, Decimal[n]) =
        {Route(s) : s \in {<<table, k>> : k \in IF <<table, n>> \in off THEN {} ELSE {n}}}
  BY <1>1, RoutesInService, Zenon
<1>3. CASE <<table, n>> \in off
  <2>1. {Route(s) : s \in {<<table, k>> : k \in {}}} = {}
    OBVIOUS
  <2> QED BY <1>2, <1>3, <2>1
<1>4. CASE <<table, n>> \notin off
  <2>1. {Route(s) : s \in {<<table, k>> : k \in {n}}} = {Route(<<table, n>>)}
    OBVIOUS
  <2> QED BY <1>2, <1>4, <2>1
<1> QED BY <1>3, <1>4

(* A route value is taken to the shard it spells, or nowhere.              *)
LEMMA ByValue ==
  ASSUME NEW table \in Table, NEW value
  PROVE  LET got == ResolveRoute(Metadata, Logical(table), value)
         IN IF \E n \in Suffix : Decimal[n] = value /\ <<table, n>> \notin off
            THEN got.outcome = "target" /\ got.target.value = value
            ELSE got.outcome # "target"
<1> DEFINE got == ResolveRoute(Metadata, Logical(table), value)
           routes == EnabledByRouteValue(Metadata, table, value)
<1>1. Logical(table).name = table /\ Metadata.datasources = {"db"}
  BY DEF Logical, Metadata
<1>2. CASE \E n \in Suffix : Decimal[n] = value /\ <<table, n>> \notin off
  <2>1. PICK n \in Suffix : Decimal[n] = value /\ <<table, n>> \notin off
    BY <1>2
  <2>2. routes = {Route(<<table, n>>)}
    BY <2>1, RouteOfShard
  <2>3. Route(<<table, n>>).ds = "db"
    BY DEF Route
  <2>4. The(routes) = Route(<<table, n>>) /\ ~Multiple(routes) /\ routes # {}
    BY <2>2, TheOnly
  <2>5. got = Resolved([logical |-> Logical(table).name, physical |-> The(routes).physical,
                        ds |-> The(routes).ds, value |-> value, rewrite |-> TRUE])
    <3> HIDE DEF routes
    <3>1. The(routes).ds \in Metadata.datasources
      BY <1>1, <2>3, <2>4
    <3> QED BY <1>1, <2>4, <3>1 DEF ResolveRoute, routes
  <2>6. got.outcome = "target" /\ got.target.value = value
    <3> HIDE DEF routes, got
    <3> QED BY <2>5 DEF Resolved
  <2> QED BY <1>2, <2>6
<1>3. CASE ~ \E n \in Suffix : Decimal[n] = value /\ <<table, n>> \notin off
  <2>1. routes = {}
    BY <1>3, RoutesInService
  <2>2. got = Rejected("PHYSICAL_ROUTE_NOT_FOUND")
    BY <1>1, <2>1 DEF ResolveRoute, Multiple
  <2> QED BY <1>3, <2>2 DEF Rejected
<1> QED BY <1>2, <1>3

-----------------------------------------------------------------------------
(* The outcome of a question, from the value of its factor.                *)
LEMMA ByKey ==
  ASSUME NEW table \in Table, NEW preds
  PROVE  LET key == KeyOf(table, preds)
         IN Outcome(table, preds) =
              IF key = NoValue THEN Rejected("MISSING_ROUTE_FACTOR")
              ELSE IF key \notin DOMAIN Numeral THEN Raised
              ELSE ResolveRoute(Metadata, Logical(table), ShardOf(table, key))
<1> DEFINE key == KeyOf(table, preds)
           m == Metadata
           l == Logical(table)
           sql == Statement(preds)
           t == Asks(table)
           values == ExtractedValues(m, l, sql, t, Context)
           missing == MissingFactors(m, l, sql, t, Context)
           name == Factor(table).name
<1>1. Outcome(table, preds) = ResolveLogical(m, l, sql, t, Context)
  <2>1. t.name = table
    BY DEF Asks
  <2>2. The({l}) = l /\ {l} # {} /\ ~Multiple({})
    BY TheOnly DEF Multiple
  <2>3. ResolveTable(m, sql, t, Context) = ResolveLogical(m, l, sql, t, Context)
    BY <2>1, <2>2, OneLogical DEF ResolveTable
  <2> QED BY <2>3 DEF Outcome, Asks
<1>2. l.name = table
  BY DEF Logical
<1>3. missing = IF key = NoValue THEN {Factor(table)} ELSE {}
  BY <1>2, OneFactor DEF MissingFactors, KeyOf
<1>4. values = [n \in {name} |-> key]
  <2> DEFINE req == RequiredFactors(m, l.name)
             value(n) == FactorValue(m, l, CHOOSE f \in req : f.name = n, sql, t, Context)
  <2>1. values = [n \in {f.name : f \in req} |-> value(n)]
    BY Zenon DEF ExtractedValues
  <2>2. req = {Factor(table)}
    BY <1>2, OneFactor
  <2>3. {f.name : f \in req} = {name}
    <3> HIDE DEF req
    <3> QED BY <2>2
  <2>4. (CHOOSE f \in req : f.name = name) = Factor(table)
    <3> HIDE DEF req
    <3> QED BY <2>2
  <2>5. \A n \in {name} : value(n) = key
    BY <2>4, Zenon DEF KeyOf
  <2> HIDE DEF value, req, values, key, name
  <2> QED BY <2>1, <2>3, <2>5
<1>5. EnabledRules(m, l.name) = {Rule(table)} /\ The({Rule(table)}).eval = Eval(table)
      /\ ~Multiple({Rule(table)}) /\ {Rule(table)} # {}
  <2>1. Rule(table).eval = Eval(table)
    BY DEF Rule
  <2> QED BY <1>2, <2>1, OneRule, TheOnly
<1>6. /\ missing # {} => ResolveLogical(m, l, sql, t, Context) = Rejected("MISSING_ROUTE_FACTOR")
      /\ missing = {} /\ values \notin DOMAIN Eval(table) =>
           ResolveLogical(m, l, sql, t, Context) = Raised
      /\ missing = {} /\ values \in DOMAIN Eval(table) =>
           ResolveLogical(m, l, sql, t, Context) = ResolveRoute(m, l, Eval(table)[values])
  <2> DEFINE res == ResolveLogical(m, l, sql, t, Context)
             v1 == ExtractedValues(m, l, sql, t, Context)
             e == Eval(table)
  <2>1. res = CASE missing # {} -> Rejected("MISSING_ROUTE_FACTOR")
                [] missing = {} /\ v1 \notin DOMAIN e -> Raised
                [] OTHER -> ResolveRoute(m, l, e[v1])
    BY <1>5 DEF ResolveLogical
  <2> HIDE DEF res, missing, v1, e
  <2>2. /\ missing # {} => res = Rejected("MISSING_ROUTE_FACTOR")
        /\ missing = {} /\ v1 \notin DOMAIN e => res = Raised
        /\ missing = {} /\ v1 \in DOMAIN e => res = ResolveRoute(m, l, e[v1])
    BY <2>1
  <2> QED BY <2>2 DEF res, v1, e
<1>7. (values \in DOMAIN Eval(table)) = (key \in DOMAIN Numeral)
  <2>1. DOMAIN Eval(table) = [{name} -> DOMAIN Numeral]
    BY DEF Eval, Factor, Table
  <2> HIDE DEF values, key, name
  <2>2. values[name] = key
    BY <1>4
  <2> QED BY <1>4, <2>1, <2>2
<1>8. key \in DOMAIN Numeral => Eval(table)[values] = ShardOf(table, key)
  <2> SUFFICES ASSUME key \in DOMAIN Numeral PROVE Eval(table)[values] = ShardOf(table, key)
    OBVIOUS
  <2>1. values[name] = key
    <3> HIDE DEF values, key, name
    <3> QED BY <1>4
  <2>2. CASE table = "orders"
    <3>1. name = "route_suffix" /\ Eval(table) = [e \in [{"route_suffix"} -> DOMAIN Numeral] |-> e["route_suffix"]]
      BY <2>2 DEF Factor, Eval
    <3> HIDE DEF values, key, name
    <3>2. values \in [{"route_suffix"} -> DOMAIN Numeral]
      BY <1>4, <3>1
    <3> QED BY <2>1, <2>2, <3>1, <3>2 DEF ShardOf
  <2>3. CASE table # "orders"
    <3>1. name = "uid" /\ Eval(table) = [e \in [{"uid"} -> DOMAIN Numeral] |-> Decimal[Numeral[e["uid"]] % Modulus]]
      BY <2>3 DEF Factor, Eval
    <3> HIDE DEF values, key, name
    <3>2. values \in [{"uid"} -> DOMAIN Numeral]
      BY <1>4, <3>1
    <3> QED BY <2>1, <2>3, <3>1, <3>2 DEF ShardOf
  <2> QED BY <2>2, <2>3
<1> HIDE DEF key, values, missing, m, l, sql, t, name
<1>9. Outcome(table, preds) =
        IF key = NoValue THEN Rejected("MISSING_ROUTE_FACTOR")
        ELSE IF key \notin DOMAIN Numeral THEN Raised
        ELSE ResolveRoute(m, l, ShardOf(table, key))
  BY <1>1, <1>3, <1>6, <1>7, <1>8
<1> QED BY <1>9 DEF key, m, l

-----------------------------------------------------------------------------
(* The value a statement gives a table for its shard column. *)

LEMMA PredicatesAreTexts ==
  ASSUME NEW preds \in Predicates
  PROVE  \E n \in 0 .. MaxPredicates :
           /\ n \in Nat /\ DOMAIN preds = 1 .. n /\ Len(preds) = n
           /\ preds \in [1 .. n -> Predicate]
           /\ n = 0 <=> preds = <<>>
<1>1. PICK n \in 0 .. MaxPredicates : preds \in [1 .. n -> Predicate]
  BY Zenon DEF Predicates
<1>2. n \in Nat
  <2>1. MaxPredicates \in Nat
    BY ShardAssumption
  <2> QED BY <2>1
<1>3. preds \in Seq(Predicate)
  BY <1>1, <1>2
<1> QED BY <1>1, <1>2, <1>3

(* Where a statement's predicates on a column stand. *)
Hits(preds, column, qualifier) ==
  {i \in DOMAIN preds : /\ preds[i].column = column
                        /\ qualifier = NoValue \/ preds[i].qualifier = qualifier}

LEMMA PredicateRead ==
  ASSUME NEW preds \in Predicates, NEW column, NEW qualifier
  PROVE  IF Hits(preds, column, qualifier) = {}
         THEN PredicateValue(Statement(preds), column, qualifier) = NoValue
         ELSE \E i \in Hits(preds, column, qualifier) :
                /\ PredicateValue(Statement(preds), column, qualifier) = preds[i].value
                /\ \A j \in Hits(preds, column, qualifier) : i <= j
<1> DEFINE value == PredicateValue(Statement(preds), column, qualifier)
           hits == Hits(preds, column, qualifier)
           first == CHOOSE i \in hits : \A j \in hits : i <= j
<1>1. Statement(preds).preds = preds
  BY DEF Statement
<1>2. value = IF hits = {} THEN NoValue ELSE preds[first].value
  <2> DEFINE p == Statement(preds).preds
             found == {i \in DOMAIN p : /\ p[i].column = column
                                        /\ qualifier = NoValue \/ p[i].qualifier = qualifier}
             least(S) == CHOOSE i \in S : \A j \in S : i <= j
  <2>1. value = IF found = {} THEN NoValue ELSE p[least(found)].value
    BY Zenon DEF PredicateValue
  <2>2. p = preds
    BY <1>1
  <2>3. found = hits
    <3> HIDE DEF p
    <3> QED BY <2>2 DEF Hits
  <2>4. first = least(hits)
    OBVIOUS
  <2> HIDE DEF p, found, hits, value, least, first
  <2> QED BY <2>1, <2>2, <2>3, <2>4
<1>3. hits \in SUBSET Nat
  <2>1. PICK n \in Nat : DOMAIN preds = 1 .. n
    BY PredicatesAreTexts
  <2> QED BY <2>1 DEF Hits
<1> HIDE DEF hits, value, first
<1>4. hits # {} => first \in hits /\ \A j \in hits : first <= j
  BY <1>3, LeastElement, Zenon DEF first
<1> QED BY <1>2, <1>4, Zenon DEF hits, value

LEMMA ValueRead ==
  ASSUME NEW preds \in Predicates, NEW table
  PROVE  LET value == ValueForTable(Statement(preds), "uid", Asks(table))
         IN IF preds = <<>> THEN value = NoValue ELSE \E i \in DOMAIN preds : value = preds[i].value
<1> DEFINE value == ValueForTable(Statement(preds), "uid", Asks(table))
           own == PredicateValue(Statement(preds), "uid", "a")
           any == PredicateValue(Statement(preds), "uid", NoValue)
<1>1. PICK n \in Nat : DOMAIN preds = 1 .. n /\ preds \in [1 .. n -> Predicate] /\ (n = 0 <=> preds = <<>>)
  BY PredicatesAreTexts
<1>2. value = IF own \in {NoValue, ""} THEN any ELSE own
  BY DEF ValueForTable, Asks
<1>3. \A i \in DOMAIN preds : preds[i].column = "uid"
  BY <1>1 DEF Predicate
<1>4. own = NoValue \/ \E i \in DOMAIN preds : own = preds[i].value
  <2>1. Hits(preds, "uid", "a") \subseteq DOMAIN preds
    BY DEF Hits
  <2> QED BY <2>1, PredicateRead
<1>5. Hits(preds, "uid", NoValue) = DOMAIN preds
  BY <1>3 DEF Hits
<1>6. IF DOMAIN preds = {} THEN any = NoValue ELSE \E i \in DOMAIN preds : any = preds[i].value
  <2>1. IF Hits(preds, "uid", NoValue) = {} THEN any = NoValue
        ELSE \E i \in Hits(preds, "uid", NoValue) : any = preds[i].value
    BY PredicateRead, Zenon
  <2> QED BY <1>5, <2>1, Zenon
<1>7. preds = <<>> <=> DOMAIN preds = {}
  BY <1>1
<1> HIDE DEF value, own, any
<1>8. CASE preds = <<>>
  <2>1. own = NoValue /\ any = NoValue
    BY <1>4, <1>6, <1>7, <1>8
  <2> QED BY <1>2, <1>8, <2>1 DEF value
<1>9. CASE preds # <<>>
  BY <1>2, <1>4, <1>6, <1>7, <1>9 DEF value
<1> QED BY <1>8, <1>9

LEMMA UsersKey ==
  ASSUME NEW preds
  PROVE  KeyOf("users", preds) = ValueForTable(Statement(preds), "uid", Asks("users"))
BY DEF KeyOf, FactorValue, ExtractFactorValue, Factor

LEMMA OrdersKey ==
  ASSUME NEW preds
  PROVE  LET value == ValueForTable(Statement(preds), "uid", Asks("orders"))
             count == EnabledRouteCount(Metadata, "orders")
         IN KeyOf("orders", preds) =
              IF count = 0 \/ value \notin DOMAIN Numeral THEN NoValue
              ELSE Decimal[Numeral[value] % count]
<1>1. /\ ContextValue(Context, "route_suffix") = NoValue
      /\ ContextValue(Context, "shard_column") = "uid"
  BY DEF ContextValue, Context
<1>2. "uid" \notin {NoValue, ""} /\ NoValue \notin DOMAIN Numeral
  BY ShardAssumption
<1>3. KeyOf("orders", preds) =
        LegacyRouteSuffix(Metadata, Logical("orders"), Statement(preds), Asks("orders"), Context)
  BY <1>1 DEF KeyOf, FactorValue, ExtractFactorValue, Factor
<1>4. Logical("orders").name = "orders"
  BY DEF Logical
<1> QED BY <1>1, <1>2, <1>3, <1>4 DEF LegacyRouteSuffix

(* With every shard in service there are as many routes as suffixes.       *)
LEMMA CompleteCount ==
  ASSUME off = {}, NEW table \in Table
  PROVE  EnabledRouteCount(Metadata, table) = Modulus
<1> DEFINE routes == {p \in Metadata.routes : p.enabled /\ p.logical = table}
           f == [n \in Suffix |-> Route(<<table, n>>)]
<1>1. routes = {Route(<<table, n>>) : n \in Suffix}
  <2>1. Metadata.routes = {Route(s) : s \in Shard}
    BY DEF Metadata
  <2>2. \A s \in Shard : Route(s).enabled /\ Route(s).logical = s[1]
    BY DEF Route
  <2>3. \A s \in Shard : s[1] = table => s = <<table, s[2]>> /\ s[2] \in Suffix
    BY DEF Shard
  <2>4. \A n \in Suffix : <<table, n>> \in Shard /\ <<table, n>>[1] = table
    BY DEF Shard
  <2>5. ASSUME NEW p \in routes PROVE p \in {Route(<<table, n>>) : n \in Suffix}
    <3>1. PICK s \in Shard : p = Route(s) /\ s[1] = table
      BY <2>1, <2>2, <2>5
    <3> QED BY <2>3, <3>1
  <2>6. ASSUME NEW n \in Suffix PROVE Route(<<table, n>>) \in routes
    BY <2>1, <2>2, <2>4
  <2> QED BY <2>5, <2>6
<1>2. \A a, b \in Suffix : Route(<<table, a>>) = Route(<<table, b>>) => a = b
  <2>1. \A n \in Suffix : Route(<<table, n>>).value = Decimal[n]
    BY DEF Route
  <2> QED BY <2>1, Spelled
<1>3. ExistsBijection(Suffix, routes)
  <2>1. f \in [Suffix -> routes] /\ \A n \in Suffix : f[n] = Route(<<table, n>>)
    BY <1>1
  <2>2. \A a, b \in Suffix : f[a] = f[b] => a = b
    BY <1>2, <2>1
  <2>3. \A r \in routes : \E n \in Suffix : f[n] = r
    BY <1>1, <2>1
  <2> HIDE DEF f, routes
  <2>4. f \in Bijection(Suffix, routes)
    BY <2>1, <2>2, <2>3, Fun_IsBij
  <2> QED BY <2>4, Fun_ExistsBij
<1>4. Modulus \in Nat \ {0}
  BY ShardAssumption
<1>5. IsFiniteSet(Suffix) /\ Cardinality(Suffix) = Modulus
  BY <1>4, FS_Interval DEF Suffix
<1>6. Cardinality(routes) = Modulus
  BY <1>3, <1>5, FS_Bijection
<1> QED BY <1>6 DEF EnabledRouteCount

-----------------------------------------------------------------------------
(* A statement whose values are no numbers is not routed.                  *)
LEMMA NoNumberNoRoute ==
  ASSUME NEW table \in Table, NEW preds \in Predicates,
         \A i \in DOMAIN preds : preds[i].value \notin DOMAIN Numeral
  PROVE  Outcome(table, preds).outcome # "target"
<1> DEFINE value == ValueForTable(Statement(preds), "uid", Asks(table))
<1>1. value \notin DOMAIN Numeral
  <2>1. NoValue \notin DOMAIN Numeral
    BY ShardAssumption
  <2>2. value = NoValue \/ \E i \in DOMAIN preds : value = preds[i].value
    BY ValueRead
  <2> HIDE DEF value
  <2> QED BY <2>1, <2>2
<1>2. KeyOf(table, preds) = NoValue \/ KeyOf(table, preds) \notin DOMAIN Numeral
  <2>1. table = "users" \/ table = "orders"
    BY DEF Table
  <2> QED BY <1>1, <2>1, UsersKey, OrdersKey
<1> QED BY <1>2, ByKey DEF Rejected, Raised

(* With every shard in service a number is taken to the shard it is on.    *)
LEMMA CompleteFindsHome ==
  ASSUME off = {}, NEW table \in Table, NEW preds \in Predicates, preds # <<>>,
         NEW v \in DOMAIN Numeral, \A i \in DOMAIN preds : preds[i].value = v
  PROVE  /\ Outcome(table, preds).outcome = "target"
         /\ Outcome(table, preds).target.value = HomeSuffix(v)
<1> DEFINE value == ValueForTable(Statement(preds), "uid", Asks(table))
           key == KeyOf(table, preds)
           home == Numeral[v] % Modulus
<1>1. value = v
  <2>1. \E i \in DOMAIN preds : value = preds[i].value
    BY ValueRead
  <2> HIDE DEF value
  <2> QED BY <2>1
<1>2. home \in Suffix /\ Decimal[home] \in DOMAIN Numeral
  <2>1. home \in Suffix
    BY Remainder
  <2> QED BY <2>1, Spelled
<1>3. key \in DOMAIN Numeral /\ ShardOf(table, key) = Decimal[home]
  <2>1. CASE table = "users"
    BY <1>1, <2>1, UsersKey DEF ShardOf
  <2>2. CASE table = "orders"
    <3>1. EnabledRouteCount(Metadata, "orders") = Modulus
      BY <2>2, CompleteCount
    <3>2. Modulus # 0
      BY ShardAssumption
    <3>3. key = Decimal[home]
      BY <1>1, <2>2, <3>1, <3>2, OrdersKey
    <3> QED BY <1>2, <2>2, <3>3 DEF ShardOf
  <2> QED BY <2>1, <2>2 DEF Table
<1>4. key # NoValue
  BY <1>3, ShardAssumption
<1>5. Outcome(table, preds) = ResolveRoute(Metadata, Logical(table), Decimal[home])
  BY <1>3, <1>4, ByKey
<1>6. \E n \in Suffix : Decimal[n] = Decimal[home] /\ <<table, n>> \notin off
  BY <1>2
<1> QED BY <1>5, <1>6, ByValue DEF HomeSuffix

(* A rule takes a statement to the shard in service that its key is on.    *)
LEMMA RuleFindsHome ==
  ASSUME NEW preds \in Predicates, Outcome("users", preds).outcome = "target"
  PROVE  LET value == ValueForTable(Statement(preds), "uid", Asks("users"))
         IN /\ value \in DOMAIN Numeral
            /\ Outcome("users", preds).target.value = HomeSuffix(value)
            /\ <<"users", Numeral[value] % Modulus>> \notin off
            /\ Numeral[HomeSuffix(value)] = Numeral[value] % Modulus
<1> DEFINE key == KeyOf("users", preds)
           home == Numeral[key] % Modulus
<1>1. key = ValueForTable(Statement(preds), "uid", Asks("users"))
  BY UsersKey
<1> HIDE DEF key
<1>2. Outcome("users", preds) =
        IF key = NoValue THEN Rejected("MISSING_ROUTE_FACTOR")
        ELSE IF key \notin DOMAIN Numeral THEN Raised
        ELSE ResolveRoute(Metadata, Logical("users"), ShardOf("users", key))
  BY ByKey DEF key, Table
<1>3. key \in DOMAIN Numeral /\ Outcome("users", preds) = ResolveRoute(Metadata, Logical("users"), Decimal[home])
  BY <1>2 DEF Rejected, Raised, ShardOf
<1>4. /\ Outcome("users", preds).target.value = Decimal[home]
      /\ \E n \in Suffix : Decimal[n] = Decimal[home] /\ <<"users", n>> \notin off
  BY <1>3, ByValue DEF Table
<1>5. home \in Suffix
  BY <1>3, Remainder
<1>6. <<"users", home>> \notin off /\ Numeral[Decimal[home]] = home
  BY <1>4, <1>5, Spelled
<1> QED BY <1>1, <1>3, <1>4, <1>6 DEF HomeSuffix

LEMMA RoomForOne == \A a, b \in Nat : \A c \in 1 .. a : a \in 0 .. b => 1 \in 0 .. b
OBVIOUS

LEMMA OneOfASort ==
  ASSUME NEW S, NEW a \in S
  PROVE  /\ <<a>> \in [1 .. 1 -> S] /\ DOMAIN <<a>> = 1 .. 1 /\ <<a>>[1] = a
         /\ 1 \in 1 .. 1 /\ 1 \in Nat /\ \A j \in 1 .. 1 : j = 1 /\ 1 <= j
OBVIOUS

(* The first of the predicates of table "a". *)
OwnAndFirst(preds, n, i) ==
  /\ preds[i].qualifier = "a" /\ preds[i].value # ""
  /\ \A j \in 1 .. n : preds[j].qualifier = "a" => i <= j

(* It decides ... *)
LEMMA OwnValue ==
  ASSUME NEW table, NEW preds \in Predicates, NEW n \in Nat, DOMAIN preds = 1 .. n,
         NEW i \in 1 .. n, OwnAndFirst(preds, n, i)
  PROVE  ValueForTable(Statement(preds), "uid", Asks(table)) = preds[i].value
<1> DEFINE hits == Hits(preds, "uid", "a")
           own == PredicateValue(Statement(preds), "uid", "a")
<1>1. preds \in [1 .. n -> Predicate]
  BY PredicatesAreTexts
<1>2. \A j \in 1 .. n : preds[j].column = "uid" /\ preds[j].value \in Key
  <2>1. \A j \in 1 .. n : preds[j] \in Predicate
    BY <1>1
  <2> QED BY <2>1 DEF Predicate
<1>3. "a" # NoValue /\ NoValue \notin Key
  BY ShardAssumption
<1>4. i \in hits /\ hits \subseteq Nat /\ \A j \in hits : i <= j
  <2>1. i \in hits
    BY <1>2 DEF OwnAndFirst, Hits
  <2>2. \A j \in hits : j \in 1 .. n /\ preds[j].qualifier = "a"
    BY <1>3 DEF Hits
  <2> HIDE DEF hits
  <2>3. \A j \in hits : i <= j
    BY <2>2 DEF OwnAndFirst
  <2>4. 1 .. n \subseteq Nat
    BY PlacesAreNumbers
  <2> QED BY <2>1, <2>2, <2>3, <2>4
<1>5. IF hits = {} THEN own = NoValue
      ELSE \E k \in hits : own = preds[k].value /\ \A j \in hits : k <= j
  BY PredicateRead
<1> HIDE DEF hits, own
<1>6. PICK k \in hits : own = preds[k].value /\ k <= i
  BY <1>4, <1>5
<1>7. own = preds[i].value
  <2>1. k \in Nat /\ i \in Nat /\ i <= k
    BY <1>4
  <2> QED BY <1>6, <2>1, LeastIsUnique
<1>8. own \notin {NoValue, ""}
  BY <1>2, <1>3, <1>7 DEF OwnAndFirst
<1> QED BY <1>7, <1>8 DEF ValueForTable, Asks, own

LEMMA NoOtherColumn ==
  ASSUME NEW table, NEW preds \in Predicates, NEW column, column # "uid"
  PROVE  ValueForTable(Statement(preds), column, Asks(table)) = NoValue
<1>1. \A j \in DOMAIN preds : preds[j].column = "uid"
  <2>1. PICK n \in Nat : DOMAIN preds = 1 .. n /\ preds \in [1 .. n -> Predicate]
    BY PredicatesAreTexts
  <2>2. \A j \in 1 .. n : preds[j] \in Predicate
    BY <2>1
  <2> QED BY <2>1, <2>2 DEF Predicate
<1>2. ASSUME NEW q PROVE PredicateValue(Statement(preds), column, q) = NoValue
  <2>1. Hits(preds, column, q) = {}
    BY <1>1 DEF Hits
  <2> QED BY <2>1, PredicateRead
<1>3. /\ PredicateValue(Statement(preds), column, Asks(table).alias) = NoValue
      /\ PredicateValue(Statement(preds), column, NoValue) = NoValue
  BY <1>2
<1> QED BY <1>3 DEF ValueForTable

(* ... as it would alone.                                                  *)
LEMMA OwnPredicateAlone ==
  ASSUME NEW table \in Table, NEW preds \in Predicates, NEW n \in Nat, DOMAIN preds = 1 .. n,
         NEW i \in 1 .. n, OwnAndFirst(preds, n, i)
  PROVE  Outcome(table, preds) = Outcome(table, <<preds[i]>>)
<1> DEFINE p == preds[i]
           one == <<p>>
<1>1. p \in Predicate /\ 1 \in 0 .. MaxPredicates
  <2>1. PICK k \in 0 .. MaxPredicates : /\ k \in Nat /\ DOMAIN preds = 1 .. k
                                        /\ preds \in [1 .. k -> Predicate]
    BY PredicatesAreTexts
  <2>2. i \in 1 .. k /\ MaxPredicates \in Nat
    BY <2>1, ShardAssumption
  <2> QED BY <2>1, <2>2, RoomForOne
<1> HIDE DEF p
<1>2. /\ one \in [1 .. 1 -> Predicate] /\ DOMAIN one = 1 .. 1 /\ one[1] = p
      /\ 1 \in 1 .. 1 /\ 1 \in Nat /\ \A j \in 1 .. 1 : j = 1 /\ 1 <= j
  BY <1>1, OneOfASort DEF p
<1> HIDE DEF one
<1>3. one \in Predicates
  BY <1>1, <1>2, Zenon DEF Predicates
<1>4. ValueForTable(Statement(preds), "uid", Asks(table)) = p.value
  BY OwnValue DEF p
<1>5. ValueForTable(Statement(one), "uid", Asks(table)) = p.value
  <2>1. OwnAndFirst(one, 1, 1)
    BY <1>2 DEF OwnAndFirst, p
  <2>2. \A k \in Nat : \A j \in 1 .. k : DOMAIN one = 1 .. k /\ OwnAndFirst(one, k, j) =>
          ValueForTable(Statement(one), "uid", Asks(table)) = one[j].value
    BY <1>3, OwnValue
  <2> QED BY <1>2, <2>1, <2>2
<1>6. ASSUME NEW column
      PROVE  ValueForTable(Statement(preds), column, Asks(table))
               = ValueForTable(Statement(one), column, Asks(table))
  BY <1>3, <1>4, <1>5, NoOtherColumn
<1>7. ResolveTable(Metadata, Statement(preds), Asks(table), Context)
        = ResolveTable(Metadata, Statement(one), Asks(table), Context)
  <2>1. \A other : (\A column : ValueForTable(Statement(preds), column, Asks(table))
                                = ValueForTable(other, column, Asks(table)))
                 => ResolveTable(Metadata, Statement(preds), Asks(table), Context)
                      = ResolveTable(Metadata, other, Asks(table), Context)
    BY ValuesDecide
  <2> QED BY <1>6, <2>1
<1> QED BY <1>7 DEF Outcome, Asks, one, p

-----------------------------------------------------------------------------
(* The inductive invariant: what was asked is answered from the shards     *)
(* that are in service now.                                                *)
IInv ==
  asked # NoValue =>
    /\ asked.table \in Table /\ asked.preds \in Predicates
    /\ asked.outcome = Outcome(asked.table, asked.preds)

(* The answers are never stale: every shard that goes out of service or    *)
(* comes back makes a new question of it.                                  *)
LEMMA AnswersAreCurrent == Spec => []IInv
<1>1. Init => IInv
  BY DEF Init, IInv
<1>2. IInv /\ [Next]_<<off, asked>> => IInv'
  <2> SUFFICES ASSUME IInv, [Next]_<<off, asked>> PROVE IInv'
    OBVIOUS
  <2>1. ASSUME UNCHANGED off, NEW table, NEW preds
        PROVE  Outcome(table, preds)' = Outcome(table, preds)
    BY <2>1 DEF Outcome, Metadata, Route
  <2>2. CASE UNCHANGED <<off, asked>>
    <3>1. asked' # NoValue => asked'.outcome = Outcome(asked.table, asked.preds)
      BY <2>2 DEF IInv
    <3> QED BY <2>1, <2>2, <3>1 DEF IInv
  <2>3. CASE Ask
    <3>1. PICK table \in Table, preds \in Predicates :
            asked' = [table |-> table, preds |-> preds, outcome |-> Outcome(table, preds)]
      BY <2>3 DEF Ask
    <3>2. asked'.table = table /\ asked'.preds = preds /\ asked'.outcome = Outcome(table, preds)
      BY <3>1
    <3>3. Outcome(table, preds)' = Outcome(table, preds)
      BY <2>1, <2>3 DEF Ask
    <3> QED BY <3>2, <3>3 DEF IInv
  <2>4. CASE TakeOut \/ TakeBack
    BY <2>4 DEF TakeOut, TakeBack, IInv
  <2> QED BY <2>2, <2>3, <2>4 DEF Next
<1> QED BY <1>1, <1>2, PTL DEF Spec

(* A table with a predicate of its own is routed by that one, whatever the *)
(* tables it is joined to are compared with, before or after it.           *)
THEOREM OwnPredicateIsTaken == Spec => []OwnPredicateWins
<1>1. IInv => OwnPredicateWins
  <2> SUFFICES ASSUME IInv, asked # NoValue, NEW i \in Of("a"),
                      asked.preds[i].value # "", \A j \in Of("a") : i <= j
               PROVE  asked.outcome = Outcome(asked.table, <<asked.preds[i]>>)
    BY Zenon DEF OwnPredicateWins
  <2>1. /\ asked.table \in Table /\ asked.preds \in Predicates
        /\ asked.outcome = Outcome(asked.table, asked.preds)
    BY DEF IInv
  <2>2. PICK n \in Nat : DOMAIN asked.preds = 1 .. n
    BY <2>1, PredicatesAreTexts
  <2>3. i \in 1 .. n /\ OwnAndFirst(asked.preds, n, i)
    BY <2>2 DEF Of, OwnAndFirst
  <2>4. Outcome(asked.table, asked.preds) = Outcome(asked.table, <<asked.preds[i]>>)
    BY <2>1, <2>2, <2>3, OwnPredicateAlone
  <2> QED BY <2>1, <2>4
<1> QED BY <1>1, AnswersAreCurrent, PTL

(* As long as every shard of every table is in service, the suffix derived *)
(* for imported tables is the shard the key is on, as with a rule.         *)
THEOREM CompleteTablesAreRight == Spec => []CompleteShardsAreRight
<1>1. IInv => CompleteShardsAreRight
  <2> SUFFICES ASSUME IInv, asked # NoValue, off = {}, asked.preds # <<>>, NEW v \in DOMAIN Numeral,
                      \A i \in DOMAIN asked.preds : asked.preds[i].value = v
               PROVE  /\ asked.outcome.outcome = "target"
                      /\ asked.outcome.target.value = HomeSuffix(v)
    BY Zenon DEF CompleteShardsAreRight
  <2> QED BY CompleteFindsHome DEF IInv
<1> QED BY <1>1, AnswersAreCurrent, PTL

(* A statement whose values are no numbers is never routed, whatever is    *)
(* in service.                                                             *)
THEOREM NoKeyIsRouted == Spec => []NoKeyNoRoute
<1>1. IInv => NoKeyNoRoute
  BY NoNumberNoRoute DEF IInv, NoKeyNoRoute
<1> QED BY <1>1, AnswersAreCurrent, PTL

(* A rule over the business column takes a key to the shard it is on, or   *)
(* nowhere: no shard stands in for one that is out of service.             *)
THEOREM RulesFailClosed == Spec => []RuleNeverMisroutes
<1>1. IInv => RuleNeverMisroutes
  <2> SUFFICES ASSUME IInv, asked # NoValue, asked.table = "users", asked.outcome.outcome = "target"
               PROVE  /\ <<"users", Numeral[asked.outcome.target.value]>> \notin off
                      /\ KeyIsOwn /\ Len(asked.preds) = 1 =>
                           asked.outcome.target.value = HomeSuffix(FirstKey)
    BY Zenon DEF RuleNeverMisroutes
  <2> DEFINE value == ValueForTable(Statement(asked.preds), "uid", Asks("users"))
  <2>1. asked.preds \in Predicates /\ asked.outcome = Outcome("users", asked.preds)
    BY DEF IInv
  <2>2. /\ value \in DOMAIN Numeral
        /\ asked.outcome.target.value = HomeSuffix(value)
        /\ <<"users", Numeral[value] % Modulus>> \notin off
        /\ Numeral[HomeSuffix(value)] = Numeral[value] % Modulus
    BY <2>1, RuleFindsHome
  <2>3. Len(asked.preds) = 1 => value = FirstKey
    <3> SUFFICES ASSUME Len(asked.preds) = 1 PROVE value = FirstKey
      OBVIOUS
    <3>1. asked.preds # <<>> /\ DOMAIN asked.preds = 1 .. 1
      BY <2>1, PredicatesAreTexts
    <3>2. \E i \in DOMAIN asked.preds : value = asked.preds[i].value
      BY <2>1, <3>1, ValueRead
    <3> HIDE DEF value
    <3> QED BY <3>1, <3>2 DEF FirstKey
  <2> QED BY <2>2, <2>3
<1> QED BY <1>1, AnswersAreCurrent, PTL
=============================================================================
