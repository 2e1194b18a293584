-------------------------- MODULE SqlCheckProofs --------------------------
(***************************************************************************)
(* The operators of SqlRouting and SqlFilters, for any statement and any   *)
(* metadata: what their answers mean, and what they depend on.             *)
(***************************************************************************)
EXTENDS SqlRouting, SqlFilters, CheckChainProofs

(* What the filter chain's approval means.                                 *)
LEMMA FilterVerdictIsAllow ==
  ASSUME NEW m, NEW sql, NEW ts, FilterVerdict(m, sql, ts) = "ALLOW"
  PROVE  /\ m.policy.enabled
         /\ DatasourcesOf(ts) \subseteq m.datasources
         /\ \A a, b \in DatasourcesOf(ts) : a = b
         /\ m.policy.requireLimit => sql.hasLimit
         /\ sql.hasLimit => ~ (sql.limit > m.policy.maxLimit)
         /\ sql.type \in m.policy.types
<1> DEFINE chain == <<
    Check(~m.policy.enabled, "POLICY_NOT_FOUND"),
    Check(~(DatasourcesOf(ts) \subseteq m.datasources), "DATASOURCE_NOT_FOUND"),
    Check(sql.type \notin m.policy.types, "SQL_TYPE_DENIED"),
    Check(\E a, b \in DatasourcesOf(ts) : a # b, "CROSS_DATASOURCE_JOIN"),
    Check(m.policy.requireLimit /\ ~sql.hasLimit, "LIMIT_REQUIRED"),
    Check(sql.hasLimit /\ sql.limit > m.policy.maxLimit, "LIMIT_EXCEEDED") >>
<1>1. FilterVerdict(m, sql, ts) = FirstBlock(chain)
  BY Zenon DEF FilterVerdict
<1>2. DOMAIN chain = 1 .. 6
  OBVIOUS
<1>3. \A i \in 1 .. 6 : chain[i].reason # "ALLOW"
  BY DEF Check
<1> HIDE DEF chain
<1>4. \A i \in 1 .. 6 : ~ chain[i].blocks
  BY <1>1, <1>2, <1>3, FirstBlockCases
<1>5. /\ chain[1].blocks = ~m.policy.enabled
      /\ chain[2].blocks = ~(DatasourcesOf(ts) \subseteq m.datasources)
      /\ chain[3].blocks = (sql.type \notin m.policy.types)
      /\ chain[4].blocks = (\E a, b \in DatasourcesOf(ts) : a # b)
      /\ chain[5].blocks = (m.policy.requireLimit /\ ~sql.hasLimit)
      /\ chain[6].blocks = (sql.hasLimit /\ sql.limit > m.policy.maxLimit)
  BY DEF chain, Check
<1>6. /\ ~ chain[1].blocks /\ ~ chain[2].blocks /\ ~ chain[3].blocks
      /\ ~ chain[4].blocks /\ ~ chain[5].blocks /\ ~ chain[6].blocks
  BY <1>4
<1> QED BY <1>5, <1>6, Zenon

(* The chain answers with a string; when the evaluator approves, the first *)
(* row of a non-empty plan stays below the thresholds.                     *)
LEMMA FilterVerdictType ==
  ASSUME NEW m, NEW sql, NEW ts
  PROVE  FilterVerdict(m, sql, ts) \in FilterReason \union {"ALLOW"}
<1> DEFINE chain == <<
    Check(~m.policy.enabled, "POLICY_NOT_FOUND"),
    Check(~(DatasourcesOf(ts) \subseteq m.datasources), "DATASOURCE_NOT_FOUND"),
    Check(sql.type \notin m.policy.types, "SQL_TYPE_DENIED"),
    Check(\E a, b \in DatasourcesOf(ts) : a # b, "CROSS_DATASOURCE_JOIN"),
    Check(m.policy.requireLimit /\ ~sql.hasLimit, "LIMIT_REQUIRED"),
    Check(sql.hasLimit /\ sql.limit > m.policy.maxLimit, "LIMIT_EXCEEDED") >>
<1>1. FilterVerdict(m, sql, ts) = FirstBlock(chain)
  BY Zenon DEF FilterVerdict
<1>2. DOMAIN chain = 1 .. 6
  OBVIOUS
<1>3. \A i \in 1 .. 6 : chain[i].reason \in FilterReason
  BY DEF Check, FilterReason
<1> HIDE DEF chain
<1> QED BY <1>1, <1>2, <1>3, FirstBlockCases

LEMMA ExplainVerdictType ==
  ASSUME NEW p, NEW size, NEW plan
  PROVE  ExplainVerdict(p, size, plan) \in ExplainReason \union {"ALLOW"}
<1> DEFINE first == plan[1]
           chain == <<
       Check(first.rows > p.maxScanRows, "EXPLAIN_SCAN_ROWS_EXCEEDED"),
       Check(/\ p.rejectFullScan
             /\ first.access = "ALL"
             /\ size >= p.largeTableRows, "FULL_SCAN_ON_LARGE_TABLE"),
       Check(p.rejectTemporary /\ first.temporary, "USING_TEMPORARY"),
       Check(p.rejectFilesort /\ first.filesort, "USING_FILESORT") >>
<1>1. ExplainVerdict(p, size, plan) = IF plan = <<>> THEN "EXPLAIN_EMPTY" ELSE FirstBlock(chain)
  BY Zenon DEF ExplainVerdict
<1>2. DOMAIN chain = 1 .. 4
  OBVIOUS
<1>3. \A i \in 1 .. 4 : chain[i].reason \in ExplainReason
  BY DEF Check, ExplainReason
<1> HIDE DEF chain
<1>4. FirstBlock(chain) \in ExplainReason \union {"ALLOW"}
  BY <1>2, <1>3, FirstBlockCases
<1> QED BY <1>1, <1>4 DEF ExplainReason

(* An approved plan is not empty, and its first row is within the policy.  *)
LEMMA ExplainVerdictPassed ==
  ASSUME NEW p, NEW size, NEW plan, ExplainVerdict(p, size, plan) = "ALLOW"
  PROVE  PlanPassed(p, plan)
<1> DEFINE first == plan[1]
           chain == <<
       Check(first.rows > p.maxScanRows, "EXPLAIN_SCAN_ROWS_EXCEEDED"),
       Check(/\ p.rejectFullScan
             /\ first.access = "ALL"
             /\ size >= p.largeTableRows, "FULL_SCAN_ON_LARGE_TABLE"),
       Check(p.rejectTemporary /\ first.temporary, "USING_TEMPORARY"),
       Check(p.rejectFilesort /\ first.filesort, "USING_FILESORT") >>
<1>1. ExplainVerdict(p, size, plan) = IF plan = <<>> THEN "EXPLAIN_EMPTY" ELSE FirstBlock(chain)
  BY Zenon DEF ExplainVerdict
<1>2. DOMAIN chain = 1 .. 4
  OBVIOUS
<1>3. \A i \in 1 .. 4 : chain[i].reason # "ALLOW"
  BY DEF Check
<1> HIDE DEF chain
<1>4. plan # <<>> /\ FirstBlock(chain) = "ALLOW"
  BY <1>1
<1>5. \A i \in 1 .. 4 : ~ chain[i].blocks
  BY <1>2, <1>3, <1>4, FirstBlockCases
<1>6. /\ chain[1].blocks = (first.rows > p.maxScanRows)
      /\ chain[3].blocks = (p.rejectTemporary /\ first.temporary)
      /\ chain[4].blocks = (p.rejectFilesort /\ first.filesort)
  BY DEF chain, Check
<1>7. ~ chain[1].blocks /\ ~ chain[3].blocks /\ ~ chain[4].blocks
  BY <1>5
<1> QED BY <1>4, <1>6, <1>7, Zenon DEF PlanPassed

-----------------------------------------------------------------------------
(* Routing.                                                                *)

LEMMA TheIsMember ==
  ASSUME NEW S, S # {}
  PROVE  The(S) \in S
BY DEF The

(* One turn of the routing loop ends in a target, a rejection with a       *)
(* reason, or an exception. A target is a registered, enabled route whose  *)
(* datasource is enabled; and a table that is not rewritten is named by    *)
(* its physical name already.                                              *)
LEMMA ResolveTableOutcome ==
  ASSUME NEW m, RoutingMetadataOK(m), NEW sql, NEW t, NEW ctx
  PROVE  LET got == ResolveTable(m, sql, t, ctx)
         IN /\ got.outcome \in {"target", "reject", "raise"}
            /\ got.outcome = "reject" => got.reason \in RouteReason
            /\ got.outcome = "target" =>
                 /\ got.target \in TargetRecord
                 /\ got.target.ds \in m.datasources
                 /\ ~got.target.rewrite => got.target.physical = t.name
                 /\ \E p \in m.routes : /\ p.enabled
                                        /\ p.physical = got.target.physical
                                        /\ p.ds = got.target.ds
                                        /\ p.value = got.target.value
<1> DEFINE Good(got) ==
            /\ got.outcome \in {"target", "reject", "raise"}
            /\ got.outcome = "reject" => got.reason \in RouteReason
            /\ got.outcome = "target" =>
                 /\ got.target \in TargetRecord
                 /\ got.target.ds \in m.datasources
                 /\ ~got.target.rewrite => got.target.physical = t.name
                 /\ \E p \in m.routes : /\ p.enabled
                                        /\ p.physical = got.target.physical
                                        /\ p.ds = got.target.ds
                                        /\ p.value = got.target.value
<1> SUFFICES Good(ResolveTable(m, sql, t, ctx))
  BY Zenon
<1>1. \A reason \in RouteReason : Good(Rejected(reason))
  BY DEF Rejected
<1>2. Good(Raised)
  BY DEF Raised
<1>3. ASSUME NEW p \in EnabledByPhysicalName(m, t.name)
      PROVE  Good(ResolvePhysical(m, p))
  <2>1. /\ p \in m.routes /\ p.enabled /\ p.physical = t.name
        /\ p.physical \in STRING /\ p.logical \in STRING /\ p.ds \in STRING /\ p.value \in STRING
    BY <1>3 DEF EnabledByPhysicalName, RoutingMetadataOK
  <2>2. CASE p.ds \notin m.datasources
    BY <2>2, <1>1 DEF ResolvePhysical, RouteReason
  <2>3. CASE p.ds \in m.datasources
    BY <2>1, <2>3 DEF ResolvePhysical, Resolved, TargetRecord
  <2> QED BY <2>2, <2>3
<1>4. Good(ResolveUnknown(m, t))
  BY <1>1 DEF ResolveUnknown, RouteReason
<1>5. ASSUME NEW l \in m.logical, NEW value \in STRING
      PROVE  Good(ResolveRoute(m, l, value))
  <2> DEFINE routes == EnabledByRouteValue(m, l.name, value)
             route == The(routes)
  <2>1. CASE routes = {}
    BY <2>1, <1>1 DEF ResolveRoute, RouteReason, Multiple
  <2>2. CASE routes # {} /\ Multiple(routes)
    <3>1. ResolveRoute(m, l, value) = Raised
      BY <2>2 DEF ResolveRoute
    <3> QED BY <3>1, <1>2
  <2>3. CASE routes # {} /\ ~Multiple(routes)
    <3>1. /\ route \in m.routes /\ route.enabled /\ route.value = value /\ route.logical = l.name
          /\ route.physical \in STRING /\ route.ds \in STRING /\ l.name \in STRING
      BY <2>3, TheIsMember DEF EnabledByRouteValue, RoutingMetadataOK
    <3>2. ResolveRoute(m, l, value) =
            IF route.ds \notin m.datasources THEN Rejected("DATASOURCE_NOT_FOUND")
            ELSE Resolved([logical |-> l.name, physical |-> route.physical, ds |-> route.ds,
                           value |-> value, rewrite |-> TRUE])
      BY <2>3 DEF ResolveRoute
    <3>3. CASE route.ds \notin m.datasources
      BY <3>2, <3>3, <1>1 DEF RouteReason
    <3>4. CASE route.ds \in m.datasources
      <4> HIDE DEF routes
      <4> QED BY <3>1, <3>2, <3>4 DEF Resolved, TargetRecord
    <3> QED BY <3>3, <3>4
  <2> QED BY <2>1, <2>2, <2>3
<1>6. ASSUME NEW l \in m.logical
      PROVE  Good(ResolveLogical(m, l, sql, t, ctx))
  <2> DEFINE rules == EnabledRules(m, l.name)
             values == ExtractedValues(m, l, sql, t, ctx)
             eval == The(rules).eval
             missing == MissingFactors(m, l, sql, t, ctx)
  <2>1. CASE Multiple(rules)
    <3>1. ResolveLogical(m, l, sql, t, ctx) = Raised
      BY <2>1 DEF ResolveLogical, Multiple
    <3> QED BY <3>1, <1>2
  <2>2. CASE ~Multiple(rules) /\ rules = {}
    BY <2>2, <1>1 DEF ResolveLogical, RouteReason
  <2>3. CASE ~Multiple(rules) /\ rules # {} /\ missing # {}
    BY <2>3, <1>1 DEF ResolveLogical, RouteReason
  <2>4. CASE ~Multiple(rules) /\ rules # {} /\ missing = {} /\ values \notin DOMAIN eval
    BY <2>4, <1>2 DEF ResolveLogical
  <2>5. CASE ~Multiple(rules) /\ rules # {} /\ missing = {} /\ values \in DOMAIN eval
    <3>1. ResolveLogical(m, l, sql, t, ctx) = ResolveRoute(m, l, eval[values])
      BY <2>5 DEF ResolveLogical
    <3>2. The(rules) \in m.rules
      BY <2>5, TheIsMember DEF EnabledRules
    <3>3. eval[values] \in STRING
      <4> HIDE DEF values, rules
      <4> QED BY <2>5, <3>2 DEF RoutingMetadataOK
    <3> HIDE DEF eval, values, rules, missing, Good
    <3> QED BY <3>1, <3>3, <1>5
  <2> QED BY <2>1, <2>2, <2>3, <2>4, <2>5
<1> DEFINE physical == EnabledByPhysicalName(m, t.name)
           logical == EnabledByName(m, t.name)
<1>7. CASE Multiple(physical)
  <2>1. ResolveTable(m, sql, t, ctx) = Raised
    BY <1>7 DEF ResolveTable, Multiple
  <2> QED BY <2>1, <1>2
<1>8. CASE ~Multiple(physical) /\ physical # {}
  <2>1. ResolveTable(m, sql, t, ctx) = ResolvePhysical(m, The(physical))
    BY <1>8 DEF ResolveTable
  <2> HIDE DEF Good
  <2> QED BY <2>1, <1>8, <1>3, TheIsMember
<1>9. CASE ~Multiple(physical) /\ physical = {} /\ logical = {}
  BY <1>9, <1>4 DEF ResolveTable
<1>10. CASE ~Multiple(physical) /\ physical = {} /\ logical # {}
  <2>1. ResolveTable(m, sql, t, ctx) = ResolveLogical(m, The(logical), sql, t, ctx)
    BY <1>10 DEF ResolveTable
  <2>2. The(logical) \in m.logical
    BY <1>10, TheIsMember DEF EnabledByName
  <2> HIDE DEF Good
  <2> QED BY <2>1, <2>2, <1>6
<1> QED BY <1>7, <1>8, <1>9, <1>10

-----------------------------------------------------------------------------
(* Which predicate, which rule and which modulus decide where a table is   *)
(* routed, for any statement, any metadata and any route context.          *)

LEMMA LeastIsUnique == \A a, b \in Nat : a <= b /\ b <= a => a = b
OBVIOUS

LEMMA PlacesAreNumbers == \A n \in Nat : 1 .. n \subseteq Nat
OBVIOUS

(* The place of a table's own predicate on a column, if it has one, is     *)
(* where its value is read: the predicates of other tables do not count,   *)
(* wherever they stand.                                                    *)
THEOREM OwnPredicateDecides ==
  ASSUME NEW sql, NEW n \in Nat, DOMAIN sql.preds = 1 .. n,
         NEW t, NEW column, NEW i \in 1 .. n,
         sql.preds[i].column = column, sql.preds[i].qualifier = t.alias, t.alias # NoValue,
         sql.preds[i].value \notin {NoValue, ""},
         \A j \in 1 .. n :
           sql.preds[j].column = column /\ sql.preds[j].qualifier = t.alias => i <= j
  PROVE  ValueForTable(sql, column, t) = sql.preds[i].value
<1> DEFINE hits == {k \in DOMAIN sql.preds :
                      /\ sql.preds[k].column = column
                      /\ t.alias = NoValue \/ sql.preds[k].qualifier = t.alias}
           first == CHOOSE k \in hits : \A j \in hits : k <= j
<1>1. i \in hits /\ hits \subseteq Nat /\ \A j \in hits : i <= j
  <2>1. i \in hits
    OBVIOUS
  <2>2. \A j \in hits : j \in 1 .. n /\ i <= j
    OBVIOUS
  <2> HIDE DEF hits
  <2>3. 1 .. n \subseteq Nat
    BY PlacesAreNumbers, Zenon
  <2> QED BY <2>1, <2>2, <2>3
<1>2. PredicateValue(sql, column, t.alias) =
        IF hits = {} THEN NoValue ELSE sql.preds[first].value
  BY Zenon DEF PredicateValue
<1> HIDE DEF hits
<1>3. first \in hits /\ \A j \in hits : first <= j
  BY <1>1, Zenon
<1> HIDE DEF first
<1>4. first = i
  <2>1. first \in Nat /\ i \in Nat /\ i <= first /\ first <= i
    BY <1>1, <1>3
  <2> QED BY <2>1, LeastIsUnique, Zenon
<1>5. hits # {}
  BY <1>1
<1>6. PredicateValue(sql, column, t.alias) = sql.preds[i].value
  BY <1>2, <1>4, <1>5
<1> QED BY <1>6 DEF ValueForTable

(* Statements that read the same values for a table route it alike: of the *)
(* predicates nothing else counts, and nothing of the LIMIT, the type or   *)
(* the other tables.                                                       *)
THEOREM ValuesDecide ==
  ASSUME NEW m, NEW sql, NEW other, NEW t, NEW ctx,
         \A column : ValueForTable(sql, column, t) = ValueForTable(other, column, t)
  PROVE  ResolveTable(m, sql, t, ctx) = ResolveTable(m, other, t, ctx)
<1>1. ASSUME NEW f PROVE ExtractFactorValue(f, sql, t, ctx) = ExtractFactorValue(f, other, t, ctx)
  <2>1. /\ ValueForTable(sql, f.sourceKey, t) = ValueForTable(other, f.sourceKey, t)
        /\ ValueForTable(sql, ContextValue(ctx, f.sourceKey), t)
             = ValueForTable(other, ContextValue(ctx, f.sourceKey), t)
    OBVIOUS
  <2> QED BY <2>1 DEF ExtractFactorValue
<1>2. ASSUME NEW l PROVE LegacyRouteSuffix(m, l, sql, t, ctx) = LegacyRouteSuffix(m, l, other, t, ctx)
  <2>1. ValueForTable(sql, ContextValue(ctx, "shard_column"), t)
          = ValueForTable(other, ContextValue(ctx, "shard_column"), t)
    OBVIOUS
  <2> QED BY <2>1 DEF LegacyRouteSuffix
<1>3. ASSUME NEW l, NEW f PROVE FactorValue(m, l, f, sql, t, ctx) = FactorValue(m, l, f, other, t, ctx)
  BY <1>1, <1>2 DEF FactorValue
<1>4. ASSUME NEW l PROVE MissingFactors(m, l, sql, t, ctx) = MissingFactors(m, l, other, t, ctx)
  BY <1>3, Zenon DEF MissingFactors
<1>5. ASSUME NEW l PROVE ExtractedValues(m, l, sql, t, ctx) = ExtractedValues(m, l, other, t, ctx)
  BY <1>3 DEF ExtractedValues
<1>6. ASSUME NEW l PROVE ResolveLogical(m, l, sql, t, ctx) = ResolveLogical(m, l, other, t, ctx)
  BY <1>4, <1>5 DEF ResolveLogical
<1> QED BY <1>6 DEF ResolveTable

(* A table that is rewritten has an enabled logical table, one enabled     *)
(* rule and every required factor; the route it takes is the enabled route *)
(* of that table with the value the rule computes.  No shard stands in for *)
(* another one.                                                            *)
THEOREM RuleDecides ==
  ASSUME NEW m, NEW sql, NEW t, NEW ctx,
         ResolveTable(m, sql, t, ctx).outcome = "target",
         ResolveTable(m, sql, t, ctx).target.rewrite
  PROVE  \E l \in EnabledByName(m, t.name) : \E u \in EnabledRules(m, l.name) :
           LET values == ExtractedValues(m, l, sql, t, ctx)
               target == ResolveTable(m, sql, t, ctx).target
           IN /\ MissingFactors(m, l, sql, t, ctx) = {}
              /\ values \in DOMAIN u.eval
              /\ target.value = u.eval[values]
              /\ \E p \in EnabledByRouteValue(m, l.name, target.value) :
                   p.physical = target.physical /\ p.ds = target.ds
<1> DEFINE physical == EnabledByPhysicalName(m, t.name)
           logical == EnabledByName(m, t.name)
           got == ResolveTable(m, sql, t, ctx)
<1>1. /\ \A reason : Rejected(reason).outcome # "target"
      /\ Raised.outcome # "target"
  BY DEF Rejected, Raised
<1>2. ~ Multiple(physical)
  <2> SUFFICES ASSUME Multiple(physical) PROVE FALSE
    OBVIOUS
  <2>1. got = Raised
    BY DEF ResolveTable, Multiple
  <2> QED BY <2>1, <1>1
<1>3. physical = {}
  <2> SUFFICES ASSUME physical # {} PROVE FALSE
    OBVIOUS
  <2>1. got = ResolvePhysical(m, The(physical))
    BY <1>2 DEF ResolveTable
  <2>2. ResolvePhysical(m, The(physical)).outcome = "target" =>
          ~ ResolvePhysical(m, The(physical)).target.rewrite
    BY <1>1 DEF ResolvePhysical, Resolved
  <2> QED BY <2>1, <2>2
<1>4. logical # {}
  <2> SUFFICES ASSUME logical = {} PROVE FALSE
    OBVIOUS
  <2>1. got = ResolveUnknown(m, t)
    BY <1>2, <1>3 DEF ResolveTable
  <2>2. ResolveUnknown(m, t).outcome # "target"
    BY <1>1 DEF ResolveUnknown
  <2> QED BY <2>1, <2>2
<1> DEFINE l == The(logical)
           rules == EnabledRules(m, l.name)
           values == ExtractedValues(m, l, sql, t, ctx)
           missing == MissingFactors(m, l, sql, t, ctx)
           u == The(rules)
<1>5. got = ResolveLogical(m, l, sql, t, ctx) /\ l \in logical
  BY <1>2, <1>3, <1>4, TheIsMember DEF ResolveTable
<1>6. ~ Multiple(rules) /\ rules # {}
  <2>1. Multiple(rules) => got = Raised
    BY <1>5 DEF ResolveLogical, Multiple
  <2>2. ~ Multiple(rules) /\ rules = {} => got = Rejected("ROUTE_RULE_NOT_FOUND")
    BY <1>5 DEF ResolveLogical
  <2> QED BY <2>1, <2>2, <1>1
<1>7. missing = {} /\ values \in DOMAIN u.eval
  <2>1. missing # {} => got = Rejected("MISSING_ROUTE_FACTOR")
    BY <1>5, <1>6 DEF ResolveLogical
  <2>2. missing = {} /\ values \notin DOMAIN u.eval => got = Raised
    BY <1>5, <1>6 DEF ResolveLogical
  <2> QED BY <2>1, <2>2, <1>1
<1>8. got = ResolveRoute(m, l, u.eval[values])
  BY <1>5, <1>6, <1>7 DEF ResolveLogical
<1>9. u \in EnabledRules(m, l.name)
  BY <1>6, TheIsMember
<1> HIDE DEF got, l, u, values, rules, missing, logical
<1>10. ASSUME NEW value, ResolveRoute(m, l, value).outcome = "target"
       PROVE  /\ ResolveRoute(m, l, value).target.value = value
              /\ \E p \in EnabledByRouteValue(m, l.name, value) :
                   /\ p.physical = ResolveRoute(m, l, value).target.physical
                   /\ p.ds = ResolveRoute(m, l, value).target.ds
  <2> DEFINE routes == EnabledByRouteValue(m, l.name, value)
             route == The(routes)
  <2>1. routes # {} /\ ~ Multiple(routes)
    BY <1>1, <1>10 DEF ResolveRoute
  <2>2. ResolveRoute(m, l, value) =
          IF route.ds \notin m.datasources THEN Rejected("DATASOURCE_NOT_FOUND")
          ELSE Resolved([logical |-> l.name, physical |-> route.physical, ds |-> route.ds,
                         value |-> value, rewrite |-> TRUE])
    BY <2>1 DEF ResolveRoute
  <2>3. route \in routes
    BY <2>1, TheIsMember
  <2> HIDE DEF route, routes
  <2>4. ResolveRoute(m, l, value) =
          Resolved([logical |-> l.name, physical |-> route.physical, ds |-> route.ds,
                    value |-> value, rewrite |-> TRUE])
    BY <2>2, <1>1, <1>10
  <2>5. /\ ResolveRoute(m, l, value).target.value = value
        /\ ResolveRoute(m, l, value).target.physical = route.physical
        /\ ResolveRoute(m, l, value).target.ds = route.ds
    BY <2>4 DEF Resolved
  <2> QED BY <2>3, <2>5 DEF routes
<1>11. /\ got.target.value = u.eval[values]
       /\ \E p \in EnabledByRouteValue(m, l.name, got.target.value) :
            p.physical = got.target.physical /\ p.ds = got.target.ds
  <2>1. got.outcome = "target"
    BY DEF got
  <2> QED BY <2>1, <1>8, <1>10, Zenon
<1> QED
  BY <1>5, <1>7, <1>9, <1>11 DEF got, l, u, values, missing, logical
=============================================================================
