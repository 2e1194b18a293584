---------------------------- MODULE SqlFilters ----------------------------
(***************************************************************************)
(* The safety checks that run once every table has a target:               *)
(* services/filter_chain.py and services/explain.py.                       *)
(*                                                                         *)
(* A policy is a record of the columns of policy_set. An EXPLAIN answer is *)
(* a sequence of rows [access, rows, temporary, filesort], one per table   *)
(* MySQL reads, in the order it reads them.                                *)
(***************************************************************************)
EXTENDS CheckChain

DatasourcesOf(targets) == {targets[i].ds : i \in DOMAIN targets}

(* Every filter but the last, in the order SqlCheckService lists them.     *)
(* PolicyLoadFilter always loads "default_select_guard", the row m.policy. *)
FilterVerdict(m, sql, targets) ==
  FirstBlock(<<
    Check(~m.policy.enabled, "POLICY_NOT_FOUND"),
    Check(~(DatasourcesOf(targets) \subseteq m.datasources), "DATASOURCE_NOT_FOUND"),
    Check(sql.type \notin m.policy.types, "SQL_TYPE_DENIED"),
    Check(\E a, b \in DatasourcesOf(targets) : a # b, "CROSS_DATASOURCE_JOIN"),
    Check(m.policy.requireLimit /\ ~sql.hasLimit, "LIMIT_REQUIRED"),
    Check(sql.hasLimit /\ sql.limit > m.policy.maxLimit, "LIMIT_EXCEEDED") >>)

(* ExplainRiskEvaluator.evaluate: the plan is judged by its first row; the *)
(* size of the table comes from information_schema or from count( * ).     *)
ExplainVerdict(policy, tableRows, plan) ==
  LET first == plan[1]
  IN IF plan = <<>> THEN "EXPLAIN_EMPTY"
     ELSE FirstBlock(<<
       Check(first.rows > policy.maxScanRows, "EXPLAIN_SCAN_ROWS_EXCEEDED"),
       Check(/\ policy.rejectFullScan
             /\ first.access = "ALL"
             /\ tableRows >= policy.largeTableRows, "FULL_SCAN_ON_LARGE_TABLE"),
       Check(policy.rejectTemporary /\ first.temporary, "USING_TEMPORARY"),
       Check(policy.rejectFilesort /\ first.filesort, "USING_FILESORT") >>)

(* What an approval says of the plan, its first row. *)
PlanPassed(policy, plan) ==
  /\ plan # <<>>
  /\ ~(plan[1].rows > policy.maxScanRows)
  /\ policy.rejectTemporary => ~plan[1].temporary
  /\ policy.rejectFilesort => ~plan[1].filesort

FilterReason ==
  {"POLICY_NOT_FOUND", "DATASOURCE_NOT_FOUND", "SQL_TYPE_DENIED", "CROSS_DATASOURCE_JOIN",
   "LIMIT_REQUIRED", "LIMIT_EXCEEDED"}

ExplainReason ==
  {"EXPLAIN_EMPTY", "EXPLAIN_SCAN_ROWS_EXCEEDED", "FULL_SCAN_ON_LARGE_TABLE",
   "USING_TEMPORARY", "USING_FILESORT"}

(* A row of policy_set. *)
PolicyType ==
  [enabled : BOOLEAN, types : SUBSET STRING, requireLimit : BOOLEAN, maxLimit : Nat,
   maxScanRows : Nat, largeTableRows : Nat, rejectFullScan : BOOLEAN,
   rejectTemporary : BOOLEAN, rejectFilesort : BOOLEAN]
=============================================================================
