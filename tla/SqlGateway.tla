---------------------------- MODULE SqlGateway ----------------------------
(***************************************************************************)
(* The SQL endpoints of api/routes.py: check_sql and execute_sql, each     *)
(* request handled by a thread of its own from guard to audit row, while   *)
(* other sessions commit metadata, the databases fail and the process      *)
(* crashes.                                                                *)
(*                                                                         *)
(* A handler keeps one SQLAlchemy session on the metadata database. Its    *)
(* first SELECT takes a connection of the pool and, at MySQL's REPEATABLE  *)
(* READ, fixes the view every later SELECT of the session reads (snap);    *)
(* the connection goes back when the session commits or is left.           *)
(***************************************************************************)
EXTENDS SqlRouting, SqlFilters

CONSTANTS
  Request,       \* the handler invocations, each used once
  Call,          \* what clients send: [endpoint, sql, ctx]
  MetaVersion,   \* the contents the metadata tables may have
  Plan,          \* the EXPLAIN answers MySQL may give, sequences of rows
  TableRows,     \* the table sizes it may report
  ResultRows,    \* the sizes of a statement's result
  PoolSize,      \* connections of the metadata engine's pool
  None           \* nothing here (yet)

Endpoint == {"check", "execute"}
GuardReason ==
  {"EMPTY_SQL", "MULTI_STATEMENT", "LEADING_COMMENT", "SQL_TYPE_DENIED", "UNSUPPORTED_SQL"}
ExecuteReason ==
  {"CROSS_DATASOURCE_UNSUPPORTED", "DATASOURCE_NOT_FOUND", "POLICY_NOT_FOUND",
   "RESULT_ROWS_EXCEEDED", "EXECUTED"}
Reason == {"ALLOW", "EXCEPTION"} \union GuardReason \union RouteReason \union FilterReason
            \union ExplainReason \union ExecuteReason
DecisionRecord == [allowed : BOOLEAN, reason : Reason]
ResultRecord == [allowed : BOOLEAN, reason : Reason, rows : Nat]
ExplainRecord == [ds : STRING, stmt : Seq(STRING), plan : Plan]
RunRecord == [ds : STRING, stmt : Seq(STRING), cap : Nat, size : Nat]
AuditRecord == [decision : {"ALLOW", "REJECT", "EXECUTED"}, reason : Reason,
                stmt : Seq(STRING), datasources : Seq(STRING)]
ReplyRecord == [status : {200, 500}, allowed : BOOLEAN, reason : Reason, rows : Nat]

(* Only metadata the tables' columns admit, only what the parser produces. *)
ASSUME CallAssumption ==
  \A c \in Call :
    /\ c.endpoint \in Endpoint
    /\ c.sql.guard \in GuardReason \union {"ALLOW"}
    /\ c.sql.type \in STRING
    /\ c.sql.tables \in Seq([name : STRING, alias : STRING \union {NoValue}])
    /\ c.sql.hasLimit \in BOOLEAN /\ c.sql.limit \in Nat

ASSUME MetaAssumption ==
  \A m \in MetaVersion : m.policy \in PolicyType /\ RoutingMetadataOK(m)

ASSUME BoundsAssumption ==
  PoolSize \in Nat \ {0} /\ TableRows \subseteq Nat /\ ResultRows \subseteq Nat

ASSUME NoneAssumption ==
  None \notin DecisionRecord \union ResultRecord \union ReplyRecord \union PolicyType
             \union MetaVersion \union Call \union {"ALLOW", "REJECT", "EXECUTED"}

VARIABLES
  meta,       \* the committed metadata
  pc,         \* where the handler of each request is
  call,       \* what it was sent
  snap,       \* the view its session reads, None when no view is open
  conn,       \* the requests whose session holds a pooled connection
  targets,    \* RouteDecision.targets, one per table resolved so far
  policy,     \* FilterContext.policy
  explained,  \* the EXPLAINs that passed: [ds, stmt, plan]
  decision,   \* CheckResult: [allowed, reason]
  result,     \* ExecuteResult: [allowed, reason, rows]
  ran,        \* the business statements MySQL ran: [ds, stmt, cap, size]
  audit,      \* the committed rows of request_audit_log, per request
  reply       \* what the client got

vars == <<meta, pc, call, snap, conn, targets, policy, explained, decision, result,
          ran, audit, reply>>

-----------------------------------------------------------------------------
(* The statement with the physical names at its table positions.           *)
Rewritten(r) ==
  [i \in DOMAIN targets[r] |->
     IF targets[r][i].rewrite THEN targets[r][i].physical ELSE call[r].sql.tables[i].name]

DatasourceCodes(r) == [i \in DOMAIN targets[r] |-> targets[r][i].ds]

(* What a SELECT of the session sees. *)
ViewReadCommitted(r) == meta    \* mutant: the isolation level READ COMMITTED
View(r) == snap[r]

(* log_execute once the executor ran, log_check otherwise. *)
LoggedDecision(r) ==
  CASE result[r] # None -> IF result[r].allowed THEN "EXECUTED" ELSE "REJECT"
    [] OTHER -> IF decision[r].allowed THEN "ALLOW" ELSE "REJECT"

\* mutants: log_check in every case; the reason code in the decision column
AuditRowOfCheck(r) ==
  [decision |-> IF decision[r].allowed THEN "ALLOW" ELSE "REJECT",
   reason |-> decision[r].reason, stmt |-> Rewritten(r), datasources |-> DatasourceCodes(r)]
AuditRowOfReason(r) ==
  [decision |-> decision[r].reason, reason |-> decision[r].reason, stmt |-> Rewritten(r),
   datasources |-> DatasourceCodes(r)]
AuditRow(r) ==
  [decision |-> LoggedDecision(r),
   reason |-> IF result[r] # None THEN result[r].reason ELSE decision[r].reason,
   stmt |-> Rewritten(r),
   datasources |-> DatasourceCodes(r)]

\* mutant: the response of execute_sql built from the check's result
AnswerOfCheck(r) ==
  [status |-> 200, allowed |-> decision[r].allowed, reason |-> decision[r].reason, rows |-> 0]
Answer(r) ==
  IF result[r] # None
  THEN [status |-> 200, allowed |-> result[r].allowed, reason |-> result[r].reason,
        rows |-> result[r].rows]
  ELSE [status |-> 200, allowed |-> decision[r].allowed, reason |-> decision[r].reason,
        rows |-> 0]

ServerError == [status |-> 500, allowed |-> FALSE, reason |-> "EXCEPTION", rows |-> 0]

-----------------------------------------------------------------------------
Init ==
  /\ meta \in MetaVersion
  /\ pc = [r \in Request |-> "idle"]
  /\ call = [r \in Request |-> None]
  /\ snap = [r \in Request |-> None]
  /\ conn = {}
  /\ targets = [r \in Request |-> <<>>]
  /\ policy = [r \in Request |-> None]
  /\ explained = [r \in Request |-> <<>>]
  /\ decision = [r \in Request |-> None]
  /\ result = [r \in Request |-> None]
  /\ ran = [r \in Request |-> <<>>]
  /\ audit = [r \in Request |-> <<>>]
  /\ reply = [r \in Request |-> None]

Goto(r, label) == pc' = [pc EXCEPT ![r] = label]
Decide(r, allowed, reason) ==
  decision' = [decision EXCEPT ![r] = [allowed |-> allowed, reason |-> reason]]
Finish(r, allowed, reason, rows) ==
  result' = [result EXCEPT ![r] = [allowed |-> allowed, reason |-> reason, rows |-> rows]]

(* The session is left: connection returned, open transaction rolled back. *)
AbandonSession(r) == UNCHANGED <<conn, snap>>    \* mutant: a session nobody closes
CloseSession(r) ==
  /\ conn' = conn \ {r}
  /\ snap' = [snap EXCEPT ![r] = None]

(* An exception leaves the handler: FastAPI answers 500.                   *)
Fail(r) ==
  /\ Goto(r, "failed")
  /\ CloseSession(r)
  /\ reply' = [reply EXCEPT ![r] = ServerError]

-----------------------------------------------------------------------------
(* A client calls one of the endpoints.                                    *)
Receive(r) ==
  /\ pc[r] = "idle"
  /\ \E c \in Call : call' = [call EXCEPT ![r] = c]
  /\ Goto(r, "guard")
  /\ UNCHANGED <<meta, snap, conn, targets, policy, explained, decision, result, ran,
                 audit, reply>>

(* BasicSqlGuard, the parser, and the check for a statement without        *)
(* tables: nothing of this needs the database.                             *)
Guard(r) ==
  /\ pc[r] = "guard"
  /\ LET sql == call[r].sql
         verdict == IF sql.guard # "ALLOW" THEN sql.guard
                    ELSE IF sql.tables = <<>> THEN "TABLE_NOT_FOUND" ELSE "ALLOW"
     IN IF verdict = "ALLOW"
        THEN Goto(r, "connect") /\ UNCHANGED decision
        ELSE Goto(r, "connectForAudit") /\ Decide(r, FALSE, verdict)
  /\ UNCHANGED <<meta, call, snap, conn, targets, policy, explained, result, ran, audit,
                 reply>>

(* The session's first SELECT: a connection of the pool, and the view.     *)
Connect(r) ==
  /\ pc[r] = "connect"
  /\ Cardinality(conn) < PoolSize
  /\ conn' = conn \union {r}
  /\ snap' = [snap EXCEPT ![r] = meta]
  /\ Goto(r, "route")
  /\ UNCHANGED <<meta, call, targets, policy, explained, decision, result, ran, audit, reply>>

(* A request rejected before any SELECT connects for its audit row.        *)
ConnectForAudit(r) ==
  /\ pc[r] = "connectForAudit"
  /\ Cardinality(conn) < PoolSize
  /\ conn' = conn \union {r}
  /\ Goto(r, "commit")
  /\ UNCHANGED <<meta, call, snap, targets, policy, explained, decision, result, ran,
                 audit, reply>>

(* QueuePool gives up waiting for a connection.                            *)
PoolTimeout(r) ==
  /\ pc[r] \in {"connect", "connectForAudit"}
  /\ Cardinality(conn) >= PoolSize
  /\ Fail(r)
  /\ UNCHANGED <<meta, call, targets, policy, explained, decision, result, ran, audit>>

(* One turn of the loop in RouteDecisionService.resolve: the next table.   *)
NextTable(r) == Len(targets[r]) + 1
Turn(r) == ResolveTable(View(r), call[r].sql, call[r].sql.tables[NextTable(r)], call[r].ctx)

RouteTarget(r) ==
  /\ pc[r] = "route" /\ Turn(r).outcome = "target"
  /\ targets' = [targets EXCEPT ![r] = Append(@, Turn(r).target)]
  /\ Goto(r, IF NextTable(r) = Len(call[r].sql.tables) THEN "filter" ELSE "route")
  /\ UNCHANGED <<meta, call, snap, conn, policy, explained, decision, result, ran, audit,
                 reply>>

RouteRejects(r) ==
  /\ pc[r] = "route" /\ Turn(r).outcome = "reject"
  /\ targets' = [targets EXCEPT ![r] = <<>>]
  /\ Decide(r, FALSE, Turn(r).reason)
  /\ Goto(r, "commit")
  /\ UNCHANGED <<meta, call, snap, conn, policy, explained, result, ran, audit, reply>>

RouteRetries(r) == FALSE    \* mutant: the exception swallowed and the lookup repeated
RouteRaises(r) ==
  /\ pc[r] = "route" /\ Turn(r).outcome = "raise"
  /\ Fail(r)
  /\ UNCHANGED <<meta, call, targets, policy, explained, decision, result, ran, audit>>

(* The filters that only read the metadata. PolicyLoadFilter leaves the    *)
(* policy in the context for ExplainRiskFilter.                            *)
Filter(r) ==
  /\ pc[r] = "filter"
  /\ LET m == View(r)
         verdict == FilterVerdict(m, call[r].sql, targets[r])
     IN /\ policy' = [policy EXCEPT ![r] = IF m.policy.enabled THEN m.policy ELSE None]
        /\ IF verdict = "ALLOW"
           THEN Goto(r, "explain") /\ UNCHANGED decision
           ELSE Goto(r, "commit") /\ Decide(r, FALSE, verdict)
  /\ UNCHANGED <<meta, call, snap, conn, targets, explained, result, ran, audit, reply>>

(* ExplainRiskFilter, one target per step: the target's size and the plan  *)
(* of the rewritten statement, on the target's datasource.                 *)
NextTarget(r) == Len(explained[r]) + 1

ExplainRejects(r) ==
  /\ pc[r] = "explain"
  /\ \E plan \in Plan, size \in TableRows :
       LET verdict == ExplainVerdict(policy[r], size, plan)
       IN verdict # "ALLOW" /\ Decide(r, FALSE, verdict)
  /\ Goto(r, "commit")
  /\ UNCHANGED <<meta, call, snap, conn, targets, policy, explained, result, ran, audit,
                 reply>>

\* mutant: the chain approves after the first target
ExplainPassesFirst(r) ==
  /\ pc[r] = "explain"
  /\ \E plan \in Plan, size \in TableRows :
       /\ ExplainVerdict(policy[r], size, plan) = "ALLOW"
       /\ explained' = [explained EXCEPT ![r] = Append(@,
            [ds |-> targets[r][NextTarget(r)].ds, stmt |-> Rewritten(r), plan |-> plan])]
  /\ Decide(r, TRUE, "ALLOW")
  /\ Goto(r, IF call[r].endpoint = "execute" THEN "execute" ELSE "commit")
  /\ UNCHANGED <<meta, call, snap, conn, targets, policy, result, ran, audit, reply>>

ExplainPasses(r) ==
  /\ pc[r] = "explain"
  /\ \E plan \in Plan, size \in TableRows :
       /\ ExplainVerdict(policy[r], size, plan) = "ALLOW"
       /\ explained' = [explained EXCEPT ![r] = Append(@,
            [ds |-> targets[r][NextTarget(r)].ds, stmt |-> Rewritten(r), plan |-> plan])]
  /\ IF NextTarget(r) < Len(targets[r])
     THEN Goto(r, "explain") /\ UNCHANGED decision
     ELSE /\ Decide(r, TRUE, "ALLOW")
          /\ Goto(r, IF call[r].endpoint = "execute" THEN "execute" ELSE "commit")
  /\ UNCHANGED <<meta, call, snap, conn, targets, policy, result, ran, audit, reply>>

(* SqlExecutionService.execute reads the datasource and the policy again   *)
(* before it runs anything.                                                *)
RecheckVerdict(r) ==
  FirstBlock(<<
    Check(\E a, b \in DatasourcesOf(targets[r]) : a # b, "CROSS_DATASOURCE_UNSUPPORTED"),
    Check(~(DatasourcesOf(targets[r]) \subseteq View(r).datasources), "DATASOURCE_NOT_FOUND"),
    Check(~View(r).policy.enabled, "POLICY_NOT_FOUND") >>)

(* _fetch_rows: the statement runs, whatever comes of it; size is what it  *)
(* would return in full.                                                   *)
\* mutant: the statement as the client wrote it
RunOriginal(r, size) ==
  ran' = [ran EXCEPT ![r] = Append(@,
           [ds |-> targets[r][1].ds, cap |-> View(r).policy.maxLimit, size |-> size,
            stmt |-> [i \in DOMAIN targets[r] |-> call[r].sql.tables[i].name]])]
RunStatement(r, size) ==
  ran' = [ran EXCEPT ![r] = Append(@,
           [ds |-> targets[r][1].ds, cap |-> View(r).policy.maxLimit, size |-> size,
            stmt |-> Rewritten(r)])]

(* fetchmany(max_limit + 1), then more than max_limit rows are refused.    *)
FetchedToLimit(size, cap) == IF size > cap THEN cap ELSE size    \* mutant: fetchmany(max_limit)
Fetched(size, cap) == IF size > cap + 1 THEN cap + 1 ELSE size
TooManyOffByOne(fetched, cap) == fetched > cap + 1    \* mutant
TooMany(fetched, cap) == fetched > cap

Execute(r) ==
  /\ pc[r] = "execute"
  /\ IF RecheckVerdict(r) # "ALLOW"
     THEN Finish(r, FALSE, RecheckVerdict(r), 0) /\ UNCHANGED ran
     ELSE \E size \in ResultRows :
            LET cap     == View(r).policy.maxLimit
                fetched == Fetched(size, cap)
            IN /\ RunStatement(r, size)
               /\ IF TooMany(fetched, cap)
                  THEN Finish(r, FALSE, "RESULT_ROWS_EXCEEDED", 0)
                  ELSE Finish(r, TRUE, "EXECUTED", fetched)
  /\ Goto(r, "commit")
  /\ UNCHANGED <<meta, call, snap, conn, targets, policy, explained, decision, audit, reply>>

(* The statement ran and the connection broke before its rows were read.   *)
ExecuteBreaks(r) ==
  /\ pc[r] = "execute"
  /\ RecheckVerdict(r) = "ALLOW"
  /\ \E size \in ResultRows : RunStatement(r, size)
  /\ Fail(r)
  /\ UNCHANGED <<meta, call, targets, policy, explained, decision, result, audit>>

(* The audit row is flushed and committed; leaving the session returns     *)
(* the connection.                                                         *)
Commit(r) ==
  /\ pc[r] = "commit"
  /\ audit' = [audit EXCEPT ![r] = Append(@, AuditRow(r))]
  /\ CloseSession(r)
  /\ Goto(r, "respond")
  /\ UNCHANGED <<meta, call, targets, policy, explained, decision, result, ran, reply>>

(* The commit took effect and its acknowledgement was lost.                *)
\* mutant: the commit is tried again
CommitRetried(r) ==
  /\ pc[r] = "commit"
  /\ Len(audit[r]) < 2
  /\ audit' = [audit EXCEPT ![r] = Append(@, AuditRow(r))]
  /\ UNCHANGED <<meta, pc, call, snap, conn, targets, policy, explained, decision, result, ran,
                 reply>>
CommitUnacknowledged(r) ==
  /\ pc[r] = "commit"
  /\ audit' = [audit EXCEPT ![r] = Append(@, AuditRow(r))]
  /\ Fail(r)
  /\ UNCHANGED <<meta, call, targets, policy, explained, decision, result, ran>>

Respond(r) ==
  /\ pc[r] = "respond"
  /\ reply' = [reply EXCEPT ![r] = Answer(r)]
  /\ Goto(r, "done")
  /\ UNCHANGED <<meta, call, snap, conn, targets, policy, explained, decision, result, ran,
                 audit>>

(* Rows the response model cannot serialize (a binary column).             *)
RespondBreaks(r) ==
  /\ pc[r] = "respond"
  /\ Answer(r).rows > 0
  /\ Fail(r)
  /\ UNCHANGED <<meta, call, targets, policy, explained, decision, result, ran, audit>>

(* A database error, before or instead of the step's effect: nothing of    *)
(* the session is committed.                                               *)
DatabaseError(r) ==
  /\ pc[r] \in {"connect", "connectForAudit", "route", "filter", "explain", "execute", "commit"}
  /\ Fail(r)
  /\ UNCHANGED <<meta, call, targets, policy, explained, decision, result, ran, audit>>

-----------------------------------------------------------------------------
InFlight(r) == pc[r] \notin {"idle", "done", "failed", "lost"}

(* The process dies with every handler in it; the metadata database rolls  *)
(* the open transactions back. It is restarted with an empty pool.         *)
Crash ==
  /\ \E r \in Request : InFlight(r)
  /\ pc' = [r \in Request |-> IF InFlight(r) THEN "lost" ELSE pc[r]]
  /\ conn' = {}
  /\ snap' = [r \in Request |-> None]
  /\ UNCHANGED <<meta, call, targets, policy, explained, decision, result, ran, audit, reply>>

(* Another session (the table-config sync, the bootstrap, an operator)     *)
(* commits metadata.                                                       *)
CommitMetadata ==
  /\ \E m \in MetaVersion \ {meta} : meta' = m
  /\ UNCHANGED <<pc, call, snap, conn, targets, policy, explained, decision, result, ran,
                 audit, reply>>

(* The handler's thread at work.                                           *)
Handle(r) ==
  \/ Guard(r) \/ Connect(r) \/ ConnectForAudit(r) \/ PoolTimeout(r)
  \/ RouteTarget(r) \/ RouteRejects(r) \/ RouteRaises(r) \/ Filter(r)
  \/ ExplainRejects(r) \/ ExplainPasses(r) \/ Execute(r) \/ Commit(r) \/ Respond(r)

(* What goes wrong around it.                                              *)
Break(r) ==
  ExecuteBreaks(r) \/ CommitUnacknowledged(r) \/ RespondBreaks(r) \/ DatabaseError(r)

Next ==
  \/ \E r \in Request : Receive(r) \/ Handle(r) \/ Break(r)
  \/ Crash
  \/ CommitMetadata

Spec == Init /\ [][Next]_vars

(* A handler's thread is scheduled until its request is over.              *)
FairSpec == Spec /\ \A r \in Request : WF_vars(Handle(r))

-----------------------------------------------------------------------------
(* Properties.                                                             *)

(* Every variable holds values of its kind in every reachable state.       *)
TypeOK ==
  /\ meta \in MetaVersion
  /\ pc \in [Request -> {"idle", "guard", "connect", "connectForAudit", "route", "filter",
                         "explain", "execute", "commit", "respond", "done", "failed", "lost"}]
  /\ call \in [Request -> Call \union {None}]
  /\ snap \in [Request -> MetaVersion \union {None}]
  /\ conn \subseteq Request
  /\ targets \in [Request -> Seq(TargetRecord)]
  /\ policy \in [Request -> PolicyType \union {None}]
  /\ explained \in [Request -> Seq(ExplainRecord)]
  /\ decision \in [Request -> DecisionRecord \union {None}]
  /\ result \in [Request -> ResultRecord \union {None}]
  /\ ran \in [Request -> Seq(RunRecord)]
  /\ audit \in [Request -> Seq(AuditRecord)]
  /\ reply \in [Request -> ReplyRecord \union {None}]

(* A client that got a decision can find it in the audit log: exactly one  *)
(* row, of the same verdict and reason, committed before the answer; rows  *)
(* of data leave only under a row that says EXECUTED.                      *)
AnswerIsAudited ==
  \A r \in Request :
    reply[r] # None /\ reply[r].status = 200 =>
      /\ Len(audit[r]) = 1
      /\ audit[r][1].reason = reply[r].reason
      /\ reply[r].allowed <=> audit[r][1].decision # "REJECT"
      /\ call[r].endpoint = "check" => audit[r][1].decision # "EXECUTED"
      /\ reply[r].rows > 0 => audit[r][1].decision = "EXECUTED"

(* An audit row is not a claim: EXECUTED means that MySQL ran the very     *)
(* statement the row shows, once, on the datasource it shows - also when   *)
(* the client was then told of a failure; ALLOW means that nothing ran,    *)
(* and so does REJECT unless the rows were too many.                       *)
AuditTellsTheTruth ==
  \A r \in Request : \A i \in DOMAIN audit[r] :
    LET row == audit[r][i]
    IN /\ row.decision = "EXECUTED" =>
            /\ Len(ran[r]) = 1
            /\ ran[r][1].stmt = row.stmt
            /\ \A j \in DOMAIN row.datasources : row.datasources[j] = ran[r][1].ds
       /\ row.decision = "ALLOW" => ran[r] = <<>>
       /\ row.decision = "REJECT" /\ ran[r] # <<>> => row.reason = "RESULT_ROWS_EXCEEDED"

(* What runs is what was checked: once, for an execute request only, the   *)
(* statement whose plan passed for every table it names, on the one        *)
(* datasource where it was explained, under the policy that judged it.     *)
(* The handler reads the policy twice, any number of EXPLAINs apart.       *)
RunIsWhatWasChecked ==
  \A r \in Request : ran[r] # <<>> =>
    /\ Len(ran[r]) = 1
    /\ call[r].endpoint = "execute"
    /\ Len(explained[r]) = Len(call[r].sql.tables)
    /\ \A i \in DOMAIN explained[r] :
         /\ explained[r][i].stmt = ran[r][1].stmt
         /\ explained[r][i].ds = ran[r][1].ds
         /\ PlanPassed(policy[r], explained[r][i].plan)
    /\ policy[r] # None
    /\ ran[r][1].cap = policy[r].maxLimit

(* The executor's second look at the datasource and the policy never turns *)
(* an approved request down: it reads the view the approval was made on.   *)
ApprovalStands ==
  \A r \in Request : result[r] # None => result[r].reason \in {"EXECUTED", "RESULT_ROWS_EXCEEDED"}

(* Whatever the statement says of LIMIT, a client never gets more rows     *)
(* than the policy that approved it allows.                                *)
RowsAreBounded ==
  \A r \in Request :
    reply[r] # None /\ reply[r].rows > 0 => reply[r].rows <= policy[r].maxLimit

(* Data is never cut short in silence: the answer to an execute request    *)
(* that was allowed has every row of the statement's result.               *)
NothingIsTruncated ==
  \A r \in Request :
    reply[r] # None /\ reply[r].allowed /\ call[r].endpoint = "execute" =>
      ran[r] # <<>> /\ reply[r].rows = ran[r][1].size

(* A session holds a connection exactly while it is open: no path out of   *)
(* a handler leaks one, and the pool is never overdrawn.                   *)
PoolIsSound ==
  /\ Cardinality(conn) <= PoolSize
  /\ \A r \in Request :
       /\ r \in conn <=> pc[r] \in {"route", "filter", "explain", "execute", "commit"}
       /\ snap[r] # None => r \in conn

(* The abstract promise, under the mapping of what ran, what is logged and *)
(* what the client can conclude from its answer.                           *)
Conclusion(r) ==
  CASE reply[r] = None -> None
    [] reply[r] # None /\ reply[r].status = 500 -> "FAILED"
    [] OTHER -> IF ~reply[r].allowed THEN "REJECT"
                ELSE IF call[r].endpoint = "execute" THEN "EXECUTED" ELSE "ALLOW"

Gate == INSTANCE AuditedGate WITH
  Nothing <- None,
  touched <- {r \in Request : ran[r] # <<>>},
  log     <- [r \in Request |-> IF audit[r] = <<>> THEN None ELSE audit[r][1].decision],
  told    <- [r \in Request |-> Conclusion(r)]

(* Every step of the gateway is a step of AuditedGate or changes nothing   *)
(* it speaks of.                                                           *)
GateSpec == Gate!Spec

(* Once a statement ran its request is over with that one run: no retry,   *)
(* no second commit, whatever fails.                                       *)
OnceOnly ==
  [][\A r \in Request :
       /\ ran[r] # <<>> => ran'[r] = ran[r]
       /\ audit[r] # <<>> => audit'[r] = audit[r]]_vars

(* A request that arrived is answered or is lost with the process, also    *)
(* when every connection of the pool is taken.                             *)
EveryRequestEnds ==
  \A r \in Request : pc[r] = "guard" ~> pc[r] \in {"done", "failed", "lost"}

(* Every connection taken from the pool goes back.                         *)
ConnectionsReturn == \A r \in Request : r \in conn ~> r \notin conn

(* README.md: "audit every request"; ROADMAP.md: "Auditing should record   *)
(* both allowed and rejected requests". Here: a finished request whose     *)
(* statement ran left a row.                                               *)
EveryRunIsAudited ==
  \A r \in Request : ran[r] # <<>> /\ ~InFlight(r) => audit[r] # <<>>

(* README.md: "SQL Gatekeeper currently blocks: EXPLAIN plans that exceed  *)
(* scan thresholds". Here: no row of a plan of a statement that ran is     *)
(* above the threshold.                                                    *)
EveryPlanRowIsBounded ==
  \A r \in Request : ran[r] # <<>> =>
    \A i \in DOMAIN explained[r] : \A j \in DOMAIN explained[r][i].plan :
      explained[r][i].plan[j].rows <= policy[r].maxScanRows

-----------------------------------------------------------------------------
(* The inductive invariant the proofs rest on, request by request.         *)

NotRouted == {"idle", "guard", "connect", "connectForAudit"}
Connected == {"route", "filter", "explain", "execute", "commit"}
Over == {"done", "failed", "lost"}

(* The session: who is connected, and who reads a view. *)
SessionInv(r) ==
  /\ pc[r] # "idle" => call[r] \in Call
  /\ r \in conn <=> pc[r] \in Connected
  /\ pc[r] \in Connected \ {"commit"} => snap[r] \in MetaVersion
  /\ snap[r] # None => r \in conn

(* How far routing is: one target per table before anything is filtered.   *)
RouteInv(r) ==
  /\ pc[r] \in NotRouted => targets[r] = <<>>
  /\ pc[r] # "idle" => Len(targets[r]) <= Len(call[r].sql.tables)
  /\ pc[r] = "connect" => call[r].sql.tables # <<>>
  /\ pc[r] = "route" => Len(targets[r]) < Len(call[r].sql.tables)
  /\ pc[r] \in {"filter", "explain", "execute"} =>
       targets[r] # <<>> /\ Len(targets[r]) = Len(call[r].sql.tables)

(* What the filters established, and it still stands on the same view.     *)
FilterInv(r) ==
  /\ pc[r] \in {"explain", "execute"} =>
       /\ policy[r] = snap[r].policy /\ snap[r].policy.enabled
       /\ DatasourcesOf(targets[r]) \subseteq snap[r].datasources
       /\ \A i, j \in DOMAIN targets[r] : targets[r][i].ds = targets[r][j].ds
  /\ pc[r] \in NotRouted \union {"route", "filter"} => explained[r] = <<>>
  /\ \A i \in DOMAIN explained[r] :
       /\ i \in DOMAIN targets[r]
       /\ explained[r][i].ds = targets[r][i].ds
       /\ explained[r][i].stmt = Rewritten(r)
       /\ PlanPassed(policy[r], explained[r][i].plan)
  /\ pc[r] = "explain" => Len(explained[r]) < Len(targets[r])
  /\ pc[r] = "execute" => Len(explained[r]) = Len(targets[r])

DecisionInv(r) ==
  /\ pc[r] \in {"idle", "guard", "connect", "route", "filter", "explain"} => decision[r] = None
  /\ pc[r] \in {"connectForAudit", "execute", "commit", "respond", "done"} => decision[r] # None
  /\ pc[r] = "connectForAudit" => ~decision[r].allowed
  /\ pc[r] = "execute" => decision[r].allowed /\ call[r].endpoint = "execute"
  /\ result[r] # None => decision[r] # None
  /\ pc[r] \in {"commit", "respond", "done"} /\ result[r] = None =>
       ran[r] = <<>> /\ (decision[r].allowed => call[r].endpoint = "check")

(* A run happened once, late, and on what was approved.                    *)
RunInv(r) ==
  /\ ran[r] # <<>> =>
       /\ pc[r] \in {"commit", "respond"} \union Over
       /\ Len(ran[r]) = 1
       /\ call[r].endpoint = "execute"
       /\ targets[r] # <<>>
       /\ Len(explained[r]) = Len(targets[r])
       /\ Len(explained[r]) = Len(call[r].sql.tables)
       /\ ran[r][1].stmt = Rewritten(r)
       /\ \A i \in DOMAIN targets[r] : targets[r][i].ds = ran[r][1].ds
       /\ policy[r] # None
       /\ ran[r][1].cap = policy[r].maxLimit
  /\ result[r] # None =>
       /\ ran[r] # <<>>
       /\ \/ /\ result[r].allowed /\ result[r].reason = "EXECUTED"
             /\ result[r].rows = ran[r][1].size /\ result[r].rows <= ran[r][1].cap
          \/ /\ ~result[r].allowed /\ result[r].reason = "RESULT_ROWS_EXCEEDED"
             /\ result[r].rows = 0

AuditInv(r) ==
  /\ audit[r] # <<>> =>
       /\ audit[r] = <<AuditRow(r)>>
       /\ pc[r] \in {"respond"} \union Over
       /\ decision[r] # None
       /\ result[r] = None =>
            ran[r] = <<>> /\ (decision[r].allowed => call[r].endpoint = "check")
  /\ pc[r] \in {"respond", "done"} => audit[r] # <<>>

ReplyInv(r) ==
  /\ pc[r] = "done" => reply[r] = Answer(r)
  /\ pc[r] = "failed" => reply[r] = ServerError
  /\ pc[r] \notin {"done", "failed"} => reply[r] = None

RequestInv(r) ==
  /\ SessionInv(r) /\ RouteInv(r) /\ FilterInv(r) /\ DecisionInv(r)
  /\ RunInv(r) /\ AuditInv(r) /\ ReplyInv(r)

IInv == TypeOK /\ \A r \in Request : RequestInv(r)
=============================================================================
