------------------------- MODULE SqlGatewayProofs -------------------------
(***************************************************************************)
(* Theorems about SqlGateway for any number of requests, any calls, any    *)
(* metadata, any plans and any pool.                                       *)
(*                                                                         *)
(* IInv is inductive: one lemma per action. An action of request r leaves  *)
(* every other request as it was (Frame), so each lemma shows the types    *)
(* and then the parts of RequestInv(r) the action can disturb.  The last   *)
(* part is the refinement of AuditedGate.                                  *)
(***************************************************************************)
EXTENDS SqlGateway, SqlCheckProofs, FiniteSetTheorems

(* Nothing of request q changes. *)
Same(q) ==
  /\ pc'[q] = pc[q] /\ call'[q] = call[q] /\ snap'[q] = snap[q] /\ (q \in conn' <=> q \in conn)
  /\ targets'[q] = targets[q] /\ policy'[q] = policy[q] /\ explained'[q] = explained[q]
  /\ decision'[q] = decision[q] /\ result'[q] = result[q] /\ ran'[q] = ran[q]
  /\ audit'[q] = audit[q] /\ reply'[q] = reply[q]

(* The parts of RequestInv speak of one request only. *)
LEMMA Frame ==
  ASSUME NEW q \in Request, Same(q), RequestInv(q)
  PROVE  RequestInv(q)'
<1>1. Rewritten(q)' = Rewritten(q) /\ DatasourceCodes(q)' = DatasourceCodes(q)
  BY DEF Same, Rewritten, DatasourceCodes
<1>2. LoggedDecision(q)' = LoggedDecision(q)
  BY DEF Same, LoggedDecision
<1>3. AuditRow(q)' = AuditRow(q)
  BY <1>1, <1>2 DEF Same, AuditRow
<1>4. Answer(q)' = Answer(q)
  BY DEF Same, Answer
<1>5. SessionInv(q)'
  BY DEF Same, RequestInv, SessionInv
<1>6. RouteInv(q)'
  BY DEF Same, RequestInv, RouteInv
<1>7. FilterInv(q)'
  <2>1. DatasourcesOf(targets[q])' = DatasourcesOf(targets[q])
    BY DEF Same, DatasourcesOf
  <2>2. FilterInv(q)
    BY DEF RequestInv
  <2> QED BY <1>1, <2>1, <2>2 DEF Same, FilterInv
<1>8. DecisionInv(q)'
  BY DEF Same, RequestInv, DecisionInv
<1>9. RunInv(q)'
  BY <1>1 DEF Same, RequestInv, RunInv
<1>10. AuditInv(q)'
  BY <1>3 DEF Same, RequestInv, AuditInv
<1>11. ReplyInv(q)'
  BY <1>4 DEF Same, RequestInv, ReplyInv, ServerError
<1> QED BY <1>5, <1>6, <1>7, <1>8, <1>9, <1>10, <1>11 DEF RequestInv

LEMMA ElementOf ==
  ASSUME NEW S, NEW s \in Seq(S), NEW i \in DOMAIN s
  PROVE  s[i] \in S
OBVIOUS

(* What a handler writes into its records has the records' types. *)
LEMMA RewrittenType ==
  ASSUME NEW r \in Request, TypeOK, call[r] \in Call,
         Len(targets[r]) <= Len(call[r].sql.tables)
  PROVE  /\ Rewritten(r) \in Seq(STRING)
         /\ DatasourceCodes(r) \in Seq(STRING)
<1>1. targets[r] \in Seq(TargetRecord)
  BY DEF TypeOK
<1>2. call[r].sql.tables \in Seq([name : STRING, alias : STRING \union {NoValue}])
  BY CallAssumption
<1>3. ASSUME NEW i \in DOMAIN targets[r]
      PROVE  /\ targets[r][i].physical \in STRING /\ targets[r][i].ds \in STRING
             /\ call[r].sql.tables[i].name \in STRING
  <2>1. i \in DOMAIN call[r].sql.tables
    BY <1>1, <1>2
  <2>2. targets[r][i] \in TargetRecord
    BY <1>1, ElementOf
  <2>3. call[r].sql.tables[i] \in [name : STRING, alias : STRING \union {NoValue}]
    BY <1>2, <2>1, ElementOf, Zenon
  <2> QED BY <2>2, <2>3 DEF TargetRecord
<1> QED BY <1>1, <1>3 DEF Rewritten, DatasourceCodes

LEMMA InitInv == Init => IInv
<1> SUFFICES ASSUME Init PROVE IInv
  OBVIOUS
<1>1. TypeOK
  BY DEF Init, TypeOK
<1>2. ASSUME NEW r \in Request PROVE RequestInv(r)
  <2>1. /\ pc[r] = "idle" /\ snap[r] = None /\ r \notin conn /\ targets[r] = <<>>
        /\ explained[r] = <<>> /\ decision[r] = None /\ result[r] = None /\ ran[r] = <<>>
        /\ audit[r] = <<>> /\ reply[r] = None
    BY DEF Init
  <2> QED
    BY <2>1 DEF RequestInv, SessionInv, RouteInv, FilterInv, DecisionInv, RunInv, AuditInv,
                ReplyInv, NotRouted, Connected, Over
<1> QED BY <1>1, <1>2 DEF IInv

-----------------------------------------------------------------------------
(* A step of request r preserves IInv when it preserves the types and r's  *)
(* own part, and leaves the other requests alone.                          *)
LEMMA Lift ==
  ASSUME IInv, NEW r \in Request, TypeOK', \A q \in Request \ {r} : Same(q), RequestInv(r)'
  PROVE  IInv'
<1>1. ASSUME NEW q \in Request PROVE RequestInv(q)'
  <2>1. CASE q = r BY <2>1
  <2>2. CASE q # r
    <3>1. Same(q) /\ RequestInv(q) BY <2>2 DEF IInv
    <3> QED BY <3>1, Frame
  <2> QED BY <2>1, <2>2
<1> QED BY <1>1 DEF IInv

LEMMA ReceiveInv ==
  ASSUME IInv, NEW r \in Request, Receive(r)
  PROVE  IInv'
<1>1. TypeOK'
  BY DEF IInv, TypeOK, Receive, Goto
<1>2. \A q \in Request \ {r} : Same(q)
  BY DEF IInv, TypeOK, Receive, Goto, Same
<1>3. /\ pc[r] = "idle" /\ pc'[r] = "guard" /\ call'[r] \in Call
      /\ UNCHANGED <<snap[r], r \in conn, targets[r], explained[r], decision[r], result[r],
                     ran[r], audit[r], reply[r], policy[r]>>
  BY DEF IInv, TypeOK, Receive, Goto
<1>4. RequestInv(r)
  BY DEF IInv
<1>5. SessionInv(r)' /\ DecisionInv(r)' /\ RunInv(r)' /\ AuditInv(r)' /\ ReplyInv(r)'
  BY <1>3, <1>4 DEF RequestInv, SessionInv, RouteInv, FilterInv, DecisionInv, RunInv, AuditInv,
                ReplyInv, NotRouted, Connected, Over
<1>6. RouteInv(r)' /\ FilterInv(r)'
  BY <1>3, <1>4, CallAssumption DEF RequestInv, SessionInv, RouteInv, FilterInv, NotRouted
<1> QED BY <1>1, <1>2, <1>5, <1>6, Lift DEF RequestInv

LEMMA GuardInv ==
  ASSUME IInv, NEW r \in Request, Guard(r)
  PROVE  IInv'
<1> DEFINE verdict == IF call[r].sql.guard # "ALLOW" THEN call[r].sql.guard
                      ELSE IF call[r].sql.tables = <<>> THEN "TABLE_NOT_FOUND" ELSE "ALLOW"
<1>1. RequestInv(r) /\ TypeOK
  BY DEF IInv
<1>2. /\ pc[r] = "guard"
      /\ UNCHANGED <<meta, call, snap, conn, targets, policy, explained, result, ran, audit,
                     reply>>
      /\ \/ verdict = "ALLOW" /\ Goto(r, "connect") /\ UNCHANGED decision
         \/ verdict # "ALLOW" /\ Goto(r, "connectForAudit") /\ Decide(r, FALSE, verdict)
  BY DEF Guard
<1>3. call[r] \in Call
  BY <1>1, <1>2 DEF RequestInv, SessionInv
<1>4. verdict \in GuardReason \union {"ALLOW", "TABLE_NOT_FOUND"}
  BY <1>3, CallAssumption
<1>5. verdict = "ALLOW" => call[r].sql.tables # <<>>
  OBVIOUS
<1>6. verdict # "ALLOW" => [allowed |-> FALSE, reason |-> verdict] \in DecisionRecord
  BY <1>4 DEF DecisionRecord, Reason, RouteReason
<1> HIDE DEF verdict
<1>7. TypeOK'
  <2>1. CASE verdict = "ALLOW" /\ Goto(r, "connect") /\ UNCHANGED decision
    BY <1>1, <1>2, <2>1 DEF TypeOK, Goto
  <2>2. CASE verdict # "ALLOW" /\ Goto(r, "connectForAudit") /\ Decide(r, FALSE, verdict)
    BY <1>1, <1>2, <1>6, <2>2 DEF TypeOK, Goto, Decide
  <2> QED BY <1>2, <2>1, <2>2
<1>8. \A q \in Request \ {r} : Same(q)
  BY <1>1, <1>2 DEF TypeOK, Goto, Decide, Same
<1>9. \/ /\ pc'[r] = "connect" /\ decision'[r] = decision[r] /\ call[r].sql.tables # <<>>
      \/ /\ pc'[r] = "connectForAudit" /\ decision'[r] # None /\ ~decision'[r].allowed
  <2>1. verdict # "ALLOW" => [allowed |-> FALSE, reason |-> verdict] # None
    BY <1>6, NoneAssumption
  <2>2. CASE verdict = "ALLOW" /\ Goto(r, "connect") /\ UNCHANGED decision
    BY <1>1, <1>5, <2>2 DEF TypeOK, Goto
  <2>3. CASE verdict # "ALLOW" /\ Goto(r, "connectForAudit") /\ Decide(r, FALSE, verdict)
    <3>1. decision'[r] = [allowed |-> FALSE, reason |-> verdict]
      BY <1>1, <2>3 DEF TypeOK, Decide
    <3> QED BY <1>1, <2>1, <2>3, <3>1 DEF TypeOK, Goto
  <2> QED BY <1>2, <2>2, <2>3
<1>10. /\ targets[r] = <<>> /\ explained[r] = <<>> /\ ran[r] = <<>> /\ audit[r] = <<>>
       /\ decision[r] = None /\ result[r] = None /\ reply[r] = None /\ snap[r] = None
       /\ r \notin conn
  BY <1>1, <1>2 DEF RequestInv, SessionInv, RouteInv, FilterInv, DecisionInv, RunInv, AuditInv,
                ReplyInv, NotRouted, Connected, Over
<1>11. SessionInv(r)' /\ DecisionInv(r)' /\ RunInv(r)' /\ AuditInv(r)' /\ ReplyInv(r)'
  BY <1>2, <1>3, <1>9, <1>10 DEF SessionInv, DecisionInv, RunInv, AuditInv, ReplyInv,
                             Connected, Over
<1>12. RouteInv(r)' /\ FilterInv(r)'
  BY <1>1, <1>2, <1>9, <1>10 DEF RequestInv, RouteInv, FilterInv, NotRouted
<1> QED BY <1>1, <1>7, <1>8, <1>11, <1>12, Lift DEF IInv, RequestInv

LEMMA ConnectInv ==
  ASSUME IInv, NEW r \in Request, Connect(r) \/ ConnectForAudit(r)
  PROVE  IInv'
<1>1. RequestInv(r) /\ TypeOK
  BY DEF IInv
<1>2. TypeOK'
  <2>1. CASE Connect(r)
    BY <1>1, <2>1 DEF TypeOK, Connect, Goto
  <2>2. CASE ConnectForAudit(r)
    BY <1>1, <2>2 DEF TypeOK, ConnectForAudit, Goto
  <2> QED BY <2>1, <2>2
<1>3. \A q \in Request \ {r} : Same(q)
  BY <1>1 DEF TypeOK, Connect, ConnectForAudit, Goto, Same
<1>4. /\ UNCHANGED <<call[r], targets[r], explained[r], result[r], decision[r],
                     ran[r], audit[r], reply[r], policy[r]>>
      /\ r \in conn'
      /\ \/ pc[r] = "connect" /\ pc'[r] = "route" /\ snap'[r] \in MetaVersion
         \/ pc[r] = "connectForAudit" /\ pc'[r] = "commit" /\ snap'[r] = snap[r]
  BY <1>1 DEF TypeOK, Connect, ConnectForAudit, Goto
<1>5. /\ targets[r] = <<>> /\ explained[r] = <<>> /\ ran[r] = <<>> /\ audit[r] = <<>>
      /\ result[r] = None /\ reply[r] = None /\ snap[r] = None /\ call[r] \in Call
      /\ pc[r] = "connect" => decision[r] = None /\ call[r].sql.tables # <<>>
      /\ pc[r] = "connectForAudit" => decision[r] # None /\ ~decision[r].allowed
  BY <1>1, <1>4 DEF RequestInv, SessionInv, RouteInv, FilterInv, DecisionInv, RunInv, AuditInv,
                ReplyInv, NotRouted, Connected, Over
<1>6. SessionInv(r)' /\ DecisionInv(r)' /\ RunInv(r)' /\ AuditInv(r)' /\ ReplyInv(r)'
  BY <1>4, <1>5 DEF SessionInv, DecisionInv, RunInv, AuditInv, ReplyInv, Connected, Over
<1>7. RouteInv(r)' /\ FilterInv(r)'
  BY <1>1, <1>4, <1>5, CallAssumption DEF RequestInv, RouteInv, FilterInv, NotRouted
<1> QED BY <1>2, <1>3, <1>6, <1>7, Lift DEF RequestInv

(* A handler that fails keeps what it found; how far it had come is over.  *)
LEMMA FailInv ==
  ASSUME IInv, NEW r \in Request, Fail(r), pc[r] \notin {"idle", "done", "failed", "lost"},
         UNCHANGED <<meta, call, targets, policy, explained, decision, result>>,
         TypeOK', \A q \in Request \ {r} : ran'[q] = ran[q] /\ audit'[q] = audit[q],
         RunInv(r)', AuditInv(r)'
  PROVE  IInv'
<1>1. RequestInv(r) /\ TypeOK
  BY DEF IInv
<1>2. \A q \in Request \ {r} : Same(q)
  BY <1>1 DEF TypeOK, Fail, CloseSession, Goto, Same
<1>3. pc'[r] = "failed" /\ snap'[r] = None /\ r \notin conn' /\ reply'[r] = ServerError
  BY <1>1 DEF TypeOK, Fail, CloseSession, Goto
<1>4. SessionInv(r)' /\ DecisionInv(r)' /\ ReplyInv(r)'
  BY <1>1, <1>3 DEF RequestInv, SessionInv, DecisionInv, ReplyInv, Connected, ServerError
<1>5. RouteInv(r)'
  BY <1>1, <1>3 DEF RequestInv, RouteInv, NotRouted
<1>6. Rewritten(r)' = Rewritten(r)
  BY DEF Rewritten
<1>7. FilterInv(r)'
  BY <1>1, <1>3, <1>6 DEF RequestInv, FilterInv, NotRouted
<1> QED BY <1>2, <1>4, <1>5, <1>7, Lift DEF RequestInv

LEMMA ServerErrorType == ServerError \in ReplyRecord
BY DEF ServerError, ReplyRecord, Reason

(* Nothing ran and nothing was logged by the step that failed.             *)
LEMMA BareFailInv ==
  ASSUME IInv, NEW r \in Request, Fail(r), pc[r] \notin {"idle", "done", "failed", "lost"},
         UNCHANGED <<meta, call, targets, policy, explained, decision, result, ran, audit>>
  PROVE  IInv'
<1>1. RequestInv(r) /\ TypeOK
  BY DEF IInv
<1>2. TypeOK'
  BY <1>1, ServerErrorType DEF TypeOK, Fail, CloseSession, Goto
<1>3. pc'[r] = "failed"
  BY <1>1 DEF TypeOK, Fail, Goto
<1>4. Rewritten(r)' = Rewritten(r) /\ AuditRow(r)' = AuditRow(r)
  BY DEF Rewritten, AuditRow, DatasourceCodes, LoggedDecision
<1>5. RunInv(r)'
  BY <1>1, <1>3, <1>4 DEF RequestInv, RunInv, Over
<1>6. AuditInv(r)'
  BY <1>1, <1>3, <1>4 DEF RequestInv, AuditInv, Over
<1> QED BY <1>2, <1>5, <1>6, FailInv

LEMMA FailuresInv ==
  ASSUME IInv, NEW r \in Request,
         PoolTimeout(r) \/ RouteRaises(r) \/ RespondBreaks(r) \/ DatabaseError(r)
  PROVE  IInv'
<1>1. /\ Fail(r) /\ pc[r] \notin {"idle", "done", "failed", "lost"}
      /\ UNCHANGED <<meta, call, targets, policy, explained, decision, result, ran, audit>>
  BY DEF PoolTimeout, RouteRaises, RespondBreaks, DatabaseError
<1> QED BY <1>1, BareFailInv

-----------------------------------------------------------------------------
(* What is known of a request whose handler is before its commit.          *)
LEMMA NothingYet ==
  ASSUME NEW r \in Request, RequestInv(r), pc[r] \in {"route", "filter", "explain", "execute"}
  PROVE  /\ call[r] \in Call /\ snap[r] \in MetaVersion /\ r \in conn
         /\ ran[r] = <<>> /\ audit[r] = <<>> /\ result[r] = None /\ reply[r] = None
         /\ pc[r] # "execute" => decision[r] = None
BY DEF RequestInv, SessionInv, DecisionInv, RunInv, AuditInv, ReplyInv, Connected, Over

LEMMA RouteTargetInv ==
  ASSUME IInv, NEW r \in Request, RouteTarget(r)
  PROVE  IInv'
<1>1. RequestInv(r) /\ TypeOK /\ pc[r] = "route"
  BY DEF IInv, RouteTarget
<1>2. /\ call[r] \in Call /\ snap[r] \in MetaVersion /\ r \in conn
      /\ ran[r] = <<>> /\ audit[r] = <<>> /\ result[r] = None /\ reply[r] = None
      /\ decision[r] = None
  BY <1>1, NothingYet
<1>3. explained[r] = <<>> /\ Len(targets[r]) < Len(call[r].sql.tables)
  BY <1>1 DEF RequestInv, RouteInv, FilterInv
<1>4. targets[r] \in Seq(TargetRecord)
  BY <1>1 DEF TypeOK
<1>5. Turn(r).target \in TargetRecord
  <2>1. RoutingMetadataOK(snap[r])
    BY <1>2, MetaAssumption
  <2>2. Turn(r).outcome = "target"
    BY DEF RouteTarget
  <2> QED BY <2>1, <2>2, ResolveTableOutcome DEF Turn, View
<1>6. /\ targets' = [targets EXCEPT ![r] = Append(targets[r], Turn(r).target)]
      /\ \/ pc' = [pc EXCEPT ![r] = "filter"] /\ Len(targets[r]) + 1 = Len(call[r].sql.tables)
         \/ pc' = [pc EXCEPT ![r] = "route"] /\ Len(targets[r]) + 1 # Len(call[r].sql.tables)
      /\ UNCHANGED <<meta, call, snap, conn, policy, explained, decision, result, ran, audit,
                     reply>>
  BY DEF RouteTarget, Goto, NextTable
<1> DEFINE longer == Append(targets[r], Turn(r).target)
<1>7. longer \in Seq(TargetRecord) /\ Len(longer) = Len(targets[r]) + 1 /\ longer # <<>>
  BY <1>4, <1>5
<1>8. targets' = [targets EXCEPT ![r] = longer]
  BY <1>6
<1> HIDE DEF longer
<1>9. targets'[r] = longer
  BY <1>1, <1>8 DEF TypeOK
<1>10. TypeOK'
  BY <1>1, <1>6, <1>7, <1>8 DEF TypeOK
<1>11. \A q \in Request \ {r} : Same(q)
  BY <1>1, <1>6, <1>8 DEF TypeOK, Same
<1>12. pc'[r] \in {"filter", "route"}
  BY <1>1, <1>6 DEF TypeOK
<1>13. SessionInv(r)' /\ DecisionInv(r)' /\ RunInv(r)' /\ AuditInv(r)' /\ ReplyInv(r)'
  BY <1>2, <1>6, <1>12 DEF SessionInv, DecisionInv, RunInv, AuditInv, ReplyInv, Connected, Over
<1>14. RouteInv(r)'
  <2>1. Len(call[r].sql.tables) \in Nat
    BY <1>2, CallAssumption
  <2>2. Len(targets[r]) \in Nat
    BY <1>4
  <2>3. \/ pc'[r] = "filter" /\ Len(longer) = Len(call[r].sql.tables)
        \/ pc'[r] = "route" /\ Len(longer) < Len(call[r].sql.tables)
    BY <1>1, <1>3, <1>6, <1>7, <2>1, <2>2 DEF TypeOK
  <2> QED BY <1>6, <1>7, <1>9, <2>1, <2>3 DEF RouteInv, NotRouted
<1>15. FilterInv(r)'
  BY <1>3, <1>6, <1>12 DEF FilterInv, NotRouted
<1> QED BY <1>10, <1>11, <1>13, <1>14, <1>15, Lift DEF RequestInv

LEMMA RouteRejectsInv ==
  ASSUME IInv, NEW r \in Request, RouteRejects(r)
  PROVE  IInv'
<1>1. RequestInv(r) /\ TypeOK /\ pc[r] = "route"
  BY DEF IInv, RouteRejects
<1>2. /\ call[r] \in Call /\ snap[r] \in MetaVersion /\ r \in conn
      /\ ran[r] = <<>> /\ audit[r] = <<>> /\ result[r] = None /\ reply[r] = None
  BY <1>1, NothingYet
<1>3. explained[r] = <<>>
  BY <1>1 DEF RequestInv, FilterInv
<1> DEFINE verdict == [allowed |-> FALSE, reason |-> Turn(r).reason]
<1>4. verdict \in DecisionRecord
  <2>1. RoutingMetadataOK(snap[r])
    BY <1>2, MetaAssumption
  <2>2. Turn(r).outcome = "reject"
    BY DEF RouteRejects
  <2>3. Turn(r).reason \in RouteReason
    BY <2>1, <2>2, ResolveTableOutcome DEF Turn, View
  <2> QED BY <2>3 DEF DecisionRecord, Reason
<1>5. verdict # None /\ ~verdict.allowed
  BY <1>4, NoneAssumption
<1>6. /\ decision' = [decision EXCEPT ![r] = verdict]
      /\ targets' = [targets EXCEPT ![r] = <<>>]
      /\ pc' = [pc EXCEPT ![r] = "commit"]
      /\ UNCHANGED <<meta, call, snap, conn, policy, explained, result, ran, audit, reply>>
  BY DEF RouteRejects, Decide, Goto
<1> HIDE DEF verdict
<1>7. TypeOK'
  BY <1>1, <1>4, <1>6 DEF TypeOK
<1>8. \A q \in Request \ {r} : Same(q)
  BY <1>1, <1>6 DEF TypeOK, Same
<1>9. pc'[r] = "commit" /\ targets'[r] = <<>> /\ decision'[r] = verdict
  BY <1>1, <1>6 DEF TypeOK
<1>10. SessionInv(r)' /\ DecisionInv(r)' /\ RunInv(r)' /\ AuditInv(r)' /\ ReplyInv(r)'
  BY <1>2, <1>5, <1>6, <1>9 DEF SessionInv, DecisionInv, RunInv, AuditInv, ReplyInv,
                            Connected, Over
<1>11. RouteInv(r)' /\ FilterInv(r)'
  BY <1>2, <1>3, <1>6, <1>9, CallAssumption DEF RouteInv, FilterInv, NotRouted
<1> QED BY <1>7, <1>8, <1>10, <1>11, Lift DEF RequestInv

LEMMA FilterStepInv ==
  ASSUME IInv, NEW r \in Request, Filter(r)
  PROVE  IInv'
<1>1. RequestInv(r) /\ TypeOK /\ pc[r] = "filter"
  BY DEF IInv, Filter
<1>2. /\ call[r] \in Call /\ snap[r] \in MetaVersion /\ r \in conn
      /\ ran[r] = <<>> /\ audit[r] = <<>> /\ result[r] = None /\ reply[r] = None
      /\ decision[r] = None
  BY <1>1, NothingYet
<1>3. /\ explained[r] = <<>> /\ targets[r] # <<>>
      /\ Len(targets[r]) = Len(call[r].sql.tables) /\ targets[r] \in Seq(TargetRecord)
  BY <1>1 DEF RequestInv, RouteInv, FilterInv, TypeOK
<1> DEFINE loaded == IF snap[r].policy.enabled THEN snap[r].policy ELSE None
           verdict == FilterVerdict(snap[r], call[r].sql, targets[r])
           rejection == [allowed |-> FALSE, reason |-> verdict]
<1>4. loaded \in PolicyType \union {None}
  BY <1>2, MetaAssumption
<1>5. verdict \in FilterReason \union {"ALLOW"}
  BY FilterVerdictType
<1>6. verdict = "ALLOW" =>
        /\ loaded = snap[r].policy /\ snap[r].policy.enabled
        /\ DatasourcesOf(targets[r]) \subseteq snap[r].datasources
        /\ \A i, j \in DOMAIN targets[r] : targets[r][i].ds = targets[r][j].ds
  BY FilterVerdictIsAllow DEF DatasourcesOf
<1>7. rejection \in DecisionRecord
  BY <1>5 DEF DecisionRecord, Reason
<1>8. rejection # None /\ ~rejection.allowed
  BY <1>7, NoneAssumption
<1>9. /\ policy' = [policy EXCEPT ![r] = loaded]
      /\ \/ /\ verdict = "ALLOW" /\ pc' = [pc EXCEPT ![r] = "explain"] /\ UNCHANGED decision
         \/ /\ pc' = [pc EXCEPT ![r] = "commit"]
            /\ decision' = [decision EXCEPT ![r] = rejection]
      /\ UNCHANGED <<meta, call, snap, conn, targets, explained, result, ran, audit, reply>>
  BY DEF Filter, View, Goto, Decide
<1> HIDE DEF loaded, verdict, rejection
<1>10. TypeOK'
  <2>1. CASE pc' = [pc EXCEPT ![r] = "explain"] /\ UNCHANGED decision
    BY <1>1, <1>4, <1>9, <2>1 DEF TypeOK
  <2>2. CASE /\ pc' = [pc EXCEPT ![r] = "commit"]
             /\ decision' = [decision EXCEPT ![r] = rejection]
    BY <1>1, <1>4, <1>7, <1>9, <2>2 DEF TypeOK
  <2> QED BY <1>9, <2>1, <2>2
<1>11. \A q \in Request \ {r} : Same(q)
  BY <1>1, <1>9 DEF TypeOK, Same
<1>12. /\ policy'[r] = loaded
       /\ \/ pc'[r] = "explain" /\ verdict = "ALLOW" /\ decision'[r] = None
          \/ pc'[r] = "commit" /\ decision'[r] = rejection
  BY <1>1, <1>2, <1>9 DEF TypeOK
<1>13. SessionInv(r)' /\ DecisionInv(r)' /\ RunInv(r)' /\ AuditInv(r)' /\ ReplyInv(r)'
  BY <1>2, <1>8, <1>9, <1>12 DEF SessionInv, DecisionInv, RunInv, AuditInv, ReplyInv,
                             Connected, Over
<1>14. RouteInv(r)'
  BY <1>2, <1>3, <1>9, <1>12, CallAssumption DEF RouteInv, NotRouted
<1>15. FilterInv(r)'
  BY <1>3, <1>6, <1>9, <1>12 DEF FilterInv, NotRouted, DatasourcesOf
<1> QED BY <1>10, <1>11, <1>13, <1>14, <1>15, Lift DEF RequestInv

LEMMA ExplainRejectsInv ==
  ASSUME IInv, NEW r \in Request, ExplainRejects(r)
  PROVE  IInv'
<1>1. RequestInv(r) /\ TypeOK /\ pc[r] = "explain"
  BY DEF IInv, ExplainRejects
<1>2. /\ call[r] \in Call /\ snap[r] \in MetaVersion /\ r \in conn
      /\ ran[r] = <<>> /\ audit[r] = <<>> /\ result[r] = None /\ reply[r] = None
  BY <1>1, NothingYet
<1>3. PICK plan \in Plan, size \in TableRows :
        Decide(r, FALSE, ExplainVerdict(policy[r], size, plan))
  BY DEF ExplainRejects
<1> DEFINE rejection == [allowed |-> FALSE, reason |-> ExplainVerdict(policy[r], size, plan)]
<1>4. rejection \in DecisionRecord
  BY ExplainVerdictType DEF DecisionRecord, Reason
<1>5. rejection # None /\ ~rejection.allowed
  BY <1>4, NoneAssumption
<1>6. /\ decision' = [decision EXCEPT ![r] = rejection]
      /\ pc' = [pc EXCEPT ![r] = "commit"]
      /\ UNCHANGED <<meta, call, snap, conn, targets, policy, explained, result, ran, audit,
                     reply>>
  BY <1>3 DEF ExplainRejects, Decide, Goto
<1> HIDE DEF rejection
<1>7. TypeOK'
  BY <1>1, <1>4, <1>6 DEF TypeOK
<1>8. \A q \in Request \ {r} : Same(q)
  BY <1>1, <1>6 DEF TypeOK, Same
<1>9. pc'[r] = "commit" /\ decision'[r] = rejection
  BY <1>1, <1>6 DEF TypeOK
<1>10. SessionInv(r)' /\ DecisionInv(r)' /\ RunInv(r)' /\ AuditInv(r)' /\ ReplyInv(r)'
  BY <1>2, <1>5, <1>6, <1>9 DEF SessionInv, DecisionInv, RunInv, AuditInv, ReplyInv,
                            Connected, Over
<1>11. Rewritten(r)' = Rewritten(r)
  BY <1>6 DEF Rewritten
<1>12. RouteInv(r)' /\ FilterInv(r)'
  BY <1>1, <1>6, <1>9, <1>11 DEF RequestInv, RouteInv, FilterInv, NotRouted
<1> QED BY <1>7, <1>8, <1>10, <1>12, Lift DEF RequestInv

LEMMA ExplainPassesInv ==
  ASSUME IInv, NEW r \in Request, ExplainPasses(r)
  PROVE  IInv'
<1>1. RequestInv(r) /\ TypeOK /\ pc[r] = "explain"
  BY DEF IInv, ExplainPasses
<1>2. /\ call[r] \in Call /\ snap[r] \in MetaVersion /\ r \in conn
      /\ ran[r] = <<>> /\ audit[r] = <<>> /\ result[r] = None /\ reply[r] = None
      /\ decision[r] = None
  BY <1>1, NothingYet
<1>3. /\ targets[r] \in Seq(TargetRecord) /\ explained[r] \in Seq(ExplainRecord)
      /\ Len(explained[r]) < Len(targets[r]) /\ Len(targets[r]) = Len(call[r].sql.tables)
  BY <1>1 DEF RequestInv, RouteInv, FilterInv, TypeOK
<1>a. PICK plan \in Plan, size \in TableRows :
        /\ ExplainVerdict(policy[r], size, plan) = "ALLOW"
        /\ explained' = [explained EXCEPT ![r] = Append(@,
             [ds |-> targets[r][NextTarget(r)].ds, stmt |-> Rewritten(r), plan |-> plan])]
  BY DEF ExplainPasses
<1> DEFINE next == Len(explained[r]) + 1
           entry == [ds |-> targets[r][next].ds, stmt |-> Rewritten(r), plan |-> plan]
           longer == Append(explained[r], entry)
           approval == [allowed |-> TRUE, reason |-> "ALLOW"]
<1>4. next \in DOMAIN targets[r]
  BY <1>3
<1>5. entry \in ExplainRecord
  <2>1. targets[r][next] \in TargetRecord
    BY <1>3, <1>4, ElementOf
  <2>2. Rewritten(r) \in Seq(STRING)
    BY <1>1, <1>2, <1>3, CallAssumption, RewrittenType
  <2> QED BY <2>1, <2>2 DEF TargetRecord, ExplainRecord
<1>6. /\ longer \in Seq(ExplainRecord) /\ Len(longer) = next
      /\ longer[next] = entry
      /\ \A i \in DOMAIN longer : i # next => i \in DOMAIN explained[r] /\ longer[i] = explained[r][i]
  BY <1>3, <1>5
<1>7. approval \in DecisionRecord /\ approval.allowed
  BY DEF DecisionRecord, Reason
<1>8. approval # None
  BY <1>7, NoneAssumption
<1>9. /\ explained' = [explained EXCEPT ![r] = longer]
      /\ \/ /\ next < Len(targets[r]) /\ pc' = [pc EXCEPT ![r] = "explain"]
            /\ UNCHANGED decision
         \/ /\ ~(next < Len(targets[r])) /\ call[r].endpoint = "execute"
            /\ pc' = [pc EXCEPT ![r] = "execute"]
            /\ decision' = [decision EXCEPT ![r] = approval]
         \/ /\ ~(next < Len(targets[r])) /\ call[r].endpoint # "execute"
            /\ pc' = [pc EXCEPT ![r] = "commit"]
            /\ decision' = [decision EXCEPT ![r] = approval]
      /\ UNCHANGED <<meta, call, snap, conn, targets, policy, result, ran, audit, reply>>
  BY <1>a DEF ExplainPasses, NextTarget, Goto, Decide
<1> HIDE DEF entry, longer, approval
<1>10. TypeOK'
  <2>1. CASE pc' = [pc EXCEPT ![r] = "explain"] /\ UNCHANGED decision
    BY <1>1, <1>6, <1>9, <2>1 DEF TypeOK
  <2>2. CASE /\ pc' = [pc EXCEPT ![r] = "execute"]
             /\ decision' = [decision EXCEPT ![r] = approval]
    BY <1>1, <1>6, <1>7, <1>9, <2>2 DEF TypeOK
  <2>3. CASE /\ pc' = [pc EXCEPT ![r] = "commit"]
             /\ decision' = [decision EXCEPT ![r] = approval]
    BY <1>1, <1>6, <1>7, <1>9, <2>3 DEF TypeOK
  <2> QED BY <1>9, <2>1, <2>2, <2>3
<1>11. \A q \in Request \ {r} : Same(q)
  BY <1>1, <1>9 DEF TypeOK, Same
<1>12. /\ explained'[r] = longer
       /\ \/ /\ next < Len(targets[r]) /\ pc'[r] = "explain" /\ decision'[r] = None
          \/ /\ ~(next < Len(targets[r])) /\ call[r].endpoint = "execute"
             /\ pc'[r] = "execute" /\ decision'[r] = approval
          \/ /\ ~(next < Len(targets[r])) /\ call[r].endpoint # "execute"
             /\ pc'[r] = "commit" /\ decision'[r] = approval
  BY <1>1, <1>2, <1>9 DEF TypeOK
<1>13. call[r].endpoint # "execute" => call[r].endpoint = "check"
  BY <1>2, CallAssumption DEF Endpoint
<1>14. SessionInv(r)' /\ DecisionInv(r)' /\ RunInv(r)' /\ AuditInv(r)' /\ ReplyInv(r)'
  BY <1>2, <1>7, <1>8, <1>9, <1>12, <1>13 DEF SessionInv, DecisionInv, RunInv, AuditInv,
                                          ReplyInv, Connected, Over
<1>15. RouteInv(r)'
  BY <1>1, <1>9, <1>12 DEF RequestInv, RouteInv, NotRouted
<1>16. FilterInv(r)'
  <2>1. FilterInv(r) /\ Rewritten(r)' = Rewritten(r) /\ DatasourcesOf(targets[r])' = DatasourcesOf(targets[r])
    BY <1>1, <1>9 DEF RequestInv, Rewritten, DatasourcesOf
  <2>2. \A i \in DOMAIN longer :
          /\ i \in DOMAIN targets[r]
          /\ longer[i].ds = targets[r][i].ds
          /\ longer[i].stmt = Rewritten(r)
          /\ PlanPassed(policy[r], longer[i].plan)
    <3>1. PlanPassed(policy[r], entry.plan)
      BY <1>a, ExplainVerdictPassed DEF entry
    <3> QED BY <1>4, <1>6, <2>1, <3>1 DEF FilterInv, entry
  <2>3. (\A i \in DOMAIN explained[r] :
          /\ i \in DOMAIN targets[r]
          /\ explained[r][i].ds = targets[r][i].ds
          /\ explained[r][i].stmt = Rewritten(r)
          /\ PlanPassed(policy[r], explained[r][i].plan))'
    BY <1>9, <1>12, <2>1, <2>2 DEF PlanPassed
  <2>4. pc'[r] = "explain" => Len(longer) < Len(targets[r])
    BY <1>6, <1>12
  <2>5. pc'[r] = "execute" => Len(longer) = Len(targets[r])
    BY <1>3, <1>6, <1>12
  <2>6. (pc[r] \in {"explain", "execute"} =>
       /\ policy[r] = snap[r].policy /\ snap[r].policy.enabled
       /\ DatasourcesOf(targets[r]) \subseteq snap[r].datasources
       /\ \A i, j \in DOMAIN targets[r] : targets[r][i].ds = targets[r][j].ds)'
    BY <1>1, <1>9, <2>1 DEF FilterInv
  <2>7. pc'[r] \notin NotRouted \union {"route", "filter"}
    BY <1>12 DEF NotRouted
  <2> QED BY <1>9, <1>12, <2>3, <2>4, <2>5, <2>6, <2>7 DEF FilterInv
<1> QED BY <1>10, <1>11, <1>14, <1>15, <1>16, Lift DEF RequestInv

-----------------------------------------------------------------------------
(* The executor's re-reads find what the filters found: same view.         *)
LEMMA RecheckAllows ==
  ASSUME NEW r \in Request, RequestInv(r), pc[r] = "execute"
  PROVE  RecheckVerdict(r) = "ALLOW"
<1> DEFINE chain == <<
    Check(\E a, b \in DatasourcesOf(targets[r]) : a # b, "CROSS_DATASOURCE_UNSUPPORTED"),
    Check(~(DatasourcesOf(targets[r]) \subseteq View(r).datasources), "DATASOURCE_NOT_FOUND"),
    Check(~View(r).policy.enabled, "POLICY_NOT_FOUND") >>
<1>1. RecheckVerdict(r) = FirstBlock(chain)
  BY DEF RecheckVerdict
<1>2. FilterInv(r)
  BY DEF RequestInv
<1>3. DOMAIN chain = 1 .. 3
  OBVIOUS
<1>4. ~(\E a, b \in DatasourcesOf(targets[r]) : a # b)
  BY <1>2 DEF FilterInv, DatasourcesOf
<1>5. DatasourcesOf(targets[r]) \subseteq View(r).datasources /\ View(r).policy.enabled
  BY <1>2 DEF FilterInv, View
<1> HIDE DEF chain
<1>6. chain[1].blocks = (\E a, b \in DatasourcesOf(targets[r]) : a # b)
  BY DEF chain, Check
<1>7. chain[2].blocks = ~(DatasourcesOf(targets[r]) \subseteq View(r).datasources)
  BY DEF chain, Check
<1>8. chain[3].blocks = ~View(r).policy.enabled
  BY DEF chain, Check
<1>9. ~chain[1].blocks /\ ~chain[2].blocks /\ ~chain[3].blocks
  BY <1>4, <1>5, <1>6, <1>7, <1>8, Zenon
<1>10. \A i \in 1 .. 3 : ~chain[i].blocks
  BY <1>9
<1> QED BY <1>1, <1>3, <1>10, FirstBlockCases

(* What the one statement that runs is: the statement that was explained,  *)
(* on the one datasource of its tables, under the policy that judged it.   *)
LEMMA RunFacts ==
  ASSUME IInv, NEW r \in Request, pc[r] = "execute", NEW size \in ResultRows,
         RunStatement(r, size)
  PROVE  \E run \in RunRecord :
           /\ ran' = [ran EXCEPT ![r] = <<run>>]
           /\ run.size = size
           /\ run.stmt = Rewritten(r)
           /\ run.cap = View(r).policy.maxLimit
           /\ run.cap = policy[r].maxLimit
           /\ \A i \in DOMAIN targets[r] : targets[r][i].ds = run.ds
           /\ policy[r] # None
           /\ targets[r] # <<>>
           /\ Len(explained[r]) = Len(targets[r])
           /\ Len(targets[r]) = Len(call[r].sql.tables)
           /\ call[r].endpoint = "execute"
<1>1. RequestInv(r) /\ TypeOK
  BY DEF IInv
<1>2. /\ call[r] \in Call /\ snap[r] \in MetaVersion /\ ran[r] = <<>>
  BY <1>1, NothingYet
<1> DEFINE run == [ds |-> targets[r][1].ds, cap |-> View(r).policy.maxLimit, size |-> size,
                   stmt |-> Rewritten(r)]
<1>3. /\ targets[r] \in Seq(TargetRecord) /\ targets[r] # <<>>
      /\ Len(explained[r]) = Len(targets[r]) /\ Len(targets[r]) = Len(call[r].sql.tables)
      /\ policy[r] = snap[r].policy
      /\ \A i, j \in DOMAIN targets[r] : targets[r][i].ds = targets[r][j].ds
      /\ call[r].endpoint = "execute"
  BY <1>1 DEF RequestInv, RouteInv, FilterInv, DecisionInv, TypeOK
<1>4. 1 \in DOMAIN targets[r]
  BY <1>3
<1>5. targets[r][1] \in TargetRecord
  BY <1>3, <1>4, ElementOf
<1>6. Rewritten(r) \in Seq(STRING)
  BY <1>1, <1>2, <1>3, CallAssumption, RewrittenType
<1>7. snap[r].policy \in PolicyType
  BY <1>2, MetaAssumption
<1>8. policy[r] # None
  BY <1>3, <1>7, NoneAssumption
<1>9. run \in RunRecord
  <2>1. View(r).policy.maxLimit \in Nat
    BY <1>7 DEF View, PolicyType
  <2>2. targets[r][1].ds \in STRING
    BY <1>5 DEF TargetRecord
  <2>3. size \in Nat
    BY BoundsAssumption
  <2> QED BY <1>6, <2>1, <2>2, <2>3 DEF RunRecord
<1>10. Append(ran[r], run) = <<run>>
  BY <1>2
<1>11. ran' = [ran EXCEPT ![r] = <<run>>]
  BY <1>10 DEF RunStatement
<1>12. \A i \in DOMAIN targets[r] : targets[r][i].ds = run.ds
  BY <1>3, <1>4
<1>13. run.cap = View(r).policy.maxLimit /\ run.cap = policy[r].maxLimit
  BY <1>3 DEF View
<1> QED BY <1>3, <1>8, <1>9, <1>11, <1>12, <1>13

LEMMA ExecuteInv ==
  ASSUME IInv, NEW r \in Request, Execute(r)
  PROVE  IInv'
<1>1. RequestInv(r) /\ TypeOK /\ pc[r] = "execute"
  BY DEF IInv, Execute
<1>2. /\ call[r] \in Call /\ snap[r] \in MetaVersion /\ r \in conn
      /\ ran[r] = <<>> /\ audit[r] = <<>> /\ result[r] = None /\ reply[r] = None
  BY <1>1, NothingYet
<1>3. decision[r] # None
  BY <1>1 DEF RequestInv, DecisionInv
<1>4. PICK size \in ResultRows :
        LET cap == View(r).policy.maxLimit
            fetched == Fetched(size, cap)
        IN /\ RunStatement(r, size)
           /\ IF TooMany(fetched, cap)
              THEN Finish(r, FALSE, "RESULT_ROWS_EXCEEDED", 0)
              ELSE Finish(r, TRUE, "EXECUTED", fetched)
  BY <1>1, RecheckAllows DEF Execute
<1>5. PICK run \in RunRecord :
           /\ ran' = [ran EXCEPT ![r] = <<run>>]
           /\ run.size = size
           /\ run.stmt = Rewritten(r)
           /\ run.cap = View(r).policy.maxLimit
           /\ run.cap = policy[r].maxLimit
           /\ \A i \in DOMAIN targets[r] : targets[r][i].ds = run.ds
           /\ policy[r] # None
           /\ targets[r] # <<>>
           /\ Len(explained[r]) = Len(targets[r])
           /\ Len(targets[r]) = Len(call[r].sql.tables)
           /\ call[r].endpoint = "execute"
  BY <1>1, <1>4, RunFacts
<1>6. run.size \in Nat /\ run.cap \in Nat
  BY DEF RunRecord
<1>7. PICK res \in ResultRecord :
        /\ result' = [result EXCEPT ![r] = res]
        /\ \/ /\ res.allowed /\ res.reason = "EXECUTED"
              /\ res.rows = run.size /\ res.rows <= run.cap
           \/ /\ ~res.allowed /\ res.reason = "RESULT_ROWS_EXCEEDED" /\ res.rows = 0
  <2>1. CASE TooMany(Fetched(run.size, run.cap), run.cap)
    <3> DEFINE res == [allowed |-> FALSE, reason |-> "RESULT_ROWS_EXCEEDED", rows |-> 0]
    <3>1. res \in ResultRecord
      BY DEF ResultRecord, Reason, ExecuteReason
    <3>2. result' = [result EXCEPT ![r] = res]
      BY <1>4, <1>5, <2>1 DEF Finish
    <3> QED BY <3>1, <3>2
  <2>2. CASE ~TooMany(Fetched(run.size, run.cap), run.cap)
    <3> DEFINE res == [allowed |-> TRUE, reason |-> "EXECUTED", rows |-> run.size]
    <3>1. Fetched(run.size, run.cap) = run.size /\ run.size <= run.cap
      BY <1>6, <2>2 DEF Fetched, TooMany
    <3>2. res \in ResultRecord
      BY <1>6 DEF ResultRecord, Reason, ExecuteReason
    <3>3. result' = [result EXCEPT ![r] = res]
      BY <1>4, <1>5, <2>2, <3>1 DEF Finish
    <3> QED BY <3>1, <3>2, <3>3
  <2> QED BY <2>1, <2>2
<1>8. res # None
  BY NoneAssumption
<1>9. /\ pc' = [pc EXCEPT ![r] = "commit"]
      /\ UNCHANGED <<meta, call, snap, conn, targets, policy, explained, decision, audit, reply>>
  BY DEF Execute, Goto
<1>10. <<run>> \in Seq(RunRecord) /\ <<run>> # <<>> /\ Len(<<run>>) = 1 /\ <<run>>[1] = run
  OBVIOUS
<1>11. TypeOK'
  BY <1>1, <1>5, <1>7, <1>9, <1>10 DEF TypeOK
<1>12. \A q \in Request \ {r} : Same(q)
  BY <1>1, <1>5, <1>7, <1>9 DEF TypeOK, Same
<1>13. pc'[r] = "commit" /\ ran'[r] = <<run>> /\ result'[r] = res
  BY <1>1, <1>5, <1>7, <1>9 DEF TypeOK
<1>14. Rewritten(r)' = Rewritten(r)
  BY <1>9 DEF Rewritten
<1>15. SessionInv(r)' /\ DecisionInv(r)' /\ AuditInv(r)' /\ ReplyInv(r)'
  BY <1>2, <1>3, <1>8, <1>9, <1>13 DEF SessionInv, DecisionInv, AuditInv, ReplyInv,
                                   Connected, Over
<1>16. RouteInv(r)' /\ FilterInv(r)'
  BY <1>1, <1>9, <1>13, <1>14 DEF RequestInv, RouteInv, FilterInv, NotRouted
<1>17. RunInv(r)'
  BY <1>5, <1>7, <1>9, <1>10, <1>13, <1>14 DEF RunInv
<1> QED BY <1>11, <1>12, <1>15, <1>16, <1>17, Lift DEF RequestInv

LEMMA ExecuteBreaksInv ==
  ASSUME IInv, NEW r \in Request, ExecuteBreaks(r)
  PROVE  IInv'
<1>1. RequestInv(r) /\ TypeOK /\ pc[r] = "execute"
  BY DEF IInv, ExecuteBreaks
<1>2. audit[r] = <<>> /\ result[r] = None
  BY <1>1, NothingYet
<1>3. /\ Fail(r)
      /\ UNCHANGED <<meta, call, targets, policy, explained, decision, result, audit>>
  BY DEF ExecuteBreaks
<1>4. PICK size \in ResultRows : RunStatement(r, size)
  BY DEF ExecuteBreaks
<1>5. PICK run \in RunRecord :
           /\ ran' = [ran EXCEPT ![r] = <<run>>]
           /\ run.size = size
           /\ run.stmt = Rewritten(r)
           /\ run.cap = View(r).policy.maxLimit
           /\ run.cap = policy[r].maxLimit
           /\ \A i \in DOMAIN targets[r] : targets[r][i].ds = run.ds
           /\ policy[r] # None
           /\ targets[r] # <<>>
           /\ Len(explained[r]) = Len(targets[r])
           /\ Len(targets[r]) = Len(call[r].sql.tables)
           /\ call[r].endpoint = "execute"
  BY <1>1, <1>4, RunFacts
<1>6. <<run>> \in Seq(RunRecord) /\ <<run>> # <<>> /\ Len(<<run>>) = 1 /\ <<run>>[1] = run
  OBVIOUS
<1>7. TypeOK'
  BY <1>1, <1>3, <1>5, <1>6, ServerErrorType DEF TypeOK, Fail, CloseSession, Goto
<1>8. pc'[r] = "failed" /\ ran'[r] = <<run>>
  BY <1>1, <1>3, <1>5 DEF TypeOK, Fail, Goto
<1>9. Rewritten(r)' = Rewritten(r)
  BY <1>3 DEF Rewritten
<1>10. RunInv(r)'
  BY <1>2, <1>3, <1>5, <1>6, <1>8, <1>9 DEF RunInv, Over
<1>11. AuditInv(r)'
  BY <1>2, <1>3, <1>8 DEF AuditInv
<1>12. \A q \in Request \ {r} : ran'[q] = ran[q] /\ audit'[q] = audit[q]
  BY <1>1, <1>3, <1>5 DEF TypeOK
<1> QED BY <1>1, <1>3, <1>7, <1>10, <1>11, <1>12, FailInv

-----------------------------------------------------------------------------
(* The row written at the commit is a row of request_audit_log, and it     *)
(* depends on nothing a later step changes.                                *)
LEMMA CommitFacts ==
  ASSUME IInv, NEW r \in Request, pc[r] = "commit"
  PROVE  /\ AuditRow(r) \in AuditRecord
         /\ audit[r] = <<>> /\ reply[r] = None /\ decision[r] # None
         /\ result[r] = None =>
              ran[r] = <<>> /\ (decision[r].allowed => call[r].endpoint = "check")
         /\ Append(audit[r], AuditRow(r)) = <<AuditRow(r)>>
<1>1. RequestInv(r) /\ TypeOK
  BY DEF IInv
<1>2. /\ audit[r] = <<>> /\ reply[r] = None /\ decision[r] # None
      /\ call[r] \in Call /\ Len(targets[r]) <= Len(call[r].sql.tables)
      /\ result[r] = None =>
           ran[r] = <<>> /\ (decision[r].allowed => call[r].endpoint = "check")
  BY <1>1 DEF RequestInv, SessionInv, RouteInv, DecisionInv, AuditInv, ReplyInv, Over
<1>3. Rewritten(r) \in Seq(STRING) /\ DatasourceCodes(r) \in Seq(STRING)
  BY <1>1, <1>2, RewrittenType
<1>4. decision[r] \in DecisionRecord /\ (result[r] # None => result[r] \in ResultRecord)
  BY <1>1, <1>2 DEF TypeOK
<1>5. LoggedDecision(r) \in {"ALLOW", "REJECT", "EXECUTED"}
  BY DEF LoggedDecision
<1>6. (IF result[r] # None THEN result[r].reason ELSE decision[r].reason) \in Reason
  BY <1>4 DEF DecisionRecord, ResultRecord
<1>7. AuditRow(r) \in AuditRecord
  BY <1>3, <1>5, <1>6 DEF AuditRow, AuditRecord
<1> QED BY <1>2, <1>7

LEMMA CommitInv ==
  ASSUME IInv, NEW r \in Request, Commit(r)
  PROVE  IInv'
<1>1. RequestInv(r) /\ TypeOK /\ pc[r] = "commit"
  BY DEF IInv, Commit
<1>2. /\ AuditRow(r) \in AuditRecord
      /\ audit[r] = <<>> /\ reply[r] = None /\ decision[r] # None
      /\ result[r] = None =>
           ran[r] = <<>> /\ (decision[r].allowed => call[r].endpoint = "check")
      /\ Append(audit[r], AuditRow(r)) = <<AuditRow(r)>>
  BY <1>1, CommitFacts
<1>3. /\ audit' = [audit EXCEPT ![r] = <<AuditRow(r)>>]
      /\ pc' = [pc EXCEPT ![r] = "respond"]
      /\ conn' = conn \ {r} /\ snap' = [snap EXCEPT ![r] = None]
      /\ UNCHANGED <<meta, call, targets, policy, explained, decision, result, ran, reply>>
  BY <1>2 DEF Commit, CloseSession, Goto
<1>4. <<AuditRow(r)>> \in Seq(AuditRecord) /\ <<AuditRow(r)>> # <<>>
  BY <1>2
<1>5. TypeOK'
  BY <1>1, <1>3, <1>4 DEF TypeOK
<1>6. \A q \in Request \ {r} : Same(q)
  BY <1>1, <1>3 DEF TypeOK, Same
<1>7. /\ pc'[r] = "respond" /\ audit'[r] = <<AuditRow(r)>> /\ snap'[r] = None
      /\ r \notin conn'
  BY <1>1, <1>3 DEF TypeOK
<1>8. Rewritten(r)' = Rewritten(r) /\ AuditRow(r)' = AuditRow(r)
  BY <1>3 DEF Rewritten, AuditRow, DatasourceCodes, LoggedDecision
<1>9. SessionInv(r)' /\ DecisionInv(r)' /\ ReplyInv(r)'
  BY <1>1, <1>2, <1>3, <1>7 DEF RequestInv, SessionInv, DecisionInv, ReplyInv, Connected
<1>10. RouteInv(r)' /\ FilterInv(r)'
  BY <1>1, <1>3, <1>7, <1>8 DEF RequestInv, RouteInv, FilterInv, NotRouted
<1>11. RunInv(r)'
  BY <1>1, <1>3, <1>7, <1>8 DEF RequestInv, RunInv
<1>12. AuditInv(r)'
  BY <1>2, <1>3, <1>4, <1>7, <1>8 DEF AuditInv
<1> QED BY <1>5, <1>6, <1>9, <1>10, <1>11, <1>12, Lift DEF RequestInv

LEMMA CommitUnacknowledgedInv ==
  ASSUME IInv, NEW r \in Request, CommitUnacknowledged(r)
  PROVE  IInv'
<1>1. RequestInv(r) /\ TypeOK /\ pc[r] = "commit"
  BY DEF IInv, CommitUnacknowledged
<1>2. /\ AuditRow(r) \in AuditRecord
      /\ audit[r] = <<>> /\ decision[r] # None
      /\ result[r] = None =>
           ran[r] = <<>> /\ (decision[r].allowed => call[r].endpoint = "check")
      /\ Append(audit[r], AuditRow(r)) = <<AuditRow(r)>>
  BY <1>1, CommitFacts
<1>3. /\ audit' = [audit EXCEPT ![r] = <<AuditRow(r)>>]
      /\ Fail(r)
      /\ UNCHANGED <<meta, call, targets, policy, explained, decision, result, ran>>
  BY <1>2 DEF CommitUnacknowledged
<1>4. <<AuditRow(r)>> \in Seq(AuditRecord) /\ <<AuditRow(r)>> # <<>>
  BY <1>2
<1>5. TypeOK'
  BY <1>1, <1>3, <1>4, ServerErrorType DEF TypeOK, Fail, CloseSession, Goto
<1>6. pc'[r] = "failed" /\ audit'[r] = <<AuditRow(r)>>
  BY <1>1, <1>3 DEF TypeOK, Fail, Goto
<1>7. Rewritten(r)' = Rewritten(r) /\ AuditRow(r)' = AuditRow(r)
  BY <1>3 DEF Rewritten, AuditRow, DatasourceCodes, LoggedDecision
<1>8. RunInv(r)'
  BY <1>1, <1>3, <1>6, <1>7 DEF RequestInv, RunInv, Over
<1>9. AuditInv(r)'
  BY <1>2, <1>3, <1>4, <1>6, <1>7 DEF AuditInv, Over
<1>10. \A q \in Request \ {r} : ran'[q] = ran[q] /\ audit'[q] = audit[q]
  BY <1>1, <1>3 DEF TypeOK
<1> QED BY <1>1, <1>3, <1>5, <1>8, <1>9, <1>10, FailInv

LEMMA RespondInv ==
  ASSUME IInv, NEW r \in Request, Respond(r)
  PROVE  IInv'
<1>1. RequestInv(r) /\ TypeOK /\ pc[r] = "respond"
  BY DEF IInv, Respond
<1>2. /\ reply' = [reply EXCEPT ![r] = Answer(r)]
      /\ pc' = [pc EXCEPT ![r] = "done"]
      /\ UNCHANGED <<meta, call, snap, conn, targets, policy, explained, decision, result, ran,
                     audit>>
  BY DEF Respond, Goto
<1>3. Answer(r) \in ReplyRecord
  <2>1. decision[r] # None
    BY <1>1 DEF RequestInv, DecisionInv
  <2>2. decision[r] \in DecisionRecord /\ (result[r] # None => result[r] \in ResultRecord)
    BY <1>1, <2>1 DEF TypeOK
  <2>3. CASE result[r] # None
    BY <2>2, <2>3 DEF Answer, ReplyRecord, ResultRecord
  <2>4. CASE result[r] = None
    BY <2>2, <2>4 DEF Answer, ReplyRecord, DecisionRecord
  <2> QED BY <2>3, <2>4
<1>4. TypeOK'
  BY <1>1, <1>2, <1>3 DEF TypeOK
<1>5. \A q \in Request \ {r} : Same(q)
  BY <1>1, <1>2 DEF TypeOK, Same
<1>6. pc'[r] = "done" /\ reply'[r] = Answer(r)
  BY <1>1, <1>2 DEF TypeOK
<1>7. Rewritten(r)' = Rewritten(r) /\ AuditRow(r)' = AuditRow(r) /\ Answer(r)' = Answer(r)
  BY <1>2 DEF Rewritten, AuditRow, DatasourceCodes, LoggedDecision, Answer
<1>8. SessionInv(r)' /\ DecisionInv(r)' /\ RunInv(r)'
  BY <1>1, <1>2, <1>6, <1>7 DEF RequestInv, SessionInv, DecisionInv, RunInv, Connected, Over
<1>9. AuditInv(r)' /\ ReplyInv(r)'
  BY <1>1, <1>2, <1>6, <1>7 DEF RequestInv, AuditInv, ReplyInv, Over
<1>10. RouteInv(r)' /\ FilterInv(r)'
  BY <1>1, <1>2, <1>6, <1>7 DEF RequestInv, RouteInv, FilterInv, NotRouted
<1> QED BY <1>4, <1>5, <1>8, <1>9, <1>10, Lift DEF RequestInv

-----------------------------------------------------------------------------
(* The process dies: every handler in flight is lost, what is committed    *)
(* and what ran stays.                                                     *)
LEMMA CrashInv ==
  ASSUME IInv, Crash
  PROVE  IInv'
<1>1. TypeOK'
  BY DEF IInv, TypeOK, Crash
<1>2. ASSUME NEW q \in Request
      PROVE  RequestInv(q)'
  <2>1. RequestInv(q)
    BY DEF IInv
  <2>2. /\ UNCHANGED <<call, targets, policy, explained, decision, result, ran, audit, reply>>
        /\ snap'[q] = None /\ q \notin conn'
        /\ \/ InFlight(q) /\ pc'[q] = "lost"
           \/ ~InFlight(q) /\ pc'[q] = pc[q]
    BY DEF Crash
  <2>3. /\ Rewritten(q)' = Rewritten(q) /\ AuditRow(q)' = AuditRow(q) /\ Answer(q)' = Answer(q)
    BY <2>2 DEF Rewritten, AuditRow, DatasourceCodes, LoggedDecision, Answer
  <2>4. SessionInv(q)' /\ DecisionInv(q)' /\ RunInv(q)'
    BY <2>1, <2>2, <2>3 DEF RequestInv, SessionInv, DecisionInv, RunInv, InFlight, Connected,
                            Over
  <2>5. AuditInv(q)' /\ ReplyInv(q)'
    BY <2>1, <2>2, <2>3 DEF RequestInv, AuditInv, ReplyInv, InFlight, Over, ServerError
  <2>6. RouteInv(q)' /\ FilterInv(q)'
    BY <2>1, <2>2, <2>3 DEF RequestInv, RouteInv, FilterInv, InFlight, NotRouted
  <2> QED BY <2>4, <2>5, <2>6 DEF RequestInv
<1> QED BY <1>1, <1>2 DEF IInv

(* Metadata committed by another session and a step that changes nothing   *)
(* touch no request.                                                       *)
LEMMA UntouchedInv ==
  ASSUME IInv, CommitMetadata \/ UNCHANGED vars
  PROVE  IInv'
<1>1. /\ UNCHANGED <<pc, call, snap, conn, targets, policy, explained, decision, result, ran,
                     audit, reply>>
      /\ meta' \in MetaVersion
  BY DEF IInv, TypeOK, CommitMetadata, vars
<1>2. TypeOK'
  BY <1>1 DEF IInv, TypeOK
<1>3. \A q \in Request : Same(q)
  BY <1>1 DEF Same
<1> QED BY <1>2, <1>3, Frame DEF IInv

LEMMA StepInv ==
  ASSUME IInv, [Next]_vars
  PROVE  IInv'
<1>1. ASSUME NEW r \in Request, Receive(r) \/ Handle(r) \/ Break(r)
      PROVE  IInv'
  BY <1>1, ReceiveInv, GuardInv, ConnectInv, FailuresInv, RouteTargetInv, RouteRejectsInv,
     FilterStepInv, ExplainRejectsInv, ExplainPassesInv, ExecuteInv, ExecuteBreaksInv,
     CommitInv, CommitUnacknowledgedInv, RespondInv DEF Handle, Break
<1> QED BY <1>1, CrashInv, UntouchedInv DEF Next

(* The invariant all the others follow from.                               *)
THEOREM Invariance == Spec => []IInv
<1>1. Init => IInv
  BY InitInv
<1>2. IInv /\ [Next]_vars => IInv'
  BY StepInv
<1> QED BY <1>1, <1>2, PTL DEF Spec

(* Every variable of the gateway keeps its type.                           *)
THEOREM TypeCorrect == Spec => []TypeOK
BY Invariance, PTL DEF IInv

(* A client learns a decision only when exactly one audit row of the same  *)
(* verdict and reason is committed, and gets rows only under EXECUTED.     *)
THEOREM AnswersAreAudited == Spec => []AnswerIsAudited
<1>1. IInv => AnswerIsAudited
  <2> SUFFICES ASSUME IInv, NEW r \in Request, reply[r] # None, reply[r].status = 200
               PROVE  /\ Len(audit[r]) = 1
                      /\ audit[r][1].reason = reply[r].reason
                      /\ reply[r].allowed <=> audit[r][1].decision # "REJECT"
                      /\ call[r].endpoint = "check" => audit[r][1].decision # "EXECUTED"
                      /\ reply[r].rows > 0 => audit[r][1].decision = "EXECUTED"
    BY DEF AnswerIsAudited
  <2>1. RequestInv(r)
    BY DEF IInv
  <2>2. pc[r] = "done" /\ reply[r] = Answer(r)
    BY <2>1 DEF RequestInv, ReplyInv, ServerError
  <2>3. audit[r] = <<AuditRow(r)>>
    BY <2>1, <2>2 DEF RequestInv, AuditInv
  <2>4. Len(audit[r]) = 1 /\ audit[r][1] = AuditRow(r)
    BY <2>3
  <2>5. CASE result[r] # None
    <3>1. /\ Answer(r).reason = result[r].reason /\ Answer(r).allowed = result[r].allowed
          /\ Answer(r).rows = result[r].rows /\ AuditRow(r).reason = result[r].reason
      BY <2>5 DEF Answer, AuditRow
    <3>2. AuditRow(r).decision = IF result[r].allowed THEN "EXECUTED" ELSE "REJECT"
      BY <2>5 DEF AuditRow, LoggedDecision
    <3>3. /\ call[r].endpoint = "execute"
          /\ result[r].allowed \/ (~result[r].allowed /\ result[r].rows = 0)
      BY <2>1, <2>5 DEF RequestInv, RunInv
    <3>4. CASE result[r].allowed
      BY <2>2, <2>4, <3>1, <3>2, <3>3, <3>4
    <3>5. CASE ~result[r].allowed /\ result[r].rows = 0
      BY <2>2, <2>4, <3>1, <3>2, <3>3, <3>5
    <3> QED BY <3>3, <3>4, <3>5
  <2>6. CASE result[r] = None
    <3>1. /\ Answer(r).reason = decision[r].reason /\ Answer(r).allowed = decision[r].allowed
          /\ Answer(r).rows = 0 /\ AuditRow(r).reason = decision[r].reason
      BY <2>6 DEF Answer, AuditRow
    <3>2. AuditRow(r).decision = IF decision[r].allowed THEN "ALLOW" ELSE "REJECT"
      BY <2>6 DEF AuditRow, LoggedDecision
    <3> QED BY <2>2, <2>4, <3>1, <3>2
  <2> QED BY <2>5, <2>6
<1> QED BY <1>1, Invariance, PTL

(* An audit row never claims what did not happen.                          *)
THEOREM AuditIsTrue == Spec => []AuditTellsTheTruth
<1>1. IInv => AuditTellsTheTruth
  <2> SUFFICES ASSUME IInv, NEW r \in Request, NEW i \in DOMAIN audit[r]
               PROVE  LET row == audit[r][i]
                      IN /\ row.decision = "EXECUTED" =>
                              /\ Len(ran[r]) = 1
                              /\ ran[r][1].stmt = row.stmt
                              /\ \A j \in DOMAIN row.datasources :
                                   row.datasources[j] = ran[r][1].ds
                         /\ row.decision = "ALLOW" => ran[r] = <<>>
                         /\ row.decision = "REJECT" /\ ran[r] # <<>> =>
                              row.reason = "RESULT_ROWS_EXCEEDED"
    BY DEF AuditTellsTheTruth
  <2>1. RequestInv(r)
    BY DEF IInv
  <2>2. /\ audit[r] = <<AuditRow(r)>>
        /\ result[r] = None => ran[r] = <<>>
    <3>1. audit[r] # <<>>
      OBVIOUS
    <3> QED BY <2>1, <3>1 DEF RequestInv, AuditInv
  <2>3. audit[r][i] = AuditRow(r)
    BY <2>2
  <2>4. /\ AuditRow(r).stmt = Rewritten(r)
        /\ AuditRow(r).datasources = DatasourceCodes(r)
        /\ DOMAIN DatasourceCodes(r) = DOMAIN targets[r]
        /\ \A j \in DOMAIN targets[r] : DatasourceCodes(r)[j] = targets[r][j].ds
    BY DEF AuditRow, DatasourceCodes
  <2>5. CASE result[r] # None
    <3>1. AuditRow(r).reason = result[r].reason
      BY <2>5 DEF AuditRow
    <3>2. AuditRow(r).decision = IF result[r].allowed THEN "EXECUTED" ELSE "REJECT"
      BY <2>5 DEF AuditRow, LoggedDecision
    <3>3. /\ ran[r] # <<>> /\ Len(ran[r]) = 1 /\ ran[r][1].stmt = Rewritten(r)
          /\ \A j \in DOMAIN targets[r] : targets[r][j].ds = ran[r][1].ds
          /\ result[r].allowed \/ result[r].reason = "RESULT_ROWS_EXCEEDED"
      BY <2>1, <2>5 DEF RequestInv, RunInv
    <3> QED BY <2>3, <2>4, <3>1, <3>2, <3>3
  <2>6. CASE result[r] = None
    <3>1. AuditRow(r).decision \in {"ALLOW", "REJECT"}
      BY <2>6 DEF AuditRow, LoggedDecision
    <3> QED BY <2>2, <2>3, <2>6, <3>1
  <2> QED BY <2>5, <2>6
<1> QED BY <1>1, Invariance, PTL

(* What runs was explained, for every table, on the datasource it runs on, *)
(* and judged by the policy that bounds its result.                        *)
THEOREM RunsWereChecked == Spec => []RunIsWhatWasChecked
<1>1. IInv => RunIsWhatWasChecked
  <2> SUFFICES ASSUME IInv, NEW r \in Request, ran[r] # <<>>
               PROVE  /\ Len(ran[r]) = 1
                      /\ call[r].endpoint = "execute"
                      /\ Len(explained[r]) = Len(call[r].sql.tables)
                      /\ \A i \in DOMAIN explained[r] :
                           /\ explained[r][i].stmt = ran[r][1].stmt
                           /\ explained[r][i].ds = ran[r][1].ds
                           /\ PlanPassed(policy[r], explained[r][i].plan)
                      /\ policy[r] # None
                      /\ ran[r][1].cap = policy[r].maxLimit
    BY DEF RunIsWhatWasChecked
  <2>1. RunInv(r) /\ FilterInv(r)
    BY DEF IInv, RequestInv
  <2>2. ASSUME NEW i \in DOMAIN explained[r]
        PROVE  /\ explained[r][i].stmt = ran[r][1].stmt
               /\ explained[r][i].ds = ran[r][1].ds
               /\ PlanPassed(policy[r], explained[r][i].plan)
    <3>1. /\ i \in DOMAIN targets[r]
          /\ explained[r][i].ds = targets[r][i].ds
          /\ explained[r][i].stmt = Rewritten(r)
          /\ PlanPassed(policy[r], explained[r][i].plan)
      BY <2>1 DEF FilterInv
    <3> QED BY <2>1, <3>1 DEF RunInv
  <2> QED BY <2>1, <2>2 DEF RunInv
<1> QED BY <1>1, Invariance, PTL

(* The second look at datasource and policy never revokes an approval.     *)
THEOREM ApprovalsStand == Spec => []ApprovalStands
<1>1. IInv => ApprovalStands
  BY DEF IInv, RequestInv, RunInv, ApprovalStands
<1> QED BY <1>1, Invariance, PTL

(* No client gets more rows than the policy allows.                        *)
THEOREM RowsBounded == Spec => []RowsAreBounded
<1>1. IInv => RowsAreBounded
  <2> SUFFICES ASSUME IInv, NEW r \in Request, reply[r] # None, reply[r].rows > 0
               PROVE  reply[r].rows <= policy[r].maxLimit
    BY DEF RowsAreBounded
  <2>1. RequestInv(r)
    BY DEF IInv
  <2>2. reply[r] = Answer(r)
    BY <2>1 DEF RequestInv, ReplyInv, ServerError
  <2>3. result[r] # None /\ reply[r].rows = result[r].rows
    BY <2>2 DEF Answer
  <2> QED BY <2>1, <2>3 DEF RequestInv, RunInv
<1> QED BY <1>1, Invariance, PTL

(* The answer to an allowed execute request has the whole result.          *)
THEOREM ResultsAreWhole == Spec => []NothingIsTruncated
<1>1. IInv => NothingIsTruncated
  <2> SUFFICES ASSUME IInv, NEW r \in Request, reply[r] # None, reply[r].allowed,
                      call[r].endpoint = "execute"
               PROVE  ran[r] # <<>> /\ reply[r].rows = ran[r][1].size
    BY DEF NothingIsTruncated
  <2>1. RequestInv(r)
    BY DEF IInv
  <2>2. reply[r] = Answer(r) /\ pc[r] = "done"
    BY <2>1 DEF RequestInv, ReplyInv, ServerError
  <2>3. result[r] # None
    <3>1. result[r] = None => ~decision[r].allowed
      BY <2>1, <2>2 DEF RequestInv, DecisionInv
    <3>2. result[r] = None => Answer(r).allowed = decision[r].allowed
      BY DEF Answer
    <3> QED BY <2>2, <3>1, <3>2
  <2>4. reply[r].rows = result[r].rows /\ result[r].allowed
    BY <2>2, <2>3 DEF Answer
  <2> QED BY <2>1, <2>3, <2>4 DEF RequestInv, RunInv
<1> QED BY <1>1, Invariance, PTL

-----------------------------------------------------------------------------
(* What Cardinality needs: conn is finite.                                 *)
PoolInv == IsFiniteSet(conn) /\ Cardinality(conn) <= PoolSize

LEMMA PoolStep ==
  ASSUME PoolInv, [Next]_vars
  PROVE  PoolInv'
<1>1. Cardinality(conn) \in Nat /\ PoolSize \in Nat
  BY FS_CardinalityType, BoundsAssumption DEF PoolInv
<1>2. ASSUME NEW r \in Request, conn' = conn \union {r}, Cardinality(conn) < PoolSize
      PROVE  PoolInv'
  <2>1. IsFiniteSet(conn') /\ Cardinality(conn') <= Cardinality(conn) + 1
    BY <1>1, <1>2, FS_AddElement DEF PoolInv
  <2>2. Cardinality(conn') \in Nat
    BY <2>1, FS_CardinalityType
  <2> QED BY <1>1, <1>2, <2>1, <2>2 DEF PoolInv
<1>3. ASSUME NEW r \in Request, conn' = conn \ {r}
      PROVE  PoolInv'
  <2>1. IsFiniteSet(conn') /\ Cardinality(conn') <= Cardinality(conn)
    BY <1>1, <1>3, FS_Subset DEF PoolInv
  <2>2. Cardinality(conn') \in Nat
    BY <2>1, FS_CardinalityType
  <2> QED BY <1>1, <2>1, <2>2 DEF PoolInv
<1>4. ASSUME conn' = {}
      PROVE  PoolInv'
  BY <1>1, <1>4, FS_EmptySet DEF PoolInv
<1>5. ASSUME conn' = conn
      PROVE  PoolInv'
  BY <1>5 DEF PoolInv
<1>6. ASSUME NEW r \in Request, Receive(r) \/ Handle(r) \/ Break(r)
      PROVE  PoolInv'
  <2>1. CASE Connect(r) \/ ConnectForAudit(r)
    BY <1>2, <2>1 DEF Connect, ConnectForAudit
  <2>2. CASE \/ PoolTimeout(r) \/ RouteRaises(r) \/ ExecuteBreaks(r) \/ Commit(r)
             \/ CommitUnacknowledged(r) \/ RespondBreaks(r) \/ DatabaseError(r)
    BY <1>3, <2>2 DEF PoolTimeout, RouteRaises, ExecuteBreaks, Commit, CommitUnacknowledged,
                  RespondBreaks, DatabaseError, Fail, CloseSession
  <2>3. CASE \/ Receive(r) \/ Guard(r) \/ RouteTarget(r) \/ RouteRejects(r) \/ Filter(r)
             \/ ExplainRejects(r) \/ ExplainPasses(r) \/ Execute(r) \/ Respond(r)
    BY <1>5, <2>3 DEF Receive, Guard, RouteTarget, RouteRejects, Filter, ExplainRejects,
                  ExplainPasses, Execute, Respond
  <2> QED BY <1>6, <2>1, <2>2, <2>3 DEF Handle, Break
<1> QED BY <1>4, <1>5, <1>6 DEF Next, Crash, CommitMetadata, vars

(* The pool is never overdrawn, and a request holds a connection exactly   *)
(* while its session is open.                                              *)
THEOREM PoolSound == Spec => []PoolIsSound
<1>1. Init => PoolInv
  BY FS_EmptySet, BoundsAssumption DEF Init, PoolInv
<1>2. PoolInv /\ [Next]_vars => PoolInv'
  BY PoolStep
<1>3. IInv /\ PoolInv => PoolIsSound
  BY DEF IInv, RequestInv, SessionInv, PoolInv, PoolIsSound, Connected
<1> QED BY <1>1, <1>2, <1>3, Invariance, PTL DEF Spec

-----------------------------------------------------------------------------
(* A statement runs once and a row is written once: nothing is retried.    *)
THEOREM NothingIsRetried == Spec => OnceOnly
<1>1. IInv /\ [Next]_vars =>
        [\A r \in Request :
           /\ ran[r] # <<>> => ran'[r] = ran[r]
           /\ audit[r] # <<>> => audit'[r] = audit[r]]_vars
  <2> SUFFICES ASSUME IInv, Next, NEW q \in Request
               PROVE  /\ ran[q] # <<>> => ran'[q] = ran[q]
                      /\ audit[q] # <<>> => audit'[q] = audit[q]
    OBVIOUS
  <2>1. RequestInv(q) /\ TypeOK
    BY DEF IInv
  <2>2. pc[q] = "execute" => ran[q] = <<>>
    BY <2>1 DEF RequestInv, RunInv, Over
  <2>3. pc[q] = "commit" => audit[q] = <<>>
    BY <2>1 DEF RequestInv, AuditInv, Over
  <2>4. CASE Crash \/ CommitMetadata
    BY <2>4 DEF Crash, CommitMetadata
  <2>5. ASSUME NEW r \in Request, Receive(r) \/ Handle(r) \/ Break(r)
        PROVE  /\ ran'[q] = ran[q] \/ pc[q] = "execute"
               /\ audit'[q] = audit[q] \/ pc[q] = "commit"
    <3>1. CASE Execute(r) \/ ExecuteBreaks(r)
      BY <2>1, <3>1 DEF TypeOK, Execute, ExecuteBreaks, RunStatement
    <3>2. CASE Commit(r) \/ CommitUnacknowledged(r)
      BY <2>1, <3>2 DEF TypeOK, Commit, CommitUnacknowledged
    <3>3. CASE UNCHANGED <<ran, audit>>
      BY <3>3
    <3> QED BY <2>5, <3>1, <3>2, <3>3
            DEF Handle, Break, Receive, Guard, Connect, ConnectForAudit, PoolTimeout,
                RouteTarget, RouteRejects, RouteRaises, Filter, ExplainRejects, ExplainPasses,
                Respond, RespondBreaks, DatabaseError
  <2> QED BY <2>2, <2>3, <2>4, <2>5 DEF Next
<1> QED BY <1>1, Invariance, PTL DEF Spec, OnceOnly

-----------------------------------------------------------------------------
(* SqlGateway implements AuditedGate: under the mapping of Gate, every     *)
(* step of a handler, every failure, crash and metadata commit is a step   *)
(* of AuditedGate or leaves what it speaks of unchanged.                   *)

(* The abstract variables under the mapping. *)
Touched == {r \in Request : ran[r] # <<>>}
LogOf(r) == IF audit[r] = <<>> THEN None ELSE audit[r][1].decision
Log == [r \in Request |-> LogOf(r)]
Told == [r \in Request |-> Conclusion(r)]

(* A step that neither runs a statement, nor commits a row, nor answers,   *)
(* is invisible: the call of a request nobody answered plays no part.      *)
LEMMA Invisible ==
  ASSUME UNCHANGED <<ran, audit, reply>>,
         \A q \in Request : reply[q] = None \/ call'[q] = call[q]
  PROVE  UNCHANGED Gate!gvars
<1>1. ASSUME NEW q \in Request PROVE Conclusion(q)' = Conclusion(q)
  <2>1. CASE reply[q] = None
    BY <2>1 DEF Conclusion
  <2>2. CASE reply[q] # None /\ call'[q] = call[q]
    BY <2>2 DEF Conclusion
  <2> QED BY <2>1, <2>2
<1> QED BY <1>1 DEF Gate!gvars

(* The store runs the statement of r.                                      *)
LEMMA TouchStep ==
  ASSUME IInv, NEW r \in Request, Execute(r)
  PROVE  Gate!Next
<1>1. RequestInv(r) /\ TypeOK /\ pc[r] = "execute"
  BY DEF IInv, Execute
<1>2. ran[r] = <<>> /\ audit[r] = <<>> /\ reply[r] = None
  BY <1>1, NothingYet
<1>3. PICK size \in ResultRows : RunStatement(r, size)
  BY <1>1, RecheckAllows DEF Execute
<1>4. ran'[r] # <<>> /\ \A q \in Request \ {r} : ran'[q] = ran[q]
  BY <1>1, <1>2, <1>3 DEF TypeOK, RunStatement
<1>5. UNCHANGED <<call, audit, reply>>
  BY DEF Execute
<1>6. Touched' = Touched \union {r} /\ r \notin Touched
  BY <1>2, <1>4 DEF Touched
<1>7. Log' = Log /\ Told' = Told
  BY <1>5 DEF Log, LogOf, Told, Conclusion
<1>8. Log[r] = None /\ Told[r] = None
  BY <1>2 DEF Log, LogOf, Told, Conclusion
<1>9. Gate!Touch(r)
  BY <1>6, <1>7, <1>8 DEF Gate!Touch, Touched, Log, LogOf, Told
<1> QED BY <1>9 DEF Gate!Next

(* The decision in the row that r commits is one the abstract row may have.*)
LEMMA LoggedFacts ==
  ASSUME IInv, NEW r \in Request, pc[r] = "commit"
  PROVE  /\ LoggedDecision(r) \in Gate!Decision
         /\ LoggedDecision(r) = "EXECUTED" => r \in Touched
         /\ LoggedDecision(r) = "ALLOW" => r \notin Touched
<1>1. RunInv(r) /\ DecisionInv(r)
  BY DEF IInv, RequestInv
<1>2. CASE result[r] # None
  BY <1>1, <1>2 DEF LoggedDecision, Gate!Decision, RunInv, Touched
<1>3. CASE result[r] = None
  BY <1>1, <1>3 DEF LoggedDecision, Gate!Decision, DecisionInv, Touched
<1> QED BY <1>2, <1>3

(* What a commit makes of the mapped log.                                  *)
LEMMA LogStep ==
  ASSUME IInv, NEW r \in Request, pc[r] = "commit",
         audit' = [audit EXCEPT ![r] = Append(@, AuditRow(r))]
  PROVE  /\ Log' = [Log EXCEPT ![r] = LoggedDecision(r)]
         /\ Log[r] = None
<1>1. audit[r] = <<>> /\ Append(audit[r], AuditRow(r)) = <<AuditRow(r)>>
  BY CommitFacts
<1>2. audit' = [audit EXCEPT ![r] = <<AuditRow(r)>>]
  BY <1>1
<1>3. /\ audit'[r] = <<AuditRow(r)>>
      /\ \A q \in Request \ {r} : audit'[q] = audit[q]
  BY <1>2 DEF IInv, TypeOK
<1>4. AuditRow(r).decision = LoggedDecision(r)
  BY DEF AuditRow
<1>5. LogOf(r)' = LoggedDecision(r)
  <2>1. \A x : <<x>> # <<>> /\ <<x>>[1] = x
    OBVIOUS
  <2>2. audit'[r] # <<>> /\ audit'[r][1] = AuditRow(r)
    BY <1>3, <2>1, Zenon
  <2> QED BY <1>4, <2>2 DEF LogOf
<1>6. \A q \in Request \ {r} : LogOf(q)' = LogOf(q)
  BY <1>3 DEF LogOf
<1>7. LogOf(r) = None
  BY <1>1 DEF LogOf
<1> QED BY <1>5, <1>6, <1>7 DEF Log

LEMMA RecordStep ==
  ASSUME IInv, NEW r \in Request, Commit(r)
  PROVE  Gate!Next
<1>1. RequestInv(r) /\ pc[r] = "commit"
  BY DEF IInv, Commit
<1>2. Log' = [Log EXCEPT ![r] = LoggedDecision(r)] /\ Log[r] = None
  BY <1>1, LogStep DEF Commit
<1>3. UNCHANGED <<ran, call, reply>> /\ reply[r] = None
  BY <1>1, CommitFacts DEF Commit
<1>4. Touched' = Touched /\ Told' = Told /\ Told[r] = None
  BY <1>3 DEF Touched, Told, Conclusion
<1>5. Gate!Record(r)
  BY <1>1, <1>2, <1>4, LoggedFacts DEF Gate!Record, Touched, Log, LogOf, Told
<1> QED BY <1>5 DEF Gate!Next

(* The answer says what the committed row says.                            *)
LEMMA TellStep ==
  ASSUME IInv, NEW r \in Request, Respond(r)
  PROVE  Gate!Next
<1>1. RequestInv(r) /\ TypeOK /\ pc[r] = "respond"
  BY DEF IInv, Respond
<1>2. /\ reply' = [reply EXCEPT ![r] = Answer(r)]
      /\ UNCHANGED <<ran, audit, call, decision, result>>
      /\ reply[r] = None /\ audit[r] = <<AuditRow(r)>>
  BY <1>1 DEF RequestInv, ReplyInv, AuditInv, Respond
<1>3. reply'[r] = Answer(r) /\ \A q \in Request \ {r} : reply'[q] = reply[q]
  BY <1>1, <1>2 DEF TypeOK
<1>4. Log[r] = LoggedDecision(r) /\ LoggedDecision(r) \in Gate!Decision
  <2>1. audit[r] # <<>> /\ audit[r][1].decision = LoggedDecision(r)
    BY <1>2 DEF AuditRow
  <2> QED BY <2>1 DEF Log, LogOf, LoggedDecision, Gate!Decision
<1>5. Answer(r) # None /\ Answer(r).status = 200
  <2>1. decision[r] # None
    BY <1>1 DEF RequestInv, DecisionInv
  <2>2. decision[r] \in DecisionRecord /\ (result[r] # None => result[r] \in ResultRecord)
    BY <1>1, <2>1 DEF TypeOK
  <2>3. CASE result[r] # None
    <3>1. Answer(r) \in ReplyRecord
      BY <2>2, <2>3 DEF Answer, ReplyRecord, ResultRecord
    <3> QED BY <2>3, <3>1, NoneAssumption DEF Answer
  <2>4. CASE result[r] = None
    <3>1. Answer(r) \in ReplyRecord
      BY <2>2, <2>4 DEF Answer, ReplyRecord, DecisionRecord
    <3> QED BY <2>4, <3>1, NoneAssumption DEF Answer
  <2> QED BY <2>3, <2>4
<1>6. Conclusion(r)' = LoggedDecision(r)
  <2>1. Conclusion(r)' = IF ~Answer(r).allowed THEN "REJECT"
                         ELSE IF call[r].endpoint = "execute" THEN "EXECUTED" ELSE "ALLOW"
    BY <1>2, <1>3, <1>5 DEF Conclusion
  <2>2. CASE result[r] # None
    <3>1. Answer(r).allowed = result[r].allowed /\ call[r].endpoint = "execute"
      BY <1>1, <2>2 DEF Answer, RequestInv, RunInv
    <3> QED BY <2>1, <2>2, <3>1 DEF LoggedDecision
  <2>3. CASE result[r] = None
    <3>1. /\ Answer(r).allowed = decision[r].allowed
          /\ decision[r].allowed => call[r].endpoint = "check"
      BY <1>1, <2>3 DEF Answer, RequestInv, DecisionInv
    <3> QED BY <2>1, <2>3, <3>1 DEF LoggedDecision
  <2> QED BY <2>2, <2>3
<1>7. \A q \in Request \ {r} : Conclusion(q)' = Conclusion(q)
  BY <1>2, <1>3 DEF Conclusion
<1>8. Told' = [Told EXCEPT ![r] = Log[r]] /\ Told[r] = None
  <2>1. Conclusion(r) = None
    BY <1>2 DEF Conclusion
  <2> QED BY <1>4, <1>6, <1>7, <2>1 DEF Told
<1>9. Touched' = Touched /\ Log' = Log
  BY <1>2 DEF Touched, Log, LogOf
<1>10. Log[r] # None
  BY <1>4, NoneAssumption DEF Gate!Decision
<1>11. Gate!Tell(r)
  BY <1>8, <1>9, <1>10 DEF Gate!Tell, Touched, Log, LogOf, Told
<1> QED BY <1>11 DEF Gate!Next

(* A failure is told as one.                                               *)
LEMMA FailTold ==
  ASSUME IInv, NEW r \in Request, Fail(r), UNCHANGED call, InFlight(r)
  PROVE  Told' = [Told EXCEPT ![r] = "FAILED"] /\ Told[r] = None
<1>1. RequestInv(r) /\ TypeOK
  BY DEF IInv
<1>2. reply[r] = None
  BY <1>1 DEF RequestInv, ReplyInv, InFlight
<1>3. reply'[r] = ServerError /\ \A q \in Request \ {r} : reply'[q] = reply[q]
  BY <1>1 DEF TypeOK, Fail
<1>4. ServerError # None /\ ServerError.status = 500
  BY ServerErrorType, NoneAssumption DEF ServerError
<1>5. Conclusion(r)' = "FAILED" /\ \A q \in Request \ {r} : Conclusion(q)' = Conclusion(q)
  BY <1>3, <1>4 DEF Conclusion
<1>6. Conclusion(r) = None
  BY <1>2 DEF Conclusion
<1> QED BY <1>5, <1>6 DEF Told

LEMMA FailStep ==
  ASSUME IInv, NEW r \in Request,
         \/ PoolTimeout(r) \/ RouteRaises(r) \/ RespondBreaks(r) \/ DatabaseError(r)
         \/ ExecuteBreaks(r) \/ CommitUnacknowledged(r)
  PROVE  Gate!Next
<1>1. RequestInv(r) /\ TypeOK
  BY DEF IInv
<1>2. Fail(r) /\ UNCHANGED call /\ InFlight(r)
  BY DEF PoolTimeout, RouteRaises, RespondBreaks, DatabaseError, ExecuteBreaks,
         CommitUnacknowledged, InFlight
<1>3. Told' = [Told EXCEPT ![r] = "FAILED"] /\ Told[r] = None
  BY <1>2, FailTold
<1>4. CASE UNCHANGED <<ran, audit>>
  <2>1. Touched' = Touched /\ Log' = Log
    BY <1>4 DEF Touched, Log, LogOf
  <2> QED BY <1>3, <2>1 DEF Gate!Next, Gate!Fail, Touched, Log, LogOf, Told
<1>5. CASE ExecuteBreaks(r)
  <2>1. pc[r] = "execute" /\ UNCHANGED audit
    BY <1>5 DEF ExecuteBreaks
  <2>2. ran[r] = <<>> /\ audit[r] = <<>>
    BY <1>1, <2>1, NothingYet
  <2>3. PICK size \in ResultRows : RunStatement(r, size)
    BY <1>5 DEF ExecuteBreaks
  <2>4. ran'[r] # <<>> /\ \A q \in Request \ {r} : ran'[q] = ran[q]
    BY <1>1, <2>2, <2>3 DEF TypeOK, RunStatement
  <2>5. Touched' = Touched \union {r} /\ r \notin Touched
    BY <2>2, <2>4 DEF Touched
  <2>6. Log' = Log /\ Log[r] = None
    BY <2>1, <2>2 DEF Log, LogOf
  <2> QED BY <1>3, <2>5, <2>6 DEF Gate!Next, Gate!Fail, Touched, Log, LogOf, Told
<1>6. CASE CommitUnacknowledged(r)
  <2>1. pc[r] = "commit" /\ UNCHANGED ran
    BY <1>6 DEF CommitUnacknowledged
  <2>2. Log' = [Log EXCEPT ![r] = LoggedDecision(r)] /\ Log[r] = None
    BY <1>6, <2>1, LogStep DEF CommitUnacknowledged
  <2>3. Touched' = Touched
    BY <2>1 DEF Touched
  <2> QED BY <1>3, <2>1, <2>2, <2>3, LoggedFacts
          DEF Gate!Next, Gate!Fail, Touched, Log, LogOf, Told
<1> QED BY <1>4, <1>5, <1>6 DEF PoolTimeout, RouteRaises, RespondBreaks, DatabaseError

LEMMA GateStep ==
  ASSUME IInv, [Next]_vars
  PROVE  [Gate!Next]_Gate!gvars
<1>1. \A q \in Request : pc[q] = "idle" => reply[q] = None
  BY DEF IInv, RequestInv, ReplyInv
<1>2. ASSUME NEW r \in Request, Receive(r)
      PROVE  UNCHANGED Gate!gvars
  <2>1. \A q \in Request : reply[q] = None \/ call'[q] = call[q]
    BY <1>1, <1>2 DEF Receive, IInv, TypeOK
  <2> QED BY <1>2, <2>1, Invisible DEF Receive
<1>3. ASSUME NEW r \in Request,
             \/ Guard(r) \/ Connect(r) \/ ConnectForAudit(r) \/ RouteTarget(r)
             \/ RouteRejects(r) \/ Filter(r) \/ ExplainRejects(r) \/ ExplainPasses(r)
      PROVE  UNCHANGED Gate!gvars
  <2>1. UNCHANGED <<ran, audit, reply>> /\ UNCHANGED call
    BY <1>3 DEF Guard, Connect, ConnectForAudit, RouteTarget, RouteRejects, Filter,
                ExplainRejects, ExplainPasses
  <2> QED BY <2>1, Invisible
<1>4. ASSUME NEW r \in Request, Receive(r) \/ Handle(r) \/ Break(r)
      PROVE  [Gate!Next]_Gate!gvars
  BY <1>2, <1>3, <1>4, TouchStep, RecordStep, TellStep, FailStep DEF Handle, Break
<1>5. CASE Crash \/ CommitMetadata \/ UNCHANGED vars
  <2>1. UNCHANGED <<ran, audit, reply>> /\ UNCHANGED call
    BY <1>5 DEF Crash, CommitMetadata, vars
  <2> QED BY <2>1, Invisible
<1> QED BY <1>4, <1>5 DEF Next

LEMMA GateInit == Init => Gate!Init
<1> SUFFICES ASSUME Init PROVE Gate!Init
  OBVIOUS
<1>1. \A r \in Request : ran[r] = <<>> /\ audit[r] = <<>> /\ reply[r] = None
  BY DEF Init
<1>2. \A r \in Request : Conclusion(r) = None
  BY <1>1 DEF Conclusion
<1> QED BY <1>1, <1>2 DEF Gate!Init

(* The gateway keeps the abstract promise: a statement runs at most once   *)
(* and before its row, a row claims only what happened, and a client       *)
(* learns a decision only from a committed row.                            *)
THEOREM Refinement == Spec => GateSpec
<1>1. Init => Gate!Init
  BY GateInit
<1>2. IInv /\ [Next]_vars => [Gate!Next]_Gate!gvars
  BY GateStep
<1> QED BY <1>1, <1>2, Invariance, PTL DEF Spec, GateSpec, Gate!Spec
=============================================================================
