--------------------------- MODULE RedisGateway ---------------------------
(***************************************************************************)
(* The Redis endpoints of api/routes.py, check_redis and execute_redis,    *)
(* over RedisGatekeeperService: requests in threads of their own, while    *)
(* other clients of Redis change the collections, other sessions commit    *)
(* metadata, Redis and the metadata database fail and the process crashes. *)
(*                                                                         *)
(* Redis is a function from <<datasource, key>> to the number of elements  *)
(* the key holds. The connection pool is that of SqlGateway and is not     *)
(* modelled again: failing to get a connection is a DatabaseError here.    *)
(***************************************************************************)
EXTENDS RedisChecks

CONSTANTS
  Request,       \* the handler invocations, each used once
  Call,          \* what clients send: [endpoint, command, args, ctx]
  MetaVersion,   \* the contents datasource_instance may have
  Place,         \* the pairs <<datasource code, key>> that occur
  Sizes,         \* how many elements a key may hold
  None           \* nothing here (yet)

Endpoint == {"check", "execute"}
ResultReason == {"REDIS_DATASOURCE_NOT_FOUND", "REDIS_RESULT_LIMIT_EXCEEDED", "EXECUTED"}
Reason == {"ALLOW", "EXCEPTION"} \union CheckReason \union ResultReason
DecisionRecord == [allowed : BOOLEAN, reason : Reason]
ResultRecord == [allowed : BOOLEAN, reason : Reason, rows : Nat]
ReplyRecord == [status : {200, 500}, allowed : BOOLEAN, reason : Reason, rows : Nat]

Approved(m, c) ==
  /\ CommandVerdict(c.command) = "ALLOW" /\ ArgsVerdict(c.command, c.args) = "ALLOW"
  /\ DatasourceVerdict(ResolveDatasource(m, c.command, c.args, c.ctx), c.command, c.args)
       = "ALLOW"

(* Numbers are numbers, and every place an approved command reads occurs.  *)
ASSUME BoundsAssumption ==
  /\ MaxKeys \in Nat \ {0} /\ MaxItems \in Nat /\ Sizes \subseteq Nat
  /\ \A s \in DOMAIN Numeral : Numeral[s] \in Int

ASSUME CallAssumption == \A c \in Call : c.endpoint \in Endpoint /\ c.args \in Seq(STRING)

ASSUME PlaceAssumption ==
  \A m \in MetaVersion, c \in Call :
    Approved(m, c) =>
      <<ResolveDatasource(m, c.command, c.args, c.ctx).ds.code, c.args[1]>> \in Place

ASSUME NoneAssumption ==
  /\ NoDatasource \notin UNION MetaVersion
  /\ None \notin DecisionRecord \union ResultRecord \union ReplyRecord \union MetaVersion
                 \union Call \union {"ALLOW", "REJECT", "EXECUTED"}

VARIABLES
  meta,      \* the committed datasources
  store,     \* the size of every key of every Redis
  pc,        \* where the handler of each request is
  call,      \* what it was sent
  snap,      \* the view its session reads
  route,     \* the datasource the check resolved, NoDatasource when none
  code,      \* RedisDecision.datasource_code
  decision,  \* RedisDecision: [allowed, reason]
  result,    \* RedisExecuteResult: [allowed, reason, rows]
  ran,       \* the commands Redis answered: [ds, command, args, rows]
  audit,     \* the committed rows of request_audit_log, per request
  reply      \* what the client got

vars == <<meta, store, pc, call, snap, route, code, decision, result, ran, audit, reply>>

-----------------------------------------------------------------------------
(* What a SELECT of the session sees. *)
ViewReadCommitted(r) == meta    \* mutant: the isolation level READ COMMITTED
View(r) == snap[r]

\* mutant: the row of an execution records the check's decision
AuditRowOfCheck(r) ==
  [decision |-> IF decision[r].allowed THEN "ALLOW" ELSE "REJECT",
   reason |-> decision[r].reason, datasource |-> code[r]]
AuditRow(r) ==
  [decision |-> IF result[r] # None
                THEN (IF result[r].allowed THEN "EXECUTED" ELSE "REJECT")
                ELSE (IF decision[r].allowed THEN "ALLOW" ELSE "REJECT"),
   reason |-> IF result[r] # None THEN result[r].reason ELSE decision[r].reason,
   datasource |-> code[r]]

\* mutant: the response of execute_redis built from the check's decision
AnswerOfCheck(r) ==
  [status |-> 200, allowed |-> decision[r].allowed, reason |-> decision[r].reason, rows |-> 0]
Answer(r) ==
  IF result[r] # None
  THEN [status |-> 200, allowed |-> result[r].allowed, reason |-> result[r].reason,
        rows |-> result[r].rows]
  ELSE [status |-> 200, allowed |-> decision[r].allowed, reason |-> decision[r].reason,
        rows |-> 0]

ServerError == [status |-> 500, allowed |-> FALSE, reason |-> "EXCEPTION", rows |-> 0]

-----------------------------------------------------------------------------
Init ==
  /\ meta \in MetaVersion
  /\ store \in [Place -> Sizes]
  /\ pc = [r \in Request |-> "idle"]
  /\ call = [r \in Request |-> None]
  /\ snap = [r \in Request |-> None]
  /\ route = [r \in Request |-> NoDatasource]
  /\ code = [r \in Request |-> ""]
  /\ decision = [r \in Request |-> None]
  /\ result = [r \in Request |-> None]
  /\ ran = [r \in Request |-> <<>>]
  /\ audit = [r \in Request |-> <<>>]
  /\ reply = [r \in Request |-> None]

Goto(r, label) == pc' = [pc EXCEPT ![r] = label]
Decide(r, verdict) ==
  decision' = [decision EXCEPT ![r] = [allowed |-> verdict = "ALLOW", reason |-> verdict]]
Finish(r, allowed, reason, rows) ==
  result' = [result EXCEPT ![r] = [allowed |-> allowed, reason |-> reason, rows |-> rows]]

(* An exception leaves the handler: the session is rolled back and FastAPI *)
(* answers 500.                                                            *)
Fail(r) ==
  /\ Goto(r, "failed")
  /\ snap' = [snap EXCEPT ![r] = None]
  /\ reply' = [reply EXCEPT ![r] = ServerError]

-----------------------------------------------------------------------------
(* A client calls one of the endpoints.                                    *)
Receive(r) ==
  /\ pc[r] = "idle"
  /\ \E c \in Call : call' = [call EXCEPT ![r] = c]
  /\ Goto(r, "validate")
  /\ UNCHANGED <<meta, store, snap, route, code, decision, result, ran, audit, reply>>

(* Command and arguments: nothing of this needs the database.              *)
Validate(r) ==
  /\ pc[r] = "validate"
  /\ LET form    == CommandVerdict(call[r].command)
         verdict == IF form # "ALLOW" THEN form
                    ELSE ArgsVerdict(call[r].command, call[r].args)
     IN IF verdict = "ALLOW"
        THEN Goto(r, "route") /\ UNCHANGED <<code, decision>>
        ELSE /\ Decide(r, verdict)
             /\ code' = [code EXCEPT ![r] = IF verdict = "EMPTY_REDIS_COMMAND" THEN ""
                                            ELSE call[r].ctx.datasource]
             /\ Goto(r, "commit")
  /\ UNCHANGED <<meta, store, call, snap, route, result, ran, audit, reply>>

(* The session's one SELECT of the check, and the scope of every key.      *)
Route(r) ==
  /\ pc[r] = "route"
  /\ snap' = [snap EXCEPT ![r] = meta]
  /\ LET c       == call[r]
         found   == ResolveDatasource(meta, c.command, c.args, c.ctx)
         verdict == DatasourceVerdict(found, c.command, c.args)
     IN /\ route' = [route EXCEPT ![r] = found.ds]
        /\ code' = [code EXCEPT ![r] =
             IF c.ctx.datasource # "" THEN c.ctx.datasource
             ELSE IF found.ds = NoDatasource THEN "" ELSE found.ds.code]
        /\ Decide(r, verdict)
        /\ Goto(r, IF verdict = "ALLOW" /\ c.endpoint = "execute" THEN "preflight" ELSE "commit")
  /\ UNCHANGED <<meta, store, call, result, ran, audit, reply>>

(* execute reads the datasource again, and for HGETALL and SMEMBERS asks   *)
(* Redis for the size before it fetches anything.                          *)
Preflight(r) ==
  /\ pc[r] = "preflight"
  /\ LET command == call[r].command
         size    == store[<<code[r], call[r].args[1]>>]
     IN IF EnabledByCode(View(r), code[r]) = {}
        THEN Finish(r, FALSE, "REDIS_DATASOURCE_NOT_FOUND", 0) /\ Goto(r, "commit")
        ELSE IF command \in Collections /\ size > MaxItems
        THEN Finish(r, FALSE, "REDIS_RESULT_LIMIT_EXCEEDED", 0) /\ Goto(r, "commit")
        ELSE Goto(r, "run") /\ UNCHANGED result
  /\ UNCHANGED <<meta, store, call, snap, route, code, decision, ran, audit, reply>>

(* Redis answers the command, whatever comes of the answer.                *)
RowsNow(r) == Rows(call[r].command, call[r].args, store[<<code[r], call[r].args[1]>>])
RunCommand(r) ==
  ran' = [ran EXCEPT ![r] = Append(@,
           [ds |-> code[r], command |-> call[r].command, args |-> call[r].args,
            rows |-> RowsNow(r)])]

TooManyIsPreflight(rows) == FALSE    \* mutant: the size is only checked beforehand
TooMany(rows) == rows > MaxItems

Run(r) ==
  /\ pc[r] = "run"
  /\ RunCommand(r)
  /\ IF TooMany(RowsNow(r))
     THEN Finish(r, FALSE, "REDIS_RESULT_LIMIT_EXCEEDED", 0)
     ELSE Finish(r, TRUE, "EXECUTED", RowsNow(r))
  /\ Goto(r, "commit")
  /\ UNCHANGED <<meta, store, call, snap, route, code, decision, audit, reply>>

(* Redis answered, and the answer was lost or could not be decoded.        *)
RunBreaks(r) ==
  /\ pc[r] = "run"
  /\ RunCommand(r)
  /\ Fail(r)
  /\ UNCHANGED <<meta, store, call, route, code, decision, result, audit>>

(* The audit row is flushed and committed; the view ends with it.          *)
Commit(r) ==
  /\ pc[r] = "commit"
  /\ audit' = [audit EXCEPT ![r] = Append(@, AuditRow(r))]
  /\ snap' = [snap EXCEPT ![r] = None]
  /\ Goto(r, "respond")
  /\ UNCHANGED <<meta, store, call, route, code, decision, result, ran, reply>>

(* The commit took effect and its acknowledgement was lost.                *)
CommitUnacknowledged(r) ==
  /\ pc[r] = "commit"
  /\ audit' = [audit EXCEPT ![r] = Append(@, AuditRow(r))]
  /\ Fail(r)
  /\ UNCHANGED <<meta, store, call, route, code, decision, result, ran>>

Respond(r) ==
  /\ pc[r] = "respond"
  /\ reply' = [reply EXCEPT ![r] = Answer(r)]
  /\ Goto(r, "done")
  /\ UNCHANGED <<meta, store, call, snap, route, code, decision, result, ran, audit>>

(* The metadata database or Redis raises (no connection, a timeout, the    *)
(* wrong type for the command) before or instead of the step's effect.     *)
Raise(r) ==
  /\ pc[r] \in {"route", "preflight", "run", "commit"}
  /\ Fail(r)
  /\ UNCHANGED <<meta, store, call, route, code, decision, result, ran, audit>>

-----------------------------------------------------------------------------
InFlight(r) == pc[r] \notin {"idle", "done", "failed", "lost"}

(* The process dies with every handler in it.                              *)
Crash ==
  /\ \E r \in Request : InFlight(r)
  /\ pc' = [r \in Request |-> IF InFlight(r) THEN "lost" ELSE pc[r]]
  /\ snap' = [r \in Request |-> None]
  /\ UNCHANGED <<meta, store, call, route, code, decision, result, ran, audit, reply>>

(* Another session commits metadata. *)
CommitMetadata ==
  /\ \E m \in MetaVersion \ {meta} : meta' = m
  /\ UNCHANGED <<store, pc, call, snap, route, code, decision, result, ran, audit, reply>>

(* Another client of Redis adds to a key, takes from it or deletes it.     *)
ChangeStore ==
  /\ \E p \in Place, n \in Sizes : n # store[p] /\ store' = [store EXCEPT ![p] = n]
  /\ UNCHANGED <<meta, pc, call, snap, route, code, decision, result, ran, audit, reply>>

Handle(r) ==
  Validate(r) \/ Route(r) \/ Preflight(r) \/ Run(r) \/ Commit(r) \/ Respond(r)

Break(r) == RunBreaks(r) \/ CommitUnacknowledged(r) \/ Raise(r)

Next ==
  \/ \E r \in Request : Receive(r) \/ Handle(r) \/ Break(r)
  \/ Crash
  \/ CommitMetadata
  \/ ChangeStore

Spec == Init /\ [][Next]_vars

-----------------------------------------------------------------------------
(* Properties.                                                             *)

Over == {"done", "failed", "lost"}
BeforeCommit == {"idle", "validate", "route", "preflight", "run"}

Types ==
  /\ meta \in MetaVersion
  /\ store \in [Place -> Sizes]
  /\ pc \in [Request -> BeforeCommit \union {"commit", "respond"} \union Over]
  /\ call \in [Request -> Call \union {None}]
  /\ snap \in [Request -> MetaVersion \union {None}]
  /\ route \in [Request -> (UNION MetaVersion) \union {NoDatasource}]
  /\ decision \in [Request -> DecisionRecord \union {None}]
  /\ result \in [Request -> ResultRecord \union {None}]
  /\ reply \in [Request -> ReplyRecord \union {None}]
  /\ DOMAIN code = Request /\ DOMAIN ran = Request /\ DOMAIN audit = Request

(* Every variable holds values of its kind; a handler that goes to Redis   *)
(* reads a key that occurs; and a row says what its endpoint may say.      *)
TypeOK ==
  /\ Types
  /\ \A r \in Request :
       /\ pc[r] \in {"preflight", "run"} => <<code[r], call[r].args[1]>> \in Place
       /\ Len(ran[r]) <= 1 /\ Len(audit[r]) <= 1
       /\ \A i \in DOMAIN audit[r] :
            audit[r][i].decision \in
              {"REJECT", IF call[r].endpoint = "execute" THEN "EXECUTED" ELSE "ALLOW"}

(* What Redis answers for a client is in scope: a readonly command of an   *)
(* execute request, every key of which (the routing looks at the first     *)
(* only) is within the prefixes of the datasource it ran on, which was an  *)
(* enabled Redis at the time of the check and is the one the audit row     *)
(* names.                                                                  *)
KeysRead(run) ==
  {run.args[i] : i \in IF run.command \in {"MGET", "EXISTS"} THEN DOMAIN run.args ELSE {1}}

RunIsInScope ==
  \A r \in Request : \A i \in DOMAIN ran[r] :
    LET run == ran[r][i]
    IN /\ call[r].endpoint = "execute" /\ decision[r].allowed
       /\ run.command \in ReadonlyCommands \ DeniedCommands
       /\ route[r].enabled /\ route[r].type = "redis" /\ route[r].code = run.ds
       /\ \A key \in KeysRead(run) : InScope(route[r], key) /\ key \notin Wildcard
       /\ Cardinality(KeysRead(run)) <= MaxKeys
       /\ \A j \in DOMAIN audit[r] : audit[r][j].datasource = run.ds

(* However the collection grows between the size that was asked and the    *)
(* fetch, a client never gets more items than the limit, and what it gets  *)
(* is all that Redis answered.                                             *)
ReplyIsBounded ==
  \A r \in Request :
    reply[r] # None /\ reply[r].rows > 0 =>
      reply[r].rows <= MaxItems /\ reply[r].rows = ran[r][1].rows

(* The second lookup of the datasource never turns an approved command     *)
(* down: it reads the view the approval was made on.                       *)
ApprovalStands ==
  \A r \in Request : result[r] # None => result[r].reason # "REDIS_DATASOURCE_NOT_FOUND"

(* The abstract promise, under the mapping of SqlGateway.                  *)
Conclusion(r) ==
  CASE reply[r] = None -> None
    [] reply[r] # None /\ reply[r].status = 500 -> "FAILED"
    [] OTHER -> IF ~reply[r].allowed THEN "REJECT"
                ELSE IF call[r].endpoint = "execute" THEN "EXECUTED" ELSE "ALLOW"

Gate == INSTANCE AuditedGate WITH
  Nothing <- None,
  touched <- {r \in Request : ran[r] # <<>>},
  log     <- [r \in Request |-> IF audit[r] = <<>> THEN None ELSE audit[r][1].decision],
  told    <- [r \in Request |-> Conclusion(r)]

(* Every step of the Redis gateway is a step of AuditedGate or changes     *)
(* nothing it speaks of.                                                   *)
GateSpec == Gate!Spec

-----------------------------------------------------------------------------
(* The inductive invariant the proofs rest on, request by request.         *)

(* How far the check is, and what its approval stands on. *)
CheckInv(r) ==
  /\ pc[r] # "idle" => call[r] \in Call
  /\ pc[r] \in {"route", "preflight", "run"} =>
       CommandVerdict(call[r].command) = "ALLOW"
       /\ ArgsVerdict(call[r].command, call[r].args) = "ALLOW"
  /\ pc[r] \in {"idle", "validate", "route"} => decision[r] = None
  /\ pc[r] \in {"preflight", "run", "commit", "respond", "done"} => decision[r] # None
  /\ pc[r] \in {"preflight", "run"} =>
       /\ decision[r].allowed /\ call[r].endpoint = "execute"
       /\ snap[r] \in MetaVersion /\ route[r] \in snap[r]
       /\ <<code[r], call[r].args[1]>> \in Place
  /\ decision[r] # None /\ decision[r].allowed =>
       /\ CommandVerdict(call[r].command) = "ALLOW"
       /\ ArgsVerdict(call[r].command, call[r].args) = "ALLOW"
       /\ route[r].enabled /\ route[r].type = "redis" /\ route[r].code = code[r]
       /\ KeysVerdict(route[r], KeyArgs(call[r].command, call[r].args)) = "ALLOW"

(* A command was answered at most once, late, and as it was approved.      *)
RunInv(r) ==
  /\ pc[r] \in BeforeCommit => ran[r] = <<>> /\ result[r] = None
  /\ ran[r] # <<>> =>
       /\ Len(ran[r]) = 1
       /\ ran[r][1].ds = code[r] /\ ran[r][1].command = call[r].command
       /\ ran[r][1].args = call[r].args
       /\ decision[r] # None /\ decision[r].allowed /\ call[r].endpoint = "execute"
  /\ result[r] # None =>
       /\ call[r].endpoint = "execute"
       /\ result[r].reason # "REDIS_DATASOURCE_NOT_FOUND"
       /\ result[r].allowed => ran[r] # <<>>
       /\ result[r].rows > 0 =>
            ran[r] # <<>> /\ result[r].rows = ran[r][1].rows /\ result[r].rows <= MaxItems
  /\ pc[r] \in {"commit", "respond", "done"} /\ result[r] = None =>
       ran[r] = <<>> /\ (decision[r].allowed => call[r].endpoint = "check")

AuditInv(r) ==
  /\ audit[r] # <<>> =>
       /\ audit[r] = <<AuditRow(r)>>
       /\ pc[r] \in {"respond"} \union Over
       /\ decision[r] # None
       /\ result[r] = None =>
            ran[r] = <<>> /\ (decision[r].allowed => call[r].endpoint = "check")
  /\ pc[r] \in {"respond", "done"} => audit[r] # <<>>

ReplyInv(r) ==
  /\ pc[r] = "done" => reply[r] = Answer(r)
  /\ pc[r] = "failed" => reply[r] = ServerError
  /\ pc[r] \notin {"done", "failed"} => reply[r] = None

RequestInv(r) == CheckInv(r) /\ RunInv(r) /\ AuditInv(r) /\ ReplyInv(r)

IInv == Types /\ \A r \in Request : RequestInv(r)
=============================================================================
