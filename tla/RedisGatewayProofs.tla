------------------------ MODULE RedisGatewayProofs ------------------------
(***************************************************************************)
(* Theorems about RedisGateway for any number of requests, any commands,   *)
(* any datasources and any collections.                                    *)
(*                                                                         *)
(* First what the checks' answers mean, then one lemma per action that     *)
(* IInv is preserved, then the properties that follow from it, and the     *)
(* refinement of AuditedGate.                                              *)
(***************************************************************************)
EXTENDS RedisGateway, CheckChainProofs, FiniteSetTheorems

(* An accepted command is a readonly one. *)
LEMMA CommandVerdictCases ==
  ASSUME NEW command
  PROVE  /\ CommandVerdict(command) \in CheckReason \union {"ALLOW"}
         /\ CommandVerdict(command) = "ALLOW" => command \in ReadonlyCommands \ DeniedCommands
<1> DEFINE chain == <<
    Check(command = "", "EMPTY_REDIS_COMMAND"),
    Check(command \in DeniedCommands, "REDIS_COMMAND_DENIED"),
    Check(command \notin ReadonlyCommands, "REDIS_COMMAND_UNSUPPORTED") >>
<1>1. CommandVerdict(command) = FirstBlock(chain)
  BY Zenon DEF CommandVerdict
<1>2. DOMAIN chain = 1 .. 3
  OBVIOUS
<1>3. \A i \in 1 .. 3 : chain[i].reason \in CheckReason /\ chain[i].reason # "ALLOW"
  <2>1. /\ chain[1].reason = "EMPTY_REDIS_COMMAND"
        /\ chain[2].reason = "REDIS_COMMAND_DENIED"
        /\ chain[3].reason = "REDIS_COMMAND_UNSUPPORTED"
    BY DEF Check
  <2>2. "ALLOW" \notin CheckReason
    BY DEF CheckReason
  <2> HIDE DEF chain
  <2> QED BY <2>1, <2>2 DEF CheckReason
<1>4. /\ chain[2].blocks = (command \in DeniedCommands)
      /\ chain[3].blocks = (command \notin ReadonlyCommands)
  BY DEF Check
<1> HIDE DEF chain
<1>5. FirstBlock(chain) \in CheckReason \union {"ALLOW"}
  BY <1>2, <1>3, FirstBlockCases
<1>6. FirstBlock(chain) = "ALLOW" => \A i \in 1 .. 3 : ~ chain[i].blocks
  BY <1>2, <1>3, FirstBlockCases
<1>7. FirstBlock(chain) = "ALLOW" => ~ chain[2].blocks /\ ~ chain[3].blocks
  BY <1>6
<1> QED BY <1>1, <1>4, <1>5, <1>7, Zenon

(* Accepted arguments: a key there is, not too many of them, a range that  *)
(* is one.                                                                 *)
LEMMA ArgsVerdictCases ==
  ASSUME NEW command, NEW args
  PROVE  /\ ArgsVerdict(command, args) \in CheckReason \union {"ALLOW"}
         /\ ArgsVerdict(command, args) = "ALLOW" =>
              /\ command \in OneArgument => Len(args) = 1
              /\ command = "HGET" => Len(args) = 2
              /\ command \in ManyKeys => Len(args) \in 1 .. MaxKeys
              /\ command = "HMGET" => ~ (Len(args) < 2)
              /\ command \in Ranges => RangeIsSound(args)
<1> DEFINE chain == <<
    Check(command \in OneArgument /\ Len(args) # 1, "REDIS_ARG_COUNT_INVALID"),
    Check(command = "HGET" /\ Len(args) # 2, "REDIS_ARG_COUNT_INVALID"),
    Check(command \in ManyKeys /\ Len(args) \notin 1 .. MaxKeys, "REDIS_TOO_MANY_KEYS"),
    Check(command = "HMGET" /\ Len(args) < 2, "REDIS_ARG_COUNT_INVALID"),
    Check(command \in Ranges /\ Len(args) # 3, "REDIS_ARG_COUNT_INVALID"),
    Check(command \in Ranges /\ ~RangeIsSound(args), "REDIS_RANGE_INVALID"),
    Check(/\ command \in Ranges /\ RangeIsSound(args)
          /\ Numeral[args[3]] - Numeral[args[2]] + 1 > MaxItems,
          "REDIS_RANGE_LIMIT_EXCEEDED") >>
<1>1. ArgsVerdict(command, args) = FirstBlock(chain)
  BY Zenon DEF ArgsVerdict
<1>2. DOMAIN chain = 1 .. 7
  OBVIOUS
<1>3. \A i \in 1 .. 7 : chain[i].reason \in CheckReason /\ chain[i].reason # "ALLOW"
  <2>1. /\ chain[1].reason = "REDIS_ARG_COUNT_INVALID"
        /\ chain[2].reason = "REDIS_ARG_COUNT_INVALID"
        /\ chain[3].reason = "REDIS_TOO_MANY_KEYS"
        /\ chain[4].reason = "REDIS_ARG_COUNT_INVALID"
        /\ chain[5].reason = "REDIS_ARG_COUNT_INVALID"
        /\ chain[6].reason = "REDIS_RANGE_INVALID"
        /\ chain[7].reason = "REDIS_RANGE_LIMIT_EXCEEDED"
    BY DEF Check
  <2>2. "ALLOW" \notin CheckReason
    BY DEF CheckReason
  <2> HIDE DEF chain
  <2> QED BY <2>1, <2>2 DEF CheckReason
<1>4. /\ chain[1].blocks = (command \in OneArgument /\ Len(args) # 1)
      /\ chain[2].blocks = (command = "HGET" /\ Len(args) # 2)
      /\ chain[3].blocks = (command \in ManyKeys /\ Len(args) \notin 1 .. MaxKeys)
      /\ chain[4].blocks = (command = "HMGET" /\ Len(args) < 2)
      /\ chain[6].blocks = (command \in Ranges /\ ~RangeIsSound(args))
  BY DEF Check
<1> HIDE DEF chain
<1>5. FirstBlock(chain) \in CheckReason \union {"ALLOW"}
  BY <1>2, <1>3, FirstBlockCases
<1>6. FirstBlock(chain) = "ALLOW" => \A i \in 1 .. 7 : ~ chain[i].blocks
  BY <1>2, <1>3, FirstBlockCases
<1>7. FirstBlock(chain) = "ALLOW" =>
        /\ ~ chain[1].blocks /\ ~ chain[2].blocks /\ ~ chain[3].blocks
        /\ ~ chain[4].blocks /\ ~ chain[6].blocks
  BY <1>6
<1> QED BY <1>1, <1>4, <1>5, <1>7, Zenon

(* An accepted key is in scope and no pattern. *)
LEMMA KeyVerdictCases ==
  ASSUME NEW d, NEW key
  PROVE  /\ KeyVerdict(d, key) \in CheckReason \union {"ALLOW"}
         /\ KeyVerdict(d, key) = "ALLOW" => InScope(d, key) /\ key \notin Wildcard
<1> DEFINE chain == <<
    Check(key = "", "REDIS_KEY_EMPTY"),
    Check(KeyLength[key] > MaxKeyLength, "REDIS_KEY_TOO_LONG"),
    Check(key \in Wildcard, "REDIS_KEY_PATTERN_DENIED"),
    Check(~InScope(d, key), "REDIS_KEY_SCOPE_DENIED") >>
<1>1. KeyVerdict(d, key) = FirstBlock(chain)
  BY Zenon DEF KeyVerdict
<1>2. DOMAIN chain = 1 .. 4
  OBVIOUS
<1>3. \A i \in 1 .. 4 : chain[i].reason \in CheckReason /\ chain[i].reason # "ALLOW"
  <2>1. /\ chain[1].reason = "REDIS_KEY_EMPTY"
        /\ chain[2].reason = "REDIS_KEY_TOO_LONG"
        /\ chain[3].reason = "REDIS_KEY_PATTERN_DENIED"
        /\ chain[4].reason = "REDIS_KEY_SCOPE_DENIED"
    BY DEF Check
  <2>2. "ALLOW" \notin CheckReason
    BY DEF CheckReason
  <2> HIDE DEF chain
  <2> QED BY <2>1, <2>2 DEF CheckReason
<1>4. chain[3].blocks = (key \in Wildcard) /\ chain[4].blocks = (~InScope(d, key))
  BY DEF Check
<1> HIDE DEF chain
<1>5. FirstBlock(chain) \in CheckReason \union {"ALLOW"}
  BY <1>2, <1>3, FirstBlockCases
<1>6. FirstBlock(chain) = "ALLOW" => \A i \in 1 .. 4 : ~ chain[i].blocks
  BY <1>2, <1>3, FirstBlockCases
<1>7. FirstBlock(chain) = "ALLOW" => ~ chain[3].blocks /\ ~ chain[4].blocks
  BY <1>6
<1> QED BY <1>1, <1>4, <1>5, <1>7, Zenon

LEMMA KeysVerdictCases ==
  ASSUME NEW d, NEW keys \in Seq(STRING)
  PROVE  /\ KeysVerdict(d, keys) \in CheckReason \union {"ALLOW"}
         /\ KeysVerdict(d, keys) = "ALLOW" =>
              \A i \in DOMAIN keys : InScope(d, keys[i]) /\ keys[i] \notin Wildcard
<1> DEFINE chain == [i \in DOMAIN keys |->
      Check(KeyVerdict(d, keys[i]) # "ALLOW", KeyVerdict(d, keys[i]))]
           n == Len(keys)
<1>1. KeysVerdict(d, keys) = FirstBlock(chain)
  BY Zenon DEF KeysVerdict
<1>2. DOMAIN chain = 1 .. n /\ n \in Nat /\ DOMAIN keys = 1 .. n
  OBVIOUS
<1>3. \A i \in 1 .. n : /\ chain[i].reason = KeyVerdict(d, keys[i])
                        /\ chain[i].blocks = (KeyVerdict(d, keys[i]) # "ALLOW")
  BY DEF Check
<1> HIDE DEF chain, n
<1>4. FirstBlock(chain) \in CheckReason \union {"ALLOW"}
  BY <1>2, <1>3, FirstBlockCases, KeyVerdictCases
<1>5. FirstBlock(chain) = "ALLOW" => \A i \in 1 .. n : KeyVerdict(d, keys[i]) = "ALLOW"
  BY <1>2, <1>3, FirstBlockCases
<1> QED BY <1>1, <1>2, <1>4, <1>5, KeyVerdictCases

(* The keys of a command whose form is accepted: its first argument or all.*)
LEMMA KeyArgsCases ==
  ASSUME NEW command, NEW args \in Seq(STRING),
         CommandVerdict(command) = "ALLOW", ArgsVerdict(command, args) = "ALLOW"
  PROVE  /\ Len(args) >= 1
         /\ KeyArgs(command, args) \in Seq(STRING)
         /\ Len(KeyArgs(command, args)) >= 1
         /\ KeyArgs(command, args)[1] = args[1]
         /\ command \in ManyKeys => KeyArgs(command, args) = args /\ Len(args) <= MaxKeys
<1>1. command \in ReadonlyCommands
  BY CommandVerdictCases
<1>2. /\ command \in OneArgument => Len(args) = 1
      /\ command = "HGET" => Len(args) = 2
      /\ command \in ManyKeys => Len(args) \in 1 .. MaxKeys
      /\ command = "HMGET" => ~ (Len(args) < 2)
      /\ command \in Ranges => Len(args) = 3
  BY ArgsVerdictCases DEF RangeIsSound
<1>3. command \in OneArgument \union {"HGET", "HMGET"} \union ManyKeys \union Ranges
  BY <1>1 DEF ReadonlyCommands, OneArgument, ManyKeys, Ranges
<1>4. Len(args) >= 1 /\ (command \in ManyKeys => Len(args) <= MaxKeys)
  BY <1>2, <1>3, BoundsAssumption
<1>5. SubSeq(args, 1, 1) \in Seq(STRING) /\ Len(SubSeq(args, 1, 1)) = 1
      /\ SubSeq(args, 1, 1)[1] = args[1]
  BY <1>4
<1>6. CASE command \in ManyKeys
  <2>1. KeyArgs(command, args) = args
    BY <1>6 DEF KeyArgs
  <2> QED BY <1>4, <1>6, <2>1
<1>7. CASE command \notin ManyKeys
  <2>1. KeyArgs(command, args) = SubSeq(args, 1, 1)
    BY <1>7 DEF KeyArgs
  <2> QED BY <1>4, <1>5, <1>7, <2>1
<1> QED BY <1>6, <1>7

(* The routing finds an enabled datasource of the view, the named one if   *)
(* one is named, or gives a reason.                                        *)
Located(m, ctx, found) ==
  \/ /\ found.ds = NoDatasource /\ found.reason \in CheckReason
  \/ /\ found.ds \in m /\ found.ds # NoDatasource /\ found.ds.enabled
     /\ ctx.datasource # "" => found.ds.code = ctx.datasource

LEMMA ResolveCases ==
  ASSUME NEW m \in MetaVersion, NEW command, NEW args, NEW ctx
  PROVE  Located(m, ctx, ResolveDatasource(m, command, args, ctx))
<1>1. \A reason \in CheckReason : Located(m, ctx, NotFound(reason))
  BY DEF NotFound, Located
<1>2. ASSUME NEW d \in m, d.enabled, ctx.datasource # "" => d.code = ctx.datasource
      PROVE  Located(m, ctx, Found(d))
  BY <1>2, NoneAssumption DEF Found, Located
<1>3. Located(m, ctx, ResolveByCode(m, ctx.datasource))
  <2> DEFINE named == EnabledByCode(m, ctx.datasource)
             d == CHOOSE x \in named : TRUE
  <2>1. CASE named = {}
    BY <1>1, <2>1 DEF ResolveByCode, CheckReason
  <2>2. CASE named # {}
    <3>1. d \in named
      BY <2>2
    <3>2. d \in m /\ d.enabled /\ d.code = ctx.datasource
      BY <3>1 DEF EnabledByCode
    <3>3. ResolveByCode(m, ctx.datasource) = Found(d)
      BY <2>2 DEF ResolveByCode
    <3> HIDE DEF d
    <3> QED BY <1>2, <3>2, <3>3
  <2> QED BY <2>1, <2>2
<1>4. ASSUME NEW keys, ctx.datasource = ""
      PROVE  Located(m, ctx, ResolveByCatalog(m, ctx.catalog, keys))
  <2> DEFINE ofCatalog == {d \in m : d.enabled /\ d.type = "redis" /\ d.catalog = ctx.catalog}
             matching == {d \in ofCatalog : keys[1] = "" \/ InScope(d, keys[1])}
             d == CHOOSE x \in matching : TRUE
  <2>0. ResolveByCatalog(m, ctx.catalog, keys) =
          CASE Cardinality(matching) = 1 -> Found(d)
            [] Cardinality(matching) = 0 -> NotFound("REDIS_ROUTE_NOT_FOUND")
            [] OTHER -> NotFound("REDIS_ROUTE_AMBIGUOUS")
    BY Zenon DEF ResolveByCatalog
  <2>1. CASE Cardinality(matching) = 1
    <3>1. matching # {}
      <4>1. \A S : Cardinality(S) = 1 => S # {}
        BY FS_EmptySet
      <4> QED BY <2>1, <4>1, Zenon
    <3>2. d \in matching
      BY <3>1
    <3>3. d \in m /\ d.enabled
      BY <3>2
    <3> HIDE DEF d, matching
    <3>4. ResolveByCatalog(m, ctx.catalog, keys) = Found(d)
      BY <2>0, <2>1
    <3> QED BY <1>2, <1>4, <3>3, <3>4
  <2>2. CASE Cardinality(matching) # 1
    <3>1. \/ ResolveByCatalog(m, ctx.catalog, keys) = NotFound("REDIS_ROUTE_NOT_FOUND")
          \/ ResolveByCatalog(m, ctx.catalog, keys) = NotFound("REDIS_ROUTE_AMBIGUOUS")
      BY <2>0, <2>2
    <3>2. "REDIS_ROUTE_NOT_FOUND" \in CheckReason /\ "REDIS_ROUTE_AMBIGUOUS" \in CheckReason
      BY DEF CheckReason
    <3> QED BY <1>1, <3>1, <3>2
  <2> QED BY <2>1, <2>2
<1>5. "REDIS_ROUTE_CONTEXT_REQUIRED" \in CheckReason
  BY DEF CheckReason
<1> QED BY <1>1, <1>3, <1>4, <1>5 DEF ResolveDatasource

(* What an approval of the datasource and the keys means.                  *)
LEMMA DatasourceVerdictCases ==
  ASSUME NEW m \in MetaVersion, NEW c \in Call,
         CommandVerdict(c.command) = "ALLOW", ArgsVerdict(c.command, c.args) = "ALLOW"
  PROVE  LET found   == ResolveDatasource(m, c.command, c.args, c.ctx)
             verdict == DatasourceVerdict(found, c.command, c.args)
         IN /\ found.ds \in m \union {NoDatasource}
            /\ verdict \in CheckReason \union {"ALLOW"}
            /\ verdict = "ALLOW" =>
                 /\ found.ds \in m /\ found.ds # NoDatasource
                 /\ found.ds.enabled /\ found.ds.type = "redis"
                 /\ c.ctx.datasource # "" => found.ds.code = c.ctx.datasource
                 /\ KeysVerdict(found.ds, KeyArgs(c.command, c.args)) = "ALLOW"
<1> DEFINE found == ResolveDatasource(m, c.command, c.args, c.ctx)
           keys == KeyArgs(c.command, c.args)
<1>1. Located(m, c.ctx, found)
  BY ResolveCases
<1>2. keys \in Seq(STRING)
  BY KeyArgsCases, CallAssumption
<1>3. DatasourceVerdict(found, c.command, c.args) =
        IF found.ds = NoDatasource THEN found.reason
        ELSE IF found.ds.type # "redis" THEN "REDIS_DATASOURCE_TYPE_INVALID"
        ELSE KeysVerdict(found.ds, keys)
  BY DEF DatasourceVerdict
<1> HIDE DEF found, keys
<1>4. KeysVerdict(found.ds, keys) \in CheckReason \union {"ALLOW"}
  BY <1>2, KeysVerdictCases
<1>5. "REDIS_DATASOURCE_TYPE_INVALID" \in CheckReason /\ "ALLOW" \notin CheckReason
  BY DEF CheckReason
<1>6. /\ found.ds \in m \union {NoDatasource}
      /\ DatasourceVerdict(found, c.command, c.args) \in CheckReason \union {"ALLOW"}
      /\ DatasourceVerdict(found, c.command, c.args) = "ALLOW" =>
           /\ found.ds \in m /\ found.ds # NoDatasource
           /\ found.ds.enabled /\ found.ds.type = "redis"
           /\ c.ctx.datasource # "" => found.ds.code = c.ctx.datasource
           /\ KeysVerdict(found.ds, keys) = "ALLOW"
  BY <1>1, <1>3, <1>4, <1>5 DEF Located
<1> QED BY <1>6 DEF found, keys

(* The answer to an accepted command has a number of rows.                 *)
LEMMA RowsType ==
  ASSUME NEW command, NEW args \in Seq(STRING), NEW size \in Nat,
         CommandVerdict(command) = "ALLOW", ArgsVerdict(command, args) = "ALLOW"
  PROVE  Rows(command, args, size) \in Nat
<1>1. Len(args) \in Nat /\ Len(args) >= 1
  BY KeyArgsCases
<1>2. CASE command \in Ranges
  <2>1. RangeIsSound(args)
    BY <1>2, ArgsVerdictCases
  <2>2. /\ Numeral[args[2]] \in Nat /\ Numeral[args[3]] \in Nat
        /\ Numeral[args[2]] <= Numeral[args[3]]
    BY <2>1, BoundsAssumption DEF RangeIsSound
  <2>3. command \notin {"MGET", "HMGET"} \union Collections
    BY <1>2 DEF Ranges, Collections
  <2> QED BY <1>2, <2>2, <2>3 DEF Rows
<1>3. CASE command \notin Ranges
  BY <1>1, <1>3 DEF Rows
<1> QED BY <1>2, <1>3

-----------------------------------------------------------------------------
(* Nothing of request q changes. *)
Same(q) ==
  /\ pc'[q] = pc[q] /\ call'[q] = call[q] /\ snap'[q] = snap[q] /\ route'[q] = route[q]
  /\ code'[q] = code[q] /\ decision'[q] = decision[q] /\ result'[q] = result[q]
  /\ ran'[q] = ran[q] /\ audit'[q] = audit[q] /\ reply'[q] = reply[q]

(* The parts of RequestInv speak of one request only. *)
LEMMA Frame ==
  ASSUME NEW q \in Request, Same(q), RequestInv(q)
  PROVE  RequestInv(q)'
<1>1. AuditRow(q)' = AuditRow(q) /\ Answer(q)' = Answer(q)
  BY DEF Same, AuditRow, Answer
<1>2. CheckInv(q)'
  BY DEF Same, RequestInv, CheckInv
<1>3. RunInv(q)'
  BY DEF Same, RequestInv, RunInv
<1>4. AuditInv(q)'
  BY <1>1 DEF Same, RequestInv, AuditInv
<1>5. ReplyInv(q)'
  BY <1>1 DEF Same, RequestInv, ReplyInv, ServerError
<1> QED BY <1>2, <1>3, <1>4, <1>5 DEF RequestInv

(* A step of request r preserves IInv when it preserves the types and r's  *)
(* own part, and leaves the other requests alone.                          *)
LEMMA Lift ==
  ASSUME IInv, NEW r \in Request, Types', \A q \in Request \ {r} : Same(q), RequestInv(r)'
  PROVE  IInv'
<1>1. ASSUME NEW q \in Request PROVE RequestInv(q)'
  <2>1. CASE q = r BY <2>1
  <2>2. CASE q # r
    <3>1. Same(q) /\ RequestInv(q) BY <2>2 DEF IInv
    <3> QED BY <3>1, Frame
  <2> QED BY <2>1, <2>2
<1> QED BY <1>1 DEF IInv

LEMMA InitInv == Init => IInv
<1> SUFFICES ASSUME Init PROVE IInv
  OBVIOUS
<1>1. Types
  BY DEF Init, Types, BeforeCommit
<1>2. ASSUME NEW r \in Request PROVE RequestInv(r)
  <2>1. /\ pc[r] = "idle" /\ decision[r] = None /\ result[r] = None /\ ran[r] = <<>>
        /\ audit[r] = <<>> /\ reply[r] = None
    BY DEF Init
  <2> QED BY <2>1 DEF RequestInv, CheckInv, RunInv, AuditInv, ReplyInv, BeforeCommit, Over
<1> QED BY <1>1, <1>2 DEF IInv

(* What is known of a request whose handler is before its commit.          *)
LEMMA NothingYet ==
  ASSUME NEW r \in Request, RequestInv(r), pc[r] \in BeforeCommit
  PROVE  /\ pc[r] # "idle" => call[r] \in Call
         /\ ran[r] = <<>> /\ audit[r] = <<>> /\ result[r] = None /\ reply[r] = None
         /\ pc[r] \in {"idle", "validate", "route"} => decision[r] = None
BY DEF RequestInv, CheckInv, RunInv, AuditInv, ReplyInv, BeforeCommit, Over

LEMMA ReceiveInv ==
  ASSUME IInv, NEW r \in Request, Receive(r)
  PROVE  IInv'
<1>1. Types /\ RequestInv(r) /\ pc[r] = "idle"
  BY DEF IInv, Receive
<1>2. Types'
  BY <1>1 DEF Types, Receive, Goto, BeforeCommit
<1>3. \A q \in Request \ {r} : Same(q)
  BY <1>1 DEF Types, Receive, Goto, Same
<1>4. /\ pc'[r] = "validate" /\ call'[r] \in Call
      /\ UNCHANGED <<decision[r], result[r], ran[r], audit[r], reply[r]>>
  BY <1>1 DEF Types, Receive, Goto
<1>5. /\ ran[r] = <<>> /\ audit[r] = <<>> /\ result[r] = None /\ reply[r] = None
      /\ decision[r] = None
  BY <1>1, NothingYet DEF BeforeCommit
<1>6. RequestInv(r)'
  BY <1>4, <1>5 DEF RequestInv, CheckInv, RunInv, AuditInv, ReplyInv, BeforeCommit, Over
<1> QED BY <1>2, <1>3, <1>6, Lift

(* A rejection goes to the audit log with nothing run. *)
LEMMA RejectionInv ==
  ASSUME NEW r \in Request, call'[r] \in Call, pc'[r] = "commit",
         decision'[r] # None, ~ decision'[r].allowed,
         result'[r] = None, ran'[r] = <<>>, audit'[r] = <<>>, reply'[r] = None
  PROVE  RequestInv(r)'
BY DEF RequestInv, CheckInv, RunInv, AuditInv, ReplyInv, BeforeCommit, Over

LEMMA DecisionType ==
  ASSUME NEW verdict \in CheckReason \union {"ALLOW"}
  PROVE  /\ [allowed |-> verdict = "ALLOW", reason |-> verdict] \in DecisionRecord
         /\ [allowed |-> verdict = "ALLOW", reason |-> verdict] # None
<1>1. [allowed |-> verdict = "ALLOW", reason |-> verdict] \in DecisionRecord
  BY DEF DecisionRecord, Reason
<1> QED BY <1>1, NoneAssumption

LEMMA ValidateInv ==
  ASSUME IInv, NEW r \in Request, Validate(r)
  PROVE  IInv'
<1> DEFINE form == CommandVerdict(call[r].command)
           verdict == IF form # "ALLOW" THEN form
                      ELSE ArgsVerdict(call[r].command, call[r].args)
<1>1. Types /\ RequestInv(r) /\ pc[r] = "validate"
  BY DEF IInv, Validate
<1>2. /\ call[r] \in Call /\ ran[r] = <<>> /\ audit[r] = <<>> /\ result[r] = None
      /\ reply[r] = None /\ decision[r] = None
  BY <1>1, NothingYet DEF BeforeCommit
<1>3. verdict \in CheckReason \union {"ALLOW"}
  BY CommandVerdictCases, ArgsVerdictCases
<1>4. verdict = "ALLOW" => /\ CommandVerdict(call[r].command) = "ALLOW"
                           /\ ArgsVerdict(call[r].command, call[r].args) = "ALLOW"
  OBVIOUS
<1>5. /\ UNCHANGED <<meta, store, call, snap, route, result, ran, audit, reply>>
      /\ \/ verdict = "ALLOW" /\ Goto(r, "route") /\ UNCHANGED <<code, decision>>
         \/ /\ verdict # "ALLOW" /\ Decide(r, verdict) /\ Goto(r, "commit")
            /\ \E name : code' = [code EXCEPT ![r] = name]
  BY DEF Validate
<1> HIDE DEF verdict
<1>6. CASE verdict = "ALLOW" /\ Goto(r, "route") /\ UNCHANGED <<code, decision>>
  <2>1. Types'
    BY <1>1, <1>5, <1>6 DEF Types, Goto, BeforeCommit
  <2>2. \A q \in Request \ {r} : Same(q)
    BY <1>1, <1>5, <1>6 DEF Types, Goto, Same
  <2>3. pc'[r] = "route"
    BY <1>1, <1>6 DEF Types, Goto
  <2>4. RequestInv(r)'
    BY <1>2, <1>4, <1>5, <1>6, <2>3 DEF RequestInv, CheckInv, RunInv, AuditInv, ReplyInv,
                                        BeforeCommit, Over
  <2> QED BY <2>1, <2>2, <2>4, Lift
<1>7. CASE /\ verdict # "ALLOW" /\ Decide(r, verdict) /\ Goto(r, "commit")
           /\ \E name : code' = [code EXCEPT ![r] = name]
  <2>1. decision' = [decision EXCEPT ![r] = [allowed |-> verdict = "ALLOW", reason |-> verdict]]
    BY <1>7 DEF Decide
  <2>2. Types'
    BY <1>1, <1>3, <1>5, <1>7, <2>1, DecisionType DEF Types, Goto, BeforeCommit
  <2>3. \A q \in Request \ {r} : Same(q)
    BY <1>1, <1>5, <1>7, <2>1 DEF Types, Goto, Same
  <2>4. pc'[r] = "commit"
    BY <1>1, <1>7 DEF Types, Goto
  <2>5. decision'[r] = [allowed |-> verdict = "ALLOW", reason |-> verdict]
    BY <1>1, <2>1 DEF Types
  <2>6. decision'[r] # None /\ ~ decision'[r].allowed
    <3>1. decision'[r].allowed = (verdict = "ALLOW")
      BY <2>5
    <3>2. decision'[r] # None
      BY <1>3, <2>5, DecisionType
    <3> QED BY <1>7, <3>1, <3>2
  <2>7. RequestInv(r)'
    BY <1>2, <1>5, <2>4, <2>6, RejectionInv
  <2> QED BY <2>2, <2>3, <2>7, Lift
<1> QED BY <1>5, <1>6, <1>7

LEMMA RouteInv ==
  ASSUME IInv, NEW r \in Request, Route(r)
  PROVE  IInv'
<1> DEFINE c == call[r]
           found == ResolveDatasource(meta, c.command, c.args, c.ctx)
           verdict == DatasourceVerdict(found, c.command, c.args)
           name == IF c.ctx.datasource # "" THEN c.ctx.datasource
                   ELSE IF found.ds = NoDatasource THEN "" ELSE found.ds.code
           label == IF verdict = "ALLOW" /\ c.endpoint = "execute" THEN "preflight" ELSE "commit"
<1>1. Types /\ RequestInv(r) /\ pc[r] = "route"
  BY DEF IInv, Route
<1>2. /\ c \in Call /\ ran[r] = <<>> /\ audit[r] = <<>> /\ result[r] = None /\ reply[r] = None
  BY <1>1, NothingYet DEF BeforeCommit
<1>3. CommandVerdict(c.command) = "ALLOW" /\ ArgsVerdict(c.command, c.args) = "ALLOW"
  BY <1>1 DEF RequestInv, CheckInv
<1>4. meta \in MetaVersion
  BY <1>1 DEF Types
<1>5. /\ snap' = [snap EXCEPT ![r] = meta]
      /\ route' = [route EXCEPT ![r] = found.ds]
      /\ code' = [code EXCEPT ![r] = name]
      /\ decision' = [decision EXCEPT ![r] = [allowed |-> verdict = "ALLOW", reason |-> verdict]]
      /\ pc' = [pc EXCEPT ![r] = label]
      /\ UNCHANGED <<meta, store, call, result, ran, audit, reply>>
  BY DEF Route, Decide, Goto
<1>6. /\ found.ds \in meta \union {NoDatasource}
      /\ verdict \in CheckReason \union {"ALLOW"}
      /\ verdict = "ALLOW" =>
           /\ found.ds \in meta /\ found.ds # NoDatasource
           /\ found.ds.enabled /\ found.ds.type = "redis"
           /\ c.ctx.datasource # "" => found.ds.code = c.ctx.datasource
           /\ KeysVerdict(found.ds, KeyArgs(c.command, c.args)) = "ALLOW"
  <2> HIDE DEF c
  <2> QED BY <1>2, <1>3, <1>4, DatasourceVerdictCases
<1>7. verdict = "ALLOW" => name = found.ds.code /\ <<found.ds.code, c.args[1]>> \in Place
  <2>1. verdict = "ALLOW" => Approved(meta, c)
    BY <1>3 DEF Approved
  <2>2. verdict = "ALLOW" => <<found.ds.code, c.args[1]>> \in Place
    <3> HIDE DEF c
    <3> QED BY <1>2, <1>4, <2>1, PlaceAssumption
  <2> HIDE DEF verdict, found
  <2> QED BY <1>6, <2>2
<1>8. /\ label \in {"preflight", "commit"}
      /\ label = "preflight" => verdict = "ALLOW" /\ c.endpoint = "execute"
      /\ label = "commit" => verdict # "ALLOW" \/ c.endpoint = "check"
  BY <1>2, CallAssumption DEF Endpoint
<1> DEFINE made == [allowed |-> verdict = "ALLOW", reason |-> verdict]
<1>9. made \in DecisionRecord /\ made # None /\ made.allowed = (verdict = "ALLOW")
  <2> HIDE DEF verdict
  <2> QED BY <1>6, DecisionType
<1>10. decision' = [decision EXCEPT ![r] = made]
  BY <1>5
<1> HIDE DEF made, label, name, verdict, found
<1>11. Types'
  <2>1. found.ds \in (UNION MetaVersion) \union {NoDatasource}
    BY <1>4, <1>6
  <2>2. route' \in [Request -> (UNION MetaVersion) \union {NoDatasource}]
    BY <1>1, <1>5, <2>1 DEF Types
  <2>3. decision' \in [Request -> DecisionRecord \union {None}]
    BY <1>1, <1>9, <1>10 DEF Types
  <2>4. snap' \in [Request -> MetaVersion \union {None}]
    BY <1>1, <1>4, <1>5 DEF Types
  <2>5. pc' \in [Request -> BeforeCommit \union {"commit", "respond"} \union Over]
    BY <1>1, <1>5, <1>8 DEF Types, BeforeCommit
  <2> QED BY <1>1, <1>5, <2>2, <2>3, <2>4, <2>5 DEF Types
<1>12. \A q \in Request \ {r} : Same(q)
  BY <1>1, <1>5 DEF Types, Same
<1>13. /\ pc'[r] = label /\ snap'[r] = meta /\ route'[r] = found.ds /\ code'[r] = name
       /\ decision'[r] = made
  BY <1>1, <1>5, <1>10 DEF Types
<1>14. CheckInv(r)'
  BY <1>2, <1>3, <1>4, <1>5, <1>6, <1>7, <1>8, <1>9, <1>13 DEF CheckInv
<1>15. RunInv(r)'
  BY <1>2, <1>5, <1>8, <1>9, <1>13 DEF RunInv
<1>16. AuditInv(r)' /\ ReplyInv(r)'
  BY <1>2, <1>5, <1>8, <1>13 DEF AuditInv, ReplyInv
<1> QED BY <1>11, <1>12, <1>14, <1>15, <1>16, Lift DEF RequestInv

-----------------------------------------------------------------------------
(* What holds when the handler goes to Redis.                              *)
LEMMA AtRedis ==
  ASSUME IInv, NEW r \in Request, pc[r] \in {"preflight", "run"}
  PROVE  /\ CommandVerdict(call[r].command) = "ALLOW"
         /\ ArgsVerdict(call[r].command, call[r].args) = "ALLOW"
         /\ call[r] \in Call /\ call[r].endpoint = "execute"
         /\ decision[r] # None /\ decision[r].allowed
         /\ route[r] \in EnabledByCode(View(r), code[r])
         /\ store[<<code[r], call[r].args[1]>>] \in Nat
<1>1. RequestInv(r) /\ Types
  BY DEF IInv
<1>2. <<code[r], call[r].args[1]>> \in Place
  BY <1>1 DEF RequestInv, CheckInv
<1>3. store[<<code[r], call[r].args[1]>>] \in Nat
  BY <1>1, <1>2, BoundsAssumption DEF Types
<1> QED BY <1>1, <1>3 DEF RequestInv, CheckInv, EnabledByCode, View

LEMMA ResultType ==
  ASSUME NEW allowed \in BOOLEAN, NEW reason \in ResultReason, NEW rows \in Nat
  PROVE  /\ [allowed |-> allowed, reason |-> reason, rows |-> rows] \in ResultRecord
         /\ [allowed |-> allowed, reason |-> reason, rows |-> rows] # None
<1>1. [allowed |-> allowed, reason |-> reason, rows |-> rows] \in ResultRecord
  BY DEF ResultRecord, Reason
<1> QED BY <1>1, NoneAssumption

LEMMA PreflightInv ==
  ASSUME IInv, NEW r \in Request, Preflight(r)
  PROVE  IInv'
<1>1. Types /\ RequestInv(r) /\ pc[r] = "preflight"
  BY DEF IInv, Preflight
<1>2. /\ ran[r] = <<>> /\ audit[r] = <<>> /\ result[r] = None /\ reply[r] = None
      /\ call[r] \in Call
  BY <1>1, NothingYet DEF BeforeCommit
<1>3. EnabledByCode(View(r), code[r]) # {}
  BY <1>1, AtRedis
<1> DEFINE full == [allowed |-> FALSE, reason |-> "REDIS_RESULT_LIMIT_EXCEEDED", rows |-> 0]
<1>4. /\ UNCHANGED <<meta, store, call, snap, route, code, decision, ran, audit, reply>>
      /\ \/ result' = [result EXCEPT ![r] = full] /\ pc' = [pc EXCEPT ![r] = "commit"]
         \/ UNCHANGED result /\ pc' = [pc EXCEPT ![r] = "run"]
  BY <1>3 DEF Preflight, Finish, Goto
<1>5. full \in ResultRecord /\ full # None
  BY ResultType DEF ResultReason
<1>6. full.rows = 0 /\ ~ full.allowed /\ full.reason # "REDIS_DATASOURCE_NOT_FOUND"
  OBVIOUS
<1> HIDE DEF full
<1>7. Types'
  BY <1>1, <1>4, <1>5 DEF Types, BeforeCommit
<1>8. \A q \in Request \ {r} : Same(q)
  BY <1>1, <1>4 DEF Types, Same
<1>9. \/ result'[r] = full /\ pc'[r] = "commit"
      \/ result'[r] = None /\ pc'[r] = "run"
  BY <1>1, <1>2, <1>4 DEF Types
<1>10. CheckInv(r)'
  BY <1>1, <1>4, <1>9 DEF RequestInv, CheckInv
<1>11. RunInv(r)'
  BY <1>1, <1>2, <1>4, <1>5, <1>6, <1>9 DEF RequestInv, CheckInv, RunInv, BeforeCommit
<1>12. AuditInv(r)' /\ ReplyInv(r)'
  BY <1>2, <1>4, <1>9 DEF AuditInv, ReplyInv
<1> QED BY <1>7, <1>8, <1>10, <1>11, <1>12, Lift DEF RequestInv

(* What a command that Redis answered leaves in ran. *)
Answered(r) ==
  [ds |-> code[r], command |-> call[r].command, args |-> call[r].args, rows |-> RowsNow(r)]

LEMMA RunFacts ==
  ASSUME IInv, NEW r \in Request, pc[r] = "run", RunCommand(r)
  PROVE  /\ ran[r] = <<>> /\ ran'[r] = <<Answered(r)>> /\ RowsNow(r) \in Nat
         /\ ran'[r] # <<>> /\ Len(ran'[r]) = 1 /\ ran'[r][1] = Answered(r)
         /\ DOMAIN ran' = Request /\ \A q \in Request \ {r} : ran'[q] = ran[q]
<1>1. Types /\ RequestInv(r)
  BY DEF IInv
<1>2. ran[r] = <<>>
  BY <1>1, NothingYet DEF BeforeCommit
<1>3. ran' = [ran EXCEPT ![r] = Append(ran[r], Answered(r))]
  BY DEF RunCommand, Answered
<1>4. Append(ran[r], Answered(r)) = <<Answered(r)>>
  BY <1>2
<1>5. /\ ran'[r] = <<Answered(r)>> /\ DOMAIN ran' = Request
      /\ \A q \in Request \ {r} : ran'[q] = ran[q]
  BY <1>1, <1>3, <1>4 DEF Types
<1>6. \A x : <<x>> # <<>> /\ Len(<<x>>) = 1 /\ <<x>>[1] = x
  OBVIOUS
<1>7. RowsNow(r) \in Nat
  BY AtRedis, RowsType, CallAssumption DEF RowsNow
<1> QED BY <1>2, <1>5, <1>6, <1>7, Zenon

LEMMA RunsInv ==
  ASSUME IInv, NEW r \in Request, Run(r)
  PROVE  IInv'
<1> DEFINE full == [allowed |-> FALSE, reason |-> "REDIS_RESULT_LIMIT_EXCEEDED", rows |-> 0]
           good == [allowed |-> TRUE, reason |-> "EXECUTED", rows |-> RowsNow(r)]
           made == IF TooMany(RowsNow(r)) THEN full ELSE good
<1>1. Types /\ RequestInv(r) /\ pc[r] = "run"
  BY DEF IInv, Run
<1>2. /\ ran[r] = <<>> /\ audit[r] = <<>> /\ result[r] = None /\ reply[r] = None
      /\ call[r] \in Call
  BY <1>1, NothingYet DEF BeforeCommit
<1>3. /\ RowsNow(r) \in Nat /\ ran'[r] # <<>> /\ Len(ran'[r]) = 1 /\ ran'[r][1] = Answered(r)
      /\ DOMAIN ran' = Request /\ \A q \in Request \ {r} : ran'[q] = ran[q]
  BY <1>1, RunFacts DEF Run
<1>4. /\ result' = [result EXCEPT ![r] = made] /\ pc' = [pc EXCEPT ![r] = "commit"]
      /\ UNCHANGED <<meta, store, call, snap, route, code, decision, audit, reply>>
  BY DEF Run, Finish, Goto
<1>5. made \in ResultRecord /\ made # None
  BY <1>3, ResultType DEF ResultReason
<1>6. /\ made.reason # "REDIS_DATASOURCE_NOT_FOUND"
      /\ made.rows > 0 => made.rows = RowsNow(r) /\ made.rows <= MaxItems
  BY <1>3, BoundsAssumption DEF TooMany
<1>7. /\ Answered(r).rows = RowsNow(r) /\ Answered(r).ds = code[r]
      /\ Answered(r).command = call[r].command /\ Answered(r).args = call[r].args
  BY DEF Answered
<1> HIDE DEF made
<1>8. Types'
  BY <1>1, <1>3, <1>4, <1>5 DEF Types
<1>9. \A q \in Request \ {r} : Same(q)
  BY <1>1, <1>3, <1>4 DEF Types, Same
<1>10. result'[r] = made /\ pc'[r] = "commit"
  BY <1>1, <1>4 DEF Types
<1>11. CheckInv(r)'
  BY <1>1, <1>4, <1>10 DEF RequestInv, CheckInv
<1>12. RunInv(r)'
  <2>1. decision[r] # None /\ decision[r].allowed /\ call[r].endpoint = "execute"
    BY <1>1, AtRedis
  <2> QED BY <1>3, <1>4, <1>5, <1>6, <1>7, <1>10, <2>1 DEF RunInv, BeforeCommit
<1>13. AuditInv(r)' /\ ReplyInv(r)'
  BY <1>2, <1>4, <1>10 DEF AuditInv, ReplyInv
<1> QED BY <1>8, <1>9, <1>11, <1>12, <1>13, Lift DEF RequestInv

-----------------------------------------------------------------------------
(* The row of a handler at its commit.                                     *)
LEMMA CommitFacts ==
  ASSUME IInv, NEW r \in Request, pc[r] = "commit",
         audit' = [audit EXCEPT ![r] = Append(@, AuditRow(r))]
  PROVE  /\ audit[r] = <<>> /\ reply[r] = None /\ audit'[r] = <<AuditRow(r)>>
         /\ audit'[r] # <<>> /\ Len(audit'[r]) = 1 /\ audit'[r][1] = AuditRow(r)
         /\ DOMAIN audit' = Request /\ \A q \in Request \ {r} : audit'[q] = audit[q]
<1>1. Types /\ RequestInv(r)
  BY DEF IInv
<1>2. audit[r] = <<>> /\ reply[r] = None
  BY <1>1 DEF RequestInv, AuditInv, ReplyInv, Over
<1>3. Append(audit[r], AuditRow(r)) = <<AuditRow(r)>>
  BY <1>2
<1>4. /\ audit'[r] = <<AuditRow(r)>> /\ DOMAIN audit' = Request
      /\ \A q \in Request \ {r} : audit'[q] = audit[q]
  BY <1>1, <1>3 DEF Types
<1>5. \A x : <<x>> # <<>> /\ Len(<<x>>) = 1 /\ <<x>>[1] = x
  OBVIOUS
<1> QED BY <1>2, <1>4, <1>5, Zenon

LEMMA CommitInv ==
  ASSUME IInv, NEW r \in Request, Commit(r)
  PROVE  IInv'
<1>1. Types /\ RequestInv(r) /\ pc[r] = "commit"
  BY DEF IInv, Commit
<1>2. /\ audit'[r] = <<AuditRow(r)>> /\ audit'[r] # <<>> /\ reply[r] = None
      /\ DOMAIN audit' = Request /\ \A q \in Request \ {r} : audit'[q] = audit[q]
  BY <1>1, CommitFacts DEF Commit
<1>3. /\ snap' = [snap EXCEPT ![r] = None] /\ pc' = [pc EXCEPT ![r] = "respond"]
      /\ UNCHANGED <<meta, store, call, route, code, decision, result, ran, reply>>
  BY DEF Commit, Goto
<1>4. Types'
  BY <1>1, <1>2, <1>3 DEF Types
<1>5. \A q \in Request \ {r} : Same(q)
  BY <1>1, <1>2, <1>3 DEF Types, Same
<1>6. pc'[r] = "respond" /\ AuditRow(r)' = AuditRow(r)
  BY <1>1, <1>3 DEF Types, AuditRow
<1>7. CheckInv(r)' /\ RunInv(r)'
  BY <1>1, <1>3, <1>6 DEF RequestInv, CheckInv, RunInv, BeforeCommit
<1>8. AuditInv(r)' /\ ReplyInv(r)'
  BY <1>1, <1>2, <1>3, <1>6 DEF RequestInv, CheckInv, RunInv, AuditInv, ReplyInv
<1> QED BY <1>4, <1>5, <1>7, <1>8, Lift DEF RequestInv

LEMMA AnswerType ==
  ASSUME Types, NEW r \in Request, decision[r] # None
  PROVE  Answer(r) \in ReplyRecord /\ Answer(r) # None /\ Answer(r).status = 200
<1>1. decision[r] \in DecisionRecord /\ (result[r] # None => result[r] \in ResultRecord)
  BY DEF Types
<1>2. Answer(r) \in ReplyRecord
  <2>1. CASE result[r] # None
    BY <1>1, <2>1 DEF Answer, ReplyRecord, ResultRecord
  <2>2. CASE result[r] = None
    BY <1>1, <2>2 DEF Answer, ReplyRecord, DecisionRecord
  <2> QED BY <2>1, <2>2
<1> QED BY <1>2, NoneAssumption DEF Answer

LEMMA RespondInv ==
  ASSUME IInv, NEW r \in Request, Respond(r)
  PROVE  IInv'
<1>1. Types /\ RequestInv(r) /\ pc[r] = "respond"
  BY DEF IInv, Respond
<1>2. /\ reply' = [reply EXCEPT ![r] = Answer(r)] /\ pc' = [pc EXCEPT ![r] = "done"]
      /\ UNCHANGED <<meta, store, call, snap, route, code, decision, result, ran, audit>>
  BY DEF Respond, Goto
<1>3. Answer(r) \in ReplyRecord
  BY <1>1, AnswerType DEF RequestInv, CheckInv
<1>4. Types'
  BY <1>1, <1>2, <1>3 DEF Types, Over
<1>5. \A q \in Request \ {r} : Same(q)
  BY <1>1, <1>2 DEF Types, Same
<1>6. /\ pc'[r] = "done" /\ reply'[r] = Answer(r) /\ Answer(r)' = Answer(r)
      /\ AuditRow(r)' = AuditRow(r)
  BY <1>1, <1>2 DEF Types, Answer, AuditRow
<1>7. CheckInv(r)' /\ RunInv(r)'
  BY <1>1, <1>2, <1>6 DEF RequestInv, CheckInv, RunInv, BeforeCommit
<1>8. AuditInv(r)' /\ ReplyInv(r)'
  BY <1>1, <1>2, <1>6 DEF RequestInv, AuditInv, ReplyInv, Over
<1> QED BY <1>4, <1>5, <1>7, <1>8, Lift DEF RequestInv

-----------------------------------------------------------------------------
(* A handler that fails keeps what it found; how far it had come is over.  *)
LEMMA FailInv ==
  ASSUME IInv, NEW r \in Request, Fail(r), pc[r] \in BeforeCommit \union {"commit"},
         pc[r] # "idle", UNCHANGED <<meta, store, call, route, code, decision, result>>,
         DOMAIN ran' = Request, DOMAIN audit' = Request,
         \A q \in Request \ {r} : ran'[q] = ran[q] /\ audit'[q] = audit[q],
         RunInv(r)', AuditInv(r)'
  PROVE  IInv'
<1>1. Types /\ RequestInv(r)
  BY DEF IInv
<1>2. /\ snap' = [snap EXCEPT ![r] = None] /\ pc' = [pc EXCEPT ![r] = "failed"]
      /\ reply' = [reply EXCEPT ![r] = ServerError]
  BY DEF Fail, Goto
<1>3. ServerError \in ReplyRecord
  BY DEF ServerError, ReplyRecord, Reason
<1>4. Types'
  BY <1>1, <1>2, <1>3 DEF Types, Over
<1>5. \A q \in Request \ {r} : Same(q)
  BY <1>1, <1>2 DEF Types, Same
<1>6. pc'[r] = "failed" /\ reply'[r] = ServerError
  BY <1>1, <1>2 DEF Types
<1>7. CheckInv(r)' /\ ReplyInv(r)'
  BY <1>1, <1>6 DEF RequestInv, CheckInv, ReplyInv, ServerError
<1> QED BY <1>4, <1>5, <1>7, Lift DEF RequestInv

LEMMA RaiseInv ==
  ASSUME IInv, NEW r \in Request, Raise(r)
  PROVE  IInv'
<1>1. Types /\ RequestInv(r)
  BY DEF IInv
<1>2. /\ Fail(r) /\ pc[r] \in BeforeCommit \union {"commit"} /\ pc[r] # "idle"
      /\ UNCHANGED <<meta, store, call, route, code, decision, result, ran, audit>>
  BY DEF Raise, BeforeCommit
<1>3. pc'[r] = "failed" /\ AuditRow(r)' = AuditRow(r)
  BY <1>1, <1>2 DEF Types, Fail, Goto, AuditRow
<1>4. RunInv(r)' /\ AuditInv(r)'
  BY <1>1, <1>2, <1>3 DEF RequestInv, RunInv, AuditInv, BeforeCommit, Over
<1>5. DOMAIN ran' = Request /\ DOMAIN audit' = Request
  BY <1>1, <1>2 DEF Types
<1> QED BY <1>2, <1>4, <1>5, FailInv

LEMMA RunBreaksInv ==
  ASSUME IInv, NEW r \in Request, RunBreaks(r)
  PROVE  IInv'
<1>1. Types /\ RequestInv(r) /\ pc[r] = "run"
  BY DEF IInv, RunBreaks
<1>2. Fail(r) /\ UNCHANGED <<meta, store, call, route, code, decision, result, audit>>
  BY DEF RunBreaks
<1>3. /\ Len(ran'[r]) = 1 /\ ran'[r][1] = Answered(r) /\ DOMAIN ran' = Request
      /\ \A q \in Request \ {r} : ran'[q] = ran[q]
  BY <1>1, RunFacts DEF RunBreaks
<1>4. pc'[r] = "failed"
  BY <1>1, <1>2 DEF Types, Fail, Goto
<1>5. audit[r] = <<>> /\ result[r] = None
  BY <1>1, NothingYet DEF BeforeCommit
<1>6. decision[r] # None /\ decision[r].allowed /\ call[r].endpoint = "execute"
  BY <1>1, AtRedis
<1>7. RunInv(r)' /\ AuditInv(r)'
  BY <1>2, <1>3, <1>4, <1>5, <1>6 DEF RunInv, AuditInv, Answered, BeforeCommit
<1>8. DOMAIN audit' = Request
  BY <1>1, <1>2 DEF Types
<1> QED BY <1>1, <1>2, <1>3, <1>7, <1>8, FailInv DEF BeforeCommit

LEMMA CommitUnacknowledgedInv ==
  ASSUME IInv, NEW r \in Request, CommitUnacknowledged(r)
  PROVE  IInv'
<1>1. Types /\ RequestInv(r) /\ pc[r] = "commit"
  BY DEF IInv, CommitUnacknowledged
<1>2. Fail(r) /\ UNCHANGED <<meta, store, call, route, code, decision, result, ran>>
  BY DEF CommitUnacknowledged
<1>3. /\ audit'[r] = <<AuditRow(r)>> /\ DOMAIN audit' = Request
      /\ \A q \in Request \ {r} : audit'[q] = audit[q]
  BY <1>1, CommitFacts DEF CommitUnacknowledged
<1>4. pc'[r] = "failed" /\ AuditRow(r)' = AuditRow(r)
  BY <1>1, <1>2 DEF Types, Fail, Goto, AuditRow
<1>5. RunInv(r)' /\ AuditInv(r)'
  BY <1>1, <1>2, <1>3, <1>4
     DEF RequestInv, CheckInv, RunInv, AuditInv, BeforeCommit, Over
<1>6. DOMAIN ran' = Request
  BY <1>1, <1>2 DEF Types
<1> QED BY <1>1, <1>2, <1>3, <1>5, <1>6, FailInv

(* The process dies: every handler in it is lost, what it left stands.     *)
LEMMA CrashInv ==
  ASSUME IInv, Crash
  PROVE  IInv'
<1>1. Types
  BY DEF IInv
<1>2. Types'
  BY <1>1 DEF Types, Crash, InFlight, Over
<1>3. ASSUME NEW r \in Request PROVE RequestInv(r)'
  <2>1. RequestInv(r)
    BY DEF IInv
  <2>2. UNCHANGED <<call, route, code, decision, result, ran, audit, reply>>
    BY DEF Crash
  <2>3. /\ pc'[r] = IF InFlight(r) THEN "lost" ELSE pc[r]
        /\ pc[r] \in BeforeCommit \union {"commit", "respond"} \union Over
    BY <1>1 DEF Crash, Types
  <2>4. AuditRow(r)' = AuditRow(r) /\ Answer(r)' = Answer(r) /\ ServerError' = ServerError
    BY <2>2 DEF AuditRow, Answer, ServerError
  <2>5. CASE InFlight(r)
    <3>1. pc'[r] = "lost" /\ pc[r] \notin {"idle", "done", "failed"}
      BY <2>3, <2>5 DEF InFlight
    <3> QED BY <2>1, <2>2, <2>4, <3>1
            DEF RequestInv, CheckInv, RunInv, AuditInv, ReplyInv, BeforeCommit, Over
  <2>6. CASE ~ InFlight(r)
    <3>1. pc'[r] = pc[r] /\ pc[r] \in {"idle", "done", "failed", "lost"}
      BY <2>3, <2>6 DEF InFlight
    <3> QED BY <2>1, <2>2, <2>4, <3>1
            DEF RequestInv, CheckInv, RunInv, AuditInv, ReplyInv, BeforeCommit, Over
  <2> QED BY <2>5, <2>6
<1> QED BY <1>2, <1>3 DEF IInv

(* Other sessions and other clients of Redis touch no request.             *)
LEMMA OthersInv ==
  ASSUME IInv, CommitMetadata \/ ChangeStore \/ UNCHANGED vars
  PROVE  IInv'
<1>1. Types
  BY DEF IInv
<1>2. UNCHANGED <<pc, call, snap, route, code, decision, result, ran, audit, reply>>
  BY DEF CommitMetadata, ChangeStore, vars
<1>3. Types'
  <2>1. meta' \in MetaVersion
    BY <1>1 DEF Types, CommitMetadata, ChangeStore, vars
  <2>2. store' \in [Place -> Sizes]
    BY <1>1 DEF Types, CommitMetadata, ChangeStore, vars
  <2> QED BY <1>1, <1>2, <2>1, <2>2 DEF Types
<1>4. ASSUME NEW r \in Request PROVE RequestInv(r)'
  BY <1>2, Frame DEF IInv, Same
<1> QED BY <1>3, <1>4 DEF IInv

LEMMA StepInv ==
  ASSUME IInv, [Next]_vars
  PROVE  IInv'
<1>1. ASSUME NEW r \in Request, Receive(r) \/ Handle(r) \/ Break(r)
      PROVE  IInv'
  BY <1>1, ReceiveInv, ValidateInv, RouteInv, PreflightInv, RunsInv, CommitInv, RespondInv,
     RunBreaksInv, CommitUnacknowledgedInv, RaiseInv DEF Handle, Break
<1> QED BY <1>1, CrashInv, OthersInv DEF Next

(* The invariant behind every theorem below.                               *)
THEOREM Invariance == Spec => []IInv
<1>1. Init => IInv
  BY InitInv
<1>2. IInv /\ [Next]_vars => IInv'
  BY StepInv
<1> QED BY <1>1, <1>2, PTL DEF Spec

-----------------------------------------------------------------------------
(* Every variable holds values of its kind, what is read is a place that   *)
(* occurs, and no row says more than its endpoint may.                     *)
THEOREM TypeCorrect == Spec => []TypeOK
<1>1. IInv => TypeOK
  <2> SUFFICES ASSUME IInv, NEW r \in Request
               PROVE  /\ pc[r] \in {"preflight", "run"} =>
                           <<code[r], call[r].args[1]>> \in Place
                      /\ Len(ran[r]) <= 1 /\ Len(audit[r]) <= 1
                      /\ \A i \in DOMAIN audit[r] :
                           audit[r][i].decision \in
                             {"REJECT",
                              IF call[r].endpoint = "execute" THEN "EXECUTED" ELSE "ALLOW"}
    BY DEF IInv, TypeOK
  <2>1. RequestInv(r)
    BY DEF IInv
  <2>2. pc[r] \in {"preflight", "run"} => <<code[r], call[r].args[1]>> \in Place
    BY <2>1 DEF RequestInv, CheckInv
  <2>3. Len(ran[r]) <= 1
    <3>1. CASE ran[r] = <<>>
      BY <3>1
    <3>2. CASE ran[r] # <<>>
      <4>1. Len(ran[r]) = 1
        BY <2>1, <3>2 DEF RequestInv, RunInv
      <4> QED BY <4>1
    <3> QED BY <3>1, <3>2
  <2>4. CASE audit[r] = <<>>
    BY <2>2, <2>3, <2>4
  <2>5. CASE audit[r] # <<>>
    <3>1. /\ audit[r] = <<AuditRow(r)>> /\ decision[r] # None
          /\ (result[r] = None /\ decision[r].allowed) => call[r].endpoint = "check"
          /\ result[r] # None => call[r].endpoint = "execute"
      BY <2>1, <2>5 DEF RequestInv, AuditInv, RunInv
    <3>2. AuditRow(r).decision \in
            {"REJECT", IF call[r].endpoint = "execute" THEN "EXECUTED" ELSE "ALLOW"}
      BY <3>1 DEF AuditRow
    <3>3. Len(audit[r]) = 1 /\ \A i \in DOMAIN audit[r] : audit[r][i] = AuditRow(r)
      BY <3>1
    <3> QED BY <2>2, <2>3, <3>2, <3>3
  <2> QED BY <2>4, <2>5
<1> QED BY <1>1, Invariance, PTL

(* The second lookup of the datasource never turns an approval down.       *)
THEOREM ApprovalsStand == Spec => []ApprovalStands
<1>1. IInv => ApprovalStands
  BY DEF IInv, RequestInv, RunInv, ApprovalStands
<1> QED BY <1>1, Invariance, PTL

(* However a collection grows, no client gets more items than the limit,   *)
(* nor fewer than Redis answered.                                          *)
THEOREM RepliesBounded == Spec => []ReplyIsBounded
<1>1. IInv => ReplyIsBounded
  <2> SUFFICES ASSUME IInv, NEW r \in Request, reply[r] # None, reply[r].rows > 0
               PROVE  reply[r].rows <= MaxItems /\ reply[r].rows = ran[r][1].rows
    BY DEF ReplyIsBounded
  <2>1. RequestInv(r)
    BY DEF IInv
  <2>2. reply[r] = Answer(r)
    BY <2>1 DEF RequestInv, ReplyInv, ServerError
  <2>3. result[r] # None /\ reply[r].rows = result[r].rows
    BY <2>2 DEF Answer
  <2> QED BY <2>1, <2>3 DEF RequestInv, RunInv
<1> QED BY <1>1, Invariance, PTL

(* The keys of a command are at most as many as its arguments.             *)
LEMMA FewKeys ==
  ASSUME NEW args \in Seq(STRING), NEW I, I = DOMAIN args \/ I = {1}, Len(args) >= 1
  PROVE  /\ IsFiniteSet({args[i] : i \in I})
         /\ Cardinality({args[i] : i \in I}) <= IF I = {1} THEN 1 ELSE Len(args)
<1> DEFINE n == IF I = {1} THEN 1 ELSE Len(args)
           keys == {args[i] : i \in I}
<1>1. I = 1 .. n /\ n \in Nat
  <2>1. CASE I = {1}
    <3>1. {1} = 1 .. 1
      OBVIOUS
    <3> QED BY <2>1, <3>1
  <2>2. CASE I # {1}
    BY <2>2
  <2> QED BY <2>1, <2>2
<1>2. [i \in 1 .. n |-> args[i]] \in Surjection(1 .. n, keys)
  BY <1>1 DEF Surjection
<1>3. ExistsSurjection(1 .. n, keys)
  BY <1>2 DEF ExistsSurjection
<1> HIDE DEF keys, n
<1>4. Cardinality(keys) <= n
  BY <1>1, <1>3, FS_SurjCardinalityBound
<1>5. IsFiniteSet(keys)
  BY <1>1, <1>3, FS_NatSurjection
<1> QED BY <1>4, <1>5 DEF keys, n

(* What Redis answers is in scope, for every key of the command.           *)
THEOREM RunsInScope == Spec => []RunIsInScope
<1>1. IInv => RunIsInScope
  <2> SUFFICES ASSUME IInv, NEW r \in Request, NEW i \in DOMAIN ran[r]
               PROVE  LET run == ran[r][i]
                      IN /\ call[r].endpoint = "execute" /\ decision[r].allowed
                         /\ run.command \in ReadonlyCommands \ DeniedCommands
                         /\ route[r].enabled /\ route[r].type = "redis"
                         /\ route[r].code = run.ds
                         /\ \A key \in KeysRead(run) :
                              InScope(route[r], key) /\ key \notin Wildcard
                         /\ Cardinality(KeysRead(run)) <= MaxKeys
                         /\ \A j \in DOMAIN audit[r] : audit[r][j].datasource = run.ds
    BY DEF RunIsInScope
  <2> DEFINE run == ran[r][i]
             args == call[r].args
             command == call[r].command
             I == IF command \in {"MGET", "EXISTS"} THEN DOMAIN args ELSE {1}
  <2>1. RequestInv(r) /\ Types
    BY DEF IInv
  <2>2. ran[r] # <<>>
    OBVIOUS
  <2>3. Len(ran[r]) = 1 /\ i = 1
    <3>1. Len(ran[r]) = 1
      BY <2>1, <2>2 DEF RequestInv, RunInv
    <3> QED BY <3>1
  <2>4. /\ run.ds = code[r] /\ run.command = command /\ run.args = args
        /\ decision[r] # None /\ decision[r].allowed /\ call[r].endpoint = "execute"
        /\ pc[r] # "idle"
    BY <2>1, <2>2, <2>3 DEF RequestInv, RunInv, BeforeCommit
  <2>5. /\ CommandVerdict(command) = "ALLOW" /\ ArgsVerdict(command, args) = "ALLOW"
        /\ route[r].enabled /\ route[r].type = "redis" /\ route[r].code = code[r]
        /\ KeysVerdict(route[r], KeyArgs(command, args)) = "ALLOW"
        /\ args \in Seq(STRING)
    BY <2>1, <2>4, CallAssumption DEF RequestInv, CheckInv
  <2>6. /\ command \in ReadonlyCommands \ DeniedCommands
    BY <2>5, CommandVerdictCases
  <2>7. KeysRead(run) = {args[k] : k \in I}
    BY <2>4 DEF KeysRead
  <2>8. /\ Len(args) >= 1 /\ KeyArgs(command, args) \in Seq(STRING)
        /\ Len(KeyArgs(command, args)) >= 1 /\ KeyArgs(command, args)[1] = args[1]
        /\ command \in {"MGET", "EXISTS"} =>
             KeyArgs(command, args) = args /\ Len(args) <= MaxKeys
    <3> HIDE DEF command, args
    <3> QED BY <2>5, KeyArgsCases DEF ManyKeys
  <2>9. \A k \in DOMAIN KeyArgs(command, args) :
          InScope(route[r], KeyArgs(command, args)[k])
          /\ KeyArgs(command, args)[k] \notin Wildcard
    <3> HIDE DEF command, args
    <3> QED BY <2>5, <2>8, KeysVerdictCases
  <2> HIDE DEF run, args, command
  <2>10. \A k \in I : InScope(route[r], args[k]) /\ args[k] \notin Wildcard
    <3>1. CASE command \in {"MGET", "EXISTS"}
      BY <2>8, <2>9, <3>1
    <3>2. CASE command \notin {"MGET", "EXISTS"}
      <4>1. 1 \in DOMAIN KeyArgs(command, args)
        BY <2>8
      <4> QED BY <2>8, <2>9, <3>2, <4>1
    <3> QED BY <3>1, <3>2
  <2>11. Cardinality({args[k] : k \in I}) <= MaxKeys
    <3>1. I = DOMAIN args \/ I = {1}
      OBVIOUS
    <3>2. (IF I = {1} THEN 1 ELSE Len(args)) <= MaxKeys
      BY <2>8, BoundsAssumption
    <3>3. Len(args) \in Nat /\ MaxKeys \in Nat
      BY <2>5, BoundsAssumption
    <3> HIDE DEF I
    <3>4. Cardinality({args[k] : k \in I}) <= IF I = {1} THEN 1 ELSE Len(args)
      BY <2>5, <2>8, <3>1, FewKeys
    <3>5. Cardinality({args[k] : k \in I}) \in Nat
      <4>1. IsFiniteSet({args[k] : k \in I})
        BY <2>5, <3>1, <2>8, FewKeys
      <4> QED BY <4>1, FS_CardinalityType
    <3> QED BY <3>2, <3>3, <3>4, <3>5
  <2>12. \A j \in DOMAIN audit[r] : audit[r][j].datasource = code[r]
    <3>1. audit[r] # <<>> => audit[r] = <<AuditRow(r)>>
      BY <2>1 DEF RequestInv, AuditInv
    <3>2. AuditRow(r).datasource = code[r]
      BY DEF AuditRow
    <3>3. CASE audit[r] = <<>>
      BY <3>3
    <3>4. CASE audit[r] = <<AuditRow(r)>>
      <4> HIDE DEF run
      <4>1. \A j \in DOMAIN audit[r] : audit[r][j] = AuditRow(r)
        BY <3>4
      <4> QED BY <3>2, <4>1
    <3> QED BY <3>1, <3>3, <3>4
  <2>13. \A key \in KeysRead(run) : InScope(route[r], key) /\ key \notin Wildcard
    BY <2>7, <2>10
  <2> QED BY <2>4, <2>5, <2>6, <2>7, <2>11, <2>12, <2>13 DEF run
<1> QED BY <1>1, Invariance, PTL

-----------------------------------------------------------------------------
(* RedisGateway implements AuditedGate: whatever other clients do to the   *)
(* collections and other sessions to the datasources, every step of a      *)
(* handler is a step of AuditedGate or leaves what it speaks of unchanged. *)

(* The abstract variables under the mapping. *)
Touched == {r \in Request : ran[r] # <<>>}
LogOf(r) == IF audit[r] = <<>> THEN None ELSE audit[r][1].decision
Log == [r \in Request |-> LogOf(r)]
Told == [r \in Request |-> Conclusion(r)]

(* No command answered, no row committed, nobody told: nothing to see.     *)
LEMMA Invisible ==
  ASSUME UNCHANGED <<ran, audit, reply>>,
         \A q \in Request : reply[q] = None \/ call'[q] = call[q]
  PROVE  UNCHANGED Gate!gvars
<1>1. ASSUME NEW q \in Request PROVE Conclusion(q)' = Conclusion(q)
  <2>1. CASE reply[q] = None
    BY <2>1 DEF Conclusion
  <2>2. CASE reply[q] # None /\ call'[q] = call[q]
    BY <2>2 DEF Conclusion
  <2> QED BY <2>1, <2>2
<1> QED BY <1>1 DEF Gate!gvars

(* Redis answers the command of r: the mapped set grows by r.              *)
LEMMA AnsweredStep ==
  ASSUME IInv, NEW r \in Request, pc[r] = "run", RunCommand(r)
  PROVE  /\ Touched' = Touched \union {r} /\ r \notin Touched
         /\ Log[r] = None /\ Told[r] = None
<1>1. ran[r] = <<>> /\ ran'[r] # <<>> /\ \A q \in Request \ {r} : ran'[q] = ran[q]
  BY RunFacts
<1>2. audit[r] = <<>> /\ reply[r] = None
  BY NothingYet DEF IInv, BeforeCommit
<1> QED BY <1>1, <1>2 DEF Touched, Log, LogOf, Told, Conclusion

LEMMA TouchStep ==
  ASSUME IInv, NEW r \in Request, Run(r)
  PROVE  Gate!Next
<1>1. pc[r] = "run" /\ RunCommand(r) /\ UNCHANGED <<call, audit, reply>>
  BY DEF Run
<1>2. Log' = Log /\ Told' = Told
  BY <1>1 DEF Log, LogOf, Told, Conclusion
<1>3. Gate!Touch(r)
  BY <1>1, <1>2, AnsweredStep DEF Gate!Touch, Touched, Log, LogOf, Told
<1> QED BY <1>3 DEF Gate!Next

(* What a commit makes of the mapped log, and that the row may say it.     *)
LEMMA LogStep ==
  ASSUME IInv, NEW r \in Request, pc[r] = "commit",
         audit' = [audit EXCEPT ![r] = Append(@, AuditRow(r))]
  PROVE  /\ Log' = [Log EXCEPT ![r] = AuditRow(r).decision]
         /\ Log[r] = None
         /\ AuditRow(r).decision \in Gate!Decision
         /\ AuditRow(r).decision = "EXECUTED" => r \in Touched
         /\ AuditRow(r).decision = "ALLOW" => r \notin Touched
<1>1. /\ audit[r] = <<>> /\ audit'[r] # <<>> /\ audit'[r][1] = AuditRow(r)
      /\ \A q \in Request \ {r} : audit'[q] = audit[q]
  BY CommitFacts
<1>2. LogOf(r)' = AuditRow(r).decision /\ LogOf(r) = None
  BY <1>1 DEF LogOf
<1>3. \A q \in Request \ {r} : LogOf(q)' = LogOf(q)
  BY <1>1 DEF LogOf
<1>4. Log' = [Log EXCEPT ![r] = AuditRow(r).decision] /\ Log[r] = None
  BY <1>2, <1>3 DEF Log
<1>5. RunInv(r) /\ CheckInv(r)
  BY DEF IInv, RequestInv
<1>6. CASE result[r] # None
  BY <1>4, <1>5, <1>6 DEF AuditRow, Gate!Decision, RunInv, Touched
<1>7. CASE result[r] = None
  BY <1>4, <1>5, <1>7 DEF AuditRow, Gate!Decision, RunInv, Touched
<1> QED BY <1>6, <1>7

LEMMA RecordStep ==
  ASSUME IInv, NEW r \in Request, Commit(r)
  PROVE  Gate!Next
<1>1. /\ pc[r] = "commit" /\ UNCHANGED <<ran, call, reply>>
      /\ audit' = [audit EXCEPT ![r] = Append(@, AuditRow(r))]
  BY DEF Commit
<1>2. reply[r] = None
  BY <1>1, CommitFacts
<1>3. Touched' = Touched /\ Told' = Told /\ Told[r] = None
  BY <1>1, <1>2 DEF Touched, Told, Conclusion
<1>4. Gate!Record(r)
  BY <1>1, <1>3, LogStep DEF Gate!Record, Touched, Log, LogOf, Told
<1> QED BY <1>4 DEF Gate!Next

(* The answer says what the committed row says.                            *)
LEMMA TellStep ==
  ASSUME IInv, NEW r \in Request, Respond(r)
  PROVE  Gate!Next
<1>1. RequestInv(r) /\ Types /\ pc[r] = "respond"
  BY DEF IInv, Respond
<1>2. /\ reply' = [reply EXCEPT ![r] = Answer(r)]
      /\ UNCHANGED <<ran, audit, call, decision, result>>
      /\ reply[r] = None /\ audit[r] = <<AuditRow(r)>> /\ decision[r] # None
  BY <1>1 DEF RequestInv, CheckInv, ReplyInv, AuditInv, Respond
<1>3. reply'[r] = Answer(r) /\ \A q \in Request \ {r} : reply'[q] = reply[q]
  BY <1>1, <1>2 DEF Types
<1>4. Log[r] = AuditRow(r).decision /\ AuditRow(r).decision \in Gate!Decision
  <2>1. audit[r] # <<>> /\ audit[r][1] = AuditRow(r)
    BY <1>2
  <2>2. Log[r] = AuditRow(r).decision
    BY <2>1 DEF Log, LogOf
  <2> QED BY <2>2 DEF AuditRow, Gate!Decision
<1>5. Answer(r) # None /\ Answer(r).status = 200
  BY <1>1, <1>2, AnswerType
<1>6. Conclusion(r)' = AuditRow(r).decision
  <2>1. Conclusion(r)' = IF ~Answer(r).allowed THEN "REJECT"
                         ELSE IF call[r].endpoint = "execute" THEN "EXECUTED" ELSE "ALLOW"
    BY <1>2, <1>3, <1>5 DEF Conclusion
  <2>2. CASE result[r] # None
    <3>1. Answer(r).allowed = result[r].allowed /\ call[r].endpoint = "execute"
      BY <1>1, <2>2 DEF Answer, RequestInv, RunInv
    <3> QED BY <2>1, <2>2, <3>1 DEF AuditRow
  <2>3. CASE result[r] = None
    <3>1. /\ Answer(r).allowed = decision[r].allowed
          /\ decision[r].allowed => call[r].endpoint = "check"
      BY <1>1, <2>3 DEF Answer, RequestInv, RunInv
    <3> QED BY <2>1, <2>3, <3>1 DEF AuditRow
  <2> QED BY <2>2, <2>3
<1>7. \A q \in Request \ {r} : Conclusion(q)' = Conclusion(q)
  BY <1>2, <1>3 DEF Conclusion
<1>8. Told' = [Told EXCEPT ![r] = Log[r]] /\ Told[r] = None
  <2>1. Conclusion(r) = None
    BY <1>2 DEF Conclusion
  <2> QED BY <1>4, <1>6, <1>7, <2>1 DEF Told
<1>9. Touched' = Touched /\ Log' = Log
  BY <1>2 DEF Touched, Log, LogOf
<1>10. Log[r] # None
  BY <1>4, NoneAssumption DEF Gate!Decision
<1>11. Gate!Tell(r)
  BY <1>8, <1>9, <1>10 DEF Gate!Tell, Touched, Log, LogOf, Told
<1> QED BY <1>11 DEF Gate!Next

(* A failure is told as one.                                               *)
LEMMA FailTold ==
  ASSUME IInv, NEW r \in Request, Fail(r), UNCHANGED call,
         pc[r] \in BeforeCommit \union {"commit"}
  PROVE  Told' = [Told EXCEPT ![r] = "FAILED"] /\ Told[r] = None
<1>1. RequestInv(r) /\ Types
  BY DEF IInv
<1>2. reply[r] = None
  BY <1>1 DEF RequestInv, ReplyInv, BeforeCommit
<1>3. reply'[r] = ServerError /\ \A q \in Request \ {r} : reply'[q] = reply[q]
  BY <1>1 DEF Types, Fail
<1>4. ServerError # None /\ ServerError.status = 500
  <2>1. ServerError \in ReplyRecord
    BY DEF ServerError, ReplyRecord, Reason
  <2> QED BY <2>1, NoneAssumption DEF ServerError
<1>5. Conclusion(r)' = "FAILED" /\ \A q \in Request \ {r} : Conclusion(q)' = Conclusion(q)
  BY <1>3, <1>4 DEF Conclusion
<1>6. Conclusion(r) = None
  BY <1>2 DEF Conclusion
<1> QED BY <1>5, <1>6 DEF Told

LEMMA FailStep ==
  ASSUME IInv, NEW r \in Request, Break(r)
  PROVE  Gate!Next
<1>1. Fail(r) /\ UNCHANGED call /\ pc[r] \in BeforeCommit \union {"commit"}
  BY DEF Break, RunBreaks, CommitUnacknowledged, Raise, BeforeCommit
<1>2. Told' = [Told EXCEPT ![r] = "FAILED"] /\ Told[r] = None
  BY <1>1, FailTold
<1>3. CASE Raise(r)
  <2>1. Touched' = Touched /\ Log' = Log
    BY <1>3 DEF Raise, Touched, Log, LogOf
  <2> QED BY <1>2, <2>1 DEF Gate!Next, Gate!Fail, Touched, Log, LogOf, Told
<1>4. CASE RunBreaks(r)
  <2>1. Log' = Log
    BY <1>4 DEF RunBreaks, Log, LogOf
  <2>2. Touched' = Touched \union {r} /\ r \notin Touched /\ Log[r] = None
    BY <1>4, AnsweredStep DEF RunBreaks
  <2> QED BY <1>2, <2>1, <2>2 DEF Gate!Next, Gate!Fail, Touched, Log, LogOf, Told
<1>5. CASE CommitUnacknowledged(r)
  <2>1. /\ pc[r] = "commit" /\ UNCHANGED ran
        /\ audit' = [audit EXCEPT ![r] = Append(@, AuditRow(r))]
    BY <1>5 DEF CommitUnacknowledged
  <2>2. Touched' = Touched
    BY <2>1 DEF Touched
  <2> QED BY <1>2, <2>1, <2>2, LogStep DEF Gate!Next, Gate!Fail, Touched, Log, LogOf, Told
<1> QED BY <1>3, <1>4, <1>5 DEF Break

LEMMA GateStep ==
  ASSUME IInv, [Next]_vars
  PROVE  [Gate!Next]_Gate!gvars
<1>1. ASSUME NEW r \in Request, Receive(r)
      PROVE  UNCHANGED Gate!gvars
  <2>1. reply[r] = None
    BY <1>1 DEF Receive, IInv, RequestInv, ReplyInv
  <2>2. \A q \in Request : reply[q] = None \/ call'[q] = call[q]
    BY <1>1, <2>1 DEF Receive, IInv, Types
  <2> QED BY <1>1, <2>2, Invisible DEF Receive
<1>2. ASSUME NEW r \in Request, Validate(r) \/ Route(r) \/ Preflight(r)
      PROVE  UNCHANGED Gate!gvars
  <2>1. UNCHANGED <<ran, audit, reply>> /\ UNCHANGED call
    BY <1>2 DEF Validate, Route, Preflight
  <2> QED BY <2>1, Invisible
<1>3. ASSUME NEW r \in Request, Receive(r) \/ Handle(r) \/ Break(r)
      PROVE  [Gate!Next]_Gate!gvars
  BY <1>1, <1>2, <1>3, TouchStep, RecordStep, TellStep, FailStep DEF Handle
<1>4. CASE Crash \/ CommitMetadata \/ ChangeStore \/ UNCHANGED vars
  <2>1. UNCHANGED <<ran, audit, reply>> /\ UNCHANGED call
    BY <1>4 DEF Crash, CommitMetadata, ChangeStore, vars
  <2> QED BY <2>1, Invisible
<1> QED BY <1>3, <1>4 DEF Next

LEMMA GateInit == Init => Gate!Init
<1> SUFFICES ASSUME Init PROVE Gate!Init
  OBVIOUS
<1>1. \A r \in Request : ran[r] = <<>> /\ audit[r] = <<>> /\ reply[r] = None
  BY DEF Init
<1>2. \A r \in Request : Conclusion(r) = None
  BY <1>1 DEF Conclusion
<1> QED BY <1>1, <1>2 DEF Gate!Init

(* The Redis gateway keeps the same abstract promise as the SQL one: a     *)
(* command is answered at most once and before its row, a row claims only  *)
(* what happened, and a client learns a decision only from a committed row.*)
THEOREM Refinement == Spec => GateSpec
<1>1. Init => Gate!Init
  BY GateInit
<1>2. IInv /\ [Next]_vars => [Gate!Next]_Gate!gvars
  BY GateStep
<1> QED BY <1>1, <1>2, Invariance, PTL DEF Spec, GateSpec, Gate!Spec
=============================================================================
