# A TLA+ model of SQL Gatekeeper

SQL Gatekeeper stands between an AI agent and production data stores. It checks
a SQL statement or a Redis command, routes and rewrites it, runs it if it was
approved, and records what it decided. This directory models the program in
TLA+, together with the two programs that fill its metadata database, checks the
model with TLC on small instances, and proves the main results with TLAPS for
every value of the constants: about both gateways, routing, the parser and
rewriter, the import and the programs that write the metadata. Every definition is
translated from the Python code under `src/sql_gatekeeper`; `PROJECT.json` maps
each one to its lines.

## The system

| Component | State | Operations | Modelled by |
| --- | --- | --- | --- |
| SQL endpoints, `api/routes.py`, `db/session.py` | one SQLAlchemy session per request, the engine's connection pool, the response | `check_sql`, `execute_sql` | `SqlGateway` |
| Check pipeline, `services/checker.py`, `precheck.py` | `CheckResult` | guard, parse, route, rewrite, filter | `SqlGateway` |
| Route resolution, `services/routing.py` and the repositories | none of its own: reads logical tables, factors, rules, routes, datasources | `resolve`, once per table | `SqlRouting` |
| Filters, `services/filter_chain.py`, `explain.py` | `FilterContext` (policy, datasources, summaries) | five metadata filters, then one EXPLAIN per target | `SqlFilters`, `SqlGateway` |
| Execution, `services/executor.py` | none | look up datasource and policy again, fetch, count | `SqlGateway` |
| Audit, `services/audit.py` | `request_audit_log` | four `log_*` methods, committed by the endpoint | `SqlGateway`, `RedisGateway` |
| Redis, `services/redis_gatekeeper.py` and its endpoints | the collections in Redis, which others change | `check`, `execute` | `RedisChecks`, `RedisGateway` |
| Parser and rewriter, `services/sql_parser.py`, `sql_rewrite.py` | none | three regular expressions over the text, a splice at offsets | `SqlParsing` |
| Import of `spy.table_config`, `tools/spy_table_config_sync.py` | the metadata tables | `make_stable_identifier`, `build_sync_bundle`, `sync_bundle_to_local` | `StableIdentifier`, `TableConfigBundle`, `ImportedTables`, `MetadataWriters` |
| Bootstrap, `bootstrap/meta.py` | the metadata tables | `create_all`, the seeds, once per container start | `MetadataWriters` |

How they interact. FastAPI runs each request in a thread. The thread opens one
session on the metadata database. The session's first SELECT takes a pooled
connection and, at MySQL's default isolation level REPEATABLE READ, fixes the
view that every later SELECT of the session reads. The check calls guard,
parser, routing, rewriter and filters in that order; the last filter, and then
the executor, open runtime connections to the business database. The endpoint
adds an audit row to the same session and commits it last, after the business
statement has already run. Nothing couples the business database with that
commit. Threads share the pool and the metadata, and nothing else. The import and
the bootstrap are programs of their own. They meet the gateways, each other and
the operators in the metadata database only; to a request they are one
`CommitMetadata`.

What is hard. The statement runs before the row that records it is committed.
Metadata is committed by other sessions between the check and the execution,
which reads it a second time. Every database call can fail, also after it took
effect. The process can die anywhere. A request holds its pooled connection for
as long as the business statement takes. Redis collections grow between the
question for their size and the fetch. Routing by key has fallbacks and a
modulus that depends on what is enabled. The parser reads words, not grammar,
and what is explained and run is not the text that was parsed. Containers start
together, next to imports; each program looks first and writes afterwards. The
list with its lines is under `hazards` in `PROJECT.json`.

What makes each part correct:

- gateways: a client learns a decision only from a committed row; a row claims
  only what happened; only what was checked runs, and only once; no result is
  larger than the policy allows or cut short in silence; no session leaks;
- routing: a table goes to the shard that holds its key, or nowhere;
- filters: an approval means that every plan is within the policy;
- Redis: every key read is in scope of the datasource it was read on, and no
  answer is larger than allowed, however the collections grow;
- parser and rewriter: a plain statement is understood, and checking the
  rewritten text again gives the same verdict and the same targets;
- import: names fit their column and meet only when they differ in case and
  punctuation; every table of an import that goes through can be reached, and
  every key finds its shard;
- metadata writers: an import replaces the one before it as a whole or not at
  all, can be repeated, and takes away nobody else's rows; a bootstrap leaves no
  seed out; every program ends.

## The modules

`CheckChain` has the shape all the checks share: a list of tests, the first that
blocks names the reason (`FilterChain.run`, the early returns of the others).

`SqlRouting` is `RouteDecisionService` as pure operators over one view of the
metadata and one parsed statement. `ResolveTable` is one turn of the loop in
`resolve`: a target, a rejection or an exception. A rule is the function its
expression and output format compute, and outside its domain `eval` raises.
`The` and `Multiple` are `scalar_one_or_none`: nothing, the row, or an exception.

`ShardedTables` puts it in motion: an operator takes shards of two tables in and
out of service, and a client asks for one of them. One table was imported before
business routing existed, the other has a rule over its key; `Modulus`, `Key` and
the names of the shards are constants.

`SqlFilters` is the metadata filters (`FilterVerdict`) and the judgement of a
plan (`ExplainVerdict`).

`SqlGateway` is the state machine of the SQL endpoints. `pc[r]` says where the
handler of request `r` is:

```
idle -> guard -> connect -> route -> filter -> explain -> execute -> commit -> respond -> done
             \-> connectForAudit -----------------------------------/
```

`failed` is an exception answered with 500, `lost` a handler that died with the
process. `snap[r]` is the view of its session, `conn` who holds a pooled
connection, `targets`, `policy`, `explained`, `decision` and `result` are the
values the handler carries, `ran` the business statements MySQL ran (with the
size their result has), `audit` the committed rows and `reply` what the client
got. An action is the code between two database calls. Failures have actions of
their own: `DatabaseError` (before the effect), `ExecuteBreaks` and
`CommitUnacknowledged` (after it), `RouteRaises`, `PoolTimeout`,
`RespondBreaks`, `Crash`.

`RedisChecks` is what `RedisGatekeeperService.check` decides; `RedisGateway` is
the state machine of the Redis endpoints in the same style, with `store`, the
number of elements of every key, which `ChangeStore` (other clients) changes
between any two steps.

`AuditedGate` is the abstract specification of both gateways. A request is
*touched* (the store was asked), *logged* and *told*, in this order and each at
most once; a log entry says EXECUTED only of a touched request and ALLOW only of
one that is not; the client is told what the log says, or of a failure. Both
gateways implement it (`GateSpec`), with `touched` the requests with a run,
`log` the decision of the committed row, and `told` what the client can conclude
from the answer.

`SqlParsing` reads a text as a sequence of tokens. A word is a head and perhaps a
tail (`user`, or `user` `_1`), so names differ in length and a splice moves what
follows. `TableAt`, `PredicateAt` and `LimitAt` are the three patterns at one
place, `FindIter` is `finditer`: matches from left to right, each sought where
the one before it stopped. `Parse` yields the statement `SqlRouting` takes;
`Rewrite` splices the names in from the last to the first.

`WrittenStatements` is a client that writes a statement from left to right, next to
what the grammar of SQL makes of it (`meant`). It is no code: it yields texts to
state the parser's properties of. What a client may write is not all of SQL:
tables after FROM, JOIN or a comma or in a subquery, equalities joined by AND, and
a LIMIT. Its constants are the vocabulary; `StatementAssumption` says that a table's
name does not begin with FROM or JOIN, and that a remark (what a column is compared
with between quotes) holds no quote of its own, does not end in "=", and follows no
name in it with a number, a dot or an equals sign.

`StableIdentifier` is `make_stable_identifier` over sequences of characters: fold,
strip, and cut with a digest when the result is too long.

`TableConfigBundle` is `build_sync_bundle`: grouping by logical name, the last row
of each segment, the four kinds of table (sharded by key, by suffix, by source,
single) with their factor, rule and routes, and the conflict that raises. A route
keeps its segment, as its `extra` column does: two that differ in nothing else
are two rows to insert.

`ImportedTables` is what a request finds of an import: rows are added to
`table_config` one by one, `Metadata` is the bundle as `SqlRouting` reads it
(`RuleEval` computes what the imported rules' expressions do), and `Asked` is a
request for a logical name by key, by suffix, by source or by nothing. In the same
way two names are typed, character by character, and made identifiers.

`MetadataWriters` is the state machine of imports and containers:

```
start -> (create)* -> begin -> policy -+-> deleteChildren -> deleteTables -> deleteDatasources -+
                                       |                                                        v
                                       +--------------------------------------------> datasources
                                                     done <- commit <- children <- tables <----+
```

`db` is the committed rows and `schema` the tables that exist; `view[p]` is what
the session's first SELECT fixed, `gone[p]` and `added[p]` are what its
transaction deleted and inserted. A label is a group of statements of the code.
Reads see the view and the session's own writes (`Sees`); writes and the checks of
keys see what is committed (`Writes`), and wait while another transaction holds
the row, its parent or a child (`Held`, `Waits`). `Flush` carries a statement out,
`FlushRefused` is an `IntegrityError` or a `StaleDataError`, `LockWaitTimeout`
the end of a wait. DDL commits table by table (`CreateTable`), and a table that
another program created since refuses it (`TableExists`). `Break` and
`CommitUnacknowledged` are failures before and after the commit. Operators switch
rows off and on (`Switch`) and route tables of their own (`Register`).

Its constants are the programs, what they may be offered and how the database may
begin. `NameAssumption`, `ProgramAssumption`, `OfferedAssumption` and
`InitialAssumption` say what the code gives: ids are not `None`; programs,
operators and earlier releases are different authors; a bundle is closed, which
`ImportedTablesProofs` proves of `build_sync_bundle` (`BundlesAreClosed`); what is
there to begin with satisfies the constraints. They also say that no import uses a
name of the seeds (`SeedNames`). Its datasources begin with `spy_src_`, and the
codes `biz_user_db` and `biz_order_db` do not (`redis_datasource_code` is
configurable, and is assumed not to). Its tables have `__` in the name, unless
catalog or table consist of punctuation alone.

`ReplaceImport` is the abstract specification of these programs. What is imported
is a set of entries, each with the import that owns it. An import puts all its
entries in place and takes away those of exactly the imports it found in force
when it began, in one step, or changes nothing. One that came in between stays:
two imports at once that have no name in common both succeed, and both remain
until the next one. A bootstrap leaves every seed in place or changes nothing.
Nobody takes away what others registered. `ReplaceSpec` says that
`MetadataWriters` implements it; an entry is a row without the ids the database
gave it (`Content`) and its owner is the import that inserted the row or its table.

`MCSqlGateway`, `MCSqlRouting`, `MCRedisGateway`, `MCSqlParsing`, `MCTableConfig`
and `MCMetadataWriters` are the instances.

The proofs are in `CheckChainProofs` and `SqlCheckProofs` (operators),
`SqlGatewayProofs` and `RedisGatewayProofs` (invariants and refinement),
`ShardedTablesProofs`, `ImportedTablesProofs`, `MetadataWritersProofs` (invariant
and refinement) and `SqlParsingProofs`.

Operators marked `mutant` are deliberate mistakes; replacing a definition by its
mutant makes the property listed for it in `PROJECT.json` fail. No specification
uses them.

## The runs

| Run | Instance | Shows |
| --- | --- | --- |
| `core` | one request; 9 statements, 5 metadata versions and every change between them, 4 plans, table sizes below and at the threshold, results of 0, limit, limit + 1 and more rows | `TypeOK`, `AnswerIsAudited`, `AuditTellsTheTruth`, `RunIsWhatWasChecked`, `ApprovalStands`, `RowsAreBounded`, `NothingIsTruncated`, `OnceOnly` |
| `shared` | two requests, one connection, fair threads, failures and crashes, a physical name registered twice | `PoolIsSound`, `GateSpec`, `EveryRequestEnds`, `ConnectionsReturn` |
| `unaudited` | as `core` | violated: `EveryRunIsAudited` |
| `first_row` | one join of two tables | violated: `EveryPlanRowIsBounded` |
| `routing` | two tables of three shards, every sequence of at most two predicates over 5 values and 3 qualifiers, any three shards out of service, also all of one table | `OwnPredicateWins`, `CompleteShardsAreRight`, `NoKeyNoRoute`, `RuleNeverMisroutes` |
| `fail_closed` | as `routing`, at most two shards out of service | violated: `NeverTheWrongShard` |
| `redis` | one request; 18 commands, three datasources in three versions, two keys of 0, limit or limit + 1 elements | `TypeOK`, `RunIsInScope`, `ReplyIsBounded`, `ApprovalStands`, `GateSpec` |
| `parsing` | every statement of at most two tables (joined, after a comma, in a subquery, with and without alias) and two equalities (numbers, quoted texts, quoted texts that look like SQL), with or without LIMIT | `PlainIsUnderstood`, `CheckedIsAFixedPoint` |
| `missed_table` | as `parsing` | violated: `EveryTableIsFound` |
| `table_config` | every import of at most three rows, out of 28 possible ones; every pair of names of at most five characters | `FitsTheColumn`, `NamesStayApart`, `EveryRowIsReachable`, `KeysFindTheirShard` |
| `writers` | two imports at once, with an earlier import or without; an import and a container over the seeds of an older release, while an operator switches rows; two containers on an empty database | `TypeOK`, `ReplaceSpec`, `RefusedForCause`, `SwitchedOffStaysOff` |
| `fresh` | an import and two containers at once, fair, on a database with no table or one | `EveryProgramEnds` |

The runs of the gateways and of routing check for deadlock: another session can
always commit metadata and an operator can always move a shard, so no state is
without a step. The others set `CHECK_DEADLOCK FALSE`: the programs of
`MetadataWriters` end, and `WrittenStatements` and `ImportedTables` stop when the
statement or the input is complete.

Why the bounds are enough.

- Gateways. Requests share the pool and the metadata only; the pool needs more
  requests than connections, everything else is per request, and the other
  sessions are there as `CommitMetadata`. The metadata versions include each way
  the second look could differ from the first (limit raised, limit no longer
  required, datasource disabled, policy disabled, shard moved). Result sizes lie on
  both sides of `max_limit` and of `max_limit + 1` of both policies. The theorems
  hold for any number of requests and connections. In `CommitRetried`, a mutant,
  `Len(audit[r]) < 2` is the bound.
- Routing. `MaxOff = 3`: three shards of the six are out of service at once, so all
  of a table may be, and the modulus is zero. `MaxPredicates = 2`: one
  predicate of the table's own and one that might decide instead. The theorems
  hold for any number of shards, predicates and keys.
- Parsing. `MaxTables = 2`, `MaxPredicates = 2`: each pattern looks at one place and
  the word after it, so what one match does to the next shows with two. Names have
  one or two tokens. That the second check agrees is proved for any number of
  tables and equalities.
- Import. `MaxRows = 3`: a table is complete or not by the union of its segments;
  three rows give two segments and a third that repeats, overlaps, comes from
  elsewhere, has no shard count (`<<2, 2, 0>>`) or bears the logical name of the
  others (`main__t`). Names of five characters are one too long for `IdLength = 5`, and are
  cut to two of their own, of which the second may be an underscore. The digest
  (`MCDigest`) is one hexadecimal digit: many names share one, and `a` and `b` stand
  in names, too, so each exception of `NamesStayApart` occurs.
  The theorems hold for any number of rows and names of any length.
- Writers. Two programs at once in `writers`, three in `fresh`; one row is off at a
  time, and the operator registers one route. `Table` has two of the tables: one
  that is there and one that is not.

What the violated properties say of the code:

- `EveryRunIsAudited`: the business statement runs, then the commit of the audit
  row fails or the process dies (`api/routes.py:71`). The statement ran and there
  is no row. README.md:7 and ROADMAP.md:37 promise that requests are audited.
  What holds instead is `AnswerIsAudited`: a client never gets *rows* without one.
- `EveryPlanRowIsBounded`: `explain.py:58` keeps the first row of the plan. A join
  has one row per table, and the others are not compared with `max_scan_rows`.
- `NeverTheWrongShard`: for tables imported before business routing existed the
  suffix is the key modulo the number of *enabled* routes (`routing.py:297`).
  Taking one shard out of service sends most keys to other shards. With a rule
  (`RuleNeverMisroutes`), or with every shard in service
  (`CompleteShardsAreRight`), routing is right.
- `EveryTableIsFound`: any word after a table is taken for its alias
  (`sql_parser.py:8`), `JOIN` too, and the search goes on after it. The table
  joined to one without an alias is not seen, nor is one after a comma. README.md:283
  says that tables are extracted. What holds is `PlainIsUnderstood`.

What the models also show, and no document of the repository contradicts:

- The first LIMIT of a text decides, also that of a subquery; `plain` leaves out
  statements with another one. A FROM inside a quoted text is routed and
  rewritten. Where a table has no alias and its name is the qualifier of a column,
  the name is rewritten and the qualifier is not.
- Two segments of a single or source-routed table become two equal routes, and
  the unique constraint then refuses the whole import. `RefusedForCause` names it
  as a cause.
- Tables whose logical names meet, with equal segments, are merged in silence;
  `EveryRowIsReachable` leaves such imports out (`NamesMeet`). Catalog and table
  are joined by `__`, which either may contain.
- A row without a shard count, in a table whose other rows have complete shards,
  registers tables that no remainder names (`Stray`): the route loop takes every
  row, the modulus counts only the sharded ones. `EveryRowIsReachable` fails if it
  is asked of such rows.
- Routing looks for a physical name before a logical one. A table of `table_config`
  that is called like the logical name of others is the answer to every request
  for them (`Shadowed`). `EveryRowIsReachable` and `KeysFindTheirShard` leave such
  names out; with them the first fails.
- Imports that overlap and have no name in common accumulate. Each takes away what
  it found when it began, and the next one takes away all of them.
- The second of two containers that start on an empty database may be refused by
  the first one's tables or rows; `docker/app-entrypoint.sh` then stops it.
- A container start enables the seed's datasources again, and an import its own
  rows, also those an operator switched off. `SwitchedOffStaysOff` is about all
  other rows.

## Fairness

`FairSpec` has weak fairness of `Handle(r)` for each request: its thread keeps
being scheduled, and each call it makes returns, with an answer or an exception.
Waiting for a connection ends because SQLAlchemy's pool gives up after a timeout
(`PoolTimeout`); without it a request could only wait for the others. That a
business statement returns is an assumption about MySQL: the code means to limit
it with a `MAX_EXECUTION_TIME` hint, but puts the hint before the SELECT keyword,
where MySQL reads a comment, and sets no read timeout. Nothing is assumed fair of
clients, of other sessions, of failures or of crashes: `Receive`, `Break(r)`,
`Crash` and `CommitMetadata` may happen or not.

`MetadataWriters` has a `FairSpec` of its own, with weak fairness of `Advance(p)`
for each program: it runs on, and each call it makes ends. A lock wait ends
because the holder ends, because InnoDB finds the cycle, or by
`innodb_lock_wait_timeout`; the last two are `LockWaitTimeout`, which is part of
`Advance(p)`. Nothing is assumed of operators or of failures.

## The proofs

`SqlGatewayProofs` proves `Spec => []IInv`, and from it `TypeOK` and all the
safety properties of the runs `core` and `shared`, and the action property
`OnceOnly`. The assumptions are those the modules state: numbers are naturals,
texts are strings, the pool is not empty (`BoundsAssumption`,
`CallAssumption`, `MetaAssumption`), `str` and `int` are inverse
(`DecimalAssumption`) and `None` is no other value (`NoneAssumption`). `PoolSound`
also needs no assumption on `Request`, which may be infinite: the set of held
connections is finite by induction.

The properties are not inductive. `AnswerIsAudited`, say, is about a finished
request, and a step knows nothing of how it got there. `IInv` adds, per request,
what the label `pc[r]` promises:

- `SessionInv`: who is connected, and who reads a view;
- `RouteInv`: how many targets there are, against the tables of the statement;
- `FilterInv`: the policy in the context is the one of the view, the datasources
  are enabled in it and all the same, and what is in `explained` was explained
  for this statement and passed;
- `DecisionInv`: where there is a decision, and what it says;
- `RunInv`: a run belongs to an approved execute request and to its targets, and
  the result is the run's;
- `AuditInv`, `ReplyInv`: the row and the answer are those of decision and result.

The step that matters is `Execute`: by `FilterInv` and because the view has not
changed since, `RecheckVerdict` can only be ALLOW, so `result` never says
DATASOURCE_NOT_FOUND (`ApprovalStands`) and the limit that bounds the rows is the
one the statement was approved under. This is where REPEATABLE READ is used: the
mutant `ViewReadCommitted` breaks `ApprovalStands`. The proof has one lemma per
action and one `Frame` lemma for the requests an action does not touch.

The same module proves `Spec => GateSpec`: initial states map to initial states,
and under `IInv` each action maps to one step of `AuditedGate` or to none.

`RedisGatewayProofs` proves `Spec => []IInv` for the Redis gateway, and from it
`TypeOK`, `RunIsInScope`, `ReplyIsBounded` and `ApprovalStands`. Here `IInv` says
per request what the check left behind (`CheckInv`), that a run is of the approved
command on the datasource the view resolves (`RunInv`), and that row and answer
are those of decision and result (`AuditInv`, `ReplyInv`). The collections may
grow at every step; `ReplyIsBounded` holds because what was fetched is counted
again, and does not rest on the size that was asked for. The
assumptions are `BoundsAssumption` (`MaxKeys` is not zero), `CallAssumption`,
`NoneAssumption`, and `PlaceAssumption`: every place an approved command reads is
one that occurs. `Spec => GateSpec` is proved as for SQL.

`CheckChainProofs` proves that `FirstBlock` returns ALLOW or the reason of a check
that blocks, and that a non-empty set of numbers has a least element.
`SqlCheckProofs` proves that an approved plan passed, and `ResolveTableOutcome`: a
routed table is an enabled registered route on an enabled datasource, whatever
the metadata. It also proves three facts about `ResolveTable` for any statement
and any metadata: a table's own predicate decides over those of other tables
(`OwnPredicateDecides`); nothing of the statement but the values read for the
table matters (`ValuesDecide`); and a rewritten table goes to the enabled route
with exactly the value its rule computes from all required factors
(`RuleDecides`).

`ShardedTablesProofs` proves the four properties of the run `routing` for any
number of shards, any keys, any number of predicates and any shards out of
service. The invariant is that an answer belongs to the shards that are in service
now, because every switch forgets it; the content is in the operators. `KeyOf` is
the one value a table is routed by, `ByKey` says which outcome each value has, and
the properties are about which value is read. `ShardAssumption` is the setting:
the suffixes are `0 .. Modulus - 1` and can be spelled, `int` refuses `None` and
the empty string, and no shard has the name of a logical table.

`ImportedTablesProofs` proves all four properties of the run `table_config`, for
any number of rows and names of any length. About names: an identifier fits its
column (`IdentifiersFit`). Two names kept whole share one only if they differ in case and
punctuation alone, two shortened names only if they have the same digest
(`ShorteningKeepsApart`), one of each only if the kept one ends in an underscore and
the digest of the other (`OnlyImitationsMeet`); the three make `NamesStayApart`.
`NameAssumption` asks for the widths only (the code's columns are 64, with a prefix
of 8, and 128; the digest is 8): the eight digits of a SHA-1 may repeat, and a name
may end in them, so both are conditions of the property, on the two names compared.
About tables:

- of equal segments one row is left, so a row of the input has a twin in its group
  with the same source and range (`GroupRows`), and the same table unless names
  meet (`Twin`);
- in a bundle that neither raises nor repeats a route, a value of a table has one
  route (`OneRouteAValue`); for sharded tables the first is enough, because a
  repeated suffix is skipped;
- a bundle gives each table one rule and at most one factor (`Kinds`), so each of
  the four kinds of request computes the value of the route meant (`ByKeyColumn`,
  `ByGivenSuffix`, `ByGivenSource`, `ByNameAlone`), and `ResolveTable` then has one
  answer (`OnlyRouteIsTaken`);
- where the key decides, the suffixes are exactly `0 .. modulus - 1`, so every
  remainder is in the range of some row (`ShardOfARemainder`).

`MetadataWritersProofs` proves `Spec => []IInv`, and from it `TypeOK`,
`RefusedForCause` and `SwitchedOffStaysOff`, for any number of imports and
containers, any bundles, any rows to begin with and an operator who edits at any
time. None of these is inductive: they compare what a transaction saw when it began
with what is there when it commits. The parts of `IInv`:

- `Phases`: what a program has at each label: a bundle, missing tables, a
  transaction;
- `Sessions`: what its transaction has deleted and inserted so far. An import has
  only rows of its bundle and, at `tables`, all its datasources, and so on; what it
  deleted was marked in its view. A container has only missing seeds, and its own
  copies of the datasources it enabled again;
- `Sound`: the rows that are there, and those each transaction would leave, satisfy
  the unique and foreign keys;
- `Disjoint`: two open transactions touch neither one row nor a row and its parent.
  This is what the locks are for (`Held`), and why a commit leaves every other
  transaction `Sound`;
- `Fresh`: no row bears the name of a program that has not ended. Without it the
  ids of an insert could be taken;
- `Views`: what an old view still says of the present. A row that no import owns is
  still there, an id has kept its mark, and of the rows of one import either all
  were in view or none; what was deleted has not come back.

TLC checked `IInv` on the run `writers` before it was proved. `Views` was found on
the way, and so was that an earlier form of `ReplaceImport`, which said that an
import replaces *the* import in force, is false of three imports that overlap: the
third finds two.

The same module proves `Spec => ReplaceSpec`. The step that matters is
`Commit`. `FoundIsGone` says that a row of an import is deleted exactly if its
owner was in view, which needs `Views`: the view is older than the rows.
`KeptOrigin` and `AddedOrigin` say that no row changes sides between imports and
others, `SeenIsThere` that a seed a container saw, and therefore did not insert, is
still there. Every other step changes only `offer`, `base` or `result`.

`BundlesAreClosed` (in `ImportedTablesProofs`) connects the two: what
`build_sync_bundle` yields refers only to its own tables and datasources, and a
table has one factor at most, as `OfferedAssumption` says of what is inserted.

`SqlParsingProofs` proves `CheckedIsAFixedPoint` and `PlainIsUnderstood` for
statements of any length, over any vocabulary and any metadata. `Starts` and `Rewrite` are recursive functions, not
operators, so induction is a statement on sets (`DownTo`), which the provers can
use. The argument for the first has three layers.

- One splice. `Replaced` says that a text is another with the tokens of one name
  exchanged, `Moved` where a place of the one is in the other. A pattern looks at a
  few tokens from its place on; if none of them is in the name, it matches at the
  moved place what it matched before (`TableMoved`, `PredicateMoved`, `LimitMoved`),
  and nothing matches within a name. So a scan of the one text is the scan of the
  other, moved (`ScanTransfer`).
- All splices. From the last name to the first, the names already exchanged are
  behind the next one, so the offsets the parser gave are still right.
  `RewriteKeepsTables` follows for *any* text, also one in which quoted texts hold
  a FROM: the physical names are where the parser saw the tables, with the same
  aliases. For the equalities and the LIMIT (`RewriteKeepsClauses`) that is not
  true of any text: `from user 1` with the physical name `limit` would have gained
  one. It is proved where no name is followed by a number, a dot or an equals sign
  (`TablesStandAlone`). With the same tables, aliases and keys, routing reads the
  same values, and an enabled physical name that has one route goes to that route
  (`RouteIsItsTarget`); so the rewritten text is allowed and left as it is
  (`StandingAloneIsFixed`).
- All statements. `StatementInv` is the invariant of the client: what is written is
  made of whole words, names stand alone, and a quoted text is the value of `note`
  or a key. The last is what keeps the value of `uid` clear of names; without it a
  table named inside a key would change the key.

`PlainIsUnderstood` is not about an exchange but about what is added at the end:

- The seam. `Joins` says that a text is two texts and that nothing after the seam
  carries on what stands before it: no tail of a word, no sign, no `as`, no quote
  that would close one. Then every pattern matches in a part what it matches in the
  whole (`PredicateWithin`, `LimitWithin`, `TableWithin`), and the scan of the whole
  finds what the two scans find (`ScanJoined`, and for each pattern
  `PredicatesJoined`, `LimitsJoined`, `TablesJoined`). There is one exception, and it
  is the parser's: a table at the end of the text takes the next word for its alias.
  `Closed` says that no table there can.
- The clauses. Each begins with a word of its own (`Led`), and says of itself what
  the client meant: one table (`ReferChunk`), one equality also where the quoted text
  holds another (`WhereChunk`), one LIMIT (`LimitChunk`).
- The statement. `PlainInv` is the invariant of a plain one: it is understood so
  far, every quote in it is closed, it has no LIMIT until it is done, and it is
  `Closed` or ends in a table without alias. The last is why a join after such a
  table is not plain: `join` would be read as the alias, and the table after it lost.
  TLC checked `PlainInv` on the run `parsing` before it was proved.

The assumptions are `TokenAssumption` (a token has one part to play), `SpellingAssumption`
(a spelled name reads as itself) and `StatementAssumption`.

Every invariant, every action property and every refinement that a passing run
checks is proved as well. Model-checked only:

- liveness (`EveryRequestEnds`, `ConnectionsReturn`, `EveryProgramEnds`), out of the
  prover's reach with fairness;
- the four violations.

## Not modelled, and why

- Case, white space, comments and escapes inside the words the parser reads, and
  the text tests of the guard: its verdict is given with the request. In
  `SqlGateway` the parsed statement is given too; `SqlParsing` is what yields it.
- Texts for people: messages, route diagnostics, explain summaries, timings.
- Runtime engines are created per call and never disposed; the garbage collector
  closes their connections. No step of the code bounds them.
  `datasource_runtime.py` and the password helpers only build connection
  parameters.
- Names compare as the metadata database compares them; case folding is not
  modelled.
- `RedisGatekeeperService` without a session, which no endpoint uses.
- `TableStatsSnapshot`: nothing reads or writes it. Configuration, request and
  response schemas, the application object, `/health`, the demo scripts, the
  docker files and the demo data have no behaviour beyond values and wiring.
- A connection pool for the Redis endpoints: it is the one of `SqlGateway`.
- Of the import, the query against the remote database (its rows are the input)
  and the summary it prints. Of the schema, columns that no decision reads.
- Gap locks and the order in which statements of one label reach the database:
  a label's statements are one step, and `Held` locks rows and their parents.

## Plan

1. (done) `CheckChain`, `SqlRouting`, `SqlFilters`, `AuditedGate`, `SqlGateway`,
   their instance, the proofs and the refinement; `RedisChecks`, `RedisGateway`.
2. (done) `StableIdentifier`, `TableConfigBundle`, `MetadataWriters` and the
   abstract `ReplaceImport`.
3. (done) `SqlParsing`, with the splice and the second check of its result.
4. (done) Proofs of the Redis gateway and its refinement, of routing by rule and by
   own predicate, and of the identifiers.
5. (done) Atomicity of the import as a theorem, with the invariant behind it; the
   properties of the writers, of `ShardedTables` and of `ImportedTables` for every
   value of their constants.
6. (done) The splice and the second check as theorems, for any text and any number
   of tables.
7. (done) `PlainIsUnderstood` for statements of any length.
8. (open) Which bundles make an import succeed when it runs alone.
