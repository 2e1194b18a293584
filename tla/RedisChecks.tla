---------------------------- MODULE RedisChecks ----------------------------
(***************************************************************************)
(* What RedisGatekeeperService.check decides from a command and one view   *)
(* of datasource_instance, without touching Redis.                         *)
(*                                                                         *)
(* A datasource is a record                                                *)
(*    code, type, enabled   its columns; type as lower() gives it          *)
(*    catalog    extra.catlog_name, "" when there is none                  *)
(*    prefixes   extra.allowed_key_prefixes as a set, NoValue when absent  *)
(* A command's context is a record [datasource, catalog], "" for a key the *)
(* request leaves out.                                                     *)
(***************************************************************************)
EXTENDS CheckChain, FiniteSets

CONSTANTS
  NoValue,
  NoDatasource,     \* the routing found none
  MaxKeys,          \* settings.redis_max_keys_per_request
  MaxItems,         \* settings.redis_max_result_items
  MaxKeyLength,     \* settings.redis_max_key_length
  DefaultPrefixes,  \* settings.redis_allowed_key_prefixes
  KeyLength,        \* the length of every key
  Wildcard,         \* the keys with a *, a ? or a [
  StartsWith,       \* the pairs <<key, prefix>> of a key and its prefixes
  Numeral           \* the value of every string int() accepts

ReadonlyCommands ==
  {"GET", "MGET", "HGET", "HMGET", "HGETALL", "EXISTS", "TTL", "PTTL", "TYPE", "LLEN",
   "SCARD", "ZCARD", "LRANGE", "ZRANGE", "SMEMBERS"}

DeniedCommands ==
  {"SET", "MSET", "DEL", "UNLINK", "EXPIRE", "PEXPIRE", "PERSIST", "RENAME", "FLUSHDB",
   "FLUSHALL", "EVAL", "EVALSHA", "CONFIG", "KEYS", "SCAN", "HSET", "HMSET", "HDEL", "LPUSH",
   "RPUSH", "LPOP", "RPOP", "SADD", "SREM", "ZADD", "ZREM"}

OneArgument ==
  {"GET", "HGETALL", "TTL", "PTTL", "TYPE", "LLEN", "SCARD", "ZCARD", "SMEMBERS"}
ManyKeys == {"MGET", "EXISTS"}
Ranges == {"LRANGE", "ZRANGE"}
Collections == {"HGETALL", "SMEMBERS"}

CommandVerdict(command) ==
  FirstBlock(<<
    Check(command = "", "EMPTY_REDIS_COMMAND"),
    Check(command \in DeniedCommands, "REDIS_COMMAND_DENIED"),
    Check(command \notin ReadonlyCommands, "REDIS_COMMAND_UNSUPPORTED") >>)

(* Start and stop of LRANGE and ZRANGE: integers with 0 <= start <= stop.  *)
RangeIsSound(args) ==
  /\ Len(args) = 3
  /\ args[2] \in DOMAIN Numeral /\ args[3] \in DOMAIN Numeral
  /\ 0 <= Numeral[args[2]] /\ Numeral[args[2]] <= Numeral[args[3]]

ArgsVerdict(command, args) ==
  FirstBlock(<<
    Check(command \in OneArgument /\ Len(args) # 1, "REDIS_ARG_COUNT_INVALID"),
    Check(command = "HGET" /\ Len(args) # 2, "REDIS_ARG_COUNT_INVALID"),
    Check(command \in ManyKeys /\ Len(args) \notin 1 .. MaxKeys, "REDIS_TOO_MANY_KEYS"),
    Check(command = "HMGET" /\ Len(args) < 2, "REDIS_ARG_COUNT_INVALID"),
    Check(command \in Ranges /\ Len(args) # 3, "REDIS_ARG_COUNT_INVALID"),
    Check(command \in Ranges /\ ~RangeIsSound(args), "REDIS_RANGE_INVALID"),
    Check(/\ command \in Ranges /\ RangeIsSound(args)
          /\ Numeral[args[3]] - Numeral[args[2]] + 1 > MaxItems,
          "REDIS_RANGE_LIMIT_EXCEEDED") >>)

\* mutant: the first argument for every command
KeyArgsFirst(command, args) == SubSeq(args, 1, 1)
KeyArgs(command, args) == IF command \in ManyKeys THEN args ELSE SubSeq(args, 1, 1)

AllowedPrefixes(d) == IF d.prefixes = NoValue THEN DefaultPrefixes ELSE d.prefixes

(* An empty list of prefixes allows every key, as "*" does. *)
InScope(d, key) ==
  LET prefixes == AllowedPrefixes(d)
  IN prefixes = {} \/ "*" \in prefixes \/ \E p \in prefixes : <<key, p>> \in StartsWith

KeyVerdict(d, key) ==
  FirstBlock(<<
    Check(key = "", "REDIS_KEY_EMPTY"),
    Check(KeyLength[key] > MaxKeyLength, "REDIS_KEY_TOO_LONG"),
    Check(key \in Wildcard, "REDIS_KEY_PATTERN_DENIED"),
    Check(~InScope(d, key), "REDIS_KEY_SCOPE_DENIED") >>)

KeysVerdict(d, keys) ==
  FirstBlock([i \in DOMAIN keys |->
    Check(KeyVerdict(d, keys[i]) # "ALLOW", KeyVerdict(d, keys[i]))])

-----------------------------------------------------------------------------
EnabledByCode(m, code) == {d \in m : d.enabled /\ d.code = code}

Found(d) == [ds |-> d, reason |-> "ALLOW"]
NotFound(reason) == [ds |-> NoDatasource, reason |-> reason]

(* _resolve_datasource: by code when the request names one, otherwise by   *)
(* catalog and the first key; more than one match is no match.             *)
ResolveByCode(m, code) ==
  IF EnabledByCode(m, code) = {} THEN NotFound("REDIS_DATASOURCE_NOT_FOUND")
  ELSE Found(CHOOSE d \in EnabledByCode(m, code) : TRUE)

ResolveByCatalog(m, catalog, keys) ==
  LET ofCatalog == {d \in m : d.enabled /\ d.type = "redis" /\ d.catalog = catalog}
      matching  == {d \in ofCatalog : keys[1] = "" \/ InScope(d, keys[1])}
  IN CASE Cardinality(matching) = 1 -> Found(CHOOSE d \in matching : TRUE)
       [] Cardinality(matching) = 0 -> NotFound("REDIS_ROUTE_NOT_FOUND")
       [] OTHER -> NotFound("REDIS_ROUTE_AMBIGUOUS")

ResolveDatasource(m, command, args, ctx) ==
  IF ctx.datasource # "" THEN ResolveByCode(m, ctx.datasource)
  ELSE IF ctx.catalog = "" THEN NotFound("REDIS_ROUTE_CONTEXT_REQUIRED")
  ELSE ResolveByCatalog(m, ctx.catalog, KeyArgs(command, args))

(* The rest of check(), once the command's form is fine. *)
DatasourceVerdict(route, command, args) ==
  IF route.ds = NoDatasource THEN route.reason
  ELSE IF route.ds.type # "redis" THEN "REDIS_DATASOURCE_TYPE_INVALID"
  ELSE KeysVerdict(route.ds, KeyArgs(command, args))

(* Every reason check() rejects a command for.                             *)
CheckReason ==
  {"EMPTY_REDIS_COMMAND", "REDIS_COMMAND_DENIED", "REDIS_COMMAND_UNSUPPORTED",
   "REDIS_ARG_COUNT_INVALID", "REDIS_TOO_MANY_KEYS", "REDIS_RANGE_INVALID",
   "REDIS_RANGE_LIMIT_EXCEEDED", "REDIS_DATASOURCE_NOT_FOUND", "REDIS_ROUTE_CONTEXT_REQUIRED",
   "REDIS_ROUTE_NOT_FOUND", "REDIS_ROUTE_AMBIGUOUS", "REDIS_DATASOURCE_TYPE_INVALID",
   "REDIS_KEY_EMPTY", "REDIS_KEY_TOO_LONG", "REDIS_KEY_PATTERN_DENIED",
   "REDIS_KEY_SCOPE_DENIED"}

-----------------------------------------------------------------------------
(* How many rows _format_rows makes of the answer to a command, when its   *)
(* key holds size elements.                                                *)
Rows(command, args, size) ==
  CASE command = "MGET" -> Len(args)
    [] command = "HMGET" -> Len(args) - 1
    [] command \in Collections -> size
    [] command \in Ranges ->
         LET start == Numeral[args[2]]
             stop  == Numeral[args[3]]
         IN IF size <= start THEN 0
            ELSE IF stop < size THEN stop - start + 1 ELSE size - start
    [] OTHER -> 1
=============================================================================
