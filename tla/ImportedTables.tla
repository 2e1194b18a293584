--------------------------- MODULE ImportedTables ---------------------------
(***************************************************************************)
(* What the import tool makes of table_config.  Either two names are       *)
(* typed, character by character, and turned into identifiers; or rows are *)
(* added to table_config, one after the other, and the bundle built from   *)
(* them is the metadata SqlRouting resolves against.                       *)
(***************************************************************************)
EXTENDS SqlRouting, TableConfigBundle, StableIdentifier, SequencesExt

CONSTANTS
  Row,         \* the rows table_config may hold
  MaxRows,     \* bound: so many of them
  Character,   \* what names are written with
  MaxLength,   \* bound: the characters of a name
  SpyPrefix,   \* the prefix of an identifier
  IdLength     \* the width of its column

VARIABLES rows, one, other

Names == UNION {[1 .. n -> Character] : n \in 0 .. MaxLength}
SourceNames == {SourceName(Normalized(row)) : row \in Row}

(* str() is the same function in both modules and spells every suffix;     *)
(* int() refuses None, which is no name either.                            *)
ASSUME RowAssumption ==
  /\ Digits = Decimal
  /\ DOMAIN Numeral # {} /\ \A s \in DOMAIN Numeral : Numeral[s] \in Int
  /\ \A row \in Row :
       /\ DOMAIN row = {"source", "catalog", "table", "begin", "end", "shards"}
       /\ row.begin \in Int /\ row.end \in Int /\ row.shards \in Int
       /\ row.begin .. row.end \subseteq DOMAIN Decimal
  /\ NoValue \notin DOMAIN Numeral \union SourceNames \union {"", "uid"}

(* A column has room for the prefix, a digest and two more characters: the *)
(* code's have 64, with a prefix of 8, and 128, and a digest has 8.  It is *)
(* a text, of which nothing else is known: two names may have the same.    *)
ASSUME NameAssumption ==
  /\ Character \subseteq Int /\ MaxLength \in Nat
  /\ SpyPrefix \in Seq(Int) /\ IdLength \in Nat
  /\ Len(SpyPrefix) + DigestLength + 2 <= IdLength
  /\ \A raw \in Names : Digest(raw) \in Seq(Int) /\ Len(Digest(raw)) = DigestLength

-----------------------------------------------------------------------------
Init == rows = <<>> /\ one = <<>> /\ other = <<>>

AddRow ==
  /\ one = <<>> /\ other = <<>>
  /\ Len(rows) < MaxRows
  /\ \E r \in Row : rows' = Append(rows, r)
  /\ UNCHANGED <<one, other>>

Rename ==
  /\ rows = <<>>
  /\ \E c \in Character :
       \/ Len(one) < MaxLength /\ one' = Append(one, c) /\ UNCHANGED other
       \/ Len(other) < MaxLength /\ other' = Append(other, c) /\ UNCHANGED one
  /\ UNCHANGED rows

Next == AddRow \/ Rename
Spec == Init /\ [][Next]_<<rows, one, other>>

-----------------------------------------------------------------------------
Identifier(raw) == MakeStableIdentifier(raw, SpyPrefix, IdLength)

(* No identifier is longer than its column (datasource_code, table_name),  *)
(* and none is the prefix alone.                                           *)
FitsTheColumn ==
  Len(Identifier(one)) <= IdLength /\ Len(Identifier(one)) > Len(SpyPrefix)

IsKept(raw) == Len(SpyPrefix \o Base(raw)) <= IdLength

(* What the identifier of a shortened name ends in, and a name that is     *)
(* short enough to be kept and ends in it, too.                            *)
Mark(raw) == <<Underscore>> \o Digest(raw)
Imitates(a, b) == IsKept(a) /\ ~IsKept(b) /\ IsSuffix(Mark(b), Base(a))

(* Two names are registered under one identifier only when they differ in  *)
(* case and punctuation alone, or where the code's one safeguard fails:    *)
(* both are shortened and have the same digest, or one is shortened and    *)
(* the other is written with its mark at the end.                          *)
NamesStayApart ==
  Identifier(one) = Identifier(other) =>
    \/ Base(one) = Base(other)
    \/ ~IsKept(one) /\ ~IsKept(other) /\ Digest(one) = Digest(other)
    \/ Imitates(one, other) \/ Imitates(other, one)

-----------------------------------------------------------------------------
Bundle == BuildSyncBundle(rows)

(* The expressions of the imported rules, over the extracted values. *)
RuleEval(u) ==
  CASE u.kind = "mod" -> [e \in [{"shard_value"} -> DOMAIN Numeral] |->
                            Decimal[Numeral[e["shard_value"]] % u.modulus]]
    [] u.kind = "suffix_passthrough" -> [e \in [{"route_suffix"} -> DOMAIN Numeral] |->
                            Decimal[Numeral[e["route_suffix"]]]]
    [] u.kind = "source_passthrough" -> [e \in [{"source_name"} -> SourceNames] |->
                            e["source_name"]]
    [] u.kind = "constant" -> [e \in [{} -> {}] |-> "0"]

Metadata(b) ==
  [datasources |-> b.datasources,
   logical |-> {[name |-> l, family |-> {}, enabled |-> TRUE] : l \in b.tables},
   factors |-> b.factors,
   rules   |-> {[logical |-> u.logical, enabled |-> TRUE, eval |-> RuleEval(u)] : u \in b.rules},
   routes  |-> b.routes,
   policy  |-> NoValue]

(* A request for the table: it names its key's column and the key, or the  *)
(* suffix, or the source, or nothing at all.                               *)
Statement(key) ==
  [guard |-> "ALLOW", type |-> "SELECT", tables |-> <<>>, hasLimit |-> TRUE, limit |-> 1,
   preds |-> <<[qualifier |-> NoValue, column |-> "uid", value |-> key]>>]

Asked(l, ctx, key) ==
  ResolveTable(Metadata(Bundle), Statement(key), [name |-> l, alias |-> NoValue], ctx)

ByColumn == [k \in {"shard_column"} |-> "uid"]
BySuffix(s) == [k \in {"route_suffix"} |-> s]
BySource(s) == [k \in {"source_name"} |-> s]
NoContext == [k \in {} |-> ""]
Contexts ==
  {NoContext, ByColumn} \union {BySuffix(s) : s \in DOMAIN Numeral}
                        \union {BySource(s) : s \in SourceNames}

-----------------------------------------------------------------------------
Imported == {Normalized(rows[i]) : i \in Kept(rows)}
LogicalName(row) == LogicalTableName(row.catalog, row.table)
Group(l) == {row \in Imported : LogicalName(row) = l}

(* The tables a row stands for, in a group with or without shards. *)
TablesOf(row) ==
  IF IsSharded(Group(LogicalName(row)))
  THEN {row.table \o "_" \o Digits[n] : n \in row.begin .. row.end}
  ELSE {row.table}

(* A row without a shard count among rows whose key decides the shard: its *)
(* tables are registered, but no remainder need name them.                 *)
Stray(row) ==
  ~ (row.shards > 0) /\ \E u \in Bundle.rules : u.logical = LogicalName(row) /\ u.kind = "mod"

NamesMeet == \E a, b \in Imported : a.table # b.table /\ LogicalName(a) = LogicalName(b)

(* A table with the logical name of others: asked for, it is the answer.   *)
Shadowed(l) == \E p \in Bundle.routes : p.physical = l

(* Routes that the unique constraint of physical_table_route refuses. *)
Duplicated == \E a, b \in Bundle.routes : a # b /\ a.logical = b.logical /\ a.value = b.value

(* Every table a row of table_config stands for is reached by some request *)
(* for its logical name, on the source the row names: no import that goes  *)
(* through loses a table, hides it behind another one or leaves it without *)
(* the factor, the rule or the route it takes.                             *)
EveryRowIsReachable ==
  ~Bundle.raises /\ ~Duplicated /\ ~NamesMeet =>
    \A row \in Imported :
      ~Stray(row) /\ ~Shadowed(LogicalName(row)) =>
        \A physical \in TablesOf(row) :
          \E ctx \in Contexts, key \in DOMAIN Numeral :
            LET asked == Asked(LogicalName(row), ctx, key)
            IN /\ asked.outcome = "target"
               /\ asked.target.physical = physical
               /\ asked.target.ds = DatasourceCode(row.source)

(* Where the import lets the key decide, every key has a shard, the one    *)
(* its remainder names, and the same one under every spelling of the rows. *)
KeysFindTheirShard ==
  ~Bundle.raises =>
    \A u \in {r \in Bundle.rules : r.kind = "mod" /\ ~Shadowed(r.logical)}, key \in DOMAIN Numeral :
      LET asked == Asked(u.logical, ByColumn, key)
          home  == Numeral[key] % u.modulus
      IN /\ asked.outcome = "target"
         /\ \E row \in Group(u.logical) :
              /\ home \in row.begin .. row.end
              /\ asked.target.physical = row.table \o "_" \o Digits[home]
              /\ asked.target.ds = DatasourceCode(row.source)
=============================================================================
