------------------------- MODULE WrittenStatements -------------------------
(***************************************************************************)
(* A client writes a statement from left to right.  "meant" is what the    *)
(* grammar of SQL makes of it: the tables with the position of their       *)
(* names, the equalities of the WHERE clause, the statement's own LIMIT.   *)
(* "plain" says that the statement keeps to joins, each after an aliased   *)
(* table, has one LIMIT, and no clause inside a quoted text.               *)
(***************************************************************************)
EXTENDS SqlParsing, SqlFilters

CONSTANTS
  Metadata,       \* the routing metadata the statement is checked against
  Names,          \* the tables a client may name, each a word
  KeyLiterals,    \* what "uid" is compared with: a number, quoted or not
  Remarks,        \* what "note" is compared with, between the quotes
  Bounds,         \* "count" or "offset, count"
  MaxTables, MaxPredicates

FromOrJoin == {"from", "join"}

\* A name in a remark is not followed as if it were a column or a LIMIT.
Tame(s) ==
  \A i \in DOMAIN s :
    IsToken(s, i, FromOrJoin) /\ IsWord(s, i + 1) =>
      ~IsToken(s, WordStop(s, i + 1), DOMAIN Numeral \union {".", "="})

\* The end of a word comes after its head, and nowhere else.
WellFormed(s) ==
  /\ s \in Seq(Tokens)
  /\ \A i \in DOMAIN s : IsToken(s, i, Tails) => IsWord(s, i - 1)

\* A remark stands between quotes, so it holds none: an escaped quote would
\* end it, for the parser.  It is tame, and what follows it is the quote: one
\* that ended in "=" would make a literal of that quote and what comes after.
ASSUME StatementAssumption ==
  /\ {"on", "where", "and", "a", "b", "uid", "note"} \subseteq Heads
  /\ "1" \in DOMAIN Numeral
  /\ Names \subseteq Words
  /\ \A n \in Names : n[1] \notin FromOrJoin
  /\ \A l \in KeyLiterals : \E n \in DOMAIN Numeral : l = <<n>> \/ \E q \in Quotes : l = <<q, n, q>>
  /\ \A r \in Remarks : /\ WellFormed(r) /\ Tame(r)
                        /\ ~IsToken(r, Len(r), {"="})
                        /\ \A i \in DOMAIN r : r[i] \notin Quotes
  /\ \A b \in Bounds : \E n \in DOMAIN Numeral : b = <<n>> \/ \E m \in DOMAIN Numeral : b = <<m, ",", n>>

VARIABLES text, meant, part

vars == <<text, meant, part>>

Init ==
  /\ text = <<"select", "uid">>
  /\ meant = [tables |-> <<>>, preds |-> <<>>, limit |-> NoValue, plain |-> TRUE]
  /\ part = "select"

-----------------------------------------------------------------------------
(* One more table, after the words that lead to it. *)
Refer(lead, name, alias, rest, plain) ==
  /\ text' = text \o lead \o name \o alias \o rest
  /\ meant' = [meant EXCEPT
       !.tables = Append(@, [name  |-> name,
                             alias |-> IF alias = <<>> THEN NoValue ELSE Last(alias),
                             at    |-> Len(text) + Len(lead) + 1]),
       !.plain = @ /\ plain]
  /\ part' = "tables"

From ==
  /\ part = "select"
  /\ \E name \in Names, alias \in {<<>>, <<"a">>, <<"as", "a">>} : Refer(<<"from">>, name, alias, <<>>, TRUE)

(* ( select ... ) a, with a LIMIT of its own or without. *)
FromSubquery ==
  /\ part = "select"
  /\ \E name \in Names, inner \in {<<>>, <<"limit", "1">>} :
       Refer(<<"from", "(", "select", "uid", "from">>, name, <<"a">>, inner \o <<")", "a">>, inner = <<>>)

Unaliased == Last(meant.tables).alias = NoValue

Join ==
  /\ part = "tables" /\ Len(meant.tables) < MaxTables    \* bound: tables
  /\ \E name \in Names, alias \in {<<>>, <<"b">>} :
       Refer(<<"join">>, name, alias, <<"on", "a", ".", "uid", "=", "b", ".", "uid">>, ~Unaliased)

Comma ==
  /\ part = "tables" /\ Len(meant.tables) < MaxTables
  /\ \E name \in Names, alias \in {<<>>, <<"b">>} : Refer(<<",">>, name, alias, <<>>, FALSE)

Qualifiers == {<<>>} \union
  {IF t.alias = NoValue THEN t.name ELSE <<t.alias>> : t \in Range(meant.tables)}

Equalities == ({"uid"} \X KeyLiterals) \union ({"note"} \X {<<"'">> \o r \o <<"'">> : r \in Remarks})

(* qualifier.column = literal; a quoted text may look like SQL. *)
Where ==
  /\ part \in {"tables", "where"} /\ Len(meant.preds) < MaxPredicates    \* bound: equalities
  /\ \E q \in Qualifiers, e \in Equalities :
       /\ e[1] = "note" => q = <<>>
       /\ text' = text \o (IF part = "where" THEN <<"and">> ELSE <<"where">>)
                       \o (IF q = <<>> THEN <<>> ELSE q \o <<".">>) \o <<e[1], "=">> \o e[2]
       /\ meant' = [meant EXCEPT
            !.preds = Append(@, [qualifier |-> IF q = <<>> THEN NoValue ELSE Joined(q),
                                 column |-> e[1],
                                 value |-> NormalizeValue(e[2], 1, Len(e[2]) + 1)]),
            !.plain = @ /\ Range(e[2]) \intersect {"from", "join", "limit"} = {}]
  /\ part' = "where"

Limit ==
  /\ part \in {"tables", "where"}
  /\ \E bounds \in Bounds :
       /\ text' = text \o <<"limit">> \o bounds
       /\ meant' = [meant EXCEPT !.limit = Numeral[Last(bounds)]]
  /\ part' = "done"

Next == From \/ FromSubquery \/ Join \/ Comma \/ Where \/ Limit
Spec == Init /\ [][Next]_vars

-----------------------------------------------------------------------------
Parsed == Parse(text)

(* RouteDecisionService.resolve, without a route context. *)
Resolve(parsed) ==
  [i \in DOMAIN parsed.tables |-> ResolveTable(Metadata, parsed, parsed.tables[i], <<>>)]
Allowed(resolved) == resolved # <<>> /\ \A i \in DOMAIN resolved : resolved[i].outcome = "target"
Targets(resolved) == [i \in DOMAIN resolved |-> resolved[i].target]

(* A plain statement is understood: every table at its place with the alias*)
(* it was given, the equalities in their order and no other, also where a  *)
(* quoted text looks like one, and the count of its LIMIT.                 *)
PlainIsUnderstood ==
  LET parsed == Parsed
  IN meant.plain =>
       /\ Len(parsed.tables) = Len(meant.tables)
       /\ \A i \in DOMAIN meant.tables :
            LET t == meant.tables[i]
            IN /\ parsed.tables[i].name = Joined(t.name)
               /\ parsed.tables[i].tokenStart = t.at
               /\ t.alias # NoValue => parsed.tables[i].alias = t.alias
       /\ Len(parsed.preds) = Len(meant.preds)
       /\ \A i \in DOMAIN meant.preds :
            LET p == parsed.preds[i]
            IN meant.preds[i] = [qualifier |-> p.qualifier, column |-> p.column, value |-> p.value]
       /\ parsed.limit = meant.limit

(* What the rewritten text says of the tables, the equalities and the      *)
(* LIMIT: the physical tables where the parser had seen the tables, with   *)
(* the same aliases, keys and LIMIT.                                       *)
OnlyNamesDiffer(parsed, old, again) ==
  /\ Len(again.tables) = Len(parsed.tables)
  /\ \A i \in DOMAIN again.tables :
       /\ again.tables[i].name = old[i].physical
       /\ again.tables[i].alias = parsed.tables[i].alias
  /\ Len(again.preds) = Len(parsed.preds)
  /\ \A i \in DOMAIN again.preds :
       LET p == parsed.preds[i]
           q == again.preds[i]
       IN /\ q.column = p.column /\ q.qualifier = p.qualifier
          /\ p.column = "uid" => q.value = p.value
  /\ again.limit = parsed.limit

(* Checking what was checked changes nothing: whatever the statement, the  *)
(* rewritten text differs in the names only, it is allowed, goes to the    *)
(* same targets and is left as it is.  The executor explains and runs this *)
(* text, under the verdict on the other one.  The names must be words, and *)
(* each the name of one enabled route.                                     *)
IsFixedOnceChecked(s) ==
  LET parsed   == Parse(s)
      resolved == Resolve(parsed)
      old      == Targets(resolved)
      again    == Parse(Rewrite(s, parsed.tables, old))
      anew     == Resolve(again)
  IN Allowed(resolved) /\ (\A i \in DOMAIN old : old[i].physical \in DOMAIN Spelling) =>
       /\ OnlyNamesDiffer(parsed, old, again)
       /\ (\A i \in DOMAIN old : ~Multiple(EnabledByPhysicalName(Metadata, old[i].physical))) =>
            /\ Allowed(anew)
            /\ Targets(anew) = [i \in DOMAIN old |-> [old[i] EXCEPT !.rewrite = FALSE]]
            /\ FilterVerdict(Metadata, again, Targets(anew)) = FilterVerdict(Metadata, parsed, old)
CheckedIsAFixedPoint == IsFixedOnceChecked(text)

(* "Extract SQL type, tables, aliases, predicates, and limit"              *)
(* (README.md:283): every table the statement reads is extracted.          *)
EveryTableIsFound ==
  \A i \in DOMAIN meant.tables :
    \E j \in DOMAIN Parsed.tables : Parsed.tables[j].tokenStart = meant.tables[i].at
=============================================================================
