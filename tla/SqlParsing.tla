----------------------------- MODULE SqlParsing -----------------------------
(***************************************************************************)
(* services/sql_parser.py and services/sql_rewrite.py: what three regular  *)
(* expressions find in a statement, and the splice of table names.         *)
(*                                                                         *)
(* A text is a sequence of tokens: punctuation, a quote, a number, or a    *)
(* part of a word.  A word is a head and, when its name is longer, a tail: *)
(* names have different lengths, so that a splice moves what follows it.   *)
(* Offsets are positions of tokens; case and white space are left out.     *)
(***************************************************************************)
EXTENDS SqlRouting, SequencesExt

CONSTANTS
  Heads,     \* tokens that begin a word, keywords included
  Tails,     \* tokens that end one
  Spelling   \* the tokens of the physical table names that are words

Quotes == {"'", "\""}
Signs == {"(", ")", ",", ".", "="}
Tokens == Heads \union Tails \union DOMAIN Numeral \union Quotes \union Signs
Words == {<<h>> : h \in Heads} \union {<<h, t>> : h \in Heads, t \in Tails}

Joined(tokens) == FoldLeft(LAMBDA a, b : a \o b, "", tokens)

\* A token has one part to play, one that begins a word is a text of its
\* own, and None is no text.
ASSUME TokenAssumption ==
  /\ Tails \intersect Heads = {}
  /\ (Heads \union Tails) \intersect (DOMAIN Numeral \union Quotes \union Signs) = {}
  /\ DOMAIN Numeral \intersect (Quotes \union Signs) = {}
  /\ {"select", "from", "join", "as", "limit"} \subseteq Heads
  /\ \A h \in Heads : Joined(<<h>>) = h
  /\ NoValue \notin Tokens

ASSUME SpellingAssumption ==
  \A p \in DOMAIN Spelling : Spelling[p] \in Words /\ Joined(Spelling[p]) = p

-----------------------------------------------------------------------------
IsToken(text, i, tokens) == i \in DOMAIN text /\ text[i] \in tokens
IsWord(text, i) == IsToken(text, i, Heads)
IsNumber(text, i) == IsToken(text, i, DOMAIN Numeral)
WordStop(text, i) == IF IsToken(text, i + 1, Tails) THEN i + 2 ELSE i + 1
TextOf(text, i, stop) == Joined(SubSeq(text, i, stop - 1))
WordAt(text, i) == TextOf(text, i, WordStop(text, i))

NoMatch == [stop |-> 0]

(* finditer: of the matches there may be at each place, those from left to *)
(* right, each sought from where the one before it stopped.                *)
Starts(n, matches) ==
  LET starts[i \in 1 .. n + 1] ==
        IF i > n THEN <<>>
        ELSE IF matches[i].stop = 0 THEN starts[i + 1]
        ELSE <<i>> \o starts[matches[i].stop]
  IN starts

FindIter(text, matches) ==
  LET starts == Starts(Len(text), matches)[1] IN [k \in DOMAIN starts |-> matches[starts[k]]]

(* TABLE_PATTERN.  Any word after the table is its alias, a keyword too.   *)
\* mutant: "as" is taken for the alias
AliasAtNextWord(text, i) == i
AliasAt(text, i) == IF IsToken(text, i, {"as"}) /\ IsWord(text, i + 1) THEN i + 1 ELSE i

TableAt(text, i) ==
  LET next    == WordStop(text, i + 1)
      aliasAt == AliasAt(text, next)
      aliased == IsWord(text, aliasAt)
  IN IF ~(IsToken(text, i, {"from", "join"}) /\ IsWord(text, i + 1)) THEN NoMatch
     ELSE [name  |-> WordAt(text, i + 1), tokenStart |-> i + 1, tokenEnd |-> next,
           alias |-> IF aliased THEN WordAt(text, aliasAt) ELSE NoValue,
           stop  |-> IF aliased THEN WordStop(text, aliasAt) ELSE next]

(* PREDICATE_PATTERN: a column, "=" and a number or a quoted text. *)
LiteralStop(text, i) ==
  LET closing == {j \in DOMAIN text : j > i /\ text[j] = text[i]}
  IN CASE IsNumber(text, i) -> i + 1
       [] IsToken(text, i, Quotes) /\ closing # {} -> Min(closing) + 1
       [] OTHER -> 0

NormalizeValue(text, i, stop) ==
  IF text[i] \in Quotes THEN TextOf(text, i + 1, stop - 1) ELSE text[i]

EqualityAt(text, qualifier, i) ==
  LET value == WordStop(text, i) + 1
      stop  == LiteralStop(text, value)
  IN IF IsWord(text, i) /\ IsToken(text, value - 1, {"="}) /\ stop # 0
     THEN [qualifier |-> qualifier, column |-> WordAt(text, i),
           value |-> NormalizeValue(text, value, stop), stop |-> stop]
     ELSE NoMatch

PredicateAt(text, i) ==
  LET next == WordStop(text, i)
  IN IF IsWord(text, i) /\ IsToken(text, next, {"."})
     THEN EqualityAt(text, WordAt(text, i), next + 1)
     ELSE EqualityAt(text, NoValue, i)

(* LIMIT_PATTERN, and the count of "limit offset, count". *)
LimitAt(text, i) ==
  IF ~(IsToken(text, i, {"limit"}) /\ IsNumber(text, i + 1)) THEN NoMatch
  ELSE IF IsToken(text, i + 2, {","}) /\ IsNumber(text, i + 3)
       THEN [count |-> Numeral[text[i + 3]], stop |-> i + 4]
       ELSE [count |-> Numeral[text[i + 1]], stop |-> i + 2]

(* SqlParser.parse of a statement the guard let pass. *)
TablesOf(text) == FindIter(text, [i \in DOMAIN text |-> TableAt(text, i)])
PredicatesOf(text) == FindIter(text, [i \in DOMAIN text |-> PredicateAt(text, i)])
LimitsOf(text) == FindIter(text, [i \in DOMAIN text |-> LimitAt(text, i)])

Parse(text) ==
  LET limits == LimitsOf(text)
  IN [guard    |-> "ALLOW",
      type     |-> IF IsWord(text, 1) THEN text[1] ELSE "unknown",
      tables   |-> TablesOf(text),
      preds    |-> PredicatesOf(text),
      hasLimit |-> limits # <<>>,
      limit    |-> IF limits = <<>> THEN NoValue ELSE limits[1].count]

-----------------------------------------------------------------------------
(* SqlRewriteEngine.rewrite: the names go in from the last to the first,   *)
(* so that the offsets of the others stay right.                           *)
Splice(text, table, name) ==
  SubSeq(text, 1, table.tokenStart - 1) \o Spelling[name]
    \o SubSeq(text, table.tokenEnd, Len(text))

RewriteTable(text, table, target) ==
  IF target.rewrite THEN Splice(text, table, target.physical) ELSE text

\* mutant: the first name goes in first
RewriteForward(text, tables, targets) ==
  LET rewritten[k \in 0 .. Len(tables)] ==
        IF k = 0 THEN text ELSE RewriteTable(rewritten[k - 1], tables[k], targets[k])
  IN rewritten[Len(tables)]
Rewrite(text, tables, targets) ==
  LET rewritten[k \in 1 .. Len(tables) + 1] ==
        IF k > Len(tables) THEN text ELSE RewriteTable(rewritten[k + 1], tables[k], targets[k])
  IN rewritten[1]
=============================================================================
