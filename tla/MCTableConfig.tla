--------------------------- MODULE MCTableConfig ---------------------------
(***************************************************************************)
(* All pairs of names of up to MaxLength characters (a letter in both      *)
(* cases, another letter, a hyphen): with a prefix and a digest of one     *)
(* character, a name of MaxLength is too long by one for IdLength, and is  *)
(* cut to two characters, of which the second may be an underscore.  And   *)
(* every import of up to MaxRows rows, whose names fold as                 *)
(* make_stable_identifier folds them: "T" and "t" are one logical table,   *)
(* "" is "unknown_source".                                                 *)
(***************************************************************************)
EXTENDS ImportedTables

MCCharacter == {45, 65, 97, 98}   \* - A a b
MCAlnum == {65, 97, 98}
MCLower == [c \in MCAlnum |-> IF c = 65 THEN 97 ELSE c]
MCUnknown == <<117>>
MCSpyPrefix == <<115>>

(* One hexadecimal digit: among 4^5 names many have the same, and a and b  *)
(* may stand in a name, too.                                               *)
MCHexDigit == [n \in 0 .. 15 |-> IF n < 10 THEN 48 + n ELSE 87 + n]
MCDigest(raw) ==
  LET hash[i \in 0 .. Len(raw)] == IF i = 0 THEN 0 ELSE (7 * hash[i - 1] + raw[i]) % 31
  IN <<MCHexDigit[hash[Len(raw)] % 16]>>

MCDecimal == [n \in 0 .. 7 |-> <<"0", "1", "2", "3", "4", "5", "6", "7">>[n + 1]]
MCNumeral == [s \in {MCDecimal[n] : n \in 0 .. 7} |-> CHOOSE n \in 0 .. 7 : MCDecimal[n] = s]
MCStripped ==
  [s \in {"main", " main", "lot", "t", "T", "u", "main__t", "", " "} |->
     CASE s = " main" -> "main" [] s = " " -> "" [] OTHER -> s]
MCDatasourceCode(source) == "spy_src_" \o (IF source = "" THEN "unknown_source" ELSE source)
MCLogicalTableName(catalog, table) == catalog \o "__" \o (IF table = "T" THEN "t" ELSE table)

(* begin, end and shard_count: single tables, one of them in two segments, *)
(* one beyond the shards of the others; complete and incomplete ranges; a  *)
(* range of a doubled table.  And a table named like another's logical     *)
(* name.                                                                   *)
Unsharded == {<<0, 0, 0>>, <<0, 1, 0>>, <<2, 2, 0>>}
Ranges == {<<0, 0, 2>>, <<1, 1, 2>>, <<0, 1, 2>>, <<2, 3, 4>>}

MCRow ==
  {[source |-> s, catalog |-> "main", table |-> "t", begin |-> r[1], end |-> r[2], shards |-> r[3]] :
     s \in {"main", "lot", ""}, r \in Unsharded \union Ranges}
  \union
  {[source |-> " main", catalog |-> "main", table |-> t, begin |-> r[1], end |-> r[2], shards |-> r[3]] :
     t \in {"T", "u", " "}, r \in {<<0, 0, 0>>, <<0, 1, 2>>}}
  \union
  {[source |-> "main", catalog |-> "main", table |-> "main__t", begin |-> 0, end |-> 0, shards |-> 0]}
=============================================================================
