--------------------------- MODULE MCSqlRouting ---------------------------
(***************************************************************************)
(* Two tables of three shards, of which at most MaxOff are out of service, *)
(* and every statement with at most two predicates on the shard column.    *)
(***************************************************************************)
EXTENDS ShardedTables

MCKey == {"0", "1", "4", "x", ""}
MCDecimal == [n \in 0 .. 5 |-> <<"0", "1", "2", "3", "4", "5">>[n + 1]]
MCNumeral == [s \in {MCDecimal[n] : n \in 0 .. 5} |-> CHOOSE n \in 0 .. 5 : MCDecimal[n] = s]
MCPhysicalName(s) == s[1] \o "_" \o MCDecimal[s[2]]
=============================================================================
