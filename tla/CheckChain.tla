---------------------------- MODULE CheckChain ----------------------------
(***************************************************************************)
(* The shape every check of the gateways has: a list of tests with early   *)
(* returns, the first that blocks giving the reason code.                  *)
(***************************************************************************)
EXTENDS Integers, Sequences

(* A chain of checks is a sequence of [blocks, reason]; the first one that *)
(* blocks decides, and "ALLOW" is the answer of a chain none of whose      *)
(* checks does.                                                            *)
Check(blocks, reason) == [blocks |-> blocks, reason |-> reason]

FirstBlock(chain) ==
  LET blocking == {i \in DOMAIN chain : chain[i].blocks}
  IN IF blocking = {} THEN "ALLOW"
     ELSE chain[CHOOSE i \in blocking : \A j \in blocking : i <= j].reason
=============================================================================
