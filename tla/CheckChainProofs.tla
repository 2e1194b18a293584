------------------------- MODULE CheckChainProofs -------------------------
(***************************************************************************)
(* What the answer of a chain of checks says, for any chain.               *)
(***************************************************************************)
EXTENDS CheckChain, TLAPS, WellFoundedInduction

(* A non-empty set of naturals has a least element.                        *)
LEMMA LeastElement ==
  ASSUME NEW S \in SUBSET Nat, S # {}
  PROVE  \E i \in S : \A j \in S : i <= j
<1> DEFINE less == {ss \in Nat \X Nat : ss[1] < ss[2]}
<1>1. less = OpToRel(<, Nat)
  BY DEF OpToRel
<1>2. IsWellFoundedOn(less, Nat)
  BY <1>1, NatLessThanWellFounded, Zenon
<1> HIDE DEF less
<1>3. PICK i \in S : \A j \in S : ~ (<<j, i>> \in less)
  BY <1>2, WFMin, Zenon
<1>4. ASSUME NEW j \in S PROVE i <= j
  <2>1. <<j, i>> \notin less
    BY <1>3
  <2>2. ~ (j < i)
    BY <2>1 DEF less
  <2> QED BY <2>2
<1> QED BY <1>4

(* Chains of checks: FirstBlock is "ALLOW" or the reason of a check that   *)
(* blocks.                                                                 *)
LEMMA FirstBlockCases ==
  ASSUME NEW chain, NEW n \in Nat, DOMAIN chain = 1 .. n
  PROVE  \/ /\ FirstBlock(chain) = "ALLOW"
            /\ \A i \in 1 .. n : ~ chain[i].blocks
         \/ \E i \in 1 .. n : chain[i].blocks /\ FirstBlock(chain) = chain[i].reason
<1> DEFINE blocking == {i \in DOMAIN chain : chain[i].blocks}
           first == CHOOSE i \in blocking : \A j \in blocking : i <= j
<1>1. CASE blocking = {}
  BY <1>1 DEF FirstBlock
<1>2. CASE blocking # {}
  <2>1. blocking \in SUBSET Nat
    OBVIOUS
  <2>2. first \in blocking
    BY <1>2, <2>1, LeastElement, Zenon
  <2>3. FirstBlock(chain) = chain[first].reason
    BY <1>2, Zenon DEF FirstBlock
  <2> QED BY <2>2, <2>3
<1> QED BY <1>1, <1>2
=============================================================================
