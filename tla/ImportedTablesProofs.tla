------------------------ MODULE ImportedTablesProofs ------------------------
(***************************************************************************)
(* Theorems about ImportedTables: make_stable_identifier for names,        *)
(* prefixes and columns of any length, and build_sync_bundle for any rows, *)
(* as many as there are.                                                   *)
(***************************************************************************)
EXTENDS ImportedTables, CheckChainProofs, SequenceTheorems

(* A non-empty set of numbers up to n has a greatest element. *)
LEMMA GreatestBelow ==
  ASSUME NEW n \in Int, NEW S \in SUBSET Int, S # {}, \A i \in S : i <= n
  PROVE  Max(S) \in S /\ \A i \in S : i <= Max(S)
<1> DEFINE below == {n - i : i \in S}
<1>1. below \in SUBSET Nat /\ below # {}
  <2>1. \A i \in S : n - i \in Nat
    OBVIOUS
  <2>2. PICK i \in S : TRUE
    OBVIOUS
  <2> QED BY <2>1, <2>2
<1>2. PICK k \in below : \A j \in below : k <= j
  BY <1>1, LeastElement, Zenon
<1>3. PICK m \in S : k = n - m
  BY <1>2
<1>4. \A i \in S : m >= i
  <2> SUFFICES ASSUME NEW i \in S PROVE m >= i
    OBVIOUS
  <2>1. k <= n - i
    BY <1>2
  <2> QED BY <1>3, <2>1
<1>5. \E x \in S : \A y \in S : x >= y
  BY <1>4
<1>6. Max(S) \in S /\ \A y \in S : Max(S) >= y
  BY <1>5 DEF Max
<1> QED BY <1>6

LEMMA GreatestElement ==
  ASSUME NEW n \in Nat, NEW S \in SUBSET (0 .. n), S # {}
  PROVE  Max(S) \in S /\ \A i \in S : i <= Max(S)
<1>1. S \in SUBSET Int /\ n \in Int /\ \A i \in S : i <= n
  OBVIOUS
<1> QED BY <1>1, GreatestBelow

LEMMA BoundOfTwo == \A x \in Int : \A y \in Nat : \E z \in Nat : y <= z /\ x <= z
<1> SUFFICES ASSUME NEW x \in Int, NEW y \in Nat PROVE \E z \in Nat : y <= z /\ x <= z
  OBVIOUS
<1>1. CASE x <= y
  BY <1>1
<1>2. CASE ~ (x <= y)
  <2>1. x \in Nat /\ y <= x /\ x <= x
    BY <1>2
  <2> QED BY <2>1
<1> QED BY <1>1, <1>2

(* Finitely many numbers have a bound: of the lengths at which they have   *)
(* none, there would be a least one.                                       *)
LEMMA FinitelyManyHaveABound ==
  \A n \in Nat : \A f \in [1 .. n -> Int] : \E b \in Nat : \A i \in 1 .. n : f[i] <= b
<1> DEFINE Bounded(n) == \A f \in [1 .. n -> Int] : \E b \in Nat : \A i \in 1 .. n : f[i] <= b
           without == {n \in Nat : ~ Bounded(n)}
<1> SUFFICES ASSUME without # {} PROVE FALSE
  OBVIOUS
<1>1. PICK n \in without : \A k \in without : n <= k
  <2>1. without \in SUBSET Nat
    OBVIOUS
  <2> QED BY <2>1, LeastElement, Zenon
<1>2. n \in Nat /\ ~ Bounded(n)
  OBVIOUS
<1>3. n # 0
  <2>1. 0 \in Nat /\ \A i \in 1 .. 0 : FALSE
    OBVIOUS
  <2>2. Bounded(0)
    BY <2>1, Zenon
  <2> QED BY <1>2, <2>2
<1>4. Bounded(n - 1)
  <2>1. n - 1 \in Nat /\ ~ (n <= n - 1)
    BY <1>2, <1>3
  <2> QED BY <1>1, <2>1
<1>5. PICK f \in [1 .. n -> Int] : ~ \E b \in Nat : \A i \in 1 .. n : f[i] <= b
  BY <1>2
<1> DEFINE g == [i \in 1 .. n - 1 |-> f[i]]
<1>6. g \in [1 .. n - 1 -> Int] /\ n \in 1 .. n /\ f[n] \in Int
  BY <1>2, <1>3, <1>5
<1>7. PICK b \in Nat : \A i \in 1 .. n - 1 : g[i] <= b
  BY <1>4, <1>6
<1>8. PICK c \in Nat : b <= c /\ f[n] <= c
  <2>1. \A x \in Int : \A y \in Nat : \E z \in Nat : y <= z /\ x <= z
    BY BoundOfTwo
  <2> QED BY <1>6, <2>1
<1>9. \A i \in 1 .. n : f[i] <= c
  <2> SUFFICES ASSUME NEW i \in 1 .. n PROVE f[i] <= c
    OBVIOUS
  <2>1. CASE i = n
    BY <1>8, <2>1
  <2>2. CASE i # n
    <3>1. i \in 1 .. n - 1 /\ f[i] \in Int
      BY <1>2, <1>5, <2>2
    <3>2. f[i] <= b
      BY <1>7, <3>1
    <3> QED BY <1>8, <3>1, <3>2
  <2> QED BY <2>1, <2>2
<1> QED BY <1>5, <1>8, <1>9

(* Cutting a text. *)
LEMMA PrefixLength ==
  ASSUME NEW s \in Seq(Int), NEW n \in Nat
  PROVE  /\ Prefix(s, n) \in Seq(Int)
         /\ Len(Prefix(s, n)) <= n /\ Len(Prefix(s, n)) <= Len(s)
         /\ n <= Len(s) => Len(Prefix(s, n)) = n
         /\ \A i \in 1 .. Len(Prefix(s, n)) : Prefix(s, n)[i] = s[i]
<1> DEFINE m == IF n < Len(s) THEN n ELSE Len(s)
<1>1. m \in Nat /\ m <= Len(s) /\ m <= n /\ (n <= Len(s) => m = n)
  OBVIOUS
<1>2. Prefix(s, n) = SubSeq(s, 1, m)
  BY DEF Prefix
<1> HIDE DEF m
<1>3. /\ SubSeq(s, 1, m) \in Seq(Int) /\ Len(SubSeq(s, 1, m)) = m
      /\ \A i \in 1 .. m : SubSeq(s, 1, m)[i] = s[i]
  BY <1>1
<1> QED BY <1>1, <1>2, <1>3

(* rstrip("_") only shortens, and stops at a letter. *)
LEMMA StripRightLength ==
  ASSUME NEW s \in Seq(Int)
  PROVE  /\ StripRight(s) \in Seq(Int) /\ Len(StripRight(s)) <= Len(s)
         /\ s # <<>> /\ s[1] # Underscore => Len(StripRight(s)) >= 1
<1> DEFINE kept == {0} \union {i \in DOMAIN s : s[i] # Underscore}
<1>1. kept \in SUBSET (0 .. Len(s)) /\ kept # {} /\ Len(s) \in Nat
  OBVIOUS
<1>2. Max(kept) \in kept /\ \A i \in kept : i <= Max(kept)
  BY <1>1, GreatestElement, Zenon
<1>3. Max(kept) \in Nat /\ Max(kept) <= Len(s)
  BY <1>1, <1>2
<1>4. StripRight(s) = Prefix(s, Max(kept))
  BY DEF StripRight
<1>5. s # <<>> /\ s[1] # Underscore => Max(kept) >= 1
  <2> SUFFICES ASSUME s # <<>>, s[1] # Underscore PROVE Max(kept) >= 1
    OBVIOUS
  <2>1. 1 \in kept
    OBVIOUS
  <2> QED BY <1>2, <2>1
<1> HIDE DEF kept
<1> QED BY <1>3, <1>4, <1>5, PrefixLength

(* The characters and the digest. *)
Texts == Seq(Int)
Digested(raw) == Digest(raw) \in Texts /\ Len(Digest(raw)) = DigestLength

(* What is left of a name: a text that begins with no underscore.          *)
LEMMA BaseIsAText ==
  ASSUME NEW raw \in Texts
  PROVE  Base(raw) \in Texts /\ Base(raw) # <<>> /\ Base(raw)[1] # Underscore
<1> DEFINE s == [i \in DOMAIN raw |-> IF raw[i] \in Alnum THEN Lower[raw[i]] ELSE Underscore]
           kept == {i \in DOMAIN s : s[i] # Underscore}
<1>1. s \in Texts /\ Len(s) = Len(raw) /\ DOMAIN s = 1 .. Len(raw)
  <2>1. \A i \in DOMAIN raw : s[i] \in Int
    BY TextAssumption
  <2>2. DOMAIN raw = 1 .. Len(raw) /\ Len(raw) \in Nat
    BY DEF Texts
  <2>3. s \in [1 .. Len(raw) -> Int]
    BY <2>1, <2>2
  <2> HIDE DEF s
  <2> QED BY <2>2, <2>3 DEF Texts
<1>2. CASE kept = {}
  <2>1. StripBoth(s) = <<>>
    BY <1>2 DEF StripBoth
  <2>2. Base(raw) = Unknown
    BY <2>1 DEF Base
  <2> QED BY <2>2, TextAssumption DEF Texts
<1>3. CASE kept # {}
  <2> HIDE DEF s
  <2>1. kept \in SUBSET (0 .. Len(s)) /\ kept \in SUBSET Nat /\ Len(s) \in Nat
    BY <1>1 DEF Texts
  <2>2. Max(kept) \in kept /\ \A i \in kept : i <= Max(kept)
    BY <1>3, <2>1, GreatestElement, Zenon
  <2>3. \E i \in kept : \A j \in kept : i <= j
    BY <1>3, <2>1, LeastElement, Zenon
  <2>4. Min(kept) \in kept /\ \A j \in kept : Min(kept) <= j
    BY <2>3 DEF Min
  <2>5. StripBoth(s) = SubSeq(s, Min(kept), Max(kept))
    BY <1>3 DEF StripBoth
  <2>6. /\ Min(kept) \in 1 .. Len(s) /\ Max(kept) \in 1 .. Len(s) /\ Min(kept) <= Max(kept)
        /\ s[Min(kept)] # Underscore
    BY <1>1, <2>2, <2>4
  <2>7. /\ StripBoth(s) \in Texts /\ Len(StripBoth(s)) >= 1
        /\ StripBoth(s)[1] = s[Min(kept)]
    <3> DEFINE a == Min(kept)  b == Max(kept)
    <3> HIDE DEF kept, a, b
    <3>1. a \in 1 .. Len(s) /\ b \in 1 .. Len(s) /\ a <= b /\ s \in Seq(Int)
      BY <1>1, <2>6 DEF a, b, Texts
    <3>2. SubSeq(s, a, b) \in Seq(Int) /\ Len(SubSeq(s, a, b)) = b - a + 1
          /\ SubSeq(s, a, b)[1] = s[a]
      BY <3>1
    <3> QED BY <2>5, <3>1, <3>2 DEF a, b, Texts
  <2>8. StripBoth(s) # <<>>
    BY <2>7
  <2>9. Base(raw) = StripBoth(s)
    BY <2>8 DEF Base, s
  <2> QED BY <2>6, <2>7, <2>8, <2>9
<1> QED BY <1>2, <1>3

(* What follows the prefix of a shortened name. *)
Shortened(raw, prefix, maxLength) ==
  StripRight(Prefix(Base(raw), Max({1, maxLength - Len(prefix) - DigestLength - 1})))

(* A shortened name has a letter, and leaves room for the digest. *)
LEMMA ShortenedLength ==
  ASSUME NEW raw \in Texts, NEW prefix \in Texts, NEW maxLength \in Nat,
         Len(prefix) + DigestLength + 2 <= maxLength
  PROVE  /\ Shortened(raw, prefix, maxLength) \in Texts
         /\ Len(Shortened(raw, prefix, maxLength)) >= 1
         /\ Len(prefix) + Len(Shortened(raw, prefix, maxLength)) + 1 + DigestLength <= maxLength
<1> DEFINE available == maxLength - Len(prefix) - DigestLength - 1
           cut == Prefix(Base(raw), available)
<1>1. available \in Nat /\ available >= 1 /\ Len(prefix) \in Nat /\ DigestLength \in Nat
  BY TextAssumption DEF Texts
<1>2. available + Len(prefix) + DigestLength + 1 = maxLength
  BY <1>1
<1> HIDE DEF available
<1>3. Max({1, available}) = available
  <2>1. {1, available} \in SUBSET (0 .. available) /\ {1, available} # {}
    BY <1>1
  <2>2. Max({1, available}) \in {1, available} /\ \A i \in {1, available} : i <= Max({1, available})
    BY <1>1, <2>1, GreatestElement, Zenon
  <2>3. \A x \in {1, available} : (\A i \in {1, available} : i <= x) => x = available
    BY <1>1
  <2> QED BY <2>2, <2>3, Zenon
<1>4. Base(raw) \in Seq(Int) /\ Base(raw) # <<>> /\ Base(raw)[1] # Underscore
  BY BaseIsAText DEF Texts
<1>5. /\ cut \in Seq(Int) /\ Len(cut) <= available /\ Len(cut) <= Len(Base(raw))
      /\ available <= Len(Base(raw)) => Len(cut) = available
      /\ \A i \in 1 .. Len(cut) : cut[i] = Base(raw)[i]
  BY <1>1, <1>4, PrefixLength
<1>6. Len(cut) >= 1
  <2>1. CASE available <= Len(Base(raw))
    BY <1>1, <1>5, <2>1
  <2>2. CASE Len(Base(raw)) < available
    BY <1>1, <1>4, <2>2 DEF Prefix
  <2> QED BY <1>1, <1>4, <2>1, <2>2
<1>7. cut # <<>> /\ cut[1] # Underscore
  BY <1>4, <1>5, <1>6
<1>8. Shortened(raw, prefix, maxLength) = StripRight(cut)
  BY <1>3 DEF Shortened, available
<1> HIDE DEF cut
<1>9. StripRight(cut) \in Seq(Int) /\ Len(StripRight(cut)) <= Len(cut) /\ Len(StripRight(cut)) >= 1
  BY <1>5, <1>7, StripRightLength
<1> QED BY <1>1, <1>2, <1>5, <1>8, <1>9 DEF Texts

(* A name that is too long becomes prefix, shortened name, underscore and  *)
(* digest; any other is kept after its prefix.                             *)
LEMMA IdentifierCases ==
  ASSUME NEW raw, NEW prefix, NEW maxLength
  PROVE  MakeStableIdentifier(raw, prefix, maxLength) =
           IF Len(prefix \o Base(raw)) <= maxLength THEN prefix \o Base(raw)
           ELSE prefix \o Shortened(raw, prefix, maxLength) \o <<Underscore>> \o Digest(raw)
BY DEF MakeStableIdentifier, Shortened

(* Every identifier fits its column and is more than its prefix, however   *)
(* long the name is, when the column has room for the digest and two more  *)
(* characters (datasource_code: 64 with a prefix of 8, table_name: 128).   *)
THEOREM IdentifiersFit ==
  ASSUME NEW raw \in Texts, NEW prefix \in Texts, NEW maxLength \in Nat, Digested(raw),
         Len(prefix) + DigestLength + 2 <= maxLength
  PROVE  /\ Len(MakeStableIdentifier(raw, prefix, maxLength)) <= maxLength
         /\ Len(MakeStableIdentifier(raw, prefix, maxLength)) > Len(prefix)
<1>1. Base(raw) \in Texts /\ Base(raw) # <<>>
  BY BaseIsAText
<1>2. CASE Len(prefix \o Base(raw)) <= maxLength
  BY <1>1, <1>2, IdentifierCases DEF Texts
<1>3. CASE ~ (Len(prefix \o Base(raw)) <= maxLength)
  <2> DEFINE short == Shortened(raw, prefix, maxLength)
  <2>1. /\ short \in Texts /\ Len(short) >= 1
        /\ Len(prefix) + Len(short) + 1 + DigestLength <= maxLength
    BY ShortenedLength
  <2>2. MakeStableIdentifier(raw, prefix, maxLength) = prefix \o short \o <<Underscore>> \o Digest(raw)
    BY <1>3, IdentifierCases
  <2> HIDE DEF short
  <2>3. Len(prefix \o short \o <<Underscore>> \o Digest(raw))
          = Len(prefix) + Len(short) + 1 + DigestLength
    <3> DEFINE head == prefix \o short
    <3>1. head \in Seq(Int) /\ Len(head) = Len(prefix) + Len(short)
      BY <2>1, ConcatProperties DEF Texts
    <3>2. <<Underscore>> \in Seq(Int) /\ Len(<<Underscore>>) = 1
      BY TextAssumption
    <3> HIDE DEF head
    <3>3. head \o <<Underscore>> \in Seq(Int) /\ Len(head \o <<Underscore>>) = Len(head) + 1
      BY <3>1, <3>2, ConcatProperties
    <3>4. Len((head \o <<Underscore>>) \o Digest(raw)) = Len(head \o <<Underscore>>) + DigestLength
      BY <3>3, ConcatProperties DEF Texts, Digested
    <3> QED BY <3>1, <3>3, <3>4 DEF head
  <2> QED BY <2>1, <2>2, <2>3, TextAssumption DEF Texts
<1> QED BY <1>2, <1>3

(* Equal texts end alike. *)
LEMMA SameEnd ==
  ASSUME NEW a \in Texts, NEW b \in Texts, NEW c \in Texts, NEW d \in Texts,
         a \o c = b \o d, Len(c) = Len(d)
  PROVE  c = d
<1>1. /\ Len(a) \in Nat /\ Len(b) \in Nat /\ Len(c) \in Nat
      /\ Len(a \o c) = Len(a) + Len(c) /\ Len(b \o d) = Len(b) + Len(d)
  BY ConcatProperties, LenProperties DEF Texts
<1>2. Len(a) = Len(b)
  BY <1>1
<1>3. ASSUME NEW i \in 1 .. Len(c) PROVE c[i] = d[i]
  <2>1. Len(a) + i \in 1 .. Len(a) + Len(c) /\ ~ (Len(a) + i <= Len(a)) /\ Len(a) + i - Len(a) = i
    BY <1>1
  <2>2. (a \o c)[Len(a) + i] = c[i]
    BY <2>1, ConcatProperties DEF Texts
  <2>3. (b \o d)[Len(a) + i] = d[i]
    BY <1>2, <2>1, ConcatProperties DEF Texts
  <2> QED BY <2>2, <2>3
<1> QED BY <1>3, SeqEqual DEF Texts

(* Two names kept whole share an identifier only when they differ in case  *)
(* and punctuation alone, two names shortened only when they have the same *)
(* digest.                                                                 *)
THEOREM ShorteningKeepsApart ==
  ASSUME NEW raw \in Texts, NEW second \in Texts, NEW prefix \in Texts, NEW maxLength \in Nat,
         Digested(raw), Digested(second), Len(prefix) + DigestLength + 2 <= maxLength,
         MakeStableIdentifier(raw, prefix, maxLength) = MakeStableIdentifier(second, prefix, maxLength)
  PROVE  /\ Len(prefix \o Base(raw)) <= maxLength /\ Len(prefix \o Base(second)) <= maxLength =>
              Base(raw) = Base(second)
         /\ ~ (Len(prefix \o Base(raw)) <= maxLength) /\ ~ (Len(prefix \o Base(second)) <= maxLength) =>
              Digest(raw) = Digest(second)
<1>1. Base(raw) \in Texts /\ Base(second) \in Texts
  BY BaseIsAText
<1>2. ASSUME Len(prefix \o Base(raw)) <= maxLength, Len(prefix \o Base(second)) <= maxLength
      PROVE  Base(raw) = Base(second)
  <2>1. prefix \o Base(raw) = prefix \o Base(second)
    BY <1>2, IdentifierCases
  <2>2. Len(Base(raw)) = Len(Base(second))
    BY <1>1, <2>1 DEF Texts
  <2> QED BY <1>1, <2>1, <2>2, SameEnd
<1>3. ASSUME ~ (Len(prefix \o Base(raw)) <= maxLength), ~ (Len(prefix \o Base(second)) <= maxLength)
      PROVE  Digest(raw) = Digest(second)
  <2> DEFINE head(name) == prefix \o Shortened(name, prefix, maxLength) \o <<Underscore>>
  <2>1. head(raw) \o Digest(raw) = head(second) \o Digest(second)
    BY <1>3, IdentifierCases
  <2>2. Shortened(raw, prefix, maxLength) \in Texts /\ Shortened(second, prefix, maxLength) \in Texts
    BY <1>3, ShortenedLength
  <2>3. head(raw) \in Texts /\ head(second) \in Texts
    BY <2>2, TextAssumption DEF Texts
  <2> HIDE DEF head
  <2>4. Digest(raw) \in Texts /\ Digest(second) \in Texts /\ Len(Digest(raw)) = Len(Digest(second))
    BY DEF Digested
  <2> QED BY <2>1, <2>3, <2>4, SameEnd
<1> QED BY <1>2, <1>3

LEMMA Joined ==
  \A a, b \in Texts : a \o b \in Texts /\ Len(a \o b) = Len(a) + Len(b) /\ Len(a) \in Nat
BY ConcatProperties DEF Texts

Associates(a, b, c) == (a \o b) \o c = a \o (b \o c)

LEMMA TextsAssociate ==
  ASSUME NEW a \in Texts, NEW b \in Texts, NEW c \in Texts
  PROVE  Associates(a, b, c)
BY ConcatAssociative DEF Associates, Texts

LEMMA EndOfJoined ==
  \A s, t \in Texts : \A i \in 1 .. Len(t) : (s \o t)[Len(s) + i] = t[i]
<1> SUFFICES ASSUME NEW s \in Seq(Int), NEW t \in Seq(Int), NEW i \in 1 .. Len(t)
             PROVE  (s \o t)[Len(s) + i] = t[i]
  BY DEF Texts
<1>1. Len(s) \in Nat /\ Len(t) \in Nat
  OBVIOUS
<1>2. Len(s) + i \in 1 .. Len(s) + Len(t) /\ ~ (Len(s) + i <= Len(s)) /\ Len(s) + i - Len(s) = i
  BY <1>1
<1> QED BY <1>2, ConcatProperties

(* What is joined to a text is a suffix of the result.                     *)
LEMMA JoinedIsASuffix ==
  \A s, t \in Texts : IsSuffix(t, s \o t)
<1> SUFFICES ASSUME NEW s \in Texts, NEW t \in Texts PROVE IsSuffix(t, s \o t)
  OBVIOUS
<1> DEFINE whole == s \o t
           m == Len(s)
           n == Len(t)
<1>1. whole \in Texts /\ Len(whole) = m + n /\ m \in Nat /\ n \in Nat
  BY Joined DEF Texts
<1>2. \A i \in 1 .. n : whole[m + i] = t[i]
  BY EndOfJoined
<1>3. t \in Seq(Int) /\ whole \in Seq(Int)
  BY <1>1 DEF Texts
<1> HIDE DEF whole, m, n
<1>4. /\ Reverse(t) \in Seq(Int) /\ Len(Reverse(t)) = n
      /\ \A i \in 1 .. n : Reverse(t)[i] = t[n - i + 1]
  <2>1. \A i \in 1 .. n : n - i + 1 \in 1 .. n
    BY <1>1
  <2>2. Reverse(t) = [i \in 1 .. n |-> t[n - i + 1]]
    BY DEF Reverse, n
  <2>3. Reverse(t) \in [1 .. n -> Int]
    BY <1>3, <2>1, <2>2 DEF n
  <2> QED BY <1>1, <2>2, <2>3
<1>5. /\ Reverse(whole) \in Seq(Int) /\ Len(Reverse(whole)) = m + n
      /\ \A i \in 1 .. m + n : Reverse(whole)[i] = whole[m + n - i + 1]
  <2>1. \A i \in 1 .. m + n : m + n - i + 1 \in 1 .. m + n
    BY <1>1
  <2>2. Reverse(whole) = [i \in 1 .. m + n |-> whole[m + n - i + 1]]
    BY <1>1 DEF Reverse
  <2>3. Reverse(whole) \in [1 .. m + n -> Int]
    BY <1>1, <1>3, <2>1, <2>2
  <2> QED BY <1>1, <2>2, <2>3
<1>6. \A i \in 1 .. n : Reverse(whole)[i] = Reverse(t)[i]
  <2> SUFFICES ASSUME NEW i \in 1 .. n PROVE Reverse(whole)[i] = Reverse(t)[i]
    OBVIOUS
  <2>1. n - i + 1 \in 1 .. n /\ m + n - i + 1 = m + (n - i + 1) /\ i \in 1 .. m + n
    BY <1>1
  <2> QED BY <1>2, <1>4, <1>5, <2>1
<1>7. SubSeq(Reverse(t), 1, n) = SubSeq(Reverse(whole), 1, n)
  <2>1. SubSeq(Reverse(t), 1, n) \in Seq(Int) /\ Len(SubSeq(Reverse(t), 1, n)) = n
        /\ \A i \in 1 .. n : SubSeq(Reverse(t), 1, n)[i] = Reverse(t)[i]
    BY <1>1, <1>4, SubSeqProperties
  <2>2. SubSeq(Reverse(whole), 1, n) \in Seq(Int) /\ Len(SubSeq(Reverse(whole), 1, n)) = n
        /\ \A i \in 1 .. n : SubSeq(Reverse(whole), 1, n)[i] = Reverse(whole)[i]
    BY <1>1, <1>5, SubSeqProperties
  <2> QED BY <1>6, <2>1, <2>2, SeqEqual
<1>8. n <= m + n
  BY <1>1
<1> QED BY <1>4, <1>5, <1>7, <1>8 DEF IsSuffix, IsPrefix, whole

(* A name kept whole and one that is shortened share an identifier only    *)
(* when the first ends in the underscore and the digest of the second.     *)
THEOREM OnlyImitationsMeet ==
  ASSUME NEW a \in Texts, NEW b \in Texts, NEW prefix \in Texts, NEW maxLength \in Nat,
         Digested(b), Len(prefix) + DigestLength + 2 <= maxLength,
         Len(prefix \o Base(a)) <= maxLength, ~ (Len(prefix \o Base(b)) <= maxLength),
         MakeStableIdentifier(a, prefix, maxLength) = MakeStableIdentifier(b, prefix, maxLength)
  PROVE  IsSuffix(Mark(b), Base(a))
<1> DEFINE base == Base(a)
           short == Shortened(b, prefix, maxLength)
           mark == Mark(b)
<1>1. /\ base \in Texts /\ short \in Texts /\ <<Underscore>> \in Texts /\ Digest(b) \in Texts
      /\ mark = <<Underscore>> \o Digest(b)
  BY BaseIsAText, ShortenedLength, TextAssumption DEF Digested, Texts, Mark
<1>2. prefix \o base = ((prefix \o short) \o <<Underscore>>) \o Digest(b)
  BY IdentifierCases
<1> HIDE DEF base, short, mark
<1> DEFINE joined == short \o mark
<1>3. mark \in Texts /\ joined \in Texts /\ prefix \o short \in Texts
  BY <1>1, Joined
<1>4. prefix \o base = prefix \o joined
  <2>1. Associates(prefix, short, mark) /\ Associates(prefix \o short, <<Underscore>>, Digest(b))
    BY <1>1, <1>3, TextsAssociate
  <2>2. ((prefix \o short) \o <<Underscore>>) \o Digest(b) = (prefix \o short) \o mark
    BY <1>1, <2>1 DEF Associates
  <2>3. (prefix \o short) \o mark = prefix \o joined
    BY <2>1 DEF Associates
  <2> QED BY <1>2, <2>2, <2>3
<1> HIDE DEF joined
<1>5. Len(base) = Len(joined)
  <2>1. /\ Len(prefix \o base) = Len(prefix) + Len(base)
        /\ Len(prefix \o joined) = Len(prefix) + Len(joined)
        /\ Len(prefix) \in Nat /\ Len(base) \in Nat /\ Len(joined) \in Nat
    BY <1>1, <1>3, Joined
  <2> QED BY <1>4, <2>1
<1>6. base = joined
  BY <1>1, <1>3, <1>4, <1>5, SameEnd
<1> QED BY <1>1, <1>3, <1>6, JoinedIsASuffix DEF base, joined, mark

-----------------------------------------------------------------------------
(* What the machine has written: rows of table_config and two names.       *)
Collected == rows \in Seq(Row) /\ one \in Names /\ other \in Names

LEMMA NameGrows ==
  ASSUME NEW name \in Names, NEW c \in Character, Len(name) < MaxLength
  PROVE  Append(name, c) \in Names
<1>1. PICK n \in 0 .. MaxLength : name \in [1 .. n -> Character]
  BY Zenon DEF Names
<1>2. n \in Nat /\ MaxLength \in Nat
  BY NameAssumption
<1>3. name \in Seq(Character) /\ Len(name) = n
  BY <1>1, <1>2
<1>4. Append(name, c) \in [1 .. n + 1 -> Character]
  <2> DEFINE longer == Append(name, c)
  <2>1. longer \in Seq(Character) /\ Len(longer) = n + 1 /\ n + 1 \in Nat
    BY <1>2, <1>3
  <2> HIDE DEF longer
  <2>2. longer \in [1 .. Len(longer) -> Character]
    BY <2>1
  <2> QED BY <2>1, <2>2 DEF longer
<1>5. n + 1 \in 0 .. MaxLength
  BY <1>2, <1>3
<1> QED BY <1>4, <1>5, Zenon DEF Names

LEMMA NamesAreTexts ==
  ASSUME NEW name \in Names
  PROVE  name \in Texts /\ Digested(name)
<1>1. PICK n \in 0 .. MaxLength : name \in [1 .. n -> Character]
  BY Zenon DEF Names
<1>2. n \in Nat /\ Character \subseteq Int
  BY NameAssumption
<1>3. name \in Seq(Int)
  <2>1. name \in [1 .. n -> Int]
    BY <1>1, <1>2
  <2> QED BY <1>2, <2>1
<1>4. \A raw \in Names : Digest(raw) \in Seq(Int) /\ Len(Digest(raw)) = DigestLength
  BY NameAssumption, Zenon
<1>5. Digest(name) \in Seq(Int) /\ Len(Digest(name)) = DigestLength
  BY <1>4, Zenon
<1> QED BY <1>3, <1>5 DEF Texts, Digested

LEMMA Collecting == Spec => []Collected
<1>1. Init => Collected
  <2> SUFFICES ASSUME Init PROVE Collected
    OBVIOUS
  <2>1. rows = <<>> /\ one = <<>> /\ other = <<>>
    BY DEF Init
  <2>2. <<>> \in [1 .. 0 -> Character] /\ 0 \in 0 .. MaxLength
    BY NameAssumption
  <2>3. <<>> \in Names
    BY <2>2, Zenon DEF Names
  <2> QED BY <2>1, <2>3 DEF Collected
<1>2. Collected /\ [Next]_<<rows, one, other>> => Collected'
  <2> SUFFICES ASSUME Collected, [Next]_<<rows, one, other>> PROVE Collected'
    OBVIOUS
  <2>1. CASE AddRow
    BY <2>1 DEF AddRow, Collected
  <2>2. CASE Rename
    BY <2>2, NameGrows DEF Rename, Collected
  <2>3. CASE UNCHANGED <<rows, one, other>>
    BY <2>3 DEF Collected
  <2> QED BY <2>1, <2>2, <2>3 DEF Next
<1> QED BY <1>1, <1>2, PTL DEF Spec

(* FitsTheColumn, for names of any length over any characters.             *)
THEOREM ImportedNamesFit == Spec => []FitsTheColumn
<1>1. Collected => FitsTheColumn
  <2> SUFFICES ASSUME Collected PROVE FitsTheColumn
    OBVIOUS
  <2>1. one \in Texts /\ Digested(one)
    BY NamesAreTexts DEF Collected
  <2>2. SpyPrefix \in Texts /\ IdLength \in Nat /\ Len(SpyPrefix) + DigestLength + 2 <= IdLength
    BY NameAssumption DEF Texts
  <2> QED BY <2>1, <2>2, IdentifiersFit DEF FitsTheColumn, Identifier
<1> QED BY <1>1, Collecting, PTL

(* NamesStayApart, for names of any length over any characters and any     *)
(* digest of DigestLength characters, however often it repeats.            *)
THEOREM ImportedNamesStayApart == Spec => []NamesStayApart
<1>1. Collected => NamesStayApart
  <2> SUFFICES ASSUME Collected, Identifier(one) = Identifier(other)
               PROVE  \/ Base(one) = Base(other)
                      \/ ~IsKept(one) /\ ~IsKept(other) /\ Digest(one) = Digest(other)
                      \/ Imitates(one, other) \/ Imitates(other, one)
    BY DEF NamesStayApart
  <2>1. one \in Texts /\ Digested(one) /\ other \in Texts /\ Digested(other)
    BY NamesAreTexts DEF Collected
  <2>2. SpyPrefix \in Texts /\ IdLength \in Nat /\ Len(SpyPrefix) + DigestLength + 2 <= IdLength
    BY NameAssumption DEF Texts
  <2>3. CASE IsKept(one) /\ IsKept(other)
    BY <2>1, <2>2, <2>3, ShorteningKeepsApart DEF Identifier, IsKept
  <2>4. CASE ~IsKept(one) /\ ~IsKept(other)
    BY <2>1, <2>2, <2>4, ShorteningKeepsApart DEF Identifier, IsKept
  <2>5. CASE IsKept(one) /\ ~IsKept(other)
    BY <2>1, <2>2, <2>5, OnlyImitationsMeet DEF Identifier, IsKept, Imitates
  <2>6. CASE ~IsKept(one) /\ IsKept(other)
    BY <2>1, <2>2, <2>6, OnlyImitationsMeet DEF Identifier, IsKept, Imitates
  <2> QED BY <2>3, <2>4, <2>5, <2>6
<1>2. QED BY <1>1, Collecting, PTL

-----------------------------------------------------------------------------
(* The rows of a table.                                                    *)
G(l) == Deduped(rows, l)

LEMMA NormalizedRow ==
  ASSUME NEW row \in Row
  PROVE  LET r == Normalized(row)
         IN /\ r.begin = row.begin /\ r.end = row.end /\ r.shards = row.shards
            /\ r.begin \in Int /\ r.end \in Int /\ r.shards \in Int
            /\ r.begin .. r.end \subseteq DOMAIN Decimal
            /\ SourceName(r) \in SourceNames
<1>1. /\ DOMAIN row = {"source", "catalog", "table", "begin", "end", "shards"}
      /\ row.begin \in Int /\ row.end \in Int /\ row.shards \in Int
      /\ row.begin .. row.end \subseteq DOMAIN Decimal
  BY RowAssumption
<1>2. /\ Normalized(row).begin = row.begin /\ Normalized(row).end = row.end
      /\ Normalized(row).shards = row.shards
  BY <1>1 DEF Normalized
<1>3. SourceName(Normalized(row)) \in SourceNames
  BY DEF SourceNames
<1> QED BY <1>1, <1>2, <1>3

LEMMA KeptPlaces ==
  ASSUME Collected
  PROVE  /\ Len(rows) \in Nat /\ Kept(rows) \subseteq 1 .. Len(rows)
         /\ \A i \in Kept(rows) : rows[i] \in Row
<1>1. rows \in Seq(Row)
  BY DEF Collected
<1>2. DOMAIN rows = 1 .. Len(rows) /\ Len(rows) \in Nat /\ \A i \in DOMAIN rows : rows[i] \in Row
  BY <1>1
<1>3. Kept(rows) \subseteq DOMAIN rows
  BY DEF Kept
<1> QED BY <1>2, <1>3

LEMMA ImportedRow ==
  ASSUME Collected, NEW r \in Imported
  PROVE  /\ r.begin \in Int /\ r.end \in Int /\ r.shards \in Int
         /\ r.begin .. r.end \subseteq DOMAIN Decimal
         /\ SourceName(r) \in SourceNames
         /\ \E i \in 1 .. Len(rows) : r.shards = rows[i].shards
<1>1. PICK i \in Kept(rows) : r = Normalized(rows[i])
  BY DEF Imported
<1>2. i \in 1 .. Len(rows) /\ rows[i] \in Row
  BY <1>1, KeptPlaces
<1> QED BY <1>1, <1>2, NormalizedRow

(* Of equal segments one is left.                                          *)
LEMMA GroupRows ==
  ASSUME Collected, NEW l
  PROVE  /\ G(l) \subseteq Group(l)
         /\ \A r \in Group(l) : \E s \in G(l) : Segment(s) = Segment(r)
<1> DEFINE row(i) == Normalized(rows[i])
           seg(i) == Segment(Normalized(rows[i]))
           group == {i \in Kept(rows) : LogicalOf(rows, i) = l}
           last == {k \in group : \A j \in group : seg(j) = seg(k) => j <= k}
<1>1. G(l) = {row(i) : i \in last}
  BY Zenon DEF G, Deduped
<1>2. \A i : LogicalOf(rows, i) = LogicalName(row(i))
  BY DEF LogicalOf, LogicalName
<1>3. Group(l) = {row(i) : i \in group}
  BY <1>2 DEF Group, Imported
<1>4. group \subseteq 1 .. Len(rows) /\ Len(rows) \in Nat
  BY KeptPlaces
<1>5. \A i \in last : i \in group
  OBVIOUS
<1>6. ASSUME NEW i \in group PROVE \E k \in last : seg(k) = seg(i)
  <2> DEFINE same == {k \in group : seg(k) = seg(i)}
             k == Max(same)
  <2>1. same \in SUBSET (0 .. Len(rows)) /\ same # {}
    <3>1. \A k1 \in same : k1 \in 0 .. Len(rows)
      BY <1>4
    <3>2. i \in same
      OBVIOUS
    <3> QED BY <3>1, <3>2
  <2> HIDE DEF same
  <2>2. k \in same /\ \A j \in same : j <= k
    BY <1>4, <2>1, GreatestElement, Zenon
  <2> HIDE DEF k
  <2>3. k \in group /\ seg(k) = seg(i) /\ \A j \in group : seg(j) = seg(i) => j <= k
    BY <2>2 DEF same
  <2>4. k \in last
    BY <2>3, Zenon
  <2> QED BY <2>3, <2>4
<1> HIDE DEF last, group
<1>7. ASSUME NEW r \in Group(l) PROVE \E s \in G(l) : Segment(s) = Segment(r)
  <2>1. PICK i \in group : r = row(i)
    BY <1>3, <1>7
  <2>2. PICK k \in last : seg(k) = seg(i)
    BY <1>6
  <2>3. row(k) \in G(l)
    BY <1>1
  <2> QED BY <2>1, <2>2, <2>3
<1>8. G(l) \subseteq Group(l)
  BY <1>1, <1>3, <1>5
<1> QED BY <1>7, <1>8

LEMMA SameSegment ==
  ASSUME NEW r, NEW s, Segment(r) = Segment(s)
  PROVE  r.source = s.source /\ r.begin = s.begin /\ r.end = s.end /\ r.shards = s.shards
BY DEF Segment

LEMMA SameSharding ==
  ASSUME Collected, NEW l
  PROVE  IsSharded(G(l)) <=> IsSharded(Group(l))
BY GroupRows, SameSegment DEF IsSharded

LEMMA ModulusIsPositive ==
  ASSUME Collected, NEW l, IsSharded(G(l))
  PROVE  ShardModulus(G(l)) \in Nat \ {0}
<1> DEFINE S == {r.shards : r \in G(l)}
           f == [i \in 1 .. Len(rows) |-> rows[i].shards]
<1>1. rows \in Seq(Row) /\ Len(rows) \in Nat /\ \A i \in 1 .. Len(rows) : rows[i].shards \in Int
  <2>1. rows \in Seq(Row) /\ Len(rows) \in Nat
    BY DEF Collected
  <2>2. \A i \in 1 .. Len(rows) : rows[i] \in Row
    BY <2>1
  <2> QED BY <2>1, <2>2, RowAssumption
<1>2. f \in [1 .. Len(rows) -> Int]
  BY <1>1
<1>3. PICK b \in Nat : \A i \in 1 .. Len(rows) : f[i] <= b
  BY <1>1, <1>2, FinitelyManyHaveABound
<1>4. \A r \in G(l) : r.shards \in Int /\ \E i \in 1 .. Len(rows) : r.shards = f[i]
  BY GroupRows, ImportedRow DEF Group
<1>5. S \in SUBSET Int /\ \A x \in S : x <= b
  BY <1>3, <1>4
<1>6. PICK r \in G(l) : r.shards > 0
  BY DEF IsSharded
<1>7. S # {} /\ r.shards \in S
  OBVIOUS
<1> HIDE DEF S
<1>8. Max(S) \in S /\ \A x \in S : x <= Max(S)
  <2>1. b \in Int
    OBVIOUS
  <2> QED BY <1>5, <1>7, <2>1, GreatestBelow, Zenon
<1>9. Max(S) \in Int /\ r.shards <= Max(S) /\ r.shards \in Int
  BY <1>4, <1>5, <1>7, <1>8
<1> QED BY <1>6, <1>9 DEF ShardModulus, S

-----------------------------------------------------------------------------
(* What the bundle says of one table.                                      *)
BundleRoutes(l) == UNION {RoutesOf(l, G(l), r) : r \in G(l)}

LEMMA BundleFields ==
  /\ Bundle.tables = {LogicalOf(rows, i) : i \in Kept(rows)}
  /\ Bundle.datasources = {DatasourceCode(Normalized(rows[i]).source) : i \in Kept(rows)}
  /\ Bundle.factors = UNION {Factors(l, G(l)) : l \in Bundle.tables}
  /\ Bundle.rules = {Rule(l, G(l)) : l \in Bundle.tables}
  /\ Bundle.routes = UNION {BundleRoutes(l) : l \in Bundle.tables}
  /\ Bundle.raises = Conflict(Bundle.routes)
BY DEF Bundle, BuildSyncBundle, BundleRoutes, G

LEMMA LogicalOfImported ==
  /\ \A r \in Imported : LogicalName(r) \in Bundle.tables
                        /\ DatasourceCode(r.source) \in Bundle.datasources
  /\ \A l \in Bundle.tables : \E r \in Imported : LogicalName(r) = l
<1>1. \A i : LogicalOf(rows, i) = LogicalName(Normalized(rows[i]))
  BY DEF LogicalOf, LogicalName
<1> QED BY <1>1, BundleFields DEF Imported

RouteOf(l, value, physical, row, segment) ==
  [logical |-> l, value |-> value, physical |-> physical,
   ds |-> DatasourceCode(row.source), enabled |-> TRUE, segment |-> segment]

LEMMA RoutesOfARow ==
  ASSUME NEW l, NEW g, NEW row
  PROVE  /\ RequiresSourceRouting(g) =>
              RoutesOf(l, g, row) = {RouteOf(l, SourceName(row), row.table, row, Segment(row))}
         /\ ~RequiresSourceRouting(g) /\ ~IsSharded(g) =>
              RoutesOf(l, g, row) = {RouteOf(l, "0", row.table, row, Segment(row))}
         /\ IsSharded(g) =>
              RoutesOf(l, g, row) = {RouteOf(l, Digits[n], row.table \o "_" \o Digits[n], row, <<>>) :
                                       n \in row.begin .. row.end}
<1>1. IsSharded(g) => ~RequiresSourceRouting(g)
  BY DEF RequiresSourceRouting
<1> QED BY <1>1 DEF RoutesOf, RouteOf

ShardRoute(l, row, n) == RouteOf(l, Digits[n], row.table \o "_" \o Digits[n], row, <<>>)

LEMMA ShardRoutes ==
  ASSUME NEW l, NEW g, NEW row, IsSharded(g), NEW n \in row.begin .. row.end
  PROVE  ShardRoute(l, row, n) \in RoutesOf(l, g, row)
<1>1. RoutesOf(l, g, row) = {RouteOf(l, Digits[k], row.table \o "_" \o Digits[k], row, <<>>) :
                               k \in row.begin .. row.end}
  BY RoutesOfARow
<1> QED BY <1>1 DEF ShardRoute

LEMMA RouteFields ==
  ASSUME NEW l, NEW g, NEW row, NEW p \in RoutesOf(l, g, row)
  PROVE  /\ p.logical = l /\ p.enabled /\ p.ds = DatasourceCode(row.source)
         /\ p = [logical |-> l, value |-> p.value, physical |-> p.physical,
                 ds |-> p.ds, enabled |-> TRUE, segment |-> p.segment]
         /\ IsSharded(g) => p.segment = <<>>
<1>1. \E value, physical, segment :
        p = RouteOf(l, value, physical, row, segment) /\ (IsSharded(g) => segment = <<>>)
  <2>1. CASE RequiresSourceRouting(g)
    <3>1. p = RouteOf(l, SourceName(row), row.table, row, Segment(row))
      <4>1. RoutesOf(l, g, row) = {RouteOf(l, SourceName(row), row.table, row, Segment(row))}
        BY <2>1, RoutesOfARow, Zenon
      <4> QED BY <4>1, Zenon
    <3>2. ~IsSharded(g)
      BY <2>1 DEF RequiresSourceRouting
    <3> QED BY <3>1, <3>2
  <2>2. CASE ~RequiresSourceRouting(g) /\ ~IsSharded(g)
    <3>1. p = RouteOf(l, "0", row.table, row, Segment(row))
      <4>1. RoutesOf(l, g, row) = {RouteOf(l, "0", row.table, row, Segment(row))}
        BY <2>2, RoutesOfARow, Zenon
      <4> QED BY <4>1, Zenon
    <3> QED BY <2>2, <3>1
  <2>3. CASE IsSharded(g)
    <3>1. PICK n \in row.begin .. row.end :
            p = RouteOf(l, Digits[n], row.table \o "_" \o Digits[n], row, <<>>)
      <4>1. RoutesOf(l, g, row) = {RouteOf(l, Digits[n], row.table \o "_" \o Digits[n], row, <<>>) :
                                     n \in row.begin .. row.end}
        BY <2>3, RoutesOfARow
      <4> QED BY <4>1
    <3> QED BY <3>1
  <2> QED BY <2>1, <2>2, <2>3
<1>2. PICK value, physical, segment :
        p = RouteOf(l, value, physical, row, segment) /\ (IsSharded(g) => segment = <<>>)
  BY <1>1
<1>3. p = [logical |-> l, value |-> value, physical |-> physical,
           ds |-> DatasourceCode(row.source), enabled |-> TRUE, segment |-> segment]
  BY <1>2 DEF RouteOf
<1> QED BY <1>2, <1>3

LEMMA RoutesOfATable ==
  ASSUME NEW p \in Bundle.routes
  PROVE  /\ p.logical \in Bundle.tables /\ p.enabled
         /\ \E r \in G(p.logical) : p \in RoutesOf(p.logical, G(p.logical), r)
                                    /\ p.ds = DatasourceCode(r.source)
         /\ p = [logical |-> p.logical, value |-> p.value, physical |-> p.physical,
                 ds |-> p.ds, enabled |-> TRUE, segment |-> p.segment]
         /\ IsSharded(G(p.logical)) => p.segment = <<>>
<1>1. PICK l \in Bundle.tables : p \in BundleRoutes(l)
  BY BundleFields
<1>2. PICK r \in G(l) : p \in RoutesOf(l, G(l), r)
  BY <1>1 DEF BundleRoutes
<1> QED BY <1>1, <1>2, RouteFields

(* Two routes of a table with one value are one route, unless the import   *)
(* raises or the unique constraint refuses it.                             *)
LEMMA OneRouteAValue ==
  ASSUME ~Bundle.raises, NEW p \in Bundle.routes, NEW q \in Bundle.routes,
         p.logical = q.logical, p.value = q.value,
         IsSharded(G(p.logical)) \/ ~Duplicated
  PROVE  p = q
<1>1. <<p.physical, p.ds>> = <<q.physical, q.ds>>
  BY BundleFields DEF Conflict
<1>2. p.physical = q.physical /\ p.ds = q.ds
  BY <1>1
<1>3. CASE IsSharded(G(p.logical))
  <2>1. p.segment = q.segment
    BY <1>3, RoutesOfATable
  <2> QED BY <1>2, <2>1, RoutesOfATable
<1>4. CASE ~Duplicated
  BY <1>4 DEF Duplicated
<1> QED BY <1>3, <1>4

-----------------------------------------------------------------------------
(* What routing finds in the metadata of a bundle.                         *)
M == Metadata(Bundle)
LogicalRow(l) == [name |-> l, family |-> {}, enabled |-> TRUE]
RuleRow(u) == [logical |-> u.logical, enabled |-> TRUE, eval |-> RuleEval(u)]

LEMMA Found ==
  ASSUME NEW l \in Bundle.tables
  PROVE  /\ ~Shadowed(l) => EnabledByPhysicalName(M, l) = {}
         /\ EnabledByName(M, l) = {LogicalRow(l)}
         /\ RequiredFactors(M, l) = Factors(l, G(l))
         /\ EnabledRules(M, l) = {RuleRow(Rule(l, G(l)))}
         /\ \A v : EnabledByRouteValue(M, l, v) = {p \in Bundle.routes : p.logical = l /\ p.value = v}
<1>1. /\ M.logical = {LogicalRow(n) : n \in Bundle.tables}
      /\ M.factors = Bundle.factors
      /\ M.rules = {RuleRow(u) : u \in Bundle.rules}
      /\ M.routes = Bundle.routes
  BY DEF M, Metadata, LogicalRow, RuleRow
<1>2. ~Shadowed(l) => EnabledByPhysicalName(M, l) = {}
  BY <1>1 DEF EnabledByPhysicalName, Shadowed
<1>3. EnabledByName(M, l) = {LogicalRow(l)}
  BY <1>1 DEF EnabledByName, LogicalRow
<1>4. RequiredFactors(M, l) = Factors(l, G(l))
  <2>1. \A n, f : f \in Factors(n, G(n)) => f.logical = n /\ f.enabled /\ f.required
    BY DEF Factors
  <2>2. Bundle.factors = UNION {Factors(n, G(n)) : n \in Bundle.tables}
    BY BundleFields
  <2>3. RequiredFactors(M, l) \subseteq Factors(l, G(l))
    BY <1>1, <2>1, <2>2 DEF RequiredFactors
  <2>4. Factors(l, G(l)) \subseteq RequiredFactors(M, l)
    BY <1>1, <2>1, <2>2 DEF RequiredFactors
  <2> QED BY <2>3, <2>4
<1>5. EnabledRules(M, l) = {RuleRow(Rule(l, G(l)))}
  <2>1. \A n : Rule(n, G(n)).logical = n
    BY DEF Rule
  <2>2. \A u : RuleRow(u).logical = u.logical /\ RuleRow(u).enabled
    BY DEF RuleRow
  <2>3. M.rules = {RuleRow(Rule(n, G(n))) : n \in Bundle.tables}
    BY <1>1, BundleFields
  <2> QED BY <2>1, <2>2, <2>3 DEF EnabledRules
<1>6. ASSUME NEW v
      PROVE  EnabledByRouteValue(M, l, v) = {p \in Bundle.routes : p.logical = l /\ p.value = v}
  BY <1>1, RoutesOfATable DEF EnabledByRouteValue
<1> QED BY <1>2, <1>3, <1>4, <1>5, <1>6

-----------------------------------------------------------------------------
(* From the metadata of a table to a target.                               *)
LEMMA TheOnly ==
  ASSUME NEW a
  PROVE  The({a}) = a /\ ~Multiple({a}) /\ {a} # {}
BY DEF The, Multiple

LEMMA OnlyRouteIsTaken ==
  ASSUME NEW m, NEW sql, NEW t, NEW ctx, NEW l, NEW u, NEW p, NEW values,
         EnabledByPhysicalName(m, t.name) = {}, EnabledByName(m, t.name) = {l},
         EnabledRules(m, l.name) = {u}, MissingFactors(m, l, sql, t, ctx) = {},
         ExtractedValues(m, l, sql, t, ctx) = values, values \in DOMAIN u.eval,
         EnabledByRouteValue(m, l.name, u.eval[values]) = {p}, p.ds \in m.datasources
  PROVE  LET got == ResolveTable(m, sql, t, ctx)
         IN got.outcome = "target" /\ got.target.physical = p.physical /\ got.target.ds = p.ds
<1> DEFINE got == ResolveTable(m, sql, t, ctx)
           value == u.eval[values]
<1>1. got = ResolveLogical(m, l, sql, t, ctx)
  <2>1. The({l}) = l /\ {l} # {} /\ ~Multiple({})
    BY TheOnly DEF Multiple
  <2> QED BY <2>1 DEF ResolveTable
<1>2. ResolveLogical(m, l, sql, t, ctx) = ResolveRoute(m, l, value)
  <2>1. The({u}) = u /\ {u} # {} /\ ~Multiple({u})
    BY TheOnly
  <2> QED BY <2>1 DEF ResolveLogical
<1> HIDE DEF value
<1>3. ResolveRoute(m, l, value) =
        Resolved([logical |-> l.name, physical |-> p.physical, ds |-> p.ds,
                  value |-> value, rewrite |-> TRUE])
  <2>1. The({p}) = p /\ {p} # {} /\ ~Multiple({p})
    BY TheOnly
  <2>2. EnabledByRouteValue(m, l.name, value) = {p}
    BY DEF value
  <2> QED BY <2>1, <2>2 DEF ResolveRoute
<1> HIDE DEF got
<1>4. got = Resolved([logical |-> l.name, physical |-> p.physical, ds |-> p.ds,
                      value |-> value, rewrite |-> TRUE])
  BY <1>1, <1>2, <1>3
<1>5. got.outcome = "target" /\ got.target.physical = p.physical /\ got.target.ds = p.ds
  BY <1>4 DEF Resolved
<1> QED BY <1>5 DEF got

LEMMA OneFactorExtracted ==
  ASSUME NEW m, NEW l, NEW sql, NEW t, NEW ctx, NEW f,
         NEW given, RequiredFactors(m, l.name) = {f},
         FactorValue(m, l, f, sql, t, ctx) = given, given # NoValue
  PROVE  /\ MissingFactors(m, l, sql, t, ctx) = {}
         /\ ExtractedValues(m, l, sql, t, ctx) \in [{f.name} -> {given}]
<1> DEFINE v == FactorValue(m, l, f, sql, t, ctx)
           req == RequiredFactors(m, l.name)
           value(n) == FactorValue(m, l, CHOOSE g \in req : g.name = n, sql, t, ctx)
           values == ExtractedValues(m, l, sql, t, ctx)
<1>1. values = [n \in {g.name : g \in req} |-> value(n)]
  BY Zenon DEF ExtractedValues
<1>2. MissingFactors(m, l, sql, t, ctx) = {}
  BY DEF MissingFactors
<1>3. {g.name : g \in req} = {f.name}
  <2> HIDE DEF req
  <2>1. req = {f}
    BY DEF req
  <2> QED BY <2>1
<1>4. \A n \in {f.name} : value(n) = v
  <2>1. (CHOOSE g \in req : g.name = f.name) = f
    OBVIOUS
  <2> QED BY <2>1, Zenon
<1> HIDE DEF req, value, values, v
<1>5. values = [n \in {f.name} |-> v]
  BY <1>1, <1>3, <1>4
<1>6. v = given
  BY DEF v
<1> QED BY <1>2, <1>5, <1>6 DEF values

LEMMA NoFactorExtracted ==
  ASSUME NEW m, NEW l, NEW sql, NEW t, NEW ctx, RequiredFactors(m, l.name) = {}
  PROVE  /\ MissingFactors(m, l, sql, t, ctx) = {}
         /\ ExtractedValues(m, l, sql, t, ctx) \in [{} -> {}]
<1> DEFINE req == RequiredFactors(m, l.name)
           value(n) == FactorValue(m, l, CHOOSE g \in req : g.name = n, sql, t, ctx)
           values == ExtractedValues(m, l, sql, t, ctx)
<1>1. values = [n \in {g.name : g \in req} |-> value(n)]
  BY Zenon DEF ExtractedValues
<1>2. MissingFactors(m, l, sql, t, ctx) = {}
  BY DEF MissingFactors
<1>3. {g.name : g \in req} = {}
  OBVIOUS
<1> HIDE DEF req, value, values
<1>4. values = [n \in {} |-> value(n)]
  BY <1>1, <1>3
<1>5. values \in [{} -> {}]
  BY <1>4
<1> QED BY <1>2, <1>5 DEF values

(* A table is taken to the route whose value its rule computes.            *)
Table(l) == [name |-> l, alias |-> NoValue]

LEMMA RouteOfTheRule ==
  ASSUME Collected, ~Bundle.raises, NEW l \in Bundle.tables, ~Shadowed(l),
         IsSharded(G(l)) \/ ~Duplicated,
         NEW ctx, NEW key, NEW values,
         MissingFactors(M, LogicalRow(l), Statement(key), Table(l), ctx) = {},
         ExtractedValues(M, LogicalRow(l), Statement(key), Table(l), ctx) = values,
         values \in DOMAIN RuleEval(Rule(l, G(l))),
         NEW p \in Bundle.routes, p.logical = l, p.value = RuleEval(Rule(l, G(l)))[values]
  PROVE  LET asked == Asked(l, ctx, key)
         IN asked.outcome = "target" /\ asked.target.physical = p.physical /\ asked.target.ds = p.ds
<1> DEFINE u == RuleRow(Rule(l, G(l)))
<1>1. LogicalRow(l).name = l /\ Table(l).name = l
  BY DEF LogicalRow, Table
<1>2. /\ EnabledByPhysicalName(M, l) = {} /\ EnabledByName(M, l) = {LogicalRow(l)}
      /\ EnabledRules(M, l) = {u}
  BY Found
<1>3. u.eval = RuleEval(Rule(l, G(l)))
  BY DEF RuleRow
<1>4. EnabledByRouteValue(M, l, p.value) = {p}
  <2>1. EnabledByRouteValue(M, l, p.value) = {q \in Bundle.routes : q.logical = l /\ q.value = p.value}
    BY Found
  <2>2. \A q \in Bundle.routes : q.logical = l /\ q.value = p.value => q = p
    BY OneRouteAValue
  <2> QED BY <2>1, <2>2
<1>5. p.ds \in M.datasources
  <2>1. PICK r \in G(l) : p.ds = DatasourceCode(r.source)
    BY RoutesOfATable
  <2>2. r \in Imported
    BY GroupRows DEF Group
  <2>3. M.datasources = Bundle.datasources
    BY DEF M, Metadata
  <2> QED BY <2>1, <2>2, <2>3, LogicalOfImported
<1> HIDE DEF u
<1>6. LET asked == ResolveTable(M, Statement(key), Table(l), ctx)
      IN asked.outcome = "target" /\ asked.target.physical = p.physical /\ asked.target.ds = p.ds
  BY <1>1, <1>2, <1>3, <1>4, <1>5, OnlyRouteIsTaken
<1>7. Asked(l, ctx, key) = ResolveTable(M, Statement(key), Table(l), ctx)
  BY DEF Asked, M, Table
<1> QED BY <1>6, <1>7

-----------------------------------------------------------------------------
(* The four kinds of tables.                                               *)
Factor(l, name, type, sourceKey) ==
  [logical |-> l, name |-> name, sourceType |-> type, sourceKey |-> sourceKey,
   required |-> TRUE, enabled |-> TRUE]

LEMMA Kinds ==
  ASSUME NEW l, NEW g
  PROVE  /\ SupportsBusinessFactor(g) =>
              /\ IsSharded(g) /\ Rule(l, g).kind = "mod"
              /\ Factors(l, g) = {Factor(l, "shard_value", "sql_predicate_from_context", "shard_column")}
         /\ IsSharded(g) /\ ~SupportsBusinessFactor(g) =>
              /\ Rule(l, g).kind = "suffix_passthrough"
              /\ Factors(l, g) = {Factor(l, "route_suffix", "route_context", "route_suffix")}
         /\ RequiresSourceRouting(g) =>
              /\ ~IsSharded(g) /\ Rule(l, g).kind = "source_passthrough"
              /\ Factors(l, g) = {Factor(l, "source_name", "route_context", "source_name")}
         /\ ~IsSharded(g) /\ ~RequiresSourceRouting(g) =>
              Rule(l, g).kind = "constant" /\ Factors(l, g) = {}
         /\ Rule(l, g).modulus = ShardModulus(g) /\ Rule(l, g).logical = l
<1>1. SupportsBusinessFactor(g) => IsSharded(g)
  BY DEF SupportsBusinessFactor
<1>2. RequiresSourceRouting(g) => ~IsSharded(g)
  BY DEF RequiresSourceRouting
<1>3. Rule(l, g).modulus = ShardModulus(g) /\ Rule(l, g).logical = l
  BY DEF Rule
<1>4. /\ SupportsBusinessFactor(g) => Rule(l, g).kind = "mod"
      /\ IsSharded(g) /\ ~SupportsBusinessFactor(g) => Rule(l, g).kind = "suffix_passthrough"
      /\ RequiresSourceRouting(g) => Rule(l, g).kind = "source_passthrough"
      /\ ~IsSharded(g) /\ ~RequiresSourceRouting(g) => Rule(l, g).kind = "constant"
  BY <1>1, <1>2 DEF Rule
<1>5. /\ SupportsBusinessFactor(g) =>
           Factors(l, g) = {Factor(l, "shard_value", "sql_predicate_from_context", "shard_column")}
      /\ IsSharded(g) /\ ~SupportsBusinessFactor(g) =>
           Factors(l, g) = {Factor(l, "route_suffix", "route_context", "route_suffix")}
      /\ RequiresSourceRouting(g) =>
           Factors(l, g) = {Factor(l, "source_name", "route_context", "source_name")}
      /\ ~IsSharded(g) /\ ~RequiresSourceRouting(g) => Factors(l, g) = {}
  BY <1>1, <1>2 DEF Factors, Factor
<1> QED BY <1>1, <1>2, <1>3, <1>4, <1>5

(* The value a statement has for the key's column is the key.              *)
LEMMA KeyIsRead ==
  ASSUME NEW key, NEW t, t.alias = NoValue
  PROVE  ValueForTable(Statement(key), "uid", t) = key
<1> DEFINE preds == Statement(key).preds
           hits == {i \in DOMAIN preds : /\ preds[i].column = "uid"
                                         /\ NoValue = NoValue \/ preds[i].qualifier = NoValue}
           value == PredicateValue(Statement(key), "uid", NoValue)
           first(S) == CHOOSE i \in S : \A j \in S : i <= j
<1>1. value = IF hits = {} THEN NoValue ELSE preds[first(hits)].value
  BY Zenon DEF PredicateValue
<1>2. preds = <<[qualifier |-> NoValue, column |-> "uid", value |-> key]>>
  BY DEF Statement
<1>3. DOMAIN preds = {1} /\ preds[1].column = "uid" /\ preds[1].value = key
  <2> HIDE DEF preds
  <2> QED BY <1>2
<1> HIDE DEF preds
<1>4. hits = {1}
  BY <1>3
<1>5. first({1}) = 1
  OBVIOUS
<1> HIDE DEF hits, first, value
<1>6. value = key
  BY <1>1, <1>3, <1>4, <1>5
<1>7. ValueForTable(Statement(key), "uid", t) = value
  BY DEF ValueForTable, value
<1> QED BY <1>6, <1>7

LEMMA ByKeyColumn ==
  ASSUME Collected, ~Bundle.raises, NEW l \in Bundle.tables, ~Shadowed(l),
         SupportsBusinessFactor(G(l)), NEW key \in DOMAIN Numeral,
         NEW p \in Bundle.routes, p.logical = l,
         p.value = Decimal[Numeral[key] % ShardModulus(G(l))]
  PROVE  LET asked == Asked(l, ByColumn, key)
         IN asked.outcome = "target" /\ asked.target.physical = p.physical /\ asked.target.ds = p.ds
<1> DEFINE f == Factor(l, "shard_value", "sql_predicate_from_context", "shard_column")
           u == Rule(l, G(l))
           values == ExtractedValues(M, LogicalRow(l), Statement(key), Table(l), ByColumn)
<1>1. /\ LogicalRow(l).name = l /\ Table(l).alias = NoValue
      /\ f.name = "shard_value" /\ f.sourceType = "sql_predicate_from_context"
      /\ f.sourceKey = "shard_column"
  BY DEF LogicalRow, Table, Factor
<1>2. RequiredFactors(M, LogicalRow(l).name) = {f}
  BY <1>1, Found, Kinds
<1>3. NoValue # "uid" /\ key # NoValue
  BY RowAssumption
<1> HIDE DEF f
<1>4. FactorValue(M, LogicalRow(l), f, Statement(key), Table(l), ByColumn) = key
  <2>1. ContextValue(ByColumn, "shard_column") = "uid"
    BY DEF ContextValue, ByColumn
  <2>2. ExtractFactorValue(f, Statement(key), Table(l), ByColumn) =
          ValueForTable(Statement(key), "uid", Table(l))
    BY <1>1, <1>3, <2>1 DEF ExtractFactorValue
  <2>3. ValueForTable(Statement(key), "uid", Table(l)) = key
    BY <1>1, KeyIsRead
  <2> QED BY <1>1, <2>2, <2>3 DEF FactorValue
<1>5. MissingFactors(M, LogicalRow(l), Statement(key), Table(l), ByColumn) = {} /\ values \in [{f.name} -> {key}]
  BY <1>2, <1>3, <1>4, OneFactorExtracted
<1> HIDE DEF values
<1>6. RuleEval(u) = [e \in [{"shard_value"} -> DOMAIN Numeral] |->
                       Decimal[Numeral[e["shard_value"]] % ShardModulus(G(l))]]
  <2>1. u.kind = "mod" /\ u.modulus = ShardModulus(G(l))
    BY Kinds
  <2> HIDE DEF u
  <2> QED BY <2>1 DEF RuleEval
<1>7. values \in [{"shard_value"} -> DOMAIN Numeral] /\ values["shard_value"] = key
  BY <1>1, <1>3, <1>5
<1>8. values \in DOMAIN RuleEval(u) /\ RuleEval(u)[values] = p.value
  BY <1>6, <1>7
<1>9. IsSharded(G(l))
  BY Kinds
<1> QED BY <1>5, <1>8, <1>9, RouteOfTheRule DEF values

LEMMA ByGivenSuffix ==
  ASSUME Collected, ~Bundle.raises, NEW l \in Bundle.tables, ~Shadowed(l),
         IsSharded(G(l)), ~SupportsBusinessFactor(G(l)), NEW n \in DOMAIN Decimal, NEW key,
         NEW p \in Bundle.routes, p.logical = l, p.value = Decimal[n]
  PROVE  LET asked == Asked(l, BySuffix(Decimal[n]), key)
         IN asked.outcome = "target" /\ asked.target.physical = p.physical /\ asked.target.ds = p.ds
<1> DEFINE f == Factor(l, "route_suffix", "route_context", "route_suffix")
           u == Rule(l, G(l))
           s == Decimal[n]
           values == ExtractedValues(M, LogicalRow(l), Statement(key), Table(l), BySuffix(s))
<1>1. /\ LogicalRow(l).name = l
      /\ f.name = "route_suffix" /\ f.sourceType = "route_context" /\ f.sourceKey = "route_suffix"
  BY DEF LogicalRow, Factor
<1>2. RequiredFactors(M, LogicalRow(l).name) = {f}
  BY <1>1, Found, Kinds
<1>3. s \in DOMAIN Numeral /\ Decimal[Numeral[s]] = s /\ s # NoValue
  BY DecimalAssumption, RowAssumption
<1> HIDE DEF f
<1>4. FactorValue(M, LogicalRow(l), f, Statement(key), Table(l), BySuffix(s)) = s
  <2>1. ContextValue(BySuffix(s), "route_suffix") = s
    BY DEF ContextValue, BySuffix
  <2>2. ExtractFactorValue(f, Statement(key), Table(l), BySuffix(s)) = s
    BY <1>1, <2>1 DEF ExtractFactorValue
  <2> QED BY <1>3, <2>2 DEF FactorValue
<1>5. MissingFactors(M, LogicalRow(l), Statement(key), Table(l), BySuffix(s)) = {} /\ values \in [{f.name} -> {s}]
  BY <1>2, <1>3, <1>4, OneFactorExtracted
<1> HIDE DEF values
<1>6. RuleEval(u) = [e \in [{"route_suffix"} -> DOMAIN Numeral] |-> Decimal[Numeral[e["route_suffix"]]]]
  <2>1. u.kind = "suffix_passthrough"
    BY Kinds
  <2> HIDE DEF u
  <2> QED BY <2>1 DEF RuleEval
<1>7. values \in [{"route_suffix"} -> DOMAIN Numeral] /\ values["route_suffix"] = s
  BY <1>1, <1>3, <1>5
<1>8. values \in DOMAIN RuleEval(u) /\ RuleEval(u)[values] = p.value
  BY <1>3, <1>6, <1>7
<1> QED BY <1>5, <1>8, RouteOfTheRule DEF values

LEMMA ByGivenSource ==
  ASSUME Collected, ~Bundle.raises, NEW l \in Bundle.tables, ~Shadowed(l), ~Duplicated,
         RequiresSourceRouting(G(l)), NEW s \in SourceNames, NEW key,
         NEW p \in Bundle.routes, p.logical = l, p.value = s
  PROVE  LET asked == Asked(l, BySource(s), key)
         IN asked.outcome = "target" /\ asked.target.physical = p.physical /\ asked.target.ds = p.ds
<1> DEFINE f == Factor(l, "source_name", "route_context", "source_name")
           u == Rule(l, G(l))
           values == ExtractedValues(M, LogicalRow(l), Statement(key), Table(l), BySource(s))
<1>1. /\ LogicalRow(l).name = l
      /\ f.name = "source_name" /\ f.sourceType = "route_context" /\ f.sourceKey = "source_name"
  BY DEF LogicalRow, Factor
<1>2. RequiredFactors(M, LogicalRow(l).name) = {f}
  BY <1>1, Found, Kinds
<1>3. s # NoValue
  BY RowAssumption
<1> HIDE DEF f
<1>4. FactorValue(M, LogicalRow(l), f, Statement(key), Table(l), BySource(s)) = s
  <2>1. ContextValue(BySource(s), "source_name") = s
    BY DEF ContextValue, BySource
  <2>2. ExtractFactorValue(f, Statement(key), Table(l), BySource(s)) = s
    BY <1>1, <2>1 DEF ExtractFactorValue
  <2> QED BY <1>3, <2>2 DEF FactorValue
<1>5. MissingFactors(M, LogicalRow(l), Statement(key), Table(l), BySource(s)) = {} /\ values \in [{f.name} -> {s}]
  BY <1>2, <1>3, <1>4, OneFactorExtracted
<1> HIDE DEF values
<1>6. RuleEval(u) = [e \in [{"source_name"} -> SourceNames] |-> e["source_name"]]
  <2>1. u.kind = "source_passthrough"
    BY Kinds
  <2> HIDE DEF u
  <2> QED BY <2>1 DEF RuleEval
<1>7. values \in [{"source_name"} -> SourceNames] /\ values["source_name"] = s
  BY <1>1, <1>3, <1>5
<1>8. values \in DOMAIN RuleEval(u) /\ RuleEval(u)[values] = p.value
  BY <1>6, <1>7
<1> QED BY <1>5, <1>8, RouteOfTheRule DEF values

LEMMA ByNameAlone ==
  ASSUME Collected, ~Bundle.raises, NEW l \in Bundle.tables, ~Shadowed(l), ~Duplicated,
         ~IsSharded(G(l)), ~RequiresSourceRouting(G(l)), NEW key,
         NEW p \in Bundle.routes, p.logical = l, p.value = "0"
  PROVE  LET asked == Asked(l, NoContext, key)
         IN asked.outcome = "target" /\ asked.target.physical = p.physical /\ asked.target.ds = p.ds
<1> DEFINE u == Rule(l, G(l))
           values == ExtractedValues(M, LogicalRow(l), Statement(key), Table(l), NoContext)
<1>1. LogicalRow(l).name = l
  BY DEF LogicalRow
<1>2. RequiredFactors(M, LogicalRow(l).name) = {}
  BY <1>1, Found, Kinds
<1>3. /\ MissingFactors(M, LogicalRow(l), Statement(key), Table(l), NoContext) = {}
      /\ values \in [{} -> {}]
  BY <1>2, NoFactorExtracted
<1>4. RuleEval(u) = [e \in [{} -> {}] |-> "0"]
  <2>1. u.kind = "constant"
    BY Kinds
  <2> HIDE DEF u
  <2> QED BY <2>1 DEF RuleEval
<1> HIDE DEF values
<1>5. values \in DOMAIN RuleEval(u) /\ RuleEval(u)[values] = p.value
  BY <1>3, <1>4
<1> QED BY <1>3, <1>5, RouteOfTheRule DEF values

-----------------------------------------------------------------------------
(* The value 0 .. N - 1 is what a key leaves when divided by N.            *)
LEMMA Remainder ==
  \A k \in Int, N \in Nat \ {0} : k % N \in 0 .. N - 1 /\ (k \in 0 .. N - 1 => k % N = k)
OBVIOUS

LEMMA RegisteredRoute ==
  ASSUME NEW l \in Bundle.tables, NEW r \in G(l), NEW p \in RoutesOf(l, G(l), r)
  PROVE  p \in Bundle.routes
BY BundleFields DEF BundleRoutes

LEMMA RuleOfATable ==
  ASSUME NEW u \in Bundle.rules
  PROVE  u.logical \in Bundle.tables /\ u = Rule(u.logical, G(u.logical))
<1>1. PICK l \in Bundle.tables : u = Rule(l, G(l))
  BY BundleFields
<1>2. u.logical = l
  BY <1>1, Kinds
<1> QED BY <1>1, <1>2

LEMMA ModIsForCompleteShards ==
  ASSUME NEW l, NEW g, Rule(l, g).kind = "mod"
  PROVE  SupportsBusinessFactor(g)
<1>1. CASE IsSharded(g) /\ ~SupportsBusinessFactor(g)
  BY <1>1, Kinds
<1>2. CASE RequiresSourceRouting(g)
  BY <1>2, Kinds
<1>3. CASE ~IsSharded(g) /\ ~RequiresSourceRouting(g)
  BY <1>3, Kinds
<1> QED BY <1>1, <1>2, <1>3

(* The shard of a remainder.                                               *)
LEMMA ShardOfARemainder ==
  ASSUME Collected, NEW l, SupportsBusinessFactor(G(l)), NEW k \in Int
  PROVE  LET home == k % ShardModulus(G(l))
         IN \E r \in G(l) : home \in r.begin .. r.end
<1> DEFINE home == k % ShardModulus(G(l))
<1>1. IsSharded(G(l)) /\ ShardSuffixes(G(l)) = 0 .. ShardModulus(G(l)) - 1
  BY DEF SupportsBusinessFactor
<1>2. home \in 0 .. ShardModulus(G(l)) - 1
  BY <1>1, ModulusIsPositive, Remainder
<1>3. home \in ShardSuffixes(G(l))
  BY <1>1, <1>2
<1> HIDE DEF home
<1>4. \E r \in G(l) : home \in r.begin .. r.end
  BY <1>3 DEF ShardSuffixes
<1> QED BY <1>4 DEF home

(* KeysFindTheirShard, for any table_config.                               *)
THEOREM KeysHaveAShard == Spec => []KeysFindTheirShard
<1>1. Collected => KeysFindTheirShard
  <2> SUFFICES ASSUME Collected, ~Bundle.raises,
                      NEW u \in {r \in Bundle.rules : r.kind = "mod" /\ ~Shadowed(r.logical)},
                      NEW key \in DOMAIN Numeral
               PROVE  LET asked == Asked(u.logical, ByColumn, key)
                          home  == Numeral[key] % u.modulus
                      IN /\ asked.outcome = "target"
                         /\ \E row \in Group(u.logical) :
                              /\ home \in row.begin .. row.end
                              /\ asked.target.physical = row.table \o "_" \o Digits[home]
                              /\ asked.target.ds = DatasourceCode(row.source)
    BY DEF KeysFindTheirShard
  <2> DEFINE l == u.logical
             home == Numeral[key] % u.modulus
             asked == Asked(l, ByColumn, key)
  <2>1. l \in Bundle.tables /\ u = Rule(l, G(l)) /\ u.kind = "mod" /\ ~Shadowed(l)
    BY RuleOfATable
  <2>2. SupportsBusinessFactor(G(l)) /\ u.modulus = ShardModulus(G(l))
    BY <2>1, ModIsForCompleteShards, Kinds
  <2>3. IsSharded(G(l))
    BY <2>2 DEF SupportsBusinessFactor
  <2>4. PICK r \in G(l) : home \in r.begin .. r.end
    <3>1. Numeral[key] \in Int
      BY RowAssumption
    <3> QED BY <2>2, <3>1, ShardOfARemainder
  <2> DEFINE physical == r.table \o "_" \o Digits[home]
             p == ShardRoute(l, r, home)
  <2>5. p \in Bundle.routes
    BY <2>1, <2>3, <2>4, ShardRoutes, RegisteredRoute
  <2>6. /\ p.logical = l /\ p.physical = physical /\ p.ds = DatasourceCode(r.source)
        /\ p.value = Decimal[Numeral[key] % ShardModulus(G(l))]
    <3>1. p.value = Digits[home]
      BY DEF ShardRoute, RouteOf
    <3>2. Digits = Decimal
      BY RowAssumption
    <3> QED BY <2>2, <3>1, <3>2 DEF ShardRoute, RouteOf
  <2>7. r \in Group(l)
    BY GroupRows
  <2> HIDE DEF p, l, home, physical
  <2>8. asked.outcome = "target" /\ asked.target.physical = p.physical /\ asked.target.ds = p.ds
    BY <2>1, <2>2, <2>5, <2>6, ByKeyColumn
  <2> QED BY <2>4, <2>6, <2>7, <2>8 DEF l, home, physical
<1> QED BY <1>1, Collecting, PTL

-----------------------------------------------------------------------------
(* Of each row a twin is registered: the same segment, and the same table  *)
(* when no two tables meet in one logical name.                            *)
LEMMA Twin ==
  ASSUME Collected, ~NamesMeet, NEW row \in Imported
  PROVE  \E s \in G(LogicalName(row)) :
           /\ s.table = row.table /\ s.source = row.source
           /\ s.begin = row.begin /\ s.end = row.end /\ s.shards = row.shards
<1> DEFINE l == LogicalName(row)
<1>1. row \in Group(l)
  BY DEF Group
<1>2. PICK s \in G(l) : Segment(s) = Segment(row)
  BY <1>1, GroupRows
<1>3. s \in Imported /\ LogicalName(s) = l
  BY GroupRows DEF Group
<1>4. s.table = row.table
  BY <1>3 DEF NamesMeet
<1> QED BY <1>2, <1>4, SameSegment

(* The request that reaches a table of a row, one for each kind.           *)
Reached(l, physical, ds) ==
  \E ctx \in Contexts, key \in DOMAIN Numeral :
    LET asked == Asked(l, ctx, key)
    IN asked.outcome = "target" /\ asked.target.physical = physical /\ asked.target.ds = ds

LEMMA ReachedByKey ==
  ASSUME Collected, ~Bundle.raises, NEW row \in Imported, NEW l \in Bundle.tables,
         LogicalName(row) = l, ~Stray(row), ~Shadowed(l), SupportsBusinessFactor(G(l)),
         NEW s \in G(l), s.shards = row.shards, NEW n \in s.begin .. s.end, n \in DOMAIN Decimal
  PROVE  Reached(l, s.table \o "_" \o Digits[n], DatasourceCode(s.source))
<1> DEFINE key == Decimal[n]
           physical == s.table \o "_" \o Digits[n]
           p == ShardRoute(l, s, n)
<1>1. /\ Rule(l, G(l)) \in Bundle.rules
      /\ Rule(l, G(l)).logical = l /\ Rule(l, G(l)).kind = "mod"
  BY BundleFields, Kinds
<1>2. row.shards > 0
  BY <1>1 DEF Stray
<1>3. n \in 0 .. ShardModulus(G(l)) - 1
  <2>1. n \in ShardSuffixes(G(l))
    BY <1>2 DEF ShardSuffixes
  <2> QED BY <2>1 DEF SupportsBusinessFactor
<1>4. IsSharded(G(l))
  BY DEF SupportsBusinessFactor
<1>5. key \in DOMAIN Numeral /\ Numeral[key] = n
  BY DecimalAssumption
<1>6. n \in Int /\ n % ShardModulus(G(l)) = n
  BY <1>3, <1>4, ModulusIsPositive, Remainder
<1>7. p \in Bundle.routes
  BY <1>4, ShardRoutes, RegisteredRoute
<1>8. /\ p.logical = l /\ p.physical = physical /\ p.ds = DatasourceCode(s.source)
      /\ p.value = Decimal[Numeral[key] % ShardModulus(G(l))]
  <2>1. Digits = Decimal
    BY RowAssumption
  <2> QED BY <1>5, <1>6, <2>1 DEF ShardRoute, RouteOf
<1> HIDE DEF p, physical, key
<1>9. LET asked == Asked(l, ByColumn, key)
      IN asked.outcome = "target" /\ asked.target.physical = p.physical /\ asked.target.ds = p.ds
  BY <1>5, <1>7, <1>8, ByKeyColumn
<1>10. ByColumn \in Contexts
  BY DEF Contexts
<1>11. Reached(l, physical, DatasourceCode(s.source))
  BY <1>5, <1>8, <1>9, <1>10, Zenon DEF Reached
<1> QED BY <1>11 DEF physical

LEMMA ReachedBySuffix ==
  ASSUME Collected, ~Bundle.raises, NEW l \in Bundle.tables, ~Shadowed(l),
         IsSharded(G(l)), ~SupportsBusinessFactor(G(l)),
         NEW s \in G(l), NEW n \in s.begin .. s.end, n \in DOMAIN Decimal
  PROVE  Reached(l, s.table \o "_" \o Digits[n], DatasourceCode(s.source))
<1> DEFINE ctx == BySuffix(Decimal[n])
           physical == s.table \o "_" \o Digits[n]
           p == ShardRoute(l, s, n)
<1>1. Decimal[n] \in DOMAIN Numeral
  BY DecimalAssumption
<1>2. p \in Bundle.routes
  BY ShardRoutes, RegisteredRoute
<1>3. /\ p.logical = l /\ p.physical = physical /\ p.ds = DatasourceCode(s.source)
      /\ p.value = Decimal[n]
  <2>1. Digits = Decimal
    BY RowAssumption
  <2> QED BY <2>1 DEF ShardRoute, RouteOf
<1> HIDE DEF p, physical
<1>4. \A key : LET asked == Asked(l, ctx, key)
               IN asked.outcome = "target" /\ asked.target.physical = p.physical /\ asked.target.ds = p.ds
  BY <1>2, <1>3, ByGivenSuffix
<1>5. ctx \in Contexts
  BY <1>1 DEF Contexts
<1> HIDE DEF ctx
<1>6. Reached(l, physical, DatasourceCode(s.source))
  BY <1>1, <1>3, <1>4, <1>5, Zenon DEF Reached
<1> QED BY <1>6 DEF physical

LEMMA ReachedBySource ==
  ASSUME Collected, ~Bundle.raises, ~Duplicated, NEW l \in Bundle.tables, ~Shadowed(l),
         RequiresSourceRouting(G(l)), NEW s \in G(l)
  PROVE  Reached(l, s.table, DatasourceCode(s.source))
<1> DEFINE ctx == BySource(SourceName(s))
           p == RouteOf(l, SourceName(s), s.table, s, Segment(s))
<1>1. SourceName(s) \in SourceNames
  BY GroupRows, ImportedRow DEF Group
<1>2. p \in Bundle.routes
  <2>1. RoutesOf(l, G(l), s) = {p}
    BY RoutesOfARow, Zenon
  <2> QED BY <2>1, RegisteredRoute
<1>3. /\ p.logical = l /\ p.physical = s.table /\ p.ds = DatasourceCode(s.source)
      /\ p.value = SourceName(s)
  BY DEF RouteOf
<1> HIDE DEF p
<1>4. \A key : LET asked == Asked(l, ctx, key)
               IN asked.outcome = "target" /\ asked.target.physical = p.physical /\ asked.target.ds = p.ds
  BY <1>1, <1>2, <1>3, ByGivenSource
<1>5. ctx \in Contexts
  BY <1>1 DEF Contexts
<1>6. DOMAIN Numeral # {}
  BY RowAssumption
<1> HIDE DEF ctx
<1> QED BY <1>3, <1>4, <1>5, <1>6, Zenon DEF Reached

LEMMA ReachedByName ==
  ASSUME Collected, ~Bundle.raises, ~Duplicated, NEW l \in Bundle.tables, ~Shadowed(l),
         ~IsSharded(G(l)), ~RequiresSourceRouting(G(l)), NEW s \in G(l)
  PROVE  Reached(l, s.table, DatasourceCode(s.source))
<1> DEFINE p == RouteOf(l, "0", s.table, s, Segment(s))
<1>1. p \in Bundle.routes
  <2>1. RoutesOf(l, G(l), s) = {p}
    BY RoutesOfARow, Zenon
  <2> QED BY <2>1, RegisteredRoute
<1>2. /\ p.logical = l /\ p.physical = s.table /\ p.ds = DatasourceCode(s.source)
      /\ p.value = "0"
  BY DEF RouteOf
<1> HIDE DEF p
<1>3. \A key : LET asked == Asked(l, NoContext, key)
               IN asked.outcome = "target" /\ asked.target.physical = p.physical /\ asked.target.ds = p.ds
  BY <1>1, <1>2, ByNameAlone
<1>4. NoContext \in Contexts
  BY DEF Contexts
<1>5. DOMAIN Numeral # {}
  BY RowAssumption
<1> QED BY <1>2, <1>3, <1>4, <1>5, Zenon DEF Reached

(* EveryRowIsReachable, for any table_config.                              *)
THEOREM RowsAreReachable == Spec => []EveryRowIsReachable
<1>1. Collected => EveryRowIsReachable
  <2> SUFFICES ASSUME Collected, ~Bundle.raises, ~Duplicated, ~NamesMeet,
                      NEW row \in Imported, ~Stray(row), ~Shadowed(LogicalName(row)),
                      NEW physical \in TablesOf(row)
               PROVE  Reached(LogicalName(row), physical, DatasourceCode(row.source))
    BY Zenon DEF EveryRowIsReachable, Reached
  <2> DEFINE l == LogicalName(row)
  <2>1. l \in Bundle.tables
    BY LogicalOfImported
  <2>2. PICK s \in G(l) : /\ s.table = row.table /\ s.source = row.source
                          /\ s.begin = row.begin /\ s.end = row.end /\ s.shards = row.shards
    BY Twin
  <2>3. CASE IsSharded(G(l))
    <3>1. PICK n \in row.begin .. row.end : physical = row.table \o "_" \o Digits[n]
      BY <2>3, SameSharding DEF TablesOf
    <3>2. n \in s.begin .. s.end /\ n \in DOMAIN Decimal
      BY <2>2, ImportedRow
    <3>3. Reached(l, s.table \o "_" \o Digits[n], DatasourceCode(s.source))
      <4>1. CASE SupportsBusinessFactor(G(l))
        BY <2>1, <2>2, <3>2, <4>1, ReachedByKey
      <4>2. CASE ~SupportsBusinessFactor(G(l))
        BY <2>1, <2>3, <3>2, <4>2, ReachedBySuffix
      <4> QED BY <4>1, <4>2
    <3> QED BY <2>2, <3>1, <3>3
  <2>4. CASE ~IsSharded(G(l))
    <3>1. physical = s.table
      BY <2>2, <2>4, SameSharding DEF TablesOf
    <3>2. Reached(l, s.table, DatasourceCode(s.source))
      <4>1. CASE RequiresSourceRouting(G(l))
        BY <2>1, <4>1, ReachedBySource
      <4>2. CASE ~RequiresSourceRouting(G(l))
        BY <2>1, <2>4, <4>2, ReachedByName
      <4> QED BY <4>1, <4>2
    <3> QED BY <2>2, <3>1, <3>2
  <2> QED BY <2>3, <2>4
<1> QED BY <1>1, Collecting, PTL

-----------------------------------------------------------------------------
(* What a bundle refers to is in it, and a table has one factor at most.   *)
Closed(b) ==
  /\ \A f \in b.factors : f.logical \in b.tables
  /\ \A f, g \in b.factors : f.logical = g.logical => f = g
  /\ \A u \in b.rules : u.logical \in b.tables
  /\ \A p \in b.routes : p.logical \in b.tables /\ p.ds \in b.datasources

LEMMA OneFactor ==
  ASSUME NEW l, NEW g, NEW a \in Factors(l, g), NEW b \in Factors(l, g)
  PROVE  a = b /\ a.logical = l
<1>1. a.logical = l
  BY DEF Factors
<1>2. CASE SupportsBusinessFactor(g)
  <2>1. Factors(l, g) = {Factor(l, "shard_value", "sql_predicate_from_context", "shard_column")}
    BY <1>2, Kinds, Zenon
  <2> QED BY <1>1, <2>1
<1>3. CASE IsSharded(g) /\ ~SupportsBusinessFactor(g)
  <2>1. Factors(l, g) = {Factor(l, "route_suffix", "route_context", "route_suffix")}
    BY <1>3, Kinds, Zenon
  <2> QED BY <1>1, <2>1
<1>4. CASE RequiresSourceRouting(g)
  <2>1. Factors(l, g) = {Factor(l, "source_name", "route_context", "source_name")}
    BY <1>4, Kinds, Zenon
  <2> QED BY <1>1, <2>1
<1>5. CASE ~IsSharded(g) /\ ~RequiresSourceRouting(g)
  BY <1>5, Kinds
<1> QED BY <1>1, <1>2, <1>3, <1>4, <1>5

(* build_sync_bundle hands sync_bundle_to_local a closed bundle, whatever  *)
(* table_config holds: no insert refers to a row that is not inserted.     *)
THEOREM BundlesAreClosed == Spec => []Closed(Bundle)
<1>1. Collected => Closed(Bundle)
  <2> SUFFICES ASSUME Collected PROVE Closed(Bundle)
    OBVIOUS
  <2>1. ASSUME NEW f \in Bundle.factors
        PROVE  f.logical \in Bundle.tables /\ f \in Factors(f.logical, G(f.logical))
    <3>1. PICK l \in Bundle.tables : f \in Factors(l, G(l))
      BY BundleFields
    <3> QED BY <3>1, OneFactor
  <2>2. ASSUME NEW f \in Bundle.factors, NEW g \in Bundle.factors, f.logical = g.logical
        PROVE  f = g
    BY <2>1, <2>2, OneFactor
  <2>3. ASSUME NEW u \in Bundle.rules PROVE u.logical \in Bundle.tables
    BY RuleOfATable
  <2>4. ASSUME NEW p \in Bundle.routes
        PROVE  p.logical \in Bundle.tables /\ p.ds \in Bundle.datasources
    <3>1. PICK r \in G(p.logical) : p.ds = DatasourceCode(r.source)
      BY RoutesOfATable
    <3>2. r \in Imported
      BY GroupRows DEF Group
    <3> QED BY <3>1, <3>2, RoutesOfATable, LogicalOfImported
  <2> QED BY <2>1, <2>2, <2>3, <2>4 DEF Closed
<1> QED BY <1>1, Collecting, PTL
=============================================================================
