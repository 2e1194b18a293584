-------------------------- MODULE SqlParsingProofs --------------------------
(***************************************************************************)
(* What the parser finds in a text, what a splice leaves of it, and what a *)
(* clause adds to it: checking a checked statement changes nothing, and a  *)
(* plain one is understood, however long the statement.                    *)
(***************************************************************************)
EXTENDS WrittenStatements, CheckChainProofs, SequenceTheorems

-----------------------------------------------------------------------------
(* Induction, as a statement on sets.                                      *)
LEMMA DownTo ==
  ASSUME NEW lo \in Int, NEW hi \in Int, NEW S,
         \A i \in lo .. hi : (\A j \in i + 1 .. hi : j \in S) => i \in S
  PROVE  \A i \in lo .. hi : i \in S
<1> DEFINE bad == {d \in Nat : hi - d \in lo .. hi /\ hi - d \notin S}
<1>1. SUFFICES ASSUME bad # {} PROVE FALSE
  <2>1. ASSUME NEW i \in lo .. hi, i \notin S, bad = {} PROVE FALSE
    <3>1. hi - i \in Nat /\ hi - (hi - i) = i
      OBVIOUS
    <3>2. hi - i \in bad
      BY <2>1, <3>1
    <3> QED BY <2>1, <3>2
  <2> QED BY <2>1
<1>2. bad \in SUBSET Nat
  OBVIOUS
<1>3. PICK d \in bad : \A e \in bad : d <= e
  BY <1>1, <1>2, LeastElement, Zenon
<1>4. d \in Nat /\ hi - d \in lo .. hi /\ hi - d \notin S
  OBVIOUS
<1>5. ASSUME NEW j \in hi - d + 1 .. hi PROVE j \in S
  <2>1. hi - j \in Nat /\ ~ (d <= hi - j) /\ hi - (hi - j) = j /\ j \in lo .. hi
    BY <1>4
  <2>2. hi - j \notin bad
    BY <2>1, <1>3, Zenon
  <2> QED BY <2>1, <2>2
<1> QED BY <1>4, <1>5

-----------------------------------------------------------------------------
(* The scan.  A match stops after the place it begins at.                  *)
StopsAhead(n, matches) ==
  \A i \in 1 .. n : matches[i].stop = 0 \/ matches[i].stop \in i + 1 .. n + 1

StartsAt(n, matches, i, starts) ==
  IF i > n THEN <<>>
  ELSE IF matches[i].stop = 0 THEN starts[i + 1]
  ELSE <<i>> \o starts[matches[i].stop]

LEMMA StartsLocal ==
  ASSUME NEW n \in Nat, NEW matches, StopsAhead(n, matches), NEW i \in 1 .. n + 1,
         NEW f, NEW g, \A j \in i + 1 .. n + 1 : f[j] = g[j]
  PROVE  StartsAt(n, matches, i, f) = StartsAt(n, matches, i, g)
<1>1. CASE i > n
  BY <1>1 DEF StartsAt
<1>2. CASE i <= n
  <2>1. i \in 1 .. n /\ i + 1 \in i + 1 .. n + 1 /\ ~ (i > n)
    BY <1>2
  <2>2. matches[i].stop = 0 \/ matches[i].stop \in i + 1 .. n + 1
    BY <2>1 DEF StopsAhead
  <2>3. matches[i].stop # 0 => f[matches[i].stop] = g[matches[i].stop]
    BY <2>2, Zenon
  <2>4. f[i + 1] = g[i + 1]
    BY <2>1, Zenon
  <2> QED BY <2>1, <2>3, <2>4, Zenon DEF StartsAt
<1> QED BY <1>1, <1>2

(* The recursive definition has a value: it is built from the right.       *)
LEMMA StartsExists ==
  ASSUME NEW n \in Nat, NEW matches, StopsAhead(n, matches)
  PROVE  \E f : f = [i \in 1 .. n + 1 |-> StartsAt(n, matches, i, f)]
<1> DEFINE G(i, f) == f = [j \in i .. n + 1 |-> StartsAt(n, matches, j, f)]
           S == {i \in 1 .. n + 1 : \E f : G(i, f)}
<1>1. ASSUME NEW i \in 1 .. n + 1, NEW g, \A j \in i + 1 .. n + 1 : g[j] = StartsAt(n, matches, j, g)
      PROVE  i \in S
  <2> DEFINE f == [j \in i .. n + 1 |-> IF j = i THEN StartsAt(n, matches, i, g) ELSE g[j]]
  <2>1. \A j \in i + 1 .. n + 1 : f[j] = g[j]
    OBVIOUS
  <2>2. f[i] = StartsAt(n, matches, i, g)
    OBVIOUS
  <2>3. DOMAIN f = i .. n + 1 /\ f = [j \in i .. n + 1 |-> f[j]]
    OBVIOUS
  <2> HIDE DEF f
  <2>4. StartsAt(n, matches, i, f) = StartsAt(n, matches, i, g)
    BY <2>1, StartsLocal
  <2>5. ASSUME NEW j \in i + 1 .. n + 1 PROVE f[j] = StartsAt(n, matches, j, f)
    <3>1. j \in 1 .. n + 1 /\ \A k \in j + 1 .. n + 1 : f[k] = g[k]
      BY <2>1
    <3>2. StartsAt(n, matches, j, f) = StartsAt(n, matches, j, g)
      BY <3>1, StartsLocal
    <3> QED BY <3>2, <2>1, <1>1
  <2>6. \A j \in i .. n + 1 : f[j] = StartsAt(n, matches, j, f)
    BY <2>2, <2>4, <2>5
  <2>7. [j \in i .. n + 1 |-> f[j]] = [j \in i .. n + 1 |-> StartsAt(n, matches, j, f)]
    BY <2>6
  <2>8. G(i, f)
    BY <2>3, <2>7
  <2> QED BY <2>8
<1>2. ASSUME NEW i \in 1 .. n + 1, \A j \in i + 1 .. n + 1 : j \in S PROVE i \in S
  <2>1. CASE i = n + 1
    <3>1. \A j \in i + 1 .. n + 1 : <<>>[j] = StartsAt(n, matches, j, <<>>)
      BY <2>1
    <3> QED BY <3>1, <1>1
  <2>2. CASE i # n + 1
    <3>1. i + 1 \in S
      BY <1>2, <2>2
    <3>2. PICK g : G(i + 1, g)
      BY <3>1
    <3>3. \A j \in i + 1 .. n + 1 : g[j] = StartsAt(n, matches, j, g)
      BY <3>2
    <3> QED BY <3>3, <1>1
  <2> QED BY <2>1, <2>2
<1> HIDE DEF S
<1>3. \A i \in 1 .. n + 1 : i \in S
  <2>1. 1 \in Int /\ n + 1 \in Int
    OBVIOUS
  <2>2. \A i \in 1 .. n + 1 : (\A j \in i + 1 .. n + 1 : j \in S) => i \in S
    BY <1>2
  <2> QED BY <2>1, <2>2, DownTo, Zenon
<1>4. 1 \in S
  BY <1>3
<1> QED BY <1>4 DEF S

LEMMA StartsEquation ==
  ASSUME NEW n \in Nat, NEW matches, StopsAhead(n, matches)
  PROVE  /\ DOMAIN Starts(n, matches) = 1 .. n + 1
         /\ \A i \in 1 .. n + 1 :
              Starts(n, matches)[i] = StartsAt(n, matches, i, Starts(n, matches))
<1> DEFINE P(f) == f = [i \in 1 .. n + 1 |-> StartsAt(n, matches, i, f)]
           s == CHOOSE f : P(f)
<1>1. P(s)
  <2>1. \E f : P(f)
    BY StartsExists
  <2> QED BY <2>1
<1>2. Starts(n, matches) = s
  BY Zenon DEF Starts, StartsAt
<1> HIDE DEF s
<1> QED BY <1>1, <1>2

LEMMA StartsCases ==
  ASSUME NEW n \in Nat, NEW matches, StopsAhead(n, matches)
  PROVE  /\ Starts(n, matches)[n + 1] = <<>>
         /\ \A i \in 1 .. n :
              /\ i + 1 \in 1 .. n + 1
              /\ matches[i].stop = 0 => Starts(n, matches)[i] = Starts(n, matches)[i + 1]
              /\ matches[i].stop # 0 =>
                   /\ matches[i].stop \in i + 1 .. n + 1
                   /\ matches[i].stop \in 1 .. n + 1
                   /\ Starts(n, matches)[i] = <<i>> \o Starts(n, matches)[matches[i].stop]
<1> DEFINE s == Starts(n, matches)
<1>1. \A i \in 1 .. n + 1 : s[i] = StartsAt(n, matches, i, s)
  BY StartsEquation
<1> HIDE DEF s
<1>2. s[n + 1] = <<>>
  <2>1. n + 1 \in 1 .. n + 1 /\ n + 1 > n
    OBVIOUS
  <2> QED BY <1>1, <2>1, Zenon DEF StartsAt
<1>3. ASSUME NEW i \in 1 .. n
      PROVE  /\ i + 1 \in 1 .. n + 1
             /\ matches[i].stop = 0 => s[i] = s[i + 1]
             /\ matches[i].stop # 0 =>
                  /\ matches[i].stop \in i + 1 .. n + 1
                  /\ matches[i].stop \in 1 .. n + 1
                  /\ s[i] = <<i>> \o s[matches[i].stop]
  <2>1. i \in 1 .. n + 1 /\ ~ (i > n) /\ i + 1 \in 1 .. n + 1
    OBVIOUS
  <2>2. s[i] = StartsAt(n, matches, i, s)
    BY <1>1, <2>1
  <2>3. matches[i].stop = 0 \/ matches[i].stop \in i + 1 .. n + 1
    BY DEF StopsAhead
  <2>4. matches[i].stop # 0 => matches[i].stop \in 1 .. n + 1
    BY <2>3
  <2> QED BY <2>1, <2>2, <2>3, <2>4, Zenon DEF StartsAt
<1> QED BY <1>2, <1>3 DEF s

LEMMA Prefixed ==
  ASSUME NEW T, NEW t \in Seq(T), NEW x \in T
  PROVE  /\ <<x>> \o t \in Seq(T)
         /\ Len(<<x>> \o t) = Len(t) + 1
         /\ (<<x>> \o t)[1] = x
         /\ \A k \in 1 .. Len(t) : (<<x>> \o t)[k + 1] = t[k]
         /\ \A k \in 1 .. Len(t) + 1 : k = 1 \/ (k - 1 \in 1 .. Len(t) /\ (<<x>> \o t)[k] = t[k - 1])
OBVIOUS

(* The matches found are matches, one after the other.                     *)
Chained(matches, i, starts) ==
  \A k \in 1 .. Len(starts) :
    /\ starts[k] >= i
    /\ matches[starts[k]].stop # 0
    /\ k < Len(starts) => matches[starts[k]].stop <= starts[k + 1]

LEMMA StartsType ==
  ASSUME NEW n \in Nat, NEW matches, StopsAhead(n, matches)
  PROVE  \A i \in 1 .. n + 1 :
           /\ Starts(n, matches)[i] \in Seq(1 .. n)
           /\ Chained(matches, i, Starts(n, matches)[i])
<1> DEFINE s == Starts(n, matches)
           S == {i \in 1 .. n + 1 : s[i] \in Seq(1 .. n) /\ Chained(matches, i, s[i])}
<1>1. s[n + 1] = <<>>
  BY StartsCases
<1>2. \A i \in 1 .. n :
        /\ i + 1 \in 1 .. n + 1
        /\ matches[i].stop = 0 => s[i] = s[i + 1]
        /\ matches[i].stop # 0 => /\ matches[i].stop \in i + 1 .. n + 1
                                  /\ matches[i].stop \in 1 .. n + 1
                                  /\ s[i] = <<i>> \o s[matches[i].stop]
  BY StartsCases
<1> HIDE DEF s
<1>3. ASSUME NEW i \in 1 .. n + 1, \A j \in i + 1 .. n + 1 : j \in S PROVE i \in S
  <2>1. CASE i = n + 1
    <3>1. s[i] = <<>>
      BY <2>1, <1>1
    <3>2. <<>> \in Seq(1 .. n) /\ Len(<<>>) = 0
      OBVIOUS
    <3>3. Chained(matches, i, <<>>)
      BY <3>2 DEF Chained
    <3> QED BY <3>1, <3>2, <3>3
  <2>2. CASE i # n + 1 /\ matches[i].stop = 0
    <3>1. i \in 1 .. n /\ i + 1 \in i + 1 .. n + 1
      BY <2>2
    <3>2. s[i] = s[i + 1] /\ i + 1 \in S
      BY <3>1, <2>2, <1>2, <1>3
    <3>3. Chained(matches, i, s[i + 1])
      BY <3>2 DEF Chained
    <3> QED BY <3>2, <3>3
  <2>3. CASE i # n + 1 /\ matches[i].stop # 0
    <3> DEFINE j == matches[i].stop
               t == s[j]
    <3>1. i \in 1 .. n
      BY <2>3
    <3>2. j \in i + 1 .. n + 1 /\ s[i] = <<i>> \o t
      BY <3>1, <2>3, <1>2
    <3>3. t \in Seq(1 .. n) /\ Chained(matches, j, t)
      BY <3>2, <1>3
    <3>4. /\ s[i] \in Seq(1 .. n)
          /\ Len(s[i]) = Len(t) + 1
          /\ s[i][1] = i
          /\ \A k \in 1 .. Len(t) : s[i][k + 1] = t[k]
          /\ \A k \in 1 .. Len(t) + 1 : k = 1 \/ (k - 1 \in 1 .. Len(t) /\ s[i][k] = t[k - 1])
      BY <3>1, <3>2, <3>3, Prefixed, SMTT(30)
    <3>5. ASSUME NEW k \in 1 .. Len(s[i])
          PROVE  /\ s[i][k] >= i
                 /\ matches[s[i][k]].stop # 0
                 /\ k < Len(s[i]) => matches[s[i][k]].stop <= s[i][k + 1]
      <4>1. CASE k = 1
        <5>1. Len(t) \in Nat /\ (1 < Len(s[i]) => 1 \in 1 .. Len(t))
          BY <3>3, <3>4, SMTT(30)
        <5>2. 1 < Len(s[i]) => s[i][2] = t[1] /\ t[1] >= j
          BY <5>1, <3>3, <3>4 DEF Chained
        <5> QED BY <4>1, <5>2, <3>1, <3>4, <2>3
      <4>2. CASE k # 1
        <5>1. k - 1 \in 1 .. Len(t) /\ s[i][k] = t[k - 1]
          BY <4>2, <3>4
        <5>2. /\ t[k - 1] >= j /\ matches[t[k - 1]].stop # 0
              /\ k - 1 < Len(t) => matches[t[k - 1]].stop <= t[k - 1 + 1]
          BY <5>1, <3>3 DEF Chained
        <5>3. t[k - 1] \in 1 .. n
          BY <5>1, <3>3, SMTT(30)
        <5>4. k < Len(s[i]) => k - 1 < Len(t) /\ k - 1 + 1 = k /\ k \in 1 .. Len(t) /\ s[i][k + 1] = t[k]
          <6>1. Len(t) \in Nat /\ k \in Nat /\ k >= 1 /\ Len(s[i]) = Len(t) + 1
            BY <3>3, <3>4
          <6> HIDE DEF t
          <6>2. k < Len(s[i]) => k - 1 < Len(t) /\ k - 1 + 1 = k /\ k \in 1 .. Len(t)
            BY <6>1
          <6> QED BY <6>2, <3>4, Zenon
        <5>5. s[i][k] \in 1 .. n /\ s[i][k] >= j /\ matches[s[i][k]].stop # 0
          BY <5>1, <5>2, <5>3
        <5>6. k < Len(s[i]) => matches[s[i][k]].stop <= s[i][k + 1]
          BY <5>1, <5>2, <5>4
        <5>7. j > i
          BY <3>2
        <5> HIDE DEF j
        <5>8. \A l \in 1 .. n : l >= j => l >= i
          BY <5>7, <3>1, <3>2
        <5> QED BY <5>5, <5>6, <5>8, Zenon
      <4> QED BY <4>1, <4>2
    <3> QED BY <3>4, <3>5 DEF Chained
  <2> QED BY <2>1, <2>2, <2>3
<1> HIDE DEF S
<1>4. \A i \in 1 .. n + 1 : i \in S
  <2>1. 1 \in Int /\ n + 1 \in Int
    OBVIOUS
  <2>2. \A i \in 1 .. n + 1 : (\A j \in i + 1 .. n + 1 : j \in S) => i \in S
    BY <1>3
  <2> QED BY <2>1, <2>2, DownTo, Zenon
<1> QED BY <1>4 DEF s, S

LEMMA StartsSkip ==
  ASSUME NEW n \in Nat, NEW matches, StopsAhead(n, matches),
         NEW i \in 1 .. n + 1, NEW j \in i .. n + 1,
         \A k \in i .. j - 1 : matches[k].stop = 0
  PROVE  Starts(n, matches)[i] = Starts(n, matches)[j]
<1> DEFINE s == Starts(n, matches)
           S == {k \in i .. j : s[k] = s[j]}
<1>1. \A k \in 1 .. n : matches[k].stop = 0 => s[k] = s[k + 1]
  BY StartsCases
<1> HIDE DEF s
<1>2. ASSUME NEW k \in i .. j, \A l \in k + 1 .. j : l \in S PROVE k \in S
  <2>1. CASE k = j
    BY <2>1
  <2>2. CASE k # j
    <3>1. k + 1 \in k + 1 .. j /\ k \in i .. j - 1 /\ k \in 1 .. n
      BY <2>2
    <3>2. s[k + 1] = s[j]
      BY <3>1, <1>2
    <3> QED BY <3>1, <3>2, <1>1
  <2> QED BY <2>1, <2>2
<1> HIDE DEF S
<1>3. \A k \in i .. j : k \in S
  <2>1. i \in Int /\ j \in Int
    OBVIOUS
  <2>2. \A k \in i .. j : (\A l \in k + 1 .. j : l \in S) => k \in S
    BY <1>2
  <2> QED BY <2>1, <2>2, DownTo, Zenon
<1>4. i \in S
  BY <1>3
<1> QED BY <1>4 DEF s, S

(* Two scans that keep in step, place for place under phi, find matches at *)
(* the same places under phi.                                              *)
Tracks(D, phi, a, b) ==
  /\ Len(b) = Len(a)
  /\ \A k \in 1 .. Len(a) : a[k] \in D /\ b[k] = phi[a[k]]

InStep(n1, m1, n2, m2, D, phi, i) ==
  \/ /\ i = n1 + 1
     /\ phi[i] = n2 + 1
  \/ /\ i \in 1 .. n1 /\ phi[i] \in 1 .. n2
     /\ m1[i].stop # 0 /\ m1[i].stop \in D
     /\ m2[phi[i]].stop = phi[m1[i].stop]
  \/ \E j \in D : /\ j > i
                  /\ Starts(n1, m1)[i] = Starts(n1, m1)[j]
                  /\ Starts(n2, m2)[phi[i]] = Starts(n2, m2)[phi[j]]

LEMMA ScanTransfer ==
  ASSUME NEW n1 \in Nat, NEW m1, StopsAhead(n1, m1),
         NEW n2 \in Nat, NEW m2, StopsAhead(n2, m2),
         NEW D \in SUBSET (1 .. n1 + 1), NEW phi, \A i \in D : phi[i] \in 1 .. n2 + 1,
         \A i \in D : InStep(n1, m1, n2, m2, D, phi, i)
  PROVE  \A i \in D : Tracks(D, phi, Starts(n1, m1)[i], Starts(n2, m2)[phi[i]])
<1> DEFINE s1 == Starts(n1, m1)
           s2 == Starts(n2, m2)
           S == {i \in 1 .. n1 + 1 : i \in D => Tracks(D, phi, s1[i], s2[phi[i]])}
<1>1. /\ s1[n1 + 1] = <<>>
      /\ s2[n2 + 1] = <<>>
  BY StartsCases
<1>2. \A i \in 1 .. n1 : m1[i].stop # 0 => /\ m1[i].stop \in i + 1 .. n1 + 1
                                           /\ s1[i] = <<i>> \o s1[m1[i].stop]
  BY StartsCases
<1>3. \A i \in 1 .. n2 : m2[i].stop # 0 => s2[i] = <<i>> \o s2[m2[i].stop]
  BY StartsCases
<1>4. /\ \A i \in 1 .. n1 + 1 : s1[i] \in Seq(1 .. n1)
      /\ \A i \in 1 .. n2 + 1 : s2[i] \in Seq(1 .. n2)
  BY StartsType
<1>5. \A i \in D :
        \/ /\ i = n1 + 1
           /\ phi[i] = n2 + 1
        \/ /\ i \in 1 .. n1 /\ phi[i] \in 1 .. n2
           /\ m1[i].stop # 0 /\ m1[i].stop \in D
           /\ m2[phi[i]].stop = phi[m1[i].stop]
        \/ \E j \in D : j > i /\ s1[i] = s1[j] /\ s2[phi[i]] = s2[phi[j]]
  BY DEF InStep
<1> HIDE DEF s1, s2
<1>6. ASSUME NEW i \in 1 .. n1 + 1, \A j \in i + 1 .. n1 + 1 : j \in S PROVE i \in S
  <2>1. SUFFICES ASSUME i \in D PROVE Tracks(D, phi, s1[i], s2[phi[i]])
    OBVIOUS
  <2>2. CASE i = n1 + 1 /\ phi[i] = n2 + 1
    <3>1. s1[i] = <<>> /\ s2[phi[i]] = <<>> /\ Len(<<>>) = 0
      BY <1>1, <2>2
    <3>2. Tracks(D, phi, <<>>, <<>>)
      BY <3>1 DEF Tracks
    <3> QED BY <3>1, <3>2
  <2>3. ASSUME NEW j \in D, j > i, s1[i] = s1[j], s2[phi[i]] = s2[phi[j]]
        PROVE  Tracks(D, phi, s1[i], s2[phi[i]])
    <3>1. j \in i + 1 .. n1 + 1
      BY <2>3
    <3>2. Tracks(D, phi, s1[j], s2[phi[j]])
      BY <3>1, <1>6
    <3> QED BY <3>2, <2>3
  <2>4. CASE /\ i \in 1 .. n1 /\ phi[i] \in 1 .. n2
             /\ m1[i].stop # 0 /\ m1[i].stop \in D
             /\ m2[phi[i]].stop = phi[m1[i].stop]
    <3> DEFINE j == m1[i].stop
               a == s1[j]
               b == s2[phi[j]]
    <3>1. /\ j \in i + 1 .. n1 + 1 /\ j \in D /\ phi[j] \in 1 .. n2 + 1
          /\ s1[i] = <<i>> \o a /\ s2[phi[i]] = <<phi[i]>> \o b
      <4>1. phi[j] \in 1 .. n2 + 1 /\ phi[j] # 0 /\ m2[phi[i]].stop = phi[j]
        <5>1. j \in D /\ m2[phi[i]].stop = phi[j]
          BY <2>4, Zenon
        <5>2. phi[j] \in 1 .. n2 + 1
          BY <5>1, Zenon
        <5>3. \A x \in 1 .. n2 + 1 : x # 0
          OBVIOUS
        <5> QED BY <5>1, <5>2, <5>3, Zenon
      <4>2. j \in i + 1 .. n1 + 1 /\ s1[i] = <<i>> \o a
        BY <2>4, <1>2
      <4>3. s2[phi[i]] = <<phi[i]>> \o b
        BY <4>1, <2>4, <1>3
      <4> QED BY <4>1, <4>2, <4>3, <2>4
    <3>2. Tracks(D, phi, a, b)
      BY <3>1, <1>6
    <3>3. a \in Seq(1 .. n1) /\ b \in Seq(1 .. n2)
      BY <3>1, <1>4
    <3>4. /\ Len(s1[i]) = Len(a) + 1 /\ s1[i][1] = i
          /\ \A k \in 1 .. Len(a) + 1 : k = 1 \/ (k - 1 \in 1 .. Len(a) /\ s1[i][k] = a[k - 1])
      <4>1. i \in 1 .. n1 /\ s1[i] = <<i>> \o a /\ a \in Seq(1 .. n1)
        BY <2>4, <3>1, <3>3, Zenon
      <4> HIDE DEF a
      <4>2. /\ Len(<<i>> \o a) = Len(a) + 1 /\ (<<i>> \o a)[1] = i
            /\ \A k \in 1 .. Len(a) + 1 :
                 k = 1 \/ (k - 1 \in 1 .. Len(a) /\ (<<i>> \o a)[k] = a[k - 1])
        BY <4>1, Prefixed
      <4> QED BY <4>1, <4>2, Zenon
    <3>5. /\ Len(s2[phi[i]]) = Len(b) + 1 /\ s2[phi[i]][1] = phi[i]
          /\ \A k \in 1 .. Len(b) + 1 : k = 1 \/ (k - 1 \in 1 .. Len(b) /\ s2[phi[i]][k] = b[k - 1])
      <4>1. phi[i] \in 1 .. n2 /\ s2[phi[i]] = <<phi[i]>> \o b /\ b \in Seq(1 .. n2)
        BY <2>4, <3>1, <3>3, Zenon
      <4> HIDE DEF b
      <4>2. /\ Len(<<phi[i]>> \o b) = Len(b) + 1 /\ (<<phi[i]>> \o b)[1] = phi[i]
            /\ \A k \in 1 .. Len(b) + 1 :
                 k = 1 \/ (k - 1 \in 1 .. Len(b) /\ (<<phi[i]>> \o b)[k] = b[k - 1])
        BY <4>1, Prefixed
      <4> QED BY <4>1, <4>2, Zenon
    <3>6. Len(a) \in Nat /\ Len(b) = Len(a)
      BY <3>2, <3>3 DEF Tracks
    <3>7. ASSUME NEW k \in 1 .. Len(s1[i]) PROVE s1[i][k] \in D /\ s2[phi[i]][k] = phi[s1[i][k]]
      <4>1. CASE k = 1
        BY <4>1, <2>1, <3>4, <3>5
      <4>2. CASE k # 1
        <5>1. k - 1 \in 1 .. Len(a) /\ s1[i][k] = a[k - 1] /\ s2[phi[i]][k] = b[k - 1]
          BY <4>2, <3>4, <3>5, <3>6
        <5>2. a[k - 1] \in D /\ b[k - 1] = phi[a[k - 1]]
          BY <5>1, <3>2 DEF Tracks
        <5> QED BY <5>1, <5>2
      <4> QED BY <4>1, <4>2
    <3> QED BY <3>4, <3>5, <3>6, <3>7 DEF Tracks
  <2> QED BY <2>1, <2>2, <2>3, <2>4, <1>5
<1> HIDE DEF S
<1>7. \A i \in 1 .. n1 + 1 : i \in S
  <2>1. 1 \in Int /\ n1 + 1 \in Int
    OBVIOUS
  <2>2. \A i \in 1 .. n1 + 1 : (\A j \in i + 1 .. n1 + 1 : j \in S) => i \in S
    BY <1>6
  <2> QED BY <2>1, <2>2, DownTo, Zenon
<1> QED BY <1>7 DEF s1, s2, S

-----------------------------------------------------------------------------
(* A text in which the word after a FROM or JOIN is replaced: the places   *)
(* from s to e - 1 of x are the places from s to f - 1 of y.               *)
Replaced(x, s, e, y, f) ==
  /\ x \in Seq(Tokens) /\ y \in Seq(Tokens)
  /\ s \in 2 .. Len(x) /\ e \in s + 1 .. Len(x) + 1 /\ f \in s + 1 .. Len(y) + 1
  /\ Len(y) - f = Len(x) - e
  /\ \A i \in 1 .. s - 1 : y[i] = x[i]
  /\ \A i \in e .. Len(x) : y[i + (f - e)] = x[i]
  /\ x[s - 1] \in FromOrJoin
  /\ x[s] \in Heads /\ WordStop(x, s) = e /\ \A i \in s .. e - 1 : x[i] \in Heads \union Tails
  /\ y[s] \in Heads /\ WordStop(y, s) = f /\ \A i \in s .. f - 1 : y[i] \in Heads \union Tails

Moved(s, e, f, i) == IF i < s THEN i ELSE i + (f - e)
Outside(s, e) == Int \ (s .. e - 1)

LEMMA SeqOfTokens ==
  ASSUME NEW T, NEW x \in Seq(T)
  PROVE  Len(x) \in Nat /\ DOMAIN x = 1 .. Len(x) /\ \A i \in 1 .. Len(x) : x[i] \in T
OBVIOUS

LEMMA ReplacedBack ==
  ASSUME NEW x, NEW s, NEW e, NEW y, NEW f, Replaced(x, s, e, y, f)
  PROVE  Replaced(y, s, f, x, e)
<1>1. /\ x \in Seq(Tokens) /\ y \in Seq(Tokens)
      /\ s \in 2 .. Len(x) /\ e \in s + 1 .. Len(x) + 1 /\ f \in s + 1 .. Len(y) + 1
      /\ Len(y) - f = Len(x) - e
      /\ \A i \in 1 .. s - 1 : y[i] = x[i]
      /\ \A i \in e .. Len(x) : y[i + (f - e)] = x[i]
      /\ x[s - 1] \in FromOrJoin
      /\ x[s] \in Heads /\ WordStop(x, s) = e /\ \A i \in s .. e - 1 : x[i] \in Heads \union Tails
      /\ y[s] \in Heads /\ WordStop(y, s) = f /\ \A i \in s .. f - 1 : y[i] \in Heads \union Tails
  BY DEF Replaced
<1>2. Len(x) \in Nat /\ Len(y) \in Nat
  BY <1>1, SeqOfTokens
<1>3. s \in Int /\ e \in Int /\ f \in Int
  BY <1>1, <1>2
<1>4. s \in 2 .. Len(y) /\ f \in s + 1 .. Len(y) + 1 /\ e \in s + 1 .. Len(x) + 1
      /\ Len(x) - e = Len(y) - f
  BY <1>1, <1>2, <1>3
<1>5. s - 1 \in 1 .. s - 1
  BY <1>1, <1>2, <1>3
<1>6. y[s - 1] \in FromOrJoin
  BY <1>1, <1>5
<1>7. ASSUME NEW i \in f .. Len(y) PROVE x[i + (e - f)] = y[i]
  <2>1. i + (e - f) \in e .. Len(x) /\ i + (e - f) + (f - e) = i
    BY <1>1, <1>2, <1>3
  <2> QED BY <2>1, <1>1
<1>8. \A i \in 1 .. s - 1 : x[i] = y[i]
  BY <1>1
<1> QED BY <1>1, <1>4, <1>6, <1>7, <1>8 DEF Replaced

LEMMA TokenMoved ==
  ASSUME NEW x, NEW s, NEW e, NEW y, NEW f, Replaced(x, s, e, y, f), NEW i \in Outside(s, e)
  PROVE  /\ Moved(s, e, f, i) \in Outside(s, f)
         /\ Moved(s, f, e, Moved(s, e, f, i)) = i
         /\ i \in DOMAIN x <=> Moved(s, e, f, i) \in DOMAIN y
         /\ i \in DOMAIN x => y[Moved(s, e, f, i)] = x[i]
         /\ \A T : IsToken(y, Moved(s, e, f, i), T) <=> IsToken(x, i, T)
         /\ i # s - 1 => /\ i + 1 \in Outside(s, e)
                         /\ Moved(s, e, f, i + 1) = Moved(s, e, f, i) + 1
<1> DEFINE j == Moved(s, e, f, i)
<1>1. /\ x \in Seq(Tokens) /\ y \in Seq(Tokens)
      /\ s \in 2 .. Len(x) /\ e \in s + 1 .. Len(x) + 1 /\ f \in s + 1 .. Len(y) + 1
      /\ Len(y) - f = Len(x) - e
      /\ \A k \in 1 .. s - 1 : y[k] = x[k]
      /\ \A k \in e .. Len(x) : y[k + (f - e)] = x[k]
  BY DEF Replaced
<1>2. /\ Len(x) \in Nat /\ DOMAIN x = 1 .. Len(x)
      /\ Len(y) \in Nat /\ DOMAIN y = 1 .. Len(y)
  BY <1>1, SeqOfTokens
<1>3. s \in Int /\ e \in Int /\ f \in Int /\ i \in Int /\ (i < s \/ i >= e) /\ s < e /\ s < f
  BY <1>1, <1>2 DEF Outside
<1>4. j = (IF i < s THEN i ELSE i + (f - e))
  BY DEF Moved
<1>5. j \in Int /\ (j < s \/ j >= f)
  BY <1>3, <1>4
<1>6. Moved(s, f, e, j) = i
  BY <1>3, <1>4 DEF Moved
<1>7. i \in DOMAIN x <=> j \in DOMAIN y
  BY <1>1, <1>2, <1>3, <1>4
<1>8. i \in DOMAIN x => y[j] = x[i]
  <2>1. CASE i < s
    BY <2>1, <1>1, <1>2, <1>3, <1>4
  <2>2. CASE i >= e
    <3>1. j = i + (f - e)
      BY <2>2, <1>3, <1>4
    <3>2. i \in DOMAIN x => i \in e .. Len(x)
      BY <2>2, <1>2, <1>3
    <3> QED BY <3>1, <3>2, <1>1
  <2> QED BY <2>1, <2>2, <1>3
<1>9. i # s - 1 => i + 1 \in Outside(s, e) /\ Moved(s, e, f, i + 1) = j + 1
  BY <1>3, <1>4 DEF Outside, Moved
<1>10. \A T : IsToken(y, j, T) <=> IsToken(x, i, T)
  BY <1>7, <1>8 DEF IsToken
<1>11. j \in Outside(s, f)
  BY <1>3, <1>5 DEF Outside
<1> QED BY <1>6, <1>7, <1>8, <1>9, <1>10, <1>11

LEMMA Kinds ==
  /\ FromOrJoin \subseteq Heads
  /\ "as" \in Heads \ FromOrJoin /\ "limit" \in Heads \ FromOrJoin
  /\ \A t \in Heads \union Tails :
       t \notin DOMAIN Numeral /\ t \notin Quotes /\ t \notin Signs
  /\ \A t \in Heads : t \notin Tails
  /\ \A t \in DOMAIN Numeral : t \notin Quotes /\ t \notin Signs
  /\ "=" \in Signs /\ "." \in Signs /\ "," \in Signs /\ \A q \in Quotes : q \notin Signs
<1>1. FromOrJoin \subseteq Heads /\ "as" \in Heads \ FromOrJoin /\ "limit" \in Heads \ FromOrJoin
  BY TokenAssumption DEF FromOrJoin
<1>2. \A t \in Heads \union Tails : t \notin DOMAIN Numeral /\ t \notin Quotes /\ t \notin Signs
  BY TokenAssumption, Zenon
<1>3. \A t \in Heads : t \notin Tails
  BY TokenAssumption, Zenon
<1>4. \A t \in DOMAIN Numeral : t \notin Quotes /\ t \notin Signs
  BY TokenAssumption, Zenon
<1>5. "=" \in Signs /\ "." \in Signs /\ "," \in Signs /\ \A q \in Quotes : q \notin Signs
  BY DEF Signs, Quotes
<1> QED BY <1>1, <1>2, <1>3, <1>4, <1>5

LEMMA WordStopMoved ==
  ASSUME NEW x, NEW s, NEW e, NEW y, NEW f, Replaced(x, s, e, y, f),
         NEW i \in Outside(s, e), i # s - 1
  PROVE  /\ WordStop(x, i) \in Outside(s, e)
         /\ WordStop(y, Moved(s, e, f, i)) = Moved(s, e, f, WordStop(x, i))
         /\ WordStop(x, i) \in {i + 1, i + 2}
<1> DEFINE M(k) == Moved(s, e, f, k)
<1>1. i + 1 \in Outside(s, e) /\ M(i + 1) = M(i) + 1
  BY TokenMoved
<1>2. IsToken(y, M(i + 1), Tails) <=> IsToken(x, i + 1, Tails)
  BY <1>1, TokenMoved
<1>3. i \in Int /\ M(i) \in Int
  BY TokenMoved DEF Outside
<1>4. CASE IsToken(x, i + 1, Tails)
  <2>1. x[s - 1] \in FromOrJoin
    BY DEF Replaced
  <2>2. i + 1 # s - 1
    <3>1. x[i + 1] \in Tails
      BY <1>4 DEF IsToken
    <3> QED BY <3>1, <2>1, Kinds
  <2>3. i + 1 + 1 \in Outside(s, e) /\ M(i + 1 + 1) = M(i + 1) + 1
    BY <1>1, <2>2, TokenMoved
  <2>4. i + 1 + 1 = i + 2 /\ M(i) + 1 + 1 = M(i) + 2
    BY <1>3
  <2>5. WordStop(x, i) = i + 2 /\ WordStop(y, M(i)) = M(i) + 2
    BY <1>1, <1>2, <1>4 DEF WordStop
  <2> QED BY <1>1, <2>3, <2>4, <2>5
<1>5. CASE ~ IsToken(x, i + 1, Tails)
  <2>1. WordStop(x, i) = i + 1 /\ WordStop(y, M(i)) = M(i) + 1
    BY <1>1, <1>2, <1>5 DEF WordStop
  <2> QED BY <1>1, <2>1
<1> QED BY <1>4, <1>5

LEMMA SubSeqPlaces ==
  ASSUME NEW T, NEW x \in Seq(T), NEW i \in Nat, NEW j \in Int,
         i >= 1, i <= j, j <= Len(x) + 1
  PROVE  SubSeq(x, i, j - 1) = [k \in 1 .. j - i |-> x[i + k - 1]]
OBVIOUS

(* What lies on one side of the word is the same text.                     *)
LEMMA TextMoved ==
  ASSUME NEW x, NEW s, NEW e, NEW y, NEW f, Replaced(x, s, e, y, f),
         NEW i \in Outside(s, e), NEW j \in Outside(s, e),
         i >= 1, i <= j, j <= Len(x) + 1, j <= s - 1 \/ i >= e
  PROVE  TextOf(y, Moved(s, e, f, i), Moved(s, e, f, j)) = TextOf(x, i, j)
<1> DEFINE M(k) == Moved(s, e, f, k)
<1>1. /\ x \in Seq(Tokens) /\ y \in Seq(Tokens)
      /\ s \in 2 .. Len(x) /\ e \in s + 1 .. Len(x) + 1 /\ f \in s + 1 .. Len(y) + 1
      /\ Len(y) - f = Len(x) - e
  BY DEF Replaced
<1>2. Len(x) \in Nat /\ Len(y) \in Nat /\ DOMAIN x = 1 .. Len(x)
  BY <1>1, SeqOfTokens
<1>3. i \in Int /\ j \in Int /\ s \in Int /\ e \in Int /\ f \in Int
  BY <1>1, <1>2 DEF Outside
<1>4. M(i) >= 1 /\ M(j) - M(i) = j - i /\ M(j) <= Len(y) + 1 /\ M(i) \in Int /\ M(j) \in Int
  BY <1>1, <1>2, <1>3 DEF Moved, Outside
<1>5. ASSUME NEW k \in 1 .. j - i PROVE y[M(i) + k - 1] = x[i + k - 1]
  <2>1. i + k - 1 \in Outside(s, e) /\ M(i + k - 1) = M(i) + k - 1
    BY <1>1, <1>2, <1>3 DEF Moved, Outside
  <2>2. i + k - 1 \in DOMAIN x
    BY <1>2, <1>3
  <2> QED BY <2>1, <2>2, TokenMoved
<1>6. SubSeq(y, M(i), M(j) - 1) = SubSeq(x, i, j - 1)
  <2> DEFINE a == SubSeq(x, i, j - 1)
             b == SubSeq(y, M(i), M(j) - 1)
  <2>1. a = [k \in 1 .. j - i |-> x[i + k - 1]]
    BY <1>1, <1>3, SubSeqPlaces
  <2>2. b = [k \in 1 .. j - i |-> y[M(i) + k - 1]]
    <3> HIDE DEF M
    <3>1. M(i) \in Nat /\ M(i) <= M(j)
      BY <1>3, <1>4
    <3>2. b = [k \in 1 .. M(j) - M(i) |-> y[M(i) + k - 1]]
      <4>1. y \in Seq(Tokens)
        BY <1>1
      <4>2. M(i) >= 1 /\ M(j) <= Len(y) + 1 /\ M(i) <= M(j) /\ M(i) \in Nat /\ M(j) \in Int
        BY <1>4, <3>1
      <4>3. SubSeq(y, M(i), M(j) - 1) = [k \in 1 .. M(j) - M(i) |-> y[M(i) + k - 1]]
        BY <4>1, <4>2, SubSeqPlaces
      <4> QED BY <4>3
    <3> QED BY <3>2, <1>4
  <2>3. [k \in 1 .. j - i |-> x[i + k - 1]] = [k \in 1 .. j - i |-> y[M(i) + k - 1]]
    BY <1>5
  <2> QED BY <2>1, <2>2, <2>3
<1> QED BY <1>6 DEF TextOf

LEMMA WordMoved ==
  ASSUME NEW x, NEW s, NEW e, NEW y, NEW f, Replaced(x, s, e, y, f),
         NEW i \in Outside(s, e), i # s - 1, i \in DOMAIN x
  PROVE  WordAt(y, Moved(s, e, f, i)) = WordAt(x, i)
<1> DEFINE stop == WordStop(x, i)
<1>1. x \in Seq(Tokens) /\ s \in 2 .. Len(x) /\ e \in s + 1 .. Len(x) + 1
  BY DEF Replaced
<1>2. Len(x) \in Nat /\ DOMAIN x = 1 .. Len(x)
  BY <1>1, SeqOfTokens
<1>3. stop \in Outside(s, e) /\ WordStop(y, Moved(s, e, f, i)) = Moved(s, e, f, stop)
  BY WordStopMoved
<1>4. stop >= 1 /\ i <= stop /\ stop <= Len(x) + 1 /\ stop <= i + 2
  BY <1>2 DEF WordStop, IsToken
<1>5. stop <= s - 1 \/ i >= e
  BY <1>1, <1>2, <1>3, <1>4 DEF Outside
<1> HIDE DEF stop
<1>6. TextOf(y, Moved(s, e, f, i), Moved(s, e, f, stop)) = TextOf(x, i, stop)
  <2>1. i >= 1
    BY <1>2
  <2> QED BY <1>3, <1>4, <1>5, <2>1, TextMoved
<1> QED BY <1>3, <1>6 DEF WordAt, stop

(* The parts of a table match after the name.                              *)
AliasName(x, next) ==
  IF IsWord(x, AliasAt(x, next)) THEN WordAt(x, AliasAt(x, next)) ELSE NoValue
AliasStop(x, next) ==
  IF IsWord(x, AliasAt(x, next)) THEN WordStop(x, AliasAt(x, next)) ELSE next
Refers(x, i) == IsToken(x, i, FromOrJoin) /\ IsWord(x, i + 1)

LEMMA TableAtParts ==
  ASSUME NEW x, NEW i
  PROVE  TableAt(x, i) =
           IF ~ Refers(x, i) THEN NoMatch
           ELSE [name |-> WordAt(x, i + 1), tokenStart |-> i + 1, tokenEnd |-> WordStop(x, i + 1),
                 alias |-> AliasName(x, WordStop(x, i + 1)), stop |-> AliasStop(x, WordStop(x, i + 1))]
BY DEF TableAt, Refers, FromOrJoin, AliasName, AliasStop

LEMMA AliasMoved ==
  ASSUME NEW x, NEW s, NEW e, NEW y, NEW f, Replaced(x, s, e, y, f),
         NEW i \in Outside(s, e), i # s - 1, AliasAt(x, i) # s - 1
  PROVE  /\ AliasName(y, Moved(s, e, f, i)) = AliasName(x, i)
         /\ AliasStop(y, Moved(s, e, f, i)) = Moved(s, e, f, AliasStop(x, i))
         /\ AliasStop(x, i) \in Outside(s, e)
<1> DEFINE M(k) == Moved(s, e, f, k)
           a == AliasAt(x, i)
<1>1. i + 1 \in Outside(s, e) /\ M(i + 1) = M(i) + 1
  BY TokenMoved
<1>2. /\ IsToken(y, M(i), {"as"}) <=> IsToken(x, i, {"as"})
      /\ IsWord(y, M(i + 1)) <=> IsWord(x, i + 1)
  BY <1>1, TokenMoved DEF IsWord
<1>3. a \in Outside(s, e) /\ AliasAt(y, M(i)) = M(a)
  BY <1>1, <1>2 DEF AliasAt
<1> HIDE DEF a
<1>4. IsWord(y, M(a)) <=> IsWord(x, a)
  BY <1>3, TokenMoved DEF IsWord
<1>5. WordStop(x, a) \in Outside(s, e) /\ WordStop(y, M(a)) = M(WordStop(x, a))
  BY <1>3, WordStopMoved DEF a
<1>6. ASSUME IsWord(x, a) PROVE WordAt(y, M(a)) = WordAt(x, a)
  <2>1. a \in DOMAIN x
    BY <1>6 DEF IsWord, IsToken
  <2> QED BY <1>3, <2>1, WordMoved DEF a
<1> QED BY <1>3, <1>4, <1>5, <1>6 DEF AliasName, AliasStop, a

LEMMA WordFacts ==
  ASSUME NEW x \in Seq(Tokens), NEW i \in Int, IsWord(x, i)
  PROVE  i \in 1 .. Len(x) /\ WordStop(x, i) \in i + 1 .. Len(x) + 1
BY SeqOfTokens DEF IsWord, IsToken, WordStop

LEMMA AliasFacts ==
  ASSUME NEW x \in Seq(Tokens), NEW i \in 1 .. Len(x) + 1
  PROVE  /\ AliasAt(x, i) \in {i, i + 1}
         /\ AliasStop(x, i) \in i .. Len(x) + 1
         /\ IsWord(x, AliasAt(x, i)) => AliasStop(x, i) > AliasAt(x, i)
         /\ IsWord(x, i) => AliasStop(x, i) > i
<1>1. AliasAt(x, i) \in {i, i + 1} /\ AliasAt(x, i) \in Int /\ (IsWord(x, i) => IsWord(x, AliasAt(x, i)))
  BY DEF AliasAt
<1>2. IsWord(x, AliasAt(x, i)) => WordStop(x, AliasAt(x, i)) \in AliasAt(x, i) + 1 .. Len(x) + 1
  BY <1>1, WordFacts
<1>3. Len(x) \in Nat
  OBVIOUS
<1> QED BY <1>1, <1>2, <1>3 DEF AliasStop

LEMMA TableFacts ==
  ASSUME NEW x \in Seq(Tokens), NEW i \in 1 .. Len(x)
  PROVE  /\ Refers(x, i) <=> TableAt(x, i).stop # 0
         /\ Refers(x, i) => /\ TableAt(x, i).stop = AliasStop(x, WordStop(x, i + 1))
                            /\ WordStop(x, i + 1) \in i + 2 .. Len(x) + 1
                            /\ TableAt(x, i).stop \in WordStop(x, i + 1) .. Len(x) + 1
         /\ ~ Refers(x, i) => TableAt(x, i).stop = 0
<1>1. CASE ~ Refers(x, i)
  <2>1. TableAt(x, i).stop = 0
    BY <1>1, TableAtParts DEF NoMatch
  <2> QED BY <1>1, <2>1
<1>2. CASE Refers(x, i)
  <2>1. TableAt(x, i).stop = AliasStop(x, WordStop(x, i + 1))
    BY <1>2, TableAtParts
  <2>2. Len(x) \in Nat /\ i + 1 \in Int /\ IsWord(x, i + 1)
    BY <1>2 DEF Refers
  <2>3. WordStop(x, i + 1) \in i + 1 + 1 .. Len(x) + 1
    BY <2>2, WordFacts
  <2>4. WordStop(x, i + 1) \in 1 .. Len(x) + 1
    BY <2>2, <2>3
  <2>5. AliasStop(x, WordStop(x, i + 1)) \in WordStop(x, i + 1) .. Len(x) + 1
    BY <2>4, AliasFacts
  <2> QED BY <1>2, <2>1, <2>2, <2>3, <2>5
<1> QED BY <1>1, <1>2

LEMMA TablesStopAhead ==
  ASSUME NEW x \in Seq(Tokens)
  PROVE  StopsAhead(Len(x), [i \in DOMAIN x |-> TableAt(x, i)])
<1>1. Len(x) \in Nat /\ DOMAIN x = 1 .. Len(x)
  OBVIOUS
<1>2. ASSUME NEW i \in 1 .. Len(x)
      PROVE  TableAt(x, i).stop = 0 \/ TableAt(x, i).stop \in i + 1 .. Len(x) + 1
  BY <1>1, TableFacts
<1> QED BY <1>1, <1>2 DEF StopsAhead

(* A match that lies on one side of the name is the same match.            *)
LEMMA TableMoved ==
  ASSUME NEW x, NEW s, NEW e, NEW y, NEW f, Replaced(x, s, e, y, f),
         NEW i \in Outside(s, e), i # s - 1, i \in DOMAIN x,
         i >= e \/ TableAt(x, i).stop <= s - 1
  PROVE  /\ TableAt(x, i).stop = 0 => TableAt(y, Moved(s, e, f, i)).stop = 0
         /\ TableAt(x, i).stop # 0 =>
              /\ TableAt(x, i).stop \in Outside(s, e)
              /\ TableAt(y, Moved(s, e, f, i)).stop = Moved(s, e, f, TableAt(x, i).stop)
              /\ TableAt(y, Moved(s, e, f, i)).name = TableAt(x, i).name
              /\ TableAt(y, Moved(s, e, f, i)).alias = TableAt(x, i).alias
              /\ i < s => /\ TableAt(y, i).tokenStart = TableAt(x, i).tokenStart
                          /\ TableAt(y, i).tokenEnd = TableAt(x, i).tokenEnd
<1> DEFINE M(k) == Moved(s, e, f, k)
           next == WordStop(x, i + 1)
<1>1. x \in Seq(Tokens) /\ s \in 2 .. Len(x) /\ e \in s + 1 .. Len(x) + 1 /\ x[s - 1] \in FromOrJoin
  BY DEF Replaced
<1>2. Len(x) \in Nat /\ DOMAIN x = 1 .. Len(x) /\ i \in 1 .. Len(x)
  BY <1>1, SeqOfTokens
<1>3. i + 1 \in Outside(s, e) /\ M(i + 1) = M(i) + 1
  BY TokenMoved
<1>4. Refers(y, M(i)) <=> Refers(x, i)
  BY <1>3, TokenMoved DEF Refers, IsWord
<1>5. CASE ~ Refers(x, i)
  <2>1. TableAt(x, i).stop = 0
    BY <1>5, <1>1, <1>2, TableFacts
  <2>2. TableAt(y, M(i)).stop = 0
    BY <1>4, <1>5, TableAtParts DEF NoMatch
  <2> QED BY <2>1, <2>2
<1>6. CASE Refers(x, i)
  <2>1. /\ TableAt(x, i).stop # 0
        /\ TableAt(x, i).stop = AliasStop(x, next)
        /\ next \in i + 2 .. Len(x) + 1
    BY <1>1, <1>2, <1>6, TableFacts
  <2>2. /\ AliasAt(x, next) \in {next, next + 1}
        /\ AliasStop(x, next) \in next .. Len(x) + 1
        /\ IsWord(x, AliasAt(x, next)) => AliasStop(x, next) > AliasAt(x, next)
        /\ IsWord(x, next) => AliasStop(x, next) > next
    <3>1. next \in 1 .. Len(x) + 1
      BY <1>2, <2>1
    <3> QED BY <1>1, <3>1, AliasFacts
  <2>3. s - 1 \in DOMAIN x /\ IsWord(x, s - 1)
    <3>1. s - 1 \in DOMAIN x
      BY <1>1, <1>2
    <3>2. x[s - 1] \in Heads
      BY <1>1, Kinds, Zenon
    <3> QED BY <3>1, <3>2 DEF IsWord, IsToken
  <2>4. i + 1 # s - 1 /\ next # s - 1 /\ AliasAt(x, next) # s - 1
    <3> HIDE DEF next
    <3>1. CASE i >= e
      BY <3>1, <1>1, <1>2, <2>1, <2>2
    <3>2. CASE AliasStop(x, next) <= s - 1
      BY <3>2, <1>1, <1>2, <2>1, <2>2, <2>3
    <3> QED BY <3>1, <3>2, <2>1
  <2>5. next \in Outside(s, e) /\ WordStop(y, M(i + 1)) = M(next)
    BY <1>3, <2>4, WordStopMoved
  <2>6. WordAt(y, M(i + 1)) = WordAt(x, i + 1)
    <3>1. i + 1 \in DOMAIN x
      BY <1>6 DEF Refers, IsWord, IsToken
    <3> QED BY <1>3, <2>4, <3>1, WordMoved
  <2>7. /\ AliasName(y, M(next)) = AliasName(x, next)
        /\ AliasStop(y, M(next)) = M(AliasStop(x, next))
        /\ AliasStop(x, next) \in Outside(s, e)
    BY <2>4, <2>5, AliasMoved
  <2>8. /\ TableAt(x, i).name = WordAt(x, i + 1) /\ TableAt(x, i).alias = AliasName(x, next)
        /\ TableAt(x, i).tokenStart = i + 1 /\ TableAt(x, i).tokenEnd = next
    BY <1>6, TableAtParts
  <2>9. /\ TableAt(y, M(i)).name = WordAt(y, M(i) + 1)
        /\ TableAt(y, M(i)).alias = AliasName(y, WordStop(y, M(i) + 1))
        /\ TableAt(y, M(i)).stop = AliasStop(y, WordStop(y, M(i) + 1))
        /\ TableAt(y, M(i)).tokenStart = M(i) + 1
        /\ TableAt(y, M(i)).tokenEnd = WordStop(y, M(i) + 1)
    BY <1>4, <1>6, TableAtParts
  <2>10. i < s => M(i) = i /\ (AliasStop(x, next) <= s - 1) /\ M(next) = next
    BY <1>1, <1>2, <2>1, <2>2 DEF Moved
  <2> QED BY <1>3, <2>1, <2>5, <2>6, <2>7, <2>8, <2>9, <2>10
<1> QED BY <1>5, <1>6

(* The table whose name is replaced.                                       *)
LEMMA TableReplaced ==
  ASSUME NEW x, NEW s, NEW e, NEW y, NEW f, Replaced(x, s, e, y, f)
  PROVE  /\ s - 1 \in 1 .. Len(x) /\ s - 1 \in Outside(s, e) /\ Moved(s, e, f, s - 1) = s - 1
         /\ Refers(x, s - 1)
         /\ TableAt(x, s - 1).stop # 0
         /\ TableAt(x, s - 1).stop >= e /\ TableAt(x, s - 1).stop \in Outside(s, e)
         /\ TableAt(y, s - 1).stop = Moved(s, e, f, TableAt(x, s - 1).stop)
         /\ TableAt(y, s - 1).name = TextOf(y, s, f)
         /\ TableAt(y, s - 1).alias = TableAt(x, s - 1).alias
<1>1. /\ x \in Seq(Tokens) /\ y \in Seq(Tokens)
      /\ s \in 2 .. Len(x) /\ e \in s + 1 .. Len(x) + 1 /\ f \in s + 1 .. Len(y) + 1
      /\ x[s - 1] \in FromOrJoin
      /\ x[s] \in Heads /\ WordStop(x, s) = e
      /\ y[s] \in Heads /\ WordStop(y, s) = f
      /\ \A i \in 1 .. s - 1 : y[i] = x[i]
  BY DEF Replaced
<1>2. /\ Len(x) \in Nat /\ DOMAIN x = 1 .. Len(x)
      /\ Len(y) \in Nat /\ DOMAIN y = 1 .. Len(y)
  BY <1>1, SeqOfTokens
<1>3. s \in Int /\ e \in Int /\ f \in Int /\ s - 1 + 1 = s /\ s < e /\ s < f /\ s - 1 \in 1 .. s - 1
  BY <1>1, <1>2
<1>4. s - 1 \in 1 .. Len(x) /\ s - 1 \in Outside(s, e) /\ Moved(s, e, f, s - 1) = s - 1
  BY <1>1, <1>2, <1>3 DEF Outside, Moved
<1>5. s \in DOMAIN x /\ s \in DOMAIN y /\ s - 1 \in DOMAIN y /\ y[s - 1] = x[s - 1]
  BY <1>1, <1>2, <1>3
<1>6. Refers(x, s - 1) /\ Refers(y, s - 1)
  BY <1>1, <1>2, <1>3, <1>4, <1>5 DEF Refers, IsToken, IsWord
<1>7. /\ TableAt(x, s - 1).stop = AliasStop(x, e) /\ TableAt(x, s - 1).alias = AliasName(x, e)
      /\ TableAt(y, s - 1).stop = AliasStop(y, f) /\ TableAt(y, s - 1).alias = AliasName(y, f)
      /\ TableAt(y, s - 1).name = WordAt(y, s)
  BY <1>1, <1>3, <1>6, TableAtParts
<1>8. e \in Outside(s, e) /\ e # s - 1 /\ Moved(s, e, f, e) = f /\ e \in 1 .. Len(x) + 1
  BY <1>1, <1>2, <1>3 DEF Outside, Moved
<1>9. AliasAt(x, e) \in {e, e + 1} /\ AliasStop(x, e) \in e .. Len(x) + 1
  BY <1>1, <1>8, AliasFacts
<1>10. AliasAt(x, e) # s - 1
  BY <1>3, <1>9
<1>11. /\ AliasName(y, f) = AliasName(x, e)
       /\ AliasStop(y, f) = Moved(s, e, f, AliasStop(x, e))
       /\ AliasStop(x, e) \in Outside(s, e)
  BY <1>8, <1>10, AliasMoved
<1>12. AliasStop(x, e) # 0 /\ AliasStop(x, e) >= e
  BY <1>1, <1>2, <1>3, <1>9
<1>13. WordAt(y, s) = TextOf(y, s, f)
  BY <1>1 DEF WordAt
<1> QED BY <1>4, <1>6, <1>7, <1>11, <1>12, <1>13

LEMMA ChainedOrder ==
  ASSUME NEW n \in Nat, NEW matches, StopsAhead(n, matches), NEW i \in 1 .. n + 1,
         NEW b \in 1 .. Len(Starts(n, matches)[i]), NEW a \in 1 .. b - 1
  PROVE  matches[Starts(n, matches)[i][a]].stop <= Starts(n, matches)[i][b]
<1> DEFINE s == Starts(n, matches)[i]
           S == {c \in 1 .. b - 1 : matches[s[c]].stop <= s[b]}
<1>1. s \in Seq(1 .. n) /\ Chained(matches, i, s)
  BY StartsType
<1> HIDE DEF s
<1>2. Len(s) \in Nat /\ b \in 1 .. Len(s)
  BY <1>1 DEF s
<1>3. \A c \in 1 .. Len(s) : s[c] \in 1 .. n /\ matches[s[c]].stop \in s[c] + 1 .. n + 1
  BY <1>1 DEF Chained, StopsAhead
<1>4. ASSUME NEW c \in 1 .. b - 1, \A d \in c + 1 .. b - 1 : d \in S PROVE c \in S
  <2>1. c \in 1 .. Len(s) /\ c < Len(s) /\ c + 1 \in 1 .. Len(s)
    BY <1>2
  <2>2. matches[s[c]].stop <= s[c + 1]
    BY <2>1, <1>1 DEF Chained
  <2>3. CASE c = b - 1
    BY <2>2, <2>3, <1>2
  <2>4. CASE c # b - 1
    <3>1. c + 1 \in c + 1 .. b - 1
      BY <2>4, <1>2
    <3>2. matches[s[c + 1]].stop <= s[b]
      BY <3>1, <1>4
    <3>3. /\ s[c + 1] \in Int /\ s[b] \in Int /\ matches[s[c]].stop \in Int
          /\ matches[s[c + 1]].stop \in Int /\ matches[s[c + 1]].stop > s[c + 1]
      BY <2>1, <1>2, <1>3
    <3> QED BY <2>2, <3>2, <3>3
  <2> QED BY <2>3, <2>4
<1> HIDE DEF S
<1>5. \A c \in 1 .. b - 1 : c \in S
  <2>1. 1 \in Int /\ b - 1 \in Int
    BY <1>2
  <2>2. \A c \in 1 .. b - 1 : (\A d \in c + 1 .. b - 1 : d \in S) => c \in S
    BY <1>4
  <2> QED BY <2>1, <2>2, DownTo, Zenon
<1> QED BY <1>5 DEF s, S

TableMatches(x) == [i \in DOMAIN x |-> TableAt(x, i)]
TableStarts(x) == Starts(Len(x), TableMatches(x))

(* The tables are found at the same places, moved.                         *)
LEMMA TableStartsReplaced ==
  ASSUME NEW x, NEW s, NEW e, NEW y, NEW f, Replaced(x, s, e, y, f),
         NEW k \in 1 .. Len(TableStarts(x)[1]), TableStarts(x)[1][k] = s - 1
  PROVE  /\ Len(TableStarts(y)[1]) = Len(TableStarts(x)[1])
         /\ \A j \in 1 .. Len(TableStarts(x)[1]) :
              /\ TableStarts(x)[1][j] \in Outside(s, e)
              /\ TableStarts(y)[1][j] = Moved(s, e, f, TableStarts(x)[1][j])
<1> DEFINE n1 == Len(x)
           n2 == Len(y)
           m1 == TableMatches(x)
           m2 == TableMatches(y)
           s1 == TableStarts(x)
           s2 == TableStarts(y)
           M(i) == Moved(s, e, f, i)
           Leads(i) == \E j \in 1 .. Len(s1[i]) : s1[i][j] = s - 1
           D == {i \in 1 .. n1 + 1 : i \in Outside(s, e) /\ (i >= e \/ Leads(i))}
           phi == [i \in D |-> M(i)]
<1>1. /\ x \in Seq(Tokens) /\ y \in Seq(Tokens)
      /\ s \in 2 .. n1 /\ e \in s + 1 .. n1 + 1 /\ f \in s + 1 .. n2 + 1
      /\ n2 - f = n1 - e
  BY DEF Replaced
<1>2. /\ n1 \in Nat /\ n2 \in Nat /\ DOMAIN x = 1 .. n1 /\ DOMAIN y = 1 .. n2
  BY <1>1, SeqOfTokens
<1>3. StopsAhead(n1, m1) /\ StopsAhead(n2, m2)
  BY <1>1, TablesStopAhead DEF TableMatches
<1>4. /\ \A i \in 1 .. n1 : m1[i] = TableAt(x, i)
      /\ \A i \in 1 .. n2 : m2[i] = TableAt(y, i)
  BY <1>2 DEF TableMatches
<1>5. \A i \in 1 .. n1 + 1 : s1[i] \in Seq(1 .. n1) /\ Chained(m1, i, s1[i])
  BY <1>2, <1>3, StartsType DEF TableStarts
<1>6. /\ s1[n1 + 1] = <<>>
      /\ \A i \in 1 .. n1 :
           /\ i + 1 \in 1 .. n1 + 1
           /\ m1[i].stop = 0 => s1[i] = s1[i + 1]
           /\ m1[i].stop # 0 => /\ m1[i].stop \in i + 1 .. n1 + 1
                                /\ m1[i].stop \in 1 .. n1 + 1
                                /\ s1[i] = <<i>> \o s1[m1[i].stop]
  BY <1>2, <1>3, StartsCases DEF TableStarts
<1>7. \A i \in 1 .. n2 : m2[i].stop = 0 => s2[i] = s2[i + 1]
  BY <1>2, <1>3, StartsCases DEF TableStarts
<1>8. D \in SUBSET (1 .. n1 + 1)
  OBVIOUS
<1>9. \A i \in D : /\ i \in 1 .. n1 + 1 /\ i \in Outside(s, e) /\ (i >= e \/ Leads(i))
                   /\ phi[i] = M(i)
  OBVIOUS
<1>10. \A i \in 1 .. n1 + 1 : i \in Outside(s, e) /\ (i >= e \/ Leads(i)) => i \in D
  OBVIOUS
<1> HIDE DEF m1, m2, s1, s2, D, phi
<1>11. s \in Int /\ e \in Int /\ f \in Int /\ s >= 2 /\ s < e /\ s < f
  BY <1>1, <1>2
<1>12. \A i \in D : phi[i] \in 1 .. n2 + 1 /\ (i \in 1 .. n1 => phi[i] \in 1 .. n2)
                     /\ (i = n1 + 1 => phi[i] = n2 + 1)
  <2>1. \A i \in 1 .. n1 + 1 : i \in Outside(s, e) =>
          M(i) \in 1 .. n2 + 1 /\ (i \in 1 .. n1 => M(i) \in 1 .. n2) /\ (i = n1 + 1 => M(i) = n2 + 1)
    BY <1>1, <1>2, <1>11, SMTT(30) DEF Moved, Outside
  <2> QED BY <2>1, <1>9
<1>13. ASSUME NEW i \in D, i \in 1 .. n1, i >= e \/ m1[i].stop <= s - 1, i # s - 1
       PROVE  InStep(n1, m1, n2, m2, D, phi, i)
  <2>1. i \in Outside(s, e) /\ i \in DOMAIN x /\ (i >= e \/ TableAt(x, i).stop <= s - 1) /\ phi[i] = M(i)
    BY <1>2, <1>4, <1>9, <1>13
  <2>2. /\ TableAt(x, i).stop = 0 => TableAt(y, M(i)).stop = 0
        /\ TableAt(x, i).stop # 0 => /\ TableAt(x, i).stop \in Outside(s, e)
                                     /\ TableAt(y, M(i)).stop = M(TableAt(x, i).stop)
    BY <1>13, <2>1, TableMoved
  <2>3. phi[i] \in 1 .. n2 /\ m1[i] = TableAt(x, i) /\ m2[phi[i]] = TableAt(y, M(i))
    BY <1>4, <1>12, <1>13, <2>1
  <2>4. CASE m1[i].stop = 0
    <3>1. s1[i] = s1[i + 1] /\ s2[phi[i]] = s2[phi[i] + 1]
      BY <1>6, <1>7, <1>13, <2>2, <2>3, <2>4
    <3>2. i + 1 \in Outside(s, e) /\ M(i + 1) = M(i) + 1
      BY <1>13, <2>1, TokenMoved
    <3>3. i + 1 \in 1 .. n1 + 1 /\ (i >= e => i + 1 >= e)
      BY <1>2, <1>11, <1>13
    <3>4. i + 1 \in D
      BY <1>9, <1>10, <3>1, <3>2, <3>3, Zenon
    <3>5. phi[i + 1] = phi[i] + 1 /\ i + 1 > i
      BY <1>9, <1>13, <2>1, <3>2, <3>4
    <3> QED BY <3>1, <3>4, <3>5, Zenon DEF InStep, s1, s2, m1, m2, TableStarts
  <2>5. CASE m1[i].stop # 0
    <3> DEFINE j == m1[i].stop
    <3>1. j \in i + 1 .. n1 + 1 /\ j \in 1 .. n1 + 1 /\ s1[i] = <<i>> \o s1[j] /\ j \in Outside(s, e)
      BY <1>6, <1>13, <2>2, <2>3, <2>5
    <3>2. j >= e \/ Leads(j)
      <4>1. CASE i >= e
        <5>1. i \in Int /\ j \in Int /\ i < j
          BY <1>13, <3>1
        <5>2. j >= e
          BY <4>1, <5>1, <1>11
        <5> QED BY <5>2
      <4>2. CASE ~ (i >= e)
        <5>1. PICK l \in 1 .. Len(s1[i]) : s1[i][l] = s - 1
          BY <4>2, <1>9
        <5>2. s1[j] \in Seq(1 .. n1)
          BY <1>5, <3>1
        <5>3. /\ Len(s1[i]) = Len(s1[j]) + 1 /\ s1[i][1] = i
              /\ \A h \in 1 .. Len(s1[j]) + 1 :
                   h = 1 \/ (h - 1 \in 1 .. Len(s1[j]) /\ s1[i][h] = s1[j][h - 1])
          BY <1>13, <3>1, <5>2, Prefixed
        <5>4. l # 1
          BY <5>1, <5>3, <1>13
        <5>5. l - 1 \in 1 .. Len(s1[j]) /\ s1[j][l - 1] = s - 1
          BY <5>1, <5>3, <5>4
        <5> QED BY <5>5
      <4> QED BY <4>1, <4>2
    <3>3. j \in D
      BY <1>10, <3>1, <3>2, Zenon
    <3>4. m2[phi[i]].stop = phi[j]
      BY <1>9, <2>2, <2>3, <2>5, <3>3
    <3> QED BY <1>13, <2>3, <2>5, <3>3, <3>4 DEF InStep
  <2> QED BY <2>4, <2>5
<1>14. ASSUME NEW i \in D PROVE InStep(n1, m1, n2, m2, D, phi, i)
  <2>1. CASE i = n1 + 1
    BY <2>1, <1>12 DEF InStep
  <2>2. CASE i # n1 + 1 /\ i # s - 1
    <3>1. i \in 1 .. n1
      BY <1>2, <1>9, <2>2
    <3>2. ASSUME ~ (i >= e) PROVE m1[i].stop <= s - 1
      <4>1. PICK l \in 1 .. Len(s1[i]) : s1[i][l] = s - 1
        BY <3>2, <1>9
      <4>2. CASE m1[i].stop = 0
        BY <4>2, <1>11
      <4>3. CASE m1[i].stop # 0
        <5> DEFINE j == m1[i].stop
        <5>1. j \in i + 1 .. n1 + 1 /\ j \in 1 .. n1 + 1 /\ s1[i] = <<i>> \o s1[j]
          BY <1>6, <3>1, <4>3
        <5>2. s1[j] \in Seq(1 .. n1) /\ Chained(m1, j, s1[j])
          BY <1>5, <5>1
        <5>3. /\ Len(s1[i]) = Len(s1[j]) + 1 /\ s1[i][1] = i
              /\ \A h \in 1 .. Len(s1[j]) + 1 :
                   h = 1 \/ (h - 1 \in 1 .. Len(s1[j]) /\ s1[i][h] = s1[j][h - 1])
          BY <3>1, <5>1, <5>2, Prefixed
        <5>4. l # 1
          BY <4>1, <5>3, <2>2
        <5>5. l - 1 \in 1 .. Len(s1[j]) /\ s1[j][l - 1] = s - 1
          BY <4>1, <5>3, <5>4
        <5>6. s1[j][l - 1] >= j
          BY <5>2, <5>5 DEF Chained
        <5> QED BY <5>5, <5>6
      <4> QED BY <4>2, <4>3
    <3> QED BY <3>1, <3>2, <2>2, <1>13
  <2>3. CASE i = s - 1
    <3>1. /\ s - 1 \in 1 .. n1 /\ M(s - 1) = s - 1
          /\ TableAt(x, s - 1).stop # 0
          /\ TableAt(x, s - 1).stop >= e /\ TableAt(x, s - 1).stop \in Outside(s, e)
          /\ TableAt(y, s - 1).stop = M(TableAt(x, s - 1).stop)
      BY TableReplaced
    <3>2. phi[i] = i /\ phi[i] \in 1 .. n2 /\ i \in 1 .. n1
      BY <1>9, <1>12, <2>3, <3>1
    <3>3. m1[i] = TableAt(x, i) /\ m2[phi[i]] = TableAt(y, i)
      BY <1>4, <3>2
    <3>4. m1[i].stop # 0 /\ m1[i].stop \in 1 .. n1 + 1
      BY <1>6, <2>3, <3>1, <3>2, <3>3
    <3>5. m1[i].stop \in D
      BY <1>10, <2>3, <3>1, <3>3, <3>4
    <3>6. m2[phi[i]].stop = phi[m1[i].stop]
      BY <1>9, <2>3, <3>1, <3>3, <3>5
    <3> QED BY <3>2, <3>4, <3>5, <3>6 DEF InStep
  <2> QED BY <2>1, <2>2, <2>3
<1>15. \A i \in D : Tracks(D, phi, s1[i], s2[phi[i]])
  <2>1. \A i \in D : phi[i] \in 1 .. n2 + 1
    BY <1>12
  <2>2. \A i \in D : InStep(n1, m1, n2, m2, D, phi, i)
    BY <1>14
  <2> QED BY <1>2, <1>3, <1>8, <2>1, <2>2, ScanTransfer DEF s1, s2, m1, m2, TableStarts
<1>16. 1 \in D /\ phi[1] = 1
  <2>1. 1 \in 1 .. n1 + 1 /\ 1 \in Outside(s, e) /\ M(1) = 1
    BY <1>2, <1>11 DEF Outside, Moved
  <2>2. Leads(1)
    BY DEF s1
  <2> QED BY <1>9, <1>10, <2>1, <2>2
<1>17. Tracks(D, phi, s1[1], s2[1])
  BY <1>15, <1>16
<1> QED
  <2>1. Len(s2[1]) = Len(s1[1]) /\ \A j \in 1 .. Len(s1[1]) : s1[1][j] \in D /\ s2[1][j] = phi[s1[1][j]]
    BY <1>17 DEF Tracks
  <2> QED BY <2>1, <1>9 DEF s1, s2

LEMMA FindIterPlaces ==
  ASSUME NEW x \in Seq(Tokens), NEW matches, StopsAhead(Len(x), matches)
  PROVE  /\ FindIter(x, matches) = [k \in 1 .. Len(Starts(Len(x), matches)[1]) |->
                                      matches[Starts(Len(x), matches)[1][k]]]
         /\ Len(FindIter(x, matches)) = Len(Starts(Len(x), matches)[1])
         /\ DOMAIN FindIter(x, matches) = 1 .. Len(FindIter(x, matches))
         /\ Len(FindIter(x, matches)) \in Nat
         /\ \A k \in 1 .. Len(FindIter(x, matches)) :
              /\ FindIter(x, matches)[k] = matches[Starts(Len(x), matches)[1][k]]
              /\ Starts(Len(x), matches)[1][k] \in 1 .. Len(x)
              /\ matches[Starts(Len(x), matches)[1][k]].stop # 0
<1> DEFINE s == Starts(Len(x), matches)[1]
<1>1. Len(x) \in Nat /\ 1 \in 1 .. Len(x) + 1
  OBVIOUS
<1>2. s \in Seq(1 .. Len(x)) /\ Chained(matches, 1, s)
  BY <1>1, StartsType
<1>3. FindIter(x, matches) = [k \in DOMAIN s |-> matches[s[k]]]
  BY Zenon DEF FindIter
<1> HIDE DEF s
<1>4. Len(s) \in Nat /\ DOMAIN s = 1 .. Len(s)
  BY <1>2
<1>5. FindIter(x, matches) = [k \in 1 .. Len(s) |-> matches[s[k]]]
  BY <1>3, <1>4, Zenon
<1>6. DOMAIN FindIter(x, matches) = 1 .. Len(s) /\ \A k \in 1 .. Len(s) : FindIter(x, matches)[k] = matches[s[k]]
  BY <1>5
<1>7. Len(FindIter(x, matches)) = Len(s)
  BY <1>4, <1>5
<1>8. \A k \in 1 .. Len(s) : s[k] \in 1 .. Len(x) /\ matches[s[k]].stop # 0
  BY <1>2 DEF Chained
<1> QED BY <1>4, <1>5, <1>6, <1>7, <1>8 DEF s

LEMMA TablesPlaces ==
  ASSUME NEW x \in Seq(Tokens)
  PROVE  /\ Len(TablesOf(x)) = Len(TableStarts(x)[1])
         /\ Len(TablesOf(x)) \in Nat
         /\ DOMAIN TablesOf(x) = 1 .. Len(TablesOf(x))
         /\ \A k \in 1 .. Len(TablesOf(x)) :
              LET i == TableStarts(x)[1][k]
              IN /\ i \in 1 .. Len(x)
                 /\ Refers(x, i)
                 /\ TablesOf(x)[k] = TableAt(x, i)
                 /\ TablesOf(x)[k].tokenStart = i + 1
                 /\ TablesOf(x)[k].tokenEnd = WordStop(x, i + 1)
                 /\ TablesOf(x)[k].name = WordAt(x, i + 1)
                 /\ TableAt(x, i).stop \in i + 1 .. Len(x) + 1
<1> DEFINE m == TableMatches(x)
<1>1. StopsAhead(Len(x), m)
  BY TablesStopAhead DEF TableMatches
<1>2. \A i \in 1 .. Len(x) : m[i] = TableAt(x, i)
  BY SeqOfTokens DEF TableMatches
<1>3. TablesOf(x) = FindIter(x, m) /\ TableStarts(x) = Starts(Len(x), m)
  BY DEF TablesOf, TableMatches, TableStarts
<1> HIDE DEF m
<1>4. /\ Len(TablesOf(x)) = Len(TableStarts(x)[1])
      /\ DOMAIN TablesOf(x) = 1 .. Len(TablesOf(x))
      /\ Len(TablesOf(x)) \in Nat
      /\ \A k \in 1 .. Len(TablesOf(x)) :
           /\ TablesOf(x)[k] = m[TableStarts(x)[1][k]]
           /\ TableStarts(x)[1][k] \in 1 .. Len(x)
           /\ m[TableStarts(x)[1][k]].stop # 0
  BY <1>1, <1>3, FindIterPlaces
<1>5. ASSUME NEW k \in 1 .. Len(TablesOf(x)), NEW i, i = TableStarts(x)[1][k]
      PROVE  /\ i \in 1 .. Len(x)
             /\ Refers(x, i)
             /\ TablesOf(x)[k] = TableAt(x, i)
             /\ TablesOf(x)[k].tokenStart = i + 1
             /\ TablesOf(x)[k].tokenEnd = WordStop(x, i + 1)
             /\ TablesOf(x)[k].name = WordAt(x, i + 1)
             /\ TableAt(x, i).stop \in i + 1 .. Len(x) + 1
  <2>1. i \in 1 .. Len(x) /\ TablesOf(x)[k] = TableAt(x, i) /\ TableAt(x, i).stop # 0
    BY <1>2, <1>4, <1>5
  <2>2. Refers(x, i)
    BY <2>1, TableFacts
  <2>3. TableAt(x, i).stop \in i + 1 .. Len(x) + 1
    BY <1>1, <1>2, <2>1 DEF StopsAhead
  <2>4. /\ TableAt(x, i).tokenStart = i + 1 /\ TableAt(x, i).tokenEnd = WordStop(x, i + 1)
        /\ TableAt(x, i).name = WordAt(x, i + 1)
    BY <2>2, TableAtParts
  <2> QED BY <2>1, <2>2, <2>3, <2>4
<1> QED BY <1>4, <1>5

LEMMA TablesReplaced ==
  ASSUME NEW x, NEW s, NEW e, NEW y, NEW f, Replaced(x, s, e, y, f),
         NEW k \in DOMAIN TablesOf(x), TablesOf(x)[k].tokenStart = s
  PROVE  /\ Len(TablesOf(y)) = Len(TablesOf(x))
         /\ TablesOf(y)[k].name = TextOf(y, s, f)
         /\ \A j \in DOMAIN TablesOf(x) :
              /\ TablesOf(y)[j].alias = TablesOf(x)[j].alias
              /\ j # k => TablesOf(y)[j].name = TablesOf(x)[j].name
              /\ j < k => /\ TablesOf(y)[j].tokenStart = TablesOf(x)[j].tokenStart
                          /\ TablesOf(y)[j].tokenEnd = TablesOf(x)[j].tokenEnd
<1> DEFINE n == Len(TablesOf(x))
           t == TableStarts(x)[1]
           u == TableStarts(y)[1]
           M(i) == Moved(s, e, f, i)
<1>1. /\ x \in Seq(Tokens) /\ y \in Seq(Tokens)
      /\ s \in 2 .. Len(x) /\ e \in s + 1 .. Len(x) + 1 /\ f \in s + 1 .. Len(y) + 1
  BY DEF Replaced
<1>2. /\ Len(x) \in Nat /\ DOMAIN x = 1 .. Len(x) /\ s \in Int /\ e \in Int /\ f \in Int /\ s < e
      /\ Len(y) \in Nat
  BY <1>1, SeqOfTokens
<1>3. /\ n = Len(t) /\ n \in Nat /\ DOMAIN TablesOf(x) = 1 .. n
      /\ \A j \in 1 .. n :
           /\ t[j] \in 1 .. Len(x)
           /\ TablesOf(x)[j] = TableAt(x, t[j])
           /\ TablesOf(x)[j].tokenStart = t[j] + 1
           /\ TableAt(x, t[j]).stop \in t[j] + 1 .. Len(x) + 1
  BY <1>1, TablesPlaces
<1>4. t[k] = s - 1
  BY <1>2, <1>3
<1>5. /\ Len(u) = n
      /\ \A j \in 1 .. n : t[j] \in Outside(s, e) /\ u[j] = M(t[j])
  BY <1>3, <1>4, TableStartsReplaced
<1>6. /\ Len(TablesOf(y)) = Len(u)
      /\ \A j \in 1 .. Len(TablesOf(y)) : TablesOf(y)[j] = TableAt(y, u[j])
  BY <1>1, TablesPlaces
<1>7. \A b \in 1 .. n : \A a \in 1 .. b - 1 : TableAt(x, t[a]).stop <= t[b]
  <2> DEFINE m == TableMatches(x)
  <2>1. StopsAhead(Len(x), m)
    BY <1>1, TablesStopAhead DEF TableMatches
  <2>2. \A i \in 1 .. Len(x) : m[i] = TableAt(x, i)
    BY <1>2 DEF TableMatches
  <2>3. 1 \in 1 .. Len(x) + 1
    BY <1>2
  <2>4. \A b \in 1 .. n : \A a \in 1 .. b - 1 : m[t[a]].stop <= t[b]
    BY <1>2, <1>3, <2>1, <2>3, ChainedOrder DEF TableStarts
  <2>5. \A b \in 1 .. n : \A a \in 1 .. b - 1 : m[t[a]] = TableAt(x, t[a])
    BY <2>2, <1>3
  <2> QED BY <2>4, <2>5
<1> HIDE DEF n, t, u
<1>8. /\ TableAt(x, s - 1).stop >= e
      /\ M(s - 1) = s - 1
      /\ TableAt(y, s - 1).name = TextOf(y, s, f)
      /\ TableAt(y, s - 1).alias = TableAt(x, s - 1).alias
  BY TableReplaced
<1>9. TablesOf(y)[k] = TableAt(y, s - 1) /\ TablesOf(x)[k] = TableAt(x, s - 1)
  BY <1>3, <1>4, <1>5, <1>6, <1>8
<1>10. ASSUME NEW j \in 1 .. n, j # k
       PROVE  /\ TablesOf(y)[j].alias = TablesOf(x)[j].alias
              /\ TablesOf(y)[j].name = TablesOf(x)[j].name
              /\ j < k => /\ TablesOf(y)[j].tokenStart = TablesOf(x)[j].tokenStart
                          /\ TablesOf(y)[j].tokenEnd = TablesOf(x)[j].tokenEnd
  <2>1. /\ t[j] \in 1 .. Len(x) /\ t[j] \in Outside(s, e) /\ t[j] \in DOMAIN x
        /\ TableAt(x, t[j]).stop # 0
        /\ TableAt(x, t[j]).stop \in Int
        /\ TablesOf(x)[j] = TableAt(x, t[j]) /\ TablesOf(y)[j] = TableAt(y, M(t[j]))
        /\ k \in 1 .. n
    <3>1. /\ t[j] \in 1 .. Len(x) /\ TableAt(x, t[j]).stop \in t[j] + 1 .. Len(x) + 1
          /\ k \in 1 .. n /\ TablesOf(x)[j] = TableAt(x, t[j])
      BY <1>3
    <3>2. TableAt(x, t[j]).stop # 0 /\ TableAt(x, t[j]).stop \in Int
      BY <3>1, <1>2
    <3> QED BY <3>1, <3>2, <1>2, <1>5, <1>6
  <2>2. j < k => TableAt(x, t[j]).stop <= s - 1 /\ t[j] < s - 1
    <3>1. SUFFICES ASSUME j < k PROVE TableAt(x, t[j]).stop <= s - 1 /\ t[j] < s - 1
      OBVIOUS
    <3>2. j \in 1 .. k - 1
      BY <2>1, <3>1, <1>3
    <3>3. TableAt(x, t[j]).stop <= t[k]
      BY <2>1, <3>2, <1>7
    <3>4. TableAt(x, t[j]).stop \in t[j] + 1 .. Len(x) + 1
      BY <1>3
    <3> QED BY <3>3, <3>4, <2>1, <1>2, <1>4
  <2>3. ~ (j < k) => t[j] >= e
    <3>1. SUFFICES ASSUME ~ (j < k) PROVE t[j] >= e
      OBVIOUS
    <3>2. k \in 1 .. j - 1
      BY <2>1, <3>1, <1>3, <1>10
    <3>3. TableAt(x, t[k]).stop <= t[j]
      BY <3>2, <1>7
    <3>4. TableAt(x, t[k]).stop \in Int
      BY <1>2, <1>3, <2>1
    <3> QED BY <3>3, <3>4, <2>1, <1>2, <1>4, <1>8
  <2>4. t[j] # s - 1 /\ (t[j] >= e \/ TableAt(x, t[j]).stop <= s - 1) /\ (j < k => t[j] < s)
    BY <2>1, <2>2, <2>3, <1>2
  <2>5. /\ TableAt(y, M(t[j])).name = TableAt(x, t[j]).name
        /\ TableAt(y, M(t[j])).alias = TableAt(x, t[j]).alias
        /\ t[j] < s => /\ TableAt(y, t[j]).tokenStart = TableAt(x, t[j]).tokenStart
                       /\ TableAt(y, t[j]).tokenEnd = TableAt(x, t[j]).tokenEnd
    BY <2>1, <2>4, TableMoved
  <2>6. t[j] < s => M(t[j]) = t[j]
    BY DEF Moved
  <2> QED BY <2>1, <2>4, <2>5, <2>6
<1> QED
  <2>1. Len(TablesOf(y)) = Len(TablesOf(x))
    BY <1>5, <1>6 DEF n
  <2> QED BY <2>1, <1>3, <1>8, <1>9, <1>10, SMTT(30)

-----------------------------------------------------------------------------
(* A splice replaces the name of a table.                                  *)
LEMMA ConcatPlaces ==
  ASSUME NEW T, NEW a \in Seq(T), NEW b \in Seq(T)
  PROVE  /\ a \o b \in Seq(T)
         /\ Len(a \o b) = Len(a) + Len(b)
         /\ \A i \in 1 .. Len(a) : (a \o b)[i] = a[i]
         /\ \A i \in 1 .. Len(b) : (a \o b)[Len(a) + i] = b[i]
OBVIOUS

LEMMA JoinedPlaces ==
  ASSUME NEW T, NEW a \in Seq(T), NEW w \in Seq(T), NEW b \in Seq(T), NEW y, y = (a \o w) \o b
  PROVE  /\ y \in Seq(T)
         /\ Len(y) = Len(a) + Len(w) + Len(b)
         /\ \A i \in 1 .. Len(a) : y[i] = a[i]
         /\ \A i \in 1 .. Len(w) : y[Len(a) + i] = w[i]
         /\ \A i \in 1 .. Len(b) : y[Len(a) + Len(w) + i] = b[i]
<1>1. /\ a \o w \in Seq(T)
      /\ Len(a \o w) = Len(a) + Len(w)
      /\ \A i \in 1 .. Len(a) : (a \o w)[i] = a[i]
      /\ \A i \in 1 .. Len(w) : (a \o w)[Len(a) + i] = w[i]
  BY ConcatPlaces
<1>2. PICK c \in Seq(T) : c = a \o w
  BY <1>1
<1>3. /\ y \in Seq(T)
      /\ Len(y) = Len(c) + Len(b)
      /\ \A i \in 1 .. Len(c) : y[i] = c[i]
      /\ \A i \in 1 .. Len(b) : y[Len(c) + i] = b[i]
  BY <1>2, ConcatPlaces
<1>4. /\ Len(c) = Len(a) + Len(w)
      /\ \A i \in 1 .. Len(a) : c[i] = a[i]
      /\ \A i \in 1 .. Len(w) : c[Len(a) + i] = w[i]
  BY <1>1, <1>2
<1>5. Len(a) \in Nat /\ Len(b) \in Nat /\ Len(w) \in Nat
  OBVIOUS
<1>6. ASSUME NEW i \in 1 .. Len(a) PROVE y[i] = a[i]
  <2>1. i \in 1 .. Len(c)
    BY <1>4, <1>5
  <2> QED BY <2>1, <1>3, <1>4
<1>7. ASSUME NEW i \in 1 .. Len(w) PROVE y[Len(a) + i] = w[i]
  <2>1. Len(a) + i \in 1 .. Len(c)
    BY <1>4, <1>5
  <2> QED BY <2>1, <1>3, <1>4
<1> QED BY <1>3, <1>4, <1>6, <1>7

LEMMA SubSeqFacts ==
  ASSUME NEW T, NEW x \in Seq(T), NEW i \in Nat, NEW j \in Int,
         i >= 1, i <= j + 1, j <= Len(x)
  PROVE  /\ SubSeq(x, i, j) \in Seq(T)
         /\ Len(SubSeq(x, i, j)) = j - i + 1
         /\ \A k \in 1 .. j - i + 1 : SubSeq(x, i, j)[k] = x[i + k - 1]
OBVIOUS

LEMMA WordTokens ==
  ASSUME NEW w \in Words
  PROVE  /\ w \in Seq(Tokens)
         /\ Len(w) \in {1, 2}
         /\ w[1] \in Heads
         /\ Len(w) = 2 => w[2] \in Tails
<1>1. CASE \E h \in Heads : w = <<h>>
  BY <1>1 DEF Tokens
<1>2. CASE \E h \in Heads, t \in Tails : w = <<h, t>>
  <2>1. PICK h \in Heads, t \in Tails : w = <<h, t>>
    BY <1>2
  <2>2. h \in Tokens /\ t \in Tokens
    BY DEF Tokens
  <2> QED BY <2>1, <2>2
<1> QED BY <1>1, <1>2 DEF Words

LEMMA SpliceReplaces ==
  ASSUME NEW x, WellFormed(x), NEW s \in Int, Refers(x, s - 1),
         NEW p \in DOMAIN Spelling,
         NEW table, table.tokenStart = s, table.tokenEnd = WordStop(x, s),
         NEW y, y = Splice(x, table, p)
  PROVE  /\ Replaced(x, s, WordStop(x, s), y, s + Len(Spelling[p]))
         /\ TextOf(y, s, s + Len(Spelling[p])) = p
         /\ WellFormed(y)
<1> DEFINE e == WordStop(x, s)
           w == Spelling[p]
           f == s + Len(w)
<1>1. x \in Seq(Tokens) /\ \A i \in DOMAIN x : IsToken(x, i, Tails) => IsWord(x, i - 1)
  BY DEF WellFormed
<1>2. Len(x) \in Nat /\ DOMAIN x = 1 .. Len(x)
  BY <1>1, SeqOfTokens
<1>3. w \in Words /\ Joined(w) = p
  BY SpellingAssumption
<1>4. w \in Seq(Tokens) /\ Len(w) \in {1, 2} /\ w[1] \in Heads /\ (Len(w) = 2 => w[2] \in Tails)
  BY <1>3, WordTokens
<1>5. s - 1 \in 1 .. Len(x) /\ x[s - 1] \in FromOrJoin /\ s \in 1 .. Len(x) /\ x[s] \in Heads /\ IsWord(x, s)
  <2>1. s - 1 + 1 = s
    OBVIOUS
  <2> QED BY <2>1, <1>2 DEF Refers, IsToken, IsWord
<1>6. s \in 2 .. Len(x)
  BY <1>2, <1>5
<1>7. e \in s + 1 .. Len(x) + 1
  BY <1>1, <1>5, WordFacts
<1>8. e = IF IsToken(x, s + 1, Tails) THEN s + 2 ELSE s + 1
  BY DEF WordStop
<1>9. \A i \in s .. e - 1 : x[i] \in Heads \union Tails
  <2>1. IsToken(x, s + 1, Tails) => x[s + 1] \in Tails
    BY DEF IsToken
  <2> QED BY <2>1, <1>2, <1>5, <1>7, <1>8
<1>10. e \in DOMAIN x => x[e] \notin Tails
  <2>1. CASE IsToken(x, s + 1, Tails)
    <3>1. x[s + 1] \in Tails /\ e = s + 2
      BY <2>1, <1>8 DEF IsToken
    <3>2. x[s + 1] \notin Heads
      BY <3>1, Kinds
    <3>3. e - 1 = s + 1
      BY <3>1
    <3>4. ~ IsWord(x, e - 1)
      BY <3>2, <3>3 DEF IsWord, IsToken
    <3> QED BY <3>4, <1>1 DEF IsToken
  <2>2. CASE ~ IsToken(x, s + 1, Tails)
    BY <2>2, <1>8 DEF IsToken
  <2> QED BY <2>1, <2>2
<1> HIDE DEF e, w
<1>11. /\ y \in Seq(Tokens)
       /\ Len(y) = s - 1 + Len(w) + Len(x) - e + 1
       /\ \A i \in 1 .. s - 1 : y[i] = x[i]
       /\ \A i \in 1 .. Len(w) : y[s - 1 + i] = w[i]
       /\ \A i \in e .. Len(x) : y[i + (s + Len(w) - e)] = x[i]
  <2> DEFINE a == SubSeq(x, 1, s - 1)
             b == SubSeq(x, e, Len(x))
  <2> HIDE DEF f
  <2>0. x \in Seq(Tokens)
    BY <1>1
  <2>1. Len(x) \in Nat /\ s \in Int /\ e \in Int /\ s >= 2 /\ e >= 3 /\ s <= Len(x) /\ e <= Len(x) + 1
    BY <1>2, <1>6, <1>7
  <2>2. w \in Seq(Tokens) /\ Len(w) \in Nat
    BY <1>4, SeqOfTokens
  <2>3. /\ a \in Seq(Tokens) /\ Len(a) = s - 1 /\ \A i \in 1 .. s - 1 : a[i] = x[i]
    <3>1. /\ a \in Seq(Tokens) /\ Len(a) = s - 1 - 1 + 1 /\ \A k \in 1 .. s - 1 - 1 + 1 : a[k] = x[1 + k - 1]
      BY <2>0, <2>1, SubSeqFacts
    <3> QED BY <3>1, <2>1
  <2>4. /\ b \in Seq(Tokens) /\ Len(b) = Len(x) - e + 1 /\ \A i \in 1 .. Len(x) - e + 1 : b[i] = x[e + i - 1]
    BY <2>0, <2>1, SubSeqFacts
  <2>5. y = (a \o w) \o b
    BY DEF Splice, e, w
  <2> HIDE DEF a, b
  <2>6. /\ y \in Seq(Tokens)
        /\ Len(y) = Len(a) + Len(w) + Len(b)
        /\ \A i \in 1 .. Len(a) : y[i] = a[i]
        /\ \A i \in 1 .. Len(w) : y[Len(a) + i] = w[i]
        /\ \A i \in 1 .. Len(b) : y[Len(a) + Len(w) + i] = b[i]
    <3>1. a \in Seq(Tokens) /\ w \in Seq(Tokens) /\ b \in Seq(Tokens)
      BY <2>2, <2>3, <2>4
    <3> QED BY <3>1, <2>5, JoinedPlaces
  <2>9. /\ y \in Seq(Tokens) /\ Len(y) = s - 1 + Len(w) + Len(x) - e + 1
    BY <2>1, <2>2, <2>3, <2>4, <2>6
  <2>10. ASSUME NEW i \in 1 .. s - 1 PROVE y[i] = x[i]
    BY <2>3, <2>6
  <2>11. ASSUME NEW i \in 1 .. Len(w) PROVE y[s - 1 + i] = w[i]
    BY <2>3, <2>6
  <2>12. ASSUME NEW i \in e .. Len(x) PROVE y[i + (s + Len(w) - e)] = x[i]
    <3>1. i - e + 1 \in 1 .. Len(b) /\ e + (i - e + 1) - 1 = i
      BY <2>1, <2>4
    <3>2. i + (s + Len(w) - e) = Len(a) + Len(w) + (i - e + 1)
      BY <2>1, <2>2, <2>3
    <3>3. y[Len(a) + Len(w) + (i - e + 1)] = b[i - e + 1]
      BY <3>1, <2>6
    <3>4. b[i - e + 1] = x[i]
      BY <3>1, <2>4
    <3> QED BY <3>2, <3>3, <3>4
  <2> QED BY <2>9, <2>10, <2>11, <2>12
<1>12. Len(y) \in Nat /\ DOMAIN y = 1 .. Len(y) /\ Len(w) \in Nat /\ e \in Int /\ f \in Int
  BY <1>2, <1>4, <1>7, <1>11, SeqOfTokens
<1>13. y[s] = w[1] /\ (Len(w) = 2 => y[s + 1] = w[2])
  BY <1>4, <1>11
<1>14. f \in s + 1 .. Len(y) + 1 /\ Len(y) - f = Len(x) - e
  BY <1>2, <1>4, <1>7, <1>11, <1>12
<1>15. IsToken(y, s + 1, Tails) <=> Len(w) = 2
  <2>1. CASE Len(w) = 2
    <3>1. s + 1 \in DOMAIN y
      BY <2>1, <1>5, <1>12, <1>14
    <3> QED BY <3>1, <2>1, <1>4, <1>13 DEF IsToken
  <2>2. CASE Len(w) = 1
    <3>1. s + 1 \in DOMAIN y => e \in DOMAIN x /\ y[s + 1] = x[e]
      <4>1. SUFFICES ASSUME s + 1 \in DOMAIN y PROVE e \in DOMAIN x /\ y[s + 1] = x[e]
        OBVIOUS
      <4>2. e \in e .. Len(x) /\ e + (s + Len(w) - e) = s + 1
        <5>1. s + 1 <= Len(y) /\ f = s + 1
          BY <4>1, <2>2, <1>12
        <5>2. e <= Len(x)
          BY <5>1, <1>2, <1>12, <1>14
        <5> QED BY <5>1, <5>2, <1>2, <1>12
      <4>3. y[s + 1] = x[e]
        BY <4>2, <1>11
      <4> QED BY <4>2, <4>3, <1>2, <1>6, <1>7
    <3> QED BY <3>1, <2>2, <1>10 DEF IsToken
  <2> QED BY <2>1, <2>2, <1>4
<1>16. WordStop(y, s) = f
  BY <1>4, <1>15 DEF WordStop
<1>17. \A i \in s .. f - 1 : y[i] \in Heads \union Tails
  <2>1. ASSUME NEW i \in s .. f - 1 PROVE y[i] \in Heads \union Tails
    <3>1. i = s \/ (i = s + 1 /\ Len(w) = 2)
      <4>1. CASE Len(w) = 1
        BY <4>1
      <4>2. CASE Len(w) = 2
        BY <4>2
      <4> QED BY <4>1, <4>2, <1>4
    <3> QED BY <3>1, <1>4, <1>13
  <2> QED BY <2>1
<1>18. Replaced(x, s, e, y, f)
  <2>1. f - e = s + Len(w) - e /\ y[s] \in Heads
    BY <1>4, <1>12, <1>13
  <2>2. \A i \in e .. Len(x) : y[i + (f - e)] = x[i]
    BY <2>1, <1>11
  <2>3. WordStop(x, s) = e
    BY DEF e
  <2> HIDE DEF f
  <2> QED BY <1>1, <1>5, <1>6, <1>7, <1>9, <1>11, <1>14, <1>16, <1>17, <2>1, <2>2, <2>3 DEF Replaced
<1>19. TextOf(y, s, f) = p
  <2>1. SubSeq(y, s, f - 1) = [k \in 1 .. f - s |-> y[s + k - 1]]
    BY <1>5, <1>11, <1>12, <1>14, SubSeqPlaces
  <2>2. [k \in 1 .. f - s |-> y[s + k - 1]] = [k \in 1 .. Len(w) |-> w[k]]
    BY <1>11, <1>12, SMTT(30)
  <2>3. w = [k \in 1 .. Len(w) |-> w[k]]
    BY <1>4
  <2> QED BY <2>1, <2>2, <2>3, <1>3 DEF TextOf, w
<1>20. ASSUME NEW i \in DOMAIN y, IsToken(y, i, Tails) PROVE IsWord(y, i - 1)
  <2> DEFINE B(j) == Moved(s, f, e, j)
  <2>1. CASE i \in s .. f - 1
    <3>1. y[i] \in Tails
      BY <1>20 DEF IsToken
    <3>2. i # s
      BY <3>1, <1>4, <1>13, Kinds
    <3>3. i = s + 1
      <4>1. CASE Len(w) = 1
        BY <4>1, <2>1, <3>2
      <4>2. CASE Len(w) = 2
        BY <4>2, <2>1, <3>2
      <4> QED BY <4>1, <4>2, <1>4
    <3> QED BY <3>3, <1>4, <1>5, <1>12, <1>13, <1>14 DEF IsWord, IsToken
  <2>2. CASE i \notin s .. f - 1
    <3>1. Replaced(y, s, f, x, e)
      BY <1>18, ReplacedBack
    <3>2. i \in Outside(s, f)
      BY <2>2, <1>12 DEF Outside
    <3>3. B(i) \in DOMAIN x /\ IsToken(x, B(i), Tails) /\ B(i) \in Outside(s, e)
      BY <1>20, <3>1, <3>2, TokenMoved
    <3>4. IsWord(x, B(i) - 1)
      BY <3>3, <1>1
    <3>5. i # f
      <4>1. B(f) = e
        BY <1>12, <1>14 DEF Moved
      <4> QED BY <4>1, <3>3, <1>10 DEF IsToken
    <3>6. i - 1 \in Outside(s, f) /\ i - 1 # s - 1
      <4>1. i # s
        BY <2>2, <1>12, <1>14
      <4> QED BY <4>1, <2>2, <3>5, <1>12, <1>14 DEF Outside
    <3>7. B(i - 1) + 1 = B(i - 1 + 1) /\ B(i - 1) \in Outside(s, e)
      BY <3>1, <3>6, TokenMoved
    <3>8. B(i - 1) = B(i) - 1
      BY <3>7, <1>12 DEF Outside
    <3> QED BY <3>1, <3>4, <3>6, <3>8, TokenMoved DEF IsWord
  <2> QED BY <2>1, <2>2
<1> QED BY <1>11, <1>18, <1>19, <1>20 DEF WellFormed, e, w

-----------------------------------------------------------------------------
(* The rewriting, as an induction from the last table to the first: what   *)
(* holds of the text, and passes from r to the text with one more name     *)
(* replaced, holds of the rewritten text.                                  *)
RewriteAt(x, tables, targets, k, r) ==
  IF k > Len(tables) THEN x ELSE RewriteTable(r[k + 1], tables[k], targets[k])

Rewriting(x, tables, targets, f) ==
  f = [k \in 1 .. Len(tables) + 1 |-> RewriteAt(x, tables, targets, k, f)]

LEMMA RewriteLocal ==
  ASSUME NEW x, NEW tables, Len(tables) \in Nat, NEW targets, NEW k \in 1 .. Len(tables) + 1,
         NEW f, NEW g, \A j \in k + 1 .. Len(tables) + 1 : f[j] = g[j]
  PROVE  RewriteAt(x, tables, targets, k, f) = RewriteAt(x, tables, targets, k, g)
<1>1. CASE k > Len(tables)
  BY <1>1 DEF RewriteAt
<1>2. CASE ~ (k > Len(tables))
  <2>1. k + 1 \in k + 1 .. Len(tables) + 1
    BY <1>2
  <2> QED BY <2>1, Zenon DEF RewriteAt
<1> QED BY <1>1, <1>2

LEMMA RewriteExists ==
  ASSUME NEW x, NEW tables, Len(tables) \in Nat, NEW targets
  PROVE  \E f : Rewriting(x, tables, targets, f)
<1> DEFINE n == Len(tables)
           At(k, f) == RewriteAt(x, tables, targets, k, f)
           G(i, f) == f = [k \in i .. n + 1 |-> At(k, f)]
           S == {i \in 1 .. n + 1 : \E f : G(i, f)}
<1>1. n \in Nat
  OBVIOUS
<1>2. \A k \in 1 .. n + 1 : \A f, g : (\A j \in k + 1 .. n + 1 : f[j] = g[j]) => At(k, f) = At(k, g)
  BY RewriteLocal
<1> HIDE DEF n, At
<1>3. ASSUME NEW i \in 1 .. n + 1, NEW g, \A j \in i + 1 .. n + 1 : g[j] = At(j, g)
      PROVE  i \in S
  <2> DEFINE f == [j \in i .. n + 1 |-> IF j = i THEN At(i, g) ELSE g[j]]
  <2>1. \A j \in i + 1 .. n + 1 : f[j] = g[j]
    BY <1>1
  <2>2. f[i] = At(i, g)
    BY <1>1
  <2>3. f = [j \in i .. n + 1 |-> f[j]]
    OBVIOUS
  <2> HIDE DEF f
  <2>4. At(i, f) = At(i, g)
    BY <2>1, <1>2, Zenon
  <2>5. ASSUME NEW j \in i + 1 .. n + 1 PROVE f[j] = At(j, f)
    <3>1. j \in 1 .. n + 1 /\ \A k \in j + 1 .. n + 1 : f[k] = g[k]
      BY <1>1, <2>1
    <3>2. At(j, f) = At(j, g)
      BY <3>1, <1>2, Zenon
    <3> QED BY <3>2, <2>1, <1>3
  <2>6. \A j \in i .. n + 1 : f[j] = At(j, f)
    BY <1>1, <2>2, <2>4, <2>5
  <2>7. [j \in i .. n + 1 |-> f[j]] = [j \in i .. n + 1 |-> At(j, f)]
    BY <2>6
  <2>8. G(i, f)
    BY <2>3, <2>7
  <2> QED BY <2>8
<1>4. ASSUME NEW i \in 1 .. n + 1, \A j \in i + 1 .. n + 1 : j \in S PROVE i \in S
  <2>1. CASE i = n + 1
    <3>1. \A j \in i + 1 .. n + 1 : <<>>[j] = At(j, <<>>)
      BY <1>1, <2>1
    <3> QED BY <3>1, <1>3
  <2>2. CASE i # n + 1
    <3>1. i + 1 \in S
      BY <1>1, <1>4, <2>2
    <3>2. PICK g : G(i + 1, g)
      BY <3>1
    <3>3. \A j \in i + 1 .. n + 1 : g[j] = At(j, g)
      BY <3>2
    <3> QED BY <3>3, <1>3
  <2> QED BY <2>1, <2>2
<1> HIDE DEF S
<1>5. \A i \in 1 .. n + 1 : i \in S
  <2>1. 1 \in Int /\ n + 1 \in Int
    BY <1>1
  <2>2. \A i \in 1 .. n + 1 : (\A j \in i + 1 .. n + 1 : j \in S) => i \in S
    BY <1>4
  <2> QED BY <2>1, <2>2, DownTo, Zenon
<1>6. 1 \in S
  BY <1>1, <1>5
<1> QED BY <1>6 DEF S, At, n, Rewriting

LEMMA RewriteInduction ==
  ASSUME NEW x, NEW tables, Len(tables) \in Nat, NEW targets,
         NEW P, x \in P[Len(tables) + 1],
         \A k \in 1 .. Len(tables) : \A z \in P[k + 1] : RewriteTable(z, tables[k], targets[k]) \in P[k]
  PROVE  Rewrite(x, tables, targets) \in P[1]
<1> DEFINE n == Len(tables)
           r == CHOOSE f : Rewriting(x, tables, targets, f)
           S == {k \in 1 .. n + 1 : r[k] \in P[k]}
<1>1. Rewriting(x, tables, targets, r)
  <2>1. \E f : Rewriting(x, tables, targets, f)
    BY RewriteExists
  <2> QED BY <2>1, Zenon
<1>2. Rewrite(x, tables, targets) = r[1]
  BY Zenon DEF Rewrite, RewriteAt, Rewriting
<1> HIDE DEF r
<1>3. \A k \in 1 .. n + 1 : r[k] = RewriteAt(x, tables, targets, k, r)
  BY <1>1 DEF Rewriting
<1>4. ASSUME NEW k \in 1 .. n + 1, \A j \in k + 1 .. n + 1 : j \in S PROVE k \in S
  <2>1. CASE k = n + 1
    <3>1. k > Len(tables)
      BY <2>1
    <3>2. r[k] = x
      BY <3>1, <1>3 DEF RewriteAt
    <3> QED BY <3>2, <2>1
  <2>2. CASE k # n + 1
    <3>1. k \in 1 .. n /\ k + 1 \in k + 1 .. n + 1 /\ ~ (k > Len(tables))
      BY <2>2
    <3>2. r[k] = RewriteTable(r[k + 1], tables[k], targets[k])
      BY <3>1, <1>3 DEF RewriteAt
    <3>3. r[k + 1] \in P[k + 1]
      BY <3>1, <1>4
    <3>4. r[k] \in P[k]
      BY <3>1, <3>2, <3>3, Zenon
    <3> QED BY <3>4
  <2> QED BY <2>1, <2>2
<1> HIDE DEF S
<1>5. \A k \in 1 .. n + 1 : k \in S
  <2>1. 1 \in Int /\ n + 1 \in Int
    OBVIOUS
  <2>2. \A k \in 1 .. n + 1 : (\A j \in k + 1 .. n + 1 : j \in S) => k \in S
    BY <1>4
  <2> QED BY <2>1, <2>2, DownTo, Zenon
<1>6. 1 \in S
  BY <1>5
<1> QED BY <1>2, <1>6 DEF S

-----------------------------------------------------------------------------
(* What the rewriting keeps of the tables, when those from the k-th to the *)
(* last have their names.                                                  *)
KeepsTables(x, targets, k, z) ==
  /\ WellFormed(z)
  /\ Len(TablesOf(z)) = Len(TablesOf(x))
  /\ \A j \in DOMAIN TablesOf(x) :
       /\ TablesOf(z)[j].alias = TablesOf(x)[j].alias
       /\ j < k => /\ TablesOf(z)[j].name = TablesOf(x)[j].name
                   /\ TablesOf(z)[j].tokenStart = TablesOf(x)[j].tokenStart
                   /\ TablesOf(z)[j].tokenEnd = TablesOf(x)[j].tokenEnd
       /\ j >= k => TablesOf(z)[j].name =
                      IF targets[j].rewrite THEN targets[j].physical ELSE TablesOf(x)[j].name

LEMMA KeepsTablesStep ==
  ASSUME NEW x \in Seq(Tokens), NEW targets, NEW k \in DOMAIN TablesOf(x),
         targets[k].rewrite => targets[k].physical \in DOMAIN Spelling,
         NEW z, KeepsTables(x, targets, k + 1, z),
         NEW y, y = RewriteTable(z, TablesOf(x)[k], targets[k])
  PROVE  /\ KeepsTables(x, targets, k, y)
         /\ y = z \/ \E f : Replaced(z, TablesOf(x)[k].tokenStart, TablesOf(x)[k].tokenEnd, y, f)
<1> DEFINE n == Len(TablesOf(x))
           t == TablesOf(x)[k]
           u == TablesOf(z)[k]
<1>1. n \in Nat /\ DOMAIN TablesOf(x) = 1 .. n
  BY TablesPlaces
<1>2. /\ WellFormed(z) /\ z \in Seq(Tokens)
      /\ Len(TablesOf(z)) = n
      /\ \A j \in 1 .. n :
           /\ TablesOf(z)[j].alias = TablesOf(x)[j].alias
           /\ j < k + 1 => /\ TablesOf(z)[j].name = TablesOf(x)[j].name
                           /\ TablesOf(z)[j].tokenStart = TablesOf(x)[j].tokenStart
                           /\ TablesOf(z)[j].tokenEnd = TablesOf(x)[j].tokenEnd
           /\ j >= k + 1 => TablesOf(z)[j].name =
                              IF targets[j].rewrite THEN targets[j].physical ELSE TablesOf(x)[j].name
  BY <1>1 DEF KeepsTables, WellFormed
<1>3. DOMAIN TablesOf(z) = 1 .. n
  BY <1>2, TablesPlaces
<1>4. k \in 1 .. n /\ k < k + 1
  BY <1>1
<1>5. CASE ~ targets[k].rewrite
  <2>1. y = z
    BY <1>5 DEF RewriteTable
  <2>2. ASSUME NEW j \in 1 .. n
        PROVE  /\ TablesOf(z)[j].alias = TablesOf(x)[j].alias
               /\ j < k => /\ TablesOf(z)[j].name = TablesOf(x)[j].name
                           /\ TablesOf(z)[j].tokenStart = TablesOf(x)[j].tokenStart
                           /\ TablesOf(z)[j].tokenEnd = TablesOf(x)[j].tokenEnd
               /\ j >= k => TablesOf(z)[j].name =
                              IF targets[j].rewrite THEN targets[j].physical ELSE TablesOf(x)[j].name
    <3>1. (j < k => j < k + 1) /\ (j >= k => j = k \/ j >= k + 1)
      BY <1>1, <1>4
    <3> QED BY <3>1, <1>2, <1>4, <1>5
  <2> QED BY <2>1, <2>2, <1>1, <1>2 DEF KeepsTables
<1>6. CASE targets[k].rewrite
  <2> DEFINE s == t.tokenStart
             p == targets[k].physical
             f == s + Len(Spelling[p])
  <2>1. y = Splice(z, t, p) /\ p \in DOMAIN Spelling
    BY <1>6 DEF RewriteTable
  <2>2. s = u.tokenStart /\ t.tokenEnd = u.tokenEnd
    BY <1>2, <1>4
  <2>3. /\ s - 1 \in 1 .. Len(z) /\ s \in Int /\ Refers(z, s - 1)
        /\ u.tokenEnd = WordStop(z, s)
    <3> DEFINE i == TableStarts(z)[1][k]
    <3>1. i \in 1 .. Len(z) /\ Refers(z, i) /\ u.tokenStart = i + 1 /\ u.tokenEnd = WordStop(z, i + 1)
      BY <1>2, <1>4, TablesPlaces
    <3>2. i \in Int
      BY <3>1
    <3> HIDE DEF i, s, u
    <3>3. s = i + 1 /\ s - 1 = i
      BY <2>2, <3>1, <3>2
    <3> QED BY <3>1, <3>2, <3>3
  <2>4. /\ Replaced(z, s, WordStop(z, s), y, f)
        /\ TextOf(y, s, f) = p
        /\ WellFormed(y)
    <3> HIDE DEF s, t
    <3>1. t.tokenStart = s /\ t.tokenEnd = WordStop(z, s)
      BY <2>2, <2>3 DEF s
    <3>2. WellFormed(z) /\ s \in Int /\ Refers(z, s - 1)
      BY <1>2, <2>3
    <3>3. p \in DOMAIN Spelling /\ y = Splice(z, t, p)
      BY <2>1
    <3> HIDE DEF p
    <3>4. /\ Replaced(z, s, WordStop(z, s), y, s + Len(Spelling[p]))
          /\ TextOf(y, s, s + Len(Spelling[p])) = p
          /\ WellFormed(y)
      BY <3>1, <3>2, <3>3, SpliceReplaces
    <3> QED BY <3>4
  <2>5. /\ Len(TablesOf(y)) = Len(TablesOf(z))
        /\ TablesOf(y)[k].name = p
        /\ \A j \in DOMAIN TablesOf(z) :
             /\ TablesOf(y)[j].alias = TablesOf(z)[j].alias
             /\ j # k => TablesOf(y)[j].name = TablesOf(z)[j].name
             /\ j < k => /\ TablesOf(y)[j].tokenStart = TablesOf(z)[j].tokenStart
                         /\ TablesOf(y)[j].tokenEnd = TablesOf(z)[j].tokenEnd
    <3>1. k \in DOMAIN TablesOf(z) /\ TablesOf(z)[k].tokenStart = s
      BY <1>3, <1>4, <2>2
    <3> HIDE DEF s, f
    <3> QED BY <2>4, <3>1, TablesReplaced
  <2>6. ASSUME NEW j \in 1 .. n
        PROVE  /\ TablesOf(y)[j].alias = TablesOf(x)[j].alias
               /\ j < k => /\ TablesOf(y)[j].name = TablesOf(x)[j].name
                           /\ TablesOf(y)[j].tokenStart = TablesOf(x)[j].tokenStart
                           /\ TablesOf(y)[j].tokenEnd = TablesOf(x)[j].tokenEnd
               /\ j >= k => TablesOf(y)[j].name =
                              IF targets[j].rewrite THEN targets[j].physical ELSE TablesOf(x)[j].name
    <3>1. (j < k => j < k + 1 /\ j # k) /\ (j >= k => j = k \/ (j >= k + 1 /\ j # k)) /\ j \in DOMAIN TablesOf(z)
      BY <1>1, <1>3, <1>4
    <3> HIDE DEF s, f, t, u
    <3>2. TablesOf(y)[j].alias = TablesOf(x)[j].alias
      BY <3>1, <2>5, <1>2
    <3>3. j < k => /\ TablesOf(y)[j].name = TablesOf(x)[j].name
                   /\ TablesOf(y)[j].tokenStart = TablesOf(x)[j].tokenStart
                   /\ TablesOf(y)[j].tokenEnd = TablesOf(x)[j].tokenEnd
      BY <3>1, <2>5, <1>2, Zenon
    <3>4. j >= k => TablesOf(y)[j].name =
                      IF targets[j].rewrite THEN targets[j].physical ELSE TablesOf(x)[j].name
      BY <3>1, <2>5, <1>2, <1>6
    <3> QED BY <3>2, <3>3, <3>4
  <2>7. KeepsTables(x, targets, k, y)
    BY <2>4, <2>5, <2>6, <1>1, <1>2 DEF KeepsTables
  <2>8. \E ff : Replaced(z, s, t.tokenEnd, y, ff)
    BY <2>2, <2>3, <2>4
  <2> QED BY <2>7, <2>8
<1> QED BY <1>5, <1>6

(* A rewritten statement, of any shape, names the physical tables where    *)
(* the parser had seen the tables it was to replace, leaves the others,    *)
(* and each keeps its alias: SqlRewriteEngine.rewrite, from the last name  *)
(* to the first, whatever the lengths of the names.                        *)
THEOREM RewriteKeepsTables ==
  ASSUME NEW x, WellFormed(x), NEW targets,
         \A i \in DOMAIN TablesOf(x) : targets[i].rewrite => targets[i].physical \in DOMAIN Spelling
  PROVE  LET y == Rewrite(x, TablesOf(x), targets)
         IN /\ WellFormed(y)
            /\ Len(TablesOf(y)) = Len(TablesOf(x))
            /\ \A i \in DOMAIN TablesOf(x) :
                 /\ TablesOf(y)[i].name =
                      IF targets[i].rewrite THEN targets[i].physical ELSE TablesOf(x)[i].name
                 /\ TablesOf(y)[i].alias = TablesOf(x)[i].alias
<1> DEFINE n == Len(TablesOf(x))
           P == [k \in 1 .. n + 1 |-> {z \in Seq(Tokens) : KeepsTables(x, targets, k, z)}]
           y == Rewrite(x, TablesOf(x), targets)
<1>1. x \in Seq(Tokens)
  BY DEF WellFormed
<1>2. n \in Nat /\ DOMAIN TablesOf(x) = 1 .. n
  BY <1>1, TablesPlaces
<1>3. x \in P[n + 1]
  <2>1. \A j \in 1 .. n : ~ (j >= n + 1)
    BY <1>2
  <2>2. KeepsTables(x, targets, n + 1, x)
    BY <1>2, <2>1 DEF KeepsTables
  <2>3. n + 1 \in 1 .. n + 1
    BY <1>2
  <2> QED BY <1>1, <2>2, <2>3
<1>4. ASSUME NEW k \in 1 .. n, NEW z \in P[k + 1]
      PROVE  RewriteTable(z, TablesOf(x)[k], targets[k]) \in P[k]
  <2>1. k + 1 \in 1 .. n + 1 /\ k \in 1 .. n + 1 /\ k \in DOMAIN TablesOf(x)
    BY <1>2
  <2>2. KeepsTables(x, targets, k + 1, z)
    BY <2>1
  <2>3. KeepsTables(x, targets, k, RewriteTable(z, TablesOf(x)[k], targets[k]))
    BY <1>1, <2>1, <2>2, KeepsTablesStep
  <2>4. RewriteTable(z, TablesOf(x)[k], targets[k]) \in Seq(Tokens)
    BY <2>3 DEF KeepsTables, WellFormed
  <2> QED BY <2>1, <2>3, <2>4
<1> HIDE DEF P
<1>5. y \in P[1]
  BY <1>2, <1>3, <1>4, RewriteInduction
<1>6. KeepsTables(x, targets, 1, y)
  <2>1. 1 \in 1 .. n + 1
    BY <1>2
  <2> QED BY <2>1, <1>5 DEF P
<1>7. \A i \in 1 .. n : i >= 1
  OBVIOUS
<1> QED BY <1>2, <1>6, <1>7 DEF KeepsTables

-----------------------------------------------------------------------------
(* A scan that finds nothing from the FROM or JOIN to the end of the name, *)
(* and elsewhere the same matches, moved.                                  *)
LEMMA ScanReplaced ==
  ASSUME NEW x, NEW s, NEW e, NEW y, NEW f, Replaced(x, s, e, y, f),
         NEW m1, StopsAhead(Len(x), m1), NEW m2, StopsAhead(Len(y), m2),
         \A i \in s - 1 .. e - 1 : m1[i].stop = 0,
         \A i \in s - 1 .. f - 1 : m2[i].stop = 0,
         \A i \in DOMAIN x : i \in Outside(s, e) /\ i # s - 1 =>
           /\ m1[i].stop = 0 => m2[Moved(s, e, f, i)].stop = 0
           /\ m1[i].stop # 0 => /\ m1[i].stop \in Outside(s, e)
                                /\ m2[Moved(s, e, f, i)].stop = Moved(s, e, f, m1[i].stop)
  PROVE  /\ Len(FindIter(y, m2)) = Len(FindIter(x, m1))
         /\ \A k \in 1 .. Len(FindIter(x, m1)) : \A i : i = Starts(Len(x), m1)[1][k] =>
              /\ i \in DOMAIN x /\ i \in Outside(s, e) /\ i # s - 1
              /\ Starts(Len(y), m2)[1][k] = Moved(s, e, f, i)
              /\ FindIter(x, m1)[k] = m1[i] /\ m1[i].stop # 0
              /\ FindIter(y, m2)[k] = m2[Moved(s, e, f, i)]
<1> DEFINE n1 == Len(x)
           n2 == Len(y)
           M(i) == Moved(s, e, f, i)
           D == {i \in 1 .. n1 + 1 : i \in Outside(s, e)}
           phi == [i \in D |-> M(i)]
           s1 == Starts(n1, m1)
           s2 == Starts(n2, m2)
<1>1. /\ x \in Seq(Tokens) /\ y \in Seq(Tokens)
      /\ s \in 2 .. n1 /\ e \in s + 1 .. n1 + 1 /\ f \in s + 1 .. n2 + 1
      /\ n2 - f = n1 - e
  BY DEF Replaced
<1>2. /\ n1 \in Nat /\ n2 \in Nat /\ DOMAIN x = 1 .. n1
  BY <1>1, SeqOfTokens
<1>3. s \in Int /\ e \in Int /\ f \in Int /\ s >= 2 /\ s < e /\ s < f
  BY <1>1, <1>2
<1>4. \A i \in D : i \in 1 .. n1 + 1 /\ i \in Outside(s, e) /\ phi[i] = M(i)
  OBVIOUS
<1>5. \A i \in 1 .. n1 + 1 : i \in Outside(s, e) => i \in D
  OBVIOUS
<1>6. D \in SUBSET (1 .. n1 + 1)
  OBVIOUS
<1> HIDE DEF D, phi
<1>7. \A i \in D : phi[i] \in 1 .. n2 + 1 /\ (i \in 1 .. n1 => phi[i] \in 1 .. n2)
                     /\ (i = n1 + 1 => phi[i] = n2 + 1)
  <2>1. \A i \in 1 .. n1 + 1 : i \in Outside(s, e) =>
          M(i) \in 1 .. n2 + 1 /\ (i \in 1 .. n1 => M(i) \in 1 .. n2) /\ (i = n1 + 1 => M(i) = n2 + 1)
    <3>1. \A i \in 1 .. n1 + 1 : i \in Outside(s, e) => i \in Int /\ (i < s \/ i >= e)
      BY <1>2, <1>3 DEF Outside
    <3> QED BY <3>1, <1>1, <1>2, <1>3 DEF Moved
  <2> QED BY <2>1, <1>4
<1>8. /\ \A i \in 1 .. n1 : m1[i].stop = 0 => s1[i] = s1[i + 1]
      /\ \A i \in 1 .. n1 : m1[i].stop # 0 => m1[i].stop \in 1 .. n1 + 1
      /\ \A i \in 1 .. n2 : m2[i].stop = 0 => s2[i] = s2[i + 1]
  BY <1>2, StartsCases
<1>9. s1[s - 1] = s1[e] /\ s2[s - 1] = s2[f]
  <2>1. /\ s - 1 \in 1 .. n1 + 1 /\ e \in s - 1 .. n1 + 1
        /\ s - 1 \in 1 .. n2 + 1 /\ f \in s - 1 .. n2 + 1
    BY <1>1, <1>2, <1>3
  <2> QED BY <2>1, <1>2, StartsSkip
<1> HIDE DEF s1, s2
<1>10. ASSUME NEW i \in D PROVE InStep(n1, m1, n2, m2, D, phi, i)
  <2>1. CASE i = n1 + 1
    BY <2>1, <1>7 DEF InStep
  <2>2. CASE i = s - 1
    <3>1. e \in D /\ s - 1 \in D
      BY <1>1, <1>2, <1>3, <1>5 DEF Outside
    <3>2. phi[s - 1] = s - 1 /\ phi[e] = f
      <4>1. M(s - 1) = s - 1 /\ M(e) = f
        BY <1>3 DEF Moved
      <4> QED BY <4>1, <3>1, <1>4
    <3>3. e > i
      BY <2>2, <1>3
    <3> QED BY <2>2, <3>1, <3>2, <3>3, <1>9 DEF InStep, s1, s2
  <2>3. CASE i # n1 + 1 /\ i # s - 1
    <3>1. i \in 1 .. n1 /\ i \in Outside(s, e) /\ i \in DOMAIN x
      BY <1>2, <1>4, <2>3
    <3>2. phi[i] = M(i) /\ phi[i] \in 1 .. n2
      BY <1>4, <1>7, <3>1
    <3>3. CASE m1[i].stop = 0
      <4>1. m2[phi[i]].stop = 0
        BY <2>3, <3>1, <3>2, <3>3
      <4>2. s1[i] = s1[i + 1] /\ s2[phi[i]] = s2[phi[i] + 1]
        BY <1>8, <3>1, <3>2, <3>3, <4>1
      <4>3. i + 1 \in Outside(s, e) /\ M(i + 1) = M(i) + 1
        BY <2>3, <3>1, TokenMoved
      <4>4. i + 1 \in D /\ i + 1 > i
        BY <1>2, <1>5, <3>1, <4>3
      <4>5. phi[i + 1] = phi[i] + 1
        BY <1>4, <3>2, <4>3, <4>4
      <4> QED BY <4>2, <4>4, <4>5, Zenon DEF InStep, s1, s2
    <3>4. CASE m1[i].stop # 0
      <4> DEFINE j == m1[i].stop
      <4>1. j \in 1 .. n1 + 1 /\ j \in Outside(s, e) /\ m2[phi[i]].stop = M(j)
        BY <1>8, <2>3, <3>1, <3>2, <3>4
      <4>2. j \in D
        BY <1>5, <4>1
      <4>3. m2[phi[i]].stop = phi[j]
        BY <1>4, <4>1, <4>2
      <4> QED BY <3>1, <3>2, <3>4, <4>2, <4>3 DEF InStep
    <3> QED BY <3>3, <3>4
  <2> QED BY <2>1, <2>2, <2>3
<1>11. \A i \in D : Tracks(D, phi, s1[i], s2[phi[i]])
  <2>1. \A i \in D : phi[i] \in 1 .. n2 + 1
    BY <1>7
  <2>2. \A i \in D : InStep(n1, m1, n2, m2, D, phi, i)
    BY <1>10
  <2> QED BY <1>2, <1>6, <2>1, <2>2, ScanTransfer DEF s1, s2
<1>12. 1 \in D /\ phi[1] = 1
  <2>1. 1 \in 1 .. n1 + 1 /\ 1 \in Outside(s, e) /\ M(1) = 1
    BY <1>2, <1>3 DEF Outside, Moved
  <2> QED BY <1>4, <1>5, <2>1
<1>13. Len(s2[1]) = Len(s1[1]) /\ \A k \in 1 .. Len(s1[1]) : s1[1][k] \in D /\ s2[1][k] = phi[s1[1][k]]
  BY <1>11, <1>12 DEF Tracks
<1>14. /\ Len(FindIter(x, m1)) = Len(s1[1])
       /\ \A k \in 1 .. Len(FindIter(x, m1)) :
            FindIter(x, m1)[k] = m1[s1[1][k]] /\ s1[1][k] \in 1 .. n1 /\ m1[s1[1][k]].stop # 0
       /\ Len(FindIter(y, m2)) = Len(s2[1])
       /\ \A k \in 1 .. Len(FindIter(y, m2)) : FindIter(y, m2)[k] = m2[s2[1][k]]
  BY <1>1, FindIterPlaces DEF s1, s2
<1>15. m1[s - 1].stop = 0
  BY <1>3
<1>16. ASSUME NEW k \in 1 .. Len(s1[1]), NEW i, i = s1[1][k]
       PROVE  /\ i \in DOMAIN x /\ i \in Outside(s, e) /\ i # s - 1
              /\ s2[1][k] = M(i)
              /\ FindIter(x, m1)[k] = m1[i] /\ m1[i].stop # 0
              /\ FindIter(y, m2)[k] = m2[M(i)]
  <2>1. i \in D /\ s2[1][k] = phi[i]
    BY <1>13, <1>16
  <2>2. s2[1][k] = M(i) /\ i \in Outside(s, e)
    BY <2>1, <1>4
  <2>3. FindIter(x, m1)[k] = m1[i] /\ i \in 1 .. n1 /\ m1[i].stop # 0
    BY <1>14, <1>16
  <2>4. FindIter(y, m2)[k] = m2[M(i)]
    BY <2>2, <1>13, <1>14
  <2> QED BY <2>2, <2>3, <2>4, <1>2, <1>15
<1> QED BY <1>13, <1>14, <1>16 DEF s1, s2

-----------------------------------------------------------------------------
(* The equalities: a literal lies where it lay, with the same closing      *)
(* quote, since a name has none.                                           *)
LEMMA MovedOrder ==
  ASSUME NEW s \in Int, NEW e \in Int, NEW f \in Int, s < e, s < f,
         NEW i \in Outside(s, e), NEW j \in Outside(s, e)
  PROVE  i < j <=> Moved(s, e, f, i) < Moved(s, e, f, j)
BY DEF Outside, Moved

LEMMA LiteralCases ==
  ASSUME NEW x \in Seq(Tokens), NEW i \in Int
  PROVE  /\ IsNumber(x, i) => LiteralStop(x, i) = i + 1
         /\ ~ IsNumber(x, i) /\ ~ IsToken(x, i, Quotes) => LiteralStop(x, i) = 0
         /\ IsToken(x, i, Quotes) =>
              /\ (\A c \in DOMAIN x : c > i => x[c] # x[i]) => LiteralStop(x, i) = 0
              /\ \A c \in DOMAIN x :
                   c > i /\ x[c] = x[i] /\ (\A j \in DOMAIN x : j > i /\ x[j] = x[i] => c <= j)
                   => LiteralStop(x, i) = c + 1
<1> DEFINE closing == {j \in DOMAIN x : j > i /\ x[j] = x[i]}
<1>1. DOMAIN x \subseteq Nat
  BY SeqOfTokens
<1>2. IsToken(x, i, Quotes) => ~ IsNumber(x, i)
  BY Kinds DEF IsToken, IsNumber
<1>3. ASSUME NEW c \in DOMAIN x, c > i, x[c] = x[i], \A j \in DOMAIN x : j > i /\ x[j] = x[i] => c <= j
      PROVE  closing # {} /\ Min(closing) = c
  <2>1. c \in closing /\ \A j \in closing : c <= j
    BY <1>3
  <2>2. closing \subseteq Nat
    BY <1>1
  <2> HIDE DEF closing
  <2>3. \A d \in closing : (\A j \in closing : d <= j) => d = c
    BY <2>1, <2>2
  <2> QED BY <2>1, <2>3 DEF Min
<1>4. (\A c \in DOMAIN x : c > i => x[c] # x[i]) => closing = {}
  OBVIOUS
<1>5. LiteralStop(x, i) = CASE IsNumber(x, i) -> i + 1
                            [] IsToken(x, i, Quotes) /\ closing # {} -> Min(closing) + 1
                            [] OTHER -> 0
  BY DEF LiteralStop
<1> HIDE DEF closing
<1>6. IsNumber(x, i) => LiteralStop(x, i) = i + 1
  BY <1>2, <1>5
<1>7. ~ IsNumber(x, i) /\ ~ IsToken(x, i, Quotes) => LiteralStop(x, i) = 0
  BY <1>5
<1>8. IsToken(x, i, Quotes) /\ closing = {} => LiteralStop(x, i) = 0
  BY <1>2, <1>5
<1>9. IsToken(x, i, Quotes) /\ closing # {} => LiteralStop(x, i) = Min(closing) + 1
  BY <1>2, <1>5
<1> QED BY <1>3, <1>4, <1>6, <1>7, <1>8, <1>9

LEMMA LiteralFacts ==
  ASSUME NEW x \in Seq(Tokens), NEW i \in Int, LiteralStop(x, i) # 0
  PROVE  /\ i \in 1 .. Len(x) /\ LiteralStop(x, i) \in i + 1 .. Len(x) + 1
         /\ IsNumber(x, i) \/ IsToken(x, i, Quotes)
         /\ IsToken(x, i, Quotes) =>
              \E c \in DOMAIN x : /\ c > i /\ x[c] = x[i] /\ LiteralStop(x, i) = c + 1
                                  /\ \A j \in DOMAIN x : j > i /\ x[j] = x[i] => c <= j
<1>1. Len(x) \in Nat /\ DOMAIN x = 1 .. Len(x)
  BY SeqOfTokens
<1>2. IsNumber(x, i) \/ IsToken(x, i, Quotes)
  BY LiteralCases
<1>3. i \in 1 .. Len(x)
  BY <1>1, <1>2 DEF IsToken, IsNumber
<1>4. IsNumber(x, i) => LiteralStop(x, i) = i + 1
  BY LiteralCases
<1>5. ASSUME IsToken(x, i, Quotes)
      PROVE  \E c \in DOMAIN x : /\ c > i /\ x[c] = x[i] /\ LiteralStop(x, i) = c + 1
                                 /\ \A j \in DOMAIN x : j > i /\ x[j] = x[i] => c <= j
  <2> DEFINE S == {c \in DOMAIN x : c > i /\ x[c] = x[i]}
  <2>1. S # {}
    <3>1. ~ \A c \in DOMAIN x : c > i => x[c] # x[i]
      BY <1>5, LiteralCases
    <3> QED BY <3>1
  <2>2. S \in SUBSET Nat
    BY <1>1
  <2>3. PICK c \in S : \A d \in S : c <= d
    BY <2>1, <2>2, LeastElement, Zenon
  <2>4. c \in DOMAIN x /\ c > i /\ x[c] = x[i] /\ \A j \in DOMAIN x : j > i /\ x[j] = x[i] => c <= j
    BY <2>3
  <2>5. LiteralStop(x, i) = c + 1
    BY <2>4, <1>5, LiteralCases
  <2> QED BY <2>4, <2>5
<1>6. LiteralStop(x, i) \in i + 1 .. Len(x) + 1
  <2>1. CASE IsNumber(x, i)
    BY <2>1, <1>1, <1>3, <1>4
  <2>2. CASE IsToken(x, i, Quotes)
    <3>1. PICK c \in DOMAIN x : c > i /\ LiteralStop(x, i) = c + 1
      BY <2>2, <1>5
    <3> QED BY <3>1, <1>1
  <2> QED BY <2>1, <2>2, <1>2
<1> QED BY <1>2, <1>3, <1>5, <1>6

LEMMA LiteralMoved ==
  ASSUME NEW x, NEW s, NEW e, NEW y, NEW f, Replaced(x, s, e, y, f), NEW i \in Outside(s, e)
  PROVE  /\ LiteralStop(x, i) = 0 => LiteralStop(y, Moved(s, e, f, i)) = 0
         /\ LiteralStop(x, i) # 0 =>
              /\ LiteralStop(x, i) \in Outside(s, e)
              /\ LiteralStop(y, Moved(s, e, f, i)) = Moved(s, e, f, LiteralStop(x, i))
<1> DEFINE M(k) == Moved(s, e, f, k)
           B(k) == Moved(s, f, e, k)
<1>1. /\ x \in Seq(Tokens) /\ y \in Seq(Tokens)
      /\ s \in 2 .. Len(x) /\ e \in s + 1 .. Len(x) + 1 /\ f \in s + 1 .. Len(y) + 1
      /\ x[s - 1] \in FromOrJoin
      /\ \A k \in s .. e - 1 : x[k] \in Heads \union Tails
      /\ \A k \in s .. f - 1 : y[k] \in Heads \union Tails
  BY DEF Replaced
<1>2. /\ Len(x) \in Nat /\ DOMAIN x = 1 .. Len(x) /\ Len(y) \in Nat /\ DOMAIN y = 1 .. Len(y)
      /\ s \in Int /\ e \in Int /\ f \in Int /\ s < e /\ s < f
  BY <1>1, SeqOfTokens
<1>3. i \in Int /\ M(i) \in Int
  <2>1. M(i) \in Outside(s, f)
    BY TokenMoved
  <2> QED BY <2>1 DEF Outside
<1>4. /\ IsNumber(y, M(i)) <=> IsNumber(x, i)
      /\ IsToken(y, M(i), Quotes) <=> IsToken(x, i, Quotes)
  BY TokenMoved DEF IsNumber
<1>5. IsNumber(x, i) \/ IsToken(x, i, Quotes) => i # s - 1
  BY <1>1, Kinds DEF IsNumber, IsToken
<1>6. CASE IsNumber(x, i)
  <2>1. LiteralStop(x, i) = i + 1 /\ LiteralStop(y, M(i)) = M(i) + 1
    BY <1>1, <1>3, <1>4, <1>6, LiteralCases
  <2>2. i + 1 \in Outside(s, e) /\ M(i + 1) = M(i) + 1
    BY <1>5, <1>6, TokenMoved
  <2>3. i + 1 # 0
    BY <1>2, <1>6 DEF IsNumber, IsToken
  <2> QED BY <2>1, <2>2, <2>3
<1>7. CASE ~ IsNumber(x, i) /\ ~ IsToken(x, i, Quotes)
  BY <1>1, <1>3, <1>4, <1>7, LiteralCases
<1>8. CASE IsToken(x, i, Quotes)
  <2>1. i \in DOMAIN x /\ x[i] \in Quotes /\ M(i) \in DOMAIN y /\ y[M(i)] = x[i]
    BY <1>8, TokenMoved DEF IsToken
  <2>2. ASSUME NEW j \in DOMAIN y, j > M(i), y[j] = y[M(i)]
        PROVE  /\ B(j) \in Outside(s, e) /\ M(B(j)) = j
               /\ B(j) \in DOMAIN x /\ B(j) > i /\ x[B(j)] = x[i]
    <3>1. j \in Outside(s, f)
      <4>1. j \notin s .. f - 1
        BY <1>1, <2>1, <2>2, Kinds
      <4> QED BY <4>1, <1>2 DEF Outside
    <3>2. Replaced(y, s, f, x, e)
      BY ReplacedBack
    <3>3. B(j) \in Outside(s, e) /\ M(B(j)) = j /\ B(j) \in DOMAIN x /\ x[B(j)] = y[j]
      BY <2>2, <3>1, <3>2, TokenMoved
    <3>4. i < B(j)
      <4>1. M(i) < M(B(j))
        BY <1>2, <1>3, <2>2, <3>3
      <4> HIDE DEF B
      <4> QED BY <4>1, <3>3, <1>2, MovedOrder
    <3>5. B(j) \in Int
      BY <3>3 DEF Outside
    <3> QED BY <2>1, <2>2, <3>3, <3>4, <3>5, <1>3
  <2>3. CASE LiteralStop(x, i) = 0
    <3>1. ASSUME NEW j \in DOMAIN y, j > M(i), y[j] = y[M(i)] PROVE FALSE
      <4>1. B(j) \in DOMAIN x /\ B(j) > i /\ x[B(j)] = x[i]
        BY <2>2, <3>1
      <4>2. PICK c \in DOMAIN x : /\ c > i /\ x[c] = x[i]
                                  /\ \A h \in DOMAIN x : h > i /\ x[h] = x[i] => c <= h
        <5> DEFINE S == {c \in DOMAIN x : c > i /\ x[c] = x[i]}
        <5>1. S \in SUBSET Nat /\ S # {}
          BY <1>2, <4>1
        <5>2. PICK c \in S : \A d \in S : c <= d
          BY <5>1, LeastElement, Zenon
        <5> QED BY <5>2
      <4>3. LiteralStop(x, i) = c + 1
        BY <1>1, <1>3, <1>8, <4>2, LiteralCases
      <4> QED BY <4>2, <4>3, <2>3, <1>2
    <3>2. LiteralStop(y, M(i)) = 0
      BY <1>1, <1>3, <1>4, <1>8, <3>1, LiteralCases
    <3> QED BY <2>3, <3>2
  <2>4. CASE LiteralStop(x, i) # 0
    <3>1. PICK c \in DOMAIN x : /\ c > i /\ x[c] = x[i] /\ LiteralStop(x, i) = c + 1
                                /\ \A j \in DOMAIN x : j > i /\ x[j] = x[i] => c <= j
      BY <1>1, <1>3, <1>8, <2>4, LiteralFacts
    <3>2. c \in Outside(s, e) /\ c # s - 1 /\ c \in Int
      <4>1. c \notin s .. e - 1 /\ c # s - 1
        BY <1>1, <2>1, <3>1, Kinds
      <4> QED BY <4>1, <1>2 DEF Outside
    <3>3. M(c) \in DOMAIN y /\ y[M(c)] = x[c] /\ c + 1 \in Outside(s, e) /\ M(c + 1) = M(c) + 1
      BY <3>2, TokenMoved
    <3>4. M(c) > M(i)
      <4>1. M(i) < M(c)
        BY <3>1, <3>2, <1>2, <1>3, MovedOrder
      <4>2. M(c) \in Int
        BY <3>3, <1>2
      <4> QED BY <4>1, <4>2, <1>3
    <3>5. ASSUME NEW j \in DOMAIN y, j > M(i), y[j] = y[M(i)] PROVE M(c) <= j
      <4>1. B(j) \in Outside(s, e) /\ M(B(j)) = j /\ c <= B(j)
        BY <2>2, <3>1, <3>5
      <4>2. ~ (B(j) < c)
        BY <4>1, <3>2 DEF Outside
      <4>3. ~ (M(B(j)) < M(c))
        <5> HIDE DEF B
        <5> QED BY <4>1, <4>2, <3>2, <1>2, MovedOrder
      <4> QED BY <4>1, <4>3, <3>3, <1>2
    <3>6. LiteralStop(y, M(i)) = M(c) + 1
      <4>1. IsToken(y, M(i), Quotes) /\ y[M(c)] = y[M(i)]
        BY <1>4, <1>8, <2>1, <3>1, <3>3
      <4> QED BY <1>1, <1>3, <3>3, <3>4, <3>5, <4>1, LiteralCases
    <3> QED BY <2>4, <3>1, <3>3, <3>6
  <2> QED BY <2>3, <2>4
<1> QED BY <1>6, <1>7, <1>8

Equates(x, i) ==
  IsWord(x, i) /\ IsToken(x, WordStop(x, i), {"="}) /\ LiteralStop(x, WordStop(x, i) + 1) # 0

LEMMA EqualityParts ==
  ASSUME NEW x, NEW q, NEW i \in Int
  PROVE  EqualityAt(x, q, i) =
           IF ~ Equates(x, i) THEN NoMatch
           ELSE [qualifier |-> q, column |-> WordAt(x, i),
                 value |-> NormalizeValue(x, WordStop(x, i) + 1, LiteralStop(x, WordStop(x, i) + 1)),
                 stop |-> LiteralStop(x, WordStop(x, i) + 1)]
<1>1. (WordStop(x, i) + 1) - 1 = WordStop(x, i)
  BY DEF WordStop
<1>2. IsToken(x, (WordStop(x, i) + 1) - 1, {"="}) <=> IsToken(x, WordStop(x, i), {"="})
  BY <1>1
<1> QED BY <1>2, Zenon DEF EqualityAt, Equates

Qualified(x, i) == IsWord(x, i) /\ IsToken(x, WordStop(x, i), {"."})
ColumnAt(x, i) == IF Qualified(x, i) THEN WordStop(x, i) + 1 ELSE i
QualifierAt(x, i) == IF Qualified(x, i) THEN WordAt(x, i) ELSE NoValue

LEMMA PredicateParts ==
  ASSUME NEW x, NEW i
  PROVE  PredicateAt(x, i) = EqualityAt(x, QualifierAt(x, i), ColumnAt(x, i))
BY DEF PredicateAt, Qualified, QualifierAt, ColumnAt

LEMMA EqualityFacts ==
  ASSUME NEW x \in Seq(Tokens), NEW q, NEW i \in Int, EqualityAt(x, q, i).stop # 0
  PROVE  /\ Equates(x, i)
         /\ EqualityAt(x, q, i).stop \in i + 1 .. Len(x) + 1
         /\ i \in 1 .. Len(x)
<1>1. Equates(x, i)
  BY EqualityParts DEF NoMatch
<1>2. EqualityAt(x, q, i).stop = LiteralStop(x, WordStop(x, i) + 1)
  BY <1>1, EqualityParts
<1>3. i \in 1 .. Len(x) /\ WordStop(x, i) \in i + 1 .. Len(x) + 1
  BY <1>1, WordFacts DEF Equates
<1>4. Len(x) \in Nat /\ WordStop(x, i) + 1 \in Int
  BY <1>3, SeqOfTokens
<1>5. LiteralStop(x, WordStop(x, i) + 1) \in WordStop(x, i) + 1 + 1 .. Len(x) + 1
  BY <1>1, <1>4, LiteralFacts DEF Equates
<1> QED BY <1>1, <1>2, <1>3, <1>4, <1>5

LEMMA PredicateFacts ==
  ASSUME NEW x \in Seq(Tokens), NEW i \in Int, PredicateAt(x, i).stop # 0
  PROVE  /\ Equates(x, ColumnAt(x, i))
         /\ PredicateAt(x, i).stop \in i + 1 .. Len(x) + 1
         /\ ColumnAt(x, i) \in i .. Len(x)
         /\ ColumnAt(x, i) < PredicateAt(x, i).stop
         /\ IsWord(x, i)
<1>1. ColumnAt(x, i) \in Int /\ ColumnAt(x, i) >= i
  BY DEF ColumnAt, WordStop
<1>2. /\ Equates(x, ColumnAt(x, i))
      /\ PredicateAt(x, i).stop \in ColumnAt(x, i) + 1 .. Len(x) + 1
      /\ ColumnAt(x, i) \in 1 .. Len(x)
  BY <1>1, PredicateParts, EqualityFacts
<1>3. IsWord(x, i)
  BY <1>2 DEF ColumnAt, Equates, Qualified
<1>4. Len(x) \in Nat
  OBVIOUS
<1> QED BY <1>1, <1>2, <1>3, <1>4

LEMMA PredicatesStopAhead ==
  ASSUME NEW x \in Seq(Tokens)
  PROVE  StopsAhead(Len(x), [i \in DOMAIN x |-> PredicateAt(x, i)])
<1>1. Len(x) \in Nat /\ DOMAIN x = 1 .. Len(x)
  OBVIOUS
<1>2. ASSUME NEW i \in 1 .. Len(x)
      PROVE  PredicateAt(x, i).stop = 0 \/ PredicateAt(x, i).stop \in i + 1 .. Len(x) + 1
  BY <1>1, PredicateFacts
<1> QED BY <1>1, <1>2 DEF StopsAhead

(* No table is named within a match.                                       *)
Clear(x, i, stop) == \A h \in i .. stop - 1 : ~ Refers(x, h)

LEMMA OneSide ==
  ASSUME NEW x, NEW s, NEW e, NEW y, NEW f, Replaced(x, s, e, y, f),
         NEW i \in Outside(s, e), NEW j \in Outside(s, e), i < j, Clear(x, i, j)
  PROVE  i >= e \/ j <= s - 1
<1>1. /\ s \in 2 .. Len(x) /\ e \in s + 1 .. Len(x) + 1 /\ x \in Seq(Tokens)
  BY DEF Replaced
<1>2. Len(x) \in Nat /\ s \in Int /\ e \in Int /\ s < e /\ i \in Int /\ j \in Int
  BY <1>1, SeqOfTokens DEF Outside
<1>3. Refers(x, s - 1)
  BY TableReplaced
<1>4. s - 1 \notin i .. j - 1
  BY <1>3 DEF Clear
<1> QED BY <1>2, <1>4 DEF Outside

LEMMA RefersMoved ==
  ASSUME NEW x, NEW s, NEW e, NEW y, NEW f, Replaced(x, s, e, y, f),
         NEW i \in Outside(s, e), i # s - 1
  PROVE  Refers(y, Moved(s, e, f, i)) <=> Refers(x, i)
<1>1. i + 1 \in Outside(s, e) /\ Moved(s, e, f, i + 1) = Moved(s, e, f, i) + 1
  BY TokenMoved
<1> QED BY <1>1, TokenMoved DEF Refers, IsWord

LEMMA ClearMoved ==
  ASSUME NEW x, NEW s, NEW e, NEW y, NEW f, Replaced(x, s, e, y, f),
         NEW i \in Outside(s, e), NEW j \in Outside(s, e), i < j, Clear(x, i, j)
  PROVE  Clear(y, Moved(s, e, f, i), Moved(s, e, f, j))
<1>1. /\ s \in 2 .. Len(x) /\ e \in s + 1 .. Len(x) + 1 /\ x \in Seq(Tokens)
      /\ f \in s + 1 .. Len(y) + 1 /\ y \in Seq(Tokens)
  BY DEF Replaced
<1>2. /\ Len(x) \in Nat /\ Len(y) \in Nat /\ s \in Int /\ e \in Int /\ f \in Int
      /\ s < e /\ s < f /\ i \in Int /\ j \in Int
  BY <1>1, SeqOfTokens DEF Outside
<1>3. i >= e \/ j <= s - 1
  BY OneSide
<1>4. ASSUME NEW h \in Moved(s, e, f, i) .. Moved(s, e, f, j) - 1 PROVE ~ Refers(y, h)
  <2> DEFINE g == IF i >= e THEN h - (f - e) ELSE h
  <2>1. /\ g \in i .. j - 1 /\ g # s - 1 /\ g \in Outside(s, e)
        /\ Moved(s, e, f, g) = h
    <3>1. h \in Int
      BY <1>2 DEF Moved
    <3>2. CASE i >= e
      <4>1. h >= i + (f - e) /\ h <= j + (f - e) - 1 /\ j >= e
        BY <3>2, <1>2 DEF Moved
      <4> QED BY <4>1, <3>1, <3>2, <1>2 DEF Moved, Outside
    <3>3. CASE ~ (i >= e) /\ j <= s - 1
      <4>1. h >= i /\ h <= j - 1
        BY <3>3, <1>2 DEF Moved
      <4> QED BY <4>1, <3>1, <3>3, <1>2 DEF Moved, Outside
    <3> QED BY <3>2, <3>3, <1>3
  <2>2. ~ Refers(x, g)
    BY <2>1 DEF Clear
  <2> QED BY <2>1, <2>2, RefersMoved
<1> QED BY <1>4 DEF Clear

LEMMA LiteralValue ==
  ASSUME NEW x, NEW s, NEW e, NEW y, NEW f, Replaced(x, s, e, y, f),
         NEW v \in Outside(s, e), LiteralStop(x, v) # 0, Clear(x, v, LiteralStop(x, v))
  PROVE  NormalizeValue(y, Moved(s, e, f, v), LiteralStop(y, Moved(s, e, f, v)))
           = NormalizeValue(x, v, LiteralStop(x, v))
<1> DEFINE M(k) == Moved(s, e, f, k)
           stop == LiteralStop(x, v)
<1>1. /\ s \in 2 .. Len(x) /\ e \in s + 1 .. Len(x) + 1 /\ x \in Seq(Tokens) /\ x[s - 1] \in FromOrJoin
      /\ f \in s + 1 .. Len(y) + 1 /\ y \in Seq(Tokens)
      /\ \A k \in s .. e - 1 : x[k] \in Heads \union Tails
  BY DEF Replaced
<1>2. /\ Len(x) \in Nat /\ Len(y) \in Nat /\ s \in Int /\ e \in Int /\ f \in Int
      /\ s < e /\ s < f /\ v \in Int /\ DOMAIN x = 1 .. Len(x)
  BY <1>1, SeqOfTokens DEF Outside
<1>3. /\ v \in 1 .. Len(x) /\ stop \in v + 1 .. Len(x) + 1
      /\ IsNumber(x, v) \/ IsToken(x, v, Quotes)
      /\ IsToken(x, v, Quotes) =>
           \E c \in DOMAIN x : c > v /\ x[c] = x[v] /\ stop = c + 1
  BY <1>1, <1>2, LiteralFacts
<1>4. y[M(v)] = x[v]
  BY <1>2, <1>3, TokenMoved
<1>5. LiteralStop(y, M(v)) = M(stop) /\ stop \in Outside(s, e)
  BY LiteralMoved
<1>6. CASE x[v] \notin Quotes
  BY <1>4, <1>6 DEF NormalizeValue
<1>7. CASE x[v] \in Quotes
  <2>1. PICK c \in DOMAIN x : c > v /\ x[c] = x[v] /\ stop = c + 1
    BY <1>2, <1>3, <1>7 DEF IsToken
  <2>2. v # s - 1 /\ c # s - 1 /\ c \notin s .. e - 1
    BY <1>1, <1>7, <2>1, Kinds
  <2>3. c \in Outside(s, e) /\ c \in Int /\ stop - 1 = c
    BY <2>1, <2>2, <1>2 DEF Outside
  <2>4. /\ v + 1 \in Outside(s, e) /\ M(v + 1) = M(v) + 1
        /\ c + 1 \in Outside(s, e) /\ M(c + 1) = M(c) + 1 /\ M(c) \in Outside(s, f)
    BY <2>2, <2>3, TokenMoved
  <2>5. v >= e \/ stop <= s - 1
    BY <1>3, <1>5, <1>2, OneSide
  <2>6. v + 1 >= 1 /\ v + 1 <= c /\ c <= Len(x) + 1 /\ (c <= s - 1 \/ v + 1 >= e)
    BY <2>1, <2>3, <2>5, <1>2, <1>3
  <2>7. TextOf(y, M(v + 1), M(c)) = TextOf(x, v + 1, c)
    BY <2>3, <2>4, <2>6, TextMoved
  <2>8. M(stop) - 1 = M(c)
    <3>1. M(c) \in Int
      BY <2>4 DEF Outside
    <3> QED BY <3>1, <2>1, <2>4
  <2> QED BY <1>4, <1>5, <1>7, <2>3, <2>4, <2>7, <2>8 DEF NormalizeValue
<1> QED BY <1>6, <1>7

LEMMA NoEqualityBeforeName ==
  ASSUME NEW x, NEW s, NEW e, NEW y, NEW f, Replaced(x, s, e, y, f), NEW q
  PROVE  /\ EqualityAt(x, q, s - 1).stop = 0
         /\ WordStop(x, s - 1) = s /\ IsWord(x, s - 1) /\ ~ IsToken(x, s, {"."})
<1>1. /\ x \in Seq(Tokens) /\ s \in 2 .. Len(x) /\ x[s - 1] \in FromOrJoin /\ x[s] \in Heads
  BY DEF Replaced
<1>2. Len(x) \in Nat /\ DOMAIN x = 1 .. Len(x) /\ s \in Int /\ s - 1 + 1 = s
  BY <1>1, SeqOfTokens
<1>3. ~ IsToken(x, s, Tails) /\ ~ IsToken(x, s, {"="}) /\ ~ IsToken(x, s, {"."})
  BY <1>1, Kinds DEF IsToken
<1>4. WordStop(x, s - 1) = s
  BY <1>2, <1>3 DEF WordStop
<1>5. ~ Equates(x, s - 1)
  BY <1>3, <1>4 DEF Equates
<1>6. EqualityAt(x, q, s - 1) = NoMatch
  <2>1. s - 1 \in Int
    BY <1>2
  <2> QED BY <1>5, <2>1, EqualityParts
<1>7. IsWord(x, s - 1)
  <2>1. s - 1 \in DOMAIN x
    BY <1>1, <1>2
  <2> QED BY <2>1, <1>1, Kinds DEF IsWord, IsToken
<1> QED BY <1>3, <1>4, <1>6, <1>7 DEF NoMatch

LEMMA LimitCases ==
  ASSUME NEW x, NEW i
  PROVE  /\ ~ (IsToken(x, i, {"limit"}) /\ IsNumber(x, i + 1)) => LimitAt(x, i).stop = 0
         /\ IsToken(x, i, {"limit"}) /\ IsNumber(x, i + 1) =>
              /\ IsToken(x, i + 2, {","}) /\ IsNumber(x, i + 3) =>
                   LimitAt(x, i).count = Numeral[x[i + 3]] /\ LimitAt(x, i).stop = i + 4
              /\ ~ (IsToken(x, i + 2, {","}) /\ IsNumber(x, i + 3)) =>
                   LimitAt(x, i).count = Numeral[x[i + 1]] /\ LimitAt(x, i).stop = i + 2
BY DEF LimitAt, NoMatch

(* The token after the name says that the name is a table.                 *)
Follows == DOMAIN Numeral \union {".", "="}

LEMMA NoMatchInName ==
  ASSUME NEW x, NEW s, NEW e, NEW y, NEW f, Replaced(x, s, e, y, f), ~ IsToken(x, e, Follows),
         NEW i \in s - 1 .. e - 1
  PROVE  PredicateAt(x, i).stop = 0 /\ LimitAt(x, i).stop = 0
<1>1. /\ x \in Seq(Tokens) /\ s \in 2 .. Len(x) /\ e \in s + 1 .. Len(x) + 1
      /\ x[s - 1] \in FromOrJoin /\ x[s] \in Heads /\ WordStop(x, s) = e
  BY DEF Replaced
<1>2. Len(x) \in Nat /\ DOMAIN x = 1 .. Len(x) /\ s \in Int /\ e \in Int /\ s - 1 + 1 = s /\ i \in Int
  BY <1>1, SeqOfTokens
<1>3. ~ IsToken(x, e, {"."}) /\ ~ IsToken(x, e, {"="}) /\ ~ IsNumber(x, e)
  BY DEF Follows, IsToken, IsNumber
<1>4. e = IF IsToken(x, s + 1, Tails) THEN s + 2 ELSE s + 1
  BY <1>1 DEF WordStop
<1>5. \A k : ~ (IsToken(x, k, {"limit"}) /\ IsNumber(x, k + 1)) => LimitAt(x, k).stop = 0
  BY LimitCases
<1>6. CASE i = s - 1
  <2>1. IsWord(x, s - 1) /\ WordStop(x, s - 1) = s /\ ~ IsToken(x, s, {"."})
    BY NoEqualityBeforeName
  <2>2. QualifierAt(x, i) = NoValue /\ ColumnAt(x, i) = s - 1
    BY <1>6, <2>1 DEF QualifierAt, ColumnAt, Qualified
  <2>3. PredicateAt(x, i).stop = 0
    BY <2>2, PredicateParts, NoEqualityBeforeName
  <2>4. ~ IsToken(x, i, {"limit"})
    BY <1>1, <1>6, Kinds DEF IsToken
  <2> QED BY <2>3, <2>4, <1>5
<1>7. CASE i = s
  <2>1. QualifierAt(x, i) = NoValue /\ ColumnAt(x, i) = s
    BY <1>1, <1>3, <1>7 DEF QualifierAt, ColumnAt, Qualified
  <2>2. ~ Equates(x, s)
    BY <1>1, <1>3 DEF Equates
  <2>3. PredicateAt(x, i).stop = 0
    BY <1>2, <2>1, <2>2, PredicateParts, EqualityParts DEF NoMatch
  <2>4. ~ IsNumber(x, s + 1)
    <3>1. IsToken(x, s + 1, Tails) => ~ IsNumber(x, s + 1)
      BY Kinds DEF IsToken, IsNumber
    <3> QED BY <3>1, <1>3, <1>4
  <2> QED BY <2>3, <2>4, <1>5, <1>7
<1>8. CASE i # s - 1 /\ i # s
  <2>1. i = s + 1 /\ IsToken(x, s + 1, Tails)
    BY <1>2, <1>4, <1>8
  <2>2. ~ IsWord(x, i) /\ ~ IsToken(x, i, {"limit"})
    BY <2>1, Kinds DEF IsWord, IsToken
  <2>3. QualifierAt(x, i) = NoValue /\ ColumnAt(x, i) = i /\ ~ Equates(x, i)
    BY <2>2 DEF QualifierAt, ColumnAt, Qualified, Equates
  <2>4. PredicateAt(x, i).stop = 0
    BY <1>2, <2>3, PredicateParts, EqualityParts DEF NoMatch
  <2> QED BY <2>2, <2>4, <1>5
<1> QED BY <1>6, <1>7, <1>8

LEMMA EqualityMoved ==
  ASSUME NEW x, NEW s, NEW e, NEW y, NEW f, Replaced(x, s, e, y, f), NEW q,
         NEW i \in Outside(s, e)
  PROVE  /\ EqualityAt(x, q, i).stop = 0 => EqualityAt(y, q, Moved(s, e, f, i)).stop = 0
         /\ EqualityAt(x, q, i).stop # 0 =>
              /\ EqualityAt(x, q, i).stop \in Outside(s, e)
              /\ EqualityAt(y, q, Moved(s, e, f, i)).stop = Moved(s, e, f, EqualityAt(x, q, i).stop)
              /\ EqualityAt(y, q, Moved(s, e, f, i)).qualifier = EqualityAt(x, q, i).qualifier
              /\ EqualityAt(y, q, Moved(s, e, f, i)).column = EqualityAt(x, q, i).column
              /\ Clear(x, i, EqualityAt(x, q, i).stop) =>
                   EqualityAt(y, q, Moved(s, e, f, i)).value = EqualityAt(x, q, i).value
<1> DEFINE M(k) == Moved(s, e, f, k)
           w == WordStop(x, i)
           v == WordStop(x, i) + 1
<1>1. /\ x \in Seq(Tokens) /\ y \in Seq(Tokens) /\ s \in 2 .. Len(x) /\ x[s - 1] \in FromOrJoin
  BY DEF Replaced
<1>2. Len(x) \in Nat /\ DOMAIN x = 1 .. Len(x) /\ s \in Int /\ i \in Int /\ M(i) \in Int
  <2>1. M(i) \in Outside(s, f)
    BY TokenMoved
  <2> QED BY <2>1, <1>1, SeqOfTokens DEF Outside
<1>3. CASE i = s - 1
  <2>1. M(i) = s - 1
    BY <1>3, TableReplaced
  <2>2. EqualityAt(x, q, i).stop = 0
    BY <1>3, NoEqualityBeforeName
  <2>3. EqualityAt(y, q, s - 1).stop = 0
    BY ReplacedBack, NoEqualityBeforeName
  <2> QED BY <2>1, <2>2, <2>3
<1>4. CASE i # s - 1
  <2>1. w \in Outside(s, e) /\ WordStop(y, M(i)) = M(w)
    BY <1>4, WordStopMoved
  <2>2. /\ IsWord(y, M(i)) <=> IsWord(x, i)
        /\ IsToken(y, M(w), {"="}) <=> IsToken(x, w, {"="})
    BY <2>1, TokenMoved DEF IsWord
  <2>3. CASE ~ (IsWord(x, i) /\ IsToken(x, w, {"="}))
    <3>1. ~ Equates(x, i) /\ ~ Equates(y, M(i))
      BY <2>1, <2>2, <2>3 DEF Equates
    <3> QED BY <3>1, <1>2, EqualityParts DEF NoMatch
  <2>4. CASE IsWord(x, i) /\ IsToken(x, w, {"="})
    <3>1. w # s - 1
      BY <2>4, <1>1, Kinds DEF IsToken
    <3>2. v \in Outside(s, e) /\ M(v) = M(w) + 1
      BY <2>1, <3>1, TokenMoved
    <3>3. CASE LiteralStop(x, v) = 0
      <4>1. LiteralStop(y, M(v)) = 0
        BY <3>2, <3>3, LiteralMoved
      <4>2. ~ Equates(x, i) /\ ~ Equates(y, M(i))
        BY <2>1, <3>2, <3>3, <4>1 DEF Equates
      <4> QED BY <4>2, <1>2, EqualityParts DEF NoMatch
    <3>4. CASE LiteralStop(x, v) # 0
      <4> DEFINE stop == LiteralStop(x, v)
      <4>1. stop \in Outside(s, e) /\ LiteralStop(y, M(v)) = M(stop)
        BY <3>2, <3>4, LiteralMoved
      <4>2. M(stop) # 0
        <5>1. v \in Int
          BY <3>2 DEF Outside
        <5>2. v \in 1 .. Len(x) /\ stop \in v + 1 .. Len(x) + 1
          BY <1>1, <3>4, <5>1, LiteralFacts
        <5>3. stop \in Int /\ stop > 0 /\ v < stop
          BY <5>2, <1>2
        <5>4. /\ s >= 2 /\ e \in Int /\ f \in Int /\ s < e /\ s < f
          BY <1>1, <1>2 DEF Replaced
        <5> HIDE DEF stop
        <5>5. stop < s \/ stop >= e
          BY <4>1, <5>3, <5>4, <1>2 DEF Outside
        <5> QED BY <5>3, <5>4, <5>5, <1>2 DEF Moved
      <4>3. Equates(x, i) /\ Equates(y, M(i))
        BY <2>1, <2>2, <2>4, <3>2, <3>4, <4>1, <4>2 DEF Equates
      <4>4. /\ EqualityAt(x, q, i).qualifier = q /\ EqualityAt(x, q, i).column = WordAt(x, i)
            /\ EqualityAt(x, q, i).value = NormalizeValue(x, v, stop)
            /\ EqualityAt(x, q, i).stop = stop
        BY <1>2, <4>3, EqualityParts
      <4>5. /\ EqualityAt(y, q, M(i)).qualifier = q /\ EqualityAt(y, q, M(i)).column = WordAt(y, M(i))
            /\ EqualityAt(y, q, M(i)).value = NormalizeValue(y, M(v), LiteralStop(y, M(v)))
            /\ EqualityAt(y, q, M(i)).stop = M(stop)
        BY <1>2, <2>1, <3>2, <4>1, <4>3, EqualityParts
      <4>6. WordAt(y, M(i)) = WordAt(x, i)
        <5>1. i \in DOMAIN x
          BY <2>4 DEF IsWord, IsToken
        <5> QED BY <5>1, <1>4, WordMoved
      <4>7. ASSUME Clear(x, i, stop)
            PROVE  NormalizeValue(y, M(v), LiteralStop(y, M(v))) = NormalizeValue(x, v, stop)
        <5>1. v \in Int /\ v >= i
          BY <1>2 DEF WordStop
        <5>2. \A h \in v .. stop - 1 : h \in i .. stop - 1
          <6> HIDE DEF v, stop
          <6> QED BY <5>1, <1>2
        <5>3. Clear(x, v, stop)
          BY <4>7, <5>2 DEF Clear
        <5> QED BY <3>2, <3>4, <5>3, LiteralValue
      <4> QED BY <3>4, <4>1, <4>4, <4>5, <4>6, <4>7
    <3> QED BY <3>3, <3>4
  <2> QED BY <2>3, <2>4
<1> QED BY <1>3, <1>4

LEMMA PredicateMoved ==
  ASSUME NEW x, NEW s, NEW e, NEW y, NEW f, Replaced(x, s, e, y, f),
         NEW i \in Outside(s, e), i # s - 1, i \in DOMAIN x
  PROVE  /\ PredicateAt(x, i).stop = 0 => PredicateAt(y, Moved(s, e, f, i)).stop = 0
         /\ PredicateAt(x, i).stop # 0 =>
              /\ PredicateAt(x, i).stop \in Outside(s, e)
              /\ PredicateAt(y, Moved(s, e, f, i)).stop = Moved(s, e, f, PredicateAt(x, i).stop)
              /\ PredicateAt(y, Moved(s, e, f, i)).qualifier = PredicateAt(x, i).qualifier
              /\ PredicateAt(y, Moved(s, e, f, i)).column = PredicateAt(x, i).column
              /\ Clear(x, i, PredicateAt(x, i).stop) =>
                   /\ PredicateAt(y, Moved(s, e, f, i)).value = PredicateAt(x, i).value
                   /\ Clear(y, Moved(s, e, f, i), PredicateAt(y, Moved(s, e, f, i)).stop)
<1> DEFINE M(k) == Moved(s, e, f, k)
           w == WordStop(x, i)
           c == ColumnAt(x, i)
           q == QualifierAt(x, i)
<1>1. /\ x \in Seq(Tokens) /\ s \in 2 .. Len(x) /\ x[s - 1] \in FromOrJoin
  BY DEF Replaced
<1>2. i \in Int
  BY DEF Outside
<1>3. w \in Outside(s, e) /\ WordStop(y, M(i)) = M(w)
  BY WordStopMoved
<1>4. Qualified(y, M(i)) <=> Qualified(x, i)
  BY <1>3, TokenMoved DEF Qualified, IsWord
<1>5. QualifierAt(y, M(i)) = q
  BY <1>4, WordMoved DEF QualifierAt
<1>6. c \in Outside(s, e) /\ ColumnAt(y, M(i)) = M(c)
  <2>1. CASE Qualified(x, i)
    <3>1. w # s - 1
      BY <2>1, <1>1, Kinds DEF Qualified, IsToken
    <3>2. w + 1 \in Outside(s, e) /\ M(w + 1) = M(w) + 1
      BY <1>3, <3>1, TokenMoved
    <3> QED BY <2>1, <3>2, <1>3, <1>4 DEF ColumnAt
  <2>2. CASE ~ Qualified(x, i)
    BY <2>2, <1>4 DEF ColumnAt
  <2> QED BY <2>1, <2>2
<1>7. /\ PredicateAt(x, i) = EqualityAt(x, q, c)
      /\ PredicateAt(y, M(i)) = EqualityAt(y, q, M(c))
  <2>1. PredicateAt(y, M(i)) = EqualityAt(y, QualifierAt(y, M(i)), ColumnAt(y, M(i)))
    BY PredicateParts
  <2> QED BY <2>1, <1>5, <1>6, PredicateParts
<1> HIDE DEF c, q
<1>8. /\ EqualityAt(x, q, c).stop = 0 => EqualityAt(y, q, M(c)).stop = 0
      /\ EqualityAt(x, q, c).stop # 0 =>
           /\ EqualityAt(x, q, c).stop \in Outside(s, e)
           /\ EqualityAt(y, q, M(c)).stop = M(EqualityAt(x, q, c).stop)
           /\ EqualityAt(y, q, M(c)).qualifier = EqualityAt(x, q, c).qualifier
           /\ EqualityAt(y, q, M(c)).column = EqualityAt(x, q, c).column
           /\ Clear(x, c, EqualityAt(x, q, c).stop) =>
                EqualityAt(y, q, M(c)).value = EqualityAt(x, q, c).value
  BY <1>6, EqualityMoved
<1>9. ASSUME PredicateAt(x, i).stop # 0, Clear(x, i, PredicateAt(x, i).stop)
      PROVE  /\ PredicateAt(y, M(i)).value = PredicateAt(x, i).value
             /\ Clear(y, M(i), PredicateAt(y, M(i)).stop)
  <2> DEFINE stop == PredicateAt(x, i).stop
  <2>1. stop \in i + 1 .. Len(x) + 1 /\ c \in i .. Len(x) /\ Len(x) \in Nat
    <3>1. Len(x) \in Nat
      BY <1>1, SeqOfTokens
    <3> QED BY <3>1, <1>1, <1>2, <1>9, PredicateFacts DEF c
  <2>2. stop \in Outside(s, e) /\ PredicateAt(y, M(i)).stop = M(stop)
    BY <1>7, <1>8, <1>9
  <2> HIDE DEF stop
  <2>3. Clear(x, i, stop) /\ i < stop
    BY <1>2, <1>9, <2>1 DEF stop
  <2>4. Clear(x, c, stop)
    <3>1. \A h \in c .. stop - 1 : h \in i .. stop - 1
      BY <2>1, <1>2
    <3> QED BY <2>3, <3>1 DEF Clear
  <2>5. PredicateAt(y, M(i)).value = PredicateAt(x, i).value
    BY <1>7, <1>8, <1>9, <2>4 DEF stop
  <2>6. Clear(y, M(i), M(stop))
    BY <2>2, <2>3, ClearMoved
  <2> QED BY <2>2, <2>5, <2>6
<1> QED BY <1>7, <1>8, <1>9

PredicateMatches(x) == [i \in DOMAIN x |-> PredicateAt(x, i)]
PredicateStarts(x) == Starts(Len(x), PredicateMatches(x))[1]
ClearPredicate(x, k) == Clear(x, PredicateStarts(x)[k], PredicatesOf(x)[k].stop)

(* The equalities stay: their columns, qualifiers, and the values in which *)
(* no table is named.                                                      *)
SamePredicates(x, y) ==
  /\ Len(PredicatesOf(y)) = Len(PredicatesOf(x))
  /\ \A k \in DOMAIN PredicatesOf(x) :
       /\ PredicatesOf(y)[k].column = PredicatesOf(x)[k].column
       /\ PredicatesOf(y)[k].qualifier = PredicatesOf(x)[k].qualifier
       /\ ClearPredicate(x, k) =>
            /\ PredicatesOf(y)[k].value = PredicatesOf(x)[k].value
            /\ ClearPredicate(y, k)

LEMMA PredicatesPlaces ==
  ASSUME NEW x \in Seq(Tokens)
  PROVE  /\ DOMAIN PredicatesOf(x) = 1 .. Len(PredicatesOf(x))
         /\ Len(PredicatesOf(x)) \in Nat
         /\ \A k \in DOMAIN PredicatesOf(x) :
              /\ PredicateStarts(x)[k] \in 1 .. Len(x)
              /\ PredicatesOf(x)[k] = PredicateAt(x, PredicateStarts(x)[k])
              /\ PredicatesOf(x)[k].stop # 0
<1> DEFINE m == PredicateMatches(x)
<1>1. StopsAhead(Len(x), m)
  BY PredicatesStopAhead DEF PredicateMatches
<1>2. \A i \in 1 .. Len(x) : m[i] = PredicateAt(x, i)
  BY SeqOfTokens DEF PredicateMatches
<1>3. PredicatesOf(x) = FindIter(x, m) /\ PredicateStarts(x) = Starts(Len(x), m)[1]
  BY DEF PredicatesOf, PredicateMatches, PredicateStarts
<1> HIDE DEF m
<1>4. /\ DOMAIN PredicatesOf(x) = 1 .. Len(PredicatesOf(x))
      /\ Len(PredicatesOf(x)) \in Nat
      /\ \A k \in 1 .. Len(PredicatesOf(x)) :
           /\ PredicatesOf(x)[k] = m[PredicateStarts(x)[k]]
           /\ PredicateStarts(x)[k] \in 1 .. Len(x)
           /\ m[PredicateStarts(x)[k]].stop # 0
  BY <1>1, <1>3, FindIterPlaces
<1> QED BY <1>2, <1>4

LEMMA PredicatesReplaced ==
  ASSUME NEW x, NEW s, NEW e, NEW y, NEW f, Replaced(x, s, e, y, f), ~ IsToken(x, e, Follows)
  PROVE  SamePredicates(x, y)
<1> DEFINE m1 == PredicateMatches(x)
           m2 == PredicateMatches(y)
           M(k) == Moved(s, e, f, k)
<1>1. /\ x \in Seq(Tokens) /\ y \in Seq(Tokens)
      /\ s \in 2 .. Len(x) /\ e \in s + 1 .. Len(x) + 1 /\ f \in s + 1 .. Len(y) + 1
  BY DEF Replaced
<1>2. /\ Len(x) \in Nat /\ Len(y) \in Nat /\ DOMAIN x = 1 .. Len(x) /\ DOMAIN y = 1 .. Len(y)
      /\ s \in Int /\ e \in Int /\ f \in Int /\ s < e /\ s < f
  BY <1>1, SeqOfTokens
<1>3. StopsAhead(Len(x), m1) /\ StopsAhead(Len(y), m2)
  BY <1>1, PredicatesStopAhead DEF PredicateMatches
<1>4. /\ \A i \in DOMAIN x : m1[i] = PredicateAt(x, i)
      /\ \A i \in DOMAIN y : m2[i] = PredicateAt(y, i)
  BY DEF PredicateMatches
<1>5. PredicatesOf(x) = FindIter(x, m1) /\ PredicatesOf(y) = FindIter(y, m2)
  BY DEF PredicatesOf, PredicateMatches
<1>6. PredicateStarts(x) = Starts(Len(x), m1)[1] /\ PredicateStarts(y) = Starts(Len(y), m2)[1]
  BY DEF PredicateStarts
<1> HIDE DEF m1, m2
<1>7. \A i \in s - 1 .. e - 1 : m1[i].stop = 0
  <2>1. \A i \in s - 1 .. e - 1 : PredicateAt(x, i).stop = 0
    BY NoMatchInName
  <2>2. \A i \in s - 1 .. e - 1 : i \in DOMAIN x
    BY <1>1, <1>2
  <2> QED BY <2>1, <2>2, <1>4
<1>8. \A i \in s - 1 .. f - 1 : m2[i].stop = 0
  <2>1. ~ IsToken(y, f, Follows)
    <3>1. e \in Outside(s, e) /\ M(e) = f
      BY <1>2 DEF Outside, Moved
    <3> QED BY <3>1, TokenMoved
  <2>2. \A i \in s - 1 .. f - 1 : PredicateAt(y, i).stop = 0
    BY <2>1, ReplacedBack, NoMatchInName
  <2>3. \A i \in s - 1 .. f - 1 : i \in DOMAIN y
    BY <1>1, <1>2
  <2> QED BY <2>2, <2>3, <1>4
<1>9. ASSUME NEW i \in DOMAIN x, i \in Outside(s, e), i # s - 1
      PROVE  /\ M(i) \in DOMAIN y /\ m1[i] = PredicateAt(x, i) /\ m2[M(i)] = PredicateAt(y, M(i))
             /\ m1[i].stop = 0 => m2[M(i)].stop = 0
             /\ m1[i].stop # 0 => m1[i].stop \in Outside(s, e) /\ m2[M(i)].stop = M(m1[i].stop)
  <2>1. M(i) \in DOMAIN y
    BY <1>9, TokenMoved
  <2>2. m1[i] = PredicateAt(x, i) /\ m2[M(i)] = PredicateAt(y, M(i))
    BY <2>1, <1>4
  <2> QED BY <2>1, <2>2, <1>9, PredicateMoved
<1>10. /\ Len(FindIter(y, m2)) = Len(FindIter(x, m1))
       /\ \A k \in 1 .. Len(FindIter(x, m1)) : \A i : i = Starts(Len(x), m1)[1][k] =>
            /\ i \in DOMAIN x /\ i \in Outside(s, e) /\ i # s - 1
            /\ Starts(Len(y), m2)[1][k] = M(i)
            /\ FindIter(x, m1)[k] = m1[i] /\ m1[i].stop # 0
            /\ FindIter(y, m2)[k] = m2[M(i)]
  BY <1>3, <1>7, <1>8, <1>9, ScanReplaced
<1>11. ASSUME NEW k \in DOMAIN PredicatesOf(x)
       PROVE  /\ PredicatesOf(y)[k].column = PredicatesOf(x)[k].column
              /\ PredicatesOf(y)[k].qualifier = PredicatesOf(x)[k].qualifier
              /\ ClearPredicate(x, k) =>
                   PredicatesOf(y)[k].value = PredicatesOf(x)[k].value /\ ClearPredicate(y, k)
  <2> DEFINE i == PredicateStarts(x)[k]
  <2>1. k \in 1 .. Len(FindIter(x, m1))
    BY <1>1, <1>5, PredicatesPlaces
  <2>2. /\ i \in DOMAIN x /\ i \in Outside(s, e) /\ i # s - 1
        /\ PredicateStarts(y)[k] = M(i)
        /\ PredicatesOf(x)[k] = m1[i] /\ m1[i].stop # 0
        /\ PredicatesOf(y)[k] = m2[M(i)]
    BY <2>1, <1>5, <1>6, <1>10
  <2> HIDE DEF i
  <2>3. PredicatesOf(x)[k] = PredicateAt(x, i) /\ PredicatesOf(y)[k] = PredicateAt(y, M(i))
        /\ PredicateAt(x, i).stop # 0
    BY <2>2, <1>9
  <2>4. /\ PredicateAt(y, M(i)).qualifier = PredicateAt(x, i).qualifier
        /\ PredicateAt(y, M(i)).column = PredicateAt(x, i).column
        /\ Clear(x, i, PredicateAt(x, i).stop) =>
             /\ PredicateAt(y, M(i)).value = PredicateAt(x, i).value
             /\ Clear(y, M(i), PredicateAt(y, M(i)).stop)
    BY <2>2, <2>3, PredicateMoved
  <2> QED BY <2>2, <2>3, <2>4 DEF ClearPredicate, i
<1> QED BY <1>5, <1>10, <1>11 DEF SamePredicates

(* So does the LIMIT.                                                      *)
LEMMA LimitFacts ==
  ASSUME NEW x \in Seq(Tokens), NEW i \in Int, LimitAt(x, i).stop # 0
  PROVE  LimitAt(x, i).stop \in i + 1 .. Len(x) + 1
<1>1. Len(x) \in Nat /\ DOMAIN x = 1 .. Len(x)
  BY SeqOfTokens
<1>2. IsToken(x, i, {"limit"}) /\ IsNumber(x, i + 1)
  BY LimitCases
<1>3. i \in 1 .. Len(x) /\ i + 1 \in 1 .. Len(x)
  BY <1>1, <1>2 DEF IsToken, IsNumber
<1>4. CASE IsToken(x, i + 2, {","}) /\ IsNumber(x, i + 3)
  <2>1. LimitAt(x, i).stop = i + 4
    BY <1>2, <1>4, LimitCases
  <2>2. i + 3 \in 1 .. Len(x)
    BY <1>1, <1>4 DEF IsToken, IsNumber
  <2> QED BY <2>1, <2>2, <1>1, <1>3
<1>5. CASE ~ (IsToken(x, i + 2, {","}) /\ IsNumber(x, i + 3))
  <2>1. LimitAt(x, i).stop = i + 2
    BY <1>2, <1>5, LimitCases
  <2> QED BY <2>1, <1>1, <1>3
<1> QED BY <1>4, <1>5

LEMMA LimitsStopAhead ==
  ASSUME NEW x \in Seq(Tokens)
  PROVE  StopsAhead(Len(x), [i \in DOMAIN x |-> LimitAt(x, i)])
<1>1. Len(x) \in Nat /\ DOMAIN x = 1 .. Len(x)
  OBVIOUS
<1>2. ASSUME NEW i \in 1 .. Len(x)
      PROVE  LimitAt(x, i).stop = 0 \/ LimitAt(x, i).stop \in i + 1 .. Len(x) + 1
  BY <1>1, LimitFacts
<1> QED BY <1>1, <1>2 DEF StopsAhead

LEMMA LimitMoved ==
  ASSUME NEW x, NEW s, NEW e, NEW y, NEW f, Replaced(x, s, e, y, f),
         NEW i \in Outside(s, e), i # s - 1, i \in DOMAIN x
  PROVE  /\ LimitAt(x, i).stop = 0 => LimitAt(y, Moved(s, e, f, i)).stop = 0
         /\ LimitAt(x, i).stop # 0 =>
              /\ LimitAt(x, i).stop \in Outside(s, e)
              /\ LimitAt(y, Moved(s, e, f, i)).stop = Moved(s, e, f, LimitAt(x, i).stop)
              /\ LimitAt(y, Moved(s, e, f, i)).count = LimitAt(x, i).count
<1> DEFINE M(k) == Moved(s, e, f, k)
<1>1. /\ x \in Seq(Tokens) /\ s \in 2 .. Len(x) /\ x[s - 1] \in FromOrJoin
  BY DEF Replaced
<1>2. i \in Int /\ M(i) \in Int
  <2>1. M(i) \in Outside(s, f)
    BY TokenMoved
  <2> QED BY <2>1 DEF Outside
<1>3. i + 1 \in Outside(s, e) /\ M(i + 1) = M(i) + 1
  BY TokenMoved
<1>4. /\ IsToken(y, M(i), {"limit"}) <=> IsToken(x, i, {"limit"})
      /\ IsNumber(y, M(i) + 1) <=> IsNumber(x, i + 1)
  BY <1>3, TokenMoved DEF IsNumber
<1>5. CASE ~ (IsToken(x, i, {"limit"}) /\ IsNumber(x, i + 1))
  BY <1>4, <1>5, LimitCases
<1>6. CASE IsToken(x, i, {"limit"}) /\ IsNumber(x, i + 1)
  <2>1. ~ IsNumber(x, s - 1) /\ ~ IsToken(x, s - 1, {","})
    BY <1>1, Kinds DEF IsNumber, IsToken
  <2>11. /\ i + 1 + 1 = i + 2 /\ i + 2 + 1 = i + 3 /\ i + 3 + 1 = i + 4
        /\ M(i) + 1 + 1 = M(i) + 2 /\ M(i) + 2 + 1 = M(i) + 3 /\ M(i) + 3 + 1 = M(i) + 4
    <3> HIDE DEF M
    <3> QED BY <1>2
  <2>2. i + 1 # s - 1 /\ i + 1 + 1 = i + 2 /\ M(i) + 1 + 1 = M(i) + 2
    <3>1. i + 1 # s - 1
      BY <2>1, <1>6, Zenon
    <3> QED BY <3>1, <2>11
  <2>3. i + 2 \in Outside(s, e) /\ M(i + 2) = M(i) + 2
    <3>1. i + 1 + 1 \in Outside(s, e) /\ M(i + 1 + 1) = M(i + 1) + 1
      BY <1>3, <2>2, TokenMoved
    <3> QED BY <3>1, <2>2, <1>3
  <2>4. IsToken(y, M(i) + 2, {","}) <=> IsToken(x, i + 2, {","})
    <3>1. \A T : IsToken(y, M(i + 2), T) <=> IsToken(x, i + 2, T)
      BY <2>3, TokenMoved
    <3>2. \A T : IsToken(y, M(i) + 2, T) <=> IsToken(x, i + 2, T)
      BY <3>1, <2>3
    <3> QED BY <3>2, Zenon
  <2>5. y[M(i) + 1] = x[i + 1]
    <3>1. i + 1 \in DOMAIN x
      BY <1>6 DEF IsNumber, IsToken
    <3> QED BY <3>1, <1>3, TokenMoved
  <2>6. CASE IsToken(x, i + 2, {","})
    <3>1. i + 2 # s - 1 /\ i + 2 + 1 = i + 3 /\ M(i) + 2 + 1 = M(i) + 3
      <4>1. i + 2 # s - 1
        BY <2>1, <2>6, Zenon
      <4> QED BY <4>1, <2>11
    <3>2. i + 3 \in Outside(s, e) /\ M(i + 3) = M(i) + 3
      <4>1. i + 2 + 1 \in Outside(s, e) /\ M(i + 2 + 1) = M(i + 2) + 1
        BY <2>3, <3>1, TokenMoved
      <4> QED BY <4>1, <3>1, <2>3
    <3>3. IsNumber(y, M(i) + 3) <=> IsNumber(x, i + 3)
      BY <3>2, TokenMoved DEF IsNumber
    <3>4. CASE IsNumber(x, i + 3)
      <4>1. /\ LimitAt(x, i).count = Numeral[x[i + 3]] /\ LimitAt(x, i).stop = i + 4
            /\ LimitAt(y, M(i)).count = Numeral[y[M(i) + 3]] /\ LimitAt(y, M(i)).stop = M(i) + 4
        BY <1>4, <1>6, <2>4, <2>6, <3>3, <3>4, LimitCases
      <4>2. i + 3 # s - 1 /\ i + 3 + 1 = i + 4 /\ M(i) + 3 + 1 = M(i) + 4
        <5>1. i + 3 # s - 1
          BY <2>1, <3>4, Zenon
        <5> QED BY <5>1, <2>11
      <4>3. i + 4 \in Outside(s, e) /\ M(i + 4) = M(i) + 4
        <5>1. i + 3 + 1 \in Outside(s, e) /\ M(i + 3 + 1) = M(i + 3) + 1
          BY <3>2, <4>2, TokenMoved
        <5> QED BY <5>1, <4>2, <3>2
      <4>4. y[M(i) + 3] = x[i + 3]
        <5>1. i + 3 \in DOMAIN x
          BY <3>4 DEF IsNumber, IsToken
        <5> QED BY <5>1, <3>2, TokenMoved
      <4>5. i + 4 # 0
        <5>1. i >= 1
          BY <1>1, SeqOfTokens
        <5> QED BY <5>1, <1>2
      <4> QED BY <4>1, <4>3, <4>4, <4>5
    <3>5. CASE ~ IsNumber(x, i + 3)
      <4>1. /\ LimitAt(x, i).count = Numeral[x[i + 1]] /\ LimitAt(x, i).stop = i + 2
            /\ LimitAt(y, M(i)).count = Numeral[y[M(i) + 1]] /\ LimitAt(y, M(i)).stop = M(i) + 2
        BY <1>4, <1>6, <3>3, <3>5, LimitCases
      <4>2. i + 2 # 0
        <5>1. i >= 1
          BY <1>1, SeqOfTokens
        <5> QED BY <5>1, <1>2
      <4> QED BY <4>1, <4>2, <2>3, <2>5
    <3> QED BY <3>4, <3>5
  <2>7. CASE ~ IsToken(x, i + 2, {","})
    <3>1. /\ LimitAt(x, i).count = Numeral[x[i + 1]] /\ LimitAt(x, i).stop = i + 2
          /\ LimitAt(y, M(i)).count = Numeral[y[M(i) + 1]] /\ LimitAt(y, M(i)).stop = M(i) + 2
      BY <1>4, <1>6, <2>4, <2>7, LimitCases
    <3>2. i + 2 # 0
      <4>1. i >= 1
        BY <1>1, SeqOfTokens
      <4> QED BY <4>1, <1>2
    <3> QED BY <3>1, <3>2, <2>3, <2>5
  <2> QED BY <2>6, <2>7
<1> QED BY <1>5, <1>6

SameLimit(x, y) ==
  /\ Len(LimitsOf(y)) = Len(LimitsOf(x))
  /\ \A k \in DOMAIN LimitsOf(x) : LimitsOf(y)[k].count = LimitsOf(x)[k].count

LEMMA LimitsPlaces ==
  ASSUME NEW x \in Seq(Tokens)
  PROVE  DOMAIN LimitsOf(x) = 1 .. Len(LimitsOf(x)) /\ Len(LimitsOf(x)) \in Nat
<1> DEFINE m == [i \in DOMAIN x |-> LimitAt(x, i)]
<1>1. StopsAhead(Len(x), m)
  BY LimitsStopAhead
<1> HIDE DEF m
<1>2. DOMAIN FindIter(x, m) = 1 .. Len(FindIter(x, m)) /\ Len(FindIter(x, m)) \in Nat
  BY <1>1, FindIterPlaces
<1> QED BY <1>2 DEF LimitsOf, m

LEMMA LimitsReplaced ==
  ASSUME NEW x, NEW s, NEW e, NEW y, NEW f, Replaced(x, s, e, y, f), ~ IsToken(x, e, Follows)
  PROVE  SameLimit(x, y)
<1> DEFINE m1 == [i \in DOMAIN x |-> LimitAt(x, i)]
           m2 == [i \in DOMAIN y |-> LimitAt(y, i)]
           M(k) == Moved(s, e, f, k)
<1>1. /\ x \in Seq(Tokens) /\ y \in Seq(Tokens)
      /\ s \in 2 .. Len(x) /\ e \in s + 1 .. Len(x) + 1 /\ f \in s + 1 .. Len(y) + 1
  BY DEF Replaced
<1>2. /\ Len(x) \in Nat /\ Len(y) \in Nat /\ DOMAIN x = 1 .. Len(x) /\ DOMAIN y = 1 .. Len(y)
      /\ s \in Int /\ e \in Int /\ f \in Int /\ s < e /\ s < f
  BY <1>1, SeqOfTokens
<1>3. StopsAhead(Len(x), m1) /\ StopsAhead(Len(y), m2)
  BY <1>1, LimitsStopAhead
<1>4. /\ \A i \in DOMAIN x : m1[i] = LimitAt(x, i)
      /\ \A i \in DOMAIN y : m2[i] = LimitAt(y, i)
  OBVIOUS
<1>5. LimitsOf(x) = FindIter(x, m1) /\ LimitsOf(y) = FindIter(y, m2)
  BY DEF LimitsOf
<1> HIDE DEF m1, m2
<1>6. \A i \in s - 1 .. e - 1 : m1[i].stop = 0
  <2>1. \A i \in s - 1 .. e - 1 : LimitAt(x, i).stop = 0
    BY NoMatchInName
  <2>2. \A i \in s - 1 .. e - 1 : i \in DOMAIN x
    BY <1>1, <1>2
  <2> QED BY <2>1, <2>2, <1>4
<1>7. \A i \in s - 1 .. f - 1 : m2[i].stop = 0
  <2>1. ~ IsToken(y, f, Follows)
    <3>1. e \in Outside(s, e) /\ M(e) = f
      BY <1>2 DEF Outside, Moved
    <3> QED BY <3>1, TokenMoved
  <2>2. \A i \in s - 1 .. f - 1 : LimitAt(y, i).stop = 0
    BY <2>1, ReplacedBack, NoMatchInName
  <2>3. \A i \in s - 1 .. f - 1 : i \in DOMAIN y
    BY <1>1, <1>2
  <2> QED BY <2>2, <2>3, <1>4
<1>8. ASSUME NEW i \in DOMAIN x, i \in Outside(s, e), i # s - 1
      PROVE  /\ m1[i] = LimitAt(x, i) /\ m2[M(i)] = LimitAt(y, M(i))
             /\ m1[i].stop = 0 => m2[M(i)].stop = 0
             /\ m1[i].stop # 0 => m1[i].stop \in Outside(s, e) /\ m2[M(i)].stop = M(m1[i].stop)
  <2>1. M(i) \in DOMAIN y
    BY <1>8, TokenMoved
  <2>2. m1[i] = LimitAt(x, i) /\ m2[M(i)] = LimitAt(y, M(i))
    BY <2>1, <1>4
  <2> QED BY <2>2, <1>8, LimitMoved
<1>9. /\ Len(FindIter(y, m2)) = Len(FindIter(x, m1))
      /\ \A k \in 1 .. Len(FindIter(x, m1)) : \A i : i = Starts(Len(x), m1)[1][k] =>
           /\ i \in DOMAIN x /\ i \in Outside(s, e) /\ i # s - 1
           /\ Starts(Len(y), m2)[1][k] = M(i)
           /\ FindIter(x, m1)[k] = m1[i] /\ m1[i].stop # 0
           /\ FindIter(y, m2)[k] = m2[M(i)]
  BY <1>3, <1>6, <1>7, <1>8, ScanReplaced
<1>10. ASSUME NEW k \in DOMAIN LimitsOf(x) PROVE LimitsOf(y)[k].count = LimitsOf(x)[k].count
  <2> DEFINE i == Starts(Len(x), m1)[1][k]
  <2>1. k \in 1 .. Len(FindIter(x, m1))
    BY <1>1, <1>5, LimitsPlaces
  <2>2. /\ i \in DOMAIN x /\ i \in Outside(s, e) /\ i # s - 1
        /\ LimitsOf(x)[k] = m1[i] /\ m1[i].stop # 0
        /\ LimitsOf(y)[k] = m2[M(i)]
    BY <2>1, <1>5, <1>9
  <2> HIDE DEF i
  <2>3. LimitsOf(x)[k] = LimitAt(x, i) /\ LimitsOf(y)[k] = LimitAt(y, M(i)) /\ LimitAt(x, i).stop # 0
    BY <2>2, <1>8
  <2> QED BY <2>2, <2>3, LimitMoved
<1> QED BY <1>5, <1>9, <1>10 DEF SameLimit

LEMMA TablesInOrder ==
  ASSUME NEW x \in Seq(Tokens), NEW k \in DOMAIN TablesOf(x), NEW j \in DOMAIN TablesOf(x), j < k
  PROVE  /\ TablesOf(x)[j].tokenEnd \in 1 .. Len(x) + 1
         /\ TablesOf(x)[j].tokenEnd <= TablesOf(x)[k].tokenStart - 1
<1> DEFINE n == Len(TablesOf(x))
           t == TableStarts(x)[1]
           m == TableMatches(x)
<1>1. Len(x) \in Nat /\ DOMAIN x = 1 .. Len(x)
  BY SeqOfTokens
<1>2. /\ n = Len(t) /\ n \in Nat /\ DOMAIN TablesOf(x) = 1 .. n
      /\ \A i \in 1 .. n :
           /\ t[i] \in 1 .. Len(x)
           /\ Refers(x, t[i])
           /\ TablesOf(x)[i].tokenStart = t[i] + 1
           /\ TablesOf(x)[i].tokenEnd = WordStop(x, t[i] + 1)
  BY TablesPlaces
<1>3. StopsAhead(Len(x), m) /\ \A i \in 1 .. Len(x) : m[i] = TableAt(x, i)
  BY <1>1, TablesStopAhead DEF TableMatches
<1>4. j \in 1 .. k - 1 /\ k \in 1 .. Len(t) /\ j \in 1 .. n /\ k \in 1 .. n /\ 1 \in 1 .. Len(x) + 1
  BY <1>1, <1>2
<1>5. m[t[j]].stop <= t[k]
  BY <1>1, <1>3, <1>4, ChainedOrder DEF TableStarts
<1> HIDE DEF n, t, m
<1>6. TableAt(x, t[j]).stop <= t[k]
  BY <1>2, <1>3, <1>4, <1>5
<1>7. /\ WordStop(x, t[j] + 1) \in t[j] + 2 .. Len(x) + 1
      /\ TableAt(x, t[j]).stop \in WordStop(x, t[j] + 1) .. Len(x) + 1
  BY <1>2, <1>4, TableFacts
<1>8. TablesOf(x)[j].tokenEnd = WordStop(x, t[j] + 1) /\ TablesOf(x)[k].tokenStart = t[k] + 1
  BY <1>2, <1>4
<1>9. t[j] \in 1 .. Len(x) /\ t[k] \in 1 .. Len(x)
  BY <1>2, <1>4
<1> QED BY <1>1, <1>6, <1>7, <1>8, <1>9

(* Every name is followed by what does not turn it into another clause.    *)
TablesStandAlone(x) == \A i \in DOMAIN TablesOf(x) : ~ IsToken(x, TablesOf(x)[i].tokenEnd, Follows)

SameStart(x, y) == (IsWord(y, 1) <=> IsWord(x, 1)) /\ y[1] = x[1]

KeepsClauses(x, k, z) ==
  /\ SamePredicates(x, z)
  /\ SameLimit(x, z)
  /\ SameStart(x, z)
  /\ \A j \in DOMAIN TablesOf(x) : j < k => ~ IsToken(z, TablesOf(x)[j].tokenEnd, Follows)

LEMMA KeepsClausesStep ==
  ASSUME NEW x \in Seq(Tokens), NEW targets, NEW k \in DOMAIN TablesOf(x),
         NEW z, KeepsTables(x, targets, k + 1, z), KeepsClauses(x, k + 1, z),
         NEW y, NEW f, Replaced(z, TablesOf(x)[k].tokenStart, TablesOf(x)[k].tokenEnd, y, f)
  PROVE  KeepsClauses(x, k, y)
<1> DEFINE s == TablesOf(x)[k].tokenStart
           e == TablesOf(x)[k].tokenEnd
           n == Len(TablesOf(x))
<1>1. n \in Nat /\ DOMAIN TablesOf(x) = 1 .. n
  BY TablesPlaces
<1>2. k \in 1 .. n /\ k < k + 1 /\ \A j \in 1 .. n : j < k => j < k + 1
  BY <1>1
<1>3. /\ z \in Seq(Tokens) /\ y \in Seq(Tokens)
      /\ s \in 2 .. Len(z) /\ e \in s + 1 .. Len(z) + 1 /\ f \in s + 1 .. Len(y) + 1
  BY DEF Replaced
<1>4. Len(z) \in Nat /\ s \in Int /\ e \in Int /\ s >= 2
  BY <1>3, SeqOfTokens
<1>5. ~ IsToken(z, e, Follows)
  BY <1>2 DEF KeepsClauses
<1>6. SamePredicates(x, z) /\ SameLimit(x, z) /\ SameStart(x, z)
  BY DEF KeepsClauses
<1>7. SamePredicates(z, y) /\ SameLimit(z, y)
  BY <1>5, PredicatesReplaced, LimitsReplaced
<1>8. SamePredicates(x, y)
  <2>1. /\ DOMAIN PredicatesOf(x) = 1 .. Len(PredicatesOf(x))
        /\ DOMAIN PredicatesOf(z) = 1 .. Len(PredicatesOf(z))
    BY <1>3, PredicatesPlaces
  <2>2. DOMAIN PredicatesOf(z) = DOMAIN PredicatesOf(x)
    BY <2>1, <1>6 DEF SamePredicates
  <2> QED BY <2>2, <1>6, <1>7 DEF SamePredicates
<1>9. SameLimit(x, y)
  <2>1. DOMAIN LimitsOf(x) = 1 .. Len(LimitsOf(x)) /\ DOMAIN LimitsOf(z) = 1 .. Len(LimitsOf(z))
    BY <1>3, LimitsPlaces
  <2>2. DOMAIN LimitsOf(z) = DOMAIN LimitsOf(x)
    BY <2>1, <1>6 DEF SameLimit
  <2> QED BY <2>2, <1>6, <1>7 DEF SameLimit
<1> HIDE DEF s, e
<1>10. Replaced(z, s, e, y, f)
  BY DEF s, e
<1>11. SameStart(x, y)
  <2>1. 1 \in Outside(s, e) /\ Moved(s, e, f, 1) = 1 /\ 1 \in DOMAIN z
    BY <1>3, <1>4, SeqOfTokens DEF Outside, Moved
  <2>2. y[1] = z[1] /\ \A T : IsToken(y, 1, T) <=> IsToken(z, 1, T)
    BY <1>10, <2>1, TokenMoved
  <2> QED BY <2>2, <1>6 DEF SameStart, IsWord
<1>12. ASSUME NEW j \in DOMAIN TablesOf(x), j < k PROVE ~ IsToken(y, TablesOf(x)[j].tokenEnd, Follows)
  <2> DEFINE g == TablesOf(x)[j].tokenEnd
  <2>1. j \in 1 .. n /\ j < k + 1
    BY <1>1, <1>2, <1>12
  <2>2. /\ TablesOf(z)[j].tokenEnd = g /\ TablesOf(z)[k].tokenStart = s
        /\ Len(TablesOf(z)) = n
    BY <1>1, <1>2, <2>1 DEF KeepsTables, s
  <2>3. DOMAIN TablesOf(z) = 1 .. n
    BY <1>3, <2>2, TablesPlaces
  <2>4. g \in 1 .. Len(z) + 1 /\ g <= s - 1
    <3>1. j \in DOMAIN TablesOf(z) /\ k \in DOMAIN TablesOf(z)
      BY <1>2, <2>1, <2>3
    <3> QED BY <3>1, <1>3, <1>12, <2>2, TablesInOrder
  <2> HIDE DEF g
  <2>5. g \in Outside(s, e) /\ Moved(s, e, f, g) = g
    BY <1>4, <2>4 DEF Outside, Moved
  <2>6. ~ IsToken(z, g, Follows)
    BY <1>12, <2>1 DEF KeepsClauses, g
  <2>7. IsToken(y, g, Follows) <=> IsToken(z, g, Follows)
    BY <1>10, <2>5, TokenMoved
  <2> QED BY <2>6, <2>7 DEF g
<1> QED BY <1>8, <1>9, <1>11, <1>12 DEF KeepsClauses

(* A rewritten statement has the equalities, the LIMIT and the type it had *)
(* before, and the value of an equality in which no table is named: the    *)
(* parser's other two expressions see a physical name as they saw the      *)
(* logical one, if the token after no name makes it a column or a LIMIT.   *)
THEOREM RewriteKeepsClauses ==
  ASSUME NEW x, WellFormed(x), TablesStandAlone(x), NEW targets,
         \A i \in DOMAIN TablesOf(x) : targets[i].rewrite => targets[i].physical \in DOMAIN Spelling
  PROVE  LET y == Rewrite(x, TablesOf(x), targets)
         IN SamePredicates(x, y) /\ SameLimit(x, y) /\ SameStart(x, y)
<1> DEFINE n == Len(TablesOf(x))
           P == [k \in 1 .. n + 1 |->
                  {z \in Seq(Tokens) : KeepsTables(x, targets, k, z) /\ KeepsClauses(x, k, z)}]
           y == Rewrite(x, TablesOf(x), targets)
<1>1. x \in Seq(Tokens)
  BY DEF WellFormed
<1>2. n \in Nat /\ DOMAIN TablesOf(x) = 1 .. n
  BY <1>1, TablesPlaces
<1>3. x \in P[n + 1]
  <2>1. \A j \in 1 .. n : ~ (j >= n + 1)
    BY <1>2
  <2>2. KeepsTables(x, targets, n + 1, x)
    BY <1>2, <2>1 DEF KeepsTables
  <2>3. KeepsClauses(x, n + 1, x)
    BY DEF KeepsClauses, SamePredicates, SameLimit, SameStart, TablesStandAlone
  <2>4. n + 1 \in 1 .. n + 1
    BY <1>2
  <2> QED BY <1>1, <2>2, <2>3, <2>4
<1>4. ASSUME NEW k \in 1 .. n, NEW z \in P[k + 1]
      PROVE  RewriteTable(z, TablesOf(x)[k], targets[k]) \in P[k]
  <2> DEFINE r == RewriteTable(z, TablesOf(x)[k], targets[k])
  <2>1. k + 1 \in 1 .. n + 1 /\ k \in 1 .. n + 1 /\ k \in DOMAIN TablesOf(x)
    BY <1>2
  <2>2. KeepsTables(x, targets, k + 1, z) /\ KeepsClauses(x, k + 1, z)
    BY <2>1
  <2>3. /\ KeepsTables(x, targets, k, r)
        /\ r = z \/ \E f : Replaced(z, TablesOf(x)[k].tokenStart, TablesOf(x)[k].tokenEnd, r, f)
    BY <1>1, <2>1, <2>2, KeepsTablesStep
  <2>4. KeepsClauses(x, k, r)
    <3>1. CASE r = z
      <4>1. \A j \in DOMAIN TablesOf(x) : j < k => j < k + 1
        BY <1>2
      <4> QED BY <3>1, <4>1, <2>2 DEF KeepsClauses
    <3>2. CASE \E f : Replaced(z, TablesOf(x)[k].tokenStart, TablesOf(x)[k].tokenEnd, r, f)
      BY <3>2, <1>1, <2>1, <2>2, KeepsClausesStep
    <3> QED BY <3>1, <3>2, <2>3
  <2>5. r \in Seq(Tokens)
    BY <2>3 DEF KeepsTables, WellFormed
  <2> QED BY <2>1, <2>3, <2>4, <2>5
<1> HIDE DEF P
<1>5. y \in P[1]
  BY <1>2, <1>3, <1>4, RewriteInduction
<1>6. KeepsClauses(x, 1, y)
  <2>1. 1 \in 1 .. n + 1
    BY <1>2
  <2> QED BY <2>1, <1>5 DEF P
<1> QED BY <1>6 DEF KeepsClauses

-----------------------------------------------------------------------------
(* A target is the record of an enabled route, and asking for the route's  *)
(* physical name gives the same target, which is not to be replaced.       *)
RouteRecord(p, rewrite) ==
  [logical |-> p.logical, physical |-> p.physical, ds |-> p.ds, value |-> p.value, rewrite |-> rewrite]

IsRouteOf(m, target, name) ==
  \E p \in m.routes, rewrite \in BOOLEAN :
    /\ p.enabled /\ p.ds \in m.datasources
    /\ target = RouteRecord(p, rewrite)
    /\ ~ rewrite => p.physical = name

LEMMA TheIsMember ==
  ASSUME NEW S, S # {}
  PROVE  The(S) \in S
BY DEF The

LEMMA RecordUnreplaced ==
  ASSUME NEW p, NEW rewrite \in BOOLEAN
  PROVE  [RouteRecord(p, rewrite) EXCEPT !.rewrite = FALSE] = RouteRecord(p, FALSE)
<1> DEFINE L == {p.logical, p.physical, p.ds, p.value}
           R == [logical : L, physical : L, ds : L, value : L, rewrite : BOOLEAN]
           y == [RouteRecord(p, rewrite) EXCEPT !.rewrite = FALSE]
<1>1. RouteRecord(p, rewrite) \in R /\ RouteRecord(p, FALSE) \in R
  BY DEF RouteRecord
<1>2. /\ y \in R
      /\ y.logical = p.logical /\ y.physical = p.physical /\ y.ds = p.ds /\ y.value = p.value
      /\ y.rewrite = FALSE
  BY <1>1 DEF RouteRecord
<1> HIDE DEF y
<1>3. y = RouteRecord(p, FALSE)
  BY <1>1, <1>2 DEF RouteRecord
<1> QED BY <1>3 DEF y

LEMMA TargetIsARoute ==
  ASSUME NEW m, NEW sql, NEW t, NEW ctx, ResolveTable(m, sql, t, ctx).outcome = "target"
  PROVE  IsRouteOf(m, ResolveTable(m, sql, t, ctx).target, t.name)
<1> DEFINE Good(got) == got.outcome = "target" => IsRouteOf(m, got.target, t.name)
<1>1. \A reason : Good(Rejected(reason))
  BY DEF Rejected
<1>2. Good(Raised)
  BY DEF Raised
<1>3. ASSUME NEW p \in EnabledByPhysicalName(m, t.name) PROVE Good(ResolvePhysical(m, p))
  <2>1. p \in m.routes /\ p.enabled /\ p.physical = t.name
    BY DEF EnabledByPhysicalName
  <2>2. CASE p.ds \notin m.datasources
    BY <2>2, <1>1 DEF ResolvePhysical
  <2>3. CASE p.ds \in m.datasources
    <3>1. ResolvePhysical(m, p).target = RouteRecord(p, FALSE)
      BY <2>3 DEF ResolvePhysical, Resolved, RouteRecord
    <3> QED BY <2>1, <2>3, <3>1 DEF IsRouteOf
  <2> QED BY <2>2, <2>3
<1>4. Good(ResolveUnknown(m, t))
  BY <1>1 DEF ResolveUnknown
<1>5. ASSUME NEW l, NEW value PROVE Good(ResolveRoute(m, l, value))
  <2> DEFINE routes == EnabledByRouteValue(m, l.name, value)
             route == The(routes)
  <2>1. CASE routes = {}
    BY <2>1, <1>1 DEF ResolveRoute, Multiple
  <2>2. CASE routes # {} /\ Multiple(routes)
    <3>1. ResolveRoute(m, l, value) = Raised
      BY <2>2 DEF ResolveRoute
    <3> QED BY <3>1, <1>2
  <2>3. CASE routes # {} /\ ~ Multiple(routes)
    <3>1. route \in m.routes /\ route.enabled /\ route.value = value /\ route.logical = l.name
      BY <2>3, TheIsMember DEF EnabledByRouteValue
    <3>2. ResolveRoute(m, l, value) =
            IF route.ds \notin m.datasources THEN Rejected("DATASOURCE_NOT_FOUND")
            ELSE Resolved([logical |-> l.name, physical |-> route.physical, ds |-> route.ds,
                           value |-> value, rewrite |-> TRUE])
      BY <2>3 DEF ResolveRoute
    <3>3. CASE route.ds \notin m.datasources
      BY <3>2, <3>3, <1>1
    <3>4. CASE route.ds \in m.datasources
      <4>1. ResolveRoute(m, l, value).target = RouteRecord(route, TRUE)
        <5> HIDE DEF routes
        <5> QED BY <3>1, <3>2, <3>4 DEF Resolved, RouteRecord
      <4> HIDE DEF route
      <4> QED BY <3>1, <3>4, <4>1 DEF IsRouteOf
    <3> QED BY <3>3, <3>4
  <2> QED BY <2>1, <2>2, <2>3
<1>6. ASSUME NEW l PROVE Good(ResolveLogical(m, l, sql, t, ctx))
  <2> DEFINE rules == EnabledRules(m, l.name)
             values == ExtractedValues(m, l, sql, t, ctx)
             eval == The(rules).eval
             missing == MissingFactors(m, l, sql, t, ctx)
  <2>1. CASE Multiple(rules)
    <3>1. ResolveLogical(m, l, sql, t, ctx) = Raised
      BY <2>1 DEF ResolveLogical, Multiple
    <3> QED BY <3>1, <1>2
  <2>2. CASE ~ Multiple(rules) /\ rules = {}
    BY <2>2, <1>1 DEF ResolveLogical
  <2>3. CASE ~ Multiple(rules) /\ rules # {} /\ missing # {}
    BY <2>3, <1>1 DEF ResolveLogical
  <2>4. CASE ~ Multiple(rules) /\ rules # {} /\ missing = {} /\ values \notin DOMAIN eval
    BY <2>4, <1>2 DEF ResolveLogical
  <2>5. CASE ~ Multiple(rules) /\ rules # {} /\ missing = {} /\ values \in DOMAIN eval
    <3>1. ResolveLogical(m, l, sql, t, ctx) = ResolveRoute(m, l, eval[values])
      BY <2>5 DEF ResolveLogical
    <3> HIDE DEF eval, values, rules, missing, Good
    <3> QED BY <3>1, <1>5
  <2> QED BY <2>1, <2>2, <2>3, <2>4, <2>5
<1> DEFINE physical == EnabledByPhysicalName(m, t.name)
           logical == EnabledByName(m, t.name)
<1>7. CASE Multiple(physical)
  <2>1. ResolveTable(m, sql, t, ctx) = Raised
    BY <1>7 DEF ResolveTable, Multiple
  <2> QED BY <2>1, <1>2
<1>8. CASE ~ Multiple(physical) /\ physical # {}
  <2>1. ResolveTable(m, sql, t, ctx) = ResolvePhysical(m, The(physical))
    BY <1>8 DEF ResolveTable
  <2>2. The(physical) \in physical
    BY <1>8, TheIsMember
  <2>3. Good(ResolvePhysical(m, The(physical)))
    BY <1>3, <2>2
  <2> QED BY <2>1, <2>3
<1>9. CASE physical = {} /\ logical = {}
  <2>1. ResolveTable(m, sql, t, ctx) = ResolveUnknown(m, t)
    BY <1>9 DEF ResolveTable, Multiple
  <2> QED BY <2>1, <1>4
<1>10. CASE physical = {} /\ logical # {}
  <2>1. ResolveTable(m, sql, t, ctx) = ResolveLogical(m, The(logical), sql, t, ctx)
    BY <1>10 DEF ResolveTable, Multiple
  <2>2. Good(ResolveLogical(m, The(logical), sql, t, ctx))
    BY <1>6
  <2> QED BY <2>1, <2>2
<1>11. Good(ResolveTable(m, sql, t, ctx))
  BY <1>7, <1>8, <1>9, <1>10
<1> QED BY <1>11

LEMMA RouteIsItsTarget ==
  ASSUME NEW m, NEW sql, NEW t, NEW ctx, NEW p \in m.routes, p.enabled, p.ds \in m.datasources,
         p.physical = t.name, ~ Multiple(EnabledByPhysicalName(m, t.name))
  PROVE  ResolveTable(m, sql, t, ctx) = Resolved(RouteRecord(p, FALSE))
<1> DEFINE physical == EnabledByPhysicalName(m, t.name)
<1>1. p \in physical
  BY DEF EnabledByPhysicalName
<1>2. The(physical) = p
  BY <1>1, TheIsMember DEF Multiple
<1>3. ResolveTable(m, sql, t, ctx) = ResolvePhysical(m, The(physical))
  <2>1. physical # {}
    BY <1>1
  <2> QED BY <2>1 DEF ResolveTable
<1> HIDE DEF physical
<1> QED BY <1>2, <1>3 DEF ResolvePhysical, Resolved, RouteRecord

LEMMA EmptyOrNot ==
  ASSUME NEW n \in Nat, NEW F, F = [k \in 1 .. n |-> F[k]]
  PROVE  F = <<>> <=> n = 0
<1>1. CASE n = 0
  BY <1>1
<1>2. CASE n # 0
  <2>1. 1 \in DOMAIN F
    BY <1>2
  <2> QED BY <2>1, <1>2
<1> QED BY <1>1, <1>2

LEMMA FindIterEmpty ==
  ASSUME NEW x \in Seq(Tokens), NEW matches, StopsAhead(Len(x), matches)
  PROVE  FindIter(x, matches) = <<>> <=> Len(FindIter(x, matches)) = 0
<1> DEFINE F == FindIter(x, matches)
           s == Starts(Len(x), matches)[1]
<1>1. /\ F = [k \in 1 .. Len(s) |-> matches[s[k]]]
      /\ Len(F) = Len(s) /\ Len(F) \in Nat
  BY FindIterPlaces
<1> HIDE DEF F, s
<1>2. F = [k \in 1 .. Len(F) |-> F[k]]
  BY <1>1
<1> QED BY <1>1, <1>2, EmptyOrNot DEF F

(* What Parse makes of the LIMIT and of the start of the rewritten text.   *)
LEMMA ParsedTheSame ==
  ASSUME NEW x \in Seq(Tokens), NEW y \in Seq(Tokens), SameLimit(x, y), SameStart(x, y)
  PROVE  /\ Parse(y).limit = Parse(x).limit
         /\ Parse(y).hasLimit = Parse(x).hasLimit
         /\ Parse(y).type = Parse(x).type
<1>1. ASSUME NEW z \in Seq(Tokens)
      PROVE  LimitsOf(z) = <<>> <=> Len(LimitsOf(z)) = 0
  <2>1. StopsAhead(Len(z), [i \in DOMAIN z |-> LimitAt(z, i)])
    BY LimitsStopAhead
  <2> QED BY <2>1, FindIterEmpty DEF LimitsOf
<1>2. /\ DOMAIN LimitsOf(x) = 1 .. Len(LimitsOf(x)) /\ Len(LimitsOf(x)) \in Nat
      /\ Len(LimitsOf(y)) = Len(LimitsOf(x))
      /\ \A k \in DOMAIN LimitsOf(x) : LimitsOf(y)[k].count = LimitsOf(x)[k].count
  BY LimitsPlaces DEF SameLimit
<1>3. LimitsOf(y) = <<>> <=> LimitsOf(x) = <<>>
  BY <1>1, <1>2
<1>4. LimitsOf(x) # <<>> => LimitsOf(y)[1].count = LimitsOf(x)[1].count
  BY <1>1, <1>2
<1> QED BY <1>3, <1>4 DEF Parse, SameStart

(* The verdict of the filters depends on no more than this of a statement. *)
LEMMA VerdictTheSame ==
  ASSUME NEW m, NEW a, NEW b, b.type = a.type, b.hasLimit = a.hasLimit, b.limit = a.limit,
         NEW s, NEW t, DatasourcesOf(s) = DatasourcesOf(t)
  PROVE  FilterVerdict(m, b, s) = FilterVerdict(m, a, t)
BY DEF FilterVerdict

(* Whatever a statement that is checked looks like, if the names in it     *)
(* stand alone and the keys are clear of them: checking the rewritten text *)
(* changes nothing.                                                        *)
THEOREM StandingAloneIsFixed ==
  ASSUME NEW x, WellFormed(x), TablesStandAlone(x),
         \A k \in DOMAIN PredicatesOf(x) : PredicatesOf(x)[k].column = "uid" => ClearPredicate(x, k)
  PROVE  IsFixedOnceChecked(x)
<1> DEFINE parsed   == Parse(x)
           resolved == Resolve(parsed)
           old      == Targets(resolved)
           y        == Rewrite(x, TablesOf(x), old)
           again    == Parse(y)
           anew     == Resolve(again)
           n        == Len(TablesOf(x))
<1>1. x \in Seq(Tokens) /\ n \in Nat /\ DOMAIN TablesOf(x) = 1 .. n
  BY TablesPlaces DEF WellFormed
<1>2. parsed.tables = TablesOf(x) /\ again.tables = TablesOf(y)
  BY DEF Parse
<1>3. SUFFICES ASSUME Allowed(resolved), \A i \in DOMAIN old : old[i].physical \in DOMAIN Spelling
               PROVE  /\ OnlyNamesDiffer(parsed, old, again)
                      /\ (\A i \in DOMAIN old : ~Multiple(EnabledByPhysicalName(Metadata, old[i].physical))) =>
                           /\ Allowed(anew)
                           /\ Targets(anew) = [i \in DOMAIN old |-> [old[i] EXCEPT !.rewrite = FALSE]]
                           /\ FilterVerdict(Metadata, again, Targets(anew)) = FilterVerdict(Metadata, parsed, old)
  BY <1>2 DEF IsFixedOnceChecked
<1>4. DOMAIN resolved = 1 .. n /\ DOMAIN old = 1 .. n
  BY <1>1, <1>2 DEF Resolve, Targets
<1>5. \A i \in 1 .. n : /\ resolved[i] = ResolveTable(Metadata, parsed, TablesOf(x)[i], <<>>)
                        /\ resolved[i].outcome = "target"
                        /\ old[i] = resolved[i].target
  BY <1>1, <1>2, <1>3, <1>4 DEF Resolve, Targets, Allowed
<1> HIDE DEF parsed, resolved, old
<1>6. ASSUME NEW i \in 1 .. n PROVE IsRouteOf(Metadata, old[i], TablesOf(x)[i].name)
  BY <1>5, TargetIsARoute
<1>7. \A i \in DOMAIN TablesOf(x) : old[i].rewrite => old[i].physical \in DOMAIN Spelling
  BY <1>1, <1>3, <1>4
<1>8. /\ WellFormed(y) /\ Len(TablesOf(y)) = n
      /\ \A i \in 1 .. n :
           /\ TablesOf(y)[i].name = IF old[i].rewrite THEN old[i].physical ELSE TablesOf(x)[i].name
           /\ TablesOf(y)[i].alias = TablesOf(x)[i].alias
  <2>1. WellFormed(x) /\ DOMAIN TablesOf(x) = 1 .. n
    BY <1>1
  <2> QED BY <2>1, <1>7, RewriteKeepsTables, ZenonT(30)
<1>9. SamePredicates(x, y) /\ SameLimit(x, y) /\ SameStart(x, y)
  BY <1>7, RewriteKeepsClauses, Zenon
<1> HIDE DEF y
<1>10. y \in Seq(Tokens) /\ DOMAIN TablesOf(y) = 1 .. n
  BY <1>8, TablesPlaces DEF WellFormed
<1>11. ASSUME NEW i \in 1 .. n PROVE TablesOf(y)[i].name = old[i].physical
  <2>1. PICK p \in Metadata.routes, rewrite \in BOOLEAN :
          old[i] = RouteRecord(p, rewrite) /\ (~ rewrite => p.physical = TablesOf(x)[i].name)
    BY <1>6 DEF IsRouteOf
  <2> QED BY <2>1, <1>8 DEF RouteRecord
<1>12. again.limit = parsed.limit /\ again.hasLimit = parsed.hasLimit /\ again.type = parsed.type
  BY <1>1, <1>9, <1>10, ParsedTheSame DEF parsed
<1>13. OnlyNamesDiffer(parsed, old, again)
  <2>1. parsed.preds = PredicatesOf(x) /\ again.preds = PredicatesOf(y)
    BY DEF Parse, parsed
  <2>2. DOMAIN PredicatesOf(y) = DOMAIN PredicatesOf(x)
    BY <1>1, <1>9, <1>10, PredicatesPlaces DEF SamePredicates
  <2> HIDE DEF again
  <2>3. /\ Len(again.tables) = Len(parsed.tables)
        /\ \A i \in DOMAIN again.tables :
             /\ again.tables[i].name = old[i].physical
             /\ again.tables[i].alias = parsed.tables[i].alias
    BY <1>2, <1>8, <1>10, <1>11
  <2>4. /\ Len(again.preds) = Len(parsed.preds)
        /\ \A i \in DOMAIN again.preds :
             /\ again.preds[i].column = parsed.preds[i].column
             /\ again.preds[i].qualifier = parsed.preds[i].qualifier
             /\ parsed.preds[i].column = "uid" => again.preds[i].value = parsed.preds[i].value
    BY <1>9, <2>1, <2>2 DEF SamePredicates
  <2> QED BY <2>3, <2>4, <1>12, Zenon DEF OnlyNamesDiffer
<1>14. ASSUME \A i \in DOMAIN old : ~Multiple(EnabledByPhysicalName(Metadata, old[i].physical))
       PROVE  /\ Allowed(anew)
              /\ Targets(anew) = [i \in DOMAIN old |-> [old[i] EXCEPT !.rewrite = FALSE]]
              /\ FilterVerdict(Metadata, again, Targets(anew)) = FilterVerdict(Metadata, parsed, old)
  <2>1. ASSUME NEW i \in 1 .. n
        PROVE  ResolveTable(Metadata, again, TablesOf(y)[i], <<>>) = Resolved([old[i] EXCEPT !.rewrite = FALSE])
    <3>1. PICK p \in Metadata.routes, rewrite \in BOOLEAN :
            /\ p.enabled /\ p.ds \in Metadata.datasources
            /\ old[i] = RouteRecord(p, rewrite)
      BY <1>6 DEF IsRouteOf
    <3>2. p.physical = TablesOf(y)[i].name /\ old[i].physical = TablesOf(y)[i].name
      BY <3>1, <1>11 DEF RouteRecord
    <3>3. ~ Multiple(EnabledByPhysicalName(Metadata, TablesOf(y)[i].name))
      BY <3>2, <1>4, <1>14
    <3>4. ResolveTable(Metadata, again, TablesOf(y)[i], <<>>) = Resolved(RouteRecord(p, FALSE))
      <4> DEFINE t == TablesOf(y)[i]
      <4>1. /\ p \in Metadata.routes /\ p.enabled /\ p.ds \in Metadata.datasources
            /\ p.physical = t.name /\ ~ Multiple(EnabledByPhysicalName(Metadata, t.name))
        BY <3>1, <3>2, <3>3, Zenon
      <4> HIDE DEF t
      <4>2. ResolveTable(Metadata, again, t, <<>>) = Resolved(RouteRecord(p, FALSE))
        BY <4>1, RouteIsItsTarget
      <4> QED BY <4>2 DEF t
    <3>5. RouteRecord(p, FALSE) = [RouteRecord(p, rewrite) EXCEPT !.rewrite = FALSE]
      BY RecordUnreplaced
    <3> QED BY <3>1, <3>4, <3>5
  <2>2. anew = [i \in 1 .. n |-> Resolved([old[i] EXCEPT !.rewrite = FALSE])]
    BY <2>1, <1>2, <1>10 DEF Resolve
  <2> HIDE DEF anew, again
  <2>3. /\ DOMAIN anew = 1 .. n
        /\ \A i \in 1 .. n : anew[i].outcome = "target" /\ anew[i].target = [old[i] EXCEPT !.rewrite = FALSE]
    BY <2>2 DEF Resolved
  <2>4. n # 0
    <3>1. CASE n = 0
      <4>1. resolved = [i \in 1 .. n |-> resolved[i]]
        BY <1>2, <1>4, <1>1 DEF resolved, Resolve
      <4>2. resolved = <<>>
        BY <4>1, <3>1, <1>1, EmptyOrNot
      <4> QED BY <4>2, <1>3 DEF Allowed
    <3> QED BY <3>1
  <2>5. Allowed(anew)
    <3>1. 1 \in DOMAIN anew
      BY <2>3, <2>4, <1>1
    <3>2. anew # <<>>
      BY <3>1
    <3> QED BY <2>3, <3>2 DEF Allowed
  <2>6. Targets(anew) = [i \in 1 .. n |-> [old[i] EXCEPT !.rewrite = FALSE]]
    BY <2>3 DEF Targets
  <2>7. DatasourcesOf(Targets(anew)) = DatasourcesOf(old)
    <3>1. \A i \in 1 .. n : [old[i] EXCEPT !.rewrite = FALSE].ds = old[i].ds
      <4>1. ASSUME NEW i \in 1 .. n PROVE [old[i] EXCEPT !.rewrite = FALSE].ds = old[i].ds
        <5>1. PICK p \in Metadata.routes, rewrite \in BOOLEAN : old[i] = RouteRecord(p, rewrite)
          BY <1>6 DEF IsRouteOf
        <5> QED BY <5>1 DEF RouteRecord
      <4> QED BY <4>1
    <3>2. DOMAIN Targets(anew) = 1 .. n /\ \A i \in 1 .. n : Targets(anew)[i].ds = old[i].ds
      BY <2>6, <3>1
    <3> QED BY <3>2, <1>4 DEF DatasourcesOf
  <2> QED BY <2>5, <2>6, <2>7, <1>4, <1>12, VerdictTheSame
<1> QED BY <1>13, <1>14

-----------------------------------------------------------------------------
(* Why it holds of every statement: no name is followed as a column or a   *)
(* LIMIT would be, and what is compared with a quoted text is a note or    *)
(* compared with a number.                                                 *)
Keyed(x, v) == IsNumber(x, v + 1) /\ IsToken(x, v + 2, {x[v]})

Regular(x) ==
  /\ WellFormed(x)
  /\ Tame(x)
  /\ \A v \in DOMAIN x : IsToken(x, v, Quotes) /\ IsToken(x, v - 1, {"="}) =>
       IsToken(x, v - 2, {"note"}) \/ Keyed(x, v)

(* Two texts one after the other.                                          *)
LEMMA TokensBefore ==
  ASSUME NEW x \in Seq(Tokens), NEW c \in Seq(Tokens), NEW i \in Int, i <= Len(x), NEW T
  PROVE  IsToken(x \o c, i, T) <=> IsToken(x, i, T)
<1>1. Len(x) \in Nat /\ DOMAIN x = 1 .. Len(x) /\ Len(c) \in Nat
  BY SeqOfTokens
<1>2. /\ DOMAIN (x \o c) = 1 .. Len(x) + Len(c)
      /\ \A k \in 1 .. Len(x) : (x \o c)[k] = x[k]
  BY <1>1
<1>3. i \in 1 .. Len(x) + Len(c) <=> i \in 1 .. Len(x)
  BY <1>1
<1> QED BY <1>1, <1>2, <1>3, Zenon DEF IsToken

LEMMA TokensAfter ==
  ASSUME NEW x \in Seq(Tokens), NEW c \in Seq(Tokens), NEW i \in Int, i >= 1, NEW T
  PROVE  IsToken(x \o c, Len(x) + i, T) <=> IsToken(c, i, T)
<1>1. Len(x) \in Nat /\ DOMAIN c = 1 .. Len(c) /\ Len(c) \in Nat
  BY SeqOfTokens
<1>2. /\ DOMAIN (x \o c) = 1 .. Len(x) + Len(c)
      /\ \A k \in 1 .. Len(c) : (x \o c)[Len(x) + k] = c[k]
  BY <1>1
<1>3. Len(x) + i \in 1 .. Len(x) + Len(c) <=> i \in 1 .. Len(c)
  BY <1>1
<1> QED BY <1>1, <1>2, <1>3, Zenon DEF IsToken

LEMMA RegularConcat ==
  ASSUME NEW x, Regular(x), x # <<>>, NEW c, Regular(c), c # <<>>,
         c[1] \in Follows => x[Len(x)] \notin Heads \union Tails,
         x[Len(x)] \in FromOrJoin /\ c[1] \in Heads => ~ IsToken(c, WordStop(c, 1), Follows),
         x[Len(x)] = "=" /\ c[1] \in Quotes => IsToken(x, Len(x) - 1, {"note"}) \/ Keyed(c, 1)
  PROVE  /\ Regular(x \o c) /\ x \o c # <<>>
         /\ (x \o c)[Len(x \o c)] = c[Len(c)]
<1> DEFINE y == x \o c
           n == Len(x)
<1>1. /\ x \in Seq(Tokens) /\ c \in Seq(Tokens)
      /\ \A i \in DOMAIN x : IsToken(x, i, Tails) => IsWord(x, i - 1)
      /\ \A i \in DOMAIN c : IsToken(c, i, Tails) => IsWord(c, i - 1)
  BY DEF Regular, WellFormed
<1>2. /\ n \in Nat \ {0} /\ DOMAIN x = 1 .. n
      /\ Len(c) \in Nat \ {0} /\ DOMAIN c = 1 .. Len(c)
  BY <1>1, SeqOfTokens
<1>3. /\ y \in Seq(Tokens) /\ Len(y) = n + Len(c) /\ DOMAIN y = 1 .. n + Len(c)
      /\ y # <<>>
      /\ \A i \in 1 .. n : y[i] = x[i]
      /\ \A i \in 1 .. Len(c) : y[n + i] = c[i]
  BY <1>1, <1>2
<1>4. \A i \in Int : \A T : i <= n => (IsToken(y, i, T) <=> IsToken(x, i, T))
  BY <1>1, TokensBefore
<1>5. \A i \in Int : \A T : i >= 1 => (IsToken(y, n + i, T) <=> IsToken(c, i, T))
  BY <1>1, TokensAfter
<1> HIDE DEF y, n
<1>6. ~ IsToken(c, 1, Tails) /\ ~ IsToken(y, n + 1, Tails)
  <2>1. ~ IsToken(c, 1, Tails)
    BY <1>1, <1>2 DEF IsWord, IsToken
  <2> QED BY <2>1, <1>5
<1>7. \A i \in Int : i <= n => WordStop(y, i) = WordStop(x, i)
  <2>1. ASSUME NEW i \in Int, i <= n PROVE IsToken(y, i + 1, Tails) <=> IsToken(x, i + 1, Tails)
    <3>1. CASE i + 1 <= n
      BY <3>1, <1>4
    <3>2. CASE i = n
      BY <3>2, <1>2, <1>6 DEF IsToken
    <3> QED BY <3>1, <3>2, <2>1, <1>2
  <2> QED BY <2>1 DEF WordStop
<1>8. \A i \in Int : i >= 1 => WordStop(y, n + i) = n + WordStop(c, i)
  <2>1. ASSUME NEW i \in Int, i >= 1 PROVE IsToken(y, (n + i) + 1, Tails) <=> IsToken(c, i + 1, Tails)
    <3>1. (n + i) + 1 = n + (i + 1)
      BY <1>2
    <3> QED BY <3>1, <2>1, <1>5
  <2> QED BY <2>1, <1>2 DEF WordStop
<1>9. ASSUME NEW i \in DOMAIN y, IsToken(y, i, Tails) PROVE IsWord(y, i - 1)
  <2>1. CASE i <= n
    BY <2>1, <1>1, <1>2, <1>3, <1>4, <1>9 DEF IsWord
  <2>2. CASE i > n
    <3> DEFINE k == i - n
    <3>1. k \in 1 .. Len(c) /\ i = n + k
      BY <2>2, <1>2, <1>3
    <3>2. IsToken(c, k, Tails)
      BY <3>1, <1>5, <1>9
    <3>3. k # 1
      BY <3>2, <1>6
    <3>4. IsWord(c, k - 1) /\ k - 1 >= 1 /\ i - 1 = n + (k - 1)
      BY <3>1, <3>2, <3>3, <1>1, <1>2
    <3> HIDE DEF k
    <3> QED BY <3>1, <3>4, <1>5 DEF IsWord
  <2> QED BY <2>1, <2>2, <1>2, <1>3
<1>10. ASSUME NEW i \in DOMAIN y, Refers(y, i) PROVE ~ IsToken(y, WordStop(y, i + 1), Follows)
  <2>1. CASE i < n
    <3> DEFINE w == WordStop(x, i + 1)
    <3>1. i \in DOMAIN x /\ i + 1 \in Int /\ i + 1 <= n /\ i <= n
      BY <2>1, <1>2, <1>3
    <3>2. Refers(x, i) /\ WordStop(y, i + 1) = w
      BY <3>1, <1>4, <1>7, <1>10 DEF Refers, IsWord
    <3>3. ~ IsToken(x, w, Follows)
      BY <3>1, <3>2 DEF Regular, Tame, Refers, Follows
    <3>4. w \in i + 2 .. n + 1
      BY <3>1, <3>2, <1>1, WordFacts DEF Refers, n
    <3>5. CASE w <= n
      BY <3>2, <3>3, <3>4, <3>5, <1>4
    <3>6. CASE w = n + 1
      <4>1. x[n] \in Heads \union Tails
        BY <3>1, <3>2, <3>6, <1>2 DEF WordStop, IsToken, Refers, IsWord
      <4>2. ~ IsToken(c, 1, Follows)
        BY <4>1 DEF IsToken, n
      <4> QED BY <4>2, <3>2, <3>6, <1>5
    <3> QED BY <3>4, <3>5, <3>6, <1>2, <1>3
  <2>2. CASE i = n
    <3>1. x[n] \in FromOrJoin /\ c[1] \in Heads
      BY <2>2, <1>2, <1>4, <1>5, <1>10 DEF Refers, IsWord, IsToken
    <3>2. ~ IsToken(c, WordStop(c, 1), Follows) /\ WordStop(c, 1) >= 1 /\ WordStop(c, 1) \in Int
      BY <3>1 DEF WordStop, n
    <3>3. WordStop(y, n + 1) = n + WordStop(c, 1)
      BY <1>8
    <3> QED BY <3>2, <3>3, <2>2, <1>5
  <2>3. CASE i > n
    <3> DEFINE k == i - n
    <3>0. i \in 1 .. n + Len(c) /\ i \in Int /\ Len(c) \in Int /\ n \in Int
      BY <1>2, <1>3
    <3>1. k \in 1 .. Len(c) /\ i = n + k /\ i + 1 = n + (k + 1) /\ k + 1 \in Int /\ k + 1 >= 1
      BY <2>3, <3>0
    <3> HIDE DEF k
    <3>2. Refers(c, k)
      BY <3>1, <1>5, <1>10 DEF Refers, IsWord
    <3>3. ~ IsToken(c, WordStop(c, k + 1), Follows)
      BY <3>1, <3>2, <1>2 DEF Regular, Tame, Refers, Follows
    <3>4. WordStop(y, i + 1) = n + WordStop(c, k + 1) /\ WordStop(c, k + 1) \in Int /\ WordStop(c, k + 1) >= 1
      BY <3>1, <1>8 DEF WordStop
    <3> QED BY <3>3, <3>4, <1>5
  <2> QED BY <2>1, <2>2, <2>3, <1>2, <1>3
<1>11. ASSUME NEW v \in DOMAIN y, IsToken(y, v, Quotes), IsToken(y, v - 1, {"="})
       PROVE  IsToken(y, v - 2, {"note"}) \/ Keyed(y, v)
  <2>1. CASE v <= n
    <3>1. v \in DOMAIN x /\ IsToken(x, v, Quotes) /\ IsToken(x, v - 1, {"="})
      BY <2>1, <1>2, <1>3, <1>4, <1>11
    <3>2. CASE IsToken(x, v - 2, {"note"})
      BY <3>1, <3>2, <2>1, <1>2, <1>4
    <3>3. CASE Keyed(x, v)
      <4>1. v + 1 <= n /\ v + 2 <= n /\ v + 1 \in Int /\ v + 2 \in Int /\ y[v] = x[v]
        BY <3>1, <3>3, <1>2, <1>3 DEF Keyed, IsNumber, IsToken
      <4> QED BY <4>1, <3>3, <1>4 DEF Keyed, IsNumber
    <3> QED BY <3>1, <3>2, <3>3 DEF Regular
  <2>2. ASSUME NEW k \in 1 .. Len(c), v = n + k, Keyed(c, k) PROVE Keyed(y, v)
    <3>1. /\ v + 1 = n + (k + 1) /\ v + 2 = n + (k + 2) /\ k + 1 \in Int /\ k + 2 \in Int
          /\ k + 1 >= 1 /\ k + 2 >= 1 /\ y[v] = c[k]
      BY <2>2, <1>2, <1>3
    <3> QED BY <3>1, <2>2, <1>5 DEF Keyed, IsNumber
  <2>3. CASE v = n + 1
    <3>1. c[1] \in Quotes /\ x[n] = "="
      <4>1. IsToken(c, 1, Quotes)
        BY <2>3, <1>5, <1>11
      <4>2. IsToken(x, n, {"="})
        BY <2>3, <1>2, <1>4, <1>11
      <4> QED BY <4>1, <4>2 DEF IsToken
    <3>2. IsToken(x, n - 1, {"note"}) \/ Keyed(c, 1)
      BY <3>1 DEF n
    <3>3. CASE IsToken(x, n - 1, {"note"})
      <4>1. v - 2 = n - 1 /\ n - 1 \in Int /\ n - 1 <= n
        BY <2>3, <1>2
      <4> QED BY <4>1, <3>3, <1>4
    <3>4. CASE Keyed(c, 1)
      BY <3>4, <2>2, <2>3, <1>2
    <3> QED BY <3>2, <3>3, <3>4
  <2>4. CASE v > n + 1
    <3> DEFINE k == v - n
    <3>0. v \in 1 .. n + Len(c) /\ v \in Int /\ Len(c) \in Int /\ n \in Int
      BY <1>2, <1>3
    <3>1. /\ k \in 2 .. Len(c) /\ k \in 1 .. Len(c) /\ v = n + k /\ v - 1 = n + (k - 1)
          /\ v - 2 = n + (k - 2) /\ k - 1 >= 1
      BY <2>4, <3>0, SMTT(30)
    <3> HIDE DEF k
    <3>2. IsToken(c, k, Quotes) /\ IsToken(c, k - 1, {"="})
      BY <3>1, <1>5, <1>11
    <3>3. CASE IsToken(c, k - 2, {"note"})
      <4>1. k - 2 >= 1 /\ k - 2 \in Int
        BY <3>1, <3>3, <1>2 DEF IsToken
      <4> QED BY <4>1, <3>1, <3>3, <1>5
    <3>4. CASE Keyed(c, k)
      BY <3>1, <3>4, <2>2
    <3> QED BY <3>1, <3>2, <3>3, <3>4, <1>2 DEF Regular
  <2> QED BY <2>1, <2>3, <2>4, <1>2, <1>3
<1>12. Regular(y)
  BY <1>3, <1>9, <1>10, <1>11 DEF Regular, WellFormed, Tame, Refers, Follows
<1> QED BY <1>2, <1>3, <1>12 DEF y

LEMMA TameStandsAlone ==
  ASSUME NEW x \in Seq(Tokens), Tame(x)
  PROVE  TablesStandAlone(x)
<1>1. ASSUME NEW k \in DOMAIN TablesOf(x) PROVE ~ IsToken(x, TablesOf(x)[k].tokenEnd, Follows)
  <2> DEFINE i == TableStarts(x)[1][k]
  <2>1. i \in DOMAIN x /\ Refers(x, i) /\ TablesOf(x)[k].tokenEnd = WordStop(x, i + 1)
    BY SeqOfTokens, TablesPlaces
  <2> HIDE DEF i
  <2> QED BY <2>1 DEF Tame, Refers, Follows
<1> QED BY <1>1 DEF TablesStandAlone

(* A token that is no head names no table.                                 *)
LEMMA NotAHead ==
  ASSUME NEW x, NEW i, ~ IsWord(x, i)
  PROVE  ~ Refers(x, i)
BY Kinds DEF Refers, IsWord, IsToken

LEMMA NoHead ==
  ASSUME NEW x, NEW i,
         IsToken(x, i, Tails) \/ IsToken(x, i, {"."}) \/ IsToken(x, i, {"="})
           \/ IsNumber(x, i) \/ IsToken(x, i, Quotes)
  PROVE  ~ IsWord(x, i)
BY TokenAssumption DEF IsWord, IsNumber, IsToken, Quotes, Signs

(* From a word with a "." or a "=" after it to that sign, no table is      *)
(* named.                                                                  *)
LEMMA ClearWord ==
  ASSUME NEW x \in Seq(Tokens), NEW i \in Int, IsWord(x, i),
         IsToken(x, WordStop(x, i), {"."}) \/ IsToken(x, WordStop(x, i), {"="})
  PROVE  \A h \in i .. WordStop(x, i) : ~ Refers(x, h)
<1> DEFINE w == WordStop(x, i)
<1>1. ~ IsWord(x, w)
  BY NoHead
<1>2. ~ Refers(x, w)
  BY <1>1, NotAHead
<1>3. CASE IsToken(x, i + 1, Tails)
  <2>1. ~ IsWord(x, i + 1)
    BY <1>3, NoHead
  <2>2. ~ Refers(x, i) /\ ~ Refers(x, i + 1)
    BY <2>1, NotAHead DEF Refers
  <2>3. w = i + 2
    BY <1>3 DEF WordStop
  <2> QED BY <1>2, <2>2, <2>3
<1>4. CASE ~ IsToken(x, i + 1, Tails)
  <2>1. w = i + 1
    BY <1>4 DEF WordStop
  <2>2. ~ Refers(x, i)
    BY <1>1, <2>1 DEF Refers
  <2> QED BY <1>2, <2>1, <2>2
<1> QED BY <1>3, <1>4

LEMMA OneToken ==
  ASSUME NEW x \in Seq(Tokens), NEW i \in 1 .. Len(x), NEW j \in Int, j - i = 1
  PROVE  SubSeq(x, i, j - 1) = <<x[i]>>
<1> DEFINE s == SubSeq(x, i, j - 1)
<1>1. Len(x) \in Nat /\ i \in Nat /\ i >= 1 /\ i <= j /\ j <= Len(x) + 1 /\ j = i + 1
  BY SeqOfTokens
<1>2. s = [k \in 1 .. j - i |-> x[i + k - 1]]
  BY <1>1, SubSeqPlaces
<1> HIDE DEF s
<1>3. s = [k \in 1 .. 1 |-> x[i + k - 1]]
  BY <1>1, <1>2
<1>4. i + 1 - 1 = i
  BY <1>1
<1>5. s = [k \in 1 .. 1 |-> x[i]]
  BY <1>3, <1>4
<1>6. s = <<x[i]>>
  BY <1>5
<1> QED BY <1>6 DEF s

LEMMA ClearKey ==
  ASSUME NEW x, Regular(x), NEW i \in Int, Equates(x, i), WordAt(x, i) = "uid"
  PROVE  \A h \in WordStop(x, i) + 1 .. LiteralStop(x, WordStop(x, i) + 1) - 1 : ~ Refers(x, h)
<1> DEFINE w == WordStop(x, i)
           v == w + 1
<1>1. x \in Seq(Tokens) /\ IsWord(x, i) /\ IsToken(x, w, {"="}) /\ LiteralStop(x, v) # 0
  BY DEF Regular, WellFormed, Equates
<1>2. w \in i + 1 .. Len(x) + 1 /\ Len(x) \in Nat /\ v \in Int /\ i \in 1 .. Len(x) /\ w \in Int
  BY <1>1, WordFacts
<1>3. v \in 1 .. Len(x) /\ (IsNumber(x, v) \/ IsToken(x, v, Quotes))
  BY <1>1, <1>2, LiteralFacts
<1>4. ~ Refers(x, v)
  BY <1>3, NoHead, NotAHead
<1>5. CASE IsNumber(x, v)
  <2>1. LiteralStop(x, v) = v + 1
    BY <1>1, <1>2, <1>5, LiteralCases
  <2> HIDE DEF v
  <2>2. \A h \in v .. LiteralStop(x, v) - 1 : h = v
    BY <2>1, <1>2
  <2> QED BY <2>2, <1>4 DEF v
<1>6. CASE IsToken(x, v, Quotes)
  <2>1. ~ IsToken(x, w - 1, {"note"})
    <3>1. SUFFICES ASSUME IsToken(x, w - 1, {"note"}) PROVE FALSE
      OBVIOUS
    <3>2. "note" \in Heads /\ Joined(<<"note">>) = "note"
      BY StatementAssumption, TokenAssumption
    <3>3. IsWord(x, w - 1)
      BY <3>1, <3>2 DEF IsWord, IsToken
    <3>4. ~ IsToken(x, i + 1, Tails)
      <4>1. SUFFICES ASSUME IsToken(x, i + 1, Tails) PROVE FALSE
        OBVIOUS
      <4>2. w - 1 = i + 1
        BY <4>1, <1>2 DEF WordStop
      <4> QED BY <4>1, <4>2, <3>3, NoHead
    <3>5. w = i + 1 /\ w - 1 = i
      BY <3>4, <1>2 DEF WordStop
    <3>6. x[i] = "note"
      BY <3>1, <3>5 DEF IsToken
    <3>7. WordAt(x, i) = Joined(<<x[i]>>)
      <4>1. SubSeq(x, i, w - 1) = <<x[i]>>
        <5>1. w - i = 1
          BY <3>5, <1>2
        <5> HIDE DEF w
        <5> QED BY <5>1, <1>1, <1>2, OneToken
      <4> QED BY <4>1 DEF WordAt, TextOf
    <3> QED BY <3>2, <3>6, <3>7
  <2>2. Keyed(x, v)
    <3>1. v \in DOMAIN x /\ v - 1 = w /\ v - 2 = w - 1
      BY <1>1, <1>2, <1>3, SeqOfTokens
    <3> HIDE DEF v, w
    <3>2. IsToken(x, v - 1, {"="}) /\ ~ IsToken(x, v - 2, {"note"})
      BY <3>1, <2>1, <1>1
    <3> QED BY <3>1, <3>2, <1>6 DEF Regular
  <2>3. ~ Refers(x, v + 1)
    BY <2>2, NoHead, NotAHead DEF Keyed
  <2>4. ~ Refers(x, v + 2)
    <3>1. IsToken(x, v + 2, Quotes)
      BY <2>2, <1>6 DEF Keyed, IsToken
    <3> QED BY <3>1, NoHead, NotAHead
  <2>5. LiteralStop(x, v) = v + 3
    <3>1. v + 2 \in DOMAIN x /\ x[v + 2] = x[v] /\ v + 1 \in DOMAIN x
      BY <2>2 DEF Keyed, IsNumber, IsToken
    <3>2. x[v + 1] # x[v]
      <4>1. x[v] \in Quotes
        BY <1>6 DEF IsToken
      <4>2. x[v + 1] \in DOMAIN Numeral
        BY <2>2 DEF Keyed, IsNumber, IsToken
      <4> QED BY <4>1, <4>2, TokenAssumption
    <3> HIDE DEF v
    <3>3. \A j \in DOMAIN x : j > v /\ x[j] = x[v] => v + 2 <= j
      <4>1. ASSUME NEW j \in DOMAIN x, j > v, x[j] = x[v] PROVE v + 2 <= j
        <5>1. j \in Int /\ j # v + 1
          BY <4>1, <3>2, <1>1, SeqOfTokens
        <5> QED BY <5>1, <4>1, <1>2
      <4> QED BY <4>1
    <3>4. v + 2 > v /\ v + 2 + 1 = v + 3
      BY <1>2
    <3> QED BY <3>1, <3>3, <3>4, <1>1, <1>2, <1>6, LiteralCases
  <2> HIDE DEF v
  <2>6. \A h \in v .. LiteralStop(x, v) - 1 : h = v \/ h = v + 1 \/ h = v + 2
    BY <2>5, <1>2
  <2> QED BY <2>3, <2>4, <2>6, <1>4 DEF v
<1> QED BY <1>3, <1>5, <1>6

LEMMA RegularIsClear ==
  ASSUME NEW x, Regular(x), NEW k \in DOMAIN PredicatesOf(x), PredicatesOf(x)[k].column = "uid"
  PROVE  ClearPredicate(x, k)
<1> DEFINE i == PredicateStarts(x)[k]
           c == ColumnAt(x, i)
           w == WordStop(x, c)
           stop == PredicateAt(x, i).stop
<1>1. x \in Seq(Tokens)
  BY DEF Regular, WellFormed
<1>2. i \in 1 .. Len(x) /\ PredicatesOf(x)[k] = PredicateAt(x, i) /\ stop # 0 /\ i \in Int
  BY <1>1, PredicatesPlaces
<1> HIDE DEF i
<1>3. Equates(x, c) /\ c \in i .. Len(x) /\ c \in Int
  BY <1>1, <1>2, PredicateFacts
<1>4. stop = LiteralStop(x, w + 1) /\ WordAt(x, c) = "uid"
  <2>1. PredicateAt(x, i) = EqualityAt(x, QualifierAt(x, i), c)
    BY PredicateParts
  <2> HIDE DEF c
  <2> QED BY <2>1, <1>2, <1>3, EqualityParts
<1>5. \A h \in w + 1 .. stop - 1 : ~ Refers(x, h)
  BY <1>3, <1>4, ClearKey
<1>6. \A h \in c .. w : ~ Refers(x, h)
  BY <1>1, <1>3, ClearWord DEF Equates
<1>7. \A h \in i .. c - 1 : ~ Refers(x, h)
  <2>1. CASE Qualified(x, i)
    <3>1. \A h \in i .. WordStop(x, i) : ~ Refers(x, h)
      BY <2>1, <1>1, <1>2, ClearWord DEF Qualified
    <3>2. c - 1 = WordStop(x, i)
      BY <2>1, <1>2 DEF ColumnAt, WordStop
    <3> QED BY <3>1, <3>2
  <2>2. CASE ~ Qualified(x, i)
    BY <2>2, <1>2 DEF ColumnAt
  <2> QED BY <2>1, <2>2
<1>8. w \in Int /\ stop \in Int
  <2>1. w \in Int
    BY <1>3 DEF WordStop
  <2>2. stop \in i + 1 .. Len(x) + 1
    BY <1>1, <1>2, PredicateFacts
  <2> QED BY <2>1, <2>2
<1> HIDE DEF stop, c, w
<1>9. \A h \in i .. stop - 1 : ~ Refers(x, h)
  <2>1. ASSUME NEW h \in i .. stop - 1 PROVE h \in i .. c - 1 \/ h \in c .. w \/ h \in w + 1 .. stop - 1
    BY <1>2, <1>3, <1>8
  <2> QED BY <2>1, <1>5, <1>6, <1>7
<1> QED BY <1>2, <1>9 DEF ClearPredicate, Clear, stop, i

LEMMA RegularIsFixed ==
  ASSUME NEW x, Regular(x)
  PROVE  IsFixedOnceChecked(x)
<1>1. WellFormed(x) /\ x \in Seq(Tokens) /\ TablesStandAlone(x)
  BY TameStandsAlone DEF Regular, WellFormed
<1> QED BY <1>1, RegularIsClear, StandingAloneIsFixed

(* A text that another chunk may follow, and the chunks.                   *)
Grown(x) == Regular(x) /\ x # <<>> /\ x[Len(x)] \notin FromOrJoin \union {"="}
Opens(c) == Regular(c) /\ c # <<>> /\ c[1] \notin Follows
Chunk(c) == Opens(c) /\ c[Len(c)] \notin FromOrJoin \union {"="}

LEMMA GrownConcat ==
  ASSUME NEW x, Grown(x), NEW c, Chunk(c)
  PROVE  Grown(x \o c)
<1>1. /\ Regular(x \o c) /\ x \o c # <<>>
      /\ (x \o c)[Len(x \o c)] = c[Len(c)]
  BY RegularConcat DEF Grown, Chunk, Opens
<1> QED BY <1>1 DEF Grown, Chunk

LEMMA RegularTailless ==
  ASSUME NEW s \in Seq(Tokens), \A i \in DOMAIN s : s[i] \notin Tails,
         \A i \in DOMAIN s : s[i] \in FromOrJoin => ~ IsWord(s, i + 1),
         \/ \A i \in DOMAIN s : s[i] \notin Quotes
         \/ \A i \in DOMAIN s : s[i] # "="
  PROVE  Regular(s)
<1>1. WellFormed(s)
  BY DEF WellFormed, IsToken
<1>2. Tame(s)
  BY DEF Tame, IsToken
<1> QED BY <1>1, <1>2, Zenon DEF Regular, IsToken

LEMMA Signed ==
  /\ \A t \in Heads : t \notin Tails /\ t \notin Follows /\ t \notin Quotes /\ t # "=" /\ t # "."
  /\ \A t \in Tails : t \notin FromOrJoin /\ t \notin Follows /\ t \notin Quotes /\ t # "="
  /\ \A t \in DOMAIN Numeral \union Quotes \union Signs : t \notin Tails /\ t \notin FromOrJoin /\ t \notin Heads
  /\ \A t \in DOMAIN Numeral : t \notin Quotes /\ t # "="
  /\ \A t \in Quotes : t \notin Follows /\ t # "="
BY TokenAssumption, Kinds DEF Quotes, Signs, Follows

LEMMA WordIsRegular ==
  ASSUME NEW w \in Words, w[1] \notin FromOrJoin
  PROVE  /\ Chunk(w)
         /\ w[1] \in Heads /\ ~ IsToken(w, WordStop(w, 1), Follows)
<1>1. PICK h \in Heads : w = <<h>> \/ \E t \in Tails : w = <<h, t>>
  BY DEF Words
<1>2. h \notin FromOrJoin /\ w[1] = h
  BY <1>1
<1>3. CASE w = <<h>>
  <2>1. w \in Seq(Tokens) /\ Len(w) = 1 /\ DOMAIN w = {1} /\ w[1] = h
    BY <1>3 DEF Tokens
  <2>2. Regular(w)
    BY <1>2, <2>1, Signed, RegularTailless
  <2>3. WordStop(w, 1) \notin DOMAIN w
    BY <2>1 DEF WordStop
  <2> QED BY <1>2, <2>1, <2>2, <2>3, Signed DEF Chunk, Opens, IsToken
<1>4. ASSUME NEW t \in Tails, w = <<h, t>>
      PROVE  /\ Chunk(w)
             /\ w[1] \in Heads /\ ~ IsToken(w, WordStop(w, 1), Follows)
  <2>1. w \in Seq(Tokens) /\ Len(w) = 2 /\ DOMAIN w = {1, 2} /\ w[1] = h /\ w[2] = t
    BY <1>4 DEF Tokens
  <2>2. Regular(w)
    <3>1. WellFormed(w)
      BY <1>2, <2>1, Signed DEF WellFormed, IsToken, IsWord
    <3>2. \A i \in DOMAIN w : w[i] \notin FromOrJoin /\ w[i] \notin Quotes
      BY <1>2, <2>1, Signed
    <3> QED BY <3>1, <3>2, Zenon DEF Regular, Tame, IsToken
  <2>3. WordStop(w, 1) = 3
    BY <2>1 DEF WordStop, IsToken
  <2>4. ~ IsToken(w, WordStop(w, 1), Follows)
    BY <2>1, <2>3 DEF IsToken
  <2> QED BY <1>2, <2>1, <2>2, <2>4, Signed, SMTT(30) DEF Chunk, Opens
<1> QED BY <1>1, <1>3, <1>4

LEMMA OneMore ==
  ASSUME NEW w \in Seq(Tokens), NEW t \in Tokens, NEW y, y = w \o <<t>>
  PROVE  /\ y \in Seq(Tokens) /\ Len(y) = Len(w) + 1 /\ y # <<>>
         /\ \A i \in 1 .. Len(w) : y[i] = w[i]
         /\ y[Len(w) + 1] = t
<1> DEFINE b == <<t>>
<1>1. b \in Seq(Tokens) /\ Len(b) = 1 /\ b[1] = t /\ y = w \o b
  OBVIOUS
<1> HIDE DEF b
<1>2. /\ w \o b \in Seq(Tokens)
      /\ Len(w \o b) = Len(w) + Len(b)
      /\ \A i \in 1 .. Len(w) : (w \o b)[i] = w[i]
      /\ \A i \in 1 .. Len(b) : (w \o b)[Len(w) + i] = b[i]
  BY <1>1, ConcatPlaces
<1>3. Len(w) \in Nat
  OBVIOUS
<1> QED BY <1>1, <1>2, <1>3

LEMMA QualifierIsRegular ==
  ASSUME NEW w \in Words, w[1] \notin FromOrJoin
  PROVE  Chunk(w \o <<".">>)
<1>1. PICK h \in Heads : w = <<h>> \/ \E t \in Tails : w = <<h, t>>
  BY DEF Words
<1>2. h \notin FromOrJoin /\ w[1] = h /\ "." \in Tokens /\ "." \in Signs
  BY <1>1 DEF Tokens, Signs
<1> DEFINE c == w \o <<".">>
<1>3. CASE w = <<h>>
  <2>1. w \in Seq(Tokens) /\ Len(w) = 1
    BY <1>2, <1>3 DEF Tokens
  <2>2. c \in Seq(Tokens) /\ Len(c) = 2 /\ DOMAIN c = {1, 2} /\ c[1] = h /\ c[2] = "." /\ c # <<>>
    <3>1. c = w \o <<".">>
      OBVIOUS
    <3> HIDE DEF c
    <3> QED BY <3>1, <1>2, <2>1, OneMore
  <2> HIDE DEF c
  <2>3. Regular(c)
    <3>1. \A i \in DOMAIN c : c[i] \notin Tails /\ c[i] \notin FromOrJoin /\ c[i] # "="
      BY <1>2, <2>2, Signed
    <3> QED BY <2>2, <3>1, RegularTailless
  <2>4. c[1] \notin Follows /\ c[Len(c)] \notin FromOrJoin \union {"="}
    BY <1>2, <2>2, Signed
  <2> QED BY <2>2, <2>3, <2>4 DEF Chunk, Opens, c
<1>4. ASSUME NEW t \in Tails, w = <<h, t>> PROVE Chunk(c)
  <2>1. w \in Seq(Tokens) /\ Len(w) = 2 /\ w[2] = t
    BY <1>2, <1>4 DEF Tokens
  <2>2. /\ c \in Seq(Tokens) /\ Len(c) = 3 /\ DOMAIN c = {1, 2, 3} /\ c # <<>>
        /\ c[1] = h /\ c[2] = t /\ c[3] = "."
    <3>1. c = w \o <<".">>
      OBVIOUS
    <3> HIDE DEF c
    <3> QED BY <3>1, <1>2, <2>1, OneMore
  <2> HIDE DEF c
  <2>3. Regular(c)
    <3>1. \A i \in DOMAIN c : c[i] \notin FromOrJoin /\ c[i] \notin Quotes
      BY <1>2, <2>2, Signed DEF Quotes
    <3>2. WellFormed(c)
      BY <1>2, <2>2, Signed DEF WellFormed, IsToken, IsWord
    <3> QED BY <3>1, <3>2, Zenon DEF Regular, Tame, IsToken
  <2>4. c[1] \notin Follows /\ c[Len(c)] \notin FromOrJoin \union {"="}
    BY <1>2, <2>2, Signed
  <2> QED BY <2>2, <2>3, <2>4 DEF Chunk, Opens, c
<1> QED BY <1>1, <1>3, <1>4

(* One more table: the words that lead to it, and its name.                *)
LEMMA NameConcat ==
  ASSUME NEW x, Grown(x), NEW lead, Opens(lead), lead[Len(lead)] # "=", NEW name \in Names
  PROVE  Grown((x \o lead) \o name)
<1>1. /\ Regular(x \o lead) /\ x \o lead # <<>>
      /\ (x \o lead)[Len(x \o lead)] = lead[Len(lead)]
  BY RegularConcat DEF Grown, Opens
<1>2. Chunk(name) /\ name[1] \in Heads /\ ~ IsToken(name, WordStop(name, 1), Follows)
  BY StatementAssumption, WordIsRegular
<1> DEFINE y == x \o lead
<1> HIDE DEF y
<1>3. Regular(y) /\ y # <<>> /\ y[Len(y)] # "="
  BY <1>1 DEF y
<1>4. /\ Regular(y \o name) /\ y \o name # <<>>
      /\ (y \o name)[Len(y \o name)] = name[Len(name)]
  BY <1>2, <1>3, RegularConcat DEF Chunk, Opens
<1> QED BY <1>2, <1>4 DEF Grown, Chunk, y

(* A column, "=" and what it is compared with.                             *)
LEMMA EqualityConcat ==
  ASSUME NEW x, Grown(x), NEW column \in {"uid", "note"}, NEW literal,
         Regular(literal), literal # <<>>, literal[Len(literal)] \notin FromOrJoin \union {"="},
         literal[1] \in Quotes => column = "note" \/ Keyed(literal, 1)
  PROVE  Grown((x \o <<column, "=">>) \o literal)
<1> DEFINE c == <<column, "=">>
           y == x \o c
<1>1. column \in Heads /\ "=" \in Signs /\ "=" \in Tokens /\ column \in Tokens /\ column \notin FromOrJoin
  BY StatementAssumption DEF Tokens, Signs, FromOrJoin
<1>2. c \in Seq(Tokens) /\ Len(c) = 2 /\ DOMAIN c = {1, 2} /\ c[1] = column /\ c[2] = "=" /\ c # <<>>
  BY <1>1
<1> HIDE DEF c
<1>3. Regular(c) /\ c[1] \notin Follows
  <2>1. \A i \in DOMAIN c : c[i] \notin Tails /\ c[i] \notin FromOrJoin /\ c[i] \notin Quotes
    BY <1>1, <1>2, Signed DEF Quotes
  <2>2. c[1] \notin Follows
    BY <1>1, <1>2, Signed
  <2> QED BY <1>2, <2>1, <2>2, RegularTailless
<1>4. Regular(y) /\ y # <<>> /\ y[Len(y)] = "="
  <2>1. /\ Regular(x \o c) /\ x \o c # <<>>
        /\ (x \o c)[Len(x \o c)] = c[Len(c)]
    BY <1>2, <1>3, RegularConcat DEF Grown
  <2> QED BY <2>1, <1>2
<1>5. column = "note" => IsToken(y, Len(y) - 1, {"note"})
  <2>1. x \in Seq(Tokens) /\ Len(x) \in Nat
    BY DEF Grown, Regular, WellFormed
  <2>2. Len(y) - 1 = Len(x) + 1
    <3>1. c \in Seq(Tokens)
      BY <1>2
    <3>2. Len(y) = Len(x) + Len(c)
      BY <3>1, <2>1, ConcatPlaces
    <3> HIDE DEF y
    <3> QED BY <3>2, <1>2, <2>1
  <2>3. IsToken(y, Len(x) + 1, {"note"}) <=> IsToken(c, 1, {"note"})
    BY <1>2, <2>1, TokensAfter
  <2> HIDE DEF y
  <2> QED BY <2>2, <2>3, <1>2 DEF IsToken
<1> HIDE DEF y
<1>6. "=" \notin Heads \union Tails /\ "=" \notin FromOrJoin
  BY <1>1, Signed
<1>7. /\ y[Len(y)] \notin Heads \union Tails
      /\ y[Len(y)] \notin FromOrJoin
      /\ literal[1] \in Quotes => IsToken(y, Len(y) - 1, {"note"}) \/ Keyed(literal, 1)
  BY <1>4, <1>5, <1>6
<1>8. /\ Regular(y \o literal) /\ y \o literal # <<>>
      /\ (y \o literal)[Len(y \o literal)] = literal[Len(literal)]
  BY <1>4, <1>7, RegularConcat
<1> QED BY <1>8 DEF Grown, y, c

LEMMA ChunkConcat ==
  ASSUME NEW c, Chunk(c), NEW d, Chunk(d)
  PROVE  Chunk(c \o d)
<1>1. Grown(c)
  BY DEF Chunk, Opens, Grown
<1>2. Grown(c \o d)
  BY <1>1, GrownConcat
<1>3. c \in Seq(Tokens) /\ d \in Seq(Tokens) /\ c # <<>>
  BY DEF Chunk, Opens, Regular, WellFormed
<1>4. (c \o d)[1] = c[1]
  <2>1. 1 \in 1 .. Len(c)
    BY <1>3
  <2> QED BY <1>3, <2>1, ConcatPlaces
<1> QED BY <1>2, <1>4 DEF Grown, Chunk, Opens

(* The words of the statements.                                            *)
MayFollow(c) == c = <<>> \/ Chunk(c)

LEMMA GrownFollow ==
  ASSUME NEW x, Grown(x), NEW c, MayFollow(c)
  PROVE  Grown(x \o c)
<1>1. CASE c = <<>>
  <2>1. x \in Seq(Tokens)
    BY DEF Grown, Regular, WellFormed
  <2>2. x \o <<>> = x
    BY <2>1
  <2> QED BY <1>1, <2>2
<1>2. CASE Chunk(c)
  BY <1>2, GrownConcat
<1> QED BY <1>1, <1>2 DEF MayFollow

LEMMA Vocabulary ==
  /\ {"select", "from", "join", "as", "limit", "on", "where", "and", "a", "b", "uid", "note"} \subseteq Heads
  /\ \A t \in {"select", "as", "limit", "on", "where", "and", "a", "b", "uid", "note", "(", ")", ",", ".", "=", "1"} :
       t \notin FromOrJoin
  /\ {"(", ")", ",", ".", "="} \subseteq Signs
  /\ "1" \in DOMAIN Numeral
BY TokenAssumption, StatementAssumption, Signed DEF FromOrJoin, Signs

LEMMA Punctuation ==
  \A t \in {"(", ")", ","} : t \in Tokens /\ t \notin Heads \union Tails /\ t \notin Quotes /\ t \notin Follows /\ t # "="
BY Vocabulary, Signed, TokenAssumption DEF Tokens, Quotes, Follows

LEMMA TwoTokens ==
  ASSUME NEW a \in Tokens, NEW b \in Tokens, NEW c, c = <<a, b>>
  PROVE  /\ c \in Seq(Tokens) /\ Len(c) = 2 /\ DOMAIN c = {1, 2} /\ c # <<>>
         /\ c[1] = a /\ c[2] = b
OBVIOUS

LEMMA ThreeTokens ==
  ASSUME NEW a \in Tokens, NEW b \in Tokens, NEW d \in Tokens, NEW c, c = <<a, b, d>>
  PROVE  /\ c \in Seq(Tokens) /\ Len(c) = 3 /\ DOMAIN c = {1, 2, 3} /\ c # <<>>
         /\ c[1] = a /\ c[2] = b /\ c[3] = d
OBVIOUS

LEMMA OneTokenText ==
  ASSUME NEW a \in Tokens, NEW c, c = <<a>>
  PROVE  /\ c \in Seq(Tokens) /\ Len(c) = 1 /\ DOMAIN c = {1} /\ c # <<>>
         /\ c[1] = a
OBVIOUS

LEMMA PairChunk ==
  ASSUME NEW a \in Tokens, NEW b \in Tokens, NEW c, c = <<a, b>>,
         \A t \in {a, b} : t \notin Tails /\ t \notin FromOrJoin /\ t # "=",
         a \notin Follows
  PROVE  Chunk(c)
<1>1. /\ c \in Seq(Tokens) /\ Len(c) = 2 /\ DOMAIN c = {1, 2} /\ c # <<>>
      /\ c[1] = a /\ c[2] = b
  BY TwoTokens
<1>2. \A i \in DOMAIN c : c[i] \notin Tails /\ c[i] \notin FromOrJoin /\ c[i] # "="
  BY <1>1
<1>3. Regular(c)
  BY <1>1, <1>2, RegularTailless
<1> QED BY <1>1, <1>2, <1>3 DEF Chunk, Opens

LEMMA OneWord ==
  ASSUME NEW h \in Heads \ FromOrJoin
  PROVE  Chunk(<<h>>)
<1> DEFINE w == <<h>>
<1>1. w \in Words /\ w[1] = h
  BY DEF Words
<1> HIDE DEF w
<1>2. Chunk(w)
  BY <1>1, WordIsRegular
<1> QED BY <1>2 DEF w

LEMMA AliasesFollow ==
  ASSUME NEW alias \in {<<>>, <<"a">>, <<"as", "a">>, <<"b">>}
  PROVE  MayFollow(alias) /\ (alias # <<>> => Last(alias) \in {"a", "b"})
<1>1. Chunk(<<"a">>) /\ Chunk(<<"b">>)
  BY Vocabulary, OneWord
<1>2. ASSUME alias = <<"as", "a">> PROVE Chunk(alias)
  <2>1. \A t \in {"as", "a"} : t \in Tokens /\ t \notin Tails /\ t \notin FromOrJoin /\ t # "=" /\ t \notin Follows
    BY Vocabulary, Signed DEF Tokens
  <2> QED BY <1>2, <2>1, PairChunk
<1>3. alias # <<>> => Last(alias) \in {"a", "b"}
  BY DEF Last
<1> QED BY <1>1, <1>2, <1>3 DEF MayFollow

LEMMA OneTokenOpens ==
  ASSUME NEW t \in Tokens, t \notin Tails, t \notin Quotes, t # "=", t \notin Follows
  PROVE  Opens(<<t>>) /\ <<t>>[Len(<<t>>)] # "="
<1> DEFINE lead == <<t>>
<1>1. lead \in Seq(Tokens) /\ Len(lead) = 1 /\ DOMAIN lead = {1} /\ lead # <<>> /\ lead[1] = t
  BY OneTokenText
<1> HIDE DEF lead
<1>2. Regular(lead)
  <2>1. 2 \notin DOMAIN lead /\ \A i \in DOMAIN lead : i + 1 = 2
    BY <1>1
  <2>2. \A i \in DOMAIN lead : ~ IsWord(lead, i + 1)
    BY <2>1, Zenon DEF IsWord, IsToken
  <2>3. \A i \in DOMAIN lead : lead[i] \notin Tails /\ lead[i] \notin Quotes
    BY <1>1
  <2> QED BY <1>1, <2>2, <2>3, RegularTailless
<1>3. Opens(lead) /\ lead[Len(lead)] # "="
  BY <1>1, <1>2 DEF Opens
<1> QED BY <1>3 DEF lead

LEMMA LeadsOpen ==
  \A t \in {"from", "join", ","} : Opens(<<t>>) /\ <<t>>[Len(<<t>>)] # "="
<1>1. \A t \in {"from", "join"} : t \in Tokens /\ t \notin Tails /\ t \notin Quotes /\ t # "=" /\ t \notin Follows
  BY Vocabulary, Signed DEF Tokens
<1>2. \A t \in {","} : t \in Tokens /\ t \notin Tails /\ t \notin Quotes /\ t # "=" /\ t \notin Follows
  BY Punctuation
<1> QED BY <1>1, <1>2, OneTokenOpens, Zenon

LEMMA SubqueryOpens ==
  ASSUME NEW lead, lead = <<"from", "(", "select", "uid", "from">>
  PROVE  Opens(lead) /\ lead[Len(lead)] # "="
<1> DEFINE T == {"from", "(", "select", "uid"}
<1>1. \A t \in T : t \in Tokens /\ t \notin Tails /\ t # "="
  BY Vocabulary, Punctuation, Signed DEF Tokens
<1>2. /\ lead \in Seq(T) /\ Len(lead) = 5
      /\ lead[1] = "from" /\ lead[2] = "(" /\ lead[3] = "select" /\ lead[4] = "uid" /\ lead[5] = "from"
  OBVIOUS
<1> HIDE DEF T
<1>3. lead \in Seq(Tokens) /\ DOMAIN lead = 1 .. 5 /\ lead # <<>>
  <2>1. T \subseteq Tokens
    BY <1>1
  <2> QED BY <1>2, <2>1
<1>4. \A i \in DOMAIN lead : lead[i] \notin Tails /\ lead[i] # "="
  BY <1>1, <1>2, <1>3
<1>5. \A i \in DOMAIN lead : lead[i] \in FromOrJoin => ~ IsWord(lead, i + 1)
  <2>1. ~ IsWord(lead, 2) /\ ~ IsWord(lead, 6)
    <3>1. 6 \notin DOMAIN lead /\ lead[2] \notin Heads
      <4>1. DOMAIN lead = 1 .. 5 /\ lead[2] = "("
        BY <1>2, <1>3
      <4>2. "(" \notin Heads
        BY Punctuation
      <4> QED BY <4>1, <4>2
    <3> QED BY <3>1, Zenon DEF IsWord, IsToken
  <2>2. lead[2] \notin FromOrJoin /\ lead[3] \notin FromOrJoin /\ lead[4] \notin FromOrJoin
    BY <1>2, Vocabulary
  <2>3. \A i \in DOMAIN lead : i = 1 \/ i = 2 \/ i = 3 \/ i = 4 \/ i = 5
    BY <1>3
  <2> QED BY <2>1, <2>2, <2>3
<1>6. Regular(lead)
  BY <1>3, <1>4, <1>5, RegularTailless
<1>7. lead[1] \notin Follows /\ lead[Len(lead)] # "="
  BY <1>2, Vocabulary, Signed
<1> QED BY <1>3, <1>6, <1>7 DEF Opens

LEMMA RestsFollow ==
  /\ Chunk(<<")", "a">>) /\ Chunk(<<"limit", "1">>)
  /\ Chunk(<<"on", "a", ".", "uid", "=", "b", ".", "uid">>)
<1>1. Chunk(<<")", "a">>)
  <2>1. \A t \in {")", "a"} : t \in Tokens /\ t \notin Tails /\ t \notin FromOrJoin /\ t # "=" /\ t \notin Follows
    BY Vocabulary, Signed, Punctuation DEF Tokens
  <2> QED BY <2>1, PairChunk
<1>2. Chunk(<<"limit", "1">>)
  <2>1. \A t \in {"limit", "1"} : t \in Tokens /\ t \notin Tails /\ t \notin FromOrJoin /\ t # "="
    BY Vocabulary, Signed DEF Tokens
  <2>2. "limit" \notin Follows
    BY Vocabulary, Signed
  <2> QED BY <2>1, <2>2, PairChunk
<1>3. Chunk(<<"on", "a", ".", "uid", "=", "b", ".", "uid">>)
  <2> DEFINE c == <<"on", "a", ".", "uid", "=", "b", ".", "uid">>
             T == {"on", "a", ".", "uid", "=", "b"}
  <2>1. \A t \in T : t \in Tokens /\ t \notin Tails /\ t \notin FromOrJoin /\ t \notin Quotes
    BY Vocabulary, Signed DEF Tokens, Quotes
  <2>2. c \in Seq(T) /\ Len(c) = 8 /\ c[1] = "on" /\ c[8] = "uid"
    OBVIOUS
  <2> HIDE DEF c, T
  <2>3. c \in Seq(Tokens) /\ \A i \in DOMAIN c : c[i] \in T
    <3>1. T \subseteq Tokens
      BY <2>1
    <3>2. c \in Seq(Tokens)
      BY <2>2, <3>1
    <3>3. \A i \in DOMAIN c : c[i] \in T
      BY <2>2, SeqOfTokens
    <3> QED BY <3>2, <3>3
  <2>4. Regular(c)
    BY <2>1, <2>3, RegularTailless
  <2>5. c # <<>> /\ c[1] \notin Follows /\ c[Len(c)] \notin FromOrJoin \union {"="}
    <3>1. "on" \notin Follows /\ "uid" \notin FromOrJoin /\ "uid" # "="
      BY Vocabulary, Signed
    <3> QED BY <2>2, <3>1
  <2> QED BY <2>4, <2>5 DEF Chunk, Opens, c
<1> QED BY <1>1, <1>2, <1>3

(* What a quoted text is compared with.                                    *)
LEMMA KeyIsRegular ==
  ASSUME NEW l \in KeyLiterals
  PROVE  /\ Regular(l) /\ l # <<>> /\ l[Len(l)] \notin FromOrJoin \union {"="}
         /\ l[1] \in Quotes => Keyed(l, 1)
<1>1. PICK n \in DOMAIN Numeral : l = <<n>> \/ \E q \in Quotes : l = <<q, n, q>>
  BY StatementAssumption
<1>2. n \in Tokens /\ n \notin Tails /\ n \notin FromOrJoin /\ n # "=" /\ n \notin Quotes
  BY Signed DEF Tokens
<1>3. CASE l = <<n>>
  <2>1. l \in Seq(Tokens) /\ Len(l) = 1 /\ DOMAIN l = {1} /\ l # <<>> /\ l[1] = n
    BY <1>2, <1>3, OneTokenText
  <2>2. \A i \in DOMAIN l : l[i] \notin Tails /\ l[i] \notin FromOrJoin /\ l[i] # "="
    BY <1>2, <2>1
  <2>3. Regular(l)
    BY <2>1, <2>2, RegularTailless
  <2> QED BY <1>2, <2>1, <2>3
<1>4. ASSUME NEW q \in Quotes, l = <<q, n, q>>
      PROVE  /\ Regular(l) /\ l # <<>> /\ l[Len(l)] \notin FromOrJoin \union {"="}
             /\ l[1] \in Quotes => Keyed(l, 1)
  <2>1. q \in Tokens /\ q \notin Tails /\ q \notin FromOrJoin /\ q # "="
    BY Signed DEF Tokens
  <2>2. /\ l \in Seq(Tokens) /\ Len(l) = 3 /\ DOMAIN l = {1, 2, 3} /\ l # <<>>
        /\ l[1] = q /\ l[2] = n /\ l[3] = q
    BY <1>2, <1>4, <2>1
  <2>3. \A i \in DOMAIN l : l[i] \notin Tails /\ l[i] \notin FromOrJoin /\ l[i] # "="
    BY <1>2, <2>1, <2>2
  <2>4. Regular(l)
    BY <2>2, <2>3, RegularTailless
  <2>5. Keyed(l, 1)
    BY <2>2 DEF Keyed, IsNumber, IsToken
  <2> QED BY <2>1, <2>2, <2>4, <2>5
<1> QED BY <1>1, <1>3, <1>4

LEMMA QuotedIsRegular ==
  ASSUME NEW r \in Remarks, NEW l, l = (<<"'">> \o r) \o <<"'">>
  PROVE  Regular(l) /\ l # <<>> /\ l[Len(l)] \notin FromOrJoin \union {"="}
<1> DEFINE q == <<"'">>
           y == q \o r
<1>1. /\ "'" \in Quotes /\ "'" \in Tokens /\ "'" \notin Tails /\ "'" \notin FromOrJoin /\ "'" # "="
      /\ "'" \notin Heads /\ "'" \notin Follows
  BY Signed DEF Quotes, Tokens
<1>2. /\ q \in Seq(Tokens) /\ Len(q) = 1 /\ DOMAIN q = {1} /\ q # <<>> /\ q[1] = "'"
  BY <1>1, OneTokenText
<1> HIDE DEF q
<1>3. Regular(q)
  <2>1. \A i \in DOMAIN q : q[i] \notin Tails /\ q[i] \notin FromOrJoin /\ q[i] # "="
    BY <1>1, <1>2
  <2> QED BY <1>2, <2>1, RegularTailless
<1>4. /\ WellFormed(r) /\ Tame(r) /\ ~ IsToken(r, Len(r), {"="})
      /\ \A i \in DOMAIN r : r[i] \notin Quotes
  BY StatementAssumption
<1>5. Regular(r) /\ r \in Seq(Tokens)
  BY <1>4, Zenon DEF Regular, IsToken, WellFormed
<1>6. Regular(y) /\ y # <<>> /\ y[Len(y)] # "="
  <2>1. CASE r = <<>>
    <3>1. y = q
      BY <2>1, <1>2, ConcatEmptySeq
    <3> QED BY <3>1, <1>1, <1>2, <1>3
  <2>2. CASE r # <<>>
    <3>1. /\ Regular(q \o r) /\ q \o r # <<>>
          /\ (q \o r)[Len(q \o r)] = r[Len(r)]
      BY <2>2, <1>1, <1>2, <1>3, <1>5, RegularConcat
    <3>2. r[Len(r)] # "="
      <4>1. Len(r) \in DOMAIN r
        BY <2>2, <1>5
      <4> QED BY <4>1, <1>4 DEF IsToken
    <3> QED BY <3>1, <3>2
  <2> QED BY <2>1, <2>2
<1> HIDE DEF y
<1>7. /\ Regular(y \o q) /\ y \o q # <<>>
      /\ (y \o q)[Len(y \o q)] = q[Len(q)]
  BY <1>1, <1>2, <1>3, <1>6, RegularConcat
<1> QED BY <1>1, <1>2, <1>7 DEF y, q

LEMMA BoundsFollow ==
  ASSUME NEW x, Grown(x), NEW b \in Bounds
  PROVE  Grown((x \o <<"limit">>) \o b)
<1> DEFINE c == <<"limit">>
           d == c \o b
<1>1. PICK n \in DOMAIN Numeral : b = <<n>> \/ \E m \in DOMAIN Numeral : b = <<m, ",", n>>
  BY StatementAssumption
<1>2. /\ \A t \in DOMAIN Numeral : t \in Tokens /\ t \notin Tails /\ t \notin FromOrJoin /\ t # "="
      /\ "limit" \in Tokens /\ "limit" \notin Tails /\ "limit" \notin FromOrJoin /\ "limit" # "="
      /\ "limit" \notin Follows
  BY Vocabulary, Signed DEF Tokens
<1>3. /\ b \in Seq(Tokens) /\ b # <<>>
      /\ \A i \in DOMAIN b : b[i] \notin Tails /\ b[i] \notin FromOrJoin /\ b[i] # "="
  <2>1. CASE b = <<n>>
    <3>1. b \in Seq(Tokens) /\ Len(b) = 1 /\ DOMAIN b = {1} /\ b # <<>> /\ b[1] = n
      BY <2>1, <1>2, OneTokenText
    <3> QED BY <3>1, <1>2
  <2>2. ASSUME NEW m \in DOMAIN Numeral, NEW comma, comma = ",", b = <<m, comma, n>>
        PROVE  /\ b \in Seq(Tokens) /\ b # <<>>
               /\ \A i \in DOMAIN b : b[i] \notin Tails /\ b[i] \notin FromOrJoin /\ b[i] # "="
    <3>1. comma \in Tokens /\ comma \notin Tails /\ comma \notin FromOrJoin /\ comma # "="
      BY <2>2, Punctuation, Vocabulary, Zenon
    <3>2. b \in Seq(Tokens) /\ DOMAIN b = {1, 2, 3} /\ b # <<>> /\ b[1] = m /\ b[2] = comma /\ b[3] = n
      <4>1. b = <<m, comma, n>>
        BY <2>2, Zenon
      <4>2. m \in Tokens /\ n \in Tokens
        BY <1>2, Zenon
      <4> QED BY <4>1, <4>2, <3>1, ThreeTokens
    <3> QED BY <3>1, <3>2, <1>2
  <2> QED BY <2>1, <2>2, <1>1, Zenon
<1>4. c \in Seq(Tokens) /\ Len(c) = 1 /\ c[1] = "limit"
  BY <1>2, OneTokenText
<1> HIDE DEF c
<1>5. Len(b) \in Nat /\ Len(b) >= 1 /\ DOMAIN b = 1 .. Len(b)
  BY <1>3
<1>6. /\ d \in Seq(Tokens) /\ Len(d) = 1 + Len(b) /\ d[1] = "limit"
      /\ \A i \in 1 .. Len(b) : d[1 + i] = b[i]
  <2>1. /\ c \o b \in Seq(Tokens) /\ Len(c \o b) = Len(c) + Len(b)
        /\ \A i \in 1 .. Len(c) : (c \o b)[i] = c[i]
        /\ \A i \in 1 .. Len(b) : (c \o b)[Len(c) + i] = b[i]
    BY <1>3, <1>4, ConcatPlaces, SMTT(30)
  <2> QED BY <2>1, <1>4
<1> HIDE DEF d
<1>7. \A i \in DOMAIN d : d[i] \notin Tails /\ d[i] \notin FromOrJoin /\ d[i] # "="
  <2>1. ASSUME NEW i \in DOMAIN d PROVE i = 1 \/ (i - 1 \in DOMAIN b /\ d[i] = b[i - 1])
    <3>1. i \in 1 .. 1 + Len(b)
      BY <1>6
    <3>2. CASE i # 1
      <4>1. i - 1 \in 1 .. Len(b) /\ 1 + (i - 1) = i
        BY <3>1, <3>2, <1>5
      <4>2. d[1 + (i - 1)] = b[i - 1]
        BY <4>1, <1>6
      <4> QED BY <4>1, <4>2, <1>5
    <3> QED BY <3>2
  <2> QED BY <2>1, <1>2, <1>3, <1>6
<1>8. Chunk(d)
  <2>1. Regular(d)
    BY <1>6, <1>7, RegularTailless
  <2>2. Len(d) \in DOMAIN d /\ d # <<>>
    BY <1>5, <1>6
  <2> QED BY <2>1, <2>2, <1>2, <1>6, <1>7 DEF Chunk, Opens
<1>9. (x \o c) \o b = x \o d
  <2>1. x \in Seq(Tokens)
    BY DEF Grown, Regular, WellFormed
  <2> QED BY <2>1, <1>3, <1>4, ConcatAssociative DEF d
<1>10. Grown(x \o d)
  BY <1>8, GrownConcat
<1>11. Grown((x \o c) \o b)
  BY <1>9, <1>10
<1> QED BY <1>11 DEF c

-----------------------------------------------------------------------------
(* The statements a client writes.                                         *)
Meant == [name : Names, alias : {NoValue, "a", "b"}, at : Int]

StatementInv ==
  /\ Grown(text)
  /\ DOMAIN meant = {"tables", "preds", "limit", "plain"}
  /\ meant.tables \in Seq(Meant)

LEMMA InitStatement == Init => StatementInv
<1>1. SUFFICES ASSUME Init PROVE StatementInv
  OBVIOUS
<1>2. "select" \in Heads /\ "uid" \in Heads /\ "select" \in Tokens /\ "uid" \in Tokens
  BY Vocabulary DEF Tokens
<1>3. \A t \in {"select", "uid"} : t \notin Tails /\ t \notin FromOrJoin /\ t # "="
  BY <1>2, Vocabulary, Signed
<1>4. "select" \notin Follows
  BY <1>2, Signed
<1>5. Chunk(text)
  <2>1. text = <<"select", "uid">>
    BY <1>1 DEF Init
  <2> QED BY <2>1, <1>2, <1>3, <1>4, PairChunk
<1>6. Grown(text)
  BY <1>5 DEF Grown, Chunk, Opens
<1>7. DOMAIN meant = {"tables", "preds", "limit", "plain"} /\ meant.tables = <<>>
  BY <1>1 DEF Init
<1> QED BY <1>6, <1>7 DEF StatementInv

LEMMA ReferKeeps ==
  ASSUME StatementInv, NEW lead, Opens(lead), lead[Len(lead)] # "=", NEW name \in Names,
         NEW alias \in {<<>>, <<"a">>, <<"as", "a">>, <<"b">>}, NEW rest, MayFollow(rest),
         NEW plain, Refer(lead, name, alias, rest, plain)
  PROVE  StatementInv'
<1>1. Grown((text \o lead) \o name)
  BY NameConcat DEF StatementInv
<1>2. Grown(((text \o lead) \o name) \o alias)
  BY <1>1, AliasesFollow, GrownFollow
<1>3. Grown((((text \o lead) \o name) \o alias) \o rest)
  BY <1>2, GrownFollow
<1>4. Grown(text)'
  <2>1. text' = (((text \o lead) \o name) \o alias) \o rest
    BY DEF Refer
  <2> QED BY <2>1, <1>3 DEF Grown, Regular, WellFormed, Tame, Keyed, IsToken, IsWord, IsNumber, WordStop
<1> DEFINE record == [name  |-> name,
                      alias |-> IF alias = <<>> THEN NoValue ELSE Last(alias),
                      at    |-> Len(text) + Len(lead) + 1]
<1>5. record \in Meant
  <2>1. Len(text) \in Int /\ Len(lead) \in Int
    BY DEF StatementInv, Grown, Opens, Regular, WellFormed
  <2>2. (IF alias = <<>> THEN NoValue ELSE Last(alias)) \in {NoValue, "a", "b"}
    BY AliasesFollow
  <2> QED BY <2>1, <2>2 DEF Meant
<1> HIDE DEF record
<1>6. meant' = [meant EXCEPT !.tables = Append(@, record), !.plain = @ /\ plain]
  BY DEF Refer, record
<1>7. DOMAIN meant' = DOMAIN meant /\ meant'.tables = Append(meant.tables, record)
  BY <1>6 DEF StatementInv
<1> QED BY <1>4, <1>5, <1>7 DEF StatementInv

LEMMA FromKeeps == StatementInv /\ From => StatementInv'
<1>1. SUFFICES ASSUME StatementInv,
                      NEW name \in Names, NEW alias \in {<<>>, <<"a">>, <<"as", "a">>},
                      Refer(<<"from">>, name, alias, <<>>, TRUE)
               PROVE  StatementInv'
  BY DEF From
<1>2. MayFollow(<<>>) /\ Opens(<<"from">>) /\ <<"from">>[Len(<<"from">>)] # "="
  BY LeadsOpen DEF MayFollow
<1> QED BY <1>1, <1>2, ReferKeeps

LEMMA FromSubqueryKeeps == StatementInv /\ FromSubquery => StatementInv'
<1> DEFINE lead == <<"from", "(", "select", "uid", "from">>
<1>1. SUFFICES ASSUME StatementInv,
                      NEW name \in Names, NEW inner \in {<<>>, <<"limit", "1">>},
                      Refer(lead, name, <<"a">>, inner \o <<")", "a">>, inner = <<>>)
               PROVE  StatementInv'
  BY DEF FromSubquery
<1>2. Opens(lead) /\ lead[Len(lead)] # "="
  BY SubqueryOpens
<1> HIDE DEF lead
<1>3. MayFollow(inner \o <<")", "a">>)
  <2>1. CASE inner = <<>>
    <3>1. <<")", "a">> \in Seq(Tokens)
      BY RestsFollow DEF Chunk, Opens, Regular, WellFormed
    <3>2. <<>> \o <<")", "a">> = <<")", "a">>
      BY <3>1, ConcatEmptySeq
    <3> QED BY <2>1, <3>2, RestsFollow DEF MayFollow
  <2>2. CASE inner = <<"limit", "1">>
    BY <2>2, RestsFollow, ChunkConcat DEF MayFollow
  <2> QED BY <2>1, <2>2
<1> QED BY <1>1, <1>2, <1>3, ReferKeeps

LEMMA JoinKeeps == StatementInv /\ Join => StatementInv'
<1> DEFINE rest == <<"on", "a", ".", "uid", "=", "b", ".", "uid">>
<1>1. SUFFICES ASSUME StatementInv,
                      NEW name \in Names, NEW alias \in {<<>>, <<"b">>},
                      Refer(<<"join">>, name, alias, rest, ~ Unaliased)
               PROVE  StatementInv'
  BY DEF Join
<1>2. MayFollow(rest) /\ Opens(<<"join">>) /\ <<"join">>[Len(<<"join">>)] # "="
  BY LeadsOpen, RestsFollow DEF MayFollow
<1> HIDE DEF rest
<1> QED BY <1>1, <1>2, ReferKeeps

LEMMA CommaKeeps == StatementInv /\ Comma => StatementInv'
<1>1. SUFFICES ASSUME StatementInv,
                      NEW name \in Names, NEW alias \in {<<>>, <<"b">>},
                      Refer(<<",">>, name, alias, <<>>, FALSE)
               PROVE  StatementInv'
  BY Zenon DEF Comma
<1> DEFINE lead == <<",">>
<1>2. MayFollow(<<>>) /\ Opens(lead) /\ lead[Len(lead)] # "=" /\ Refer(lead, name, alias, <<>>, FALSE)
  BY <1>1, LeadsOpen, Zenon DEF MayFollow
<1> HIDE DEF lead
<1>3. alias \in {<<>>, <<"a">>, <<"as", "a">>, <<"b">>}
  BY <1>1
<1> QED BY <1>1, <1>2, <1>3, ReferKeeps, Zenon

LEMMA QualifierIsAWord ==
  ASSUME meant.tables \in Seq(Meant), NEW q \in Qualifiers, q # <<>>
  PROVE  q \in Words /\ q[1] \notin FromOrJoin
<1>1. PICK t \in Range(meant.tables) : q = IF t.alias = NoValue THEN t.name ELSE <<t.alias>>
  BY DEF Qualifiers
<1>2. t.name \in Names /\ t.alias \in {NoValue, "a", "b"}
  <2>1. t \in Meant
    BY SeqOfTokens DEF Range
  <2> QED BY <2>1 DEF Meant
<1>3. CASE q = t.name
  BY <1>2, <1>3, StatementAssumption
<1>4. CASE q = <<t.alias>> /\ t.alias \in {"a", "b"}
  <2>1. t.alias \in Heads /\ t.alias \notin FromOrJoin
    BY <1>4, Vocabulary
  <2> QED BY <2>1, <1>4 DEF Words
<1> QED BY <1>1, <1>2, <1>3, <1>4

LEMMA WhereKeeps == StatementInv /\ Where => StatementInv'
<1> DEFINE first == IF part = "where" THEN <<"and">> ELSE <<"where">>
           dotted(q) == IF q = <<>> THEN <<>> ELSE q \o <<".">>
<1>1. SUFFICES ASSUME StatementInv,
                      NEW q \in Qualifiers, NEW e \in Equalities,
                      text' = text \o first \o dotted(q) \o <<e[1], "=">> \o e[2],
                      \E p, r : meant' = [meant EXCEPT !.preds = p, !.plain = r]
               PROVE  StatementInv'
  BY DEF Where
<1>2. Grown(text \o first)
  <2>1. Chunk(first)
    BY Vocabulary, OneWord
  <2> HIDE DEF first
  <2> QED BY <2>1, <1>1, GrownConcat DEF StatementInv
<1>3. MayFollow(dotted(q))
  <2>1. q # <<>> => q \in Words /\ q[1] \notin FromOrJoin
    BY <1>1, QualifierIsAWord DEF StatementInv
  <2> QED BY <2>1, QualifierIsRegular DEF MayFollow
<1> HIDE DEF first, dotted
<1>4. Grown((text \o first) \o dotted(q))
  BY <1>2, <1>3, GrownFollow
<1>5. /\ e[1] \in {"uid", "note"}
      /\ Regular(e[2]) /\ e[2] # <<>> /\ e[2][Len(e[2])] \notin FromOrJoin \union {"="}
      /\ e[2][1] \in Quotes => e[1] = "note" \/ Keyed(e[2], 1)
  <2>1. CASE e \in {"uid"} \X KeyLiterals
    <3>1. e[1] = "uid" /\ e[2] \in KeyLiterals
      BY <2>1
    <3> QED BY <3>1, KeyIsRegular
  <2>2. CASE e \in {"note"} \X {<<"'">> \o r \o <<"'">> : r \in Remarks}
    <3>1. e[1] = "note" /\ \E r \in Remarks : e[2] = (<<"'">> \o r) \o <<"'">>
      BY <2>2
    <3> QED BY <3>1, QuotedIsRegular
  <2> QED BY <1>1, <2>1, <2>2 DEF Equalities
<1>6. Grown((((text \o first) \o dotted(q)) \o <<e[1], "=">>) \o e[2])
  BY <1>4, <1>5, EqualityConcat
<1>7. Grown(text)'
  BY <1>1, <1>6 DEF Grown, Regular, WellFormed, Tame, Keyed, IsToken, IsWord, IsNumber, WordStop
<1>8. DOMAIN meant' = DOMAIN meant /\ meant'.tables = meant.tables
  BY <1>1
<1> QED BY <1>1, <1>7, <1>8 DEF StatementInv

LEMMA LimitKeeps == StatementInv /\ Limit => StatementInv'
<1>1. SUFFICES ASSUME StatementInv, NEW bounds \in Bounds,
                      text' = text \o <<"limit">> \o bounds,
                      \E n : meant' = [meant EXCEPT !.limit = n]
               PROVE  StatementInv'
  BY DEF Limit
<1>2. Grown((text \o <<"limit">>) \o bounds)
  BY <1>1, BoundsFollow DEF StatementInv
<1>3. Grown(text)'
  BY <1>1, <1>2 DEF Grown, Regular, WellFormed, Tame, Keyed, IsToken, IsWord, IsNumber, WordStop
<1>4. DOMAIN meant' = DOMAIN meant /\ meant'.tables = meant.tables
  BY <1>1
<1> QED BY <1>1, <1>3, <1>4 DEF StatementInv

(* However long a client writes, the statement is made of whole words, a   *)
(* name in it is followed by no number, "." or "=", what is compared is a  *)
(* key of its own or the text of a remark, and the tables it means are     *)
(* tables of its vocabulary.                                               *)
THEOREM StatementsAreRegular == Spec => []StatementInv
<1>1. Init => StatementInv
  BY InitStatement
<1>2. StatementInv /\ [Next]_vars => StatementInv'
  <2>1. StatementInv /\ UNCHANGED vars => StatementInv'
    BY DEF StatementInv, vars, Grown, Regular, WellFormed, Tame, Keyed, IsToken, IsWord, IsNumber, WordStop
  <2> QED BY <2>1, FromKeeps, FromSubqueryKeeps, JoinKeeps, CommaKeeps, WhereKeeps, LimitKeeps DEF Next
<1> QED BY <1>1, <1>2, PTL DEF Spec

(* Whatever statement a client wrote, the text SqlRewriteEngine.rewrite    *)
(* makes of it is allowed if the statement was, goes to the same targets   *)
(* and is left as it is: explain.py and executor.py run a text the check   *)
(* would have passed, though it never saw it.                              *)
THEOREM SpecCheckedIsAFixedPoint == Spec => []CheckedIsAFixedPoint
<1>1. StatementInv => CheckedIsAFixedPoint
  BY RegularIsFixed DEF StatementInv, Grown, CheckedIsAFixedPoint
<1> QED BY <1>1, StatementsAreRegular, PTL

-----------------------------------------------------------------------------
(* What is written stays understood.  A text in two parts says what each   *)
(* part says, for each of the three scans, if nothing at the seam is read  *)
(* across it; each clause a client writes begins with a word that is not.  *)

(* A quote that is compared with is closed.                                *)
AllClosed(x) ==
  \A v \in DOMAIN x : IsToken(x, v, Quotes) /\ IsToken(x, v - 1, {"="}) => LiteralStop(x, v) # 0

(* x stands in y, after the first d tokens.                                *)
Places(x, d, y) ==
  /\ x \in Seq(Tokens) /\ y \in Seq(Tokens)
  /\ d \in Nat /\ d + Len(x) <= Len(y)
  /\ \A i \in 1 .. Len(x) : y[d + i] = x[i]

(* A text as a part of another: nothing after it carries on what it says.  *)
Within(x, d, y) ==
  /\ Places(x, d, y)
  /\ ~ IsToken(y, d + Len(x) + 1, Tails \union DOMAIN Numeral \union Quotes \union Signs \union {"as"})
  /\ ~ IsToken(y, d + Len(x) + 2, Tails \union {"=", "."})
  /\ IsToken(x, Len(x), FromOrJoin) => ~ IsWord(y, d + Len(x) + 1)
  /\ AllClosed(x) \/ d + Len(x) = Len(y)

LEMMA PlacesFacts ==
  ASSUME NEW x, NEW d, NEW y, Places(x, d, y)
  PROVE  /\ Len(x) \in Nat /\ Len(y) \in Nat /\ d \in Int /\ d >= 0 /\ d + Len(x) <= Len(y)
         /\ DOMAIN x = 1 .. Len(x) /\ DOMAIN y = 1 .. Len(y)
         /\ \A i \in 1 .. Len(x) : y[d + i] = x[i] /\ d + i \in 1 .. Len(y)
<1>1. x \in Seq(Tokens) /\ y \in Seq(Tokens) /\ d \in Nat /\ d + Len(x) <= Len(y)
  BY DEF Places
<1>2. Len(x) \in Nat /\ Len(y) \in Nat /\ DOMAIN x = 1 .. Len(x) /\ DOMAIN y = 1 .. Len(y)
  BY <1>1, SeqOfTokens
<1>3. \A i \in 1 .. Len(x) : y[d + i] = x[i]
  BY DEF Places
<1>4. \A i \in 1 .. Len(x) : d + i \in 1 .. Len(y)
  BY <1>1, <1>2
<1> QED BY <1>1, <1>2, <1>3, <1>4

LEMMA TokenPlaced ==
  ASSUME NEW x, NEW d, NEW y, Places(x, d, y), NEW i \in 1 .. Len(x), NEW T
  PROVE  IsToken(y, d + i, T) <=> IsToken(x, i, T)
<1>1. i \in DOMAIN x /\ d + i \in DOMAIN y /\ y[d + i] = x[i]
  BY PlacesFacts
<1> QED BY <1>1, Zenon DEF IsToken

LEMMA TextPlaced ==
  ASSUME NEW x, NEW d, NEW y, Places(x, d, y), NEW i \in Int, NEW j \in Int,
         i >= 1, i <= j, j <= Len(x) + 1
  PROVE  TextOf(y, d + i, d + j) = TextOf(x, i, j)
<1>1. x \in Seq(Tokens) /\ y \in Seq(Tokens)
  BY DEF Places
<1>2. /\ Len(x) \in Nat /\ Len(y) \in Nat /\ d \in Int /\ d >= 0 /\ d + Len(x) <= Len(y)
      /\ \A k \in 1 .. Len(x) : y[d + k] = x[k]
  BY PlacesFacts
<1> DEFINE a == SubSeq(x, i, j - 1)
           m == d + i
           o == d + j
           b == SubSeq(y, m, o - 1)
<1>3. a = [k \in 1 .. j - i |-> x[i + k - 1]]
  BY <1>1, <1>2, SubSeqPlaces
<1>4. m \in Nat /\ o \in Int /\ m >= 1 /\ m <= o /\ o <= Len(y) + 1 /\ o - m = j - i
  BY <1>2
<1> HIDE DEF a, m, o
<1>5. b = [k \in 1 .. o - m |-> y[m + k - 1]]
  BY <1>1, <1>4, SubSeqPlaces
<1>6. \A k \in 1 .. j - i : y[m + k - 1] = x[i + k - 1]
  <2>1. ASSUME NEW k \in 1 .. j - i PROVE y[m + k - 1] = x[i + k - 1]
    <3>1. i + k - 1 \in 1 .. Len(x) /\ d + (i + k - 1) = m + k - 1
      BY <1>2 DEF m
    <3> QED BY <3>1, <1>2
  <2> QED BY <2>1
<1>7. b = a
  <2>1. [k \in 1 .. j - i |-> x[i + k - 1]] = [k \in 1 .. j - i |-> y[m + k - 1]]
    BY <1>6
  <2> QED BY <2>1, <1>3, <1>4, <1>5
<1> QED BY <1>7 DEF TextOf, a, m, o

(* A word of the part is the same word of the whole.                       *)
LEMMA WordWithin ==
  ASSUME NEW x, NEW d, NEW y, Within(x, d, y), NEW i \in 1 .. Len(x)
  PROVE  /\ IsWord(y, d + i) <=> IsWord(x, i)
         /\ WordStop(y, d + i) = d + WordStop(x, i)
         /\ IsWord(x, i) => /\ WordStop(x, i) \in i + 1 .. Len(x) + 1
                            /\ WordAt(y, d + i) = WordAt(x, i)
<1>1. Places(x, d, y) /\ x \in Seq(Tokens)
  BY DEF Within, Places
<1>2. Len(x) \in Nat /\ d \in Int /\ i \in Int /\ DOMAIN x = 1 .. Len(x)
  BY <1>1, PlacesFacts
<1>3. IsWord(y, d + i) <=> IsWord(x, i)
  BY <1>1, TokenPlaced DEF IsWord
<1>4. IsToken(y, d + i + 1, Tails) <=> IsToken(x, i + 1, Tails)
  <2>1. CASE i = Len(x)
    <3>1. ~ IsToken(y, d + Len(x) + 1, Tails)
      BY DEF Within, IsToken
    <3>2. ~ IsToken(x, i + 1, Tails)
      BY <2>1, <1>2 DEF IsToken
    <3> QED BY <2>1, <3>1, <3>2
  <2>2. CASE i # Len(x)
    <3>1. i + 1 \in 1 .. Len(x)
      <4>1. Len(x) \in Int /\ i \in Int /\ i >= 1 /\ i <= Len(x)
        BY <1>2
      <4> QED BY <4>1, <2>2
    <3>3. d + (i + 1) = (d + i) + 1
      BY <1>2
    <3>2. IsToken(y, d + (i + 1), Tails) <=> IsToken(x, i + 1, Tails)
      BY <3>1, <1>1, TokenPlaced
    <3> QED BY <3>2, <3>3
  <2> QED BY <2>1, <2>2
<1>5. WordStop(y, d + i) = d + WordStop(x, i)
  BY <1>2, <1>4 DEF WordStop
<1>6. ASSUME IsWord(x, i)
      PROVE  WordStop(x, i) \in i + 1 .. Len(x) + 1 /\ WordAt(y, d + i) = WordAt(x, i)
  <2>1. WordStop(x, i) \in i + 1 .. Len(x) + 1
    BY <1>1, <1>2, <1>6, WordFacts
  <2>2. TextOf(y, d + i, d + WordStop(x, i)) = TextOf(x, i, WordStop(x, i))
    BY <2>1, <1>1, <1>2, TextPlaced
  <2> QED BY <2>1, <2>2, <1>5 DEF WordAt
<1> QED BY <1>3, <1>5, <1>6

(* The sign after a word is in the part, or there is none.                 *)
LEMMA SignWithin ==
  ASSUME NEW x, NEW d, NEW y, Within(x, d, y), NEW i \in 1 .. Len(x) + 1,
         NEW T, T \subseteq Tails \union DOMAIN Numeral \union Quotes \union Signs \union {"as"}
  PROVE  IsToken(y, d + i, T) <=> IsToken(x, i, T)
<1>1. Places(x, d, y)
  BY DEF Within
<1>2. Len(x) \in Nat /\ d \in Int /\ i \in Int /\ DOMAIN x = 1 .. Len(x)
  BY <1>1, PlacesFacts
<1>3. CASE i \in 1 .. Len(x)
  BY <1>1, <1>3, TokenPlaced
<1>4. CASE i = Len(x) + 1
  <2>1. ~ IsToken(y, d + Len(x) + 1, T)
    BY DEF Within, IsToken
  <2>2. ~ IsToken(x, i, T) /\ d + i = d + Len(x) + 1
    BY <1>2, <1>4 DEF IsToken
  <2> QED BY <2>1, <2>2
<1> QED BY <1>2, <1>3, <1>4

LEMMA LiteralWithin ==
  ASSUME NEW x, NEW d, NEW y, Within(x, d, y), NEW v \in 2 .. Len(x) + 1, IsToken(x, v - 1, {"="})
  PROVE  /\ LiteralStop(x, v) = 0 => LiteralStop(y, d + v) = 0
         /\ LiteralStop(x, v) # 0 =>
              /\ LiteralStop(y, d + v) = d + LiteralStop(x, v)
              /\ LiteralStop(x, v) \in v + 1 .. Len(x) + 1
              /\ NormalizeValue(y, d + v, LiteralStop(y, d + v)) = NormalizeValue(x, v, LiteralStop(x, v))
<1>1. Places(x, d, y) /\ x \in Seq(Tokens) /\ y \in Seq(Tokens)
  BY DEF Within, Places
<1>2. /\ Len(x) \in Nat /\ Len(y) \in Nat /\ d \in Int /\ d >= 0 /\ v \in Int /\ d + v \in Int
      /\ DOMAIN x = 1 .. Len(x) /\ DOMAIN y = 1 .. Len(y)
      /\ \A i \in 1 .. Len(x) : y[d + i] = x[i] /\ d + i \in 1 .. Len(y)
  BY <1>1, PlacesFacts
<1>3. /\ IsNumber(y, d + v) <=> IsNumber(x, v)
      /\ IsToken(y, d + v, Quotes) <=> IsToken(x, v, Quotes)
  <2>1. v \in 1 .. Len(x) + 1
    OBVIOUS
  <2> QED BY <2>1, SignWithin DEF IsNumber
<1>4. CASE ~ IsNumber(x, v) /\ ~ IsToken(x, v, Quotes)
  <2>1. LiteralStop(x, v) = 0 /\ LiteralStop(y, d + v) = 0
    BY <1>1, <1>2, <1>3, <1>4, LiteralCases
  <2> QED BY <2>1
<1>5. CASE IsNumber(x, v)
  <2>1. LiteralStop(x, v) = v + 1 /\ LiteralStop(y, d + v) = d + v + 1
    BY <1>1, <1>2, <1>3, <1>5, LiteralCases
  <2>2. v \in 1 .. Len(x) /\ x[v] \in DOMAIN Numeral
    BY <1>2, <1>5 DEF IsNumber, IsToken
  <2>3. y[d + v] = x[v] /\ x[v] \notin Quotes
    BY <2>2, <1>2, Kinds
  <2>4. /\ NormalizeValue(y, d + v, LiteralStop(y, d + v)) = y[d + v]
        /\ NormalizeValue(x, v, LiteralStop(x, v)) = x[v]
    BY <2>3 DEF NormalizeValue
  <2> QED BY <2>1, <2>2, <2>3, <2>4, <1>2
<1>6. CASE IsToken(x, v, Quotes)
  <2>1. v \in 1 .. Len(x) /\ y[d + v] = x[v] /\ x[v] \in Quotes
    BY <1>2, <1>6 DEF IsToken
  <2>2. CASE LiteralStop(x, v) = 0
    <3>1. d + Len(x) = Len(y)
      <4>1. ~ AllClosed(x)
        BY <2>1, <2>2, <1>2, <1>6 DEF AllClosed
      <4> QED BY <4>1 DEF Within
    <3>2. \A c \in DOMAIN x : c > v => x[c] # x[v]
      <4>1. ASSUME NEW k \in DOMAIN x, k > v, x[k] = x[v] PROVE FALSE
        <5> DEFINE S == {c \in DOMAIN x : c > v /\ x[c] = x[v]}
        <5>1. S # {} /\ S \in SUBSET Nat
          BY <4>1, <1>2
        <5>2. PICK c \in S : \A e \in S : c <= e
          BY <5>1, LeastElement, Zenon
        <5>3. c \in DOMAIN x /\ c > v /\ x[c] = x[v] /\ \A j \in DOMAIN x : j > v /\ x[j] = x[v] => c <= j
          BY <5>2
        <5>4. LiteralStop(x, v) = c + 1
          <6>1. x \in Seq(Tokens) /\ v \in Int /\ IsToken(x, v, Quotes)
            BY <1>1, <1>2, <1>6
          <6> QED BY ONLY <5>3, <6>1, LiteralCases
        <5> QED BY <5>3, <5>4, <2>2, <1>2
      <4> QED BY <4>1
    <3>3. \A c \in DOMAIN y : c > d + v => y[c] # y[d + v]
      <4>1. ASSUME NEW c \in DOMAIN y, c > d + v PROVE y[c] # y[d + v]
        <5>1. c - d \in 1 .. Len(x) /\ d + (c - d) = c /\ c - d > v
          BY <4>1, <3>1, <1>2, <2>1
        <5>2. y[c] = x[c - d] /\ x[c - d] # x[v]
          BY <5>1, <3>2, <1>2
        <5> QED BY <5>2, <2>1
      <4> QED BY <4>1
    <3>4. LiteralStop(y, d + v) = 0
      BY <3>3, <1>1, <1>2, <1>3, <1>6, LiteralCases
    <3> QED BY <2>2, <3>4
  <2>3. CASE LiteralStop(x, v) # 0
    <3>1. PICK c \in DOMAIN x : /\ c > v /\ x[c] = x[v] /\ LiteralStop(x, v) = c + 1
                                /\ \A j \in DOMAIN x : j > v /\ x[j] = x[v] => c <= j
      BY <2>3, <1>1, <1>2, <1>6, LiteralFacts
    <3>2. c \in 1 .. Len(x) /\ c \in Int /\ d + c \in DOMAIN y /\ y[d + c] = x[c] /\ d + c > d + v
      BY <3>1, <1>2
    <3>3. ASSUME NEW j \in DOMAIN y, j > d + v, y[j] = y[d + v] PROVE d + c <= j
      <4>1. SUFFICES ASSUME ~ (d + c <= j) PROVE FALSE
        OBVIOUS
      <4>2. j - d \in 1 .. Len(x) /\ d + (j - d) = j /\ j - d > v /\ ~ (c <= j - d)
        BY <4>1, <3>2, <3>3, <1>2, <2>1
      <4>3. y[j] = x[j - d]
        BY <4>2, <1>2
      <4> QED BY <4>2, <4>3, <3>1, <3>3, <2>1, <1>2
    <3>4. LiteralStop(y, d + v) = d + c + 1
      <4>1. y[d + c] = y[d + v]
        BY <3>1, <3>2, <2>1
      <4> QED BY <4>1, <3>2, <3>3, <1>1, <1>2, <1>3, <1>6, LiteralCases
    <3>5. TextOf(y, d + (v + 1), d + c) = TextOf(x, v + 1, c)
      <4>1. v + 1 \in Int /\ c \in Int /\ v + 1 >= 1 /\ v + 1 <= c /\ c <= Len(x) + 1
        BY <3>1, <3>2, <1>2
      <4> QED BY <4>1, <1>1, TextPlaced
    <3>6. d + (v + 1) = d + v + 1 /\ (d + c + 1) - 1 = d + c /\ (c + 1) - 1 = c /\ d + (c + 1) = d + c + 1
          /\ c + 1 \in v + 1 .. Len(x) + 1
      BY <3>1, <3>2, <1>2
    <3>7. NormalizeValue(y, d + v, d + c + 1) = NormalizeValue(x, v, c + 1)
      BY <2>1, <3>5, <3>6 DEF NormalizeValue
    <3> QED BY <3>1, <3>4, <3>6, <3>7, <2>3
  <2> QED BY <2>2, <2>3
<1> QED BY <1>4, <1>5, <1>6

(* The same equality, n tokens further on.                                 *)
SamePredicate(n, p, q) ==
  IF p.stop = 0 THEN q.stop = 0
  ELSE /\ q.stop = n + p.stop /\ q.stop # 0
       /\ q.qualifier = p.qualifier /\ q.column = p.column /\ q.value = p.value

LEMMA EqualityWithin ==
  ASSUME NEW x, NEW d, NEW y, Within(x, d, y), NEW i \in 1 .. Len(x) + 1, NEW q
  PROVE  SamePredicate(d, EqualityAt(x, q, i), EqualityAt(y, q, d + i))
<1>1. Places(x, d, y) /\ x \in Seq(Tokens)
  BY DEF Within, Places
<1>2. Len(x) \in Nat /\ d \in Int /\ d >= 0 /\ i \in Int /\ d + i \in Int /\ DOMAIN x = 1 .. Len(x)
  BY <1>1, PlacesFacts
<1>3. CASE ~ IsWord(x, i)
  <2>1. ~ Equates(y, d + i)
    <3>1. CASE i = Len(x) + 1
      <4>1. /\ ~ IsToken(y, d + Len(x) + 1, Tails \union DOMAIN Numeral \union Quotes \union Signs \union {"as"})
            /\ ~ IsToken(y, d + Len(x) + 2, Tails \union {"=", "."})
        BY DEF Within
      <4>2. d + i = d + Len(x) + 1 /\ (d + i) + 1 = d + Len(x) + 2
        BY <3>1, <1>2
      <4>3. WordStop(y, d + i) = d + Len(x) + 2
        BY <4>1, <4>2 DEF WordStop, IsToken
      <4> QED BY <4>1, <4>3 DEF Equates, IsToken
    <3>2. CASE i # Len(x) + 1
      <4>1. i \in 1 .. Len(x)
        BY <3>2, <1>2
      <4> QED BY <4>1, <1>3, WordWithin DEF Equates
    <3> QED BY <3>1, <3>2
  <2>2. EqualityAt(x, q, i).stop = 0 /\ EqualityAt(y, q, d + i).stop = 0
    BY <2>1, <1>2, <1>3, EqualityParts DEF Equates, NoMatch
  <2> QED BY <2>2 DEF SamePredicate
<1>4. CASE IsWord(x, i)
  <2> DEFINE w == WordStop(x, i)
             v == w + 1
  <2>1. i \in 1 .. Len(x)
    BY <1>4, <1>2 DEF IsWord, IsToken
  <2>2. /\ IsWord(y, d + i) /\ WordStop(y, d + i) = d + w /\ WordAt(y, d + i) = WordAt(x, i)
        /\ w \in i + 1 .. Len(x) + 1
    BY <2>1, <1>4, WordWithin
  <2> HIDE DEF w
  <2>3. w \in Int /\ w \in 1 .. Len(x) + 1 /\ (d + w) + 1 = d + v /\ w = v - 1 /\ v >= 2
    BY <2>2, <1>2
  <2>4. IsToken(y, d + w, {"="}) <=> IsToken(x, w, {"="})
    <3>1. {"="} \subseteq Tails \union DOMAIN Numeral \union Quotes \union Signs \union {"as"}
      BY DEF Signs
    <3> QED BY <3>1, <2>3, SignWithin
  <2> HIDE DEF v
  <2>5. CASE ~ IsToken(x, w, {"="})
    <3>1. ~ Equates(x, i) /\ ~ Equates(y, d + i)
      BY <2>2, <2>4, <2>5 DEF Equates, w
    <3>2. EqualityAt(x, q, i).stop = 0 /\ EqualityAt(y, q, d + i).stop = 0
      BY <3>1, <1>2, EqualityParts DEF NoMatch
    <3> QED BY <3>2 DEF SamePredicate
  <2>6. CASE IsToken(x, w, {"="})
    <3>1. v \in 2 .. Len(x) + 1 /\ IsToken(x, v - 1, {"="})
      <4>1. w \in 1 .. Len(x)
        BY <2>6, <1>2 DEF IsToken
      <4>2. v = w + 1
        BY DEF v
      <4>3. v \in 2 .. Len(x) + 1 /\ v - 1 = w
        BY <4>1, <4>2, <1>2
      <4> QED BY <4>3, <2>6
    <3>2. /\ LiteralStop(x, v) = 0 => LiteralStop(y, d + v) = 0
          /\ LiteralStop(x, v) # 0 =>
               /\ LiteralStop(y, d + v) = d + LiteralStop(x, v)
               /\ LiteralStop(x, v) \in v + 1 .. Len(x) + 1
               /\ NormalizeValue(y, d + v, LiteralStop(y, d + v)) = NormalizeValue(x, v, LiteralStop(x, v))
      BY <3>1, LiteralWithin
    <3>3. /\ Equates(x, i) <=> LiteralStop(x, v) # 0
          /\ Equates(y, d + i) <=> LiteralStop(y, d + v) # 0
      BY <1>4, <2>2, <2>3, <2>4, <2>6 DEF Equates, w, v
    <3>4. CASE LiteralStop(x, v) = 0
      <4>1. EqualityAt(x, q, i).stop = 0 /\ EqualityAt(y, q, d + i).stop = 0
        BY <3>2, <3>3, <3>4, <1>2, EqualityParts DEF NoMatch
      <4> QED BY <4>1 DEF SamePredicate
    <3>5. CASE LiteralStop(x, v) # 0
      <4>1. LiteralStop(y, d + v) # 0 /\ LiteralStop(y, d + v) = d + LiteralStop(x, v)
        <5>1. LiteralStop(y, d + v) = d + LiteralStop(x, v) /\ LiteralStop(x, v) \in v + 1 .. Len(x) + 1
          BY <3>2, <3>5
        <5>2. v >= 2 /\ v \in Int /\ Len(x) \in Int
          BY <2>3, <1>2 DEF v
        <5>3. LiteralStop(x, v) >= v + 1 /\ LiteralStop(x, v) \in Int
          BY <5>1, <5>2
        <5> QED BY <5>1, <5>2, <5>3, <1>2
      <4>2. EqualityAt(x, q, i) = [qualifier |-> q, column |-> WordAt(x, i),
                                   value |-> NormalizeValue(x, v, LiteralStop(x, v)), stop |-> LiteralStop(x, v)]
        BY <3>3, <3>5, <1>2, EqualityParts DEF v, w
      <4>3. EqualityAt(y, q, d + i) = [qualifier |-> q, column |-> WordAt(y, d + i),
                                       value |-> NormalizeValue(y, d + v, LiteralStop(y, d + v)),
                                       stop |-> LiteralStop(y, d + v)]
        <5>1. WordStop(y, d + i) + 1 = d + v
          BY <2>2, <2>3
        <5> QED BY <5>1, <3>3, <4>1, <1>2, EqualityParts
      <4>4. NormalizeValue(y, d + v, LiteralStop(y, d + v)) = NormalizeValue(x, v, LiteralStop(x, v))
        BY <3>2, <3>5
      <4> QED BY <4>1, <4>2, <4>3, <4>4, <2>2, <3>5 DEF SamePredicate
    <3> QED BY <3>4, <3>5
  <2> QED BY <2>5, <2>6
<1> QED BY <1>3, <1>4

LEMMA PredicateWithin ==
  ASSUME NEW x, NEW d, NEW y, Within(x, d, y), NEW i \in 1 .. Len(x)
  PROVE  SamePredicate(d, PredicateAt(x, i), PredicateAt(y, d + i))
<1>1. Places(x, d, y) /\ x \in Seq(Tokens)
  BY DEF Within, Places
<1>2. Len(x) \in Nat /\ d \in Int /\ d >= 0 /\ i \in Int /\ d + i \in Int /\ DOMAIN x = 1 .. Len(x)
  BY <1>1, PlacesFacts
<1>3. /\ IsWord(y, d + i) <=> IsWord(x, i)
      /\ WordStop(y, d + i) = d + WordStop(x, i)
      /\ IsWord(x, i) => /\ WordStop(x, i) \in i + 1 .. Len(x) + 1
                         /\ WordAt(y, d + i) = WordAt(x, i)
  BY WordWithin
<1>4. /\ PredicateAt(x, i) = EqualityAt(x, QualifierAt(x, i), ColumnAt(x, i))
      /\ PredicateAt(y, d + i) = EqualityAt(y, QualifierAt(y, d + i), ColumnAt(y, d + i))
  BY PredicateParts
<1>5. Qualified(y, d + i) <=> Qualified(x, i)
  <2>1. CASE IsWord(x, i)
    <3>1. {"."} \subseteq Tails \union DOMAIN Numeral \union Quotes \union Signs \union {"as"}
      BY DEF Signs
    <3>2. WordStop(x, i) \in 1 .. Len(x) + 1
      BY <2>1, <1>2, <1>3
    <3>3. IsToken(y, d + WordStop(x, i), {"."}) <=> IsToken(x, WordStop(x, i), {"."})
      BY <3>1, <3>2, SignWithin
    <3> QED BY <3>3, <2>1, <1>3 DEF Qualified
  <2>2. CASE ~ IsWord(x, i)
    BY <2>2, <1>3 DEF Qualified
  <2> QED BY <2>1, <2>2
<1>6. QualifierAt(y, d + i) = QualifierAt(x, i)
  BY <1>3, <1>5 DEF QualifierAt, Qualified
<1>7. ColumnAt(y, d + i) = d + ColumnAt(x, i) /\ ColumnAt(x, i) \in 1 .. Len(x) + 1
  <2>1. CASE Qualified(x, i)
    <3>1. WordStop(x, i) \in i + 1 .. Len(x) + 1 /\ WordStop(x, i) \in 1 .. Len(x)
      BY <2>1, <1>2, <1>3 DEF Qualified, IsToken
    <3>2. ColumnAt(x, i) = WordStop(x, i) + 1 /\ ColumnAt(y, d + i) = (d + WordStop(x, i)) + 1
      BY <2>1, <1>3, <1>5 DEF ColumnAt
    <3> QED BY <3>1, <3>2, <1>2
  <2>2. CASE ~ Qualified(x, i)
    <3>1. ColumnAt(x, i) = i /\ ColumnAt(y, d + i) = d + i
      BY <2>2, <1>5 DEF ColumnAt
    <3> QED BY <3>1, <1>2
  <2> QED BY <2>1, <2>2
<1>8. SamePredicate(d, EqualityAt(x, QualifierAt(x, i), ColumnAt(x, i)),
                    EqualityAt(y, QualifierAt(x, i), d + ColumnAt(x, i)))
  BY <1>7, EqualityWithin
<1> QED BY <1>4, <1>6, <1>7, <1>8

(* The same LIMIT, n tokens further on.                                    *)
SameLimitAt(n, p, q) ==
  IF p.stop = 0 THEN q.stop = 0 ELSE q.stop = n + p.stop /\ q.stop # 0 /\ q.count = p.count

LEMMA LimitWithin ==
  ASSUME NEW x, NEW d, NEW y, Within(x, d, y), NEW i \in 1 .. Len(x)
  PROVE  SameLimitAt(d, LimitAt(x, i), LimitAt(y, d + i))
<1>1. Places(x, d, y) /\ x \in Seq(Tokens)
  BY DEF Within, Places
<1>2. /\ Len(x) \in Nat /\ d \in Int /\ d >= 0 /\ i \in Int /\ DOMAIN x = 1 .. Len(x) /\ i >= 1
      /\ \A k \in 1 .. Len(x) : y[d + k] = x[k]
  BY <1>1, PlacesFacts
<1> DEFINE comma == ","
<1>3. {comma} \subseteq Tails \union DOMAIN Numeral \union Quotes \union Signs \union {"as"}
  BY Zenon DEF Signs
<1>4. IsToken(y, d + i, {"limit"}) <=> IsToken(x, i, {"limit"})
  BY <1>1, TokenPlaced
<1>5. /\ IsToken(x, i, {"limit"}) /\ IsNumber(x, i + 1) =>
           /\ IsToken(x, i + 2, {comma}) /\ IsNumber(x, i + 3) =>
                LimitAt(x, i).count = Numeral[x[i + 3]] /\ LimitAt(x, i).stop = i + 4
           /\ ~ (IsToken(x, i + 2, {comma}) /\ IsNumber(x, i + 3)) =>
                LimitAt(x, i).count = Numeral[x[i + 1]] /\ LimitAt(x, i).stop = i + 2
      /\ IsToken(y, d + i, {"limit"}) /\ IsNumber(y, d + i + 1) =>
           /\ IsToken(y, d + i + 2, {comma}) /\ IsNumber(y, d + i + 3) =>
                LimitAt(y, d + i).count = Numeral[y[d + i + 3]] /\ LimitAt(y, d + i).stop = d + i + 4
           /\ ~ (IsToken(y, d + i + 2, {comma}) /\ IsNumber(y, d + i + 3)) =>
                LimitAt(y, d + i).count = Numeral[y[d + i + 1]] /\ LimitAt(y, d + i).stop = d + i + 2
      /\ ~ (IsToken(x, i, {"limit"}) /\ IsNumber(x, i + 1)) => LimitAt(x, i).stop = 0
      /\ ~ (IsToken(y, d + i, {"limit"}) /\ IsNumber(y, d + i + 1)) => LimitAt(y, d + i).stop = 0
  BY LimitCases, Zenon
<1> HIDE DEF comma
<1>6. \A k \in 1 .. Len(x) + 1 : /\ IsNumber(y, d + k) <=> IsNumber(x, k)
                                 /\ IsToken(y, d + k, {comma}) <=> IsToken(x, k, {comma})
  <2>1. DOMAIN Numeral \subseteq Tails \union DOMAIN Numeral \union Quotes \union Signs \union {"as"}
    OBVIOUS
  <2> QED BY <1>3, <2>1, SignWithin, Zenon DEF IsNumber
<1>7. /\ d + (i + 1) = d + i + 1 /\ d + (i + 2) = d + i + 2 /\ d + (i + 3) = d + i + 3
      /\ d + (i + 4) = d + i + 4
  BY <1>2
<1>8. i + 1 \in 1 .. Len(x) + 1
  BY <1>2
<1>9. IsNumber(y, d + i + 1) <=> IsNumber(x, i + 1)
  BY <1>6, <1>7, <1>8
<1>10. CASE ~ (IsToken(x, i, {"limit"}) /\ IsNumber(x, i + 1))
  BY <1>4, <1>5, <1>9, <1>10 DEF SameLimitAt
<1>11. CASE IsToken(x, i, {"limit"}) /\ IsNumber(x, i + 1)
  <2>1. i + 1 \in 1 .. Len(x)
    BY <1>2, <1>11 DEF IsNumber, IsToken
  <2>2. i + 2 \in 1 .. Len(x) + 1 /\ y[d + i + 1] = x[i + 1]
    <3>1. i + 2 \in 1 .. Len(x) + 1
      BY <2>1, <1>2
    <3>2. y[d + (i + 1)] = x[i + 1]
      BY <2>1, <1>2
    <3> QED BY <3>1, <3>2, <1>7
  <2>3. IsToken(y, d + i + 2, {comma}) <=> IsToken(x, i + 2, {comma})
    BY <2>2, <1>6, <1>7
  <2>4. CASE IsToken(x, i + 2, {comma}) /\ IsNumber(x, i + 3)
    <3>1. i + 3 \in 1 .. Len(x)
      BY <1>2, <2>4 DEF IsNumber, IsToken
    <3>2. y[d + i + 3] = x[i + 3] /\ IsNumber(y, d + i + 3)
      <4>1. i + 3 \in 1 .. Len(x) + 1
        BY <3>1, <1>2
      <4>2. y[d + (i + 3)] = x[i + 3] /\ IsNumber(y, d + (i + 3))
        BY <4>1, <3>1, <1>2, <1>6, <2>4
      <4> QED BY <4>2, <1>7
    <3>3. /\ LimitAt(x, i).count = Numeral[x[i + 3]] /\ LimitAt(x, i).stop = i + 4
          /\ LimitAt(y, d + i).count = Numeral[y[d + i + 3]] /\ LimitAt(y, d + i).stop = d + i + 4
      BY <1>4, <1>5, <1>9, <1>11, <2>3, <2>4, <3>2
    <3>4. i + 4 # 0 /\ d + i + 4 # 0
      BY <1>2
    <3> QED BY <3>2, <3>3, <3>4, <1>7 DEF SameLimitAt
  <2>5. CASE ~ (IsToken(x, i + 2, {comma}) /\ IsNumber(x, i + 3))
    <3>1. ~ (IsToken(y, d + i + 2, {comma}) /\ IsNumber(y, d + i + 3))
      <4>1. CASE IsToken(x, i + 2, {comma})
        <5>1. i + 2 \in 1 .. Len(x)
          BY <4>1, <1>2 DEF IsToken
        <5>2. i + 3 \in 1 .. Len(x) + 1
          BY <5>1, <1>2
        <5>3. ~ IsNumber(y, d + (i + 3))
          BY <5>2, <1>6, <2>5, <4>1
        <5> QED BY <5>3, <1>7
      <4>2. CASE ~ IsToken(x, i + 2, {comma})
        BY <4>2, <2>3
      <4> QED BY <4>1, <4>2
    <3>3. /\ LimitAt(x, i).count = Numeral[x[i + 1]] /\ LimitAt(x, i).stop = i + 2
          /\ LimitAt(y, d + i).count = Numeral[y[d + i + 1]] /\ LimitAt(y, d + i).stop = d + i + 2
      BY <1>4, <1>5, <1>9, <1>11, <2>5, <3>1
    <3>4. i + 2 # 0 /\ d + i + 2 # 0
      BY <1>2
    <3> QED BY <2>2, <3>3, <3>4, <1>7 DEF SameLimitAt
  <2> QED BY <2>4, <2>5
<1> QED BY <1>10, <1>11

(* No word that follows is the alias of a table named at the end.          *)
Closed(x) == ~ IsToken(x, Len(x), Tails \union {"as"}) /\ ~ Refers(x, Len(x) - 1)

(* What a table named at the end of x takes for its alias is the next      *)
(* word.                                                                   *)
SwallowsNext(x, d, y, p, q) ==
  p = Len(x) + 1 /\ q = d + Len(x) + 2 /\ IsWord(y, d + Len(x) + 1)

LEMMA AliasWithin ==
  ASSUME NEW x, NEW d, NEW y, Within(x, d, y), NEW i \in 1 .. Len(x) + 1
  PROVE  \/ /\ AliasName(y, d + i) = AliasName(x, i)
            /\ AliasStop(y, d + i) = d + AliasStop(x, i)
         \/ /\ SwallowsNext(x, d, y, AliasStop(x, i), AliasStop(y, d + i))
            /\ i = Len(x) + 1 \/ IsToken(x, Len(x), {"as"})
<1> DEFINE n == Len(x)
           e == d + n + 1
<1>1. Places(x, d, y) /\ x \in Seq(Tokens)
  BY DEF Within, Places
<1>2. Len(x) \in Nat /\ d \in Int /\ d >= 0 /\ i \in Int /\ DOMAIN x = 1 .. Len(x)
  BY <1>1, PlacesFacts
<1>3. ~ IsToken(y, e, {"as"}) /\ ~ IsToken(y, e, Tails) /\ ~ IsToken(y, e + 1, Tails)
  <2>1. e + 1 = d + Len(x) + 2 /\ e = d + Len(x) + 1
    BY <1>2
  <2>2. /\ ~ IsToken(y, d + Len(x) + 1, Tails \union DOMAIN Numeral \union Quotes \union Signs \union {"as"})
        /\ ~ IsToken(y, d + Len(x) + 2, Tails \union {"=", "."})
    BY DEF Within
  <2> HIDE DEF e, n
  <2> QED BY <2>1, <2>2 DEF IsToken
<1>4. WordStop(y, e) = d + n + 2 /\ AliasAt(y, e) = e
  BY <1>2, <1>3 DEF WordStop, AliasAt
<1>5. ~ IsWord(x, n + 1) /\ ~ IsToken(x, n + 1, {"as"}) /\ ~ IsToken(x, n + 1, Tails)
  BY <1>2 DEF IsWord, IsToken
<1>6. \A k \in 1 .. n : /\ IsWord(y, d + k) <=> IsWord(x, k)
                        /\ WordStop(y, d + k) = d + WordStop(x, k)
                        /\ IsWord(x, k) => WordAt(y, d + k) = WordAt(x, k)
  BY WordWithin
<1>7. IsToken(y, d + i, {"as"}) <=> IsToken(x, i, {"as"})
  BY SignWithin
<1> HIDE DEF e
<1>8. CASE i = n + 1
  <2>1. d + i = e
    BY <1>8, <1>2 DEF e
  <2>2. AliasAt(x, i) = i /\ ~ IsWord(x, i)
    BY <1>5, <1>8 DEF AliasAt
  <2>3. AliasStop(x, i) = n + 1 /\ AliasName(x, i) = NoValue
    BY <1>8, <2>2 DEF AliasStop, AliasName
  <2>4. CASE IsWord(y, e)
    <3>1. AliasStop(y, d + i) = d + n + 2
      BY <2>1, <2>4, <1>4 DEF AliasStop
    <3> QED BY <2>3, <2>4, <3>1, <1>8 DEF SwallowsNext, e
  <2>5. CASE ~ IsWord(y, e)
    <3>1. AliasStop(y, d + i) = d + i /\ AliasName(y, d + i) = NoValue
      BY <2>1, <2>5, <1>4 DEF AliasStop, AliasName
    <3> QED BY <2>3, <3>1, <1>8
  <2> QED BY <2>4, <2>5
<1>9. CASE i \in 1 .. n /\ ~ IsToken(x, i, {"as"})
  <2>1. AliasAt(x, i) = i /\ AliasAt(y, d + i) = d + i
    BY <1>7, <1>9 DEF AliasAt
  <2> QED BY <2>1, <1>6, <1>9 DEF AliasName, AliasStop
<1>10. CASE i \in 1 .. n - 1 /\ IsToken(x, i, {"as"})
  <2>1. i + 1 \in 1 .. n /\ i \in 1 .. n /\ d + (i + 1) = d + i + 1
    BY <1>2, <1>10
  <2>2. IsWord(y, d + i + 1) <=> IsWord(x, i + 1)
    BY <2>1, <1>6
  <2>3. CASE IsWord(x, i + 1)
    <3>1. AliasAt(x, i) = i + 1 /\ AliasAt(y, d + i) = d + (i + 1)
      BY <2>1, <2>2, <2>3, <1>7, <1>10 DEF AliasAt
    <3> QED BY <3>1, <2>1, <1>6 DEF AliasName, AliasStop
  <2>4. CASE ~ IsWord(x, i + 1)
    <3>1. AliasAt(x, i) = i /\ AliasAt(y, d + i) = d + i
      BY <2>2, <2>4 DEF AliasAt
    <3> QED BY <3>1, <2>1, <1>6 DEF AliasName, AliasStop
  <2> QED BY <2>3, <2>4
<1>11. CASE i = n /\ i >= 1 /\ IsToken(x, i, {"as"})
  <2>1. i \in 1 .. n /\ d + i + 1 = e
    BY <1>2, <1>11 DEF e
  <2>2. AliasAt(x, i) = i
    BY <1>5, <1>11 DEF AliasAt
  <2>3. IsWord(x, i) /\ WordStop(x, i) = n + 1
    BY <1>5, <1>11, Kinds DEF IsWord, IsToken, WordStop
  <2>4. AliasStop(x, i) = n + 1
    BY <2>2, <2>3 DEF AliasStop
  <2>5. CASE IsWord(y, e)
    <3>1. AliasAt(y, d + i) = e
      BY <2>1, <2>5, <1>7, <1>11 DEF AliasAt
    <3>2. AliasStop(y, d + i) = d + n + 2
      BY <3>1, <2>5, <1>4 DEF AliasStop
    <3> QED BY <2>4, <2>5, <3>2, <1>11 DEF SwallowsNext, e
  <2>6. CASE ~ IsWord(y, e)
    <3>1. AliasAt(y, d + i) = d + i
      BY <2>1, <2>6 DEF AliasAt
    <3> QED BY <3>1, <2>1, <2>2, <1>6 DEF AliasName, AliasStop
  <2> QED BY <2>5, <2>6
<1>12. /\ i = n + 1 \/ (i \in 1 .. n - 1) \/ (i = n /\ i >= 1)
       /\ i \in 1 .. n - 1 \/ (i = n /\ i >= 1) => i \in 1 .. n
  <2>1. n \in Int /\ n >= 0 /\ i \in Int /\ i >= 1 /\ i <= n + 1
    BY <1>2
  <2> HIDE DEF n
  <2> QED BY <2>1
<1> QED BY <1>8, <1>9, <1>10, <1>11, <1>12

(* The same table, n tokens further on.  One named at the end of x may     *)
(* take the next word for its alias.                                       *)
SameTable(n, p, q) ==
  IF p.stop = 0 THEN q.stop = 0
  ELSE q.stop # 0 /\ q.name = p.name /\ q.tokenStart = n + p.tokenStart

LEMMA TableWithin ==
  ASSUME NEW x, NEW d, NEW y, Within(x, d, y), NEW i \in 1 .. Len(x)
  PROVE  /\ SameTable(d, TableAt(x, i), TableAt(y, d + i))
         /\ TableAt(x, i).stop # 0 =>
              \/ /\ TableAt(y, d + i).stop = d + TableAt(x, i).stop
                 /\ TableAt(y, d + i).alias = TableAt(x, i).alias
              \/ /\ SwallowsNext(x, d, y, TableAt(x, i).stop, TableAt(y, d + i).stop)
                 /\ ~ Closed(x)
<1> DEFINE next == WordStop(x, i + 1)
<1>1. Places(x, d, y) /\ x \in Seq(Tokens) /\ y \in Seq(Tokens)
  BY DEF Within, Places
<1>2. Len(x) \in Nat /\ d \in Int /\ d >= 0 /\ i \in Int /\ DOMAIN x = 1 .. Len(x)
  BY <1>1, PlacesFacts
<1>3. Refers(y, d + i) <=> Refers(x, i)
  <2>1. IsToken(y, d + i, FromOrJoin) <=> IsToken(x, i, FromOrJoin)
    BY <1>1, TokenPlaced
  <2>2. CASE i = Len(x)
    <3>1. IsToken(x, i, FromOrJoin) => ~ IsWord(y, d + i + 1)
      BY <2>2 DEF Within
    <3>2. ~ IsWord(x, i + 1)
      BY <2>2, <1>2 DEF IsWord, IsToken
    <3> QED BY <2>1, <3>1, <3>2 DEF Refers
  <2>3. CASE i # Len(x)
    <3>1. i + 1 \in 1 .. Len(x)
      <4>1. Len(x) \in Int /\ i \in Int /\ i >= 1 /\ i <= Len(x)
        BY <1>2
      <4> QED BY <4>1, <2>3
    <3>2. IsWord(y, d + (i + 1)) <=> IsWord(x, i + 1)
      BY <3>1, WordWithin
    <3>3. d + (i + 1) = d + i + 1
      BY <1>2
    <3> QED BY <3>2, <3>3, <2>1 DEF Refers
  <2> QED BY <2>2, <2>3
<1>4. CASE ~ Refers(x, i)
  <2>1. TableAt(x, i).stop = 0 /\ TableAt(y, d + i).stop = 0
    BY <1>3, <1>4, TableAtParts DEF NoMatch
  <2> QED BY <2>1 DEF SameTable
<1>5. CASE Refers(x, i)
  <2>1. i + 1 \in 1 .. Len(x) /\ IsWord(x, i + 1)
    BY <1>2, <1>5 DEF Refers, IsWord, IsToken
  <2>2. /\ next \in i + 2 .. Len(x) + 1 /\ next \in 1 .. Len(x) + 1
        /\ WordStop(y, d + i + 1) = d + next /\ WordAt(y, d + i + 1) = WordAt(x, i + 1)
    <3>1. /\ WordStop(y, d + (i + 1)) = d + next
          /\ next \in (i + 1) + 1 .. Len(x) + 1
          /\ WordAt(y, d + (i + 1)) = WordAt(x, i + 1)
      BY <2>1, WordWithin
    <3>2. d + (i + 1) = d + i + 1 /\ (i + 1) + 1 = i + 2
      BY <1>2
    <3> HIDE DEF next
    <3>3. next \in 1 .. Len(x) + 1 /\ next \in i + 2 .. Len(x) + 1
      BY <3>1, <3>2, <1>2
    <3> QED BY <3>1, <3>2, <3>3 DEF next
  <2>3. /\ TableAt(x, i) = [name |-> WordAt(x, i + 1), tokenStart |-> i + 1, tokenEnd |-> next,
                            alias |-> AliasName(x, next), stop |-> AliasStop(x, next)]
        /\ TableAt(y, d + i) = [name |-> WordAt(y, d + i + 1), tokenStart |-> d + i + 1, tokenEnd |-> d + next,
                                alias |-> AliasName(y, d + next), stop |-> AliasStop(y, d + next)]
    BY <1>3, <1>5, <2>2, TableAtParts
  <2> HIDE DEF next
  <2>4. \/ /\ AliasName(y, d + next) = AliasName(x, next)
           /\ AliasStop(y, d + next) = d + AliasStop(x, next)
        \/ /\ SwallowsNext(x, d, y, AliasStop(x, next), AliasStop(y, d + next))
           /\ next = Len(x) + 1 \/ IsToken(x, Len(x), {"as"})
    BY <2>2, AliasWithin
  <2>5. next = Len(x) + 1 \/ IsToken(x, Len(x), {"as"}) => ~ Closed(x)
    <3>1. IsToken(x, Len(x), {"as"}) => ~ Closed(x)
      BY DEF Closed, IsToken
    <3>2. ASSUME next = Len(x) + 1 PROVE ~ Closed(x)
      <4>1. CASE IsToken(x, i + 2, Tails)
        <5>1. next = i + 3
          <6>1. (i + 1) + 1 = i + 2 /\ (i + 1) + 2 = i + 3
            BY <1>2
          <6> QED BY <4>1, <6>1 DEF next, WordStop
        <5>2. i + 2 = Len(x)
          <6>1. Len(x) \in Int /\ i \in Int /\ i + 3 = Len(x) + 1
            BY <3>2, <5>1, <1>2
          <6> QED BY <6>1
        <5> QED BY <4>1, <5>2 DEF Closed, IsToken
      <4>2. CASE ~ IsToken(x, i + 2, Tails)
        <5>1. next = i + 2
          <6>1. (i + 1) + 1 = i + 2
            BY <1>2
          <6> QED BY <4>2, <6>1 DEF next, WordStop
        <5>2. i = Len(x) - 1
          <6>1. Len(x) \in Int /\ i \in Int /\ i + 2 = Len(x) + 1
            BY <3>2, <5>1, <1>2
          <6> QED BY <6>1
        <5> QED BY <1>5, <5>2 DEF Closed
      <4> QED BY <4>1, <4>2
    <3> QED BY <3>1, <3>2
  <2>6. AliasStop(x, next) \in next .. Len(x) + 1 /\ AliasStop(x, next) # 0
    <3>1. AliasStop(x, next) \in next .. Len(x) + 1
      BY <2>2, <1>1, AliasFacts
    <3> QED BY <3>1, <2>2, <1>2
  <2>7. AliasStop(y, d + next) # 0
    <3>1. CASE AliasStop(y, d + next) = d + AliasStop(x, next)
      BY <3>1, <2>2, <2>6, <1>2
    <3>2. CASE AliasStop(y, d + next) = d + Len(x) + 2
      BY <3>2, <1>2
    <3> QED BY <3>1, <3>2, <2>4 DEF SwallowsNext
  <2>8. d + i + 1 = d + (i + 1)
    BY <1>2
  <2>9. SameTable(d, TableAt(x, i), TableAt(y, d + i))
    BY <2>2, <2>3, <2>6, <2>7, <2>8 DEF SameTable
  <2> QED BY <2>3, <2>4, <2>5, <2>9
<1> QED BY <1>4, <1>5

-----------------------------------------------------------------------------
(* The scan of a text in two parts.  A match at the end of the first may   *)
(* take one token more, if none begins there.                              *)
Scans(a, m1, b, m2, m) ==
  /\ StopsAhead(a, m1) /\ StopsAhead(b, m2) /\ StopsAhead(a + b, m)
  /\ \A i \in 1 .. a :
       /\ m1[i].stop = 0 => m[i].stop = 0
       /\ m1[i].stop # 0 =>
            /\ m[i].stop # 0
            /\ \/ m[i].stop = m1[i].stop
               \/ m1[i].stop = a + 1 /\ m[i].stop = a + 2 /\ b >= 1 /\ m[a + 1].stop = 0
  /\ \A i \in 1 .. b :
       /\ m2[i].stop = 0 => m[a + i].stop = 0
       /\ m2[i].stop # 0 => m[a + i].stop = a + m2[i].stop

LEMMA ScanOfSecond ==
  ASSUME NEW a \in Nat, NEW b \in Nat, NEW m1, NEW m2, NEW m, Scans(a, m1, b, m2, m)
  PROVE  /\ Len(Starts(a + b, m)[a + 1]) = Len(Starts(b, m2)[1])
         /\ \A k \in 1 .. Len(Starts(b, m2)[1]) :
              Starts(a + b, m)[a + 1][k] = a + Starts(b, m2)[1][k]
<1> DEFINE D == 1 .. b + 1
           phi == [i \in D |-> a + i]
           s == Starts(a + b, m)
           s2 == Starts(b, m2)
<1>1. StopsAhead(b, m2) /\ StopsAhead(a + b, m) /\ a + b \in Nat
  BY DEF Scans
<1>2. D \in SUBSET (1 .. b + 1) /\ \A i \in D : phi[i] \in 1 .. a + b + 1
  OBVIOUS
<1>3. \A i \in 1 .. b : /\ m2[i].stop = 0 => m[a + i].stop = 0
                        /\ m2[i].stop # 0 => m[a + i].stop = a + m2[i].stop
  BY DEF Scans
<1>4. \A i \in 1 .. b : /\ m2[i].stop = 0 => s2[i] = s2[i + 1]
                        /\ m2[i].stop # 0 => m2[i].stop \in i + 1 .. b + 1 /\ m2[i].stop \in 1 .. b + 1
  BY <1>1, StartsCases
<1>5. \A i \in 1 .. a + b : m[i].stop = 0 => s[i] = s[i + 1]
  BY <1>1, StartsCases
<1>6. ASSUME NEW i \in D PROVE InStep(b, m2, a + b, m, D, phi, i)
  <2>1. CASE i = b + 1
    <3>1. phi[i] = a + b + 1
      BY <2>1
    <3> QED BY <2>1, <3>1 DEF InStep
  <2>2. CASE i \in 1 .. b /\ m2[i].stop # 0
    <3>1. m2[i].stop \in D /\ m[a + i].stop = a + m2[i].stop
      BY <2>2, <1>3, <1>4
    <3>2. phi[i] = a + i /\ phi[m2[i].stop] = a + m2[i].stop /\ phi[i] \in 1 .. a + b
      BY <2>2, <3>1
    <3> HIDE DEF phi, D
    <3> QED BY <2>2, <3>1, <3>2 DEF InStep
  <2>3. CASE i \in 1 .. b /\ m2[i].stop = 0
    <3>1. s2[i] = s2[i + 1] /\ m[a + i].stop = 0
      BY <2>3, <1>3, <1>4
    <3>2. i + 1 \in D /\ i + 1 > i /\ phi[i] = a + i /\ phi[i + 1] = a + i + 1 /\ a + i \in 1 .. a + b
      BY <2>3
    <3>3. s[a + i] = s[a + i + 1]
      BY <3>1, <3>2, <1>5
    <3>4. s2[i] = s2[i + 1] /\ s[phi[i]] = s[phi[i + 1]]
      BY <3>1, <3>2, <3>3
    <3> HIDE DEF phi, D, s, s2
    <3>5. \E j \in D : j > i /\ s2[i] = s2[j] /\ s[phi[i]] = s[phi[j]]
      BY <3>2, <3>4
    <3> QED BY <3>5 DEF InStep, s, s2
  <2> QED BY <2>1, <2>2, <2>3
<1> HIDE DEF D, phi
<1>7. \A i \in D : Tracks(D, phi, s2[i], s[phi[i]])
  BY <1>1, <1>2, <1>6, ScanTransfer
<1>8. Tracks(D, phi, s2[1], s[a + 1])
  <2>1. 1 \in D /\ phi[1] = a + 1
    BY DEF D, phi
  <2> HIDE DEF s, s2
  <2> QED BY <2>1, <1>7
<1> HIDE DEF s, s2
<1>9. /\ Len(s[a + 1]) = Len(s2[1])
      /\ \A k \in 1 .. Len(s2[1]) : s2[1][k] \in D /\ s[a + 1][k] = phi[s2[1][k]]
  BY <1>8 DEF Tracks
<1> QED BY <1>9 DEF D, phi, s, s2

(* The scan of the whole is that of the first part, and goes on from       *)
(* there.                                                                  *)
ScansOn(a, m1, b, m) == Starts(a + b, m)[1] = Starts(a, m1)[1] \o Starts(a + b, m)[a + 1]

LEMMA ScanOfFirst ==
  ASSUME NEW a \in Nat, NEW b \in Nat, NEW m1, NEW m2, NEW m, Scans(a, m1, b, m2, m)
  PROVE  ScansOn(a, m1, b, m)
<1> DEFINE s == Starts(a + b, m)
           s1 == Starts(a, m1)
           rest == s[a + 1]
           S == {i \in 1 .. a + 1 : s[i] = s1[i] \o rest}
<1>1. StopsAhead(a, m1) /\ StopsAhead(a + b, m) /\ a + b \in Nat
  BY DEF Scans
<1>2. /\ s1[a + 1] = <<>>
      /\ \A i \in 1 .. a :
           /\ m1[i].stop = 0 => s1[i] = s1[i + 1]
           /\ m1[i].stop # 0 => /\ m1[i].stop \in i + 1 .. a + 1
                                /\ s1[i] = <<i>> \o s1[m1[i].stop]
  BY <1>1, StartsCases
<1>3. \A i \in 1 .. a + b :
        /\ m[i].stop = 0 => s[i] = s[i + 1]
        /\ m[i].stop # 0 => s[i] = <<i>> \o s[m[i].stop]
  BY <1>1, StartsCases
<1>4. /\ \A i \in 1 .. a + 1 : s1[i] \in Seq(1 .. a)
      /\ \A i \in 1 .. a + b + 1 : s[i] \in Seq(1 .. a + b)
  BY <1>1, StartsType
<1>5. \A i \in 1 .. a :
        /\ m1[i].stop = 0 => m[i].stop = 0
        /\ m1[i].stop # 0 =>
             /\ m[i].stop # 0
             /\ \/ m[i].stop = m1[i].stop
                \/ m1[i].stop = a + 1 /\ m[i].stop = a + 2 /\ b >= 1 /\ m[a + 1].stop = 0
  BY DEF Scans
<1> HIDE DEF s, s1
<1>6. rest \in Seq(Int) /\ \A i \in 1 .. a + 1 : s1[i] \in Seq(Int)
  <2>1. a + 1 \in 1 .. a + b + 1
    OBVIOUS
  <2>2. rest \in Seq(1 .. a + b) /\ \A i \in 1 .. a + 1 : s1[i] \in Seq(1 .. a)
    BY <2>1, <1>4
  <2>3. 1 .. a + b \subseteq Int /\ 1 .. a \subseteq Int
    OBVIOUS
  <2> HIDE DEF rest
  <2> QED BY <2>2, <2>3
<1> HIDE DEF rest
<1>7. ASSUME NEW i \in 1 .. a + 1, \A j \in i + 1 .. a + 1 : s[j] = s1[j] \o rest
      PROVE  s[i] = s1[i] \o rest
  <2>1. CASE i = a + 1
    <3>1. <<>> \o rest = rest
      BY <1>6, ConcatEmptySeq
    <3> QED BY <2>1, <3>1, <1>2 DEF rest
  <2>2. CASE i \in 1 .. a /\ m1[i].stop = 0
    <3>1. i + 1 \in i + 1 .. a + 1 /\ i \in 1 .. a + b
      BY <2>2
    <3>2. s[i] = s[i + 1] /\ s1[i] = s1[i + 1]
      BY <2>2, <3>1, <1>2, <1>3, <1>5
    <3> QED BY <3>1, <3>2, <1>7
  <2>3. CASE i \in 1 .. a /\ m1[i].stop # 0
    <3> DEFINE e == m1[i].stop
               f == m[i].stop
    <3>1. e \in i + 1 .. a + 1 /\ s1[i] = <<i>> \o s1[e]
      BY <2>3, <1>2
    <3>2. i \in 1 .. a + b
      BY <2>3
    <3>3. s[i] = <<i>> \o s[f]
      BY <2>3, <3>2, <1>3, <1>5
    <3>4. s[f] = s[e]
      <4>1. CASE f = e
        BY <4>1
      <4>2. CASE e = a + 1 /\ f = a + 2 /\ b >= 1 /\ m[a + 1].stop = 0
        <5>1. a + 1 \in 1 .. a + b /\ (a + 1) + 1 = a + 2
          BY <4>2
        <5>2. s[a + 1] = s[(a + 1) + 1]
          BY <4>2, <5>1, <1>3
        <5> HIDE DEF e, f
        <5> QED BY <4>2, <5>1, <5>2
      <4> QED BY <4>1, <4>2, <2>3, <1>5
    <3> HIDE DEF e, f
    <3>5. s[e] = s1[e] \o rest
      BY <3>1, <1>7
    <3>6. <<i>> \o (s1[e] \o rest) = (<<i>> \o s1[e]) \o rest
      <4>1. e \in 1 .. a + 1
        BY <3>1
      <4> DEFINE t == s1[e]
                 u == <<i>>
      <4>2. u \in Seq(Int) /\ t \in Seq(Int) /\ rest \in Seq(Int)
        BY <4>1, <1>6
      <4> HIDE DEF t, u
      <4>3. (u \o t) \o rest = u \o (t \o rest)
        BY ONLY <4>2, ConcatAssociative
      <4> QED BY <4>3 DEF t, u
    <3> QED BY <3>1, <3>3, <3>4, <3>5, <3>6
  <2>4. i = a + 1 \/ i \in 1 .. a
    OBVIOUS
  <2> QED BY <2>1, <2>2, <2>3, <2>4
<1>8. ASSUME NEW i \in 1 .. a + 1, \A j \in i + 1 .. a + 1 : j \in S PROVE i \in S
  <2>1. \A j \in i + 1 .. a + 1 : s[j] = s1[j] \o rest
    BY <1>8
  <2> QED BY <2>1, <1>7
<1> HIDE DEF S
<1>9. \A i \in 1 .. a + 1 : i \in S
  <2>1. 1 \in Int /\ a + 1 \in Int
    OBVIOUS
  <2> QED BY <2>1, <1>8, DownTo
<1>10. 1 \in S
  BY <1>9
<1> QED BY <1>10, Zenon DEF ScansOn, S, s, s1, rest

(* The scan of the whole finds what the scans of the two parts find.       *)
ScansBoth(a, m1, b, m2, m) ==
  /\ Len(Starts(a, m1)[1]) \in Nat /\ Len(Starts(b, m2)[1]) \in Nat
  /\ Len(Starts(a + b, m)[1]) = Len(Starts(a, m1)[1]) + Len(Starts(b, m2)[1])
  /\ \A k \in 1 .. Len(Starts(a, m1)[1]) : Starts(a + b, m)[1][k] = Starts(a, m1)[1][k]
  /\ \A k \in 1 .. Len(Starts(b, m2)[1]) :
       Starts(a + b, m)[1][Len(Starts(a, m1)[1]) + k] = a + Starts(b, m2)[1][k]

LEMMA ScanJoined ==
  ASSUME NEW a \in Nat, NEW b \in Nat, NEW m1, NEW m2, NEW m, Scans(a, m1, b, m2, m)
  PROVE  ScansBoth(a, m1, b, m2, m)
<1> DEFINE s == Starts(a + b, m)[1]
           s1 == Starts(a, m1)[1]
           s2 == Starts(b, m2)[1]
           rest == Starts(a + b, m)[a + 1]
<1>1. s = s1 \o rest
  <2>1. ScansOn(a, m1, b, m)
    BY ScanOfFirst
  <2> QED BY <2>1, Zenon DEF ScansOn
<1>2. s1 \in Seq(Int) /\ s2 \in Seq(Int) /\ rest \in Seq(Int)
  <2>1. StopsAhead(a, m1) /\ StopsAhead(b, m2) /\ StopsAhead(a + b, m) /\ a + b \in Nat
    BY DEF Scans
  <2>2. 1 \in 1 .. a + 1 /\ 1 \in 1 .. b + 1 /\ a + 1 \in 1 .. a + b + 1
    OBVIOUS
  <2>3. s1 \in Seq(1 .. a) /\ s2 \in Seq(1 .. b) /\ rest \in Seq(1 .. a + b)
    BY <2>1, <2>2, StartsType
  <2>4. 1 .. a + b \subseteq Int /\ 1 .. a \subseteq Int /\ 1 .. b \subseteq Int
    OBVIOUS
  <2> HIDE DEF rest, s1, s2
  <2> QED BY <2>3, <2>4
<1>3. Len(rest) = Len(s2) /\ \A k \in 1 .. Len(s2) : rest[k] = a + s2[k]
  BY ScanOfSecond
<1> HIDE DEF rest, s, s1, s2
<1>4. /\ Len(s1 \o rest) = Len(s1) + Len(rest)
      /\ \A i \in 1 .. Len(s1) : (s1 \o rest)[i] = s1[i]
      /\ \A i \in 1 .. Len(rest) : (s1 \o rest)[Len(s1) + i] = rest[i]
  BY <1>2, ConcatPlaces
<1>5. Len(s1) \in Nat /\ Len(s2) \in Nat
  BY <1>2, SeqOfTokens
<1>6. Len(s) = Len(s1) + Len(s2)
  BY <1>1, <1>3, <1>4, Zenon
<1>7. \A k \in 1 .. Len(s1) : s[k] = s1[k]
  BY <1>1, <1>4, Zenon
<1>8. \A k \in 1 .. Len(s2) : s[Len(s1) + k] = a + s2[k]
  BY <1>1, <1>3, <1>4, Zenon
<1> QED BY <1>5, <1>6, <1>7, <1>8, Zenon DEF ScansBoth, s, s1, s2

-----------------------------------------------------------------------------
(* A text in two parts, each of which says alone what it says there.       *)
Joins(x, c, y) ==
  Len(y) = Len(x) + Len(c) /\ Within(x, 0, y) /\ Within(c, Len(x), y)

LEMMA JoinsFacts ==
  ASSUME NEW x, NEW c, NEW y, Joins(x, c, y)
  PROVE  /\ x \in Seq(Tokens) /\ c \in Seq(Tokens) /\ y \in Seq(Tokens)
         /\ Len(x) \in Nat /\ Len(c) \in Nat /\ Len(y) = Len(x) + Len(c)
         /\ DOMAIN x = 1 .. Len(x) /\ DOMAIN c = 1 .. Len(c) /\ DOMAIN y = 1 .. Len(y)
<1>1. x \in Seq(Tokens) /\ c \in Seq(Tokens) /\ y \in Seq(Tokens) /\ Len(y) = Len(x) + Len(c)
  BY DEF Joins, Within, Places
<1> QED BY <1>1, SeqOfTokens

(* y is as long as x and c together.                                       *)
Joint(x, c, y) ==
  x \in Seq(Tokens) /\ c \in Seq(Tokens) /\ y \in Seq(Tokens) /\ Len(y) = Len(x) + Len(c)

LEMMA FoundJoined ==
  ASSUME NEW x, NEW c, NEW y, Joint(x, c, y),
         NEW m1, NEW m2, NEW m, Scans(Len(x), m1, Len(c), m2, m)
  PROVE  /\ Len(FindIter(x, m1)) \in Nat /\ Len(FindIter(c, m2)) \in Nat
         /\ Len(FindIter(y, m)) = Len(FindIter(x, m1)) + Len(FindIter(c, m2))
         /\ \A k \in 1 .. Len(FindIter(x, m1)) : \E i \in 1 .. Len(x) :
              /\ FindIter(x, m1)[k] = m1[i] /\ FindIter(y, m)[k] = m[i] /\ m1[i].stop # 0
              /\ k < Len(FindIter(x, m1)) => m1[i].stop <= Len(x)
         /\ \A k \in 1 .. Len(FindIter(c, m2)) : \E i \in 1 .. Len(c) :
              /\ FindIter(c, m2)[k] = m2[i] /\ m2[i].stop # 0
              /\ FindIter(y, m)[Len(FindIter(x, m1)) + k] = m[Len(x) + i]
<1> DEFINE s  == Starts(Len(x) + Len(c), m)[1]
           s1 == Starts(Len(x), m1)[1]
           s2 == Starts(Len(c), m2)[1]
           f  == FindIter(y, m)
           f1 == FindIter(x, m1)
           f2 == FindIter(c, m2)
<1>1. /\ x \in Seq(Tokens) /\ c \in Seq(Tokens) /\ y \in Seq(Tokens)
      /\ Len(x) \in Nat /\ Len(c) \in Nat /\ Len(y) = Len(x) + Len(c)
  BY SeqOfTokens DEF Joint
<1>2. StopsAhead(Len(x), m1) /\ StopsAhead(Len(c), m2) /\ StopsAhead(Len(y), m)
  BY <1>1 DEF Scans
<1>3. /\ Len(s1) \in Nat /\ Len(s2) \in Nat /\ Len(s) = Len(s1) + Len(s2)
      /\ \A k \in 1 .. Len(s1) : s[k] = s1[k]
      /\ \A k \in 1 .. Len(s2) : s[Len(s1) + k] = Len(x) + s2[k]
  <2>1. ScansBoth(Len(x), m1, Len(c), m2, m)
    BY <1>1, ScanJoined
  <2> QED BY <2>1, Zenon DEF ScansBoth
<1>4. /\ Len(f1) = Len(s1)
      /\ \A k \in 1 .. Len(f1) : f1[k] = m1[s1[k]] /\ s1[k] \in 1 .. Len(x) /\ m1[s1[k]].stop # 0
  BY <1>1, <1>2, FindIterPlaces
<1>5. /\ Len(f2) = Len(s2)
      /\ \A k \in 1 .. Len(f2) : f2[k] = m2[s2[k]] /\ s2[k] \in 1 .. Len(c) /\ m2[s2[k]].stop # 0
  BY <1>1, <1>2, FindIterPlaces
<1>6. /\ Len(f) = Len(s)
      /\ \A k \in 1 .. Len(f) : f[k] = m[s[k]]
  <2>1. /\ Len(f) = Len(Starts(Len(y), m)[1])
        /\ \A k \in 1 .. Len(f) : f[k] = m[Starts(Len(y), m)[1][k]]
    <3>1. y \in Seq(Tokens) /\ StopsAhead(Len(y), m)
      BY <1>1, <1>2
    <3> HIDE DEF f
    <3> QED BY <3>1, FindIterPlaces DEF f
  <2> QED BY <2>1, <1>1
<1>7. ASSUME NEW k \in 1 .. Len(s1), k < Len(s1) PROVE m1[s1[k]].stop <= Len(x)
  <2>1. 1 \in 1 .. Len(x) + 1 /\ k + 1 \in 1 .. Len(s1) /\ k \in 1 .. (k + 1) - 1
    BY <1>1, <1>3, <1>7
  <2>2. m1[s1[k]].stop <= s1[k + 1]
    BY <2>1, <1>1, <1>2, ChainedOrder
  <2>3. s1[k + 1] \in 1 .. Len(x)
    BY <2>1, <1>4
  <2>4. m1[s1[k]].stop \in Int
    <3>1. s1[k] \in 1 .. Len(x)
      BY <1>4
    <3> HIDE DEF s1
    <3>2. m1[s1[k]].stop = 0 \/ m1[s1[k]].stop \in s1[k] + 1 .. Len(x) + 1
      BY <3>1, <1>2 DEF StopsAhead
    <3> QED BY <3>2
  <2> HIDE DEF s1
  <2> QED BY <2>2, <2>3, <2>4, <1>1
<1> HIDE DEF s, s1, s2, f, f1, f2
<1>8. Len(f1) \in Nat /\ Len(f2) \in Nat /\ Len(f) = Len(f1) + Len(f2)
  BY <1>3, <1>4, <1>5, <1>6
<1>9. ASSUME NEW k \in 1 .. Len(f1)
      PROVE  \E i \in 1 .. Len(x) : /\ f1[k] = m1[i] /\ f[k] = m[i] /\ m1[i].stop # 0
                                    /\ k < Len(f1) => m1[i].stop <= Len(x)
  <2>1. k \in 1 .. Len(f) /\ k \in 1 .. Len(s1)
    BY <1>4, <1>8
  <2>2. f1[k] = m1[s1[k]] /\ f[k] = m[s1[k]] /\ m1[s1[k]].stop # 0 /\ s1[k] \in 1 .. Len(x)
    BY <2>1, <1>3, <1>4, <1>6
  <2>3. k < Len(f1) => m1[s1[k]].stop <= Len(x)
    BY <2>1, <1>4, <1>7
  <2> QED BY <2>2, <2>3
<1>10. ASSUME NEW k \in 1 .. Len(f2)
       PROVE  \E i \in 1 .. Len(c) : f2[k] = m2[i] /\ m2[i].stop # 0 /\ f[Len(f1) + k] = m[Len(x) + i]
  <2>1. Len(f1) + k \in 1 .. Len(f) /\ k \in 1 .. Len(s2)
    BY <1>5, <1>8
  <2>2. s[Len(f1) + k] = Len(x) + s2[k]
    BY <2>1, <1>3, <1>4
  <2>3. f2[k] = m2[s2[k]] /\ m2[s2[k]].stop # 0 /\ s2[k] \in 1 .. Len(c)
    BY <1>5
  <2>4. f[Len(f1) + k] = m[Len(x) + s2[k]]
    BY <2>1, <2>2, <1>6
  <2> QED BY <2>3, <2>4
<1> QED BY <1>8, <1>9, <1>10 DEF f, f1, f2

-----------------------------------------------------------------------------
(* What is seen of a predicate, wherever it stands.                        *)
Seen(p) == [qualifier |-> p.qualifier, column |-> p.column, value |-> p.value]

LEMMA PredicatesJoined ==
  ASSUME NEW x, NEW c, NEW y, Joins(x, c, y)
  PROVE  /\ Len(PredicatesOf(x)) \in Nat /\ Len(PredicatesOf(c)) \in Nat
         /\ Len(PredicatesOf(y)) = Len(PredicatesOf(x)) + Len(PredicatesOf(c))
         /\ \A k \in 1 .. Len(PredicatesOf(x)) : Seen(PredicatesOf(y)[k]) = Seen(PredicatesOf(x)[k])
         /\ \A k \in 1 .. Len(PredicatesOf(c)) :
              Seen(PredicatesOf(y)[Len(PredicatesOf(x)) + k]) = Seen(PredicatesOf(c)[k])
<1> DEFINE a == Len(x)
           b == Len(c)
           m1 == PredicateMatches(x)
           m2 == PredicateMatches(c)
           m == PredicateMatches(y)
<1>1. /\ x \in Seq(Tokens) /\ c \in Seq(Tokens) /\ y \in Seq(Tokens)
      /\ a \in Nat /\ b \in Nat /\ Len(y) = a + b
      /\ DOMAIN x = 1 .. a /\ DOMAIN c = 1 .. b /\ DOMAIN y = 1 .. a + b
  BY JoinsFacts
<1>2. /\ \A i \in 1 .. a : m1[i] = PredicateAt(x, i)
      /\ \A i \in 1 .. b : m2[i] = PredicateAt(c, i)
      /\ \A i \in 1 .. a + b : m[i] = PredicateAt(y, i)
  BY <1>1 DEF PredicateMatches
<1>3. StopsAhead(a, m1) /\ StopsAhead(b, m2) /\ StopsAhead(a + b, m)
  <2>1. StopsAhead(Len(x), m1) /\ StopsAhead(Len(c), m2) /\ StopsAhead(Len(y), m)
    BY <1>1, PredicatesStopAhead DEF PredicateMatches
  <2> QED BY <2>1, <1>1
<1> HIDE DEF m1, m2, m
<1>4. \A i \in 1 .. a : SamePredicate(0, m1[i], m[i])
  <2>1. ASSUME NEW i \in 1 .. a PROVE SamePredicate(0, m1[i], m[i])
    <3>1. SamePredicate(0, PredicateAt(x, i), PredicateAt(y, 0 + i))
      BY PredicateWithin DEF Joins
    <3>2. 0 + i = i /\ i \in 1 .. a + b
      BY <1>1
    <3> QED BY <3>1, <3>2, <1>2
  <2> QED BY <2>1
<1>5. \A i \in 1 .. b : SamePredicate(a, m2[i], m[a + i])
  <2>1. ASSUME NEW i \in 1 .. b PROVE SamePredicate(a, m2[i], m[a + i])
    <3>1. SamePredicate(a, PredicateAt(c, i), PredicateAt(y, a + i))
      BY PredicateWithin DEF Joins
    <3>2. a + i \in 1 .. a + b
      BY <1>1
    <3> QED BY <3>1, <3>2, <1>2
  <2> QED BY <2>1
<1>6. Scans(a, m1, b, m2, m)
  <2>1. \A i \in 1 .. a :
          /\ m1[i].stop = 0 => m[i].stop = 0
          /\ m1[i].stop # 0 => m[i].stop # 0 /\ m[i].stop = m1[i].stop
    <3>1. ASSUME NEW i \in 1 .. a, m1[i].stop # 0 PROVE m[i].stop # 0 /\ m[i].stop = m1[i].stop
      <4>1. m[i].stop # 0 /\ m[i].stop = 0 + m1[i].stop
        BY <3>1, <1>4 DEF SamePredicate
      <4>2. m1[i].stop \in i + 1 .. a + 1
        BY <3>1, <1>3 DEF StopsAhead
      <4>3. 0 + m1[i].stop = m1[i].stop
        BY <4>2
      <4> QED BY <4>1, <4>3
    <3>2. \A i \in 1 .. a : m1[i].stop = 0 => m[i].stop = 0
      BY <1>4 DEF SamePredicate
    <3> QED BY <3>1, <3>2
  <2>2. \A i \in 1 .. b :
          /\ m2[i].stop = 0 => m[a + i].stop = 0
          /\ m2[i].stop # 0 => m[a + i].stop = a + m2[i].stop
    BY <1>5 DEF SamePredicate
  <2> HIDE DEF a, b
  <2> QED BY <1>3, <2>1, <2>2, Zenon DEF Scans
<1>7. /\ PredicatesOf(x) = FindIter(x, m1) /\ PredicatesOf(c) = FindIter(c, m2)
      /\ PredicatesOf(y) = FindIter(y, m)
  BY DEF PredicatesOf, PredicateMatches, m1, m2, m
<1>8. /\ Len(FindIter(x, m1)) \in Nat /\ Len(FindIter(c, m2)) \in Nat
      /\ Len(FindIter(y, m)) = Len(FindIter(x, m1)) + Len(FindIter(c, m2))
      /\ \A k \in 1 .. Len(FindIter(x, m1)) : \E i \in 1 .. a :
           FindIter(x, m1)[k] = m1[i] /\ FindIter(y, m)[k] = m[i] /\ m1[i].stop # 0
      /\ \A k \in 1 .. Len(FindIter(c, m2)) : \E i \in 1 .. b :
           /\ FindIter(c, m2)[k] = m2[i] /\ m2[i].stop # 0
           /\ FindIter(y, m)[Len(FindIter(x, m1)) + k] = m[a + i]
  <2>1. Joint(x, c, y)
    BY <1>1 DEF Joint
  <2>2. Scans(Len(x), m1, Len(c), m2, m)
    BY <1>6
  <2> HIDE DEF a, b
  <2> QED BY <2>1, <2>2, FoundJoined DEF a, b
<1>9. \A i \in 1 .. a : m1[i].stop # 0 => Seen(m[i]) = Seen(m1[i])
  BY <1>4 DEF SamePredicate, Seen
<1>10. \A i \in 1 .. b : m2[i].stop # 0 => Seen(m[a + i]) = Seen(m2[i])
  BY <1>5 DEF SamePredicate, Seen
<1> QED BY <1>7, <1>8, <1>9, <1>10

(* The LIMITs of a text in two parts.                                      *)
LimitMatches(x) == [i \in DOMAIN x |-> LimitAt(x, i)]
Counted(l) == l.count

LEMMA LimitsJoined ==
  ASSUME NEW x, NEW c, NEW y, Joins(x, c, y)
  PROVE  /\ Len(LimitsOf(x)) \in Nat /\ Len(LimitsOf(c)) \in Nat
         /\ Len(LimitsOf(y)) = Len(LimitsOf(x)) + Len(LimitsOf(c))
         /\ \A k \in 1 .. Len(LimitsOf(x)) : Counted(LimitsOf(y)[k]) = Counted(LimitsOf(x)[k])
         /\ \A k \in 1 .. Len(LimitsOf(c)) :
              Counted(LimitsOf(y)[Len(LimitsOf(x)) + k]) = Counted(LimitsOf(c)[k])
<1> DEFINE a == Len(x)
           b == Len(c)
           m1 == LimitMatches(x)
           m2 == LimitMatches(c)
           m == LimitMatches(y)
<1>1. /\ x \in Seq(Tokens) /\ c \in Seq(Tokens) /\ y \in Seq(Tokens)
      /\ a \in Nat /\ b \in Nat /\ Len(y) = a + b
      /\ DOMAIN x = 1 .. a /\ DOMAIN c = 1 .. b /\ DOMAIN y = 1 .. a + b
  BY JoinsFacts
<1>2. /\ \A i \in 1 .. a : m1[i] = LimitAt(x, i)
      /\ \A i \in 1 .. b : m2[i] = LimitAt(c, i)
      /\ \A i \in 1 .. a + b : m[i] = LimitAt(y, i)
  BY <1>1 DEF LimitMatches
<1>3. StopsAhead(a, m1) /\ StopsAhead(b, m2) /\ StopsAhead(a + b, m)
  <2>1. StopsAhead(Len(x), m1) /\ StopsAhead(Len(c), m2) /\ StopsAhead(Len(y), m)
    BY <1>1, LimitsStopAhead DEF LimitMatches
  <2> QED BY <2>1, <1>1
<1> HIDE DEF m1, m2, m
<1>4. \A i \in 1 .. a : SameLimitAt(0, m1[i], m[i])
  <2>1. ASSUME NEW i \in 1 .. a PROVE SameLimitAt(0, m1[i], m[i])
    <3>1. SameLimitAt(0, LimitAt(x, i), LimitAt(y, 0 + i))
      BY LimitWithin DEF Joins
    <3>2. 0 + i = i /\ i \in 1 .. a + b
      BY <1>1
    <3> QED BY <3>1, <3>2, <1>2
  <2> QED BY <2>1
<1>5. \A i \in 1 .. b : SameLimitAt(a, m2[i], m[a + i])
  <2>1. ASSUME NEW i \in 1 .. b PROVE SameLimitAt(a, m2[i], m[a + i])
    <3>1. SameLimitAt(a, LimitAt(c, i), LimitAt(y, a + i))
      BY LimitWithin DEF Joins
    <3>2. a + i \in 1 .. a + b
      BY <1>1
    <3> QED BY <3>1, <3>2, <1>2
  <2> QED BY <2>1
<1>6. Scans(a, m1, b, m2, m)
  <2>1. \A i \in 1 .. a :
          /\ m1[i].stop = 0 => m[i].stop = 0
          /\ m1[i].stop # 0 => m[i].stop # 0 /\ m[i].stop = m1[i].stop
    <3>1. ASSUME NEW i \in 1 .. a, m1[i].stop # 0 PROVE m[i].stop # 0 /\ m[i].stop = m1[i].stop
      <4>1. m[i].stop # 0 /\ m[i].stop = 0 + m1[i].stop
        BY <3>1, <1>4 DEF SameLimitAt
      <4>2. m1[i].stop \in i + 1 .. a + 1
        BY <3>1, <1>3 DEF StopsAhead
      <4>3. 0 + m1[i].stop = m1[i].stop
        BY <4>2
      <4> QED BY <4>1, <4>3
    <3>2. \A i \in 1 .. a : m1[i].stop = 0 => m[i].stop = 0
      BY <1>4 DEF SameLimitAt
    <3> QED BY <3>1, <3>2
  <2>2. \A i \in 1 .. b :
          /\ m2[i].stop = 0 => m[a + i].stop = 0
          /\ m2[i].stop # 0 => m[a + i].stop = a + m2[i].stop
    BY <1>5 DEF SameLimitAt
  <2> HIDE DEF a, b
  <2> QED BY <1>3, <2>1, <2>2, Zenon DEF Scans
<1>7. /\ LimitsOf(x) = FindIter(x, m1) /\ LimitsOf(c) = FindIter(c, m2)
      /\ LimitsOf(y) = FindIter(y, m)
  BY DEF LimitsOf, LimitMatches, m1, m2, m
<1>8. /\ Len(FindIter(x, m1)) \in Nat /\ Len(FindIter(c, m2)) \in Nat
      /\ Len(FindIter(y, m)) = Len(FindIter(x, m1)) + Len(FindIter(c, m2))
      /\ \A k \in 1 .. Len(FindIter(x, m1)) : \E i \in 1 .. a :
           FindIter(x, m1)[k] = m1[i] /\ FindIter(y, m)[k] = m[i] /\ m1[i].stop # 0
      /\ \A k \in 1 .. Len(FindIter(c, m2)) : \E i \in 1 .. b :
           /\ FindIter(c, m2)[k] = m2[i] /\ m2[i].stop # 0
           /\ FindIter(y, m)[Len(FindIter(x, m1)) + k] = m[a + i]
  <2>1. Joint(x, c, y)
    BY <1>1 DEF Joint
  <2>2. Scans(Len(x), m1, Len(c), m2, m)
    BY <1>6
  <2> HIDE DEF a, b
  <2> QED BY <2>1, <2>2, FoundJoined DEF a, b
<1>9. \A i \in 1 .. a : m1[i].stop # 0 => Counted(m[i]) = Counted(m1[i])
  BY <1>4 DEF SameLimitAt, Counted
<1>10. \A i \in 1 .. b : m2[i].stop # 0 => Counted(m[a + i]) = Counted(m2[i])
  BY <1>5 DEF SameLimitAt, Counted
<1> QED BY <1>7, <1>8, <1>9, <1>10

-----------------------------------------------------------------------------
(* The tables of a text in two parts.                                      *)
NamedAlike(n, p, q) == q.name = p.name /\ q.tokenStart = n + p.tokenStart
SameAlias(p, q) == q.alias = p.alias

LEMMA TablesJoined ==
  ASSUME NEW x, NEW c, NEW y, Joins(x, c, y), Closed(x) \/ ~ IsToken(c, 1, FromOrJoin)
  PROVE  /\ Len(TablesOf(x)) \in Nat /\ Len(TablesOf(c)) \in Nat
         /\ Len(TablesOf(y)) = Len(TablesOf(x)) + Len(TablesOf(c))
         /\ \A k \in 1 .. Len(TablesOf(x)) :
              /\ NamedAlike(0, TablesOf(x)[k], TablesOf(y)[k])
              /\ k < Len(TablesOf(x)) \/ Closed(x) => SameAlias(TablesOf(x)[k], TablesOf(y)[k])
         /\ \A k \in 1 .. Len(TablesOf(c)) :
              /\ NamedAlike(Len(x), TablesOf(c)[k], TablesOf(y)[Len(TablesOf(x)) + k])
              /\ SameAlias(TablesOf(c)[k], TablesOf(y)[Len(TablesOf(x)) + k])
<1> DEFINE a == Len(x)
           b == Len(c)
           m1 == TableMatches(x)
           m2 == TableMatches(c)
           m == TableMatches(y)
<1>1. /\ x \in Seq(Tokens) /\ c \in Seq(Tokens) /\ y \in Seq(Tokens)
      /\ a \in Nat /\ b \in Nat /\ Len(y) = a + b
      /\ DOMAIN x = 1 .. a /\ DOMAIN c = 1 .. b /\ DOMAIN y = 1 .. a + b
  BY JoinsFacts
<1>2. /\ \A i \in 1 .. a : m1[i] = TableAt(x, i)
      /\ \A i \in 1 .. b : m2[i] = TableAt(c, i)
      /\ \A i \in 1 .. a + b : m[i] = TableAt(y, i)
  BY <1>1 DEF TableMatches
<1>3. StopsAhead(a, m1) /\ StopsAhead(b, m2) /\ StopsAhead(a + b, m)
  <2>1. StopsAhead(Len(x), m1) /\ StopsAhead(Len(c), m2) /\ StopsAhead(Len(y), m)
    BY <1>1, TablesStopAhead DEF TableMatches
  <2> QED BY <2>1, <1>1
<1> HIDE DEF m1, m2, m
<1>4. \A i \in 1 .. a :
        /\ SameTable(0, m1[i], m[i])
        /\ m1[i].stop # 0 =>
             \/ m[i].stop = m1[i].stop /\ m[i].alias = m1[i].alias
             \/ m1[i].stop = a + 1 /\ m[i].stop = a + 2 /\ IsWord(y, a + 1) /\ ~ Closed(x)
  <2>1. ASSUME NEW i \in 1 .. a
        PROVE  /\ SameTable(0, m1[i], m[i])
               /\ m1[i].stop # 0 =>
                    \/ m[i].stop = m1[i].stop /\ m[i].alias = m1[i].alias
                    \/ m1[i].stop = a + 1 /\ m[i].stop = a + 2 /\ IsWord(y, a + 1) /\ ~ Closed(x)
    <3>1. 0 + i = i /\ i \in 1 .. a + b /\ i \in 1 .. Len(x)
      BY <1>1
    <3>2. Within(x, 0, y)
      BY DEF Joins
    <3>3. /\ SameTable(0, TableAt(x, i), TableAt(y, 0 + i))
          /\ TableAt(x, i).stop # 0 =>
              \/ /\ TableAt(y, 0 + i).stop = 0 + TableAt(x, i).stop
                 /\ TableAt(y, 0 + i).alias = TableAt(x, i).alias
              \/ /\ SwallowsNext(x, 0, y, TableAt(x, i).stop, TableAt(y, 0 + i).stop)
                 /\ ~ Closed(x)
      BY <3>1, <3>2, TableWithin
    <3>4. m1[i].stop # 0 => 0 + m1[i].stop = m1[i].stop
      <4>1. m1[i].stop # 0 => m1[i].stop \in i + 1 .. a + 1
        BY <1>3 DEF StopsAhead
      <4> QED BY <4>1
    <3>5. 0 + Len(x) + 2 = a + 2 /\ 0 + Len(x) + 1 = a + 1
      BY <1>1
    <3>6. SwallowsNext(x, 0, y, m1[i].stop, m[i].stop) => m1[i].stop = a + 1 /\ m[i].stop = a + 2 /\ IsWord(y, a + 1)
      BY <3>5, Zenon DEF SwallowsNext
    <3>7. m1[i] = TableAt(x, i) /\ m[i] = TableAt(y, 0 + i)
      BY <3>1, <1>2
    <3> HIDE DEF a, b
    <3> QED BY <3>3, <3>4, <3>6, <3>7, Zenon
  <2> QED BY <2>1
<1>5. \A i \in 1 .. b :
        /\ SameTable(a, m2[i], m[a + i])
        /\ m2[i].stop # 0 => m[a + i].stop = a + m2[i].stop /\ m[a + i].alias = m2[i].alias
  <2>1. ASSUME NEW i \in 1 .. b
        PROVE  /\ SameTable(a, m2[i], m[a + i])
               /\ m2[i].stop # 0 => m[a + i].stop = a + m2[i].stop /\ m[a + i].alias = m2[i].alias
    <3>1. a + i \in 1 .. a + b
      BY <1>1
    <3>2. Within(c, a, y)
      BY DEF Joins
    <3>3. /\ SameTable(a, TableAt(c, i), TableAt(y, a + i))
          /\ TableAt(c, i).stop # 0 =>
              \/ /\ TableAt(y, a + i).stop = a + TableAt(c, i).stop
                 /\ TableAt(y, a + i).alias = TableAt(c, i).alias
              \/ /\ SwallowsNext(c, a, y, TableAt(c, i).stop, TableAt(y, a + i).stop)
                 /\ ~ Closed(c)
      BY <3>2, TableWithin
    <3>4. ~ IsWord(y, a + Len(c) + 1)
      BY <1>1 DEF IsWord, IsToken
    <3>5. m2[i] = TableAt(c, i) /\ m[a + i] = TableAt(y, a + i)
      BY <3>1, <1>2
    <3> HIDE DEF a, b
    <3> QED BY <3>3, <3>4, <3>5, Zenon DEF SwallowsNext
  <2> QED BY <2>1
<1>6. Scans(a, m1, b, m2, m)
  <2>1. \A i \in 1 .. a :
          /\ m1[i].stop = 0 => m[i].stop = 0
          /\ m1[i].stop # 0 =>
               /\ m[i].stop # 0
               /\ \/ m[i].stop = m1[i].stop
                  \/ m1[i].stop = a + 1 /\ m[i].stop = a + 2 /\ b >= 1 /\ m[a + 1].stop = 0
    <3>1. \A i \in 1 .. a :
            /\ m1[i].stop = 0 => m[i].stop = 0
            /\ m1[i].stop # 0 => m[i].stop # 0
      BY <1>4 DEF SameTable
    <3>2. IsWord(y, a + 1) => b >= 1
      BY <1>1 DEF IsWord, IsToken
    <3>3. ASSUME b >= 1, ~ Closed(x) PROVE m[a + 1].stop = 0
      <4>1. 1 \in 1 .. b /\ 1 \in 1 .. Len(c)
        BY <3>3, <1>1
      <4>2. ~ Refers(c, 1)
        BY <3>3 DEF Refers
      <4>3. TableAt(c, 1).stop = 0
        BY <4>1, <4>2, <1>1, TableFacts
      <4>4. m2[1].stop = 0
        BY <4>1, <4>3, <1>2
      <4> HIDE DEF a, b
      <4> QED BY <4>1, <4>4, <1>5 DEF SameTable
    <3> HIDE DEF a, b
    <3> QED BY <3>1, <3>2, <3>3, <1>4, Zenon
  <2>2. \A i \in 1 .. b :
          /\ m2[i].stop = 0 => m[a + i].stop = 0
          /\ m2[i].stop # 0 => m[a + i].stop = a + m2[i].stop
    BY <1>5 DEF SameTable
  <2> HIDE DEF a, b
  <2> QED BY <1>3, <2>1, <2>2, Zenon DEF Scans
<1>7. /\ TablesOf(x) = FindIter(x, m1) /\ TablesOf(c) = FindIter(c, m2)
      /\ TablesOf(y) = FindIter(y, m)
  BY DEF TablesOf, TableMatches, m1, m2, m
<1>8. /\ Len(FindIter(x, m1)) \in Nat /\ Len(FindIter(c, m2)) \in Nat
      /\ Len(FindIter(y, m)) = Len(FindIter(x, m1)) + Len(FindIter(c, m2))
      /\ \A k \in 1 .. Len(FindIter(x, m1)) : \E i \in 1 .. a :
           /\ FindIter(x, m1)[k] = m1[i] /\ FindIter(y, m)[k] = m[i] /\ m1[i].stop # 0
           /\ k < Len(FindIter(x, m1)) => m1[i].stop <= a
      /\ \A k \in 1 .. Len(FindIter(c, m2)) : \E i \in 1 .. b :
           /\ FindIter(c, m2)[k] = m2[i] /\ m2[i].stop # 0
           /\ FindIter(y, m)[Len(FindIter(x, m1)) + k] = m[a + i]
  <2>1. Joint(x, c, y)
    BY <1>1 DEF Joint
  <2>2. Scans(Len(x), m1, Len(c), m2, m)
    BY <1>6
  <2> HIDE DEF a, b
  <2> QED BY <2>1, <2>2, FoundJoined DEF a, b
<1>9. \A i \in 1 .. a : m1[i].stop # 0 =>
        /\ NamedAlike(0, m1[i], m[i])
        /\ m1[i].stop <= a \/ Closed(x) => SameAlias(m1[i], m[i])
  <2>1. \A i \in 1 .. a : m1[i].stop # 0 => NamedAlike(0, m1[i], m[i])
    BY <1>4 DEF SameTable, NamedAlike
  <2>2. ASSUME NEW i \in 1 .. a, m1[i].stop # 0, m1[i].stop <= a \/ Closed(x)
        PROVE  SameAlias(m1[i], m[i])
    <3>1. m1[i].stop <= a => m1[i].stop # a + 1
      BY <1>1
    <3> HIDE DEF a
    <3> QED BY <2>2, <3>1, <1>4, Zenon DEF SameAlias
  <2> QED BY <2>1, <2>2
<1>10. \A i \in 1 .. b : m2[i].stop # 0 => NamedAlike(a, m2[i], m[a + i]) /\ SameAlias(m2[i], m[a + i])
  BY <1>5 DEF SameTable, NamedAlike, SameAlias
<1>11. \A k \in 1 .. Len(FindIter(x, m1)) :
         /\ NamedAlike(0, FindIter(x, m1)[k], FindIter(y, m)[k])
         /\ k < Len(FindIter(x, m1)) \/ Closed(x) => SameAlias(FindIter(x, m1)[k], FindIter(y, m)[k])
  BY <1>8, <1>9
<1>12. \A k \in 1 .. Len(FindIter(c, m2)) :
         /\ NamedAlike(a, FindIter(c, m2)[k], FindIter(y, m)[Len(FindIter(x, m1)) + k])
         /\ SameAlias(FindIter(c, m2)[k], FindIter(y, m)[Len(FindIter(x, m1)) + k])
  BY <1>8, <1>10
<1> QED BY <1>7, <1>8, <1>11, <1>12

(* What a client writes next begins with a word that no table takes for    *)
(* its alias's "as", and that no column ends.                              *)
Led(c) ==
  /\ c \in Seq(Tokens) /\ Len(c) >= 2
  /\ c[1] \in Heads /\ c[1] # "as" /\ c[2] \notin Tails \union {"=", "."}
  /\ AllClosed(c)

LEMMA LedJoins ==
  ASSUME NEW x, Grown(x), AllClosed(x), NEW c, Led(c)
  PROVE  Joins(x, c, x \o c)
<1> DEFINE y == x \o c
           a == Len(x)
<1>1. x \in Seq(Tokens) /\ c \in Seq(Tokens)
  BY DEF Grown, Regular, WellFormed, Led
<1>2. /\ y \in Seq(Tokens) /\ Len(y) = Len(x) + Len(c)
      /\ \A i \in 1 .. Len(x) : y[i] = x[i]
      /\ \A i \in 1 .. Len(c) : y[Len(x) + i] = c[i]
  BY <1>1, ConcatPlaces
<1>3. Len(x) \in Nat /\ Len(c) \in Nat /\ Len(c) >= 2 /\ DOMAIN y = 1 .. Len(y)
  BY <1>1, <1>2, SeqOfTokens DEF Led
<1> HIDE DEF y
<1>4. y[a + 1] = c[1] /\ y[a + 2] = c[2]
  <2>1. 1 \in 1 .. Len(c) /\ 2 \in 1 .. Len(c)
    BY <1>3
  <2> QED BY <2>1, <1>2
<1>5. ~ IsToken(y, a + 1, Tails \union DOMAIN Numeral \union Quotes \union Signs \union {"as"})
  <2>1. c[1] \notin Tails \union DOMAIN Numeral \union Quotes \union Signs \union {"as"}
    BY Signed DEF Led
  <2> HIDE DEF a
  <2> QED BY <2>1, <1>4 DEF IsToken
<1>6. ~ IsToken(y, a + 2, Tails \union {"=", "."})
  <2>1. c[2] \notin Tails \union {"=", "."}
    BY DEF Led
  <2> HIDE DEF a
  <2> QED BY <2>1, <1>4 DEF IsToken
<1>7. Places(x, 0, y) /\ Places(c, a, y)
  <2>1. Places(x, 0, y)
    <3>1. \A i \in 1 .. Len(x) : 0 + i = i
      BY <1>3
    <3>2. \A i \in 1 .. Len(x) : y[0 + i] = x[i]
      BY <3>1, <1>2
    <3>3. 0 \in Nat /\ 0 + Len(x) <= Len(y)
      BY <1>2, <1>3
    <3> QED BY <3>2, <3>3, <1>1, <1>2 DEF Places
  <2>2. a \in Nat /\ a + Len(c) <= Len(y)
    BY <1>2, <1>3
  <2> QED BY <2>1, <2>2, <1>1, <1>2 DEF Places
<1>8. Within(x, 0, y)
  <2>1. ~ IsToken(x, Len(x), FromOrJoin)
    BY DEF Grown, IsToken
  <2>2. 0 + Len(x) + 1 = a + 1 /\ 0 + Len(x) + 2 = a + 2
    BY <1>3
  <2> HIDE DEF a
  <2> QED BY <2>1, <2>2, <1>5, <1>6, <1>7 DEF Within
<1>9. Within(c, a, y)
  <2>1. a + Len(c) + 1 \notin DOMAIN y /\ a + Len(c) + 2 \notin DOMAIN y /\ a + Len(c) = Len(y)
    BY <1>2, <1>3
  <2> HIDE DEF a
  <2> QED BY <2>1, <1>7, Zenon DEF Within, IsToken, IsWord
<1> QED BY <1>2, <1>8, <1>9 DEF Joins, y

LEMMA AllClosedJoined ==
  ASSUME NEW x, AllClosed(x), NEW c, Led(c), NEW y, Joins(x, c, y)
  PROVE  AllClosed(y)
<1>1. /\ x \in Seq(Tokens) /\ c \in Seq(Tokens) /\ y \in Seq(Tokens)
      /\ Len(x) \in Nat /\ Len(c) \in Nat /\ Len(y) = Len(x) + Len(c)
      /\ DOMAIN x = 1 .. Len(x) /\ DOMAIN c = 1 .. Len(c) /\ DOMAIN y = 1 .. Len(y)
  BY JoinsFacts
<1>2. Within(x, 0, y) /\ Within(c, Len(x), y) /\ Places(x, 0, y) /\ Places(c, Len(x), y)
  BY DEF Joins, Within
<1>3. SUFFICES ASSUME NEW v \in DOMAIN y, IsToken(y, v, Quotes), IsToken(y, v - 1, {"="})
               PROVE  LiteralStop(y, v) # 0
  BY DEF AllClosed
<1>4. v \in 1 .. Len(y) /\ v - 1 \in 1 .. Len(y)
  <2>1. v - 1 \in DOMAIN y
    BY <1>3 DEF IsToken
  <2> QED BY <2>1, <1>1
<1>5. CASE v <= Len(x)
  <2>1. 0 + v = v /\ 0 + (v - 1) = v - 1 /\ v \in 1 .. Len(x) /\ v - 1 \in 1 .. Len(x) /\ v \in 2 .. Len(x) + 1
    BY <1>1, <1>4, <1>5
  <2>2. IsToken(x, v, Quotes) /\ IsToken(x, v - 1, {"="})
    BY <1>2, <1>3, <2>1, TokenPlaced
  <2>3. LiteralStop(x, v) # 0
    BY <2>1, <2>2, <1>1 DEF AllClosed
  <2>4. /\ LiteralStop(y, 0 + v) = 0 + LiteralStop(x, v)
        /\ LiteralStop(x, v) \in v + 1 .. Len(x) + 1
    BY <2>1, <2>2, <2>3, <1>2, LiteralWithin
  <2>5. LiteralStop(y, v) = 0 + LiteralStop(x, v)
    BY <2>1, <2>4
  <2>6. v \in Int /\ v >= 1 /\ Len(x) \in Int /\ LiteralStop(x, v) \in v + 1 .. Len(x) + 1
    BY <2>4, <1>1, <1>4
  <2>7. 0 + LiteralStop(x, v) # 0
    BY <2>6
  <2> QED BY <2>5, <2>7
<1>6. CASE v = Len(x) + 1
  <2>1. 1 \in 1 .. Len(c)
    BY <1>1, <1>4, <1>6
  <2>2. IsToken(c, 1, Quotes)
    BY <2>1, <1>2, <1>3, <1>6, TokenPlaced
  <2>3. c[1] \in Heads
    BY DEF Led
  <2> QED BY <2>2, <2>3, Signed DEF IsToken
<1>7. CASE v > Len(x) + 1
  <2> DEFINE w == v - Len(x)
  <2>1. /\ Len(x) + w = v /\ Len(x) + (w - 1) = v - 1
        /\ w \in 1 .. Len(c) /\ w - 1 \in 1 .. Len(c) /\ w \in 2 .. Len(c) + 1
    <3>1. Len(x) \in Int /\ Len(c) \in Int /\ v \in Int /\ v <= Len(x) + Len(c)
      BY <1>1, <1>4
    <3> QED BY <3>1, <1>7
  <2> HIDE DEF w
  <2>2. IsToken(c, w, Quotes) /\ IsToken(c, w - 1, {"="})
    BY <1>2, <1>3, <2>1, TokenPlaced
  <2>3. LiteralStop(c, w) # 0
    BY <2>1, <2>2, <1>1 DEF AllClosed, Led
  <2>4. /\ LiteralStop(y, Len(x) + w) = Len(x) + LiteralStop(c, w)
        /\ LiteralStop(c, w) \in w + 1 .. Len(c) + 1
    BY <2>1, <2>2, <2>3, <1>2, LiteralWithin
  <2> QED BY <2>1, <2>4, <1>1
<1> QED BY <1>1, <1>4, <1>5, <1>6, <1>7

LEMMA ClosedJoined ==
  ASSUME NEW x, NEW c, Led(c), Closed(c), NEW y, Joins(x, c, y)
  PROVE  Closed(y)
<1>1. /\ Len(x) \in Nat /\ Len(c) \in Nat /\ Len(y) = Len(x) + Len(c) /\ Places(c, Len(x), y)
  BY JoinsFacts DEF Joins, Within
<1>2. Len(c) >= 2
  BY DEF Led
<1>3. /\ Len(c) \in 1 .. Len(c) /\ Len(c) - 1 \in 1 .. Len(c)
      /\ Len(x) + Len(c) = Len(y) /\ Len(x) + (Len(c) - 1) = Len(y) - 1
      /\ (Len(c) - 1) + 1 = Len(c) /\ (Len(y) - 1) + 1 = Len(y)
  BY <1>1, <1>2
<1>4. \A T : /\ IsToken(y, Len(y), T) <=> IsToken(c, Len(c), T)
             /\ IsToken(y, Len(y) - 1, T) <=> IsToken(c, Len(c) - 1, T)
  <2>1. ASSUME NEW T PROVE /\ IsToken(y, Len(y), T) <=> IsToken(c, Len(c), T)
                           /\ IsToken(y, Len(y) - 1, T) <=> IsToken(c, Len(c) - 1, T)
    BY <1>1, <1>3, TokenPlaced
  <2> QED BY <2>1
<1> QED BY <1>3, <1>4 DEF Closed, Refers, IsWord

-----------------------------------------------------------------------------
(* A scan that finds nothing, and one that finds one match.                *)
LEMMA NoneFound ==
  ASSUME NEW x \in Seq(Tokens), NEW m, StopsAhead(Len(x), m), \A i \in 1 .. Len(x) : m[i].stop = 0
  PROVE  Len(FindIter(x, m)) = 0
<1>1. Len(x) \in Nat
  OBVIOUS
<1>2. 1 \in 1 .. Len(x) + 1 /\ Len(x) + 1 \in 1 .. Len(x) + 1 /\ (Len(x) + 1) - 1 = Len(x)
  BY <1>1
<1>3. Starts(Len(x), m)[1] = Starts(Len(x), m)[Len(x) + 1]
  BY <1>1, <1>2, StartsSkip
<1>4. Starts(Len(x), m)[Len(x) + 1] = <<>>
  BY <1>1, StartsCases
<1>5. Len(FindIter(x, m)) = Len(Starts(Len(x), m)[1])
  BY FindIterPlaces
<1>6. Starts(Len(x), m)[1] = <<>>
  BY <1>3, <1>4
<1> QED BY <1>5, <1>6

LEMMA OneFound ==
  ASSUME NEW x \in Seq(Tokens), NEW m, StopsAhead(Len(x), m),
         NEW p \in 1 .. Len(x), m[p].stop # 0,
         \A i \in 1 .. p - 1 : m[i].stop = 0,
         \A i \in m[p].stop .. Len(x) : m[i].stop = 0
  PROVE  Len(FindIter(x, m)) = 1 /\ FindIter(x, m)[1] = m[p]
<1> DEFINE n == Len(x)
           q == m[p].stop
<1>1. n \in Nat /\ p \in Int /\ 1 <= p /\ p <= n
  OBVIOUS
<1>2. q \in p + 1 .. n + 1
  BY DEF StopsAhead
<1>3. /\ 1 \in 1 .. n + 1 /\ p \in 1 .. n + 1 /\ q \in 1 .. n + 1 /\ n + 1 \in q .. n + 1
      /\ (n + 1) - 1 = n
  BY <1>1, <1>2
<1>4. Starts(n, m)[1] = Starts(n, m)[p]
  BY <1>1, <1>3, StartsSkip
<1>5. Starts(n, m)[q] = Starts(n, m)[n + 1]
  BY <1>1, <1>3, StartsSkip
<1>6. Starts(n, m)[n + 1] = <<>> /\ Starts(n, m)[p] = <<p>> \o Starts(n, m)[q]
  BY <1>1, StartsCases
<1>7. Starts(n, m)[1] = <<p>>
  <2>1. <<p>> \o <<>> = <<p>>
    OBVIOUS
  <2> QED BY <2>1, <1>4, <1>5, <1>6
<1> DEFINE s == Starts(n, m)[1]
           f == FindIter(x, m)
<1>8. Len(f) = Len(s) /\ \A k \in 1 .. Len(f) : f[k] = m[s[k]]
  BY FindIterPlaces
<1>9. Len(s) = 1 /\ s[1] = p
  BY <1>7
<1> HIDE DEF s, f
<1>10. Len(f) = 1 /\ f[1] = m[p]
  BY <1>8, <1>9
<1> QED BY <1>10 DEF f

-----------------------------------------------------------------------------
(* A text without a literal states no predicate, no LIMIT, and closes      *)
(* every quote.                                                            *)
Literals == DOMAIN Numeral \union Quotes

LEMMA NoPredicates ==
  ASSUME NEW c \in Seq(Tokens), \A i \in DOMAIN c : c[i] \notin Literals
  PROVE  Len(PredicatesOf(c)) = 0 /\ Len(LimitsOf(c)) = 0 /\ AllClosed(c)
<1>1. Len(c) \in Nat /\ DOMAIN c = 1 .. Len(c)
  BY SeqOfTokens
<1>2. \A i : ~ IsNumber(c, i) /\ ~ IsToken(c, i, Quotes)
  BY DEF IsNumber, IsToken, Literals
<1>3. ASSUME NEW i \in 1 .. Len(c) PROVE PredicateAt(c, i).stop = 0
  <2>1. SUFFICES ASSUME PredicateAt(c, i).stop # 0 PROVE FALSE
    OBVIOUS
  <2>2. Equates(c, ColumnAt(c, i)) /\ ColumnAt(c, i) \in i .. Len(c)
    BY <2>1, PredicateFacts
  <2>3. WordStop(c, ColumnAt(c, i)) + 1 \in Int
    BY <2>2 DEF WordStop
  <2>4. LiteralStop(c, WordStop(c, ColumnAt(c, i)) + 1) # 0
    BY <2>2 DEF Equates
  <2> QED BY <2>3, <2>4, <1>2, LiteralFacts
<1>4. \A i \in 1 .. Len(c) : LimitAt(c, i).stop = 0
  BY <1>2, LimitCases
<1>5. StopsAhead(Len(c), PredicateMatches(c)) /\ StopsAhead(Len(c), LimitMatches(c))
  BY PredicatesStopAhead, LimitsStopAhead DEF PredicateMatches, LimitMatches
<1>6. \A i \in 1 .. Len(c) : PredicateMatches(c)[i].stop = 0 /\ LimitMatches(c)[i].stop = 0
  BY <1>1, <1>3, <1>4 DEF PredicateMatches, LimitMatches
<1>7. PredicatesOf(c) = FindIter(c, PredicateMatches(c)) /\ LimitsOf(c) = FindIter(c, LimitMatches(c))
  BY DEF PredicatesOf, LimitsOf, PredicateMatches, LimitMatches
<1>8. Len(PredicatesOf(c)) = 0 /\ Len(LimitsOf(c)) = 0
  BY <1>5, <1>6, <1>7, NoneFound
<1> QED BY <1>2, <1>8 DEF AllClosed

LEMMA NoTables ==
  ASSUME NEW c \in Seq(Tokens), \A i \in DOMAIN c : c[i] \notin FromOrJoin
  PROVE  Len(TablesOf(c)) = 0
<1>1. Len(c) \in Nat /\ DOMAIN c = 1 .. Len(c)
  BY SeqOfTokens
<1>2. \A i \in 1 .. Len(c) : TableAt(c, i).stop = 0
  <2>1. \A i \in 1 .. Len(c) : ~ Refers(c, i)
    BY DEF Refers, IsToken
  <2> QED BY <2>1, TableFacts
<1>3. StopsAhead(Len(c), TableMatches(c))
  BY TablesStopAhead DEF TableMatches
<1>4. \A i \in 1 .. Len(c) : TableMatches(c)[i].stop = 0
  BY <1>1, <1>2 DEF TableMatches
<1> QED BY <1>3, <1>4, NoneFound DEF TablesOf, TableMatches

(* A table named once.                                                     *)
LEMMA OneTable ==
  ASSUME NEW c \in Seq(Tokens), NEW p \in 1 .. Len(c), Refers(c, p),
         \A i \in 1 .. Len(c) : i # p => ~ Refers(c, i)
  PROVE  /\ Len(TablesOf(c)) = 1
         /\ TablesOf(c)[1].name = WordAt(c, p + 1) /\ TablesOf(c)[1].tokenStart = p + 1
         /\ TablesOf(c)[1].alias = AliasName(c, WordStop(c, p + 1))
<1>1. Len(c) \in Nat /\ DOMAIN c = 1 .. Len(c)
  BY SeqOfTokens
<1>2. StopsAhead(Len(c), TableMatches(c))
  BY TablesStopAhead DEF TableMatches
<1>3. \A i \in 1 .. Len(c) : TableMatches(c)[i] = TableAt(c, i)
  BY <1>1 DEF TableMatches
<1>4. \A i \in 1 .. Len(c) : i # p => TableMatches(c)[i].stop = 0
  BY <1>3, TableFacts
<1>5. TableMatches(c)[p].stop # 0 /\ TableMatches(c)[p].stop \in p + 1 .. Len(c) + 1
  BY <1>2, <1>3, TableFacts DEF StopsAhead
<1>6. /\ \A i \in 1 .. p - 1 : i \in 1 .. Len(c) /\ i # p
      /\ \A i \in TableMatches(c)[p].stop .. Len(c) : i \in 1 .. Len(c) /\ i # p
  BY <1>5, <1>1
<1>7. Len(FindIter(c, TableMatches(c))) = 1 /\ FindIter(c, TableMatches(c))[1] = TableMatches(c)[p]
  BY <1>2, <1>4, <1>5, <1>6, OneFound
<1>8. Len(TablesOf(c)) = 1 /\ TablesOf(c)[1] = TableAt(c, p)
  BY <1>3, <1>7 DEF TablesOf, TableMatches
<1> QED BY <1>8, TableAtParts

(* A table, after the words that lead to it.                               *)
PartsOf(c, a, b, d, e) ==
  /\ a \in Seq(Tokens) /\ b \in Seq(Tokens) /\ d \in Seq(Tokens) /\ e \in Seq(Tokens) /\ c \in Seq(Tokens)
  /\ Len(c) = Len(a) + Len(b) + Len(d) + Len(e)
  /\ \A i \in 1 .. Len(a) : c[i] = a[i]
  /\ \A i \in 1 .. Len(b) : c[Len(a) + i] = b[i]
  /\ \A i \in 1 .. Len(d) : c[Len(a) + Len(b) + i] = d[i]
  /\ \A i \in 1 .. Len(e) : c[Len(a) + Len(b) + Len(d) + i] = e[i]

LEMMA PartsPlaced ==
  ASSUME NEW a \in Seq(Tokens), NEW b \in Seq(Tokens), NEW d \in Seq(Tokens), NEW e \in Seq(Tokens)
  PROVE  PartsOf(((a \o b) \o d) \o e, a, b, d, e)
<1> DEFINE p == a \o b
           q == p \o d
           c == q \o e
<1>1. /\ p \in Seq(Tokens) /\ Len(p) = Len(a) + Len(b)
      /\ \A i \in 1 .. Len(a) : p[i] = a[i]
      /\ \A i \in 1 .. Len(b) : p[Len(a) + i] = b[i]
  BY ConcatPlaces
<1> HIDE DEF p
<1>2. /\ q \in Seq(Tokens) /\ Len(q) = Len(p) + Len(d)
      /\ \A i \in 1 .. Len(p) : q[i] = p[i]
      /\ \A i \in 1 .. Len(d) : q[Len(p) + i] = d[i]
  <2>1. p \in Seq(Tokens)
    BY <1>1
  <2> QED BY ONLY <2>1, d \in Seq(Tokens), ConcatPlaces DEF q
<1> HIDE DEF q
<1>3. /\ c \in Seq(Tokens) /\ Len(c) = Len(q) + Len(e)
      /\ \A i \in 1 .. Len(q) : c[i] = q[i]
      /\ \A i \in 1 .. Len(e) : c[Len(q) + i] = e[i]
  <2>1. q \in Seq(Tokens)
    BY <1>2
  <2> QED BY ONLY <2>1, e \in Seq(Tokens), ConcatPlaces DEF c
<1> HIDE DEF c
<1>4. /\ Len(a) \in Nat /\ Len(b) \in Nat /\ Len(d) \in Nat /\ Len(e) \in Nat
      /\ Len(p) = Len(a) + Len(b) /\ Len(q) = Len(a) + Len(b) + Len(d)
  BY <1>1, <1>2
<1>5. \A i \in 1 .. Len(a) : c[i] = a[i]
  <2>1. \A i \in 1 .. Len(a) : i \in 1 .. Len(p) /\ i \in 1 .. Len(q)
    BY <1>4
  <2> QED BY <2>1, <1>1, <1>2, <1>3
<1>6. \A i \in 1 .. Len(b) : c[Len(a) + i] = b[i]
  <2>1. \A i \in 1 .. Len(b) : Len(a) + i \in 1 .. Len(p) /\ Len(a) + i \in 1 .. Len(q)
    BY <1>4
  <2> QED BY <2>1, <1>1, <1>2, <1>3
<1>7. \A i \in 1 .. Len(d) : c[Len(a) + Len(b) + i] = d[i]
  <2>1. \A i \in 1 .. Len(d) : Len(p) + i \in 1 .. Len(q)
    BY <1>4
  <2> QED BY <2>1, <1>1, <1>2, <1>3
<1>8. \A i \in 1 .. Len(e) : c[Len(a) + Len(b) + Len(d) + i] = e[i]
  BY <1>1, <1>2, <1>3
<1>9. Len(c) = Len(a) + Len(b) + Len(d) + Len(e)
  BY <1>1, <1>2, <1>3
<1> QED BY <1>3, <1>5, <1>6, <1>7, <1>8, <1>9 DEF PartsOf, c, q, p

InOnePart(c, a, b, d, e) ==
  \A i \in 1 .. Len(c) :
    \/ i \in 1 .. Len(a) /\ c[i] = a[i]
    \/ i - Len(a) \in 1 .. Len(b) /\ c[i] = b[i - Len(a)]
    \/ i - Len(a) - Len(b) \in 1 .. Len(d) /\ c[i] = d[i - Len(a) - Len(b)]
    \/ i - Len(a) - Len(b) - Len(d) \in 1 .. Len(e) /\ c[i] = e[i - Len(a) - Len(b) - Len(d)]

LEMMA PartsFacts ==
  ASSUME NEW a, NEW b, NEW d, NEW e, NEW c, PartsOf(c, a, b, d, e)
  PROVE  /\ Len(a) \in Nat /\ Len(b) \in Nat /\ Len(d) \in Nat /\ Len(e) \in Nat /\ Len(c) \in Nat
         /\ DOMAIN c = 1 .. Len(c)
         /\ InOnePart(c, a, b, d, e)
<1> DEFINE m == Len(a)
           n == Len(a) + Len(b)
           o == Len(a) + Len(b) + Len(d)
<1>1. /\ Len(a) \in Nat /\ Len(b) \in Nat /\ Len(d) \in Nat /\ Len(e) \in Nat /\ Len(c) \in Nat
      /\ DOMAIN c = 1 .. Len(c)
  BY SeqOfTokens DEF PartsOf
<1>2. /\ Len(c) = o + Len(e)
      /\ \A i \in 1 .. Len(a) : c[i] = a[i]
      /\ \A i \in 1 .. Len(b) : c[m + i] = b[i]
      /\ \A i \in 1 .. Len(d) : c[n + i] = d[i]
      /\ \A i \in 1 .. Len(e) : c[o + i] = e[i]
  BY DEF PartsOf
<1>3. ASSUME NEW i \in 1 .. Len(c)
      PROVE  \/ i \in 1 .. Len(a) /\ c[i] = a[i]
             \/ i - Len(a) \in 1 .. Len(b) /\ c[i] = b[i - Len(a)]
             \/ i - Len(a) - Len(b) \in 1 .. Len(d) /\ c[i] = d[i - Len(a) - Len(b)]
             \/ i - Len(a) - Len(b) - Len(d) \in 1 .. Len(e) /\ c[i] = e[i - Len(a) - Len(b) - Len(d)]
  <2>1. /\ m + (i - Len(a)) = i /\ n + (i - Len(a) - Len(b)) = i /\ o + (i - Len(a) - Len(b) - Len(d)) = i
    BY <1>1
  <2>2. \/ i \in 1 .. Len(a)
        \/ i - Len(a) \in 1 .. Len(b)
        \/ i - Len(a) - Len(b) \in 1 .. Len(d)
        \/ i - Len(a) - Len(b) - Len(d) \in 1 .. Len(e)
    <3>1. Len(c) = Len(a) + Len(b) + Len(d) + Len(e) /\ i \in Int /\ i >= 1 /\ i <= Len(c)
      BY <1>1, <1>2
    <3> QED BY <3>1, <1>1
  <2> DEFINE j == i - Len(a)
             k == i - Len(a) - Len(b)
             l == i - Len(a) - Len(b) - Len(d)
  <2>3. j \in 1 .. Len(b) => c[i] = b[j]
    BY <1>2, <2>1
  <2>4. k \in 1 .. Len(d) => c[i] = d[k]
    BY <1>2, <2>1
  <2>5. l \in 1 .. Len(e) => c[i] = e[l]
    BY <1>2, <2>1
  <2> QED BY <2>2, <2>3, <2>4, <2>5, <1>2
<1> QED BY <1>1, <1>3 DEF InOnePart

-----------------------------------------------------------------------------
(* The four ways a table is or is not given an alias, and the words around *)
(* it.                                                                     *)
Aliases == {<<>>, <<"a">>, <<"as", "a">>, <<"b">>}

LeadsToTable(lead) ==
  /\ lead \in Seq(Tokens) /\ lead # <<>>
  /\ \A i \in DOMAIN lead : lead[i] \notin Literals
  /\ lead[Len(lead)] \in FromOrJoin
  /\ lead[1] \in Heads /\ lead[1] # "as"
  /\ Len(lead) >= 2 => lead[2] \notin Tails \union {"=", "."}
  /\ \A i \in DOMAIN lead : ~ Refers(lead, i)

TrailsTable(rest) ==
  /\ rest \in Seq(Tokens)
  /\ \A i \in DOMAIN rest : rest[i] \notin Literals /\ rest[i] \notin FromOrJoin
  /\ rest # <<>> => Len(rest) >= 2 /\ rest[1] \notin Tails /\ Closed(rest)

LEMMA WordPlaces ==
  ASSUME NEW w \in Words
  PROVE  /\ w \in Seq(Tokens) /\ Len(w) \in {1, 2} /\ DOMAIN w = 1 .. Len(w) /\ w[1] \in Heads
         /\ Len(w) = 2 => w[2] \in Tails
         /\ \A i \in DOMAIN w : w[i] \notin Literals /\ (i = 1 \/ w[i] \notin FromOrJoin)
         /\ TextOf(w, 1, Len(w) + 1) = Joined(w)
<1>1. PICK h \in Heads : w = <<h>> \/ \E t \in Tails : w = <<h, t>>
  BY DEF Words
<1>2. h \in Tokens /\ \A t \in Tails : t \in Tokens
  BY DEF Tokens
<1>3. /\ w \in Seq(Tokens) /\ Len(w) \in {1, 2} /\ DOMAIN w = 1 .. Len(w) /\ w[1] = h
      /\ Len(w) = 2 => w[2] \in Tails
  <2>1. CASE w = <<h>>
    BY <1>2, <2>1
  <2>2. ASSUME NEW t \in Tails, w = <<h, t>>
        PROVE  /\ w \in Seq(Tokens) /\ Len(w) \in {1, 2} /\ DOMAIN w = 1 .. Len(w) /\ w[1] = h
               /\ Len(w) = 2 => w[2] \in Tails
    <3>1. w \in Seq(Tokens) /\ Len(w) = 2 /\ DOMAIN w = {1, 2} /\ w[1] = h /\ w[2] = t
      BY <1>2, <2>2, TwoTokens
    <3> QED BY <3>1
  <2> QED BY <1>1, <2>1, <2>2
<1>4. \A t \in Heads \union Tails : t \notin Literals
  BY TokenAssumption DEF Literals
<1>5. \A i \in DOMAIN w : i = 1 \/ (Len(w) = 2 /\ i = 2)
  BY <1>3
<1>6. \A i \in DOMAIN w : w[i] \notin Literals /\ (i = 1 \/ w[i] \notin FromOrJoin)
  BY <1>3, <1>4, <1>5, Signed
<1>7. TextOf(w, 1, Len(w) + 1) = Joined(w)
  <2>1. SubSeq(w, 1, (Len(w) + 1) - 1) = w
    <3>1. Len(w) \in Nat /\ (Len(w) + 1) - 1 = Len(w)
      BY <1>3
    <3>2. SubSeq(w, 1, Len(w)) = w
      BY <1>3, SubSeqFull
    <3> QED BY <3>1, <3>2
  <2> QED BY <2>1 DEF TextOf
<1> QED BY <1>3, <1>6, <1>7

(* A whole word in a text.                                                 *)
LEMMA WordPlaced ==
  ASSUME NEW w \in Words, NEW n, NEW c, Places(w, n, c), ~ IsToken(c, n + Len(w) + 1, Tails)
  PROVE  /\ IsWord(c, n + 1) /\ WordStop(c, n + 1) = n + Len(w) + 1
         /\ WordAt(c, n + 1) = Joined(w)
<1>1. /\ Len(c) \in Nat /\ n \in Int /\ n >= 0 /\ n + Len(w) <= Len(c) /\ DOMAIN c = 1 .. Len(c)
      /\ \A i \in 1 .. Len(w) : c[n + i] = w[i] /\ n + i \in 1 .. Len(c)
  BY PlacesFacts
<1>2. /\ Len(w) \in {1, 2} /\ w[1] \in Heads /\ (Len(w) = 2 => w[2] \in Tails)
      /\ TextOf(w, 1, Len(w) + 1) = Joined(w)
  BY WordPlaces
<1>3. IsWord(c, n + 1)
  <2>1. 1 \in 1 .. Len(w)
    BY <1>2
  <2> QED BY <2>1, <1>1, <1>2 DEF IsWord, IsToken
<1>4. WordStop(c, n + 1) = n + Len(w) + 1
  <2>1. CASE Len(w) = 1
    <3>1. (n + 1) + 1 = n + Len(w) + 1
      BY <2>1, <1>1
    <3> QED BY <3>1 DEF WordStop
  <2>2. CASE Len(w) = 2
    <3>1. (n + 1) + 1 = n + 2 /\ (n + 1) + 2 = n + Len(w) + 1 /\ 2 \in 1 .. Len(w)
      BY <2>2, <1>1
    <3>2. IsToken(c, n + 2, Tails)
      BY <2>2, <3>1, <1>1, <1>2 DEF IsToken
    <3> QED BY <3>1, <3>2 DEF WordStop
  <2> QED BY <2>1, <2>2, <1>2
<1>5. WordAt(c, n + 1) = Joined(w)
  <2>1. Len(w) \in Nat
    BY <1>2
  <2>2. /\ 1 \in Int /\ Len(w) + 1 \in Int /\ 1 <= Len(w) + 1 /\ Len(w) + 1 <= Len(w) + 1
        /\ n + (Len(w) + 1) = n + Len(w) + 1
    BY <2>1, <1>1
  <2>3. TextOf(c, n + 1, n + (Len(w) + 1)) = TextOf(w, 1, Len(w) + 1)
    BY <2>2, TextPlaced
  <2> QED BY <2>2, <2>3, <1>2, <1>4 DEF WordAt
<1> QED BY <1>3, <1>4, <1>5

LEMMA HeadPlaced ==
  ASSUME NEW c \in Seq(Tokens), NEW i \in 1 .. Len(c), c[i] \in Heads, ~ IsToken(c, i + 1, Tails)
  PROVE  IsWord(c, i) /\ WordStop(c, i) = i + 1 /\ WordAt(c, i) = c[i]
<1> DEFINE h == c[i]
           w == <<h>>
           n == i - 1
<1>1. h \in Heads /\ h \in Tokens
  BY DEF Tokens
<1> HIDE DEF h
<1>2. w \in Words /\ w \in Seq(Tokens) /\ Len(w) = 1 /\ w[1] = h /\ Joined(w) = h
  <2>1. w \in Words /\ Joined(w) = h
    BY <1>1, TokenAssumption DEF Words
  <2> QED BY <2>1, <1>1, OneTokenText
<1> HIDE DEF w
<1>3. n \in Nat /\ n + 1 = i /\ n + 1 <= Len(c) /\ n + 1 + 1 = i + 1
  OBVIOUS
<1> HIDE DEF n
<1>4. Places(w, n, c)
  <2>1. \A j \in 1 .. Len(w) : j = 1
    BY <1>2
  <2>2. c[n + 1] = w[1]
    BY <1>2, <1>3 DEF h
  <2> QED BY <2>1, <2>2, <1>2, <1>3 DEF Places
<1>5. ~ IsToken(c, n + Len(w) + 1, Tails)
  BY <1>2, <1>3
<1>6. IsWord(c, n + 1) /\ WordStop(c, n + 1) = n + Len(w) + 1 /\ WordAt(c, n + 1) = Joined(w)
  BY <1>2, <1>4, <1>5, WordPlaced
<1> QED BY <1>2, <1>3, <1>6 DEF h

LEMMA AliasPlaces ==
  ASSUME NEW alias \in Aliases
  PROVE  /\ alias \in Seq(Tokens) /\ Len(alias) \in {0, 1, 2} /\ DOMAIN alias = 1 .. Len(alias)
         /\ alias # <<>> <=> Len(alias) # 0
         /\ Len(alias) # 0 => Last(alias) = alias[Len(alias)] /\ alias[Len(alias)] \in {"a", "b"}
         /\ Len(alias) = 2 => alias[1] = "as"
         /\ \A i \in DOMAIN alias : alias[i] \in {"a", "b", "as"}
<1>1. \A t \in {"a", "b", "as"} : t \in Tokens
  BY Vocabulary DEF Tokens
<1>2. CASE alias = <<>>
  BY <1>2
<1>3. ASSUME NEW t \in {"a", "b"}, alias = <<t>>
      PROVE  /\ alias \in Seq(Tokens) /\ Len(alias) = 1 /\ DOMAIN alias = {1} /\ alias # <<>> /\ alias[1] = t
  BY <1>1, <1>3, OneTokenText
<1>4. CASE alias = <<"as", "a">>
  <2>1. /\ alias \in Seq(Tokens) /\ Len(alias) = 2 /\ DOMAIN alias = {1, 2} /\ alias # <<>>
        /\ alias[1] = "as" /\ alias[2] = "a"
    BY <1>1, <1>4, TwoTokens
  <2> QED BY <2>1 DEF Last
<1>5. CASE alias \in {<<"a">>, <<"b">>}
  <2>1. PICK t \in {"a", "b"} : alias = <<t>>
    BY <1>5
  <2>2. alias \in Seq(Tokens) /\ Len(alias) = 1 /\ DOMAIN alias = {1} /\ alias # <<>> /\ alias[1] = t
    BY <1>3, <2>1
  <2> QED BY <2>2 DEF Last
<1> QED BY <1>2, <1>4, <1>5 DEF Aliases

(* A table in its chunk of the text, which names this table and no other.  *)
ReferParts(c, lead, name, alias, rest) ==
  /\ PartsOf(c, lead, name, alias, rest)
  /\ LeadsToTable(lead) /\ name \in Names /\ alias \in Aliases /\ TrailsTable(rest)

LEMMA ReferPlaces ==
  ASSUME NEW c, NEW lead, NEW name, NEW alias, NEW rest, ReferParts(c, lead, name, alias, rest)
  PROVE  /\ Len(lead) \in Nat /\ Len(lead) >= 1 /\ Len(name) \in {1, 2}
         /\ Len(alias) \in {0, 1, 2} /\ Len(rest) \in Nat
         /\ c \in Seq(Tokens) /\ Len(c) = Len(lead) + Len(name) + Len(alias) + Len(rest) /\ Len(c) \in Nat
         /\ DOMAIN c = 1 .. Len(c)
         /\ \A i \in 1 .. Len(lead) : c[i] = lead[i]
         /\ \A i \in 1 .. Len(name) : c[Len(lead) + i] = name[i]
         /\ \A i \in 1 .. Len(alias) : c[Len(lead) + Len(name) + i] = alias[i]
         /\ \A i \in 1 .. Len(rest) : c[Len(lead) + Len(name) + Len(alias) + i] = rest[i]
<1>1. /\ Len(lead) \in Nat /\ Len(rest) \in Nat /\ Len(c) \in Nat /\ DOMAIN c = 1 .. Len(c)
  BY PartsFacts DEF ReferParts
<1>2. Len(name) \in {1, 2} /\ Len(alias) \in {0, 1, 2}
  <2>1. name \in Words /\ alias \in Aliases
    BY StatementAssumption DEF ReferParts
  <2> QED BY <2>1, WordPlaces, AliasPlaces
<1>3. Len(lead) >= 1
  <2>1. lead \in Seq(Tokens) /\ lead # <<>>
    BY DEF ReferParts, LeadsToTable
  <2> QED BY <2>1
<1> QED BY <1>1, <1>2, <1>3 DEF ReferParts, PartsOf

(* What it is made of.                                                     *)
LEMMA ReferTokens ==
  ASSUME NEW c, NEW lead, NEW name, NEW alias, NEW rest, ReferParts(c, lead, name, alias, rest)
  PROVE  /\ \A i \in DOMAIN c : c[i] \notin Literals
         /\ \A i \in 1 .. Len(c) : i > Len(lead) => c[i] \notin FromOrJoin
<1>1. /\ Len(lead) \in Nat /\ Len(lead) >= 1 /\ Len(name) \in {1, 2}
      /\ Len(alias) \in {0, 1, 2} /\ Len(rest) \in Nat
      /\ Len(c) = Len(lead) + Len(name) + Len(alias) + Len(rest) /\ Len(c) \in Nat
      /\ DOMAIN c = 1 .. Len(c)
  BY ReferPlaces
<1>2. name \in Words /\ name[1] \notin FromOrJoin /\ alias \in Aliases /\ TrailsTable(rest) /\ LeadsToTable(lead)
  BY StatementAssumption DEF ReferParts
<1>3. \A i \in 1 .. Len(lead) : lead[i] \notin Literals
  BY <1>2, SeqOfTokens DEF LeadsToTable
<1>4. \A i \in 1 .. Len(name) : name[i] \notin Literals /\ name[i] \notin FromOrJoin
  BY <1>2, WordPlaces
<1>5. \A i \in 1 .. Len(alias) : alias[i] \notin Literals /\ alias[i] \notin FromOrJoin
  <2>1. \A t \in {"a", "b", "as"} : t \notin Literals /\ t \notin FromOrJoin
    BY Vocabulary, TokenAssumption DEF Literals
  <2> QED BY <2>1, <1>2, AliasPlaces
<1>6. \A i \in 1 .. Len(rest) : rest[i] \notin Literals /\ rest[i] \notin FromOrJoin
  BY <1>2, SeqOfTokens DEF TrailsTable
<1>7. \A i \in 1 .. Len(c) :
              \/ i \in 1 .. Len(lead) /\ c[i] = lead[i]
              \/ i - Len(lead) \in 1 .. Len(name) /\ c[i] = name[i - Len(lead)]
              \/ i - Len(lead) - Len(name) \in 1 .. Len(alias) /\ c[i] = alias[i - Len(lead) - Len(name)]
              \/ i - Len(lead) - Len(name) - Len(alias) \in 1 .. Len(rest)
                 /\ c[i] = rest[i - Len(lead) - Len(name) - Len(alias)]
  <2>1. PartsOf(c, lead, name, alias, rest)
    BY DEF ReferParts
  <2>2. InOnePart(c, lead, name, alias, rest)
    BY <2>1, PartsFacts
  <2> QED BY ONLY <2>2 DEF InOnePart
<1>8. ASSUME NEW i \in 1 .. Len(c)
      PROVE  c[i] \notin Literals /\ (i > Len(lead) => c[i] \notin FromOrJoin)
  <2>1. i > Len(lead) => i \notin 1 .. Len(lead)
    BY <1>1
  <2> QED BY <2>1, <1>3, <1>4, <1>5, <1>6, <1>7
<1> QED BY <1>1, <1>8

(* No word of what follows belongs to the name or to its alias.            *)
LEMMA ReferStops ==
  ASSUME NEW c, NEW lead, NEW name, NEW alias, NEW rest, ReferParts(c, lead, name, alias, rest)
  PROVE  /\ WordStop(c, Len(lead) + 1) = Len(lead) + Len(name) + 1
         /\ WordAt(c, Len(lead) + 1) = Joined(name)
         /\ alias # <<>> => AliasName(c, Len(lead) + Len(name) + 1) = Last(alias)
<1> DEFINE n == Len(lead)
           s == Len(lead) + Len(name)
           u == Len(lead) + Len(name) + Len(alias)
<1>1. /\ n \in Nat /\ n >= 1 /\ Len(name) \in {1, 2}
      /\ Len(alias) \in {0, 1, 2} /\ Len(rest) \in Nat
      /\ c \in Seq(Tokens) /\ Len(c) = u + Len(rest) /\ Len(c) \in Nat
      /\ DOMAIN c = 1 .. Len(c)
      /\ \A i \in 1 .. Len(name) : c[n + i] = name[i]
      /\ \A i \in 1 .. Len(alias) : c[s + i] = alias[i]
      /\ \A i \in 1 .. Len(rest) : c[u + i] = rest[i]
  BY ReferPlaces
<1>2. name \in Words /\ name[1] \notin FromOrJoin /\ alias \in Aliases /\ TrailsTable(rest)
  BY StatementAssumption DEF ReferParts
<1>3. s = n + Len(name) /\ u = s + Len(alias) /\ s \in Nat /\ u \in Nat
  BY <1>1
<1> HIDE DEF n, s, u
<1>4. ~ IsToken(c, u + 1, Tails)
  <2>1. CASE Len(rest) = 0
    <3>1. u + 1 \notin 1 .. Len(c)
      BY <2>1, <1>1, <1>3
    <3> QED BY <3>1, <1>1 DEF IsToken
  <2>2. CASE Len(rest) # 0
    <3>1. 1 \in 1 .. Len(rest) /\ rest # <<>>
      BY <2>2, <1>1
    <3>2. c[u + 1] = rest[1] /\ rest[1] \notin Tails
      BY <3>1, <1>1, <1>2 DEF TrailsTable
    <3> QED BY <3>2 DEF IsToken
  <2> QED BY <2>1, <2>2
<1>5. /\ \A i \in 1 .. Len(alias) : alias[i] \in {"a", "b", "as"}
      /\ Len(alias) # 0 => Last(alias) = alias[Len(alias)] /\ alias[Len(alias)] \in {"a", "b"}
      /\ Len(alias) = 2 => alias[1] = "as"
      /\ alias # <<>> => Len(alias) # 0
  BY <1>2, AliasPlaces
<1>6. {"a", "b", "as"} \subseteq Heads /\ \A t \in {"a", "b", "as"} : t \notin Tails
  BY Vocabulary, Signed
<1>7. ~ IsToken(c, s + 1, Tails)
  <2>1. CASE Len(alias) = 0
    BY <2>1, <1>3, <1>4
  <2>2. CASE Len(alias) # 0
    <3>1. 1 \in 1 .. Len(alias)
      BY <2>2, <1>1
    <3> QED BY <3>1, <1>1, <1>5, <1>6 DEF IsToken
  <2> QED BY <2>1, <2>2
<1>8. WordStop(c, n + 1) = s + 1 /\ WordAt(c, n + 1) = Joined(name)
  <2>1. name \in Seq(Tokens)
    BY <1>2, WordPlaces
  <2>2. Places(name, n, c)
    <3>1. n \in Nat /\ n + Len(name) <= Len(c)
      BY <1>1, <1>3
    <3> QED BY <3>1, <2>1, <1>1 DEF Places
  <2>3. n + Len(name) + 1 = s + 1
    BY <1>3
  <2> QED BY <2>2, <2>3, <1>2, <1>7, WordPlaced
<1>10. ASSUME alias # <<>> PROVE AliasName(c, s + 1) = Last(alias)
  <2>1. /\ Len(alias) \in 1 .. Len(alias) /\ u \in 1 .. Len(c) /\ s + Len(alias) = u
    BY <1>1, <1>3, <1>5, <1>10
  <2>2. c[u] = Last(alias) /\ Last(alias) \in {"a", "b"}
    BY <2>1, <1>1, <1>5
  <2>3. IsWord(c, u) /\ WordAt(c, u) = c[u]
    <3>1. c[u] \in Heads
      BY <2>2, <1>6
    <3>2. c \in Seq(Tokens)
      BY <1>1
    <3> QED BY ONLY <2>1, <3>1, <3>2, <1>4, HeadPlaced
  <2>4. AliasAt(c, s + 1) = u
    <3>1. CASE Len(alias) = 1
      <4>1. u = s + 1
        BY <3>1, <1>3
      <4>2. ~ IsToken(c, s + 1, {"as"})
        BY <4>1, <2>2 DEF IsToken
      <4> QED BY <4>1, <4>2 DEF AliasAt
    <3>2. CASE Len(alias) = 2
      <4>1. u = (s + 1) + 1 /\ 1 \in 1 .. Len(alias) /\ s + 1 \in 1 .. Len(c)
        BY <3>2, <1>1, <1>3
      <4>2. IsToken(c, s + 1, {"as"})
        BY <3>2, <4>1, <1>1, <1>5 DEF IsToken
      <4> QED BY <4>1, <4>2, <2>3 DEF AliasAt
    <3> QED BY <3>1, <3>2, <1>1, <1>5, <1>10
  <2> QED BY <2>2, <2>3, <2>4 DEF AliasName
<1> QED BY <1>8, <1>10 DEF n, s

LEMMA ReferNamesOne ==
  ASSUME NEW c, NEW lead, NEW name, NEW alias, NEW rest, ReferParts(c, lead, name, alias, rest)
  PROVE  Refers(c, Len(lead)) /\ \A i \in 1 .. Len(c) : i # Len(lead) => ~ Refers(c, i)
<1> DEFINE n == Len(lead)
<1>1. /\ n \in Nat /\ n >= 1 /\ Len(name) \in {1, 2}
      /\ Len(alias) \in {0, 1, 2} /\ Len(rest) \in Nat
      /\ Len(c) = n + Len(name) + Len(alias) + Len(rest) /\ Len(c) \in Nat
      /\ DOMAIN c = 1 .. Len(c)
      /\ \A i \in 1 .. n : c[i] = lead[i]
      /\ \A i \in 1 .. Len(name) : c[n + i] = name[i]
  BY ReferPlaces
<1>2. /\ lead[n] \in FromOrJoin /\ lead \in Seq(Tokens)
      /\ \A i \in DOMAIN lead : ~ Refers(lead, i)
  BY DEF ReferParts, LeadsToTable
<1>3. name[1] \in Heads
  BY StatementAssumption, WordPlaces DEF ReferParts
<1>4. DOMAIN lead = 1 .. n
  BY <1>2, SeqOfTokens
<1> HIDE DEF n
<1>5. Refers(c, n)
  <2>1. n \in 1 .. Len(c) /\ n + 1 \in 1 .. Len(c) /\ n \in 1 .. n /\ 1 \in 1 .. Len(name)
    <3>1. /\ n \in Nat /\ n >= 1 /\ Len(name) \in {1, 2} /\ Len(alias) \in {0, 1, 2} /\ Len(rest) \in Nat
          /\ Len(c) = n + Len(name) + Len(alias) + Len(rest)
      BY <1>1
    <3> QED BY ONLY <3>1
  <2>2. c[n] = lead[n] /\ c[n + 1] = name[1]
    BY <2>1, <1>1
  <2> QED BY <2>1, <2>2, <1>1, <1>2, <1>3 DEF Refers, IsWord, IsToken
<1>6. ASSUME NEW i \in 1 .. Len(c), i < n PROVE ~ Refers(c, i)
  <2>1. i \in 1 .. n /\ i + 1 \in 1 .. n /\ i + 1 \in 1 .. Len(c)
    BY <1>1, <1>6
  <2>2. c[i] = lead[i] /\ c[i + 1] = lead[i + 1] /\ ~ Refers(lead, i)
    BY <2>1, <1>1, <1>2, <1>4
  <2> QED BY <2>1, <2>2, <1>1, <1>4 DEF Refers, IsWord, IsToken
<1>7. ASSUME NEW i \in 1 .. Len(c), i > n PROVE ~ Refers(c, i)
  <2>1. c[i] \notin FromOrJoin
    BY <1>7, ReferTokens DEF n
  <2> QED BY <2>1 DEF Refers, IsToken
<1>8. \A i \in 1 .. Len(c) : i # n => i < n \/ i > n
  BY <1>1
<1> QED BY <1>5, <1>6, <1>7, <1>8 DEF n

LEMMA ReferChunk ==
  ASSUME NEW c, NEW lead, NEW name, NEW alias, NEW rest, ReferParts(c, lead, name, alias, rest)
  PROVE  /\ Led(c)
         /\ Len(PredicatesOf(c)) = 0 /\ Len(LimitsOf(c)) = 0 /\ Len(TablesOf(c)) = 1
         /\ TablesOf(c)[1].name = Joined(name) /\ TablesOf(c)[1].tokenStart = Len(lead) + 1
         /\ alias # <<>> => TablesOf(c)[1].alias = Last(alias)
<1>1. /\ Len(lead) \in Nat /\ Len(lead) >= 1 /\ Len(name) \in {1, 2}
      /\ Len(alias) \in {0, 1, 2} /\ Len(rest) \in Nat
      /\ c \in Seq(Tokens) /\ Len(c) = Len(lead) + Len(name) + Len(alias) + Len(rest) /\ Len(c) \in Nat
      /\ DOMAIN c = 1 .. Len(c)
      /\ \A i \in 1 .. Len(lead) : c[i] = lead[i]
      /\ \A i \in 1 .. Len(name) : c[Len(lead) + i] = name[i]
  BY ReferPlaces
<1>2. Len(PredicatesOf(c)) = 0 /\ Len(LimitsOf(c)) = 0 /\ AllClosed(c)
  BY <1>1, ReferTokens, NoPredicates
<1>3. /\ lead[1] \in Heads /\ lead[1] # "as"
      /\ Len(lead) >= 2 => lead[2] \notin Tails \union {"=", "."}
  BY DEF ReferParts, LeadsToTable
<1>4. Led(c)
  <2>1. c[1] = lead[1] /\ Len(c) >= 2
    <3>1. 1 \in 1 .. Len(lead)
      BY <1>1
    <3>2. Len(c) >= 2
      BY <1>1
    <3> QED BY <3>1, <3>2, <1>1
  <2>2. c[2] \notin Tails \union {"=", "."}
    <3>1. CASE Len(lead) >= 2
      <4>1. 2 \in 1 .. Len(lead)
        BY <3>1, <1>1
      <4> QED BY <3>1, <4>1, <1>1, <1>3
    <3>2. CASE Len(lead) = 1
      <4>1. 1 \in 1 .. Len(name) /\ Len(lead) + 1 = 2
        BY <3>2, <1>1
      <4>2. c[2] = name[1]
        BY <4>1, <1>1
      <4>3. name[1] \in Heads
        BY StatementAssumption, WordPlaces DEF ReferParts
      <4> QED BY <4>2, <4>3, Signed
    <3>3. Len(lead) >= 2 \/ Len(lead) = 1
      <4>1. \A k \in Nat : k >= 1 => k >= 2 \/ k = 1
        OBVIOUS
      <4>2. Len(lead) \in Nat /\ Len(lead) >= 1
        BY <1>1
      <4> QED BY ONLY <4>1, <4>2
    <3> QED BY <3>1, <3>2, <3>3
  <2> QED BY <2>1, <2>2, <1>1, <1>2, <1>3 DEF Led
<1>5. /\ Len(TablesOf(c)) = 1
      /\ TablesOf(c)[1].name = WordAt(c, Len(lead) + 1) /\ TablesOf(c)[1].tokenStart = Len(lead) + 1
      /\ TablesOf(c)[1].alias = AliasName(c, WordStop(c, Len(lead) + 1))
  <2>1. Len(lead) \in 1 .. Len(c)
    BY <1>1
  <2>2. Refers(c, Len(lead)) /\ \A i \in 1 .. Len(c) : i # Len(lead) => ~ Refers(c, i)
    BY ReferNamesOne
  <2>3. c \in Seq(Tokens)
    BY <1>1
  <2> QED BY ONLY <2>1, <2>2, <2>3, OneTable
<1> QED BY <1>2, <1>4, <1>5, ReferStops

LEMMA ReferCloses ==
  ASSUME NEW c, NEW lead, NEW name, NEW alias, NEW rest, ReferParts(c, lead, name, alias, rest),
         alias # <<>> \/ rest # <<>>
  PROVE  Closed(c)
<1> DEFINE n == Len(lead)
           s == Len(lead) + Len(name)
           u == Len(lead) + Len(name) + Len(alias)
<1>1. /\ n \in Nat /\ n >= 1 /\ Len(name) \in {1, 2}
      /\ Len(alias) \in {0, 1, 2} /\ Len(rest) \in Nat
      /\ c \in Seq(Tokens) /\ Len(c) = u + Len(rest) /\ Len(c) \in Nat
      /\ DOMAIN c = 1 .. Len(c)
      /\ \A i \in 1 .. Len(alias) : c[s + i] = alias[i]
      /\ \A i \in 1 .. Len(rest) : c[u + i] = rest[i]
  BY ReferPlaces
<1>2. alias \in Aliases /\ TrailsTable(rest)
  BY DEF ReferParts
<1>3. s = n + Len(name) /\ u = s + Len(alias) /\ s \in Nat /\ u \in Nat /\ s >= 2
  <2>1. /\ Len(lead) \in Nat /\ Len(lead) >= 1 /\ Len(name) \in {1, 2} /\ Len(alias) \in {0, 1, 2}
    BY ReferPlaces
  <2>2. \A k \in {1, 2} : k \in Nat /\ k >= 1
    OBVIOUS
  <2>3. \A k \in {0, 1, 2} : k \in Nat
    OBVIOUS
  <2>4. Len(name) \in Nat /\ Len(name) >= 1 /\ Len(alias) \in Nat
    BY ONLY <2>1, <2>2, <2>3
  <2>5. \A i, j, k \in Nat : i >= 1 /\ j >= 1 => i + j \in Nat /\ i + j + k \in Nat /\ i + j >= 2
    OBVIOUS
  <2> QED BY ONLY <2>1, <2>4, <2>5 DEF n, s, u
<1> HIDE DEF n, s, u
<1>4. CASE rest # <<>>
  <2>1. rest \in Seq(Tokens) /\ Len(rest) >= 2 /\ Closed(rest) /\ DOMAIN rest = 1 .. Len(rest)
    BY <1>2, <1>4, SeqOfTokens DEF TrailsTable
  <2>2. Places(rest, u, c)
    <3>1. u + Len(rest) <= Len(c)
      BY <1>1, <1>3
    <3> QED BY <3>1, <2>1, <1>1, <1>3 DEF Places
  <2>3. /\ Len(rest) \in 1 .. Len(rest) /\ Len(rest) - 1 \in 1 .. Len(rest)
        /\ u + Len(rest) = Len(c) /\ u + (Len(rest) - 1) = Len(c) - 1
        /\ (Len(rest) - 1) + 1 = Len(rest) /\ (Len(c) - 1) + 1 = Len(c)
    BY <2>1, <1>1, <1>3
  <2>4. ASSUME NEW T PROVE /\ IsToken(c, Len(c), T) <=> IsToken(rest, Len(rest), T)
                           /\ IsToken(c, Len(c) - 1, T) <=> IsToken(rest, Len(rest) - 1, T)
    BY <2>2, <2>3, TokenPlaced
  <2> QED BY <2>1, <2>3, <2>4 DEF Closed, Refers, IsWord
<1>5. CASE rest = <<>>
  <2>1. Len(rest) = 0 /\ alias # <<>>
    BY <1>5
  <2>2. Len(c) = u /\ Len(alias) # 0
    BY <2>1, <1>1, <1>2, <1>3, AliasPlaces
  <2>3. Len(alias) \in 1 .. Len(alias) /\ s + Len(alias) = Len(c) /\ Len(c) \in 1 .. Len(c)
        /\ Len(c) - 1 \in 1 .. Len(c) /\ Len(c) - 1 > n
    <3>1. Len(alias) \in Nat /\ Len(name) \in Nat /\ Len(name) >= 1 /\ Len(alias) >= 1
      BY <2>2, <1>1
    <3>2. n \in Nat /\ n >= 1 /\ s = n + Len(name) /\ u = s + Len(alias) /\ Len(c) = u
      BY <2>2, <1>1, <1>3
    <3> QED BY <3>1, <3>2
  <2>4. c[Len(c)] = alias[Len(alias)] /\ alias[Len(alias)] \in {"a", "b"}
    BY <2>2, <2>3, <1>1, <1>2, AliasPlaces
  <2>5. ~ IsToken(c, Len(c), Tails \union {"as"})
    <3>1. "a" \notin Tails /\ "b" \notin Tails
      BY Vocabulary, Signed
    <3> QED BY <2>4, <3>1 DEF IsToken
  <2>6. ~ Refers(c, Len(c) - 1)
    <3>1. Len(c) - 1 > Len(lead)
      BY <2>3 DEF n
    <3>2. c[Len(c) - 1] \notin FromOrJoin
      BY <2>3, <3>1, ReferTokens
    <3> QED BY <3>2 DEF Refers, IsToken
  <2> QED BY <2>5, <2>6 DEF Closed
<1> QED BY <1>4, <1>5

(* The words the grammar leads to a table with, and those that follow one. *)
LEMMA NoLiterals ==
  /\ \A t \in Heads \union Tails \union Signs : t \notin Literals
  /\ \A t \in {"(", ")"} : t \in Tokens /\ t \notin Literals /\ t \notin Heads /\ t \notin Tails /\ t \notin FromOrJoin
<1>1. \A t \in Heads \union Tails : t \notin Literals
  BY TokenAssumption DEF Literals
<1>2. \A t \in Signs : t \notin Literals
  <2>1. \A t \in Signs : t \notin DOMAIN Numeral
    BY TokenAssumption
  <2>2. \A t \in Signs : t \notin Quotes
    BY DEF Signs, Quotes
  <2> QED BY <2>1, <2>2 DEF Literals
<1>3. "(" \in Signs /\ ")" \in Signs
  BY DEF Signs
<1> QED BY <1>1, <1>2, <1>3, Punctuation, Signed

LEMMA WordLeads ==
  ASSUME NEW t \in FromOrJoin
  PROVE  LeadsToTable(<<t>>)
<1> DEFINE lead == <<t>>
<1>1. t \in Heads /\ t \in Tokens /\ t # "as"
  BY Vocabulary DEF Tokens, FromOrJoin
<1>2. lead \in Seq(Tokens) /\ Len(lead) = 1 /\ DOMAIN lead = {1} /\ lead # <<>> /\ lead[1] = t
  BY <1>1, OneTokenText
<1> HIDE DEF lead
<1>3. \A i \in DOMAIN lead : ~ Refers(lead, i)
  <2>1. \A i \in DOMAIN lead : i + 1 = 2 /\ 2 \notin DOMAIN lead
    BY <1>2
  <2> QED BY <2>1, Zenon DEF Refers, IsWord, IsToken
<1>4. \A i \in DOMAIN lead : lead[i] \notin Literals
  BY <1>1, <1>2, NoLiterals
<1>5. LeadsToTable(lead)
  BY <1>1, <1>2, <1>3, <1>4 DEF LeadsToTable
<1> QED BY <1>5 DEF lead

LEMMA SubqueryLeads ==
  ASSUME NEW lead, lead = <<"from", "(", "select", "uid", "from">>
  PROVE  LeadsToTable(lead)
<1> DEFINE T == {"from", "(", "select", "uid"}
<1>1. \A t \in T : t \in Tokens /\ t \notin Literals
  BY Vocabulary, NoLiterals DEF Tokens
<1>2. /\ lead \in Seq(T) /\ Len(lead) = 5
      /\ lead[1] = "from" /\ lead[2] = "(" /\ lead[3] = "select" /\ lead[4] = "uid" /\ lead[5] = "from"
  OBVIOUS
<1> HIDE DEF T
<1>3. lead \in Seq(Tokens) /\ DOMAIN lead = 1 .. 5 /\ lead # <<>> /\ \A i \in DOMAIN lead : lead[i] \notin Literals
  <2>1. T \subseteq Tokens
    BY <1>1
  <2>2. \A i \in DOMAIN lead : lead[i] \in T
    BY <1>2, SeqOfTokens
  <2> QED BY <1>1, <1>2, <2>1, <2>2
<1>4. \A i \in DOMAIN lead : ~ Refers(lead, i)
  <2>1. ~ IsWord(lead, 2) /\ ~ IsWord(lead, 6)
    <3>1. 6 \notin DOMAIN lead /\ lead[2] \notin Heads
      <4>1. DOMAIN lead = 1 .. 5 /\ lead[2] = "("
        BY <1>2, <1>3
      <4>2. "(" \notin Heads
        BY NoLiterals
      <4> QED BY <4>1, <4>2
    <3> QED BY <3>1, Zenon DEF IsWord, IsToken
  <2>2. lead[2] \notin FromOrJoin /\ lead[3] \notin FromOrJoin /\ lead[4] \notin FromOrJoin
    BY <1>2, Vocabulary
  <2>3. \A i \in DOMAIN lead : i = 1 \/ i = 2 \/ i = 3 \/ i = 4 \/ i = 5
    BY <1>3
  <2>4. 1 + 1 = 2 /\ 5 + 1 = 6
    OBVIOUS
  <2> QED BY <2>1, <2>2, <2>3, <2>4 DEF Refers, IsToken
<1>5. lead[5] \in FromOrJoin /\ lead[1] \in Heads /\ lead[1] # "as" /\ lead[2] \notin Tails \union {"=", "."}
  BY <1>2, Vocabulary, NoLiterals DEF FromOrJoin
<1> QED BY <1>2, <1>3, <1>4, <1>5 DEF LeadsToTable

LEMMA NothingTrails == TrailsTable(<<>>)
BY DEF TrailsTable

LEMMA SubqueryTrails ==
  ASSUME NEW rest, rest = <<")", "a">>
  PROVE  TrailsTable(rest)
<1>1. \A t \in {")", "a"} : t \in Tokens /\ t \notin Literals /\ t \notin FromOrJoin /\ t \notin Tails /\ t # "as"
  BY Vocabulary, NoLiterals, Signed DEF Tokens
<1>2. /\ rest \in Seq(Tokens) /\ Len(rest) = 2 /\ DOMAIN rest = {1, 2} /\ rest # <<>>
      /\ rest[1] = ")" /\ rest[2] = "a"
  BY <1>1, TwoTokens
<1>3. Closed(rest)
  <2>1. ~ IsToken(rest, 2, Tails \union {"as"}) /\ ~ IsToken(rest, 1, FromOrJoin) /\ Len(rest) - 1 = 1
    BY <1>1, <1>2 DEF IsToken
  <2> QED BY <2>1, <1>2 DEF Closed, Refers
<1> QED BY <1>1, <1>2, <1>3 DEF TrailsTable

LEMMA OnTrails ==
  ASSUME NEW rest, rest = <<"on", "a", ".", "uid", "=", "b", ".", "uid">>
  PROVE  TrailsTable(rest)
<1> DEFINE T == {"on", "a", ".", "uid", "=", "b"}
<1>1. \A t \in T : t \in Tokens /\ t \notin Literals /\ t \notin FromOrJoin /\ t \notin Tails /\ t # "as"
  BY Vocabulary, NoLiterals, Signed DEF Tokens
<1>2. rest \in Seq(T) /\ Len(rest) = 8 /\ rest[1] = "on" /\ rest[8] = "uid"
  OBVIOUS
<1> HIDE DEF T
<1>3. rest \in Seq(Tokens) /\ DOMAIN rest = 1 .. 8 /\ \A i \in DOMAIN rest : rest[i] \in T
  <2>1. T \subseteq Tokens
    BY <1>1
  <2>2. \A i \in DOMAIN rest : rest[i] \in T
    BY <1>2, SeqOfTokens
  <2> QED BY <1>2, <2>1, <2>2
<1>4. Closed(rest)
  <2>1. 7 \in DOMAIN rest /\ 8 \in DOMAIN rest /\ Len(rest) - 1 = 7 /\ Len(rest) = 8
    BY <1>2, <1>3
  <2>2. ~ IsToken(rest, 8, Tails \union {"as"}) /\ ~ IsToken(rest, 7, FromOrJoin)
    BY <2>1, <1>1, <1>3 DEF IsToken
  <2> QED BY <2>1, <2>2 DEF Closed, Refers
<1>5. 1 \in DOMAIN rest /\ Len(rest) >= 2
  BY <1>2, <1>3
<1> QED BY <1>1, <1>3, <1>4, <1>5 DEF TrailsTable

-----------------------------------------------------------------------------
(* An equality, after "where" or "and".                                    *)
Quoted(lit) ==
  /\ Len(lit) >= 2 /\ lit[1] \in Quotes /\ lit[Len(lit)] = lit[1]
  /\ \A j \in 2 .. Len(lit) - 1 : lit[j] \notin Quotes
  /\ lit[Len(lit) - 1] # "="

PlainLiteral(lit) ==
  /\ lit \in Seq(Tokens)
  /\ (Len(lit) = 1 /\ lit[1] \in DOMAIN Numeral) \/ Quoted(lit)
  /\ \A i \in 1 .. Len(lit) : lit[i] \notin FromOrJoin /\ lit[i] # "limit"

Dotted(q, dots) ==
  \/ q = <<>> /\ dots = <<>>
  \/ /\ q # <<>> /\ q \in Words /\ q[1] \notin FromOrJoin
     /\ Len(dots) = Len(q) + 1 /\ dots[Len(q) + 1] = "."
     /\ \A i \in 1 .. Len(q) : dots[i] = q[i]

WhereParts(c, first, q, dots, pair, column, lit) ==
  /\ PartsOf(c, first, dots, pair, lit)
  /\ Len(first) = 1 /\ first[1] \in {"where", "and"}
  /\ Dotted(q, dots)
  /\ column \in {"uid", "note"} /\ Len(pair) = 2 /\ pair[1] = column /\ pair[2] = "="
  /\ PlainLiteral(lit)

LEMMA WherePlaces ==
  ASSUME NEW c, NEW first, NEW q, NEW dots, NEW pair, NEW column, NEW lit,
         WhereParts(c, first, q, dots, pair, column, lit)
  PROVE  /\ Len(dots) \in Nat /\ Len(lit) \in Nat /\ Len(lit) >= 1 /\ Len(c) = Len(dots) + 3 + Len(lit)
         /\ c \in Seq(Tokens) /\ Len(c) \in Nat /\ DOMAIN c = 1 .. Len(c)
         /\ c[1] \in {"where", "and"}
         /\ \A i \in 1 .. Len(dots) : c[1 + i] = dots[i]
         /\ c[Len(dots) + 2] = column /\ c[Len(dots) + 3] = "="
         /\ \A i \in 1 .. Len(lit) : c[Len(dots) + 3 + i] = lit[i]
<1> DEFINE d == Len(dots)
           n == Len(lit)
<1>1. PartsOf(c, first, dots, pair, lit)
  BY DEF WhereParts
<1>2. /\ Len(first) = 1 /\ first[1] \in {"where", "and"}
      /\ Len(pair) = 2 /\ pair[1] = column /\ pair[2] = "="
  BY DEF WhereParts
<1>3. d \in Nat /\ n \in Nat /\ Len(c) \in Nat /\ DOMAIN c = 1 .. Len(c)
  BY <1>1, PartsFacts
<1>4. /\ c \in Seq(Tokens) /\ Len(c) = 1 + d + 2 + n
      /\ \A i \in 1 .. 1 : c[i] = first[i]
      /\ \A i \in 1 .. d : c[1 + i] = dots[i]
      /\ \A i \in 1 .. 2 : c[1 + d + i] = pair[i]
      /\ \A i \in 1 .. n : c[1 + d + 2 + i] = lit[i]
  BY <1>1, <1>2 DEF PartsOf
<1>5. n >= 1
  <2>1. Len(lit) = 1 \/ Len(lit) >= 2
    BY DEF WhereParts, PlainLiteral, Quoted
  <2> QED BY <2>1
<1> HIDE DEF d, n
<1>6. c[d + 2] = column /\ c[d + 3] = "="
  <2>1. 1 + d + 1 = d + 2 /\ 1 + d + 2 = d + 3 /\ 1 \in 1 .. 2 /\ 2 \in 1 .. 2
    BY <1>3
  <2>2. c[1 + d + 1] = pair[1] /\ c[1 + d + 2] = pair[2]
    BY <2>1, <1>4
  <2> QED BY <2>1, <2>2, <1>2
<1>7. \A i \in 1 .. n : c[d + 3 + i] = lit[i]
  <2>1. \A i \in 1 .. n : 1 + d + 2 + i = d + 3 + i
    BY <1>3
  <2> QED BY <2>1, <1>4
<1>8. c[1] \in {"where", "and"}
  <2>1. 1 \in 1 .. 1
    OBVIOUS
  <2> QED BY <2>1, <1>2, <1>4
<1>9. Len(c) = d + 3 + n
  BY <1>3, <1>4
<1> QED BY <1>3, <1>4, <1>5, <1>6, <1>7, <1>8, <1>9 DEF d, n

(* Each token, and the part it belongs to.                                 *)
LEMMA WhereTokens ==
  ASSUME NEW c, NEW first, NEW q, NEW dots, NEW pair, NEW column, NEW lit,
         WhereParts(c, first, q, dots, pair, column, lit), NEW i \in 1 .. Len(c)
  PROVE  \/ i = 1
         \/ i - 1 \in 1 .. Len(dots) /\ c[i] = dots[i - 1]
         \/ i = Len(dots) + 2
         \/ i = Len(dots) + 3
         \/ i - (Len(dots) + 3) \in 1 .. Len(lit) /\ c[i] = lit[i - (Len(dots) + 3)]
<1> DEFINE d == Len(dots)
           n == Len(lit)
           j == i - 1
           k == i - (d + 3)
<1>1. /\ d \in Nat /\ n \in Nat /\ Len(c) = d + 3 + n
      /\ \A l \in 1 .. d : c[1 + l] = dots[l]
      /\ \A l \in 1 .. n : c[d + 3 + l] = lit[l]
  BY WherePlaces
<1> HIDE DEF d, n
<1>2. i = 1 \/ j \in 1 .. d \/ i = d + 2 \/ i = d + 3 \/ k \in 1 .. n
  BY <1>1
<1>3. 1 + j = i /\ d + 3 + k = i
  BY <1>1
<1> HIDE DEF j, k
<1>4. j \in 1 .. d => c[i] = dots[j]
  BY <1>1, <1>3
<1>5. k \in 1 .. n => c[i] = lit[k]
  BY <1>1, <1>3
<1> QED BY <1>2, <1>4, <1>5 DEF d, n, j, k

LEMMA DottedPlaces ==
  ASSUME NEW q, NEW dots, Dotted(q, dots)
  PROVE  /\ q = <<>> => Len(dots) = 0
         /\ q # <<>> => /\ q \in Words /\ Len(q) \in {1, 2} /\ Len(dots) = Len(q) + 1
                        /\ dots[1] = q[1] /\ q[1] \in Heads /\ dots[Len(dots)] = "."
                        /\ \A i \in 1 .. Len(q) : dots[i] = q[i]
         /\ \A i \in 1 .. Len(dots) : dots[i] \notin FromOrJoin /\ dots[i] \notin Quotes
         /\ \A i \in 2 .. Len(dots) : dots[i] \in Tails \union {"."}
<1>1. CASE q = <<>>
  <2>1. Len(dots) = 0
    BY <1>1 DEF Dotted
  <2>2. \A i \in 1 .. 0 : FALSE
    OBVIOUS
  <2>3. \A i \in 2 .. 0 : FALSE
    OBVIOUS
  <2> QED BY <1>1, <2>1, <2>2, <2>3
<1>2. CASE q # <<>>
  <2>1. /\ q \in Words /\ q[1] \notin FromOrJoin
        /\ Len(dots) = Len(q) + 1 /\ dots[Len(q) + 1] = "."
        /\ \A i \in 1 .. Len(q) : dots[i] = q[i]
    BY <1>2 DEF Dotted
  <2>2. /\ Len(q) \in {1, 2} /\ q[1] \in Heads /\ (Len(q) = 2 => q[2] \in Tails)
    BY <2>1, WordPlaces
  <2>3. "." \notin FromOrJoin /\ "." \notin Quotes
    BY Vocabulary, Signed DEF Quotes
  <2>4. 1 \in 1 .. Len(q) /\ (Len(q) = 2 => 2 \in 1 .. Len(q))
    BY <2>2
  <2>5. \A i \in 1 .. Len(dots) : i = 1 \/ (Len(q) = 2 /\ i = 2) \/ i = Len(q) + 1
    BY <2>1, <2>2
  <2>6. \A i \in 1 .. Len(dots) : dots[i] \notin FromOrJoin /\ dots[i] \notin Quotes
    BY <2>1, <2>2, <2>3, <2>4, <2>5, Signed
  <2>7. ASSUME NEW i \in 2 .. Len(dots) PROVE dots[i] \in Tails \union {"."}
    <3>1. (Len(q) = 2 /\ i = 2) \/ i = Len(q) + 1
      BY <2>1, <2>2
    <3> QED BY <3>1, <2>1, <2>2, <2>4
  <2> QED BY <1>2, <2>1, <2>2, <2>4, <2>6, <2>7
<1> QED BY <1>1, <1>2

LEMMA WhereNamesNone ==
  ASSUME NEW c, NEW first, NEW q, NEW dots, NEW pair, NEW column, NEW lit,
         WhereParts(c, first, q, dots, pair, column, lit)
  PROVE  Len(TablesOf(c)) = 0 /\ Len(LimitsOf(c)) = 0
<1> DEFINE d == Len(dots)
<1>1. /\ d \in Nat /\ Len(lit) \in Nat /\ Len(lit) >= 1 /\ Len(c) = d + 3 + Len(lit)
      /\ c \in Seq(Tokens) /\ Len(c) \in Nat /\ DOMAIN c = 1 .. Len(c)
      /\ c[1] \in {"where", "and"}
      /\ \A i \in 1 .. d : c[1 + i] = dots[i]
      /\ c[d + 2] = column /\ c[d + 3] = "="
  BY WherePlaces
<1>2. /\ Dotted(q, dots) /\ PlainLiteral(lit) /\ column \in {"uid", "note"}
  BY DEF WhereParts
<1>3. \A i \in 1 .. Len(c) :
         \/ i = 1
         \/ i - 1 \in 1 .. d /\ c[i] = dots[i - 1]
         \/ i = d + 2
         \/ i = d + 3
         \/ i - (d + 3) \in 1 .. Len(lit) /\ c[i] = lit[i - (d + 3)]
  BY WhereTokens
<1>4. /\ \A i \in 1 .. d : dots[i] \notin FromOrJoin
      /\ \A i \in 2 .. d : dots[i] \in Tails \union {"."}
  BY <1>2, DottedPlaces
<1>5. \A i \in 1 .. Len(lit) : lit[i] \notin FromOrJoin /\ lit[i] # "limit"
  BY <1>2 DEF PlainLiteral
<1>6. \A t \in {"where", "and", "uid", "note", "="} : t \notin FromOrJoin /\ t # "limit"
  BY Vocabulary
<1> HIDE DEF d
<1>7. \A i \in 1 .. Len(c) : c[i] \notin FromOrJoin
  <2>1. ASSUME NEW i \in 1 .. Len(c) PROVE c[i] \notin FromOrJoin
    <3>1. \/ i = 1
          \/ i - 1 \in 1 .. d /\ c[i] = dots[i - 1]
          \/ i = d + 2
          \/ i = d + 3
          \/ i - (d + 3) \in 1 .. Len(lit) /\ c[i] = lit[i - (d + 3)]
      BY <1>3
    <3>2. c[1] \notin FromOrJoin /\ c[d + 2] \notin FromOrJoin /\ c[d + 3] \notin FromOrJoin
      BY <1>1, <1>2, <1>6
    <3>3. /\ i - 1 \in 1 .. d => dots[i - 1] \notin FromOrJoin
          /\ i - (d + 3) \in 1 .. Len(lit) => lit[i - (d + 3)] \notin FromOrJoin
      BY <1>4, <1>5
    <3> QED BY ONLY <3>1, <3>2, <3>3
  <2> QED BY <2>1
<1>8. \A i \in 1 .. Len(c) : LimitAt(c, i).stop = 0
  <2>1. ASSUME NEW i \in 1 .. Len(c), c[i] = "limit", i - 1 \in 1 .. d, c[i] = dots[i - 1]
        PROVE  ~ IsNumber(c, i + 1)
    <3>1. "limit" \notin Tails /\ "limit" # "."
      BY Vocabulary, Signed
    <3>2. i - 1 = 1 \/ i - 1 \in 2 .. d
      BY <2>1, <1>1
    <3>3. i - 1 = 1
      BY <2>1, <3>1, <3>2, <1>4
    <3>4. i = 2 /\ d >= 1
      BY <2>1, <3>3, <1>1
    <3>5. d >= 2
      <4>1. q # <<>>
        BY <3>4, <1>2, DottedPlaces DEF d
      <4>2. Len(q) \in {1, 2} /\ d = Len(q) + 1
        BY <4>1, <1>2, DottedPlaces DEF d
      <4> QED BY <4>2
    <3>6. 2 \in 1 .. d /\ 2 \in 2 .. d /\ 1 + 2 = i + 1
      BY <3>4, <3>5, <1>1
    <3>7. c[i + 1] \in Tails \union {"."}
      BY <3>6, <1>1, <1>4
    <3>8. \A t \in Tails \union {"."} : t \notin DOMAIN Numeral
      BY TokenAssumption DEF Signs
    <3> QED BY <3>7, <3>8 DEF IsNumber, IsToken
  <2>2. ASSUME NEW i \in 1 .. Len(c) PROVE ~ (IsToken(c, i, {"limit"}) /\ IsNumber(c, i + 1))
    <3>1. CASE c[i] # "limit"
      BY <3>1 DEF IsToken
    <3>2. CASE c[i] = "limit"
      <4>1. i - 1 \in 1 .. d /\ c[i] = dots[i - 1]
        <5>1. \/ i = 1
              \/ i - 1 \in 1 .. d /\ c[i] = dots[i - 1]
              \/ i = d + 2
              \/ i = d + 3
              \/ i - (d + 3) \in 1 .. Len(lit) /\ c[i] = lit[i - (d + 3)]
          BY <1>3
        <5>2. c[1] # "limit" /\ c[d + 2] # "limit" /\ c[d + 3] # "limit"
          BY <1>1, <1>2, <1>6
        <5>3. i - (d + 3) \in 1 .. Len(lit) => lit[i - (d + 3)] # "limit"
          BY <1>5
        <5> QED BY ONLY <3>2, <5>1, <5>2, <5>3
      <4> QED BY <3>2, <4>1, <2>1
    <3> QED BY <3>1, <3>2
  <2> QED BY <2>2, LimitCases
<1>9. StopsAhead(Len(c), LimitMatches(c)) /\ \A i \in 1 .. Len(c) : LimitMatches(c)[i].stop = 0
  BY <1>1, <1>8, LimitsStopAhead DEF LimitMatches
<1>10. LimitsOf(c) = FindIter(c, LimitMatches(c))
  BY DEF LimitsOf, LimitMatches
<1> QED BY <1>1, <1>7, <1>9, <1>10, NoTables, NoneFound

(* The literal: what it is compared with, up to the end.                   *)
LEMMA WhereLiteral ==
  ASSUME NEW c, NEW first, NEW q, NEW dots, NEW pair, NEW column, NEW lit,
         WhereParts(c, first, q, dots, pair, column, lit)
  PROVE  /\ LiteralStop(c, Len(dots) + 4) = Len(c) + 1
         /\ NormalizeValue(c, Len(dots) + 4, Len(c) + 1) = NormalizeValue(lit, 1, Len(lit) + 1)
<1> DEFINE d == Len(dots)
           n == Len(lit)
           v == d + 4
<1>1. /\ d \in Nat /\ n \in Nat /\ n >= 1 /\ Len(c) = d + 3 + n
      /\ c \in Seq(Tokens) /\ Len(c) \in Nat /\ DOMAIN c = 1 .. Len(c)
      /\ \A i \in 1 .. n : c[d + 3 + i] = lit[i]
  BY WherePlaces
<1>2. lit \in Seq(Tokens) /\ ((n = 1 /\ lit[1] \in DOMAIN Numeral) \/ Quoted(lit))
  BY DEF WhereParts, PlainLiteral
<1> HIDE DEF d, n
<1>3. v \in 1 .. Len(c) /\ v \in Int /\ d + 3 + 1 = v /\ 1 \in 1 .. n
  BY <1>1
<1> HIDE DEF v
<1>4. c[v] = lit[1]
  BY <1>1, <1>3
<1>5. CASE n = 1 /\ lit[1] \in DOMAIN Numeral
  <2>1. IsNumber(c, v)
    BY <1>1, <1>3, <1>4, <1>5 DEF IsNumber, IsToken
  <2>2. LiteralStop(c, v) = v + 1
    BY <2>1, <1>1, <1>3, LiteralCases
  <2>3. v + 1 = Len(c) + 1
    BY <1>1, <1>3, <1>5
  <2>4. lit[1] \notin Quotes
    BY <1>5, Signed
  <2> QED BY <2>2, <2>3, <2>4, <1>4 DEF NormalizeValue, d, v, n
<1>6. CASE Quoted(lit)
  <2>1. /\ n >= 2 /\ lit[1] \in Quotes /\ lit[n] = lit[1]
        /\ \A j \in 2 .. n - 1 : lit[j] \notin Quotes
    BY <1>6 DEF Quoted, n
  <2>2. IsToken(c, v, Quotes)
    BY <2>1, <1>1, <1>3, <1>4 DEF IsToken
  <2>3. Len(c) \in DOMAIN c /\ Len(c) > v /\ c[Len(c)] = c[v]
    <3>1. Len(c) = d + 3 + n /\ n \in 1 .. n /\ Len(c) \in 1 .. Len(c) /\ Len(c) > v
      BY <2>1, <1>1, <1>3
    <3>2. c[d + 3 + n] = lit[n]
      BY <3>1, <1>1
    <3> QED BY <3>1, <3>2, <2>1, <1>1, <1>4
  <2>4. ASSUME NEW j \in DOMAIN c, j > v, c[j] = c[v] PROVE Len(c) <= j
    <3>1. SUFFICES ASSUME j < Len(c) PROVE FALSE
      BY <1>1
    <3> DEFINE k == j - (d + 3)
    <3>2. k \in 2 .. n - 1 /\ d + 3 + k = j /\ k \in 1 .. n
      <4>1. j \in Int /\ j > d + 4 /\ j < d + 3 + n
        BY <2>4, <3>1, <1>1 DEF v
      <4> QED BY <4>1, <1>1
    <3> HIDE DEF k
    <3>3. c[j] = lit[k] /\ lit[k] \notin Quotes
      BY <3>2, <2>1, <1>1
    <3> QED BY <3>3, <2>1, <2>4, <1>4
  <2>5. LiteralStop(c, v) = Len(c) + 1
    <3>1. \A j \in DOMAIN c : j > v /\ c[j] = c[v] => Len(c) <= j
      BY <2>4
    <3>2. c \in Seq(Tokens) /\ v \in Int
      BY <1>1, <1>3
    <3> QED BY ONLY <2>2, <2>3, <3>1, <3>2, LiteralCases
  <2>6. TextOf(c, v + 1, Len(c)) = TextOf(lit, 2, n)
    <3>1. Places(lit, d + 3, c)
      <4>1. d + 3 \in Nat /\ d + 3 + Len(lit) <= Len(c)
        BY <1>1 DEF n
      <4>2. \A i \in 1 .. Len(lit) : c[d + 3 + i] = lit[i]
        BY <1>1 DEF n
      <4> QED BY <4>1, <4>2, <1>1, <1>2 DEF Places
    <3>2. /\ 2 \in Int /\ n \in Int /\ 2 >= 1 /\ 2 <= n /\ n <= Len(lit) + 1
          /\ d + 3 + 2 = v + 1 /\ d + 3 + n = Len(c)
      BY <2>1, <1>1 DEF v, n
    <3>3. TextOf(c, d + 3 + 2, d + 3 + n) = TextOf(lit, 2, n)
      BY ONLY <3>1, <3>2, TextPlaced
    <3> QED BY <3>2, <3>3
  <2>7. NormalizeValue(c, v, Len(c) + 1) = TextOf(c, v + 1, Len(c))
    <3>1. (Len(c) + 1) - 1 = Len(c)
      BY <1>1
    <3> QED BY <3>1, <2>1, <1>4 DEF NormalizeValue
  <2>8. NormalizeValue(lit, 1, n + 1) = TextOf(lit, 2, n)
    <3>1. (n + 1) - 1 = n /\ 1 + 1 = 2
      BY <1>1
    <3> QED BY <3>1, <2>1 DEF NormalizeValue
  <2> QED BY <2>5, <2>6, <2>7, <2>8 DEF d, v, n
<1> QED BY <1>2, <1>5, <1>6

LEMMA WhereLed ==
  ASSUME NEW c, NEW first, NEW q, NEW dots, NEW pair, NEW column, NEW lit,
         WhereParts(c, first, q, dots, pair, column, lit)
  PROVE  Led(c) /\ Closed(c)
<1> DEFINE d == Len(dots)
           n == Len(lit)
<1>1. /\ d \in Nat /\ n \in Nat /\ n >= 1 /\ Len(c) = d + 3 + n
      /\ c \in Seq(Tokens) /\ Len(c) \in Nat /\ DOMAIN c = 1 .. Len(c)
      /\ c[1] \in {"where", "and"}
      /\ \A i \in 1 .. d : c[1 + i] = dots[i]
      /\ c[d + 2] = column /\ c[d + 3] = "="
      /\ \A i \in 1 .. n : c[d + 3 + i] = lit[i]
  BY WherePlaces
<1>2. /\ Dotted(q, dots) /\ column \in {"uid", "note"}
      /\ (n = 1 /\ lit[1] \in DOMAIN Numeral) \/ Quoted(lit)
  BY DEF WhereParts, PlainLiteral
<1>3. \A i \in 1 .. Len(c) :
         \/ i = 1
         \/ i - 1 \in 1 .. d /\ c[i] = dots[i - 1]
         \/ i = d + 2
         \/ i = d + 3
         \/ i - (d + 3) \in 1 .. n /\ c[i] = lit[i - (d + 3)]
  BY WhereTokens
<1>4. {"where", "and", "uid", "note"} \subseteq Heads /\ {"where", "and"} \intersect {"as"} = {}
  BY Vocabulary
<1>5. LiteralStop(c, d + 4) # 0
  <2>1. LiteralStop(c, d + 4) = Len(c) + 1
    BY WhereLiteral
  <2>2. Len(c) + 1 # 0
    BY <1>1
  <2> QED BY <2>1, <2>2
<1>6. c[2] \in Heads
  <2>1. CASE q = <<>>
    <3>1. d + 2 = 2
      BY <2>1, <1>2, DottedPlaces
    <3> QED BY <3>1, <1>1, <1>2, <1>4
  <2>2. CASE q # <<>>
    <3>1. /\ Len(q) \in {1, 2} /\ d = Len(q) + 1 /\ dots[1] = q[1] /\ q[1] \in Heads
      BY <2>2, <1>2, DottedPlaces
    <3>2. 1 \in 1 .. d /\ 1 + 1 = 2
      BY <3>1
    <3>3. c[2] = dots[1]
      BY <3>2, <1>1
    <3> QED BY <3>1, <3>3
  <2> QED BY <2>1, <2>2
<1>7. \A i \in 1 .. d : dots[i] \notin Quotes
  BY <1>2, DottedPlaces
<1> HIDE DEF d, n
<1>8. AllClosed(c)
  <2>1. SUFFICES ASSUME NEW v \in DOMAIN c, IsToken(c, v, Quotes), IsToken(c, v - 1, {"="})
                 PROVE  LiteralStop(c, v) # 0
    BY DEF AllClosed
  <2>2. c[v] \in Quotes /\ v \in 1 .. Len(c) /\ v - 1 \in 1 .. Len(c) /\ c[v - 1] = "="
    BY <2>1, <1>1 DEF IsToken
  <2> DEFINE k == v - (d + 3)
  <2>3. k \in 1 .. n /\ c[v] = lit[k]
    <3>1. \A t \in {"where", "and", "uid", "note", "="} : t \notin Quotes
      BY DEF Quotes
    <3>2. v # 1 /\ v # d + 2 /\ v # d + 3
      BY <2>2, <3>1, <1>1, <1>2
    <3>3. ~ (v - 1 \in 1 .. d /\ c[v] = dots[v - 1])
      BY <2>2, <1>7
    <3> QED BY <2>2, <3>2, <3>3, <1>3
  <2>4. d + 3 + k = v
    BY <2>2, <1>1
  <2> HIDE DEF k
  <2>5. CASE k = 1
    <3>1. v = d + 4
      BY <2>4, <2>5, <1>1
    <3> QED BY <3>1, <1>5
  <2>6. CASE k # 1
    <3>1. k >= 2 /\ n >= 2 /\ k \in Int /\ n \in Int /\ k <= n
      BY <2>3, <2>6, <1>1
    <3>2. Quoted(lit)
      BY <3>1, <1>2
    <3>3. k = n
      <4>1. k \notin 2 .. n - 1
        BY <2>2, <2>3, <3>2 DEF Quoted, n
      <4> QED BY <3>1, <4>1
    <3>4. n - 1 \in 1 .. n /\ d + 3 + (n - 1) = v - 1
      BY <2>4, <3>1, <3>3, <1>1
    <3>5. c[v - 1] = lit[n - 1]
      BY <3>4, <1>1
    <3>6. lit[n - 1] # "="
      BY <3>2 DEF Quoted, n
    <3> QED BY <2>2, <3>5, <3>6
  <2> QED BY <2>5, <2>6
<1>9. Closed(c)
  <2>1. lit[n] \in DOMAIN Numeral \union Quotes
    BY <1>2 DEF Quoted, n
  <2>2. n \in 1 .. n /\ d + 3 + n = Len(c) /\ (Len(c) - 1) + 1 = Len(c)
    BY <1>1
  <2>3. c[Len(c)] = lit[n]
    BY <2>2, <1>1
  <2>4. c[Len(c)] \notin Tails \union {"as"} /\ c[Len(c)] \notin Heads
    <3>1. \A t \in DOMAIN Numeral \union Quotes : t \notin Tails /\ t \notin Heads
      BY Signed
    <3>2. "as" \in Heads
      BY Vocabulary
    <3> QED BY <2>1, <2>3, <3>1, <3>2
  <2> QED BY <2>2, <2>4 DEF Closed, Refers, IsWord, IsToken
<1>10. Led(c)
  <2>1. Len(c) >= 2
    BY <1>1
  <2>2. c[1] \in Heads /\ c[1] # "as"
    BY <1>1, <1>4
  <2>3. c[2] \notin Tails \union {"=", "."}
    BY <1>6, Signed
  <2> QED BY <2>1, <2>2, <2>3, <1>1, <1>8 DEF Led
<1> QED BY <1>9, <1>10

LEMMA WhereChunk ==
  ASSUME NEW c, NEW first, NEW q, NEW dots, NEW pair, NEW column, NEW lit,
         WhereParts(c, first, q, dots, pair, column, lit)
  PROVE  /\ Len(PredicatesOf(c)) = 1
         /\ PredicatesOf(c)[1].qualifier = (IF q = <<>> THEN NoValue ELSE Joined(q))
         /\ PredicatesOf(c)[1].column = column
         /\ PredicatesOf(c)[1].value = NormalizeValue(lit, 1, Len(lit) + 1)
<1> DEFINE d == Len(dots)
           n == Len(lit)
           m == PredicateMatches(c)
<1>1. /\ d \in Nat /\ n \in Nat /\ n >= 1 /\ Len(c) = d + 3 + n
      /\ c \in Seq(Tokens) /\ Len(c) \in Nat /\ DOMAIN c = 1 .. Len(c)
      /\ c[1] \in {"where", "and"}
      /\ \A i \in 1 .. d : c[1 + i] = dots[i]
      /\ c[d + 2] = column /\ c[d + 3] = "="
  BY WherePlaces
<1>2. Dotted(q, dots) /\ column \in {"uid", "note"}
  BY DEF WhereParts
<1>3. {"where", "and", "uid", "note"} \subseteq Heads /\ "=" \notin Tails /\ "." \notin Tails /\ "=" # "."
  BY Vocabulary, Signed
<1>4. LiteralStop(c, d + 4) = Len(c) + 1 /\ NormalizeValue(c, d + 4, Len(c) + 1) = NormalizeValue(lit, 1, n + 1)
  BY WhereLiteral
<1>5. Len(c) >= 2 /\ c[2] \notin Tails \union {"=", "."}
  BY WhereLed DEF Led
<1>6. /\ q = <<>> => d = 0
      /\ q # <<>> => /\ q \in Words /\ Len(q) \in {1, 2} /\ d = Len(q) + 1
                     /\ dots[d] = "."
                     /\ \A i \in 1 .. Len(q) : dots[i] = q[i]
  BY <1>2, DottedPlaces
<1> HIDE DEF d, n, m
<1>7. PredicateAt(c, 1).stop = 0
  <2>1. 1 \in 1 .. Len(c) /\ c[1] \in Heads /\ 1 + 1 = 2
    BY <1>1, <1>3, <1>5
  <2>2. ~ IsToken(c, 1 + 1, Tails) /\ ~ IsToken(c, 2, {"."}) /\ ~ IsToken(c, 2, {"="})
    BY <1>5 DEF IsToken
  <2>3. WordStop(c, 1) = 2
    BY <2>1, <2>2, <1>1, HeadPlaced
  <2>4. ColumnAt(c, 1) = 1
    BY <2>2, <2>3 DEF ColumnAt, Qualified
  <2>5. ~ Equates(c, ColumnAt(c, 1))
    BY <2>2, <2>3, <2>4 DEF Equates
  <2> QED BY <2>5, <1>1, PredicateFacts
<1>8. /\ IsWord(c, d + 2) /\ WordStop(c, d + 2) = d + 3 /\ WordAt(c, d + 2) = column
  <2>1. d + 2 \in 1 .. Len(c) /\ d + 2 + 1 = d + 3
    BY <1>1
  <2>2. c[d + 2] \in Heads /\ ~ IsToken(c, d + 2 + 1, Tails)
    BY <2>1, <1>1, <1>2, <1>3 DEF IsToken
  <2>3. c \in Seq(Tokens) /\ c[d + 2] = column
    BY <1>1
  <2>4. IsWord(c, d + 2) /\ WordStop(c, d + 2) = d + 2 + 1 /\ WordAt(c, d + 2) = c[d + 2]
    BY ONLY <2>1, <2>2, <2>3, HeadPlaced
  <2> QED BY <2>1, <2>3, <2>4
<1>9. ColumnAt(c, 2) = d + 2 /\ QualifierAt(c, 2) = IF q = <<>> THEN NoValue ELSE Joined(q)
  <2>1. CASE q = <<>>
    <3>1. d + 2 = 2
      BY <2>1, <1>6
    <3>2. c[d + 3] # "."
      BY <1>1, <1>3
    <3>3. ~ IsToken(c, d + 3, {"."})
      BY <3>2 DEF IsToken
    <3>4. ~ Qualified(c, 2)
      BY <3>1, <3>3, <1>8 DEF Qualified
    <3> QED BY <2>1, <3>1, <3>4 DEF ColumnAt, QualifierAt
  <2>2. CASE q # <<>>
    <3>1. /\ q \in Words /\ Len(q) \in {1, 2} /\ d = Len(q) + 1 /\ dots[d] = "."
          /\ \A i \in 1 .. Len(q) : dots[i] = q[i]
      BY <2>2, <1>6
    <3>2. q \in Seq(Tokens)
      BY <3>1, WordPlaces
    <3>3. d \in 1 .. d /\ 1 + d = 1 + Len(q) + 1 /\ 1 + d \in 1 .. Len(c) /\ 1 \in Nat /\ 1 + Len(q) <= Len(c)
      BY <3>1, <1>1
    <3>4. c[1 + d] = "."
      BY <3>1, <3>3, <1>1
    <3>5. Places(q, 1, c)
      <4>1. \A i \in 1 .. Len(q) : i \in 1 .. d
        BY <3>1
      <4>2. \A i \in 1 .. Len(q) : c[1 + i] = q[i]
        BY <3>1, <4>1, <1>1
      <4> QED BY <3>2, <3>3, <4>2, <1>1 DEF Places
    <3>6. ~ IsToken(c, 1 + Len(q) + 1, Tails)
      BY <3>3, <3>4, <1>3 DEF IsToken
    <3>7. IsWord(c, 1 + 1) /\ WordStop(c, 1 + 1) = 1 + Len(q) + 1 /\ WordAt(c, 1 + 1) = Joined(q)
      BY <3>1, <3>5, <3>6, WordPlaced
    <3>8. IsToken(c, 1 + d, {"."})
      BY <3>3, <3>4, <1>1 DEF IsToken
    <3>9. 1 + 1 = 2 /\ 1 + d + 1 = d + 2
      BY <1>1
    <3>10. IsWord(c, 2) /\ WordStop(c, 2) = 1 + d /\ WordAt(c, 2) = Joined(q)
      BY <3>3, <3>7, <3>9
    <3>11. Qualified(c, 2)
      BY <3>8, <3>10 DEF Qualified
    <3> QED BY <2>2, <3>9, <3>10, <3>11 DEF ColumnAt, QualifierAt
  <2> QED BY <2>1, <2>2
<1>10. Equates(c, d + 2)
  <2>1. d + 3 \in 1 .. Len(c) /\ d + 3 + 1 = d + 4 /\ Len(c) + 1 # 0
    BY <1>1
  <2>2. IsToken(c, d + 3, {"="})
    BY <2>1, <1>1 DEF IsToken
  <2> QED BY <2>1, <2>2, <1>4, <1>8 DEF Equates
<1>11. /\ PredicateAt(c, 2).stop = Len(c) + 1
       /\ PredicateAt(c, 2).qualifier = (IF q = <<>> THEN NoValue ELSE Joined(q))
       /\ PredicateAt(c, 2).column = column
       /\ PredicateAt(c, 2).value = NormalizeValue(lit, 1, n + 1)
  <2>1. PredicateAt(c, 2) = EqualityAt(c, QualifierAt(c, 2), d + 2)
    BY <1>9, PredicateParts
  <2>2. d + 2 \in Int /\ d + 3 + 1 = d + 4
    BY <1>1
  <2>3. EqualityAt(c, QualifierAt(c, 2), d + 2) =
          [qualifier |-> QualifierAt(c, 2), column |-> WordAt(c, d + 2),
           value |-> NormalizeValue(c, WordStop(c, d + 2) + 1, LiteralStop(c, WordStop(c, d + 2) + 1)),
           stop |-> LiteralStop(c, WordStop(c, d + 2) + 1)]
    BY <2>2, <1>10, EqualityParts
  <2> QED BY <2>1, <2>2, <2>3, <1>4, <1>8, <1>9
<1>12. StopsAhead(Len(c), m) /\ \A i \in 1 .. Len(c) : m[i] = PredicateAt(c, i)
  BY <1>1, PredicatesStopAhead DEF PredicateMatches, m
<1>13. PredicatesOf(c) = FindIter(c, m)
  BY DEF PredicatesOf, PredicateMatches, m
<1>14. Len(FindIter(c, m)) = 1 /\ FindIter(c, m)[1] = m[2]
  <2>1. 1 \in 1 .. Len(c) /\ 2 \in 1 .. Len(c)
    BY <1>1, <1>5
  <2>2. m[2].stop = Len(c) + 1 /\ m[2].stop # 0
    BY <2>1, <1>1, <1>11, <1>12
  <2>3. \A i \in 1 .. 2 - 1 : m[i].stop = 0
    <3>1. \A i \in 1 .. 2 - 1 : i = 1
      OBVIOUS
    <3> QED BY <2>1, <3>1, <1>7, <1>12
  <2>4. \A i \in m[2].stop .. Len(c) : m[i].stop = 0
    <3>1. \A i \in Len(c) + 1 .. Len(c) : FALSE
      BY <1>1
    <3> QED BY <2>2, <3>1
  <2> QED BY <2>1, <2>2, <2>3, <2>4, <1>1, <1>12, OneFound
<1>15. m[2] = PredicateAt(c, 2)
  BY <1>1, <1>5, <1>12
<1> QED BY <1>11, <1>13, <1>14, <1>15 DEF n

(* A LIMIT.                                                                *)
LimitParts(c, b) ==
  /\ b \in Bounds /\ c \in Seq(Tokens) /\ Len(c) = 1 + Len(b) /\ c[1] = "limit"
  /\ \A i \in 1 .. Len(b) : c[1 + i] = b[i]

LEMMA BoundsPlaces ==
  ASSUME NEW b \in Bounds
  PROVE  /\ b \in Seq(Tokens) /\ Len(b) \in {1, 3} /\ b # <<>> /\ Last(b) = b[Len(b)]
         /\ b[1] \in DOMAIN Numeral /\ b[Len(b)] \in DOMAIN Numeral
         /\ Len(b) = 3 => b[2] = ","
         /\ \A i \in 1 .. Len(b) : b[i] \in DOMAIN Numeral \union {","}
<1> DEFINE comma == ","
<1>1. PICK n \in DOMAIN Numeral : b = <<n>> \/ \E m \in DOMAIN Numeral : b = <<m, comma, n>>
  BY StatementAssumption, Zenon
<1>2. comma \in Tokens /\ \A t \in DOMAIN Numeral : t \in Tokens
  BY Punctuation, Zenon DEF Tokens
<1> HIDE DEF comma
<1>3. ASSUME b = <<n>>
      PROVE  /\ b \in Seq(Tokens) /\ Len(b) \in {1, 3} /\ b # <<>> /\ Last(b) = b[Len(b)]
             /\ b[1] \in DOMAIN Numeral /\ b[Len(b)] \in DOMAIN Numeral
             /\ Len(b) = 3 => b[2] = comma
             /\ \A i \in 1 .. Len(b) : b[i] \in DOMAIN Numeral \union {comma}
  <2>1. b \in Seq(Tokens) /\ Len(b) = 1 /\ DOMAIN b = {1} /\ b # <<>> /\ b[1] = n
    BY <1>2, <1>3, OneTokenText
  <2>2. \A i \in 1 .. 1 : i = 1
    OBVIOUS
  <2> QED BY <2>1, <2>2 DEF Last
<1>4. ASSUME NEW m \in DOMAIN Numeral, b = <<m, comma, n>>
      PROVE  /\ b \in Seq(Tokens) /\ Len(b) \in {1, 3} /\ b # <<>> /\ Last(b) = b[Len(b)]
             /\ b[1] \in DOMAIN Numeral /\ b[Len(b)] \in DOMAIN Numeral
             /\ Len(b) = 3 => b[2] = comma
             /\ \A i \in 1 .. Len(b) : b[i] \in DOMAIN Numeral \union {comma}
  <2>1. /\ b \in Seq(Tokens) /\ Len(b) = 3 /\ DOMAIN b = {1, 2, 3} /\ b # <<>>
        /\ b[1] = m /\ b[2] = comma /\ b[3] = n
    <3>1. m \in Tokens /\ n \in Tokens
      BY <1>2
    <3> QED BY <1>2, <1>4, <3>1, ThreeTokens
  <2>2. \A i \in 1 .. 3 : i = 1 \/ i = 2 \/ i = 3
    OBVIOUS
  <2> QED BY <2>1, <2>2 DEF Last
<1>5. (\E m \in DOMAIN Numeral : b = <<m, comma, n>>) =>
             /\ b \in Seq(Tokens) /\ Len(b) \in {1, 3} /\ b # <<>> /\ Last(b) = b[Len(b)]
             /\ b[1] \in DOMAIN Numeral /\ b[Len(b)] \in DOMAIN Numeral
             /\ Len(b) = 3 => b[2] = comma
             /\ \A i \in 1 .. Len(b) : b[i] \in DOMAIN Numeral \union {comma}
  BY <1>4
<1> QED BY <1>1, <1>3, <1>5, Zenon DEF comma

LEMMA LimitChunk ==
  ASSUME NEW c, NEW b, LimitParts(c, b)
  PROVE  /\ Led(c) /\ Closed(c)
         /\ Len(TablesOf(c)) = 0 /\ Len(PredicatesOf(c)) = 0 /\ Len(LimitsOf(c)) = 1
         /\ LimitsOf(c)[1].count = Numeral[Last(b)]
<1> DEFINE comma == ","
           n == Len(b)
<1>1. /\ b \in Seq(Tokens) /\ n \in {1, 3} /\ Last(b) = b[n]
      /\ b[1] \in DOMAIN Numeral /\ b[n] \in DOMAIN Numeral
      /\ n = 3 => b[2] = comma
      /\ \A i \in 1 .. n : b[i] \in DOMAIN Numeral \union {comma}
  BY BoundsPlaces, Zenon DEF LimitParts
<1>2. /\ c \in Seq(Tokens) /\ Len(c) = 1 + n /\ c[1] = "limit"
      /\ \A i \in 1 .. n : c[1 + i] = b[i]
  BY DEF LimitParts
<1>3. /\ \A t \in DOMAIN Numeral : t \notin Tails /\ t \notin FromOrJoin /\ t # "=" /\ t \notin Quotes
                                   /\ t \notin Heads /\ t # "." /\ t # comma
      /\ comma \notin Tails /\ comma \notin FromOrJoin /\ comma # "=" /\ comma \notin Quotes
      /\ comma \notin Heads
  <2>1. \A t \in DOMAIN Numeral : t \notin Tails /\ t \notin FromOrJoin /\ t # "=" /\ t \notin Quotes /\ t \notin Heads
    BY Signed
  <2>2. \A t \in DOMAIN Numeral : t \notin Signs
    BY TokenAssumption
  <2>3. "." \in Signs /\ comma \in Signs
    BY Zenon DEF Signs
  <2>4. comma \notin Tails /\ comma \notin FromOrJoin /\ comma # "=" /\ comma \notin Quotes /\ comma \notin Heads
    BY Punctuation, Vocabulary, Zenon
  <2> QED BY <2>1, <2>2, <2>3, <2>4, Zenon
<1> HIDE DEF comma, n
<1>4. /\ "limit" \in Heads /\ "limit" # "as" /\ "limit" \notin Tails /\ "limit" \notin FromOrJoin /\ "limit" # "="
      /\ "limit" \notin Quotes
  BY Vocabulary, Signed
<1>5. Len(c) \in {2, 4} /\ DOMAIN c = 1 .. Len(c) /\ 1 \in 1 .. Len(c) /\ 1 + n = Len(c) /\ n \in 1 .. n /\ 1 \in 1 .. n
  <2>1. DOMAIN c = 1 .. Len(c)
    BY <1>2, SeqOfTokens
  <2> QED BY <2>1, <1>1, <1>2
<1>6. \A i \in 1 .. Len(c) : i = 1 \/ c[i] \in DOMAIN Numeral \union {comma}
  <2>1. ASSUME NEW i \in 1 .. Len(c), i # 1 PROVE c[i] \in DOMAIN Numeral \union {comma}
    <3>1. i - 1 \in 1 .. n /\ 1 + (i - 1) = i
      BY <2>1, <1>1, <1>2
    <3>2. c[1 + (i - 1)] = b[i - 1] /\ b[i - 1] \in DOMAIN Numeral \union {comma}
      BY <3>1, <1>1, <1>2
    <3> QED BY <3>1, <3>2
  <2> QED BY <2>1
<1>7. c[2] \in DOMAIN Numeral /\ c[Len(c)] \in DOMAIN Numeral /\ c[Len(c)] = Last(b)
  <2>1. 1 + 1 = 2
    OBVIOUS
  <2>2. c[1 + 1] = b[1] /\ c[1 + n] = b[n]
    BY <1>2, <1>5
  <2> QED BY <2>1, <2>2, <1>1, <1>5
<1>8. \A i \in 1 .. Len(c) : c[i] \notin FromOrJoin /\ c[i] # "=" /\ c[i] \notin Quotes /\ (i # 1 => c[i] # "limit")
  BY <1>2, <1>3, <1>4, <1>6
<1>9. Len(TablesOf(c)) = 0
  BY <1>2, <1>5, <1>8, NoTables
<1>10. Len(PredicatesOf(c)) = 0
  <2>1. ASSUME NEW i \in 1 .. Len(c) PROVE PredicateAt(c, i).stop = 0
    <3>1. ~ Equates(c, ColumnAt(c, i))
      BY <1>5, <1>8, Zenon DEF Equates, IsToken
    <3> QED BY <3>1, <1>2, PredicateFacts
  <2>2. StopsAhead(Len(c), PredicateMatches(c)) /\ \A i \in 1 .. Len(c) : PredicateMatches(c)[i].stop = 0
    BY <2>1, <1>2, <1>5, PredicatesStopAhead DEF PredicateMatches
  <2>3. PredicatesOf(c) = FindIter(c, PredicateMatches(c))
    BY DEF PredicatesOf, PredicateMatches
  <2> QED BY <2>2, <2>3, <1>2, NoneFound
<1>11. LimitAt(c, 1).stop = Len(c) + 1 /\ LimitAt(c, 1).count = Numeral[Last(b)]
  <2>1. IsToken(c, 1, {"limit"}) /\ IsNumber(c, 1 + 1)
    <3>1. 1 + 1 = 2 /\ 2 \in 1 .. Len(c)
      BY <1>5
    <3> QED BY <3>1, <1>2, <1>5, <1>7 DEF IsToken, IsNumber
  <2>2. CASE Len(c) = 2
    <3>1. ~ IsToken(c, 1 + 2, {comma})
      <4>1. 1 + 2 \notin 1 .. Len(c)
        BY <2>2
      <4> QED BY <4>1, <1>5 DEF IsToken
    <3>2. LimitAt(c, 1).count = Numeral[c[1 + 1]] /\ LimitAt(c, 1).stop = 1 + 2
      BY <2>1, <3>1, LimitCases, Zenon DEF comma
    <3>3. 1 + 2 = Len(c) + 1 /\ 1 + 1 = Len(c)
      BY ONLY <2>2
    <3> QED BY <3>2, <3>3, <1>7
  <2>3. CASE Len(c) = 4
    <3>1. n = 3 /\ 1 + 2 \in 1 .. Len(c) /\ 2 \in 1 .. n /\ 1 + 3 = Len(c) /\ 1 + 3 \in 1 .. Len(c) /\ 1 + 4 = Len(c) + 1
      <4>1. n \in {1, 3} /\ Len(c) = 1 + n /\ Len(c) = 4
        BY <2>3, <1>1, <1>2
      <4> QED BY ONLY <4>1
    <3>2. IsToken(c, 1 + 2, {comma}) /\ IsNumber(c, 1 + 3)
      <4>1. c[1 + 2] = comma
        BY <3>1, <1>1, <1>2
      <4>2. c[1 + 3] \in DOMAIN Numeral
        BY <3>1, <1>7
      <4> QED BY <3>1, <4>1, <4>2, <1>5 DEF IsToken, IsNumber
    <3>3. LimitAt(c, 1).count = Numeral[c[1 + 3]] /\ LimitAt(c, 1).stop = 1 + 4
      BY <2>1, <3>2, LimitCases, Zenon DEF comma
    <3> QED BY <3>1, <3>3, <1>7
  <2> QED BY <2>2, <2>3, <1>5
<1>12. Len(LimitsOf(c)) = 1 /\ LimitsOf(c)[1].count = Numeral[Last(b)]
  <2>1. StopsAhead(Len(c), LimitMatches(c)) /\ \A i \in 1 .. Len(c) : LimitMatches(c)[i] = LimitAt(c, i)
    BY <1>2, <1>5, LimitsStopAhead DEF LimitMatches
  <2>2. LimitMatches(c)[1].stop # 0
    <3>1. Len(c) + 1 # 0
      BY <1>5
    <3> QED BY <2>1, <3>1, <1>5, <1>11
  <2>3. \A i \in 1 .. 1 - 1 : LimitMatches(c)[i].stop = 0
    <3>1. \A i \in 1 .. 1 - 1 : FALSE
      OBVIOUS
    <3> QED BY <3>1
  <2>4. \A i \in LimitMatches(c)[1].stop .. Len(c) : LimitMatches(c)[i].stop = 0
    <3>1. \A i \in Len(c) + 1 .. Len(c) : FALSE
      BY <1>5
    <3>2. LimitMatches(c)[1].stop = Len(c) + 1
      BY <2>1, <1>5, <1>11
    <3> QED BY <3>1, <3>2
  <2>5. Len(FindIter(c, LimitMatches(c))) = 1 /\ FindIter(c, LimitMatches(c))[1] = LimitMatches(c)[1]
    BY <2>1, <2>2, <2>3, <2>4, <1>2, <1>5, OneFound
  <2>6. LimitsOf(c) = FindIter(c, LimitMatches(c))
    BY DEF LimitsOf, LimitMatches
  <2> QED BY <2>1, <2>5, <2>6, <1>5, <1>11
<1>13. Led(c)
  <2>1. AllClosed(c)
    BY <1>5, <1>8, Zenon DEF AllClosed, IsToken
  <2>2. Len(c) >= 2 /\ c[2] \notin Tails \union {"=", "."}
    BY <1>3, <1>5, <1>7
  <2> QED BY <2>1, <2>2, <1>2, <1>4 DEF Led
<1>14. Closed(c)
  <2>1. c[Len(c)] \notin Tails \union {"as"} /\ c[Len(c)] \notin Heads /\ (Len(c) - 1) + 1 = Len(c)
    <3>1. "as" \in Heads
      BY Vocabulary
    <3> QED BY <3>1, <1>3, <1>5, <1>7
  <2> QED BY <2>1 DEF Closed, Refers, IsWord, IsToken
<1> QED BY <1>9, <1>10, <1>12, <1>13, <1>14

-----------------------------------------------------------------------------
(* What a text says is what was meant.                                     *)
IsTable(t, found) ==
  /\ found.name = Joined(t.name) /\ found.tokenStart = t.at
  /\ t.alias # NoValue => found.alias = t.alias

FindsTables(x, tables) ==
  /\ Len(TablesOf(x)) = Len(tables)
  /\ \A i \in 1 .. Len(tables) : IsTable(tables[i], TablesOf(x)[i])

FindsPredicates(x, preds) ==
  /\ Len(PredicatesOf(x)) = Len(preds)
  /\ \A i \in 1 .. Len(preds) : preds[i] = Seen(PredicatesOf(x)[i])

LEMMA AppendPlaces ==
  ASSUME NEW S, NEW s \in Seq(S), NEW t
  PROVE  /\ Len(s) \in Nat /\ Len(Append(s, t)) = Len(s) + 1
         /\ \A i \in 1 .. Len(s) : Append(s, t)[i] = s[i]
         /\ Append(s, t)[Len(s) + 1] = t
         /\ Last(Append(s, t)) = t
<1>1. s \in Seq(S \union {t}) /\ t \in S \union {t}
  OBVIOUS
<1>2. /\ Len(s) \in Nat /\ Append(s, t) \in Seq(S \union {t}) /\ Len(Append(s, t)) = Len(s) + 1
      /\ \A i \in 1 .. Len(s) : Append(s, t)[i] = s[i]
      /\ Append(s, t)[Len(s) + 1] = t
  BY ONLY <1>1
<1> QED BY <1>2 DEF Last

LEMMA MeantElement ==
  ASSUME NEW tables \in Seq(Meant), NEW k \in 1 .. Len(tables)
  PROVE  tables[k] \in Meant
<1>1. ASSUME NEW S, NEW s \in Seq(S), NEW i \in 1 .. Len(s) PROVE s[i] \in S
  OBVIOUS
<1> QED BY ONLY <1>1, tables \in Seq(Meant), k \in 1 .. Len(tables)

LEMMA TablesKept ==
  ASSUME NEW x, NEW c, NEW y, Joins(x, c, y), Closed(x) \/ ~ IsToken(c, 1, FromOrJoin),
         NEW tables \in Seq(Meant), FindsTables(x, tables),
         Closed(x) \/ Last(tables).alias = NoValue,
         Len(TablesOf(c)) = 0
  PROVE  FindsTables(y, tables)
<1>1. /\ Len(TablesOf(x)) \in Nat /\ Len(TablesOf(y)) = Len(TablesOf(x)) + Len(TablesOf(c))
      /\ \A k \in 1 .. Len(TablesOf(x)) :
           /\ NamedAlike(0, TablesOf(x)[k], TablesOf(y)[k])
           /\ k < Len(TablesOf(x)) \/ Closed(x) => SameAlias(TablesOf(x)[k], TablesOf(y)[k])
  BY TablesJoined
<1>2. Len(TablesOf(x)) = Len(tables) /\ \A k \in 1 .. Len(tables) : IsTable(tables[k], TablesOf(x)[k])
  BY DEF FindsTables
<1>3. Len(TablesOf(y)) = Len(tables) /\ Len(tables) \in Nat
  BY <1>1, <1>2
<1>4. ASSUME NEW k \in 1 .. Len(tables) PROVE IsTable(tables[k], TablesOf(y)[k])
  <2>1. IsTable(tables[k], TablesOf(x)[k]) /\ NamedAlike(0, TablesOf(x)[k], TablesOf(y)[k])
    BY <1>1, <1>2
  <2>2. tables[k].at \in Int
    <3>1. tables[k] \in Meant
      BY <1>3, MeantElement
    <3> QED BY <3>1 DEF Meant
  <2>3. TablesOf(y)[k].name = Joined(tables[k].name) /\ TablesOf(y)[k].tokenStart = tables[k].at
    <3>1. TablesOf(y)[k].tokenStart = 0 + tables[k].at
      BY <2>1 DEF IsTable, NamedAlike
    <3>2. 0 + tables[k].at = tables[k].at
      BY <2>2
    <3> QED BY <2>1, <3>1, <3>2 DEF IsTable, NamedAlike
  <2>4. tables[k].alias # NoValue => TablesOf(y)[k].alias = tables[k].alias
    <3>1. CASE k < Len(TablesOf(x)) \/ Closed(x)
      BY <2>1, <3>1, <1>1, <1>2 DEF IsTable, SameAlias
    <3>2. CASE ~ (k < Len(TablesOf(x)) \/ Closed(x))
      <4>1. k = Len(tables)
        BY <3>2, <1>2, <1>3
      <4> QED BY <4>1, <3>2 DEF Last
    <3> QED BY <3>1, <3>2
  <2> QED BY <2>3, <2>4 DEF IsTable
<1> QED BY <1>3, <1>4 DEF FindsTables

LEMMA TableAdded ==
  ASSUME NEW x, NEW c, NEW y, Joins(x, c, y), Closed(x),
         NEW tables \in Seq(Meant), FindsTables(x, tables), NEW t \in Meant,
         Len(TablesOf(c)) = 1,
         TablesOf(c)[1].name = Joined(t.name), t.at = Len(x) + TablesOf(c)[1].tokenStart,
         t.alias # NoValue => TablesOf(c)[1].alias = t.alias
  PROVE  FindsTables(y, Append(tables, t))
<1>1. /\ Len(TablesOf(x)) \in Nat /\ Len(TablesOf(y)) = Len(TablesOf(x)) + Len(TablesOf(c))
      /\ \A k \in 1 .. Len(TablesOf(x)) :
           /\ NamedAlike(0, TablesOf(x)[k], TablesOf(y)[k])
           /\ SameAlias(TablesOf(x)[k], TablesOf(y)[k])
      /\ \A k \in 1 .. Len(TablesOf(c)) :
           /\ NamedAlike(Len(x), TablesOf(c)[k], TablesOf(y)[Len(TablesOf(x)) + k])
           /\ SameAlias(TablesOf(c)[k], TablesOf(y)[Len(TablesOf(x)) + k])
  BY TablesJoined
<1>2. Len(TablesOf(x)) = Len(tables) /\ \A k \in 1 .. Len(tables) : IsTable(tables[k], TablesOf(x)[k])
  BY DEF FindsTables
<1> DEFINE n == Len(tables)
           new == Append(tables, t)
<1>3. /\ n \in Nat /\ Len(new) = n + 1 /\ new[n + 1] = t
      /\ \A k \in 1 .. n : new[k] = tables[k]
  BY AppendPlaces
<1>4. ASSUME NEW k \in 1 .. n PROVE tables[k].at \in Int
  <2>1. tables[k] \in Meant
    BY MeantElement
  <2> QED BY <2>1 DEF Meant
<1> HIDE DEF n, new
<1>5. Len(TablesOf(y)) = n + 1
  BY <1>1, <1>2 DEF n
<1>6. ASSUME NEW k \in 1 .. n PROVE IsTable(new[k], TablesOf(y)[k])
  <2>1. /\ IsTable(tables[k], TablesOf(x)[k]) /\ NamedAlike(0, TablesOf(x)[k], TablesOf(y)[k])
        /\ SameAlias(TablesOf(x)[k], TablesOf(y)[k])
    BY <1>1, <1>2 DEF n
  <2>2. 0 + tables[k].at = tables[k].at
    BY <1>4
  <2>3. IsTable(tables[k], TablesOf(y)[k])
    BY <2>1, <2>2 DEF IsTable, NamedAlike, SameAlias
  <2> QED BY <2>3, <1>3
<1>7. IsTable(t, TablesOf(y)[n + 1])
  <2>1. 1 \in 1 .. Len(TablesOf(c))
    OBVIOUS
  <2>2. /\ NamedAlike(Len(x), TablesOf(c)[1], TablesOf(y)[n + 1])
        /\ SameAlias(TablesOf(c)[1], TablesOf(y)[n + 1])
    BY <2>1, <1>1, <1>2 DEF n
  <2> QED BY <2>2 DEF IsTable, NamedAlike, SameAlias
<1>8. \A k \in 1 .. n + 1 : k \in 1 .. n \/ k = n + 1
  BY <1>3
<1>9. \A k \in 1 .. n + 1 : IsTable(new[k], TablesOf(y)[k])
  BY <1>3, <1>6, <1>7, <1>8
<1> QED BY <1>3, <1>5, <1>9 DEF FindsTables, new

LEMMA PredicatesKept ==
  ASSUME NEW x, NEW c, NEW y, Joins(x, c, y), NEW preds, FindsPredicates(x, preds),
         Len(PredicatesOf(c)) = 0
  PROVE  FindsPredicates(y, preds)
<1>1. /\ Len(PredicatesOf(x)) \in Nat /\ Len(PredicatesOf(y)) = Len(PredicatesOf(x)) + Len(PredicatesOf(c))
      /\ \A k \in 1 .. Len(PredicatesOf(x)) : Seen(PredicatesOf(y)[k]) = Seen(PredicatesOf(x)[k])
  BY PredicatesJoined
<1>2. Len(PredicatesOf(x)) = Len(preds) /\ \A k \in 1 .. Len(preds) : preds[k] = Seen(PredicatesOf(x)[k])
  BY DEF FindsPredicates
<1>3. Len(PredicatesOf(y)) = Len(preds)
  BY <1>1, <1>2
<1> QED BY <1>1, <1>2, <1>3 DEF FindsPredicates

LEMMA PredicateAdded ==
  ASSUME NEW x, NEW c, NEW y, Joins(x, c, y), NEW S, NEW preds \in Seq(S), FindsPredicates(x, preds),
         NEW p, Len(PredicatesOf(c)) = 1, p = Seen(PredicatesOf(c)[1])
  PROVE  FindsPredicates(y, Append(preds, p))
<1>0. Joins(x, c, y)
  OBVIOUS
<1>1. /\ Len(PredicatesOf(x)) \in Nat /\ Len(PredicatesOf(y)) = Len(PredicatesOf(x)) + Len(PredicatesOf(c))
      /\ \A k \in 1 .. Len(PredicatesOf(x)) : Seen(PredicatesOf(y)[k]) = Seen(PredicatesOf(x)[k])
      /\ \A k \in 1 .. Len(PredicatesOf(c)) :
           Seen(PredicatesOf(y)[Len(PredicatesOf(x)) + k]) = Seen(PredicatesOf(c)[k])
  BY ONLY <1>0, PredicatesJoined
<1>2. Len(PredicatesOf(x)) = Len(preds) /\ \A k \in 1 .. Len(preds) : preds[k] = Seen(PredicatesOf(x)[k])
  BY DEF FindsPredicates
<1> DEFINE n == Len(preds)
           new == Append(preds, p)
<1>3. /\ n \in Nat /\ Len(new) = n + 1 /\ new[n + 1] = p
      /\ \A k \in 1 .. n : new[k] = preds[k]
  BY AppendPlaces
<1> HIDE DEF n, new
<1>4. Len(PredicatesOf(y)) = n + 1
  BY <1>1, <1>2 DEF n
<1>5. \A k \in 1 .. n : new[k] = Seen(PredicatesOf(y)[k])
  BY <1>1, <1>2, <1>3 DEF n
<1>6. new[n + 1] = Seen(PredicatesOf(y)[n + 1])
  <2>1. 1 \in 1 .. Len(PredicatesOf(c))
    OBVIOUS
  <2> QED BY <2>1, <1>1, <1>2, <1>3 DEF n
<1>7. \A k \in 1 .. n + 1 : k \in 1 .. n \/ k = n + 1
  BY <1>3
<1>8. \A k \in 1 .. n + 1 : new[k] = Seen(PredicatesOf(y)[k])
  BY <1>5, <1>6, <1>7
<1> QED BY <1>3, <1>4, <1>8 DEF FindsPredicates, new

LEMMA LimitAdded ==
  ASSUME NEW x, NEW c, NEW y, Joins(x, c, y), Len(LimitsOf(x)) = 0
  PROVE  /\ Len(LimitsOf(y)) = Len(LimitsOf(c))
         /\ Len(LimitsOf(c)) = 1 => LimitsOf(y)[1].count = LimitsOf(c)[1].count
<1>1. /\ Len(LimitsOf(c)) \in Nat
      /\ Len(LimitsOf(y)) = Len(LimitsOf(x)) + Len(LimitsOf(c))
      /\ \A k \in 1 .. Len(LimitsOf(c)) :
           Counted(LimitsOf(y)[Len(LimitsOf(x)) + k]) = Counted(LimitsOf(c)[k])
  BY LimitsJoined
<1>2. Len(LimitsOf(y)) = Len(LimitsOf(c))
  BY <1>1
<1>3. ASSUME Len(LimitsOf(c)) = 1 PROVE LimitsOf(y)[1].count = LimitsOf(c)[1].count
  <2>1. 1 \in 1 .. Len(LimitsOf(c)) /\ Len(LimitsOf(x)) + 1 = 1
    BY <1>3
  <2>2. Counted(LimitsOf(y)[1]) = Counted(LimitsOf(c)[1])
    BY <2>1, <1>1
  <2> QED BY <2>2 DEF Counted
<1> QED BY <1>2, <1>3

-----------------------------------------------------------------------------
(* A text, once plain, is understood; what was written last closes it, or  *)
(* is a table without an alias; until it is done it has no LIMIT.          *)
Understood(x, m) ==
  FindsTables(x, m.tables) /\ FindsPredicates(x, m.preds) /\ Parse(x).limit = m.limit

Unfinished(x, m) == Len(LimitsOf(x)) = 0 /\ m.limit = NoValue

PlainSoFar(x, m, p) ==
  /\ AllClosed(x)
  /\ Closed(x) \/ (p = "tables" /\ Last(m.tables).alias = NoValue)
  /\ p # "done" => Unfinished(x, m)
  /\ Understood(x, m)

PlainText(x, m, p) ==
  /\ m.preds \in Seq(Range(m.preds))
  /\ p = "select" => Closed(x)
  /\ m.plain => PlainSoFar(x, m, p)

(* The inductive invariant of plain statements.                            *)
PlainInv == PlainText(text, meant, part)

LEMMA LimitOfText ==
  ASSUME NEW x \in Seq(Tokens)
  PROVE  /\ Len(LimitsOf(x)) = 0 => Parse(x).limit = NoValue
         /\ Len(LimitsOf(x)) = 1 => Parse(x).limit = LimitsOf(x)[1].count
<1>1. LimitsOf(x) = <<>> <=> Len(LimitsOf(x)) = 0
  <2>1. StopsAhead(Len(x), [i \in DOMAIN x |-> LimitAt(x, i)])
    BY LimitsStopAhead
  <2> QED BY <2>1, FindIterEmpty DEF LimitsOf
<1> QED BY <1>1 DEF Parse

LEMMA SeqOfItsRange ==
  ASSUME NEW S, NEW s \in Seq(S)
  PROVE  s \in Seq(Range(s))
<1>1. \A i \in 1 .. Len(s) : s[i] \in Range(s)
  BY DEF Range
<1> QED BY <1>1

LEMMA AppendOfItsRange ==
  ASSUME NEW s, s \in Seq(Range(s)), NEW t
  PROVE  Append(s, t) \in Seq(Range(Append(s, t)))
<1>1. s \in Seq(Range(s) \union {t}) /\ t \in Range(s) \union {t}
  OBVIOUS
<1>2. Append(s, t) \in Seq(Range(s) \union {t})
  BY ONLY <1>1
<1> QED BY <1>2, SeqOfItsRange

LEMMA InitPlain == Init => PlainInv
<1>1. SUFFICES ASSUME Init PROVE PlainInv
  OBVIOUS
<1>2. "select" \in Heads /\ "uid" \in Heads /\ "select" \notin FromOrJoin /\ "uid" \notin FromOrJoin /\ "uid" # "as"
  BY Vocabulary DEF FromOrJoin
<1>3. /\ text \in Seq(Tokens) /\ Len(text) = 2 /\ DOMAIN text = 1 .. 2
      /\ text[1] = "select" /\ text[2] = "uid"
  BY <1>1, <1>2 DEF Init, Tokens
<1>4. \A i \in DOMAIN text : text[i] \notin Literals /\ text[i] \notin FromOrJoin /\ text[i] \notin Tails
  BY <1>2, <1>3, NoLiterals, Signed
<1>5. /\ Len(PredicatesOf(text)) = 0 /\ Len(LimitsOf(text)) = 0 /\ AllClosed(text)
  BY <1>3, <1>4, NoPredicates
<1>6. Len(TablesOf(text)) = 0
  BY <1>3, <1>4, NoTables
<1>7. Closed(text)
  <2>1. ~ IsToken(text, Len(text), Tails \union {"as"})
    BY <1>2, <1>3, <1>4 DEF IsToken
  <2>2. ~ Refers(text, Len(text) - 1)
    BY <1>4 DEF Refers, IsToken
  <2> QED BY <2>1, <2>2 DEF Closed
<1>8. meant.tables = <<>> /\ meant.preds = <<>> /\ meant.limit = NoValue /\ part = "select"
  BY <1>1 DEF Init
<1>9. Len(meant.tables) = 0 /\ Len(meant.preds) = 0 /\ meant.preds \in Seq(Range(meant.preds))
  BY <1>8
<1>10. Understood(text, meant)
  BY <1>3, <1>5, <1>6, <1>8, <1>9, LimitOfText DEF Understood, FindsTables, FindsPredicates
<1> QED BY <1>5, <1>7, <1>8, <1>9, <1>10 DEF PlainInv, PlainText, PlainSoFar, Unfinished

-----------------------------------------------------------------------------
(* One more table, on a text no word of which waits for more.              *)
Written(name, alias, at) ==
  [name |-> name, alias |-> IF alias = <<>> THEN NoValue ELSE Last(alias), at |-> at]

LEMMA ReferPlain ==
  ASSUME NEW x, Grown(x), AllClosed(x), Closed(x),
         NEW c, NEW lead, NEW name, NEW alias, NEW rest, ReferParts(c, lead, name, alias, rest),
         NEW tables \in Seq(Meant), FindsTables(x, tables),
         NEW preds, FindsPredicates(x, preds), Len(LimitsOf(x)) = 0,
         NEW at \in Int, at = Len(x) + Len(lead) + 1, Written(name, alias, at) \in Meant
  PROVE  /\ AllClosed(x \o c) /\ Len(LimitsOf(x \o c)) = 0
         /\ Closed(x \o c) \/ Written(name, alias, at).alias = NoValue
         /\ FindsTables(x \o c, Append(tables, Written(name, alias, at)))
         /\ FindsPredicates(x \o c, preds)
<1> DEFINE y == x \o c
           t == Written(name, alias, at)
<1>1. /\ Led(c) /\ Len(PredicatesOf(c)) = 0 /\ Len(LimitsOf(c)) = 0 /\ Len(TablesOf(c)) = 1
      /\ TablesOf(c)[1].name = Joined(name) /\ TablesOf(c)[1].tokenStart = Len(lead) + 1
      /\ alias # <<>> => TablesOf(c)[1].alias = Last(alias)
  BY ReferChunk
<1>2. Joins(x, c, y)
  BY <1>1, LedJoins
<1>3. /\ t.name = name /\ t.at = at
      /\ alias = <<>> => t.alias = NoValue
      /\ alias # <<>> => t.alias = Last(alias)
  BY DEF Written
<1>4. t \in Meant
  OBVIOUS
<1>5. t.at = Len(x) + TablesOf(c)[1].tokenStart
  <2>1. Len(x) \in Nat /\ Len(lead) \in Nat
    BY <1>2, JoinsFacts, ReferPlaces
  <2> QED BY <2>1, <1>1, <1>3
<1>6. AllClosed(y)
  BY <1>1, <1>2, AllClosedJoined
<1>7. Closed(y) \/ t.alias = NoValue
  <2>1. CASE alias = <<>>
    BY <2>1, <1>3
  <2>2. CASE alias # <<>>
    <3>1. Closed(c)
      BY <2>2, ReferCloses
    <3> QED BY <3>1, <1>1, <1>2, ClosedJoined
  <2> QED BY <2>1, <2>2
<1> HIDE DEF y, t
<1>8. FindsTables(y, Append(tables, t))
  <2>1. TablesOf(c)[1].name = Joined(t.name) /\ (t.alias # NoValue => TablesOf(c)[1].alias = t.alias)
    BY <1>1, <1>3
  <2>2. Closed(x) /\ tables \in Seq(Meant) /\ FindsTables(x, tables)
    OBVIOUS
  <2> QED BY ONLY <2>1, <2>2, <1>1, <1>2, <1>4, <1>5, TableAdded
<1>9. FindsPredicates(y, preds)
  BY <1>1, <1>2, PredicatesKept
<1>10. Len(LimitsOf(y)) = 0
  BY <1>1, <1>2, LimitAdded
<1> QED BY <1>6, <1>7, <1>8, <1>9, <1>10 DEF y, t

(* What the actions make of what was meant.                                *)
LEMMA OtherMeaning ==
  ASSUME NEW m, NEW r, NEW plain, NEW n,
         n = [m EXCEPT !.tables = Append(@, r), !.plain = @ /\ plain],
         DOMAIN m = {"tables", "preds", "limit", "plain"}
  PROVE  /\ n.tables = Append(m.tables, r) /\ n.preds = m.preds /\ n.limit = m.limit
         /\ n.plain => m.plain
         /\ n.plain => plain
<1>1. n.tables = Append(m.tables, r) /\ n.preds = m.preds /\ n.limit = m.limit
  OBVIOUS
<1>2. n.plain = (m.plain /\ plain)
  OBVIOUS
<1> QED BY <1>1, <1>2, Zenon

Associates(p, q, r) == (p \o q) \o r = p \o (q \o r)

LEMMA TokensAssociative ==
  ASSUME NEW p \in Seq(Tokens), NEW q \in Seq(Tokens), NEW r \in Seq(Tokens)
  PROVE  Associates(p, q, r)
BY ConcatAssociative DEF Associates

LEMMA TokensAfterTokens ==
  ASSUME NEW p \in Seq(Tokens), NEW q \in Seq(Tokens)
  PROVE  p \o q \in Seq(Tokens)
OBVIOUS

(* What is written in four parts comes after the text in one piece.        *)
FourParts(a, b, d, e) == ((a \o b) \o d) \o e
ComeAfter(x, a, b, d, e) == (((x \o a) \o b) \o d) \o e = x \o FourParts(a, b, d, e)

LEMMA PartsAfter ==
  ASSUME NEW x \in Seq(Tokens), NEW a \in Seq(Tokens), NEW b \in Seq(Tokens),
         NEW d \in Seq(Tokens), NEW e \in Seq(Tokens)
  PROVE  ComeAfter(x, a, b, d, e)
<1>1. a \o b \in Seq(Tokens)
  BY TokensAfterTokens
<1>2. (a \o b) \o d \in Seq(Tokens)
  BY <1>1, TokensAfterTokens
<1>3. Associates(x, a, b) /\ Associates(x, a \o b, d) /\ Associates(x, (a \o b) \o d, e)
  BY <1>1, <1>2, TokensAssociative
<1> QED BY <1>3, Zenon DEF Associates, ComeAfter, FourParts

LEMMA ReferKeepsPlain ==
  ASSUME StatementInv, PlainInv, part # "done",
         NEW lead, NEW name \in Names, NEW alias \in Aliases, NEW rest, NEW plain,
         lead \in Seq(Tokens), rest \in Seq(Tokens),
         meant.plain /\ plain => Closed(text) /\ LeadsToTable(lead) /\ TrailsTable(rest),
         Refer(lead, name, alias, rest, plain)
  PROVE  PlainInv'
<1> DEFINE c == ((lead \o name) \o alias) \o rest
           at == Len(text) + Len(lead) + 1
           t == Written(name, alias, at)
<1>1. /\ text' = (((text \o lead) \o name) \o alias) \o rest
      /\ meant' = [meant EXCEPT !.tables = Append(@, t), !.plain = @ /\ plain]
      /\ part' = "tables"
  BY DEF Refer, Written
<1>2. text \in Seq(Tokens) /\ Grown(text) /\ meant.tables \in Seq(Meant)
      /\ DOMAIN meant = {"tables", "preds", "limit", "plain"}
  BY DEF StatementInv, Grown, Regular, WellFormed
<1>3. name \in Seq(Tokens) /\ alias \in Seq(Tokens)
  BY StatementAssumption, WordPlaces, AliasPlaces
<1>4. text' = text \o c
  <2>1. ComeAfter(text, lead, name, alias, rest)
    BY <1>2, <1>3, PartsAfter
  <2> QED BY ONLY <1>1, <2>1 DEF c, ComeAfter, FourParts
<1>5. PartsOf(c, lead, name, alias, rest)
  BY <1>3, PartsPlaced
<1>6. t \in Meant /\ t.alias = (IF alias = <<>> THEN NoValue ELSE Last(alias)) /\ at \in Int
  <2>1. Len(text) \in Int /\ Len(lead) \in Int
    BY <1>2
  <2>2. (IF alias = <<>> THEN NoValue ELSE Last(alias)) \in {NoValue, "a", "b"}
    BY AliasesFollow DEF Aliases
  <2> QED BY <2>1, <2>2 DEF Meant, Written
<1>7. at = Len(text) + Len(lead) + 1
  OBVIOUS
<1> HIDE DEF c, at
<1>8. /\ meant'.tables = Append(meant.tables, t) /\ meant'.preds = meant.preds /\ meant'.limit = meant.limit
      /\ meant'.plain => meant.plain
      /\ meant'.plain => plain
  <2> HIDE DEF t
  <2> QED BY <1>1, <1>2, OtherMeaning
<1>9. meant'.preds \in Seq(Range(meant'.preds))
  BY <1>8 DEF PlainInv, PlainText
<1>10. ASSUME meant'.plain PROVE PlainSoFar(text', meant', part')
  <2>1. /\ PlainSoFar(text, meant, part) /\ Closed(text)
        /\ LeadsToTable(lead) /\ TrailsTable(rest)
    BY <1>8, <1>10 DEF PlainInv, PlainText
  <2>2. ReferParts(c, lead, name, alias, rest)
    BY <1>5, <2>1 DEF ReferParts
  <2>3. /\ AllClosed(text) /\ Len(LimitsOf(text)) = 0 /\ meant.limit = NoValue
        /\ FindsTables(text, meant.tables) /\ FindsPredicates(text, meant.preds)
    BY <2>1 DEF PlainSoFar, Unfinished, Understood
  <2>4. /\ AllClosed(text \o c) /\ Len(LimitsOf(text \o c)) = 0
        /\ Closed(text \o c) \/ t.alias = NoValue
        /\ FindsTables(text \o c, Append(meant.tables, t))
        /\ FindsPredicates(text \o c, meant.preds)
    BY ONLY <2>1, <2>2, <2>3, <1>2, <1>6, <1>7, ReferPlain
  <2> HIDE DEF t
  <2>5. Last(meant'.tables) = t
    BY <1>2, <1>8, AppendPlaces
  <2>6. text \o c \in Seq(Tokens)
    BY <1>2, <1>5, ConcatPlaces DEF PartsOf
  <2>7. Parse(text \o c).limit = NoValue
    BY <2>4, <2>6, LimitOfText
  <2> QED BY <1>1, <1>4, <1>8, <2>3, <2>4, <2>5, <2>7 DEF PlainSoFar, Unfinished, Understood
<1> QED BY <1>1, <1>9, <1>10 DEF PlainInv, PlainText

LEMMA FromKeepsPlain == StatementInv /\ PlainInv /\ From => PlainInv'
<1>1. SUFFICES ASSUME StatementInv, PlainInv, part = "select",
                      NEW name \in Names, NEW alias \in {<<>>, <<"a">>, <<"as", "a">>},
                      Refer(<<"from">>, name, alias, <<>>, TRUE)
               PROVE  PlainInv'
  BY DEF From
<1> DEFINE lead == <<"from">>
<1>2. Closed(text) /\ part # "done"
  BY <1>1 DEF PlainInv, PlainText
<1>3. LeadsToTable(lead) /\ TrailsTable(<<>>) /\ lead \in Seq(Tokens) /\ <<>> \in Seq(Tokens)
  BY WordLeads, NothingTrails DEF FromOrJoin, LeadsToTable
<1>4. alias \in Aliases
  BY DEF Aliases
<1>5. Refer(lead, name, alias, <<>>, TRUE)
  BY <1>1
<1> HIDE DEF lead
<1> QED BY <1>1, <1>2, <1>3, <1>4, <1>5, ReferKeepsPlain

LEMMA FromSubqueryKeepsPlain == StatementInv /\ PlainInv /\ FromSubquery => PlainInv'
<1> DEFINE lead == <<"from", "(", "select", "uid", "from">>
           end == <<")", "a">>
<1>1. SUFFICES ASSUME StatementInv, PlainInv, part = "select",
                      NEW name \in Names, NEW inner \in {<<>>, <<"limit", "1">>},
                      Refer(lead, name, <<"a">>, inner \o end, inner = <<>>)
               PROVE  PlainInv'
  BY DEF FromSubquery
<1>2. Closed(text) /\ part # "done"
  BY <1>1 DEF PlainInv, PlainText
<1>3. LeadsToTable(lead) /\ TrailsTable(end)
  BY SubqueryLeads, SubqueryTrails
<1>4. lead \in Seq(Tokens) /\ end \in Seq(Tokens)
  BY <1>3 DEF LeadsToTable, TrailsTable
<1>5. inner \in Seq(Tokens)
  <2>1. "limit" \in Tokens /\ "1" \in Tokens
    BY Vocabulary DEF Tokens
  <2>2. <<>> \in Seq(Tokens) /\ <<"limit", "1">> \in Seq(Tokens)
    BY <2>1
  <2> QED BY <2>2, Zenon
<1>6. <<"a">> \in Aliases
  BY DEF Aliases
<1> HIDE DEF lead, end
<1>7. inner \o end \in Seq(Tokens) /\ (inner = <<>> => TrailsTable(inner \o end))
  <2>1. inner = <<>> => inner \o end = end
    BY <1>4, ConcatEmptySeq
  <2>2. inner \o end \in Seq(Tokens)
    BY <1>4, <1>5
  <2> QED BY <1>3, <2>1, <2>2
<1> QED BY <1>1, <1>2, <1>3, <1>4, <1>6, <1>7, ReferKeepsPlain

LEMMA JoinKeepsPlain == StatementInv /\ PlainInv /\ Join => PlainInv'
<1> DEFINE lead == <<"join">>
           rest == <<"on", "a", ".", "uid", "=", "b", ".", "uid">>
<1>1. SUFFICES ASSUME StatementInv, PlainInv, part = "tables",
                      NEW name \in Names, NEW alias \in {<<>>, <<"b">>},
                      Refer(lead, name, alias, rest, ~ Unaliased)
               PROVE  PlainInv'
  BY DEF Join
<1>2. part # "done" /\ (meant.plain /\ ~ Unaliased => Closed(text))
  BY <1>1 DEF PlainInv, PlainText, PlainSoFar, Unaliased
<1>3. LeadsToTable(lead) /\ TrailsTable(rest)
  BY WordLeads, OnTrails DEF FromOrJoin
<1>4. lead \in Seq(Tokens) /\ rest \in Seq(Tokens)
  BY <1>3 DEF LeadsToTable, TrailsTable
<1>5. alias \in Aliases
  BY DEF Aliases
<1> HIDE DEF lead, rest
<1> QED BY <1>1, <1>2, <1>3, <1>4, <1>5, ReferKeepsPlain

LEMMA CommaKeepsPlain == StatementInv /\ PlainInv /\ Comma => PlainInv'
<1>1. SUFFICES ASSUME StatementInv, PlainInv, part = "tables",
                      NEW name \in Names, NEW alias \in {<<>>, <<"b">>},
                      Refer(<<",">>, name, alias, <<>>, FALSE)
               PROVE  PlainInv'
  BY Zenon DEF Comma
<1> DEFINE lead == <<",">>
<1>2. Refer(lead, name, alias, <<>>, FALSE)
  BY <1>1, Zenon
<1>3. lead \in Seq(Tokens)
  BY LeadsOpen, Zenon DEF Opens, Regular, WellFormed
<1> HIDE DEF lead
<1>4. part # "done"
  BY <1>1
<1>5. alias \in Aliases
  BY DEF Aliases
<1>6. <<>> \in Seq(Tokens)
  OBVIOUS
<1> QED BY <1>1, <1>2, <1>3, <1>4, <1>5, <1>6, ReferKeepsPlain

(* A literal with no clause in it.                                         *)
PlainValue(lit) == \A i \in 1 .. Len(lit) : lit[i] \notin FromOrJoin /\ lit[i] # "limit"

LEMMA KeyIsPlain ==
  ASSUME NEW l \in KeyLiterals
  PROVE  l \in Seq(Tokens) /\ (PlainValue(l) => PlainLiteral(l))
<1>1. PICK n \in DOMAIN Numeral : l = <<n>> \/ \E q \in Quotes : l = <<q, n, q>>
  BY StatementAssumption
<1>2. n \in Tokens /\ n \notin FromOrJoin /\ n # "=" /\ n \notin Quotes
  BY Signed DEF Tokens
<1>3. CASE l = <<n>>
  <2>1. l \in Seq(Tokens) /\ Len(l) = 1 /\ l[1] = n
    BY <1>2, <1>3, OneTokenText
  <2> QED BY <2>1, <1>2 DEF PlainLiteral, PlainValue
<1>4. ASSUME NEW q \in Quotes, l = <<q, n, q>>
      PROVE  l \in Seq(Tokens) /\ (PlainValue(l) => PlainLiteral(l))
  <2>1. q \in Tokens
    BY DEF Tokens
  <2>2. l \in Seq(Tokens) /\ Len(l) = 3 /\ l[1] = q /\ l[2] = n /\ l[3] = q
    BY <1>2, <1>4, <2>1
  <2>3. Quoted(l)
    <3>1. Len(l) >= 2 /\ l[1] \in Quotes /\ l[Len(l)] = l[1]
      BY <2>2
    <3>2. Len(l) - 1 = 2 /\ \A j \in 2 .. 2 : j = 2
      BY <2>2
    <3>3. \A j \in 2 .. Len(l) - 1 : l[j] \notin Quotes
      BY <2>2, <3>2, <1>2
    <3> QED BY <3>1, <3>2, <3>3, <2>2, <1>2 DEF Quoted
  <2> QED BY <2>2, <2>3 DEF PlainLiteral, PlainValue
<1> QED BY <1>1, <1>3, <1>4

LEMMA RemarkIsPlain ==
  ASSUME NEW r \in Remarks, NEW l, l = (<<"'">> \o r) \o <<"'">>
  PROVE  l \in Seq(Tokens) /\ (PlainValue(l) => PlainLiteral(l))
<1> DEFINE q == <<"'">>
           y == q \o r
<1>1. "'" \in Quotes /\ "'" \in Tokens /\ "'" # "="
  BY Signed DEF Quotes, Tokens
<1>2. q \in Seq(Tokens) /\ Len(q) = 1 /\ q[1] = "'"
  BY <1>1, OneTokenText
<1>3. /\ r \in Seq(Tokens) /\ Len(r) \in Nat
      /\ \A i \in 1 .. Len(r) : r[i] \notin Quotes
      /\ Len(r) > 0 => r[Len(r)] # "="
  <2>1. /\ WellFormed(r) /\ ~ IsToken(r, Len(r), {"="})
        /\ \A i \in DOMAIN r : r[i] \notin Quotes
    BY StatementAssumption
  <2>2. r \in Seq(Tokens)
    BY <2>1 DEF WellFormed
  <2>3. Len(r) \in Nat /\ DOMAIN r = 1 .. Len(r)
    BY <2>2, SeqOfTokens
  <2>4. Len(r) > 0 => Len(r) \in DOMAIN r
    BY <2>3
  <2> QED BY <2>1, <2>2, <2>3, <2>4 DEF IsToken
<1>4. l = y \o q
  OBVIOUS
<1> HIDE DEF q
<1>5. /\ y \in Seq(Tokens) /\ Len(y) = 1 + Len(r) /\ y[1] = "'"
      /\ \A i \in 1 .. Len(r) : y[1 + i] = r[i]
  <2>1. /\ q \o r \in Seq(Tokens)
        /\ Len(q \o r) = Len(q) + Len(r)
        /\ \A i \in 1 .. Len(q) : (q \o r)[i] = q[i]
        /\ \A i \in 1 .. Len(r) : (q \o r)[Len(q) + i] = r[i]
    <3>1. q \in Seq(Tokens) /\ r \in Seq(Tokens)
      BY <1>2, <1>3
    <3> QED BY ONLY <3>1, ConcatPlaces
  <2>2. 1 \in 1 .. Len(q)
    BY <1>2
  <2> QED BY <2>1, <2>2, <1>2
<1> HIDE DEF y
<1>6. /\ l \in Seq(Tokens) /\ Len(l) = Len(r) + 2 /\ l[Len(r) + 2] = "'"
      /\ \A i \in 1 .. Len(r) + 1 : l[i] = y[i]
  <2>1. /\ y \o q \in Seq(Tokens)
        /\ Len(y \o q) = Len(y) + Len(q)
        /\ \A i \in 1 .. Len(y) : (y \o q)[i] = y[i]
        /\ \A i \in 1 .. Len(q) : (y \o q)[Len(y) + i] = q[i]
    <3>1. y \in Seq(Tokens) /\ q \in Seq(Tokens)
      BY <1>2, <1>5
    <3> QED BY ONLY <3>1, ConcatPlaces
  <2>2. Len(y) + 1 = Len(r) + 2 /\ 1 + Len(r) = Len(r) + 1 /\ 1 \in 1 .. Len(q)
    BY <1>2, <1>3, <1>5
  <2> QED BY <2>1, <2>2, <1>2, <1>4, <1>5
<1>7. l[1] = "'" /\ l[Len(l)] = "'" /\ Len(l) >= 2
  BY <1>3, <1>5, <1>6
<1>8. \A j \in 2 .. Len(l) - 1 : j - 1 \in 1 .. Len(r) /\ 1 + (j - 1) = j /\ j \in 1 .. Len(r) + 1
  BY <1>3, <1>6
<1>9. \A j \in 2 .. Len(l) - 1 : l[j] = r[j - 1]
  BY <1>5, <1>6, <1>8
<1>10. l[Len(l) - 1] # "="
  <2>1. CASE Len(r) = 0
    <3>1. Len(l) - 1 = 1
      BY <2>1, <1>6
    <3> QED BY <3>1, <1>1, <1>7
  <2>2. CASE Len(r) # 0
    <3>1. Len(l) - 1 \in 2 .. Len(l) - 1 /\ (Len(l) - 1) - 1 = Len(r) /\ Len(r) > 0
      BY <2>2, <1>3, <1>6
    <3>2. l[Len(l) - 1] = r[Len(r)]
      BY <3>1, <1>9
    <3> QED BY <3>1, <3>2, <1>3
  <2> QED BY <2>1, <2>2
<1>11. Quoted(l)
  BY <1>1, <1>3, <1>7, <1>8, <1>9, <1>10 DEF Quoted
<1> QED BY <1>6, <1>11 DEF PlainLiteral, PlainValue

LEMMA EqualityIsPlain ==
  ASSUME NEW e \in Equalities
  PROVE  /\ e[1] \in {"uid", "note"} /\ e[2] \in Seq(Tokens)
         /\ Range(e[2]) \intersect {"from", "join", "limit"} = {} => PlainLiteral(e[2])
<1>1. e[1] \in {"uid", "note"} /\ e[2] \in Seq(Tokens) /\ (PlainValue(e[2]) => PlainLiteral(e[2]))
  <2>1. CASE e \in {"uid"} \X KeyLiterals
    <3>1. e[1] = "uid" /\ e[2] \in KeyLiterals
      BY <2>1
    <3> QED BY <3>1, KeyIsPlain
  <2>2. CASE e \in {"note"} \X {<<"'">> \o r \o <<"'">> : r \in Remarks}
    <3>1. e[1] = "note" /\ \E r \in Remarks : e[2] = (<<"'">> \o r) \o <<"'">>
      BY <2>2
    <3> QED BY <3>1, RemarkIsPlain
  <2> QED BY <2>1, <2>2 DEF Equalities
<1>2. ASSUME Range(e[2]) \intersect {"from", "join", "limit"} = {}
      PROVE  PlainValue(e[2])
  <2>1. \A i \in 1 .. Len(e[2]) : e[2][i] \in Range(e[2])
    BY <1>1, SeqOfTokens DEF Range
  <2> QED BY <1>2, <2>1 DEF PlainValue, FromOrJoin
<1> QED BY <1>1, <1>2

(* The qualifier of a column, with its dot.                                *)
DottedText(q) == IF q = <<>> THEN <<>> ELSE q \o <<".">>

LEMMA DottedTextPlaces ==
  ASSUME NEW q, q = <<>> \/ (q \in Words /\ q[1] \notin FromOrJoin)
  PROVE  DottedText(q) \in Seq(Tokens) /\ Dotted(q, DottedText(q))
<1>1. CASE q = <<>>
  BY <1>1 DEF Dotted, DottedText
<1>2. CASE q # <<>>
  <2>1. q \in Seq(Tokens) /\ Len(q) \in Nat
    BY <1>2, WordPlaces
  <2>2. "." \in Tokens
    BY DEF Tokens, Signs
  <2>3. <<".">> \in Seq(Tokens) /\ Len(<<".">>) = 1 /\ <<".">>[1] = "."
    BY <2>2
  <2>4. /\ q \o <<".">> \in Seq(Tokens) /\ Len(q \o <<".">>) = Len(q) + 1
        /\ (q \o <<".">>)[Len(q) + 1] = "."
        /\ \A i \in 1 .. Len(q) : (q \o <<".">>)[i] = q[i]
    BY <2>1, <2>3
  <2>5. DottedText(q) = q \o <<".">>
    BY <1>2 DEF DottedText
  <2> QED BY <1>2, <2>4, <2>5 DEF Dotted
<1> QED BY <1>1, <1>2

(* The equality that is meant.                                             *)
Equated(q, column, lit) ==
  [qualifier |-> IF q = <<>> THEN NoValue ELSE Joined(q),
   column    |-> column,
   value     |-> NormalizeValue(lit, 1, Len(lit) + 1)]

LEMMA WherePlain ==
  ASSUME NEW x, Grown(x), AllClosed(x),
         NEW c, NEW first, NEW q, NEW dots, NEW pair, NEW column, NEW lit,
         WhereParts(c, first, q, dots, pair, column, lit),
         NEW tables \in Seq(Meant), FindsTables(x, tables), Closed(x) \/ Last(tables).alias = NoValue,
         NEW S, NEW preds \in Seq(S), FindsPredicates(x, preds), Len(LimitsOf(x)) = 0
  PROVE  /\ AllClosed(x \o c) /\ Closed(x \o c) /\ Len(LimitsOf(x \o c)) = 0
         /\ FindsTables(x \o c, tables)
         /\ FindsPredicates(x \o c, Append(preds, Equated(q, column, lit)))
<1> DEFINE y == x \o c
           p == Equated(q, column, lit)
<1>1. Led(c) /\ Closed(c) /\ Len(TablesOf(c)) = 0 /\ Len(LimitsOf(c)) = 0
  BY WhereLed, WhereNamesNone
<1>2. Joins(x, c, y)
  BY <1>1, LedJoins
<1>3. Len(PredicatesOf(c)) = 1 /\ p = Seen(PredicatesOf(c)[1])
  BY WhereChunk DEF Equated, Seen
<1>4. ~ IsToken(c, 1, FromOrJoin)
  <2>1. c[1] \in {"where", "and"}
    BY WherePlaces
  <2> QED BY <2>1, Vocabulary DEF IsToken
<1> HIDE DEF y, p
<1>5. AllClosed(y) /\ Closed(y)
  BY <1>1, <1>2, AllClosedJoined, ClosedJoined
<1>6. FindsTables(y, tables)
  BY <1>1, <1>2, <1>4, TablesKept
<1>7. FindsPredicates(y, Append(preds, p))
  <2>1. preds \in Seq(S) /\ FindsPredicates(x, preds)
    OBVIOUS
  <2> QED BY ONLY <2>1, <1>2, <1>3, PredicateAdded
<1>8. Len(LimitsOf(y)) = 0
  BY <1>1, <1>2, LimitAdded
<1> QED BY <1>5, <1>6, <1>7, <1>8 DEF y, p

LEMMA LimitPlain ==
  ASSUME NEW x, Grown(x), AllClosed(x), NEW c, NEW b, LimitParts(c, b),
         NEW tables \in Seq(Meant), FindsTables(x, tables), Closed(x) \/ Last(tables).alias = NoValue,
         NEW preds, FindsPredicates(x, preds), Len(LimitsOf(x)) = 0
  PROVE  /\ AllClosed(x \o c) /\ Closed(x \o c)
         /\ FindsTables(x \o c, tables) /\ FindsPredicates(x \o c, preds)
         /\ Parse(x \o c).limit = Numeral[Last(b)]
<1> DEFINE y == x \o c
<1>1. /\ Led(c) /\ Closed(c)
      /\ Len(TablesOf(c)) = 0 /\ Len(PredicatesOf(c)) = 0 /\ Len(LimitsOf(c)) = 1
      /\ LimitsOf(c)[1].count = Numeral[Last(b)]
  BY LimitChunk
<1>2. Joins(x, c, y)
  BY <1>1, LedJoins
<1>3. ~ IsToken(c, 1, FromOrJoin)
  BY Vocabulary DEF IsToken, LimitParts
<1> HIDE DEF y
<1>4. AllClosed(y) /\ Closed(y)
  BY <1>1, <1>2, AllClosedJoined, ClosedJoined
<1>5. FindsTables(y, tables)
  BY <1>1, <1>2, <1>3, TablesKept
<1>6. FindsPredicates(y, preds)
  BY <1>1, <1>2, PredicatesKept
<1>7. Len(LimitsOf(y)) = 1 /\ LimitsOf(y)[1].count = Numeral[Last(b)]
  BY <1>1, <1>2, LimitAdded
<1>8. Parse(y).limit = Numeral[Last(b)]
  BY <1>2, <1>7, JoinsFacts, LimitOfText
<1> QED BY <1>4, <1>5, <1>6, <1>8 DEF y

LEMMA OtherPredicates ==
  ASSUME NEW m, NEW r, NEW plain, NEW n,
         n = [m EXCEPT !.preds = Append(@, r), !.plain = @ /\ plain],
         DOMAIN m = {"tables", "preds", "limit", "plain"}
  PROVE  /\ n.preds = Append(m.preds, r) /\ n.tables = m.tables /\ n.limit = m.limit
         /\ n.plain => m.plain
         /\ n.plain => plain
<1>1. n.preds = Append(m.preds, r) /\ n.tables = m.tables /\ n.limit = m.limit
  OBVIOUS
<1>2. n.plain = (m.plain /\ plain)
  OBVIOUS
<1> QED BY <1>1, <1>2, Zenon

LEMMA WhereKeepsPlain == StatementInv /\ PlainInv /\ Where => PlainInv'
<1> DEFINE first == IF part = "where" THEN <<"and">> ELSE <<"where">>
<1>1. SUFFICES ASSUME StatementInv, PlainInv, part \in {"tables", "where"},
                      NEW q \in Qualifiers, NEW e \in Equalities,
                      text' = text \o first \o DottedText(q) \o <<e[1], "=">> \o e[2],
                      meant' = [meant EXCEPT
                        !.preds = Append(@, Equated(q, e[1], e[2])),
                        !.plain = @ /\ Range(e[2]) \intersect {"from", "join", "limit"} = {}],
                      part' = "where"
               PROVE  PlainInv'
  BY DEF Where, DottedText, Equated
<1> DEFINE pair == <<e[1], "=">>
           dots == DottedText(q)
           c == FourParts(first, dots, pair, e[2])
           p == Equated(q, e[1], e[2])
           bare == Range(e[2]) \intersect {"from", "join", "limit"} = {}
<1>2. text \in Seq(Tokens) /\ Grown(text) /\ meant.tables \in Seq(Meant)
      /\ DOMAIN meant = {"tables", "preds", "limit", "plain"}
  BY <1>1 DEF StatementInv, Grown, Regular, WellFormed
<1>3. first \in Seq(Tokens) /\ Len(first) = 1 /\ first[1] \in {"where", "and"}
  <2>1. "where" \in Tokens /\ "and" \in Tokens
    BY Vocabulary DEF Tokens
  <2> QED BY <2>1, OneTokenText
<1>4. dots \in Seq(Tokens) /\ Dotted(q, dots)
  <2>1. q = <<>> \/ (q \in Words /\ q[1] \notin FromOrJoin)
    BY <1>1, <1>2, QualifierIsAWord
  <2> QED BY <2>1, DottedTextPlaces
<1>5. e[1] \in {"uid", "note"} /\ e[2] \in Seq(Tokens) /\ (bare => PlainLiteral(e[2]))
  BY <1>1, EqualityIsPlain
<1>6. pair \in Seq(Tokens) /\ Len(pair) = 2 /\ pair[1] = e[1] /\ pair[2] = "="
  <2>1. e[1] \in Tokens /\ "=" \in Tokens
    BY <1>5, Vocabulary DEF Tokens, Signs
  <2> QED BY <2>1, TwoTokens
<1>7. text' = (((text \o first) \o dots) \o pair) \o e[2] /\ meant' = [meant EXCEPT !.preds = Append(@, p), !.plain = @ /\ bare]
  BY <1>1
<1> HIDE DEF first, dots, pair, p, bare
<1>8. text' = text \o c
  <2>1. ComeAfter(text, first, dots, pair, e[2])
    BY <1>2, <1>3, <1>4, <1>5, <1>6, PartsAfter
  <2> QED BY ONLY <1>7, <2>1 DEF c, ComeAfter
<1>9. PartsOf(c, first, dots, pair, e[2])
  BY <1>3, <1>4, <1>5, <1>6, PartsPlaced DEF FourParts
<1> HIDE DEF c
<1>10. /\ meant'.preds = Append(meant.preds, p) /\ meant'.tables = meant.tables /\ meant'.limit = meant.limit
       /\ meant'.plain => meant.plain
       /\ meant'.plain => bare
  BY <1>2, <1>7, OtherPredicates
<1>11. meant.preds \in Seq(Range(meant.preds)) /\ meant'.preds \in Seq(Range(meant'.preds))
  BY <1>1, <1>10, AppendOfItsRange DEF PlainInv, PlainText
<1>12. ASSUME meant'.plain PROVE PlainSoFar(text', meant', part')
  <2>1. PlainSoFar(text, meant, part)
    BY <1>1, <1>10, <1>12 DEF PlainInv, PlainText
  <2>2. WhereParts(c, first, q, dots, pair, e[1], e[2])
    BY <1>3, <1>4, <1>5, <1>6, <1>9, <1>10, <1>12 DEF WhereParts
  <2>3. /\ AllClosed(text) /\ Len(LimitsOf(text)) = 0 /\ meant.limit = NoValue
        /\ Closed(text) \/ Last(meant.tables).alias = NoValue
        /\ FindsTables(text, meant.tables) /\ FindsPredicates(text, meant.preds)
    BY <1>1, <2>1 DEF PlainSoFar, Unfinished, Understood
  <2>4. /\ AllClosed(text \o c) /\ Closed(text \o c) /\ Len(LimitsOf(text \o c)) = 0
        /\ FindsTables(text \o c, meant.tables)
        /\ FindsPredicates(text \o c, Append(meant.preds, p))
    BY ONLY <2>2, <2>3, <1>2, <1>11, WherePlain DEF p
  <2>5. text \o c \in Seq(Tokens)
    BY <1>2, <1>9, ConcatPlaces DEF PartsOf
  <2>6. Parse(text \o c).limit = NoValue
    BY <2>4, <2>5, LimitOfText
  <2> QED BY <1>8, <1>10, <2>3, <2>4, <2>6 DEF PlainSoFar, Unfinished, Understood
<1> QED BY <1>1, <1>11, <1>12 DEF PlainInv, PlainText

LEMMA LimitKeepsPlain == StatementInv /\ PlainInv /\ Limit => PlainInv'
<1>1. SUFFICES ASSUME StatementInv, PlainInv, part \in {"tables", "where"}, NEW b \in Bounds,
                      text' = text \o <<"limit">> \o b,
                      meant' = [meant EXCEPT !.limit = Numeral[Last(b)]],
                      part' = "done"
               PROVE  PlainInv'
  BY DEF Limit
<1> DEFINE word == <<"limit">>
           c == word \o b
<1>2. text \in Seq(Tokens) /\ Grown(text) /\ meant.tables \in Seq(Meant)
      /\ DOMAIN meant = {"tables", "preds", "limit", "plain"}
  BY <1>1 DEF StatementInv, Grown, Regular, WellFormed
<1>3. word \in Seq(Tokens) /\ Len(word) = 1 /\ word[1] = "limit"
  <2>1. "limit" \in Tokens
    BY Vocabulary DEF Tokens
  <2> QED BY <2>1, OneTokenText
<1>4. text' = (text \o word) \o b
  BY <1>1
<1> HIDE DEF word
<1>5. b \in Seq(Tokens)
  BY BoundsPlaces
<1>6. text' = text \o c
  <2>1. Associates(text, word, b)
    BY <1>2, <1>3, <1>5, TokensAssociative
  <2> QED BY <1>4, <2>1, Zenon DEF c, Associates
<1>7. LimitParts(c, b)
  <2>1. /\ word \o b \in Seq(Tokens) /\ Len(word \o b) = 1 + Len(b) /\ (word \o b)[1] = "limit"
        /\ \A i \in 1 .. Len(b) : (word \o b)[1 + i] = b[i]
    BY <1>3, <1>5, ConcatPlaces
  <2> QED BY <2>1 DEF LimitParts
<1> HIDE DEF c
<1>8. meant'.tables = meant.tables /\ meant'.preds = meant.preds /\ meant'.limit = Numeral[Last(b)]
      /\ meant'.plain = meant.plain
  BY <1>1, <1>2
<1>9. meant'.preds \in Seq(Range(meant'.preds))
  BY <1>1, <1>8 DEF PlainInv, PlainText
<1>10. ASSUME meant'.plain PROVE PlainSoFar(text', meant', part')
  <2>1. PlainSoFar(text, meant, part)
    BY <1>1, <1>8, <1>10 DEF PlainInv, PlainText
  <2>2. /\ AllClosed(text) /\ Len(LimitsOf(text)) = 0
        /\ Closed(text) \/ Last(meant.tables).alias = NoValue
        /\ FindsTables(text, meant.tables) /\ FindsPredicates(text, meant.preds)
    BY <1>1, <2>1 DEF PlainSoFar, Unfinished, Understood
  <2>3. /\ AllClosed(text \o c) /\ Closed(text \o c)
        /\ FindsTables(text \o c, meant.tables) /\ FindsPredicates(text \o c, meant.preds)
        /\ Parse(text \o c).limit = Numeral[Last(b)]
    BY ONLY <2>2, <1>2, <1>7, LimitPlain
  <2> QED BY <1>1, <1>6, <1>8, <2>3 DEF PlainSoFar, Understood
<1> QED BY <1>1, <1>9, <1>10 DEF PlainInv, PlainText

(* However long a client writes, a plain statement is understood so far:   *)
(* TABLE_PATTERN, PREDICATE_PATTERN and LIMIT_PATTERN find in what is      *)
(* written what they found before, and what the last words meant.          *)
THEOREM PlainStatementsStayPlain == Spec => [](StatementInv /\ PlainInv)
<1>1. Init => PlainInv
  BY InitPlain
<1>2. StatementInv /\ PlainInv /\ [Next]_vars => PlainInv'
  <2>1. PlainInv /\ UNCHANGED vars => PlainInv'
    BY DEF PlainInv, vars
  <2> QED BY <2>1, FromKeepsPlain, FromSubqueryKeepsPlain, JoinKeepsPlain, CommaKeepsPlain,
             WhereKeepsPlain, LimitKeepsPlain DEF Next
<1> QED BY <1>1, <1>2, StatementsAreRegular, PTL DEF Spec

(* SqlParser.parse finds in a plain statement every table at its place     *)
(* with the alias it was given, its equalities in their order and no       *)
(* other, also where a quoted text looks like one, and the count of its    *)
(* LIMIT: for any number of tables and equalities, and any vocabulary.     *)
THEOREM SpecPlainIsUnderstood == Spec => []PlainIsUnderstood
<1>1. StatementInv /\ PlainInv => PlainIsUnderstood
  <2>1. SUFFICES ASSUME StatementInv, PlainInv, meant.plain PROVE PlainIsUnderstood
    BY DEF PlainIsUnderstood
  <2>2. /\ FindsTables(text, meant.tables) /\ FindsPredicates(text, meant.preds)
        /\ Parse(text).limit = meant.limit
    BY <2>1 DEF PlainInv, PlainText, PlainSoFar, Understood
  <2>3. DOMAIN meant.tables = 1 .. Len(meant.tables) /\ DOMAIN meant.preds = 1 .. Len(meant.preds)
    BY <2>1 DEF StatementInv, PlainInv, PlainText
  <2>4. Parse(text).tables = TablesOf(text) /\ Parse(text).preds = PredicatesOf(text)
    BY DEF Parse
  <2> QED BY <2>2, <2>3, <2>4 DEF PlainIsUnderstood, Parsed, FindsTables, IsTable, FindsPredicates, Seen
<1> QED BY <1>1, PlainStatementsStayPlain, PTL
=============================================================================
