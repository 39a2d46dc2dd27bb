-------------------------- MODULE RepliquePreuves --------------------------
(***************************************************************************)
(* What the proofs about replicated records share: a set of counters has a *)
(* least one, the sequence of a finite set and the concatenation of a      *)
(* sequence of sequences are what their names say, a table stays a table   *)
(* when a row is written, kept or removed, the stamps are totally ordered, *)
(* and the clock and the path move as Replique.tla says.                   *)
(***************************************************************************)
EXTENDS Replique, TLC, SequencesExt, Functions, FiniteSetTheorems,
        WellFoundedInduction, TLAPS

LEMMA PlusPetit ==
  ASSUME NEW S \in SUBSET Nat, S # {}
  PROVE  \E n \in S : \A m \in S : n <= m
<1>1. IsWellFoundedOn(OpToRel(<, Nat), Nat) BY NatLessThanWellFounded
<1>2. PICK n \in S : \A m \in S : ~ (<<m, n>> \in OpToRel(<, Nat))
  BY <1>1, WFMin
<1>3. \A m \in S : ~ (m < n) BY <1>2 DEF OpToRel
<1> QED BY <1>3

LEMMA SuiteDe ==
  ASSUME NEW S, IsFiniteSet(S)
  PROVE  /\ Cardinality(S) \in Nat
         /\ SetToSeq(S) \in [1..Cardinality(S) -> S]
         /\ SetToSeq(S) \in Seq(S)
         /\ \A x \in S : \E i \in DOMAIN SetToSeq(S) : SetToSeq(S)[i] = x
<1>1. Cardinality(S) \in Nat /\ ExistsBijection(1..Cardinality(S), S)
  BY FS_CardinalityType
<1>2. PICK f \in Bijection(1..Cardinality(S), S) : TRUE
  BY <1>1 DEF ExistsBijection
<1>3. f \in [1..Cardinality(S) -> S] /\ IsInjective(f)
  BY <1>2 DEF Bijection, Injection, IsInjective
<1>4. SetToSeq(S) \in [1..Cardinality(S) -> S] /\ IsInjective(SetToSeq(S))
  BY <1>3 DEF SetToSeq
<1>5. SetToSeq(S) \in Seq(S) BY <1>1, <1>4
<1>6. SetToSeq(S) \in Injection(1..Cardinality(S), S)
  BY <1>4 DEF Injection, IsInjective
<1>7. Cardinality(1..Cardinality(S)) = Cardinality(S) BY <1>1, FS_Interval
<1>8. SetToSeq(S) \in Surjection(1..Cardinality(S), S) BY <1>6, <1>7, FS_Injection
<1>9. \A x \in S : \E i \in 1..Cardinality(S) : SetToSeq(S)[i] = x
  BY <1>8 DEF Surjection
<1> QED BY <1>1, <1>4, <1>5, <1>9


\* g[i] is the concatenation of the i first sequences of s, up to k.
Deroule(s, T, g, k) ==
  /\ g \in [1..k -> Seq(T)]
  /\ \A i \in 1..k : g[i] = IF i = 1 THEN s[i] ELSE g[i-1] \o s[i]

LEMMA SuitePrecedente ==
  ASSUME NEW n \in Nat, NEW k \in 1..n, k # 1
  PROVE  k - 1 \in Nat /\ k - 1 \in 1..n /\ ~(k <= k - 1)
OBVIOUS

LEMMA DerouleExiste ==
  ASSUME NEW T, NEW s \in Seq(Seq(T)), Len(s) # 0
  PROVE  \E g : Deroule(s, T, g, Len(s))
<1> DEFINE n == Len(s)
           B == {k \in Nat : k \in 1..n /\ ~ \E g : Deroule(s, T, g, k)}
<1>0. n \in Nat /\ n \in 1..n /\ \A i \in 1..n : s[i] \in Seq(T) OBVIOUS
<1>1. SUFFICES ASSUME B # {} PROVE FALSE BY <1>0
<1>2. PICK k \in B : \A m \in B : k <= m BY <1>1, PlusPetit
<1>3. k \in Nat /\ k \in 1..n /\ ~ \E g : Deroule(s, T, g, k) BY <1>2
<1>4. CASE k = 1
  <2>1. Deroule(s, T, [i \in 1..1 |-> s[i]], 1) BY <1>0, <1>3, <1>4 DEF Deroule
  <2> QED BY <2>1, <1>3, <1>4
<1>5. CASE k # 1
  <2>1. k - 1 \in Nat /\ k - 1 \in 1..n /\ ~(k <= k - 1)
    BY SuitePrecedente, <1>0, <1>3, <1>5
  <2>2. k - 1 \notin B
    <3> HIDE DEF B
    <3> QED BY <2>1, <1>2
  <2>3. PICK h : Deroule(s, T, h, k - 1) BY <2>1, <2>2
  <2> DEFINE g == [i \in 1..k |-> IF i = k THEN h[k-1] \o s[k] ELSE h[i]]
  <2>4. k - 1 \in 1..(k-1) /\ h[k-1] \in Seq(T) /\ s[k] \in Seq(T)
    BY <2>1, <2>3, <1>0, <1>3 DEF Deroule
  <2>5. g \in [1..k -> Seq(T)]
    <3>1. \A i \in 1..k : i # k => i \in 1..(k-1) BY <1>3
    <3> QED BY <2>3, <2>4, <3>1 DEF Deroule
  <2>6. ASSUME NEW i \in 1..k
        PROVE  g[i] = IF i = 1 THEN s[i] ELSE g[i-1] \o s[i]
    <3>1. CASE i = k
      <4>1. g[k] = h[k-1] \o s[k]
        <5>1. k \in 1..k BY <1>3
        <5> QED BY <5>1
      <4>2. k - 1 \in 1..k /\ k - 1 # k BY <2>1, <1>3
      <4>3. g[k-1] = h[k-1] BY <4>2
      <4> QED BY <4>1, <4>3, <3>1, <1>5
    <3>2. CASE i # k
      <4>1. i \in 1..(k-1) /\ i \in Int BY <3>2, <1>3
      <4>2. h[i] = IF i = 1 THEN s[i] ELSE h[i-1] \o s[i]
        BY <4>1, <2>3 DEF Deroule
      <4>3. i # 1 => i - 1 \in 1..k /\ i - 1 # k BY <4>1, <1>3
      <4> QED BY <4>2, <4>3, <3>2
    <3> QED BY <3>1, <3>2
  <2>7. Deroule(s, T, g, k)
    <3> HIDE DEF g
    <3> QED BY <2>5, <2>6 DEF Deroule
  <2> QED BY <2>7, <1>3
<1> QED BY <1>4, <1>5

LEMMA AplatieEgale ==
  ASSUME NEW T, NEW s \in Seq(Seq(T)), Len(s) # 0
  PROVE  \E g : Deroule(s, T, g, Len(s)) /\ FlattenSeq(s) = g[Len(s)]
<1> DEFINE n == Len(s)
           flatten == CHOOSE g :
             g = [i \in 1..n |-> IF i = 1 THEN s[i] ELSE g[i-1] \o s[i]]
<1>0. n \in Nat /\ n \in 1..n /\ \A i \in 1..n : s[i] \in Seq(T) OBVIOUS
<1>1. PICK g : Deroule(s, T, g, n) BY DerouleExiste
<1>2. g = [i \in 1..n |-> IF i = 1 THEN s[i] ELSE g[i-1] \o s[i]]
  BY <1>1 DEF Deroule
<1>3. flatten = [i \in 1..n |-> IF i = 1 THEN s[i] ELSE flatten[i-1] \o s[i]]
  BY <1>2
<1> HIDE DEF flatten
<1>4. \A i \in 1..n : flatten[i] = IF i = 1 THEN s[i] ELSE flatten[i-1] \o s[i]
  BY <1>3
<1> DEFINE C == {k \in Nat : k \in 1..n /\ flatten[k] # g[k]}
<1>5. C = {}
  <2> SUFFICES ASSUME C # {} PROVE FALSE OBVIOUS
  <2>1. PICK k \in C : \A m \in C : k <= m BY PlusPetit
  <2>2. k \in Nat /\ k \in 1..n /\ flatten[k] # g[k] BY <2>1
  <2>3. g[k] = IF k = 1 THEN s[k] ELSE g[k-1] \o s[k] BY <2>2, <1>1 DEF Deroule
  <2>4. CASE k = 1 BY <2>2, <2>3, <2>4, <1>4
  <2>5. CASE k # 1
    <3>1. k - 1 \in Nat /\ k - 1 \in 1..n /\ ~(k <= k - 1)
      BY SuitePrecedente, <1>0, <2>2, <2>5
    <3>2. k - 1 \notin C
      <4> HIDE DEF C
      <4> QED BY <3>1, <2>1
    <3>3. flatten[k-1] = g[k-1] BY <3>1, <3>2
    <3> QED BY <3>3, <2>2, <2>3, <2>5, <1>4
  <2> QED BY <2>4, <2>5
<1>6. flatten[n] = g[n] BY <1>5, <1>0
<1>7. FlattenSeq(s) = flatten[n] BY DEF FlattenSeq, flatten
<1> QED BY <1>1, <1>6, <1>7

LEMMA Aplatie ==
  ASSUME NEW T, NEW s \in Seq(Seq(T))
  PROVE  FlattenSeq(s) \in Seq(T)
<1>1. CASE Len(s) = 0 BY <1>1 DEF FlattenSeq
<1>2. CASE Len(s) # 0
  <2>1. PICK g : Deroule(s, T, g, Len(s)) /\ FlattenSeq(s) = g[Len(s)]
    BY <1>2, AplatieEgale
  <2>2. Len(s) \in 1..Len(s) BY <1>2
  <2> QED BY <2>1, <2>2 DEF Deroule
<1> QED BY <1>1, <1>2

-----------------------------------------------------------------------------
(* Where the elements of a sequence come from.                             *)

\* An operation more at the end.
LEMMA SuiteAllongee ==
  ASSUME NEW T, NEW s \in Seq(T), NEW op, NEW t, t = s \o <<op>>
  PROVE  /\ Len(s) \in Nat /\ DOMAIN s = 1..Len(s)
         /\ \A i \in DOMAIN t :
              \/ i \in DOMAIN s /\ t[i] = s[i]
              \/ i = Len(s) + 1 /\ t[i] = op
         /\ \A i \in DOMAIN s : i \in DOMAIN t /\ t[i] = s[i]
         /\ Len(s) + 1 \in DOMAIN t /\ t[Len(s) + 1] = op
<1>1. Len(s) \in Nat /\ DOMAIN s = 1..Len(s) OBVIOUS
<1>2. DOMAIN t = 1..(Len(s) + 1) OBVIOUS
<1>3. \A i \in DOMAIN s : t[i] = s[i] OBVIOUS
<1>4. t[Len(s) + 1] = op OBVIOUS
<1> QED BY <1>1, <1>2, <1>3, <1>4

\* The first operation leaves.
LEMMA SuiteEntamee ==
  ASSUME NEW T, NEW s \in Seq(T), s # <<>>, NEW t, t = Tail(s)
  PROVE  /\ 1 \in DOMAIN s /\ Head(s) = s[1]
         /\ \A i \in DOMAIN s : i \in Nat
         /\ \A i \in DOMAIN t : i \in Nat /\ i + 1 \in DOMAIN s /\ t[i] = s[i + 1]
         /\ \A i \in DOMAIN s : i # 1 => i - 1 \in DOMAIN t /\ t[i - 1] = s[i]
<1>1. Len(s) \in Nat /\ Len(s) # 0 /\ DOMAIN s = 1..Len(s) OBVIOUS
<1>2. DOMAIN t = 1..(Len(s) - 1) /\ \A i \in DOMAIN t : t[i] = s[i + 1] OBVIOUS
<1>3. \A i \in DOMAIN s : i # 1 => i - 1 \in DOMAIN t /\ (i - 1) + 1 = i BY <1>1, <1>2
<1> QED BY <1>1, <1>2, <1>3

\* Two sequences, the one after the other.
Jointe(t, a, b) ==
  /\ Len(a) \in Nat /\ DOMAIN a = 1..Len(a) /\ Len(b) \in Nat /\ DOMAIN b = 1..Len(b)
  /\ \A i \in DOMAIN a : i \in DOMAIN t /\ t[i] = a[i]
  /\ \A j \in DOMAIN b : Len(a) + j \in DOMAIN t /\ t[Len(a) + j] = b[j]
  /\ \A i \in DOMAIN t :
       \/ i \in DOMAIN a /\ t[i] = a[i]
       \/ \E j \in DOMAIN b : i = Len(a) + j /\ t[i] = b[j]

LEMMA SuiteJointe ==
  ASSUME NEW T, NEW a \in Seq(T), NEW b \in Seq(T), NEW t, t = a \o b
  PROVE  Jointe(t, a, b)
<1>1. /\ Len(a) \in Nat /\ DOMAIN a = 1..Len(a)
      /\ Len(b) \in Nat /\ DOMAIN b = 1..Len(b)
  OBVIOUS
<1>2. DOMAIN t = 1..(Len(a) + Len(b)) OBVIOUS
<1>3. \A i \in DOMAIN a : i \in DOMAIN t /\ t[i] = a[i] BY <1>1, <1>2
<1>4. \A j \in DOMAIN b : Len(a) + j \in DOMAIN t /\ t[Len(a) + j] = b[j] BY <1>1, <1>2
<1>5. ASSUME NEW i \in DOMAIN t, i \notin DOMAIN a
      PROVE  \E j \in DOMAIN b : i = Len(a) + j /\ t[i] = b[j]
  <2>1. i - Len(a) \in DOMAIN b /\ i = Len(a) + (i - Len(a)) BY <1>1, <1>2, <1>5
  <2>2. PICK j \in DOMAIN b : i = Len(a) + j BY <2>1
  <2> QED BY <2>2, <1>4
<1> QED BY <1>1, <1>3, <1>4, <1>5 DEF Jointe

\* What a concatenation takes from the n first sequences of s: each of their elements,
\* and each after those that come before it in its own sequence.
Reprend(f, s, n) ==
  /\ \A i \in DOMAIN f : \E k \in 1..n : \E j \in DOMAIN s[k] :
       f[i] = s[k][j] /\ \A m \in 1..(j-1) : \E l \in 1..(i-1) : f[l] = s[k][m]
  /\ \A k \in 1..n : \A j \in DOMAIN s[k] : \E i \in DOMAIN f : f[i] = s[k][j]

LEMMA JointeReprend ==
  ASSUME NEW T, NEW s \in Seq(Seq(T)), NEW n \in Nat, NEW m \in 1..Len(s), m = n + 1,
         NEW f \in Seq(T), Reprend(f, s, n), NEW t, t = f \o s[m]
  PROVE  Reprend(t, s, m)
<1>1. PICK b : b = s[m] OBVIOUS
<1>2. b \in Seq(T) /\ t = f \o b BY <1>1
<1>3. /\ Len(f) \in Nat /\ DOMAIN f = 1..Len(f) /\ Len(b) \in Nat /\ DOMAIN b = 1..Len(b)
      /\ \A i \in DOMAIN f : i \in DOMAIN t /\ t[i] = f[i]
      /\ \A j \in DOMAIN b : Len(f) + j \in DOMAIN t /\ t[Len(f) + j] = b[j]
      /\ \A i \in DOMAIN t :
           \/ i \in DOMAIN f /\ t[i] = f[i]
           \/ \E j \in DOMAIN b : i = Len(f) + j /\ t[i] = b[j]
  <2>1. Jointe(t, f, b) BY <1>2, SuiteJointe
  <2> QED BY <2>1 DEF Jointe
<1>5. ASSUME NEW i \in DOMAIN t
      PROVE  \E k \in 1..m : \E j \in DOMAIN s[k] :
               t[i] = s[k][j] /\ \A x \in 1..(j-1) : \E l \in 1..(i-1) : t[l] = s[k][x]
  <2>1. CASE i \in DOMAIN f /\ t[i] = f[i]
    <3>0. PICK k \in 1..n : \E j \in DOMAIN s[k] :
            f[i] = s[k][j] /\ \A x \in 1..(j-1) : \E l \in 1..(i-1) : f[l] = s[k][x]
      BY <2>1 DEF Reprend
    <3>1. PICK j \in DOMAIN s[k] :
            f[i] = s[k][j] /\ \A x \in 1..(j-1) : \E l \in 1..(i-1) : f[l] = s[k][x]
      BY <3>0
    <3>2. k \in 1..m OBVIOUS
    <3>3. \A l \in 1..(i-1) : l \in DOMAIN f BY <2>1, <1>3
    <3> QED BY <3>1, <3>2, <3>3, <2>1, <1>3
  <2>2. CASE \E j \in DOMAIN b : i = Len(f) + j /\ t[i] = b[j]
    <3>1. PICK j \in DOMAIN b : i = Len(f) + j /\ t[i] = b[j] BY <2>2
    <3>2. ASSUME NEW x \in 1..(j-1) PROVE \E l \in 1..(i-1) : t[l] = b[x]
      <4>0. PICK l \in Nat : DOMAIN b = 1..l
        <5>1. Len(b) \in Nat /\ DOMAIN b = 1..Len(b) BY <1>3
        <5> QED BY <5>1
      <4>1. j \in Nat /\ x \in Nat /\ 1 <= x /\ x < j /\ j <= l
        <5>1. j \in 1..l BY <4>0
        <5> QED BY <5>1
      <4>2. x \in DOMAIN b
        <5>1. x \in 1..l BY <4>1
        <5> QED BY <5>1, <4>0
      <4>3. PICK n1 \in Nat : n1 = Len(f) BY <1>3
      <4>4. n1 + x \in 1..(i-1)
        <5>1. i = n1 + j BY <4>3, <3>1
        <5>2. n1 + x \in 1..((n1 + j) - 1) BY <4>1
        <5> QED BY <5>1, <5>2
      <4>5. t[n1 + x] = b[x] BY <4>2, <4>3, <1>3
      <4> QED BY <4>4, <4>5
    <3>3. m \in 1..m OBVIOUS
    <3> QED BY <3>1, <3>2, <3>3, <1>1
  <2> QED BY <2>1, <2>2, <1>3
<1>6. ASSUME NEW k \in 1..m, NEW j \in DOMAIN s[k]
      PROVE  \E i \in DOMAIN t : t[i] = s[k][j]
  <2>1. CASE k = m BY <2>1, <1>1, <1>3, <1>6
  <2>2. CASE k # m
    <3>1. k \in 1..n BY <2>2
    <3>2. PICK i \in DOMAIN f : f[i] = s[k][j] BY <3>1, <1>6 DEF Reprend
    <3> QED BY <3>2, <1>3
  <2> QED BY <2>1, <2>2
<1> QED BY <1>5, <1>6 DEF Reprend

LEMMA AplatieReprend ==
  ASSUME NEW T, NEW s \in Seq(Seq(T)), NEW f, f = FlattenSeq(s)
  PROVE  f \in Seq(T) /\ Reprend(f, s, Len(s))
<1>0. f \in Seq(T) BY Aplatie
<1>1. CASE Len(s) = 0
  <2>1. f = <<>> BY <1>1 DEF FlattenSeq
  <2>2. DOMAIN f = {} /\ 1..Len(s) = {} BY <2>1, <1>1
  <2> QED BY <2>2, <1>0 DEF Reprend
<1>2. CASE Len(s) # 0
  <2>1. PICK g : Deroule(s, T, g, Len(s)) /\ f = g[Len(s)] BY <1>2, AplatieEgale
  <2> DEFINE n == Len(s)
             B == {k \in Nat : k \in 1..n /\ ~Reprend(g[k], s, k)}
  <2>0. n \in Nat /\ n \in 1..n /\ \A i \in 1..n : s[i] \in Seq(T) BY <1>2
  <2>2. B = {}
    <3> SUFFICES ASSUME B # {} PROVE FALSE OBVIOUS
    <3>1. PICK k \in B : \A m \in B : k <= m BY PlusPetit
    <3>2. k \in Nat /\ k \in 1..n /\ ~Reprend(g[k], s, k) BY <3>1
    <3>3. g[k] = IF k = 1 THEN s[k] ELSE g[k-1] \o s[k] BY <3>2, <2>1 DEF Deroule
    <3>4. CASE k = 1
      <4> DEFINE vide == <<>>
      <4>1. vide \in Seq(T) /\ DOMAIN vide = {} /\ 1..0 = {} OBVIOUS
      <4>2. s[1] \in Seq(T) BY <2>0, <3>2, <3>4
      <4>3. g[1] = vide \o s[1] BY <4>2, <3>3, <3>4
      <4> HIDE DEF vide
      <4>4. Reprend(vide, s, 0) BY <4>1 DEF Reprend
      <4>5. 1 = 0 + 1 /\ 0 \in Nat OBVIOUS
      <4>6. 1 \in 1..Len(s) BY <3>2, <3>4
      <4> QED BY <4>1, <4>3, <4>4, <4>5, <4>6, <3>2, <3>4, JointeReprend
    <3>5. CASE k # 1
      <4>1. k - 1 \in Nat /\ k - 1 \in 1..n /\ ~(k <= k - 1)
        BY SuitePrecedente, <2>0, <3>2, <3>5
      <4>2. k - 1 \notin B
        <5> HIDE DEF B
        <5> QED BY <4>1, <3>1
      <4>3. PICK h, m : h = g[k-1] /\ m = k - 1 OBVIOUS
      <4>4. Reprend(h, s, m) /\ h \in Seq(T) /\ m \in Nat /\ k = m + 1 /\ g[k] = h \o s[k]
        <5>1. Reprend(g[k-1], s, k - 1) BY <4>1, <4>2
        <5>2. g[k-1] \in Seq(T) BY <4>1, <2>1 DEF Deroule
        <5>3. k = (k - 1) + 1 BY <3>2
        <5> QED BY <5>1, <5>2, <5>3, <4>1, <4>3, <3>3, <3>5
      <4> QED BY <4>4, <3>2, JointeReprend
    <3> QED BY <3>4, <3>5
  <2>3. Reprend(g[n], s, n) BY <2>0, <2>2
  <2> QED BY <2>3, <2>1, <1>0
<1> QED BY <1>1, <1>2

-----------------------------------------------------------------------------
(* Tables: functions whose domain is finite.                               *)

TableDe(f, S, T) ==
  /\ DOMAIN f \subseteq S /\ IsFiniteSet(DOMAIN f)
  /\ f \in [DOMAIN f -> T]

LEMMA Vide == ASSUME NEW S, NEW T PROVE TableDe(<<>>, S, T)
<1>1. DOMAIN <<>> = {} OBVIOUS
<1>2. <<>> \in [DOMAIN <<>> -> T] BY <1>1
<1> QED BY <1>1, <1>2, FS_EmptySet DEF TableDe

\* A row is written, whether there was one or not.
LEMMA PoseeTable ==
  ASSUME NEW f, NEW S, NEW T, TableDe(f, S, T), NEW cle \in S, NEW v \in T
  PROVE  TableDe(Poser(f, cle, v), S, T)
<1>1. IsFiniteSet(DOMAIN f \cup {cle}) BY FS_AddElement DEF TableDe
<1>2. \A x \in DOMAIN f \cup {cle} : (IF x = cle THEN v ELSE f[x]) \in T BY DEF TableDe
<1> QED BY <1>1, <1>2 DEF TableDe, Poser

LEMMA Seule ==
  ASSUME NEW cle, NEW v, NEW f, f = Seul(cle, v)
  PROVE  DOMAIN f = {cle} /\ f[cle] = v
<1> DEFINE vide == <<>>
<1>1. DOMAIN vide = {} OBVIOUS
<1>2. f = Poser(vide, cle, v) BY DEF Seul
<1> HIDE DEF vide
<1> QED BY <1>1, <1>2 DEF Poser

LEMMA SeuleTable ==
  ASSUME NEW S, NEW T, NEW cle \in S, NEW v \in T
  PROVE  TableDe(Seul(cle, v), S, T)
<1> DEFINE vide == <<>>
<1>1. TableDe(vide, S, T) BY Vide
<1>2. Seul(cle, v) = Poser(vide, cle, v) BY DEF Seul
<1> HIDE DEF vide
<1> QED BY <1>1, <1>2, PoseeTable

\* A row is written unless there is one.
LEMMA GardeeTable ==
  ASSUME NEW f, NEW S, NEW T, TableDe(f, S, T), NEW cle \in S, NEW v \in T,
         NEW g, g = Garder(f, cle, v)
  PROVE  /\ TableDe(g, S, T)
         /\ DOMAIN g = DOMAIN f \cup {cle}
         /\ cle \notin DOMAIN f => g[cle] = v
         /\ \A x \in DOMAIN f : g[x] = f[x]
<1>1. CASE cle \in DOMAIN f
  <2>1. DOMAIN f \cup {cle} = DOMAIN f BY <1>1
  <2> QED BY <2>1, <1>1 DEF Garder
<1>2. CASE cle \notin DOMAIN f
  <2>1. g = Poser(f, cle, v) BY <1>2 DEF Garder
  <2>2. TableDe(g, S, T) BY <2>1, PoseeTable
  <2>3. \A x \in DOMAIN f : x # cle BY <1>2
  <2>4. /\ DOMAIN g = DOMAIN f \cup {cle} /\ g[cle] = v
        /\ \A x \in DOMAIN f : g[x] = f[x]
    BY <2>1, <2>3 DEF Poser
  <2> QED BY <2>2, <2>4
<1> QED BY <1>1, <1>2

LEMMA RestreinteTable ==
  ASSUME NEW f, NEW S, NEW T, TableDe(f, S, T), NEW X
  PROVE  TableDe(Sans(f, X), S, T)
<1>1. Sans(f, X) \in [DOMAIN f \ X -> T]
  BY DEF TableDe, Sans
<1>2. IsFiniteSet(DOMAIN f \ X) BY FS_Difference DEF TableDe
<1> QED BY <1>1, <1>2 DEF TableDe

LEMMA ChangeeTable ==
  ASSUME NEW f, NEW S, NEW T, TableDe(f, S, T), NEW cle \in DOMAIN f, NEW v \in T
  PROVE  /\ TableDe([f EXCEPT ![cle] = v], S, T)
         /\ DOMAIN [f EXCEPT ![cle] = v] = DOMAIN f
         /\ [f EXCEPT ![cle] = v][cle] = v
         /\ \A x \in DOMAIN f : x # cle => [f EXCEPT ![cle] = v][x] = f[x]
BY DEF TableDe

LEMMA TableLarge ==
  ASSUME NEW f, NEW S, NEW T, TableDe(f, S, T), NEW S2, NEW T2, S \subseteq S2, T \subseteq T2
  PROVE  TableDe(f, S2, T2)
BY DEF TableDe

-----------------------------------------------------------------------------
(* Stamps, the clock and the path.                                         *)

\* The stamps that their root has already given.
Emise == {e \in Estampille : e.compteur <= compteur[e.racine]}

LEMMA PasDEstampille == Aucune \notin Estampille
BY RepliqueAssumption DEF Estampille, Aucune

\* The two roots are each the pair of the other.
LEMMA DeuxRacines ==
  ASSUME NEW r \in Racine
  PROVE  /\ Pair[r] \in Racine /\ Pair[r] # r /\ Pair[Pair[r]] = r
         /\ \A q \in Racine : Pair[q] = r <=> q = Pair[r]
BY RepliqueAssumption

LEMMA OrdreTotal ==
  ASSUME NEW a \in Estampille, NEW b \in Estampille
  PROVE  /\ ~Avant(a, a)
         /\ Avant(a, b) => ~Avant(b, a)
         /\ ~Avant(a, b) /\ ~Avant(b, a) => a = b
<1>1. /\ a.compteur \in Nat /\ b.compteur \in Nat
      /\ a.racine \in Nat /\ b.racine \in Nat
  BY RepliqueAssumption DEF Estampille
<1>2. a.compteur = b.compteur /\ a.racine = b.racine => a = b
  BY DEF Estampille
<1> QED BY <1>1, <1>2 DEF Avant

LEMMA OrdreTransitif ==
  ASSUME NEW a \in Estampille, NEW b \in Estampille, NEW c \in Estampille,
         ~Avant(a, b), ~Avant(b, c)
  PROVE  ~Avant(a, c)
<1>1. /\ a.compteur \in Nat /\ b.compteur \in Nat /\ c.compteur \in Nat
      /\ a.racine \in Nat /\ b.racine \in Nat /\ c.racine \in Nat
  BY RepliqueAssumption DEF Estampille
<1> QED BY <1>1 DEF Avant

LEMMA Extremes ==
  ASSUME NEW a \in Estampille, NEW b \in Estampille
  PROVE  /\ PlusTot(a, b) \in {a, b}
         /\ ~Avant(a, PlusTot(a, b)) /\ ~Avant(b, PlusTot(a, b))
         /\ PlusTard(a, b) \in {a, b}
         /\ ~Avant(PlusTard(a, b), a) /\ ~Avant(PlusTard(a, b), b)
BY OrdreTotal DEF PlusTot, PlusTard

\* A set of stamps that is not empty has a first one.
LEMMA PremiereEstampille ==
  ASSUME NEW S \in SUBSET Estampille, S # {}
  PROVE  \E e \in S : \A autre \in S : ~Avant(autre, e)
<1> DEFINE C == {e.compteur : e \in S}
<1>1. C \in SUBSET Nat /\ C # {} BY DEF Estampille
<1>2. PICK n \in C : \A m \in C : n <= m
  <2> HIDE DEF C
  <2> QED BY <1>1, PlusPetit
<1> DEFINE D == {e \in S : e.compteur = n}
           R == {e.racine : e \in D}
<1>3. R \in SUBSET Nat /\ R # {}
  <2>1. D # {} BY <1>2
  <2>2. \A e \in D : e.racine \in Nat BY RepliqueAssumption DEF Estampille
  <2> QED BY <2>1, <2>2
<1>4. PICK k \in R : \A m \in R : k <= m
  <2> HIDE DEF R
  <2> QED BY <1>3, PlusPetit
<1>5. PICK e \in S : e.compteur = n /\ e.racine = k BY <1>4
<1>6. ASSUME NEW autre \in S PROVE ~Avant(autre, e)
  <2>1. autre.compteur \in Nat /\ autre.racine \in Nat /\ n \in Nat /\ k \in Nat
    BY <1>1, <1>2, <1>3, <1>4, RepliqueAssumption DEF Estampille
  <2>2. n <= autre.compteur BY <1>2
  <2>3. autre.compteur = n => k <= autre.racine BY <1>4
  <2> QED BY <2>1, <2>2, <2>3, <1>5 DEF Avant
<1> QED BY <1>6

\* The clock of a root that writes n operations.
LEMMA Ecrite ==
  ASSUME NEW r \in Racine, NEW n \in Nat, compteur \in [Racine -> Nat],
         compteur' = [compteur EXCEPT ![r] = @ + n]
  PROVE  /\ compteur' \in [Racine -> Nat]
         /\ \A q \in Racine : compteur[q] <= compteur'[q]
         /\ Emise \subseteq Emise'
         /\ \A i \in 1..n : Prochaine(r, i) \in Emise' /\ Prochaine(r, i) \notin Emise
<1>1. compteur' \in [Racine -> Nat] OBVIOUS
<1>2. \A q \in Racine : compteur[q] <= compteur'[q] OBVIOUS
<1>3. Emise \subseteq Emise'
  <2> SUFFICES ASSUME NEW e \in Estampille, e.compteur <= compteur[e.racine]
               PROVE  e.compteur <= compteur'[e.racine]
    BY DEF Emise
  <2>1. e.racine \in Racine /\ e.compteur \in Nat BY DEF Estampille
  <2> QED BY <2>1, <1>1, <1>2
<1>4. ASSUME NEW i \in 1..n
      PROVE  Prochaine(r, i) \in Emise' /\ Prochaine(r, i) \notin Emise
  <2>1. Prochaine(r, i) \in Estampille BY DEF Prochaine, Estampille
  <2>2. Prochaine(r, i).racine = r /\ Prochaine(r, i).compteur = compteur[r] + i
    BY DEF Prochaine
  <2>3. compteur'[r] = compteur[r] + n OBVIOUS
  <2> QED BY <2>1, <2>2, <2>3 DEF Emise
<1> QED BY <1>1, <1>2, <1>3, <1>4

LEMMA SuivanteNeuve ==
  ASSUME NEW r \in Racine, compteur \in [Racine -> Nat],
         compteur' = [compteur EXCEPT ![r] = @ + 1]
  PROVE  /\ compteur' \in [Racine -> Nat]
         /\ Emise \subseteq Emise'
         /\ Suivante(r) \in Emise' /\ Suivante(r) \notin Emise
<1>1. 1 \in Nat /\ 1 \in 1..1 OBVIOUS
<1> QED BY <1>1, Ecrite DEF Suivante

\* What a root writes is on its way to the other one.
LEMMA Journalisee ==
  ASSUME NEW r \in Racine, NEW T, NEW ops \in Seq(T), compteur \in [Racine -> Nat],
         enRoute \in [Racine -> Seq(T)], JournaliserTout(r, ops)
  PROVE  /\ Len(ops) \in Nat /\ compteur' = [compteur EXCEPT ![r] = @ + Len(ops)]
         /\ enRoute' \in [Racine -> Seq(T)]
         /\ enRoute'[Pair[r]] = enRoute[Pair[r]] \o ops
         /\ \A q \in Racine : q # Pair[r] => enRoute'[q] = enRoute[q]
         /\ amorcages' = amorcages
<1>1. Pair[r] \in Racine BY RepliqueAssumption
<1>2. enRoute[Pair[r]] \o ops \in Seq(T) BY <1>1
<1>3. Len(ops) \in Nat OBVIOUS
<1>4. enRoute' = [enRoute EXCEPT ![Pair[r]] = @ \o ops] BY DEF JournaliserTout
<1>5. enRoute'[Pair[r]] = enRoute[Pair[r]] \o ops BY <1>1, <1>4
<1>6. enRoute' \in [Racine -> Seq(T)] BY <1>1, <1>2, <1>4
<1> QED BY <1>1, <1>3, <1>4, <1>5, <1>6 DEF JournaliserTout

\* The clock of a root that applies an operation of the other.
LEMMA Retiree ==
  ASSUME NEW r \in Racine, NEW T, compteur \in [Racine -> Nat],
         enRoute \in [Racine -> Seq(T)], Retirer(r),
         \A operation \in T : operation.estampille.compteur \in Nat
  PROVE  /\ Head(enRoute[r]) \in T
         /\ enRoute' \in [Racine -> Seq(T)]
         /\ enRoute'[r] = Tail(enRoute[r])
         /\ \A q \in Racine : q # r => enRoute'[q] = enRoute[q]
         /\ compteur' \in [Racine -> Nat]
         /\ \A q \in Racine : compteur[q] <= compteur'[q]
         /\ Head(enRoute[r]).estampille.compteur <= compteur'[r]
         /\ Emise \subseteq Emise'
         /\ amorcages' = amorcages
<1>1. enRoute[r] \in Seq(T) /\ enRoute[r] # <<>> BY DEF Retirer
<1>2. Head(enRoute[r]) \in T /\ Tail(enRoute[r]) \in Seq(T) BY <1>1
<1>3. Head(enRoute[r]).estampille.compteur \in Nat BY <1>2
<1>4. /\ compteur' \in [Racine -> Nat]
      /\ \A q \in Racine : compteur[q] <= compteur'[q]
      /\ Head(enRoute[r]).estampille.compteur <= compteur'[r]
  BY <1>3 DEF Retirer
<1>5. Emise \subseteq Emise'
  <2> SUFFICES ASSUME NEW e \in Estampille, e.compteur <= compteur[e.racine]
               PROVE  e.compteur <= compteur'[e.racine]
    BY DEF Emise
  <2>1. e.racine \in Racine /\ e.compteur \in Nat BY DEF Estampille
  <2> QED BY <2>1, <1>4
<1> QED BY <1>2, <1>4, <1>5 DEF Retirer

\* The clock of the other root is a stamp that it gave.
LEMMA FinEmise ==
  ASSUME NEW q \in Racine, compteur \in [Racine -> Nat]
  PROVE  Fin(q).estampille \in Emise
BY DEF Fin, Emise, Estampille

LEMMA Amorcee ==
  ASSUME NEW r \in Racine, NEW T, NEW instantane \in Seq(T),
         enRoute \in [Racine -> Seq(T)], AmorcerPar(r, instantane), amorcages \in Nat,
         Fin(Pair[r]) \in T
  PROVE  /\ enRoute' \in [Racine -> Seq(T)]
         /\ enRoute'[r] = instantane \o <<Fin(Pair[r])>>
         /\ \A q \in Racine : q # r => enRoute'[q] = enRoute[q]
         /\ amorcages' \in Nat /\ compteur' = compteur
<1>1. instantane \o <<Fin(Pair[r])>> \in Seq(T) OBVIOUS
<1> QED BY <1>1 DEF AmorcerPar
=============================================================================
