---------------------------- MODULE OrderProofs -----------------------------
(* What the proofs about the components need of the natural numbers and of *)
(* sequences: induction over an interval, definitions by recursion, sets   *)
(* of numbers in their order, and a sequence of sequences as one.          *)
EXTENDS SequencesExt, FiniteSetsExt, SequenceTheorems, FiniteSetTheorems,
        WellFoundedInduction, TLAPS

-----------------------------------------------------------------------------
(* Induction on the numbers, from the well-foundedness of their order.     *)

LEMMA SomeLeast ==
    ASSUME NEW T, T \subseteq Nat, T # {}
    PROVE  \E x \in T : \A y \in T : ~(y < x)
<1> DEFINE R == {p \in Nat \X Nat : p[1] < p[2]}
<1>1. IsWellFoundedOn(R, Nat)
  <2>1. R = OpToRel(<, Nat)
    BY DEF OpToRel
  <2> QED
    BY <2>1, NatLessThanWellFounded
<1>2. \E x \in T : \A y \in T : ~(<<y, x>> \in R)
  BY <1>1, WFMin
<1> QED
  BY <1>2

\* A set of numbers that has a, and n + 1 with each n below b, has a..b.
LEMMA Climbing ==
    ASSUME NEW a \in Nat, NEW b \in Nat, NEW S, a \in S,
           \A n \in a..b : n \in S /\ n < b => n + 1 \in S
    PROVE  \A n \in a..b : n \in S
<1> DEFINE T == {n \in a..b : n \notin S}
<1> SUFFICES ASSUME T # {} PROVE FALSE
  OBVIOUS
<1>1. PICK x \in T : \A y \in T : ~(y < x)
  <2>1. T \subseteq Nat
    OBVIOUS
  <2> HIDE DEF T
  <2> QED
    BY <2>1, SomeLeast
<1>2. x - 1 \in a..b /\ x - 1 < b /\ x - 1 < x
  BY <1>1
<1>3. x - 1 \in S
  BY <1>1, <1>2
<1> QED
  BY <1>1, <1>2, <1>3

\* A function can be defined by a recursion over an interval.
StepsOn(g, T, a, b) == a \in Nat /\ b \in Nat /\ a <= b /\ g \in [((a + 1)..b) \X T -> T]

FollowsFrom(f, g, t0, T, a, b) ==
    /\ f \in [a..b -> T] /\ f[a] = t0
    /\ \A n \in (a + 1)..b : f[n] = g[<<n, f[n - 1]>>]

LEMMA Recursion ==
    ASSUME NEW T, NEW t0 \in T, NEW a, NEW b, NEW g, StepsOn(g, T, a, b)
    PROVE  \E f : FollowsFrom(f, g, t0, T, a, b)
<1> USE DEF StepsOn
<1> DEFINE Good(c, f) == f[a] = t0 /\ \A n \in (a + 1)..c : f[n] = g[<<n, f[n - 1]>>]
           S == {c \in a..b : \E f \in [a..c -> T] : Good(c, f)}
<1>1. a \in S
  <2>1. [n \in a..a |-> t0] \in [a..a -> T] /\ Good(a, [n \in a..a |-> t0])
    OBVIOUS
  <2> QED
    BY <2>1
<1>2. ASSUME NEW c \in a..b, c \in S, c < b PROVE c + 1 \in S
  <2>1. PICK f \in [a..c -> T] : Good(c, f)
    BY <1>2
  <2> DEFINE h == [n \in a..(c + 1) |-> IF n = c + 1 THEN g[<<c + 1, f[c]>>] ELSE f[n]]
  <2>2. g[<<c + 1, f[c]>>] \in T
    BY <2>1, <1>2
  <2>3. h \in [a..(c + 1) -> T]
    BY <2>1, <2>2, <1>2
  <2>4. Good(c + 1, h)
    <3>1. h[a] = t0
      BY <2>1
    <3>2. ASSUME NEW n \in (a + 1)..(c + 1) PROVE h[n] = g[<<n, h[n - 1]>>]
      <4>1. n - 1 \in a..(c + 1) /\ n - 1 # c + 1 /\ n \in a..(c + 1)
        OBVIOUS
      <4>2. h[n - 1] = f[n - 1]
        BY <4>1
      <4>3. CASE n = c + 1
        BY <4>1, <4>2, <4>3
      <4>4. CASE n # c + 1
        <5>1. n \in (a + 1)..c
          BY <4>4
        <5> QED
          BY <2>1, <4>1, <4>2, <4>4, <5>1
      <4> QED
        BY <4>3, <4>4
    <3> QED
      BY <3>1, <3>2
  <2>5. c + 1 \in a..b
    BY <1>2
  <2> HIDE DEF h, Good
  <2> QED
    BY <2>3, <2>4, <2>5
<1>3. \A n \in a..b : n \in S
  <2> HIDE DEF S
  <2> QED
    BY <1>1, <1>2, Climbing
<1>4. b \in a..b
  OBVIOUS
<1>5. b \in S
  BY <1>3, <1>4
<1> QED
  BY <1>5 DEF FollowsFrom

LEMMA FunctionIsSeq ==
    ASSUME NEW S, NEW n \in Nat, NEW f \in [1..n -> S]
    PROVE  f \in Seq(S) /\ Len(f) = n
<1>1. f \in Seq(S)
  BY SeqDef
<1>2. Len(f) \in Nat /\ DOMAIN f = 1..Len(f)
  BY <1>1, LenProperties
<1>3. 1..Len(f) = 1..n
  BY <1>2
<1> QED
  BY <1>1, <1>2, <1>3

-----------------------------------------------------------------------------
(* Sets of numbers: the largest, the least, and all of them in order.      *)

LEMMA MinIs ==
    ASSUME NEW S, S \subseteq Nat, S # {}
    PROVE  Min(S) \in S /\ \A x \in S : Min(S) <= x
<1>1. PICK x \in S : \A y \in S : ~(y < x)
  BY SomeLeast
<1>2. \A y \in S : x <= y
  BY <1>1
<1> QED
  BY <1>2 DEF Min

LEMMA MaxIs ==
    ASSUME NEW S, S \subseteq Nat, S # {}, NEW b \in Nat, \A x \in S : x <= b
    PROVE  Max(S) \in S /\ \A x \in S : x <= Max(S)
<1> DEFINE T == {b - x : x \in S}
<1>1. T \subseteq Nat /\ T # {}
  <2>1. ASSUME NEW x \in S PROVE b - x \in Nat
    <3>1. x \in Nat /\ x <= b
      OBVIOUS
    <3> QED
      BY <3>1
  <2> QED
    BY <2>1
<1>2. PICK t \in T : \A u \in T : ~(u < t)
  <2> HIDE DEF T
  <2> QED
    BY <1>1, SomeLeast
<1>3. PICK x \in S : t = b - x
  BY <1>2
<1>4. ASSUME NEW y \in S PROVE x >= y
  <2>1. b - y \in T
    OBVIOUS
  <2>2. ~(b - y < b - x)
    BY <1>2, <1>3, <2>1
  <2>3. x \in Nat /\ y \in Nat
    BY <1>3
  <2> QED
    BY <2>2, <2>3
<1>5. \E z \in S : \A y \in S : z >= y
  BY <1>3, <1>4
<1>6. Max(S) \in S /\ \A y \in S : Max(S) >= y
  BY <1>5 DEF Max
<1> QED
  BY <1>6

\* Every finite set of numbers can be counted upwards.
Upwards(f, n, S) ==
    /\ f \in [1..n -> S] /\ \A x \in S : \E i \in 1..n : f[i] = x
    /\ \A i, j \in 1..n : i < j => f[i] < f[j]

LEMMA SomeUpwards ==
    ASSUME NEW b \in Nat
    PROVE  \A S \in SUBSET (0..b) : \E f : Upwards(f, Cardinality(S), S)
<1> DEFINE Some(n) == \A S \in SUBSET (0..b) : Cardinality(S) = n => \E f : Upwards(f, n, S)
           N == {n \in 0..b + 1 : Some(n)}
<1>0. \A S \in SUBSET (0..b) : IsFiniteSet(S) /\ Cardinality(S) \in 0..b + 1
  <2> TAKE S \in SUBSET (0..b)
  <2>1. S \in SUBSET Nat /\ \A s \in S : s <= b
    OBVIOUS
  <2>2. IsFiniteSet(S) /\ Cardinality(S) <= b + 1
    BY <2>1, FS_BoundedSetOfNaturals
  <2> QED
    BY <2>2, FS_CardinalityType
<1>1. 0 \in N
  <2>1. ASSUME NEW S \in SUBSET (0..b), Cardinality(S) = 0 PROVE \E f : Upwards(f, 0, S)
    <3>1. S = {}
      BY <1>0, <2>1, FS_EmptySet
    <3>2. Upwards([i \in 1..0 |-> 0], 0, S)
      BY <3>1 DEF Upwards
    <3> QED
      BY <3>2
  <2> QED
    BY <2>1
<1>2. ASSUME NEW n \in 0..b + 1, n \in N, n < b + 1 PROVE n + 1 \in N
  <2>1. ASSUME NEW S \in SUBSET (0..b), Cardinality(S) = n + 1
        PROVE  \E f : Upwards(f, n + 1, S)
    <3>1. S # {}
      BY <2>1, FS_EmptySet
    <3>2. S \subseteq Nat /\ \A x \in S : x <= b
      OBVIOUS
    <3>3. PICK top \in S : \A x \in S : x <= top
      BY <3>1, <3>2, MaxIs
    <3> DEFINE R == S \ {top}
    <3>4. R \in SUBSET (0..b) /\ Cardinality(R) = n
      <4>1. IsFiniteSet(S)
        BY <1>0
      <4> QED
        BY <2>1, <3>3, <4>1, FS_RemoveElement
    <3>5. PICK g : Upwards(g, n, R)
      BY <1>2, <3>4
    <3> DEFINE f == [i \in 1..n + 1 |-> IF i = n + 1 THEN top ELSE g[i]]
    <3>6. f \in [1..n + 1 -> S]
      BY <3>3, <3>5 DEF Upwards
    <3>7. \A x \in S : \E i \in 1..n + 1 : f[i] = x
      <4> TAKE x \in S
      <4>1. CASE x = top
        BY <4>1
      <4>2. CASE x # top
        <5>1. PICK i \in 1..n : g[i] = x
          BY <3>5, <4>2 DEF Upwards
        <5>2. i \in 1..n + 1 /\ f[i] = x
          BY <5>1
        <5> QED
          BY <5>2
      <4> QED
        BY <4>1, <4>2
    <3>8. \A i, j \in 1..n + 1 : i < j => f[i] < f[j]
      <4> TAKE i, j \in 1..n + 1
      <4> HAVE i < j
      <4>1. i \in 1..n /\ f[i] = g[i] /\ g[i] \in R
        BY <3>5 DEF Upwards
      <4>2. CASE j = n + 1
        <5>1. g[i] \in Nat /\ top \in Nat /\ g[i] # top /\ g[i] <= top
          BY <3>2, <3>3, <4>1
        <5> QED
          BY <4>1, <4>2, <5>1
      <4>3. CASE j # n + 1
        <5>1. j \in 1..n /\ f[j] = g[j]
          BY <4>3
        <5> QED
          BY <3>5, <4>1, <5>1 DEF Upwards
      <4> QED
        BY <4>2, <4>3
    <3>9. Upwards(f, n + 1, S)
      BY <3>6, <3>7, <3>8 DEF Upwards
    <3> QED
      BY <3>9
  <2> QED
    BY <1>2, <2>1
<1>3. \A n \in 0..b + 1 : n \in N
  <2> HIDE DEF N
  <2>1. b + 1 \in Nat
    OBVIOUS
  <2> QED
    BY <1>1, <1>2, <2>1, Climbing
<1> QED
  BY <1>0, <1>3

-----------------------------------------------------------------------------
(* A sequence of sequences as one: where each of its parts begins.         *)

\* flat[k] is the parts up to k, one after the other; at[k] is where part k ends.
EndsAt(at, parts, n) ==
    /\ at \in [0..n -> Nat] /\ at[0] = 0
    /\ \A k \in 1..n : at[k] = at[k - 1] + Len(parts[k])

HoldsParts(flat, at, parts, n) ==
    /\ Len(flat) = at[n]
    /\ \A k \in 1..n, j \in Nat : j \in 1..Len(parts[k]) =>
         at[k - 1] + j \in 1..at[n] /\ flat[at[k - 1] + j] = parts[k][j]
    /\ \A p \in 1..at[n] : \E k \in 1..n : \E j \in 1..Len(parts[k]) : p = at[k - 1] + j

LEMMA FlattenIs ==
    ASSUME NEW S, NEW n \in Nat, NEW parts \in [1..n -> Seq(S)]
    PROVE  /\ FlattenSeq(parts) \in Seq(S)
           /\ \E at : EndsAt(at, parts, n) /\ HoldsParts(FlattenSeq(parts), at, parts, n)
<1>1. parts \in Seq(Seq(S)) /\ Len(parts) = n
  BY FunctionIsSeq
<1>2. CASE n = 0
  <2>1. FlattenSeq(parts) = parts /\ parts = <<>>
    BY <1>1, <1>2 DEF FlattenSeq
  <2> DEFINE none == [k \in 0..0 |-> 0]
  <2>2. EndsAt(none, parts, n)
    BY <1>2 DEF EndsAt
  <2>3. HoldsParts(FlattenSeq(parts), none, parts, n)
    BY <1>2, <2>1 DEF HoldsParts
  <2>4. FlattenSeq(parts) \in Seq(S)
    BY <2>1
  <2> QED
    BY <2>2, <2>3, <2>4
<1>3. CASE n # 0
  <2> DEFINE g == [x \in ((1 + 1)..n) \X Seq(S) |-> x[2] \o parts[x[1]]]
             Is(f) == f = [i \in 1..n |-> IF i = 1 THEN parts[i] ELSE f[i - 1] \o parts[i]]
  <2>1. StepsOn(g, Seq(S), 1, n) /\ parts[1] \in Seq(S)
    <3>1. ASSUME NEW x \in ((1 + 1)..n) \X Seq(S) PROVE x[2] \o parts[x[1]] \in Seq(S)
      <4>1. x[2] \in Seq(S) /\ parts[x[1]] \in Seq(S)
        BY <3>1
      <4> QED
        BY <4>1, ConcatProperties
    <3> QED
      BY <1>3, <3>1 DEF StepsOn
  <2>2. PICK e : FollowsFrom(e, g, parts[1], Seq(S), 1, n)
    <3> HIDE DEF g
    <3> QED
      BY <2>1, Recursion
  <2>3. Is(e)
    <3>1. e \in [1..n -> Seq(S)] /\ e[1] = parts[1]
      BY <2>2 DEF FollowsFrom
    <3>2. ASSUME NEW i \in 1..n, i # 1 PROVE e[i] = e[i - 1] \o parts[i]
      <4>1. i \in (1 + 1)..n /\ i - 1 \in 1..n
        BY <3>2
      <4>2. e[i] = g[<<i, e[i - 1]>>] /\ e[i - 1] \in Seq(S)
        BY <2>2, <3>1, <4>1 DEF FollowsFrom
      <4>3. <<i, e[i - 1]>> \in ((1 + 1)..n) \X Seq(S)
        BY <4>1, <4>2
      <4> QED
        BY <4>2, <4>3
    <3> QED
      BY <3>1, <3>2
  <2>4. PICK f : f = CHOOSE h : Is(h)
    OBVIOUS
  <2>5. Is(f)
    <3> HIDE DEF Is
    <3> QED
      BY <2>3, <2>4
  <2>6. FlattenSeq(parts) = f[n]
    BY <1>1, <1>3, <2>4 DEF FlattenSeq
  <2>7. f[1] = parts[1] /\ \A i \in 2..n : f[i] = f[i - 1] \o parts[i]
    <3>1. \A i \in 1..n : f[i] = IF i = 1 THEN parts[i] ELSE f[i - 1] \o parts[i]
      BY <2>5
    <3>2. 1 \in 1..n /\ \A i \in 2..n : i \in 1..n /\ i # 1
      BY <1>3
    <3> QED
      BY <3>1, <3>2
  <2> HIDE DEF g, Is
  <2> DEFINE at == [k \in 0..n |-> IF k = 0 THEN 0 ELSE Len(f[k])]
             Good(i) == f[i] \in Seq(S) /\ HoldsParts(f[i], at, parts, i)
             N == {i \in 1..n : Good(i)}
  <2>8. at[0] = 0 /\ \A i \in 1..n : at[i] = Len(f[i])
    <3>1. 0 \in 0..n /\ \A i \in 1..n : i \in 0..n /\ i # 0
      OBVIOUS
    <3> QED
      BY <3>1
  <2> HIDE DEF at
  <2>9. Good(1)
    <3>1. f[1] \in Seq(S) /\ f[1] = parts[1] /\ Len(parts[1]) \in Nat
      BY <2>1, <2>7, LenProperties
    <3>2. at[0] = 0 /\ at[1] = Len(parts[1])
      <4>1. 1 \in 1..n
        BY <1>3
      <4> QED
        BY <2>8, <3>1, <4>1
    <3>3. ASSUME NEW k \in 1..1, NEW j \in Nat, j \in 1..Len(parts[k])
          PROVE  at[k - 1] + j \in 1..at[1] /\ f[1][at[k - 1] + j] = parts[k][j]
      <4>1. k = 1 /\ k - 1 = 0
        OBVIOUS
      <4>2. at[k - 1] + j = j
        BY <3>2, <4>1
      <4> QED
        BY <3>1, <3>2, <3>3, <4>1, <4>2
    <3>4. ASSUME NEW p \in 1..at[1] PROVE \E k \in 1..1 : \E j \in 1..Len(parts[k]) : p = at[k - 1] + j
      <4>1. p \in 1..Len(parts[1]) /\ p = at[1 - 1] + p /\ 1 \in 1..1
        BY <3>1, <3>2
      <4> QED
        BY <4>1
    <3>5. HoldsParts(f[1], at, parts, 1)
      BY <3>1, <3>2, <3>3, <3>4 DEF HoldsParts
    <3> QED
      BY <3>1, <3>5
  <2>10. ASSUME NEW i \in 1..n, Good(i), i < n PROVE Good(i + 1) /\ at[i + 1] = at[i] + Len(parts[i + 1])
    <3> DEFINE s == f[i]
               t == parts[i + 1]
    <3>1. i + 1 \in 2..n /\ i + 1 \in 1..n /\ i + 1 - 1 = i /\ i \in Nat
      BY <2>10
    <3>2. f[i + 1] = s \o t /\ s \in Seq(S) /\ t \in Seq(S)
      <4>1. f[i + 1] = f[i] \o parts[i + 1]
        <5>1. PICK m : m = i + 1
          OBVIOUS
        <5>2. m \in 2..n /\ m - 1 = i
          BY <3>1, <5>1
        <5>3. f[m] = f[m - 1] \o parts[m]
          BY <2>7, <5>2
        <5> QED
          BY <5>1, <5>2, <5>3
      <4>2. f[i] \in Seq(S)
        BY <2>10
      <4>3. parts[i + 1] \in Seq(S)
        BY <3>1
      <4> QED
        BY <3>1, <4>1, <4>2, <4>3
    <3>3. /\ s \o t \in Seq(S) /\ Len(s \o t) = Len(s) + Len(t) /\ Len(s) \in Nat /\ Len(t) \in Nat
          /\ \A j \in 1..Len(s) + Len(t) : (s \o t)[j] = IF j <= Len(s) THEN s[j] ELSE t[j - Len(s)]
      BY <3>2, ConcatProperties, LenProperties
    <3>4. at[i + 1] = Len(s \o t) /\ at[i] = Len(s)
      BY <2>8, <3>1, <3>2
    <3>5. HoldsParts(s, at, parts, i)
      BY <2>10
    <3>6. PICK whole : whole = s \o t
      OBVIOUS
    <3>7. t = parts[i + 1]
      OBVIOUS
    <3> HIDE DEF s, t
    <3>8. HoldsParts(whole, at, parts, i + 1)
      <4>1. Len(whole) = at[i + 1]
        BY <3>4, <3>6
      <4>2. ASSUME NEW k \in 1..i + 1, NEW j \in Nat, j \in 1..Len(parts[k])
            PROVE  /\ at[k - 1] + j \in 1..at[i + 1]
                   /\ whole[at[k - 1] + j] = parts[k][j]
        <5>1. CASE k = i + 1
          <6>1. k - 1 = i /\ parts[k] = t
            BY <3>1, <3>7, <5>1
          <6>2. at[k - 1] = Len(s) /\ j \in 1..Len(t)
            BY <3>4, <4>2, <6>1
          <6>3. Len(s) + j \in 1..Len(s) + Len(t) /\ ~(Len(s) + j <= Len(s)) /\ Len(s) + j - Len(s) = j
            BY <3>3, <4>2, <6>2
          <6>4. whole[Len(s) + j] = t[j]
            BY <3>3, <3>6, <6>3
          <6> QED
            BY <3>3, <3>4, <6>1, <6>2, <6>3, <6>4
        <5>2. CASE k # i + 1
          <6>1. k \in 1..i
            BY <3>1, <5>2
          <6>2. at[k - 1] + j \in 1..at[i] /\ s[at[k - 1] + j] = parts[k][j]
            BY <3>5, <4>2, <6>1 DEF HoldsParts
          <6>3. PICK p : p = at[k - 1] + j
            OBVIOUS
          <6>4. p \in 1..Len(s) /\ s[p] = parts[k][j]
            BY <3>4, <6>2, <6>3
          <6>5. p \in 1..Len(s) + Len(t) /\ p <= Len(s)
            BY <3>3, <6>4
          <6>6. whole[p] = s[p]
            BY <3>3, <3>6, <6>5
          <6> QED
            BY <3>3, <3>4, <6>3, <6>4, <6>5, <6>6
        <5> QED
          BY <5>1, <5>2
      <4>3. ASSUME NEW p \in 1..at[i + 1]
            PROVE  \E k \in 1..i + 1 : \E j \in 1..Len(parts[k]) : p = at[k - 1] + j
        <5>1. CASE p <= Len(s)
          <6>1. p \in 1..at[i]
            BY <3>3, <3>4, <5>1
          <6>2. PICK k \in 1..i : \E j \in 1..Len(parts[k]) : p = at[k - 1] + j
            BY <3>5, <6>1 DEF HoldsParts
          <6>3. k \in 1..i + 1
            BY <3>1
          <6> QED
            BY <6>2, <6>3
        <5>2. CASE ~(p <= Len(s))
          <6>1. p - Len(s) \in 1..Len(t) /\ p = Len(s) + (p - Len(s))
            BY <3>3, <3>4, <5>2
          <6>2. PICK k \in 1..i + 1 : k - 1 = i /\ parts[k] = t
            BY <3>1, <3>7
          <6>3. PICK j \in 1..Len(parts[k]) : p = Len(s) + j
            BY <6>1, <6>2
          <6> QED
            BY <3>4, <6>2, <6>3
        <5> QED
          BY <5>1, <5>2
      <4> QED
        BY <4>1, <4>2, <4>3 DEF HoldsParts
    <3>9. f[i + 1] = whole /\ whole \in Seq(S) /\ at[i + 1] = at[i] + Len(parts[i + 1])
      BY <3>2, <3>3, <3>4, <3>6, <3>7
    <3> QED
      BY <3>8, <3>9
  <2>11. \A i \in 1..n : i \in N
    <3>1. 1 \in N
      BY <1>3, <2>9
    <3>2. \A i \in 1..n : i \in N /\ i < n => i + 1 \in N
      <4> HIDE DEF Good
      <4> QED
        BY <2>10
    <3> HIDE DEF N
    <3> QED
      BY <3>1, <3>2, Climbing
  <2>12. \A i \in 1..n : Good(i)
    <3> HIDE DEF Good
    <3> QED
      BY <2>11
  <2>13. EndsAt(at, parts, n)
    <3>1. \A i \in 1..n : at[i] \in Nat
      <4>1. \A i \in 1..n : f[i] \in Seq(S)
        BY <2>12
      <4> QED
        BY <2>8, <4>1, LenProperties
    <3>2. at \in [0..n -> Nat]
      <4>1. DOMAIN at = 0..n /\ at = [k \in 0..n |-> at[k]]
        BY DEF at
      <4>2. \A k \in 0..n : k = 0 \/ k \in 1..n
        OBVIOUS
      <4>3. \A k \in 0..n : at[k] \in Nat
        BY <2>8, <3>1, <4>2
      <4> QED
        BY <4>1, <4>3
    <3>3. ASSUME NEW k \in 1..n PROVE at[k] = at[k - 1] + Len(parts[k])
      <4>1. CASE k = 1
        <5>1. at[1] = Len(parts[1]) /\ 1 - 1 = 0
          BY <2>7, <2>8, <4>1
        <5> QED
          BY <2>1, <2>8, <4>1, <5>1, LenProperties
      <4>2. CASE k # 1
        <5>1. PICK i \in 1..n : k = i + 1 /\ i < n /\ k - 1 = i
          <6>1. k - 1 \in 1..n /\ k = (k - 1) + 1 /\ k - 1 < n
            BY <4>2
          <6> QED
            BY <6>1
        <5>2. at[i + 1] = at[i] + Len(parts[i + 1])
          <6>1. Good(i)
            BY <2>12
          <6> HIDE DEF Good
          <6> QED
            BY <2>10, <5>1, <6>1
        <5> QED
          BY <5>1, <5>2
      <4> QED
        BY <4>1, <4>2
    <3> QED
      BY <2>8, <3>2, <3>3 DEF EndsAt
  <2>14. f[n] \in Seq(S) /\ HoldsParts(f[n], at, parts, n)
    <3>1. n \in 1..n
      BY <1>3
    <3>2. Good(n)
      <4> HIDE DEF Good
      <4> QED
        BY <2>12, <3>1
    <3> QED
      BY <3>2
  <2> QED
    BY <2>6, <2>13, <2>14
<1> QED
  BY <1>2, <1>3

=============================================================================
