--------------------------- MODULE CollectionFacts ---------------------------
(***************************************************************************)
(* Facts about filtered sequences (Collections) and about sums over finite *)
(* sets (Functions), for the proofs about the modules that use them.  The  *)
(* induction theorems of the library take an operator as a parameter; here *)
(* an induction is over a set: Nat has no subset that contains 0, is       *)
(* closed under successors and misses a number.                            *)
(***************************************************************************)
EXTENDS Collections, Integers, FiniteSets, Functions, FiniteSetTheorems,
        SequenceTheorems, WellFoundedInduction, TLAPS

-----------------------------------------------------------------------------
(* Induction over sets of numbers. *)

\* A set of natural numbers that is not empty has a least element.
LEMMA LeastNumber ==
    ASSUME NEW T, T \subseteq Nat, T # {}
    PROVE  \E x \in T : \A y \in T : x <= y
<1>1. IsWellFoundedOn({p \in Nat \X Nat : p[1] < p[2]}, Nat)
  BY NatLessThanWellFounded DEF OpToRel
<1>2. PICK x \in T : \A y \in T : ~ (<<y, x>> \in {p \in Nat \X Nat : p[1] < p[2]})
  BY <1>1, WFMin
<1>3. \A y \in T : ~ (y < x)
  BY <1>2
<1>4. QED
  BY <1>3

\* Induction: a set with 0 and the successors of its members has every number.
LEMMA SetInduction ==
    ASSUME NEW B, 0 \in B, \A n \in Nat : n \in B => n + 1 \in B
    PROVE  Nat \subseteq B
<1> SUFFICES ASSUME Nat \ B # {} PROVE FALSE
  OBVIOUS
<1>1. PICK x \in Nat \ B : \A y \in Nat \ B : x <= y
  BY LeastNumber
<1>2. x # 0
  BY <1>1
<1>3. x - 1 \in Nat /\ x - 1 \in B
  BY <1>1, <1>2
<1>4. (x - 1) + 1 \in B
  BY <1>3
<1>5. QED
  BY <1>1, <1>4

\* A set of numbers up to n that is not empty has a greatest element.
LEMMA GreatestNumber ==
    ASSUME NEW n \in Nat, NEW T, T \subseteq 0..n, T # {}
    PROVE  \E x \in T : \A y \in T : y <= x
<1> DEFINE D == {n - x : x \in T}
<1>1. D \subseteq Nat /\ D # {}
  <2>1. \A x \in T : n - x \in Nat
    OBVIOUS
  <2>2. QED
    BY <2>1
<1>2. PICK d \in D : \A y \in D : d <= y
  BY <1>1, LeastNumber
<1>3. PICK x \in T : d = n - x
  BY <1>2
<1>4. \A y \in T : n - x <= n - y
  BY <1>2, <1>3
<1>5. QED
  BY <1>4

-----------------------------------------------------------------------------
(* Filtered sequences. *)

\* g is the recursive function of Gather, on 0..n.
Gathered(g, f, S, n) ==
    g = [i \in 0..n |->
           IF i = 0 THEN <<>>
           ELSE IF i \in S THEN Append(g[i - 1], f[i]) ELSE g[i - 1]]

\* There is one.
LEMMA GatheredExists ==
    ASSUME NEW f, NEW S
    PROVE  \A n \in Nat : \E g : Gathered(g, f, S, n)
<1> USE DEF Gathered
<1> DEFINE Is(g, n) == Gathered(g, f, S, n)
           B == {n \in Nat : \E g : Is(g, n)}
<1>1. 0 \in B
  <2>1. Is([i \in 0..0 |-> <<>>], 0)
    OBVIOUS
  <2>2. QED
    BY <2>1
<1>2. ASSUME NEW n \in Nat, n \in B PROVE n + 1 \in B
  <2>1. PICK g : Is(g, n)
    BY <1>2
  <2> DEFINE h == [i \in 0..(n + 1) |->
             IF i = 0 THEN <<>>
             ELSE IF i \in S THEN Append(g[i - 1], f[i]) ELSE g[i - 1]]
  <2>2. \A i \in 0..n : h[i] = g[i]
    <3>1. \A i \in 0..n : i \in 0..(n + 1)
      OBVIOUS
    <3>2. \A i \in 0..n : g[i] =
             IF i = 0 THEN <<>>
             ELSE IF i \in S THEN Append(g[i - 1], f[i]) ELSE g[i - 1]
      BY <2>1, Zenon
    <3>3. \A i \in 0..n : h[i] =
             IF i = 0 THEN <<>>
             ELSE IF i \in S THEN Append(g[i - 1], f[i]) ELSE g[i - 1]
      BY <3>1, Zenon
    <3>4. QED
      BY <3>2, <3>3, Zenon
  <2>3. \A i \in 0..(n + 1) : i # 0 => i - 1 \in 0..n
    OBVIOUS
  <2> HIDE DEF h
  <2>4. \A i \in 0..(n + 1) : i # 0 => h[i - 1] = g[i - 1]
    BY <2>2, <2>3, Zenon
  <2>5. Is(h, n + 1)
    BY <2>4 DEF h
  <2>6. n + 1 \in Nat
    OBVIOUS
  <2>7. QED
    BY <2>5, <2>6, Zenon
<1> HIDE DEF B
<1>3. Nat \subseteq B
  BY <1>1, <1>2, SetInduction
<1>4. QED
  BY <1>3 DEF B

\* What Gather returns: e[i] is the number the i-th value belongs to.
Places(e, k, f, S, n) ==
    /\ e \in [1..Len(k) -> 1..n]
    /\ \A i, j \in 1..Len(k) : i < j => e[i] < e[j]
    /\ \A i \in 1..Len(k) : k[i] = f[e[i]] /\ e[i] \in S
    /\ \A j \in 1..n : j \in S => \E i \in 1..Len(k) : e[i] = j

\* Gather lists, in order, the values of f at the places of S, and nothing else.
LEMMA GatherPlaces ==
    ASSUME NEW T, NEW f, NEW S, NEW N \in Nat, \A i \in 1..N : i \in S => f[i] \in T
    PROVE  /\ Gather(f, S, N) \in Seq(T)
           /\ \E e : Places(e, Gather(f, S, N), f, S, N)
<1> DEFINE Is(g, n) == Gathered(g, f, S, n)
           g == CHOOSE g : Is(g, N)
           OK(n) == /\ g[n] \in Seq(T)
                    /\ \E e : /\ e \in [1..Len(g[n]) -> 1..n]
                              /\ \A i, j \in 1..Len(g[n]) : i < j => e[i] < e[j]
                              /\ \A i \in 1..Len(g[n]) :
                                   g[n][i] = f[e[i]] /\ e[i] \in S
                              /\ \A j \in 1..n : j \in S =>
                                   \E i \in 1..Len(g[n]) : e[i] = j
           B == {n \in Nat : n <= N => OK(n)}
<1>1. Is(g, N)
  <2>1. \E h : Is(h, N)
    BY ONLY N \in Nat, GatheredExists
  <2>2. QED
    BY <2>1, Zenon
<1>2. Gather(f, S, N) = g[N]
  BY DEF Gather, Gathered
<1>a. /\ g[0] = <<>>
      /\ \A i \in 1..N :
            g[i] = IF i \in S THEN Append(g[i - 1], f[i]) ELSE g[i - 1]
  <2> HIDE DEF g
  <2>1. \A i \in 0..N : g[i] =
             IF i = 0 THEN <<>>
             ELSE IF i \in S THEN Append(g[i - 1], f[i]) ELSE g[i - 1]
    BY <1>1, Zenon DEF Gathered
  <2>2. 0 \in 0..N /\ \A i \in 1..N : i \in 0..N /\ i # 0
    OBVIOUS
  <2>3. QED
    BY <2>1, <2>2, Zenon
<1> HIDE DEF g
<1>3. 0 \in B
  <2>1. g[0] \in Seq(T) /\ Len(g[0]) = 0
    BY <1>a
  <2>2. <<>> \in [1..0 -> 1..0]
    OBVIOUS
  <2>3. QED
    BY <2>1, <2>2
<1>4. ASSUME NEW n \in Nat, n \in B PROVE n + 1 \in B
  <2> SUFFICES ASSUME n + 1 <= N PROVE OK(n + 1)
    OBVIOUS
  <2>1. OK(n)
    BY <1>4
  <2>2. PICK e : /\ e \in [1..Len(g[n]) -> 1..n]
                 /\ \A i, j \in 1..Len(g[n]) : i < j => e[i] < e[j]
                 /\ \A i \in 1..Len(g[n]) : g[n][i] = f[e[i]] /\ e[i] \in S
                 /\ \A j \in 1..n : j \in S => \E i \in 1..Len(g[n]) : e[i] = j
    BY <2>1
  <2>3. /\ n + 1 \in 1..N /\ (n + 1) - 1 = n
        /\ g[n + 1] = IF n + 1 \in S THEN Append(g[n], f[n + 1]) ELSE g[n]
    BY <1>a
  <2>4. CASE n + 1 \notin S
    <3>1. g[n + 1] = g[n]
      BY <2>3, <2>4
    <3>2. e \in [1..Len(g[n]) -> 1..(n + 1)]
      BY <2>2
    <3>3. \A j \in 1..(n + 1) : j \in S => j \in 1..n
      BY <2>4
    <3>4. QED
      BY <2>1, <2>2, <3>1, <3>2, <3>3
  <2>5. CASE n + 1 \in S
    <3> DEFINE m == Len(g[n])
               d == [i \in 1..(m + 1) |-> IF i = m + 1 THEN n + 1 ELSE e[i]]
    <3>1. /\ g[n] \in Seq(T) /\ m \in Nat /\ f[n + 1] \in T
          /\ g[n + 1] = Append(g[n], f[n + 1])
      BY <2>1, <2>3, <2>5
    <3>2. /\ g[n + 1] \in Seq(T) /\ Len(g[n + 1]) = m + 1
          /\ \A i \in 1..m : g[n + 1][i] = g[n][i]
          /\ g[n + 1][m + 1] = f[n + 1]
      BY <3>1
    <3> HIDE DEF m
    <3>3. d \in [1..(m + 1) -> 1..(n + 1)]
      BY <2>2, <3>1 DEF m
    <3>4. \A i, j \in 1..(m + 1) : i < j => d[i] < d[j]
      <4> SUFFICES ASSUME NEW i \in 1..(m + 1), NEW j \in 1..(m + 1), i < j
                   PROVE  d[i] < d[j]
        OBVIOUS
      <4>0. i \in 1..m /\ i # m + 1
        BY <3>1
      <4>1. d[i] = e[i] /\ e[i] \in 1..n
        BY <4>0, <2>2 DEF m
      <4>2. CASE j = m + 1
        BY <4>0, <4>1, <4>2, <3>1
      <4>3. CASE j # m + 1
        BY <2>2, <4>0, <4>1, <4>3, <3>1 DEF m
      <4>4. QED
        BY <4>2, <4>3
    <3>5. \A i \in 1..(m + 1) : g[n + 1][i] = f[d[i]] /\ d[i] \in S
      BY <2>2, <2>5, <3>1, <3>2 DEF m
    <3>6. \A j \in 1..(n + 1) : j \in S => \E i \in 1..(m + 1) : d[i] = j
      <4> SUFFICES ASSUME NEW j \in 1..(n + 1), j \in S
                   PROVE  \E i \in 1..(m + 1) : d[i] = j
        OBVIOUS
      <4>1. CASE j = n + 1
        BY <4>1, <3>1
      <4>2. CASE j # n + 1
        <5>1. j \in 1..n
          BY <4>2
        <5>2. PICK i \in 1..m : e[i] = j
          BY <5>1, <2>2 DEF m
        <5>3. i \in 1..(m + 1) /\ d[i] = j
          BY <5>2, <3>1
        <5>4. QED
          BY <5>3
      <4>3. QED
        BY <4>1, <4>2
    <3>7. QED
      <4> HIDE DEF d
      <4>1. \E x : /\ x \in [1..(m + 1) -> 1..(n + 1)]
                   /\ \A i, j \in 1..(m + 1) : i < j => x[i] < x[j]
                   /\ \A i \in 1..(m + 1) :
                        g[n + 1][i] = f[x[i]] /\ x[i] \in S
                   /\ \A j \in 1..(n + 1) : j \in S =>
                        \E i \in 1..(m + 1) : x[i] = j
        <5> WITNESS d
        <5> QED
          BY <3>3, <3>4, <3>5, <3>6
      <4>2. QED
        BY <3>2, <4>1
  <2>6. QED
    BY <2>4, <2>5
<1> HIDE DEF B
<1>5. Nat \subseteq B
  BY <1>3, <1>4, SetInduction
<1>6. OK(N)
  BY <1>5 DEF B
<1>7. QED
  BY <1>2, <1>6 DEF Places

\* What Keep returns: the members of s in S, each from a place of its own, in
\* the order of s, and all of them.
Embeds(e, k, s, S) ==
    /\ e \in [1..Len(k) -> 1..Len(s)]
    /\ \A i, j \in 1..Len(k) : i < j => e[i] < e[j]
    /\ \A i \in 1..Len(k) : k[i] = s[e[i]] /\ s[e[i]] \in S
    /\ \A j \in 1..Len(s) : s[j] \in S => \E i \in 1..Len(k) : e[i] = j

\* What Keep leaves is a subsequence of s: all of its elements in S, in their order.
LEMMA KeepEmbeds ==
    ASSUME NEW T, NEW s \in Seq(T), NEW S
    PROVE  /\ Keep(s, S) \in Seq(T)
           /\ \E e : Embeds(e, Keep(s, S), s, S)
<1> DEFINE A == {i \in DOMAIN s : s[i] \in S}
           k == Gather(s, A, Len(s))
<1>1. Len(s) \in Nat /\ DOMAIN s = 1..Len(s) /\ \A i \in 1..Len(s) : s[i] \in T
  OBVIOUS
<1>2. k \in Seq(T) /\ \E e : Places(e, k, s, A, Len(s))
  BY <1>1, GatherPlaces
<1>3. k = Keep(s, S)
  BY DEF Keep
<1> HIDE DEF k
<1>4. PICK e : Places(e, k, s, A, Len(s))
  BY <1>2
<1>5. Embeds(e, k, s, S)
  BY <1>1, <1>4 DEF Places, Embeds
<1>6. QED
  BY <1>2, <1>3, <1>5

\* Keep is no longer than s, has the members of s in S, and repeats nothing
\* that s does not repeat.
LEMMA KeepFacts ==
    ASSUME NEW T, NEW s \in Seq(T), NEW S
    PROVE  /\ Keep(s, S) \in Seq(T)
           /\ Len(Keep(s, S)) <= Len(s)
           /\ Elements(Keep(s, S)) = Elements(s) \cap S
           /\ IsInjective(s) => IsInjective(Keep(s, S))
<1> DEFINE k == Keep(s, S)
<1>1. k \in Seq(T) /\ \E e : Embeds(e, k, s, S)
  BY KeepEmbeds
<1> HIDE DEF k
<1>2. PICK e : Embeds(e, k, s, S)
  BY <1>1
<1>3. /\ e \in [1..Len(k) -> 1..Len(s)]
      /\ \A i, j \in 1..Len(k) : i < j => e[i] < e[j]
      /\ \A i \in 1..Len(k) : k[i] = s[e[i]] /\ s[e[i]] \in S
      /\ \A j \in 1..Len(s) : s[j] \in S => \E i \in 1..Len(k) : e[i] = j
  BY <1>2 DEF Embeds
<1>4. /\ Len(k) \in Nat /\ Len(s) \in Nat
      /\ DOMAIN k = 1..Len(k) /\ DOMAIN s = 1..Len(s)
  BY <1>1
<1>5. \A i, j \in 1..Len(k) : e[i] = e[j] => i = j
  <2> SUFFICES ASSUME NEW i \in 1..Len(k), NEW j \in 1..Len(k), e[i] = e[j], i # j
               PROVE  FALSE
    OBVIOUS
  <2>1. i < j \/ j < i
    BY <1>4
  <2>2. e[i] < e[j] \/ e[j] < e[i]
    BY <2>1, <1>3
  <2>3. e[i] \in 1..Len(s) /\ e[j] \in 1..Len(s)
    BY <1>3
  <2>4. QED
    BY <2>2, <2>3, <1>4
<1>6. Len(k) <= Len(s)
  <2>1. e \in Injection(1..Len(k), 1..Len(s))
    BY <1>3, <1>5 DEF Injection, IsInjective
  <2>2. /\ IsFiniteSet(1..Len(s)) /\ Cardinality(1..Len(s)) = Len(s)
        /\ Cardinality(1..Len(k)) = Len(k)
    <3>1. \A n \in Nat : IsFiniteSet(1..n) /\ Cardinality(1..n) = n
      <4> TAKE n \in Nat
      <4>1. IsFiniteSet(1..n) /\ Cardinality(1..n) = IF 1 > n THEN 0 ELSE n - 1 + 1
        BY FS_Interval
      <4>2. QED
        BY <4>1
    <3>2. QED
      BY <3>1, <1>4
  <2>3. Cardinality(1..Len(k)) <= Cardinality(1..Len(s))
    BY <2>1, <2>2, FS_Injection
  <2>4. QED
    BY <2>2, <2>3
<1>7. Elements(k) = Elements(s) \cap S
  <2>1. \A i \in 1..Len(k) : k[i] \in Elements(s) \cap S
    BY <1>3, <1>4 DEF Elements
  <2>2. \A j \in 1..Len(s) : s[j] \in S => s[j] \in Elements(k)
    <3> SUFFICES ASSUME NEW j \in 1..Len(s), s[j] \in S PROVE s[j] \in Elements(k)
      OBVIOUS
    <3>1. PICK i \in 1..Len(k) : e[i] = j
      BY <1>3
    <3>2. k[i] = s[j]
      BY <3>1, <1>3
    <3>3. QED
      BY <3>2, <1>4 DEF Elements
  <2>3. QED
    BY <2>1, <2>2, <1>4 DEF Elements
<1>8. ASSUME IsInjective(s) PROVE IsInjective(k)
  BY <1>3, <1>4, <1>5, <1>8 DEF IsInjective
<1>9. QED
  BY <1>1, <1>6, <1>7, <1>8 DEF k

\* What Keep returns is in the order of s.
LEMMA KeepOrder ==
    ASSUME NEW T, NEW s \in Seq(T), NEW S, NEW i \in DOMAIN Keep(s, S),
           NEW j \in DOMAIN Keep(s, S), i < j
    PROVE  \E a, b \in DOMAIN s : a < b /\ Keep(s, S)[i] = s[a] /\ Keep(s, S)[j] = s[b]
<1> DEFINE k == Keep(s, S)
<1>1. k \in Seq(T) /\ \E e : Embeds(e, k, s, S)
  BY KeepEmbeds
<1>2. i \in DOMAIN k /\ j \in DOMAIN k
  OBVIOUS
<1> HIDE DEF k
<1>3. PICK e : Embeds(e, k, s, S)
  BY <1>1
<1>4. i \in 1..Len(k) /\ j \in 1..Len(k) /\ DOMAIN s = 1..Len(s)
  BY <1>1, <1>2
<1>5. /\ e[i] \in DOMAIN s /\ e[j] \in DOMAIN s /\ e[i] < e[j]
      /\ k[i] = s[e[i]] /\ k[j] = s[e[j]]
  BY <1>3, <1>4 DEF Embeds
<1>6. QED
  BY <1>5 DEF k

\* Keep is s when S has all of it.
LEMMA KeepAll ==
    ASSUME NEW T, NEW s \in Seq(T), NEW S, Elements(s) \subseteq S
    PROVE  Keep(s, S) = s
<1> DEFINE k == Keep(s, S)
<1>1. k \in Seq(T) /\ \E e : Embeds(e, k, s, S)
  BY KeepEmbeds
<1> HIDE DEF k
<1>2. PICK e : Embeds(e, k, s, S)
  BY <1>1
<1>3. /\ e \in [1..Len(k) -> 1..Len(s)]
      /\ \A i, j \in 1..Len(k) : i < j => e[i] < e[j]
      /\ \A i \in 1..Len(k) : k[i] = s[e[i]]
      /\ \A j \in 1..Len(s) : \E i \in 1..Len(k) : e[i] = j
  BY <1>2 DEF Embeds, Elements
<1>4. Len(k) \in Nat /\ Len(s) \in Nat
  BY <1>1
<1>5. \A i \in 1..Len(k) : e[i] = i
  <2> DEFINE T1 == {i \in 1..Len(k) : e[i] # i}
  <2> SUFFICES ASSUME T1 # {} PROVE FALSE
    OBVIOUS
  <2>1. T1 \subseteq Nat
    BY <1>4
  <2>2. PICK i \in T1 : \A j \in T1 : i <= j
    BY <2>1, LeastNumber
  <2>3. \A j \in 1..Len(k) : j < i => e[j] = j
    BY <2>1, <2>2
  <2>4. i \in 1..Len(k) /\ e[i] \in 1..Len(s) /\ e[i] # i
    BY <1>3
  <2>5. i < e[i]
    <3>1. CASE i = 1
      BY <2>4, <1>4, <3>1
    <3>2. CASE i # 1
      <4>1. i - 1 \in 1..Len(k) /\ i - 1 < i
        BY <2>4, <1>4, <3>2
      <4>2. e[i - 1] = i - 1 /\ e[i - 1] < e[i]
        BY <4>1, <2>3, <2>4, <1>3
      <4>3. QED
        BY <4>1, <4>2, <2>4, <1>4
    <3>3. QED
      BY <3>1, <3>2
  <2>6. i \in 1..Len(s)
    BY <2>4, <2>5, <1>4
  <2>7. PICK m \in 1..Len(k) : e[m] = i
    BY <2>6, <1>3
  <2>8. ~ (m < i)
    BY <2>7, <2>3, <2>4, <1>4
  <2>9. ~ (i < m)
    BY <2>7, <2>5, <2>4, <1>3, <1>4
  <2>10. QED
    BY <2>7, <2>8, <2>9, <2>4, <1>4
<1>6. Len(k) = Len(s)
  <2>1. Len(k) # 0 => Len(k) <= Len(s)
    <3>1. ASSUME Len(k) # 0 PROVE Len(k) <= Len(s)
      <4>1. Len(k) \in 1..Len(k)
        BY <3>1, <1>4
      <4>2. QED
        BY <4>1, <1>3, <1>4, <1>5
    <3>2. QED
      BY <3>1
  <2>2. Len(s) # 0 => Len(s) <= Len(k)
    <3>1. ASSUME Len(s) # 0 PROVE Len(s) <= Len(k)
      <4>1. Len(s) \in 1..Len(s)
        BY <3>1, <1>4
      <4>2. PICK i \in 1..Len(k) : e[i] = Len(s)
        BY <4>1, <1>3
      <4>3. QED
        BY <4>2, <1>4, <1>5
    <3>2. QED
      BY <3>1
  <2>3. QED
    BY <2>1, <2>2, <1>4
<1>7. \A i \in 1..Len(k) : k[i] = s[i]
  BY <1>3, <1>5
<1>8. k = s
  BY <1>1, <1>4, <1>6, <1>7
<1>9. QED
  BY <1>8 DEF k

\* The same of Without.
LEMMA WithoutFacts ==
    ASSUME NEW T, NEW s \in Seq(T), NEW S
    PROVE  /\ Without(s, S) \in Seq(T)
           /\ Len(Without(s, S)) <= Len(s)
           /\ Elements(Without(s, S)) = Elements(s) \ S
           /\ IsInjective(s) => IsInjective(Without(s, S))
<1>1. Elements(s) \cap (Elements(s) \ S) = Elements(s) \ S
  OBVIOUS
<1>2. QED
  BY <1>1, KeepFacts DEF Without

\* Taking out what is not there changes nothing.
LEMMA WithoutNone ==
    ASSUME NEW T, NEW s \in Seq(T), NEW S, Elements(s) \cap S = {}
    PROVE  Without(s, S) = s
<1>1. Elements(s) \subseteq Elements(s) \ S
  OBVIOUS
<1>2. QED
  BY <1>1, KeepAll DEF Without

-----------------------------------------------------------------------------
(* The elements of the sequences a queue goes through. *)

\* The empty sequence has no element, and none twice.
LEMMA EmptyFacts == Elements(<<>>) = {} /\ IsInjective(<<>>)
BY DEF Elements, IsInjective

\* A sequence with elements.
LEMMA NotEmpty ==
    ASSUME NEW T, NEW s \in Seq(T)
    PROVE  /\ s # <<>> <=> Len(s) > 0
           /\ s # <<>> <=> Elements(s) # {}
           /\ Elements(s) \subseteq T
<1>1. s = <<>> <=> Len(s) = 0
  OBVIOUS
<1>2. Len(s) \in Nat /\ DOMAIN s = 1..Len(s)
  OBVIOUS
<1>3. Len(s) > 0 => 1 \in DOMAIN s
  BY <1>2
<1>4. QED
  BY <1>1, <1>2, <1>3 DEF Elements

\* Taking the head off a queue moves every place down by one and takes one element away.
LEMMA TailFacts ==
    ASSUME NEW T, NEW s \in Seq(T), Len(s) > 0
    PROVE  /\ Tail(s) \in Seq(T) /\ Len(Tail(s)) = Len(s) - 1
           /\ \A i \in 1..(Len(s) - 1) : Tail(s)[i] = s[i + 1]
           /\ Head(s) = s[1] /\ Head(s) \in T /\ Head(s) \in Elements(s)
           /\ Elements(s) = {Head(s)} \cup Elements(Tail(s))
           /\ IsInjective(s) => IsInjective(Tail(s)) /\ Head(s) \notin Elements(Tail(s))
<1>1. /\ Tail(s) \in Seq(T) /\ Len(Tail(s)) = Len(s) - 1
      /\ \A i \in 1..(Len(s) - 1) : Tail(s)[i] = s[i + 1]
  OBVIOUS
<1>2. /\ Head(s) = s[1] /\ Len(s) \in Nat /\ 1 \in DOMAIN s /\ DOMAIN s = 1..Len(s)
      /\ DOMAIN Tail(s) = 1..(Len(s) - 1)
  BY <1>1
<1>3. \A i \in 2..Len(s) : i - 1 \in DOMAIN Tail(s) /\ s[i] = Tail(s)[i - 1]
  BY <1>1, <1>2
<1>4. \A i \in 1..Len(s) : i = 1 \/ i \in 2..Len(s)
  BY <1>2
<1>5. \A i \in DOMAIN Tail(s) : i + 1 \in DOMAIN s /\ i + 1 # 1
  BY <1>2
<1>6. Elements(s) = {Head(s)} \cup Elements(Tail(s))
  <2>1. Elements(s) \subseteq {Head(s)} \cup Elements(Tail(s))
    BY <1>2, <1>3, <1>4 DEF Elements
  <2>2. {Head(s)} \cup Elements(Tail(s)) \subseteq Elements(s)
    BY <1>1, <1>2, <1>5 DEF Elements
  <2>3. QED
    BY <2>1, <2>2
<1>7. ASSUME IsInjective(s) PROVE IsInjective(Tail(s)) /\ Head(s) \notin Elements(Tail(s))
  <2>1. \A a, b \in DOMAIN Tail(s) : Tail(s)[a] = Tail(s)[b] => a + 1 = b + 1
    BY <1>1, <1>2, <1>5, <1>7 DEF IsInjective
  <2>2. \A a \in DOMAIN Tail(s) : Tail(s)[a] # Head(s)
    BY <1>1, <1>2, <1>5, <1>7 DEF IsInjective
  <2>3. QED
    BY <2>1, <2>2, <1>2 DEF IsInjective, Elements
<1>8. QED
  BY <1>1, <1>2, <1>6, <1>7

\* Appending adds one element at the end and repeats none that was not there.
LEMMA AppendFacts ==
    ASSUME NEW T, NEW s \in Seq(T), NEW x \in T
    PROVE  /\ Append(s, x) \in Seq(T) /\ Len(Append(s, x)) = Len(s) + 1
           /\ \A i \in 1..Len(s) : Append(s, x)[i] = s[i]
           /\ Append(s, x)[Len(s) + 1] = x
           /\ Elements(Append(s, x)) = Elements(s) \cup {x}
           /\ IsInjective(s) /\ x \notin Elements(s) => IsInjective(Append(s, x))
<1> DEFINE t == Append(s, x)
<1>1. /\ t \in Seq(T) /\ Len(t) = Len(s) + 1 /\ Len(s) \in Nat
      /\ \A i \in 1..Len(s) : t[i] = s[i]
      /\ t[Len(s) + 1] = x
      /\ DOMAIN s = 1..Len(s) /\ DOMAIN t = 1..(Len(s) + 1)
  OBVIOUS
<1> HIDE DEF t
<1>2. \A i \in DOMAIN t : i \in DOMAIN s \/ i = Len(s) + 1
  BY <1>1
<1>3. DOMAIN s \subseteq DOMAIN t /\ Len(s) + 1 \in DOMAIN t
  BY <1>1
<1>4. Elements(t) = Elements(s) \cup {x}
  BY <1>1, <1>2, <1>3 DEF Elements
<1>5. IsInjective(s) /\ x \notin Elements(s) => IsInjective(t)
  BY <1>1, <1>2 DEF IsInjective, Elements
<1>6. QED
  BY <1>1, <1>4, <1>5 DEF t

\* Concatenation adds up lengths and elements.
LEMMA ConcatFacts ==
    ASSUME NEW T, NEW s \in Seq(T), NEW t \in Seq(T)
    PROVE  /\ s \o t \in Seq(T) /\ Len(s \o t) = Len(s) + Len(t)
           /\ Elements(s \o t) = Elements(s) \cup Elements(t)
           /\ IsInjective(s) /\ IsInjective(t) /\ Elements(s) \cap Elements(t) = {}
                => IsInjective(s \o t)
<1> DEFINE c == s \o t
<1>1. /\ c \in Seq(T) /\ Len(c) = Len(s) + Len(t) /\ Len(s) \in Nat /\ Len(t) \in Nat
      /\ \A i \in 1..Len(s) : c[i] = s[i]
      /\ \A i \in 1..Len(t) : c[Len(s) + i] = t[i]
      /\ DOMAIN s = 1..Len(s) /\ DOMAIN t = 1..Len(t)
      /\ DOMAIN c = 1..(Len(s) + Len(t))
  OBVIOUS
<1> HIDE DEF c
<1>2. \A i \in DOMAIN c : i \in DOMAIN s \/ (i - Len(s) \in DOMAIN t
                                             /\ c[i] = t[i - Len(s)])
  <2> TAKE i \in DOMAIN c
  <2>1. CASE i <= Len(s)
    BY <2>1, <1>1
  <2>2. CASE i > Len(s)
    <3>1. i - Len(s) \in 1..Len(t) /\ Len(s) + (i - Len(s)) = i
      BY <2>2, <1>1
    <3>2. QED
      BY <3>1, <1>1
  <2>3. QED
    BY <2>1, <2>2, <1>1
<1>3. /\ \A i \in DOMAIN s : i \in DOMAIN c /\ c[i] = s[i]
      /\ \A i \in DOMAIN t : Len(s) + i \in DOMAIN c /\ c[Len(s) + i] = t[i]
  BY <1>1
<1>4. Elements(c) = Elements(s) \cup Elements(t)
  BY <1>2, <1>3 DEF Elements
<1>5. ASSUME IsInjective(s), IsInjective(t), Elements(s) \cap Elements(t) = {}
      PROVE  IsInjective(c)
  <2> SUFFICES ASSUME NEW i \in DOMAIN c, NEW j \in DOMAIN c, c[i] = c[j] PROVE i = j
    BY DEF IsInjective
  <2>1. CASE i \in DOMAIN s /\ j \in DOMAIN s
    BY <1>3, <1>5, <2>1 DEF IsInjective
  <2>a. \A x \in DOMAIN s, y \in DOMAIN t : s[x] # t[y]
    BY <1>5 DEF Elements
  <2>2. CASE i \in DOMAIN s /\ j \notin DOMAIN s
    BY <1>2, <1>3, <2>2, <2>a
  <2>3. CASE i \notin DOMAIN s /\ j \in DOMAIN s
    BY <1>2, <1>3, <2>3, <2>a
  <2>4. CASE i \notin DOMAIN s /\ j \notin DOMAIN s
    <3>1. i - Len(s) = j - Len(s)
      BY <1>2, <1>5, <2>4 DEF IsInjective
    <3>2. QED
      BY <3>1, <1>1
  <2>5. QED
    BY <2>1, <2>2, <2>3, <2>4
<1>6. QED
  BY <1>1, <1>4, <1>5 DEF c

-----------------------------------------------------------------------------
(* Sums over finite sets. *)

\* g is the recursive function of SumFunctionOnSet, on D.
Some(s) == CHOOSE x \in s : TRUE
Summed(g, f, D) ==
    g = [s \in D |-> IF s = {} THEN 0 ELSE f[Some(s)] + g[s \ {Some(s)}]]

\* The recursive function exists on the subsets of a finite set.
LEMMA SummedExists ==
    ASSUME NEW f, NEW S, IsFiniteSet(S)
    PROVE  \E g : Summed(g, f, SUBSET S)
<1> DEFINE D(n) == {s \in SUBSET S : Cardinality(s) <= n}
           B == {n \in Nat : \E g : Summed(g, f, D(n))}
<1>1. \A s \in SUBSET S : /\ IsFiniteSet(s) /\ Cardinality(s) \in Nat
                          /\ Cardinality(s) = 0 <=> s = {}
                          /\ Cardinality(s) <= Cardinality(S)
  BY FS_Subset, FS_CardinalityType, FS_EmptySet
<1>2. \A s \in SUBSET S : s # {} =>
        /\ s \ {Some(s)} \in SUBSET S
        /\ Cardinality(s \ {Some(s)}) = Cardinality(s) - 1
  BY <1>1, FS_RemoveElement DEF Some
<1>3. 0 \in B
  <2>1. \A s \in D(0) : s = {}
    BY <1>1
  <2>2. Summed([s \in D(0) |-> 0], f, D(0))
    BY <2>1 DEF Summed
  <2>3. QED
    BY <2>2
<1>4. ASSUME NEW n \in Nat, n \in B PROVE n + 1 \in B
  <2>1. PICK g : Summed(g, f, D(n))
    BY <1>4
  <2> DEFINE h == [s \in D(n + 1) |->
                     IF s = {} THEN 0 ELSE f[Some(s)] + g[s \ {Some(s)}]]
  <2>2. \A s \in D(n) : s \in D(n + 1)
    BY <1>1
  <2>3. \A s \in D(n + 1) : s # {} => s \ {Some(s)} \in D(n)
    BY <1>1, <1>2
  <2>4. \A s \in D(n) : h[s] = g[s]
    <3>1. \A s \in D(n) : g[s] =
             IF s = {} THEN 0 ELSE f[Some(s)] + g[s \ {Some(s)}]
      BY <2>1, Zenon DEF Summed
    <3>2. \A s \in D(n) : h[s] =
             IF s = {} THEN 0 ELSE f[Some(s)] + g[s \ {Some(s)}]
      BY <2>2, Zenon
    <3>3. QED
      BY <3>1, <3>2, Zenon
  <2> HIDE DEF h, D
  <2>5. \A s \in D(n + 1) : s # {} => h[s \ {Some(s)}] = g[s \ {Some(s)}]
    BY <2>3, <2>4, Zenon
  <2>6. Summed(h, f, D(n + 1))
    BY <2>5 DEF h, Summed
  <2>7. n + 1 \in Nat
    OBVIOUS
  <2>8. QED
    BY <2>6, <2>7, Zenon
<1> HIDE DEF B
<1>5. Cardinality(S) \in B
  BY <1>1, <1>3, <1>4, SetInduction
<1>6. D(Cardinality(S)) = SUBSET S
  BY <1>1
<1> HIDE DEF D
<1>7. QED
  BY <1>5, <1>6 DEF B

\* Two of them agree where both are defined.
LEMMA SummedUnique ==
    ASSUME NEW f, NEW S, NEW T, IsFiniteSet(S),
           NEW g, NEW h, Summed(g, f, SUBSET S), Summed(h, f, SUBSET T)
    PROVE  \A s \in SUBSET (S \cap T) : g[s] = h[s]
<1> DEFINE D(n) == {s \in SUBSET (S \cap T) : Cardinality(s) = n}
           B == {n \in Nat : \A s \in D(n) : g[s] = h[s]}
<1>1. \A s \in SUBSET (S \cap T) :
        /\ IsFiniteSet(s) /\ Cardinality(s) \in Nat
        /\ Cardinality(s) = 0 <=> s = {}
  <2>1. \A s \in SUBSET S : IsFiniteSet(s)
    BY FS_Subset
  <2>2. QED
    BY <2>1, FS_CardinalityType, FS_EmptySet
<1>2. \A s \in SUBSET (S \cap T) : s # {} =>
        /\ s \ {Some(s)} \in SUBSET (S \cap T)
        /\ Cardinality(s \ {Some(s)}) = Cardinality(s) - 1
  BY <1>1, FS_RemoveElement DEF Some
<1>3. \A s \in SUBSET (S \cap T) :
        /\ g[s] = IF s = {} THEN 0 ELSE f[Some(s)] + g[s \ {Some(s)}]
        /\ h[s] = IF s = {} THEN 0 ELSE f[Some(s)] + h[s \ {Some(s)}]
  <2>1. \A s \in SUBSET S : g[s] = IF s = {} THEN 0 ELSE f[Some(s)] + g[s \ {Some(s)}]
    BY Zenon DEF Summed
  <2>2. \A s \in SUBSET T : h[s] = IF s = {} THEN 0 ELSE f[Some(s)] + h[s \ {Some(s)}]
    BY Zenon DEF Summed
  <2>3. \A s \in SUBSET (S \cap T) : s \in SUBSET S /\ s \in SUBSET T
    OBVIOUS
  <2>4. QED
    BY <2>1, <2>2, <2>3, Zenon
<1>4. 0 \in B
  BY <1>1, <1>3
<1>5. ASSUME NEW n \in Nat, n \in B PROVE n + 1 \in B
  <2> SUFFICES ASSUME NEW s \in D(n + 1) PROVE g[s] = h[s]
    OBVIOUS
  <2>1. s # {}
    BY <1>1
  <2>2. s \ {Some(s)} \in D(n)
    BY <1>1, <1>2, <2>1
  <2>3. QED
    BY <1>3, <1>5, <2>1, <2>2
<1> HIDE DEF B
<1>6. Nat \subseteq B
  BY <1>4, <1>5, SetInduction
<1>7. QED
  BY <1>1, <1>6 DEF B

\* A sum takes one element at a time.
LEMMA SumStep ==
    ASSUME NEW f, NEW S, IsFiniteSet(S)
    PROVE  SumFunctionOnSet(f, S) =
             IF S = {} THEN 0
             ELSE f[Some(S)] + SumFunctionOnSet(f, S \ {Some(S)})
<1> DEFINE G(A) == CHOOSE g : Summed(g, f, SUBSET A)
           R == S \ {Some(S)}
<1>1. \A A : SumFunctionOnSet(f, A) = G(A)[A]
  BY DEF SumFunctionOnSet, FoldFunctionOnSet, MapThenFoldSet, Summed, Some
<1>2. Summed(G(S), f, SUBSET S)
  BY SummedExists
<1>3. IsFiniteSet(R)
  BY FS_RemoveElement
<1>4. Summed(G(R), f, SUBSET R)
  BY <1>3, SummedExists
<1>5. G(S)[S] = IF S = {} THEN 0 ELSE f[Some(S)] + G(S)[R]
  <2>1. S \in SUBSET S
    OBVIOUS
  <2> HIDE DEF G
  <2>2. QED
    BY <1>2, <2>1, Zenon DEF Summed
<1>6. G(S)[R] = G(R)[R]
  <2>1. R \in SUBSET (S \cap R)
    OBVIOUS
  <2> HIDE DEF G, R
  <2>2. QED
    BY <1>2, <1>4, <2>1, SummedUnique
<1>7. SumFunctionOnSet(f, S) = G(S)[S] /\ SumFunctionOnSet(f, R) = G(R)[R]
  BY <1>1
<1> HIDE DEF G
<1>8. QED
  BY <1>5, <1>6, <1>7

\* Induction over the subsets of a finite set.
LEMMA SubsetInduction ==
    ASSUME NEW S, IsFiniteSet(S), NEW B, {} \in B,
           \A T \in SUBSET S, x \in S : T \in B /\ x \notin T => T \cup {x} \in B
    PROVE  S \in B
<1> DEFINE C == {n \in Nat : \A T \in SUBSET S : Cardinality(T) = n => T \in B}
<1>1. \A T \in SUBSET S : /\ IsFiniteSet(T) /\ Cardinality(T) \in Nat
                          /\ Cardinality(T) = 0 <=> T = {}
  BY FS_Subset, FS_CardinalityType, FS_EmptySet
<1>2. 0 \in C
  BY <1>1
<1>3. ASSUME NEW n \in Nat, n \in C PROVE n + 1 \in C
  <2> SUFFICES ASSUME NEW T \in SUBSET S, Cardinality(T) = n + 1 PROVE T \in B
    OBVIOUS
  <2>1. PICK x \in T : TRUE
    BY <1>1
  <2>2. T \ {x} \in SUBSET S /\ Cardinality(T \ {x}) = n
    <3>1. IsFiniteSet(T)
      BY <1>1
    <3>2. Cardinality(T \ {x}) = IF x \in T THEN Cardinality(T) - 1 ELSE Cardinality(T)
      BY <3>1, FS_RemoveElement
    <3>3. QED
      BY <3>2, <2>1
  <2>3. T \ {x} \in B
    BY <1>3, <2>2
  <2>4. (T \ {x}) \cup {x} = T
    BY <2>1
  <2>5. QED
    BY <2>1, <2>2, <2>3, <2>4
<1> HIDE DEF C
<1>4. Nat \subseteq C
  BY <1>2, <1>3, SetInduction
<1>5. QED
  BY <1>1, <1>4 DEF C

\* A sum of natural numbers is one.
LEMMA SumNat ==
    ASSUME NEW S, IsFiniteSet(S), NEW f, \A x \in S : f[x] \in Nat
    PROVE  SumFunctionOnSet(f, S) \in Nat
<1> DEFINE C == {n \in Nat : \A T \in SUBSET S :
                  Cardinality(T) = n => SumFunctionOnSet(f, T) \in Nat}
<1>1. \A T \in SUBSET S : /\ IsFiniteSet(T) /\ Cardinality(T) \in Nat
                          /\ Cardinality(T) = 0 <=> T = {}
  BY FS_Subset, FS_CardinalityType, FS_EmptySet
<1>2. 0 \in C
  BY <1>1, SumStep
<1>3. ASSUME NEW n \in Nat, n \in C PROVE n + 1 \in C
  <2> SUFFICES ASSUME NEW T \in SUBSET S, Cardinality(T) = n + 1
               PROVE  SumFunctionOnSet(f, T) \in Nat
    OBVIOUS
  <2>1. T # {} /\ Some(T) \in T
    BY <1>1 DEF Some
  <2>2. T \ {Some(T)} \in SUBSET S /\ Cardinality(T \ {Some(T)}) = n
    <3>1. IsFiniteSet(T)
      BY <1>1
    <3>2. Cardinality(T \ {Some(T)}) =
             IF Some(T) \in T THEN Cardinality(T) - 1 ELSE Cardinality(T)
      BY <3>1, FS_RemoveElement
    <3>3. QED
      BY <3>2, <2>1
  <2>3. SumFunctionOnSet(f, T) = f[Some(T)] + SumFunctionOnSet(f, T \ {Some(T)})
    BY <1>1, <2>1, SumStep
  <2>4. QED
    BY <1>3, <2>1, <2>2, <2>3
<1> HIDE DEF C
<1>4. Nat \subseteq C
  BY <1>2, <1>3, SetInduction
<1>5. QED
  BY <1>1, <1>4 DEF C

\* A sum does not depend on the order in which it takes its elements.
LEMMA SumRemove ==
    ASSUME NEW S, IsFiniteSet(S), NEW f, \A x \in S : f[x] \in Nat
    PROVE  \A x \in S : SumFunctionOnSet(f, S) = f[x] + SumFunctionOnSet(f, S \ {x})
<1> DEFINE Total(T) == SumFunctionOnSet(f, T)
           C == {n \in Nat : \A T \in SUBSET S : Cardinality(T) = n =>
                  \A x \in T : Total(T) = f[x] + Total(T \ {x})}
<1>1. \A T \in SUBSET S : /\ IsFiniteSet(T) /\ Cardinality(T) \in Nat
                          /\ Cardinality(T) = 0 <=> T = {}
  BY FS_Subset, FS_CardinalityType, FS_EmptySet
<1>2. \A T \in SUBSET S : Total(T) \in Nat
  BY <1>1, SumNat
<1>3. 0 \in C
  BY <1>1
<1>4. ASSUME NEW n \in Nat, n \in C PROVE n + 1 \in C
  <2> SUFFICES ASSUME NEW T \in SUBSET S, Cardinality(T) = n + 1, NEW x \in T
               PROVE  Total(T) = f[x] + Total(T \ {x})
    OBVIOUS
  <2> DEFINE y == Some(T)
  <2>1. y \in T
    BY DEF Some
  <2>2. Total(T) = f[y] + Total(T \ {y})
    BY <1>1, <2>1, SumStep
  <2>3. CASE y = x
    BY <2>2, <2>3
  <2>4. CASE y # x
    <3>1. /\ T \ {y} \in SUBSET S /\ Cardinality(T \ {y}) = n
          /\ T \ {x} \in SUBSET S /\ Cardinality(T \ {x}) = n
      BY <1>1, <2>1, FS_RemoveElement
    <3>2. x \in T \ {y} /\ y \in T \ {x}
      BY <2>1, <2>4
    <3> HIDE DEF y, Total
    <3>3. /\ Total(T \ {y}) = f[x] + Total((T \ {y}) \ {x})
          /\ Total(T \ {x}) = f[y] + Total((T \ {x}) \ {y})
      BY <1>4, <3>1, <3>2
    <3>4. (T \ {y}) \ {x} = (T \ {x}) \ {y} /\ (T \ {x}) \ {y} \in SUBSET S
      OBVIOUS
    <3>5. f[x] \in Nat /\ f[y] \in Nat /\ Total((T \ {x}) \ {y}) \in Nat
      BY <1>2, <2>1, <3>4
    <3>6. /\ Total(T \ {y}) = f[x] + Total((T \ {x}) \ {y})
          /\ Total(T) = f[y] + Total(T \ {y})
      BY <2>2, <3>3, <3>4
    <3>7. QED
      BY <3>3, <3>5, <3>6
  <2>5. QED
    BY <2>3, <2>4
<1> HIDE DEF C
<1>5. Nat \subseteq C
  BY <1>3, <1>4, SetInduction
<1>6. S \in SUBSET S /\ Cardinality(S) \in C
  BY <1>1, <1>5
<1>7. QED
  BY <1>6 DEF C

\* A sum over one more element is the sum, and the element's value.
LEMMA SumAdd ==
    ASSUME NEW S, IsFiniteSet(S), NEW x, x \notin S,
           NEW f, \A y \in S \cup {x} : f[y] \in Nat
    PROVE  SumFunctionOnSet(f, S \cup {x}) = f[x] + SumFunctionOnSet(f, S)
<1>1. IsFiniteSet(S \cup {x}) /\ x \in S \cup {x} /\ (S \cup {x}) \ {x} = S
  BY FS_AddElement
<1>2. QED
  BY <1>1, SumRemove

\* The empty sum.
LEMMA SumEmpty == ASSUME NEW f PROVE SumFunctionOnSet(f, {}) = 0
BY SumStep, FS_EmptySet

\* Two functions that differ by one on G and agree elsewhere.
LEMMA SumGrown ==
    ASSUME NEW S, IsFiniteSet(S), NEW f, NEW g, NEW G,
           \A x \in S : f[x] \in Nat,
           \A x \in S : g[x] = IF x \in G THEN f[x] + 1 ELSE f[x]
    PROVE  /\ SumFunctionOnSet(g, S) = SumFunctionOnSet(f, S) + Cardinality(S \cap G)
           /\ SumFunctionOnSet(f, S) \in Nat
<1> DEFINE B == {T \in SUBSET S : SumFunctionOnSet(g, T) =
                   SumFunctionOnSet(f, T) + Cardinality(T \cap G)}
<1>1. {} \in B
  <2>1. {} \cap G = {}
    OBVIOUS
  <2>2. QED
    BY <2>1, SumEmpty, FS_EmptySet
<1>2. ASSUME NEW T \in SUBSET S, NEW x \in S, T \in B, x \notin T
      PROVE  T \cup {x} \in B
  <2>1. IsFiniteSet(T) /\ IsFiniteSet(T \cap G) /\ Cardinality(T \cap G) \in Nat
    BY FS_Subset, FS_CardinalityType
  <2>2. SumFunctionOnSet(f, T) \in Nat
    BY <2>1, SumNat
  <2>3. SumFunctionOnSet(f, T \cup {x}) = f[x] + SumFunctionOnSet(f, T)
    BY <1>2, <2>1, SumAdd
  <2>4. \A y \in T \cup {x} : g[y] \in Nat
    OBVIOUS
  <2>5. SumFunctionOnSet(g, T \cup {x}) = g[x] + SumFunctionOnSet(g, T)
    BY <1>2, <2>1, <2>4, SumAdd
  <2>6. Cardinality((T \cup {x}) \cap G) =
           IF x \in G THEN Cardinality(T \cap G) + 1 ELSE Cardinality(T \cap G)
    <3>1. CASE x \in G
      <4>1. (T \cup {x}) \cap G = (T \cap G) \cup {x} /\ x \notin T \cap G
        BY <3>1, <1>2
      <4>2. QED
        BY <3>1, <4>1, <2>1, FS_AddElement
    <3>2. CASE x \notin G
      <4>1. (T \cup {x}) \cap G = T \cap G
        BY <3>2
      <4>2. QED
        BY <3>2, <4>1
    <3>3. QED
      BY <3>1, <3>2
  <2>7. SumFunctionOnSet(g, T) = SumFunctionOnSet(f, T) + Cardinality(T \cap G)
    BY <1>2
  <2>8. f[x] \in Nat /\ g[x] = IF x \in G THEN f[x] + 1 ELSE f[x]
    OBVIOUS
  <2>9. SumFunctionOnSet(g, T \cup {x}) =
           SumFunctionOnSet(f, T \cup {x}) + Cardinality((T \cup {x}) \cap G)
    BY <2>1, <2>2, <2>3, <2>5, <2>6, <2>7, <2>8
  <2>10. T \cup {x} \in SUBSET S
    OBVIOUS
  <2>11. QED
    BY <2>9, <2>10
<1> HIDE DEF B
<1>3. S \in B
  BY <1>1, <1>2, SubsetInduction
<1>4. QED
  BY <1>3, SumNat DEF B

\* Equal functions have equal sums.
LEMMA SumEqual ==
    ASSUME NEW S, IsFiniteSet(S), NEW f, NEW g,
           \A x \in S : f[x] \in Nat /\ g[x] = f[x]
    PROVE  SumFunctionOnSet(g, S) = SumFunctionOnSet(f, S)
<1>1. \A x \in S : g[x] = IF x \in {} THEN f[x] + 1 ELSE f[x]
  OBVIOUS
<1>2. S \cap {} = {} /\ Cardinality({}) = 0
  BY FS_EmptySet
<1>3. QED
  BY <1>1, <1>2, SumGrown

\* Setting f to zero on T takes the sum over T away.
LEMMA SumCleared ==
    ASSUME NEW S, IsFiniteSet(S), NEW f, NEW g, NEW T, T \subseteq S,
           \A x \in S : f[x] \in Nat,
           \A x \in S : g[x] = IF x \in T THEN 0 ELSE f[x]
    PROVE  SumFunctionOnSet(f, S) = SumFunctionOnSet(g, S) + SumFunctionOnSet(f, T)
<1> DEFINE B == {U \in SUBSET S : SumFunctionOnSet(f, U) =
                   SumFunctionOnSet(g, U) + SumFunctionOnSet(f, U \cap T)}
<1>1. {} \in B
  <2>1. {} \cap T = {}
    OBVIOUS
  <2>2. QED
    BY <2>1, SumEmpty
<1>2. ASSUME NEW U \in SUBSET S, NEW x \in S, U \in B, x \notin U
      PROVE  U \cup {x} \in B
  <2>1. IsFiniteSet(U) /\ IsFiniteSet(U \cap T)
    BY FS_Subset
  <2>2. /\ SumFunctionOnSet(f, U) \in Nat /\ SumFunctionOnSet(f, U \cap T) \in Nat
        /\ SumFunctionOnSet(g, U) \in Nat
    <3>1. \A y \in S : g[y] \in Nat
      OBVIOUS
    <3>2. QED
      BY <2>1, <3>1, SumNat
  <2>3. SumFunctionOnSet(f, U \cup {x}) = f[x] + SumFunctionOnSet(f, U)
    BY <1>2, <2>1, SumAdd
  <2>4. \A y \in U \cup {x} : g[y] \in Nat
    OBVIOUS
  <2>5. SumFunctionOnSet(g, U \cup {x}) = g[x] + SumFunctionOnSet(g, U)
    BY <1>2, <2>1, <2>4, SumAdd
  <2>6. SumFunctionOnSet(f, (U \cup {x}) \cap T) =
           IF x \in T THEN f[x] + SumFunctionOnSet(f, U \cap T)
           ELSE SumFunctionOnSet(f, U \cap T)
    <3>1. CASE x \in T
      <4>1. (U \cup {x}) \cap T = (U \cap T) \cup {x} /\ x \notin U \cap T
        BY <3>1, <1>2
      <4>2. QED
        BY <3>1, <4>1, <2>1, SumAdd
    <3>2. CASE x \notin T
      <4>1. (U \cup {x}) \cap T = U \cap T
        BY <3>2
      <4>2. QED
        BY <3>2, <4>1
    <3>3. QED
      BY <3>1, <3>2
  <2>7. SumFunctionOnSet(f, U) = SumFunctionOnSet(g, U) + SumFunctionOnSet(f, U \cap T)
    BY <1>2
  <2>8. f[x] \in Nat /\ g[x] = IF x \in T THEN 0 ELSE f[x]
    OBVIOUS
  <2>9. SumFunctionOnSet(f, U \cup {x}) =
           SumFunctionOnSet(g, U \cup {x}) + SumFunctionOnSet(f, (U \cup {x}) \cap T)
    BY <2>2, <2>3, <2>5, <2>6, <2>7, <2>8
  <2>10. U \cup {x} \in SUBSET S
    OBVIOUS
  <2>11. QED
    BY <2>9, <2>10
<1> HIDE DEF B
<1>3. S \in B
  BY <1>1, <1>2, SubsetInduction
<1>4. S \cap T = T
  OBVIOUS
<1>5. QED
  BY <1>3, <1>4 DEF B

\* The sum of a function that is zero everywhere is zero.
LEMMA SumZero ==
    ASSUME NEW S, IsFiniteSet(S), NEW f, \A x \in S : f[x] = 0
    PROVE  SumFunctionOnSet(f, S) = 0
<1>1. \A x \in S : f[x] \in Nat
  OBVIOUS
<1>2. \A x \in S : f[x] = IF x \in S THEN 0 ELSE f[x]
  OBVIOUS
<1>3. SumFunctionOnSet(f, S) = SumFunctionOnSet(f, S) + SumFunctionOnSet(f, S)
  BY <1>1, <1>2, SumCleared, SMTT(30)
<1>4. PICK n \in Nat : n = SumFunctionOnSet(f, S)
  BY <1>1, SumNat, SMTT(30)
<1>5. n = n + n
  BY <1>3, <1>4
<1>6. n = 0
  BY <1>5
<1>7. QED
  BY <1>4, <1>6

\* Changing f at one place.
LEMMA SumChanged ==
    ASSUME NEW S, IsFiniteSet(S), NEW f, NEW g, NEW x \in S,
           \A y \in S : f[y] \in Nat /\ g[y] \in Nat,
           \A y \in S : y # x => g[y] = f[y]
    PROVE  SumFunctionOnSet(g, S) + f[x] = SumFunctionOnSet(f, S) + g[x]
<1> DEFINE R == S \ {x}
<1>1. IsFiniteSet(R)
  BY FS_RemoveElement
<1>2. SumFunctionOnSet(g, R) = SumFunctionOnSet(f, R)
  BY <1>1, SumEqual
<1>3. SumFunctionOnSet(f, R) \in Nat
  BY <1>1, SumNat
<1>4. /\ SumFunctionOnSet(f, S) = f[x] + SumFunctionOnSet(f, R)
      /\ SumFunctionOnSet(g, S) = g[x] + SumFunctionOnSet(g, R)
  BY SumRemove
<1>5. QED
  BY <1>2, <1>3, <1>4
=============================================================================
