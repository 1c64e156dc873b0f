-------------------------- MODULE TrainCursorProofs --------------------------
(***************************************************************************)
(* What a training run publishes can be resumed from, for every            *)
(* configuration, number of epochs, faults and stops (TrainCursor).        *)
(*                                                                         *)
(* First the arithmetic of windows, and what UpdatesFrom lists: at a place *)
(* with a window left, that window's updates and what is left after it; at *)
(* one with none, what the next epoch begins with.  Two places of an epoch *)
(* that leave the same are one (SamePlace).                                *)
(*                                                                         *)
(* Then two layers of the inductive invariant.  HistoryInv: ranges, the    *)
(* phases in which a save is allowed, and the metric history, which no     *)
(* interruption breaks.  CursorInv adds that what the weights have seen and *)
(* what is left from the cursor (in a window: its updates to come and what *)
(* is left after it) are the whole schedule, in the process whenever it    *)
(* may save and in every checkpoint, and that a clean end leaves one.      *)
(***************************************************************************)
EXTENDS TrainCursor, CollectionFacts

-----------------------------------------------------------------------------
(* Division.                                                                *)

\* Division with remainder.
LEMMA DivModFacts ==
    ASSUME NEW d \in Nat, NEW b \in Nat \ {0}
    PROVE  /\ d \div b \in Nat /\ d % b \in 0..(b - 1)
           /\ d = b * (d \div b) + (d % b)
OBVIOUS

\* A number has one quotient and one remainder.
LEMMA DivModUnique ==
    ASSUME NEW b \in Nat \ {0}, NEW p \in Nat, NEW q \in Nat, NEW r \in 0..(b - 1),
           NEW s \in 0..(b - 1), b * p + r = b * q + s
    PROVE  p = q /\ r = s
<1>1. ~(p < q)
  <2> SUFFICES ASSUME p < q PROVE FALSE
    OBVIOUS
  <2>1. PICK k \in Nat : q = p + 1 + k
    <3>1. q - p - 1 \in Nat /\ q = p + 1 + (q - p - 1)
      OBVIOUS
    <3> QED
      BY <3>1
  <2>2. b * q = b * p + b + b * k
    BY <2>1
  <2>3. b * k \in Nat /\ b * p \in Nat
    OBVIOUS
  <2> QED
    BY <2>2, <2>3
<1>2. ~(q < p)
  <2> SUFFICES ASSUME q < p PROVE FALSE
    OBVIOUS
  <2>1. PICK k \in Nat : p = q + 1 + k
    <3>1. p - q - 1 \in Nat /\ p = q + 1 + (p - q - 1)
      OBVIOUS
    <3> QED
      BY <3>1
  <2>2. b * p = b * q + b + b * k
    BY <2>1
  <2>3. b * k \in Nat /\ b * q \in Nat
    OBVIOUS
  <2> QED
    BY <2>2, <2>3
<1>3. p = q
  BY <1>1, <1>2
<1> QED
  <2>1. b * p = b * q /\ b * p \in Nat
    BY <1>3
  <2> QED
    BY <1>3, <2>1

\* Dividing what one divisor less leaves.
LEMMA DivModStep ==
    ASSUME NEW d \in Nat, NEW b \in Nat \ {0}
    PROVE  /\ d < b => d \div b = 0 /\ d % b = d
           /\ d >= b => /\ d \div b >= 1
                        /\ (d - b) \div b = (d \div b) - 1
                        /\ (d - b) % b = d % b
<1>1. ASSUME d < b PROVE d \div b = 0 /\ d % b = d
  <2>1. /\ b * (d \div b) + (d % b) = d /\ b * 0 + d = d
        /\ d \div b \in Nat /\ d % b \in 0..(b - 1) /\ d \in 0..(b - 1) /\ 0 \in Nat
    <3>1. d \in 0..(b - 1) /\ b * 0 + d = d
      BY <1>1
    <3>2. d \div b \in Nat /\ d % b \in 0..(b - 1) /\ d = b * (d \div b) + (d % b)
      BY DivModFacts
    <3> QED
      BY <3>1, <3>2, Zenon
  <2>2. b * (d \div b) + (d % b) = b * 0 + d
    BY <2>1
  <2> QED
    BY <2>1, <2>2, DivModUnique
<1>2. ASSUME d >= b
      PROVE  /\ d \div b >= 1 /\ (d - b) \div b = (d \div b) - 1 /\ (d - b) % b = d % b
  <2>1. /\ d - b \in Nat /\ d \div b \in Nat /\ (d - b) \div b \in Nat
        /\ d % b \in 0..(b - 1) /\ (d - b) % b \in 0..(b - 1)
    <3>1. d - b \in Nat
      BY <1>2
    <3> QED
      BY <3>1, DivModFacts
  <2>2. b * ((d - b) \div b + 1) = b * ((d - b) \div b) + b
    BY <2>1
  <2>3. b * (d \div b) + (d % b) = b * ((d - b) \div b + 1) + ((d - b) % b)
    <3>1. d - b = b * ((d - b) \div b) + ((d - b) % b)
      BY <2>1, DivModFacts
    <3>2. d = b * (d \div b) + (d % b)
      BY DivModFacts
    <3> DEFINE u == b * ((d - b) \div b)
               v == b * (d \div b)
               w == b * ((d - b) \div b + 1)
               y == (d - b) % b
               z == d % b
    <3>3. u \in Int /\ v \in Int /\ w \in Int /\ y \in Int /\ z \in Int
      BY <2>1
    <3>4. w = u + b /\ d - b = u + y /\ d = v + z
      BY <2>2, <3>1, <3>2
    <3> HIDE DEF u, v, w, y, z
    <3>5. v + z = w + y
      BY <3>3, <3>4
    <3> QED
      BY <3>5 DEF u, v, w, y, z
  <2>4. d \div b = (d - b) \div b + 1 /\ d % b = (d - b) % b
    BY <2>1, <2>3, DivModUnique
  <2> QED
    BY <2>1, <2>4
<1> QED
  BY <1>1, <1>2

-----------------------------------------------------------------------------
(* FlattenSeq.                                                              *)

\* g is the recursive function of FlattenSeq.
Flattened(g, s, n) ==
    g = [i \in 1..n |-> IF i = 1 THEN s[i] ELSE g[i - 1] \o s[i]]

\* There is one.
LEMMA FlattenedExists ==
    ASSUME NEW s
    PROVE  \A n \in Nat : \E g : Flattened(g, s, n)
<1> USE DEF Flattened
<1> DEFINE Is(g, n) == Flattened(g, s, n)
           B == {n \in Nat : \E g : Is(g, n)}
<1>1. 0 \in B
  <2>1. Is([i \in 1..0 |-> <<>>], 0)
    OBVIOUS
  <2>2. QED
    BY <2>1
<1>2. ASSUME NEW n \in Nat, n \in B PROVE n + 1 \in B
  <2>1. PICK g : Is(g, n)
    BY <1>2
  <2> DEFINE h == [i \in 1..(n + 1) |-> IF i = 1 THEN s[i] ELSE g[i - 1] \o s[i]]
  <2>2. \A i \in 1..n : h[i] = g[i]
    <3>1. \A i \in 1..n : i \in 1..(n + 1)
      OBVIOUS
    <3>2. \A i \in 1..n : g[i] = IF i = 1 THEN s[i] ELSE g[i - 1] \o s[i]
      BY <2>1, Zenon
    <3>3. \A i \in 1..n : h[i] = IF i = 1 THEN s[i] ELSE g[i - 1] \o s[i]
      BY <3>1, Zenon
    <3>4. QED
      BY <3>2, <3>3, Zenon
  <2>3. \A i \in 1..(n + 1) : i # 1 => i - 1 \in 1..n
    OBVIOUS
  <2> HIDE DEF h
  <2>4. \A i \in 1..(n + 1) : i # 1 => h[i - 1] = g[i - 1]
    BY <2>2, <2>3, Zenon
  <2>5. Is(h, n + 1)
    BY <2>4 DEF h
  <2>6. n + 1 \in Nat
    OBVIOUS
  <2>7. QED
    BY <2>5, <2>6, Zenon
<1> HIDE DEF B
<1>3. Nat \subseteq B
  BY <1>1, <1>2, SetInduction
<1>4. QED
  BY <1>3 DEF B

\* Nothing flattened is nothing.
LEMMA FlattenEmpty == FlattenSeq(<<>>) = <<>>
BY DEF FlattenSeq

\* FlattenSeq concatenates from the left.
LEMMA FlattenSteps ==
    ASSUME NEW T, NEW s \in Seq(Seq(T)), Len(s) > 0
    PROVE  \E g : /\ FlattenSeq(s) = g[Len(s)]
                 /\ g[1] = s[1]
                 /\ \A i \in 2..Len(s) : g[i] = g[i - 1] \o s[i]
<1> DEFINE N == Len(s)
           Is(g, n) == Flattened(g, s, n)
           g == CHOOSE g : Is(g, N)
<1>1. N \in Nat /\ N > 0
  OBVIOUS
<1>2. Is(g, N)
  <2>1. \E h : Is(h, N)
    BY <1>1, FlattenedExists
  <2>2. QED
    BY <2>1, Zenon
<1>3. FlattenSeq(s) = g[N]
  BY <1>1 DEF FlattenSeq, Flattened
<1> HIDE DEF g
<1>4. \A i \in 1..N : g[i] = IF i = 1 THEN s[i] ELSE g[i - 1] \o s[i]
  BY <1>2, Zenon DEF Flattened
<1>5. 1 \in 1..N /\ \A i \in 2..N : i \in 1..N /\ i # 1
  BY <1>1
<1>6. g[1] = s[1] /\ \A i \in 2..N : g[i] = g[i - 1] \o s[i]
  BY <1>4, <1>5, Zenon
<1> QED
  BY <1>3, <1>6

\* A flattened sequence of sequences over T is a sequence over T.
LEMMA FlattenType ==
    ASSUME NEW T, NEW s \in Seq(Seq(T))
    PROVE  FlattenSeq(s) \in Seq(T)
<1>0. /\ Len(s) \in Nat /\ s = <<>> <=> Len(s) = 0
      /\ \A i \in 1..Len(s) : s[i] \in Seq(T)
  OBVIOUS
<1>1. CASE Len(s) = 0
  <2>1. s = <<>> /\ <<>> \in Seq(T)
    BY <1>0, <1>1
  <2> QED
    BY <2>1, FlattenEmpty
<1>2. CASE Len(s) > 0
  <2>1. PICK g : /\ FlattenSeq(s) = g[Len(s)] /\ g[1] = s[1]
                 /\ \A i \in 2..Len(s) : g[i] = g[i - 1] \o s[i]
    BY <1>2, FlattenSteps
  <2> DEFINE B == {n \in Nat : n + 1 <= Len(s) => g[n + 1] \in Seq(T)}
  <2>3. 0 \in B
    BY <2>1, <1>2, <1>0
  <2>4. ASSUME NEW n \in Nat, n \in B PROVE n + 1 \in B
    <3> SUFFICES ASSUME n + 2 <= Len(s) PROVE g[n + 2] \in Seq(T)
      OBVIOUS
    <3>1. n + 2 \in 2..Len(s) /\ n + 2 \in 1..Len(s) /\ (n + 2) - 1 = n + 1
      BY <1>0
    <3>2. g[n + 1] \in Seq(T)
      BY <2>4, <1>0
    <3>3. s[n + 2] \in Seq(T) /\ g[n + 2] = g[(n + 2) - 1] \o s[n + 2]
      BY <2>1, <1>0, <3>1, Zenon
    <3> QED
      BY <3>1, <3>2, <3>3, ConcatProperties
  <2> HIDE DEF B
  <2>5. Nat \subseteq B
    BY <2>3, <2>4, SetInduction
  <2>6. Len(s) - 1 \in Nat /\ (Len(s) - 1) + 1 = Len(s)
    BY <1>0, <1>2
  <2>7. g[(Len(s) - 1) + 1] \in Seq(T)
    BY <2>5, <2>6 DEF B
  <2> QED
    BY <2>1, <2>6, <2>7
<1> QED
  BY <1>0, <1>1, <1>2

\* It begins with its first sequence.
LEMMA FlattenCons ==
    ASSUME NEW T, NEW x \in Seq(T), NEW s \in Seq(Seq(T))
    PROVE  FlattenSeq(<<x>> \o s) = x \o FlattenSeq(s)
<1> DEFINE c == <<x>> \o s
           N == Len(s)
<1>0. /\ c \in Seq(Seq(T)) /\ Len(c) = N + 1 /\ N \in Nat
      /\ s = <<>> <=> N = 0
      /\ c[1] = x
  BY ConcatProperties
<1>a. \A i \in 1..N : c[i + 1] = s[i] /\ s[i] \in Seq(T)
  OBVIOUS
<1>b. \A a, b, d \in Seq(T) : (a \o b) \o d = a \o (b \o d)
  BY ConcatAssociative, SMTT(60)
<1>1. PICK f : /\ FlattenSeq(c) = f[N + 1] /\ f[1] = x
               /\ \A i \in 2..(N + 1) : f[i] = f[i - 1] \o c[i]
  <2> HIDE DEF c, N
  <2>1. c \in Seq(Seq(T)) /\ Len(c) > 0
    BY <1>0
  <2>2. PICK f : /\ FlattenSeq(c) = f[Len(c)] /\ f[1] = c[1]
                 /\ \A i \in 2..Len(c) : f[i] = f[i - 1] \o c[i]
    BY <2>1, FlattenSteps, Zenon
  <2>3. /\ FlattenSeq(c) = f[N + 1] /\ f[1] = x
        /\ \A i \in 2..(N + 1) : f[i] = f[i - 1] \o c[i]
    BY <1>0, <2>2
  <2> QED
    BY <2>3
<1> HIDE DEF c
<1>2. CASE N = 0
  <2>1. s = <<>> /\ FlattenSeq(c) = x
    BY <1>0, <1>1, <1>2
  <2> QED
    BY <2>1, FlattenEmpty, ConcatEmptySeq DEF c
<1>3. CASE N > 0
  <2>1. PICK g : /\ FlattenSeq(s) = g[N] /\ g[1] = s[1]
                 /\ \A i \in 2..N : g[i] = g[i - 1] \o s[i]
    BY <1>3, FlattenSteps
  <2> HIDE DEF N
  <2> DEFINE B == {n \in Nat : n + 1 <= N =>
                        g[n + 1] \in Seq(T) /\ f[n + 2] = x \o g[n + 1]}
  <2>3. 0 \in B
    <3>1. 2 \in 2..(N + 1) /\ 1 \in 1..N /\ 1 + 1 = 2 /\ 2 - 1 = 1
      BY <1>0, <1>3
    <3>2. f[2] = f[2 - 1] \o c[2] /\ c[1 + 1] = s[1] /\ s[1] \in Seq(T)
      BY <3>1, <1>1, <1>a, Zenon
    <3>3. g[1] \in Seq(T) /\ f[2] = x \o g[1]
      BY <2>1, <3>1, <3>2, <1>1
    <3> QED
      BY <3>3
  <2>4. ASSUME NEW n \in Nat, n \in B PROVE n + 1 \in B
    <3> SUFFICES ASSUME n + 2 <= N
                 PROVE  g[n + 2] \in Seq(T) /\ f[n + 3] = x \o g[n + 2]
      OBVIOUS
    <3>1. g[n + 1] \in Seq(T) /\ f[n + 2] = x \o g[n + 1]
      <4>1. n + 1 <= N
        BY <1>0
      <4> QED
        BY <2>4, <4>1
    <3>a. /\ n + 2 \in 2..N /\ n + 2 \in 1..N /\ (n + 2) - 1 = n + 1
          /\ n + 3 \in 2..(N + 1) /\ (n + 2) + 1 = n + 3 /\ (n + 3) - 1 = n + 2
      BY <1>0
    <3>2. /\ s[n + 2] \in Seq(T) /\ g[n + 2] = g[(n + 2) - 1] \o s[n + 2]
          /\ f[n + 3] = f[(n + 3) - 1] \o c[n + 3] /\ c[(n + 2) + 1] = s[n + 2]
      BY <2>1, <1>1, <1>a, <3>a, Zenon
    <3>3. /\ s[n + 2] \in Seq(T) /\ g[n + 2] = g[n + 1] \o s[n + 2]
          /\ f[n + 3] = (x \o g[n + 1]) \o s[n + 2]
      BY <3>1, <3>2, <3>a
    <3>4. g[n + 2] \in Seq(T)
      BY <3>1, <3>3, ConcatProperties
    <3>5. (x \o g[n + 1]) \o s[n + 2] = x \o (g[n + 1] \o s[n + 2])
      BY <3>1, <3>3, <1>b, Zenon
    <3> QED
      BY <3>3, <3>4, <3>5
  <2> HIDE DEF B
  <2>5. Nat \subseteq B
    BY <2>3, <2>4, SetInduction
  <2>6. PICK m \in Nat : m + 1 = N /\ m + 2 = N + 1
    <3>1. N - 1 \in Nat /\ (N - 1) + 1 = N /\ (N - 1) + 2 = N + 1
      BY <1>0, <1>3
    <3> QED
      BY <3>1
  <2>7. m + 1 <= N => f[m + 2] = x \o g[m + 1]
    BY <2>5 DEF B
  <2>8. f[N + 1] = x \o g[N]
    BY <2>6, <2>7
  <2> QED
    BY <2>1, <2>8, <1>1 DEF c
<1>4. N = 0 \/ N > 0
  BY <1>0
<1> QED
  BY <1>2, <1>3, <1>4, Zenon

-----------------------------------------------------------------------------
(* The windows and updates that are left from a place on.                   *)

Slot == [start : Nat, count : Nat \ {0}]
Updates == [epoch : Nat, start : Nat, u : Nat]
FromEpoch(e) == {x \in Updates : x.epoch >= e}
\* A cursor lies on the grid of its configuration's windows.
OnGrid(c, o) == c.tail = "drop" => o % c.batch = 0

\* What a configuration is.
LEMMA ConfigFacts ==
    ASSUME NEW c \in Configs
    PROVE  /\ c.mode \in {"window", "round"} /\ c.tail \in {"flush", "drop"}
           /\ c.mode = "round" => c.tail = "flush" /\ c.updates = 1
           /\ c.len \in Nat \ {0} /\ c.batch \in Nat \ {0}
           /\ c.updates \in Nat \ {0} /\ c.interval \in Nat \ {0}
BY RunAssumption DEF ConfigAssumption

\* The windows of an epoch, one by one.
Count(c, from) ==
    LET full == (c.len - from) \div c.batch
    IN  IF (c.len - from) % c.batch > 0 /\ c.tail = "flush" THEN full + 1 ELSE full
Nth(c, from, i) ==
    [start |-> from + (i - 1) * c.batch,
     count |-> IF i > (c.len - from) \div c.batch THEN (c.len - from) % c.batch ELSE c.batch]

\* Windows lists whole windows at multiples of the batch and, under "flush", the tail.
LEMMA WindowsAre ==
    ASSUME NEW c \in Configs, NEW from \in 0..c.len
    PROVE  /\ Count(c, from) \in Nat
           /\ Windows(c, from) = [i \in 1..Count(c, from) |-> Nth(c, from, i)]
           /\ \A i \in 1..Count(c, from) : Nth(c, from, i) \in Slot
           /\ Windows(c, from) \in Seq(Slot) /\ Len(Windows(c, from)) = Count(c, from)
<1> DEFINE d == c.len - from
           full == d \div c.batch
           tail == d % c.batch
<1>1. /\ d \in Nat /\ c.batch \in Nat \ {0} /\ from \in Nat
  BY ConfigFacts
<1>2. full \in Nat /\ tail \in 0..(c.batch - 1)
  BY <1>1, DivModFacts
<1>3. Count(c, from) = (IF tail > 0 /\ c.tail = "flush" THEN full + 1 ELSE full)
  BY DEF Count
<1>4. Windows(c, from) = [i \in 1..Count(c, from) |-> Nth(c, from, i)]
  BY DEF Windows, Count, Nth
<1>5. \A i \in 1..Count(c, from) : Nth(c, from, i) \in Slot
  <2> TAKE i \in 1..Count(c, from)
  <2> HIDE DEF full, tail, d
  <2>1. i \in Nat \ {0} /\ (i > full => tail > 0)
    BY <1>2, <1>3
  <2>2. (i - 1) * c.batch \in Nat
    BY <2>1, <1>1
  <2>3. from + (i - 1) * c.batch \in Nat /\ (IF i > full THEN tail ELSE c.batch) \in Nat \ {0}
    BY <2>1, <2>2, <1>1, <1>2
  <2>4. Nth(c, from, i) = [start |-> from + (i - 1) * c.batch,
                           count |-> IF i > full THEN tail ELSE c.batch]
    BY DEF Nth, full, tail, d
  <2> QED
    BY <2>3, <2>4 DEF Slot
<1>6. Count(c, from) \in Nat
  <2> HIDE DEF full, tail
  <2> QED
    BY <1>2, <1>3
<1>7. Windows(c, from) \in Seq(Slot) /\ Len(Windows(c, from)) = Count(c, from)
  BY <1>4, <1>5, <1>6
<1> QED
  BY <1>4, <1>5, <1>6, <1>7

\* The first window, if there is one, begins at the offset; those that follow are the windows
\* from its end on.
LEMMA WindowsStep ==
    ASSUME NEW c \in Configs, NEW from \in 0..c.len, Windows(c, from) # <<>>
    PROVE  \E w \in Slot :
             /\ w = Head(Windows(c, from)) /\ w.start = from
             /\ from + w.count \in 0..c.len
             /\ c.tail = "drop" => w.count = c.batch
             /\ Windows(c, from) = <<w>> \o Windows(c, from + w.count)
<1> DEFINE d == c.len - from
           b == c.batch
           full == d \div b
           tail == d % b
           n == Count(c, from)
           w == Nth(c, from, 1)
           to == from + w.count
<1>1. /\ d \in Nat /\ b \in Nat \ {0} /\ from \in Nat /\ c.len \in Nat /\ c.len = from + d
      /\ c.tail \in {"flush", "drop"}
  BY ConfigFacts
<1>2. full \in Nat /\ tail \in 0..(b - 1)
  BY <1>1, DivModFacts
<1>3. n \in Nat /\ n > 0
  <2>1. n \in Nat /\ Windows(c, from) \in Seq(Slot) /\ Len(Windows(c, from)) = n
    BY WindowsAre
  <2> QED
    BY <2>1
<1>4. n = (IF tail > 0 /\ c.tail = "flush" THEN full + 1 ELSE full)
  BY DEF Count
<1>5. /\ w = [start |-> from, count |-> IF 1 > full THEN tail ELSE b]
  <2>1. (1 - 1) * b = 0
    BY <1>1
  <2> QED
    BY <2>1, <1>1 DEF Nth
<1> HIDE DEF n, w, full, tail, d, b
<1>6. /\ full >= 1 => d >= b /\ w.count = b
      /\ full = 0 => /\ d < b /\ tail = d /\ w.count = d /\ d > 0
                     /\ c.tail = "flush" /\ n = 1
  <2>1. d < b => full = 0 /\ tail = d
    BY <1>1, DivModStep DEF full, tail
  <2>2. d >= b => full >= 1
    BY <1>1, DivModStep DEF full, tail
  <2> QED
    BY <2>1, <2>2, <1>1, <1>2, <1>3, <1>4, <1>5
<1>7. /\ w \in Slot /\ w.start = from /\ to \in 0..c.len
      /\ c.tail = "drop" => w.count = b
  BY <1>1, <1>2, <1>5, <1>6 DEF Slot
<1>8. /\ Count(c, to) = n - 1
      /\ \A i \in 1..(n - 1) : Nth(c, to, i) = Nth(c, from, i + 1)
  <2>1. CASE full >= 1
    <3>0. /\ d \in Nat /\ b \in Nat \ {0} /\ d >= b /\ w.count = b
      BY <2>1, <1>1, <1>6
    <3>a. (d - b) \div b = full - 1 /\ (d - b) % b = tail
      BY <3>0, DivModStep DEF full, tail
    <3>b. c.len - to = d - b /\ to = from + b
      BY <3>0, <1>1
    <3>1. /\ c.len - to = d - b /\ d >= b
          /\ (d - b) \div b = full - 1 /\ (d - b) % b = tail /\ to = from + b
      BY <3>0, <3>a, <3>b
    <3>2. Count(c, to) = (IF tail > 0 /\ c.tail = "flush" THEN (full - 1) + 1 ELSE full - 1)
      BY <3>1 DEF Count, b
    <3>3. \A i \in 1..(n - 1) : Nth(c, to, i) = Nth(c, from, i + 1)
      <4> TAKE i \in 1..(n - 1)
      <4>1. Nth(c, to, i) = [start |-> to + (i - 1) * b,
                             count |-> IF i > full - 1 THEN tail ELSE b]
        BY <3>1 DEF Nth, b
      <4>2. Nth(c, from, i + 1) = [start |-> from + ((i + 1) - 1) * b,
                                   count |-> IF i + 1 > full THEN tail ELSE b]
        BY DEF Nth, b, full, tail, d
      <4>3. to + (i - 1) * b = from + ((i + 1) - 1) * b
        <5>1. (i - 1) * b = i * b - b /\ (i + 1) - 1 = i /\ i * b \in Int
          BY <1>1, <1>3
        <5> QED
          BY <5>1, <3>1, <1>1
      <4>4. (i > full - 1) <=> (i + 1 > full)
        BY <1>2, <1>3
      <4> QED
        BY <4>1, <4>2, <4>3, <4>4
    <3> QED
      BY <3>2, <3>3, <1>2, <1>4
  <2>2. CASE full = 0
    <3>1. c.len - to = 0 /\ n = 1
      BY <2>2, <1>1, <1>6
    <3>2. 0 \div b = 0 /\ 0 % b = 0
      BY <1>1, DivModStep
    <3>3. Count(c, to) = 0
      BY <3>1, <3>2 DEF Count, b
    <3> QED
      BY <3>1, <3>3
  <2> QED
    BY <2>1, <2>2, <1>2
<1>9. Windows(c, from) = <<w>> \o Windows(c, to)
  <2>1. /\ Windows(c, from) = [i \in 1..n |-> Nth(c, from, i)]
        /\ Windows(c, to) = [i \in 1..(n - 1) |-> Nth(c, to, i)]
        /\ Windows(c, to) \in Seq(Slot) /\ Windows(c, from) \in Seq(Slot)
        /\ Len(Windows(c, to)) = n - 1 /\ Len(Windows(c, from)) = n
    BY <1>7, <1>8, WindowsAre DEF n
  <2>2. /\ <<w>> \in Seq(Slot) /\ Len(<<w>>) = 1 /\ <<w>>[1] = w
    BY <1>7
  <2>3. /\ <<w>> \o Windows(c, to) \in Seq(Slot)
        /\ Len(<<w>> \o Windows(c, to)) = n
        /\ \A i \in 1..n : (<<w>> \o Windows(c, to))[i] =
              IF i <= 1 THEN <<w>>[i] ELSE Windows(c, to)[i - 1]
    <3>1. 1 + (n - 1) = n
      BY <1>3
    <3> QED
      BY <2>1, <2>2, <3>1, ConcatProperties
  <2>4. \A i \in 1..n : Windows(c, from)[i] = (<<w>> \o Windows(c, to))[i]
    <3> TAKE i \in 1..n
    <3>1. CASE i = 1
      BY <3>1, <2>1, <2>2, <2>3, <1>3 DEF w
    <3>2. CASE i # 1
      <4>1. i - 1 \in 1..(n - 1) /\ (i - 1) + 1 = i /\ ~(i <= 1)
        BY <3>2, <1>3
      <4>2. Nth(c, to, i - 1) = Nth(c, from, i)
        BY <4>1, <1>8
      <4>3. /\ Windows(c, from)[i] = Nth(c, from, i)
            /\ Windows(c, to)[i - 1] = Nth(c, to, i - 1)
        BY <4>1, <2>1
      <4>4. (<<w>> \o Windows(c, to))[i] = Windows(c, to)[i - 1]
        BY <4>1, <2>3
      <4> QED
        BY <4>2, <4>3, <4>4
    <3> QED
      BY <3>1, <3>2
  <2> QED
    BY <2>1, <2>3, <2>4, SeqEqual
<1>10. w = Head(Windows(c, from))
  <2>1. Windows(c, from) = [i \in 1..n |-> Nth(c, from, i)] /\ 1 \in 1..n
    BY <1>3, WindowsAre DEF n
  <2> QED
    BY <2>1 DEF w
<1> QED
  BY <1>7, <1>9, <1>10 DEF b

\* Where there is none: at the end of the epoch, or in a tail that is dropped.
LEMMA NoWindows ==
    ASSUME NEW c \in Configs, NEW from \in 0..c.len
    PROVE  /\ from = c.len => Windows(c, from) = <<>>
           /\ Windows(c, from) = <<>> /\ c.tail = "flush" => from = c.len
           /\ Windows(c, from) = <<>> => c.len - from < c.batch
<1> DEFINE d == c.len - from
           full == d \div c.batch
           tail == d % c.batch
<1>1. /\ d \in Nat /\ c.batch \in Nat \ {0} /\ from \in Nat /\ c.len \in Nat
  BY ConfigFacts
<1>2. /\ Windows(c, from) \in Seq(Slot) /\ Count(c, from) \in Nat
      /\ Len(Windows(c, from)) = Count(c, from)
  BY WindowsAre
<1>3. Count(c, from) = (IF tail > 0 /\ c.tail = "flush" THEN full + 1 ELSE full)
  BY DEF Count
<1> HIDE DEF d
<1>4. /\ full \in Nat /\ tail \in Nat
      /\ d < c.batch => full = 0 /\ tail = d
      /\ d >= c.batch => full >= 1
  <2>1. full \in Nat /\ tail \in 0..(c.batch - 1)
    BY <1>1, DivModFacts
  <2>2. /\ d < c.batch => full = 0 /\ tail = d
        /\ d >= c.batch => full >= 1
    BY <1>1, DivModStep
  <2> QED
    BY <1>1, <2>1, <2>2
<1> HIDE DEF full, tail
<1>5. Windows(c, from) = <<>> <=> Count(c, from) = 0
  BY <1>2
<1> QED
  BY <1>1, <1>3, <1>4, <1>5 DEF d

OfEpoch(e) == {x \in Updates : x.epoch = e}

\* The updates of one window.
LEMMA WindowUpdatesAre ==
    ASSUME NEW c \in Configs, NEW e \in Nat, NEW w \in Slot
    PROVE  /\ WindowUpdates(c, e, w) \in Seq(OfEpoch(e))
           /\ Len(WindowUpdates(c, e, w)) = c.updates
           /\ \A u \in 1..c.updates :
                 WindowUpdates(c, e, w)[u] = [epoch |-> e, start |-> w.start, u |-> u]
<1>1. c.updates \in Nat \ {0} /\ w.start \in Nat
  BY ConfigFacts DEF Slot
<1>2. \A u \in 1..c.updates : [epoch |-> e, start |-> w.start, u |-> u] \in OfEpoch(e)
  BY <1>1 DEF OfEpoch, Updates
<1>3. WindowUpdates(c, e, w) = [u \in 1..c.updates |-> [epoch |-> e, start |-> w.start, u |-> u]]
  BY DEF WindowUpdates
<1> QED
  BY <1>1, <1>2, <1>3

\* What is left of an epoch belongs to it.
LEMMA EpochUpdatesType ==
    ASSUME NEW c \in Configs, NEW e \in Nat, NEW from \in 0..c.len
    PROVE  EpochUpdates(c, e, from) \in Seq(OfEpoch(e))
<1> DEFINE ws == Windows(c, from)
           us == [i \in DOMAIN ws |-> WindowUpdates(c, e, ws[i])]
<1>1. ws \in Seq(Slot)
  BY WindowsAre
<1> HIDE DEF ws
<1>2. \A i \in DOMAIN ws : WindowUpdates(c, e, ws[i]) \in Seq(OfEpoch(e))
  BY <1>1, WindowUpdatesAre
<1>3. us \in Seq(Seq(OfEpoch(e)))
  BY <1>1, <1>2
<1> HIDE DEF us
<1>4. FlattenSeq(us) \in Seq(OfEpoch(e))
  BY <1>3, FlattenType
<1> QED
  BY <1>4 DEF EpochUpdates, us, ws

\* An epoch goes on with its next window, or is over.
LEMMA EpochStep ==
    ASSUME NEW c \in Configs, NEW e \in Nat, NEW from \in 0..c.len
    PROVE  /\ Windows(c, from) = <<>> => EpochUpdates(c, e, from) = <<>>
           /\ \A w \in Slot :
                Windows(c, from) = <<w>> \o Windows(c, from + w.count)
                /\ from + w.count \in 0..c.len
                => EpochUpdates(c, e, from) =
                     WindowUpdates(c, e, w) \o EpochUpdates(c, e, from + w.count)
<1>1. ASSUME Windows(c, from) = <<>> PROVE EpochUpdates(c, e, from) = <<>>
  <2>1. [i \in DOMAIN Windows(c, from) |-> WindowUpdates(c, e, Windows(c, from)[i])] = <<>>
    BY <1>1
  <2> QED
    BY <2>1, FlattenEmpty DEF EpochUpdates
<1>2. ASSUME NEW w \in Slot, Windows(c, from) = <<w>> \o Windows(c, from + w.count),
             from + w.count \in 0..c.len
      PROVE  EpochUpdates(c, e, from) =
               WindowUpdates(c, e, w) \o EpochUpdates(c, e, from + w.count)
  <2> DEFINE vs == Windows(c, from)
             ws == Windows(c, from + w.count)
             us == [i \in DOMAIN vs |-> WindowUpdates(c, e, vs[i])]
             xs == [i \in DOMAIN ws |-> WindowUpdates(c, e, ws[i])]
             x == WindowUpdates(c, e, w)
  <2>1. vs \in Seq(Slot) /\ ws \in Seq(Slot) /\ vs = <<w>> \o ws
    BY <1>2, WindowsAre
  <2> HIDE DEF vs, ws
  <2>2. /\ x \in Seq(OfEpoch(e))
        /\ \A i \in DOMAIN vs : WindowUpdates(c, e, vs[i]) \in Seq(OfEpoch(e))
        /\ \A i \in DOMAIN ws : WindowUpdates(c, e, ws[i]) \in Seq(OfEpoch(e))
    BY <2>1, WindowUpdatesAre
  <2> HIDE DEF x
  <2>a. /\ Len(vs) \in Nat /\ DOMAIN vs = 1..Len(vs)
        /\ Len(ws) \in Nat /\ DOMAIN ws = 1..Len(ws)
    BY <2>1
  <2>b. us \in Seq(Seq(OfEpoch(e))) /\ Len(us) = Len(vs)
    BY <2>a, <2>2
  <2>d. xs \in Seq(Seq(OfEpoch(e))) /\ Len(xs) = Len(ws)
    BY <2>a, <2>2
  <2>3. /\ us \in Seq(Seq(OfEpoch(e))) /\ Len(us) = Len(vs)
        /\ xs \in Seq(Seq(OfEpoch(e))) /\ Len(xs) = Len(ws)
        /\ \A i \in 1..Len(vs) : us[i] = WindowUpdates(c, e, vs[i])
        /\ \A i \in 1..Len(ws) : xs[i] = WindowUpdates(c, e, ws[i])
    BY <2>a, <2>b, <2>d, Zenon
  <2> HIDE DEF us, xs
  <2>4. /\ Len(vs) = Len(ws) + 1 /\ Len(ws) \in Nat /\ vs[1] = w
        /\ \A i \in 1..Len(ws) : vs[i + 1] = ws[i]
    BY <2>1
  <2>5. us = <<x>> \o xs
    <3>1. /\ <<x>> \o xs \in Seq(Seq(OfEpoch(e))) /\ Len(<<x>> \o xs) = Len(us)
          /\ (<<x>> \o xs)[1] = x
          /\ \A i \in 1..Len(xs) : (<<x>> \o xs)[i + 1] = xs[i]
      BY <2>2, <2>3, <2>4
    <3>2. ASSUME NEW i \in 1..Len(us) PROVE us[i] = (<<x>> \o xs)[i]
      <4>1. CASE i = 1
        BY <4>1, <3>1, <2>3, <2>4 DEF x
      <4>2. CASE i # 1
        <5>1. i - 1 \in 1..Len(ws) /\ (i - 1) + 1 = i /\ i \in 1..Len(vs)
          BY <4>2, <2>3, <2>4
        <5>2. vs[i] = ws[i - 1]
          BY <5>1, <2>4
        <5>3. us[i] = xs[i - 1]
          BY <5>1, <5>2, <2>3
        <5>4. (<<x>> \o xs)[i] = xs[i - 1]
          BY <5>1, <3>1, <2>3
        <5> QED
          BY <5>3, <5>4
      <4> QED
        BY <4>1, <4>2
    <3> QED
      BY <3>1, <3>2, <2>3, SeqEqual
  <2>6. FlattenSeq(us) = x \o FlattenSeq(xs)
    BY <2>2, <2>3, <2>5, FlattenCons
  <2>7. EpochUpdates(c, e, from) = FlattenSeq(us)
    BY DEF EpochUpdates, us, vs
  <2>8. EpochUpdates(c, e, from + w.count) = FlattenSeq(xs)
    BY DEF EpochUpdates, xs, ws
  <2> QED
    BY <2>6, <2>7, <2>8 DEF x
<1> QED
  BY <1>1, <1>2

\* What follows an epoch.
Rest(c, e) == FlattenSeq([i \in 1..(NEpochs - 1 - e) |-> EpochUpdates(c, e + i, 0)])

\* What follows an epoch is what is left from the start of the next one.
LEMMA RestIs ==
    ASSUME NEW c \in Configs, NEW e \in Nat, e < NEpochs
    PROVE  /\ Rest(c, e) \in Seq(FromEpoch(e + 1))
           /\ Rest(c, e) = UpdatesFrom(c, e + 1, 0)
<1>0. NEpochs \in Nat /\ c.len \in Nat \ {0} /\ 0 \in 0..c.len
  BY RunAssumption, ConfigFacts
<1> DEFINE n == NEpochs - 1 - e
           us == [i \in 1..n |-> EpochUpdates(c, e + i, 0)]
<1>1. n \in Nat
  BY <1>0
<1>2. \A i \in 1..n : EpochUpdates(c, e + i, 0) \in Seq(FromEpoch(e + 1))
  <2> TAKE i \in 1..n
  <2>1. e + i \in Nat /\ e + i >= e + 1
    BY <1>1
  <2>2. EpochUpdates(c, e + i, 0) \in Seq(OfEpoch(e + i))
    BY <2>1, <1>0, EpochUpdatesType
  <2>3. OfEpoch(e + i) \subseteq FromEpoch(e + 1)
    BY <2>1 DEF OfEpoch, FromEpoch, Updates
  <2> QED
    BY <2>2, <2>3, SeqMonotonic
<1>3. /\ us \in Seq(Seq(FromEpoch(e + 1))) /\ Len(us) = n
      /\ \A i \in 1..n : us[i] = EpochUpdates(c, e + i, 0)
  BY <1>1, <1>2
<1>4. Rest(c, e) = FlattenSeq(us)
  BY DEF Rest
<1>5. Rest(c, e) \in Seq(FromEpoch(e + 1))
  <2> HIDE DEF us
  <2> QED
    BY <1>3, <1>4, FlattenType
<1>6. CASE n = 0
  <2>1. us = <<>>
    BY <1>6
  <2>2. e + 1 >= NEpochs
    BY <1>0, <1>6
  <2> QED
    BY <2>1, <2>2, <1>4, <1>5, FlattenEmpty DEF UpdatesFrom
<1>7. CASE n > 0
  <2> DEFINE m == NEpochs - 1 - (e + 1)
             xs == [i \in 1..m |-> EpochUpdates(c, (e + 1) + i, 0)]
             x == EpochUpdates(c, e + 1, 0)
             T == FromEpoch(e + 1)
  <2>1. m \in Nat /\ n = m + 1 /\ ~(e + 1 >= NEpochs)
    BY <1>0, <1>1, <1>7
  <2>2. \A i \in 1..m : i + 1 \in 1..n /\ (e + 1) + i = e + (i + 1)
    BY <2>1
  <2>3. \A i \in 1..m : EpochUpdates(c, (e + 1) + i, 0) = us[i + 1]
    BY <2>2, <1>3
  <2> HIDE DEF us, n
  <2>4. \A i \in 1..m : us[i + 1] \in Seq(T) /\ EpochUpdates(c, (e + 1) + i, 0) \in Seq(T)
    BY <2>2, <2>3, <1>2, <1>3
  <2>5. xs \in Seq(Seq(T)) /\ Len(xs) = m /\ \A i \in 1..m : xs[i] = us[i + 1]
    BY <2>1, <2>3, <2>4
  <2>6. us[1] = x /\ x \in Seq(T)
    <3>1. 1 \in 1..n
      BY <2>1
    <3> QED
      BY <3>1, <1>2, <1>3
  <2> HIDE DEF xs, x, T, m
  <2>7. us = <<x>> \o xs
    <3>1. /\ <<x>> \o xs \in Seq(Seq(T)) /\ Len(<<x>> \o xs) = m + 1
          /\ (<<x>> \o xs)[1] = x
          /\ \A i \in 1..m : (<<x>> \o xs)[i + 1] = xs[i]
      BY <2>1, <2>5, <2>6
    <3>2. ASSUME NEW i \in 1..n PROVE us[i] = (<<x>> \o xs)[i]
      <4>1. CASE i = 1
        BY <4>1, <3>1, <2>6
      <4>2. CASE i # 1
        <5>1. i - 1 \in 1..m /\ (i - 1) + 1 = i
          BY <4>2, <2>1
        <5> QED
          BY <5>1, <3>1, <2>5
      <4> QED
        BY <4>1, <4>2
    <3>3. us \in Seq(Seq(T)) /\ Len(us) = n
      BY <1>3 DEF T
    <3> QED
      BY <3>1, <3>2, <3>3, <2>1, SeqEqual
  <2>8. FlattenSeq(us) = x \o FlattenSeq(xs)
    BY <2>5, <2>6, <2>7, FlattenCons
  <2>9. UpdatesFrom(c, e + 1, 0) = x \o FlattenSeq(xs)
    BY <2>1 DEF UpdatesFrom, x, xs, m
  <2> QED
    BY <2>8, <2>9, <1>4, <1>5
<1> QED
  BY <1>1, <1>5, <1>6, <1>7

\* What is left to train from a position on.
LEMMA UpdatesType ==
    ASSUME NEW c \in Configs, NEW e \in Nat, NEW from \in 0..c.len
    PROVE  UpdatesFrom(c, e, from) \in Seq(FromEpoch(e))
<1>1. CASE e >= NEpochs
  <2>1. UpdatesFrom(c, e, from) = <<>>
    BY <1>1 DEF UpdatesFrom
  <2> QED
    BY <2>1
<1>2. CASE e < NEpochs
  <2>0. NEpochs \in Nat
    BY RunAssumption
  <2>1. Rest(c, e) \in Seq(FromEpoch(e + 1)) /\ EpochUpdates(c, e, from) \in Seq(OfEpoch(e))
    BY <1>2, RestIs, EpochUpdatesType
  <2>2. FromEpoch(e + 1) \subseteq FromEpoch(e) /\ OfEpoch(e) \subseteq FromEpoch(e)
    BY DEF FromEpoch, OfEpoch, Updates
  <2>3. Rest(c, e) \in Seq(FromEpoch(e)) /\ EpochUpdates(c, e, from) \in Seq(FromEpoch(e))
    BY <2>1, <2>2, SeqMonotonic
  <2>4. UpdatesFrom(c, e, from) = EpochUpdates(c, e, from) \o Rest(c, e)
    BY <1>2, <2>0 DEF UpdatesFrom, Rest
  <2> QED
    BY <2>3, <2>4, ConcatProperties
<1> QED
  BY <1>1, <1>2, RunAssumption

\* After an epoch's last window comes the next epoch.
LEMMA UpdatesNext ==
    ASSUME NEW c \in Configs, NEW e \in Nat, e < NEpochs, NEW from \in 0..c.len,
           Windows(c, from) = <<>>
    PROVE  UpdatesFrom(c, e, from) = UpdatesFrom(c, e + 1, 0)
<1>0. NEpochs \in Nat /\ ~(e >= NEpochs)
  BY RunAssumption
<1>1. EpochUpdates(c, e, from) = <<>>
  BY EpochStep
<1>2. UpdatesFrom(c, e, from) = EpochUpdates(c, e, from) \o Rest(c, e)
  BY <1>0 DEF UpdatesFrom, Rest
<1>3. Rest(c, e) \in Seq(FromEpoch(e + 1)) /\ Rest(c, e) = UpdatesFrom(c, e + 1, 0)
  BY RestIs
<1>4. <<>> \o Rest(c, e) = Rest(c, e)
  BY <1>3, ConcatEmptySeq
<1> QED
  BY <1>1, <1>2, <1>3, <1>4

\* A position's first updates are those of its first window.
LEMMA UpdatesStep ==
    ASSUME NEW c \in Configs, NEW e \in Nat, e < NEpochs, NEW from \in 0..c.len,
           NEW w \in Slot, from + w.count \in 0..c.len,
           Windows(c, from) = <<w>> \o Windows(c, from + w.count)
    PROVE  UpdatesFrom(c, e, from) = WindowUpdates(c, e, w) \o UpdatesFrom(c, e, from + w.count)
<1> DEFINE x == WindowUpdates(c, e, w)
           y == EpochUpdates(c, e, from + w.count)
           z == Rest(c, e)
           T == FromEpoch(e)
<1>0. NEpochs \in Nat /\ ~(e >= NEpochs)
  BY RunAssumption
<1>1. EpochUpdates(c, e, from) = x \o y
  BY EpochStep
<1>2. /\ UpdatesFrom(c, e, from) = EpochUpdates(c, e, from) \o z
      /\ UpdatesFrom(c, e, from + w.count) = y \o z
  BY <1>0 DEF UpdatesFrom, Rest
<1>3. x \in Seq(T) /\ y \in Seq(T) /\ z \in Seq(T)
  <2>1. x \in Seq(OfEpoch(e)) /\ y \in Seq(OfEpoch(e)) /\ z \in Seq(FromEpoch(e + 1))
    BY WindowUpdatesAre, EpochUpdatesType, RestIs
  <2>2. FromEpoch(e + 1) \subseteq T /\ OfEpoch(e) \subseteq T
    BY DEF FromEpoch, OfEpoch, Updates
  <2> HIDE DEF x, y, z, T
  <2> QED
    BY <2>1, <2>2, SeqMonotonic
<1>4. \A a, b, d \in Seq(T) : (a \o b) \o d = a \o (b \o d)
  BY ConcatAssociative, SMTT(60)
<1>5. (x \o y) \o z = x \o (y \o z)
  <2> HIDE DEF x, y, z, T
  <2> QED
    BY <1>3, <1>4, Zenon
<1> QED
  BY <1>1, <1>2, <1>5

\* A step of a window keeps a cursor on the grid.
LEMMA GridStep ==
    ASSUME NEW c \in Configs, NEW o \in Nat, OnGrid(c, o), NEW n \in Nat,
           c.tail = "drop" => n = c.batch
    PROVE  OnGrid(c, o + n)
<1> SUFFICES ASSUME c.tail = "drop" PROVE (o + n) % c.batch = 0
  BY DEF OnGrid
<1>1. c.batch \in Nat \ {0} /\ n = c.batch /\ o % c.batch = 0
  BY ConfigFacts DEF OnGrid
<1>2. PICK b \in Nat \ {0} : b = c.batch
  BY <1>1
<1>3. o + b \in Nat /\ o + b >= b /\ (o + b) - b = o
  OBVIOUS
<1>4. ((o + b) - b) % b = (o + b) % b
  BY <1>3, DivModStep
<1> QED
  BY <1>1, <1>2, <1>3, <1>4

\* From two positions of one epoch the same is left only if they are one position.
LEMMA SamePlace ==
    ASSUME NEW c \in Configs, NEW e \in Nat, e < NEpochs,
           NEW o \in 0..c.len, NEW p \in 0..c.len,
           OnGrid(c, o), OnGrid(c, p),
           UpdatesFrom(c, e, o) = UpdatesFrom(c, e, p)
    PROVE  o = p
<1>0. /\ NEpochs \in Nat /\ c.len \in Nat /\ c.batch \in Nat \ {0} /\ 0 \in 0..c.len
      /\ c.updates \in Nat \ {0} /\ c.tail \in {"flush", "drop"}
  BY RunAssumption, ConfigFacts
\* A position with a window left begins with an update of this epoch at it.
<1>1. ASSUME NEW q \in 0..c.len, Windows(c, q) # <<>>
      PROVE  /\ Len(UpdatesFrom(c, e, q)) > 0
             /\ UpdatesFrom(c, e, q)[1].epoch = e /\ UpdatesFrom(c, e, q)[1].start = q
  <2>1. PICK w \in Slot :
             /\ w.start = q /\ q + w.count \in 0..c.len
             /\ Windows(c, q) = <<w>> \o Windows(c, q + w.count)
    BY <1>1, WindowsStep
  <2>2. UpdatesFrom(c, e, q) = WindowUpdates(c, e, w) \o UpdatesFrom(c, e, q + w.count)
    BY <2>1, UpdatesStep
  <2>3. /\ WindowUpdates(c, e, w) \in Seq(OfEpoch(e))
        /\ Len(WindowUpdates(c, e, w)) = c.updates
        /\ WindowUpdates(c, e, w)[1] = [epoch |-> e, start |-> q, u |-> 1]
    <3>1. 1 \in 1..c.updates
      BY <1>0
    <3>2. \A u \in 1..c.updates :
             WindowUpdates(c, e, w)[u] = [epoch |-> e, start |-> w.start, u |-> u]
      BY WindowUpdatesAre
    <3>3. WindowUpdates(c, e, w)[1] = [epoch |-> e, start |-> w.start, u |-> 1]
      BY <3>1, <3>2
    <3>4. WindowUpdates(c, e, w) \in Seq(OfEpoch(e)) /\ Len(WindowUpdates(c, e, w)) = c.updates
      BY WindowUpdatesAre
    <3> QED
      BY <3>3, <3>4, <2>1
  <2>4. UpdatesFrom(c, e, q + w.count) \in Seq(FromEpoch(e))
    BY <2>1, UpdatesType
  <2> DEFINE x == WindowUpdates(c, e, w)
             y == UpdatesFrom(c, e, q + w.count)
             T == FromEpoch(e)
  <2>5. x \in Seq(T) /\ y \in Seq(T)
    <3>1. OfEpoch(e) \subseteq T
      BY DEF FromEpoch, OfEpoch, Updates
    <3> HIDE DEF x, T
    <3> QED
      BY <2>3, <2>4, <3>1, SeqMonotonic DEF x, T
  <2> HIDE DEF x, y, T
  <2>6. Len(x \o y) > 0 /\ (x \o y)[1] = x[1]
    BY <2>5, <2>3, <1>0 DEF x
  <2>7. x \o y = UpdatesFrom(c, e, q) /\ x[1] = [epoch |-> e, start |-> q, u |-> 1]
    BY <2>2, <2>3 DEF x, y
  <2> QED
    BY <2>6, <2>7
\* A position with none is followed by the next epoch.
<1>2. ASSUME NEW q \in 0..c.len, Windows(c, q) = <<>>, Len(UpdatesFrom(c, e, q)) > 0
      PROVE  UpdatesFrom(c, e, q)[1].epoch # e
  <2>1. UpdatesFrom(c, e, q) = UpdatesFrom(c, e + 1, 0)
    BY <1>2, UpdatesNext
  <2>2. UpdatesFrom(c, e + 1, 0) \in Seq(FromEpoch(e + 1))
    BY <1>0, UpdatesType
  <2>3. UpdatesFrom(c, e, q)[1] \in FromEpoch(e + 1)
    BY <1>2, <2>1, <2>2
  <2> QED
    BY <2>3 DEF FromEpoch, Updates
<1>3. CASE Windows(c, o) # <<>> /\ Windows(c, p) # <<>>
  BY <1>1, <1>3
<1>4. CASE Windows(c, o) = <<>> /\ Windows(c, p) # <<>>
  BY <1>1, <1>2, <1>4
<1>5. CASE Windows(c, o) # <<>> /\ Windows(c, p) = <<>>
  BY <1>1, <1>2, <1>5
<1>6. CASE Windows(c, o) = <<>> /\ Windows(c, p) = <<>>
  <2>1. CASE c.tail = "flush"
    BY <1>6, <2>1, NoWindows
  <2>2. CASE c.tail = "drop"
    <3>1. PICK k \in Nat : o = c.batch * k
      <4>1. o \in Nat /\ o % c.batch = 0
        BY <2>2 DEF OnGrid
      <4>2. o \div c.batch \in Nat /\ o = c.batch * (o \div c.batch) + (o % c.batch)
        BY <4>1, <1>0, DivModFacts
      <4>3. c.batch * (o \div c.batch) \in Nat
        BY <4>2, <1>0
      <4> QED
        BY <4>1, <4>2, <4>3
    <3>2. PICK l \in Nat : p = c.batch * l
      <4>1. p \in Nat /\ p % c.batch = 0
        BY <2>2 DEF OnGrid
      <4>2. p \div c.batch \in Nat /\ p = c.batch * (p \div c.batch) + (p % c.batch)
        BY <4>1, <1>0, DivModFacts
      <4>3. c.batch * (p \div c.batch) \in Nat
        BY <4>2, <1>0
      <4> QED
        BY <4>1, <4>2, <4>3
    <3>3. c.len - o \in 0..(c.batch - 1) /\ c.len - p \in 0..(c.batch - 1)
      <4>1. c.len - o < c.batch /\ c.len - p < c.batch
        BY <1>6, NoWindows
      <4> QED
        BY <4>1, <1>0
    <3>4. c.batch * k + (c.len - o) = c.batch * l + (c.len - p)
      BY <3>1, <3>2, <1>0
    <3>5. k = l
      BY <3>3, <3>4, <1>0, DivModUnique
    <3> QED
      BY <3>1, <3>2, <3>5
  <2> QED
    BY <2>1, <2>2, <1>0
<1> QED
  BY <1>3, <1>4, <1>5, <1>6

-----------------------------------------------------------------------------
(* Types, phases and the metric history.                                    *)

\* States a checkpoint of a configuration can hold: its numbers, its metric history.
Contents(c) == [epoch : 0..NEpochs, offset : 0..c.len, consumed : Nat, steps : Nat,
                metrics : Seq(Nat), weights : Seq(Updates)]
Counted(s) == s.steps = Len(s.weights) /\ s.metrics = [i \in 1..s.steps |-> i]
Proper(c, s) == /\ s \in Contents(c) /\ Counted(s)
                /\ s.epoch = NEpochs => s.offset = 0

InEpoch == pc \in {"epochBegin", "next", "fetch", "update", "committed", "epochEnd", "roundsEnd"}
AtRest == pc \in {"loop", "epochBegin", "next", "fetch", "epochEnd", "roundsEnd"}
InWindow == pc = "update" \/ (pc = "committed" /\ ~safe)

RangesOK ==
    /\ TypeOK /\ config \in Configs /\ weights \in Seq(Updates)
    /\ epoch = NEpochs => offset = 0
    /\ InEpoch => epoch = loop /\ loop < NEpochs
PhaseOK ==
    /\ AtRest => safe
    /\ pc = "update" => ~safe
    /\ pc = "fetch" => update = 1
    /\ pc = "committed" => (safe <=> Final)
    /\ InWindow => Windows(config, offset) # <<>>
CountsOK == safe \/ InWindow => Counted(Content)
FilesOK ==
    /\ dir \in [Names -> {None} \cup Contents(config)]
    /\ \A n \in Published : /\ Proper(config, dir[n])
                            /\ n.epoch = dir[n].epoch /\ n.step = dir[n].steps
HistoryInv == RangesOK /\ PhaseOK /\ CountsOK /\ FilesOK

\* The configuration of a run is one of Configs, with the ranges that gives.
LEMMA ConfigNow ==
    ASSUME HistoryInv
    PROVE  /\ config \in Configs
           /\ DatasetLen \in Nat \ {0} /\ GlobalBatch \in Nat \ {0}
           /\ UpdatesPerWindow \in Nat \ {0} /\ CkptInterval \in Nat \ {0}
           /\ Mode \in {"window", "round"} /\ TailPolicy \in {"flush", "drop"}
           /\ Mode = "round" => TailPolicy = "flush" /\ UpdatesPerWindow = 1
           /\ NEpochs \in Nat \ {0}
<1>1. config \in Configs
  BY DEF HistoryInv, RangesOK
<1> QED
  BY <1>1, ConfigFacts, RunAssumption
  DEF DatasetLen, GlobalBatch, UpdatesPerWindow, CkptInterval, Mode, TailPolicy

\* The window that is being trained begins at the cursor.
LEMMA WindowFacts ==
    ASSUME HistoryInv, Windows(config, offset) # <<>>
    PROVE  /\ Window \in Slot /\ Window.start = offset
           /\ offset + Window.count \in 0..DatasetLen
           /\ TailPolicy = "drop" => Window.count = GlobalBatch
           /\ Windows(config, offset) = <<Window>> \o Windows(config, offset + Window.count)
<1>1. config \in Configs /\ offset \in 0..config.len
  BY DEF HistoryInv, RangesOK, TypeOK, DatasetLen
<1>2. \E w \in Slot :
             /\ w = Head(Windows(config, offset)) /\ w.start = offset
             /\ offset + w.count \in 0..config.len
             /\ config.tail = "drop" => w.count = config.batch
             /\ Windows(config, offset) = <<w>> \o Windows(config, offset + w.count)
  BY <1>1, WindowsStep
<1> QED
  BY <1>2, Zenon DEF Window, DatasetLen, TailPolicy, GlobalBatch

\* Appending commutes with concatenation.
LEMMA ConcatAppend ==
    ASSUME NEW T, NEW l \in Seq(T), NEW r \in Seq(T), NEW x \in T
    PROVE  l \o Append(r, x) = Append(l \o r, x)
<1>1. l \o r \in Seq(T) /\ <<x>> \in Seq(T)
  BY ConcatProperties
<1>2. Append(r, x) = r \o <<x>> /\ Append(l \o r, x) = (l \o r) \o <<x>>
  BY <1>1, AppendIsConcat
<1>3. \A a, b, d \in Seq(T) : (a \o b) \o d = a \o (b \o d)
  BY ConcatAssociative, SMTT(60)
<1>4. (l \o r) \o <<x>> = l \o (r \o <<x>>)
  BY <1>1, <1>3, Zenon
<1> QED
  BY <1>2, <1>4, Zenon

\* The numbers up to n.
UpTo(n) == [i \in 1..n |-> i]

\* One more number after those up to n.
LEMMA OneMore ==
    ASSUME NEW l \in Seq(Nat), NEW r \in Seq(Nat), NEW n \in Nat, l \o r = UpTo(n)
    PROVE  l \o Append(r, n + 1) = UpTo(n + 1)
<1> DEFINE s == [i \in 1..n |-> i]
           t == [i \in 1..(n + 1) |-> i]
<1>0. l \o r = s /\ t = UpTo(n + 1)
  BY DEF UpTo
<1>1. l \o Append(r, n + 1) = Append(l \o r, n + 1)
  BY ConcatAppend, SMTT(30)
<1>2. Append(s, n + 1) = t
  <2>1. s \in Seq(Nat) /\ t \in Seq(Nat) /\ Len(s) = n /\ Len(t) = n + 1
    OBVIOUS
  <2>2. Append(s, n + 1) \in Seq(Nat) /\ Len(Append(s, n + 1)) = n + 1
    BY <2>1
  <2>3. \A i \in 1..(n + 1) : Append(s, n + 1)[i] = t[i]
    BY <2>1
  <2> QED
    BY <2>1, <2>2, <2>3, SeqEqual
<1> QED
  BY <1>0, <1>1, <1>2

\* What a process holds that may be saved is proper.
LEMMA ContentProper ==
    ASSUME HistoryInv, safe
    PROVE  Proper(config, Content) /\ Content \in Contents(config)
<1>1. /\ epoch \in 0..NEpochs /\ offset \in 0..config.len /\ consumed \in Nat
      /\ steps \in Nat /\ log \in Seq(Nat) /\ records \in Seq(Nat) /\ weights \in Seq(Updates)
  BY DEF HistoryInv, RangesOK, TypeOK, DatasetLen
<1>2. log \o records \in Seq(Nat)
  BY <1>1, ConcatProperties
<1>3. Content \in Contents(config)
  BY <1>1, <1>2 DEF Content, Contents
<1>4. Counted(Content)
  BY DEF HistoryInv, CountsOK
<1>5. Content.epoch = NEpochs => Content.offset = 0
  BY DEF HistoryInv, RangesOK, Content
<1> QED
  BY <1>3, <1>4, <1>5 DEF Proper

\* What is published is proper when what the process holds is.
LEMMA FilesSaved ==
    ASSUME HistoryInv, safe, config' = config, dir' = [dir EXCEPT ![Name] = Content]
    PROVE  FilesOK'
<1>2. Proper(config, Content) /\ Content \in Contents(config)
  BY ContentProper
<1>3. Name.epoch = Content.epoch /\ Name.step = Content.steps
  BY DEF Name, Content
<1>4. Names' = Names
  BY DEF Names, Schedule
<1>5. dir \in [Names -> {None} \cup Contents(config)]
  BY DEF HistoryInv, FilesOK
<1>6. \A n \in Published : /\ Proper(config, dir[n])
                           /\ n.epoch = dir[n].epoch /\ n.step = dir[n].steps
  BY DEF HistoryInv, FilesOK
<1>7. dir' \in [Names -> {None} \cup Contents(config)]
  BY <1>2, <1>5
<1>8. \A n \in Names : dir'[n] = IF n = Name THEN Content ELSE dir[n]
  BY <1>5
<1>9. ASSUME NEW n \in Names, dir'[n] # None
      PROVE  /\ Proper(config, dir'[n])
             /\ n.epoch = dir'[n].epoch /\ n.step = dir'[n].steps
  <2>1. CASE n = Name
    BY <2>1, <1>2, <1>3, <1>8
  <2>2. CASE n # Name
    <3>1. dir'[n] = dir[n] /\ n \in Published
      BY <2>2, <1>8, <1>9 DEF Published
    <3> QED
      BY <3>1, <1>6
  <2> QED
    BY <2>1, <2>2
<1> QED
  BY <1>4, <1>7, <1>9 DEF FilesOK, Published

\* A step that touches no file keeps what the files promise.
LEMMA FilesKept ==
    ASSUME HistoryInv, config' = config, dir' = dir
    PROVE  FilesOK'
<1>1. Names' = Names
  BY DEF Names, Schedule
<1>2. FilesOK
  BY DEF HistoryInv
<1> QED
  BY <1>1, <1>2 DEF FilesOK, Published

\* What Save, or a save that fails, does to the files and the history.
LEMMA SaveKeeps ==
    ASSUME HistoryInv, config' = config, Save
    PROVE  /\ FilesOK'
           /\ log' \in Seq(Nat) /\ records' \in Seq(Nat) /\ log' \o records' = log \o records
           /\ lastStep' \in Nat /\ lastCursor' \in Nat /\ saved' \in BOOLEAN
<1>1. /\ log \in Seq(Nat) /\ records \in Seq(Nat) /\ steps \in Nat /\ consumed \in Nat
      /\ lastStep \in Nat /\ lastCursor \in Nat /\ saved \in BOOLEAN
  BY DEF HistoryInv, RangesOK, TypeOK
<1>2. CASE ~safe
  <2>1. dir' = dir /\ UNCHANGED <<log, records, lastStep, lastCursor, saved>>
    BY <1>2 DEF Save, Saveable, history, callback
  <2> QED
    BY <1>1, <2>1, FilesKept
<1>3. CASE safe /\ dir[Name] # None
  <2>1. /\ dir' = dir /\ UNCHANGED <<log, records>>
        /\ lastStep' = steps /\ lastCursor' = consumed /\ saved' = TRUE
    BY <1>3 DEF Save, Saveable, history
  <2> QED
    BY <1>1, <2>1, FilesKept
<1>4. CASE safe /\ dir[Name] = None
  <2>1. /\ dir' = [dir EXCEPT ![Name] = Content] /\ log' = log \o records /\ records' = <<>>
        /\ lastStep' = steps /\ lastCursor' = consumed /\ saved' = TRUE
    BY <1>4 DEF Save, Saveable
  <2>2. log \o records \in Seq(Nat) /\ (log \o records) \o <<>> = log \o records
    <3>1. log \o records \in Seq(Nat)
      BY <1>1, ConcatProperties
    <3> QED
      BY <3>1, ConcatEmptySeq
  <2>3. FilesOK'
    BY <1>4, <2>1, FilesSaved
  <2>4. <<>> \in Seq(Nat)
    OBVIOUS
  <2> QED
    BY <1>1, <2>1, <2>2, <2>3, <2>4
<1>5. safe \in BOOLEAN
  BY DEF HistoryInv, RangesOK, TypeOK
<1> QED
  BY <1>2, <1>3, <1>4, <1>5, Zenon

\* So does a checkpoint that is published before its save raises.
LEMMA PublishKeeps ==
    ASSUME HistoryInv, config' = config, PublishRaises
    PROVE  FilesOK'
<1>1. safe /\ dir' = [dir EXCEPT ![Name] = Content]
  BY DEF PublishRaises, Saveable
<1> QED
  BY <1>1, FilesSaved

\* The steps that commit nothing keep the history.
LEMMA HistoryStep1 ==
    ASSUME HistoryInv, config' = config,
           \/ Signal
           \/ Killed
           \/ NextEpoch
           \/ EpochBegins
           \/ NextWindow
           \/ Fetch
           \/ FetchRaises
           \/ EpochEnds
           \/ RoundsStopped
           \/ RoundsEnd
    PROVE  HistoryInv'
<1>0. /\ config \in Configs
      /\ DatasetLen \in Nat \ {0} /\ GlobalBatch \in Nat \ {0}
      /\ UpdatesPerWindow \in Nat \ {0}
      /\ Mode \in {"window", "round"} /\ TailPolicy \in {"flush", "drop"}
      /\ Mode = "round" => TailPolicy = "flush" /\ UpdatesPerWindow = 1
      /\ NEpochs \in Nat \ {0} /\ MaxFaults \in Nat /\ MaxStops \in Nat
  BY ConfigNow, RunAssumption
<1>1. /\ DatasetLen' = DatasetLen /\ UpdatesPerWindow' = UpdatesPerWindow
  BY DEF DatasetLen, UpdatesPerWindow
<1>2. RangesOK /\ PhaseOK /\ CountsOK
  BY DEF HistoryInv
<1>Signal. CASE Signal
  <2>1. RangesOK'
    <3>1. /\ pc' \in {"dead", "loop", "epochBegin", "next", "fetch", "update", "committed",
                     "epochEnd", "roundsEnd", "shutdown", "finish"}
          /\ ended' \in {"never", "running", "killed", "failed", "stopped", "complete"}
      BY <1>2, <1>Signal DEF RangesOK, TypeOK, Signal
    <3>2. /\ loop' \in 0..NEpochs /\ epoch' \in 0..NEpochs
          /\ offset' \in 0..DatasetLen /\ consumed' \in Nat
      BY <1>0, <1>2, <1>Signal DEF RangesOK, InEpoch, TypeOK, Signal, cursor
    <3>3. /\ update' \in 1..UpdatesPerWindow /\ steps' \in Nat
          /\ lastStep' \in Nat /\ lastCursor' \in Nat
      BY <1>0, <1>2, <1>Signal DEF RangesOK, TypeOK, Signal, cursor, callback
    <3>4. faults' \in 0..MaxFaults /\ stops' \in 0..MaxStops
      BY <1>0, <1>2, <1>Signal DEF RangesOK, TypeOK, Signal, counters
    <3>5. {safe', stop', agreed', saved'} \subseteq BOOLEAN
      BY <1>2, <1>Signal DEF RangesOK, TypeOK, Signal, callback
    <3>6. /\ log' \in Seq(Nat) /\ records' \in Seq(Nat) /\ weights' \in Seq(Updates)
      BY <1>2, <1>Signal DEF RangesOK, TypeOK, Signal, history
    <3>7. epoch' = NEpochs => offset' = 0
      BY <1>0, <1>2, <1>Signal DEF RangesOK, InEpoch, TypeOK, Signal, cursor
    <3>8. InEpoch' => epoch' = loop' /\ loop' < NEpochs
      BY <1>0, <1>2, <1>Signal DEF RangesOK, InEpoch, TypeOK, Signal, cursor
    <3> QED
      BY <1>0, <1>1, <3>1, <3>2, <3>3, <3>5, <3>6, <3>7, <3>8, <3>4 DEF RangesOK, TypeOK
  <2>2. PhaseOK'
    BY <1>0, <1>1, <1>2, <1>Signal
    DEF PhaseOK, RangesOK, InEpoch, TypeOK, AtRest, InWindow, Final, Signal, cursor, history,
        callback, counters
  <2>3. CountsOK'
    BY <1>1, <1>2, <1>Signal
    DEF CountsOK, RangesOK, TypeOK, PhaseOK, AtRest, Counted, Content, InWindow, Signal, cursor,
        history, callback, counters
  <2>4. FilesOK'
    BY <1>Signal, FilesKept DEF Signal
  <2> QED
    BY <2>1, <2>2, <2>3, <2>4 DEF HistoryInv
<1>Killed. CASE Killed
  <2>1. RangesOK'
    <3>1. /\ pc' \in {"dead", "loop", "epochBegin", "next", "fetch", "update", "committed",
                     "epochEnd", "roundsEnd", "shutdown", "finish"}
          /\ ended' \in {"never", "running", "killed", "failed", "stopped", "complete"}
      BY <1>2, <1>Killed DEF RangesOK, TypeOK, Killed
    <3>2. /\ loop' \in 0..NEpochs /\ epoch' \in 0..NEpochs
          /\ offset' \in 0..DatasetLen /\ consumed' \in Nat
      BY <1>0, <1>2, <1>Killed DEF RangesOK, InEpoch, TypeOK, Killed, cursor
    <3>3. /\ update' \in 1..UpdatesPerWindow /\ steps' \in Nat
          /\ lastStep' \in Nat /\ lastCursor' \in Nat
      BY <1>0, <1>2, <1>Killed DEF RangesOK, TypeOK, Killed, cursor, callback
    <3>4. faults' \in 0..MaxFaults /\ stops' \in 0..MaxStops
      BY <1>0, <1>2, <1>Killed DEF RangesOK, TypeOK, Killed, counters
    <3>5. {safe', stop', agreed', saved'} \subseteq BOOLEAN
      BY <1>2, <1>Killed DEF RangesOK, TypeOK, Killed, callback
    <3>6. /\ log' \in Seq(Nat) /\ records' \in Seq(Nat) /\ weights' \in Seq(Updates)
      BY <1>2, <1>Killed DEF RangesOK, TypeOK, Killed, history
    <3>7. epoch' = NEpochs => offset' = 0
      BY <1>0, <1>2, <1>Killed DEF RangesOK, InEpoch, TypeOK, Killed, cursor
    <3>8. InEpoch' => epoch' = loop' /\ loop' < NEpochs
      BY <1>0, <1>2, <1>Killed DEF RangesOK, InEpoch, TypeOK, Killed, cursor
    <3> QED
      BY <1>0, <1>1, <3>1, <3>2, <3>3, <3>5, <3>6, <3>7, <3>8, <3>4 DEF RangesOK, TypeOK
  <2>2. PhaseOK'
    BY <1>0, <1>1, <1>2, <1>Killed
    DEF PhaseOK, RangesOK, InEpoch, TypeOK, AtRest, InWindow, Final, Killed, cursor, history,
        callback, counters
  <2>3. CountsOK'
    BY <1>1, <1>2, <1>Killed
    DEF CountsOK, RangesOK, TypeOK, PhaseOK, AtRest, Counted, Content, InWindow, Killed, cursor,
        history, callback, counters
  <2>4. FilesOK'
    BY <1>Killed, FilesKept DEF Killed
  <2> QED
    BY <2>1, <2>2, <2>3, <2>4 DEF HistoryInv
<1>NextEpoch. CASE NextEpoch
  <2>1. RangesOK'
    <3>1. /\ pc' \in {"dead", "loop", "epochBegin", "next", "fetch", "update", "committed",
                     "epochEnd", "roundsEnd", "shutdown", "finish"}
          /\ ended' \in {"never", "running", "killed", "failed", "stopped", "complete"}
      BY <1>2, <1>NextEpoch DEF RangesOK, TypeOK, NextEpoch, Agreed
    <3>2. /\ loop' \in 0..NEpochs /\ epoch' \in 0..NEpochs
          /\ offset' \in 0..DatasetLen /\ consumed' \in Nat
      BY <1>0, <1>2, <1>NextEpoch DEF RangesOK, InEpoch, TypeOK, NextEpoch, Agreed, cursor
    <3>3. /\ update' \in 1..UpdatesPerWindow /\ steps' \in Nat
          /\ lastStep' \in Nat /\ lastCursor' \in Nat
      BY <1>0, <1>2, <1>NextEpoch DEF RangesOK, TypeOK, NextEpoch, Agreed, cursor, callback
    <3>4. faults' \in 0..MaxFaults /\ stops' \in 0..MaxStops
      BY <1>0, <1>2, <1>NextEpoch DEF RangesOK, TypeOK, NextEpoch, Agreed, counters
    <3>5. {safe', stop', agreed', saved'} \subseteq BOOLEAN
      BY <1>2, <1>NextEpoch DEF RangesOK, TypeOK, NextEpoch, Agreed, callback
    <3>6. /\ log' \in Seq(Nat) /\ records' \in Seq(Nat) /\ weights' \in Seq(Updates)
      BY <1>2, <1>NextEpoch DEF RangesOK, TypeOK, NextEpoch, Agreed, history
    <3>7. epoch' = NEpochs => offset' = 0
      BY <1>0, <1>2, <1>NextEpoch DEF RangesOK, InEpoch, TypeOK, NextEpoch, Agreed, cursor
    <3>8. InEpoch' => epoch' = loop' /\ loop' < NEpochs
      BY <1>0, <1>2, <1>NextEpoch DEF RangesOK, InEpoch, TypeOK, NextEpoch, Agreed, cursor
    <3> QED
      BY <1>0, <1>1, <3>1, <3>2, <3>3, <3>5, <3>6, <3>7, <3>8, <3>4 DEF RangesOK, TypeOK
  <2>2. PhaseOK'
    BY <1>0, <1>1, <1>2, <1>NextEpoch
    DEF PhaseOK, RangesOK, InEpoch, TypeOK, AtRest, InWindow, Final, NextEpoch, Agreed, cursor,
        history, callback, counters
  <2>3. CountsOK'
    BY <1>1, <1>2, <1>NextEpoch
    DEF CountsOK, RangesOK, TypeOK, PhaseOK, AtRest, Counted, Content, InWindow, NextEpoch, Agreed,
        cursor, history, callback, counters
  <2>4. FilesOK'
    BY <1>NextEpoch, FilesKept DEF NextEpoch, Agreed
  <2> QED
    BY <2>1, <2>2, <2>3, <2>4 DEF HistoryInv
<1>EpochBegins. CASE EpochBegins
  <2>1. RangesOK'
    <3>1. /\ pc' \in {"dead", "loop", "epochBegin", "next", "fetch", "update", "committed",
                     "epochEnd", "roundsEnd", "shutdown", "finish"}
          /\ ended' \in {"never", "running", "killed", "failed", "stopped", "complete"}
      BY <1>2, <1>EpochBegins DEF RangesOK, TypeOK, EpochBegins, Agreed
    <3>2. /\ loop' \in 0..NEpochs /\ epoch' \in 0..NEpochs
          /\ offset' \in 0..DatasetLen /\ consumed' \in Nat
      BY <1>0, <1>2, <1>EpochBegins DEF RangesOK, InEpoch, TypeOK, EpochBegins, Agreed, cursor
    <3>3. /\ update' \in 1..UpdatesPerWindow /\ steps' \in Nat
          /\ lastStep' \in Nat /\ lastCursor' \in Nat
      BY <1>0, <1>2, <1>EpochBegins DEF RangesOK, TypeOK, EpochBegins, Agreed, cursor, callback
    <3>4. faults' \in 0..MaxFaults /\ stops' \in 0..MaxStops
      BY <1>0, <1>2, <1>EpochBegins DEF RangesOK, TypeOK, EpochBegins, Agreed, counters
    <3>5. {safe', stop', agreed', saved'} \subseteq BOOLEAN
      BY <1>2, <1>EpochBegins DEF RangesOK, TypeOK, EpochBegins, Agreed, callback
    <3>6. /\ log' \in Seq(Nat) /\ records' \in Seq(Nat) /\ weights' \in Seq(Updates)
      BY <1>2, <1>EpochBegins DEF RangesOK, TypeOK, EpochBegins, Agreed, history
    <3>7. epoch' = NEpochs => offset' = 0
      BY <1>0, <1>2, <1>EpochBegins DEF RangesOK, InEpoch, TypeOK, EpochBegins, Agreed, cursor
    <3>8. InEpoch' => epoch' = loop' /\ loop' < NEpochs
      BY <1>0, <1>2, <1>EpochBegins DEF RangesOK, InEpoch, TypeOK, EpochBegins, Agreed, cursor
    <3> QED
      BY <1>0, <1>1, <3>1, <3>2, <3>3, <3>5, <3>6, <3>7, <3>8, <3>4 DEF RangesOK, TypeOK
  <2>2. PhaseOK'
    BY <1>0, <1>1, <1>2, <1>EpochBegins
    DEF PhaseOK, RangesOK, InEpoch, TypeOK, AtRest, InWindow, Final, EpochBegins, Agreed, cursor,
        history, callback, counters
  <2>3. CountsOK'
    BY <1>1, <1>2, <1>EpochBegins
    DEF CountsOK, RangesOK, TypeOK, PhaseOK, AtRest, Counted, Content, InWindow, EpochBegins,
        Agreed, cursor, history, callback, counters
  <2>4. FilesOK'
    BY <1>EpochBegins, FilesKept DEF EpochBegins, Agreed
  <2> QED
    BY <2>1, <2>2, <2>3, <2>4 DEF HistoryInv
<1>NextWindow. CASE NextWindow
  <2>1. RangesOK'
    <3>1. /\ pc' \in {"dead", "loop", "epochBegin", "next", "fetch", "update", "committed",
                     "epochEnd", "roundsEnd", "shutdown", "finish"}
          /\ ended' \in {"never", "running", "killed", "failed", "stopped", "complete"}
      BY <1>2, <1>NextWindow DEF RangesOK, TypeOK, NextWindow, ShouldStop
    <3>2. /\ loop' \in 0..NEpochs /\ epoch' \in 0..NEpochs
          /\ offset' \in 0..DatasetLen /\ consumed' \in Nat
      BY <1>0, <1>2, <1>NextWindow DEF RangesOK, InEpoch, TypeOK, NextWindow, ShouldStop, cursor
    <3>3. /\ update' \in 1..UpdatesPerWindow /\ steps' \in Nat
          /\ lastStep' \in Nat /\ lastCursor' \in Nat
      BY <1>0, <1>2, <1>NextWindow DEF RangesOK, TypeOK, NextWindow, ShouldStop, cursor, callback
    <3>4. faults' \in 0..MaxFaults /\ stops' \in 0..MaxStops
      BY <1>0, <1>2, <1>NextWindow DEF RangesOK, TypeOK, NextWindow, ShouldStop, counters
    <3>5. {safe', stop', agreed', saved'} \subseteq BOOLEAN
      BY <1>2, <1>NextWindow DEF RangesOK, TypeOK, NextWindow, ShouldStop, callback
    <3>6. /\ log' \in Seq(Nat) /\ records' \in Seq(Nat) /\ weights' \in Seq(Updates)
      BY <1>2, <1>NextWindow DEF RangesOK, TypeOK, NextWindow, ShouldStop, history
    <3>7. epoch' = NEpochs => offset' = 0
      BY <1>0, <1>2, <1>NextWindow DEF RangesOK, InEpoch, TypeOK, NextWindow, ShouldStop, cursor
    <3>8. InEpoch' => epoch' = loop' /\ loop' < NEpochs
      BY <1>0, <1>2, <1>NextWindow DEF RangesOK, InEpoch, TypeOK, NextWindow, ShouldStop, cursor
    <3> QED
      BY <1>0, <1>1, <3>1, <3>2, <3>3, <3>5, <3>6, <3>7, <3>8, <3>4 DEF RangesOK, TypeOK
  <2>2. PhaseOK'
    BY <1>0, <1>1, <1>2, <1>NextWindow
    DEF PhaseOK, RangesOK, InEpoch, TypeOK, AtRest, InWindow, Final, NextWindow, ShouldStop,
        cursor, history, callback, counters
  <2>3. CountsOK'
    BY <1>1, <1>2, <1>NextWindow
    DEF CountsOK, RangesOK, TypeOK, PhaseOK, AtRest, Counted, Content, InWindow, NextWindow,
        ShouldStop, cursor, history, callback, counters
  <2>4. FilesOK'
    BY <1>NextWindow, FilesKept DEF NextWindow, ShouldStop
  <2> QED
    BY <2>1, <2>2, <2>3, <2>4 DEF HistoryInv
<1>Fetch. CASE Fetch
  <2>1. RangesOK'
    <3>1. /\ pc' \in {"dead", "loop", "epochBegin", "next", "fetch", "update", "committed",
                     "epochEnd", "roundsEnd", "shutdown", "finish"}
          /\ ended' \in {"never", "running", "killed", "failed", "stopped", "complete"}
      BY <1>2, <1>Fetch DEF RangesOK, TypeOK, Fetch, Exhausted
    <3>2. /\ loop' \in 0..NEpochs /\ epoch' \in 0..NEpochs
          /\ offset' \in 0..DatasetLen /\ consumed' \in Nat
      BY <1>0, <1>2, <1>Fetch DEF RangesOK, InEpoch, TypeOK, Fetch, Exhausted, cursor
    <3>3. /\ update' \in 1..UpdatesPerWindow /\ steps' \in Nat
          /\ lastStep' \in Nat /\ lastCursor' \in Nat
      BY <1>0, <1>2, <1>Fetch DEF RangesOK, TypeOK, Fetch, Exhausted, cursor, callback
    <3>4. faults' \in 0..MaxFaults /\ stops' \in 0..MaxStops
      BY <1>0, <1>2, <1>Fetch DEF RangesOK, TypeOK, Fetch, Exhausted, counters
    <3>5. {safe', stop', agreed', saved'} \subseteq BOOLEAN
      BY <1>2, <1>Fetch DEF RangesOK, TypeOK, Fetch, Exhausted, callback
    <3>6. /\ log' \in Seq(Nat) /\ records' \in Seq(Nat) /\ weights' \in Seq(Updates)
      BY <1>2, <1>Fetch DEF RangesOK, TypeOK, Fetch, Exhausted, history
    <3>7. epoch' = NEpochs => offset' = 0
      BY <1>0, <1>2, <1>Fetch DEF RangesOK, InEpoch, TypeOK, Fetch, Exhausted, cursor
    <3>8. InEpoch' => epoch' = loop' /\ loop' < NEpochs
      BY <1>0, <1>2, <1>Fetch DEF RangesOK, InEpoch, TypeOK, Fetch, Exhausted, cursor
    <3> QED
      BY <1>0, <1>1, <3>1, <3>2, <3>3, <3>5, <3>6, <3>7, <3>8, <3>4 DEF RangesOK, TypeOK
  <2>2. PhaseOK'
    BY <1>0, <1>1, <1>2, <1>Fetch
    DEF PhaseOK, RangesOK, InEpoch, TypeOK, AtRest, InWindow, Final, Fetch, Exhausted, cursor,
        history, callback, counters
  <2>3. CountsOK'
    BY <1>1, <1>2, <1>Fetch
    DEF CountsOK, RangesOK, TypeOK, PhaseOK, AtRest, Counted, Content, InWindow, Fetch, Exhausted,
        cursor, history, callback, counters
  <2>4. FilesOK'
    BY <1>Fetch, FilesKept DEF Fetch, Exhausted
  <2> QED
    BY <2>1, <2>2, <2>3, <2>4 DEF HistoryInv
<1>FetchRaises. CASE FetchRaises
  <2>1. RangesOK'
    <3>1. /\ pc' \in {"dead", "loop", "epochBegin", "next", "fetch", "update", "committed",
                     "epochEnd", "roundsEnd", "shutdown", "finish"}
          /\ ended' \in {"never", "running", "killed", "failed", "stopped", "complete"}
      BY <1>2, <1>FetchRaises DEF RangesOK, TypeOK, FetchRaises, Raises, Fault
    <3>2. /\ loop' \in 0..NEpochs /\ epoch' \in 0..NEpochs
          /\ offset' \in 0..DatasetLen /\ consumed' \in Nat
      BY <1>0, <1>2, <1>FetchRaises
      DEF RangesOK, InEpoch, TypeOK, FetchRaises, Raises, Fault, cursor
    <3>3. /\ update' \in 1..UpdatesPerWindow /\ steps' \in Nat
          /\ lastStep' \in Nat /\ lastCursor' \in Nat
      BY <1>0, <1>2, <1>FetchRaises
      DEF RangesOK, TypeOK, FetchRaises, Raises, Fault, cursor, callback
    <3>4. faults' \in 0..MaxFaults /\ stops' \in 0..MaxStops
      BY <1>0, <1>2, <1>FetchRaises DEF RangesOK, TypeOK, FetchRaises, Raises, Fault, counters
    <3>5. {safe', stop', agreed', saved'} \subseteq BOOLEAN
      BY <1>2, <1>FetchRaises DEF RangesOK, TypeOK, FetchRaises, Raises, Fault, callback
    <3>6. /\ log' \in Seq(Nat) /\ records' \in Seq(Nat) /\ weights' \in Seq(Updates)
      BY <1>2, <1>FetchRaises DEF RangesOK, TypeOK, FetchRaises, Raises, Fault, history
    <3>7. epoch' = NEpochs => offset' = 0
      BY <1>0, <1>2, <1>FetchRaises
      DEF RangesOK, InEpoch, TypeOK, FetchRaises, Raises, Fault, cursor
    <3>8. InEpoch' => epoch' = loop' /\ loop' < NEpochs
      BY <1>0, <1>2, <1>FetchRaises
      DEF RangesOK, InEpoch, TypeOK, FetchRaises, Raises, Fault, cursor
    <3> QED
      BY <1>0, <1>1, <3>1, <3>2, <3>3, <3>5, <3>6, <3>7, <3>8, <3>4 DEF RangesOK, TypeOK
  <2>2. PhaseOK'
    BY <1>0, <1>1, <1>2, <1>FetchRaises
    DEF PhaseOK, RangesOK, InEpoch, TypeOK, AtRest, InWindow, Final, FetchRaises, Raises, Fault,
        cursor, history, callback, counters
  <2>3. CountsOK'
    BY <1>1, <1>2, <1>FetchRaises
    DEF CountsOK, RangesOK, TypeOK, PhaseOK, AtRest, Counted, Content, InWindow, FetchRaises,
        Raises, Fault, cursor, history, callback, counters
  <2>4. FilesOK'
    BY <1>FetchRaises, FilesKept DEF FetchRaises, Raises, Fault
  <2> QED
    BY <2>1, <2>2, <2>3, <2>4 DEF HistoryInv
<1>EpochEnds. CASE EpochEnds
  <2>1. RangesOK'
    <3>1. /\ pc' \in {"dead", "loop", "epochBegin", "next", "fetch", "update", "committed",
                     "epochEnd", "roundsEnd", "shutdown", "finish"}
          /\ ended' \in {"never", "running", "killed", "failed", "stopped", "complete"}
      BY <1>2, <1>EpochEnds DEF RangesOK, TypeOK, EpochEnds, Dropped, Raises, Fault
    <3>2. /\ loop' \in 0..NEpochs /\ epoch' \in 0..NEpochs
          /\ offset' \in 0..DatasetLen /\ consumed' \in Nat
      BY <1>0, <1>2, <1>EpochEnds
      DEF RangesOK, InEpoch, TypeOK, EpochEnds, Dropped, Raises, Fault, cursor
    <3>3. /\ update' \in 1..UpdatesPerWindow /\ steps' \in Nat
          /\ lastStep' \in Nat /\ lastCursor' \in Nat
      BY <1>0, <1>2, <1>EpochEnds
      DEF RangesOK, TypeOK, EpochEnds, Dropped, Raises, Fault, cursor, callback
    <3>4. faults' \in 0..MaxFaults /\ stops' \in 0..MaxStops
      BY <1>0, <1>2, <1>EpochEnds DEF RangesOK, TypeOK, EpochEnds, Dropped, Raises, Fault, counters
    <3>5. {safe', stop', agreed', saved'} \subseteq BOOLEAN
      BY <1>2, <1>EpochEnds DEF RangesOK, TypeOK, EpochEnds, Dropped, Raises, Fault, callback
    <3>6. /\ log' \in Seq(Nat) /\ records' \in Seq(Nat) /\ weights' \in Seq(Updates)
      BY <1>2, <1>EpochEnds DEF RangesOK, TypeOK, EpochEnds, Dropped, Raises, Fault, history
    <3>7. epoch' = NEpochs => offset' = 0
      BY <1>0, <1>2, <1>EpochEnds
      DEF RangesOK, InEpoch, TypeOK, EpochEnds, Dropped, Raises, Fault, cursor
    <3>8. InEpoch' => epoch' = loop' /\ loop' < NEpochs
      BY <1>0, <1>2, <1>EpochEnds
      DEF RangesOK, InEpoch, TypeOK, EpochEnds, Dropped, Raises, Fault, cursor
    <3> QED
      BY <1>0, <1>1, <3>1, <3>2, <3>3, <3>5, <3>6, <3>7, <3>8, <3>4 DEF RangesOK, TypeOK
  <2>2. PhaseOK'
    BY <1>0, <1>1, <1>2, <1>EpochEnds
    DEF PhaseOK, RangesOK, InEpoch, TypeOK, AtRest, InWindow, Final, EpochEnds, Dropped, Raises,
        Fault, cursor, history, callback, counters
  <2>3. CountsOK'
    BY <1>1, <1>2, <1>EpochEnds
    DEF CountsOK, RangesOK, TypeOK, PhaseOK, AtRest, Counted, Content, InWindow, EpochEnds,
        Dropped, Raises, Fault, cursor, history, callback, counters
  <2>4. FilesOK'
    BY <1>EpochEnds, FilesKept DEF EpochEnds, Dropped, Raises, Fault
  <2> QED
    BY <2>1, <2>2, <2>3, <2>4 DEF HistoryInv
<1>RoundsStopped. CASE RoundsStopped
  <2>1. RangesOK'
    <3>1. /\ pc' \in {"dead", "loop", "epochBegin", "next", "fetch", "update", "committed",
                     "epochEnd", "roundsEnd", "shutdown", "finish"}
          /\ ended' \in {"never", "running", "killed", "failed", "stopped", "complete"}
      BY <1>2, <1>RoundsStopped DEF RangesOK, TypeOK, RoundsStopped, Raises, Fault
    <3>2. /\ loop' \in 0..NEpochs /\ epoch' \in 0..NEpochs
          /\ offset' \in 0..DatasetLen /\ consumed' \in Nat
      BY <1>0, <1>2, <1>RoundsStopped
      DEF RangesOK, InEpoch, TypeOK, RoundsStopped, Raises, Fault, cursor
    <3>3. /\ update' \in 1..UpdatesPerWindow /\ steps' \in Nat
          /\ lastStep' \in Nat /\ lastCursor' \in Nat
      BY <1>0, <1>2, <1>RoundsStopped
      DEF RangesOK, TypeOK, RoundsStopped, Raises, Fault, cursor, callback
    <3>4. faults' \in 0..MaxFaults /\ stops' \in 0..MaxStops
      BY <1>0, <1>2, <1>RoundsStopped DEF RangesOK, TypeOK, RoundsStopped, Raises, Fault, counters
    <3>5. {safe', stop', agreed', saved'} \subseteq BOOLEAN
      BY <1>2, <1>RoundsStopped DEF RangesOK, TypeOK, RoundsStopped, Raises, Fault, callback
    <3>6. /\ log' \in Seq(Nat) /\ records' \in Seq(Nat) /\ weights' \in Seq(Updates)
      BY <1>2, <1>RoundsStopped DEF RangesOK, TypeOK, RoundsStopped, Raises, Fault, history
    <3>7. epoch' = NEpochs => offset' = 0
      BY <1>0, <1>2, <1>RoundsStopped
      DEF RangesOK, InEpoch, TypeOK, RoundsStopped, Raises, Fault, cursor
    <3>8. InEpoch' => epoch' = loop' /\ loop' < NEpochs
      BY <1>0, <1>2, <1>RoundsStopped
      DEF RangesOK, InEpoch, TypeOK, RoundsStopped, Raises, Fault, cursor
    <3> QED
      BY <1>0, <1>1, <3>1, <3>2, <3>3, <3>5, <3>6, <3>7, <3>8, <3>4 DEF RangesOK, TypeOK
  <2>2. PhaseOK'
    BY <1>0, <1>1, <1>2, <1>RoundsStopped
    DEF PhaseOK, RangesOK, InEpoch, TypeOK, AtRest, InWindow, Final, RoundsStopped, Raises, Fault,
        cursor, history, callback, counters
  <2>3. CountsOK'
    BY <1>1, <1>2, <1>RoundsStopped
    DEF CountsOK, RangesOK, TypeOK, PhaseOK, AtRest, Counted, Content, InWindow, RoundsStopped,
        Raises, Fault, cursor, history, callback, counters
  <2>4. FilesOK'
    BY <1>RoundsStopped, FilesKept DEF RoundsStopped, Raises, Fault
  <2> QED
    BY <2>1, <2>2, <2>3, <2>4 DEF HistoryInv
<1>RoundsEnd. CASE RoundsEnd
  <2>1. RangesOK'
    <3>1. /\ pc' \in {"dead", "loop", "epochBegin", "next", "fetch", "update", "committed",
                     "epochEnd", "roundsEnd", "shutdown", "finish"}
          /\ ended' \in {"never", "running", "killed", "failed", "stopped", "complete"}
      BY <1>2, <1>RoundsEnd DEF RangesOK, TypeOK, RoundsEnd, Raises, Fault
    <3>2. /\ loop' \in 0..NEpochs /\ epoch' \in 0..NEpochs
          /\ offset' \in 0..DatasetLen /\ consumed' \in Nat
      BY <1>0, <1>2, <1>RoundsEnd DEF RangesOK, InEpoch, TypeOK, RoundsEnd, Raises, Fault, cursor
    <3>3. /\ update' \in 1..UpdatesPerWindow /\ steps' \in Nat
          /\ lastStep' \in Nat /\ lastCursor' \in Nat
      BY <1>0, <1>2, <1>RoundsEnd DEF RangesOK, TypeOK, RoundsEnd, Raises, Fault, cursor, callback
    <3>4. faults' \in 0..MaxFaults /\ stops' \in 0..MaxStops
      BY <1>0, <1>2, <1>RoundsEnd DEF RangesOK, TypeOK, RoundsEnd, Raises, Fault, counters
    <3>5. {safe', stop', agreed', saved'} \subseteq BOOLEAN
      BY <1>2, <1>RoundsEnd DEF RangesOK, TypeOK, RoundsEnd, Raises, Fault, callback
    <3>6. /\ log' \in Seq(Nat) /\ records' \in Seq(Nat) /\ weights' \in Seq(Updates)
      BY <1>2, <1>RoundsEnd DEF RangesOK, TypeOK, RoundsEnd, Raises, Fault, history
    <3>7. epoch' = NEpochs => offset' = 0
      BY <1>0, <1>2, <1>RoundsEnd DEF RangesOK, InEpoch, TypeOK, RoundsEnd, Raises, Fault, cursor
    <3>8. InEpoch' => epoch' = loop' /\ loop' < NEpochs
      BY <1>0, <1>2, <1>RoundsEnd DEF RangesOK, InEpoch, TypeOK, RoundsEnd, Raises, Fault, cursor
    <3> QED
      BY <1>0, <1>1, <3>1, <3>2, <3>3, <3>5, <3>6, <3>7, <3>8, <3>4 DEF RangesOK, TypeOK
  <2>2. PhaseOK'
    BY <1>0, <1>1, <1>2, <1>RoundsEnd
    DEF PhaseOK, RangesOK, InEpoch, TypeOK, AtRest, InWindow, Final, RoundsEnd, Raises, Fault,
        cursor, history, callback, counters
  <2>3. CountsOK'
    BY <1>1, <1>2, <1>RoundsEnd
    DEF CountsOK, RangesOK, TypeOK, PhaseOK, AtRest, Counted, Content, InWindow, RoundsEnd, Raises,
        Fault, cursor, history, callback, counters
  <2>4. FilesOK'
    BY <1>RoundsEnd, FilesKept DEF RoundsEnd, Raises, Fault
  <2> QED
    BY <2>1, <2>2, <2>3, <2>4 DEF HistoryInv
<1> QED
  BY <1>Signal, <1>Killed, <1>NextEpoch, <1>EpochBegins, <1>NextWindow, <1>Fetch, <1>FetchRaises,
      <1>EpochEnds, <1>RoundsStopped, <1>RoundsEnd

\* An update belongs to the window at the cursor; with it the counters advance.
LEMMA CommitFacts ==
    ASSUME HistoryInv, config' = config, pc = "update", Advance, weights' = Append(weights, Update)
    PROVE  /\ offset' \in 0..DatasetLen /\ consumed' \in Nat /\ steps' \in Nat
           /\ weights' \in Seq(Updates)
<1>1. /\ config \in Configs /\ DatasetLen \in Nat \ {0}
      /\ Windows(config, offset) # <<>> /\ update \in Nat /\ loop \in Nat
      /\ offset \in 0..DatasetLen /\ consumed \in Nat /\ steps \in Nat /\ weights \in Seq(Updates)
  <2>1. Windows(config, offset) # <<>>
    BY DEF HistoryInv, PhaseOK, InWindow
  <2>2. loop \in Nat /\ update \in Nat
    BY ConfigNow DEF HistoryInv, RangesOK, TypeOK
  <2> QED
    BY <2>1, <2>2, ConfigNow DEF HistoryInv, RangesOK, TypeOK
<1>2. /\ Window \in Slot /\ Window.start = offset /\ offset + Window.count \in 0..DatasetLen
  BY <1>1, WindowFacts
<1>3. Window.count \in Nat /\ Window.start \in Nat
  BY <1>2 DEF Slot
<1>4. Update \in Updates
  BY <1>1, <1>3 DEF Update, Updates
<1>5. offset' \in 0..DatasetLen /\ consumed' \in Nat /\ steps' \in Nat
  BY <1>1, <1>2, <1>3 DEF Advance
<1>6. weights' \in Seq(Updates)
  BY <1>1, <1>4
<1> QED
  BY <1>5, <1>6

\* A committed update and its metric record are counted together.
LEMMA CommitCounts ==
    ASSUME HistoryInv, config' = config, pc = "update", Advance, CommitMetrics, log' = log,
           weights' = Append(weights, Update)
    PROVE  Counted(Content)' /\ records' \in Seq(Nat)
<1>1. /\ log \in Seq(Nat) /\ records \in Seq(Nat) /\ steps \in Nat /\ weights \in Seq(Updates)
  BY DEF HistoryInv, RangesOK, TypeOK
<1>2. steps = Len(weights) /\ log \o records = [i \in 1..steps |-> i]
  BY DEF HistoryInv, CountsOK, InWindow, Counted, Content
<1>3. steps' = steps + 1 /\ records' = Append(records, steps + 1)
  BY DEF Advance, CommitMetrics
<1>4. log \o Append(records, steps + 1) = [i \in 1..(steps + 1) |-> i]
  <2>1. log \o records = UpTo(steps)
    BY <1>2 DEF UpTo
  <2>2. log \o Append(records, steps + 1) = UpTo(steps + 1)
    BY <1>1, <2>1, OneMore
  <2> QED
    BY <2>2 DEF UpTo
<1>5. Len(weights') = steps + 1
  BY <1>1, <1>2
<1>6. log' \o records' = [i \in 1..steps' |-> i]
  BY <1>3, <1>4
<1>7. records' \in Seq(Nat)
  BY <1>1, <1>3
<1> QED
  BY <1>3, <1>5, <1>6, <1>7 DEF Counted, Content

\* The save of a process that goes down moves records to the log and loses none.
LEMMA SaveEnds ==
    ASSUME HistoryInv, config' = config, SaveOrFail \/ SkipSave
    PROVE  /\ FilesOK'
           /\ log' \in Seq(Nat) /\ records' \in Seq(Nat) /\ log' \o records' = log \o records
           /\ lastStep' \in Nat /\ lastCursor' \in Nat /\ saved' \in BOOLEAN
           /\ ended' \in {ended, "failed"}
           /\ faults' \in 0..MaxFaults /\ stops' \in 0..MaxStops
<1>1. /\ log \in Seq(Nat) /\ records \in Seq(Nat)
      /\ lastStep \in Nat /\ lastCursor \in Nat /\ saved \in BOOLEAN
      /\ faults \in 0..MaxFaults /\ stops \in 0..MaxStops /\ MaxFaults \in Nat
  BY RunAssumption DEF HistoryInv, RangesOK, TypeOK
<1>2. CASE Save /\ UNCHANGED <<ended, counters>>
  BY <1>1, <1>2, SaveKeeps DEF counters
<1>3. CASE SkipSave
  BY <1>1, <1>3, FilesKept DEF SkipSave, history, callback, counters
<1>4. CASE /\ \/ SaveRaises /\ UNCHANGED <<dir, counters>>
              \/ Fault /\ UNCHANGED dir
              \/ Fault /\ PublishRaises
           /\ ended' = "failed"
           /\ UNCHANGED <<history, callback>>
  <2>1. FilesOK'
    BY <1>4, FilesKept, PublishKeeps
  <2>2. faults' \in 0..MaxFaults /\ stops' \in 0..MaxStops
    BY <1>1, <1>4 DEF Fault, counters
  <2> QED
    BY <1>1, <1>4, <2>1, <2>2 DEF history, callback
<1> QED
  BY <1>2, <1>3, <1>4 DEF SaveOrFail

\* The commits and the saves keep the history.
LEMMA HistoryStep2 ==
    ASSUME HistoryInv, config' = config,
           \/ Commit
           \/ CommitRaises
           \/ PublishedThenRaises
           \/ AfterStep
           \/ AfterStepRaises
           \/ OnShutdown
           \/ OnTrainEnd
    PROVE  HistoryInv'
<1>0. /\ config \in Configs
      /\ DatasetLen \in Nat \ {0} /\ GlobalBatch \in Nat \ {0}
      /\ UpdatesPerWindow \in Nat \ {0}
      /\ Mode \in {"window", "round"} /\ TailPolicy \in {"flush", "drop"}
      /\ Mode = "round" => TailPolicy = "flush" /\ UpdatesPerWindow = 1
      /\ NEpochs \in Nat \ {0} /\ MaxFaults \in Nat /\ MaxStops \in Nat
  BY ConfigNow, RunAssumption
<1>1. /\ DatasetLen' = DatasetLen /\ UpdatesPerWindow' = UpdatesPerWindow
  BY DEF DatasetLen, UpdatesPerWindow
<1>2. RangesOK /\ PhaseOK /\ CountsOK
  BY DEF HistoryInv
<1>Commit. CASE Commit
  <2>a. pc = "update"
    BY <1>Commit DEF Commit
  <2>b. /\ offset' \in 0..DatasetLen /\ consumed' \in Nat /\ steps' \in Nat
        /\ weights' \in Seq(Updates)
    BY <2>a, <1>Commit, CommitFacts DEF Commit
  <2>d. Counted(Content)' /\ records' \in Seq(Nat)
    BY <2>a, <1>Commit, CommitCounts DEF Commit
  <2>1. RangesOK'
    <3>1. /\ pc' \in {"dead", "loop", "epochBegin", "next", "fetch", "update", "committed",
                     "epochEnd", "roundsEnd", "shutdown", "finish"}
          /\ ended' \in {"never", "running", "killed", "failed", "stopped", "complete"}
      BY <1>0, <1>2, <1>Commit, <2>a, <2>b, <2>d
      DEF RangesOK, TypeOK, Commit, Advance, CommitMetrics
    <3>2. /\ loop' \in 0..NEpochs /\ epoch' \in 0..NEpochs
          /\ offset' \in 0..DatasetLen /\ consumed' \in Nat
      BY <1>0, <1>2, <1>Commit, <2>a, <2>b, <2>d
      DEF RangesOK, InEpoch, TypeOK, Commit, Advance, CommitMetrics, cursor
    <3>3. /\ update' \in 1..UpdatesPerWindow /\ steps' \in Nat
          /\ lastStep' \in Nat /\ lastCursor' \in Nat
      BY <1>0, <1>2, <1>Commit, <2>a, <2>b, <2>d
      DEF RangesOK, TypeOK, Final, Commit, Advance, CommitMetrics, cursor, callback
    <3>4. faults' \in 0..MaxFaults /\ stops' \in 0..MaxStops
      BY <1>0, <1>2, <1>Commit, <2>a, <2>b, <2>d
      DEF RangesOK, TypeOK, Commit, Advance, CommitMetrics, counters
    <3>5. {safe', stop', agreed', saved'} \subseteq BOOLEAN
      BY <1>0, <1>2, <1>Commit, <2>a, <2>b, <2>d
      DEF RangesOK, TypeOK, Final, Commit, Advance, CommitMetrics, callback
    <3>6. /\ log' \in Seq(Nat) /\ records' \in Seq(Nat) /\ weights' \in Seq(Updates)
      BY <1>0, <1>2, <1>Commit, <2>a, <2>b, <2>d
      DEF RangesOK, TypeOK, Commit, Advance, CommitMetrics, history
    <3>7. epoch' = NEpochs => offset' = 0
      BY <1>0, <1>2, <1>Commit, <2>a, <2>b, <2>d
      DEF RangesOK, InEpoch, TypeOK, Commit, Advance, CommitMetrics, cursor
    <3>8. InEpoch' => epoch' = loop' /\ loop' < NEpochs
      BY <1>0, <1>2, <1>Commit, <2>a, <2>b, <2>d
      DEF RangesOK, InEpoch, TypeOK, Commit, Advance, CommitMetrics, cursor
    <3> QED
      BY <1>0, <1>1, <3>1, <3>2, <3>3, <3>5, <3>6, <3>7, <3>8, <3>4 DEF RangesOK, TypeOK
  <2>2. PhaseOK'
    BY <1>0, <1>2, <1>Commit, <2>a, <2>b, <2>d, <1>1
    DEF PhaseOK, RangesOK, InEpoch, TypeOK, AtRest, InWindow, Final, Commit, Advance,
        CommitMetrics, cursor, history, callback, counters
  <2>3. CountsOK'
    BY <1>0, <1>2, <1>Commit, <2>a, <2>b, <2>d, <1>1
    DEF CountsOK, RangesOK, TypeOK, PhaseOK, AtRest, Final, Counted, Content, InWindow, Commit,
        Advance, CommitMetrics, cursor, history, callback, counters
  <2>4. FilesOK'
    BY <1>Commit, FilesKept DEF Commit, Advance, CommitMetrics
  <2> QED
    BY <2>1, <2>2, <2>3, <2>4 DEF HistoryInv
<1>CommitRaises. CASE CommitRaises
  <2>b. weights' \in Seq(Updates)
    <3>1. Torn \in Updates /\ weights \in Seq(Updates)
      BY <1>0, <1>2 DEF Torn, Updates, RangesOK
    <3> QED
      BY <3>1, <1>CommitRaises DEF CommitRaises
  <2>1. RangesOK'
    <3>1. /\ pc' \in {"dead", "loop", "epochBegin", "next", "fetch", "update", "committed",
                     "epochEnd", "roundsEnd", "shutdown", "finish"}
          /\ ended' \in {"never", "running", "killed", "failed", "stopped", "complete"}
      BY <1>0, <1>2, <1>CommitRaises, <2>b DEF RangesOK, TypeOK, CommitRaises, Raises, Fault
    <3>2. /\ loop' \in 0..NEpochs /\ epoch' \in 0..NEpochs
          /\ offset' \in 0..DatasetLen /\ consumed' \in Nat
      BY <1>0, <1>2, <1>CommitRaises, <2>b
      DEF RangesOK, InEpoch, TypeOK, CommitRaises, Raises, Fault, cursor
    <3>3. /\ update' \in 1..UpdatesPerWindow /\ steps' \in Nat
          /\ lastStep' \in Nat /\ lastCursor' \in Nat
      BY <1>0, <1>2, <1>CommitRaises, <2>b
      DEF RangesOK, TypeOK, Final, CommitRaises, Raises, Fault, cursor, callback
    <3>4. faults' \in 0..MaxFaults /\ stops' \in 0..MaxStops
      BY <1>0, <1>2, <1>CommitRaises, <2>b
      DEF RangesOK, TypeOK, CommitRaises, Raises, Fault, counters
    <3>5. {safe', stop', agreed', saved'} \subseteq BOOLEAN
      BY <1>0, <1>2, <1>CommitRaises, <2>b
      DEF RangesOK, TypeOK, Final, CommitRaises, Raises, Fault, callback
    <3>6. /\ log' \in Seq(Nat) /\ records' \in Seq(Nat) /\ weights' \in Seq(Updates)
      BY <1>0, <1>2, <1>CommitRaises, <2>b
      DEF RangesOK, TypeOK, CommitRaises, Raises, Fault, history
    <3>7. epoch' = NEpochs => offset' = 0
      BY <1>0, <1>2, <1>CommitRaises, <2>b
      DEF RangesOK, InEpoch, TypeOK, CommitRaises, Raises, Fault, cursor
    <3>8. InEpoch' => epoch' = loop' /\ loop' < NEpochs
      BY <1>0, <1>2, <1>CommitRaises, <2>b
      DEF RangesOK, InEpoch, TypeOK, CommitRaises, Raises, Fault, cursor
    <3> QED
      BY <1>0, <1>1, <3>1, <3>2, <3>3, <3>5, <3>6, <3>7, <3>8, <3>4 DEF RangesOK, TypeOK
  <2>2. PhaseOK'
    BY <1>0, <1>2, <1>CommitRaises, <2>b, <1>1
    DEF PhaseOK, RangesOK, InEpoch, TypeOK, AtRest, InWindow, Final, CommitRaises, Raises, Fault,
        cursor, history, callback, counters
  <2>3. CountsOK'
    BY <1>0, <1>2, <1>CommitRaises, <2>b, <1>1
    DEF CountsOK, RangesOK, TypeOK, PhaseOK, AtRest, Final, Counted, Content, InWindow,
        CommitRaises, Raises, Fault, cursor, history, callback, counters
  <2>4. FilesOK'
    BY <1>CommitRaises, FilesKept DEF CommitRaises, Raises, Fault
  <2> QED
    BY <2>1, <2>2, <2>3, <2>4 DEF HistoryInv
<1>PublishedThenRaises. CASE PublishedThenRaises
  <2>a. pc = "update"
    BY <1>PublishedThenRaises DEF PublishedThenRaises
  <2>b. /\ offset' \in 0..DatasetLen /\ consumed' \in Nat /\ steps' \in Nat
        /\ weights' \in Seq(Updates)
    BY <2>a, <1>PublishedThenRaises, CommitFacts DEF PublishedThenRaises
  <2>d. (safe' => Counted(Content)') /\ records' \in Seq(Nat)
    <3>1. CASE CommitMetrics
      BY <2>a, <3>1, <1>PublishedThenRaises, CommitCounts DEF PublishedThenRaises
    <3>2. CASE UNCHANGED records /\ safe' = FALSE
      BY <3>2, <1>2 DEF RangesOK, TypeOK
    <3> QED
      BY <3>1, <3>2, <1>PublishedThenRaises DEF PublishedThenRaises
  <2>1. RangesOK'
    <3>1. /\ pc' \in {"dead", "loop", "epochBegin", "next", "fetch", "update", "committed",
                     "epochEnd", "roundsEnd", "shutdown", "finish"}
          /\ ended' \in {"never", "running", "killed", "failed", "stopped", "complete"}
      BY <1>0, <1>2, <1>PublishedThenRaises, <2>a, <2>b, <2>d
      DEF RangesOK, TypeOK, PublishedThenRaises, Raises, Fault
    <3>2. /\ loop' \in 0..NEpochs /\ epoch' \in 0..NEpochs
          /\ offset' \in 0..DatasetLen /\ consumed' \in Nat
      BY <1>0, <1>2, <1>PublishedThenRaises, <2>a, <2>b, <2>d
      DEF RangesOK, InEpoch, TypeOK, PublishedThenRaises, Raises, Fault, cursor
    <3>3. /\ update' \in 1..UpdatesPerWindow /\ steps' \in Nat
          /\ lastStep' \in Nat /\ lastCursor' \in Nat
      BY <1>0, <1>2, <1>PublishedThenRaises, <2>a, <2>b, <2>d
      DEF RangesOK, TypeOK, Final, PublishedThenRaises, Raises, Fault, cursor, callback
    <3>4. faults' \in 0..MaxFaults /\ stops' \in 0..MaxStops
      BY <1>0, <1>2, <1>PublishedThenRaises, <2>a, <2>b, <2>d
      DEF RangesOK, TypeOK, PublishedThenRaises, Raises, Fault, counters
    <3>5. {safe', stop', agreed', saved'} \subseteq BOOLEAN
      BY <1>0, <1>2, <1>PublishedThenRaises, <2>a, <2>b, <2>d
      DEF RangesOK, TypeOK, Final, PublishedThenRaises, Raises, Fault, callback
    <3>6. /\ log' \in Seq(Nat) /\ records' \in Seq(Nat) /\ weights' \in Seq(Updates)
      BY <1>0, <1>2, <1>PublishedThenRaises, <2>a, <2>b, <2>d
      DEF RangesOK, TypeOK, PublishedThenRaises, Raises, Fault, history
    <3>7. epoch' = NEpochs => offset' = 0
      BY <1>0, <1>2, <1>PublishedThenRaises, <2>a, <2>b, <2>d
      DEF RangesOK, InEpoch, TypeOK, PublishedThenRaises, Raises, Fault, cursor
    <3>8. InEpoch' => epoch' = loop' /\ loop' < NEpochs
      BY <1>0, <1>2, <1>PublishedThenRaises, <2>a, <2>b, <2>d
      DEF RangesOK, InEpoch, TypeOK, PublishedThenRaises, Raises, Fault, cursor
    <3> QED
      BY <1>0, <1>1, <3>1, <3>2, <3>3, <3>5, <3>6, <3>7, <3>8, <3>4 DEF RangesOK, TypeOK
  <2>2. PhaseOK'
    BY <1>0, <1>2, <1>PublishedThenRaises, <2>a, <2>b, <2>d, <1>1
    DEF PhaseOK, RangesOK, InEpoch, TypeOK, AtRest, InWindow, Final, PublishedThenRaises, Raises,
        Fault, cursor, history, callback, counters
  <2>3. CountsOK'
    BY <1>0, <1>2, <1>PublishedThenRaises, <2>a, <2>b, <2>d, <1>1
    DEF CountsOK, RangesOK, TypeOK, PhaseOK, AtRest, Final, Counted, Content, InWindow,
        PublishedThenRaises, Raises, Fault, cursor, history, callback, counters
  <2>4. FilesOK'
    BY <1>PublishedThenRaises, FilesKept DEF PublishedThenRaises, Raises, Fault
  <2> QED
    BY <2>1, <2>2, <2>3, <2>4 DEF HistoryInv
<1>AfterStep. CASE AfterStep
  <2>b. /\ FilesOK'
        /\ log' \in Seq(Nat) /\ records' \in Seq(Nat) /\ log' \o records' = log \o records
        /\ lastStep' \in Nat /\ lastCursor' \in Nat /\ saved' \in BOOLEAN
    <3>1. CASE Interval
      BY <3>1, <1>AfterStep, SaveKeeps DEF AfterStep
    <3>2. CASE ~Interval
      BY <3>2, <1>AfterStep, <1>2, FilesKept DEF AfterStep, RangesOK, TypeOK, history, callback
    <3> QED
      BY <3>1, <3>2
  <2>1. RangesOK'
    <3>1. /\ pc' \in {"dead", "loop", "epochBegin", "next", "fetch", "update", "committed",
                     "epochEnd", "roundsEnd", "shutdown", "finish"}
          /\ ended' \in {"never", "running", "killed", "failed", "stopped", "complete"}
      BY <1>0, <1>2, <1>AfterStep, <2>b DEF RangesOK, TypeOK, AfterStep, Agreed
    <3>2. /\ loop' \in 0..NEpochs /\ epoch' \in 0..NEpochs
          /\ offset' \in 0..DatasetLen /\ consumed' \in Nat
      BY <1>0, <1>2, <1>AfterStep, <2>b DEF RangesOK, InEpoch, TypeOK, AfterStep, Agreed, cursor
    <3>3. /\ update' \in 1..UpdatesPerWindow /\ steps' \in Nat
          /\ lastStep' \in Nat /\ lastCursor' \in Nat
      BY <1>0, <1>2, <1>AfterStep, <2>b
      DEF RangesOK, TypeOK, Final, AfterStep, Agreed, cursor, callback
    <3>4. faults' \in 0..MaxFaults /\ stops' \in 0..MaxStops
      BY <1>0, <1>2, <1>AfterStep, <2>b DEF RangesOK, TypeOK, AfterStep, Agreed, counters
    <3>5. {safe', stop', agreed', saved'} \subseteq BOOLEAN
      BY <1>0, <1>2, <1>AfterStep, <2>b DEF RangesOK, TypeOK, Final, AfterStep, Agreed, callback
    <3>6. /\ log' \in Seq(Nat) /\ records' \in Seq(Nat) /\ weights' \in Seq(Updates)
      BY <1>0, <1>2, <1>AfterStep, <2>b DEF RangesOK, TypeOK, AfterStep, Agreed, history
    <3>7. epoch' = NEpochs => offset' = 0
      BY <1>0, <1>2, <1>AfterStep, <2>b DEF RangesOK, InEpoch, TypeOK, AfterStep, Agreed, cursor
    <3>8. InEpoch' => epoch' = loop' /\ loop' < NEpochs
      BY <1>0, <1>2, <1>AfterStep, <2>b DEF RangesOK, InEpoch, TypeOK, AfterStep, Agreed, cursor
    <3> QED
      BY <1>0, <1>1, <3>1, <3>2, <3>3, <3>5, <3>6, <3>7, <3>8, <3>4 DEF RangesOK, TypeOK
  <2>2. PhaseOK'
    BY <1>0, <1>2, <1>AfterStep, <2>b, <1>1
    DEF PhaseOK, RangesOK, InEpoch, TypeOK, AtRest, InWindow, Final, AfterStep, Agreed, cursor,
        history, callback, counters
  <2>3. CountsOK'
    BY <1>0, <1>2, <1>AfterStep, <2>b, <1>1
    DEF CountsOK, RangesOK, TypeOK, PhaseOK, AtRest, Final, Counted, Content, InWindow, AfterStep,
        Agreed, cursor, history, callback, counters
  <2>4. FilesOK'
    BY <2>b
  <2> QED
    BY <2>1, <2>2, <2>3, <2>4 DEF HistoryInv
<1>AfterStepRaises. CASE AfterStepRaises
  <2>b. FilesOK'
    BY <1>AfterStepRaises, FilesKept, PublishKeeps DEF AfterStepRaises
  <2>1. RangesOK'
    <3>1. /\ pc' \in {"dead", "loop", "epochBegin", "next", "fetch", "update", "committed",
                     "epochEnd", "roundsEnd", "shutdown", "finish"}
          /\ ended' \in {"never", "running", "killed", "failed", "stopped", "complete"}
      BY <1>0, <1>2, <1>AfterStepRaises, <2>b DEF RangesOK, TypeOK, AfterStepRaises, Fault
    <3>2. /\ loop' \in 0..NEpochs /\ epoch' \in 0..NEpochs
          /\ offset' \in 0..DatasetLen /\ consumed' \in Nat
      BY <1>0, <1>2, <1>AfterStepRaises, <2>b
      DEF RangesOK, InEpoch, TypeOK, AfterStepRaises, Fault, cursor
    <3>3. /\ update' \in 1..UpdatesPerWindow /\ steps' \in Nat
          /\ lastStep' \in Nat /\ lastCursor' \in Nat
      BY <1>0, <1>2, <1>AfterStepRaises, <2>b
      DEF RangesOK, TypeOK, Final, AfterStepRaises, Fault, cursor, callback
    <3>4. faults' \in 0..MaxFaults /\ stops' \in 0..MaxStops
      BY <1>0, <1>2, <1>AfterStepRaises, <2>b DEF RangesOK, TypeOK, AfterStepRaises, Fault, counters
    <3>5. {safe', stop', agreed', saved'} \subseteq BOOLEAN
      BY <1>0, <1>2, <1>AfterStepRaises, <2>b
      DEF RangesOK, TypeOK, Final, AfterStepRaises, Fault, callback
    <3>6. /\ log' \in Seq(Nat) /\ records' \in Seq(Nat) /\ weights' \in Seq(Updates)
      BY <1>0, <1>2, <1>AfterStepRaises, <2>b DEF RangesOK, TypeOK, AfterStepRaises, Fault, history
    <3>7. epoch' = NEpochs => offset' = 0
      BY <1>0, <1>2, <1>AfterStepRaises, <2>b
      DEF RangesOK, InEpoch, TypeOK, AfterStepRaises, Fault, cursor
    <3>8. InEpoch' => epoch' = loop' /\ loop' < NEpochs
      BY <1>0, <1>2, <1>AfterStepRaises, <2>b
      DEF RangesOK, InEpoch, TypeOK, AfterStepRaises, Fault, cursor
    <3> QED
      BY <1>0, <1>1, <3>1, <3>2, <3>3, <3>5, <3>6, <3>7, <3>8, <3>4 DEF RangesOK, TypeOK
  <2>2. PhaseOK'
    BY <1>0, <1>2, <1>AfterStepRaises, <2>b, <1>1
    DEF PhaseOK, RangesOK, InEpoch, TypeOK, AtRest, InWindow, Final, AfterStepRaises, Fault,
        cursor, history, callback, counters
  <2>3. CountsOK'
    BY <1>0, <1>2, <1>AfterStepRaises, <2>b, <1>1
    DEF CountsOK, RangesOK, TypeOK, PhaseOK, AtRest, Final, Counted, Content, InWindow,
        AfterStepRaises, Fault, cursor, history, callback, counters
  <2>4. FilesOK'
    BY <2>b
  <2> QED
    BY <2>1, <2>2, <2>3, <2>4 DEF HistoryInv
<1>OnShutdown. CASE OnShutdown
  <2>b. /\ FilesOK'
        /\ log' \in Seq(Nat) /\ records' \in Seq(Nat) /\ log' \o records' = log \o records
        /\ lastStep' \in Nat /\ lastCursor' \in Nat /\ saved' \in BOOLEAN
        /\ ended' \in {ended, "failed"}
        /\ faults' \in 0..MaxFaults /\ stops' \in 0..MaxStops
    <3>1. SaveOrFail \/ SkipSave
      BY <1>OnShutdown DEF OnShutdown
    <3> QED
      BY <3>1, SaveEnds
  <2>1. RangesOK'
    <3>1. /\ pc' \in {"dead", "loop", "epochBegin", "next", "fetch", "update", "committed",
                     "epochEnd", "roundsEnd", "shutdown", "finish"}
          /\ ended' \in {"never", "running", "killed", "failed", "stopped", "complete"}
      BY <1>0, <1>2, <1>OnShutdown, <2>b DEF RangesOK, TypeOK, OnShutdown
    <3>2. /\ loop' \in 0..NEpochs /\ epoch' \in 0..NEpochs
          /\ offset' \in 0..DatasetLen /\ consumed' \in Nat
      BY <1>0, <1>2, <1>OnShutdown, <2>b DEF RangesOK, InEpoch, TypeOK, OnShutdown, cursor
    <3>3. /\ update' \in 1..UpdatesPerWindow /\ steps' \in Nat
          /\ lastStep' \in Nat /\ lastCursor' \in Nat
      BY <1>0, <1>2, <1>OnShutdown, <2>b DEF RangesOK, TypeOK, Final, OnShutdown, cursor, callback
    <3>4. faults' \in 0..MaxFaults /\ stops' \in 0..MaxStops
      BY <1>0, <1>2, <1>OnShutdown, <2>b DEF RangesOK, TypeOK, OnShutdown, counters
    <3>5. {safe', stop', agreed', saved'} \subseteq BOOLEAN
      BY <1>0, <1>2, <1>OnShutdown, <2>b DEF RangesOK, TypeOK, Final, OnShutdown, callback
    <3>6. /\ log' \in Seq(Nat) /\ records' \in Seq(Nat) /\ weights' \in Seq(Updates)
      BY <1>0, <1>2, <1>OnShutdown, <2>b DEF RangesOK, TypeOK, OnShutdown, history
    <3>7. epoch' = NEpochs => offset' = 0
      BY <1>0, <1>2, <1>OnShutdown, <2>b DEF RangesOK, InEpoch, TypeOK, OnShutdown, cursor
    <3>8. InEpoch' => epoch' = loop' /\ loop' < NEpochs
      BY <1>0, <1>2, <1>OnShutdown, <2>b DEF RangesOK, InEpoch, TypeOK, OnShutdown, cursor
    <3> QED
      BY <1>0, <1>1, <3>1, <3>2, <3>3, <3>5, <3>6, <3>7, <3>8, <3>4 DEF RangesOK, TypeOK
  <2>2. PhaseOK'
    BY <1>0, <1>2, <1>OnShutdown, <2>b, <1>1
    DEF PhaseOK, RangesOK, InEpoch, TypeOK, AtRest, InWindow, Final, OnShutdown, cursor, history,
        callback, counters
  <2>3. CountsOK'
    BY <1>0, <1>2, <1>OnShutdown, <2>b, <1>1
    DEF CountsOK, RangesOK, TypeOK, PhaseOK, AtRest, Final, Counted, Content, InWindow, OnShutdown,
        cursor, history, callback, counters
  <2>4. FilesOK'
    BY <2>b
  <2> QED
    BY <2>1, <2>2, <2>3, <2>4 DEF HistoryInv
<1>OnTrainEnd. CASE OnTrainEnd
  <2>b. /\ FilesOK'
        /\ log' \in Seq(Nat) /\ records' \in Seq(Nat) /\ log' \o records' = log \o records
        /\ lastStep' \in Nat /\ lastCursor' \in Nat /\ saved' \in BOOLEAN
        /\ ended' \in {ended, "failed"}
        /\ faults' \in 0..MaxFaults /\ stops' \in 0..MaxStops
    <3>1. SaveOrFail \/ SkipSave
      BY <1>OnTrainEnd DEF OnTrainEnd
    <3> QED
      BY <3>1, SaveEnds
  <2>1. RangesOK'
    <3>1. /\ pc' \in {"dead", "loop", "epochBegin", "next", "fetch", "update", "committed",
                     "epochEnd", "roundsEnd", "shutdown", "finish"}
          /\ ended' \in {"never", "running", "killed", "failed", "stopped", "complete"}
      BY <1>0, <1>2, <1>OnTrainEnd, <2>b DEF RangesOK, TypeOK, OnTrainEnd
    <3>2. /\ loop' \in 0..NEpochs /\ epoch' \in 0..NEpochs
          /\ offset' \in 0..DatasetLen /\ consumed' \in Nat
      BY <1>0, <1>2, <1>OnTrainEnd, <2>b DEF RangesOK, InEpoch, TypeOK, OnTrainEnd, cursor
    <3>3. /\ update' \in 1..UpdatesPerWindow /\ steps' \in Nat
          /\ lastStep' \in Nat /\ lastCursor' \in Nat
      BY <1>0, <1>2, <1>OnTrainEnd, <2>b DEF RangesOK, TypeOK, Final, OnTrainEnd, cursor, callback
    <3>4. faults' \in 0..MaxFaults /\ stops' \in 0..MaxStops
      BY <1>0, <1>2, <1>OnTrainEnd, <2>b DEF RangesOK, TypeOK, OnTrainEnd, counters
    <3>5. {safe', stop', agreed', saved'} \subseteq BOOLEAN
      BY <1>0, <1>2, <1>OnTrainEnd, <2>b DEF RangesOK, TypeOK, Final, OnTrainEnd, callback
    <3>6. /\ log' \in Seq(Nat) /\ records' \in Seq(Nat) /\ weights' \in Seq(Updates)
      BY <1>0, <1>2, <1>OnTrainEnd, <2>b DEF RangesOK, TypeOK, OnTrainEnd, history
    <3>7. epoch' = NEpochs => offset' = 0
      BY <1>0, <1>2, <1>OnTrainEnd, <2>b DEF RangesOK, InEpoch, TypeOK, OnTrainEnd, cursor
    <3>8. InEpoch' => epoch' = loop' /\ loop' < NEpochs
      BY <1>0, <1>2, <1>OnTrainEnd, <2>b DEF RangesOK, InEpoch, TypeOK, OnTrainEnd, cursor
    <3> QED
      BY <1>0, <1>1, <3>1, <3>2, <3>3, <3>5, <3>6, <3>7, <3>8, <3>4 DEF RangesOK, TypeOK
  <2>2. PhaseOK'
    BY <1>0, <1>2, <1>OnTrainEnd, <2>b, <1>1
    DEF PhaseOK, RangesOK, InEpoch, TypeOK, AtRest, InWindow, Final, OnTrainEnd, cursor, history,
        callback, counters
  <2>3. CountsOK'
    BY <1>0, <1>2, <1>OnTrainEnd, <2>b, <1>1
    DEF CountsOK, RangesOK, TypeOK, PhaseOK, AtRest, Final, Counted, Content, InWindow, OnTrainEnd,
        cursor, history, callback, counters
  <2>4. FilesOK'
    BY <2>b
  <2> QED
    BY <2>1, <2>2, <2>3, <2>4 DEF HistoryInv
<1> QED
  BY <1>Commit, <1>CommitRaises, <1>PublishedThenRaises, <1>AfterStep, <1>AfterStepRaises,
      <1>OnShutdown, <1>OnTrainEnd

\* A process begins as the checkpoint says, or as a fresh run.
LEMMA BuiltFacts ==
    ASSUME HistoryInv, NEW s, Proper(config, s)
    PROVE  /\ Built(s).epoch \in 0..NEpochs /\ Built(s).offset \in 0..DatasetLen
           /\ Built(s).epoch = NEpochs => Built(s).offset = 0
<1>1. /\ s.epoch \in 0..NEpochs /\ s.offset \in 0..DatasetLen
      /\ s.epoch = NEpochs => s.offset = 0
  BY DEF Proper, Contents, DatasetLen
<1>2. NEpochs \in Nat \ {0} /\ DatasetLen \in Nat \ {0}
  BY ConfigNow
<1>3. CASE Mode = "round" /\ s.offset = DatasetLen
  <2>1. Built(s).epoch = s.epoch + 1 /\ Built(s).offset = 0
    BY <1>3 DEF Built
  <2> QED
    BY <1>1, <1>2, <1>3, <2>1
<1>4. CASE ~(Mode = "round" /\ s.offset = DatasetLen)
  <2>1. Built(s).epoch = s.epoch /\ Built(s).offset = s.offset
    BY <1>4 DEF Built
  <2> QED
    BY <1>1, <2>1
<1> QED
  BY <1>3, <1>4

\* A run that begins from a proper state, fresh or loaded, has a proper history.
LEMMA BeginKeeps ==
    ASSUME HistoryInv, config' = config, NEW s, Proper(config, s), Begin(s)
    PROVE  HistoryInv'
<1>0. /\ config \in Configs /\ UpdatesPerWindow \in Nat \ {0}
      /\ DatasetLen' = DatasetLen /\ UpdatesPerWindow' = UpdatesPerWindow
  BY ConfigNow DEF DatasetLen, UpdatesPerWindow
<1>1. /\ s.consumed \in Nat /\ s.steps \in Nat /\ s.metrics \in Seq(Nat)
      /\ s.weights \in Seq(Updates) /\ Counted(s)
  BY DEF Proper, Contents
<1>2. /\ epoch' \in 0..NEpochs /\ offset' \in 0..DatasetLen
      /\ epoch' = NEpochs => offset' = 0
      /\ loop' = epoch'
  BY BuiltFacts DEF Begin
<1>3. /\ pc' = "loop" /\ update' = 1 /\ consumed' = s.consumed /\ steps' = s.steps
      /\ safe' = TRUE /\ stop' = FALSE /\ agreed' = FALSE
      /\ log' = s.metrics /\ records' = <<>>
      /\ lastStep' = s.steps /\ lastCursor' = s.consumed /\ saved' = FALSE
      /\ weights' = s.weights /\ ended' = "running"
      /\ UNCHANGED <<dir, faults, stops>>
  BY DEF Begin, counters
<1>4. RangesOK'
  <2>1. {safe', stop', agreed', saved'} \subseteq BOOLEAN
    BY <1>3
  <2>2. faults' \in 0..MaxFaults /\ stops' \in 0..MaxStops
    BY <1>3 DEF HistoryInv, RangesOK, TypeOK
  <2>3. ~InEpoch'
    BY <1>3 DEF InEpoch
  <2>4. /\ log' \in Seq(Nat) /\ records' \in Seq(Nat) /\ weights' \in Seq(Updates)
        /\ consumed' \in Nat /\ steps' \in Nat /\ lastStep' \in Nat /\ lastCursor' \in Nat
    BY <1>1, <1>3
  <2>5. /\ pc' = "loop" /\ ended' = "running" /\ update' \in 1..UpdatesPerWindow
    BY <1>0, <1>3
  <2> QED
    BY <1>0, <1>2, <2>1, <2>2, <2>3, <2>4, <2>5 DEF RangesOK, TypeOK
<1>5. PhaseOK'
  BY <1>3 DEF PhaseOK, AtRest, InWindow
<1>6. CountsOK'
  <2>1. log' \o records' = s.metrics
    BY <1>1, <1>3, ConcatEmptySeq
  <2> QED
    BY <1>1, <1>3, <2>1 DEF CountsOK, Counted, Content
<1>7. FilesOK'
  BY <1>3, FilesKept
<1> QED
  BY <1>4, <1>5, <1>6, <1>7 DEF HistoryInv

Fresh == [epoch |-> 0, offset |-> 0, consumed |-> 0, steps |-> 0,
          metrics |-> <<>>, weights |-> <<>>]

\* A fresh run is a proper state.
LEMMA FreshIsProper ==
    ASSUME NEW c \in Configs
    PROVE  Proper(c, Fresh)
<1>1. c.len \in Nat /\ NEpochs \in Nat \ {0}
  BY ConfigFacts, RunAssumption
<1>2. Fresh \in Contents(c)
  BY <1>1 DEF Fresh, Contents
<1>3. Counted(Fresh)
  <2>1. [i \in 1..0 |-> i] = <<>> /\ Len(<<>>) = 0
    OBVIOUS
  <2> QED
    BY <2>1 DEF Counted, Fresh
<1> QED
  BY <1>1, <1>2, <1>3 DEF Proper, Fresh

\* The invariant holds before the first run.
LEMMA HistoryInit ==
    ASSUME Init
    PROVE  HistoryInv
<1>1. config \in Configs
  BY DEF Init
<1>2. /\ DatasetLen \in Nat \ {0} /\ UpdatesPerWindow \in Nat \ {0} /\ NEpochs \in Nat \ {0}
      /\ MaxFaults \in Nat /\ MaxStops \in Nat
  BY <1>1, ConfigFacts, RunAssumption DEF DatasetLen, UpdatesPerWindow
<1>3. RangesOK
  <2>1. {safe, stop, agreed, saved} \subseteq BOOLEAN
    BY DEF Init
  <2>2. <<>> \in Seq(Nat) /\ <<>> \in Seq(Updates)
    OBVIOUS
  <2>3. /\ pc = "dead" /\ ended = "never" /\ loop = 0 /\ update = 1 /\ epoch = 0 /\ offset = 0
        /\ consumed = 0 /\ steps = 0 /\ log = <<>> /\ records = <<>> /\ lastStep = 0
        /\ lastCursor = 0 /\ weights = <<>> /\ faults = 0 /\ stops = 0
    BY DEF Init
  <2>4. TypeOK
    BY <1>2, <2>1, <2>2, <2>3 DEF TypeOK
  <2> QED
    BY <1>1, <1>2, <2>2, <2>3, <2>4 DEF RangesOK, InEpoch
<1>4. PhaseOK
  BY DEF Init, PhaseOK, AtRest, InWindow
<1>5. CountsOK
  <2>1. [i \in 1..0 |-> i] = <<>> /\ Len(<<>>) = 0 /\ <<>> \o <<>> = <<>>
    OBVIOUS
  <2> QED
    BY <2>1 DEF Init, CountsOK, Counted, Content
<1>6. FilesOK
  <2>1. dir = [n \in Names |-> None]
    BY DEF Init
  <2> QED
    BY <2>1 DEF FilesOK, Published
<1> QED
  BY <1>3, <1>4, <1>5, <1>6 DEF HistoryInv

\* Every step keeps it.
LEMMA HistoryNext ==
    ASSUME HistoryInv, [Next]_vars
    PROVE  HistoryInv'
<1>1. CASE UNCHANGED vars
  <2>1. /\ UNCHANGED <<config, pc, loop, update, epoch, offset, consumed, steps, safe, stop,
                       agreed, log, records>>
        /\ UNCHANGED <<lastStep, lastCursor, saved, weights, ended, dir, faults, stops>>
    BY <1>1 DEF vars, cursor, history, callback, counters
  <2>2. RangesOK'
    BY <2>1 DEF HistoryInv, RangesOK, TypeOK, InEpoch, UpdatesPerWindow, DatasetLen
  <2>3. PhaseOK'
    BY <2>1 DEF HistoryInv, PhaseOK, AtRest, InWindow, Final, UpdatesPerWindow
  <2>4. CountsOK'
    BY <2>1 DEF HistoryInv, CountsOK, InWindow, Counted, Content
  <2>5. FilesOK'
    BY <2>1, FilesKept
  <2> QED
    BY <2>2, <2>3, <2>4, <2>5 DEF HistoryInv
<1>2. CASE Next
  <2>0. config' = config
    BY <1>2 DEF Next
  <2>1. ASSUME StartFresh PROVE HistoryInv'
    <3>1. Begin(Fresh)
      BY <2>1 DEF StartFresh, Fresh
    <3>2. Proper(config, Fresh)
      BY ConfigNow, FreshIsProper
    <3> QED
      BY <2>0, <3>1, <3>2, BeginKeeps
  <2>2. ASSUME Resume PROVE HistoryInv'
    <3>1. PICK n \in Selectable : Begin(dir[n])
      BY <2>2 DEF Resume
    <3>2. Proper(config, dir[n])
      BY <3>1 DEF Selectable, HistoryInv, FilesOK
    <3> QED
      BY <2>0, <3>1, <3>2, BeginKeeps
  <2> QED
    BY <1>2, <2>0, <2>1, <2>2, HistoryStep1, HistoryStep2
    DEF Next, RunStep, FaultStep, Restart
<1> QED
  BY <1>1, <1>2

\* In every configuration, under every signal, exception and kill: what a run publishes has
\* one metric record of each of its steps (write_metric_log, _finish_update).
THEOREM HistoryIsContinuous == Spec => [](TypeOK /\ MetricsCoherent)
<1>1. HistoryInv => TypeOK /\ MetricsCoherent
  <2> SUFFICES ASSUME HistoryInv PROVE TypeOK /\ MetricsCoherent
    OBVIOUS
  <2>1. TypeOK
    BY DEF HistoryInv, RangesOK
  <2>2. \A n \in Published : Proper(config, dir[n])
    BY DEF HistoryInv, FilesOK
  <2>3. MetricsCoherent
    BY <2>2 DEF MetricsCoherent, Proper, Counted
  <2> QED
    BY <2>1, <2>3
<1>2. Init => HistoryInv
  BY HistoryInit
<1>3. HistoryInv /\ [Next]_vars => HistoryInv'
  BY HistoryNext
<1> QED
  BY <1>1, <1>2, <1>3, PTL DEF Spec

-----------------------------------------------------------------------------
(* The cursor.                                                              *)

Whole(c, s) ==
    /\ s.weights \o UpdatesFrom(c, s.epoch, s.offset) = UpdatesFrom(c, 0, 0)
    /\ s.consumed = s.epoch * c.len + s.offset
    /\ OnGrid(c, s.offset)
Ends == ended \in {"stopped", "complete"}

\* The updates of the window that are still to come, from u on.
Todo(c, e, o, u) == SubSeq(WindowUpdates(c, e, Head(Windows(c, o))), u, c.updates)
RestOK == safe => Whole(config, Content)
WindowOK == InWindow =>
    /\ weights \o (Todo(config, epoch, offset, IF pc = "update" THEN update ELSE update + 1)
                   \o UpdatesFrom(config, epoch, offset + Window.count)) = Schedule
    /\ consumed = epoch * DatasetLen + offset
    /\ OnGrid(config, offset)
DirOK == \A n \in Published : Whole(config, dir[n])
StopOK ==
    /\ pc = "loop" /\ ~stop =>
          epoch = loop \/ (Mode = "window" /\ epoch + 1 = loop /\ offset = DatasetLen)
    /\ Mode = "window" /\ agreed => stop
    /\ pc = "fetch" => Mode = "round" /\ ~stop
    /\ pc = "roundsEnd" => Mode = "round" /\ Windows(config, offset) = <<>>
    /\ pc = "epochEnd" => IF Mode = "window" THEN agreed \/ Windows(config, offset) = <<>>
                          ELSE stop
Confirmed == saved => \E n \in Published : dir[n].steps = lastStep /\ dir[n].consumed = lastCursor
Left == \E n \in Published : dir[n].weights = weights /\ dir[n].consumed = consumed
EndOK ==
    /\ pc = "shutdown" /\ Ends => safe
    /\ Confirmed
    /\ pc \in {"finish", "dead"} /\ Ends => Left
CursorInv == HistoryInv /\ RestOK /\ WindowOK /\ DirOK /\ StopOK /\ EndOK

\* What is left from any place is a sequence of updates.
LEMMA UpdatesAre ==
    ASSUME NEW c \in Configs, NEW e \in Nat, NEW o \in 0..c.len
    PROVE  UpdatesFrom(c, e, o) \in Seq(Updates)
<1>1. UpdatesFrom(c, e, o) \in Seq(FromEpoch(e))
  BY UpdatesType
<1>2. FromEpoch(e) \subseteq Updates
  BY DEF FromEpoch
<1> QED
  BY <1>1, <1>2, SeqMonotonic

\* A fresh run has the whole schedule before it.
LEMMA Origin ==
    ASSUME NEW c \in Configs
    PROVE  OnGrid(c, 0) /\ 0 \in 0..c.len /\ Whole(c, Fresh)
<1>1. c.len \in Nat \ {0} /\ c.batch \in Nat \ {0}
  BY ConfigFacts
<1>2. PICK b \in Nat \ {0} : b = c.batch
  BY <1>1
<1>3. 0 % b = 0
  BY DivModStep
<1>4. OnGrid(c, 0) /\ 0 \in 0..c.len
  BY <1>1, <1>2, <1>3 DEF OnGrid
<1>5. UpdatesFrom(c, 0, 0) \in Seq(Updates)
  BY <1>4, UpdatesAre
<1>6. <<>> \o UpdatesFrom(c, 0, 0) = UpdatesFrom(c, 0, 0)
  BY <1>5, ConcatEmptySeq
<1>7. 0 = 0 * c.len + 0
  BY <1>1
<1> QED
  BY <1>4, <1>6, <1>7 DEF Whole, Fresh

\* What two whole states of as many steps have seen is the same; of the same epoch, they stand
\* at the same place.
LEMMA SameSteps ==
    ASSUME NEW c \in Configs, NEW s, NEW t, Proper(c, s), Proper(c, t), Whole(c, s), Whole(c, t),
           s.steps = t.steps
    PROVE  /\ s.weights = t.weights
           /\ s.epoch = t.epoch => s.consumed = t.consumed
<1>0. /\ s.epoch \in 0..NEpochs /\ s.offset \in 0..c.len /\ s.weights \in Seq(Updates)
      /\ t.epoch \in 0..NEpochs /\ t.offset \in 0..c.len /\ t.weights \in Seq(Updates)
      /\ Len(s.weights) = Len(t.weights)
      /\ s.epoch = NEpochs => s.offset = 0
      /\ t.epoch = NEpochs => t.offset = 0
  BY DEF Proper, Contents, Counted
<1>1. NEpochs \in Nat /\ s.epoch \in Nat /\ t.epoch \in Nat
  BY <1>0, RunAssumption
<1>2. PICK x \in Seq(Updates) : x = UpdatesFrom(c, s.epoch, s.offset)
  BY <1>0, <1>1, UpdatesAre
<1>3. PICK y \in Seq(Updates) : y = UpdatesFrom(c, t.epoch, t.offset)
  BY <1>0, <1>1, UpdatesAre
<1>4. PICK v \in Seq(Updates) : v = s.weights
  BY <1>0
<1>5. PICK w \in Seq(Updates) : w = t.weights
  BY <1>0
<1>6. v \o x = w \o y /\ Len(v) = Len(w)
  BY <1>0, <1>2, <1>3, <1>4, <1>5 DEF Whole
<1>7. v = w
  <2>1. /\ \A i \in 1..(Len(v) + Len(x)) :
                (v \o x)[i] = IF i <= Len(v) THEN v[i] ELSE x[i - Len(v)]
        /\ \A i \in 1..(Len(w) + Len(y)) :
                (w \o y)[i] = IF i <= Len(w) THEN w[i] ELSE y[i - Len(w)]
    BY ConcatProperties
  <2>2. /\ Len(v) \in Nat /\ Len(x) \in Nat /\ Len(y) \in Nat
    OBVIOUS
  <2>3. \A i \in 1..Len(v) : v[i] = w[i]
    BY <1>6, <2>1, <2>2
  <2> QED
    BY <1>6, <2>3, SeqEqual
<1>8. x = y
  <2>1. \A S : \A a, b, d \in Seq(S) : a \o b = a \o d => b = d
    BY ConcatSimplifications
  <2>2. v \o x = v \o y
    BY <1>6, <1>7
  <2> QED
    BY <2>1, <2>2, Zenon
<1>9. ASSUME s.epoch = t.epoch PROVE s.consumed = t.consumed
  <2>1. s.offset = t.offset
    <3>1. CASE s.epoch = NEpochs
      BY <1>0, <1>9, <3>1
    <3>2. CASE s.epoch < NEpochs
      <4>1. UpdatesFrom(c, s.epoch, s.offset) = UpdatesFrom(c, s.epoch, t.offset)
        BY <1>2, <1>3, <1>8, <1>9
      <4>2. OnGrid(c, s.offset) /\ OnGrid(c, t.offset)
        BY DEF Whole
      <4> QED
        BY <1>0, <1>1, <3>2, <4>1, <4>2, SamePlace
    <3> QED
      BY <1>0, <1>1, <3>1, <3>2
  <2> QED
    BY <2>1, <1>9 DEF Whole
<1> QED
  BY <1>4, <1>5, <1>7, <1>9

\* A whole state has a name to be published under.
LEMMA HasName ==
    ASSUME config \in Configs, NEW s, Proper(config, s), Whole(config, s)
    PROVE  [epoch |-> s.epoch, step |-> s.steps] \in Names
<1>0. /\ s.epoch \in 0..NEpochs /\ s.offset \in 0..config.len /\ s.weights \in Seq(Updates)
      /\ s.steps = Len(s.weights) /\ NEpochs \in Nat
  BY RunAssumption DEF Proper, Contents, Counted
<1>1. PICK x \in Seq(Updates) : x = UpdatesFrom(config, s.epoch, s.offset)
  <2>1. s.epoch \in Nat
    BY <1>0
  <2> QED
    BY <1>0, <2>1, UpdatesAre
<1>2. PICK v \in Seq(Updates) : v = s.weights
  BY <1>0
<1>3. Schedule = v \o x
  BY <1>1, <1>2 DEF Schedule, Whole
<1>4. Len(v \o x) = Len(v) + Len(x) /\ Len(v) \in Nat /\ Len(x) \in Nat
  BY ConcatProperties
<1>5. s.steps \in 0..Len(Schedule)
  BY <1>0, <1>2, <1>3, <1>4
<1> QED
  BY <1>0, <1>5 DEF Names

\* The updates of a window that are still to come.
LEMMA TodoFacts ==
    ASSUME NEW c \in Configs, NEW e \in Nat, NEW o \in 0..c.len, Windows(c, o) # <<>>
    PROVE  /\ Todo(c, e, o, 1) = WindowUpdates(c, e, Head(Windows(c, o)))
           /\ Todo(c, e, o, c.updates + 1) = <<>>
           /\ \A u \in 1..c.updates :
                 /\ Todo(c, e, o, u) =
                      <<[epoch |-> e, start |-> o, u |-> u]>> \o Todo(c, e, o, u + 1)
                 /\ Todo(c, e, o, u + 1) \in Seq(Updates)
                 /\ [epoch |-> e, start |-> o, u |-> u] \in Updates
<1>1. PICK w \in Slot : w = Head(Windows(c, o)) /\ w.start = o
  BY WindowsStep
<1>2. PICK n \in Nat \ {0} : n = c.updates
  BY ConfigFacts
<1>3. WindowUpdates(c, e, w) \in Seq(OfEpoch(e)) /\ OfEpoch(e) \subseteq Updates
  BY WindowUpdatesAre DEF OfEpoch
<1>4. PICK s \in Seq(Updates) : s = WindowUpdates(c, e, w)
  BY <1>3, SeqMonotonic
<1>5. Len(s) = n /\ \A u \in 1..n : s[u] = [epoch |-> e, start |-> o, u |-> u]
  <2>1. /\ Len(WindowUpdates(c, e, w)) = c.updates
        /\ \A u \in 1..c.updates :
              WindowUpdates(c, e, w)[u] = [epoch |-> e, start |-> w.start, u |-> u]
    BY WindowUpdatesAre
  <2> QED
    BY <1>1, <1>2, <1>4, <2>1
<1>6. \A u : Todo(c, e, o, u) = SubSeq(s, u, n)
  BY <1>1, <1>2, <1>4 DEF Todo
<1>7. SubSeq(s, 1, n) = s /\ SubSeq(s, n + 1, n) = <<>>
  <2>1. SubSeq(s, 1, Len(s)) = s
    BY SubSeqFull
  <2>2. n + 1 \in Int /\ n \in Int /\ n < n + 1
    OBVIOUS
  <2>3. SubSeq(s, n + 1, n) = <<>>
    BY <2>2, SubSeqEmpty
  <2> QED
    BY <2>1, <2>3, <1>5
<1>8. ASSUME NEW u \in 1..n
      PROVE  /\ SubSeq(s, u, n) = <<s[u]>> \o SubSeq(s, u + 1, n)
             /\ SubSeq(s, u + 1, n) \in Seq(Updates) /\ s[u] \in Updates
  <2>1. /\ u \in Int /\ u + 1 \in Int /\ n \in Int /\ u <= n
        /\ \A i \in u..n : s[i] \in Updates
        /\ \A i \in (u + 1)..n : s[i] \in Updates
    BY <1>5
  <2>2. SubSeq(s, u, n) = <<s[u]>> \o SubSeq(s, u + 1, n)
    BY <1>5, <2>1, SubSeqRecursiveFirst
  <2>3. SubSeq(s, u + 1, n) \in Seq(Updates)
    BY <2>1, SubSeqProperties
  <2> QED
    BY <2>1, <2>2, <2>3
<1>9. ASSUME NEW u \in 1..c.updates
      PROVE  /\ Todo(c, e, o, u) =
                  <<[epoch |-> e, start |-> o, u |-> u]>> \o Todo(c, e, o, u + 1)
             /\ Todo(c, e, o, u + 1) \in Seq(Updates)
             /\ [epoch |-> e, start |-> o, u |-> u] \in Updates
  <2>1. u \in 1..n
    BY <1>2
  <2>2. s[u] = [epoch |-> e, start |-> o, u |-> u]
    BY <2>1, <1>5
  <2>3. Todo(c, e, o, u) = SubSeq(s, u, n) /\ Todo(c, e, o, u + 1) = SubSeq(s, u + 1, n)
    BY <1>6
  <2> QED
    BY <2>1, <2>2, <2>3, <1>8
<1> QED
  BY <1>1, <1>2, <1>4, <1>6, <1>7, <1>9

\* A process that resumes at the end of an async epoch stands at the next one's start.
LEMMA BuiltWhole ==
    ASSUME HistoryInv, NEW s, Proper(config, s), Whole(config, s)
    PROVE  /\ s.weights \o UpdatesFrom(config, Built(s).epoch, Built(s).offset) = Schedule
           /\ s.consumed = Built(s).epoch * DatasetLen + Built(s).offset
           /\ OnGrid(config, Built(s).offset)
<1>0. /\ config \in Configs /\ DatasetLen = config.len /\ DatasetLen \in Nat \ {0}
      /\ NEpochs \in Nat
  BY ConfigNow DEF DatasetLen
<1>1. /\ s.epoch \in 0..NEpochs /\ s.offset \in 0..config.len
      /\ s.epoch = NEpochs => s.offset = 0
  BY DEF Proper, Contents
<1>2. /\ s.weights \o UpdatesFrom(config, s.epoch, s.offset) = Schedule
      /\ s.consumed = s.epoch * config.len + s.offset /\ OnGrid(config, s.offset)
  BY DEF Whole, Schedule
<1>3. CASE Mode = "round" /\ s.offset = DatasetLen
  <2>1. Built(s).epoch = s.epoch + 1 /\ Built(s).offset = 0
    BY <1>3 DEF Built
  <2>2. s.epoch \in Nat /\ s.epoch < NEpochs /\ s.offset = config.len
    BY <1>0, <1>1, <1>3
  <2>3. Windows(config, s.offset) = <<>>
    BY <1>0, <1>1, <2>2, NoWindows
  <2>4. UpdatesFrom(config, s.epoch, s.offset) = UpdatesFrom(config, s.epoch + 1, 0)
    BY <1>0, <1>1, <2>2, <2>3, UpdatesNext
  <2>5. (s.epoch + 1) * DatasetLen + 0 = s.epoch * DatasetLen + DatasetLen
    BY <1>0, <2>2
  <2> QED
    BY <1>0, <1>2, <2>1, <2>2, <2>4, <2>5, Origin
<1>4. CASE ~(Mode = "round" /\ s.offset = DatasetLen)
  <2>1. Built(s).epoch = s.epoch /\ Built(s).offset = s.offset
    BY <1>4 DEF Built
  <2> QED
    BY <1>0, <1>2, <2>1
<1> QED
  BY <1>3, <1>4

\* What is published while the state is whole is whole, and replaces nothing.
LEMMA PublishWhole ==
    ASSUME HistoryInv, RestOK, DirOK, config' = config, safe, dir[Name] = None,
           dir' = [dir EXCEPT ![Name] = Content]
    PROVE  /\ DirOK'
           /\ Name \in Published' /\ dir'[Name] = Content
           /\ \A n \in Published : n \in Published' /\ dir'[n] = dir[n]
<1>0. config \in Configs /\ Names' = Names /\ Whole(config, Content)
  BY ConfigNow DEF Names, Schedule, RestOK
<1>1. Proper(config, Content) /\ Content \in Contents(config)
  BY ContentProper
<1>2. Name \in Names
  <2>1. [epoch |-> Content.epoch, step |-> Content.steps] = Name
    BY DEF Content, Name
  <2> QED
    BY <1>0, <1>1, <2>1, HasName
<1>3. dir \in [Names -> {None} \cup Contents(config)]
  BY DEF HistoryInv, FilesOK
<1>4. \A n \in Names : dir'[n] = IF n = Name THEN Content ELSE dir[n]
  BY <1>3
<1>5. Content # None
  <2>1. None \notin Contents(config)
    <3>1. \A x \in Contents(config) :
             x \in [epoch : Nat, offset : Nat, consumed : Nat, steps : Nat, metrics : Seq(Nat),
                    weights : Seq([epoch : Nat, start : Nat, u : Nat])]
      <4>1. 0..NEpochs \subseteq Nat /\ 0..config.len \subseteq Nat
        BY <1>0, ConfigFacts, RunAssumption
      <4> QED
        BY <4>1 DEF Contents, Updates
    <3> QED
      BY <3>1, NoneAssumption
  <2> QED
    BY <1>1, <2>1
<1>6. dir'[Name] = Content /\ Name \in Published'
  BY <1>0, <1>2, <1>4, <1>5 DEF Published
<1>7. ASSUME NEW n \in Published PROVE n \in Published' /\ dir'[n] = dir[n]
  <2>1. n \in Names /\ dir[n] # None /\ n # Name
    BY DEF Published
  <2>2. dir'[n] = dir[n]
    BY <1>4, <2>1
  <2> QED
    BY <1>0, <2>1, <2>2 DEF Published
<1>8. ASSUME NEW n \in Published' PROVE Whole(config, dir'[n])
  <2>1. n \in Names /\ dir'[n] # None
    BY <1>0 DEF Published
  <2>2. CASE n = Name
    BY <1>0, <1>6, <2>2
  <2>3. CASE n # Name
    <3>1. dir'[n] = dir[n] /\ n \in Published
      BY <1>4, <2>1, <2>3 DEF Published
    <3> QED
      BY <3>1 DEF DirOK
  <2> QED
    BY <2>2, <2>3
<1>9. DirOK'
  BY <1>8 DEF DirOK
<1> QED
  BY <1>6, <1>7, <1>9

\* The files are unchanged, so they are as whole as before.
LEMMA DirKept ==
    ASSUME DirOK, config' = config, dir' = dir
    PROVE  DirOK' /\ Published' = Published
BY DEF DirOK, Published, Names, Schedule

\* A state that a save leaves on disk.
OnDisk == \E n \in Published :
    dir[n].weights = weights /\ dir[n].consumed = consumed /\ dir[n].steps = steps

\* After a save of a whole state a checkpoint of that state is on disk.
LEMMA SaveLeaves ==
    ASSUME HistoryInv, RestOK, DirOK, config' = config, safe, Save,
           UNCHANGED <<weights, consumed, steps>>
    PROVE  /\ DirOK' /\ OnDisk'
           /\ \A n \in Published : n \in Published' /\ dir'[n] = dir[n]
           /\ lastStep' = steps /\ lastCursor' = consumed
<1>1. lastStep' = steps /\ lastCursor' = consumed
  BY DEF Save, Saveable
<1>2. CASE dir[Name] # None
  <2>1. dir' = dir
    BY <1>2 DEF Save, Saveable
  <2>2. /\ config \in Configs /\ Whole(config, Content) /\ Proper(config, Content)
        /\ Content.epoch = Name.epoch /\ Content.steps = Name.step
        /\ Content.weights = weights /\ Content.consumed = consumed /\ Content.steps = steps
    BY ContentProper, ConfigNow DEF Content, Name, RestOK
  <2>3. Name \in Names
    <3>1. [epoch |-> Content.epoch, step |-> Content.steps] = Name
      BY DEF Content, Name
    <3> QED
      BY <2>2, <3>1, HasName
  <2>4. PICK n \in Published : n = Name
    BY <1>2, <2>3 DEF Published
  <2>5. /\ Proper(config, dir[n]) /\ Whole(config, dir[n])
        /\ dir[n].epoch = Content.epoch /\ dir[n].steps = Content.steps
    BY <2>2, <2>4 DEF HistoryInv, FilesOK, DirOK
  <2>6. dir[n].weights = weights /\ dir[n].consumed = consumed /\ dir[n].steps = steps
    <3>1. Content.weights = dir[n].weights /\ Content.consumed = dir[n].consumed
      BY <2>2, <2>5, SameSteps
    <3> QED
      BY <2>2, <2>5, <3>1
  <2>7. Published' = Published /\ DirOK'
    BY <2>1, DirKept
  <2>8. OnDisk'
    BY <2>1, <2>6, <2>7 DEF OnDisk
  <2> QED
    BY <1>1, <2>1, <2>7, <2>8
<1>3. CASE dir[Name] = None
  <2>1. dir' = [dir EXCEPT ![Name] = Content]
    BY <1>3 DEF Save, Saveable
  <2>2. /\ DirOK' /\ Name \in Published' /\ dir'[Name] = Content
        /\ \A n \in Published : n \in Published' /\ dir'[n] = dir[n]
    BY <1>3, <2>1, PublishWhole
  <2>3. OnDisk'
    BY <2>2 DEF OnDisk, Content
  <2> QED
    BY <1>1, <2>2, <2>3
<1> QED
  BY <1>2, <1>3

\* A state on disk stays there, whatever else is published.
LEMMA OnDiskStays ==
    ASSUME OnDisk, UNCHANGED <<weights, consumed, steps>>,
           \A n \in Published : n \in Published' /\ dir'[n] = dir[n]
    PROVE  OnDisk'
BY DEF OnDisk

\* A window that begins has all its updates to come.
LEMMA EnterWindow ==
    ASSUME HistoryInv, RestOK, safe, epoch < NEpochs, Windows(config, offset) # <<>>
    PROVE  /\ weights \o (Todo(config, epoch, offset, 1)
                          \o UpdatesFrom(config, epoch, offset + Window.count)) = Schedule
           /\ consumed = epoch * DatasetLen + offset
           /\ OnGrid(config, offset)
<1>0. config \in Configs /\ epoch \in Nat /\ offset \in 0..config.len /\ DatasetLen = config.len
  BY ConfigNow DEF HistoryInv, RangesOK, TypeOK, DatasetLen
<1>1. /\ Window \in Slot /\ offset + Window.count \in 0..config.len
      /\ Windows(config, offset) = <<Window>> \o Windows(config, offset + Window.count)
  BY <1>0, WindowFacts
<1>2. UpdatesFrom(config, epoch, offset) =
        WindowUpdates(config, epoch, Window) \o UpdatesFrom(config, epoch, offset + Window.count)
  BY <1>0, <1>1, UpdatesStep
<1>3. Todo(config, epoch, offset, 1) = WindowUpdates(config, epoch, Window)
  BY <1>0, TodoFacts DEF Window
<1>4. /\ weights \o UpdatesFrom(config, epoch, offset) = Schedule
      /\ consumed = epoch * config.len + offset /\ OnGrid(config, offset)
  BY DEF RestOK, Whole, Content, Schedule
<1> QED
  BY <1>0, <1>2, <1>3, <1>4

\* A commit moves one update from those to come to those seen; the last of a window takes the
\* cursor past it.
LEMMA CommitWhole ==
    ASSUME HistoryInv, WindowOK, config' = config, pc = "update", Advance,
           weights' = Append(weights, Update), epoch' = epoch
    PROVE  /\ weights' \o (Todo(config, epoch, offset, update + 1)
                           \o UpdatesFrom(config, epoch, offset + Window.count)) = Schedule
           /\ ~Final => offset' = offset /\ consumed' = consumed
           /\ Final => Whole(config, [weights |-> weights', epoch |-> epoch, offset |-> offset',
                                      consumed |-> consumed'])
<1>0. /\ config \in Configs /\ epoch \in Nat /\ epoch < NEpochs /\ epoch = loop
      /\ offset \in 0..config.len /\ DatasetLen = config.len /\ GlobalBatch = config.batch
      /\ TailPolicy = config.tail
      /\ UpdatesPerWindow = config.updates
      /\ update \in 1..config.updates /\ Windows(config, offset) # <<>>
      /\ weights \in Seq(Updates)
  <2>1. config \in Configs
    BY ConfigNow
  <2>2. epoch = loop /\ loop < NEpochs /\ epoch \in Nat
    BY DEF HistoryInv, RangesOK, TypeOK, InEpoch
  <2>3. Windows(config, offset) # <<>>
    BY DEF HistoryInv, PhaseOK, InWindow
  <2>4. offset \in 0..config.len /\ update \in 1..config.updates /\ weights \in Seq(Updates)
    BY DEF HistoryInv, RangesOK, TypeOK, DatasetLen, UpdatesPerWindow
  <2> QED
    BY <2>1, <2>2, <2>3, <2>4 DEF DatasetLen, UpdatesPerWindow, GlobalBatch, TailPolicy
<1>1. /\ Window \in Slot /\ Window.start = offset /\ offset + Window.count \in 0..config.len
      /\ config.tail = "drop" => Window.count = config.batch
  BY <1>0, WindowFacts
<1>2. /\ weights \o (Todo(config, epoch, offset, update)
                     \o UpdatesFrom(config, epoch, offset + Window.count)) = Schedule
      /\ consumed = epoch * config.len + offset /\ OnGrid(config, offset)
  BY <1>0 DEF WindowOK, InWindow
<1>3. PICK z \in Seq(Updates) : z = UpdatesFrom(config, epoch, offset + Window.count)
  BY <1>0, <1>1, UpdatesAre
<1>4. /\ Todo(config, epoch, offset, update) = <<Update>> \o Todo(config, epoch, offset, update + 1)
      /\ Todo(config, epoch, offset, update + 1) \in Seq(Updates)
      /\ Update \in Updates
  <2>1. Update = [epoch |-> epoch, start |-> offset, u |-> update]
    BY <1>0, <1>1 DEF Update
  <2> QED
    BY <1>0, <2>1, TodoFacts
<1>5. PICK t \in Seq(Updates) : t = Todo(config, epoch, offset, update + 1)
  BY <1>4
<1>6. PICK x \in Updates : x = Update
  BY <1>4
<1>7. weights' = weights \o <<x>>
  BY <1>0, <1>6, AppendIsConcat
<1>8. (weights \o <<x>>) \o (t \o z) = weights \o ((<<x>> \o t) \o z)
  <2>1. \A a, b, d \in Seq(Updates) : (a \o b) \o d = a \o (b \o d)
    BY ConcatAssociative, SMTT(60)
  <2>2. <<x>> \in Seq(Updates) /\ t \o z \in Seq(Updates)
    BY ConcatProperties
  <2>3. (weights \o <<x>>) \o (t \o z) = weights \o (<<x>> \o (t \o z))
    BY <1>0, <2>1, <2>2, Zenon
  <2>4. (<<x>> \o t) \o z = <<x>> \o (t \o z)
    BY <2>1, <2>2, Zenon
  <2> QED
    BY <2>3, <2>4
<1>9. weights' \o (t \o z) = Schedule
  BY <1>2, <1>3, <1>4, <1>5, <1>6, <1>7, <1>8
<1>10. ASSUME Final
       PROVE  Whole(config, [weights |-> weights', epoch |-> epoch, offset |-> offset',
                             consumed |-> consumed'])
  <2>1. t = <<>>
    BY <1>0, <1>5, <1>10, TodoFacts DEF Final
  <2>2. weights' \o z = Schedule
    <3>1. <<>> \o z = z
      BY ConcatEmptySeq
    <3> QED
      BY <1>9, <2>1, <3>1
  <2>3. offset' = offset + Window.count /\ consumed' = consumed + Window.count
    BY <1>1, <1>10 DEF Advance
  <2>4. consumed' = epoch * config.len + offset'
    <3>1. epoch * config.len \in Nat /\ Window.count \in Nat /\ offset \in Nat
      BY <1>0, <1>1, ConfigFacts DEF Slot
    <3>2. PICK m \in Nat : m = epoch * config.len
      BY <3>1
    <3>3. consumed = m + offset
      BY <1>2, <3>2
    <3>4. consumed' = m + offset'
      BY <2>3, <3>1, <3>3
    <3> QED
      BY <3>2, <3>4
  <2>5. OnGrid(config, offset')
    <3>1. offset \in Nat /\ Window.count \in Nat
      BY <1>0, <1>1, ConfigFacts DEF Slot
    <3> QED
      BY <1>0, <1>1, <1>2, <2>3, <3>1, GridStep
  <2> QED
    BY <1>3, <2>2, <2>3, <2>4, <2>5 DEF Whole, Schedule
<1>11. ~Final => offset' = offset /\ consumed' = consumed
  BY DEF Advance
<1> QED
  BY <1>3, <1>5, <1>9, <1>10, <1>11

\* Where a run under its configuration may be hit: a signal in a round's fetch ends the epoch
\* early (the finding of MCTrainRoundSignal); an exception after a tail was dropped leaves the
\* cursor at the epoch it has just left.
Spared == \A c \in Configs : /\ c.mode = "round" => "fetch" \notin c.hit
                             /\ c.tail = "drop" => "epoch_end" \notin c.hit

\* A step that moves neither weights nor cursor leaves a state that may be saved whole.
LEMMA RestKept ==
    ASSUME RestOK, config' = config, UNCHANGED <<weights, epoch, offset, consumed>>, safe' => safe
    PROVE  RestOK'
BY DEF RestOK, Whole, Content

\* Steps that leave the model, the cursor and the directory as they are.
LEMMA CursorStep1 ==
    ASSUME Spared, CursorInv, config' = config, HistoryInv',
           \/ Signal
           \/ Killed
           \/ EpochBegins
           \/ NextWindow
           \/ Fetch
           \/ FetchRaises
           \/ CommitRaises
           \/ RoundsStopped
    PROVE  CursorInv'
<1>0. /\ config \in Configs /\ Mode' = Mode /\ DatasetLen' = DatasetLen
      /\ Mode \in {"window", "round"}
      /\ Mode = "round" => "fetch" \notin Interruptions
  BY ConfigNow DEF Mode, DatasetLen, Spared, Interruptions, CursorInv
<1>1. HistoryInv /\ RestOK /\ WindowOK /\ DirOK /\ StopOK /\ EndOK
  BY DEF CursorInv
<1>2. PhaseOK /\ RangesOK
  BY <1>1 DEF HistoryInv
<1>3. {safe, stop, agreed, saved} \subseteq BOOLEAN
  BY <1>2 DEF RangesOK, TypeOK
<1>Signal. CASE Signal
  <2>1. RestOK'
    BY <1>1, <1>2, <1>Signal, RestKept DEF PhaseOK, AtRest, Signal, Interruptions, cursor
  <2>2. WindowOK'
    BY <1>1, <1>Signal
    DEF WindowOK, InWindow, Window, Schedule, DatasetLen, Signal, Interruptions, cursor
  <2>3. DirOK' /\ Published' = Published
    BY <1>1, <1>Signal, DirKept DEF Signal, Interruptions
  <2>4. StopOK'
    BY <1>0, <1>1, <1>2, <1>3, <1>Signal
    DEF StopOK, PhaseOK, RangesOK, Signal, Interruptions, cursor
  <2>5. EndOK'
    BY <1>1, <1>2, <1>3, <1>Signal, <2>3
    DEF EndOK, Confirmed, Left, Ends, PhaseOK, AtRest, Signal, Interruptions, cursor, callback
  <2> QED
    BY <2>1, <2>2, <2>3, <2>4, <2>5 DEF CursorInv
<1>Killed. CASE Killed
  <2>1. RestOK'
    BY <1>1, <1>2, <1>Killed, RestKept DEF PhaseOK, AtRest, Killed, cursor
  <2>2. WindowOK'
    BY <1>Killed DEF WindowOK, InWindow, Killed
  <2>3. DirOK' /\ Published' = Published
    BY <1>1, <1>Killed, DirKept DEF Killed
  <2>4. StopOK'
    BY <1>0, <1>1, <1>2, <1>3, <1>Killed DEF StopOK, PhaseOK, RangesOK, Killed, cursor
  <2>5. EndOK'
    BY <1>1, <1>2, <1>3, <1>Killed, <2>3
    DEF EndOK, Confirmed, Left, Ends, PhaseOK, AtRest, Killed, cursor, callback
  <2> QED
    BY <2>1, <2>2, <2>3, <2>4, <2>5 DEF CursorInv
<1>EpochBegins. CASE EpochBegins
  <2>1. RestOK'
    BY <1>1, <1>2, <1>EpochBegins, RestKept DEF PhaseOK, AtRest, EpochBegins, Agreed, cursor
  <2>2. WindowOK'
    BY <1>EpochBegins DEF WindowOK, InWindow, EpochBegins, Agreed
  <2>3. DirOK' /\ Published' = Published
    BY <1>1, <1>EpochBegins, DirKept DEF EpochBegins, Agreed
  <2>4. StopOK'
    BY <1>0, <1>1, <1>2, <1>3, <1>EpochBegins
    DEF StopOK, PhaseOK, RangesOK, EpochBegins, Agreed, cursor
  <2>5. EndOK'
    BY <1>1, <1>2, <1>3, <1>EpochBegins, <2>3
    DEF EndOK, Confirmed, Left, Ends, PhaseOK, AtRest, EpochBegins, Agreed, cursor, callback
  <2> QED
    BY <2>1, <2>2, <2>3, <2>4, <2>5 DEF CursorInv
<1>NextWindow. CASE NextWindow
  <2>1. RestOK'
    BY <1>1, <1>2, <1>NextWindow, RestKept DEF PhaseOK, AtRest, NextWindow, ShouldStop, cursor
  <2>2. WindowOK'
    <3>1. CASE pc' # "update"
      BY <3>1, <1>NextWindow DEF WindowOK, InWindow, NextWindow, ShouldStop
    <3>2. CASE pc' = "update"
      <4>1. /\ safe /\ epoch < NEpochs /\ Windows(config, offset) # <<>>
            /\ UNCHANGED <<weights, epoch, offset, consumed>> /\ update' = 1
        BY <3>2, <1>0, <1>1, <1>2, <1>NextWindow
        DEF PhaseOK, AtRest, RangesOK, InEpoch, StopOK, NextWindow, ShouldStop, cursor
      <4>2. /\ weights \o (Todo(config, epoch, offset, 1)
                          \o UpdatesFrom(config, epoch, offset + Window.count)) = Schedule
            /\ consumed = epoch * DatasetLen + offset
            /\ OnGrid(config, offset)
        BY <1>1, <4>1, EnterWindow
      <4> QED
        BY <1>0, <3>2, <4>1, <4>2 DEF WindowOK, Window, Schedule
    <3> QED
      BY <3>1, <3>2
  <2>3. DirOK' /\ Published' = Published
    BY <1>1, <1>NextWindow, DirKept DEF NextWindow, ShouldStop
  <2>4. StopOK'
    BY <1>0, <1>1, <1>2, <1>3, <1>NextWindow
    DEF StopOK, PhaseOK, RangesOK, NextWindow, ShouldStop, cursor
  <2>5. EndOK'
    BY <1>1, <1>2, <1>3, <1>NextWindow, <2>3
    DEF EndOK, Confirmed, Left, Ends, PhaseOK, AtRest, NextWindow, ShouldStop, cursor, callback
  <2> QED
    BY <2>1, <2>2, <2>3, <2>4, <2>5 DEF CursorInv
<1>Fetch. CASE Fetch
  <2>1. RestOK'
    BY <1>1, <1>2, <1>Fetch, RestKept DEF PhaseOK, AtRest, Fetch, Exhausted, cursor
  <2>2. WindowOK'
    <3>1. CASE pc' # "update"
      BY <3>1, <1>Fetch DEF WindowOK, InWindow, Fetch, Exhausted
    <3>2. CASE pc' = "update"
      <4>1. /\ safe /\ epoch < NEpochs /\ Windows(config, offset) # <<>>
            /\ UNCHANGED <<weights, epoch, offset, consumed>> /\ update' = 1
        BY <3>2, <1>0, <1>1, <1>2, <1>Fetch
        DEF PhaseOK, AtRest, RangesOK, InEpoch, StopOK, Fetch, Exhausted, cursor
      <4>2. /\ weights \o (Todo(config, epoch, offset, 1)
                          \o UpdatesFrom(config, epoch, offset + Window.count)) = Schedule
            /\ consumed = epoch * DatasetLen + offset
            /\ OnGrid(config, offset)
        BY <1>1, <4>1, EnterWindow
      <4> QED
        BY <1>0, <3>2, <4>1, <4>2 DEF WindowOK, Window, Schedule
    <3> QED
      BY <3>1, <3>2
  <2>3. DirOK' /\ Published' = Published
    BY <1>1, <1>Fetch, DirKept DEF Fetch, Exhausted
  <2>4. StopOK'
    BY <1>0, <1>1, <1>2, <1>3, <1>Fetch DEF StopOK, PhaseOK, RangesOK, Fetch, Exhausted, cursor
  <2>5. EndOK'
    BY <1>1, <1>2, <1>3, <1>Fetch, <2>3
    DEF EndOK, Confirmed, Left, Ends, PhaseOK, AtRest, Fetch, Exhausted, cursor, callback
  <2> QED
    BY <2>1, <2>2, <2>3, <2>4, <2>5 DEF CursorInv
<1>FetchRaises. CASE FetchRaises
  <2>1. RestOK'
    BY <1>1, <1>2, <1>FetchRaises, RestKept DEF PhaseOK, AtRest, FetchRaises, Raises, Fault, cursor
  <2>2. WindowOK'
    BY <1>FetchRaises DEF WindowOK, InWindow, FetchRaises, Raises, Fault
  <2>3. DirOK' /\ Published' = Published
    BY <1>1, <1>FetchRaises, DirKept DEF FetchRaises, Raises, Fault
  <2>4. StopOK'
    BY <1>0, <1>1, <1>2, <1>3, <1>FetchRaises
    DEF StopOK, PhaseOK, RangesOK, FetchRaises, Raises, Fault, cursor
  <2>5. EndOK'
    BY <1>1, <1>2, <1>3, <1>FetchRaises, <2>3
    DEF EndOK, Confirmed, Left, Ends, PhaseOK, AtRest, FetchRaises, Raises, Fault, cursor, callback
  <2> QED
    BY <2>1, <2>2, <2>3, <2>4, <2>5 DEF CursorInv
<1>CommitRaises. CASE CommitRaises
  <2>1. RestOK'
    BY <1>CommitRaises DEF RestOK, CommitRaises, Raises, Fault
  <2>2. WindowOK'
    BY <1>CommitRaises DEF WindowOK, InWindow, CommitRaises, Raises, Fault
  <2>3. DirOK' /\ Published' = Published
    BY <1>1, <1>CommitRaises, DirKept DEF CommitRaises, Raises, Fault
  <2>4. StopOK'
    BY <1>0, <1>1, <1>2, <1>3, <1>CommitRaises
    DEF StopOK, PhaseOK, RangesOK, CommitRaises, Raises, Fault, cursor
  <2>5. EndOK'
    BY <1>1, <1>2, <1>3, <1>CommitRaises, <2>3
    DEF EndOK, Confirmed, Left, Ends, PhaseOK, AtRest, CommitRaises, Raises, Fault, cursor, callback
  <2> QED
    BY <2>1, <2>2, <2>3, <2>4, <2>5 DEF CursorInv
<1>RoundsStopped. CASE RoundsStopped
  <2>1. RestOK'
    BY <1>1, <1>2, <1>RoundsStopped, RestKept
    DEF PhaseOK, AtRest, RoundsStopped, Raises, Fault, cursor
  <2>2. WindowOK'
    BY <1>RoundsStopped DEF WindowOK, InWindow, RoundsStopped, Raises, Fault
  <2>3. DirOK' /\ Published' = Published
    BY <1>1, <1>RoundsStopped, DirKept DEF RoundsStopped, Raises, Fault
  <2>4. StopOK'
    BY <1>0, <1>1, <1>2, <1>3, <1>RoundsStopped
    DEF StopOK, PhaseOK, RangesOK, RoundsStopped, Raises, Fault, cursor
  <2>5. EndOK'
    BY <1>1, <1>2, <1>3, <1>RoundsStopped, <2>3
    DEF EndOK, Confirmed, Left, Ends, PhaseOK, AtRest, RoundsStopped, Raises, Fault, cursor,
        callback
  <2> QED
    BY <2>1, <2>2, <2>3, <2>4, <2>5 DEF CursorInv
<1> QED
  BY <1>Signal, <1>Killed, <1>EpochBegins, <1>NextWindow, <1>Fetch, <1>FetchRaises,
      <1>CommitRaises, <1>RoundsStopped

\* Nothing that is on disk is lost or replaced, and what a save was confirmed for stays there.
Kept == \A n \in Published : n \in Published' /\ dir'[n] = dir[n]

\* A save, one that raises included, only adds to what is on disk.
LEMMA DirGrows ==
    ASSUME HistoryInv, RestOK, DirOK, Confirmed, config' = config,
           UNCHANGED <<weights, consumed, steps>>,
           \/ Save
           \/ UNCHANGED <<dir, callback>>
           \/ PublishRaises /\ UNCHANGED callback
    PROVE  DirOK' /\ Kept /\ Confirmed'
<1>0. safe \in BOOLEAN
  BY DEF HistoryInv, RangesOK, TypeOK
<1>1. CASE UNCHANGED <<dir, callback>>
  <2>1. DirOK' /\ Published' = Published
    BY <1>1, DirKept
  <2> QED
    BY <1>1, <2>1 DEF Kept, Confirmed, callback
<1>2. CASE PublishRaises /\ UNCHANGED callback
  <2>1. DirOK' /\ Kept
    BY <1>2, PublishWhole DEF PublishRaises, Saveable, Kept
  <2> QED
    BY <1>2, <2>1 DEF Kept, Confirmed, callback
<1>3. CASE Save /\ ~safe
  <2>1. UNCHANGED <<dir, callback>>
    BY <1>3 DEF Save, Saveable
  <2> QED
    <3>1. DirOK' /\ Published' = Published
      BY <2>1, DirKept
    <3> QED
      BY <2>1, <3>1 DEF Kept, Confirmed, callback
<1>4. CASE Save /\ safe
  <2>1. DirOK' /\ OnDisk' /\ Kept /\ lastStep' = steps /\ lastCursor' = consumed
    BY <1>4, SaveLeaves DEF Kept
  <2> QED
    BY <2>1 DEF Confirmed, OnDisk
<1> QED
  BY <1>0, <1>1, <1>2, <1>3, <1>4

\* What was left on disk stays there.
LEMMA LeftStays ==
    ASSUME Left, Kept, UNCHANGED <<weights, consumed>>
    PROVE  Left'
BY DEF Left, Kept

\* A process that goes down saves what is not on disk yet.
LEMMA SavedOrThere ==
    ASSUME HistoryInv, RestOK, DirOK, Confirmed, config' = config, safe,
           UNCHANGED <<weights, consumed, steps>>,
           Save \/ (~Unsaved /\ UNCHANGED dir)
    PROVE  Left'
<1>1. CASE Save
  <2>1. OnDisk'
    BY <1>1, SaveLeaves
  <2> QED
    BY <2>1 DEF OnDisk, Left
<1>2. CASE ~Unsaved /\ UNCHANGED dir
  <2>1. PICK n \in Published : dir[n].steps = steps /\ dir[n].consumed = consumed
    BY <1>2 DEF Unsaved, Changed, Confirmed
  <2>2. /\ config \in Configs /\ Proper(config, Content) /\ Whole(config, Content)
        /\ Proper(config, dir[n]) /\ Whole(config, dir[n])
    BY ConfigNow, ContentProper DEF RestOK, DirOK, HistoryInv, FilesOK
  <2>3. Content.steps = steps /\ Content.weights = weights
    BY DEF Content
  <2>4. dir[n].weights = Content.weights
    BY <2>1, <2>2, <2>3, SameSteps
  <2>5. Published' = Published
    BY <1>2, DirKept
  <2> QED
    BY <1>2, <2>1, <2>3, <2>4, <2>5 DEF Left
<1> QED
  BY <1>1, <1>2

\* A turn of the epoch.
LEMMA Turned ==
    ASSUME HistoryInv, RestOK, safe, epoch < NEpochs, Windows(config, offset) = <<>>
    PROVE  Whole(config, [weights |-> weights, epoch |-> epoch + 1, offset |-> 0,
                          consumed |-> consumed + (DatasetLen - offset)])
<1>0. /\ config \in Configs /\ epoch \in Nat /\ offset \in 0..config.len
      /\ DatasetLen = config.len /\ config.len \in Nat
  BY ConfigNow, ConfigFacts DEF HistoryInv, RangesOK, TypeOK, DatasetLen
<1>1. /\ weights \o UpdatesFrom(config, epoch, offset) = UpdatesFrom(config, 0, 0)
      /\ consumed = epoch * config.len + offset
  BY DEF RestOK, Whole, Content
<1>2. UpdatesFrom(config, epoch, offset) = UpdatesFrom(config, epoch + 1, 0)
  BY <1>0, UpdatesNext
<1>3. consumed + (config.len - offset) = (epoch + 1) * config.len + 0
  <2>1. (epoch + 1) * config.len = epoch * config.len + config.len /\ epoch * config.len \in Nat
    BY <1>0
  <2>2. PICK m \in Nat : m = epoch * config.len
    BY <2>1
  <2>3. consumed + (config.len - offset) = m + config.len
    BY <1>0, <1>1, <2>2
  <2>4. (epoch + 1) * config.len + 0 = m + config.len
    BY <1>0, <2>1, <2>2
  <2> QED
    BY <2>3, <2>4
<1>4. OnGrid(config, 0)
  BY <1>0, Origin
<1> QED
  BY <1>0, <1>1, <1>2, <1>3, <1>4 DEF Whole

\* The steps that commit, save, turn an epoch or take the process down.
LEMMA CursorStep2 ==
    ASSUME Spared, CursorInv, config' = config, HistoryInv',
           \/ NextEpoch \/ Commit \/ PublishedThenRaises \/ AfterStep \/ AfterStepRaises
           \/ EpochEnds \/ RoundsEnd \/ OnShutdown \/ OnTrainEnd
    PROVE  CursorInv'
<1>0. /\ config \in Configs /\ Mode' = Mode /\ DatasetLen' = DatasetLen
      /\ Mode \in {"window", "round"} /\ TailPolicy \in {"flush", "drop"}
      /\ Mode = "round" => TailPolicy = "flush" /\ UpdatesPerWindow = 1
      /\ TailPolicy = "drop" => "epoch_end" \notin Interruptions
      /\ DatasetLen \in Nat \ {0} /\ offset \in 0..DatasetLen
      /\ DatasetLen = config.len /\ TailPolicy = config.tail /\ NEpochs \in Nat
      /\ config.updates = UpdatesPerWindow
  BY ConfigNow DEF Mode, DatasetLen, TailPolicy, UpdatesPerWindow, Spared, Interruptions,
                   CursorInv, HistoryInv, RangesOK, TypeOK
<1>1. HistoryInv /\ RestOK /\ WindowOK /\ DirOK /\ StopOK /\ EndOK
  BY DEF CursorInv
<1>2. PhaseOK /\ RangesOK
  BY <1>1 DEF HistoryInv
<1>3. /\ {safe, stop, agreed, saved} \subseteq BOOLEAN /\ consumed \in Nat
      /\ epoch \in Nat /\ loop \in Nat
  BY <1>0, <1>2 DEF RangesOK, TypeOK
<1>a. CASE NextEpoch
  <2>1. RestOK'
    <3>1. CASE epoch' = epoch /\ offset' = offset
      BY <1>1, <1>2, <1>a, <3>1, RestKept DEF NextEpoch, PhaseOK, AtRest
    <3>2. CASE ~(epoch' = epoch /\ offset' = offset)
      <4>1. /\ epoch + 1 = loop /\ offset = DatasetLen /\ loop < NEpochs
            /\ epoch' = epoch + 1 /\ offset' = 0 /\ UNCHANGED <<weights, consumed>>
        <5>1. /\ pc = "loop" /\ ~(loop >= NEpochs \/ stop) /\ epoch' = loop
              /\ offset' = IF Mode = "window" /\ epoch < loop /\ offset = DatasetLen
                           THEN 0 ELSE offset
              /\ UNCHANGED <<weights, consumed>>
          BY <1>a, <3>2 DEF NextEpoch
        <5>2. epoch = loop \/ (Mode = "window" /\ epoch + 1 = loop /\ offset = DatasetLen)
          BY <1>1, <5>1 DEF StopOK
        <5>3. epoch # loop
          BY <1>3, <3>2, <5>1
        <5> QED
          BY <1>0, <1>3, <5>1, <5>2, <5>3
      <4>2. Windows(config, offset) = <<>> /\ epoch < NEpochs /\ safe
        <5>1. Windows(config, offset) = <<>>
          BY <1>0, <4>1, NoWindows
        <5> QED
          BY <1>0, <1>2, <1>3, <1>a, <4>1, <5>1 DEF NextEpoch, PhaseOK, AtRest
      <4>3. Whole(config, [weights |-> weights, epoch |-> epoch + 1, offset |-> 0,
                           consumed |-> consumed + (DatasetLen - offset)])
        BY <1>1, <4>2, Turned
      <4>4. consumed + (DatasetLen - offset) = consumed
        BY <1>0, <1>3, <4>1
      <4> QED
        BY <4>1, <4>3, <4>4 DEF RestOK, Whole, Content
    <3> QED
      BY <3>1, <3>2
  <2>2. WindowOK'
    BY <1>a DEF WindowOK, InWindow, NextEpoch
  <2>3. DirOK' /\ Published' = Published
    BY <1>1, <1>a, DirKept DEF NextEpoch
  <2>4. StopOK'
    BY <1>0, <1>1, <1>3, <1>a DEF StopOK, NextEpoch, Agreed
  <2>5. EndOK'
    BY <1>1, <1>2, <1>a, <2>3
    DEF EndOK, Ends, Confirmed, PhaseOK, AtRest, NextEpoch, callback
  <2> QED
    BY <2>1, <2>2, <2>3, <2>4, <2>5 DEF CursorInv
<1>b. CASE Commit
  <2>0. /\ pc = "update" /\ Advance /\ weights' = Append(weights, Update) /\ epoch' = epoch
        /\ update' = update /\ safe' = Final /\ pc' = "committed" /\ dir' = dir
        /\ UNCHANGED <<stop, agreed, callback, ended>>
    BY <1>b DEF Commit
  <2>a. /\ weights' \o (Todo(config, epoch, offset, update + 1)
                        \o UpdatesFrom(config, epoch, offset + Window.count)) = Schedule
        /\ ~Final => offset' = offset /\ consumed' = consumed
        /\ Final => Whole(config, [weights |-> weights', epoch |-> epoch, offset |-> offset',
                                   consumed |-> consumed'])
    BY <1>1, <2>0, CommitWhole
  <2>1. RestOK'
    BY <2>0, <2>a DEF RestOK, Whole, Content
  <2>2. WindowOK'
    <3>1. /\ consumed = epoch * DatasetLen + offset /\ OnGrid(config, offset)
      BY <1>1, <2>0 DEF WindowOK, InWindow
    <3> QED
      BY <1>0, <2>0, <2>a, <3>1 DEF WindowOK, InWindow, Window, Schedule
  <2>3. DirOK' /\ Published' = Published
    BY <1>1, <2>0, DirKept
  <2>4. StopOK'
    BY <1>0, <1>1, <2>0 DEF StopOK
  <2>5. EndOK'
    BY <1>1, <2>0, <2>3 DEF EndOK, Ends, Confirmed, callback
  <2> QED
    BY <2>1, <2>2, <2>3, <2>4, <2>5 DEF CursorInv
<1>c. CASE PublishedThenRaises
  <2>0. /\ pc = "update" /\ Advance /\ weights' = Append(weights, Update) /\ epoch' = epoch
        /\ pc' = "shutdown" /\ dir' = dir /\ ended' = "failed"
        /\ UNCHANGED <<stop, agreed, callback>> /\ Mode = "round"
    BY <1>c DEF PublishedThenRaises, Raises
  <2>a. Final
    BY <1>0, <1>2, <2>0 DEF Final, RangesOK, TypeOK
  <2>b. Whole(config, [weights |-> weights', epoch |-> epoch, offset |-> offset',
                       consumed |-> consumed'])
    BY <1>1, <2>0, <2>a, CommitWhole
  <2>1. RestOK'
    BY <2>0, <2>b DEF RestOK, Whole, Content
  <2>2. WindowOK'
    BY <2>0 DEF WindowOK, InWindow
  <2>3. DirOK' /\ Published' = Published
    BY <1>1, <2>0, DirKept
  <2>4. StopOK'
    BY <1>0, <1>1, <2>0 DEF StopOK
  <2>5. EndOK'
    BY <1>1, <2>0, <2>3 DEF EndOK, Ends, Confirmed, callback
  <2> QED
    BY <2>1, <2>2, <2>3, <2>4, <2>5 DEF CursorInv
<1>d. CASE AfterStep
  <2>0. /\ UNCHANGED <<weights, epoch, offset, consumed, steps, safe, stop, ended>>
        /\ pc = "committed" /\ pc' = IF Final THEN "next" ELSE "update"
        /\ update' = IF Final THEN 1 ELSE update + 1
        /\ agreed' = IF Final THEN Agreed ELSE agreed
        /\ Save \/ UNCHANGED <<dir, callback>>
        /\ safe <=> Final
    BY <1>2, <1>d DEF AfterStep, cursor, PhaseOK
  <2>1. RestOK'
    BY <1>1, <2>0, RestKept
  <2>2. WindowOK'
    <3>1. CASE Final
      BY <2>0, <3>1 DEF WindowOK, InWindow
    <3>2. CASE ~Final
      <4>1. InWindow /\ pc' = "update" /\ update' = update + 1
        BY <2>0, <3>2 DEF InWindow
      <4> QED
        BY <1>0, <1>1, <2>0, <4>1 DEF WindowOK, Window, Schedule
    <3> QED
      BY <3>1, <3>2
  <2>3. DirOK' /\ Confirmed'
    BY <1>1, <2>0, DirGrows DEF EndOK
  <2>4. StopOK'
    BY <1>0, <1>1, <1>3, <2>0 DEF StopOK, Agreed
  <2>5. EndOK'
    BY <2>0, <2>3 DEF EndOK
  <2> QED
    BY <2>1, <2>2, <2>3, <2>4, <2>5 DEF CursorInv
<1>e. CASE AfterStepRaises
  <2>0. /\ UNCHANGED <<weights, epoch, offset, consumed, steps, safe, stop, agreed, callback>>
        /\ pc' = "shutdown" /\ ended' = "failed"
        /\ PublishRaises \/ UNCHANGED dir
    BY <1>e DEF AfterStepRaises, cursor
  <2>1. RestOK'
    BY <1>1, <2>0, RestKept
  <2>2. WindowOK'
    BY <2>0 DEF WindowOK, InWindow
  <2>3. DirOK' /\ Confirmed'
    BY <1>1, <2>0, DirGrows DEF EndOK
  <2>4. StopOK'
    BY <1>0, <1>1, <2>0 DEF StopOK
  <2>5. EndOK'
    BY <2>0, <2>3 DEF EndOK, Ends
  <2> QED
    BY <2>1, <2>2, <2>3, <2>4, <2>5 DEF CursorInv
<1>f. CASE EpochEnds
  <2>0. /\ pc = "epochEnd" /\ Mode = "window" /\ consumed' = consumed + Dropped
        /\ offset' = IF Dropped > 0 THEN 0 ELSE offset
        /\ UNCHANGED <<weights, safe, dir, stop, agreed, callback>>
        /\ safe /\ epoch = loop /\ epoch < NEpochs
        /\ agreed \/ Windows(config, offset) = <<>>
    BY <1>1, <1>2, <1>f
    DEF EpochEnds, Raises, PhaseOK, AtRest, RangesOK, InEpoch, StopOK
  <2>a. CASE Dropped > 0
    <3>1. ~agreed /\ TailPolicy = "drop" /\ Dropped = DatasetLen - offset
      BY <1>0, <2>a DEF Dropped
    <3>2. /\ epoch' = epoch + 1 /\ loop' = epoch + 1 /\ pc' = "loop" /\ ended' = ended
      BY <1>0, <1>f, <2>0, <2>a, <3>1 DEF EpochEnds
    <3>3. Whole(config, [weights |-> weights, epoch |-> epoch + 1, offset |-> 0,
                         consumed |-> consumed + (DatasetLen - offset)])
      BY <1>1, <2>0, <3>1, Turned
    <3>4. RestOK'
      BY <2>0, <2>a, <3>1, <3>2, <3>3 DEF RestOK, Whole, Content
    <3>5. DirOK' /\ Published' = Published
      BY <1>1, <2>0, DirKept
    <3>6. WindowOK' /\ StopOK'
      BY <1>0, <1>1, <2>0, <3>2 DEF WindowOK, InWindow, StopOK
    <3>7. EndOK'
      BY <1>1, <2>0, <3>2, <3>5 DEF EndOK, Confirmed, callback
    <3> QED
      BY <3>4, <3>5, <3>6, <3>7 DEF CursorInv
  <2>b. CASE ~(Dropped > 0)
    <3>1. Dropped = 0 /\ (~agreed => offset = DatasetLen)
      <4>1. ~agreed /\ TailPolicy = "flush" => offset = DatasetLen
        BY <1>0, <2>0, NoWindows
      <4> QED
        BY <1>0, <2>b, <4>1 DEF Dropped
    <3>2. /\ UNCHANGED <<offset, consumed, epoch>>
          /\ \/ pc' = "loop" /\ loop' = loop + 1 /\ ended' = ended
             \/ pc' = "shutdown" /\ ended' = "failed"
      <4>1. consumed' = consumed /\ offset' = offset
        BY <1>3, <2>0, <3>1
      <4>2. epoch' = epoch
        BY <1>f, <3>1 DEF EpochEnds
      <4>3. \/ pc' = "loop" /\ loop' = loop + 1 /\ ended' = ended
            \/ pc' = "shutdown" /\ ended' = "failed"
        BY <1>f DEF EpochEnds, Raises
      <4> QED
        BY <4>1, <4>2, <4>3
    <3>3. RestOK'
      BY <1>1, <2>0, <3>2, RestKept
    <3>4. DirOK' /\ Published' = Published
      BY <1>1, <2>0, DirKept
    <3>5. WindowOK'
      BY <3>2 DEF WindowOK, InWindow
    <3>6. StopOK'
      <4>1. agreed => stop
        BY <1>1, <2>0 DEF StopOK
      <4>2. pc' = "loop" /\ ~stop' => epoch' + 1 = loop' /\ offset' = DatasetLen'
        BY <1>0, <2>0, <3>1, <3>2, <4>1
      <4> QED
        BY <1>0, <2>0, <3>2, <4>1, <4>2 DEF StopOK
    <3>7. EndOK'
      BY <1>1, <2>0, <3>2, <3>4 DEF EndOK, Ends, Confirmed, callback
    <3> QED
      BY <3>3, <3>4, <3>5, <3>6, <3>7 DEF CursorInv
  <2> QED
    BY <2>a, <2>b
<1>g. CASE RoundsEnd
  <2>0. /\ UNCHANGED <<weights, consumed, safe, dir, stop, agreed, callback>>
        /\ pc = "roundsEnd" /\ safe /\ epoch = loop /\ epoch < NEpochs
        /\ Mode = "round" /\ Windows(config, offset) = <<>>
        /\ \/ /\ pc' = "loop" /\ offset' = 0 /\ epoch' = loop + 1 /\ loop' = loop + 1
              /\ ended' = ended
           \/ pc' = "shutdown" /\ ended' = "failed" /\ UNCHANGED <<offset, epoch>>
    BY <1>1, <1>2, <1>g
    DEF RoundsEnd, Raises, PhaseOK, AtRest, RangesOK, InEpoch, StopOK
  <2>1. RestOK'
    <3>1. CASE UNCHANGED <<offset, epoch>>
      BY <1>1, <2>0, <3>1, RestKept
    <3>2. CASE offset' = 0 /\ epoch' = epoch + 1
      <4>1. Whole(config, [weights |-> weights, epoch |-> epoch + 1, offset |-> 0,
                           consumed |-> consumed + (DatasetLen - offset)])
        BY <1>1, <2>0, Turned
      <4>2. offset = DatasetLen
        BY <1>0, <2>0, NoWindows
      <4>3. consumed + (DatasetLen - offset) = consumed
        BY <1>0, <1>3, <4>2
      <4> QED
        BY <2>0, <3>2, <4>1, <4>3 DEF RestOK, Whole, Content
    <3> QED
      BY <2>0, <3>1, <3>2
  <2>2. WindowOK' /\ StopOK'
    BY <1>0, <1>1, <2>0 DEF WindowOK, InWindow, StopOK
  <2>3. DirOK' /\ Published' = Published
    BY <1>1, <2>0, DirKept
  <2>4. EndOK'
    BY <1>1, <2>0, <2>3 DEF EndOK, Ends, Confirmed, callback
  <2> QED
    BY <2>1, <2>2, <2>3, <2>4 DEF CursorInv
<1>h. CASE OnShutdown \/ OnTrainEnd
  <2>0. /\ UNCHANGED <<weights, epoch, offset, consumed, steps, safe, stop, agreed>>
        /\ \/ pc = "shutdown" /\ pc' = "finish" /\ (Save \/ (~Unsaved /\ UNCHANGED dir)
                                                    \/ ended' = "failed")
           \/ pc = "finish" /\ pc' = "dead"
        /\ \/ Save /\ ended' = ended
           \/ UNCHANGED <<dir, callback>> /\ ended' \in {ended, "failed"}
           \/ PublishRaises /\ UNCHANGED callback /\ ended' = "failed"
    BY <1>h DEF OnShutdown, OnTrainEnd, SaveOrFail, SkipSave, cursor
  <2>1. RestOK'
    BY <1>1, <2>0, RestKept
  <2>2. WindowOK' /\ StopOK'
    BY <1>0, <1>1, <2>0 DEF WindowOK, InWindow, StopOK
  <2>3. DirOK' /\ Kept /\ Confirmed'
    BY <1>1, <2>0, DirGrows DEF EndOK
  <2>4. Ends' => Left'
    <3> SUFFICES ASSUME Ends' PROVE Left'
      OBVIOUS
    <3>1. Ends /\ ended' # "failed"
      BY <2>0 DEF Ends
    <3>2. CASE pc = "shutdown"
      BY <1>1, <2>0, <3>1, <3>2, SavedOrThere DEF EndOK
    <3>3. CASE pc = "finish"
      BY <1>1, <2>0, <2>3, <3>1, <3>3, LeftStays DEF EndOK
    <3> QED
      BY <2>0, <3>2, <3>3
  <2>5. EndOK'
    BY <2>0, <2>3, <2>4 DEF EndOK
  <2> QED
    BY <2>1, <2>2, <2>3, <2>5 DEF CursorInv
<1> QED
  BY <1>a, <1>b, <1>c, <1>d, <1>e, <1>f, <1>g, <1>h

\* A process begins whole: from nothing, or from a checkpoint that is.
LEMMA BeginWhole ==
    ASSUME CursorInv, config' = config, NEW s, Proper(config, s), Whole(config, s), Begin(s)
    PROVE  RestOK' /\ WindowOK' /\ DirOK' /\ StopOK' /\ EndOK'
<1>0. HistoryInv /\ DirOK
  BY DEF CursorInv
<1>1. /\ pc' = "loop" /\ loop' = epoch' /\ epoch' = Built(s).epoch /\ offset' = Built(s).offset
      /\ consumed' = s.consumed /\ weights' = s.weights
      /\ safe' = TRUE /\ stop' = FALSE /\ agreed' = FALSE /\ saved' = FALSE
      /\ ended' = "running" /\ dir' = dir
  BY DEF Begin
<1>2. /\ s.weights \o UpdatesFrom(config, Built(s).epoch, Built(s).offset) = Schedule
      /\ s.consumed = Built(s).epoch * DatasetLen + Built(s).offset
      /\ OnGrid(config, Built(s).offset)
  BY <1>0, BuiltWhole
<1>3. RestOK'
  BY <1>1, <1>2 DEF RestOK, Whole, Content, Schedule, DatasetLen
<1>4. DirOK'
  BY <1>0, <1>1, DirKept
<1>5. WindowOK' /\ StopOK' /\ EndOK'
  BY <1>1 DEF WindowOK, InWindow, StopOK, EndOK, Ends, Confirmed
<1> QED
  BY <1>3, <1>4, <1>5

\* The cursor is whole before the first run.
LEMMA CursorInit ==
    ASSUME Init
    PROVE  CursorInv
<1>1. HistoryInv
  BY HistoryInit
<1>2. config \in Configs
  BY DEF Init
<1>3. RestOK
  <2>1. Whole(config, Fresh)
    BY <1>2, Origin
  <2> QED
    BY <2>1 DEF Init, RestOK, Whole, Content, Fresh
<1>4. WindowOK /\ StopOK
  BY DEF Init, WindowOK, InWindow, StopOK
<1>5. DirOK
  <2>1. \A n \in Names : dir[n] = None
    BY DEF Init
  <2> QED
    BY <2>1 DEF DirOK, Published
<1>6. EndOK
  BY DEF Init, EndOK, Ends, Confirmed
<1> QED
  BY <1>1, <1>3, <1>4, <1>5, <1>6 DEF CursorInv

\* Every step keeps the invariant.
LEMMA CursorNext ==
    ASSUME Spared, CursorInv, [Next]_vars
    PROVE  CursorInv'
<1>0. HistoryInv /\ HistoryInv'
  BY HistoryNext DEF CursorInv
<1>1. CASE UNCHANGED vars
  <2>1. /\ UNCHANGED <<config, pc, update, epoch, offset, consumed, steps, safe, stop, agreed>>
        /\ UNCHANGED <<loop, log, records, lastStep, lastCursor, saved, weights, ended, dir>>
    BY <1>1 DEF vars, cursor, history, callback
  <2>2. RestOK /\ WindowOK /\ DirOK /\ StopOK /\ EndOK
    BY DEF CursorInv
  <2>3. RestOK'
    BY <2>1, <2>2, RestKept
  <2>4. WindowOK'
    BY <2>1, <2>2 DEF WindowOK, InWindow, Window, Schedule, DatasetLen
  <2>5. DirOK' /\ Published' = Published
    BY <2>1, <2>2, DirKept
  <2>6. StopOK'
    BY <2>1, <2>2 DEF StopOK, Mode, DatasetLen
  <2>7. EndOK'
    BY <2>1, <2>2, <2>5 DEF EndOK, Ends, Confirmed, Left
  <2> QED
    BY <1>0, <2>3, <2>4, <2>5, <2>6, <2>7 DEF CursorInv
<1>2. CASE Next
  <2>0. config' = config /\ config \in Configs
    BY <1>0, <1>2, ConfigNow DEF Next
  <2>1. ASSUME StartFresh PROVE CursorInv'
    <3>1. Begin(Fresh)
      BY <2>1 DEF StartFresh, Fresh
    <3>2. Proper(config, Fresh) /\ Whole(config, Fresh)
      BY <2>0, FreshIsProper, Origin
    <3> QED
      BY <1>0, <2>0, <3>1, <3>2, BeginWhole DEF CursorInv
  <2>2. ASSUME Resume PROVE CursorInv'
    <3>1. PICK n \in Selectable : Begin(dir[n])
      BY <2>2 DEF Resume
    <3>2. Proper(config, dir[n]) /\ Whole(config, dir[n])
      BY <1>0, <3>1 DEF Selectable, HistoryInv, FilesOK, CursorInv, DirOK
    <3> QED
      BY <1>0, <2>0, <3>1, <3>2, BeginWhole DEF CursorInv
  <2> QED
    BY <1>0, <1>2, <2>0, <2>1, <2>2, CursorStep1, CursorStep2
    DEF Next, RunStep, FaultStep, Restart
<1> QED
  BY <1>1, <1>2

\* The invariant is stronger than the property.
LEMMA CursorImplies ==
    ASSUME CursorInv
    PROVE  CursorIsWhole
<1>0. HistoryInv /\ DirOK /\ EndOK
  BY DEF CursorInv
<1>1. TypeOK
  BY <1>0 DEF HistoryInv, RangesOK
<1>2. ASSUME NEW n \in Published
      PROVE  /\ dir[n].metrics = [i \in 1..dir[n].steps |-> i]
             /\ dir[n].steps = Len(dir[n].weights)
             /\ dir[n].weights \o UpdatesFrom(config, dir[n].epoch, dir[n].offset) = Schedule
             /\ dir[n].consumed = dir[n].epoch * DatasetLen + dir[n].offset
  BY <1>0 DEF HistoryInv, FilesOK, Proper, Counted, DirOK, Whole, Schedule, DatasetLen
<1>3. CheckpointCoherent
  BY <1>2 DEF CheckpointCoherent
<1>4. MetricsCoherent
  BY <1>2 DEF MetricsCoherent
<1>5. ResumeAfterCursor
  BY <1>2 DEF ResumeAfterCursor
<1>6. StopLeavesCheckpoint
  BY <1>0 DEF EndOK, Ends, Left, StopLeavesCheckpoint
<1> QED
  BY <1>1, <1>3, <1>4, <1>5, <1>6 DEF CursorIsWhole

\* Where the two places of Spared are not hit: every checkpoint published and the updates a
\* run resumed from it trains are the whole schedule, none twice and none missing, its cursor
\* agrees with its position, and a clean end leaves a checkpoint of its very weights.
THEOREM CursorStaysWhole ==
    Spared => (Spec => []CursorIsWhole)
<1> SUFFICES ASSUME Spared PROVE Spec => []CursorIsWhole
  OBVIOUS
<1>1. Init => CursorInv
  BY CursorInit
<1>2. CursorInv /\ [Next]_vars => CursorInv'
  BY CursorNext
<1>3. CursorInv => CursorIsWhole
  BY CursorImplies
<1> QED
  BY <1>1, <1>2, <1>3, PTL DEF Spec
=============================================================================
