---------------------------- MODULE KVCacheProofs ----------------------------
(***************************************************************************)
(* Proofs about KVCache for every pool, page size, set of requests and     *)
(* prompts.  IInv is the inductive invariant: the safety properties of     *)
(* KVCache, which are not inductive on their own, with what a request's    *)
(* counters promise (Shape), that no request holds a page twice            *)
(* (HeldOnce), that an indexed page somebody holds is indexed under that   *)
(* holder's own prefix (IndexedHeldAgree), and that a publication never    *)
(* runs ahead of what was materialized (PublishingOK).                     *)
(***************************************************************************)
EXTENDS KVCache, SequenceTheorems, FiniteSetTheorems, TLAPS

-----------------------------------------------------------------------------
(* The inductive invariant. *)

\* An idle request has nothing; a live one has room for every position it
\* reserved, and never has more KV than reserved positions or tokens.
Shape ==
    \A r \in Requests :
        /\ status[r] = "idle" =>
            /\ held[r] = <<>> /\ tokens[r] = <<>>
            /\ hit[r] = 0 /\ promptLen[r] = 0 /\ length[r] = 0 /\ done[r] = 0
        /\ status[r] # "idle" =>
            /\ promptLen[r] \in 1..Len(tokens[r])
            /\ promptLen[r] <= length[r]
            /\ hit[r] <= promptLen[r]
            /\ done[r] <= length[r]
            /\ done[r] <= Len(tokens[r])
            /\ length[r] <= Len(held[r]) * PageSize

\* A request holds a page once.
HeldOnce ==
    \A r \in Requests : \A i, j \in 1..Len(held[r]) :
        held[r][i] = held[r][j] => i = j

\* An indexed page that a request holds is indexed under the request's prefix.
IndexedHeldAgree ==
    \A r \in Requests : \A i \in 1..Len(held[r]) :
        node[held[r][i]] # <<>> =>
            /\ i * PageSize <= Len(tokens[r])
            /\ node[held[r][i]] = Upto(tokens[r], i)

\* ReadsOwnPrefix page by page: slot o of a request's i-th page holds the KV of
\* its position (i - 1) * PageSize + o - 1 once that is materialized or hit.
Position(i, o) == (i - 1) * PageSize + o - 1

PagesMatch ==
    \A r \in Requests : \A i \in 1..Len(held[r]), o \in 1..PageSize :
        Position(i, o) < Larger(done[r], hit[r]) =>
            kv[held[r][i]][o] = Value(weights, tokens[r], Position(i, o))

\* A publication in progress is of a live request and of materialized pages;
\* only a finished request is published for its release.
PublishingOK ==
    publishing # None =>
        /\ status[publishing.req] # "idle"
        /\ publishing.page >= 1
        /\ publishing.last * PageSize <= done[publishing.req]
        /\ publishing.release => status[publishing.req] = "finished"

\* The inductive invariant.
IInv ==
    /\ TypeOK
    /\ Shape
    /\ HeldOnce
    /\ PageOwnership
    /\ IndexIsTrie
    /\ IndexedPagesMatch
    /\ PagesMatch
    /\ SharedPagesAgree
    /\ IndexedHeldAgree
    /\ PublishingOK

-----------------------------------------------------------------------------
(* Pages and positions. *)

\* Position n is slot n % PageSize of page n \div PageSize.
LEMMA PositionSplit ==
    ASSUME NEW n \in Nat
    PROVE  /\ n \div PageSize \in Nat
           /\ n % PageSize \in 0..(PageSize - 1)
           /\ n = (n \div PageSize) * PageSize + (n % PageSize)
BY PageSizeAssumption

\* A later page ends at least one page later.
LEMMA PagesMonotone ==
    ASSUME NEW a \in Nat, NEW b \in Nat, a < b
    PROVE  a * PageSize + PageSize <= b * PageSize
BY PageSizeAssumption

\* The multiples of the page size are natural numbers, in order.
LEMMA PagesWeaklyMonotone ==
    ASSUME NEW a \in Nat, NEW b \in Nat, a <= b
    PROVE  /\ a * PageSize \in Nat
           /\ a * PageSize <= b * PageSize
           /\ a <= a * PageSize
BY PageSizeAssumption

\* Pages hold a natural number of tokens.
LEMMA PagesNat == \A a \in Nat : a * PageSize \in Nat
BY PageSizeAssumption

\* A position below m pages lies in one of the first m pages.
LEMMA PositionBelow ==
    ASSUME NEW n \in Nat, NEW m \in Nat, n < m * PageSize
    PROVE  n \div PageSize < m
<1>1. /\ n \div PageSize \in Nat
      /\ n % PageSize \in 0..(PageSize - 1)
      /\ n = (n \div PageSize) * PageSize + (n % PageSize)
  BY PositionSplit
<1>2. SUFFICES ASSUME m <= n \div PageSize PROVE FALSE
  BY <1>1
<1>3. m * PageSize <= (n \div PageSize) * PageSize
  BY <1>1, <1>2, PagesWeaklyMonotone
<1>4. QED
  BY <1>1, <1>2, <1>3, PagesWeaklyMonotone, PageSizeAssumption

\* Slot b of page a is position a * PageSize + b.
LEMMA PositionJoin ==
    ASSUME NEW a \in Nat, NEW b \in 0..(PageSize - 1)
    PROVE  /\ a * PageSize + b \in Nat
           /\ (a * PageSize + b) \div PageSize = a
           /\ (a * PageSize + b) % PageSize = b
           /\ a * PageSize + b < (a + 1) * PageSize
BY PageSizeAssumption

\* m pages are the m-th multiple of the page size.
LEMMA PageMultiple ==
    ASSUME NEW m \in Nat
    PROVE  (m * PageSize) % PageSize = 0 /\ (m * PageSize) \div PageSize = m
BY PageSizeAssumption

\* PagesFor(n) pages hold n tokens and at least the full pages among them.
LEMMA PagesForEnough ==
    ASSUME NEW n \in Nat
    PROVE  /\ PagesFor(n) \in Nat
           /\ n <= PagesFor(n) * PageSize
           /\ n \div PageSize <= PagesFor(n)
<1>1. n + PageSize - 1 \in Nat
  BY PageSizeAssumption
<1>2. /\ PagesFor(n) \in Nat
      /\ n + PageSize - 1 = PagesFor(n) * PageSize + ((n + PageSize - 1) % PageSize)
      /\ (n + PageSize - 1) % PageSize \in 0..(PageSize - 1)
  BY <1>1, PositionSplit, Zenon DEF PagesFor
<1>3. n <= PagesFor(n) * PageSize
  BY <1>2, PagesWeaklyMonotone, PageSizeAssumption
<1>4. n \div PageSize <= PagesFor(n)
  <2>1. /\ n \div PageSize \in Nat
        /\ (n \div PageSize) * PageSize <= n
    BY PositionSplit, PagesWeaklyMonotone, PageSizeAssumption
  <2>2. SUFFICES ASSUME PagesFor(n) < n \div PageSize PROVE FALSE
    BY <1>2, <2>1
  <2>3. PagesFor(n) * PageSize + PageSize <= (n \div PageSize) * PageSize
    BY <1>2, <2>1, <2>2, PagesMonotone
  <2>4. QED
    BY <1>2, <1>3, <2>1, <2>3, PagesWeaklyMonotone, PageSizeAssumption
<1>5. QED
  BY <1>2, <1>3, <1>4
-----------------------------------------------------------------------------
(* Token prefixes. *)

\* A prefix of a token sequence has the length asked for.
LEMMA PrefixFacts ==
    ASSUME NEW ts \in Seq(Tokens), NEW n \in 0..Len(ts)
    PROVE  /\ SubSeq(ts, 1, n) \in Seq(Tokens)
           /\ Len(SubSeq(ts, 1, n)) = n
           /\ \A i \in 1..n : SubSeq(ts, 1, n)[i] = ts[i]
<1>1. \A i \in 1..n : ts[i] \in Tokens
  BY ElementOfSeq, LenProperties
<1>2. QED
  BY <1>1, LenProperties, SubSeqProperties

\* A prefix of a prefix is a prefix.
LEMMA PrefixOfPrefix ==
    ASSUME NEW ts \in Seq(Tokens), NEW n \in 0..Len(ts), NEW m \in 0..n
    PROVE  SubSeq(SubSeq(ts, 1, n), 1, m) = SubSeq(ts, 1, m)
<1>1. m \in 0..Len(ts) /\ n \in Nat
  BY LenProperties
<1>2. /\ SubSeq(ts, 1, n) \in Seq(Tokens)
      /\ Len(SubSeq(ts, 1, n)) = n
      /\ \A i \in 1..n : SubSeq(ts, 1, n)[i] = ts[i]
  BY PrefixFacts
<1>3. /\ SubSeq(SubSeq(ts, 1, n), 1, m) \in Seq(Tokens)
      /\ Len(SubSeq(SubSeq(ts, 1, n), 1, m)) = m
      /\ \A i \in 1..m : SubSeq(SubSeq(ts, 1, n), 1, m)[i] = SubSeq(ts, 1, n)[i]
  BY <1>2, PrefixFacts
<1>4. /\ SubSeq(ts, 1, m) \in Seq(Tokens)
      /\ Len(SubSeq(ts, 1, m)) = m
      /\ \A i \in 1..m : SubSeq(ts, 1, m)[i] = ts[i]
  BY <1>1, PrefixFacts
<1>5. \A i \in 1..m : SubSeq(SubSeq(ts, 1, n), 1, m)[i] = SubSeq(ts, 1, m)[i]
  BY <1>1, <1>2, <1>3, <1>4
<1>6. QED
  BY <1>3, <1>4, <1>5, SeqEqual

\* Appending a token leaves the prefixes there were as they are.
LEMMA PrefixOfAppend ==
    ASSUME NEW ts \in Seq(Tokens), NEW t \in Tokens, NEW n \in 0..Len(ts)
    PROVE  SubSeq(Append(ts, t), 1, n) = SubSeq(ts, 1, n)
<1>1. /\ Append(ts, t) \in Seq(Tokens)
      /\ Len(Append(ts, t)) = Len(ts) + 1
      /\ \A i \in 1..Len(ts) : Append(ts, t)[i] = ts[i]
  BY AppendProperties, LenProperties
<1>2. n \in 0..Len(Append(ts, t)) /\ Len(ts) \in Nat
  BY <1>1, LenProperties
<1>3. /\ SubSeq(Append(ts, t), 1, n) \in Seq(Tokens)
      /\ Len(SubSeq(Append(ts, t), 1, n)) = n
      /\ \A i \in 1..n : SubSeq(Append(ts, t), 1, n)[i] = Append(ts, t)[i]
  BY <1>1, <1>2, PrefixFacts
<1>4. /\ SubSeq(ts, 1, n) \in Seq(Tokens)
      /\ Len(SubSeq(ts, 1, n)) = n
      /\ \A i \in 1..n : SubSeq(ts, 1, n)[i] = ts[i]
  BY PrefixFacts
<1>5. \A i \in 1..n : SubSeq(Append(ts, t), 1, n)[i] = SubSeq(ts, 1, n)[i]
  BY <1>1, <1>2, <1>3, <1>4
<1>6. QED
  BY <1>3, <1>4, <1>5, SeqEqual

\* The node of a token sequence's first i pages.
LEMMA UptoFacts ==
    ASSUME NEW ts \in Seq(Tokens), NEW i \in Nat, i * PageSize <= Len(ts)
    PROVE  /\ Upto(ts, i) \in Seq(Tokens)
           /\ Len(Upto(ts, i)) = i * PageSize
           /\ i >= 1 => Upto(ts, i) # <<>>
           /\ \A n \in 0..(i * PageSize) :
                SubSeq(Upto(ts, i), 1, n) = SubSeq(ts, 1, n)
<1>1. i * PageSize \in 0..Len(ts)
  BY PagesWeaklyMonotone, LenProperties
<1>2. Upto(ts, i) \in Seq(Tokens) /\ Len(Upto(ts, i)) = i * PageSize
  BY <1>1, PrefixFacts DEF Upto
<1>3. i >= 1 => i * PageSize >= 1
  BY PagesWeaklyMonotone
<1>4. \A n \in 0..(i * PageSize) : SubSeq(Upto(ts, i), 1, n) = SubSeq(ts, 1, n)
  BY <1>1, PrefixOfPrefix DEF Upto
<1>5. QED
  BY <1>2, <1>3, <1>4, EmptySeq

\* Below is transitive.
LEMMA BelowTransitive ==
    ASSUME NEW x \in Seq(Tokens), NEW y \in Seq(Tokens), NEW z \in Seq(Tokens),
           Below(x, y), Below(y, z)
    PROVE  Below(x, z)
<1>1. Len(x) \in Nat /\ Len(y) \in Nat /\ Len(z) \in Nat
  BY LenProperties
<1>2. SubSeq(SubSeq(x, 1, Len(y)), 1, Len(z)) = SubSeq(x, 1, Len(z))
  BY <1>1, PrefixOfPrefix DEF Below
<1>3. QED
  BY <1>1, <1>2 DEF Below

\* A path is below itself and below its parent.
LEMMA BelowParent ==
    ASSUME NEW x \in Seq(Tokens), NEW n \in 0..Len(x)
    PROVE  Below(x, x) /\ Below(x, SubSeq(x, 1, n))
<1>1. SubSeq(x, 1, Len(x)) = x /\ Len(x) \in Nat
  BY SubSeqFull, LenProperties
<1>2. Len(SubSeq(x, 1, n)) = n
  BY PrefixFacts
<1>3. QED
  BY <1>1, <1>2 DEF Below
-----------------------------------------------------------------------------
(* Who holds a page. *)

\* The holders of a page are counted by its reference count.
LEMMA HoldersCounted ==
    ASSUME TypeOK, PageOwnership, NEW p \in Pages
    PROVE  /\ IsFiniteSet(Holders(p))
           /\ refs[p] = Cardinality(Holders(p))
           /\ refs[p] = 0 <=> Holders(p) = {}
<1>1. Holders(p) \in SUBSET Requests
  BY DEF Holders
<1>2. IsFiniteSet(Holders(p))
  BY <1>1, FS_Subset, RequestsAssumption
<1>3. refs[p] = Cardinality(Holders(p))
  BY DEF PageOwnership
<1>4. QED
  BY <1>2, <1>3, FS_EmptySet

\* A page some request holds is referenced, so it is neither free nor cached,
\* and the request is not idle.
LEMMA HeldIsReferenced ==
    ASSUME TypeOK, Shape, PageOwnership,
           NEW r \in Requests, NEW i \in 1..Len(held[r])
    PROVE  /\ held[r][i] \in Pages
           /\ refs[held[r][i]] # 0
           /\ held[r][i] \notin free
           /\ held[r][i] \notin cached
           /\ status[r] # "idle"
<1>1. held[r] \in Seq(Pages)
  BY DEF TypeOK
<1>2. held[r][i] \in Pages /\ DOMAIN held[r] = 1..Len(held[r])
  BY <1>1, ElementOfSeq, LenProperties
<1>3. r \in Holders(held[r][i])
  BY <1>2 DEF Holders, Elements
<1>4. refs[held[r][i]] # 0
  BY <1>2, <1>3, HoldersCounted
<1>5. held[r] # <<>>
  BY EmptySeq
<1>6. QED
  BY <1>2, <1>4, <1>5 DEF PageOwnership, Shape

\* An unreferenced page is no request's.
LEMMA UnreferencedIsNotHeld ==
    ASSUME TypeOK, PageOwnership, NEW p \in Pages, refs[p] = 0,
           NEW r \in Requests, NEW i \in 1..Len(held[r])
    PROVE  held[r][i] # p
<1>1. held[r] \in Seq(Pages) /\ DOMAIN held[r] = 1..Len(held[r])
  BY LenProperties DEF TypeOK
<1>2. Holders(p) = {}
  BY HoldersCounted
<1>3. QED
  BY <1>1, <1>2 DEF Holders, Elements

-----------------------------------------------------------------------------
(* Slots and positions. *)

\* Page i, slot o is position Position(i, o), and no other.
LEMMA SlotPosition ==
    ASSUME NEW i \in Nat \ {0}, NEW o \in 1..PageSize
    PROVE  /\ Position(i, o) \in Nat
           /\ Position(i, o) \div PageSize + 1 = i
           /\ (Position(i, o) % PageSize) + 1 = o
           /\ Position(i, o) < i * PageSize
           /\ Position(i, o) + 1 \in 0..(i * PageSize)
<1>1. i - 1 \in Nat /\ o - 1 \in 0..(PageSize - 1)
  BY PageSizeAssumption
<1>2. Position(i, o) = (i - 1) * PageSize + (o - 1)
  BY <1>1, PagesWeaklyMonotone, PageSizeAssumption DEF Position
<1>3. /\ (i - 1) * PageSize + (o - 1) \in Nat
      /\ ((i - 1) * PageSize + (o - 1)) \div PageSize = i - 1
      /\ ((i - 1) * PageSize + (o - 1)) % PageSize = o - 1
      /\ (i - 1) * PageSize + (o - 1) < ((i - 1) + 1) * PageSize
  BY <1>1, PositionJoin, Zenon
<1>4. (i - 1) + 1 = i
  BY <1>1
<1>5. QED
  BY <1>1, <1>2, <1>3, <1>4, PagesNat, PageSizeAssumption

\* Position q is in slot q % PageSize + 1 of page q \div PageSize + 1.
LEMMA PositionSlot ==
    ASSUME NEW q \in Nat, NEW m \in Nat, q < m * PageSize
    PROVE  /\ q \div PageSize + 1 \in 1..m
           /\ (q % PageSize) + 1 \in 1..PageSize
           /\ Position(q \div PageSize + 1, (q % PageSize) + 1) = q
<1>1. /\ q \div PageSize \in Nat
      /\ q % PageSize \in 0..(PageSize - 1)
      /\ q = (q \div PageSize) * PageSize + (q % PageSize)
  BY PositionSplit
<1>2. q \div PageSize < m
  BY PositionBelow
<1>3. (q \div PageSize + 1) - 1 = q \div PageSize
  BY <1>1
<1>4. Position(q \div PageSize + 1, (q % PageSize) + 1) = q
  BY <1>1, <1>3, PagesWeaklyMonotone, PageSizeAssumption DEF Position
<1>5. QED
  BY <1>1, <1>2, <1>4, PageSizeAssumption

\* The two forms of the read property are the same under Shape.
LEMMA PagewiseReads ==
    ASSUME TypeOK, Shape, PagesMatch
    PROVE  ReadsOwnPrefix
<1>1. SUFFICES ASSUME NEW r \in Live, NEW q \in 0..(Larger(done[r], hit[r]) - 1)
               PROVE  /\ q \div PageSize < Len(held[r])
                      /\ kv[SlotOf(r, q)[1]][SlotOf(r, q)[2]]
                           = Value(weights, tokens[r], q)
  BY DEF ReadsOwnPrefix
<1>2. r \in Requests /\ status[r] # "idle" /\ held[r] \in Seq(Pages)
  BY DEF Live, TypeOK
<1>3. Len(held[r]) \in Nat /\ done[r] \in Nat /\ hit[r] \in Nat
      /\ length[r] \in Nat /\ promptLen[r] \in Nat
  BY <1>2, LenProperties DEF TypeOK
<1>4. q \in Nat /\ q < Larger(done[r], hit[r])
  BY <1>3 DEF Larger
<1>5. Larger(done[r], hit[r]) <= Len(held[r]) * PageSize
  <2>1. /\ promptLen[r] <= length[r] /\ hit[r] <= promptLen[r]
        /\ done[r] <= length[r] /\ length[r] <= Len(held[r]) * PageSize
    BY <1>2 DEF Shape
  <2>2. Len(held[r]) * PageSize \in Nat
    BY <1>3, PagesWeaklyMonotone
  <2>3. QED
    BY <1>3, <2>1, <2>2 DEF Larger
<1>6. q < Len(held[r]) * PageSize
  BY <1>3, <1>4, <1>5, PagesWeaklyMonotone DEF Larger
<1>7. /\ q \div PageSize + 1 \in 1..Len(held[r])
      /\ (q % PageSize) + 1 \in 1..PageSize
      /\ Position(q \div PageSize + 1, (q % PageSize) + 1) = q
  BY <1>3, <1>4, <1>6, PositionSlot
<1>8. kv[held[r][q \div PageSize + 1]][(q % PageSize) + 1]
        = Value(weights, tokens[r], q)
  BY <1>2, <1>4, <1>7 DEF PagesMatch
<1>9. q \div PageSize < Len(held[r])
  BY <1>3, <1>4, <1>6, PositionBelow
<1>10. QED
  BY <1>8, <1>9 DEF SlotOf
-----------------------------------------------------------------------------
(* Execution writes a window of positions. *)

\* A window of a request's positions is written slot by slot: every slot of one
\* of its positions gets that position's KV, every other slot keeps its own.
LEMMA WrittenFacts ==
    ASSUME TypeOK, HeldOnce, NEW r \in Requests, NEW from \in Nat, NEW to \in Nat,
           to <= Len(held[r]) * PageSize, to <= Len(tokens[r])
    PROVE  /\ Written(r, from, to) \in [Pages -> [1..PageSize -> KVType]]
           /\ \A i \in 1..Len(held[r]), o \in 1..PageSize :
                Position(i, o) \in from..(to - 1) =>
                    Written(r, from, to)[held[r][i]][o]
                        = Value(weights, tokens[r], Position(i, o))
           /\ \A p \in Pages, o \in 1..PageSize :
                (\A i \in 1..Len(held[r]) :
                    held[r][i] = p => Position(i, o) \notin from..(to - 1))
                => Written(r, from, to)[p][o] = kv[p][o]
<1>1. /\ held[r] \in Seq(Pages) /\ Len(held[r]) \in Nat
      /\ \A i \in 1..Len(held[r]) : held[r][i] \in Pages
      /\ tokens[r] \in Seq(Tokens) /\ Len(tokens[r]) \in Nat
  BY ElementOfSeq, LenProperties DEF TypeOK
<1>2. \A q \in from..(to - 1) :
        /\ q \in Nat
        /\ q \div PageSize + 1 \in 1..Len(held[r])
        /\ (q % PageSize) + 1 \in 1..PageSize
        /\ Position(q \div PageSize + 1, (q % PageSize) + 1) = q
        /\ q + 1 \in 0..Len(tokens[r])
  <2>1. SUFFICES ASSUME NEW q \in from..(to - 1)
                 PROVE  /\ q \in Nat /\ q + 1 \in 0..Len(tokens[r])
                        /\ q \div PageSize + 1 \in 1..Len(held[r])
                        /\ (q % PageSize) + 1 \in 1..PageSize
                        /\ Position(q \div PageSize + 1, (q % PageSize) + 1) = q
    OBVIOUS
  <2>2. q \in Nat /\ q < to /\ q + 1 \in 0..Len(tokens[r])
    BY <1>1
  <2>3. q < Len(held[r]) * PageSize
    BY <1>1, <2>2, PagesWeaklyMonotone
  <2>4. QED
    BY <1>1, <2>2, <2>3, PositionSlot
<1>3. \A q \in from..(to - 1) : Value(weights, tokens[r], q) \in KVType
  <2>1. SUFFICES ASSUME NEW q \in from..(to - 1)
                 PROVE  Value(weights, tokens[r], q) \in KVType
    OBVIOUS
  <2>2. SubSeq(tokens[r], 1, q + 1) \in Seq(Tokens)
    BY <1>1, <1>2, PrefixFacts
  <2>3. QED
    BY <2>2 DEF Value, KVType, TypeOK
<1>4. ASSUME NEW p \in Pages, NEW o \in 1..PageSize
      PROVE  /\ Written(r, from, to)[p][o] \in KVType
             /\ \A i \in 1..Len(held[r]) :
                  held[r][i] = p /\ Position(i, o) \in from..(to - 1) =>
                    Written(r, from, to)[p][o]
                        = Value(weights, tokens[r], Position(i, o))
             /\ (\A i \in 1..Len(held[r]) :
                    held[r][i] = p => Position(i, o) \notin from..(to - 1))
                => Written(r, from, to)[p][o] = kv[p][o]
  <2> DEFINE here(q) == q \in from..(to - 1) /\ SlotOf(r, q) = <<p, o>>
             Q == CHOOSE q \in from..(to - 1) : SlotOf(r, q) = <<p, o>>
  <2>1. Written(r, from, to)[p][o] =
          IF \E q : here(q) THEN Value(weights, tokens[r], Q) ELSE kv[p][o]
    BY DEF Written
  <2>2. (\E q : here(q)) => here(Q)
    OBVIOUS
  <2>3. \A q : here(q) =>
          /\ q \div PageSize + 1 \in 1..Len(held[r])
          /\ held[r][q \div PageSize + 1] = p
          /\ Position(q \div PageSize + 1, o) = q
    <3>1. SUFFICES ASSUME NEW q, here(q)
                   PROVE  /\ q \div PageSize + 1 \in 1..Len(held[r])
                          /\ held[r][q \div PageSize + 1] = p
                          /\ Position(q \div PageSize + 1, o) = q
      OBVIOUS
    <3>2. held[r][q \div PageSize + 1] = p /\ (q % PageSize) + 1 = o
      BY <3>1 DEF SlotOf
    <3>3. q \in from..(to - 1)
      BY <3>1
    <3>4. /\ q \div PageSize + 1 \in 1..Len(held[r])
          /\ Position(q \div PageSize + 1, (q % PageSize) + 1) = q
      BY <1>2, <3>3, Zenon
    <3>5. QED
      BY <3>2, <3>4, Zenon
  <2>4. kv[p][o] \in KVType
    BY DEF TypeOK
  <2>5. ASSUME NEW i \in 1..Len(held[r]), held[r][i] = p,
               Position(i, o) \in from..(to - 1)
        PROVE  here(Position(i, o))
    <3>1. i \in Nat \ {0}
      BY <1>1
    <3>2. /\ Position(i, o) \div PageSize + 1 = i
          /\ (Position(i, o) % PageSize) + 1 = o
      BY <3>1, SlotPosition
    <3>3. QED
      BY <2>5, <3>2 DEF SlotOf
  <2>6. ASSUME NEW i \in 1..Len(held[r]), held[r][i] = p,
               Position(i, o) \in from..(to - 1)
        PROVE  Q = Position(i, o)
    <3>1. here(Q)
      BY <2>2, <2>5, <2>6
    <3>2. Q \div PageSize + 1 = i
      BY <2>3, <2>6, <3>1 DEF HeldOnce
    <3>3. QED
      BY <2>3, <3>1, <3>2
  <2>7. Written(r, from, to)[p][o] \in KVType
    BY <1>3, <2>1, <2>2, <2>4
  <2>8. \A i \in 1..Len(held[r]) :
          held[r][i] = p /\ Position(i, o) \in from..(to - 1) =>
            Written(r, from, to)[p][o] = Value(weights, tokens[r], Position(i, o))
    BY <2>1, <2>5, <2>6
  <2>9. (\A i \in 1..Len(held[r]) :
            held[r][i] = p => Position(i, o) \notin from..(to - 1))
        => Written(r, from, to)[p][o] = kv[p][o]
    BY <2>1, <2>3
  <2>10. QED
    BY <2>7, <2>8, <2>9
<1>5. Written(r, from, to) \in [Pages -> [1..PageSize -> KVType]]
  <2>1. Written(r, from, to) =
          [p \in Pages |-> [o \in 1..PageSize |-> Written(r, from, to)[p][o]]]
    BY DEF Written
  <2>2. QED
    BY <1>4, <2>1
<1>6. QED
  BY <1>1, <1>4, <1>5

\* A request's tokens only grow while it is live.
Grown(r) ==
    \/ UNCHANGED tokens
    \/ \E t \in Tokens : tokens' = [tokens EXCEPT ![r] = Append(@, t)]

\* Grown keeps every prefix that existed: a step appends at most one token to
\* one live request, so positions already materialized keep their tokens.
LEMMA GrownFacts ==
    ASSUME TypeOK, NEW r \in Requests, Grown(r), NEW s \in Requests
    PROVE  /\ tokens' \in [Requests -> Seq(Tokens)]
           /\ tokens[s] \in Seq(Tokens)
           /\ Len(tokens[s]) \in Nat /\ Len(tokens'[s]) \in Nat
           /\ Len(tokens'[s]) >= Len(tokens[s])
           /\ \A n \in 0..Len(tokens[s]) :
                SubSeq(tokens'[s], 1, n) = SubSeq(tokens[s], 1, n)
<1>1. tokens \in [Requests -> Seq(Tokens)] /\ Len(tokens[s]) \in Nat
  BY LenProperties DEF TypeOK
<1>2. CASE UNCHANGED tokens
  BY <1>1, <1>2
<1>3. ASSUME NEW t \in Tokens, tokens' = [tokens EXCEPT ![r] = Append(@, t)]
      PROVE  /\ tokens' \in [Requests -> Seq(Tokens)]
             /\ Len(tokens'[s]) \in Nat
             /\ Len(tokens'[s]) >= Len(tokens[s])
             /\ \A n \in 0..Len(tokens[s]) :
                  SubSeq(tokens'[s], 1, n) = SubSeq(tokens[s], 1, n)
  <2>1. /\ Append(tokens[r], t) \in Seq(Tokens)
        /\ Len(Append(tokens[r], t)) = Len(tokens[r]) + 1
    BY <1>1, AppendProperties
  <2>2. tokens' \in [Requests -> Seq(Tokens)]
    BY <1>1, <1>3, <2>1
  <2>3. CASE s = r
    <3>1. tokens'[s] = Append(tokens[s], t)
      BY <1>1, <1>3, <2>3
    <3>2. \A n \in 0..Len(tokens[s]) :
            SubSeq(Append(tokens[s], t), 1, n) = SubSeq(tokens[s], 1, n)
      BY <1>1, PrefixOfAppend
    <3>3. QED
      BY <1>1, <2>1, <2>2, <2>3, <3>1, <3>2
  <2>4. CASE s # r
    <3>1. tokens'[s] = tokens[s]
      BY <1>1, <1>3, <2>4
    <3>2. QED
      BY <1>1, <2>2, <3>1
  <2>5. QED
    BY <2>3, <2>4
<1>4. QED
  BY <1>1, <1>2, <1>3 DEF Grown

\* The common part of Prefill and Decode: the device writes a window of a live
\* request that starts no later than the KV it can already read and ends within
\* its pages and tokens.
Window(r, from, to) ==
    /\ status[r] # "idle"
    /\ from <= Larger(done[r], hit[r])
    /\ to <= length[r]
    /\ to <= Len(tokens[r])
    /\ kv' = Written(r, from, to)
    /\ done' = [done EXCEPT ![r] = to]
    /\ Grown(r)
    /\ UNCHANGED <<pool, node, held, hit, promptLen, length, status, weights>>

\* A window step keeps everything but the publication in order: what it writes
\* on a shared page is what the other holders and the index expect there.
LEMMA WindowStep ==
    ASSUME IInv, NEW r \in Requests, NEW from \in Nat, NEW to \in Nat,
           Window(r, from, to),
           publishing' \in PublicationType \cup {None}, PublishingOK'
    PROVE  IInv'
<1>1. /\ free' = free /\ cached' = cached /\ refs' = refs /\ node' = node
      /\ held' = held /\ hit' = hit /\ promptLen' = promptLen
      /\ length' = length /\ status' = status /\ weights' = weights
      /\ kv' = Written(r, from, to) /\ done' = [done EXCEPT ![r] = to]
      /\ Grown(r)
  BY DEF Window, pool
<1>2. \A s \in Requests :
        /\ held[s] \in Seq(Pages) /\ Len(held[s]) \in Nat
        /\ DOMAIN held[s] = 1..Len(held[s])
        /\ \A i \in 1..Len(held[s]) : held[s][i] \in Pages
        /\ tokens[s] \in Seq(Tokens) /\ Len(tokens[s]) \in Nat
        /\ done[s] \in Nat /\ hit[s] \in Nat /\ length[s] \in Nat
        /\ promptLen[s] \in Nat
  BY ElementOfSeq, LenProperties DEF IInv, TypeOK
<1>3. \A s \in Requests :
        /\ tokens' \in [Requests -> Seq(Tokens)]
        /\ Len(tokens'[s]) \in Nat /\ Len(tokens'[s]) >= Len(tokens[s])
        /\ \A n \in 0..Len(tokens[s]) :
             SubSeq(tokens'[s], 1, n) = SubSeq(tokens[s], 1, n)
  BY <1>1, GrownFacts DEF IInv
<1>4. to <= Len(held[r]) * PageSize /\ to <= Len(tokens[r]) /\ to <= length[r]
  <2>1. length[r] <= Len(held[r]) * PageSize
    BY DEF IInv, Shape, Window
  <2>2. Len(held[r]) * PageSize \in Nat /\ length[r] \in Nat
    BY <1>2, PagesNat
  <2>3. to <= Len(tokens[r]) /\ to <= length[r]
    BY DEF Window
  <2>4. QED
    BY <2>1, <2>2, <2>3
<1>5. /\ kv' \in [Pages -> [1..PageSize -> KVType]]
      /\ \A i \in 1..Len(held[r]), o \in 1..PageSize :
           Position(i, o) \in from..(to - 1) =>
             kv'[held[r][i]][o] = Value(weights, tokens[r], Position(i, o))
      /\ \A p \in Pages, o \in 1..PageSize :
           (\A i \in 1..Len(held[r]) :
               held[r][i] = p => Position(i, o) \notin from..(to - 1))
           => kv'[p][o] = kv[p][o]
  <2> DEFINE w == Written(r, from, to)
  <2>1. TypeOK /\ HeldOnce
    BY DEF IInv
  <2>2. /\ w \in [Pages -> [1..PageSize -> KVType]]
        /\ \A i \in 1..Len(held[r]), o \in 1..PageSize :
             Position(i, o) \in from..(to - 1) =>
               w[held[r][i]][o] = Value(weights, tokens[r], Position(i, o))
        /\ \A p \in Pages, o \in 1..PageSize :
             (\A i \in 1..Len(held[r]) :
                 held[r][i] = p => Position(i, o) \notin from..(to - 1))
             => w[p][o] = kv[p][o]
    BY <1>4, <2>1, WrittenFacts
  <2>3. kv' = w
    BY <1>1
  <2> HIDE DEF w
  <2>4. QED
    BY <2>2, <2>3
<1>6. TypeOK'
  <2>1. done' \in [Requests -> Nat]
    BY <1>1 DEF IInv, TypeOK
  <2>2. QED
    BY <1>1, <1>3, <1>5, <2>1 DEF IInv, TypeOK
<1>7. Shape'
  <2>1. SUFFICES ASSUME NEW s \in Requests
                 PROVE  /\ status[s] = "idle" =>
                            /\ held[s] = <<>> /\ tokens'[s] = <<>>
                            /\ hit[s] = 0 /\ promptLen[s] = 0
                            /\ length[s] = 0 /\ done'[s] = 0
                        /\ status[s] # "idle" =>
                            /\ promptLen[s] \in 1..Len(tokens'[s])
                            /\ promptLen[s] <= length[s]
                            /\ hit[s] <= promptLen[s]
                            /\ done'[s] <= length[s]
                            /\ done'[s] <= Len(tokens'[s])
                            /\ length[s] <= Len(held[s]) * PageSize
    BY <1>1 DEF Shape
  <2>2. s # r => tokens'[s] = tokens[s]
    BY <1>1 DEF Grown, IInv, TypeOK
  <2>3. CASE s = r
    <3>1. status[s] # "idle" /\ done'[s] = to
      BY <1>1, <2>3 DEF Window, IInv, TypeOK
    <3>2. QED
      BY <1>2, <1>3, <1>4, <2>3, <3>1 DEF IInv, Shape
  <2>4. CASE s # r
    <3>1. done'[s] = done[s]
      BY <1>1, <2>4 DEF IInv, TypeOK
    <3>2. QED
      BY <2>2, <2>4, <3>1 DEF IInv, Shape
  <2>5. QED
    BY <2>3, <2>4
<1>8. HeldOnce'
  BY <1>1 DEF IInv, HeldOnce
<1>9. PageOwnership'
  BY <1>1 DEF IInv, PageOwnership, Holders
<1>10. IndexIsTrie'
  BY <1>1 DEF IInv, IndexIsTrie, Indexed
<1>11. IndexedPagesMatch'
  <2>1. SUFFICES ASSUME NEW p \in Pages, node[p] # <<>>, NEW o \in 1..PageSize
                 PROVE  kv'[p][o] =
                          Value(weights, node[p], Len(node[p]) - PageSize + o - 1)
    BY <1>1 DEF IndexedPagesMatch
  <2>2. kv[p][o] = Value(weights, node[p], Len(node[p]) - PageSize + o - 1)
    BY <2>1 DEF IInv, IndexedPagesMatch
  <2>3. ASSUME NEW i \in 1..Len(held[r]), held[r][i] = p,
               Position(i, o) \in from..(to - 1)
        PROVE  kv'[p][o] =
                 Value(weights, node[p], Len(node[p]) - PageSize + o - 1)
    <3>1. /\ i \in Nat \ {0} /\ Position(i, o) \in Nat
          /\ Position(i, o) + 1 \in 0..(i * PageSize)
      BY <1>2, SlotPosition
    <3>2. node[p] = Upto(tokens[r], i) /\ i * PageSize <= Len(tokens[r])
      BY <2>1, <2>3 DEF IInv, IndexedHeldAgree
    <3>3. /\ Len(node[p]) = i * PageSize
          /\ \A n \in 0..(i * PageSize) :
               SubSeq(node[p], 1, n) = SubSeq(tokens[r], 1, n)
      BY <1>2, <3>1, <3>2, UptoFacts
    <3>4. Len(node[p]) - PageSize + o - 1 = Position(i, o)
      BY <3>1, <3>3, PageSizeAssumption DEF Position
    <3>5. Value(weights, node[p], Position(i, o))
            = Value(weights, tokens[r], Position(i, o))
      BY <3>1, <3>3 DEF Value
    <3>6. QED
      BY <1>5, <2>3, <3>4, <3>5
  <2>4. QED
    BY <1>5, <2>2, <2>3
<1>12. PagesMatch'
  <2>1. SUFFICES ASSUME NEW s \in Requests, NEW i \in 1..Len(held[s]),
                        NEW o \in 1..PageSize,
                        Position(i, o) < Larger(done'[s], hit[s])
                 PROVE  kv'[held[s][i]][o]
                          = Value(weights, tokens'[s], Position(i, o))
    BY <1>1 DEF PagesMatch
  <2>2. /\ i \in Nat \ {0} /\ Position(i, o) \in Nat
        /\ Position(i, o) < i * PageSize
        /\ Position(i, o) + 1 \in 0..(i * PageSize)
        /\ held[s][i] \in Pages /\ status[s] # "idle"
    <3>1. i \in Nat \ {0}
      BY <1>2
    <3>2. held[s][i] \in Pages /\ status[s] # "idle"
      BY HeldIsReferenced DEF IInv
    <3>3. QED
      BY <3>1, <3>2, SlotPosition
  <2>3. Position(i, o) + 1 \in 0..Len(tokens[s])
    <3>1. done'[s] <= Len(tokens[s])
      BY <1>1, <1>2, <1>4, <2>2 DEF IInv, Shape, TypeOK
    <3>2. hit[s] <= Len(tokens[s])
      BY <1>2, <2>2, SMTT(60) DEF IInv, Shape
    <3>3. done'[s] \in Nat
      BY <1>6 DEF TypeOK
    <3>4. QED
      BY <1>2, <2>1, <2>2, <3>1, <3>2, <3>3 DEF Larger
  <2>4. Value(weights, tokens'[s], Position(i, o))
          = Value(weights, tokens[s], Position(i, o))
    BY <1>3, <2>3 DEF Value
  <2>5. ASSUME NEW j \in 1..Len(held[r]), held[r][j] = held[s][i],
               Position(j, o) \in from..(to - 1)
        PROVE  kv'[held[s][i]][o] = Value(weights, tokens[s], Position(i, o))
    <3>1. kv'[held[s][i]][o] = Value(weights, tokens[r], Position(j, o))
      BY <1>5, <2>5
    <3>2. CASE s = r
      <4>1. i = j
        BY <2>5, <3>2 DEF IInv, HeldOnce
      <4>2. QED
        BY <3>1, <3>2, <4>1
    <3>3. CASE s # r
      <4>1. /\ i = j /\ i * PageSize <= Len(tokens[s])
            /\ i * PageSize <= Len(tokens[r])
            /\ Upto(tokens[s], i) = Upto(tokens[r], i)
        <5>1. s \in Live /\ r \in Live
          BY <2>2 DEF Live, Window
        <5>2. i \in DOMAIN held[s] /\ j \in DOMAIN held[r]
          BY <1>2, <2>5
        <5>3. QED
          BY <2>5, <3>3, <5>1, <5>2 DEF IInv, SharedPagesAgree
      <4>2. SubSeq(tokens[s], 1, Position(i, o) + 1)
              = SubSeq(tokens[r], 1, Position(i, o) + 1)
        <5>1. \A n \in 0..(i * PageSize) :
                SubSeq(Upto(tokens[s], i), 1, n) = SubSeq(tokens[s], 1, n)
          BY <1>2, <2>2, <4>1, UptoFacts
        <5>2. \A n \in 0..(i * PageSize) :
                SubSeq(Upto(tokens[r], i), 1, n) = SubSeq(tokens[r], 1, n)
          BY <1>2, <2>2, <4>1, UptoFacts
        <5>3. QED
          BY <2>2, <4>1, <5>1, <5>2
      <4>3. QED
        BY <3>1, <4>1, <4>2 DEF Value
    <3>4. QED
      BY <3>2, <3>3
  <2>6. ASSUME \A j \in 1..Len(held[r]) :
                 held[r][j] = held[s][i] => Position(j, o) \notin from..(to - 1)
        PROVE  kv'[held[s][i]][o] = Value(weights, tokens[s], Position(i, o))
    <3>1. kv'[held[s][i]][o] = kv[held[s][i]][o]
      BY <1>5, <2>2, <2>6
    <3>2. Position(i, o) < Larger(done[s], hit[s])
      <4>1. CASE s = r
        <5>1. Position(i, o) \notin from..(to - 1) /\ done'[s] = to
          BY <1>1, <2>6, <4>1 DEF IInv, TypeOK
        <5>2. from <= Larger(done[s], hit[s])
          BY <4>1 DEF Window
        <5>3. QED
          BY <1>2, <2>1, <2>2, <5>1, <5>2 DEF Larger
      <4>2. CASE s # r
        BY <1>1, <2>1, <4>2 DEF IInv, TypeOK
      <4>3. QED
        BY <4>1, <4>2
    <3>3. QED
      BY <3>1, <3>2 DEF IInv, PagesMatch
  <2>7. QED
    BY <2>4, <2>5, <2>6
<1>13. SharedPagesAgree'
  <2>1. SUFFICES ASSUME NEW s \in Live, NEW u \in Live,
                        NEW i \in DOMAIN held[s], NEW j \in DOMAIN held[u],
                        s # u, held[s][i] = held[u][j]
                 PROVE  /\ i = j
                        /\ i * PageSize <= Len(tokens'[s])
                        /\ i * PageSize <= Len(tokens'[u])
                        /\ Upto(tokens'[s], i) = Upto(tokens'[u], i)
    BY <1>1 DEF SharedPagesAgree, Live
  <2>2. /\ i = j /\ i * PageSize <= Len(tokens[s])
        /\ i * PageSize <= Len(tokens[u])
        /\ Upto(tokens[s], i) = Upto(tokens[u], i)
    BY <2>1 DEF IInv, SharedPagesAgree
  <2>3. s \in Requests /\ u \in Requests /\ i \in Nat
    BY <1>2 DEF Live
  <2>4. i * PageSize \in 0..Len(tokens[s]) /\ i * PageSize \in 0..Len(tokens[u])
    BY <1>2, <2>2, <2>3, PagesWeaklyMonotone
  <2>5. Upto(tokens'[s], i) = Upto(tokens[s], i)
    BY <1>2, <1>3, <2>3, <2>4 DEF Upto
  <2>6. Upto(tokens'[u], i) = Upto(tokens[u], i)
    BY <1>2, <1>3, <2>3, <2>4 DEF Upto
  <2>7. /\ i * PageSize <= Len(tokens'[s])
        /\ i * PageSize <= Len(tokens'[u])
    BY <1>2, <1>3, <2>2, <2>3, <2>4
  <2>8. QED
    BY <2>2, <2>5, <2>6, <2>7
<1>14. IndexedHeldAgree'
  <2>1. SUFFICES ASSUME NEW s \in Requests, NEW i \in 1..Len(held[s]),
                        node[held[s][i]] # <<>>
                 PROVE  /\ i * PageSize <= Len(tokens'[s])
                        /\ node[held[s][i]] = Upto(tokens'[s], i)
    BY <1>1 DEF IndexedHeldAgree
  <2>2. /\ i * PageSize <= Len(tokens[s])
        /\ node[held[s][i]] = Upto(tokens[s], i)
    BY <2>1 DEF IInv, IndexedHeldAgree
  <2>3. i \in Nat
    BY <1>2
  <2>4. i * PageSize \in 0..Len(tokens[s])
    BY <1>2, <2>2, <2>3, PagesWeaklyMonotone
  <2>5. QED
    BY <1>2, <1>3, <2>2, <2>3, <2>4 DEF Upto
<1>15. QED
  BY <1>6, <1>7, <1>8, <1>9, <1>10, <1>11, <1>12, <1>13, <1>14 DEF IInv

\* A prefill chunk starts at KV the request can read and ends in its prompt.
LEMMA PrefillStep ==
    ASSUME IInv, NEW r \in Requests, NEW n \in 1..MaxSeqLen, Prefill(r, n)
    PROVE  IInv'
<1> DEFINE from == PrefillStart(r)
           to == from + n
<1>1. /\ done[r] \in Nat /\ hit[r] \in Nat /\ promptLen[r] \in Nat
      /\ length[r] \in Nat /\ Len(tokens[r]) \in Nat /\ n \in Nat
  BY LenProperties, LengthAssumption DEF IInv, TypeOK
<1>2. /\ status[r] = "running" /\ promptLen[r] >= 1
      /\ promptLen[r] <= length[r] /\ promptLen[r] <= Len(tokens[r])
  BY <1>1 DEF Prefill, IInv, Shape
<1>3. from \in Nat /\ from <= Larger(done[r], hit[r])
  BY <1>1, <1>2 DEF PrefillStart, Smaller, Larger
<1>4. to \in Nat /\ to <= promptLen[r]
  BY <1>1, <1>3 DEF Prefill
<1>5. Grown(r)
  BY DEF Prefill, Grown
<1>6. Window(r, from, to)
  <2>1. to <= length[r] /\ to <= Len(tokens[r])
    BY <1>1, <1>2, <1>4
  <2>2. QED
    BY <1>2, <1>3, <1>5, <2>1 DEF Prefill, Window
<1>7. publishing' = [req |-> r, page |-> from \div PageSize + 1,
                     last |-> to \div PageSize, release |-> FALSE]
  BY DEF Prefill, Publish
<1>8. /\ from \div PageSize \in Nat /\ to \div PageSize \in Nat
      /\ (to \div PageSize) * PageSize <= to
  <2>1. /\ from \div PageSize \in Nat /\ to \div PageSize \in Nat
        /\ to % PageSize \in 0..(PageSize - 1)
        /\ to = (to \div PageSize) * PageSize + (to % PageSize)
    BY <1>3, <1>4, PositionSplit, Zenon
  <2>2. (to \div PageSize) * PageSize \in Nat
    BY <2>1, PagesNat
  <2>3. QED
    BY <2>1, <2>2, PageSizeAssumption
<1>9. publishing' \in PublicationType
  BY <1>7, <1>8 DEF PublicationType
<1>10. PublishingOK'
  <2>1. done'[r] = to /\ status'[r] = "running"
    BY <1>2 DEF Prefill, IInv, TypeOK
  <2>2. QED
    BY <1>7, <1>8, <2>1 DEF PublishingOK
<1>11. QED
  BY <1>3, <1>4, <1>6, <1>9, <1>10, WindowStep

\* A decode step writes the first position that is not materialized.
LEMMA DecodeStep ==
    ASSUME IInv, NEW r \in Requests, Decode(r)
    PROVE  IInv'
<1>1. /\ done[r] \in Nat /\ hit[r] \in Nat
      /\ length[r] \in Nat /\ Len(tokens[r]) \in Nat
  BY LenProperties DEF IInv, TypeOK
<1>2. done' = [done EXCEPT ![r] = done[r] + 1] /\ Grown(r)
  BY DEF Decode, Grown
<1>3. Window(r, done[r], done[r] + 1)
  <2>1. done[r] <= Larger(done[r], hit[r])
    BY <1>1 DEF Larger
  <2>2. done[r] + 1 <= length[r] /\ done[r] + 1 <= Len(tokens[r])
    BY <1>1 DEF Decode
  <2>3. status[r] # "idle"
    BY DEF Decode
  <2>4. QED
    BY <1>2, <2>1, <2>2, <2>3 DEF Decode, Window
<1>4. publishing' = None
  BY DEF Decode, Unlocked
<1>5. QED
  BY <1>1, <1>3, <1>4, WindowStep DEF PublishingOK

-----------------------------------------------------------------------------
(* Ending a request and starting its publication. *)

\* A live request that ends keeps its pages, tokens and KV.
LEMMA EndingStep ==
    ASSUME IInv, NEW r \in Requests, Finish(r) \/ Abort(r)
    PROVE  IInv'
<1>1. /\ status[r] = "running" /\ publishing = None
      /\ \E e \in {"finished", "aborted"} : status' = [status EXCEPT ![r] = e]
      /\ UNCHANGED <<free, cached, refs, node, held, hit, tokens, promptLen, length,
                     done, publishing, weights, kv>>
  BY DEF Finish, Abort, Unlocked, pool
<1>2. \A s \in Requests : status'[s] = "idle" <=> status[s] = "idle"
  BY <1>1 DEF IInv, TypeOK
<1>3. Live' = Live
  BY <1>2 DEF Live
<1>4. TypeOK'
  BY <1>1 DEF IInv, TypeOK
<1>5. Shape' /\ HeldOnce' /\ PageOwnership' /\ IndexIsTrie'
  BY <1>1, <1>2, SMTT(60)
  DEF IInv, Shape, HeldOnce, PageOwnership, Holders, IndexIsTrie, Indexed
<1>6. IndexedPagesMatch' /\ PagesMatch' /\ IndexedHeldAgree'
  BY <1>1 DEF IInv, IndexedPagesMatch, PagesMatch, IndexedHeldAgree
<1>7. SharedPagesAgree'
  BY <1>1, <1>3 DEF IInv, SharedPagesAgree
<1>8. PublishingOK'
  BY <1>1 DEF PublishingOK
<1>9. QED
  BY <1>4, <1>5, <1>6, <1>7, <1>8 DEF IInv

\* Only the publication changes: what is left is that it is in order.
LEMMA PublicationStep ==
    ASSUME IInv, publishing' \in PublicationType \cup {None}, PublishingOK',
           UNCHANGED <<pool, node, requestVars, weights, kv>>
    PROVE  IInv'
<1>1. UNCHANGED <<free, cached, refs, node, held, hit, tokens, promptLen, length,
                  done, status, weights, kv>>
  BY DEF pool, requestVars
<1>2. TypeOK'
  BY <1>1 DEF IInv, TypeOK
<1>3. Shape' /\ HeldOnce' /\ PageOwnership' /\ IndexIsTrie'
  BY <1>1
  DEF IInv, Shape, HeldOnce, PageOwnership, Holders, IndexIsTrie, Indexed
<1>4. IndexedPagesMatch' /\ PagesMatch' /\ IndexedHeldAgree' /\ SharedPagesAgree'
  BY <1>1
  DEF IInv, IndexedPagesMatch, PagesMatch, IndexedHeldAgree, SharedPagesAgree, Live
<1>5. QED
  BY <1>2, <1>3, <1>4 DEF IInv

\* A finished request publishes materialized pages only.
LEMMA ReleaseFinishedStep ==
    ASSUME IInv, NEW r \in Requests, ReleaseFinished(r)
    PROVE  IInv'
<1>1. done[r] \in Nat /\ Len(tokens[r]) \in Nat
  BY LenProperties DEF IInv, TypeOK
<1>2. Smaller(done[r], Len(tokens[r])) \in Nat
      /\ Smaller(done[r], Len(tokens[r])) <= done[r]
  BY <1>1 DEF Smaller
<1>3. MaterializedPages(r) \in Nat /\ MaterializedPages(r) * PageSize <= done[r]
  <2> DEFINE m == Smaller(done[r], Len(tokens[r]))
  <2>1. /\ m \div PageSize \in Nat /\ m % PageSize \in 0..(PageSize - 1)
        /\ m = (m \div PageSize) * PageSize + (m % PageSize)
    BY <1>2, PositionSplit, Zenon
  <2>2. (m \div PageSize) * PageSize \in Nat
    BY <2>1, PagesNat
  <2>3. (m \div PageSize) * PageSize <= m
    BY <2>1, <2>2, PageSizeAssumption
  <2>4. (m \div PageSize) * PageSize <= done[r]
    BY <1>1, <1>2, <2>2, <2>3
  <2>5. QED
    BY <2>1, <2>4 DEF MaterializedPages
<1>4. publishing' = [req |-> r, page |-> 1, last |-> MaterializedPages(r),
                     release |-> TRUE]
  BY DEF ReleaseFinished, Publish
<1>5. publishing' \in PublicationType
  BY <1>3, <1>4 DEF PublicationType
<1>6. UNCHANGED <<pool, node, requestVars, weights, kv>> /\ status[r] = "finished"
  BY DEF ReleaseFinished
<1>7. PublishingOK'
  BY <1>3, <1>4, <1>6 DEF PublishingOK, requestVars
<1>8. QED
  BY <1>5, <1>6, <1>7, PublicationStep
-----------------------------------------------------------------------------
(* Releasing the slots of a request. *)

\* Releasing a request takes it off the holders of its pages; those it was the
\* last holder of are kept when they are indexed and freed when they are not.
LEMMA FreeSlotsStep ==
    ASSUME IInv, NEW r \in Requests, FreeSlots(r), publishing' = None
    PROVE  IInv'
<1> DEFINE pages == Elements(held[r])
<1>1. /\ refs' = Drop(refs, pages)
      /\ cached' = cached \cup Kept(refs, pages)
      /\ free' = free \cup Freed(refs, pages)
      /\ held' = [held EXCEPT ![r] = <<>>]
      /\ hit' = [hit EXCEPT ![r] = 0]
      /\ tokens' = [tokens EXCEPT ![r] = <<>>]
      /\ promptLen' = [promptLen EXCEPT ![r] = 0]
      /\ length' = [length EXCEPT ![r] = 0]
      /\ done' = [done EXCEPT ![r] = 0]
      /\ status' = [status EXCEPT ![r] = "idle"]
      /\ node' = node /\ weights' = weights /\ kv' = kv
  BY DEF FreeSlots
<1>2. \A s \in Requests :
        /\ held[s] \in Seq(Pages) /\ Len(held[s]) \in Nat
        /\ DOMAIN held[s] = 1..Len(held[s])
        /\ \A i \in 1..Len(held[s]) : held[s][i] \in Pages
  BY ElementOfSeq, LenProperties DEF IInv, TypeOK
<1>3. pages \subseteq Pages
  BY <1>2 DEF Elements
<1>4. \A p \in Pages :
        /\ refs[p] \in Nat
        /\ p \in pages <=> r \in Holders(p)
        /\ p \in pages => refs[p] # 0
        /\ refs'[p] = IF p \in pages THEN refs[p] - 1 ELSE refs[p]
  <2>1. SUFFICES ASSUME NEW p \in Pages
                 PROVE  /\ refs[p] \in Nat
                        /\ p \in pages <=> r \in Holders(p)
                        /\ p \in pages => refs[p] # 0
                        /\ refs'[p] = IF p \in pages THEN refs[p] - 1 ELSE refs[p]
    OBVIOUS
  <2>2. p \in pages <=> r \in Holders(p)
    BY DEF Holders
  <2>3. refs[p] = 0 <=> Holders(p) = {}
    BY HoldersCounted DEF IInv
  <2>4. QED
    BY <1>1, <2>2, <2>3 DEF IInv, TypeOK, Drop
<1>5. /\ held'[r] = <<>> /\ tokens'[r] = <<>> /\ hit'[r] = 0 /\ promptLen'[r] = 0
      /\ length'[r] = 0 /\ done'[r] = 0 /\ status'[r] = "idle"
      /\ \A s \in Requests \ {r} :
           /\ held'[s] = held[s] /\ tokens'[s] = tokens[s] /\ hit'[s] = hit[s]
           /\ promptLen'[s] = promptLen[s] /\ length'[s] = length[s]
           /\ done'[s] = done[s] /\ status'[s] = status[s]
  BY <1>1 DEF IInv, TypeOK
<1>6. Len(held'[r]) = 0 /\ 1..Len(held'[r]) = {} /\ Elements(held'[r]) = {}
  <2>1. held'[r] \in Seq(Pages)
    BY <1>5, EmptySeq
  <2>2. Len(held'[r]) = 0 /\ DOMAIN held'[r] = 1..Len(held'[r])
    BY <1>5, <2>1, EmptySeq, LenProperties
  <2>3. QED
    BY <2>2 DEF Elements
<1>7. \A p \in Pages : Holders(p)' = Holders(p) \ {r}
  <2>1. SUFFICES ASSUME NEW p \in Pages
                 PROVE  \A s \in Requests :
                          p \in Elements(held'[s])
                            <=> s # r /\ p \in Elements(held[s])
    BY DEF Holders
  <2>2. QED
    BY <1>5, <1>6
<1>8. TypeOK'
  <2>1. /\ free' \subseteq Pages /\ cached' \subseteq Pages
        /\ refs' \in [Pages -> Nat]
    <3>1. refs' = [p \in Pages |-> IF p \in pages THEN refs[p] - 1 ELSE refs[p]]
      BY <1>1 DEF Drop
    <3>2. QED
      BY <1>1, <1>3, <1>4, <3>1 DEF Kept, Freed, IInv, TypeOK
  <2>2. /\ held' \in [Requests -> Seq(Pages)]
        /\ tokens' \in [Requests -> Seq(Tokens)]
    BY <1>1, EmptySeq DEF IInv, TypeOK
  <2>3. /\ hit' \in [Requests -> Nat] /\ promptLen' \in [Requests -> Nat]
        /\ length' \in [Requests -> Nat] /\ done' \in [Requests -> Nat]
        /\ status' \in [Requests -> {"idle", "running", "finished", "aborted"}]
    BY <1>1 DEF IInv, TypeOK
  <2>4. QED
    BY <1>1, <2>1, <2>2, <2>3 DEF IInv, TypeOK
<1>9. Shape'
  BY <1>5 DEF IInv, Shape
<1>10. HeldOnce'
  BY <1>5, <1>6 DEF IInv, HeldOnce
<1>11. PageOwnership'
  <2>1. SUFFICES ASSUME NEW p \in Pages
                 PROVE  /\ refs'[p] = Cardinality(Holders(p)')
                        /\ p \in free' => /\ refs'[p] = 0 /\ p \notin cached'
                                          /\ node[p] = <<>>
                        /\ p \in cached' => refs'[p] = 0 /\ node[p] # <<>>
                        /\ refs'[p] = 0 => p \in free' \cup cached'
    BY <1>1 DEF PageOwnership
  <2>2. refs'[p] = Cardinality(Holders(p)')
    <3>1. /\ IsFiniteSet(Holders(p)) /\ refs[p] = Cardinality(Holders(p))
      BY HoldersCounted DEF IInv
    <3>2. Cardinality(Holders(p) \ {r}) =
            IF r \in Holders(p) THEN Cardinality(Holders(p)) - 1
            ELSE Cardinality(Holders(p))
      BY <3>1, FS_RemoveElement
    <3>3. QED
      BY <1>4, <1>7, <3>1, <3>2
  <2>3. /\ p \in free => refs[p] = 0 /\ p \notin cached /\ node[p] = <<>>
        /\ p \in cached => refs[p] = 0 /\ node[p] # <<>>
        /\ refs[p] = 0 => p \in free \cup cached
    BY DEF IInv, PageOwnership
  <2>4. /\ p \in free' <=> p \in free \/ (p \in pages /\ refs[p] = 1 /\ node[p] = <<>>)
        /\ p \in cached' <=>
             p \in cached \/ (p \in pages /\ refs[p] = 1 /\ node[p] # <<>>)
    BY <1>1 DEF Kept, Freed
  <2>5. QED
    BY <1>4, <2>2, <2>3, <2>4
<1>12. IndexIsTrie' /\ IndexedPagesMatch'
  BY <1>1 DEF IInv, IndexIsTrie, Indexed, IndexedPagesMatch
<1>13. PagesMatch' /\ IndexedHeldAgree'
  BY <1>1, <1>5, <1>6 DEF IInv, PagesMatch, IndexedHeldAgree
<1>14. SharedPagesAgree'
  <2>1. \A s \in Live' : s # r /\ s \in Live
    BY <1>5 DEF Live
  <2>2. QED
    BY <1>5, <2>1 DEF IInv, SharedPagesAgree, Live
<1>15. PublishingOK'
  BY DEF PublishingOK
<1>16. QED
  BY <1>8, <1>9, <1>10, <1>11, <1>12, <1>13, <1>14, <1>15 DEF IInv

\* release_finished of an aborted request: its slots are freed, nothing is
\* published.
LEMMA ReleaseAbortedStep ==
    ASSUME IInv, NEW r \in Requests, ReleaseAborted(r)
    PROVE  IInv'
<1>1. FreeSlots(r) /\ publishing' = None
  BY DEF ReleaseAborted, Unlocked
<1>2. QED
  BY <1>1, FreeSlotsStep

\* The end of record_block_hashes: a release goes on to free the slots, a
\* prefill chunk's publication only ends.
LEMMA EndPublicationStep ==
    ASSUME IInv, EndPublication
    PROVE  IInv'
<1>1. publishing' = None /\ publishing # None
  BY DEF EndPublication, Published
<1>2. CASE publishing.release
  <2>1. FreeSlots(publishing.req)
    BY <1>2 DEF EndPublication
  <2>2. publishing.req \in Requests
    BY <1>1 DEF IInv, TypeOK, PublicationType
  <2>3. QED
    BY <1>1, <2>1, <2>2, FreeSlotsStep
<1>3. CASE ~publishing.release
  <2>1. UNCHANGED <<pool, node, requestVars, weights, kv>>
    BY <1>3 DEF EndPublication
  <2>2. PublishingOK'
    BY <1>1 DEF PublishingOK
  <2>3. QED
    BY <1>1, <2>1, <2>2, PublicationStep
<1>4. QED
  BY <1>2, <1>3
-----------------------------------------------------------------------------
(* Publishing a page. *)

\* Recording a page somebody holds under its own prefix either changes nothing
\* or puts it, as the only page of that prefix, below an indexed ancestor.
LEMMA RecordHeldPage ==
    ASSUME IInv, NEW r \in Requests, NEW i \in 1..Len(held[r]),
           i * PageSize <= Len(tokens[r]),
           RecordPage(held[r][i], Upto(tokens[r], i))
    PROVE  \/ UNCHANGED <<node, cached, free>>
           \/ LET p == held[r][i]
                  path == Upto(tokens[r], i)
              IN  /\ node[p] = <<>>
                  /\ \/ Len(path) = PageSize
                     \/ Indexed(SubSeq(path, 1, Len(path) - PageSize))
                  /\ node' = [q \in Pages |-> IF q = p THEN path
                                ELSE IF node[q] = path THEN <<>> ELSE node[q]]
                  /\ cached' = cached \ {q \in Pages : node[q] = path}
                  /\ free' = free \cup (cached \cap {q \in Pages : node[q] = path})
<1> DEFINE p == held[r][i]
           path == Upto(tokens[r], i)
           ancestor == Len(path) = PageSize
                       \/ Indexed(SubSeq(path, 1, Len(path) - PageSize))
           moved == IF node[p] = <<>> THEN {}
                    ELSE {q \in Pages : node[q] # <<>> /\ Below(node[q], node[p])}
           reachable == ancestor /\ (node[p] = <<>> \/ ~Below(path, node[p]))
           replaced == {q \in Pages : node[q] = path}
           revoked == IF node[p] = path THEN {}
                      ELSE IF reachable THEN (moved \cup replaced) \ {p}
                      ELSE moved
<1>1. /\ node' = [q \in Pages |-> IF q = p /\ reachable THEN path
                                  ELSE IF q \in revoked THEN <<>> ELSE node[q]]
      /\ cached' = cached \ revoked
      /\ free' = free \cup (cached \cap revoked)
  BY DEF RecordPage
<1>2. tokens[r] \in Seq(Tokens) /\ i \in Nat \ {0} /\ node \in [Pages -> Seq(Tokens)]
  BY LenProperties DEF IInv, TypeOK
<1>3. path \in Seq(Tokens) /\ path # <<>> /\ p \in Pages
  BY <1>2, UptoFacts, HeldIsReferenced DEF IInv
<1> HIDE DEF path, p
<1>4. CASE node[p] # <<>>
  <2>1. node[p] = path
    BY <1>4 DEF IInv, IndexedHeldAgree, p, path
  <2>2. Below(path, path)
    BY <1>3, BelowParent, LenProperties
  <2>3. ~reachable /\ revoked = {}
    BY <1>3, <2>1, <2>2
  <2>4. QED
    BY <1>1, <1>2, <2>3
<1>5. CASE node[p] = <<>> /\ ~ancestor
  <2>1. ~reachable /\ revoked = {}
    BY <1>3, <1>5
  <2>2. QED
    BY <1>1, <1>2, <2>1
<1>6. CASE node[p] = <<>> /\ ancestor
  <2>1. reachable
    BY <1>6
  <2>2. revoked = replaced
    BY <1>3, <1>6, <2>1
  <2>3. node' = [q \in Pages |-> IF q = p THEN path
                   ELSE IF node[q] = path THEN <<>> ELSE node[q]]
    BY <1>1, <2>1, <2>2
  <2>4. QED
    BY <1>1, <1>6, <2>2, <2>3 DEF p, path
<1>7. QED
  BY <1>4, <1>5, <1>6

\* One iteration of record_hashes keeps the index a trie of pages that match
\* their paths: the page it records is held and materialized.
LEMMA PublishPageStep ==
    ASSUME IInv, PublishPage
    PROVE  IInv'
<1> DEFINE r == publishing.req
           i == publishing.page
           p == held[r][i]
           path == Upto(tokens[r], i)
<1>1. /\ publishing # None /\ publishing \in PublicationType
      /\ i <= publishing.last /\ i <= Len(held[r])
      /\ RecordPage(p, path)
      /\ publishing' = [publishing EXCEPT !.page = i + 1]
      /\ UNCHANGED <<refs, held, hit, tokens, promptLen, length, done, status,
                     weights, kv>>
  BY DEF PublishPage, IInv, TypeOK, requestVars
<1>2. r \in Requests /\ i \in Nat /\ publishing.last \in Nat
  BY <1>1 DEF PublicationType
<1>3. \A s \in Requests :
        /\ held[s] \in Seq(Pages) /\ Len(held[s]) \in Nat
        /\ DOMAIN held[s] = 1..Len(held[s])
        /\ \A j \in 1..Len(held[s]) : held[s][j] \in Pages
        /\ tokens[s] \in Seq(Tokens) /\ Len(tokens[s]) \in Nat
        /\ done[s] \in Nat /\ hit[s] \in Nat
  BY ElementOfSeq, LenProperties DEF IInv, TypeOK
<1>4. /\ status[r] # "idle" /\ i >= 1
      /\ publishing.last * PageSize <= done[r] /\ done[r] <= Len(tokens[r])
  BY <1>1, <1>2 DEF IInv, PublishingOK, Shape
<1>5. /\ i \in 1..Len(held[r]) /\ i \in Nat \ {0}
      /\ i * PageSize \in Nat /\ i * PageSize <= done[r]
      /\ i * PageSize <= Len(tokens[r])
  <2>1. i * PageSize <= publishing.last * PageSize /\ i * PageSize \in Nat
    BY <1>1, <1>2, PagesWeaklyMonotone
  <2>2. publishing.last * PageSize \in Nat
    BY <1>2, PagesNat
  <2>3. QED
    BY <1>1, <1>2, <1>3, <1>4, <2>1, <2>2
<1>6. publishing' \in PublicationType /\ PublishingOK'
  BY <1>1, <1>2, <1>4 DEF PublicationType, IInv, PublishingOK
<1>7. CASE UNCHANGED <<node, cached, free>>
  BY <1>1, <1>6, <1>7, PublicationStep DEF pool, requestVars
<1>8. ASSUME /\ node[p] = <<>>
             /\ \/ Len(path) = PageSize
                \/ Indexed(SubSeq(path, 1, Len(path) - PageSize))
             /\ node' = [q \in Pages |-> IF q = p THEN path
                           ELSE IF node[q] = path THEN <<>> ELSE node[q]]
             /\ cached' = cached \ {q \in Pages : node[q] = path}
             /\ free' = free \cup (cached \cap {q \in Pages : node[q] = path})
      PROVE  IInv'
  <2>1. /\ p \in Pages /\ refs[p] # 0 /\ p \notin free /\ p \notin cached
    BY <1>2, <1>5, HeldIsReferenced DEF IInv
  <2>2. /\ path \in Seq(Tokens) /\ Len(path) = i * PageSize /\ path # <<>>
        /\ \A n \in 0..(i * PageSize) :
             SubSeq(path, 1, n) = SubSeq(tokens[r], 1, n)
    BY <1>2, <1>3, <1>5, UptoFacts
  <2>3. /\ node'[p] = path
        /\ \A q \in Pages : node[q] = path => node'[q] = <<>>
        /\ \A q \in Pages : q # p /\ node[q] # path => node'[q] = node[q]
    BY <1>8, <2>1, <2>2
  <2>4. TypeOK'
    <3>1. node' \in [Pages -> Seq(Tokens)]
      BY <1>8, <2>2, EmptySeq DEF IInv, TypeOK
    <3>2. QED
      BY <1>1, <1>6, <1>8, <3>1 DEF IInv, TypeOK
  <2>5. Shape' /\ HeldOnce'
    BY <1>1 DEF IInv, Shape, HeldOnce
  <2>6. PageOwnership'
    <3>1. SUFFICES ASSUME NEW q \in Pages
                   PROVE  /\ q \in free' => /\ refs[q] = 0 /\ q \notin cached'
                                            /\ node'[q] = <<>>
                          /\ q \in cached' => refs[q] = 0 /\ node'[q] # <<>>
                          /\ refs[q] = 0 => q \in free' \cup cached'
      BY <1>1 DEF IInv, PageOwnership, Holders
    <3>2. /\ q \in free => refs[q] = 0 /\ q \notin cached /\ node[q] = <<>>
          /\ q \in cached => refs[q] = 0 /\ node[q] # <<>>
          /\ refs[q] = 0 => q \in free \cup cached
      BY DEF IInv, PageOwnership
    <3>3. /\ q \in free' <=> q \in free \/ (q \in cached /\ node[q] = path)
          /\ q \in cached' <=> q \in cached /\ node[q] # path
      BY <1>8
    <3>4. QED
      BY <2>1, <2>2, <2>3, <3>2, <3>3
  <2>7. IndexIsTrie'
    <3>1. SUFFICES ASSUME NEW q \in Pages, node'[q] # <<>>
                   PROVE  /\ \A u \in Pages : node'[u] = node'[q] => u = q
                          /\ Len(node'[q]) % PageSize = 0
                          /\ Len(node'[q]) > PageSize =>
                               \E u \in Pages :
                                 node'[u] = SubSeq(node'[q], 1, Len(node'[q]) - PageSize)
      BY DEF IndexIsTrie, Indexed
    <3>2. q # p => node'[q] = node[q] /\ node[q] # path
      BY <2>3, <3>1
    <3>3. \A u \in Pages : node'[u] = node'[q] => u = q
      <4>1. SUFFICES ASSUME NEW u \in Pages, node'[u] = node'[q] PROVE u = q
        OBVIOUS
      <4>2. u # p => node'[u] = node[u] /\ node[u] # path
        BY <2>3, <3>1, <4>1
      <4>3. QED
        BY <2>3, <3>1, <3>2, <4>1, <4>2 DEF IInv, IndexIsTrie
    <3>4. Len(node'[q]) % PageSize = 0
      <4>1. CASE q = p
        BY <1>2, <2>2, <2>3, <4>1, PageMultiple
      <4>2. CASE q # p
        BY <3>1, <3>2, <4>2 DEF IInv, IndexIsTrie
      <4>3. QED
        BY <4>1, <4>2
    <3>5. ASSUME Len(node'[q]) > PageSize
          PROVE  \E u \in Pages :
                   node'[u] = SubSeq(node'[q], 1, Len(node'[q]) - PageSize)
      <4> DEFINE parent == SubSeq(node'[q], 1, Len(node'[q]) - PageSize)
      <4>1. node'[q] \in Seq(Tokens) /\ Len(node'[q]) \in Nat
        BY <2>4, LenProperties DEF TypeOK
      <4>2. Len(node'[q]) - PageSize \in 0..Len(node'[q])
            /\ Len(node'[q]) - PageSize # 0
        BY <3>5, <4>1, PageSizeAssumption
      <4>3. Len(parent) = Len(node'[q]) - PageSize /\ parent # <<>>
        <5>1. Len(parent) = Len(node'[q]) - PageSize
          BY <4>1, <4>2, PrefixFacts
        <5>2. QED
          BY <4>2, <5>1, EmptySeq
      <4>4. PICK u \in Pages : node[u] = parent
        <5>1. CASE q = p
          BY <1>8, <2>3, <3>5, <5>1, PageSizeAssumption DEF Indexed
        <5>2. CASE q # p
          BY <3>1, <3>2, <3>5, <5>2 DEF IInv, IndexIsTrie, Indexed
        <5>3. QED
          BY <5>1, <5>2
      <4>5. CASE node[u] = path
        BY <2>1, <2>3, <4>4, <4>5
      <4>6. CASE node[u] # path
        <5>1. u # p
          BY <1>8, <4>3, <4>4
        <5>2. QED
          BY <2>3, <4>4, <4>6, <5>1
      <4>7. QED
        BY <4>5, <4>6
    <3>6. QED
      BY <3>3, <3>4, <3>5
  <2>8. IndexedPagesMatch'
    <3>1. SUFFICES ASSUME NEW q \in Pages, node'[q] # <<>>, NEW o \in 1..PageSize
                   PROVE  kv[q][o] =
                            Value(weights, node'[q], Len(node'[q]) - PageSize + o - 1)
      BY <1>1 DEF IndexedPagesMatch
    <3>2. CASE q = p
      <4>1. /\ Position(i, o) \in Nat /\ Position(i, o) < i * PageSize
            /\ Position(i, o) + 1 \in 0..(i * PageSize)
        BY <1>5, SlotPosition
      <4>2. Position(i, o) < Larger(done[r], hit[r])
        BY <1>2, <1>3, <1>5, <4>1 DEF Larger
      <4>3. kv[p][o] = Value(weights, tokens[r], Position(i, o))
        BY <1>2, <1>5, <4>2 DEF IInv, PagesMatch
      <4>4. Value(weights, tokens[r], Position(i, o))
              = Value(weights, path, Position(i, o))
        BY <2>2, <4>1 DEF Value
      <4>5. Len(path) - PageSize + o - 1 = Position(i, o)
        BY <1>5, <2>2, PageSizeAssumption DEF Position
      <4>6. QED
        BY <2>3, <3>2, <4>3, <4>4, <4>5
    <3>3. CASE q # p
      <4>1. node'[q] = node[q]
        BY <2>3, <3>1, <3>3
      <4>2. QED
        BY <3>1, <4>1 DEF IInv, IndexedPagesMatch
    <3>4. QED
      BY <3>2, <3>3
  <2>9. PagesMatch' /\ SharedPagesAgree'
    BY <1>1 DEF IInv, PagesMatch, SharedPagesAgree, Live
  <2>10. IndexedHeldAgree'
    <3>1. SUFFICES ASSUME NEW s \in Requests, NEW j \in 1..Len(held[s]),
                          node'[held[s][j]] # <<>>
                   PROVE  /\ j * PageSize <= Len(tokens[s])
                          /\ node'[held[s][j]] = Upto(tokens[s], j)
      BY <1>1 DEF IndexedHeldAgree
    <3>2. held[s][j] \in Pages /\ status[s] # "idle"
      BY HeldIsReferenced DEF IInv
    <3>3. CASE held[s][j] # p
      <4>1. node'[held[s][j]] = node[held[s][j]]
        BY <2>3, <3>1, <3>2, <3>3
      <4>2. QED
        BY <3>1, <4>1 DEF IInv, IndexedHeldAgree
    <3>4. CASE held[s][j] = p /\ s = r
      <4>1. j = i
        BY <1>2, <1>5, <3>4 DEF IInv, HeldOnce
      <4>2. QED
        BY <1>5, <2>3, <3>4, <4>1
    <3>5. CASE held[s][j] = p /\ s # r
      <4>1. s \in Live /\ r \in Live
        BY <1>2, <1>4, <3>2 DEF Live
      <4>2. j \in DOMAIN held[s] /\ i \in DOMAIN held[r]
        BY <1>2, <1>3, <1>5
      <4>3. /\ j = i /\ j * PageSize <= Len(tokens[s])
            /\ Upto(tokens[s], j) = Upto(tokens[r], j)
        BY <3>5, <4>1, <4>2 DEF IInv, SharedPagesAgree
      <4>4. QED
        BY <2>3, <3>5, <4>3
    <3>6. QED
      BY <3>3, <3>4, <3>5
  <2>11. QED
    BY <1>6, <2>4, <2>5, <2>6, <2>7, <2>8, <2>9, <2>10 DEF IInv
<1>9. QED
  BY <1>1, <1>2, <1>5, <1>7, <1>8, RecordHeldPage, SMTT(60)
-----------------------------------------------------------------------------
(* Taking pages from the pool. *)

\* The pages of N are taken from the free mask and what evicting V from the
\* cached pages lru gives back.
Take(lru, V, N) ==
    /\ lru \subseteq cached /\ V \subseteq lru
    /\ N \subseteq free \cup Reclaimed(V, lru)
    /\ free' = (free \cup Reclaimed(V, lru)) \ N
    /\ cached' = lru \ Reclaimed(V, lru)
    /\ node' = [p \in Pages |-> IF p \in Revoked(V) THEN <<>> ELSE node[p]]
    /\ kv' = [p \in Pages |->
                IF p \in N THEN [o \in 1..PageSize |-> Unwritten] ELSE kv[p]]

\* The pages taken are nobody's and not indexed; what was evicted with its whole
\* subtree leaves a trie; every other page keeps its place.
LEMMA TakeFacts ==
    ASSUME IInv, NEW lru, NEW V, NEW N, Take(lru, V, N)
    PROVE  /\ free' \subseteq Pages /\ cached' \subseteq Pages
           /\ node' \in [Pages -> Seq(Tokens)]
           /\ kv' \in [Pages -> [1..PageSize -> KVType]]
           /\ N \subseteq Pages
           /\ \A p \in N : /\ refs[p] = 0 /\ node'[p] = <<>>
                           /\ p \in free \/ p \in lru
           /\ \A p \in Pages \ N : kv'[p] = kv[p]
           /\ \A p \in Pages : node'[p] # <<>> => node'[p] = node[p] /\ p \notin N
           /\ \A p \in Pages :
                /\ p \in free' => /\ refs[p] = 0 /\ p \notin N /\ p \notin cached'
                                  /\ node'[p] = <<>>
                /\ p \in cached' => /\ refs[p] = 0 /\ p \notin N /\ p \in lru
                                    /\ node'[p] # <<>>
                /\ refs[p] = 0 /\ p \notin N /\ p \notin cached \ lru =>
                     p \in free' \cup cached'
           /\ IndexIsTrie'
<1>1. /\ lru \subseteq cached /\ V \subseteq lru /\ cached \subseteq Pages
      /\ free \subseteq Pages /\ node \in [Pages -> Seq(Tokens)]
      /\ kv \in [Pages -> [1..PageSize -> KVType]]
      /\ \A p \in Pages :
           /\ p \in free => refs[p] = 0 /\ p \notin cached /\ node[p] = <<>>
           /\ p \in cached => refs[p] = 0 /\ node[p] # <<>>
           /\ refs[p] = 0 => p \in free \cup cached
  BY DEF Take, IInv, TypeOK, PageOwnership
<1>2. /\ N \subseteq free \cup Reclaimed(V, lru)
      /\ free' = (free \cup Reclaimed(V, lru)) \ N
      /\ cached' = lru \ Reclaimed(V, lru)
      /\ node' = [p \in Pages |-> IF p \in Revoked(V) THEN <<>> ELSE node[p]]
      /\ kv' = [p \in Pages |->
                  IF p \in N THEN [o \in 1..PageSize |-> Unwritten] ELSE kv[p]]
  BY DEF Take
<1>3. V \subseteq Revoked(V)
  <2>1. \A v \in V : v \in Pages /\ node[v] # <<>> /\ node[v] \in Seq(Tokens)
    BY <1>1
  <2>2. \A v \in V : Below(node[v], node[v])
    BY <2>1, BelowParent, LenProperties
  <2>3. QED
    BY <2>1, <2>2 DEF Revoked
<1>4. Reclaimed(V, lru) = Revoked(V) \cap lru
  BY <1>1, <1>3 DEF Reclaimed
<1> HIDE DEF Reclaimed
<1>5. \A p \in Pages : node'[p] = IF p \in Revoked(V) THEN <<>> ELSE node[p]
  BY <1>2
<1>6. free' \subseteq Pages /\ cached' \subseteq Pages /\ N \subseteq Pages
  BY <1>1, <1>2, <1>4
<1>7. node' \in [Pages -> Seq(Tokens)]
  BY <1>1, <1>2, EmptySeq
<1>8. kv' \in [Pages -> [1..PageSize -> KVType]]
  <2>1. Unwritten \in KVType
    BY EmptySeq, LengthAssumption DEF Unwritten, KVType
  <2>2. QED
    BY <1>1, <1>2, <2>1
<1>9. \A p \in N : /\ refs[p] = 0 /\ node'[p] = <<>>
                   /\ p \in free \/ p \in lru
  BY <1>1, <1>2, <1>4, <1>5, <1>6
<1>10. \A p \in Pages \ N : kv'[p] = kv[p]
  BY <1>2
<1>11. \A p \in Pages : node'[p] # <<>> => node'[p] = node[p] /\ p \notin N
  BY <1>5, <1>9
<1>12. \A p \in Pages :
         /\ p \in free' => /\ refs[p] = 0 /\ p \notin N /\ p \notin cached'
                           /\ node'[p] = <<>>
         /\ p \in cached' => /\ refs[p] = 0 /\ p \notin N /\ p \in lru
                             /\ node'[p] # <<>>
         /\ refs[p] = 0 /\ p \notin N /\ p \notin cached \ lru =>
              p \in free' \cup cached'
  BY <1>1, <1>2, <1>4, <1>5, <1>6
<1>13. IndexIsTrie'
  <2>1. SUFFICES ASSUME NEW p \in Pages, node'[p] # <<>>
                 PROVE  /\ \A q \in Pages : node'[q] = node'[p] => q = p
                        /\ Len(node'[p]) % PageSize = 0
                        /\ Len(node'[p]) > PageSize =>
                             \E q \in Pages :
                               node'[q] = SubSeq(node'[p], 1, Len(node'[p]) - PageSize)
    BY DEF IndexIsTrie, Indexed
  <2>2. node'[p] = node[p] /\ p \notin Revoked(V)
    BY <1>5, <2>1
  <2>3. /\ \A q \in Pages : node[q] = node[p] => q = p
        /\ Len(node[p]) % PageSize = 0
        /\ Len(node[p]) > PageSize =>
             \E q \in Pages : node[q] = SubSeq(node[p], 1, Len(node[p]) - PageSize)
    BY <2>1, <2>2 DEF IInv, IndexIsTrie, Indexed
  <2>4. \A q \in Pages : node'[q] = node'[p] => q = p
    BY <1>11, <2>1, <2>2, <2>3
  <2>5. ASSUME Len(node[p]) > PageSize
        PROVE  \E q \in Pages :
                 node'[q] = SubSeq(node[p], 1, Len(node[p]) - PageSize)
    <3>1. PICK q \in Pages : node[q] = SubSeq(node[p], 1, Len(node[p]) - PageSize)
      BY <2>3, <2>5
    <3>2. node[p] \in Seq(Tokens) /\ Len(node[p]) \in Nat /\ node[q] \in Seq(Tokens)
      BY <1>1, LenProperties
    <3>3. Len(node[p]) - PageSize \in 0..Len(node[p])
      BY <2>5, <3>2, PageSizeAssumption
    <3>4. Below(node[p], node[q])
      BY <3>1, <3>2, <3>3, BelowParent
    <3>5. q \notin Revoked(V)
      <4>1. SUFFICES ASSUME q \in Revoked(V) PROVE FALSE
        OBVIOUS
      <4>2. PICK v \in V : Below(node[q], node[v])
        BY <4>1 DEF Revoked
      <4>3. node[v] \in Seq(Tokens)
        BY <1>1
      <4>4. Below(node[p], node[v])
        BY <3>2, <3>4, <4>2, <4>3, BelowTransitive
      <4>5. p \in Revoked(V)
        BY <2>1, <2>2, <4>4 DEF Revoked
      <4>6. QED
        BY <2>2, <4>5
    <3>6. QED
      BY <1>5, <3>1, <3>5
  <2>6. QED
    BY <2>2, <2>3, <2>4, <2>5
<1>14. QED
  BY <1>6, <1>7, <1>8, <1>9, <1>10, <1>11, <1>12, <1>13

\* A page taken from the pool is in no request's list.
LEMMA TakenIsNotHeld ==
    ASSUME IInv, NEW lru, NEW V, NEW N, Take(lru, V, N),
           NEW s \in Requests, NEW i \in 1..Len(held[s])
    PROVE  held[s][i] \notin N
<1>1. \A p \in N : p \in Pages /\ refs[p] = 0
  BY TakeFacts
<1>2. QED
  BY <1>1, HeldIsReferenced DEF IInv
-----------------------------------------------------------------------------
(* Admission. *)

\* A function on 1..n is a sequence of length n.
LEMMA FunctionIsSeq ==
    ASSUME NEW S, NEW n \in Nat, NEW f \in [1..n -> S]
    PROVE  f \in Seq(S) /\ Len(f) = n
<1>1. f \in Seq(S)
  BY SeqDef
<1>2. DOMAIN f = 1..Len(f) /\ Len(f) \in Nat
  BY <1>1, LenProperties
<1>3. QED
  BY <1>1, <1>2

\* The pages a lookup finds are indexed under the prompt's pages, one each.
LEMMA HitFacts ==
    ASSUME IInv, NEW ts \in Prompts, NEW k \in 0..(Len(ts) \div PageSize),
           IsHitCount(k, ts)
    PROVE  /\ k \in Nat /\ k * PageSize \in Nat /\ k * PageSize <= Len(ts)
           /\ k <= PagesFor(Len(ts))
           /\ \A i \in 1..k :
                /\ PageAt(Upto(ts, i)) \in Pages
                /\ node[PageAt(Upto(ts, i))] = Upto(ts, i)
                /\ i * PageSize <= Len(ts)
                /\ Len(Upto(ts, i)) = i * PageSize
                /\ Upto(ts, i) # <<>>
           /\ \A i, j \in 1..k : PageAt(Upto(ts, i)) = PageAt(Upto(ts, j)) => i = j
<1>1. ts \in Seq(Tokens) /\ Len(ts) \in Nat
  BY PromptsAssumption, LenProperties
<1>2. /\ Len(ts) \div PageSize \in Nat
      /\ (Len(ts) \div PageSize) * PageSize <= Len(ts)
      /\ Len(ts) \div PageSize <= PagesFor(Len(ts))
  <2>1. /\ Len(ts) \div PageSize \in Nat
        /\ Len(ts) % PageSize \in 0..(PageSize - 1)
        /\ Len(ts) = (Len(ts) \div PageSize) * PageSize + (Len(ts) % PageSize)
    BY <1>1, PositionSplit, Zenon
  <2>2. (Len(ts) \div PageSize) * PageSize \in Nat
    BY <2>1, PagesNat
  <2>3. Len(ts) \div PageSize <= PagesFor(Len(ts))
    BY <1>1, PagesForEnough
  <2>4. QED
    BY <1>1, <2>1, <2>2, <2>3, PageSizeAssumption
<1>3. \A i \in 0..k : i \in Nat /\ i * PageSize \in Nat /\ i * PageSize <= Len(ts)
  <2>1. SUFFICES ASSUME NEW i \in 0..k
                 PROVE  i \in Nat /\ i * PageSize \in Nat /\ i * PageSize <= Len(ts)
    OBVIOUS
  <2>2. i \in Nat /\ i <= Len(ts) \div PageSize
    BY <1>2
  <2>3. i * PageSize <= (Len(ts) \div PageSize) * PageSize
    BY <1>2, <2>2, PagesWeaklyMonotone
  <2>4. i * PageSize \in Nat /\ (Len(ts) \div PageSize) * PageSize \in Nat
    BY <1>2, <2>2, PagesNat
  <2>5. QED
    BY <1>1, <1>2, <2>2, <2>3, <2>4
<1>4. k \in Nat /\ k <= PagesFor(Len(ts)) /\ PagesFor(Len(ts)) \in Nat
  BY <1>1, <1>2, PagesForEnough
<1>5. ASSUME NEW i \in 1..k
      PROVE  /\ PageAt(Upto(ts, i)) \in Pages
             /\ node[PageAt(Upto(ts, i))] = Upto(ts, i)
             /\ i * PageSize <= Len(ts) /\ i \in Nat
             /\ Len(Upto(ts, i)) = i * PageSize
             /\ Upto(ts, i) # <<>>
  <2>1. i \in 0..k /\ i \in Nat /\ i >= 1
    BY <1>4
  <2>2. i * PageSize <= Len(ts)
    BY <1>3, <2>1
  <2>3. Len(Upto(ts, i)) = i * PageSize /\ Upto(ts, i) # <<>>
    BY <1>1, <2>1, <2>2, UptoFacts
  <2>4. Indexed(Upto(ts, i))
    BY DEF IsHitCount
  <2>5. QED
    BY <2>1, <2>2, <2>3, <2>4 DEF Indexed, PageAt
<1>6. ASSUME NEW i \in 1..k, NEW j \in 1..k,
             PageAt(Upto(ts, i)) = PageAt(Upto(ts, j))
      PROVE  i = j
  <2>1. i * PageSize = j * PageSize /\ i \in Nat /\ j \in Nat
    BY <1>5, <1>6
  <2>2. (i * PageSize) \div PageSize = i /\ (j * PageSize) \div PageSize = j
    BY <2>1, PageMultiple
  <2>3. QED
    BY <2>1, <2>2
<1>7. k * PageSize \in Nat /\ k * PageSize <= Len(ts)
  BY <1>3, <1>4
<1>8. QED
  BY <1>4, <1>5, <1>6, <1>7

\* The successful branch of Admit: k hits, then pages taken from the pool.
Admitted(r, ts, k, lru, V, new) ==
    LET hits == [i \in 1..k |-> PageAt(Upto(ts, i))]
    IN  /\ status[r] = "idle" /\ publishing = None
        /\ lru = cached \ Elements(hits)
        /\ Take(lru, V, Elements(new))
        /\ new \in [1..(PagesFor(Len(ts)) - k) -> Pages]
        /\ \A i, j \in DOMAIN new : new[i] = new[j] => i = j
        /\ held' = [held EXCEPT ![r] = hits \o new]
        /\ hit' = [hit EXCEPT ![r] = k * PageSize]
        /\ refs' = [p \in Pages |->
                      IF p \in Elements(new) THEN 1
                      ELSE IF p \in Elements(hits) THEN refs[p] + 1 ELSE refs[p]]
        /\ tokens' = [tokens EXCEPT ![r] = ts]
        /\ promptLen' = [promptLen EXCEPT ![r] = Len(ts)]
        /\ length' = [length EXCEPT ![r] = Len(ts)]
        /\ done' = [done EXCEPT ![r] = 0]
        /\ status' = [status EXCEPT ![r] = "running"]
        /\ publishing' = publishing /\ weights' = weights

\* Every Admit is an Admitted step: the hits are the indexed pages of the
\* prompt's leading pages and the new pages are none of them.
LEMMA AdmitIsAdmitted ==
    ASSUME IInv, NEW r \in Requests, NEW ts \in Prompts, Admit(r, ts)
    PROVE  \E k \in 0..(Len(ts) \div PageSize) :
             /\ IsHitCount(k, ts)
             /\ \E lru, V, new : Admitted(r, ts, k, lru, V, new)
<1> DEFINE H(k) == [i \in 1..k |-> PageAt(Upto(ts, i))]
           L(k) == Unpinned(Elements(H(k)))
           N(k) == PagesFor(Len(ts)) - k
           Taken(k, V, new) ==
             /\ held' = [held EXCEPT ![r] = H(k) \o new]
             /\ hit' = [hit EXCEPT ![r] = k * PageSize]
             /\ refs' = [p \in Pages |->
                           IF p \in Elements(new) THEN 1
                           ELSE Pinned(Elements(H(k)))[p]]
             /\ free' = (free \cup Reclaimed(V, L(k))) \ Elements(new)
             /\ cached' = L(k) \ Reclaimed(V, L(k))
             /\ node' = [p \in Pages |-> IF p \in Revoked(V) THEN <<>> ELSE node[p]]
             /\ kv' = [p \in Pages |->
                         IF p \in Elements(new)
                         THEN [o \in 1..PageSize |-> Unwritten] ELSE kv[p]]
<1>1. PICK k \in 0..(Len(ts) \div PageSize) :
        /\ IsHitCount(k, ts)
        /\ \E V \in EvictionSets(free, L(k), N(k)) :
             \E new \in Harvests(free \cup Reclaimed(V, L(k)), N(k)) :
               Taken(k, V, new)
  BY DEF Admit
<1> DEFINE hits == H(k)
           lru == L(k)
           need == N(k)
<1>2. PICK V \in EvictionSets(free, lru, need) :
        \E new \in Harvests(free \cup Reclaimed(V, lru), need) : Taken(k, V, new)
  BY <1>1
<1>3. PICK new \in Harvests(free \cup Reclaimed(V, lru), need) : Taken(k, V, new)
  BY <1>2
<1>4. V \subseteq lru /\ lru \subseteq cached /\ lru = cached \ Elements(hits)
  BY DEF EvictionSets, Unpinned
<1>5. /\ new \in [1..need -> free \cup Reclaimed(V, lru)]
      /\ \A i, j \in 1..need : new[i] = new[j] => i = j
  BY DEF Harvests
<1>6. free \cup Reclaimed(V, lru) \subseteq Pages
  BY <1>4 DEF Reclaimed, IInv, TypeOK
<1>7. new \in [1..need -> Pages] /\ \A i, j \in DOMAIN new : new[i] = new[j] => i = j
  BY <1>5, <1>6
<1>8. Elements(new) \subseteq free \cup Reclaimed(V, lru)
  BY <1>5 DEF Elements
<1>9. Take(lru, V, Elements(new))
  BY <1>3, <1>4, <1>8 DEF Take
<1>10. refs' = [p \in Pages |->
                 IF p \in Elements(new) THEN 1
                 ELSE IF p \in Elements(hits) THEN refs[p] + 1 ELSE refs[p]]
  BY <1>3 DEF Pinned
<1>11. Admitted(r, ts, k, lru, V, new)
  BY <1>3, <1>4, <1>7, <1>9, <1>10 DEF Admitted, Admit, Unlocked
<1>12. QED
  BY <1>1, <1>11

\* Admission keeps the invariant: what it finds in the index carries the KV of
\* the new prompt, what it takes from the pool is nobody's.
LEMMA AdmittedStep ==
    ASSUME IInv, NEW r \in Requests, NEW ts \in Prompts,
           NEW k \in 0..(Len(ts) \div PageSize), IsHitCount(k, ts),
           NEW lru, NEW V, NEW new, Admitted(r, ts, k, lru, V, new)
    PROVE  IInv'
<1> DEFINE hits == [i \in 1..k |-> PageAt(Upto(ts, i))]
           N == Elements(new)
           H == Elements(hits)
           pages == hits \o new
           total == PagesFor(Len(ts))
<1>1. /\ status[r] = "idle" /\ publishing = None
      /\ lru = cached \ H
      /\ Take(lru, V, N)
      /\ new \in [1..(total - k) -> Pages]
      /\ \A i, j \in DOMAIN new : new[i] = new[j] => i = j
      /\ held' = [held EXCEPT ![r] = pages]
      /\ hit' = [hit EXCEPT ![r] = k * PageSize]
      /\ refs' = [p \in Pages |->
                    IF p \in N THEN 1
                    ELSE IF p \in H THEN refs[p] + 1 ELSE refs[p]]
      /\ tokens' = [tokens EXCEPT ![r] = ts]
      /\ promptLen' = [promptLen EXCEPT ![r] = Len(ts)]
      /\ length' = [length EXCEPT ![r] = Len(ts)]
      /\ done' = [done EXCEPT ![r] = 0]
      /\ status' = [status EXCEPT ![r] = "running"]
      /\ publishing' = publishing /\ weights' = weights
  BY DEF Admitted
<1>2. /\ k \in Nat /\ k * PageSize \in Nat /\ k * PageSize <= Len(ts)
      /\ k <= total
      /\ \A i \in 1..k :
           /\ hits[i] \in Pages
           /\ node[hits[i]] = Upto(ts, i)
           /\ i * PageSize <= Len(ts)
           /\ Len(Upto(ts, i)) = i * PageSize
           /\ node[hits[i]] # <<>>
      /\ \A i, j \in 1..k : hits[i] = hits[j] => i = j
  BY HitFacts
<1>3. /\ ts \in Seq(Tokens) /\ Len(ts) \in 1..MaxSeqLen /\ Len(ts) \in Nat
      /\ total \in Nat /\ Len(ts) <= total * PageSize
      /\ total - k \in Nat
  <2>1. ts \in Seq(Tokens) /\ Len(ts) \in 1..MaxSeqLen /\ Len(ts) \in Nat
    BY PromptsAssumption, LenProperties
  <2>2. total \in Nat /\ Len(ts) <= total * PageSize
    BY <2>1, PagesForEnough
  <2>3. QED
    BY <1>2, <2>1, <2>2
<1>4. /\ hits \in Seq(Pages) /\ Len(hits) = k
      /\ new \in Seq(Pages) /\ Len(new) = total - k
  <2>1. hits \in [1..k -> Pages]
    BY <1>2
  <2>2. QED
    BY <1>1, <1>2, <1>3, <2>1, FunctionIsSeq
<1>5. DOMAIN hits = 1..k /\ DOMAIN new = 1..(total - k)
  BY <1>1
<1> HIDE DEF hits
<1>6. /\ pages \in Seq(Pages) /\ Len(pages) = total
      /\ \A i \in 1..k : pages[i] = hits[i]
      /\ \A i \in (k + 1)..total : /\ i - k \in 1..(total - k)
                                   /\ pages[i] = new[i - k]
  <2>1. /\ pages \in Seq(Pages) /\ Len(pages) = Len(hits) + Len(new)
        /\ \A i \in 1..(Len(hits) + Len(new)) :
             pages[i] = IF i <= Len(hits) THEN hits[i] ELSE new[i - Len(hits)]
    BY <1>4, ConcatProperties
  <2>2. QED
    BY <1>2, <1>3, <1>4, <2>1
<1> HIDE DEF pages, total
<1>7. /\ N \subseteq Pages
      /\ \A p \in N : /\ refs[p] = 0 /\ node'[p] = <<>>
                      /\ p \in free \/ p \in lru
      /\ \A p \in Pages \ N : kv'[p] = kv[p]
      /\ \A p \in Pages : node'[p] # <<>> => node'[p] = node[p] /\ p \notin N
  BY <1>1, TakeFacts
<1>8. /\ H \subseteq Pages /\ H \cap N = {}
      /\ \A p \in H : node[p] # <<>>
  <2>1. \A p \in H : p \in Pages /\ node[p] # <<>>
    BY <1>2, <1>5 DEF Elements
  <2>2. \A p \in free : node[p] = <<>>
    BY DEF IInv, TypeOK, PageOwnership
  <2>3. QED
    BY <1>1, <1>7, <2>1, <2>2
<1>9. /\ \A i \in 1..k : pages[i] \in H
      /\ \A i \in (k + 1)..total : pages[i] \in N
      /\ Elements(pages) = H \cup N
  <2>1. \A i \in 1..k : pages[i] \in H
    BY <1>5, <1>6 DEF Elements
  <2>2. \A i \in (k + 1)..total : pages[i] \in N
    BY <1>5, <1>6 DEF Elements
  <2>3. DOMAIN pages = 1..total
    BY <1>6, LenProperties
  <2>4. Elements(pages) \subseteq H \cup N
    BY <1>2, <1>3, <2>1, <2>2, <2>3 DEF Elements
  <2>5. H \subseteq Elements(pages)
    <3>1. SUFFICES ASSUME NEW i \in 1..k PROVE hits[i] \in Elements(pages)
      BY <1>5 DEF Elements
    <3>2. i \in DOMAIN pages /\ pages[i] = hits[i]
      BY <1>2, <1>3, <1>6, <2>3
    <3>3. QED
      BY <3>2 DEF Elements
  <2>6. N \subseteq Elements(pages)
    <3>1. SUFFICES ASSUME NEW j \in 1..(total - k) PROVE new[j] \in Elements(pages)
      BY <1>5 DEF Elements
    <3>2. j + k \in (k + 1)..total /\ j + k \in DOMAIN pages /\ (j + k) - k = j
      BY <1>2, <1>3, <2>3
    <3>3. pages[j + k] = new[j]
      BY <1>6, <3>2
    <3>4. QED
      BY <3>2, <3>3 DEF Elements
  <2>7. QED
    BY <2>1, <2>2, <2>4, <2>5, <2>6
<1>10. \A s \in Requests :
        /\ held[s] \in Seq(Pages) /\ Len(held[s]) \in Nat
        /\ DOMAIN held[s] = 1..Len(held[s])
        /\ \A i \in 1..Len(held[s]) : held[s][i] \in Pages
        /\ tokens[s] \in Seq(Tokens) /\ Len(tokens[s]) \in Nat
  BY ElementOfSeq, LenProperties DEF IInv, TypeOK
<1>11. /\ held'[r] = pages /\ tokens'[r] = ts /\ hit'[r] = k * PageSize
       /\ promptLen'[r] = Len(ts) /\ length'[r] = Len(ts) /\ done'[r] = 0
       /\ status'[r] = "running"
       /\ \A s \in Requests \ {r} :
            /\ held'[s] = held[s] /\ tokens'[s] = tokens[s] /\ hit'[s] = hit[s]
            /\ promptLen'[s] = promptLen[s] /\ length'[s] = length[s]
            /\ done'[s] = done[s] /\ status'[s] = status[s]
  BY <1>1 DEF IInv, TypeOK
<1>12. held[r] = <<>> /\ Elements(held[r]) = {}
  <2>1. held[r] = <<>>
    BY <1>1 DEF IInv, Shape
  <2>2. DOMAIN held[r] = {}
    BY <1>10, <2>1, EmptySeq
  <2>3. QED
    BY <2>1, <2>2 DEF Elements
<1>13. \A s \in Requests \ {r} : \A i \in 1..Len(held[s]) : held[s][i] \notin N
  BY <1>1, TakenIsNotHeld
<1>14. TypeOK'
  <2>1. /\ free' \subseteq Pages /\ cached' \subseteq Pages
        /\ node' \in [Pages -> Seq(Tokens)]
        /\ kv' \in [Pages -> [1..PageSize -> KVType]]
    BY <1>1, TakeFacts
  <2>2. refs' \in [Pages -> Nat]
    BY <1>1 DEF IInv, TypeOK
  <2>3. /\ held' \in [Requests -> Seq(Pages)]
        /\ tokens' \in [Requests -> Seq(Tokens)]
        /\ hit' \in [Requests -> Nat] /\ promptLen' \in [Requests -> Nat]
        /\ length' \in [Requests -> Nat] /\ done' \in [Requests -> Nat]
        /\ status' \in [Requests -> {"idle", "running", "finished", "aborted"}]
    BY <1>1, <1>2, <1>3, <1>6 DEF IInv, TypeOK
  <2>4. QED
    BY <1>1, <2>1, <2>2, <2>3 DEF IInv, TypeOK
<1>15. Shape'
  <2>1. SUFFICES ASSUME NEW s \in Requests
                 PROVE  /\ status'[s] = "idle" =>
                            /\ held'[s] = <<>> /\ tokens'[s] = <<>>
                            /\ hit'[s] = 0 /\ promptLen'[s] = 0
                            /\ length'[s] = 0 /\ done'[s] = 0
                        /\ status'[s] # "idle" =>
                            /\ promptLen'[s] \in 1..Len(tokens'[s])
                            /\ promptLen'[s] <= length'[s]
                            /\ hit'[s] <= promptLen'[s]
                            /\ done'[s] <= length'[s]
                            /\ done'[s] <= Len(tokens'[s])
                            /\ length'[s] <= Len(held'[s]) * PageSize
    BY DEF Shape
  <2>2. CASE s = r
    BY <1>2, <1>3, <1>6, <1>11, <2>2
  <2>3. CASE s # r
    BY <1>11, <2>3 DEF IInv, Shape
  <2>4. QED
    BY <2>2, <2>3
<1>16. HeldOnce'
  <2>1. SUFFICES ASSUME NEW i \in 1..total, NEW j \in 1..total, pages[i] = pages[j]
                 PROVE  i = j
    <3>1. \A s \in Requests \ {r} : \A i, j \in 1..Len(held'[s]) :
            held'[s][i] = held'[s][j] => i = j
      BY <1>11 DEF IInv, HeldOnce
    <3>2. Len(held'[r]) = total /\ held'[r] = pages
      BY <1>6, <1>11
    <3>3. SUFFICES ASSUME NEW s \in Requests, NEW i \in 1..Len(held'[s]),
                          NEW j \in 1..Len(held'[s]), held'[s][i] = held'[s][j]
                   PROVE  i = j
      BY DEF HeldOnce
    <3>4. CASE s = r
      BY <2>1, <3>2, <3>3, <3>4
    <3>5. CASE s # r
      BY <3>1, <3>3, <3>5
    <3>6. QED
      BY <3>4, <3>5
  <2>2. CASE i <= k /\ j <= k
    <3>1. i \in 1..k /\ j \in 1..k
      BY <1>2, <1>3, <2>2
    <3>2. QED
      BY <1>2, <1>6, <2>1, <3>1
  <2>3. CASE i > k /\ j > k
    <3>1. i \in (k + 1)..total /\ j \in (k + 1)..total
      BY <1>2, <1>3, <2>3
    <3>2. new[i - k] = new[j - k] /\ i - k \in DOMAIN new /\ j - k \in DOMAIN new
      BY <1>5, <1>6, <2>1, <3>1
    <3>3. i - k = j - k
      BY <1>1, <3>2
    <3>4. QED
      BY <1>2, <1>3, <3>3
  <2>4. CASE (i <= k /\ j > k) \/ (i > k /\ j <= k)
    <3>1. (i \in 1..k /\ j \in (k + 1)..total) \/ (i \in (k + 1)..total /\ j \in 1..k)
      BY <1>2, <1>3, <2>4
    <3>2. QED
      BY <1>8, <1>9, <2>1, <3>1
  <2>5. QED
    BY <1>2, <1>3, <2>2, <2>3, <2>4
<1>17. PageOwnership'
  <2>1. SUFFICES ASSUME NEW p \in Pages
                 PROVE  /\ refs'[p] = Cardinality(Holders(p)')
                        /\ p \in free' => /\ refs'[p] = 0 /\ p \notin cached'
                                          /\ node'[p] = <<>>
                        /\ p \in cached' => refs'[p] = 0 /\ node'[p] # <<>>
                        /\ refs'[p] = 0 => p \in free' \cup cached'
    BY DEF PageOwnership
  <2>2. Holders(p)' = IF p \in H \cup N THEN Holders(p) \cup {r} ELSE Holders(p)
    <3>1. \A s \in Requests : p \in Elements(held'[s])
            <=> (s = r /\ p \in H \cup N) \/ (s # r /\ p \in Elements(held[s]))
      BY <1>9, <1>11
    <3>2. Holders(p) = {s \in Requests : s # r /\ p \in Elements(held[s])}
      BY <1>12 DEF Holders
    <3>3. QED
      BY <3>1, <3>2 DEF Holders
  <2>3. r \notin Holders(p)
    BY <1>12 DEF Holders
  <2>4. refs'[p] = IF p \in H \cup N THEN refs[p] + 1 ELSE refs[p]
    BY <1>1, <1>7
  <2>5. refs'[p] = Cardinality(Holders(p)')
    <3>1. IsFiniteSet(Holders(p)) /\ refs[p] = Cardinality(Holders(p))
      BY HoldersCounted DEF IInv
    <3>2. Cardinality(Holders(p) \cup {r}) = Cardinality(Holders(p)) + 1
      BY <2>3, <3>1, FS_AddElement
    <3>3. QED
      BY <2>2, <2>4, <3>1, <3>2
  <2>6. /\ p \in free' => /\ refs[p] = 0 /\ p \notin N /\ p \notin cached'
                          /\ node'[p] = <<>>
        /\ p \in cached' => /\ refs[p] = 0 /\ p \notin N /\ p \in lru
                            /\ node'[p] # <<>>
        /\ refs[p] = 0 /\ p \notin N /\ p \notin cached \ lru =>
             p \in free' \cup cached'
    BY <1>1, TakeFacts
  <2>7. p \in free' => p \notin H
    <3>1. SUFFICES ASSUME p \in free', p \in H PROVE FALSE
      OBVIOUS
    <3>2. refs[p] = 0 /\ node[p] # <<>>
      BY <1>8, <2>6, <3>1
    <3>3. p \in cached
      BY <3>2 DEF IInv, PageOwnership
    <3>4. p \notin lru /\ p \notin free
      BY <1>1, <3>1, <3>2 DEF IInv, PageOwnership
    <3>5. free' \subseteq free \cup lru
      BY <1>1 DEF Take, Reclaimed
    <3>6. QED
      BY <3>1, <3>4, <3>5
  <2>8. p \in cached' => p \notin H
    BY <1>1, <2>6
  <2>9. refs[p] \in Nat
    BY DEF IInv, TypeOK
  <2>10. refs'[p] = 0 => refs[p] = 0 /\ p \notin N /\ p \notin H
    BY <2>4, <2>9
  <2>11. p \notin H => p \notin cached \ lru
    BY <1>1
  <2>12. p \in free' \/ p \in cached' => refs'[p] = 0
    BY <2>4, <2>6, <2>7, <2>8
  <2>13. QED
    BY <2>5, <2>6, <2>10, <2>11, <2>12
<1>18. IndexIsTrie'
  BY <1>1, TakeFacts
<1>19. IndexedPagesMatch'
  <2>1. SUFFICES ASSUME NEW p \in Pages, node'[p] # <<>>, NEW o \in 1..PageSize
                 PROVE  kv'[p][o] =
                          Value(weights, node'[p], Len(node'[p]) - PageSize + o - 1)
    BY <1>1 DEF IndexedPagesMatch
  <2>2. node'[p] = node[p] /\ kv'[p] = kv[p]
    BY <1>7, <2>1
  <2>3. QED
    BY <2>1, <2>2 DEF IInv, IndexedPagesMatch
<1>20. PagesMatch'
  <2>1. SUFFICES ASSUME NEW s \in Requests, NEW i \in 1..Len(held'[s]),
                        NEW o \in 1..PageSize,
                        Position(i, o) < Larger(done'[s], hit'[s])
                 PROVE  kv'[held'[s][i]][o]
                          = Value(weights, tokens'[s], Position(i, o))
    BY <1>1 DEF PagesMatch
  <2>2. CASE s # r
    <3>1. /\ held'[s] = held[s] /\ tokens'[s] = tokens[s]
          /\ hit'[s] = hit[s] /\ done'[s] = done[s]
      BY <1>11, <2>2
    <3>2. held[s][i] \notin N /\ held[s][i] \in Pages
      BY <1>10, <1>13, <2>2, <3>1
    <3>3. QED
      BY <1>7, <2>1, <3>1, <3>2 DEF IInv, PagesMatch
  <2>3. CASE s = r
    <3>1. Position(i, o) < k * PageSize
      BY <1>2, <1>11, <2>1, <2>3 DEF Larger
    <3>2. i \in Nat \ {0} /\ i \in 1..total
      BY <1>3, <1>6, <1>11, <2>3
    <3>3. /\ Position(i, o) \in Nat
          /\ Position(i, o) \div PageSize + 1 = i
          /\ Position(i, o) + 1 \in 0..(i * PageSize)
      BY <3>2, SlotPosition
    <3>4. Position(i, o) \div PageSize < k
      BY <1>2, <3>1, <3>3, PositionBelow
    <3>5. i \in 1..k
      <4>1. \A d \in Nat : d < k /\ d + 1 = i => i \in 1..k
        BY <1>2, <3>2
      <4>2. Position(i, o) \div PageSize \in Nat
        BY <3>3, PositionSplit
      <4>3. QED
        BY <3>3, <3>4, <4>1, <4>2, Zenon
    <3>6. pages[i] = hits[i] /\ hits[i] \in Pages /\ hits[i] \notin N
      BY <1>2, <1>6, <1>8, <1>9, <3>5
    <3>7. /\ kv'[hits[i]] = kv[hits[i]]
          /\ kv[hits[i]][o] = Value(weights, node[hits[i]],
                                    Len(node[hits[i]]) - PageSize + o - 1)
      BY <1>2, <1>7, <3>5, <3>6 DEF IInv, IndexedPagesMatch
    <3>8. Len(node[hits[i]]) - PageSize + o - 1 = Position(i, o)
      <4>1. Len(node[hits[i]]) = i * PageSize
        BY <1>2, <3>5
      <4>2. QED
        BY <3>2, <4>1, PageSizeAssumption DEF Position
    <3>9. SubSeq(Upto(ts, i), 1, Position(i, o) + 1)
            = SubSeq(ts, 1, Position(i, o) + 1)
      BY <1>2, <1>3, <3>2, <3>3, <3>5, UptoFacts
    <3>10. QED
      BY <1>2, <1>11, <2>3, <3>5, <3>6, <3>7, <3>8, <3>9 DEF Value
  <2>4. QED
    BY <2>2, <2>3
<1>21. IndexedHeldAgree'
  <2>1. SUFFICES ASSUME NEW s \in Requests, NEW i \in 1..Len(held'[s]),
                        node'[held'[s][i]] # <<>>
                 PROVE  /\ i * PageSize <= Len(tokens'[s])
                        /\ node'[held'[s][i]] = Upto(tokens'[s], i)
    BY DEF IndexedHeldAgree
  <2>2. CASE s # r
    <3>1. held'[s] = held[s] /\ tokens'[s] = tokens[s]
      BY <1>11, <2>2
    <3>2. node'[held[s][i]] = node[held[s][i]]
      BY <1>7, <1>10, <2>1, <3>1
    <3>3. QED
      BY <2>1, <3>1, <3>2 DEF IInv, IndexedHeldAgree
  <2>3. CASE s = r
    <3>1. i \in 1..total /\ held'[s][i] = pages[i]
      BY <1>6, <1>11, <2>3
    <3>2. i \in 1..k
      BY <1>2, <1>3, <1>7, <1>9, <2>1, <3>1
    <3>3. pages[i] = hits[i] /\ node'[hits[i]] = node[hits[i]]
      BY <1>2, <1>6, <1>7, <2>1, <3>1, <3>2
    <3>4. QED
      BY <1>2, <1>11, <2>3, <3>1, <3>2, <3>3
  <2>4. QED
    BY <2>2, <2>3
<1>22. ASSUME NEW s \in Requests \ {r}, NEW i \in 1..total,
              NEW j \in 1..Len(held[s]), pages[i] = held[s][j]
       PROVE  /\ i = j /\ i * PageSize <= Len(ts) /\ i * PageSize <= Len(tokens[s])
              /\ Upto(ts, i) = Upto(tokens[s], i)
  <2>1. i \in 1..k
    BY <1>2, <1>3, <1>9, <1>13, <1>22
  <2>2. /\ pages[i] = hits[i] /\ node[hits[i]] = Upto(ts, i)
        /\ node[hits[i]] # <<>> /\ Len(Upto(ts, i)) = i * PageSize
        /\ i * PageSize <= Len(ts)
    BY <1>2, <1>6, <2>1
  <2>3. j * PageSize <= Len(tokens[s]) /\ node[hits[i]] = Upto(tokens[s], j)
    BY <1>22, <2>2 DEF IInv, IndexedHeldAgree
  <2>4. i \in Nat /\ j \in Nat
    BY <1>2, <1>10
  <2>5. Len(Upto(tokens[s], j)) = j * PageSize
    BY <1>10, <2>3, <2>4, UptoFacts
  <2>6. i * PageSize = j * PageSize
    BY <2>2, <2>3, <2>5
  <2>7. (i * PageSize) \div PageSize = i /\ (j * PageSize) \div PageSize = j
    BY <2>4, PageMultiple
  <2>8. i = j
    BY <2>6, <2>7
  <2>9. QED
    BY <2>2, <2>3, <2>8
<1>23. SharedPagesAgree'
  <2>1. SUFFICES ASSUME NEW s \in Live', NEW u \in Live',
                        NEW i \in DOMAIN held'[s], NEW j \in DOMAIN held'[u],
                        s # u, held'[s][i] = held'[u][j]
                 PROVE  /\ i = j
                        /\ i * PageSize <= Len(tokens'[s])
                        /\ i * PageSize <= Len(tokens'[u])
                        /\ Upto(tokens'[s], i) = Upto(tokens'[u], i)
    BY DEF SharedPagesAgree
  <2>2. s \in Requests /\ u \in Requests
    BY DEF Live
  <2>3. DOMAIN pages = 1..total
    BY <1>6, LenProperties
  <2>4. CASE s = r
    <3>1. u \in Requests \ {r} /\ i \in 1..total /\ j \in 1..Len(held[u])
          /\ pages[i] = held[u][j]
      BY <1>10, <1>11, <2>1, <2>2, <2>3, <2>4
    <3>2. QED
      BY <1>11, <1>22, <2>4, <3>1
  <2>5. CASE u = r
    <3>1. s \in Requests \ {r} /\ j \in 1..total /\ i \in 1..Len(held[s])
          /\ pages[j] = held[s][i]
      BY <1>10, <1>11, <2>1, <2>2, <2>3, <2>5
    <3>2. /\ j = i /\ j * PageSize <= Len(ts) /\ j * PageSize <= Len(tokens[s])
          /\ Upto(ts, j) = Upto(tokens[s], j)
      BY <1>22, <3>1
    <3>3. QED
      BY <1>11, <2>5, <3>1, <3>2
  <2>6. CASE s # r /\ u # r
    <3>1. s \in Live /\ u \in Live
      BY <1>11, <2>1, <2>2, <2>6 DEF Live
    <3>2. QED
      BY <1>11, <2>1, <2>2, <2>6, <3>1 DEF IInv, SharedPagesAgree
  <2>7. QED
    BY <2>4, <2>5, <2>6
<1>24. PublishingOK'
  BY <1>1 DEF PublishingOK
<1>25. QED
  BY <1>14, <1>15, <1>16, <1>17, <1>18, <1>19, <1>20, <1>21, <1>23, <1>24 DEF IInv

\* A refused admission pins the hits and releases them again: nothing changes.
LEMMA AdmitFailsStep ==
    ASSUME IInv, NEW r \in Requests, NEW ts \in Prompts, AdmitFails(r, ts)
    PROVE  IInv'
<1> DEFINE H(k) == {PageAt(Upto(ts, i)) : i \in 1..k}
<1>1. PICK k \in 0..(Len(ts) \div PageSize) :
        /\ IsHitCount(k, ts)
        /\ refs' = Drop(Pinned(H(k)), H(k))
        /\ cached' = Unpinned(H(k)) \cup Kept(Pinned(H(k)), H(k))
        /\ free' = free \cup Freed(Pinned(H(k)), H(k))
  BY DEF AdmitFails
<1> DEFINE hits == H(k)
<1>2. \A p \in hits : p \in Pages /\ node[p] # <<>>
  BY <1>1, HitFacts
<1> HIDE DEF H
<1>3. refs' = refs
  BY <1>1 DEF Drop, Pinned, IInv, TypeOK
<1>4. \A p \in hits : p \in cached <=> refs[p] = 0
  BY <1>2 DEF IInv, TypeOK, PageOwnership
<1>5. \A p \in hits : Pinned(hits)[p] = refs[p] + 1 /\ refs[p] \in Nat
  BY <1>2 DEF Pinned, IInv, TypeOK
<1>6. Kept(Pinned(hits), hits) = hits \cap cached
  <2>1. \A p \in hits : Pinned(hits)[p] = 1 <=> p \in cached
    BY <1>4, <1>5
  <2>2. QED
    BY <1>2, <2>1 DEF Kept
<1>7. Freed(Pinned(hits), hits) = {}
  BY <1>2 DEF Freed
<1>8. cached' = cached /\ free' = free
  BY <1>1, <1>6, <1>7 DEF Unpinned
<1>9. UNCHANGED <<pool, node, requestVars, weights, kv>> /\ publishing' = publishing
  BY <1>3, <1>8 DEF AdmitFails, pool
<1>10. publishing' \in PublicationType \cup {None} /\ PublishingOK'
  BY <1>9 DEF AdmitFails, Unlocked, PublishingOK
<1>11. QED
  BY <1>9, <1>10, PublicationStep

\* alloc_slots that succeeds preserves the invariant.
LEMMA AdmitStep ==
    ASSUME IInv, NEW r \in Requests, NEW ts \in Prompts, Admit(r, ts)
    PROVE  IInv'
BY AdmitIsAdmitted, AdmittedStep

-----------------------------------------------------------------------------
(* Extending a decode batch. *)

\* A position in one of the first m pages is below m pages.
LEMMA PositionWithin ==
    ASSUME NEW n \in Nat, NEW m \in Nat, n \div PageSize < m
    PROVE  n + 1 <= m * PageSize
<1>1. /\ n \div PageSize \in Nat
      /\ n % PageSize \in 0..(PageSize - 1)
      /\ n = (n \div PageSize) * PageSize + (n % PageSize)
  BY PositionSplit
<1>2. (n \div PageSize) * PageSize + PageSize <= m * PageSize
  BY <1>1, PagesMonotone
<1>3. (n \div PageSize) * PageSize \in Nat /\ m * PageSize \in Nat
  BY <1>1, PagesNat
<1>4. QED
  BY <1>1, <1>2, <1>3, PageSizeAssumption

\* The batch after an extension: every winner has one more page, taken from the
\* pool for it alone.
Extended(B, need, winners, V, f) ==
    /\ publishing = None /\ publishing' = publishing /\ weights' = weights
    /\ B \subseteq Decoding
    /\ need = {r \in B : length[r] \div PageSize >= Len(held[r])}
    /\ winners \subseteq need
    /\ f \in [winners -> Pages]
    /\ \A a, b \in winners : f[a] = f[b] => a = b
    /\ Take(cached, V, {f[r] : r \in winners})
    /\ held' = [r \in Requests |->
                  IF r \in winners THEN Append(held[r], f[r]) ELSE held[r]]
    /\ refs' = [p \in Pages |-> IF p \in {f[r] : r \in winners} THEN 1 ELSE refs[p]]
    /\ length' = [r \in Requests |->
                    IF r \in B \ (need \ winners) THEN length[r] + 1 ELSE length[r]]
    /\ status' = [r \in Requests |->
                    IF r \in need \ winners THEN "aborted" ELSE status[r]]
    /\ UNCHANGED <<hit, tokens, promptLen, done>>

\* Every ExtendBatch is an Extended step.
LEMMA ExtendBatchIsExtended ==
    ASSUME IInv, NEW B \in SUBSET Decoding, ExtendBatch(B)
    PROVE  \E need, winners, V, f : Extended(B, need, winners, V, f)
<1> DEFINE need == {r \in B : length[r] \div PageSize >= Len(held[r])}
           n == Smaller(Cardinality(need), Cardinality(free \cup cached))
           Taken(winners, V, f) ==
             LET new == {f[r] : r \in winners}
             IN  /\ \A a, b \in winners : f[a] = f[b] => a = b
                 /\ held' = [r \in Requests |->
                               IF r \in winners THEN Append(held[r], f[r])
                               ELSE held[r]]
                 /\ refs' = [p \in Pages |-> IF p \in new THEN 1 ELSE refs[p]]
                 /\ free' = (free \cup Reclaimed(V, cached)) \ new
                 /\ cached' = cached \ Reclaimed(V, cached)
                 /\ node' = [p \in Pages |->
                               IF p \in Revoked(V) THEN <<>> ELSE node[p]]
                 /\ kv' = [p \in Pages |->
                             IF p \in new THEN [o \in 1..PageSize |-> Unwritten]
                             ELSE kv[p]]
<1>1. PICK winners \in SUBSET need :
        /\ \E V \in EvictionSets(free, cached, n) :
             \E f \in [winners -> free \cup Reclaimed(V, cached)] :
               Taken(winners, V, f)
        /\ length' = [r \in Requests |->
                        IF r \in B \ (need \ winners) THEN length[r] + 1
                        ELSE length[r]]
        /\ status' = [r \in Requests |->
                        IF r \in need \ winners THEN "aborted" ELSE status[r]]
  BY DEF ExtendBatch
<1>2. PICK V \in EvictionSets(free, cached, n) :
        \E f \in [winners -> free \cup Reclaimed(V, cached)] : Taken(winners, V, f)
  BY <1>1
<1>3. PICK f \in [winners -> free \cup Reclaimed(V, cached)] : Taken(winners, V, f)
  BY <1>2
<1>4. V \subseteq cached
  BY DEF EvictionSets
<1>5. free \cup Reclaimed(V, cached) \subseteq Pages
  BY <1>4 DEF Reclaimed, IInv, TypeOK
<1>6. f \in [winners -> Pages] /\ {f[r] : r \in winners} \subseteq
                                     free \cup Reclaimed(V, cached)
  BY <1>5
<1>7. Take(cached, V, {f[r] : r \in winners})
  BY <1>3, <1>4, <1>6 DEF Take
<1>8. Extended(B, need, winners, V, f)
  BY <1>1, <1>3, <1>6, <1>7 DEF Extended, ExtendBatch, Unlocked
<1>9. QED
  BY <1>8

\* Extended preserves the invariant: the pages it hands out are unreferenced,
\* and the evictions it makes touch no page a request holds.
LEMMA ExtendedStep ==
    ASSUME IInv, NEW B, NEW need, NEW winners, NEW V, NEW f,
           Extended(B, need, winners, V, f)
    PROVE  IInv'
<1> DEFINE N == {f[r] : r \in winners}
<1>1. /\ publishing = None /\ publishing' = publishing /\ weights' = weights
      /\ B \subseteq Decoding
      /\ need = {r \in B : length[r] \div PageSize >= Len(held[r])}
      /\ winners \subseteq need
      /\ f \in [winners -> Pages]
      /\ \A a, b \in winners : f[a] = f[b] => a = b
      /\ Take(cached, V, N)
      /\ held' = [r \in Requests |->
                    IF r \in winners THEN Append(held[r], f[r]) ELSE held[r]]
      /\ refs' = [p \in Pages |-> IF p \in N THEN 1 ELSE refs[p]]
      /\ length' = [r \in Requests |->
                      IF r \in B \ (need \ winners) THEN length[r] + 1 ELSE length[r]]
      /\ status' = [r \in Requests |->
                      IF r \in need \ winners THEN "aborted" ELSE status[r]]
      /\ hit' = hit /\ tokens' = tokens /\ promptLen' = promptLen /\ done' = done
  BY DEF Extended
<1>2. winners \subseteq Requests /\ need \subseteq Requests /\ B \subseteq Requests
      /\ \A r \in B : status[r] = "running"
  BY <1>1 DEF Decoding
<1>3. \A s \in Requests :
        /\ held[s] \in Seq(Pages) /\ Len(held[s]) \in Nat
        /\ DOMAIN held[s] = 1..Len(held[s])
        /\ \A i \in 1..Len(held[s]) : held[s][i] \in Pages
        /\ tokens[s] \in Seq(Tokens) /\ Len(tokens[s]) \in Nat
        /\ done[s] \in Nat /\ hit[s] \in Nat /\ length[s] \in Nat
        /\ promptLen[s] \in Nat
  BY ElementOfSeq, LenProperties DEF IInv, TypeOK
<1>4. \A s \in winners :
        /\ held'[s] \in Seq(Pages) /\ Len(held'[s]) = Len(held[s]) + 1
        /\ \A i \in 1..Len(held[s]) : held'[s][i] = held[s][i]
        /\ held'[s][Len(held[s]) + 1] = f[s]
        /\ f[s] \in N /\ DOMAIN held'[s] = 1..(Len(held[s]) + 1)
  <2>1. SUFFICES ASSUME NEW s \in winners
                 PROVE  /\ held'[s] \in Seq(Pages)
                        /\ Len(held'[s]) = Len(held[s]) + 1
                        /\ \A i \in 1..Len(held[s]) : held'[s][i] = held[s][i]
                        /\ held'[s][Len(held[s]) + 1] = f[s]
                        /\ f[s] \in N /\ DOMAIN held'[s] = 1..(Len(held[s]) + 1)
    OBVIOUS
  <2>2. s \in Requests /\ held'[s] = Append(held[s], f[s]) /\ f[s] \in Pages
    BY <1>1, <1>2
  <2>3. /\ Append(held[s], f[s]) \in Seq(Pages)
        /\ Len(Append(held[s], f[s])) = Len(held[s]) + 1
        /\ \A i \in 1..Len(held[s]) : Append(held[s], f[s])[i] = held[s][i]
        /\ Append(held[s], f[s])[Len(held[s]) + 1] = f[s]
    BY <1>3, <2>2, AppendProperties
  <2>4. DOMAIN Append(held[s], f[s]) = 1..(Len(held[s]) + 1)
    BY <2>3, LenProperties
  <2>5. QED
    BY <2>2, <2>3, <2>4
<1>5. \A s \in Requests \ winners : held'[s] = held[s]
  BY <1>1
<1>6. \A s \in Requests : status'[s] = "idle" <=> status[s] = "idle"
  BY <1>1, <1>2
<1>7. Live' = Live
  BY <1>6 DEF Live
<1>8. /\ N \subseteq Pages
      /\ \A p \in N : refs[p] = 0 /\ node'[p] = <<>>
      /\ \A p \in Pages \ N : kv'[p] = kv[p]
      /\ \A p \in Pages : node'[p] # <<>> => node'[p] = node[p] /\ p \notin N
  BY <1>1, TakeFacts
<1>9. \A s \in Requests : \A i \in 1..Len(held[s]) : held[s][i] \notin N
  BY <1>1, TakenIsNotHeld
<1>10. TypeOK'
  <2>1. /\ free' \subseteq Pages /\ cached' \subseteq Pages
        /\ node' \in [Pages -> Seq(Tokens)]
        /\ kv' \in [Pages -> [1..PageSize -> KVType]]
    BY <1>1, TakeFacts
  <2>2. refs' \in [Pages -> Nat]
    BY <1>1 DEF IInv, TypeOK
  <2>3. held' \in [Requests -> Seq(Pages)]
    <3>1. \A s \in Requests : held'[s] \in Seq(Pages)
      BY <1>3, <1>4, <1>5
    <3>2. QED
      BY <1>1, <3>1
  <2>4. /\ length' \in [Requests -> Nat]
        /\ status' \in [Requests -> {"idle", "running", "finished", "aborted"}]
    BY <1>1 DEF IInv, TypeOK
  <2>5. QED
    BY <1>1, <2>1, <2>2, <2>3, <2>4 DEF IInv, TypeOK
<1>11. Shape'
  <2>1. SUFFICES ASSUME NEW s \in Requests
                 PROVE  /\ status[s] = "idle" =>
                            /\ held'[s] = <<>> /\ tokens[s] = <<>>
                            /\ hit[s] = 0 /\ promptLen[s] = 0
                            /\ length'[s] = 0 /\ done[s] = 0
                        /\ status[s] # "idle" =>
                            /\ promptLen[s] \in 1..Len(tokens[s])
                            /\ promptLen[s] <= length'[s]
                            /\ hit[s] <= promptLen[s]
                            /\ done[s] <= length'[s]
                            /\ done[s] <= Len(tokens[s])
                            /\ length'[s] <= Len(held'[s]) * PageSize
    BY <1>1, <1>6 DEF Shape
  <2>2. /\ status[s] = "idle" =>
             /\ held[s] = <<>> /\ tokens[s] = <<>> /\ hit[s] = 0
             /\ promptLen[s] = 0 /\ length[s] = 0 /\ done[s] = 0
        /\ status[s] # "idle" =>
             /\ promptLen[s] \in 1..Len(tokens[s])
             /\ promptLen[s] <= length[s] /\ hit[s] <= promptLen[s]
             /\ done[s] <= length[s] /\ done[s] <= Len(tokens[s])
             /\ length[s] <= Len(held[s]) * PageSize
    BY DEF IInv, Shape
  <2>3. CASE s \in winners
    <3>1. status[s] = "running" /\ length'[s] = length[s] + 1
      BY <1>1, <1>2, <2>3
    <3>2. Len(held'[s]) = Len(held[s]) + 1
      BY <1>4, <2>3
    <3>3. /\ Len(held[s]) * PageSize + PageSize <= (Len(held[s]) + 1) * PageSize
          /\ Len(held[s]) * PageSize \in Nat
          /\ (Len(held[s]) + 1) * PageSize \in Nat
      <4>1. /\ Len(held[s]) \in Nat /\ Len(held[s]) + 1 \in Nat
            /\ Len(held[s]) < Len(held[s]) + 1
        BY <1>3
      <4>2. Len(held[s]) * PageSize + PageSize <= (Len(held[s]) + 1) * PageSize
        BY <4>1, PagesMonotone
      <4>3. QED
        BY <4>1, <4>2, PagesNat
    <3>4. length[s] + 1 <= (Len(held[s]) + 1) * PageSize
      BY <1>3, <2>2, <3>1, <3>3, PageSizeAssumption
    <3>5. QED
      BY <1>3, <2>2, <3>1, <3>2, <3>4
  <2>4. CASE s \in B \ need
    <3>1. status[s] = "running" /\ length'[s] = length[s] + 1 /\ held'[s] = held[s]
      BY <1>1, <1>2, <1>5, <2>4
    <3>2. ~(length[s] \div PageSize >= Len(held[s]))
      BY <1>1, <2>4
    <3>3. length[s] \div PageSize < Len(held[s])
      <4>1. \A d \in Nat : ~(d >= Len(held[s])) => d < Len(held[s])
        BY <1>3
      <4>2. length[s] \div PageSize \in Nat
        BY <1>3, PositionSplit
      <4>3. QED
        BY <3>2, <4>1, <4>2, Zenon
    <3>4. length[s] + 1 <= Len(held[s]) * PageSize
      BY <1>3, <3>3, PositionWithin
    <3>5. QED
      BY <1>3, <2>2, <3>1, <3>4
  <2>5. CASE s \notin winners /\ s \notin B \ need
    <3>1. length'[s] = length[s] /\ held'[s] = held[s]
      BY <1>1, <1>5, <2>5
    <3>2. QED
      BY <2>2, <3>1
  <2>6. QED
    BY <2>3, <2>4, <2>5
<1>12. \A s \in Requests : \A i \in 1..Len(held'[s]) :
         \/ i \in 1..Len(held[s]) /\ held'[s][i] = held[s][i]
         \/ s \in winners /\ i = Len(held[s]) + 1 /\ held'[s][i] = f[s]
  BY <1>3, <1>4, <1>5
<1>13. HeldOnce'
  <2>1. SUFFICES ASSUME NEW s \in Requests, NEW i \in 1..Len(held'[s]),
                        NEW j \in 1..Len(held'[s]), held'[s][i] = held'[s][j]
                 PROVE  i = j
    BY DEF HeldOnce
  <2>2. s \in winners => f[s] \in N
    BY <1>4
  <2>3. QED
    BY <1>9, <1>12, <2>1, <2>2 DEF IInv, HeldOnce
<1>14. PageOwnership'
  <2>1. SUFFICES ASSUME NEW p \in Pages
                 PROVE  /\ refs'[p] = Cardinality(Holders(p)')
                        /\ p \in free' => /\ refs'[p] = 0 /\ p \notin cached'
                                          /\ node'[p] = <<>>
                        /\ p \in cached' => refs'[p] = 0 /\ node'[p] # <<>>
                        /\ refs'[p] = 0 => p \in free' \cup cached'
    BY DEF PageOwnership
  <2>2. \A s \in Requests : p \in Elements(held'[s])
          <=> p \in Elements(held[s]) \/ (s \in winners /\ p = f[s])
    <3>1. SUFFICES ASSUME NEW s \in Requests
                   PROVE  p \in Elements(held'[s])
                            <=> p \in Elements(held[s]) \/ (s \in winners /\ p = f[s])
      OBVIOUS
    <3>2. CASE s \in winners
      <4>1. /\ DOMAIN held[s] = 1..Len(held[s])
            /\ DOMAIN held'[s] = 1..(Len(held[s]) + 1)
            /\ \A i \in 1..Len(held[s]) : held'[s][i] = held[s][i]
            /\ held'[s][Len(held[s]) + 1] = f[s] /\ Len(held[s]) \in Nat
        BY <1>3, <1>4, <3>2
      <4>2. \A i : i \in 1..(Len(held[s]) + 1)
                     <=> i \in 1..Len(held[s]) \/ i = Len(held[s]) + 1
        BY <4>1
      <4>3. QED
        BY <3>2, <4>1, <4>2 DEF Elements
    <3>3. CASE s \notin winners
      BY <1>5, <3>3
    <3>4. QED
      BY <3>2, <3>3
  <2>3. refs'[p] = Cardinality(Holders(p)')
    <3>1. CASE p \notin N
      <4>1. Holders(p)' = Holders(p)
        BY <1>4, <2>2, <3>1 DEF Holders
      <4>2. QED
        BY <1>1, <3>1, <4>1 DEF IInv, PageOwnership
    <3>2. CASE p \in N
      <4>1. PICK w \in winners : p = f[w]
        BY <3>2
      <4>2. Holders(p) = {}
        BY <1>8, <3>2, HoldersCounted DEF IInv
      <4>3. \A s \in winners : p = f[s] => s = w
        BY <1>1, <4>1
      <4>4. Holders(p)' = {w}
        BY <1>2, <2>2, <4>1, <4>2, <4>3 DEF Holders
      <4>5. QED
        BY <1>1, <3>2, <4>4, FS_Singleton
    <3>3. QED
      BY <3>1, <3>2
  <2>4. /\ p \in free' => /\ refs[p] = 0 /\ p \notin N /\ p \notin cached'
                          /\ node'[p] = <<>>
        /\ p \in cached' => /\ refs[p] = 0 /\ p \notin N /\ node'[p] # <<>>
        /\ refs[p] = 0 /\ p \notin N => p \in free' \cup cached'
    BY <1>1, TakeFacts
  <2>5. QED
    BY <1>1, <2>3, <2>4
<1>15. IndexIsTrie'
  BY <1>1, TakeFacts
<1>16. IndexedPagesMatch'
  <2>1. SUFFICES ASSUME NEW p \in Pages, node'[p] # <<>>, NEW o \in 1..PageSize
                 PROVE  kv'[p][o] =
                          Value(weights, node'[p], Len(node'[p]) - PageSize + o - 1)
    BY <1>1 DEF IndexedPagesMatch
  <2>2. node'[p] = node[p] /\ kv'[p] = kv[p]
    BY <1>8, <2>1
  <2>3. QED
    BY <2>1, <2>2 DEF IInv, IndexedPagesMatch
<1>17. PagesMatch'
  <2>1. SUFFICES ASSUME NEW s \in Requests, NEW i \in 1..Len(held'[s]),
                        NEW o \in 1..PageSize,
                        Position(i, o) < Larger(done[s], hit[s])
                 PROVE  kv'[held'[s][i]][o]
                          = Value(weights, tokens[s], Position(i, o))
    BY <1>1 DEF PagesMatch
  <2>2. CASE i \in 1..Len(held[s]) /\ held'[s][i] = held[s][i]
    <3>1. kv'[held[s][i]] = kv[held[s][i]]
      BY <1>3, <1>8, <1>9, <2>2
    <3>2. QED
      BY <2>1, <2>2, <3>1 DEF IInv, PagesMatch
  <2>3. CASE s \in winners /\ i = Len(held[s]) + 1
    <3>1. Position(i, o) = Len(held[s]) * PageSize + (o - 1)
      BY <1>3, <2>3, PageSizeAssumption DEF Position
    <3>2. Len(held[s]) * PageSize \in Nat
      BY <1>3, PagesNat
    <3>3. status[s] # "idle"
      BY <1>1, <1>2, <2>3
    <3>4. /\ done[s] <= length[s] /\ hit[s] <= promptLen[s]
          /\ promptLen[s] <= length[s] /\ length[s] <= Len(held[s]) * PageSize
      BY <3>3 DEF IInv, Shape
    <3>5. Larger(done[s], hit[s]) <= Len(held[s]) * PageSize
      BY <1>3, <3>2, <3>4 DEF Larger
    <3>6. Larger(done[s], hit[s]) \in Nat /\ o \in Nat /\ o >= 1
      BY <1>3, PageSizeAssumption DEF Larger
    <3>7. QED
      BY <2>1, <3>1, <3>2, <3>5, <3>6
  <2>4. QED
    BY <1>12, <2>2, <2>3
<1>18. IndexedHeldAgree'
  <2>1. SUFFICES ASSUME NEW s \in Requests, NEW i \in 1..Len(held'[s]),
                        node'[held'[s][i]] # <<>>
                 PROVE  /\ i * PageSize <= Len(tokens[s])
                        /\ node'[held'[s][i]] = Upto(tokens[s], i)
    BY <1>1 DEF IndexedHeldAgree
  <2>2. i \in 1..Len(held[s]) /\ held'[s][i] = held[s][i]
    BY <1>4, <1>8, <1>12, <2>1
  <2>3. node'[held[s][i]] = node[held[s][i]]
    BY <1>3, <1>8, <2>1, <2>2
  <2>4. QED
    BY <2>1, <2>2, <2>3 DEF IInv, IndexedHeldAgree
<1>19. SharedPagesAgree'
  <2>1. SUFFICES ASSUME NEW s \in Live', NEW u \in Live',
                        NEW i \in DOMAIN held'[s], NEW j \in DOMAIN held'[u],
                        s # u, held'[s][i] = held'[u][j]
                 PROVE  /\ i = j
                        /\ i * PageSize <= Len(tokens'[s])
                        /\ i * PageSize <= Len(tokens'[u])
                        /\ Upto(tokens'[s], i) = Upto(tokens'[u], i)
    BY DEF SharedPagesAgree
  <2>2. s \in Requests /\ u \in Requests
    BY DEF Live
  <2>3. held' \in [Requests -> Seq(Pages)]
    BY <1>10 DEF TypeOK
  <2>4. i \in 1..Len(held'[s]) /\ j \in 1..Len(held'[u])
    BY <2>2, <2>3, LenProperties
  <2>5. /\ \/ i \in 1..Len(held[s]) /\ held'[s][i] = held[s][i]
           \/ s \in winners /\ held'[s][i] = f[s] /\ f[s] \in N
        /\ \/ j \in 1..Len(held[u]) /\ held'[u][j] = held[u][j]
           \/ u \in winners /\ held'[u][j] = f[u] /\ f[u] \in N
    BY <1>4, <1>12, <2>2, <2>4
  <2>6. /\ i \in 1..Len(held[s]) /\ held'[s][i] = held[s][i]
        /\ j \in 1..Len(held[u]) /\ held'[u][j] = held[u][j]
    BY <1>1, <1>9, <2>1, <2>2, <2>5
  <2>7. i \in DOMAIN held[s] /\ j \in DOMAIN held[u] /\ held[s][i] = held[u][j]
    BY <1>3, <2>1, <2>2, <2>6
  <2>8. QED
    BY <1>1, <1>7, <2>1, <2>7 DEF IInv, SharedPagesAgree
<1>20. PublishingOK'
  BY <1>1 DEF PublishingOK
<1>21. QED
  BY <1>10, <1>11, <1>13, <1>14, <1>15, <1>16, <1>17, <1>18, <1>19, <1>20 DEF IInv
-----------------------------------------------------------------------------
(* Weight updates. *)

\* On a drained engine every page is free or cached, and dropping the cached
\* ones empties the index before any KV is read under the new weights.
LEMMA UpdateWeightsStep ==
    ASSUME IInv, UpdateWeights
    PROVE  IInv'
<1>1. /\ publishing = None /\ publishing' = None /\ Live = {}
      /\ weights' = weights + 1 /\ weights < MaxVersion
      /\ free' = free \cup Reclaimed(cached, cached)
      /\ cached' = {}
      /\ node' = [p \in Pages |-> IF p \in Revoked(cached) THEN <<>> ELSE node[p]]
      /\ UNCHANGED <<refs, held, hit, tokens, promptLen, length, done, status, kv>>
  BY DEF UpdateWeights, Unlocked, requestVars
<1>2. kv = [p \in Pages |-> kv[p]]
  BY DEF IInv, TypeOK
<1>3. Take(cached, cached, {})
  BY <1>1, <1>2 DEF Take, Reclaimed
<1>4. \A r \in Requests : status[r] = "idle"
  BY <1>1 DEF Live
<1>5. \A r \in Requests : 1..Len(held[r]) = {}
  <2>1. \A r \in Requests : held[r] = <<>>
    BY <1>4 DEF IInv, Shape
  <2>2. Len(<<>>) = 0
    BY EmptySeq
  <2>3. QED
    BY <2>1, <2>2
<1>6. \A p \in Pages : refs[p] = 0
  <2>1. SUFFICES ASSUME NEW p \in Pages PROVE Holders(p) = {}
    BY HoldersCounted DEF IInv
  <2>2. \A r \in Requests : DOMAIN held[r] = 1..Len(held[r])
    BY LenProperties DEF IInv, TypeOK
  <2>3. QED
    BY <1>5, <2>2 DEF Holders, Elements
<1>7. /\ free' \subseteq Pages /\ node' \in [Pages -> Seq(Tokens)]
      /\ \A p \in Pages :
           /\ p \in free' => refs[p] = 0 /\ node'[p] = <<>>
           /\ refs[p] = 0 => p \in free' \cup cached'
      /\ IndexIsTrie'
  BY <1>3, TakeFacts
<1>8. \A p \in Pages : node'[p] = <<>> /\ p \in free'
  BY <1>1, <1>6, <1>7
<1>9. TypeOK'
  <2>1. weights' \in 0..MaxVersion
    BY <1>1, LengthAssumption DEF IInv, TypeOK
  <2>2. QED
    BY <1>1, <1>7, <2>1 DEF IInv, TypeOK
<1>10. Shape' /\ HeldOnce'
  BY <1>1 DEF IInv, Shape, HeldOnce
<1>11. PageOwnership'
  BY <1>1, <1>6, <1>8 DEF IInv, PageOwnership, Holders
<1>12. IndexedPagesMatch'
  BY <1>8 DEF IndexedPagesMatch
<1>13. PagesMatch' /\ IndexedHeldAgree'
  BY <1>1, <1>5 DEF PagesMatch, IndexedHeldAgree
<1>14. SharedPagesAgree'
  BY <1>1, <1>4 DEF SharedPagesAgree, Live
<1>15. PublishingOK'
  BY <1>1 DEF PublishingOK
<1>16. QED
  BY <1>7, <1>9, <1>10, <1>11, <1>12, <1>13, <1>14, <1>15 DEF IInv

-----------------------------------------------------------------------------
(* The theorems. *)

\* The empty cache satisfies the invariant.
LEMMA InitInvariant == Init => IInv
<1>1. SUFFICES ASSUME Init PROVE IInv
  OBVIOUS
<1>2. Len(<<>>) = 0 /\ 1..Len(<<>>) = {}
  BY EmptySeq
<1>3. \A r \in Requests : held[r] = <<>> /\ status[r] = "idle"
  BY <1>1 DEF Init
<1>4. \A r \in Requests : 1..Len(held[r]) = {} /\ Elements(held[r]) = {}
  <2>1. SUFFICES ASSUME NEW r \in Requests
                 PROVE  1..Len(held[r]) = {} /\ Elements(held[r]) = {}
    OBVIOUS
  <2>2. held[r] = <<>> /\ held[r] \in Seq(Pages)
    BY <1>3, EmptySeq
  <2>3. 1..Len(held[r]) = {}
    BY <1>2, <2>2
  <2>4. DOMAIN held[r] = 1..Len(held[r])
    BY <2>2, LenProperties
  <2>5. QED
    BY <2>3, <2>4 DEF Elements
<1>5. TypeOK
  <2>1. Unwritten \in KVType
    BY EmptySeq, LengthAssumption DEF Unwritten, KVType
  <2>2. <<>> \in Seq(Tokens) /\ <<>> \in Seq(Pages) /\ 0 \in 0..MaxVersion
    BY EmptySeq, LengthAssumption
  <2>3. QED
    BY <1>1, <2>1, <2>2 DEF Init, TypeOK
<1>6. PageOwnership
  <2>1. \A p \in Pages : Holders(p) = {}
    BY <1>4 DEF Holders
  <2>2. QED
    BY <1>1, <2>1, FS_EmptySet DEF Init, PageOwnership
<1>7. Shape /\ HeldOnce
  BY <1>1, <1>4 DEF Init, Shape, HeldOnce
<1>8. IndexIsTrie /\ IndexedPagesMatch
  BY <1>1 DEF Init, IndexIsTrie, IndexedPagesMatch
<1>9. PagesMatch /\ IndexedHeldAgree
  BY <1>4 DEF PagesMatch, IndexedHeldAgree
<1>10. SharedPagesAgree
  BY <1>3 DEF SharedPagesAgree, Live
<1>11. PublishingOK
  BY <1>1 DEF Init, PublishingOK
<1>12. QED
  BY <1>5, <1>6, <1>7, <1>8, <1>9, <1>10, <1>11 DEF IInv

\* Every step of the cache, and every stutter, preserves the invariant.
LEMMA NextInvariant == IInv /\ [Next]_vars => IInv'
<1>1. SUFFICES ASSUME IInv, [Next]_vars PROVE IInv'
  OBVIOUS
<1>2. ASSUME NEW r \in Requests, NEW ts \in Prompts, Admit(r, ts)
      PROVE  IInv'
  BY <1>1, <1>2, AdmitStep
<1>3. ASSUME NEW r \in Requests, NEW ts \in Prompts, AdmitFails(r, ts)
      PROVE  IInv'
  BY <1>1, <1>3, AdmitFailsStep
<1>4. ASSUME NEW r \in Requests, NEW n \in 1..MaxSeqLen, Prefill(r, n)
      PROVE  IInv'
  BY <1>1, <1>4, PrefillStep
<1>5. ASSUME NEW B \in SUBSET Decoding, ExtendBatch(B)
      PROVE  IInv'
  BY <1>1, <1>5, ExtendBatchIsExtended, ExtendedStep
<1>6. ASSUME NEW r \in Requests, Decode(r)
      PROVE  IInv'
  BY <1>1, <1>6, DecodeStep
<1>7. ASSUME NEW r \in Requests, Finish(r) \/ Abort(r)
      PROVE  IInv'
  BY <1>1, <1>7, EndingStep
<1>8. ASSUME NEW r \in Requests, ReleaseFinished(r)
      PROVE  IInv'
  BY <1>1, <1>8, ReleaseFinishedStep
<1>9. ASSUME NEW r \in Requests, ReleaseAborted(r)
      PROVE  IInv'
  BY <1>1, <1>9, ReleaseAbortedStep
<1>10. CASE PublishPage
  BY <1>1, <1>10, PublishPageStep
<1>11. CASE EndPublication
  BY <1>1, <1>11, EndPublicationStep
<1>12. CASE UpdateWeights
  BY <1>1, <1>12, UpdateWeightsStep
<1>13. CASE UNCHANGED vars
  <2>1. /\ UNCHANGED <<pool, node, requestVars, weights, kv>>
        /\ UNCHANGED <<done, status>> /\ publishing' = publishing
    BY <1>13 DEF vars, pool, requestVars
  <2>2. publishing' \in PublicationType \cup {None} /\ PublishingOK'
    BY <1>1, <2>1 DEF IInv, TypeOK, PublishingOK
  <2>3. QED
    BY <1>1, <2>1, <2>2, PublicationStep
<1>14. QED
  BY <1>1, <1>2, <1>3, <1>4, <1>5, <1>6, <1>7, <1>8, <1>9, <1>10, <1>11, <1>12,
     <1>13
  DEF Next

\* The inductive invariant holds in every reachable state of the cache.
THEOREM Invariance == Spec => []IInv
<1>1. Init => IInv
  BY InitInvariant
<1>2. IInv /\ [Next]_vars => IInv'
  BY NextInvariant
<1>3. QED
  BY <1>1, <1>2, PTL DEF Spec

\* Every variable of the cache keeps its type (no reference count goes below
\* zero, no page outside the pool is handed out).
THEOREM TypeCorrectness == Spec => []TypeOK
<1>1. IInv => TypeOK
  BY DEF IInv
<1>2. QED
  BY <1>1, Invariance, PTL

\* KVCacheManager never leaks a page, gives one away twice or leaves a freed one
\* reachable through the prefix index.
THEOREM OwnershipTheorem == Spec => []PageOwnership
<1>1. IInv => PageOwnership
  BY DEF IInv
<1>2. QED
  BY <1>1, Invariance, PTL

\* RadixCache's index stays a trie with one page per prefix over evictions of
\* subtrees and replacements.
THEOREM TrieTheorem == Spec => []IndexIsTrie
<1>1. IInv => IndexIsTrie
  BY DEF IInv
<1>2. QED
  BY <1>1, Invariance, PTL

\* What a prefix lookup returns was computed from exactly the looked-up tokens
\* under the current weights.
THEOREM HitsTheorem == Spec => []IndexedPagesMatch
<1>1. IInv => IndexedPagesMatch
  BY DEF IInv
<1>2. QED
  BY <1>1, Invariance, PTL

\* Every position a request attends to holds the KV of its own prefix.
THEOREM ReadsTheorem == Spec => []ReadsOwnPrefix
<1>1. IInv => ReadsOwnPrefix
  BY PagewiseReads DEF IInv
<1>2. QED
  BY <1>1, Invariance, PTL

\* Requests share a page only as the same page of a common prefix.
THEOREM SharingTheorem == Spec => []SharedPagesAgree
<1>1. IInv => SharedPagesAgree
  BY DEF IInv
<1>2. QED
  BY <1>1, Invariance, PTL
=============================================================================
