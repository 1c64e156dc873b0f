----------------------------- MODULE Collections -----------------------------
(***************************************************************************)
(* Filtering a sequence by membership.  SelectSeq of the standard modules  *)
(* takes the test as an operator, about which nothing can be proved here;  *)
(* these are its instances for the tests the models use, written with a    *)
(* recursive function (CollectionFacts has what is proved about them).     *)
(***************************************************************************)
EXTENDS Naturals, Sequences

\* The values of f at the numbers of S up to n, in their order.
Gather(f, S, n) ==
    LET gathered[i \in 0..n] ==
          IF i = 0 THEN <<>>
          ELSE IF i \in S THEN Append(gathered[i - 1], f[i]) ELSE gathered[i - 1]
    IN  gathered[n]

\* The elements of s that are in S, in their order.
Keep(s, S) == Gather(s, {i \in DOMAIN s : s[i] \in S}, Len(s))

\* The elements of s.
Elements(s) == {s[i] : i \in DOMAIN s}

\* The elements of s that are not in S, in their order.
Without(s, S) == Keep(s, Elements(s) \ S)
=============================================================================
