------------------------------ MODULE MCKVCache ------------------------------
(* KVCache with three two-token pages and two requests, for TLC. *)
EXTENDS KVCache, TLC

CONSTANTS a, b

MCTokens == {a, b}
\* A full page, less than a page, and two full pages extending the first.
MCPrompts == {<<a, b>>, <<b>>, <<a, b, a, b>>}

Symmetry == Permutations(Pages) \cup Permutations(Requests)
=============================================================================
