---------------------------- MODULE MCEngineCore ----------------------------
(* EngineCore with requests of different shapes, for TLC.                   *)
EXTENDS EngineCore, TLC

CONSTANTS r1, r2, r3, r4

\* A short prompt, a two-token one (two chunks under a budget of one), a
\* penalized one too long for what the other two leave of a five-slot pool, and
\* one that can never fit it.
BatchPrompt == r1 :> 1 @@ r2 :> 2 @@ r3 :> 3 @@ r4 :> 6
BatchTokens == r1 :> 2 @@ r2 :> 3 @@ r3 :> 3 @@ r4 :> 1

\* Two decoding requests that compete for slots.
PairPrompt == r1 :> 1 @@ r2 :> 1
PairTokens == r1 :> 3 @@ r2 :> 3
=============================================================================
