--------------------------- MODULE ExpertDispatch ---------------------------
(***************************************************************************)
(* Grouped dispatch of tokens to experts (model/components/mlp.py,            *)
(* DeepSeekMoE._routed_forward): every (token, slot) pair is sorted by its           *)
(* expert, each expert runs on one contiguous slice, and its weighted outputs   *)
(* are added back to the tokens they came from.                               *)
(*                                                                         *)
(* An expert's output for a token is the term [expert, token, weight], the      *)
(* weight named by the slot it was selected in.                               *)
(***************************************************************************)
EXTENDS Integers, Sequences, FiniteSets, SequencesExt, BagsExt, Functions

CONSTANTS
    Experts,     \* how many experts there are, numbered from 0
    Activated,   \* how many of them a token is sent to (n_activated_experts)
    MaxTokens    \* bound on the tokens of a batch

VARIABLES
    selected,    \* topk_indices: per token the experts of its slots, in no order
    ranked,      \* the pairs, numbered from 0, in the order of their experts
    expertTurn,  \* the next expert to run
    frontier,    \* where its slice starts
    gathered     \* per token the bag of terms added to its output

dispatch == <<selected, ranked, expertTurn, frontier, gathered>>

Pairs == 0 .. (Len(selected) * Activated - 1)
ExpertOf(pair) == selected[(pair \div Activated) + 1][(pair % Activated) + 1]

\* The token of a pair: repeat_interleave put a token's pairs side by side.
\* A mutant that reads the pairs as slots of all tokens in turn.
MutantTokenOf(pair) == (pair % Len(selected)) + 1
TokenOf(pair) == (pair \div Activated) + 1

\* Where the slices end: the running sum of the experts' loads.
Boundary(expert) == Cardinality({pair \in Pairs : ExpertOf(pair) <= expert})

-----------------------------------------------------------------------------
Init ==
    /\ selected = <<>> /\ ranked = <<>> /\ expertTurn = 0 /\ frontier = 0 /\ gathered = <<>>

\* topk gives distinct experts, in no particular order.
Select(choice) ==
    /\ selected = <<>> /\ selected' = choice
    /\ gathered' = [t \in DOMAIN choice |-> EmptyBag]
    /\ UNCHANGED <<ranked, expertTurn, frontier>>

\* torch.sort is not stable: any order that ascends by expert.
Sort ==
    /\ selected # <<>> /\ ranked = <<>>
    /\ \E arrangement \in SetToSeqs(Pairs) :
         /\ \A i, j \in DOMAIN arrangement : i < j => ExpertOf(arrangement[i]) <= ExpertOf(arrangement[j])
         /\ ranked' = arrangement
    /\ UNCHANGED <<selected, expertTurn, frontier, gathered>>

\* One expert's slice: its rows come from flat_tokens, its weights from flat_weights, and its
\* outputs go to order // K.
RunExpert ==
    /\ ranked # <<>> /\ expertTurn < Experts
    /\ LET end == Boundary(expertTurn)
           slice == SubSeq(ranked, frontier + 1, end)
           Term(pair) == [expert |-> expertTurn, token |-> (pair \div Activated) + 1, weight |-> pair]
       IN  /\ gathered' = FoldLeft(LAMBDA acc, pair :
                                      [acc EXCEPT ![TokenOf(pair)] = BagAdd(@, Term(pair))],
                                   gathered, slice)
           /\ frontier' = end
    /\ expertTurn' = expertTurn + 1
    /\ UNCHANGED <<selected, ranked>>

Choosings == {c \in [1..Activated -> 0..(Experts - 1)] : IsInjective(c)}
Next ==
    \/ \E n \in 1..MaxTokens : \E choice \in [1..n -> Choosings] : Select(choice)
    \/ Sort \/ RunExpert

Spec == Init /\ [][Next]_dispatch

-----------------------------------------------------------------------------
(* Properties. *)

\* The slices are consecutive and cover the pairs of the experts that ran.
DispatchTypeOK ==
    /\ expertTurn \in 0..Experts
    /\ ranked # <<>> /\ expertTurn > 0 => frontier = Boundary(expertTurn - 1)

\* When every expert has run, each token has been given exactly the outputs of the experts
\* selected for it, on its own input and with its own weights, whatever order the sort left
\* equal experts in and whichever experts had nothing to do (mlp.py:169-192).
EveryTokenIsServed ==
    expertTurn = Experts => \A t \in DOMAIN selected :
        gathered[t] = SetToBag({[expert |-> selected[t][s], token |-> t,
                                 weight |-> (t - 1) * Activated + s - 1] : s \in 1..Activated})
=============================================================================
