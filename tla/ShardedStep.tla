------------------------------ MODULE ShardedStep ------------------------------
(***************************************************************************)
(* One learner update on a world of dp x cp x tp ranks:                     *)
(* astrai/parallel/topology.py lays the ranks out, tp.py shards the Linears *)
(* of a layer over features, cp.py shards every sequence, the executor      *)
(* averages the gradients, and Trainer._run_global_update restores the      *)
(* global objective, clips and steps.                                       *)
(*                                                                         *)
(* The network is the smallest one with every kind of parameter: an         *)
(* embedding held by every rank, a column-wise projection "up" and a        *)
(* row-wise projection "down", one weight per feature, no bias (the model's *)
(* Linears have none), and a squared loss, all in integers.  Attention      *)
(* across tokens is left to the library's ring.  The optimizer subtracts    *)
(* the floor of the clipped gradient, a rational kept as numerator and      *)
(* denominator, so two gradients that are equal as numbers step alike.      *)
(* Every collective waits for all members of its group.                     *)
(***************************************************************************)
EXTENDS Integers, Sequences, FiniteSets, FiniteSetsExt, SequencesExt

CONSTANTS
    Layouts,       \* records [dp, cp, tp, norm, fresh, saves]; norm 0: no clipping
    Features,      \* features of the hidden layer, 1 .. Features
    Rate,          \* the learning rate is 1 / Rate
    Accum,         \* microbatches of a window (grad_accum_steps)
    Windows,       \* functions (dp index, microbatch) -> sequence of tokens or Filler
    MaxUpdates     \* updates explored

Filler == << >>
Emb == <<"emb", 0>>
AllWeights == {Emb} \cup ({"up", "down"} \X (1 .. Features))

VARIABLES
    layout,    \* the decomposition of the world
    windows,   \* the data windows of the run, in order
    single,    \* the weights a single device holds after each update
    held,      \* the parameters each rank holds
    grad,      \* the gradient each rank has accumulated
    local,     \* each rank's outputs and counts in the current microbatch
    tally,     \* each rank's token count of the update
    place,     \* where each rank stands: [update, micro, at]
    file       \* the weights each published checkpoint holds

step == <<layout, windows, single, held, grad, local, tally, place, file>>

Ranks == 0 .. (layout.dp * layout.cp * layout.tp - 1)

\* Row-major over (dp, cp, tp), tp innermost.
TpRank(r) == r % layout.tp
CpRank(r) == (r \div layout.tp) % layout.cp
DpRank(r) == r \div (layout.cp * layout.tp)

DpGroup(r) == {s \in Ranks : CpRank(s) = CpRank(r) /\ TpRank(s) = TpRank(r)}
CpGroup(r) == {s \in Ranks : DpRank(s) = DpRank(r) /\ TpRank(s) = TpRank(r)}
TpGroup(r) == {s \in Ranks : DpRank(s) = DpRank(r) /\ CpRank(s) = CpRank(r)}

\* Tensor-parallel peers hold different shards: their group is the dp group.
SyncGroup(r) == IF layout.tp > 1 THEN DpGroup(r) ELSE Ranks

Leads(r, group) == r = Min(group)

-----------------------------------------------------------------------------
(* The network. *)

Sum(F(_), S) == FoldSet(LAMBDA x, acc : F(x) + acc, 0, S)
Abs(n) == IF n < 0 THEN -n ELSE n

Held(w) == {p[2] : p \in DOMAIN w \ {Emb}}

\* What the features of w add to the output for the input x.
Output(w, x) == LET Term(f) == w[<<"down", f>>] * w[<<"up", f>>] * w[Emb] * x
                IN  Sum(Term, Held(w))

\* What the features of w add to the gradient of the hidden input.
InputGrad(w, d) == LET Term(f) == w[<<"down", f>>] * w[<<"up", f>>] * d
                   IN  Sum(Term, Held(w))

\* The gradient of w for one token, d and dx the gradients at the output and
\* at the hidden input.
TokenGrad(w, x, d, dx) ==
    [p \in DOMAIN w |->
        CASE p[1] = "emb" -> x * dx
          [] p[1] = "up" -> d * w[<<"down", p[2]>>] * w[Emb] * x
          [] p[1] = "down" -> d * w[<<"up", p[2]>>] * w[Emb] * x]

Add(g, h) == [p \in DOMAIN g |-> g[p] + h[p]]
Zero(w) == [p \in DOMAIN w |-> 0]

Count(tokens) == Cardinality({i \in DOMAIN tokens : tokens[i].valid})

\* One optimizer step from the gradient num / den, clipped to the norm when
\* there is one.
Stepped(w, num, den) ==
    LET Size(p) == Abs(num[p])
        norm == Sum(Size, DOMAIN num)
        clips == layout.norm > 0 /\ norm > layout.norm * den
    IN  [p \in DOMAIN w |-> w[p] - IF clips THEN (num[p] * layout.norm) \div (Rate * norm)
                                            ELSE num[p] \div (Rate * den)]

-----------------------------------------------------------------------------
(* The reference: one device that sees the whole window. *)

Tokens(window) ==
    FoldSet(LAMBDA slot, acc : acc \o window[slot], << >>,
            {slot \in DOMAIN window : slot[1] < layout.dp})

SingleGrad(w, tokens) ==
    LET Of(i) == LET d == Output(w, tokens[i].x) - tokens[i].y
                 IN  IF tokens[i].valid
                     THEN TokenGrad(w, tokens[i].x, d, InputGrad(w, d))
                     ELSE Zero(w)
    IN  FoldSet(LAMBDA i, g : Add(Of(i), g), Zero(w), DOMAIN tokens)

SingleStep(w, window) ==
    LET tokens == Tokens(window)
    IN  IF Count(tokens) = 0 THEN w
        ELSE Stepped(w, SingleGrad(w, tokens), Count(tokens))

-----------------------------------------------------------------------------
(* Building the ranks: fresh weights are seeded by rank, a loaded checkpoint *)
(* gives every rank the same; the tp leader's copy of every sharded weight   *)
(* is broadcast before it is chunked, and DDP then copies the first          *)
(* replica's parameters along its own group.  The embedding is not sharded:  *)
(* fresh, it differs between tensor-parallel peers.                           *)

Initial(r) == [p \in AllWeights |->
    CASE p[1] = "emb" -> 1 + IF layout.fresh THEN r % 2 ELSE 0
      [] p[1] = "up" -> 1
      [] p[1] = "down" -> p[2]]

Chunk(r) == {f \in 1 .. Features : (f - 1) \div (Features \div layout.tp) = TpRank(r)}

Built(r) ==
    LET source == Min(SyncGroup(r))
    IN  [p \in {q \in AllWeights : q = Emb \/ q[2] \in Chunk(r)} |->
            Initial(IF p = Emb THEN source ELSE Min(TpGroup(source)))[p]]

Init ==
    /\ layout \in Layouts
    /\ windows \in [1 .. MaxUpdates -> Windows]
    /\ single = LET s[u \in 0 .. MaxUpdates] ==
                        IF u = 0 THEN Initial(0) ELSE SingleStep(s[u - 1], windows[u])
                IN  s
    /\ held = [r \in Ranks |-> Built(r)]
    /\ grad = [r \in Ranks |-> Zero(held[r])]
    /\ local = [r \in Ranks |-> [out |-> << >>, count |-> 0]]
    /\ tally = [r \in Ranks |-> 0]
    /\ place = [r \in Ranks |-> [update |-> 1, micro |-> 1, at |-> "forward"]]
    /\ file = << >>

-----------------------------------------------------------------------------
(* One microbatch. *)

\* The data is sharded over dp only: cp and tp peers read the same batch.
Batch(r) == windows[place[r].update][<<DpRank(r), place[r].micro>>]

\* Each cp peer keeps its contiguous slice of every sequence.
Slice(r) == LET length == Len(Batch(r)) \div layout.cp
            IN  SubSeq(Batch(r), CpRank(r) * length + 1, (CpRank(r) + 1) * length)

Reals(r) == IF Batch(r) = Filler THEN 0 ELSE 1

Arrived(group, at) == \A s \in group : place[s] = place[Min(group)] /\ place[s].at = at
Goto(group, at) == place' = [s \in Ranks |-> IF s \in group THEN [place[s] EXCEPT !.at = at]
                                                           ELSE place[s]]

\* The row-wise projection's partial sums meet in one all-reduce.
Forward(r) ==
    LET group == TpGroup(r)
        Out(i) == LET Part(s) == Output(held[s], Slice(r)[i].x) IN Sum(Part, group)
    IN  /\ Leads(r, group)
        /\ Arrived(group, "forward")
        /\ local' = [s \in Ranks |->
                IF s \in group THEN [local[s] EXCEPT !.out = [i \in DOMAIN Slice(r) |-> Out(i)]]
                ELSE local[s]]
        /\ Goto(group, "loss")
        /\ UNCHANGED <<layout, windows, single, held, grad, tally, file>>

\* The normalizer counts the tokens of the whole cp group.
Normalizer(group, r) == LET Of(s) == Count(Slice(s)) IN Sum(Of, group)

Loss(r) ==
    LET group == CpGroup(r)
    IN  /\ Leads(r, group)
        /\ Arrived(group, "loss")
        /\ local' = [s \in Ranks |->
                IF s \in group
                THEN [local[s] EXCEPT !.count = IF Reals(s) = 0 THEN 0 ELSE Normalizer(group, s)]
                ELSE local[s]]
        /\ Goto(group, "backward")
        /\ UNCHANGED <<layout, windows, single, held, grad, tally, file>>

\* The loss times its normalizer is the local sum, cp times over under cp.
LossScale(r) == layout.cp

MutantHiddenGrad(group, s, d) == InputGrad(held[s], d)
HiddenGrad(group, s, d) == LET Of(t) == InputGrad(held[t], d) IN Sum(Of, group)

\* The column-wise projection's input gradients meet in one all-reduce.
MicroGrad(group, s) ==
    LET tokens == Slice(s)
        Of(i) == LET d == LossScale(s) * (local[s].out[i] - tokens[i].y)
                 IN  IF tokens[i].valid /\ local[s].count > 0
                     THEN TokenGrad(held[s], tokens[i].x, d, HiddenGrad(group, s, d))
                     ELSE Zero(held[s])
    IN  FoldSet(LAMBDA i, g : Add(Of(i), g), Zero(held[s]), DOMAIN tokens)

Backward(r) ==
    LET group == TpGroup(r)
        last == place[r].micro = Accum
    IN  /\ Leads(r, group)
        /\ Arrived(group, "backward")
        /\ grad' = [s \in Ranks |-> IF s \in group THEN Add(grad[s], MicroGrad(group, s))
                                                   ELSE grad[s]]
        /\ tally' = [s \in Ranks |-> tally[s] + IF s \in group THEN local[s].count ELSE 0]
        /\ place' = [s \in Ranks |->
                IF s \notin group THEN place[s]
                ELSE IF last THEN [place[s] EXCEPT !.at = "sync"]
                ELSE [place[s] EXCEPT !.micro = @ + 1, !.at = "forward"]]
        /\ UNCHANGED <<layout, windows, single, held, local, file>>

-----------------------------------------------------------------------------
(* The update. *)

\* The executor sums the gradients over its group; Denominator divides.
Sync(r) ==
    LET group == SyncGroup(r)
    IN  /\ Leads(r, group)
        /\ Arrived(group, "sync")
        /\ grad' = [s \in Ranks |->
                IF s \in group
                THEN [p \in DOMAIN grad[s] |-> LET Of(t) == grad[t][p] IN Sum(Of, group)]
                ELSE grad[s]]
        /\ Goto(group, "totals")
        /\ UNCHANGED <<layout, windows, single, held, local, tally, file>>

\* Counts are summed over dp only: cp and tp peers hold the same count.
Totals(r) ==
    LET group == DpGroup(r)
        Of(s) == tally[s]
        sum == Sum(Of, group)
    IN  /\ Leads(r, group)
        /\ Arrived(group, "totals")
        /\ tally' = [s \in Ranks |-> IF s \in group THEN sum ELSE tally[s]]
        /\ Goto(group, IF sum <= 0 THEN "failed" ELSE "step")
        /\ UNCHANGED <<layout, windows, single, held, grad, local, file>>

\* The executor averages over its group; the update multiplies by
\* dp_size / denominator.
Scale(r) == layout.dp
Denominator(r) == Cardinality(SyncGroup(r)) * tally[r]

Step(r) ==
    /\ place[r].at = "step"
    /\ held' = [held EXCEPT ![r] =
            Stepped(@, [p \in DOMAIN @ |-> Scale(r) * grad[r][p]], Denominator(r))]
    /\ grad' = [grad EXCEPT ![r] = Zero(@)]
    /\ tally' = [tally EXCEPT ![r] = 0]
    /\ place' = [place EXCEPT ![r] =
            [update |-> @.update + 1, micro |-> 1,
             at |-> IF @.update = MaxUpdates THEN "done" ELSE "forward"]]
    /\ UNCHANGED <<layout, windows, single, local, file>>

-----------------------------------------------------------------------------
(* The shutdown save: the first rank of the executor's group writes what it *)
(* holds; a directory already published is kept.                            *)

Writes(r) == Leads(r, SyncGroup(r))

Save(r) ==
    /\ layout.saves
    /\ Writes(r)
    /\ Arrived(SyncGroup(r), "done")
    /\ file' = IF file = << >> THEN <<held[r]>> ELSE file
    /\ Goto(SyncGroup(r), "saved")
    /\ UNCHANGED <<layout, windows, single, held, grad, local, tally>>

Next == \E r \in Ranks : \/ Forward(r) \/ Loss(r) \/ Backward(r)
                         \/ Sync(r) \/ Totals(r) \/ Step(r) \/ Save(r)

Spec == Init /\ [][Next]_step

-----------------------------------------------------------------------------
(* Properties. *)

\* The layouts the properties below are about; each of the others breaks one of them.  Under
\* tensor parallelism, fresh replicated weights differ between peers from the start
\* (trainer.py:401 seeds by rank, tp.py:158 broadcasts only the Linears of the plan, DDP
\* copies along dp), a clipping norm is that of a rank's own shards (gradients.py:24), and
\* one rank saves its own shards alone (base.py:221).
Covered == layout.tp > 1 => ~layout.fresh /\ layout.norm = 0 /\ ~layout.saves

StepTypeOK ==
    /\ layout \in Layouts
    /\ \A r \in Ranks : /\ DOMAIN held[r] \subseteq AllWeights
                        /\ DOMAIN grad[r] = DOMAIN held[r]
                        /\ tally[r] \in Nat

\* Between two updates every rank holds exactly the part of the weights that a
\* single device training on the same windows would hold: whatever the Covered layout,
\* sharding, averaging and rescaling add up to the single-device gradient
\* (cp.py mean_loss, tp.py's autograd pair, trainer.py's dp_size/denominator).
MatchesSingleDevice ==
    \A r \in Ranks :
        place[r].micro = 1 /\ place[r].at \in {"forward", "done", "saved"} =>
            \A p \in DOMAIN held[r] : held[r][p] = single[place[r].update - 1][p]

\* A parameter two ranks both hold has one value at one update: the embedding,
\* the head and the norms stay replicated (tp.py:20), in every layout that is Covered.
ReplicasAgree ==
    \A r, s \in Ranks : place[r].update = place[s].update =>
        \A p \in DOMAIN held[r] \cap DOMAIN held[s] : held[r][p] = held[s][p]

\* A published checkpoint holds every parameter of the model as the last update
\* left it, whichever ranks held its parts, in every layout that is Covered.
CheckpointIsWhole ==
    file # << >> => \A p \in AllWeights : /\ p \in DOMAIN file[1]
                                      /\ file[1][p] = single[MaxUpdates][p]
=============================================================================
