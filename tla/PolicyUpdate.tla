----------------------------- MODULE PolicyUpdate -----------------------------
(***************************************************************************)
(* How one window of rollouts becomes learner updates: every rank turns its *)
(* microbatches into training batches (trainer/strategy/grpo.py, ppo.py,    *)
(* dpo.py, ops.py), the trainer replays the window for several epochs in    *)
(* prompt minibatches (trainer.py _train_global_epoch, step_plan.py), and   *)
(* every update sums the losses of all ranks over one denominator.          *)
(*                                                                         *)
(* A loss is the bag of terms it sums.  A term names the prompt, the        *)
(* response and the token it scores, the tokens its log-probability is      *)
(* conditioned on, its weight and the advantage that multiplies it.         *)
(* Padding is real: prompts are padded on the left and responses on the     *)
(* right to the longest of their microbatch, the critic has values at       *)
(* padded positions too, and only masks keep them out.  Rewards, values and *)
(* discounts are integers; group normalization keeps the sign and order of  *)
(* (reward - mean) as size * reward - sum.                                  *)
(***************************************************************************)
EXTENDS Integers, Sequences, FiniteSets, FiniteSetsExt, SequencesExt

CONSTANTS
    Goals,   \* records [algo, sum, dp, batch, slots, epochs, minibatch, window]
    Unit,    \* what a whole sequence weighs under sequence aggregation
    Gamma, Lambda, KlCoef, Overlong \* discounts, KL weight, [max, buffer, scale]

VARIABLES
    goal,      \* the run: algorithm, layout and window of prompts
    ready,     \* each rank's prepared microbatches
    critic,    \* updates the critic has had
    turn,      \* the update under way: [epoch, begin]
    slot,      \* the next microbatch of each rank
    terms,     \* the terms each rank has accumulated
    counted,   \* each rank's share of the denominator
    lesson,    \* the last update: [from, to, terms, denominator], or << >>
    uses       \* how often each prompt has been learned from

policy == <<goal, ready, critic, turn, slot, terms, counted, lesson, uses>>

Ranks == 0 .. goal.dp - 1
Sum(S) == MapThenSumSet(LAMBDA p : p[2], S)
Longest(S) == IF S = {} THEN 1 ELSE Max(S \cup {1})

-----------------------------------------------------------------------------
(* What a rank holds of the window. *)

\* A microbatch holds the real prompts of its block, or one filler.
Rows(r, s) ==
    LET first == s * goal.dp * goal.batch + r * goal.batch
        last == Min({first + goal.batch, Len(goal.window)})
    IN  IF last <= first THEN <<1>> ELSE [i \in 1 .. last - first |-> first + i]
Real(r, s) == s * goal.dp * goal.batch + r * goal.batch < Len(goal.window)

\* Left-padded prompts and right-padded responses of a microbatch.
PromptLen(rows) == Longest({goal.window[p].prompt : p \in ToSet(rows)})
ResponseLen(rows) ==
    Longest({goal.window[p].group[g].len : p \in ToSet(rows), g \in 1 .. 2})

Padded(rows, p, g) ==
    LET prompt == PromptLen(rows)
        own == goal.window[p].prompt
        len == goal.window[p].group[g].len
    IN  [i \in 1 .. prompt + ResponseLen(rows) |->
            CASE i <= prompt - own -> <<"pad", i>>
              [] i > prompt - own /\ i <= prompt -> <<"prompt", i - (prompt - own)>>
              [] i > prompt /\ i <= prompt + len -> <<"response", i - prompt>>
              [] OTHER -> <<"pad", i>>]

\* Causal attention over the keys that are not padding.
Context(row, query) == {row[i] : i \in {k \in 1 .. query : row[k][1] # "pad"}}

\* The score of response token t is read where the token before it is the query.
MutantQuery(prompt, t) == prompt + t
Query(prompt, t) == prompt + t - 1

Scored(rows, p, g, t) ==
    LET row == Padded(rows, p, g)
        query == Query(PromptLen(rows), t)
    IN  [token |-> row[PromptLen(rows) + t], query |-> row[query],
         given |-> Context(row, query)]

-----------------------------------------------------------------------------
(* Advantages. *)

\* The critic's value, at padded positions too.
Value(version, p, g, t) == 3 * version + p + 2 * g + t

\* The terminal reward sits on the last valid token, the KL penalty on each.
TokenReward(p, g, t) ==
    LET response == goal.window[p].group[g]
        terminal == Max({response.len - 1, 0}) + 1
    IN  (IF t = terminal THEN response.reward ELSE 0)
        - (IF t <= response.len THEN KlCoef * (t % 2) ELSE 0)

MaskedValue(version, p, g, t) ==
    IF t <= goal.window[p].group[g].len THEN Value(version, p, g, t) ELSE 0

\* The backward scan over the padded length.
Gae(version, p, g, length) ==
    LET next(t) == IF t < length THEN MaskedValue(version, p, g, t + 1) ELSE 0
        gae[t \in 1 .. length + 1] ==
            IF t = length + 1 \/ t > goal.window[p].group[g].len THEN 0
            ELSE TokenReward(p, g, t) + Gamma * next(t) - MaskedValue(version, p, g, t)
                 + Gamma * Lambda * gae[t + 1]
    IN  gae

\* A response that runs into the buffer before the limit loses reward.
Shaped(p, g) ==
    LET over == Overlong.max - Overlong.buffer - goal.window[p].group[g].len
    IN  goal.window[p].group[g].reward
        + Overlong.scale * Max({-Overlong.buffer, Min({over, 0})})
Centered(p, g) == 2 * Shaped(p, g) - (Shaped(p, 1) + Shaped(p, 2))

Best(p) == IF goal.window[p].group[2].reward > goal.window[p].group[1].reward
           THEN 2 ELSE 1
Worst(p) == IF goal.window[p].group[2].reward < goal.window[p].group[1].reward
            THEN 2 ELSE 1

-----------------------------------------------------------------------------
(* Preparing: every microbatch of the window before the first update.  PPO  *)
(* pins the advantages and returns of the critic as it is now.              *)

GroupAdvantages(rows, p) ==
    [g \in 1 .. 2 |-> [t \in 1 .. ResponseLen(rows) |-> Centered(p, g)]]
PinnedAdvantages(rows, p) == [g \in 1 .. 2 |-> Gae(critic, p, g, ResponseLen(rows))]
Pair(p) == [chosen |-> Best(p), rejected |-> Worst(p)]

Prepared(r, s) ==
    LET rows == Rows(r, s)
        target(p) == CASE goal.algo = "grpo" -> GroupAdvantages(rows, p)
                       [] goal.algo = "ppo" -> PinnedAdvantages(rows, p)
                       [] goal.algo = "dpo" -> Pair(p)
    IN  [rows |-> rows, real |-> Real(r, s),
         target |-> [i \in DOMAIN rows |-> target(rows[i])]]

Init ==
    /\ goal \in Goals
    /\ ready = [r \in 0 .. goal.dp - 1 |-> << >>]
    /\ critic = 0
    /\ turn = [epoch |-> 1, begin |-> 0]
    /\ slot = [r \in 0 .. goal.dp - 1 |-> 0]
    /\ terms = [r \in 0 .. goal.dp - 1 |-> << >>]
    /\ counted = [r \in 0 .. goal.dp - 1 |-> 0]
    /\ lesson = << >>
    /\ uses = [p \in DOMAIN goal.window |-> 0]

Prepare(r) ==
    /\ Len(ready[r]) < goal.slots
    /\ ready' = [ready EXCEPT ![r] = Append(@, Prepared(r, Len(@)))]
    /\ UNCHANGED <<goal, critic, turn, slot, terms, counted, lesson, uses>>

-----------------------------------------------------------------------------
(* One update. *)

\* Replay order: every epoch walks the window in prompt minibatches.
Size == IF goal.minibatch = 0 THEN Len(goal.window) ELSE goal.minibatch
End == Min({turn.begin + Size, Len(goal.window)})
FinalUpdate == turn.epoch = goal.epochs /\ End = Len(goal.window)

\* The rows of a microbatch that this update selects: window positions are
\* counted from 0, rows of the microbatch from the window's start.
Selected(r, s) ==
    LET first == s * goal.dp * goal.batch + r * goal.batch
    IN  IF ~ready[r][s + 1].real THEN {}
        ELSE {i \in DOMAIN ready[r][s + 1].rows :
                first + i - 1 >= turn.begin /\ first + i - 1 < End}

Tokens(p, g) == 1 .. goal.window[p].group[g].len

\* Token aggregation weighs tokens alike; sequence aggregation, responses.
Weight(p, g) == IF goal.sum = "sequence" THEN Unit \div goal.window[p].group[g].len
                                         ELSE Unit

\* One response token's term of a policy-gradient loss.
TokenTerm(batch, i, g, t) ==
    LET p == batch.rows[i]
    IN  [prompt |-> p, response |-> g, score |-> Scored(batch.rows, p, g, t),
         weight |-> Weight(p, g), target |-> batch.target[i][g][t]]

\* The one term of a preference pair: the scores of its two sides.
PairTerm(batch, i) ==
    LET p == batch.rows[i]
        side(g) == {Scored(batch.rows, p, g, t) : t \in Tokens(p, g)}
    IN  [prompt |-> p, chosen |-> side(batch.target[i].chosen),
         rejected |-> side(batch.target[i].rejected)]

RowTerms(batch, i) ==
    IF goal.algo = "dpo" THEN {PairTerm(batch, i)}
    ELSE UNION {{TokenTerm(batch, i, g, t) : t \in Tokens(batch.rows[i], g)} : g \in 1 .. 2}

\* The rows of a microbatch that survive the slice, in their order.
Chunk(batch, indices) ==
    LET kept == SetToSortSeq(indices, <)
    IN  FlattenSeq([k \in DOMAIN kept |-> SetToSeq(RowTerms(batch, kept[k]))])

\* The loss times its normalizer is the plain sum over the selected rows.
Normalizer(p) ==
    CASE goal.algo = "dpo" -> 1
      [] goal.algo # "dpo" /\ goal.sum = "sequence" ->
            Cardinality({g \in 1 .. 2 : goal.window[p].group[g].len > 0})
      [] OTHER -> Sum({<<g, goal.window[p].group[g].len>> : g \in 1 .. 2})

Accumulate(r) ==
    LET batch == ready[r][slot[r] + 1]
    IN  /\ Len(ready[r]) = goal.slots
        /\ slot[r] < goal.slots
        /\ terms' = [terms EXCEPT ![r] = @ \o Chunk(batch, Selected(r, slot[r]))]
        /\ counted' = [counted EXCEPT ![r] = @ +
                        Sum({<<i, Normalizer(batch.rows[i])>> : i \in Selected(r, slot[r])})]
        /\ slot' = [slot EXCEPT ![r] = @ + 1]
        /\ UNCHANGED <<goal, ready, critic, turn, lesson, uses>>

\* The denominator is summed over the ranks; the critic steps after the actor.
Commit ==
    /\ \A r \in Ranks : slot[r] = goal.slots
    /\ turn.epoch <= goal.epochs
    /\ Sum({<<r, counted[r]>> : r \in Ranks}) > 0
    /\ lesson' = [from |-> turn.begin, to |-> End,
                   terms |-> FlattenSeq([k \in 1 .. goal.dp |-> terms[k - 1]]),
                   denominator |-> Sum({<<r, counted[r]>> : r \in Ranks})]
    /\ critic' = critic + 1
    /\ uses' = [p \in DOMAIN uses |->
                uses[p] + Cardinality({r \in Ranks : \E s \in 0 .. goal.slots - 1 :
                    \E i \in Selected(r, s) : ready[r][s + 1].rows[i] = p})]
    /\ turn' = IF End < Len(goal.window) THEN [turn EXCEPT !.begin = End]
               ELSE [epoch |-> turn.epoch + 1, begin |-> 0]
    /\ slot' = [r \in Ranks |-> IF FinalUpdate THEN goal.slots ELSE 0]
    /\ terms' = [r \in Ranks |-> << >>]
    /\ counted' = [r \in Ranks |-> 0]
    /\ UNCHANGED <<goal, ready>>

Next == (\E r \in Ranks : Prepare(r) \/ Accumulate(r)) \/ Commit

Spec == Init /\ [][Next]_policy

-----------------------------------------------------------------------------
(* Properties. *)

\* The generalized advantage as a sum over the rest of the response, with the
\* critic's values when the rollout was made.
AdvantageOf(p, g, t) ==
    LET len == goal.window[p].group[g].len
        delta(k) == TokenReward(p, g, k) - Value(0, p, g, k)
                    + IF k < len THEN Gamma * Value(0, p, g, k + 1) ELSE 0
    IN  Sum({<<k, (Gamma * Lambda) ^ (k - t) * delta(k)>> : k \in t .. len})

Prefix(p, t) == {<<"prompt", i>> : i \in 1 .. goal.window[p].prompt}
                \cup {<<"response", i>> : i \in 1 .. t - 1}
ScoreOf(p, t) == [token |-> <<"response", t>>, given |-> Prefix(p, t),
                  query |-> IF t = 1 THEN <<"prompt", goal.window[p].prompt>>
                                     ELSE <<"response", t - 1>>]

TermsOf(p) ==
    LET side(g) == {ScoreOf(p, t) : t \in Tokens(p, g)}
        of(g) == {[prompt |-> p, response |-> g, score |-> ScoreOf(p, t),
                   weight |-> Weight(p, g),
                   target |-> IF goal.algo = "ppo" THEN AdvantageOf(p, g, t)
                                                   ELSE Centered(p, g)]
                    : t \in Tokens(p, g)}
    IN  IF goal.algo = "dpo"
        THEN {[prompt |-> p, chosen |-> side(Best(p)), rejected |-> side(Worst(p))]}
        ELSE of(1) \cup of(2)

\* An update learns exactly the loss one device would take over its prompts:
\* every valid token of every selected prompt once, scored given exactly its own
\* prefix, with the advantage fixed at rollout time, over the count of all ranks;
\* padding, fillers, layout and minibatches leave no trace (ppo.py:57, ops.py
\* compute_gae, trainer.py:321).
LearnsTheSelection ==
    lesson # << >> =>
        LET prompts == lesson.from + 1 .. lesson.to
        IN  /\ IsInjective(lesson.terms)
            /\ ToSet(lesson.terms) = UNION {TermsOf(p) : p \in prompts}
            /\ lesson.denominator = Sum({<<p, Normalizer(p)>> : p \in prompts})

\* At the end of the window every prompt has been learned from once per epoch.
ReplayIsEven ==
    turn.epoch > goal.epochs => \A p \in DOMAIN uses : uses[p] = goal.epochs
=============================================================================
