----------------------------- MODULE DeltaLayer -----------------------------
(***************************************************************************)
(* The gated delta rule layer (model/components/attention.py, class GDN, and  *)
(* gdn_ops.py): the chunked evaluation that training and prefill use, the      *)
(* one-token step that decoding uses, and the state carried between calls,     *)
(* a window of inputs for the causal convolution and the recurrent state.      *)
(*                                                                         *)
(* Arithmetic is in the field of Prime elements, where the chunked algebra is  *)
(* exact; the decay exp(g) of a token is a power of Rate.  There is one value   *)
(* column, as columns do not interact, and one head, as heads do not.          *)
(***************************************************************************)
EXTENDS Integers, Sequences, FiniteSets, SequencesExt, FiniteSetsExt

CONSTANTS
    Layers,      \* layers: [taps, chunk], the convolution's weights and the chunk size
    Tokens,      \* a token's projections: [mix, decay, beta]
    Prime, Rate, \* the field, and the decay of one unit of log decay
    MaxHistory,  \* bound on the tokens of a sequence
    MaxPiece     \* bound on the tokens of one prefill

VARIABLES
    layer,       \* the layer, once built: a sequence of at most one
    cell,        \* GDNState [conv, recurrent] held by the caller; empty stands for None
    heard,       \* the tokens given to the session so far
    spoken,      \* the outputs it returned
    graded       \* outputs of a training forward over a padded row, none at first

recurrence == <<layer, cell, heard, spoken, graded>>

-----------------------------------------------------------------------------
(* Vectors, and the layer's token-wise functions. *)

KeyDims == 1..2
Blank == [c \in 1..5 |-> 0]
Mod(x) == x % Prime
Tabled(f) == <<>> \o f   \* the sequence itself, each element computed once
Total(f, S) == FoldSet(LAMBDA i, acc : Mod(acc + f[i]), 0, S)
Dot(a, b) == Total([d \in KeyDims |-> a[d] * b[d]], KeyDims)
Power == [n \in 0..MaxHistory + MaxPiece |->
            FoldLeft(LAMBDA acc, i : Mod(acc * Rate), 1, [i \in 1..n |-> i])]

\* SiLU, then normalization and scaling: functions of one token's channels alone.
Shaped(mix) == [c \in 1..5 |-> Mod(mix[c] * mix[c] + mix[c])]
Split(mix, token) == [query |-> <<mix[1], mix[2]>>, key |-> <<mix[3], mix[4]>>,
                      value |-> mix[5], decay |-> token.decay, beta |-> token.beta]

-----------------------------------------------------------------------------
(* The causal convolution and its window. *)

Width(l) == Len(l.taps) - 1
Zeros(n) == [i \in 1..n |-> Blank]
Mixes(tokens) == [i \in DOMAIN tokens |-> tokens[i].mix]

\* _conv_input and Conv1d: one output per token, each over the Width tokens before it.
ConvInput(l, mixed, previous) ==
    (IF previous = <<>> THEN Zeros(Width(l)) ELSE previous) \o mixed
Convolved(l, rows) ==
    [i \in 1..(Len(rows) - Width(l)) |->
        [c \in 1..5 |-> Total([t \in DOMAIN l.taps |-> l.taps[t] * rows[i + t - 1][c]],
                              DOMAIN l.taps)]]
ProjectQkv(l, tokens, previous) ==
    LET out == Convolved(l, ConvInput(l, Mixes(tokens), previous))
    IN  Tabled([i \in DOMAIN tokens |-> Split(Tabled(Shaped(out[i])), tokens[i])])

\* The trailing Width inputs, zeros on the left of a history that is still short.
NextConvWindow(l, mixed, previous) ==
    LET history == previous \o mixed
        short == Max({0, Width(l) - Len(history)})
        padded == Zeros(short) \o history
    IN  SubSeq(padded, Len(padded) - Width(l) + 1, Len(padded))

-----------------------------------------------------------------------------
(* The rule, one token at a time. *)

Start == [d \in KeyDims |-> 0]

\* Decay, predict, write the error back, read.
DeltaRuleUpdate(row, state) ==
    LET decayed == [d \in KeyDims |-> Mod(state[d] * Power[row.decay])]
        delta == Mod((row.value - Dot(decayed, row.key)) * row.beta)
        new == Tabled([d \in KeyDims |-> Mod(decayed[d] + row.key[d] * delta)])
    IN  [output |-> Dot(new, row.query), state |-> new]
Recurrent(rows, state) ==
    FoldLeft(LAMBDA acc, row :
                LET done == DeltaRuleUpdate(row, acc.state)
                IN  [outputs |-> Append(acc.outputs, done.output), state |-> done.state],
             [outputs |-> <<>>, state |-> state], rows)

-----------------------------------------------------------------------------
(* The rule, a chunk at a time. *)

\* The last chunk is filled with rows that neither decay nor write.
Padded(rows, size) ==
    LET pad == (size - (Len(rows) % size)) % size
        empty == [query |-> Start, key |-> Start, value |-> 0, decay |-> 0, beta |-> 0]
    IN  rows \o [i \in 1..pad |-> empty]

\* Log decay accumulated within a chunk, and the decay from row j to row i.
Cumulative(chunk) ==
    Tabled([i \in DOMAIN chunk |-> FoldSet(LAMBDA j, acc : acc + chunk[j].decay, 0, 1..i)])

\* Forward substitution of the unit lower triangular system within a chunk: row i of the
\* inverse from the rows above it.
UnitInverse(chunk, Scored(_, _)) ==
    LET Row(above, i) ==
            Append(above,
                   Tabled([j \in DOMAIN chunk |->
                       IF j > i THEN 0 ELSE IF j = i THEN 1
                       ELSE Mod(-Scored(i, j)
                                + Total([r \in 1..(i - 1) |->
                                            IF r > j THEN -Scored(i, r) * above[r][j] ELSE 0],
                                        1..(i - 1)))]))
    IN  FoldLeft(Row, <<>>, [i \in DOMAIN chunk |-> i])

ChunkInverse(chunk, G) ==
    UnitInverse(chunk, LAMBDA i, j : chunk[i].beta * Dot(chunk[i].key, chunk[j].key)
                                     * Power[G[i] - G[j]])

\* What the rows of a chunk write: the solved values, less what the state predicts.
Written(chunk, state, G, inverse) ==
    LET rows == DOMAIN chunk
        value(i) == Total([j \in rows |-> inverse[i][j] * chunk[j].value * chunk[j].beta], rows)
        keyDecay(i) == Tabled([d \in KeyDims |->
                           Total([j \in rows |-> inverse[i][j] * Mod(chunk[j].key[d] * chunk[j].beta)
                                                 * Power[G[j]]], rows)])
    IN  Tabled([i \in rows |-> Mod(value(i) - Dot(keyDecay(i), state))])

\* The outputs of a chunk and the state after it.
Carried(chunk, state, G, new) ==
    LET rows == DOMAIN chunk
        size == Len(chunk)
        inter(i) == Power[G[i]] * Dot(chunk[i].query, state)
        intra(i) == Total([j \in 1..i |-> Dot(chunk[i].query, chunk[j].key) * Power[G[i] - G[j]]
                                          * new[j]], 1..i)
    IN  [outputs |-> Tabled([i \in rows |-> Mod(inter(i) + intra(i))]),
         state |-> Tabled([d \in KeyDims |->
                      Mod(state[d] * Power[G[size]]
                          + Total([i \in rows |-> chunk[i].key[d] * Power[G[size] - G[i]]
                                                  * new[i]], rows))])]
ChunkStep(chunk, state) ==
    LET G == Cumulative(chunk)
    IN  Carried(chunk, state, G, Written(chunk, state, G, ChunkInverse(chunk, G)))

\* chunk_gated_delta_rule.
Joined(acc, step) == [outputs |-> acc.outputs \o step.outputs, state |-> step.state]
OfRows(done, n) == [done EXCEPT !.outputs = SubSeq(@, 1, n)]
Chunked(rows, size, initial) ==
    LET padded == Padded(rows, size)
    IN  OfRows(FoldLeft(LAMBDA acc, c :
                            Joined(acc, ChunkStep(SubSeq(padded, (c - 1) * size + 1, c * size),
                                                acc.state)),
                        [outputs |-> <<>>, state |-> initial],
                        [c \in 1..(Len(padded) \div size) |-> c]),
               Len(rows))

-----------------------------------------------------------------------------
(* The layer's operations. *)

Init ==
    /\ layer = <<>> /\ cell = <<>> /\ heard = <<>> /\ spoken = <<>> /\ graded = <<>>

Build(l) ==
    /\ layer = <<>> /\ layer' = <<l>>
    /\ UNCHANGED <<cell, heard, spoken, graded>>

\* forward: a right-padded row, the outputs of its padding put to zero.
Forward(padding) ==
    /\ layer # <<>> /\ heard # <<>> /\ graded = <<>>
    /\ LET l == layer[1]
           tokens == heard \o padding
           done == Chunked(ProjectQkv(l, tokens, <<>>), l.chunk, Start)
       IN  graded' = [i \in DOMAIN tokens |-> IF i <= Len(heard) THEN done.outputs[i] ELSE 0]
    /\ UNCHANGED <<layer, cell, heard, spoken>>

State == IF cell = <<>> THEN [conv |-> <<>>, recurrent |-> Start] ELSE cell[1]

\* The outputs of a call, and the state the caller holds after it.
Speak(conv, done) ==
    /\ spoken' = spoken \o done.outputs
    /\ cell' = <<[conv |-> conv, recurrent |-> done.state]>>

Prefill(tokens) ==
    /\ layer # <<>> /\ graded = <<>> /\ Len(heard) + Len(tokens) <= MaxHistory
    /\ LET l == layer[1]
       IN  Speak(NextConvWindow(l, Mixes(tokens), State.conv),
                 Chunked(ProjectQkv(l, tokens, State.conv), l.chunk, State.recurrent))
    /\ heard' = heard \o tokens
    /\ UNCHANGED <<layer, graded>>

\* decode_step starts from init_state when the caller holds none.
InitState(l) == [conv |-> Zeros(Width(l)), recurrent |-> Start]
DecodeStep(token) ==
    /\ layer # <<>> /\ graded = <<>> /\ Len(heard) < MaxHistory
    /\ LET l == layer[1]
           state == IF cell = <<>> THEN InitState(l) ELSE cell[1]
           done == DeltaRuleUpdate(ProjectQkv(l, <<token>>, state.conv)[1], state.recurrent)
       IN  /\ spoken' = Append(spoken, done.output)
           /\ cell' = <<[conv |-> NextConvWindow(l, <<token.mix>>, state.conv),
                         recurrent |-> done.state]>>
    /\ heard' = Append(heard, token)
    /\ UNCHANGED <<layer, graded>>

Pieces == UNION {[1..n -> Tokens] : n \in 1..MaxPiece}

Next ==
    \/ \E l \in Layers : Build(l)
    \/ \E tokens \in Pieces : Forward(tokens) \/ Prefill(tokens)
    \/ \E token \in Tokens : DecodeStep(token)

Spec == Init /\ [][Next]_recurrence

-----------------------------------------------------------------------------
(* Properties. *)

\* One output per token, and a window of the convolution's width.
RecurrenceTypeOK ==
    /\ Len(spoken) = Len(heard) /\ Len(cell) <= 1
    /\ cell # <<>> => Len(cell[1].conv) = Width(layer[1])

\* recurrent_gated_delta_rule over the whole sequence, from zeros.
Whole == Recurrent(ProjectQkv(layer[1], heard, <<>>), Start)

\* However a sequence is cut into prefills and single steps, and whatever pads a training
\* row, the outputs are those of the token-by-token rule over the whole sequence, and the
\* state carried on is the state it ends in (gdn_ops.py: the chunked operator, its padding and
\* its initial state; attention.py: the convolution window across calls).
CutsDoNotShow ==
    layer # <<>> =>
        /\ spoken = Whole.outputs
        /\ cell # <<>> => cell[1].recurrent = Whole.state
        /\ graded # <<>> => /\ SubSeq(graded, 1, Len(heard)) = Whole.outputs
                            /\ \A i \in (Len(heard) + 1)..Len(graded) : graded[i] = 0
=============================================================================
