--------------------------- MODULE SequenceScoring ---------------------------
(***************************************************************************)
(* What the log-likelihood evaluations score: the masked forward over ragged   *)
(* or packed rows and the scores of continuations (astrai/bench.py), and the    *)
(* perplexity, instruction-difficulty and multiple-choice evaluations built     *)
(* on them (scripts/eval/evaluate_ppl.py, evaluate_ifd.py, evaluate_mmlu.py,    *)
(* evaluate_hellaswag.py).                                                    *)
(*                                                                         *)
(* The model is a function of what a position may attend to: a score is the     *)
(* token it is for, and the (token, position) pairs it was predicted from.      *)
(***************************************************************************)
EXTENDS Integers, Sequences, FiniteSets, SequencesExt, FiniteSetsExt

CONSTANTS Works   \* evaluations: [kind, items, batch, limit, sentinel, eos, letters]

VARIABLES
    work,        \* the evaluation, once started: a sequence of at most one
    place,       \* items read
    queue,       \* items read and not yet scored: [item, turns]
    entries,     \* results: [item, scores]
    broken       \* an item that cannot be scored ended the run

scoring == <<work, place, queue, entries, broken>>

-----------------------------------------------------------------------------
(* The forward. *)

Range0(n) == [i \in 1..n |-> i - 1]
Same(row) == [i \in DOMAIN row |-> 0]

\* causal_sequence_logits: real key, same document, key index at most the query's.
Attends(groups, key, query) == key <= query /\ groups[key] = groups[query]

\* The prediction made at a position of a row.
Logits(row, positions, groups, query) ==
    LET keys == SelectSeq([j \in DOMAIN row |-> j], LAMBDA j : Attends(groups, j, query))
    IN  [i \in DOMAIN keys |-> <<row[keys[i]], positions[keys[i]]>>]
Plain(row, query) == Logits(row, Range0(Len(row)), Same(row), query)
Score(token, given) == [token |-> token, given |-> given]

\* loglikelihood_batched: kept to the model's length from the right, a score per continuation
\* token as long as there is a position before it.
Loglikelihood(context, continuation, limit) ==
    LET ids == context \o continuation
        row == SubSeq(ids, Max({1, Len(ids) - limit + 1}), Len(ids))
        start == Len(row) - Len(continuation)
    IN  IF start < 1 THEN <<>>
        ELSE [j \in 1..Len(continuation) |-> Score(row[start + j], Plain(row, start + j - 1))]

-----------------------------------------------------------------------------
(* Perplexity. *)

\* evaluate_ppl: a row cut to the limit; every token but the first, from the position before.
PerplexityScores(k, text) ==
    LET row == SubSeq(text, 1, Min({k.limit, Len(text)}))
        count == Max({0, Len(row) - 1})
    IN  [j \in 1..count |-> Score(row[j + 1], Plain(row, j))]

-----------------------------------------------------------------------------
(* Instruction difficulty. *)

\* _trim: the response first to half the room, then the context from its left.
Trim(context, response, room) ==
    LET kept == SubSeq(response, 1, Min({Len(response), room \div 2}))
        overflow == Len(context) + Len(kept) - room
    IN  IF overflow <= 0 THEN <<context, kept>>
        ELSE IF overflow >= Len(context) THEN <<<<>>, SubSeq(kept, 1, Min({room, Len(kept)}))>>
        ELSE <<SubSeq(context, overflow + 1, Len(context)), kept>>
Ended(response, eos) ==
    IF eos = <<>> \/ response[Len(response)] = eos[1] THEN response ELSE response \o eos

\* The turns of an item that can be scored; an item without any is reported and skipped.
Turns(k, item) ==
    LET trimmed == [t \in DOMAIN item |-> Trim(item[t][1], item[t][2], k.limit - Len(k.eos))]
        usable == SelectSeq(trimmed, LAMBDA turn : turn[1] # <<>> /\ turn[2] # <<>>)
    IN  [t \in DOMAIN usable |-> <<usable[t][1], Ended(usable[t][2], k.eos)>>]

Flat(seqs) == FlattenSeq(seqs)
Length(pair) == Len(pair[1]) + Len(pair[2])

\* The bins of the packing: every pair once, within the limit (its plan is DataPath's).
Packings(pairs, limit) ==
    {bins \in UNION {[1..n -> UNION {[1..m -> DOMAIN pairs] : m \in 1..Len(pairs)}] :
                       n \in 1..Len(pairs)} :
        /\ \A i \in DOMAIN pairs : Cardinality({<<b, s>> \in (DOMAIN bins) \X DOMAIN pairs :
                                     s \in DOMAIN bins[b] /\ bins[b][s] = i}) = 1
        /\ \A b \in DOMAIN bins :
             FoldLeft(LAMBDA acc, i : acc + Length(pairs[i]), 0, bins[b]) <= limit}

\* The conditional pass over one bin: documents side by side, each with its own positions.
Start(bin, pairs, s) == FoldLeft(LAMBDA acc, i : acc + Length(pairs[i]), 0, SubSeq(bin, 1, s - 1))
Conditional(bin, pairs, s) ==
    LET row == Flat([t \in DOMAIN bin |-> pairs[bin[t]][1] \o pairs[bin[t]][2]])
        positions == Flat([t \in DOMAIN bin |-> Range0(Length(pairs[bin[t]]))])
        groups == Flat([t \in DOMAIN bin |-> [i \in 1..Length(pairs[bin[t]]) |-> t]])
        at == Start(bin, pairs, s) + Len(pairs[bin[s]][1])
    IN  [j \in DOMAIN pairs[bin[s]][2] |->
            Score(row[at + j], Logits(row, positions, groups, at + j - 1))]

\* The unconditional pass: the sentinel before the same response.
Unconditional(sentinel, response) ==
    LET row == sentinel \o response
    IN  [j \in DOMAIN response |->
            Score(row[Len(sentinel) + j], Plain(row, Len(sentinel) + j - 1))]

\* _score_batch: results at the index their pair came from.
Scored(k, pairs, bins) ==
    [i \in DOMAIN pairs |->
        LET b == CHOOSE c \in DOMAIN bins : i \in ToSet(bins[c])
            s == CHOOSE t \in DOMAIN bins[b] : bins[b][t] = i
        IN  <<Conditional(bins[b], pairs, s), Unconditional(k.sentinel, pairs[i][2])>>]

-----------------------------------------------------------------------------
(* Multiple choice. *)

\* evaluate_subject: as many demonstrations as leave the prompt below the limit, the last
\* dropped first; none fit if the question alone does not.
Prompt(item, shots) == Flat(SubSeq(item.shots, 1, shots)) \o item.stem
Fitting(k, item) == {n \in 0..Len(item.shots) : Len(Prompt(item, n)) < k.limit}
Context(k, item) == Prompt(item, Max(Fitting(k, item)))

\* choice_logprobs_batched: letters of one token are read off the last position.
LetterScores(k, context) ==
    IF \A c \in DOMAIN k.letters : Len(k.letters[c]) = 1
    THEN [c \in DOMAIN k.letters |->
            <<Score(k.letters[c][1], Plain(context, Len(context)))>>]
    ELSE [c \in DOMAIN k.letters |-> Loglikelihood(context, k.letters[c], k.limit)]
TooLong(k, context) == Len(context) + Max({Len(k.letters[c]) : c \in DOMAIN k.letters}) > k.limit

\* evaluate_hellaswag: an item's own endings, unchecked.
EndingScores(k, item) ==
    [e \in DOMAIN item.endings |-> Loglikelihood(item.stem, item.endings[e], k.limit)]

-----------------------------------------------------------------------------
(* The evaluations. *)

Init ==
    /\ work = <<>> /\ place = 0 /\ queue = <<>> /\ entries = <<>> /\ broken = FALSE

Begin(k) ==
    /\ work = <<>> /\ work' = <<k>>
    /\ UNCHANGED <<place, queue, entries, broken>>

Running(kinds) == work # <<>> /\ work[1].kind \in kinds /\ ~broken
Batch == (place + 1)..Min({place + work[1].batch, Len(work[1].items)})
Put(Scores(_)) ==
    entries' = entries \o [j \in 1..Cardinality(Batch) |->
                             [item |-> place + j, scores |-> Scores(work[1].items[place + j])]]

ScoreTexts ==
    /\ Running({"perplexity"}) /\ Batch # {}
    /\ Put(LAMBDA text : <<PerplexityScores(work[1], text)>>)
    /\ place' = place + Cardinality(Batch)
    /\ UNCHANGED <<work, queue, broken>>

\* process_file of evaluate_ifd: an item goes to the buffer, or is skipped.
ReadPair ==
    /\ Running({"difficulty"}) /\ place < Len(work[1].items) /\ Len(queue) < work[1].batch
    /\ LET turns == Turns(work[1], work[1].items[place + 1])
       IN  IF turns = <<>>
           THEN /\ entries' = Append(entries, [item |-> place + 1, scores |-> <<>>])
                /\ UNCHANGED queue
           ELSE /\ queue' = Append(queue, [item |-> place + 1, turns |-> turns])
                /\ UNCHANGED entries
    /\ place' = place + 1
    /\ UNCHANGED <<work, broken>>

\* _flush_buffer: the turns of all buffered items in one list, and their results dealt back.
FlushPairs ==
    /\ Running({"difficulty"}) /\ queue # <<>>
    /\ Len(queue) >= work[1].batch \/ place = Len(work[1].items)
    /\ LET pairs == Flat([q \in DOMAIN queue |-> queue[q].turns])
           First(q) == FoldLeft(LAMBDA acc, r : acc + Len(queue[r].turns), 0,
                                [r \in 1..(q - 1) |-> r])
       IN  \E bins \in Packings(pairs, work[1].limit) :
             LET raw == Scored(work[1], pairs, bins)
             IN  entries' = entries \o [q \in DOMAIN queue |->
                    [item |-> queue[q].item,
                     scores |-> SubSeq(raw, First(q) + 1, First(q) + Len(queue[q].turns))]]
    /\ queue' = <<>>
    /\ UNCHANGED <<work, place, broken>>

\* The prompts are all built before the first batch: one that cannot fit ends the run there.
AskQuestions ==
    /\ Running({"letters"}) /\ Batch # {}
    /\ broken' = \E i \in DOMAIN work[1].items :
                    \/ Fitting(work[1], work[1].items[i]) = {}
                    \/ i \in Batch /\ TooLong(work[1], Context(work[1], work[1].items[i]))
    /\ IF broken' THEN UNCHANGED <<entries, place>>
       ELSE /\ Put(LAMBDA item : LetterScores(work[1], Context(work[1], item)))
            /\ place' = place + Cardinality(Batch)
    /\ UNCHANGED <<work, queue>>

ScoreEndings ==
    /\ Running({"endings"}) /\ Batch # {}
    /\ Put(LAMBDA item : EndingScores(work[1], item))
    /\ place' = place + Cardinality(Batch)
    /\ UNCHANGED <<work, queue, broken>>

Next ==
    \/ \E k \in Works : Begin(k)
    \/ ScoreTexts \/ ReadPair \/ FlushPairs \/ AskQuestions \/ ScoreEndings

Spec == Init /\ [][Next]_scoring

-----------------------------------------------------------------------------
(* Properties. *)

\* Items are read in order, and each has at most one entry.
ScoringTypeOK ==
    /\ work # <<>> => place <= Len(work[1].items)
    /\ \A i, j \in DOMAIN entries : entries[i].item = entries[j].item => i = j
    /\ {entries[i].item : i \in DOMAIN entries} \union {queue[q].item : q \in DOMAIN queue}
         = 1..place

\* The scores of a continuation after a prefix, from the definition: every token from all that
\* precedes it, at its distance from the start of the text.
After(prefix, text) ==
    [j \in DOMAIN text |->
        LET before == prefix \o SubSeq(text, 1, j - 1)
        IN  Score(text[j], [i \in DOMAIN before |-> <<before[i], i - 1>>])]

Expected(k, item) ==
    CASE k.kind = "perplexity" ->
            LET row == SubSeq(item, 1, Min({k.limit, Len(item)}))
            IN  <<IF row = <<>> THEN <<>> ELSE After(<<row[1]>>, Tail(row))>>
      [] k.kind = "difficulty" ->
            LET turns == Turns(k, item)
            IN  [t \in DOMAIN turns |-> <<After(turns[t][1], turns[t][2]),
                                          After(k.sentinel, turns[t][2])>>]
      [] k.kind = "letters" ->
            [c \in DOMAIN k.letters |-> After(Context(k, item), k.letters[c])]
      [] k.kind = "endings" ->
            [e \in DOMAIN item.endings |->
                LET kept == Min({Len(item.stem), k.limit - Len(item.endings[e])})
                IN  After(SubSeq(item.stem, Len(item.stem) - kept + 1, Len(item.stem)),
                          item.endings[e])]

\* Every scored token is scored once, for its own item, from exactly the tokens that precede it
\* in its own text at their own positions: neither padding, nor a neighbour in the batch, nor a
\* document packed beside it is seen (bench.py:238-240, evaluate_ifd.py:89-96).
ScoredInItsOwnContext ==
    \A i \in DOMAIN entries :
        entries[i].scores = Expected(work[1], work[1].items[entries[i].item])
=============================================================================
