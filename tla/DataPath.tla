-------------------------------- MODULE DataPath --------------------------------
(***************************************************************************)
(* From a JSONL file to what the model is trained on: the offline pipeline   *)
(* (preprocessing/pipeline.py, core.py, packing.py, writer.py), its shards   *)
(* (serialization/dataset.py), or the transform that does the same when a     *)
(* JSONL file is loaded directly, the stores (dataset/storage.py),            *)
(* the datasets and their collation (dataset/dataset.py) and the sampler     *)
(* that deals samples to data-parallel ranks (dataset/sampler.py).           *)
(*                                                                         *)
(* A token is <<i, k, output>>, the k-th of that output of record i, so that   *)
(* where it came from can be seen wherever it goes.  What the tokenizer makes *)
(* of a record is given: per output, the number of tokens of each section    *)
(* and whether it is trained on, or an exception.  Batches of records are    *)
(* left out: one that raises is redone record by record, which is modelled.  *)
(***************************************************************************)
EXTENDS Integers, Sequences, SequencesExt, FiniteSetsExt, Functions, TLC

CONSTANTS Jobs,        \* pipelines with their input and the training that follows
          MaxCrashes,  \* bound
          Nothing      \* not written, not loaded

VARIABLES
    job,      \* the configuration, constant
    taken,    \* records read
    count, total,  \* count, total_tokens of Pipeline.run
    bucket,   \* domains: per domain, the accumulated records
    written,  \* shard_idx: shards written, per domain
    flushing, \* domains whose shard is still to be written
    stage,    \* reading, bins, meta, done, crashed, loaded, refused, training, trained
    disk,     \* disk[domain][index]: the files of a shard
    store,    \* MmapStore: the shards in load order
    offset,   \* the sampler's next window
    learned,  \* ghost: the pairs whose loss was computed
    crashes

data == <<job, taken, count, total, bucket, written, flushing, stage, disk, store, offset,
          learned, crashes>>

Domains == {r.domain : r \in Range(job.records)}

Init ==
    /\ job \in Jobs
    /\ taken = 0 /\ count = 0 /\ total = 0
    /\ bucket = [d \in Domains |-> <<>>]
    /\ written = [d \in Domains |-> 0]
    /\ flushing = <<>> /\ stage = "reading"
    /\ disk = [d \in Domains |-> <<>>]
    /\ store = Nothing /\ offset = 0 /\ learned = <<>> /\ crashes = 0

-----------------------------------------------------------------------------
(* The pipeline. *)

Flat(seqs) == FlattenSeq(seqs)
Ones(n) == [k \in 1..n |-> 1]
Least(a, b) == IF a < b THEN a ELSE b
Most(a, b) == IF a > b THEN a ELSE b

\* The outputs of a record, and the one that is counted.
Outputs == IF job.mode = "pair" THEN {"chosen", "rejected"} ELSE {"sequence"}
Primary == IF job.mode = "pair" THEN "chosen" ELSE "sequence"
MaskOf(output) == CASE output = "sequence" -> "loss_mask"
                    [] output = "chosen" -> "chosen_mask"
                    [] output = "rejected" -> "rejected_mask"

\* _assemble_sections: the mask of an output, with a BOS before a template.
Assembled(i, output) ==
    LET o == job.records[i].outputs[output]
    IN (IF o.template THEN <<0>> ELSE <<>>)
       \o Flat([j \in DOMAIN o.units |->
                   [k \in 1..o.units[j].n |-> IF o.units[j].train THEN 1 ELSE 0]])

\* Where the pieces of a sequence of length n start: one, or as many as it takes; an output
\* of several is cut by the builder, a single one by the packer.
Limit == IF job.mode = "pair" THEN job.seqlen ELSE Least(job.seqlen, job.packed)
Starts(n) ==
    IF job.overflow = "split" THEN [j \in 1..((n + Limit - 1) \div Limit) |-> (j - 1) * Limit]
    ELSE IF job.overflow = "keep_end" THEN <<Most(0, n - Limit)>>
    ELSE <<0>>
Cut(s, start) == SubSeq(s, start + 1, Least(start + Limit, Len(s)))
OfBuilder(s) == IF job.mode = "pair" THEN Cut(s, Head(Starts(Len(s)))) ELSE s

\* build: there is a result if every output has tokens, more than a BOS.
HasResult(i) ==
    \A o \in Outputs : Len(OfBuilder(Assembled(i, o)))
                           > (IF job.records[i].outputs[o].template THEN 1 ELSE 0)

\* A mask of ones is omitted; where records are kept apart _complete_record_masks restores it.
Built(i) ==
    LET ids(o)  == OfBuilder([k \in 1..Len(Assembled(i, o)) |-> <<i, k, o>>])
        mask(o) == OfBuilder(Assembled(i, o))
        masked  == {o \in Outputs : job.mode # "stream" \/ 0 \in Range(mask(o))}
    IN [key \in Outputs \cup {MaskOf(o) : o \in masked} |->
           IF key \in Outputs THEN ids(key)
           ELSE mask(CHOOSE o \in Outputs : MaskOf(o) = key)]

\* accumulate_record: once one record of the bucket has a mask, an omitted one is of ones.
Fill(row) == Ones(Len(row.sequence))
Accumulated(rows, new) ==
    LET all  == Append(rows, new)
        keys == UNION {DOMAIN row : row \in Range(all)}
    IN [i \in DOMAIN all |->
           [key \in keys |-> IF key \in DOMAIN all[i] THEN all[i][key] ELSE Fill(all[i])]]

\* _flush: every domain with records, one after another.
Filled(buckets) == SetToSeq({d \in Domains : buckets[d] # <<>>})

\* One record of the input, and the shards once there are tokens enough.
Read ==
    /\ stage = "reading" /\ job.source = "bin" /\ taken < Len(job.records)
    /\ job.limit = 0 \/ count < job.limit
    /\ LET i == taken + 1
           r == job.records[i]
           b == [bucket EXCEPT ![r.domain] = Accumulated(@, Built(i))]
       IN /\ taken' = i
          /\ IF r.raises \/ ~HasResult(i) THEN UNCHANGED <<count, total, bucket, flushing, stage>>
             ELSE /\ count' = count + 1
                  /\ bucket' = b
                  /\ total' = total + Len(Built(i)[Primary])
                  /\ IF total' >= job.shard THEN flushing' = Filled(b) /\ stage' = "bins"
                     ELSE UNCHANGED <<flushing, stage>>
    /\ UNCHANGED <<job, written, disk, store, offset, learned, crashes>>

\* The input, or max_items, is exhausted: what is left is flushed.
EndOfInput ==
    /\ stage = "reading" /\ job.source = "bin"
    /\ taken = Len(job.records) \/ (job.limit # 0 /\ count = job.limit)
    /\ IF total > 0 THEN flushing' = Filled(bucket) /\ stage' = "bins"
       ELSE stage' = "done" /\ UNCHANGED flushing
    /\ taken' = Len(job.records)
    /\ UNCHANGED <<job, count, total, bucket, written, disk, store, offset, learned, crashes>>

-----------------------------------------------------------------------------
(* Packing. *)

\* The pieces of every record, each a segment of its own.
Chunks(rows) ==
    Flat([i \in DOMAIN rows |->
        LET starts == Starts(Len(rows[i].sequence))
        IN [j \in DOMAIN starts |-> [key \in DOMAIN rows[i] |-> Cut(rows[i][key], starts[j])]]])

\* plan_bfd: longest first, each into the fullest bin that has room, of several the one
\* touched last; bins in the order of their first chunk.
Longest(lengths) ==
    SortSeq([i \in DOMAIN lengths |-> i],
            LAMBDA i, j : lengths[i] > lengths[j] \/ (lengths[i] = lengths[j] /\ i < j))
Placed(plan, i, n) ==
    LET fits == {k \in DOMAIN plan.open : plan.open[k].left >= n}
        room == Min({plan.open[k].left : k \in fits})
        k    == Max({j \in fits : plan.open[j].left = room})
        bin  == IF fits = {} THEN Len(plan.bins) + 1 ELSE plan.open[k].bin
        left == (IF fits = {} THEN job.packed ELSE room) - n
        open == IF fits = {} THEN plan.open ELSE RemoveAt(plan.open, k)
    IN [bins |-> IF fits = {} THEN Append(plan.bins, <<i>>)
                 ELSE [plan.bins EXCEPT ![bin] = Append(@, i)],
        open |-> IF left = 0 THEN open ELSE Append(open, [bin |-> bin, left |-> left])]
Plan(lengths) ==
    SortSeq(FoldLeft(LAMBDA plan, i : Placed(plan, i, lengths[i]),
                     [bins |-> <<>>, open |-> <<>>], Longest(lengths)).bins,
            LAMBDA b, c : Min(Range(b)) < Min(Range(c)))

Reset(lens) == Flat([j \in DOMAIN lens |-> [p \in 1..lens[j] |-> p - 1]])

\* prepare_sequences: per field, the rows to be written.  Single outputs are packed into
\* bins of chunks, and keep the lengths of the chunks, or positions that restart with them.
Prepared(rows) ==
    LET keys   == DOMAIN rows[1]
        chunks == Chunks(rows)
        size   == [i \in DOMAIN chunks |-> Len(chunks[i].sequence)]
        bins   == IF job.packing = "bfd" THEN Plan(size) ELSE [i \in DOMAIN size |-> <<i>>]
        lens   == [b \in DOMAIN bins |-> [j \in DOMAIN bins[b] |-> size[bins[b][j]]]]
        extra  == IF job.mode = "record" THEN "seq_lengths" ELSE "position_ids"
        packed(key) == [b \in DOMAIN bins |->
                           Flat([j \in DOMAIN bins[b] |-> chunks[bins[b][j]][key]])]
    IN IF job.mode = "pair" THEN [key \in keys |-> [i \in DOMAIN rows |-> rows[i][key]]]
       ELSE [key \in keys \cup {extra} |->
                IF key = "seq_lengths" THEN lens
                ELSE IF key = "position_ids" THEN [b \in DOMAIN bins |-> Reset(lens[b])]
                ELSE packed(key)]

-----------------------------------------------------------------------------
(* Shards. *)

Offsets(rows) == FoldLeft(LAMBDA at, row : Append(at, Last(at) + Len(row)), <<0>>, rows)

\* The files of a shard: every field concatenated, and the metadata, with the offsets of the
\* rows where records are kept apart.
Files(fields) ==
    [bins |-> [key \in DOMAIN fields |-> Flat(fields[key])],
     meta |-> [key \in (IF job.mode = "stream" THEN {} ELSE DOMAIN fields) |-> Offsets(fields[key])]]

Shard == Files(Prepared(bucket[Head(flushing)]))
OnDisk == LET d == Head(flushing)
          IN IF written[d] < Len(disk[d]) THEN disk[d][written[d] + 1]
             ELSE [bins |-> Nothing, meta |-> Nothing]
Put(files) ==
    LET d == Head(flushing)
    IN disk' = [disk EXCEPT ![d] = IF written[d] < Len(@) THEN [@ EXCEPT ![written[d] + 1] = files]
                                   ELSE Append(@, files)]

\* save_bin writes the fields, and the metadata that make them visible last.
WriteBins ==
    /\ stage = "bins"
    /\ Put([OnDisk EXCEPT !.bins = Shard.bins])
    /\ stage' = "meta"
    /\ UNCHANGED <<job, taken, count, total, bucket, written, flushing, store, offset, learned,
                   crashes>>

WriteMeta ==
    /\ stage = "meta"
    /\ Put([OnDisk EXCEPT !.meta = Shard.meta])
    /\ written' = [written EXCEPT ![Head(flushing)] = @ + 1]
    /\ flushing' = Tail(flushing)
    /\ IF Len(flushing) > 1 THEN stage' = "bins" /\ UNCHANGED <<total, bucket>>
       ELSE /\ stage' = IF taken < Len(job.records) THEN "reading" ELSE "done"
            /\ total' = 0 /\ bucket' = [d \in Domains |-> <<>>]
    /\ UNCHANGED <<job, taken, count, store, offset, learned, crashes>>

\* BinWriter.save: a shard that could not be written is removed, and the run ends.
WriteFails ==
    /\ stage \in {"bins", "meta"} /\ crashes < MaxCrashes
    /\ Put([bins |-> Nothing, meta |-> Nothing])
    /\ stage' = "crashed" /\ crashes' = crashes + 1
    /\ UNCHANGED <<job, taken, count, total, bucket, written, flushing, store, offset, learned>>

\* The process is killed: what is on disk stays.
Crash ==
    /\ stage \in {"reading", "bins", "meta"} /\ crashes < MaxCrashes
    /\ stage' = "crashed" /\ crashes' = crashes + 1
    /\ UNCHANGED <<job, taken, count, total, bucket, written, flushing, disk, store, offset,
                   learned>>

\* The same pipeline is run again, into the same directory.
Rerun ==
    /\ stage = "crashed"
    /\ stage' = "reading" /\ taken' = 0 /\ count' = 0 /\ total' = 0 /\ flushing' = <<>>
    /\ bucket' = [d \in Domains |-> <<>>] /\ written' = [d \in Domains |-> 0]
    /\ UNCHANGED <<job, disk, store, offset, learned, crashes>>

-----------------------------------------------------------------------------
(* The store. *)

Visible == {<<d, i>> \in Domains \X (1..Len(job.records)) :
               i <= Len(disk[d]) /\ disk[d][i].meta # Nothing}

\* MmapStore.load: the shards that have metadata, in the order of the directory listing.
Load ==
    /\ stage \in {"done", "crashed"} /\ Visible # {}
    /\ \E order \in SetToSeqs(Visible) :
          store' = [s \in DOMAIN order |-> disk[order[s][1]][order[s][2]]]
    /\ stage' = "loaded"
    /\ UNCHANGED <<job, taken, count, total, bucket, written, flushing, disk, offset, learned,
                   crashes>>

\* JsonlStore.load: the transform is applied to the file as it is loaded, into one store of
\* all its records; a record that raises ends the load.
LoadJsonl ==
    /\ stage = "reading" /\ job.source = "jsonl"
    /\ LET ok == SelectSeq([i \in DOMAIN job.records |-> i], HasResult)
           add(rows, i) == Accumulated(rows, Built(i))
       IN IF \E r \in Range(job.records) : r.raises
          THEN stage' = "crashed" /\ UNCHANGED <<taken, store>>
          ELSE /\ store' = <<Files(Prepared(FoldLeft(add, <<>>, ok)))>>
               /\ taken' = Len(job.records) /\ stage' = "loaded"
    /\ UNCHANGED <<job, count, total, bucket, written, flushing, disk, offset, learned, crashes>>

Between(s, at, i) == SubSeq(s, at[i] + 1, at[i + 1])

\* _record_fetch: the shard of a record, and its slice of every field.
NumRecords(shard) == Len(shard.meta[Primary]) - 1
Cum == FoldLeft(LAMBDA cum, s : Append(cum, Last(cum) + NumRecords(s)), <<0>>, store)
FetchRecord(index) ==
    LET s == CHOOSE j \in DOMAIN store : Cum[j] <= index /\ index < Cum[j + 1]
    IN [key \in DOMAIN store[s].meta |->
           Between(store[s].bins[key], store[s].meta[key], index - Cum[s] + 1)]

\* _normalize: a field is the river of the segments that have it, and the stream as long as
\* the shortest field: a shard without masks moves those of the shards after it.
River(key) ==
    Flat([s \in DOMAIN store |-> IF key \in DOMAIN store[s].bins THEN store[s].bins[key] ELSE <<>>])
StreamKeys == {"sequence", "loss_mask", "position_ids"}
TokenCount == Min({Len(River(key)) : key \in StreamKeys})

\* num_samples: the windows that have a next token for every token.
Windows == IF TokenCount <= job.window THEN 0
           ELSE (TokenCount - 1 - job.window) \div job.stride + 1
SampleWindow(index) == Least(index * job.stride, TokenCount - 1 - job.window)

NumSamples == IF job.mode = "stream" THEN Windows ELSE Last(Cum)

\* A mutant of RecordPairs that predicts across the segments of a bin.
MutantCrossPairs(index) ==
    LET r   == FetchRecord(index)
        pos == Reset(r.seq_lengths)
    IN {<<r.sequence[k], r.sequence[k + 1], pos[k]>> :
            k \in {k \in 1..(Len(r.sequence) - 1) : r.loss_mask[k + 1] = 1}}
\* SFTDataset.__getitem__ and sft_collate_fn: what is predicted from what, and where.
RecordPairs(index) ==
    LET r    == FetchRecord(index)
        ends == Range(Tail(Offsets([j \in DOMAIN r.seq_lengths |-> Ones(r.seq_lengths[j])])))
        pos  == Reset(r.seq_lengths)
    IN {<<r.sequence[k], r.sequence[k + 1], pos[k]>> :
            k \in {k \in 1..(Len(r.sequence) - 1) : r.loss_mask[k + 1] = 1 /\ k \notin ends}}

\* DPODataset.__getitem__: both outputs of a record, each with its mask.
PreferencePairs(index) ==
    LET r == FetchRecord(index)
    IN UNION {{<<r[o][k], r[o][k + 1], k - 1>> :
                  k \in {k \in 1..(Len(r[o]) - 1) : r[MaskOf(o)][k + 1] = 1}} : o \in Outputs}

\* SFTDataset.__getitem__ of a stream: a window, and the same shifted by one.
StreamPairs(index) ==
    LET begin == SampleWindow(index)
    IN {<<River("sequence")[k], River("sequence")[k + 1], River("position_ids")[k]>> :
            k \in {k \in (begin + 1)..(begin + job.window) : River("loss_mask")[k + 1] = 1}}

Sample(index) == CASE job.mode = "record" -> RecordPairs(index)
                   [] job.mode = "pair"   -> PreferencePairs(index)
                   [] job.mode = "stream" -> StreamPairs(index)

-----------------------------------------------------------------------------
(* The sampler: one window of the epoch, all its micro-batches on all ranks. *)

GlobalBatch == job.dp * job.batch * job.accumulation
First(rank, micro) == offset + micro * job.dp * job.batch + rank * job.batch
Dealt(rank, micro) ==
    First(rank, micro)..(Least(First(rank, micro) + job.batch, NumSamples) - 1)
Micros == LET n == Least(GlobalBatch, NumSamples - offset)
          IN (n + job.dp * job.batch - 1) \div (job.dp * job.batch)

Dealing == stage = "training" /\ job.tail \in {"flush", "drop"}
HasWindow == offset + (IF job.tail = "drop" THEN GlobalBatch ELSE 1) <= NumSamples

\* An empty slot runs sample zero with weight zero: it is not learned.
Window ==
    /\ Dealing /\ HasWindow
    /\ learned' = learned \o
           Flat([m \in 1..Micros |-> Flat([r \in 1..job.dp |->
               Flat([i \in 1..Cardinality(Dealt(r - 1, m - 1)) |->
                   SetToSeq(Sample(First(r - 1, m - 1) + i - 1))])])])
    /\ offset' = Least(offset + GlobalBatch, NumSamples)
    /\ UNCHANGED <<job, taken, count, total, bucket, written, flushing, stage, disk, store,
                   crashes>>

\* RDSampler, for validation and rollouts: every rank takes each dp-th of the indices,
\* padded from the front ("pad") or cut ("floor") to a multiple of the ranks.
PerRank == (NumSamples + IF job.tail = "pad" THEN job.dp - 1 ELSE 0) \div job.dp
Indices == LET n == PerRank * job.dp - NumSamples
           IN [i \in 1..NumSamples |-> i - 1] \o [i \in 1..Most(0, Least(n, NumSamples)) |-> i - 1]
Local(rank) ==
    LET n == Least(Len(Indices), PerRank * job.dp)
    IN [j \in 1..((n - rank + job.dp - 1) \div job.dp) |-> Indices[rank + (j - 1) * job.dp + 1]]
Ranks == 0..(job.dp - 1)
Sharding == stage = "training" /\ job.tail \in {"pad", "floor"}
HasLocal == \E r \in Ranks : offset < Len(Local(r))

\* One batch of every rank that has one.
RankBatch ==
    /\ Sharding /\ HasLocal
    /\ learned' = learned \o
           Flat([r \in 1..job.dp |-> LET own == Local(r - 1)
                                     IN IF offset < Len(own) THEN SetToSeq(Sample(own[offset + 1]))
                                        ELSE <<>>])
    /\ offset' = offset + 1
    /\ UNCHANGED <<job, taken, count, total, bucket, written, flushing, stage, disk, store,
                   crashes>>

\* validate_keys, and the samplers' constructors: a stream without one of its fields is
\* refused, and a data set that has no sample for a rank to begin with.
Missing == job.mode = "stream" /\ \E key \in StreamKeys :
               \A s \in DOMAIN store : key \notin DOMAIN store[s].bins
NothingToDeal == IF job.tail \in {"pad", "floor"} THEN PerRank = 0 ELSE NumSamples = 0

Prepare ==
    /\ stage = "loaded"
    /\ stage' = IF Missing \/ NothingToDeal THEN "refused" ELSE "training"
    /\ UNCHANGED <<job, taken, count, total, bucket, written, flushing, disk, store, offset,
                   learned, crashes>>

EpochEnds ==
    /\ (Dealing /\ ~HasWindow) \/ (Sharding /\ ~HasLocal)
    /\ stage' = "trained"
    /\ UNCHANGED <<job, taken, count, total, bucket, written, flushing, disk, store, offset,
                   learned, crashes>>

Over == stage \in {"done", "refused", "trained"} /\ UNCHANGED data

Next ==
    \/ Read \/ EndOfInput \/ WriteBins \/ WriteMeta \/ WriteFails \/ Crash \/ Rerun
    \/ Load \/ LoadJsonl \/ Prepare \/ Window \/ RankBatch \/ EpochEnds \/ Over

Spec == Init /\ [][Next]_data

-----------------------------------------------------------------------------
(* What should be learned, from the input alone. *)

\* The records that count: those that can be built, up to max_items.
Good == {i \in DOMAIN job.records : ~job.records[i].raises /\ HasResult(i)}
Kept == {i \in Good : job.limit = 0 \/ Cardinality({j \in Good : j <= i}) <= job.limit}

\* The position of a token in its segment, or none if it was cut off.
PositionOf(token) ==
    LET n    == Len(Assembled(token[1], token[3]))
        over == {p \in Range(Starts(n)) : p < token[2] /\ token[2] <= p + Limit}
    IN IF over = {} THEN Nothing ELSE token[2] - 1 - Max(over)
Trained(token) == Assembled(token[1], token[3])[token[2]] = 1

Tokens == {<<i, k, o>> \in Kept \X (1..job.longest) \X Outputs : k <= Len(Assembled(i, o))}
\* In a record, each token that is to be predicted, from the one before it in its segment.
Expected ==
    {<<<<t[1], t[2] - 1, t[3]>>, t, PositionOf(t) - 1>> :
        t \in {t \in Tokens : Trained(t) /\ PositionOf(t) \notin {Nothing, 0}}}

\* The pipeline had come to its end when the shards were loaded.
Finished == taken = Len(job.records) /\ flushing = <<>> /\ total = 0

\* The ranks meet in collectives at every batch: one that has none leaves the others waiting.
RanksInStep == Sharding => \A r \in Ranks : Len(Local(r)) = PerRank

\* The padding takes every sample at most once more (sampler.py:141-143): ranks beyond twice
\* the samples get none.
EnoughToPad == job.tail = "pad" => job.dp <= 2 * NumSamples

\* Every pair that is learned is one the input asks for, with its position, and is learned
\* once, whatever the shards, the order they are listed in, the bins, the ranks and the
\* crashes; of a finished pipeline and with the tail flushed nothing is missing.  Padding
\* repeats samples, and leaves no rank behind unless there are more than two for a sample.
\* Preferences stay with their alternative.
LearnsTheRecords ==
    job.mode # "stream" =>
        /\ Range(learned) \subseteq Expected
        /\ job.tail = "pad" \/ IsInjective(learned)
        /\ (stage = "trained" /\ Finished /\ job.tail \in {"flush", "pad"}) =>
              Range(learned) = Expected
        /\ stage = "training" /\ EnoughToPad => RanksInStep
        /\ (job.mode = "pair" /\ stage = "training") =>
              \A i \in 0..(NumSamples - 1) : Cardinality({pair[1][1] : pair \in Sample(i)}) <= 1

\* Every shard that was loaded has masks: none consists of fully trained records only, of
\* which the builder omits them (builder.py:331).
MasksEverywhere == \A s \in DOMAIN store : "loss_mask" \in DOMAIN store[s].bins

\* Only tokens of sections that are trained on are learned.
LearnsTrainedTokens == \A pair \in Range(learned) : Trained(pair[2])

\* In a stream a prediction may cross into the next document, but positions stay with their
\* tokens and no token is predicted twice.  Where every shard has masks, they stay with their
\* tokens too, and less than a window goes unread; where one has none, the masks of the next are
\* read for its tokens.
LearnsTheStream ==
    job.mode = "stream" =>
        /\ \A pair \in Range(learned) :
              pair[3] = PositionOf(pair[1]) /\ PositionOf(pair[2]) \in {0, pair[3] + 1}
        /\ job.tail = "pad" \/ IsInjective(learned)
        /\ stage = "training" /\ EnoughToPad => RanksInStep
        /\ stage \in {"training", "trained"} /\ MasksEverywhere =>
              /\ LearnsTrainedTokens
              /\ stage = "trained" /\ job.tail = "flush" =>
                    Cardinality({t \in Range(River("sequence")) : Trained(t)})
                        < Len(learned) + job.stride + 1
=============================================================================
