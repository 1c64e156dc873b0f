------------------------------ MODULE DeviceWork ------------------------------
(***************************************************************************)
(* What the model runner launches and what the device computes from it      *)
(* (inference/worker/model_runner.py, workspace.py, pending.py, sample.py;  *)
(* bind and slot staging in inference/core/cache/pool.py and strategy.py;   *)
(* packed attention in extension/backend/attention/torch.py).               *)
(*                                                                         *)
(* The host enqueues and runs ahead; the device works through its stream in *)
(* order and reads pinned staging memory only then.  Decode reuses state    *)
(* across steps: the cached batch signature, the tokens still on device,    *)
(* the bind counters advanced in place, the sampling parameters.            *)
(*                                                                         *)
(* The token at position q of request r is <<r, q>>.  A forward that sees   *)
(* exactly the prefix of r up to q, with r's sampling parameters, samples   *)
(* <<r, q + 1>>; any other forward samples Garbage.  Every request has the  *)
(* storage of its slot (page size 1; which pages a request may hold is the  *)
(* subject of KVCache).  A request is one incarnation: ids are not reused,  *)
(* slots are.  What may be submitted while a step is in flight is what the  *)
(* engine core allows (EngineCore): the same batch, or drained requests.    *)
(***************************************************************************)
EXTENDS Integers, Sequences, FiniteSets, SequencesExt, FiniteSetsExt

CONSTANTS
    Requests,     \* naturals: their order is the order of request ids
    PromptLen,    \* [Requests -> Nat]
    MaxNew,       \* outputs of a request
    ContLen,      \* scored continuation of each request, shorter than its prompt
    Sampling,     \* [Requests -> [temp, topK, topP, penalty]]
    Slots,        \* request slots of the pool
    Chunk,        \* longest prefill window
    MaxHandles    \* uncommitted launches

VARIABLES
    seat,         \* [request -> [at, slot, length, staged, flushed]]
    reach,        \* [request -> end of its last launched window]
    output,       \* [request -> tokens committed on the host]
    vacant,       \* free slots, reused first in first out
    bound,        \* the last bind: [sig, lens], or Unbound
    decodeCache,  \* the last decode: [batch, slots, owners], or Unbound
    stream,       \* operations the device has not executed
    pins, pin,    \* the two pinned staging buffers, and the next to fill
    device,       \* device memory
    handles,      \* launches not yet committed, oldest first
    rings,        \* the two pinned result slots: [busy, tokens]
    scores        \* [request -> tokens its scored positions predict]

work == <<seat, reach, output, vacant, bound, decodeCache, stream, pins, pin,
          device, handles, rings, scores>>

Unbound == [none |-> TRUE]
Garbage == <<0, 0>>
Blank == <<0, 0>>

SlotOf(r) == seat[r].slot
SlotsOf(batch) == [i \in DOMAIN batch |-> SlotOf(batch[i])]
InFlight(r) == \E h \in DOMAIN handles : r \in ToSet(handles[h].batch)
Ascending(S) == SetToSortSeq(S, <)

-----------------------------------------------------------------------------
(* Packed attention and sampling on the device. *)

\* Row i of request b: keys inside its sequence, causal from its own offset.
Attends(lens, queries, b, i) ==
    {j \in 0 .. Max(ToSet(lens)) - 1 : j < lens[b] /\ lens[b] - queries[b] + i >= j}

\* _build_sampling_batch_info: facts of the whole batch, from which sample decides
\* which filters run; each row brings its own values.
Meta(owners) ==
    LET all == {Sampling[owners[x]] : x \in DOMAIN owners}
    IN  [greedy |-> \A s \in all : s.temp = 0,
         anyTempNotOne |-> \E s \in all : s.temp # 1,
         maxTopK |-> Max({s.topK : s \in all}),
         anyToppLt1 |-> \E s \in all : s.topP < 1,
         hasFreq |-> \E s \in all : s.penalty # 0]

Effective(owners, i) ==
    LET own == Sampling[owners[i]]
        meta == Meta(owners)
    IN  IF meta.greedy /\ ~meta.hasFreq
        THEN [temp |-> 0, topK |-> own.topK, topP |-> own.topP, penalty |-> 0]
        ELSE [temp |-> IF meta.anyTempNotOne THEN own.temp ELSE 1,
              topK |-> IF meta.maxTopK = 0 THEN 0 ELSE Min({own.topK, meta.maxTopK}),
              topP |-> IF meta.anyToppLt1 THEN own.topP ELSE 1,
              penalty |-> IF meta.hasFreq THEN own.penalty ELSE 0]

\* _submit_sample: row i of the batch gets the token of its own request, under that
\* request's filters and with all it has put out so far counted against it.
Sample(op, i, logit, produced) ==
    LET own == Sampling[op.batch[i]]
    IN  IF /\ Effective(op.owners, i) = own
           /\ own.penalty # 0 => op.seen[i] = produced
        THEN logit ELSE Garbage

\* What the last row of window b samples: every row of the window must have
\* seen the prefix of one request.
Predicted(kv, rows, indices, lens, queries, b, i) ==
    LET Seen == {kv[rows[indices[b]][j]] : j \in Attends(lens, queries, b, i)}
        Prefix(r) == {<<<<r, q>>, q>> : q \in 0 .. lens[b] - queries[b] + i}
    IN  IF \E r \in Requests : Seen = Prefix(r)
        THEN <<CHOOSE r \in Requests : Seen = Prefix(r), lens[b] - queries[b] + i + 1>>
        ELSE Garbage

\* One launch: staged slots land, counters advance or are overwritten, the
\* window's keys are written, then every row attends.
Forward(d, op) ==
    LET batch == op.batch
        rows == [s \in DOMAIN d.rows |->
                    [c \in DOMAIN d.rows[s] |->
                        IF op.flush # 0 /\ <<s, c>> \in pins[op.flush] THEN <<s, c>>
                        ELSE d.rows[s][c]]]
        indices == IF op.steady THEN d.indices ELSE op.slots
        lens == [i \in DOMAIN batch |-> IF op.steady THEN d.lens[i] + 1 ELSE op.lens[i]]
        queries == op.queries
        first == [i \in DOMAIN batch |-> IF op.keep THEN d.positions[i] + 1 ELSE op.first[i]]
        Token(i, x) == IF op.relay THEN d.last[i] ELSE op.tokens[i][x + 1]
        Place(i, x) == rows[indices[i]][lens[i] - queries[i] + x]
        written == {<<i, x>> : i \in DOMAIN batch, x \in 0 .. Max(ToSet(queries)) - 1}
        kv == [c \in DOMAIN d.kv |->
                 LET w == {p \in written : p[2] < queries[p[1]] /\ Place(p[1], p[2]) = c}
                 IN  IF w = {} THEN d.kv[c]
                     ELSE LET p == CHOOSE p \in w : TRUE
                          IN  <<Token(p[1], p[2]), first[p[1]] + p[2]>>]
        Row(i, x) == Predicted(kv, rows, indices, lens, queries, i, x)
        Sampled(i) ==
            IF \A x \in 0 .. queries[i] - 1 : Row(i, x) # Garbage
            THEN Sample(op, i, Row(i, queries[i] - 1), lens[i] - PromptLen[batch[i]])
            ELSE Garbage
        sampling == SelectSeq([i \in DOMAIN batch |-> i], LAMBDA i : op.samples[i])
        tokens == [n \in DOMAIN sampling |-> Sampled(sampling[n])]
    IN  [d EXCEPT !.rows = rows, !.kv = kv, !.indices = indices, !.lens = lens,
                  !.positions = IF op.kind = "decode" THEN first ELSE @,
                  !.last = IF op.kind = "decode" THEN tokens ELSE @,
                  !.out = tokens,
                  !.logits = FlattenSeq([i \in DOMAIN batch |->
                                 [x \in 1 .. queries[i] |-> Row(i, x - 1)]])]

\* write_indices at admission: the prompt's part of the slot's row.
WriteRow(d, op) ==
    [d EXCEPT !.rows[op.slot] = [c \in DOMAIN @ |-> IF c < op.length THEN <<op.slot, c>> ELSE @[c]]]

-----------------------------------------------------------------------------
(* Binding a batch. *)

\* Same slots in the same order, each sequence longer by one.
Steady(slots, lens) ==
    /\ bound # Unbound /\ bound.slots = slots
    /\ \A i \in DOMAIN lens : lens[i] = bound.lens[i] + 1

\* Slots staged on the host since the last flush, for the whole batch.
Staged(seats, batch) ==
    UNION {{<<seats[r].slot, c>> : c \in seats[r].flushed .. seats[r].staged - 1} :
              r \in ToSet(batch)}
Flushed(seats, batch) ==
    [r \in Requests |-> IF r \in ToSet(batch) THEN [seats[r] EXCEPT !.flushed = @ + Max({0, seats[r].staged - @})]
                        ELSE seats[r]]

\* Everything a launch enqueues and remembers.  The seats already hold the
\* positions the scheduler extended.
Launch(seats, op) ==
    LET staged == Staged(seats, op.batch)
        flush == IF staged = {} THEN 0 ELSE pin
        free == {s \in DOMAIN rings : ~rings[s].busy}
        ring == IF op.kind = "decode" /\ free # {} THEN Min(free) ELSE 0
    IN  /\ seat' = Flushed(seats, op.batch)
        /\ pins' = IF flush = 0 THEN pins ELSE [pins EXCEPT ![flush] = staged]
        /\ pin' = IF flush = 0 THEN pin ELSE 3 - pin
        /\ bound' = [slots |-> op.slots, lens |-> op.lens]
        /\ stream' = Append(stream, op @@ [flush |-> flush])
        /\ rings' = IF ring = 0 THEN rings ELSE [rings EXCEPT ![ring].busy = TRUE]
        /\ handles' = Append(handles,
                        [batch |-> op.batch, ring |-> ring, done |-> FALSE,
                         copied |-> FALSE, tokens |-> <<>>,
                         sampled |-> SelectSeq(op.batch, LAMBDA r :
                                        op.samples[CHOOSE i \in DOMAIN op.batch : op.batch[i] = r])])
        /\ reach' = [r \in Requests |->
                       IF r \in ToSet(op.batch)
                       THEN op.lens[CHOOSE i \in DOMAIN op.batch : op.batch[i] = r]
                       ELSE reach[r]]

-----------------------------------------------------------------------------
(* Actions of the host. *)

Init ==
    /\ seat = [r \in Requests |-> [at |-> "new", slot |-> 0, length |-> 0,
                                   staged |-> 0, flushed |-> 0]]
    /\ reach = [r \in Requests |-> 0] /\ output = [r \in Requests |-> <<>>]
    /\ vacant = [s \in 1 .. Slots |-> s]
    /\ bound = Unbound /\ decodeCache = Unbound /\ stream = <<>>
    /\ pins = <<{}, {}>> /\ pin = 1
    /\ LET Places == 0 .. Max({PromptLen[r] : r \in Requests}) + MaxNew
       IN  device = [rows |-> [s \in 1 .. Slots |-> [c \in Places |-> <<1, 0>>]],
                     kv |-> [c \in (1 .. Slots) \X Places |-> Blank],
                     indices |-> <<>>, lens |-> <<>>, positions |-> <<>>,
                     last |-> <<>>, out |-> <<>>, logits |-> <<>>]
    /\ handles = <<>> /\ scores = [r \in Requests |-> <<>>]
    /\ rings = [s \in 1 .. 2 |-> [busy |-> FALSE, tokens |-> <<>>]]

\* alloc_slots: any admission ends the steady state.
Seated(r, slot) == [at |-> "active", slot |-> slot, length |-> PromptLen[r],
                    staged |-> PromptLen[r], flushed |-> PromptLen[r]]
Admit(r) ==
    /\ seat[r].at = "new" /\ vacant # <<>>
    /\ seat' = [seat EXCEPT ![r] = Seated(r, Head(vacant))]
    /\ vacant' = Tail(vacant) /\ bound' = Unbound
    /\ stream' = Append(stream, [kind |-> "row", slot |-> Head(vacant), length |-> PromptLen[r]])
    /\ UNCHANGED <<reach, output, decodeCache, pins, pin, device, handles, rings, scores>>

\* Requests at one start position, packed in the order of their ids; a window
\* that reaches the prompt's end samples.
Prefill(group, start, window) ==
    LET batch == Ascending(group)
        End(r) == Min({start + window[r], PromptLen[r]})
    IN  /\ Len(handles) < MaxHandles
        /\ \A r \in group : seat[r].at = "active" /\ reach[r] = start /\ start < PromptLen[r]
        /\ Launch(seat,
             [kind |-> "prefill", batch |-> batch, slots |-> SlotsOf(batch),
              lens |-> [i \in DOMAIN batch |-> End(batch[i])], steady |-> FALSE,
              queries |-> [i \in DOMAIN batch |-> End(batch[i]) - start],
              first |-> [i \in DOMAIN batch |-> start], keep |-> FALSE, relay |-> FALSE,
              tokens |-> [i \in DOMAIN batch |->
                            [x \in 1 .. End(batch[i]) - start |-> <<batch[i], start + x - 1>>]],
              samples |-> [i \in DOMAIN batch |-> End(batch[i]) = PromptLen[batch[i]]],
              owners |-> batch, seen |-> [i \in DOMAIN batch |-> 0]])
        /\ UNCHANGED <<output, vacant, decodeCache, device, scores>>

\* The tokens on device belong to this batch only if it is the same requests
\* in the same order; slots are recycled and prove nothing.
MutantCacheValid(batch) == decodeCache # Unbound /\ decodeCache.slots = SlotsOf(batch)
CacheValid(batch) == decodeCache # Unbound /\ decodeCache.batch = batch

Submittable(batch) ==
    \/ \A r \in ToSet(batch) : ~InFlight(r)
    \/ CacheValid(batch) /\ \A r \in ToSet(batch) : Sampling[r].penalty = 0

\* The scheduler extends every request by one position; the runner launches.
Extended(batch) ==
    [r \in Requests |-> IF r \in ToSet(batch)
                        THEN [seat[r] EXCEPT !.length = reach[r] + 1, !.staged = reach[r] + 1]
                        ELSE seat[r]]
Decode(batch) ==
    LET lens == [i \in DOMAIN batch |-> reach[batch[i]] + 1]
        relay == CacheValid(batch)
        steady == Steady(SlotsOf(batch), lens)
        owners == IF relay /\ steady THEN decodeCache.owners ELSE batch
    IN  /\ Len(handles) < MaxHandles
        /\ \A r \in ToSet(batch) :
              /\ seat[r].at = "active" /\ reach[r] >= PromptLen[r]
              /\ reach[r] - PromptLen[r] + 1 < MaxNew
        /\ Submittable(batch)
        /\ Launch(Extended(batch),
             [kind |-> "decode", batch |-> batch, slots |-> SlotsOf(batch), lens |-> lens,
              steady |-> steady, queries |-> [i \in DOMAIN batch |-> 1],
              first |-> [i \in DOMAIN batch |-> reach[batch[i]]],
              keep |-> relay /\ steady, relay |-> relay,
              tokens |-> [i \in DOMAIN batch |->
                            IF relay THEN <<>> ELSE <<Last(output[batch[i]])>>],
              samples |-> [i \in DOMAIN batch |-> TRUE], owners |-> owners,
              seen |-> [i \in DOMAIN batch |-> Len(output[batch[i]])]])
        /\ decodeCache' = [batch |-> batch, slots |-> SlotsOf(batch), owners |-> owners]
        /\ UNCHANGED <<output, vacant, device, scores>>

\* commit(): wait for the copy when a result slot was given, else for the
\* device; the slot is free again only now.
Commit ==
    /\ handles # <<>>
    /\ LET h == Head(handles)
           tokens == IF h.ring = 0 THEN h.tokens ELSE rings[h.ring].tokens
           At(r) == CHOOSE n \in DOMAIN h.sampled : h.sampled[n] = r
       IN  /\ IF h.ring = 0 THEN h.done ELSE h.copied
           /\ output' = [r \in Requests |->
                           IF r \in ToSet(h.sampled) THEN Append(output[r], tokens[At(r)])
                           ELSE output[r]]
           /\ rings' = IF h.ring = 0 THEN rings ELSE [rings EXCEPT ![h.ring].busy = FALSE]
    /\ handles' = Tail(handles)
    /\ UNCHANGED <<seat, reach, vacant, bound, decodeCache, stream, pins, pin, device, scores>>

\* Finished or aborted, once nothing of it is in flight.
Free(r) ==
    /\ seat[r].at = "active" /\ ~InFlight(r)
    /\ seat' = [seat EXCEPT ![r].at = "gone"]
    /\ vacant' = Append(vacant, SlotOf(r)) /\ bound' = Unbound
    /\ UNCHANGED <<reach, output, decodeCache, stream, pins, pin, device, handles, rings, scores>>

\* A continuation at [P - C, P) is read from the packed rows that predict it.
ScorePositions(batch, i) ==
    LET offset == FoldLeft(LAMBDA sum, r : sum + PromptLen[r], 0, SubSeq(batch, 1, i - 1))
        start == offset + PromptLen[batch[i]] - ContLen[batch[i]] - 1
    IN  [x \in 1 .. ContLen[batch[i]] |-> start + x - 1]

\* A scoring call seats its prompts, runs them whole and waits for the result.
Score(batch) ==
    LET slots == [i \in DOMAIN batch |-> vacant[i]]
        op == [kind |-> "score", batch |-> batch, slots |-> slots, steady |-> FALSE,
               flush |-> 0, lens |-> [i \in DOMAIN batch |-> PromptLen[batch[i]]],
               queries |-> [i \in DOMAIN batch |-> PromptLen[batch[i]]],
               first |-> [i \in DOMAIN batch |-> 0], keep |-> FALSE, relay |-> FALSE,
               tokens |-> [i \in DOMAIN batch |->
                             [x \in 1 .. PromptLen[batch[i]] |-> <<batch[i], x - 1>>]],
               samples |-> [i \in DOMAIN batch |-> FALSE], owners |-> batch,
               seen |-> [i \in DOMAIN batch |-> 0]]
        Seat(d, i) == WriteRow(d, [slot |-> slots[i], length |-> PromptLen[batch[i]]])
        ran == Forward(FoldLeft(Seat, device, [i \in DOMAIN batch |-> i]), op)
        Scored(i) == [x \in 1 .. ContLen[batch[i]] |-> ran.logits[ScorePositions(batch, i)[x] + 1]]
        At(r) == CHOOSE i \in DOMAIN batch : batch[i] = r
    IN  /\ stream = <<>> /\ Len(batch) <= Len(vacant)
        /\ \A i \in DOMAIN batch : seat[batch[i]].at = "new"
        /\ device' = ran
        /\ scores' = [r \in Requests |-> IF r \in ToSet(batch) THEN Scored(At(r)) ELSE scores[r]]
        /\ seat' = [r \in Requests |-> IF r \in ToSet(batch) THEN [seat[r] EXCEPT !.at = "gone"]
                                       ELSE seat[r]]
        /\ vacant' = SubSeq(vacant, Len(batch) + 1, Len(vacant)) \o slots
        /\ bound' = Unbound
        /\ UNCHANGED <<reach, output, decodeCache, stream, pins, pin, handles, rings>>

-----------------------------------------------------------------------------
(* The device. *)

\* The next operation of the compute stream.
Execute ==
    /\ stream # <<>>
    /\ stream' = Tail(stream)
    /\ LET op == Head(stream)
           h == SelectInSeq(handles, LAMBDA x : ~x.done)
       IN  IF op.kind = "row"
           THEN device' = WriteRow(device, op) /\ UNCHANGED handles
           ELSE /\ device' = Forward(device, op)
                /\ handles' = [handles EXCEPT ![h].done = TRUE, ![h].tokens = device'.out]
    /\ UNCHANGED <<seat, reach, output, vacant, bound, decodeCache, pins, pin, rings, scores>>

\* The copy stream waits for the producing work, then fills the result slot.
CopyOut(h) ==
    /\ handles[h].done /\ handles[h].ring # 0 /\ ~handles[h].copied
    /\ rings' = [rings EXCEPT ![handles[h].ring].tokens = handles[h].tokens]
    /\ handles' = [handles EXCEPT ![h].copied = TRUE]
    /\ UNCHANGED <<seat, reach, output, vacant, bound, decodeCache, stream, pins, pin,
                   device, scores>>

Batches == UNION {{s \in [1 .. n -> Requests] : IsInjective(s)} : n \in 1 .. Slots}
Next ==
    \/ \E r \in Requests : Admit(r) \/ Free(r)
    \/ \E group \in SUBSET Requests \ {{}} : \E r \in group :
          \E window \in [group -> 1 .. Chunk] : Prefill(group, reach[r], window)
    \/ \E batch \in Batches : Decode(batch) \/ Score(batch)
    \/ Commit \/ Execute
    \/ \E h \in DOMAIN handles : CopyOut(h)

Spec == Init /\ [][Next]_work

-----------------------------------------------------------------------------
(* Properties. *)

WorkTypeOK ==
    /\ \A r \in Requests :
          /\ seat[r].at \in {"new", "active", "gone"}
          /\ seat[r].flushed <= seat[r].staged /\ seat[r].staged <= seat[r].length
          /\ Len(output[r]) <= MaxNew
    /\ pin \in {1, 2} /\ Len(handles) <= MaxHandles
    /\ ToSet(vacant) \subseteq 1 .. Slots

\* Every token the host commits to a request is the one the model samples from
\* that request's own prefix with its own parameters, however its batches
\* formed, which slot it sits in, how far the host runs ahead and which pinned
\* buffer carried the values (model_runner.py submit_decode, execute_prefill;
\* pool.py bind; pending.py ResultRing).
OutputsAreTheirOwn ==
    \A r \in Requests : \A n \in DOMAIN output[r] : output[r][n] = <<r, PromptLen[r] + n - 1>>

\* A scoring call reads, for every request of its batch, exactly the rows that
\* predict its continuation (execute_score).
ScoresAreAligned ==
    \A r \in Requests : scores[r] # <<>> =>
        scores[r] = [x \in 1 .. ContLen[r] |-> <<r, PromptLen[r] - ContLen[r] + x - 1>>]
=============================================================================
