------------------------------- MODULE KVCache -------------------------------
(***************************************************************************)
(* The paged KV cache of the inference engine: the page allocator's        *)
(* ownership sets, the radix prefix index and the request slots of         *)
(* KVCacheManager (astrai/inference/core/cache/{strategy,pool}.py), driven *)
(* by the calls the scheduler makes.                                       *)
(*                                                                         *)
(* A page holds PageSize slots.  The ghost variable kv says what the       *)
(* device wrote into each slot: the weights' version and the token prefix  *)
(* whose last key/value it is.  It is what the properties are about: the   *)
(* program never compares KV contents, it only promises that a page index  *)
(* reached by token prefix leads to KV computed from that prefix.          *)
(*                                                                         *)
(* Which free page an allocation takes and which cached page is evicted    *)
(* first are left open.                                                    *)
(***************************************************************************)
EXTENDS Integers, Sequences, FiniteSets

CONSTANTS Pages,        \* physical KV pages of the pool
          PageSize,     \* token slots of a page
          Requests,     \* request slots (rows of ReqToTokenPool: max_batch_size)
          Tokens,       \* token ids
          Prompts,      \* tokenized prompts a request may arrive with
          MaxSeqLen,    \* longest sequence the engine serves
          MaxVersion,   \* bound: weight updates explored
          None          \* no publication in progress

ASSUME PagesAssumption == IsFiniteSet(Pages)
ASSUME PageSizeAssumption == PageSize \in Nat \ {0}
ASSUME RequestsAssumption == IsFiniteSet(Requests)
ASSUME LengthAssumption == MaxSeqLen \in Nat \ {0} /\ MaxVersion \in Nat
ASSUME PromptsAssumption ==
    \A ts \in Prompts : ts \in Seq(Tokens) /\ Len(ts) \in 1..MaxSeqLen
ASSUME NoneAssumption ==
    None \notin [req : Requests, page : Nat, last : Nat, release : BOOLEAN]

VARIABLES
    free,       \* pages in the allocator's free mask
    cached,     \* unreferenced pages kept for prefix hits (the LRU)
    refs,       \* reference count of every page
    node,       \* token path a page is indexed under, <<>> when it is not
    held,       \* pages of every request, in logical order
    hit,        \* tokens a request found in the prefix cache
    tokens,     \* prompt and output tokens of a request
    promptLen,  \* length of its prompt
    length,     \* positions reserved in the KV (planned executions included)
    done,       \* positions whose KV is materialized
    status,     \* where the request is in its life
    publishing, \* a record_block_hashes call in progress, or None
    weights,    \* version of the model weights
    kv          \* ghost: what the device wrote in every slot

pool == <<free, cached, refs>>
requestVars == <<held, hit, tokens, promptLen, length, done, status>>
vars == <<free, cached, refs, node, held, hit, tokens, promptLen, length, done,
          status, publishing, weights, kv>>

-----------------------------------------------------------------------------
(* Token paths. *)

Smaller(a, b) == IF a < b THEN a ELSE b
Larger(a, b) == IF a > b THEN a ELSE b

\* The first i pages of a token sequence: a node of the radix trie.
Upto(ts, i) == SubSeq(ts, 1, i * PageSize)

\* q is p or a descendant of p in the trie.
Below(q, p) == Len(p) <= Len(q) /\ SubSeq(q, 1, Len(p)) = p

Indexed(path) == \E p \in Pages : node[p] = path
PageAt(path) == CHOOSE p \in Pages : node[p] = path

\* RadixCache.lookup: k leading pages of ts are indexed and the next is not.
IsHitCount(k, ts) ==
    /\ \A j \in 1..k : Indexed(Upto(ts, j))
    /\ k < Len(ts) \div PageSize => ~Indexed(Upto(ts, k + 1))

PagesFor(n) == (n + PageSize - 1) \div PageSize

Elements(s) == {s[i] : i \in DOMAIN s}
Live == {r \in Requests : status[r] # "idle"}

\* The slot of position q (counted from 0) in a request's pages.
SlotOf(r, q) == <<held[r][q \div PageSize + 1], (q % PageSize) + 1>>
Value(ver, ts, q) == [ver |-> ver, path |-> SubSeq(ts, 1, q + 1)]
Unwritten == [ver |-> 0, path |-> <<>>]

-----------------------------------------------------------------------------
(* Allocator. *)

\* A mutant of Revoked that forgets the descendants.
MutantRevokeVictimOnly(victims) == victims

\* Pages of the subtrees of a set of evicted victims (RadixCache.evict).
Revoked(victims) ==
    {p \in Pages : node[p] # <<>> /\ \E v \in victims : Below(node[p], node[v])}

\* Those that return to the free mask: unreferenced ones (_discard_cached).
Reclaimed(victims, lru) == victims \cup (Revoked(victims) \cap lru)

\* alloc_many evicts cached pages one by one, only while the free mask is short.
EvictionSets(fr, lru, n) ==
    {V \in SUBSET lru :
        /\ Cardinality(fr \cup Reclaimed(V, lru)) >= n
        /\ V # {} =>
             \E last \in V :
                Cardinality(fr \cup Reclaimed(V \ {last}, lru)) < n}

\* n distinct pages of S in some order.
Harvests(S, n) ==
    {s \in [1..n -> S] : \A i, j \in 1..n : s[i] = s[j] => i = j}

\* inc_ref of prefix hits: pinned pages leave the LRU before anything is evicted.
Pinned(S) == [p \in Pages |-> IF p \in S THEN refs[p] + 1 ELSE refs[p]]
MutantHitsStayEvictable(hits) == cached
Unpinned(hits) == cached \ hits

\* free_many: the pages of S whose count reaches zero are kept when they are
\* indexed and return to the free mask when they are not.
Drop(rf, S) == [p \in Pages |-> IF p \in S THEN rf[p] - 1 ELSE rf[p]]
MutantKeepAll(rf, S) == {p \in S : rf[p] = 1}
Kept(rf, S) == {p \in S : rf[p] = 1 /\ node[p] # <<>>}
MutantFreeAll(rf, S) == {p \in S : rf[p] = 1}
Freed(rf, S) == {p \in S : rf[p] = 1 /\ node[p] = <<>>}

-----------------------------------------------------------------------------
Init ==
    /\ free = Pages
    /\ cached = {}
    /\ refs = [p \in Pages |-> 0]
    /\ node = [p \in Pages |-> <<>>]
    /\ held = [r \in Requests |-> <<>>]
    /\ hit = [r \in Requests |-> 0]
    /\ tokens = [r \in Requests |-> <<>>]
    /\ promptLen = [r \in Requests |-> 0]
    /\ length = [r \in Requests |-> 0]
    /\ done = [r \in Requests |-> 0]
    /\ status = [r \in Requests |-> "idle"]
    /\ publishing = None
    /\ weights = 0
    /\ kv = [p \in Pages |-> [o \in 1..PageSize |-> Unwritten]]

\* The engine lock is held from the first to the last page of a publication.
Unlocked == publishing = None

\* alloc_slots succeeds: prefix hits are pinned first, then the missing pages
\* are harvested, evicting cached ones if the free mask is short.  can_ever_fit
\* was checked by the scheduler.
Admit(r, ts) ==
    /\ Unlocked
    /\ status[r] = "idle"
    /\ PagesFor(Len(ts)) <= Cardinality(Pages)
    /\ \E k \in 0..(Len(ts) \div PageSize) :
        LET hits == [i \in 1..k |-> PageAt(Upto(ts, i))]
            lru == Unpinned(Elements(hits))
            need == PagesFor(Len(ts)) - k
        IN  /\ IsHitCount(k, ts)
            /\ \E V \in EvictionSets(free, lru, need) :
               \E new \in Harvests(free \cup Reclaimed(V, lru), need) :
                /\ held' = [held EXCEPT ![r] = hits \o new]
                /\ hit' = [hit EXCEPT ![r] = k * PageSize]
                /\ refs' = [p \in Pages |->
                              IF p \in Elements(new) THEN 1
                              ELSE Pinned(Elements(hits))[p]]
                /\ free' = (free \cup Reclaimed(V, lru)) \ Elements(new)
                /\ cached' = lru \ Reclaimed(V, lru)
                /\ node' = [p \in Pages |->
                              IF p \in Revoked(V) THEN <<>> ELSE node[p]]
                /\ kv' = [p \in Pages |->
                            IF p \in Elements(new)
                            THEN [o \in 1..PageSize |-> Unwritten] ELSE kv[p]]
    /\ tokens' = [tokens EXCEPT ![r] = ts]
    /\ promptLen' = [promptLen EXCEPT ![r] = Len(ts)]
    /\ length' = [length EXCEPT ![r] = Len(ts)]
    /\ done' = [done EXCEPT ![r] = 0]
    /\ status' = [status EXCEPT ![r] = "running"]
    /\ UNCHANGED <<publishing, weights>>

\* alloc_slots fails: the hits are pinned, alloc_many returns None before any
\* eviction, and _rollback releases the pins again.
AdmitFails(r, ts) ==
    /\ Unlocked
    /\ status[r] = "idle"
    /\ PagesFor(Len(ts)) <= Cardinality(Pages)
    /\ \E k \in 0..(Len(ts) \div PageSize) :
        LET hits == {PageAt(Upto(ts, i)) : i \in 1..k}
            need == PagesFor(Len(ts)) - k
        IN  /\ IsHitCount(k, ts)
            /\ Cardinality(free) + Cardinality(Unpinned(hits)) < need
            /\ refs' = Drop(Pinned(hits), hits)
            /\ cached' = Unpinned(hits) \cup Kept(Pinned(hits), hits)
            /\ free' = free \cup Freed(Pinned(hits), hits)
    /\ UNCHANGED <<node, requestVars, publishing, weights, kv>>

-----------------------------------------------------------------------------
(* Execution: the device writes the KV of a scheduled window. *)

Written(r, from, to) ==
    [p \in Pages |-> [o \in 1..PageSize |->
        IF \E q \in from..(to - 1) : SlotOf(r, q) = <<p, o>>
        THEN Value(weights, tokens[r],
                   CHOOSE q \in from..(to - 1) : SlotOf(r, q) = <<p, o>>)
        ELSE kv[p][o]]]

Publish(r, from, to, release) ==
    publishing' = [req |-> r, page |-> from, last |-> to, release |-> release]

\* Prompt positions whose KV exists already; the last one is always recomputed,
\* its hidden state samples the first token.
PrefillStart(r) == Smaller(Larger(done[r], hit[r]), promptLen[r] - 1)

\* One prefill chunk of n tokens (n is what the token budget leaves) runs and
\* is committed: its full pages are published; the last chunk samples a token.
Prefill(r, n) ==
    LET start == PrefillStart(r)
        end == start + n
    IN  /\ Unlocked
        /\ status[r] = "running"
        /\ done[r] < promptLen[r]
        /\ end <= promptLen[r]
        /\ kv' = Written(r, start, end)
        /\ done' = [done EXCEPT ![r] = end]
        /\ Publish(r, start \div PageSize + 1, end \div PageSize, FALSE)
        /\ IF end = promptLen[r]
           THEN \E t \in Tokens : tokens' = [tokens EXCEPT ![r] = Append(@, t)]
           ELSE UNCHANGED tokens
        /\ UNCHANGED <<pool, node, held, hit, promptLen, length, status, weights>>

\* Requests the planner may extend: prompt done, at most one step in flight.
Decoding == {r \in Requests :
    /\ status[r] = "running"
    /\ promptLen[r] <= done[r]
    /\ length[r] < MaxSeqLen
    /\ length[r] <= done[r] + 1}

\* extend_slots_batch: one harvest for the batch; when it is short, the
\* per-request fallback gives the pages there are to the first requests and
\* the rest fail (the scheduler aborts them).
ExtendBatch(B) ==
    LET need == {r \in B : length[r] \div PageSize >= Len(held[r])}
        n == Smaller(Cardinality(need), Cardinality(free \cup cached))
    IN  /\ Unlocked
        /\ \E winners \in SUBSET need :
            /\ Cardinality(winners) = n
            /\ \E V \in EvictionSets(free, cached, n) :
               \E f \in [winners -> free \cup Reclaimed(V, cached)] :
                LET new == {f[r] : r \in winners}
                IN  /\ \A a, b \in winners : f[a] = f[b] => a = b
                    /\ held' = [r \in Requests |->
                                  IF r \in winners THEN Append(held[r], f[r])
                                  ELSE held[r]]
                    /\ refs' = [p \in Pages |->
                                  IF p \in new THEN 1 ELSE refs[p]]
                    /\ free' = (free \cup Reclaimed(V, cached)) \ new
                    /\ cached' = cached \ Reclaimed(V, cached)
                    /\ node' = [p \in Pages |->
                                  IF p \in Revoked(V) THEN <<>> ELSE node[p]]
                    /\ kv' = [p \in Pages |->
                                IF p \in new
                                THEN [o \in 1..PageSize |-> Unwritten]
                                ELSE kv[p]]
            /\ length' = [r \in Requests |->
                            IF r \in B \ (need \ winners) THEN length[r] + 1
                            ELSE length[r]]
            /\ status' = [r \in Requests |->
                            IF r \in need \ winners THEN "aborted" ELSE status[r]]
        /\ UNCHANGED <<hit, tokens, promptLen, done, publishing, weights>>

\* One decode step runs and is committed.  A step launched before its
\* predecessor ended the request still runs, with the last token as input
\* (the device-side relay), but samples nothing that is kept.
Decode(r) ==
    /\ Unlocked
    /\ status[r] \in {"running", "finished"}
    /\ promptLen[r] <= done[r]
    /\ done[r] < length[r]
    /\ done[r] < Len(tokens[r])
    /\ kv' = Written(r, done[r], done[r] + 1)
    /\ done' = [done EXCEPT ![r] = @ + 1]
    /\ IF status[r] = "running"
       THEN \E t \in Tokens : tokens' = [tokens EXCEPT ![r] = Append(@, t)]
       ELSE UNCHANGED tokens
    /\ UNCHANGED <<pool, node, held, hit, promptLen, length, status, publishing,
                   weights>>

\* A stop token, max_tokens or the sequence limit ends a request.
Finish(r) ==
    /\ Unlocked
    /\ status[r] = "running"
    /\ promptLen[r] <= done[r]
    /\ status' = [status EXCEPT ![r] = "finished"]
    /\ UNCHANGED <<pool, node, held, hit, tokens, promptLen, length, done,
                   publishing, weights, kv>>

\* Cancellation or an execution error.
Abort(r) ==
    /\ Unlocked
    /\ status[r] = "running"
    /\ status' = [status EXCEPT ![r] = "aborted"]
    /\ UNCHANGED <<pool, node, held, hit, tokens, promptLen, length, done,
                   publishing, weights, kv>>

-----------------------------------------------------------------------------
(* Publication and release. *)

\* RadixCache.record of physical page p under path: the identities it revokes
\* and the index after it.  Moving p away drops its old subtree; replacing the
\* page at path keeps the descendants; nothing is indexed below a missing
\* ancestor, nor below p's own old node.
RecordPage(p, path) ==
    LET ancestor == Len(path) = PageSize
                    \/ Indexed(SubSeq(path, 1, Len(path) - PageSize))
        moved == IF node[p] = <<>> THEN {}
                 ELSE {q \in Pages : node[q] # <<>> /\ Below(node[q], node[p])}
        reachable == ancestor /\ (node[p] = <<>> \/ ~Below(path, node[p]))
        replaced == {q \in Pages : node[q] = path}
        revoked == IF node[p] = path THEN {}
                   ELSE IF reachable THEN (moved \cup replaced) \ {p}
                   ELSE moved
    IN  /\ node' = [q \in Pages |->
                      IF q = p /\ reachable THEN path
                      ELSE IF q \in revoked THEN <<>>
                      ELSE node[q]]
        /\ cached' = cached \ revoked
        /\ free' = free \cup (cached \cap revoked)

\* One iteration of record_hashes.
PublishPage ==
    /\ publishing # None
    /\ publishing.page <= publishing.last
    /\ publishing.page <= Len(held[publishing.req])
    /\ RecordPage(held[publishing.req][publishing.page],
                  Upto(tokens[publishing.req], publishing.page))
    /\ publishing' = [publishing EXCEPT !.page = @ + 1]
    /\ UNCHANGED <<refs, requestVars, weights, kv>>

Published ==
    /\ publishing # None
    /\ \/ publishing.page > publishing.last
       \/ publishing.page > Len(held[publishing.req])

\* free_slots.
FreeSlots(r) ==
    LET pages == Elements(held[r])
    IN  /\ refs' = Drop(refs, pages)
        /\ cached' = cached \cup Kept(refs, pages)
        /\ free' = free \cup Freed(refs, pages)
        /\ held' = [held EXCEPT ![r] = <<>>]
        /\ hit' = [hit EXCEPT ![r] = 0]
        /\ tokens' = [tokens EXCEPT ![r] = <<>>]
        /\ promptLen' = [promptLen EXCEPT ![r] = 0]
        /\ length' = [length EXCEPT ![r] = 0]
        /\ done' = [done EXCEPT ![r] = 0]
        /\ status' = [status EXCEPT ![r] = "idle"]
        /\ UNCHANGED <<node, weights, kv>>

\* The end of a publication: a chunk's goes on, a release frees the slots.
EndPublication ==
    /\ Published
    /\ publishing' = None
    /\ IF publishing.release
       THEN FreeSlots(publishing.req)
       ELSE UNCHANGED <<pool, node, requestVars, weights, kv>>

\* Full pages of prompt and output below what was materialized.
MutantReservedPages(r) == Smaller(length[r], Len(tokens[r])) \div PageSize
MaterializedPages(r) == Smaller(done[r], Len(tokens[r])) \div PageSize

\* release_finished: prompt and output of a finished request are published up
\* to what was materialized, then its slots are freed.
ReleaseFinished(r) ==
    /\ Unlocked
    /\ status[r] = "finished"
    /\ Publish(r, 1, MaterializedPages(r), TRUE)
    /\ UNCHANGED <<pool, node, requestVars, weights, kv>>

\* An aborted request publishes nothing more.
ReleaseAborted(r) ==
    /\ Unlocked
    /\ status[r] = "aborted"
    /\ FreeSlots(r)
    /\ UNCHANGED publishing

\* apply_weight_update on a drained engine, then invalidate_cache.
UpdateWeights ==
    /\ Unlocked
    /\ Live = {}
    /\ weights < MaxVersion
    /\ weights' = weights + 1
    /\ free' = free \cup Reclaimed(cached, cached)
    /\ cached' = {}
    /\ node' = [p \in Pages |-> IF p \in Revoked(cached) THEN <<>> ELSE node[p]]
    /\ UNCHANGED <<refs, requestVars, publishing, kv>>

Next ==
    \/ \E r \in Requests, ts \in Prompts : Admit(r, ts) \/ AdmitFails(r, ts)
    \/ \E r \in Requests : \E n \in 1..MaxSeqLen : Prefill(r, n)
    \/ \E B \in SUBSET Decoding : B # {} /\ ExtendBatch(B)
    \/ \E r \in Requests : Decode(r) \/ Finish(r) \/ Abort(r)
    \/ \E r \in Requests : ReleaseFinished(r) \/ ReleaseAborted(r)
    \/ PublishPage
    \/ EndPublication
    \/ UpdateWeights

Spec == Init /\ [][Next]_vars

-----------------------------------------------------------------------------
(* Properties. *)

PublicationType ==
    [req : Requests, page : Nat, last : Nat, release : BOOLEAN]
KVType == [ver : 0..MaxVersion, path : Seq(Tokens)]

\* Every variable of the cache has its type.
TypeOK ==
    /\ free \subseteq Pages
    /\ cached \subseteq Pages
    /\ refs \in [Pages -> Nat]
    /\ node \in [Pages -> Seq(Tokens)]
    /\ held \in [Requests -> Seq(Pages)]
    /\ hit \in [Requests -> Nat]
    /\ tokens \in [Requests -> Seq(Tokens)]
    /\ promptLen \in [Requests -> Nat]
    /\ length \in [Requests -> Nat]
    /\ done \in [Requests -> Nat]
    /\ status \in [Requests -> {"idle", "running", "finished", "aborted"}]
    /\ publishing \in PublicationType \cup {None}
    /\ weights \in 0..MaxVersion
    /\ kv \in [Pages -> [1..PageSize -> KVType]]

Holders(p) == {r \in Requests : p \in Elements(held[r])}

\* Every page is free, cached or held, never two of these; its reference count
\* is the number of requests that hold it; a free page is not reachable through
\* the prefix index and a cached one is (Allocator and RadixCache agree across
\* hits, evictions of whole subtrees, replacements and rollbacks).
PageOwnership ==
    \A p \in Pages :
        /\ refs[p] = Cardinality(Holders(p))
        /\ p \in free => refs[p] = 0 /\ p \notin cached /\ node[p] = <<>>
        /\ p \in cached => refs[p] = 0 /\ node[p] # <<>>
        /\ refs[p] = 0 => p \in free \cup cached

\* The index is a trie: one page per prefix, and every indexed page can be
\* reached from the root through indexed ancestors.
IndexIsTrie ==
    \A p \in Pages : node[p] # <<>> =>
        /\ \A q \in Pages : node[q] = node[p] => q = p
        /\ Len(node[p]) % PageSize = 0
        /\ Len(node[p]) > PageSize =>
             Indexed(SubSeq(node[p], 1, Len(node[p]) - PageSize))

\* A prefix hit can be trusted: every slot of an indexed page was computed
\* under the current weights from exactly the tokens of its path.
IndexedPagesMatch ==
    \A p \in Pages : node[p] # <<>> =>
        \A o \in 1..PageSize :
            kv[p][o] = Value(weights, node[p], Len(node[p]) - PageSize + o - 1)

\* Every position a request attends to holds the KV of its own token prefix
\* under the current weights, whoever computed it and whatever was evicted,
\* replaced or rewritten since.
ReadsOwnPrefix ==
    \A r \in Live : \A q \in 0..(Larger(done[r], hit[r]) - 1) :
        /\ q \div PageSize < Len(held[r])
        /\ LET s == SlotOf(r, q)
           IN  kv[s[1]][s[2]] = Value(weights, tokens[r], q)

\* Two requests hold the same page only as the same logical page of one common
\* token prefix, so a write by either is what the other expects to read.
SharedPagesAgree ==
    \A r, s \in Live : \A i \in DOMAIN held[r], j \in DOMAIN held[s] :
        r # s /\ held[r][i] = held[s][j] =>
            /\ i = j
            /\ i * PageSize <= Len(tokens[r])
            /\ i * PageSize <= Len(tokens[s])
            /\ Upto(tokens[r], i) = Upto(tokens[s], i)
=============================================================================
