----------------------------- MODULE EngineCore -----------------------------
(***************************************************************************)
(* The inference engine's core loop: EngineCore (core/engine_core.py) with  *)
(* its Scheduler, step planner and the model runner's execution handles.    *)
(*                                                                         *)
(* The loop thread takes the engine lock for a whole tick and works through *)
(* pc inside it; client calls (submit, cancel, weight update, the last part *)
(* of stop) take the same lock, the first part of stop does not.  A decode  *)
(* step may be launched before its predecessor is resolved (overlap).       *)
(* Commits, launches and device fences can raise.                           *)
(*                                                                         *)
(* The KV cache is the paged pool with page_size 1 and no prefix cache: a   *)
(* request holds one slot per token (KVCache has pages, sharing and hits).  *)
(* Token values are abstracted to whether they are a stop token.            *)
(* Handles resolve in launch order, so a step id is a position in order[r]. *)
(***************************************************************************)
EXTENDS Integers, Sequences, FiniteSets, Functions, Collections

CONSTANTS Requests,      \* generation requests clients submit
          PromptLen,     \* prompt length of each
          MaxTokens,     \* max_tokens of each
          Penalized,     \* those with a frequency penalty
          MaxBatchSize,  \* max_batch_size
          PoolTokens,    \* token slots of the KV pool
          MaxSeqLen,     \* max_seq_len
          TokenBudget,   \* prefill tokens per group and step
          EnableOverlap, \* enable_overlap
          MaxVersion,    \* bound: weight updates explored
          MaxFaults,     \* bound: exceptions explored
          MaxStarts      \* bound: starts of the loop thread explored

ASSUME RequestsAssumption == IsFiniteSet(Requests) /\ Penalized \subseteq Requests
ASSUME PromptAssumption ==
    /\ PromptLen \in [Requests -> 1..MaxSeqLen]
    /\ MaxTokens \in [Requests -> Nat]
ASSUME SizeAssumption ==
    /\ MaxBatchSize \in Nat \ {0}
    /\ PoolTokens \in Nat
    /\ MaxSeqLen \in Nat \ {0}
    /\ TokenBudget \in Nat \ {0}
    /\ EnableOverlap \in BOOLEAN
ASSUME BoundAssumption == {MaxVersion, MaxFaults, MaxStarts} \subseteq Nat

VARIABLES
    phase,        \* new, waiting or running (registered), gone (released)
    terminal,     \* terminal_emitted
    out,          \* output tokens sampled and applied
    eos,          \* whether the last of them is a stop token
    computed,     \* num_computed_tokens: end of the last planned window
    materialized, \* num_materialized_tokens
    order,        \* _pending_order: window ends planned and not resolved
    events,       \* events emitted to the sink
    slots,        \* KV slots held
    freeSlots,    \* KV slots of the pool that are free
    waiting,      \* waiting queue
    running,      \* running list
    plan,         \* rows of the scheduled step not launched yet
    inflight,     \* _pending: launched groups not resolved yet
    relay,        \* the decode cache: rows of the last decode launch
    touching,     \* ghost: launched executions that may still write r's KV
    pc,           \* loop thread
    then,         \* where the loop thread goes on after draining or releasing
    scan,         \* admission: requests left to look at, and those put back
    overlap,      \* this tick launches before it resolves
    toDrain,      \* handles this drain resolves
    arrived,      \* ghost: accepted requests in arrival order
    closing,      \* _closing
    stopEvent,    \* stop_event
    failed,       \* _shutdown_failed: a fence failed, KV is quarantined
    shutdown,     \* the _shutdown in progress: who runs it, and where it is
    stopper,      \* the thread in stop()
    starts,       \* loop threads started (loop_thread is the last one)
    version,      \* policy version of the weights
    faults        \* exceptions so far

requestVars == <<phase, terminal, out, eos, computed, materialized, order, events,
                 arrived>>
kvVars == <<slots, freeSlots>>
queueVars == <<waiting, running>>
execVars == <<plan, inflight, relay, touching>>
loopVars == <<pc, then, scan, overlap, toDrain>>
lifeVars == <<closing, stopEvent, failed, shutdown, stopper, starts>>
vars == <<requestVars, kvVars, queueVars, execVars, loopVars, lifeVars, version,
          faults>>

Smaller(a, b) == IF a < b THEN a ELSE b
Larger(a, b) == IF a > b THEN a ELSE b
Last(s) == s[Len(s)]
Front(s) == SubSeq(s, 1, Len(s) - 1)
Reqs(rows) == {rows[i].req : i \in DOMAIN rows}
Identities(rows) == [i \in DOMAIN rows |-> rows[i].req]

Registered(r) == phase[r] \in {"waiting", "running"}
Prefilled(r) == computed[r] >= PromptLen[r]
IsFinished(r) == out[r] >= MaxTokens[r] \/ eos[r]
Active == Keep(running, {r \in Requests : ~terminal[r]})
MutantNothingOutstanding == FALSE
HasOutstanding == \E r \in Requests : order[r] # <<>>

NotRunning == [by |-> "none", at |-> "none"]
LoopLocked == pc \notin {"dead", "top", "crashed", "exiting"}
LockFree == ~LoopLocked /\ shutdown = NotRunning
MayFault == faults < MaxFaults

Init ==
    /\ phase = [r \in Requests |-> "new"]
    /\ terminal = [r \in Requests |-> FALSE]
    /\ out = [r \in Requests |-> 0]
    /\ eos = [r \in Requests |-> FALSE]
    /\ computed = [r \in Requests |-> 0]
    /\ materialized = [r \in Requests |-> 0]
    /\ order = [r \in Requests |-> <<>>]
    /\ events = [r \in Requests |-> <<>>]
    /\ arrived = <<>>
    /\ slots = [r \in Requests |-> 0]
    /\ freeSlots = PoolTokens
    /\ waiting = <<>> /\ running = <<>>
    /\ plan = <<>> /\ inflight = <<>> /\ relay = <<>>
    /\ touching = [r \in Requests |-> 0]
    /\ pc = "top" /\ then = "admit"
    /\ scan = [left |-> 0, back |-> <<>>]
    /\ overlap = FALSE /\ toDrain = 0
    /\ closing = FALSE /\ stopEvent = FALSE /\ failed = FALSE
    /\ shutdown = NotRunning
    /\ stopper = "idle" /\ starts = 1
    /\ version = 0 /\ faults = 0

-----------------------------------------------------------------------------
(* Finishing and releasing. *)

\* A mutant of Finish that forgets terminal_emitted.
MutantFinishTwice(S) ==
    /\ terminal' = [r \in Requests |-> terminal[r] \/ r \in S]
    /\ events' = [r \in Requests |->
                    IF r \in S THEN Append(events[r], "end") ELSE events[r]]

\* Scheduler.finish for the requests of S: once each, with a terminal event.
Finish(S) ==
    /\ terminal' = [r \in Requests |-> terminal[r] \/ r \in S]
    /\ events' = [r \in Requests |->
                    IF r \in S /\ ~terminal[r] THEN Append(events[r], "end")
                    ELSE events[r]]

\* release_finished, for a terminal flag and a registry that may have just
\* changed: a request whose executions are all resolved gives its slots back.
MutantReleaseTerminal(reg, term, ord) == {r \in reg : term[r]}
Releasable(reg, term, ord) == {r \in reg : term[r] /\ ord[r] = <<>>}

SlotsOf(S) == SumFunctionOnSet(slots, S)

Release(S, ph, wait) ==
    /\ phase' = [r \in Requests |-> IF r \in S THEN "gone" ELSE ph[r]]
    /\ waiting' = Without(wait, S)
    /\ running' = Without(running, S)
    /\ slots' = [r \in Requests |-> IF r \in S THEN 0 ELSE slots[r]]
    /\ freeSlots' = freeSlots + SlotsOf(S)

-----------------------------------------------------------------------------
(* Client calls. *)

\* add_requests -> enqueue_tokenized_requests.
Submit(r) ==
    LET ended == IF MaxTokens[r] = 0 THEN {r} ELSE {}
        ph == [phase EXCEPT ![r] = "waiting"]
        reg == {s \in Requests : Registered(s)} \cup {r}
    IN  /\ LockFree
        /\ ~closing /\ ~failed
        /\ phase[r] = "new"
        /\ Finish(ended)
        /\ Release(Releasable(reg, terminal', order), ph, Append(waiting, r))
        /\ arrived' = Append(arrived, r)
        /\ UNCHANGED <<out, eos, computed, materialized, order, execVars,
                       loopVars, lifeVars, version, faults>>

\* cancel_request.
Cancel(r) ==
    /\ LockFree
    /\ Registered(r) /\ ~terminal[r]
    /\ Finish({r})
    /\ Release(Releasable({s \in Requests : Registered(s)}, terminal', order),
               phase, waiting)
    /\ UNCHANGED <<arrived, out, eos, computed, materialized, order, execVars, loopVars,
                   lifeVars, version, faults>>

\* ensure_weight_update_ready: the loop thread is dead, nothing is queued, no
\* execution is outstanding.
\* A mutant that counts the requests still live instead of those registered.
MutantReadyWhenNoneLive == waiting = <<>> /\ Active = <<>> /\ inflight = <<>>
WeightUpdateReady ==
    /\ pc = "dead" /\ waiting = <<>> /\ running = <<>>
    /\ inflight = <<>> /\ ~failed /\ ~HasOutstanding

UpdateWeights ==
    /\ LockFree
    /\ WeightUpdateReady
    /\ version < MaxVersion
    /\ version' = version + 1
    /\ UNCHANGED <<requestVars, kvVars, queueVars, execVars, loopVars, lifeVars,
                   faults>>

-----------------------------------------------------------------------------
(* One tick of the loop thread, from taking the lock to giving it back. *)

BeginTick ==
    /\ LockFree
    /\ pc = "top" /\ ~stopEvent
    /\ pc' = "release" /\ then' = "admit"
    /\ UNCHANGED <<requestVars, kvVars, queueVars, execVars, scan, overlap,
                   toDrain, lifeVars, version, faults>>

ReleaseFinished ==
    /\ pc = "release"
    /\ Release(Releasable({r \in Requests : Registered(r)}, terminal, order),
               phase, waiting)
    /\ pc' = then
    /\ scan' = [left |-> IF then # "admit" THEN 0
                         ELSE Larger(0, Smaller(MaxBatchSize - Len(running'),
                                                Len(waiting'))),
                back |-> <<>>]
    /\ UNCHANGED <<arrived, terminal, out, eos, computed, materialized, order, events,
                   execVars, then, overlap, toDrain, lifeVars, version, faults>>

\* One iteration of admit_requests.
AdmitNext ==
    LET r == Head(waiting)
        fits == PromptLen[r] <= PoolTokens
        alloc == fits /\ PromptLen[r] <= freeSlots
    IN  /\ pc = "admit" /\ scan.left > 0
        /\ waiting' = Tail(waiting)
        /\ Finish(IF fits THEN {} ELSE {r})
        /\ scan' = [left |-> scan.left - 1,
                    back |-> IF fits /\ ~alloc /\ ~terminal[r]
                             THEN Append(scan.back, r) ELSE scan.back]
        /\ IF alloc /\ ~terminal[r]
           THEN /\ phase' = [phase EXCEPT ![r] = "running"]
                /\ running' = Append(running, r)
                /\ slots' = [slots EXCEPT ![r] = PromptLen[r]]
                /\ freeSlots' = freeSlots - PromptLen[r]
           ELSE UNCHANGED <<phase, running, kvVars>>
        /\ UNCHANGED <<arrived, out, eos, computed, materialized, order, execVars, pc,
                       then, overlap, toDrain, lifeVars, version, faults>>

\* Requests that found no room go back to the head of the queue, in order.
MutantPutBackLast == waiting \o scan.back
PutBack == scan.back \o waiting

EndAdmission ==
    /\ pc = "admit" /\ scan.left = 0
    /\ waiting' = PutBack
    /\ scan' = [left |-> 0, back |-> <<>>]
    /\ pc' = "release" /\ then' = "decide"
    /\ UNCHANGED <<requestVars, kvVars, running, execVars, overlap, toDrain,
                   lifeVars, version, faults>>

\* A mutant of CanOverlap that forgets the frequency penalty.
MutantOverlapPenalized ==
    /\ EnableOverlap
    /\ Active # <<>>
    /\ \A i \in DOMAIN Active :
        /\ Prefilled(Active[i])
        /\ computed[Active[i]] < MaxSeqLen
        /\ out[Active[i]] + 1 < MaxTokens[Active[i]]
    /\ inflight # <<>> =>
        /\ Len(inflight) = 1
        /\ inflight[1].phase = "decode"
        /\ Identities(inflight[1].rows) = Active

\* _can_overlap.
CanOverlap ==
    /\ EnableOverlap
    /\ Active # <<>>
    /\ \A i \in DOMAIN Active :
        LET r == Active[i]
        IN  /\ Prefilled(r)
            /\ r \notin Penalized
            /\ computed[r] < MaxSeqLen
            /\ out[r] + 1 < MaxTokens[r]
    /\ inflight # <<>> =>
        /\ Len(inflight) = 1
        /\ inflight[1].phase = "decode"
        /\ Identities(inflight[1].rows) = Active

Decide ==
    /\ pc = "decide"
    /\ overlap' = CanOverlap
    /\ \/ /\ inflight # <<>> /\ ~CanOverlap
          /\ pc' = "drain" /\ toDrain' = Len(inflight) /\ then' = "admit"
       \/ /\ inflight = <<>> /\ Active = <<>>
          /\ pc' = "release" /\ then' = "top" /\ UNCHANGED toDrain
       \/ /\ Active # <<>> /\ (inflight = <<>> \/ CanOverlap)
          /\ pc' = "schedule" /\ UNCHANGED <<toDrain, then>>
    /\ UNCHANGED <<requestVars, kvVars, queueVars, execVars, scan, lifeVars,
                   version, faults>>

-----------------------------------------------------------------------------
(* Planning a step. *)

\* Requests schedule() ends instead of planning.
Ending == {r \in Requests :
    IsFinished(r) \/ (Prefilled(r) /\ computed[r] >= MaxSeqLen)}
Eligible == Without(Active, Ending)

PrefillAt(r) == Smaller(computed[r], PromptLen[r] - 1)
Need(r) == PromptLen[r] - PrefillAt(r)

\* Budget already given to earlier members of r's prefill group.
Spent(i) == SumFunctionOnSet(
    [j \in DOMAIN Eligible |-> Need(Eligible[j])],
    {j \in 1..(i - 1) : /\ ~Prefilled(Eligible[j])
                        /\ PrefillAt(Eligible[j]) = PrefillAt(Eligible[i])})
Chunk(i) == Smaller(Need(Eligible[i]), TokenBudget - Spent(i))

\* A mutant of NeedsSlot, one position late.
MutantNeedsSlotLate(r) == computed[r] > slots[r]

\* extend_slots_batch gives the free slots to the first requests that need one.
NeedsSlot(r) == computed[r] >= slots[r]
Extended(i) ==
    \/ ~NeedsSlot(Eligible[i])
    \/ Cardinality({j \in 1..(i - 1) :
          Prefilled(Eligible[j]) /\ NeedsSlot(Eligible[j])}) < freeSlots

Planned(i) == IF Prefilled(Eligible[i]) THEN Extended(i) ELSE Chunk(i) > 0

\* A row carries what the host knew when it was planned: the number of output
\* tokens (the last of which is its input token).
Row(i) ==
    LET r == Eligible[i]
    IN  IF Prefilled(r)
        THEN [req |-> r, phase |-> "decode", pos |-> computed[r],
              end |-> computed[r] + 1, seen |-> out[r]]
        ELSE [req |-> r, phase |-> "prefill", pos |-> PrefillAt(r),
              end |-> PrefillAt(r) + Chunk(i), seen |-> out[r]]

PlannedRows ==
    Gather([i \in DOMAIN Eligible |-> Row(i)], {i \in DOMAIN Eligible : Planned(i)},
           Len(Eligible))

\* schedule(): plan a step, reserve its KV, advance the optimistic watermarks;
\* an overlapped step whose batch shrank is not launched.
Schedule == pc = "schedule" /\ \E rows \in {PlannedRows} :
    LET unextended == {Eligible[i] : i \in {j \in DOMAIN Eligible :
                          Prefilled(Eligible[j]) /\ ~Extended(j)}}
        grown == {rows[k].req : k \in {j \in DOMAIN rows :
                     rows[j].phase = "decode" /\ NeedsSlot(rows[j].req)}}
        EndOf(r) == (CHOOSE k \in DOMAIN rows : rows[k].req = r)
        shrunk == /\ inflight # <<>> /\ overlap
                  /\ Identities(rows) # Identities(Last(inflight).rows)
    IN  /\ Finish({r \in Ending : \E i \in DOMAIN Active : Active[i] = r}
                  \cup unextended)
        /\ plan' = rows
        /\ order' = [r \in Requests |->
                       IF r \in Reqs(rows) THEN Append(order[r], rows[EndOf(r)].end)
                       ELSE order[r]]
        /\ computed' = [r \in Requests |->
                          IF r \in Reqs(rows) THEN rows[EndOf(r)].end
                          ELSE computed[r]]
        /\ slots' = [r \in Requests |->
                       IF r \in grown THEN slots[r] + 1 ELSE slots[r]]
        /\ freeSlots' = freeSlots - Cardinality(grown)
        /\ toDrain' = Len(inflight)
        /\ pc' = IF shrunk THEN "rollback" ELSE "submit"
        /\ UNCHANGED <<arrived, phase, out, eos, materialized, queueVars, inflight, relay,
                       touching, then, scan, overlap, lifeVars, version, faults>>

\* The watermark after an unlaunched window was taken back.
RolledBack(r) ==
    IF Front(order[r]) = <<>> THEN materialized[r]
    ELSE Larger(materialized[r], Last(Front(order[r])))

\* rollback_schedule of the unlaunched plan, then drain and plan again.
Rollback ==
    /\ pc = "rollback"
    /\ order' = [r \in Requests |->
                   IF r \in Reqs(plan) THEN Front(order[r]) ELSE order[r]]
    /\ computed' = [r \in Requests |->
                      IF r \in Reqs(plan) THEN RolledBack(r) ELSE computed[r]]
    /\ plan' = <<>>
    /\ overlap' = FALSE
    /\ pc' = "drain" /\ toDrain' = Len(inflight) /\ then' = "schedule"
    /\ UNCHANGED <<arrived, phase, terminal, out, eos, materialized, events, kvVars,
                   queueVars, inflight, relay, touching, scan, lifeVars, version,
                   faults>>

-----------------------------------------------------------------------------
(* Launching and resolving. *)

\* execute_model groups rows by phase and, for prefill, by start position.
NextGroup ==
    LET prefill == Keep(plan, {w \in Elements(plan) : w.phase = "prefill"})
    IN  IF prefill = <<>> THEN plan
        ELSE Keep(prefill, {w \in Elements(prefill) : w.pos = prefill[1].pos})

\* The index of the output token a decode row is fed: the device relay holds
\* the samples of the last decode launch and is used when the batch is the same.
InputOf(rows, i) ==
    IF Identities(relay) = Identities(rows)
    THEN relay[i].end - PromptLen[relay[i].req] + 1
    ELSE rows[i].seen

Launch == pc = "submit" /\ plan # <<>> /\ \E group \in {NextGroup} :
    LET decode == group[1].phase = "decode"
        fed == [i \in DOMAIN group |->
                  IF decode THEN InputOf(group, i) ELSE 0]
    IN  /\ plan' = Keep(plan, {w \in Elements(plan) : w.req \notin Reqs(group)})
        /\ touching' = [r \in Requests |->
                          IF r \in Reqs(group) THEN touching[r] + 1
                          ELSE touching[r]]
        /\ relay' = IF decode THEN group ELSE relay
        /\ inflight' = Append(inflight, [phase |-> group[1].phase, rows |-> group,
                                         input |-> fed, version |-> version])
        /\ UNCHANGED <<requestVars, kvVars, queueVars, loopVars, lifeVars,
                       version, faults>>

\* A forward raises after it may have started writing KV: no handle is returned.
LaunchRaises ==
    /\ pc = "submit" /\ plan # <<>> /\ MayFault
    /\ \E group \in {NextGroup} :
        /\ touching' = [r \in Requests |->
                          IF r \in Reqs(group) THEN touching[r] + 1
                          ELSE touching[r]]
        /\ plan' = <<>>
        /\ relay' = IF group[1].phase = "decode" THEN <<>> ELSE relay
        /\ pc' = "crashed" /\ faults' = faults + 1
        /\ UNCHANGED <<requestVars, kvVars, queueVars, inflight, then, scan,
                       overlap, toDrain, lifeVars, version>>

\* Handles resolved after a launch: an overlapped step leaves itself in flight, any
\* other is resolved at once.
ResolveCount == IF overlap THEN toDrain ELSE Len(inflight)

Launched ==
    /\ pc = "submit" /\ plan = <<>>
    /\ toDrain' = ResolveCount
    /\ pc' = "drain" /\ then' = "top"
    /\ UNCHANGED <<requestVars, kvVars, queueVars, execVars, scan, overlap,
                   lifeVars, version, faults>>

\* commit() of the oldest handle, then update_from_output.  stops is the set of
\* requests whose sampled token is a stop token.
Resolve(stops) ==
    LET h == Head(inflight)
        rows == Reqs(h.rows)
        RowOf(r) == h.rows[CHOOSE i \in DOMAIN h.rows : h.rows[i].req = r]
        current == h.version = version
        live == {r \in rows : ~terminal[r]}
        sampled == {r \in live : current /\ RowOf(r).end >= PromptLen[r]}
        ended == {r \in sampled : r \in stops \/ out[r] + 1 >= MaxTokens[r]}
                 \cup {r \in live : ~current}
    IN  /\ stops \subseteq sampled
        /\ inflight' = Tail(inflight)
        /\ touching' = [r \in Requests |->
                          IF r \in rows THEN Larger(0, touching[r] - 1)
                          ELSE touching[r]]
        /\ order' = [r \in Requests |->
                       IF r \in rows THEN Tail(order[r]) ELSE order[r]]
        /\ materialized' = [r \in Requests |->
                              IF r \in rows /\ current
                              THEN Larger(materialized[r], RowOf(r).end)
                              ELSE materialized[r]]
        /\ out' = [r \in Requests |->
                     IF r \in sampled THEN out[r] + 1 ELSE out[r]]
        /\ eos' = [r \in Requests |->
                     IF r \in sampled THEN r \in stops ELSE eos[r]]
        /\ terminal' = [r \in Requests |-> terminal[r] \/ r \in ended]
        /\ events' = [r \in Requests |->
                        events[r]
                        \o (IF r \in sampled THEN <<"token">> ELSE <<>>)
                        \o (IF r \in ended THEN <<"end">> ELSE <<>>)]
        /\ UNCHANGED <<arrived, phase, computed, kvVars, queueVars, plan, relay, version>>

Drain ==
    /\ pc = "drain" /\ toDrain > 0 /\ inflight # <<>>
    /\ \E stops \in SUBSET Reqs(Head(inflight).rows) : Resolve(stops)
    /\ toDrain' = toDrain - 1
    /\ UNCHANGED <<pc, then, scan, overlap, lifeVars, faults>>

\* A device error surfaces in commit(): the handle stays queued.
DrainRaises ==
    /\ pc = "drain" /\ toDrain > 0 /\ inflight # <<>> /\ MayFault
    /\ pc' = "crashed" /\ faults' = faults + 1
    /\ UNCHANGED <<requestVars, kvVars, queueVars, execVars, then, scan, overlap,
                   toDrain, lifeVars, version>>

Drained ==
    /\ pc = "drain" /\ (toDrain = 0 \/ inflight = <<>>)
    /\ pc' = "release"
    /\ UNCHANGED <<requestVars, kvVars, queueVars, execVars, then, scan, overlap,
                   toDrain, lifeVars, version, faults>>

-----------------------------------------------------------------------------
(* Crash, shutdown, stop and start. *)

\* The loop's exception handler runs after the lock was given back.
LoopCrashed ==
    /\ pc = "crashed"
    /\ closing' = TRUE /\ stopEvent' = TRUE
    /\ pc' = "exiting"
    /\ UNCHANGED <<requestVars, kvVars, queueVars, execVars, then, scan, overlap,
                   toDrain, failed, shutdown, stopper, starts, version, faults>>

LoopStops ==
    /\ pc = "top" /\ stopEvent
    /\ pc' = "exiting"
    /\ UNCHANGED <<requestVars, kvVars, queueVars, execVars, then, scan, overlap,
                   toDrain, lifeVars, version, faults>>

\* The loop's finally block takes the lock for _shutdown.
LoopShutsDown ==
    /\ LockFree
    /\ pc = "exiting"
    /\ shutdown' = [by |-> "loop", at |-> "begin"]
    /\ UNCHANGED <<requestVars, kvVars, queueVars, execVars, loopVars, closing,
                   stopEvent, failed, stopper, starts, version, faults>>

\* stop() sets its flags without the engine lock, then joins the loop thread.
StopBegins ==
    /\ stopper = "idle"
    /\ closing' = TRUE /\ stopEvent' = TRUE
    /\ stopper' = "join"
    /\ UNCHANGED <<requestVars, kvVars, queueVars, execVars, loopVars, failed,
                   shutdown, starts, version, faults>>

\* join(timeout) gives up on a live thread: stop() returns False.
StopTimesOut ==
    /\ stopper = "join" /\ pc # "dead"
    /\ stopper' = "idle"
    /\ UNCHANGED <<requestVars, kvVars, queueVars, execVars, loopVars, closing,
                   stopEvent, failed, shutdown, starts, version, faults>>

\* The thread is dead and was not replaced meanwhile: stop() shuts down itself.
StopShutsDown ==
    /\ stopper = "join" /\ pc = "dead" /\ LockFree
    /\ stopper' = "shutdown"
    /\ shutdown' = [by |-> "stop", at |-> "begin"]
    /\ UNCHANGED <<requestVars, kvVars, queueVars, execVars, loopVars, closing,
                   stopEvent, failed, starts, version, faults>>

\* start() under both locks.  A stop() that joined the predecessor finds
\* another loop_thread and returns False.
Start ==
    /\ LockFree
    /\ pc = "dead" /\ ~failed
    /\ starts < MaxStarts
    /\ starts' = starts + 1
    /\ closing' = FALSE /\ stopEvent' = FALSE
    /\ pc' = "top" /\ then' = "admit"
    /\ stopper' = "idle"
    /\ UNCHANGED <<requestVars, kvVars, queueVars, execVars, scan, overlap,
                   toDrain, failed, shutdown, version, faults>>

Step(at) == shutdown' = [shutdown EXCEPT !.at = at]

\* _shutdown returns (or raises, when it could not drain) to its caller.
EndShutdown(drained) ==
    /\ shutdown' = NotRunning
    /\ failed' = ~drained
    /\ IF shutdown.by = "loop"
       THEN pc' = "dead" /\ UNCHANGED stopper
       ELSE stopper' = (IF drained THEN "stopped" ELSE "idle") /\ UNCHANGED pc

\* abort_all ends every registered request, running or not.
AbortAll == {r \in Requests : Registered(r)}

\* The fence fails: every request gets its terminal event, no KV is released.
Quarantine ==
    /\ MayFault /\ faults' = faults + 1
    /\ Finish(AbortAll)
    /\ EndShutdown(FALSE)
    /\ UNCHANGED <<arrived, phase, out, eos, computed, materialized, order, kvVars,
                   queueVars, execVars, then, scan, overlap, toDrain, closing,
                   stopEvent, starts, version>>

\* The fence succeeds: nothing writes KV any more, and results that were not
\* applied are forgotten.
FenceAndDiscard ==
    /\ touching' = [r \in Requests |-> 0]
    /\ inflight' = <<>> /\ plan' = <<>>
    /\ order' = [r \in Requests |-> <<>>]
    /\ computed' = [r \in Requests |->
                      IF Registered(r) THEN materialized[r] ELSE computed[r]]
    /\ UNCHANGED <<arrived, phase, terminal, out, eos, materialized, events, kvVars,
                   queueVars, relay, loopVars, closing, stopEvent, failed,
                   stopper, starts, version>>

\* A previous failed shutdown fences again first.
ShutdownBegins ==
    /\ shutdown.at = "begin"
    /\ \/ /\ ~failed
          /\ Step("drain")
          /\ UNCHANGED <<requestVars, kvVars, queueVars, execVars, loopVars,
                         closing, stopEvent, failed, stopper, starts, version,
                         faults>>
       \/ /\ failed
          /\ failed' = FALSE
          /\ touching' = [r \in Requests |-> 0]
          /\ Step("drain")
          /\ UNCHANGED <<requestVars, kvVars, queueVars, plan, inflight, relay,
                         loopVars, closing, stopEvent, stopper, starts, version,
                         faults>>
       \/ failed /\ Quarantine

ShutdownDrains ==
    /\ shutdown.at = "drain" /\ inflight # <<>>
    /\ \E stops \in SUBSET Reqs(Head(inflight).rows) : Resolve(stops)
    /\ UNCHANGED <<loopVars, lifeVars, faults>>

\* A handle that cannot be resolved does not skip the fence.
ShutdownDrainRaises ==
    /\ shutdown.at = "drain" /\ inflight # <<>> /\ MayFault
    /\ \/ faults' = faults + 1 /\ FenceAndDiscard /\ Step("outstanding")
       \/ Quarantine

ShutdownDrained ==
    /\ shutdown.at = "drain" /\ inflight = <<>>
    /\ Step("outstanding")
    /\ UNCHANGED <<requestVars, kvVars, queueVars, execVars, loopVars, closing,
                   stopEvent, failed, stopper, starts, version, faults>>

\* A launch that raised left planned rows without a handle.
ShutdownFences ==
    /\ shutdown.at = "outstanding" /\ HasOutstanding
    /\ \/ FenceAndDiscard /\ Step("finish") /\ UNCHANGED faults
       \/ Quarantine

ShutdownFinishes ==
    /\ \/ shutdown.at = "finish"
       \/ shutdown.at = "outstanding" /\ ~HasOutstanding
    /\ Finish(AbortAll)
    /\ Release(Releasable({r \in Requests : Registered(r)}, terminal', order),
               phase, waiting)
    /\ EndShutdown(TRUE)
    /\ UNCHANGED <<arrived, out, eos, computed, materialized, order, execVars, then, scan,
                   overlap, toDrain, closing, stopEvent, starts, version, faults>>

-----------------------------------------------------------------------------
LoopStep ==
    \/ BeginTick \/ ReleaseFinished \/ AdmitNext \/ EndAdmission \/ Decide
    \/ Schedule \/ Rollback \/ Launch \/ LaunchRaises \/ Launched
    \/ Drain \/ DrainRaises \/ Drained
    \/ LoopCrashed \/ LoopStops \/ LoopShutsDown

ShutdownStep ==
    \/ ShutdownBegins \/ ShutdownDrains \/ ShutdownDrainRaises
    \/ ShutdownDrained \/ ShutdownFences \/ ShutdownFinishes

StopStep == StopTimesOut \/ StopShutsDown

ClientStep ==
    \/ \E r \in Requests : Submit(r) \/ Cancel(r)
    \/ UpdateWeights \/ StopBegins \/ Start

Next == LoopStep \/ ShutdownStep \/ StopStep \/ ClientStep

Spec == Init /\ [][Next]_vars

\* The loop thread and a thread in stop() keep running and the lock is fair to
\* them; clients need not call anything.
FairSpec == Spec /\ WF_vars(LoopStep) /\ WF_vars(ShutdownStep) /\ WF_vars(StopStep)

-----------------------------------------------------------------------------
(* Properties. *)

WindowType == [req : Requests, phase : {"prefill", "decode"}, pos : Nat,
               end : Nat, seen : Nat]

\* Every variable of the engine core has its type.
TypeOK ==
    /\ phase \in [Requests -> {"new", "waiting", "running", "gone"}]
    /\ terminal \in [Requests -> BOOLEAN]
    /\ out \in [Requests -> Nat]
    /\ eos \in [Requests -> BOOLEAN]
    /\ computed \in [Requests -> Nat]
    /\ materialized \in [Requests -> Nat]
    /\ order \in [Requests -> Seq(Nat)]
    /\ events \in [Requests -> Seq({"token", "end"})]
    /\ slots \in [Requests -> Nat] /\ freeSlots \in Nat
    /\ waiting \in Seq(Requests) /\ running \in Seq(Requests)
    /\ plan \in Seq(WindowType) /\ relay \in Seq(WindowType)
    /\ inflight \in Seq([phase : {"prefill", "decode"}, rows : Seq(WindowType),
                         input : Seq(Nat), version : 0..MaxVersion])
    /\ touching \in [Requests -> Nat]
    /\ pc \in {"dead", "top", "release", "admit", "decide", "schedule",
               "rollback", "submit", "drain", "crashed", "exiting"}
    /\ then \in {"admit", "decide", "schedule", "top"}
    /\ scan \in [left : Nat, back : Seq(Requests)]
    /\ overlap \in BOOLEAN /\ toDrain \in Nat
    /\ closing \in BOOLEAN /\ stopEvent \in BOOLEAN /\ failed \in BOOLEAN
    /\ shutdown \in [by : {"none", "loop", "stop"},
                     at : {"none", "begin", "drain", "outstanding", "finish"}]
    /\ stopper \in {"idle", "join", "shutdown", "stopped"}
    /\ starts \in 1..Larger(1, MaxStarts)
    /\ version \in 0..MaxVersion /\ faults \in 0..MaxFaults

\* KV slots are given back only when no launched execution of their request can
\* still write them, through cancellations, crashes and failed fences.
NoReleaseInFlight ==
    \A r \in Requests : touching[r] > 0 => phase[r] = "running"

\* No slot of the pool is lost or given twice, and only running requests hold
\* any.
SlotsConserved ==
    /\ freeSlots + SumFunction(slots) = PoolTokens
    /\ \A r \in Requests : slots[r] > 0 <=> phase[r] = "running"

\* The optimistic watermark of a live request is the end of its last planned
\* window, or what is materialized when nothing is planned: no token is skipped
\* or computed twice over overlap, rollback and discard, and every planned
\* position has its slot.
WatermarkExact ==
    \A r \in Requests : phase[r] = "running" =>
        /\ computed[r] = IF order[r] = <<>> THEN materialized[r]
                         ELSE Last(order[r])
        /\ computed[r] <= slots[r]
        /\ \A i \in DOMAIN order[r] :
             order[r][i] > IF i = 1 THEN materialized[r] ELSE order[r][i - 1]

\* Every decode step is fed the last token of its own sequence, whether the
\* host or the device relay supplies it, and a frequency penalty sees the whole
\* output.
DecodeInputsCurrent ==
    \A h \in DOMAIN inflight : inflight[h].phase = "decode" =>
        \A i \in DOMAIN inflight[h].rows :
            LET w == inflight[h].rows[i]
                index == w.pos - PromptLen[w.req] + 1
            IN  /\ inflight[h].input[i] = index
                /\ w.req \in Penalized => w.seen = index

\* Between ticks at most one step is in flight, and the registry of planned
\* windows is exactly what is in flight.
RegistryMatchesInFlight ==
    pc = "top" =>
        /\ Len(inflight) <= 1
        /\ \A r \in Requests :
             Len(order[r]) =
                 Cardinality({h \in DOMAIN inflight : r \in Reqs(inflight[h].rows)})

\* After a stop() that returned True, and until start(), nothing is registered,
\* planned or in flight and the KV pool is whole.
StoppedIsClean ==
    stopper = "stopped" =>
        /\ \A r \in Requests : ~Registered(r)
        /\ inflight = <<>> /\ ~HasOutstanding
        /\ freeSlots = PoolTokens

\* While KV is quarantined every registered request has had its terminal event,
\* so cancel and submit can no longer release anything.
QuarantineIsTerminal ==
    failed /\ shutdown = NotRunning =>
        \A r \in Requests : Registered(r) => terminal[r]

\* Over overlap, rollback, discard and cancellation the books balance: slots, watermarks and
\* the registry of planned windows all tell the same story as what is in flight.
BooksBalance == TypeOK /\ SlotsConserved /\ WatermarkExact /\ RegistryMatchesInFlight

\* Whatever crashes, stops or restarts, KV is given back when nothing can write it any more,
\* all of it by a stop that succeeded, and never once it is quarantined.
KVIsGivenBackSafely == NoReleaseInFlight /\ StoppedIsClean /\ QuarantineIsTerminal

\* Waiting requests enter the batch in arrival order: one is overtaken only when
\* its prompt needs more slots than are free.
AdmittedInOrder ==
    [][\A i, j \in DOMAIN arrived :
         /\ i < j
         /\ phase[arrived[i]] = "waiting" /\ ~terminal[arrived[i]]
         /\ phase[arrived[j]] = "waiting" /\ phase'[arrived[j]] = "running"
         => PromptLen[arrived[i]] > freeSlots]_vars

Stream == INSTANCE RequestStream
          WITH accepted <- {r \in Requests : phase[r] # "new"}, stream <- events

\* Weights are replaced only between requests: whatever was cancelled, crashed, was
\* quarantined or restarted before, the stream of every accepted request is closed, no
\* execution launched with the old weights can still write KV, none of its KV is kept and
\* none of it is planned, so that no request gets tokens, or reads KV, of two versions.
WeightsChangeBetweenRequests ==
    [][version' # version =>
         /\ \A r \in Requests : /\ phase[r] # "new" => Stream!Closed(events[r])
                               /\ touching[r] = 0
         /\ plan = <<>>
         /\ freeSlots = PoolTokens]_vars

\* The engine implements the event contract of its consumers: tokens, exactly
\* one terminal event, nothing after it, and the terminal event of an accepted
\* request comes through pool pressure, crashes, failed fences and stop.
EventContract == Stream!StreamSpec

\* Every ended request gives its slots back, unless KV is quarantined.
EveryRequestLeaves ==
    \A r \in Requests : terminal[r] ~> (phase[r] = "gone" \/ failed)

\* Once stop() or a crash raised the stop flag the loop thread ends, whatever
\* the thread in stop() and the clients do.
StopEndsLoop == stopEvent ~> pc = "dead"

\* Neither a request nor the loop stays for ever.
EverythingLeaves == EveryRequestLeaves /\ StopEndsLoop
=============================================================================
