------------------------------ MODULE SyncBatch ------------------------------
(***************************************************************************)
(* Synchronous inference on an engine whose loop thread is not started, as *)
(* the colocated rollout uses it: EngineCore.execute_requests drives one   *)
(* batch from admission to its end, score_ids scores one, both inside      *)
(* exclusive(), which holds the engine lock.                               *)
(*                                                                         *)
(* What is hard here is what happens when a step raises: three nested      *)
(* handlers (execute_synchronously, execute_requests, exclusive) fence,    *)
(* discard, end and release, and a fence may itself fail.                  *)
(*                                                                         *)
(* One KV slot per token, no prefix cache, no prefill budget; run_batch    *)
(* keeps every sequence below max_seq_len.                                 *)
(***************************************************************************)
EXTENDS Integers, Sequences, FiniteSets, Functions

CONSTANTS Requests,     \* requests of all calls
          PromptLen,    \* prompt length of each
          MaxTokens,    \* max_tokens of each
          MaxBatchSize, \* max_batch_size
          PoolTokens,   \* token slots of the KV pool
          MaxFaults     \* bound: exceptions explored

\* Assumed by the module that gives the constants their values.
CallsAssumption ==
    /\ IsFiniteSet(Requests)
    /\ PromptLen \in [Requests -> Nat \ {0}] /\ MaxTokens \in [Requests -> Nat \ {0}]
    /\ MaxBatchSize \in Nat \ {0} /\ PoolTokens \in Nat /\ MaxFaults \in Nat

VARIABLES
    phase,     \* new, waiting or running (registered), gone (released)
    outcome,   \* none until terminal_emitted, then why
    out,       \* output tokens
    computed,  \* num_computed_tokens
    planned,   \* requests with an execution planned and not resolved
    slots,     \* KV slots held
    freeSlots, \* KV slots of the pool that are free
    waiting,   \* waiting queue
    running,   \* running list
    batch,     \* requests of the call in progress
    scan,      \* admission: requests left to look at, and those put back
    plan,      \* groups of the planned step not launched yet
    pending,   \* launched groups not resolved
    touching,  \* ghost: requests whose KV the device may still write
    pc,        \* where the call is
    raising,   \* an exception is on its way out of the call
    failed,    \* _shutdown_failed: a fence failed, KV is quarantined
    faults     \* exceptions so far

tokenVars == <<out, computed>>
kvVars == <<slots, freeSlots>>
execVars == <<planned, plan, pending, touching>>
registryVars == <<phase, outcome, kvVars, waiting, running>>
vars == <<registryVars, tokenVars, batch, scan, execVars, pc, raising, failed, faults>>

Smaller(a, b) == IF a < b THEN a ELSE b
Elements(s) == {s[i] : i \in DOMAIN s}
Without(s, S) == SelectSeq(s, LAMBDA r : r \notin S)
Registered == {r \in Requests : phase[r] \in {"waiting", "running"}}
Active == SelectSeq(running, LAMBDA r : outcome[r] = "none")
Fault == faults < MaxFaults /\ faults' = faults + 1

Init ==
    /\ phase = [r \in Requests |-> "new"]
    /\ outcome = [r \in Requests |-> "none"]
    /\ out = [r \in Requests |-> 0]
    /\ computed = [r \in Requests |-> 0]
    /\ planned = {} /\ touching = {}
    /\ slots = [r \in Requests |-> 0]
    /\ freeSlots = PoolTokens
    /\ waiting = <<>> /\ running = <<>> /\ batch = <<>>
    /\ scan = [left |-> 0, back |-> <<>>]
    /\ plan = <<>> /\ pending = <<>>
    /\ pc = "idle" /\ raising = FALSE
    /\ failed = FALSE /\ faults = 0

\* Scheduler.finish of the requests of S that have not ended, why.
Finish(S, why) ==
    outcome' = [r \in Requests |->
                  IF r \in S /\ outcome[r] = "none" THEN why ELSE outcome[r]]

\* release_finished, for a registry and executions that may have just changed:
\* nothing is given back while KV is quarantined.
Releasable(reg, ended, open) == {r \in reg : ended[r] # "none" /\ r \notin open}

Release(S) ==
    /\ phase' = [r \in Requests |-> IF r \in S THEN "gone" ELSE phase[r]]
    /\ waiting' = Without(waiting, S)
    /\ running' = Without(running, S)
    /\ slots' = [r \in Requests |-> IF r \in S THEN 0 ELSE slots[r]]
    /\ freeSlots' = freeSlots + SumFunctionOnSet(slots, S)

SafeRelease(open) == IF failed' THEN {} ELSE Releasable(Registered, outcome', open)

-----------------------------------------------------------------------------
(* execute_requests. *)

\* A batch is refused while anything is registered or KV is quarantined.
Accepts == running = <<>> /\ waiting = <<>> /\ ~failed

Execute(b) ==
    /\ pc = "idle" /\ Accepts
    /\ \A r \in Elements(b) : phase[r] = "new"
    /\ batch' = b
    /\ phase' = [r \in Requests |-> IF r \in Elements(b) THEN "waiting" ELSE phase[r]]
    /\ waiting' = waiting \o b
    /\ pc' = "begin"
    /\ UNCHANGED <<outcome, kvVars, running, tokenVars, scan, execVars, raising,
                   failed, faults>>

\* The loop of execute_requests: while a request of the batch has not ended.
BeginRound ==
    LET room == MaxBatchSize - Len(running)
        more == \E i \in DOMAIN batch : outcome[batch[i]] = "none"
    IN  /\ pc = "begin"
        /\ pc' = IF more THEN "admit" ELSE "finally"
        /\ scan' = [left |-> IF more /\ room > 0 THEN Smaller(room, Len(waiting)) ELSE 0,
                    back |-> <<>>]
        /\ UNCHANGED <<registryVars, tokenVars, batch, execVars, raising, failed,
                       faults>>

\* One iteration of admit_requests.
AdmitNext ==
    LET r == Head(waiting)
        fits == PromptLen[r] <= PoolTokens
        alloc == fits /\ PromptLen[r] <= freeSlots
    IN  /\ pc = "admit" /\ scan.left > 0
        /\ waiting' = Tail(waiting)
        /\ Finish(IF fits THEN {} ELSE {r}, "rejected")
        /\ scan' = [left |-> scan.left - 1,
                    back |-> IF fits /\ ~alloc THEN Append(scan.back, r)
                             ELSE scan.back]
        /\ IF alloc
           THEN /\ phase' = [phase EXCEPT ![r] = "running"]
                /\ running' = Append(running, r)
                /\ slots' = [slots EXCEPT ![r] = PromptLen[r]]
                /\ freeSlots' = freeSlots - PromptLen[r]
           ELSE UNCHANGED <<phase, running, kvVars>>
        /\ UNCHANGED <<tokenVars, batch, execVars, pc, raising, failed, faults>>

\* release_finished at the end of admit_requests, for the queue as it is after
\* the requests that found no room went back to its head.
Admitted ==
    LET S == Releasable(Registered, outcome, planned)
    IN  /\ pc = "admit" /\ scan.left = 0
        /\ phase' = [r \in Requests |-> IF r \in S THEN "gone" ELSE phase[r]]
        /\ waiting' = Without(scan.back \o waiting, S)
        /\ running' = Without(running, S)
        /\ slots' = [r \in Requests |-> IF r \in S THEN 0 ELSE slots[r]]
        /\ freeSlots' = freeSlots + SumFunctionOnSet(slots, S)
        /\ scan' = [left |-> 0, back |-> <<>>]
        /\ pc' = IF Active = <<>> THEN "reject" ELSE "plan"
        /\ UNCHANGED <<outcome, tokenVars, batch, execVars, raising, failed, faults>>

\* reject_waiting_for_capacity: nothing is active.
Reject ==
    /\ pc = "reject"
    /\ Finish(Elements(waiting), "rejected")
    /\ Release(Releasable(Registered, outcome', planned))
    /\ pc' = "finally"
    /\ UNCHANGED <<tokenVars, batch, scan, execVars, raising, failed, faults>>

-----------------------------------------------------------------------------
(* execute_synchronously: one step, launched and resolved. *)

Decoding(r) == computed[r] >= PromptLen[r]

\* extend_slots_batch gives the free slots to the first requests that need one.
NeedsSlot(r) == Decoding(r) /\ computed[r] >= slots[r]
Extended(i) ==
    Cardinality({j \in 1..(i - 1) : NeedsSlot(Active[j])}) < freeSlots
Rows == {Active[i] : i \in {j \in DOMAIN Active : NeedsSlot(Active[j]) => Extended(j)}}

\* Those that got none are ended, or the batch would wait for them forever.
Starved == {Active[i] : i \in {j \in DOMAIN Active : NeedsSlot(Active[j]) /\ ~Extended(j)}}

Plan ==
    LET grown == {r \in Rows : NeedsSlot(r)}
        prefill == {r \in Rows : ~Decoding(r)}
        decode == Rows \ prefill
    IN  /\ pc = "plan"
        /\ Finish(Starved, "aborted")
        /\ planned' = planned \cup Rows
        /\ computed' = [r \in Requests |->
                          IF r \in prefill THEN PromptLen[r]
                          ELSE IF r \in decode THEN computed[r] + 1
                          ELSE computed[r]]
        /\ slots' = [r \in Requests |-> IF r \in grown THEN slots[r] + 1 ELSE slots[r]]
        /\ freeSlots' = freeSlots - Cardinality(grown)
        /\ plan' = SelectSeq(<<prefill, decode>>, LAMBDA g : g # {})
        /\ pc' = "launch"
        /\ UNCHANGED <<phase, waiting, running, out, batch, scan, pending, touching,
                       raising, failed, faults>>

Launch ==
    /\ pc = "launch" /\ plan # <<>>
    /\ pending' = Append(pending, Head(plan))
    /\ touching' = touching \cup Head(plan)
    /\ plan' = Tail(plan)
    /\ UNCHANGED <<registryVars, tokenVars, batch, scan, planned, pc, raising, failed,
                   faults>>

\* A forward raises after it may have started writing KV: no handle is returned.
LaunchRaises ==
    /\ pc = "launch" /\ plan # <<>> /\ Fault
    /\ touching' = touching \cup Head(plan)
    /\ plan' = <<>>
    /\ pc' = "fence"
    /\ UNCHANGED <<registryVars, tokenVars, batch, scan, planned, pending, raising,
                   failed>>

Launched ==
    /\ pc = "launch" /\ plan = <<>>
    /\ pc' = "commit"
    /\ UNCHANGED <<registryVars, tokenVars, batch, scan, execVars, raising, failed,
                   faults>>

\* commit() of the oldest handle and update_from_output; stops is the set of
\* requests whose sampled token is a stop token.
Resolve(stops) ==
    LET group == Head(pending)
        live == {r \in group : outcome[r] = "none"}
    IN  /\ stops \subseteq live
        /\ pending' = Tail(pending)
        /\ touching' = touching \ group
        /\ planned' = planned \ group
        /\ out' = [r \in Requests |-> IF r \in live THEN out[r] + 1 ELSE out[r]]
        /\ Finish({r \in live : r \in stops \/ out[r] + 1 >= MaxTokens[r]}, "finished")

Commit ==
    /\ pc = "commit" /\ pending # <<>>
    /\ \E stops \in SUBSET Head(pending) : Resolve(stops)
    /\ UNCHANGED <<phase, kvVars, waiting, running, computed, batch, scan, plan, pc,
                   raising, failed, faults>>

CommitRaises ==
    /\ pc = "commit" /\ pending # <<>> /\ Fault
    /\ pc' = "fence"
    /\ UNCHANGED <<registryVars, tokenVars, batch, scan, execVars, raising, failed>>

Committed ==
    /\ pc = "commit" /\ pending = <<>>
    /\ UNCHANGED <<outcome, failed>>
    /\ Release(SafeRelease(planned))
    /\ pc' = "begin"
    /\ UNCHANGED <<tokenVars, batch, scan, execVars, raising, faults>>

\* What follows a fence that returned: the device is quiet, results that were
\* not applied are forgotten.
MutantDiscardHandles ==
    /\ pending' = <<>> /\ plan' = <<>> /\ touching' = {} /\ UNCHANGED planned
Discard ==
    /\ pending' = <<>> /\ plan' = <<>> /\ planned' = {} /\ touching' = {}

\* The handler of execute_synchronously.
InnerFence ==
    /\ pc = "fence"
    /\ \/ Discard /\ UNCHANGED <<failed, faults>>
       \/ Fault /\ failed' = TRUE /\ UNCHANGED execVars
    /\ pc' = "finally" /\ raising' = TRUE
    /\ UNCHANGED <<registryVars, tokenVars, batch, scan>>

-----------------------------------------------------------------------------
(* The finally block of execute_requests. *)

FinallyDrains ==
    /\ pc = "finally" /\ pending # <<>>
    /\ \/ /\ \E stops \in SUBSET Head(pending) : Resolve(stops)
          /\ UNCHANGED <<pc, faults>>
       \/ /\ Fault /\ pc' = "outer"
          /\ UNCHANGED <<outcome, out, planned, pending, touching>>
    /\ UNCHANGED <<phase, kvVars, waiting, running, computed, batch, scan, plan,
                   raising, failed>>

FinallyEnds ==
    /\ pc = "finally" /\ pending = <<>>
    /\ Finish(Elements(batch), "aborted")
    /\ UNCHANGED failed
    /\ Release(SafeRelease(planned))
    /\ pc' = IF raising THEN "outer" ELSE "idle"
    /\ UNCHANGED <<tokenVars, batch, scan, execVars, raising, faults>>

-----------------------------------------------------------------------------
(* The handler of exclusive(), and _shutdown. *)

\* exclusive() fences once more before it shuts down, whatever already happened.
OuterFence ==
    /\ pc = "outer"
    /\ raising' = FALSE
    /\ \/ touching' = {} /\ pc' = "shutdown" /\ UNCHANGED <<failed, faults>>
       \/ Fault /\ failed' = TRUE /\ pc' = "idle" /\ UNCHANGED touching
    /\ UNCHANGED <<registryVars, tokenVars, batch, scan, planned, plan, pending>>

\* stop() of the engine: it also gets an engine out of quarantine.
Stop ==
    /\ pc = "idle"
    /\ pc' = "shutdown"
    /\ UNCHANGED <<registryVars, tokenVars, batch, scan, execVars, raising, failed,
                   faults>>

\* A fence inside _shutdown failed: everything is ended, nothing released.
Quarantine ==
    /\ Fault
    /\ failed' = TRUE
    /\ Finish(Registered, "aborted")
    /\ pc' = "idle"
    /\ UNCHANGED <<phase, kvVars, waiting, running, execVars>>

\* A quarantined engine fences first.
ShutdownBegins ==
    /\ pc = "shutdown"
    /\ \/ /\ touching' = (IF failed THEN {} ELSE touching)
          /\ failed' = FALSE
          /\ pc' = "drain"
          /\ UNCHANGED <<registryVars, planned, plan, pending, faults>>
       \/ failed /\ Quarantine
    /\ UNCHANGED <<tokenVars, batch, scan, raising>>

ShutdownDrains ==
    /\ pc = "drain" /\ pending # <<>>
    /\ \/ /\ \E stops \in SUBSET Head(pending) : Resolve(stops)
          /\ UNCHANGED <<phase, kvVars, waiting, running, plan, pc, failed, faults>>
       \/ /\ Fault /\ Discard
          /\ UNCHANGED <<registryVars, out, pc, failed>>
       \/ Quarantine /\ UNCHANGED out
    /\ UNCHANGED <<computed, batch, scan, raising>>

\* A launch that raised left planned rows without a handle: fence once more.
ShutdownEnds ==
    /\ pc = "drain" /\ pending = <<>>
    /\ \/ /\ Finish(Registered, "aborted")
          /\ UNCHANGED failed
          /\ Release(SafeRelease({}))
          /\ IF planned = {} THEN UNCHANGED execVars ELSE Discard
          /\ pc' = "idle" /\ UNCHANGED faults
       \/ planned # {} /\ Quarantine
    /\ UNCHANGED <<tokenVars, batch, scan, raising>>

\* A call that exclusive() refuses still drains what is in flight first.
RefusedDrains ==
    /\ pc = "idle" /\ ~Accepts /\ pending # <<>>
    /\ \E stops \in SUBSET Head(pending) : Resolve(stops)
    /\ UNCHANGED <<phase, kvVars, waiting, running, computed, batch, scan, plan, pc,
                   raising, failed, faults>>

-----------------------------------------------------------------------------
(* score_ids: the slots are reserved, one forward runs, a fence ends it.    *)

Score(b) ==
    LET \* The requests that found room, tried in order.
        S == CHOOSE T \in SUBSET Elements(b) :
               \A i \in DOMAIN b :
                  b[i] \in T <=>
                    PromptLen[b[i]] + SumFunctionOnSet(PromptLen,
                        {b[j] : j \in 1..(i - 1)} \cap T) <= freeSlots
    IN  /\ pc = "idle" /\ Accepts
        /\ \A r \in Elements(b) : phase[r] = "new"
        /\ batch' = b
        /\ phase' = [r \in Requests |->
                       IF r \in S THEN "running"
                       ELSE IF r \in Elements(b) THEN "gone" ELSE phase[r]]
        /\ Finish(Elements(b) \ S, "unscored")
        /\ slots' = [r \in Requests |-> IF r \in S THEN PromptLen[r] ELSE slots[r]]
        /\ freeSlots' = freeSlots - SumFunctionOnSet(PromptLen, S)
        /\ touching' = S
        /\ \/ raising' = FALSE /\ UNCHANGED faults
           \/ raising' = TRUE /\ Fault
        /\ pc' = "scored"
        /\ UNCHANGED <<waiting, running, tokenVars, scan, planned, plan, pending,
                       failed>>

\* The finally block of score_ids releases its requests only after the fence.
ScoreReleases ==
    \/ /\ touching' = {}
       /\ Finish(Registered, IF raising THEN "aborted" ELSE "finished")
       /\ Release(Registered)
       /\ pc' = IF raising THEN "outer" ELSE "idle"
       /\ UNCHANGED <<failed, faults>>
    \/ /\ Fault /\ failed' = TRUE /\ pc' = "outer"
       /\ UNCHANGED <<registryVars, touching>>

Scored ==
    /\ pc = "scored"
    /\ ScoreReleases
    /\ UNCHANGED <<tokenVars, batch, scan, planned, plan, pending, raising>>

-----------------------------------------------------------------------------
\* Orders in which a set of requests can be submitted.
Batches == {b \in UNION {[1..n -> Requests] : n \in 1..Cardinality(Requests)} :
              \A i, j \in DOMAIN b : b[i] = b[j] => i = j}

CallStep ==
    \/ BeginRound \/ AdmitNext \/ Admitted \/ Reject
    \/ Plan \/ Launch \/ LaunchRaises \/ Launched
    \/ Commit \/ CommitRaises \/ Committed \/ InnerFence
    \/ FinallyDrains \/ FinallyEnds \/ OuterFence
    \/ ShutdownBegins \/ ShutdownDrains \/ ShutdownEnds \/ Scored

Next ==
    \/ \E b \in Batches : Execute(b) \/ Score(b)
    \/ CallStep
    \/ RefusedDrains \/ Stop

Spec == Init /\ [][Next]_vars

\* A call runs on its caller's thread; nobody has to call.
FairSpec == Spec /\ WF_vars(CallStep)

-----------------------------------------------------------------------------
(* Properties. *)

\* Every variable of a synchronous call has its type.
TypeOK ==
    /\ phase \in [Requests -> {"new", "waiting", "running", "gone"}]
    /\ outcome \in [Requests -> {"none", "finished", "rejected", "aborted",
                            "unscored"}]
    /\ out \in [Requests -> Nat] /\ computed \in [Requests -> Nat]
    /\ slots \in [Requests -> Nat] /\ freeSlots \in Nat
    /\ waiting \in Seq(Requests) /\ running \in Seq(Requests)
    /\ batch \in Seq(Requests)
    /\ scan \in [left : Nat, back : Seq(Requests)]
    /\ planned \subseteq Requests /\ touching \subseteq Requests
    /\ plan \in Seq(SUBSET Requests) /\ pending \in Seq(SUBSET Requests)
    /\ pc \in {"idle", "begin", "admit", "reject", "plan", "launch", "commit",
               "fence", "finally", "outer", "shutdown", "drain", "scored"}
    /\ raising \in BOOLEAN /\ failed \in BOOLEAN /\ faults \in 0..MaxFaults

\* Whichever of the three handlers runs, KV slots are given back only when the
\* device can no longer write them.
NoReleaseInFlight == \A r \in touching : phase[r] = "running" /\ slots[r] > 0

\* Between calls of an engine that is not quarantined nothing is left behind:
\* no registered request, no execution, the whole pool free, and every request
\* ever submitted has its outcome.
CallsLeaveNothing ==
    pc = "idle" /\ ~failed =>
        /\ Registered = {} /\ planned = {} /\ pending = <<>> /\ touching = {}
        /\ freeSlots = PoolTokens
        /\ \A r \in Requests : phase[r] = "gone" => outcome[r] # "none"

\* reject_waiting_for_capacity ends a batch "when no active request can free
\* capacity": what it rejects could never be admitted.
RejectedOnlyWithoutCapacity ==
    \A r \in Requests : outcome[r] = "rejected" => PromptLen[r] > PoolTokens
=============================================================================
