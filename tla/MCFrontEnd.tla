------------------------------ MODULE MCFrontEnd ------------------------------
(* What callers of an engine get back, for TLC: calls on their way to the     *)
(* scheduler (RequestIntake), responses and batch calls over the events of an *)
(* engine that runs (RequestDelivery), and calls that drive an engine whose   *)
(* loop is not started (SyncBatch).  The parts share no state here, so their  *)
(* behaviours are explored side by side: "part" says which one a behaviour is *)
(* of.  The variables of the other two keep the value None; those of          *)
(* RequestIntake an initial state, in which its properties say nothing.       *)
EXTENDS RequestIntake, TLC

CONSTANTS
    Parts,                   \* the parts a run explores
    Kinds, Consumers, Reqs, Lengths,            \* of RequestDelivery
    BatchSize, Pool, Raises,                    \* of SyncBatch
    c1, c2, r1, r2, r3

-----------------------------------------------------------------------------
(* Calls: bodies at the ends of what the schema lets through, batches of the  *)
(* front end under layers that name the same options, ids chosen by direct    *)
(* callers of the core, and rollouts around a window of three tokens.         *)

MCCallers == {c1, c2}

\* A model without generation_config.json, and two with one.
MCModels == {
    Nothing,
    [do_sample |-> TRUE, temperature |-> 1, max_new_tokens |-> 1, eos_token_id |-> {7}],
    [max_length |-> 2, top_k |-> 3] }

Body(tokens, temperature, top_p, top_k) ==
    [max_tokens |-> tokens, temperature |-> temperature, top_p |-> top_p, top_k |-> top_k]
Bodies == {
    b \in {Body(0, 2, 2, 50), Body(1, 0, 1, None), Body(1, 1, 0, 50),
           Body(5, 4, 2, 1), Body(None, None, 2, 50),
           Body(2, 5, 3, 0)} : Schema(b) }
HttpCalls == {Http(1, b) : b \in Bodies} \union {Http(len, Body(2, 2, 2, 50)) : len \in {0, 4}}

Engine(prompts, tokens, given, config, extra) ==
    [route |-> "engine", prompts |-> prompts, ids |-> <<>>, maxTokens |-> tokens,
     given |-> given, config |-> config, extra |-> extra]
EngineCalls == {
    Engine(<<1, 4>>, 1, [temperature |-> None, top_k |-> None], Nothing, Nothing),
    Engine(<<2>>, None, [do_sample |-> TRUE, temperature |-> 2], [temperature |-> 1, top_p |-> 1],
           Nothing),
    Engine(<<1>>, None, [max_length |-> 2], [max_length |-> 5, top_k |-> 0],
           [eos_token_id |-> {9}]),
    Engine(<<1>>, 2, Nothing, [max_new_tokens |-> 1], Nothing),
    Engine(<<1, 1>>, 1, [max_new_tokens |-> 1], Nothing, Nothing),
    Engine(<<1>>, 1, Nothing, Nothing, [num_beams |-> 2]),
    Engine(<<1>>, 1, Nothing, Nothing, [presence_penalty |-> 1]),
    Engine(<<>>, 1, Nothing, Nothing, Nothing),
    Engine(<<1>>, 0, Nothing, Nothing, Nothing) }

Core(prompts, ids, tokens) ==
    [route |-> "core", prompts |-> prompts, ids |-> ids, maxTokens |-> tokens,
     given |-> Nothing, config |-> Nothing, extra |-> Nothing]
CoreCalls == {
    Core(<<1, 2>>, <<<<"x", 1>>, <<"y", 1>>>>, 1),
    Core(<<1, 1>>, <<<<"x", 1>>, <<"x", 1>>>>, 1),
    Core(<<2, 3>>, <<<<"z", 1>>, <<"x", 1>>>>, 1),
    Core(<<1>>, <<<<"x", 1>>, <<"y", 1>>>>, 1),
    Core(<<0, 1>>, <<>>, -1) }

Rollout(prompts, tokens) ==
    [route |-> "rollout", prompts |-> prompts, ids |-> <<>>, maxTokens |-> tokens,
     sampling |-> [temperature |-> One, topP |-> One, topK |-> 0, eos |-> {}]]
Rollouts == {Rollout(<<1, 3>>, 1), Rollout(<<0, 2>>, None), Rollout(<<2>>, 2)}

MCCalls == HttpCalls \union EngineCalls \union CoreCalls \union Rollouts

-----------------------------------------------------------------------------
(* The consumers, and the calls of an engine that is not started.             *)

\* A response and a batch call over two requests, one of which has nothing to generate.
MCConsumers == {"response", "call"}
MCReqs == "response" :> <<r1>> @@ "call" :> <<r2, r3>>
MCTokens == r1 :> 2 @@ r2 :> 1 @@ r3 :> 0
MCKinds == {"response" :> "stream" @@ "call" :> "blocking",
            "response" :> "json" @@ "call" :> "generator"}

\* Calls over requests of which the third can never fit the four-slot pool the other two
\* compete for.
CallPrompts == r1 :> 1 @@ r2 :> 2 @@ r3 :> 5
CallTokens == r1 :> 3 @@ r2 :> 3 @@ r3 :> 1

VARIABLES
    part,
    kind, dAccepted, stream, dAccepting, emitting, registered, finished, subscribed, dBuffer,
    loopOpen, running, callbacks, queue, dPc, at, batch, complete, progressed, ending, folded,
    unsent, wire,
    phase, ended, out, computed, planned, slots, freeSlots, waiting, members, scan, plan,
    pending, touching, place, raising, failed, faults, called

D == INSTANCE RequestDelivery WITH
        Requests <- {r1, r2, r3}, MaxTokens <- Lengths,
        accepted <- dAccepted, accepting <- dAccepting, buffer <- dBuffer, pc <- dPc
B == INSTANCE SyncBatch WITH
        Requests <- {r1, r2, r3}, PromptLen <- CallPrompts, MaxTokens <- CallTokens,
        MaxBatchSize <- BatchSize, PoolTokens <- Pool, MaxFaults <- Raises,
        outcome <- ended, running <- members, batch <- called, pc <- place

ASSUME FrontEndAssumption ==
    /\ Parts \subseteq {"intake", "delivery", "calls"}
    /\ D!ConsumersAssumption /\ D!TokensAssumption /\ B!CallsAssumption

deliveryVars == <<kind, dAccepted, stream, dAccepting, emitting, registered, finished,
                  subscribed, dBuffer, loopOpen, running, callbacks, queue, dPc, at, batch,
                  complete, progressed, ending, folded, unsent, wire>>
callVars == <<phase, ended, out, computed, planned, slots, freeSlots, waiting, members,
              scan, plan, pending, touching, place, raising, failed, faults, called>>
allVars == <<part, intake, deliveryVars, callVars>>

NoIntake == Init /\ defaults = Nothing
NoDelivery == /\ kind = None /\ dAccepted = None /\ stream = None /\ dAccepting = None
              /\ emitting = None /\ registered = None /\ finished = None
              /\ subscribed = None /\ dBuffer = None /\ loopOpen = None /\ running = None
              /\ callbacks = None /\ queue = None /\ dPc = None /\ at = None
              /\ batch = None /\ complete = None /\ progressed = None /\ ending = None
              /\ folded = None /\ unsent = None /\ wire = None
NoCalls == /\ phase = None /\ ended = None /\ out = None /\ computed = None
           /\ planned = None /\ slots = None /\ freeSlots = None /\ waiting = None
           /\ members = None /\ scan = None /\ plan = None /\ pending = None
           /\ touching = None /\ place = None /\ raising = None /\ failed = None
           /\ faults = None /\ called = None

FrontEndInit ==
    /\ part \in Parts
    /\ IF part = "intake" THEN Init ELSE NoIntake
    /\ IF part = "delivery" THEN D!Init ELSE NoDelivery
    /\ IF part = "calls" THEN B!Init ELSE NoCalls

FrontEndNext ==
    /\ IF part = "intake" THEN Next ELSE UNCHANGED intake
    /\ IF part = "delivery" THEN D!Next ELSE UNCHANGED deliveryVars
    /\ IF part = "calls" THEN B!Next ELSE UNCHANGED callVars
    /\ UNCHANGED part

\* The fairness of each part, as its module states it: threads and the event loop run, the
\* engine ends what it accepted, and a call runs on its caller's thread.
OfDelivery(A) == part = "delivery" /\ A /\ UNCHANGED <<part, intake, callVars>>
OfCalls(A) == part = "calls" /\ A /\ UNCHANGED <<part, intake, deliveryVars>>

FrontEndSpec ==
    /\ FrontEndInit /\ [][FrontEndNext]_allVars
    /\ WF_allVars(OfDelivery(D!Post)) /\ WF_allVars(OfDelivery(D!Restore))
    /\ WF_allVars(OfDelivery(D!Deliver))
    /\ \A r \in {r1, r2, r3} : WF_allVars(OfDelivery(D!EmitFor(r)))
    /\ \A c \in Consumers : WF_allVars(OfDelivery(D!Act(c)))
    /\ WF_allVars(OfCalls(B!CallStep))

-----------------------------------------------------------------------------
(* The properties of the parts, each stated and explained in its module;      *)
(* those of RequestIntake are checked as they are.                            *)

\* RequestDelivery: wherever the handover between threads stands no event is lost or comes
\* twice, a request nobody listens to has been ended, and what is returned is whole.
DeliveryIsExact ==
    part = "delivery" => D!NothingLost /\ D!NoOrphans /\ D!ResponsesAreWhole

\* SyncBatch: whichever of the nested handlers runs, slots are given back only when the device
\* can no longer write them, and between calls of a sound engine nothing is left behind.
CallsLeaveNothing ==
    part = "calls" => B!TypeOK /\ B!NoReleaseInFlight /\ B!CallsLeaveNothing

\* No call is on its way: a consumer is done or its event loop was closed under it, and an
\* engine that is not started is between calls.
AllBack ==
    CASE part = "delivery" -> \A c \in Consumers : dPc[c] = "done" \/ (D!OnLoop(c) /\ ~loopOpen)
      [] part = "calls" -> place = "idle"
      [] OTHER -> TRUE

\* RequestDelivery: every call comes back, whichever events arrive before it subscribes, while
\* it waits or after the engine stopped.  SyncBatch: every call returns or raises; admission,
\* pool pressure and failed fences never leave it looping.
CallsReturn == []<>AllBack

\* SyncBatch: reject_waiting_for_capacity ends a batch "when no active request can free
\* capacity": what it rejects could never be admitted.
RejectedOnlyWithoutCapacity == part = "calls" => B!RejectedOnlyWithoutCapacity
=============================================================================
