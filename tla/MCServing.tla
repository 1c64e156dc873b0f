------------------------------ MODULE MCServing ------------------------------
(* What a forward pass and the text made of it rest on, for TLC: the device  *)
(* work of the model runner, kernel selection and the GEMM plans, FP8        *)
(* scaling state, the recurrent layer and the dispatch to experts, the text  *)
(* a client is streamed, and the scores of an evaluation.  The parts share   *)
(* no state, so their behaviours are explored side by side: "part" says      *)
(* which one a behaviour is of, and the variables of the others keep the     *)
(* value None.                                                               *)
EXTENDS Integers, Sequences, TLC

CONSTANTS None,
          Parts,                            \* the parts a run explores
          Plans, Ladder, PerfClass, Trigger \* of PlanTable

-----------------------------------------------------------------------------
(* Texts: every one of up to five letters under single, nested and           *)
(* overlapping stop sequences, and responses with tool calls, objects that   *)
(* are none, and truncated ones; a call is never cut inside.                 *)

Letters == UNION {[1..n -> {"a", "b"}] : n \in 0..5}
StopLists == {<<>>, <<<<"a">>>>, <<<<"a", "b">>>>, <<<<"a", "a", "b">>, <<"b">>>>,
              <<<<"b", "b">>, <<"a", "b", "a">>>>}
Named == <<"na", "me:", "f">>
Called(args) ==
    <<"{">> \o Named
        \o (IF args = <<>> THEN <<>> ELSE <<"args:", "{">> \o args \o <<"}">>) \o <<"}">>
Bodies ==
    {<<"x", "y">>, <<"x", "{", "na">>, <<"x", "{", "na", "me:">>, <<"x", "{", "na", "x", "}">>,
     <<"{", "1", "}", "x">>, <<"x", "{", "1", "x">>, <<"{", "{", "1", "x">>,
     Called(<<>>), <<"x">> \o Called(<<"1">>), Called(<<"1">>) \o Called(<<"{", "1", "}">>),
     <<"{", "1", "}">> \o Called(<<"1">>), <<"x">> \o Called(<<"1">>) \o <<"y">> \o Called(<<>>)}
Texts ==
    {[text |-> t, stops |-> s, tools |-> FALSE, reason |-> "stop"] :
        t \in Letters, s \in StopLists}
    \union {[text |-> t, stops |-> s, tools |-> TRUE, reason |-> "length"] :
        t \in Bodies, s \in {<<>>, <<<<"y">>>>, <<<<"1", "}", "x">>>>}}
MaxChunk == 2

(* Device: three requests over two slots, greedy, sampled and penalized.     *)

Sampled(t, k, p, f) == [temp |-> t, topK |-> k, topP |-> p, penalty |-> f]
Requests == {1, 2, 3}
PromptLen == <<2, 3, 1>>
ContLen == <<1, 2, 0>>
Sampling == <<Sampled(1, 0, 1, 0), Sampled(0, 2, 0, 0), Sampled(1, 0, 1, 1)>>
MaxNew == 3
Slots == 2
Chunk == 2
MaxHandles == 2

(* Selection: a call of each operation, one kernel missing, a choice of the  *)
(* environment, and a table with and without a row.                          *)

CallOf(op, fits, rows) == [op |-> op, fits |-> fits, rows |-> rows]
Calls == {CallOf("attention", {"flash"}, 1), CallOf("rotary", {"cuda", "custom"}, 1),
          CallOf("swiglu", {}, 1), CallOf("syrk", {"cuda"}, 1)}
Env == "attention" :> "flash"
Built == {"attention", "newton_schulz", "rotary_emb"}
Names == {"none", "torch", "cuda"}
Tables == {<<"syrk", 1>> :> [impl |-> "cuda", tile |-> "wide"],
           [k \in {} |-> [impl |-> "torch", tile |-> "default"]]}
Modeled == <<"syrk", 1>> :> "narrow"
CacheLimit == 1
MaxChanges == 2
MaxScopes == 1

(* GEMM plans: one to four GPUs, full and thin built-in tables, recipes that *)
(* cannot launch, speeds without order.                                      *)

Row(class, lo, hi, r) ==
    [class |-> class, mMin |-> lo, mMax |-> hi, nMin |-> 0, nMax |-> 0, recipe |-> r]
Thin == <<Row("w16a16", 0, 4, "b")>>
Full == <<Row("w16a16", 0, 6, "b"), Row("w16a16", 6, 0, "s"), Row("f8a8", 0, 0, "s")>>
Speed(seed) ==
    [x \in {"w16a16", "e4m3", "e5m2"} \X {2, 5, 8} \X {2, 5} \X {1, 2} \X {"s", "b", "w"} |->
        LET shape == CASE x[5] = "s" -> x[2] [] x[5] = "b" -> seed + x[3]
                       [] x[5] = "w" -> 2 * x[2] + x[4]
        IN  1 + ((seed * (x[2] + 3 * x[3]) + x[4] + shape
                  + (IF x[1] = "e4m3" THEN seed ELSE 0)) % 4)]
Pipeline(seed, gpus, skip, builtin, fits) ==
    [combos |-> {"w16a16", "e4m3", "e5m2"}, ms |-> {2, 5, 8}, ns |-> {2, 5}, ks |-> {1, 2},
     gpus |-> gpus, skip |-> skip, builtin |-> builtin, fits |-> fits,
     holdout |-> {<<1, 2>>, <<6, 4>>}, speed |-> Speed(seed),
     calls |-> {[class |-> "w16a16", m |-> 1, n |-> 2], [class |-> "f8a8", m |-> 1, n |-> 3]}]
Launchable == [w16a16 |-> {"s", "b"}, f8a8 |-> {"w", "s"}]
ManyPlans ==
    {Pipeline(s, g, FALSE, Full, Launchable) : s \in 1..5, g \in {1, 2}}
    \union {Pipeline(s, g, TRUE, Thin, [Launchable EXCEPT !.f8a8 = {"s"}]) :
              s \in 2..4, g \in {3, 4}}
    \union {Pipeline(3, 2, FALSE, b, [Launchable EXCEPT !.f8a8 = {}]) : b \in {Full, Thin}}
ManyRecipes == [w16a16 |-> <<"s", "b">>, f8a8 |-> <<"w", "s">>]
OfFormat == [w16a16 |-> "w16a16", e4m3 |-> "f8a8", e5m2 |-> "f8a8"]

\* One tuning run without a built-in table for the class of a hot shape, and a serving process
\* that launches that shape until the tuner is asked.
OnePlan ==
    {[Pipeline(1, 1, FALSE, <<>>, [w16a16 |-> {"s", "b"}]) EXCEPT
        !.combos = {"w16a16"}, !.ms = {2, 5}, !.ns = {2}, !.ks = {1}, !.holdout = {},
        !.calls = {[class |-> "w16a16", m |-> 1, n |-> 2]}]}
OneRecipes == [w16a16 |-> <<"s", "b">>]
OneFormat == [w16a16 |-> "w16a16"]

(* FP8: two linears that consume one activation, as q and k do.              *)

Linears == <<"q", "k">>
Input == [q |-> "h", k |-> "h"]
Amaxes == {1, 2}
HistoryLen == 2
Caching == FALSE
MaxSteps == 2
MaxSwaps == 1
MaxRestarts == 1

(* Recurrent layer: one to three taps, chunks of two and three, two tokens.  *)

Token(mix, decay, beta) == [mix |-> mix, decay |-> decay, beta |-> beta]
Tokens == {Token(<<1, 2, 3, 1, 4>>, 1, 2), Token(<<2, 5, 1, 4, 3>>, 2, 3)}
Layers == {[taps |-> <<2, 3, 1>>, chunk |-> 3], [taps |-> <<1, 4>>, chunk |-> 2],
           [taps |-> <<3>>, chunk |-> 2]}
Prime == 7
Rate == 3
MaxHistory == 4
MaxPiece == 3

Experts == 4
Activated == 2
MaxTokens == 2

(* Evaluations: texts cut to the limit, turns that trim to nothing, a        *)
(* sentinel of two tokens, letters of one and of two tokens, questions that  *)
(* fit with fewer demonstrations or not at all.                              *)

Evaluation(kind, items) ==
    [kind |-> kind, items |-> items, batch |-> 2, limit |-> 6, sentinel |-> <<90>>,
     eos |-> <<99>>, letters |-> <<<<71>>, <<72>>>>]
Pair(c, r) == <<<<c, r>>>>
Question(shots, stem, endings) == [shots |-> shots, stem |-> stem, endings |-> endings]
Works ==
    {Evaluation("perplexity", <<<<1, 2, 3>>, <<4>>, <<5, 6, 7, 8, 9, 10, 11>>>>),
     [Evaluation("difficulty",
          <<Pair(<<1, 2>>, <<3>>), Pair(<<4>>, <<>>), Pair(<<5>>, <<6, 7>>),
            Pair(<<8, 9, 10, 11>>, <<12, 13, 14, 15>>)>>) EXCEPT !.batch = 3],
     [Evaluation("difficulty",
          <<<<<<<<1>>, <<2>>>>, <<<<1, 2, 3>>, <<99>>>>>>, Pair(<<5>>, <<6>>)>>)
          EXCEPT !.sentinel = <<90, 91>>],
     [Evaluation("difficulty", <<Pair(<<1, 2>>, <<3>>), Pair(<<5>>, <<6, 7>>)>>)
          EXCEPT !.eos = <<>>, !.batch = 1],
     Evaluation("letters",
          <<Question(<<<<1, 2>>, <<3, 4>>>>, <<5, 6>>, <<>>), Question(<<>>, <<7>>, <<>>),
            Question(<<<<8>>>>, <<9, 10>>, <<>>)>>),
     [Evaluation("letters",
          <<Question(<<<<1, 2>>>>, <<5, 6>>, <<>>), Question(<<>>, <<7>>, <<>>)>>)
          EXCEPT !.letters = <<<<71>>, <<72, 73>>>>],
     [Evaluation("letters",
          <<Question(<<>>, <<7>>, <<>>), Question(<<<<1, 2>>>>, <<1, 2, 3, 4, 5, 6>>, <<>>)>>)
          EXCEPT !.batch = 1],
     Evaluation("endings",
          <<Question(<<>>, <<1, 2, 3, 4, 5>>, <<<<6>>, <<7, 8, 9>>>>),
            Question(<<>>, <<10>>, <<<<11, 12>>, <<13>>>>)>>)}

-----------------------------------------------------------------------------

VARIABLES
    part,
    gen, fed, buffer, matched, body, shown, calls, has, content, pc,
    seat, reach, output, vacant, bound, decodeCache, stream, pins, pin, device, handles,
    rings, scores,
    chosen, scopes, keeper, loaded, loads, rowsNow, saved, revision, strict, picked, changes,
    plan, phase, worker, measured, table, dropped, installed, serving, injected, misses,
    settled,
    slotted, param, byWeight, meta, xring, bySlot, byKey, order, pending, cache, region, next,
    tape, snapshot, folds, kept, steps, swaps, restarts,
    layer, cell, heard, spoken, graded,
    selected, ranked, expertTurn, frontier, gathered,
    work, place, queue, entries, broken

T == INSTANCE TextStream
D == INSTANCE DeviceWork
K == INSTANCE KernelChoice
P == INSTANCE PlanTable
F == INSTANCE Fp8State
R == INSTANCE DeltaLayer
X == INSTANCE ExpertDispatch
L == INSTANCE SequenceScoring

textVars == <<gen, fed, buffer, matched, body, shown, calls, has, content, pc>>
deviceVars == <<seat, reach, output, vacant, bound, decodeCache, stream, pins, pin, device,
           handles, rings, scores>>
choiceVars == <<chosen, scopes, keeper, loaded, loads, rowsNow, saved, revision, strict,
           picked, changes>>
planVars == <<plan, phase, worker, measured, table, dropped, installed, serving, injected,
           misses, settled>>
fp8Vars == <<slotted, param, byWeight, meta, xring, bySlot, byKey, order, pending, cache,
           region, next, tape, snapshot, folds, kept, steps, swaps, restarts>>
recurrenceVars == <<layer, cell, heard, spoken, graded>>
expertsVars == <<selected, ranked, expertTurn, frontier, gathered>>
scoringVars == <<work, place, queue, entries, broken>>

NoText == /\ gen = None /\ fed = None /\ buffer = None /\ matched = None /\ body = None
          /\ shown = None /\ calls = None /\ has = None /\ content = None /\ pc = None
NoDevice == /\ seat = None /\ reach = None /\ output = None /\ vacant = None /\ bound = None
            /\ decodeCache = None /\ stream = None /\ pins = None /\ pin = None
            /\ device = None /\ handles = None /\ rings = None /\ scores = None
NoChoice == /\ chosen = None /\ scopes = None /\ keeper = None /\ loaded = None
            /\ loads = None /\ rowsNow = None /\ saved = None /\ revision = None
            /\ strict = None /\ picked = None /\ changes = None
NoPlan == /\ plan = None /\ phase = None /\ worker = None /\ measured = None
          /\ table = None /\ dropped = None /\ installed = None /\ serving = None
          /\ injected = None /\ misses = None /\ settled = None
NoFp8 == /\ slotted = None /\ param = None /\ byWeight = None /\ meta = None
         /\ xring = None /\ bySlot = None /\ byKey = None /\ order = None
         /\ pending = None /\ cache = None /\ region = None /\ next = None /\ tape = None
         /\ snapshot = None /\ folds = None /\ kept = None /\ steps = None
         /\ swaps = None /\ restarts = None
NoRecurrence == /\ layer = None /\ cell = None /\ heard = None /\ spoken = None /\ graded = None
NoExperts == /\ selected = None /\ ranked = None /\ expertTurn = None /\ frontier = None
             /\ gathered = None
NoScoring == /\ work = None /\ place = None /\ queue = None /\ entries = None
             /\ broken = None

ServingInit ==
    /\ part \in Parts
    /\ IF part = "text" THEN T!Init ELSE NoText
    /\ IF part = "device" THEN D!Init ELSE NoDevice
    /\ IF part = "choice" THEN K!Init ELSE NoChoice
    /\ IF part = "plan" THEN P!Init ELSE NoPlan
    /\ IF part = "fp8" THEN F!Init ELSE NoFp8
    /\ IF part = "recurrence" THEN R!Init ELSE NoRecurrence
    /\ IF part = "experts" THEN X!Init ELSE NoExperts
    /\ IF part = "scoring" THEN L!Init ELSE NoScoring

ServingNext ==
    /\ IF part = "text" THEN T!Next ELSE UNCHANGED textVars
    /\ IF part = "device" THEN D!Next ELSE UNCHANGED deviceVars
    /\ IF part = "choice" THEN K!Next ELSE UNCHANGED choiceVars
    /\ IF part = "plan" THEN P!Next ELSE UNCHANGED planVars
    /\ IF part = "fp8" THEN F!Next ELSE UNCHANGED fp8Vars
    /\ IF part = "recurrence" THEN R!Next ELSE UNCHANGED recurrenceVars
    /\ IF part = "experts" THEN X!Next ELSE UNCHANGED expertsVars
    /\ IF part = "scoring" THEN L!Next ELSE UNCHANGED scoringVars
    /\ UNCHANGED part

ServingSpec ==
    ServingInit
    /\ [][ServingNext]_<<part, textVars, deviceVars, choiceVars, planVars, fp8Vars,
                         recurrenceVars, expertsVars, scoringVars>>

-----------------------------------------------------------------------------
(* The properties of the parts, each stated and explained in its module.     *)

\* TextStream: a client reads exactly the text before the stop sequence, once, and the stream
\* adds up to the answer the same generation gives as a whole.
TextIsExact == part = "text" => T!ReleasedIsExact /\ T!StreamMatchesResponse

\* DeviceWork: however far the host runs ahead and whatever it reuses, a request gets the
\* tokens of its own prefix, and a score the rows of its own continuation.
DeviceKeepsRequestsApart ==
    part = "device" => D!WorkTypeOK /\ D!OutputsAreTheirOwn /\ D!ScoresAreAligned

\* KernelChoice: no call is answered with the selection of an earlier table or flag.
SelectionIsCurrent == part = "choice" => K!ChoiceTypeOK /\ K!CacheIsCurrent

\* KernelChoice: no choice made for the process changes what a built engine's loop runs.
EngineKeepsItsSelection == [][part = "choice" => K!KeepsSelection]_choiceVars

\* PlanTable: after a tuning run every shape is dispatched to the fastest recipe measured for
\* it, and after a failed one to what was there before.
ServesTheMeasuredBest == part = "plan" => P!PlanTypeOK /\ P!ServesTheMeasuredBest

\* Fp8State: across updates, swapped parameters and restarts, a multiplication reads the bytes
\* and the scale of the weight the module holds, and histories stay with their modules.
ScalingFollowsTheModule == part = "fp8" => F!CastIsOfTheWeight /\ F!HistoryFollowsModule

\* What a faster form computes is what the plain one would: DeltaLayer, however a sequence is
\* cut into chunks, prefills and steps; ExpertDispatch, where each token gets the outputs of
\* its own experts with its own weights; SequenceScoring, where each token is scored once from
\* what precedes it in its own text, however texts are packed and cut.
FastFormsAgree ==
    /\ part = "recurrence" => R!RecurrenceTypeOK /\ R!CutsDoNotShow
    /\ part = "experts" => X!DispatchTypeOK /\ X!EveryTokenIsServed
    /\ part = "scoring" => L!ScoringTypeOK /\ L!ScoredInItsOwnContext

\* PlanTable: what the automatic tuner measures is dispatched.
HotShapesAreTuned == part = "plan" => P!HotShapesAreTuned
=============================================================================
