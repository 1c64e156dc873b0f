------------------------------- MODULE MCLearner -------------------------------
(* What an update of the policy passes through, for TLC: the data it is      *)
(* learned from, the rollouts and their selection, the gradients of a window *)
(* and of a sharded layout, the optimizers, and the checkpoints and the runs *)
(* resumed from them.  The parts share no state, so their behaviours are      *)
(* explored side by side: "part" says which one a behaviour is of.  The      *)
(* variables of the others keep the value None; those of CheckpointStore an  *)
(* initial state, in which its property says nothing.                        *)
EXTENDS CheckpointStore, TLC

CONSTANTS t1, t2, t3, Threads, None, Setups, GradParams, Bytes, Cap, Workloads, Groups,
          Cost, Touched, LearnerJobs, LearnerLayouts, LearnerWindows, LearnerGoals,
          LearnerOverlong, LearnerConfigs, LearnerKits, LearnerSizes,
          Parts        \* the parts a run explores

VARIABLES
    part,
    setup, version, weights, lock, cache, since, th, refused,
    gLoad, gRk, gBuf, gIssued, gDone, gUsedAll,
    oWorld, oOwner, oPc, oMaster, oMoment, oModel, oSent, oGrads, oGathered, oSource, oFile,
    oTruth, oLoaded, oSteps, oRestarts,
    job, taken, count, total, bucket, written, flushing, stage, disk, store, offset, learned,
    crashes,
    layout, windows, single, held, grad, local, tally, place, sFile,
    goal, ready, critic, turn, slot, terms, counted, lesson, uses,
    shelf, live, asked, run,
    kit, memory, agenda, updates, axes, owed, ideal,
    resident, replica, blocks, lanes, fired, pending, worklist, mood, passes, hPromised,
    torn

NoExtras == <<>>
MCParams == <<"p1", "p2">>

R == INSTANCE RolloutReplay WITH
        Batches <- {"b1", "b2"}, Params <- MCParams, MaxVersion <- 2
G == INSTANCE GradientWindow WITH
        Ranks <- {1, 2}, Params <- GradParams, Size <- Bytes, Micros <- 2, Windows <- 2,
        load <- gLoad, rk <- gRk, buf <- gBuf, issued <- gIssued, done <- gDone,
        usedAll <- gUsedAll
O == INSTANCE ShardedOptimizer WITH
        Worlds <- {2, 3}, MaxSteps <- 3, MaxRestarts <- 2,
        world <- oWorld, owner <- oOwner, pc <- oPc, master <- oMaster,
        moment <- oMoment, model <- oModel,
        sent <- oSent, grads <- oGrads, gathered <- oGathered, source <- oSource,
        file <- oFile, truth <- oTruth, loaded <- oLoaded, steps <- oSteps,
        restarts <- oRestarts
D == INSTANCE DataPath WITH Jobs <- LearnerJobs, MaxCrashes <- 1, Nothing <- None
S == INSTANCE ShardedStep WITH
        Layouts <- LearnerLayouts, Features <- 2, Rate <- 2, Accum <- 2,
        Windows <- LearnerWindows, MaxUpdates <- 2, file <- sFile
P == INSTANCE PolicyUpdate WITH
        Goals <- LearnerGoals, Unit <- 6, Gamma <- 2, Lambda <- 3, KlCoef <- 1,
        Overlong <- LearnerOverlong
L == INSTANCE RunLineage WITH
        Configs <- LearnerConfigs, MaxRuns <- 3, MaxSteps <- 1, MaxSaves <- 2
M == INSTANCE MatrixUpdate WITH Kits <- LearnerKits, MaxUpdates <- 2
H == INSTANCE StateOffload WITH
        Weights <- <<"a", "b", "c">>, Sizes <- LearnerSizes, Budget <- 4, MaxSteps <- 2,
        promised <- hPromised

replayVars == <<setup, version, weights, lock, cache, since, th, refused>>
gVars == <<gLoad, gRk, gBuf, gIssued, gDone, gUsedAll>>
oVars == <<oWorld, oOwner, oPc, oMaster, oMoment, oModel, oSent, oGrads, oGathered, oSource, oFile,
           oTruth, oLoaded, oSteps, oRestarts>>

dataVars == <<job, taken, count, total, bucket, written, flushing, stage, disk, store, offset,
           learned, crashes>>
shardedVars == <<layout, windows, single, held, grad, local, tally, place, sFile>>
lessonVars == <<goal, ready, critic, turn, slot, terms, counted, lesson, uses>>
lineageVars == <<shelf, live, asked, run>>
matrixVars == <<kit, memory, agenda, updates, axes, owed, ideal>>
offloadVars == <<resident, replica, blocks, lanes, fired, pending, worklist, mood, passes,
           hPromised, torn>>

ASSUME LearnerAssumption == R!ReplayAssumption /\ H!OffloadAssumption

-----------------------------------------------------------------------------
(* Rollouts: the trainer's one thread, and threads that share the runner,    *)
(* over every placement of the backends.                                     *)

Alone == [t \in {t1, t2, t3} |-> IF t = t1 THEN {"call", "update", "eval"} ELSE {}]
Shared(val) == [t \in {t1, t2, t3} |->
    CASE t = t1 -> {"update"}
      [] t = t2 -> {"call", "clear"}
      [] t = t3 -> IF val = "replica" THEN {"eval"} ELSE {"call"}]

MCSetups ==
    UNION {[roles : {Alone, Shared(v)}, train : {"colocated", "replica"},
            val : {v}, interval : {1, 2}] : v \in {"shared", "replica"}}

(* Gradients: four parameters in three buckets; ranks whose data reach       *)
(* different experts, one that misses a gradient, one without a token.       *)

MCGradParams == <<"a", "b", "c", "d">>
MCBytes == [p \in {"a", "b", "c", "d"} |-> IF p = "c" THEN 2 ELSE 1]
All == {"a", "b", "c", "d"}
Both(x) == [r \in {1, 2} |-> x]
Either(x, y) == [r \in {1, 2} |-> IF r = 1 THEN x ELSE y]
Counts == <<Both(<<1, 2>>), Either(<<1, 1>>, <<2, 0>>)>>
MCWorkloads ==
    {[find |-> TRUE, count |-> Counts,
      uses |-> <<Either(<<All, All>>, <<All, {"b"}>>),
                 Either(<<{"a"}, {"b", "c"}>>, <<{"b"}, {"b", "c"}>>)>>],
     [find |-> FALSE, count |-> Counts,
      uses |-> <<Either(<<All, {"b"}>>, <<{"c"}, All>>),
                 Either(<<All, {}>>, <<{"b", "d"}, {"a", "c"}>>)>>],
     [find |-> FALSE, count |-> Counts,
      uses |-> <<Both(<<All, All>>), Either(<<{"a"}, All>>, <<{"b"}, {"a", "b"}>>)>>],
     [find |-> TRUE, count |-> <<Both(<<1, 2>>), Both(<<0, 0>>)>>,
      uses |-> <<Both(<<All, All>>), Both(<<All, All>>)>>]}

(* Optimizer: two children, one of them with two groups, and parameters of   *)
(* unequal cost.                                                             *)

MCGroups == <<[child |-> "muon", params |-> <<"w1", "w2">>],
              [child |-> "adamw", params |-> <<"e", "n">>],
              [child |-> "adamw", params |-> <<"b">>]>>
MCCost == [p \in {"w1", "w2", "e", "n", "b"} |->
              CASE p = "e" -> 4 [] p \in {"w1", "w2"} -> 3 [] OTHER -> 1]
MCTouched == {{"w1", "w2", "e", "n", "b"}, {"w2", "n", "b"}}

(* Data: records of one and of several turns, one that raises and one that   *)
(* is empty, in record, stream and preference mode, every overflow, packing  *)
(* and tail policy, for two ranks or three; a stream with a shard without    *)
(* masks among others, one without any, and fewer samples than ranks.        *)

Section(n, train) == [n |-> n, train |-> train]
Output(template, units) == [template |-> template, units |-> units]
Record(domain, output) == [domain |-> domain, raises |-> FALSE, outputs |-> [sequence |-> output]]
Raising == [Record("x", Output(FALSE, <<Section(1, TRUE)>>)) EXCEPT !.raises = TRUE]
Chat(d) == Record(d, Output(TRUE, <<Section(1, FALSE), Section(3, TRUE)>>))
Turned(d) == Record(d, Output(TRUE, <<Section(1, TRUE), Section(1, FALSE), Section(1, TRUE)>>))
Plain(d, n) == Record(d, Output(FALSE, <<Section(n, TRUE)>>))
Preference(d, c, r) ==
    [domain |-> d, raises |-> FALSE,
     outputs |-> [chosen |-> Output(TRUE, <<Section(1, FALSE), Section(c, TRUE)>>),
                  rejected |-> Output(TRUE, <<Section(1, FALSE), Section(r, TRUE)>>)]]
Single == <<Turned("x"), Plain("x", 2), Raising, Chat("y"), Record("x", Output(TRUE, <<>>)),
            Plain("x", 2), Plain("x", 4)>>
River == <<Plain("x", 2), Turned("x"), Raising, Plain("x", 3), Chat("x"), Plain("x", 2)>>
Loaded == <<Plain("x", 2), Turned("x"), Plain("x", 3), Chat("x"), Plain("x", 2)>>
Pairs == <<Preference("x", 1, 2), Preference("y", 4, 1), Preference("x", 2, 2),
           Preference("x", 1, 1), Preference("y", 1, 3)>>
Prompted == Record("x", Output(FALSE, <<Section(1, FALSE), Section(2, TRUE)>>))
Job(records, mode, limit, shard, overflow, packing, tail) ==
    [source |-> IF shard = 0 THEN "jsonl" ELSE "bin", longest |-> 6, records |-> records,
     mode |-> mode, limit |-> limit, shard |-> shard, seqlen |-> 3,
     packed |-> IF mode = "stream" THEN 3 ELSE 5, overflow |-> overflow, packing |-> packing,
     tail |-> tail, dp |-> 2, batch |-> 1, accumulation |-> 2, window |-> 2, stride |-> 2]
Tails == {"flush", "drop", "pad", "floor"}
Three(j) == [j EXCEPT !.dp = 3]
MixedJobs ==
    {Job(<<Plain("x", 2), Prompted, Prompted>>, "stream", 0, 2, "split", "none", t) :
        t \in {"flush", "pad"}}
FewJobs ==
    {Three(Job(<<Prompted>>, "record", 0, 8, "split", "bfd", t)) : t \in {"flush", "pad", "floor"}}
MCJobs ==
    MixedJobs \union FewJobs \union
    {Job(<<Plain("x", 2), Plain("x", 3)>>, "stream", 0, 100, "split", "none", "flush")}
    \union {Three(Job(Single, "record", 0, 8, "split", "bfd", t)) : t \in Tails}
    \union
    {Job(Single, "record", l, 8, o, p, t) :
        l \in {0, 3}, o \in {"split", "keep_start", "keep_end"}, p \in {"bfd", "none"}, t \in Tails}
    \union {Job(River, "stream", 0, s, o, p, t) :
        s \in {0, 7, 100}, o \in {"split", "keep_end"}, p \in {"bfd", "none"}, t \in {"flush", "pad"}}
    \union {Job(Loaded, m, 0, 0, o, "bfd", t) :
        m \in {"record", "stream"}, o \in {"split", "keep_end"}, t \in Tails}
    \union {Job(Pairs, "pair", 0, 7, o, "bfd", t) : o \in {"keep_start", "keep_end"}, t \in Tails}

(* Layouts: two by two of tensor, context and data parallelism; windows with *)
(* masked tokens, tokens masked everywhere, and fillers.  Under tensor        *)
(* parallelism weights are read from a checkpoint, clipping and saving are    *)
(* off: S!Covered says why.                                                   *)

Example(x, y, valid) == [x |-> x, y |-> y, valid |-> valid]
ExA == <<Example(1, 5, TRUE), Example(2, 5, TRUE)>>
ExB == <<Example(1, 0, FALSE), Example(1, 1, TRUE)>>
ExC == <<Example(2, 8, TRUE), Example(1, 5, FALSE)>>
Masked == <<Example(1, 4, FALSE), Example(2, 5, FALSE)>>
Padding == << >>
WindowOf(a, b, c, d) == (<<0, 1>> :> a) @@ (<<1, 1>> :> b) @@ (<<0, 2>> :> c) @@ (<<1, 2>> :> d)
MCWindows ==
    {WindowOf(ExA, ExB, ExC, ExA), WindowOf(ExA, ExC, Padding, Padding),
     WindowOf(ExB, Padding, Padding, Padding), WindowOf(Masked, ExB, ExB, ExA),
     WindowOf(Masked, Masked, Masked, Padding)}
Layout(dp, cp, tp, norm, fresh, saves) ==
    [dp |-> dp, cp |-> cp, tp |-> tp, norm |-> norm, fresh |-> fresh, saves |-> saves]
MCLayouts == {Layout(2, 1, 2, 0, FALSE, FALSE), Layout(2, 2, 1, 0, TRUE, TRUE),
              Layout(1, 2, 1, 2, TRUE, TRUE)}

(* Lessons: groups of two responses, some empty, some over the length that   *)
(* is penalized, learned once or twice, whole or in minibatches.             *)

Response(len, reward) == [len |-> len, reward |-> reward]
Prompt(n, a, b) == [prompt |-> n, group |-> <<a, b>>]
Prompts ==
    <<Prompt(1, Response(2, 3), Response(1, 1)), Prompt(2, Response(0, 2), Response(2, 2)),
      Prompt(1, Response(3, 1), Response(2, 4)), Prompt(3, Response(1, 0), Response(3, 5)),
      Prompt(2, Response(1, 2), Response(0, 1))>>
Goal(algo, sum, batch, minibatch, n) ==
    [algo |-> algo, sum |-> sum, dp |-> 2, batch |-> batch, slots |-> 2, epochs |-> 2,
     minibatch |-> minibatch, window |-> SubSeq(Prompts, 1, n)]
MCGoals ==
    {Goal("grpo", s, 1, b, n) : s \in {"token", "sequence"}, b \in {0, 1, 3}, n \in {3, 4}}
    \union {Goal(a, "token", 2, b, n) : a \in {"ppo", "dpo"}, b \in {0, 2, 3}, n \in {3, 5}}
    \union {Goal("ppo", "token", 1, 2, 3)}
MCOverlong == [max |-> 3, buffer |-> 2, scale |-> 2]

(* Runs: with and without reference, old policy, critic, adapters, exported  *)
(* weights; with each of the load options; with another optimizer.           *)

Basic == [strategy |-> "seq", optimizer |-> "muon_adamw", scheduler |-> "cosine", options |-> 1,
          contract |-> 1, precision |-> 1, samples |-> 5, window |-> 2, flush |-> FALSE,
          epochs |-> 2, warmup |-> 1, interval |-> 1, lag |-> <<>>, reward |-> FALSE,
          critic |-> FALSE, compiled |-> FALSE, lora |-> FALSE, export |-> "none",
          saveReference |-> TRUE, reanchor |-> FALSE,
          load |-> [model |-> "unset", optimizer |-> "unset", scheduler |-> "unset"]]
Exporting == [Basic EXCEPT !.export = "half", !.options = 2, !.flush = TRUE]
Dpo == [Basic EXCEPT !.strategy = "dpo"]
Ppo == [Exporting EXCEPT !.strategy = "online_ppo", !.reward = TRUE, !.critic = TRUE]
MCConfigs ==
    {Basic, [Basic EXCEPT !.contract = 2, !.optimizer = "adamw"],
     [Exporting EXCEPT !.load.optimizer = "no"],
     [Basic EXCEPT !.load.scheduler = "no", !.options = 3],
     [Basic EXCEPT !.load = [model |-> "no", optimizer |-> "no", scheduler |-> "unset"]],
     [Dpo EXCEPT !.lora = TRUE],
     [Dpo EXCEPT !.saveReference = FALSE],
     [Dpo EXCEPT !.saveReference = FALSE, !.reanchor = TRUE],
     [Ppo EXCEPT !.compiled = TRUE, !.interval = 2, !.lag = <<1>>]}

(* Matrices: wide and tall ones, local, sharded and replicated, and          *)
(* parameters that are none, under each optimizer and each mode of Muon.     *)

Weight(role, dims, tall, placement) ==
    [role |-> role, dims |-> dims, tall |-> tall, placement |-> placement, trainable |-> TRUE]
Wide == Weight("linear", 2, FALSE, "local")
Tall == Weight("linear", 2, TRUE, "local")
Shard == Weight("linear", 2, TRUE, "shard")
Whole == Weight("linear", 2, FALSE, "replicate")
Conv == Weight("conv", 3, FALSE, "local")
Others == <<Weight("norm", 1, FALSE, "local"), Weight("embedding", 2, FALSE, "local")>>
Kit(optimizer, params) ==
    [name |-> optimizer, params |-> params, nesterov |-> FALSE, dtype |-> "bfloat16", reuse |-> FALSE,
     backend |-> "torch", batched |-> FALSE, batchSize |-> 2, steps |-> 3, rowPlan |-> FALSE]
Muon == Kit("muon_adamw", <<Wide, Tall, Wide, Wide>> \o Others)
MCKits ==
    {Muon, [Muon EXCEPT !.reuse = TRUE], [Muon EXCEPT !.batched = TRUE],
     [Muon EXCEPT !.batched = TRUE, !.nesterov = TRUE, !.steps = 2],
     [Muon EXCEPT !.backend = "auto", !.rowPlan = TRUE, !.batched = TRUE,
                  !.params = <<Tall, Tall, [Wide EXCEPT !.trainable = FALSE]>>],
     [Muon EXCEPT !.backend = "auto", !.rowPlan = TRUE, !.dtype = "float32", !.steps = 2,
                  !.params = <<Tall, Wide>>],
     [Muon EXCEPT !.batched = TRUE, !.params = <<Shard, Shard, Shard, Whole>>],
     [Muon EXCEPT !.steps = 0, !.params = <<Wide, Whole>>],
     Kit("nora_nadamw", <<Wide, Weight("lora", 2, FALSE, "local"), Conv>> \o Others),
     [Kit("mano_adamw", <<Wide, Weight("bias", 1, FALSE, "local"), Conv>>)
         EXCEPT !.nesterov = TRUE]}

MCSizes == [w \in {"a", "b", "c"} |-> IF w = "b" THEN 3 ELSE 2]

Symmetry == Permutations(Savers) \union Permutations(Names)

-----------------------------------------------------------------------------

NoReplay == /\ setup = None /\ version = None /\ weights = None /\ lock = None /\ cache = None
            /\ since = None /\ th = None /\ refused = None
NoGradients == /\ gLoad = None /\ gRk = None /\ gBuf = None /\ gIssued = None
               /\ gDone = None /\ gUsedAll = None
NoOptimizer == /\ oWorld = None /\ oOwner = None /\ oPc = None /\ oMaster = None /\ oMoment = None
               /\ oModel = None /\ oSent = None /\ oGrads = None /\ oGathered = None
               /\ oSource = None /\ oFile = None /\ oTruth = None /\ oLoaded = None
               /\ oSteps = None /\ oRestarts = None
\* An empty directory where nobody saves: one initial state of CheckpointStore.
NoStore == Init /\ at = [n \in Names |-> Absent]
NoData == /\ job = None /\ taken = None /\ count = None /\ total = None /\ bucket = None
          /\ written = None /\ flushing = None /\ stage = None /\ disk = None
          /\ store = None /\ offset = None /\ learned = None /\ crashes = None
NoSharded == /\ layout = None /\ windows = None /\ single = None /\ held = None
             /\ grad = None /\ local = None /\ tally = None /\ place = None /\ sFile = None
NoLesson == /\ goal = None /\ ready = None /\ critic = None /\ turn = None /\ slot = None
            /\ terms = None /\ counted = None /\ lesson = None /\ uses = None
NoLineage == /\ shelf = None /\ live = None /\ asked = None /\ run = None
NoMatrix == /\ kit = None /\ memory = None /\ agenda = None /\ updates = None /\ axes = None
            /\ owed = None /\ ideal = None
NoOffload == /\ resident = None /\ replica = None /\ blocks = None /\ lanes = None
             /\ fired = None /\ pending = None /\ worklist = None /\ mood = None
             /\ passes = None /\ hPromised = None /\ torn = None

LearnerInit ==
    /\ part \in Parts
    /\ IF part = "replay" THEN R!Init ELSE NoReplay
    /\ IF part = "gradients" THEN G!Init ELSE NoGradients
    /\ IF part = "optimizer" THEN O!Init ELSE NoOptimizer
    /\ IF part = "store" THEN Init ELSE NoStore
    /\ IF part = "data" THEN D!Init ELSE NoData
    /\ IF part = "sharded" THEN S!Init ELSE NoSharded
    /\ IF part = "lesson" THEN P!Init ELSE NoLesson
    /\ IF part = "lineage" THEN L!Init ELSE NoLineage
    /\ IF part = "matrix" THEN M!Init ELSE NoMatrix
    /\ IF part = "offload" THEN H!Init ELSE NoOffload

Step ==
    /\ IF part = "replay" THEN R!Next ELSE UNCHANGED replayVars
    /\ IF part = "gradients" THEN G!Next ELSE UNCHANGED gVars
    /\ IF part = "optimizer" THEN O!Next ELSE UNCHANGED oVars
    /\ IF part = "store" THEN Next ELSE UNCHANGED vars
    /\ IF part = "data" THEN D!Next ELSE UNCHANGED dataVars
    /\ IF part = "sharded" THEN S!Next ELSE UNCHANGED shardedVars
    /\ IF part = "lesson" THEN P!Next ELSE UNCHANGED lessonVars
    /\ IF part = "lineage" THEN L!Next ELSE UNCHANGED lineageVars
    /\ IF part = "matrix" THEN M!Next ELSE UNCHANGED matrixVars
    /\ IF part = "offload" THEN H!Next ELSE UNCHANGED offloadVars
    /\ UNCHANGED part

allVars ==
    <<part, vars, replayVars, gVars, oVars, dataVars, shardedVars, lessonVars, lineageVars,
      matrixVars, offloadVars>>

\* Rollouts and gradient windows go on for ever; the others may stop: a process dies, an update
\* is done, or a bound is reached.
LearnerNext == Step \/ (part \notin {"replay", "gradients"} /\ UNCHANGED allVars)

LearnerSpec == LearnerInit /\ [][LearnerNext]_allVars

-----------------------------------------------------------------------------
(* The properties of the parts, each stated and explained in its module.     *)
(* CheckpointsAreWhole of CheckpointStore is checked as it stands there: in  *)
(* a behaviour of another part the directory stays empty.                    *)

\* RolloutReplay: a rollout is of the one version it is stamped with; what is handed out answers
\* the batch and is within the lag; the trainer's own thread is never refused one.
RolloutsAreCurrent ==
    part = "replay" => R!OneVersionPerRollout /\ R!ServedInTime /\ R!NeverRefused

\* GradientWindow: every rank launches the same collectives in the same order, and what the
\* optimizer is given is the window's gradient, all of it, once.
GradientsAreWhole == part = "gradients" => G!LaunchesAgree /\ G!GradientIsWhole

\* ShardedOptimizer: between steps every rank computes with the owners' weights, and a
\* checkpoint restores masters and moments in any world.  MatrixUpdate: every mode of Muon
\* steps the weights as torch's own does, every trainable parameter once per gradient.
OptimizerIsWhole ==
    /\ part = "optimizer" => O!ReplicasAgree /\ O!RestoredAsSaved
    /\ part = "matrix" => M!UpdateTypeOK /\ M!ModesAgree /\ M!EveryGradientCounts

\* DataPath: whatever the shards, bins, ranks and crashes, each token that is to be learned is
\* learned once, from the tokens before it and at its position; of a stream, as long as every
\* shard has masks.  A job that cannot be dealt is refused, and no rank is left without a batch
\* that others have, unless one sample is padded to more than two ranks.
DataIsLearnedOnce == part = "data" => D!LearnsTheRecords /\ D!LearnsTheStream

\* ShardedStep: tensor, context and data parallelism add up to a single device's update,
\* except where tensor parallelism starts from fresh weights, clips or saves (S!Covered).
LayoutsDoNotShow ==
    part = "sharded" /\ S!Covered =>
        S!StepTypeOK /\ S!MatchesSingleDevice /\ S!ReplicasAgree /\ S!CheckpointIsWhole

\* PolicyUpdate: an update takes the loss of its selected prompts, each token once with the
\* advantage of the rollout, and a window is learned evenly.
LearnsTheSelection == part = "lesson" => P!LearnsTheSelection /\ P!ReplayIsEven

\* RunLineage: a resumed run is the run that was saved, and what was saved can be resumed.
RunsResumeWhole ==
    part = "lineage" => L!LineageTypeOK /\ L!ResumeIsWhole /\ L!SavedCanResume

\* StateOffload: when a step returns, host state and model are whole; when it raises, all but
\* the parameter it raised in, of which the update stopped in order.
HostStateIsWhole == part = "offload" => H!OffloadTypeOK /\ H!HostStateIsWhole
=============================================================================
