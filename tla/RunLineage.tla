------------------------------ MODULE RunLineage ------------------------------
(***************************************************************************)
(* What a training run starts from: the configuration's checks               *)
(* (config/train_config.py), the checkpoint read back (context/resume.py),   *)
(* model, optimizer, schedule, reference, old policy and critic assembled    *)
(* in the builder's order (context/builder.py, components.py), the extras     *)
(* table (optional_extras.py), and what the checkpoint callback writes        *)
(* (callbacks/checkpoint.py, parallel/executor/base.py).                      *)
(*                                                                         *)
(* A chain of single-process runs shares one shelf of checkpoints; each run   *)
(* starts fresh, from a checkpoint's weights, or as a resume.  A value of a   *)
(* weight is where it was born, the runs whose steps it took, and where it    *)
(* was rounded: compute weights are rounded, the optimizer's masters are not. *)
(***************************************************************************)
EXTENDS Integers, Sequences, FiniteSets, TLC

CONSTANTS
    Configs,                     \* the configurations of the runs
    MaxRuns, MaxSteps, MaxSaves  \* bounds: runs, steps of a run, checkpoints

VARIABLES
    shelf,    \* checkpoints written: [file, whole]; `whole` is the run as it was saved
    live,     \* the TrainContext: a sequence of at most one
    asked,    \* the last build: a sequence of at most one [config, source, resume, accepted]
    run       \* runs built so far

lineage == <<shelf, live, asked, run>>

-----------------------------------------------------------------------------
(* Weights.  A network is a function from its parts to values. *)

Born(part, r) == [born |-> <<part, r>>, fed |-> <<>>, lost |-> {}]
Cast(kind, v) == [v EXCEPT !.lost = @ \cup {<<kind, Len(v.fed)>>}]
Compute(net) == [p \in DOMAIN net |-> Cast("compute", net[p])]
Fed(net, r) == [p \in DOMAIN net |-> [net[p] EXCEPT !.fed = Append(@, r)]]

\* LoRALinear freezes the weight it wraps.
Trainable(net) == IF "adapter" \in DOMAIN net THEN {"adapter"} ELSE DOMAIN net
Only(net, parts) == [p \in parts |-> net[p]]

\* load_state_dict casts what it copies to the parameter's dtype.
Load(net, weights) == [p \in DOMAIN net |->
                         IF p \in DOMAIN weights THEN Cast("compute", weights[p]) ELSE net[p]]

-----------------------------------------------------------------------------
(* Configurations. *)

Capabilities(strategy) ==
    [online    |-> strategy \in {"online_dpo", "online_grpo", "online_ppo"},
     reference |-> strategy \notin {"seq", "sft"},
     old       |-> strategy = "grpo",
     critic    |-> strategy = "online_ppo"]

\* TrainConfig: what an online strategy must bring.
Valid(c) ==
    /\ Capabilities(c.strategy).online => c.reward
    /\ Capabilities(c.strategy).critic => c.critic
    /\ Capabilities(c.strategy).online /\ c.lag # <<>> => Head(c.lag) >= c.interval - 1

\* The builder refuses an online run of a compiled model.
Runnable(c) == ~(Capabilities(c.strategy).online /\ c.compiled)

\* Steps of an epoch and of the run, which size the schedule.
EpochSteps(c) ==
    LET whole == c.samples \div c.window
    IN  IF c.flush /\ c.samples % c.window # 0 THEN whole + 1 ELSE whole
Schedule(c) ==
    LET total == EpochSteps(c) * c.epochs
        warmup == IF c.warmup > total THEN total ELSE c.warmup
    IN  [type |-> c.scheduler, options |-> c.options,
         span |-> <<warmup, total - warmup>>, position |-> 0]

Options(c, resume) ==
    [model     |-> c.load.model # "no",
     optimizer |-> c.load.optimizer # "no",
     scheduler |-> c.load.scheduler = "yes" \/ (c.load.scheduler = "unset" /\ resume)]

-----------------------------------------------------------------------------
(* Components as a run builds them. *)

FreshModel(c, r) ==
    LET plain == [p \in {"base"} |-> Cast("compute", Born("base", r))]
    IN  IF c.lora THEN plain @@ ("adapter" :> Cast("compute", Born("adapter", r))) ELSE plain

Rate(schedule) == <<schedule.options, schedule.span, schedule.position>>

\* PrecisionOptimizer around the configured optimizer: masters are copies of what it is given.
FreshOptimizer(c, net) ==
    [type |-> c.optimizer, options |-> c.options, rate |-> Rate(Schedule(c)),
     masters |-> Only(net, Trainable(net)), moments |-> <<>>]

\* PrecisionOptimizer.load_state_dict: state, groups and masters.
Taken(saved) == saved
\* load_optimizer_state_dict keeps the configured groups.
KeepGroups(optimizer, saved) ==
    [saved EXCEPT !.options = optimizer.options, !.rate = optimizer.rate]
\* _optimizer_restore
RestoreOptimizer(optimizer, saved, full) ==
    IF full THEN Taken(saved) ELSE KeepGroups(optimizer, saved)
\* the weights publish what the masters hold
Publish(net, masters) == Compute(masters) @@ net

-----------------------------------------------------------------------------
(* Writing. *)

SnapshotExtras(l) == ("optimizer" :> l.optimizer) @@ ("scheduler" :> l.scheduler)

SnapshotComponents(l) ==
    LET c == l.config
        critic == IF l.critic = <<>> THEN <<>>
                  ELSE ("value_model" :> l.critic) @@ ("value_optimizer" :> l.criticOptimizer)
        reference == IF l.reference = <<>> \/ ~c.saveReference THEN <<>>
                     ELSE "reference_model" :> l.reference
    IN  critic @@ reference

\* The exported weights come from the masters; the training weights ride along.
Exported(l) ==
    LET source == l.optimizer.masters @@ l.model
    IN  [p \in DOMAIN source |-> Cast(l.config.export, source[p])]

Meta(l) ==
    [strategy |-> l.config.strategy, contract |-> l.config.contract,
     precision |-> l.config.precision, export |-> l.config.export, samples |-> l.config.samples,
     optimizer |-> l.config.optimizer, scheduler |-> l.config.scheduler,
     step |-> l.step, version |-> l.version]

File(l) ==
    LET exporting == l.config.export # "none"
        training == IF exporting THEN "training_model" :> l.model ELSE <<>>
    IN  [weights |-> IF exporting THEN Exported(l) ELSE l.model,
         extra |-> SnapshotExtras(l) @@ SnapshotComponents(l) @@ training,
         meta |-> Meta(l), config |-> l.config]

-----------------------------------------------------------------------------
(* Reading. *)

Declared == {"optimizer", "scheduler"}

\* The extras a build reads: the declared ones its options keep, and on resume every other file.
ExtraKeys(c, resume, file) ==
    {k \in Declared : Options(c, resume)[k]}
        \cup (IF resume THEN DOMAIN file.extra \ Declared ELSE {})

ReadExtra(c, resume, file) == Only(file.extra, ExtraKeys(c, resume, file) \cap DOMAIN file.extra)

\* The weights a build starts its model from: a sequence of at most one.
\* A mutant that resumes from the exported weights.
MutantReadWeights(c, resume, file) ==
    IF Options(c, resume).model THEN <<file.weights>> ELSE <<>>
ReadWeights(c, resume, file) ==
    LET extra == ReadExtra(c, resume, file)
    IN  IF ~Options(c, resume).model THEN <<>>
        ELSE IF resume /\ file.meta.export # "none" THEN
            IF "training_model" \in DOMAIN extra THEN <<extra["training_model"]>> ELSE <<>>
        ELSE <<file.weights>>

\* _take_cursor and build: what a resume refuses.
SameContract(c, file) ==
    /\ file.meta.precision = c.precision
    /\ file.meta.contract = c.contract
    /\ file.meta.strategy = c.strategy
    /\ file.meta.samples = c.samples
MissingResumable(c, extra) == {k \in Declared : Options(c, TRUE)[k]} \ DOMAIN extra

\* _check_component_type
SameTypes(c, file, extra) ==
    /\ "optimizer" \in DOMAIN extra => file.meta.optimizer = c.optimizer
    /\ "scheduler" \in DOMAIN extra => file.meta.scheduler = c.scheduler

\* validate_model_state_dict: only new adapters of a warm start may be missing.
Covers(net, weights, resume) ==
    /\ DOMAIN weights \subseteq DOMAIN net
    /\ DOMAIN net \ DOMAIN weights \subseteq (IF resume THEN {} ELSE {"adapter"})

\* create_ref_model, sync_old_model and the critic's warm start load into a model without adapters.
CopiesInto(net) == "adapter" \notin DOMAIN net

\* load_component_extra: the reference must be there unless the configuration lets it go.
ReferenceKept(c, extra) == "reference_model" \in DOMAIN extra \/ c.reanchor

Accepts(c, resume, file) ==
    LET extra == ReadExtra(c, resume, file)
        weights == ReadWeights(c, resume, file)
        net == FreshModel(c, 0)
        needs == Capabilities(c.strategy)
    IN  /\ resume => SameContract(c, file) /\ MissingResumable(c, extra) = {}
        /\ SameTypes(c, file, extra)
        /\ Options(c, resume).model => weights # <<>> /\ Covers(net, Head(weights), resume)
        /\ "optimizer" \in DOMAIN extra => DOMAIN extra["optimizer"].masters = Trainable(net)
        /\ needs.critic /\ resume => {"value_model", "value_optimizer"} \subseteq DOMAIN extra
        /\ needs.reference /\ resume => ReferenceKept(c, extra)

-----------------------------------------------------------------------------
(* Assembly, in the builder's order. *)

\* before_wrap: the fresh model with the weights read into it.
PreparedModel(c, r, weights) ==
    IF weights = <<>> THEN FreshModel(c, r) ELSE Load(FreshModel(c, r), Head(weights))

\* restore_extras: the optimizer, then the schedule, whose position sets the groups' rate.
RestoredOptimizer(c, net, extra, resume) ==
    LET fresh == FreshOptimizer(c, net)
        loaded == IF "optimizer" \notin DOMAIN extra THEN fresh
                  ELSE RestoreOptimizer(fresh, extra["optimizer"],
                                        resume /\ "scheduler" \in DOMAIN extra)
    IN  IF "scheduler" \notin DOMAIN extra THEN loaded
        ELSE [loaded EXCEPT !.rate = Rate(extra["scheduler"])]
RestoredScheduler(c, extra) ==
    IF "scheduler" \in DOMAIN extra THEN extra["scheduler"] ELSE Schedule(c)

\* _create_strategy and _restore_reference_model.
Reference(c, model, extra, resume) ==
    IF ~Capabilities(c.strategy).reference THEN <<>>
    ELSE IF resume /\ "reference_model" \in DOMAIN extra
    THEN Load(model, extra["reference_model"]) ELSE model
OldPolicy(c, model) == IF Capabilities(c.strategy).old THEN model ELSE <<>>

\* _create_critic: backbone from the actor, a fresh head, the extras over both.
Critic(c, model, extra, resume, r) ==
    LET warm == Compute(model @@ ("head" :> Born("head", r)))
    IN  IF resume THEN Load(warm, extra["value_model"]) ELSE warm
CriticOptimizer(c, critic, extra, resume) ==
    IF resume THEN Taken(extra["value_optimizer"]) ELSE FreshOptimizer(c, critic)

\* configure_rollout: the version the policy resumes at.
Version(c, resume, file) ==
    IF ~Capabilities(c.strategy).online THEN 0
    ELSE IF resume THEN file.meta.version ELSE 0

\* TrainContextBuilder.build over what was read; `file` is unused by a run without one.
Assembled(c, r, resume, file, weights, extra) ==
    LET net == PreparedModel(c, r, weights)
        optimizer == RestoredOptimizer(c, net, extra, resume)
        model == IF "optimizer" \in DOMAIN extra THEN Publish(net, optimizer.masters) ELSE net
        critic == IF Capabilities(c.strategy).critic
                  THEN Critic(c, model, extra, resume, r) ELSE <<>>
        criticTuned == IF critic = <<>> THEN <<>> ELSE CriticOptimizer(c, critic, extra, resume)
    IN  [config |-> c, model |-> model, optimizer |-> optimizer,
         scheduler |-> RestoredScheduler(c, extra),
         reference |-> Reference(c, model, extra, resume), old |-> OldPolicy(c, model),
         critic |-> IF critic = <<>> THEN <<>> ELSE Publish(critic, criticTuned.masters),
         criticOptimizer |-> criticTuned,
         step |-> IF resume THEN file.meta.step ELSE 0,
         version |-> Version(c, resume, file), taken |-> 0]

-----------------------------------------------------------------------------
(* Actions. *)

Init == shelf = <<>> /\ live = <<>> /\ asked = <<>> /\ run = 0

Asked(c, source, resume, accepted) ==
    asked' = <<[config |-> c, source |-> source, resume |-> resume, accepted |-> accepted]>>

\* A run without a checkpoint.  Its copies fail if it trains adapters.
Start(c) ==
    /\ live = <<>> /\ run < MaxRuns
    /\ Valid(c)
    /\ LET needs == Capabilities(c.strategy)
           built == Assembled(c, run + 1, FALSE, <<>>, <<>>, <<>>)
           copies == needs.reference \/ needs.old \/ needs.critic
           accepted == Runnable(c) /\ (copies => CopiesInto(built.model))
       IN  /\ Asked(c, 0, FALSE, accepted)
           /\ IF accepted THEN live' = <<built>> /\ run' = run + 1
              ELSE UNCHANGED <<live, run>>
    /\ UNCHANGED shelf

\* A run from a checkpoint, warm (resume = FALSE) or resumed.
Continue(c, source, resume) ==
    /\ live = <<>> /\ run < MaxRuns
    /\ Valid(c)
    /\ LET file == shelf[source].file
           needs == Capabilities(c.strategy)
           copies == needs.reference \/ needs.old \/ needs.critic
           accepted == /\ Runnable(c)
                       /\ Accepts(c, resume, file)
                       /\ copies => CopiesInto(FreshModel(c, 0))
       IN  /\ Asked(c, source, resume, accepted)
           /\ IF accepted
              THEN /\ live' = <<Assembled(c, run + 1, resume, file,
                                          ReadWeights(c, resume, file),
                                          ReadExtra(c, resume, file))>>
                   /\ run' = run + 1
              ELSE UNCHANGED <<live, run>>
    /\ UNCHANGED shelf

\* One optimizer step: masters, the weights they publish, the schedule, the strategy's update.
Stepped(optimizer, r, rate) ==
    [optimizer EXCEPT !.masters = Fed(@, r), !.moments = Append(@, r), !.rate = rate]
Train ==
    /\ live # <<>> /\ live[1].taken < MaxSteps
    /\ LET l == live[1]
           schedule == [l.scheduler EXCEPT !.position = @ + 1]
           optimizer == Stepped(l.optimizer, run, Rate(schedule))
           model == Publish(l.model, optimizer.masters)
           tuned == IF l.critic = <<>> THEN <<>>
                    ELSE Stepped(l.criticOptimizer, run, l.criticOptimizer.rate)
       IN  live' = <<[l EXCEPT !.optimizer = optimizer, !.model = model, !.scheduler = schedule,
                              !.old = OldPolicy(l.config, model),
                              !.critic = IF l.critic = <<>> THEN <<>>
                                         ELSE Publish(l.critic, tuned.masters),
                              !.criticOptimizer = tuned,
                              !.step = @ + 1, !.taken = @ + 1,
                              !.version = IF Capabilities(l.config.strategy).online
                                          THEN @ + 1 ELSE 0]>>
    /\ UNCHANGED <<shelf, asked, run>>

\* _save_checkpoint; what is under this step's name already is left alone.
Save ==
    /\ live # <<>> /\ Len(shelf) < MaxSaves
    /\ \A i \in DOMAIN shelf : shelf[i].whole # live[1]
    /\ shelf' = Append(shelf, [file |-> File(live[1]), whole |-> live[1]])
    /\ UNCHANGED <<live, asked, run>>

\* The run ends, or its process dies: only the shelf is left.
Stop == live # <<>> /\ live' = <<>> /\ UNCHANGED <<shelf, asked, run>>

Next ==
    \/ \E c \in Configs : Start(c)
    \/ \E c \in Configs, source \in DOMAIN shelf, resume \in BOOLEAN : Continue(c, source, resume)
    \/ Train \/ Save \/ Stop

Spec == Init /\ [][Next]_lineage

-----------------------------------------------------------------------------
(* Properties. *)

\* The run's shapes: networks keep their parts, and the masters cover what is trained.
LineageTypeOK ==
    /\ run \in 0..MaxRuns /\ Len(shelf) <= MaxSaves /\ Len(live) <= 1 /\ Len(asked) <= 1
    /\ live # <<>> =>
         /\ DOMAIN live[1].optimizer.masters = Trainable(live[1].model)
         /\ live[1].taken \in 0..MaxSteps /\ live[1].step >= live[1].taken

\* The run just built by an accepted resume.
Resumed == live # <<>> /\ asked # <<>> /\ asked[1].resume /\ live[1].taken = 0

\* A resumed run is the run that was saved, except where its configuration asks otherwise:
\* weights, masters and moments, groups and schedule, critic and its optimizer, the frozen
\* reference (or, where it was given up, the actor itself), the old policy, step and policy
\* version (context/resume.py, builder.py, optional_extras.py).
ResumeIsWhole ==
    Resumed =>
        LET l == live[1]
            c == l.config
            whole == shelf[asked[1].source].whole
            kept == Options(c, TRUE)
        IN  /\ kept.model => l.model = whole.model
            /\ kept.optimizer => /\ l.optimizer.masters = whole.optimizer.masters
                                 /\ l.optimizer.moments = whole.optimizer.moments
            /\ kept.optimizer /\ kept.scheduler => l.optimizer = whole.optimizer
            /\ kept.scheduler => l.scheduler = whole.scheduler
            /\ ~kept.optimizer => l.optimizer.masters = Only(l.model, Trainable(l.model))
            /\ l.critic = whole.critic /\ l.criticOptimizer = whole.criticOptimizer
            /\ l.reference = (IF c.reanchor /\ ~whole.config.saveReference
                              THEN l.model ELSE whole.reference)
            /\ l.old # <<>> => l.old = l.model
            /\ l.step = whole.step /\ l.version = whole.version

\* What a run saved, the same configuration can resume, unless it chose not to save the
\* reference it cannot do without (load_component_extra's hints).
SavedCanResume ==
    asked # <<>> /\ asked[1].resume =>
        LET c == asked[1].config
            file == shelf[asked[1].source].file
        IN  /\ file.config = c
            /\ Capabilities(c.strategy).reference => c.saveReference \/ c.reanchor
            => asked[1].accepted

\* What a document says and the code does not do: docs/guides/training.md:222-223, "`model: false` skips reading model weights and
\* initializes a new model from its configuration."
FreshModelIsFresh ==
    live # <<>> /\ live[1].taken = 0 /\ ~Options(live[1].config, asked[1].resume).model =>
        \A p \in DOMAIN live[1].model : live[1].model[p].born[2] = run
=============================================================================
