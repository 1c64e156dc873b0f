----------------------------- MODULE TrainCursor -----------------------------
(***************************************************************************)
(* One training run and its restarts: the epoch loop of trainer.py, the    *)
(* commit of an optimizer update, the session's shutdown plan, the         *)
(* checkpoint callback and what --resume restores (context/resume.py).     *)
(*                                                                         *)
(* A synchronous run (Mode = "window") trains global windows of a fixed    *)
(* permutation, UpdatesPerWindow updates each; an async_round run          *)
(* (Mode = "round") trains one update per round of prompts that a rollout  *)
(* generator yields.  Ranks move in step, and a checkpoint appears in the  *)
(* directory by one step, its final rename.                                *)
(*                                                                         *)
(* The ghost variable weights lists the updates the model has seen.  What  *)
(* is promised is that a run that was stopped, failed or killed, resumed   *)
(* from any checkpoint, trains exactly the updates that are left.          *)
(***************************************************************************)
EXTENDS Integers, Sequences, FiniteSets, SequencesExt

CONSTANTS Configs,          \* the TrainConfigs explored
          NEpochs,          \* n_epoch
          MaxFaults,        \* bound: exceptions and kills explored
          MaxStops,         \* bound: stop signals explored
          None              \* no checkpoint under this name

\* What a configuration says; whether its operator resumes from any checkpoint
\* or from the latest; where else than during an update a run under it may be
\* hit: "fetch" (a signal), "epoch_end" (an exception).
ConfigAssumption ==
    \A c \in Configs :
        /\ c.mode \in {"window", "round"} /\ c.tail \in {"flush", "drop"}
        /\ c.mode = "round" => c.tail = "flush" /\ c.updates = 1
        /\ {c.len, c.batch, c.updates, c.interval} \subseteq Nat \ {0}
        /\ c.resume \in {"any", "latest"}
        /\ c.hit \subseteq {"fetch", "epoch_end"}
ASSUME RunAssumption ==
    /\ ConfigAssumption
    /\ NEpochs \in Nat \ {0} /\ {MaxFaults, MaxStops} \subseteq Nat
ASSUME NoneAssumption ==
    None \notin [epoch : Nat, offset : Nat, consumed : Nat, steps : Nat, metrics : Seq(Nat),
                 weights : Seq([epoch : Nat, start : Nat, u : Nat])]

VARIABLES
    config,   \* the TrainConfig of the run and its restarts
    pc,       \* where the run is; "dead" when no process runs
    loop,     \* epoch the loop is in
    update,   \* update of the window, from 1
    epoch, offset, consumed, steps, \* the context's cursor
    safe,     \* checkpoint_safe
    stop,     \* stop_requested
    agreed,   \* stop_agreed
    log,      \* metric history on disk: steps it covers
    records,  \* committed records not on disk yet: their steps
    lastStep, lastCursor, saved, \* of the checkpoint callback
    weights,  \* ghost: updates the model has seen, in order
    ended,    \* ghost: how the last process ended
    dir,      \* published checkpoints by name
    faults, stops

cursor == <<epoch, offset, consumed, steps>>
history == <<log, records>>
callback == <<lastStep, lastCursor, saved>>
counters == <<faults, stops>>
vars == <<config, pc, loop, update, cursor, safe, stop, agreed, history, callback, weights,
          ended, dir, counters>>

Mode == config.mode               \* rollout_mode: "window" (sync) or "round"
DatasetLen == config.len          \* samples of an epoch
GlobalBatch == config.batch       \* samples of a full window or round
TailPolicy == config.tail         \* epoch_tail_policy
UpdatesPerWindow == config.updates  \* learner_update_slices of a window
CkptInterval == config.interval   \* ckpt_interval, in optimizer steps
Interruptions == config.hit

-----------------------------------------------------------------------------
(* The global order of updates. *)

\* GlobalBatchSampler.windows of a configuration from an offset on, as [start, count] records.
Windows(c, from) ==
    LET full == (c.len - from) \div c.batch
        tail == (c.len - from) % c.batch
        n == IF tail > 0 /\ c.tail = "flush" THEN full + 1 ELSE full
    IN  [i \in 1..n |-> [start |-> from + (i - 1) * c.batch,
                         count |-> IF i > full THEN tail ELSE c.batch]]

\* The updates of one window, the last of which advances the cursor.
WindowUpdates(c, e, w) == [u \in 1..c.updates |-> [epoch |-> e, start |-> w.start, u |-> u]]
EpochUpdates(c, e, from) ==
    FlattenSeq([i \in DOMAIN Windows(c, from) |-> WindowUpdates(c, e, Windows(c, from)[i])])

\* What a run trains that starts at an epoch and an offset in it.
UpdatesFrom(c, e, from) ==
    IF e >= NEpochs THEN <<>>
    ELSE EpochUpdates(c, e, from)
         \o FlattenSeq([i \in 1..(NEpochs - 1 - e) |-> EpochUpdates(c, e + i, 0)])

Schedule == UpdatesFrom(config, 0, 0)
Torn == [epoch |-> NEpochs, start |-> 0, u |-> 0]

-----------------------------------------------------------------------------
(* Checkpoints. *)

Names == [epoch : 0..NEpochs, step : 0..Len(Schedule)]
Published == {n \in Names : dir[n] # None}

Content == [epoch |-> epoch, offset |-> offset, consumed |-> consumed,
            steps |-> steps, metrics |-> log \o records, weights |-> weights]

\* _save_checkpoint: nothing while an update is half done; publication is
\* write-once per name and confirms the metric records it carries.  It raises
\* when the name is taken and records would be lost (SaveRaises), and when the
\* directory cannot be synced after the rename (PublishRaises).
Saveable == safe
Name == [epoch |-> epoch, step |-> steps]
SaveRaises == Saveable /\ dir[Name] # None /\ records # <<>>
PublishRaises ==
    /\ Saveable /\ dir[Name] = None
    /\ dir' = [dir EXCEPT ![Name] = Content]

Save ==
    IF ~Saveable THEN UNCHANGED <<dir, history, callback>>
    ELSE /\ ~SaveRaises
         /\ lastStep' = steps /\ lastCursor' = consumed /\ saved' = TRUE
         /\ IF dir[Name] # None
            THEN UNCHANGED <<dir, history>>
            ELSE /\ dir' = [dir EXCEPT ![Name] = Content]
                 /\ log' = log \o records
                 /\ records' = <<>>

\* _take_cursor accepts a cursor at a window boundary or the epoch's end.
Resumable(c) ==
    /\ c.offset = DatasetLen \/ (c.offset < DatasetLen /\ c.offset % GlobalBatch = 0)
    /\ c.consumed >= c.offset

Selectable ==
    {n \in Published : config.resume = "any" \/ \A m \in Published :
        \/ dir[m].consumed < dir[n].consumed
        \/ /\ dir[m].consumed = dir[n].consumed
           /\ m.step < n.step \/ (m.step = n.step /\ m.epoch <= n.epoch)}

-----------------------------------------------------------------------------
Init ==
    /\ config \in Configs
    /\ pc = "dead" /\ ended = "never"
    /\ loop = 0 /\ update = 1
    /\ epoch = 0 /\ offset = 0 /\ consumed = 0 /\ steps = 0
    /\ safe = TRUE /\ stop = FALSE /\ agreed = FALSE
    /\ log = <<>> /\ records = <<>>
    /\ lastStep = 0 /\ lastCursor = 0 /\ saved = FALSE
    /\ weights = <<>>
    /\ dir = [n \in Names |-> None]
    /\ faults = 0 /\ stops = 0

\* Building the context; an async run at the end of an epoch starts the next.
Built(c) == IF Mode = "round" /\ c.offset = DatasetLen
            THEN [epoch |-> c.epoch + 1, offset |-> 0]
            ELSE [epoch |-> c.epoch, offset |-> c.offset]

Begin(c) ==
    /\ pc' = "loop" /\ update' = 1
    /\ epoch' = Built(c).epoch /\ offset' = Built(c).offset
    /\ loop' = epoch'
    /\ consumed' = c.consumed /\ steps' = c.steps
    /\ safe' = TRUE /\ stop' = FALSE /\ agreed' = FALSE
    /\ log' = c.metrics /\ records' = <<>>
    /\ lastStep' = c.steps /\ lastCursor' = c.consumed /\ saved' = FALSE
    /\ weights' = c.weights
    /\ ended' = "running"
    /\ UNCHANGED <<dir, counters>>

\* A run that left no checkpoint is started again.
StartFresh ==
    /\ pc = "dead" /\ Published = {} /\ ended # "complete"
    /\ Begin([epoch |-> 0, offset |-> 0, consumed |-> 0, steps |-> 0,
              metrics |-> <<>>, weights |-> <<>>])

Resume ==
    /\ pc = "dead" /\ ended # "complete"
    /\ \E n \in Selectable : Resumable(dir[n]) /\ Begin(dir[n])

\* A signal handler only sets a flag.  The pass runs keep signals out of the
\* places Interruptions does not name.
Signal ==
    /\ pc # "dead"
    /\ pc = "fetch" => "fetch" \in Interruptions
    /\ ~stop /\ stops < MaxStops
    /\ stop' = TRUE /\ stops' = stops + 1
    /\ UNCHANGED <<pc, loop, update, cursor, safe, agreed, history, callback, weights,
                   ended, dir, faults>>

\* SIGKILL, or the machine: only the directory survives.
Killed ==
    /\ pc # "dead" /\ faults < MaxFaults
    /\ pc' = "dead" /\ ended' = "killed" /\ faults' = faults + 1
    /\ UNCHANGED <<loop, update, cursor, safe, stop, agreed, history, callback,
                   weights, dir, stops>>

\* An exception leaves the loop: the session shuts down.
Fault == faults < MaxFaults /\ faults' = faults + 1 /\ UNCHANGED stops
Raises ==
    /\ Fault
    /\ pc' = "shutdown" /\ ended' = "failed"
    /\ UNCHANGED <<loop, update, stop, agreed, callback, dir>>

-----------------------------------------------------------------------------
(* The epoch loop. *)

\* A stop is agreed between epochs and, in windows, after each of them; an
\* async run just reads its flag.
Agreed == IF Mode = "window" THEN stop ELSE agreed
ShouldStop == IF Mode = "window" THEN agreed ELSE stop

NextEpoch ==
    /\ pc = "loop"
    /\ agreed' = IF loop >= NEpochs THEN agreed ELSE Agreed
    /\ IF loop >= NEpochs \/ stop
       THEN /\ pc' = "shutdown" /\ ended' = (IF stop THEN "stopped" ELSE "complete")
            /\ UNCHANGED <<epoch, offset>>
       ELSE /\ pc' = "epochBegin" /\ UNCHANGED ended
            /\ offset' = IF Mode = "window" /\ epoch < loop /\ offset = DatasetLen
                         THEN 0 ELSE offset
            /\ epoch' = loop
    /\ UNCHANGED <<loop, update, consumed, steps, safe, stop, history, callback, weights, dir,
                   counters>>

EpochBegins ==
    /\ pc = "epochBegin"
    /\ agreed' = Agreed
    /\ pc' = "next"
    /\ UNCHANGED <<loop, update, cursor, safe, stop, history, callback, weights, ended,
                   dir, counters>>

\* The next window, or the next round the generator is asked for.
NextWindow ==
    /\ pc = "next"
    /\ IF ShouldStop \/ (Mode = "window" /\ Windows(config, offset) = <<>>)
       THEN pc' = "epochEnd" /\ UNCHANGED safe
       ELSE /\ pc' = (IF Mode = "window" THEN "update" ELSE "fetch")
            /\ safe' = IF Mode = "window" THEN FALSE ELSE safe
    /\ update' = 1
    /\ UNCHANGED <<loop, cursor, stop, agreed, history, callback, weights,
                   ended, dir, counters>>

\* iter_rounds ends when its batches do, or when it sees a stop request; the
\* trainer takes either for the end of the epoch.
Exhausted == Windows(config, offset) = <<>> \/ stop
Fetch ==
    /\ pc = "fetch"
    /\ IF Exhausted
       THEN pc' = "roundsEnd" /\ UNCHANGED safe
       ELSE pc' = "update" /\ safe' = FALSE
    /\ UNCHANGED <<loop, update, cursor, stop, agreed, history, callback, weights,
                   ended, dir, counters>>

\* An observer, the loader, the rollout, forward or backward raises.
FetchRaises ==
    /\ pc \in {"epochBegin", "next", "fetch", "update"}
    /\ Raises
    /\ UNCHANGED <<cursor, safe, history, weights>>

-----------------------------------------------------------------------------
(* One optimizer update. *)

Window == Head(Windows(config, offset))
Final == update = UpdatesPerWindow
Update == [epoch |-> loop, start |-> Window.start, u |-> update]

\* _commit_global_update, _commit_online_update: the counters advance with the
\* weights, the data cursor only with the last update of the window.
Advance ==
    /\ steps' = steps + 1
    /\ consumed' = IF Final THEN consumed + Window.count ELSE consumed
    /\ offset' = IF Final THEN Window.start + Window.count ELSE offset

\* Metric records become history only when their update was committed.
CommitMetrics == records' = Append(records, steps')

Commit ==
    /\ pc = "update"
    /\ weights' = Append(weights, Update)
    /\ Advance
    /\ CommitMetrics
    /\ safe' = Final
    /\ pc' = "committed"
    /\ UNCHANGED <<loop, update, epoch, stop, agreed, log, callback, ended, dir,
                   counters>>

\* The update raises, before or after it touched the weights: the counters are
\* taken back and nothing may be saved.
CommitRaises ==
    /\ pc = "update"
    /\ Raises
    /\ weights' \in {weights, Append(weights, Torn)}
    /\ safe' = FALSE
    /\ UNCHANGED <<cursor, history>>

\* An async update that was published counts, even when later work raises.
PublishedThenRaises ==
    /\ pc = "update" /\ Mode = "round"
    /\ Raises
    /\ weights' = Append(weights, Update)
    /\ Advance
    /\ \/ CommitMetrics /\ safe' = TRUE
       \/ UNCHANGED records /\ safe' = FALSE
    /\ UNCHANGED <<epoch, log>>

\* after_optimizer_step: the interval checkpoint, then other observers.
Interval == steps - lastStep >= CkptInterval
AfterStep ==
    /\ pc = "committed"
    /\ IF Interval THEN Save ELSE UNCHANGED <<dir, history, callback>>
    /\ agreed' = IF Final THEN Agreed ELSE agreed
    /\ pc' = IF Final THEN "next" ELSE "update"
    /\ update' = IF Final THEN 1 ELSE update + 1
    /\ UNCHANGED <<loop, cursor, safe, stop, weights, ended, counters>>

AfterStepRaises ==
    /\ pc = "committed"
    /\ pc' = "shutdown" /\ ended' = "failed"
    /\ \/ Fault /\ UNCHANGED dir
       \/ Interval /\ SaveRaises /\ UNCHANGED <<dir, counters>>
       \/ Interval /\ PublishRaises /\ Fault
    /\ UNCHANGED <<loop, update, cursor, safe, stop, agreed, history, callback, weights>>

-----------------------------------------------------------------------------
(* The end of an epoch. *)

\* A window epoch that was not stopped throws its incomplete tail away before
\* the observers run, and moves to the next epoch after them.
MutantDropped == 0
Dropped == IF agreed \/ TailPolicy = "flush" THEN 0 ELSE DatasetLen - offset
EpochEnds ==
    /\ pc = "epochEnd" /\ Mode = "window"
    /\ consumed' = consumed + Dropped
    /\ offset' = IF Dropped > 0 THEN 0 ELSE offset
    /\ \/ /\ epoch' = IF Dropped > 0 THEN loop + 1 ELSE epoch
          /\ loop' = loop + 1
          /\ pc' = "loop"
          /\ UNCHANGED <<update, stop, agreed, callback, dir, ended, counters>>
       \/ "epoch_end" \in Interruptions /\ Raises /\ UNCHANGED epoch
    /\ UNCHANGED <<steps, safe, history, weights>>

\* A stopped async epoch stays where it is; an exhausted one is over.
RoundsStopped ==
    /\ pc = "epochEnd" /\ Mode = "round"
    /\ \/ /\ loop' = loop + 1 /\ pc' = "loop"
          /\ UNCHANGED <<update, stop, agreed, callback, dir, ended, counters>>
       \/ "epoch_end" \in Interruptions /\ Raises
    /\ UNCHANGED <<cursor, safe, history, weights>>

RoundsEnd ==
    /\ pc = "roundsEnd"
    /\ \/ /\ offset' = 0 /\ epoch' = loop + 1
          /\ loop' = loop + 1 /\ pc' = "loop"
          /\ UNCHANGED <<update, stop, agreed, callback, dir, ended, counters>>
       \/ "epoch_end" \in Interruptions /\ Raises /\ UNCHANGED <<offset, epoch>>
    /\ UNCHANGED <<consumed, steps, safe, history, weights>>

-----------------------------------------------------------------------------
(* The shutdown plan: on_shutdown, then on_train_end.  A step that raises   *)
(* does not skip the next, and the process exits with its error.            *)

Changed == steps # lastStep \/ consumed # lastCursor

\* _save_pending skips what is on disk already.
Unsaved == ~saved \/ Changed

SaveOrFail ==
    \/ Save /\ UNCHANGED <<ended, counters>>
    \/ /\ \/ SaveRaises /\ UNCHANGED <<dir, counters>>
          \/ Fault /\ UNCHANGED dir
          \/ Fault /\ PublishRaises
       /\ ended' = "failed"
       /\ UNCHANGED <<history, callback>>
SkipSave == UNCHANGED <<dir, history, callback, ended, counters>>

OnShutdown ==
    /\ pc = "shutdown" /\ pc' = "finish"
    /\ IF Unsaved THEN SaveOrFail ELSE SkipSave
    /\ UNCHANGED <<loop, update, cursor, safe, stop, agreed, weights>>

OnTrainEnd ==
    /\ pc = "finish" /\ pc' = "dead"
    /\ IF Changed THEN SaveOrFail ELSE SkipSave
    /\ UNCHANGED <<loop, update, cursor, safe, stop, agreed, weights>>

-----------------------------------------------------------------------------
RunStep ==
    \/ NextEpoch \/ EpochBegins \/ NextWindow \/ Fetch \/ Commit \/ AfterStep
    \/ EpochEnds \/ RoundsStopped \/ RoundsEnd \/ OnShutdown \/ OnTrainEnd
FaultStep ==
    \/ Killed \/ FetchRaises \/ CommitRaises \/ PublishedThenRaises \/ AfterStepRaises
Restart == StartFresh \/ Resume

Next == (RunStep \/ FaultStep \/ Restart \/ Signal) /\ UNCHANGED config

Spec == Init /\ [][Next]_vars

\* A process runs; whoever operates it restarts it until it is complete.
FairSpec ==
    /\ Spec
    /\ WF_vars((RunStep \/ AfterStepRaises) /\ UNCHANGED config)
    /\ WF_vars(Restart /\ UNCHANGED config)

-----------------------------------------------------------------------------
(* Properties. *)

\* Every variable of a run has its type.
TypeOK ==
    /\ pc \in {"dead", "loop", "epochBegin", "next", "fetch", "update", "committed", "epochEnd",
               "roundsEnd", "shutdown", "finish"}
    /\ ended \in {"never", "running", "killed", "failed", "stopped", "complete"}
    /\ loop \in 0..NEpochs /\ epoch \in 0..NEpochs
    /\ update \in 1..UpdatesPerWindow
    /\ offset \in 0..DatasetLen /\ consumed \in Nat /\ steps \in Nat
    /\ {safe, stop, agreed, saved} \subseteq BOOLEAN
    /\ log \in Seq(Nat) /\ records \in Seq(Nat)
    /\ lastStep \in Nat /\ lastCursor \in Nat
    /\ faults \in 0..MaxFaults /\ stops \in 0..MaxStops

\* A checkpoint is one coherent state: the updates its weights have seen and
\* those a run resumed from its cursor trains are together the whole schedule,
\* none twice and none missing.
CheckpointCoherent ==
    \A n \in Published :
        /\ dir[n].weights \o UpdatesFrom(config, dir[n].epoch, dir[n].offset) = Schedule
        /\ dir[n].steps = Len(dir[n].weights)

\* Its metric log has one record of every step up to its own, across failed
\* updates, failed saves and abandoned branches.
MetricsCoherent ==
    \A n \in Published : dir[n].metrics = [i \in 1..dir[n].steps |-> i]

\* "--resume starts after that cursor": the samples counted as consumed are
\* those before the position the run resumes at.
ResumeAfterCursor ==
    \A n \in Published :
        dir[n].consumed = dir[n].epoch * DatasetLen + dir[n].offset

\* A run that ended by itself or by a stop request, without an error, has left
\* a checkpoint of the very weights it had.
StopLeavesCheckpoint ==
    pc = "dead" /\ ended \in {"stopped", "complete"} =>
        \E n \in Published : dir[n].weights = weights /\ dir[n].consumed = consumed

\* Whatever stopped the run before, what it publishes can be resumed from, and a clean end
\* leaves something to resume from.
CursorIsWhole ==
    /\ TypeOK /\ CheckpointCoherent /\ MetricsCoherent
    /\ ResumeAfterCursor /\ StopLeavesCheckpoint

\* The whole schedule is in a checkpoint: what a run restarted from its latest
\* checkpoint after every stop, failure and kill comes to.
Trained == \E n \in Published : dir[n].weights = Schedule
=============================================================================
