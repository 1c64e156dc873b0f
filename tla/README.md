# AstrAI in TLA+

Specifications of the parts of AstrAI whose correctness depends on order, concurrency,
failure, or on several pieces of code computing the same thing in different ways: the
inference engine from its paged KV cache to what a caller is handed, the training run from
its data to its checkpoints, and the FP8 and GEMM state below both. Every definition is a
translation of the code named beside it in `PROJECT.json` (`map`; paths are those of the
repository under `src/`). TLC checks the modules on small instances; for the KV cache, the
engine, the intake of requests, the agreement on a stop, the launch of processes and the
checkpoint directories, TLAPS proves the invariants for every instance.

## 1. The system

AstrAI trains, fine-tunes and serves transformer models. Every component is listed, with
what is modelled of it and what is not, in `PROJECT.json` (`components`).

### Inference

| component | state | operations | talks to |
|---|---|---|---|
| KV cache (`inference/core/cache`) | free mask, LRU, reference counts, radix index, page lists of the request slots | alloc, extend, record, free, evict, invalidate | called by the scheduler under the engine lock |
| Scheduler (`scheduler.py`, `planner.py`) | waiting deque, running list, registry, each request's watermarks and planned windows | enqueue, admit, schedule, update_from_output, rollback, cancel, finish, release_finished, abort_all | KV cache; emits events |
| Engine core (`engine_core.py`) | `_pending` handles, `_closing`, `_shutdown_failed`, stop event, loop thread | tick, drain, start, stop, execute_requests, score_ids, weight update | scheduler, model runner, policy guard |
| Model runner (`worker/`) | decode relay, result ring, graphs, workspaces | submit prefill/decode, commit, synchronize | device |
| Policy guard (`versioning.py`) | policy version | update_weights, apply_weight_update, snapshots | engine core, trainer |
| Tracking and front end (`frontend/`) | one event buffer or subscriber per request; the text held back per response | register, subscribe, deliver, drain, stop sequences | HTTP handlers (asyncio) and blocking callers |
| HTTP protocols (`network/`) | per response: what was streamed, the open tool call | stream, complete, disconnect | front end |

Hard here: a decode step is launched before its predecessor is resolved; requests are
cancelled with executions in flight; the pool runs out in mid-decode; launches, commits
and device fences raise; the loop thread, clients and `stop()` share one lock that
`stop()` must not hold while it joins. Correct means: no page is lost, shared wrongly
or read under another prefix or other weights; nothing is released while a kernel may
write it; every accepted request gets exactly one terminal event; shutdown ends.

### Training

| component | state | operations | talks to |
|---|---|---|---|
| Trainer (`trainer.py`, `session.py`) | cursor (epoch, offset, consumed, step), `checkpoint_safe`, stop flags | epoch loop, commit, stop agreement, shutdown plan | callbacks, executor, rollout |
| Checkpoint callback, metric history | last saved step and cursor, unsaved records | interval save, shutdown save, final save | checkpoint files |
| Checkpoint files (`serialization/checkpoint.py`) | published and staging directories | save, verify, load | resume |
| Resume (`context/resume.py`, `builder.py`) | none | adopt the cursor, refuse a changed layout | |
| Rollout (`trainer/rollout`, `backend.py`) | async: worker versions, active round; sync: replay cache | rounds, weight fan-out, close; replay | inference engine, worker processes |
| Executors (`parallel/executor`) | gradient buckets and their launches | accumulate, all-reduce, scale, clip, checkpoint barriers | process group |
| Parallel layouts (`parallel/tp.py`, `cp.py`, `topology.py`) | shards of weights and sequences | column and row layers, sharded loss | executor |
| Strategies (`trainer/strategy`) | one window of rollouts, fixed targets | masks, advantages, minibatches, replay | rollout, trainer |
| Optimizers (`optimization/optimizer`) | masters, moments, owners, host copies, CUDA streams | step, publish, gather, restore, offload | executor, checkpoint |
| Data (`preprocessing`, `serialization/dataset.py`, `dataset`) | shards and their index; bins being packed | mask, split, pack, write, window, deal | trainer |
| Context (`context/`) | none; a shelf of checkpoints | build, warm start, resume, refuse | every component above |
| Launcher and signals (`parallel/setup.py`, `signal_handler.py`) | rank processes, stop flags | spawn, forward, reap | operating system |

Hard here: signals between any two statements, exceptions after a partial update, kills
at any time, and a restart that trusts what the last run wrote. Correct means: a
checkpoint is one coherent state, a resume trains exactly what is left, and all ranks
leave together.

### Shared: kernels and their policy

| component | state | operations | talks to |
|---|---|---|---|
| Operation policy (`extension/policy/selection.py`, `extension/backend`) | process-wide choices, scopes, an engine's snapshot, the selection cache | set, scope, override, select | models, engine |
| GEMM plans (`policy/gemm`, `csrc/gemm/plan`, `csrc/bench/tune_plan_table.py`) | plan rows, the cache file, injected rows | sweep, merge, gate, install, look up, tune | kernels |
| FP8 (`policy/quantization`, `csrc/gemm/fp8`) | slots, amax rings, cast caches, snapshot | assign, forward, fold, rebind, save, restore | linears, checkpoints |
| Layers (`model/components`) | recurrent state, convolution window | chunked and single-step rule, expert dispatch | engine, trainer |
| Evaluation (`astrai/bench.py`, `scripts/eval`) | batches of texts being scored | pad, pack, mask, score | model |

Hard here: caches keyed by less than what they depend on, state that follows an object and
not its address, and fast paths that must compute what the slow one does.

## 2. The modules

| module | models | abstracts |
|---|---|---|
| `KVCache` | `Allocator`, `RadixCache`, `PagedStrategy`, `KVCacheManager` and the scheduler calls that drive them | which free page and which victim; batching of writes |
| `KVCacheProofs` | the proofs about `KVCache` | |
| `EngineCore` | `EngineCore`, `Scheduler`, `StepPlanner`, the handles of the model runner | pages: one slot per token, no prefix cache; tokens: stop token or not |
| `Collections`, `CollectionFacts` | the queue, registry and sum operators `EngineCore` is written with, and what the proofs need to know of them | |
| `EngineInvariant` | the inductive invariant of `EngineCore` | |
| `EngineTheorems` | the proofs: the layers every theorem needs, then one layer and theorem after the other | |
| `RequestIntake` | `add_requests`, `resolve_generation_parameters`, the front end's registration and release, `run_batch`, the server's schema | prompts: their length; the engine: it gives tokens, ends, reaps |
| `RequestIntakeProofs` | the proofs about `RequestIntake` | |
| `RequestStream` | what `core/events.py` promises a consumer; `EngineCore` implements it, `RequestDelivery` starts from it | the engine |
| `SyncBatch` | `execute_requests`, `score_ids`, their nested error handlers | as `EngineCore`; one call at a time, no loop thread |
| `DeviceWork` | prepared batches of the model runner, slot rows, pinned staging, result ring, sampling buffers, scoring, against a device stream that lags the host | tensors: which prefix a row was computed from |
| `RequestDelivery` | `RequestTracker`, the blocking, generator and asynchronous consumers, the response loops | text; the engine (`RequestStream`) |
| `TextStream` | stop-sequence checker, output processor, tool-call parser, streamed deltas | characters: a handful of symbols |
| `TrainCursor` | `trainer.py`, `session.py`, the checkpoint callback, the cursor part of resume | tensors: the ghost list of updates the weights have seen; one rank |
| `TrainCursorProofs` | the proofs about `TrainCursor` | |
| `StopAgreement` | several ranks of `trainer.py`, the stop agreement, the barriers of `checkpoint_context`, signal forwarding, the launcher's join and reaping | one update per window, no tail, no resume; a collective, which is external |
| `StopAgreementProofs` | the proofs about `StopAgreement`, and about both parts together | |
| `ProcessLaunch` | `setup.py`, `signal_handler.py`: how ranks are started, told to stop, joined and reaped | the training in between: one step; the operating system, which is external |
| `ProcessLaunchProofs` | the proofs about `ProcessLaunch` | |
| `AsyncRound` | coordinator, round generator, rollout workers, pipes, weight broadcasts, close | tokens and rewards; one learner; the NCCL group and the pipe, which are external |
| `RolloutReplay` | replay cache of `RolloutRunner`, generators and backends, policy lock, weight publication | weights: a version per parameter |
| `PolicyUpdate` | batches of GRPO, PPO and DPO, advantages, replay of a window in minibatches | the loss: the bag of terms it sums |
| `DataPath` | preprocessing pipeline, packing, shards, stores, datasets, samplers | tokens: named by record and position |
| `GradientWindow` | hooks, buckets, asynchronous all-reduce, accumulation, scaling | a gradient: how often each microbatch counts |
| `ShardedStep` | layers over tensor, context and data parallelism, global loss, clipping, checkpoint of shards | the smallest network with every kind of parameter, in integers |
| `ShardedOptimizer` | `PrecisionOptimizer` with sharded state, its checkpoint in another world | a value: the number of updates it has seen |
| `MatrixUpdate` | composite optimizers, Muon's local, batched and sharded modes, Newton-Schulz scratch use | numbers: terms |
| `StateOffload` | `CPUStateOffload` and its three CUDA streams | a value: the number of updates it has seen |
| `CheckpointStore` | `Checkpoint.save` and `load`: staging, manifest, rename, syncs, clean-up | file contents: one object per directory |
| `CheckpointStoreProofs` | the proofs about `CheckpointStore` | |
| `RunLineage` | configuration checks, the builder's order, the extras table, what a checkpoint carries | a weight: where it was born, rounded, and which runs stepped it |
| `KernelChoice` | operation choices, scopes, snapshots, plan revisions, the selection cache | kernels: what they can serve |
| `PlanTable` | the tuner's sweep, merge, gate and installation, loading, lookup, the serving tuner's trigger | timings: given throughputs |
| `Fp8State` | slot table, metas and rings, weight and activation casts, snapshot | a tensor: its amax |
| `DeltaLayer` | the chunked, prefill and one-step forms of the gated delta rule, the convolution window | arithmetic: a prime field; one head |
| `ExpertDispatch` | grouped dispatch to experts and the return of their outputs | an expert's output: a term |
| `SequenceScoring` | masked scoring of ragged and packed rows, the evaluations on top | the model: what a position attends to |
| `MC*` | instances for TLC | |

**Composed instances.** `MCServing`, `MCLearner`, `MCTraining`, `MCStopAgreement` and
`MCFrontEnd` put several components under one specification. Their parts share no variables in
the code either: each behaviour is of one part (`part`, chosen in `Init` from the constant
`Parts`), and the variables of the others keep the value `None`, which stands for nothing. A
module whose properties a run lists by their own names, because a theorem is about them, is
extended rather than instantiated (`TrainCursor`, `StopAgreement`, `RequestIntake`,
`CheckpointStore`); its variables stay in one of its initial states while another part runs. A
property defined in an `MC` module is the conjunction of its parts' invariants, each under
`part = ...`. Where components do interact, the interaction is in one module:
`EngineCore` holds scheduler, planner, handles, loop and KV accounting, `RequestDelivery`
starts from what `RequestStream` promises (which `EngineCore` is checked to implement),
`StopAgreement` runs trainer, executor and launcher together, `TrainCursor` trainer,
checkpoint callback and resume, `DataPath` the whole way from a record to a sample.

**KVCache.** `free`, `cached`, `refs` are the allocator's mask, LRU and counts; `node`
is the radix index by token path (the trie is the prefix order on paths); `held`,
`length`, `done` are a request's pages, reserved and materialized positions. The ghost
`kv` says which weights and which prefix every physical slot was computed from, which
is what a prefix hit silently relies on. `Admit` is `alloc_slots` with its pinning,
eviction and lookup in one step because the engine lock is held; a publication
(`record_block_hashes`) is stepped page by page since each `record` may revoke other
pages. The driver actions (`Prefill`, `ExtendBatch`, `Decode`, `Finish`, `Abort`,
`ReleaseFinished`) are the scheduler's, with its guards: at most one step in flight, an
overlapped step runs on after its request ended.

**EngineCore.** The loop thread holds the lock for one tick and walks through `pc`
(`release`, `admit`, `decide`, `schedule`, `rollback`, `submit`, `drain`); client calls
need `LockFree`, the first half of `stop()` does not. A launch may raise after any of
its groups, a commit may raise, a fence may fail; then `shutdown` walks through
`_drain_shutdown`. `order[r]` is `_pending_order` (ends of the planned windows),
`relay` the device-side decode cache, `touching` (ghost) counts executions that may
still write the request's KV, `arrived` (ghost) the arrival order. `Penalized` requests
exclude overlap. The events of a request are a sequence that `RequestStream` constrains.

**SyncBatch.** The same scheduler state under one `exclusive()` call. `pc` walks through
the call and its handlers: the inner fence of `execute_synchronously`, the `finally`
that drains again, the outer fence of `exclusive`, and the shutdown that quarantines KV
when a fence fails.

**TrainCursor.** `pc` walks through the loop, a window's updates, `after_optimizer_step`,
the epoch's end and the shutdown plan. The variable `config`, chosen by `Init` and
never changed, is the user's configuration: `Mode` (synchronous windows or `async_round`
rounds), tail policy, updates per window, save interval, and which checkpoint a restart
resumes from. `dir` is the checkpoint directory; a checkpoint carries the
cursor, the metric log and (ghost) the updates its weights have seen. `Killed` may
happen anywhere; `Resume` adopts the latest checkpoint or, with `resume = "any"`,
any of them.

**AsyncRound.** `lpc` walks the learner's thread through start-up, `submit_round`
(`sync`, `cast`, `acks`, `dispatch`), `collect_round`, the update and `close`; `sub` says
which submission is under way (the first of an epoch, the one ahead, the retry of a stale
round). `wpc[w]` is the program counter of a worker process, `inbox` and `outbox` the two
directions of its pipe. The ghosts `held` and `weights` count the optimizer steps the
tensors of a worker and of the learner have seen: a version number is only as good as the
tensors it labels. With `ResultFits` FALSE a worker stays in `send` until the learner
reads. `TrainConfig` fixes the lag at 1, where no round is ever stale; the coordinator
takes any lag, and its retry is explored with 0.

**StopAgreement.** `pc[r]` walks rank `r` through the loop, its collectives (`loopAgree`,
`epochAgree` and `stepAgree` reduce the stop flag, `grad` the gradients, `enter` and `leave`
are the barriers of a save, `final` the one before the process group is destroyed), and the
shutdown plan. `Complete` lets a collective return when every rank waits in one of its kind;
barriers of different saves are of one kind, as they are in the code. `CollectiveFails` and
`TimesOut` are the process group's timeout, with a peer that can no longer come and with one
that is only late. `sig`, `notified` and `forward` are pending signals and the single notice
a rank sends its launcher; `launcher` is the launcher's join, its clean-up after a failed
rank, and its return.

**ProcessLaunch.** `pc[r]` walks rank `r` from the interpreter through `prctl`, its early
handlers, the rendezvous, the registration of the training context and back; `lpc` walks the
launcher. `handled` says which handlers a process has, `early` and `active` are the module's
`_early_stop` and `_active_context`, `stop` the flag of the context, `tied` the death signal;
the ghost `heard` remembers which signal a rank took since its first handlers. A signal, a
death, an exception or a failed start may come between any two steps. External: a signal
without a handler ends the process, and `join` raises once a rank failed. `spawn` and `fork`
are modelled, `forkserver` is not.

**RequestIntake.** `call[c]` is what thread `c` asks for, by one of four ways (`http`, `engine`,
`core`, `rollout`), `pc` and `outcome` where it is and what came of it. `states` is
`Scheduler._states`, `buffer` the tracker's events of a request, `defaults` the model's
generation configuration, `owner` the thread inside `execute_requests`. Options are partial
functions: a name that is missing and one that is None are different, as they are in the code.
`Admit` and `Execute` are one step each because the engine lock is held; `Register` and
`Release` are the tracker's and come at any time. `Step` and `Reap` are the engine, with free
choice of when it ends a request. Minted ids differ from each other and from those callers
choose.

**DeviceWork.** `stream` holds what the host enqueued, `Execute` is the device reaching it;
`pins` are the staging buffers the device reads only then. `bound`, `decodeCache` and the
sampling buffers are the state a decode step reuses. A forward that sees anything but its
request's own prefix samples garbage, so a stale buffer shows in `output` steps later.

**RequestDelivery.** A sink call is `Emit`, `Post`, `Restore`: sort under the tracker's lock,
post to the event loop outside it, take back when the loop is closed. `Act(c)` is the next
step of a consumer, `Disconnect`, `Timeout`, `StopEngine` and `CloseLoop` happen at any of them.

**TextStream.** `Token` decodes lexemes into `buffer`; `matched`, `body`, `shown`, `calls` are
the checker's and the builder's state, `content` what was sent.

**RolloutReplay.** `th` has a program counter per thread that shares the runner; generation,
scoring and publication are begun, stepped per parameter and ended, with the locks the code
holds over each.

**PolicyUpdate.** `Prepare` turns the next microbatch of a rank into terms with their
targets, `Accumulate` adds those of the current selection, `Commit` is the update.

**DataPath.** `Read`, `EndOfInput`, `WriteBins`, `WriteMeta` are the pipeline, `Crash` and
`Rerun` around them; `Load` or `LoadJsonl`, then `Window` and `RankBatch` per rank. `learned`
collects the pairs (target, context) whose loss was taken. `Prepare` builds dataset and sampler, or
refuses: a stream without one of its fields, a data set with no sample to deal.

**GradientWindow.** `Hook(r, p)` fires in any order that the workload allows; `issued[r]` is
the sequence of collectives a rank launched, and the k-th of one meets the k-th of every other.

**ShardedStep.** `Forward`, `Loss`, `Backward`, `Sync`, `Totals`, `Step`, `Save` of each rank,
against `single`, the weights one device would hold.

**ShardedOptimizer.** `StepLocal` at each owner, `Broadcast` parameter by parameter, `Gather`
rank by rank into the `file`, `Restart(size)` and `Load` in a world of another size.

**MatrixUpdate.** `Assemble` routes parameters to children, `StepChunk` takes the next chunk
of the step's agenda; a batched Newton-Schulz writes the caller's or its scratch storage.

**StateOffload.** `lanes` are the three streams, `fired` the events, `blocks` the device
memory; `Stage` enqueues one parameter, `Drain` returns the oldest. `Fail` raises at any call of the
`try` of a parameter: a prefix of its operations is enqueued, and `torn` remembers it.

**CheckpointStore.** `SaveStep(s)` walks a saver through its staging directory, the manifest,
the syncs and the rename; `age` and `Tick` decide what another saver takes for abandoned.
`Kill` takes one process, `Crash` the machine with everything not synced.

**RunLineage.** `Start` and `Continue` build a run in the builder's order, `Train`, `Save`
and `Stop` follow. `shelf` keeps with each file the run as it was.

**KernelChoice.** Two threads: `main` changes choices, plans and flags, the engine's loop runs
under `keeper`. `picked` is the selection cache, keyed by `Key`.

**PlanTable.** `phase` walks through the sweep, the merge, the gate and the installation;
`Start` is a serving process that loads the file, `Note` a launch no row covers.

**Fp8State.** `meta` and `xring` are keyed by objects, the registry's views by slot and
address; `Swap` replaces a parameter, `Restart` binds a snapshot to a new process.

**DeltaLayer, ExpertDispatch, SequenceScoring.** Algorithms checked step by step against a
reference definition in the module: the rule token by token, the sum over a token's own
experts, each token scored once in its own text.

## 3. The runs

| run | question | bounds |
|---|---|---|
| `kv_cache` | are pages conserved and is every KV read one's own, over hits, evictions, replacements, aborts and a weight update | 3 pages of 2 tokens, 2 requests, prompts of less than one, one and two pages with a common prefix, sequences up to 4, 1 weight update |
| `engine_batch` | do planning, overlap, rollback, cancellation and pool pressure keep slots, watermarks and the registry right; is no step launched with a stale history; is admission in order | 4 requests, one penalized, one too long for the pool, 2 batch places, 5 slots, budget of 1 prompt token, 1 stop |
| `engine_lifecycle` | do events, KV and threads end well under crashes, failed fences, stop timeouts and restart; do weights change only between requests; does the engine implement `RequestStream` | 2 requests, 2 faults, 2 starts, 1 weight update |
| `front_end` | does every accepted request fit window and buffers under its caller's settings, is a batch taken whole or not at all, does every event reach its consumer once, does every call return and leave nothing behind | intake: 2 interchangeable callers over a window of 3; bodies at the ends of the schema, batches of the front end under every layer of options, chosen, repeated and malformed ids, rollouts, 3 models. Delivery: a response and a batch call over three requests. Calls: synchronous ones over 3 requests, 2 places, 4 slots, 4 faults |
| `training` | is every checkpoint coherent and its metric log gapless, does a stop leave its weights on disk, does a restarted run complete; are rounds whole, of one version, trained in order, with no process left | 2 epochs of 5 samples in windows of 2 with a kept tail (2 updates per window, interval 3), with dropped tails and in `async_round` rounds (interval 2), resumed from any checkpoint; 2 epochs of 3 samples resumed from the latest; 2 faults, 1 signal. 3 workers, 2 epochs of two batches, lags 0 and 1, 3 faults, unbuffered results |
| `stop_agreement` | with signals, exceptions, deaths and timeouts anywhere, is no rank left in a collective by a run in which nothing failed, are checkpoints of one step; is a stop that reached a rank kept until training takes it, does `launch()` report how its ranks ended; do orphans, stopped runs and all else end | training: 2 ranks, 2 epochs of 2 updates, interval 3, 2 faults, 1 signal from outside (and those forwarded). Launch: ranks 0 and 1, worlds of 1 and 2, started by torchrun, alone or locally (`RANK` and `WORLD_SIZE`, `LOCAL_WORLD_SIZE` or nothing set), spawn and fork, 1 signal, 1 fault |
| `learner` | is what an update learns from, reduces, steps, stores and restores whole, whatever the interleaving, layout, mode or crash, apart from the layouts, streams and paddings that section 4 names | per part, in `MCLearner`: 3 threads over shared and separate backends and 2 versions; 2 ranks, 4 parameters in 3 buckets, 2 windows of 2 microbatches; worlds of 2 and 3 owners; 2 savers, 2 names, 1 fault; records, streams and pairs under every overflow, packing and tail policy for 2 ranks, some for 3, with fewer samples than ranks, with a shard without masks and without any mask; 2 × 2 of data, tensor and context parallelism; 5 prompts in groups of 2 learned twice; chains of 3 runs over 9 configurations; 10 optimizer kits; 3 offloaded parameters, 2 steps |
| `serving` | do caches, reuse, chunking and batching never show in what a request or an evaluation is given | per part, in `MCServing`: all texts of up to five symbols under nested and overlapping stop sequences, and responses with whole, truncated and mistaken tool calls; 3 requests over 2 slots and 2 handles; 4 operations, 2 changes, one scope; 1 to 4 GPUs over a 3 × 2 × 2 grid; 2 linears with one input, 2 steps, 1 swap, 1 restart; chunks of 2 and 3, pieces of up to 3; 2 tokens over 4 experts; 8 evaluations |
| `sync_reject` | *violation*: a request that fits is rejected behind one that cannot | 1 place, 4 slots |
| `train_round_signal` | *violation*: a signal while an epoch's first round is submitted | 1 signal |
| `stop_round` | *violation*: one signal to several `async_round` learners | 2 ranks, no fault, 1 signal |
| `tune_vocabulary` | *violation*: a hot shape that no row covers is tuned at run time | 1 class, 2 shapes |


Why the bounds are enough. Three two-token pages are the smallest pool in which one
request shares a prefix page, another extends below it and a third page must be evicted
with a subtree; two requests suffice for sharing and replacement. For the modules of section 5
the proofs lift the bounds altogether. Two batch places with more requests give a steady batch, a waiting
queue and a batch that shrinks; a budget of one token splits a two-token prompt in
chunks; four- and five-slot pools run out in mid-decode. Three workers and a batch of two
prompts leave a worker without a prompt that still joins every broadcast. Two faults reach
a failed commit followed by a failed fence. In training, 5 samples in windows of 2 give two full
windows and a tail; two updates per window put an interval save in the middle of a
window; 2 epochs give the change of epoch. An interval of 3 over 2 × 2
updates puts one save in the middle of the second epoch and one at the end, so that the
barriers of an interval save, of the shutdown save and of the end can meet. Two device slots
for three requests force the reuse of a slot while its last step is in flight, and two
handles are the depth the engine allows. Two ranks suffice for collectives that match by
position; the third rank of the optimizer's world gives an owner that neither sends first nor
last. Two savers suffice for one to find the other's staging directory. One signal and one
fault reach a launcher that is told to stop while one of its ranks is not yet started and
another already dead. A window of three tokens has prompts that are empty, that leave room, that
fill it and that exceed it, and two callers are enough for ids that clash and for a registration
between another's rejection and its release. Three runs make a resume of a resume. Texts of five symbols contain every overlap of stop sequences of three.

`CHECK_DEADLOCK FALSE`: these systems really stop (all requests gone, engine stopped,
training complete, coordinator closed, launcher gone, text finished); where it matters, a
liveness property says that they stop nowhere else. `learner` keeps the check on for its two
parts that go on for ever, replay and gradient windows.

Every property of a passing run is checked to be able to fail: `PROJECT.json`
(`mutants`) names for each a plausible bug in a modelled definition (operators called
`Mutant...` in the modules) under which TLC finds the property violated.

### Fairness

`EngineCore!FairSpec`: weak fairness of the loop thread, of a `_shutdown` in progress and
of a thread inside `stop()`. The threads are ordinary Python threads, and the engine
lock is held only for one finite tick or call; clients need not call anything, and
`stop()` may time out. `MCFrontEnd!FrontEndSpec`: a sink call that began goes on, the event
loop delivers what is in its ready queue, a consumer that can step does, and a synchronous call
runs on its caller's thread; the engine goes on emitting for an accepted request, which is
`EverythingLeaves` of `engine_lifecycle`, and a request's next event is the only one promised
(`EmitFor`), never that several come together. `MCTraining!TrainingSpec`: a live process runs, and
whoever operates it restarts it until it is complete; the learner's thread and the worker
processes run; faults, deaths, signals and timeouts are bounded, never forced.
`StopAgreement!FairSpec`, part of `MCStopAgreement!StoppingSpec`: ranks run, a collective whose ranks have all arrived
returns, one that can never complete raises (every process group has a timeout), and the
launcher watches its ranks; a signal may never be delivered or forwarded.
`ProcessLaunch!FairSpec`: processes run and take the signals that were sent to them, an agreed
stop ends the loop, a collective that lost a rank raises; nothing says that training ends by
itself, and nobody need send a signal. `RequestIntake` has safety properties only. Composed
specifications state the fairness of each part on its own steps. `learner` and `serving` check
safety only and assume none.

## 4. Findings

Each of these is a run with `expect: violation`; the trace is a behaviour of the code.

1. `sync_reject`: `execute_requests` rejects its whole queue when one admission round
   admits nobody, although the round looked at no more than `max_batch_size` requests.
2. `train_round_signal`: a stop request seen by `iter_rounds` before its first round is
   taken for the end of the epoch; a resume skips what was left of it.
3. `stop_round`: in `async_round` every learner obeys its own stop flag; with several
   learners one leaves for the checkpoint barrier while another waits in the gradient
   reduction of the next round, which the comment on `_agree_stop` excludes.
4. `tune_vocabulary`: the runtime tuner unpacks ten fields of a vocabulary that has twelve,
   raises on its first use and is disabled: no shape is ever tuned while serving.

The models also reach the following, which no run of its own records. Each can be seen with
the configuration named.

- `ProcessLaunch!LauncherForwards`: the launcher installs its early handlers before it starts the
  ranks and its forwarding ones after the last; a signal in between is remembered where nothing
  reads it, and the run trains to its end. A run of the part "launch" with two ranks, "spawn", one
  signal and no fault shows it.
- `RequestIntake!BodiesAreServed`: the schema of both protocols lets `top_p` 0.0 through
  (`network/app.py:55`), which `resolve_generation_parameters` refuses.
- `RequestIntake!RolloutsAreNotCut`: `run_batch` rejects a prompt that fills the window by itself;
  one that leaves less than `rollout_max_tokens` is cut short (`trainer/backend.py:82`), where the
  guide says it is rejected. Both show with `front_end`'s constants and `Parts = {"intake"}`.
- Dropped tails (`TrainCursor`, `ResumeAfterCursor`, mode "drop" with `hit` {"epoch_end"}):
  `trainer.py:361` counts the tail as consumed and resets the offset before `on_epoch_end`,
  while the epoch moves after it. An observer that raises there leaves a checkpoint from which
  the finished epoch is trained again (`docs/guides/training.md:267-269`).
- `Fp8State!ScaleDescribesBytes` with `Caching = TRUE`: the second linear that consumes a cached
  activation keeps a view of the ring its first consumer has advanced
  (`csrc/gemm/fp8/linear.cu:122` against `116-121`).
- `RunLineage!FreshModelIsFresh`: `model: false` still reads weights
  (`docs/guides/training.md:222-223`).
- `DataPath!LearnsTrainedTokens` with `learner`'s constants, `Parts = {"data"}` and the jobs
  `MixedJobs`: a stream shard of which every record is trained on entirely has no `loss_mask`
  (`preprocessing/builder.py:331`; a record whose masked section is empty is one). The store
  concatenates each field by itself (`dataset/storage.py:505-509`) and cuts the stream to the
  shortest (357), so the masks behind that shard shift against their tokens, tokens are learned
  that their section's action masks (`docs/guides/preprocessing.md:344`), and the end goes unread.
  `DataIsLearnedOnce` says what it says of masks for stores in which every shard has them
  (`MasksEverywhere`); of positions and of learning once it speaks in all, `MixedJobs` included.
- `DataPath!RanksInStep` with `Parts = {"data"}` and the jobs `FewJobs`: `RDSampler` pads with
  one copy of the data set at most (`dataset/sampler.py:141-143`), so with more than twice as many
  ranks as samples some rank gets nothing while the others enter a collective, where
  `docs/guides/training.md:249` speaks of "equal padded rank shards" and `samples_per_replica`
  (`parallel/topology.py:139-145`) counts one for it. `EnoughToPad` excludes exactly these jobs.
- `ShardedStep!ReplicasAgree` with layout `(2, 1, 2, 0, TRUE, FALSE)`: trained from scratch under
  tensor parallelism, embedding and head differ between peers from the start. Ranks seed by rank
  (`trainer/trainer.py:32, 401`), the plan broadcasts only its Linears (`parallel/tp.py:158`), and
  DDP and FSDP synchronize along dp only (`executor/gradients.py:250`), where `parallel/tp.py:18-25`
  and `docs/guides/distributed.md:161` say that both stay replicated. `LayoutsDoNotShow` is about
  the layouts that are `Covered`: under tensor parallelism those that load their weights and
  neither clip nor save (the next two).
- `ShardedStep!ReplicasAgree` with layout `(1, 1, 2, 4, FALSE, FALSE)`: each tensor-parallel rank
  clips by the norm of its own shards, so replicated parameters drift apart
  (`parallel/tp.py:20-21`).
- `ShardedStep!CheckpointIsWhole` with layout `(1, 1, 2, 0, FALSE, TRUE)`: rank 0 alone
  publishes, and nothing gathers tensor-parallel shards, so the file holds those of one rank
  (`docs/guides/distributed.md:256-258` speaks of FSDP's shards only).
- `StateOffload`, action `Fail`: an exception after `model.copy_` or a `_store` (`offload.py:155-170`) leaves the
  one parameter it came from torn, the model ahead of the host or the master ahead of its moments,
  while line 183 puts the dict from before the step back (an empty one in a first step).
  `HostStateIsWhole` states exactly this of that parameter, `Interrupted`, and that every other is
  whole. The class promises state that can be read when a step returns, and no run saves after a
  step that raised (`checkpoint_safe`), so no statement of the repository is contradicted.

Where one of these bites, either the property of the passing run excludes it by a named condition
(`MasksEverywhere`, `EnoughToPad`, `Covered`, `Interrupted`) or its configuration keeps out of it
(`hit`, read by `Interruptions`, in `training`; the mode in `stop_agreement`; `Caching`, layouts and
load options in `serving` and `learner`), so that the rest of the behaviour is checked.

Disagreements met while reading, not modelled as properties:

- Scoring: an empty context, or a continuation longer than the model's window, scores 0.0
  (`bench.py:284`); the suite runner takes a partly written result for a finished one.
- The tuner: `_class_of_combo` raises for combinations that are not FP8
  (`tune_plan_table.py:1263`); merged rows extend over gaps that were not measured (450-453).
- Streams: an object that opens like a tool call and is never closed, or keys after
  `arguments`, make a stream differ from the whole response (`tool_parser.py:109-112,
  371-373`); a call that is cut off ends a stream with "tool_calls" and a whole response with
  "length"; an incomplete UTF-8 tail is never flushed. `TextIsExact` covers the texts named in
  `MCServing`, which contain none of these.
- Optimizers: a warm start from an exported checkpoint with its optimizer ends with the
  masters' weights; Mano's step counter restarts on a load; an FSDP optimizer state saved by
  rank 0 holds only its shards (`components.py:106`).
- Rollouts: the deadline of a round counts from its submission (`async_round.py:403`).
- Intake: a prompt longer than the window is cut to exactly the window, has a budget of 0 and is
  answered by an empty response that ends with "length"; the prompt tokens a protocol counts when
  it begins (`protocol.py:106`) are those of the whole prompt, and the count at the end those of
  the cut one; `execute_requests` does not ask whether the engine is accepting.
- Saving: resuming from an older checkpoint into the same directory can fail at a step that
  exists; a handle that is dropped without a commit keeps its result slot.

## 5. Proofs

A theorem of this section holds for every value of the constants that satisfies the named
assumptions of its module, which TLC evaluates in every run of the module; what a run of section
3 shows on an instance, the theorem of the same property shows in general. Bounds of exploration
(`MaxFaults`, `MaxStarts`, ...) are arbitrary numbers in the proofs. In every module the
inductive invariant comes first, then one lemma per action (or per action and conjunct), then the
lemma that combines them, then the theorems.

**KVCacheProofs** proves for every pool, page size, set of requests and set of prompts that
`Spec` implies `[]TypeOK`, `[]PageOwnership`, `[]IndexIsTrie`, `[]IndexedPagesMatch`,
`[]ReadsOwnPrefix` and `[]SharedPagesAgree`. Assumptions: the pool and the request slots
are finite, a page has at least one slot, prompts are non-empty sequences within the
maximal length (`PagesAssumption` to `NoneAssumption` of `KVCache`).

None of these is inductive alone. The invariant `IInv` adds

- `Shape`: materialized, reserved and known positions of a request are ordered, and it
  has pages for all it reserved; without it a write could fall outside the pages;
- `HeldOnce`: no request holds a page twice; otherwise a write changes two positions;
- `IndexedHeldAgree`: an indexed page somebody holds is indexed under that holder's own
  prefix. It is what makes a rewrite of a shared slot harmless (the recomputed last
  prompt token) and what shows that `record` never moves a held page;
- `PagesMatch`: `ReadsOwnPrefix` page by page, the form the steps preserve;
- `PublishingOK`: a publication stays below what was materialized.

The step lemmas go one per action (`PrefillStep`, `AdmitStep`, ...), each with one case
per conjunct; `WindowStep` covers both executions, `TakeFacts` what both allocations do
to the pool. `Invariance` combines them.

**EngineTheorems** is about `EngineCore`: any finite set of requests with prompts of 1 to
`MaxSeqLen` tokens, any budget, batch size and pool, overlapping or not. `EngineInvariant` states
what the theorems rest on in layers, each inductive given those before it (`Layers` is the
conjunction of the first eight):

| layer | says | needed because |
|---|---|---|
| `ControlOK` | where loop thread, stopping thread and shutdown can be together | a shutdown run by `stop()` and one run by the loop exclude each other |
| `CountersOK`, `QueueOK` | which queue a request is in, once | admission walks the queue while it takes requests out and puts others back |
| `StepsOK` | plan, relay and handles hold well-formed windows, one per request | |
| `RegistryOK` | the planned windows of a request (`order`) are those in flight followed by the one in the plan, with the same ends; nothing is lost unless an exception ended the loop | `touching` and `order` are what decides when KV may be released |
| `FlightOK` | how many handles there are at each place of the loop | overlap plans against a step that has not landed |
| `FreshOK` | a request that never ran has computed nothing | |
| `SlotsOK` | free slots and the slots of all requests add up to the pool | sums over requests: `CollectionFacts` |
| `StoppedOK` | a `stop()` that returned True left nothing to quarantine | `KVIsGivenBackSafely` |
| `MarksOK` | a window starts where the one before it ends, so that a rollback restores the watermark | `FedOK` |
| `FedOK` | the relay is the last decode launch; outputs and materialized positions agree | `DecodeInputsCurrent` |
| `OrderOK` | the queue with what this admission has put back is in order of arrival; what was put back did not fit | `AdmittedInOrder` |
| `StreamsOK` | the terminal flag says that the stream is closed | the refinement |
| `NoStaleExecution` | what is in flight was launched with the present weights | `MarksOK`, `FedOK` |
| `GoneIsTerminal` | what left the registry is terminal | `WeightsNeverSplitARequest` |

Theorems: `BooksAlwaysBalance`, `KVIsReleasedSafely`, `DecodeIsFedItsOwnTokens`,
`AdmissionKeepsArrivalOrder` and `WeightsNeverSplitARequest` (action properties: new weights find
every stream closed, the pool whole, no plan, and nothing left that may still write), and
`EngineImplementsStreams`: `Spec` implies `Stream!StreamSafety`, the initial condition and the
steps of `RequestStream` under the mapping of `EngineCore`. Its liveness half (every accepted
stream closes) stays with TLC in the run `engine_lifecycle`.
Assumptions: `RequestsAssumption`, `PromptAssumption`, `SizeAssumption`, `BoundAssumption`.

**StopAgreementProofs**, for any number of ranks, epochs, windows and any interval
(`SizeAssumption`). `RunInv` says how far a rank can be (`Shape`, `ProgressOK`), that a rank in an
update is on its way to commit it or has failed for good (`UnsafeOK`), that any two ranks which
have not lost an update have reduced the same gradients (`StepsAgree`: the one fact about all
ranks at once, kept by the collectives), that nobody commits while rank 0 writes (`WriteOK`), and
that success means saved (`SavedOK`). From it follows `CheckpointsStayCommon`, in both modes.
`RanksAlwaysAgree` needs `Lockstep` on top: without faults all ranks are bound for the same
collective with the same cursor. It has the hypothesis `Mode = "window"`, and must: in round mode
it is false, which is the finding of the run `stop_round`.

**ProcessLaunchProofs**, for any ranks, environments, start methods, signals and faults
(`LaunchAssumption`, a hypothesis of each theorem because `ProcessLaunch` is instantiated, not
extended, by its run): `LaunchTypes`, `NoStopIsLost` (a request that reached a rank since its
first handlers is known to the context that trains) and `LauncherIsTruthful`. `IInv` adds
`SignalsOK` (a request waits in `early` until the context takes it) and `CodeOK` (what `launch()`
will report is decided by the outcomes of the ranks when the join ends). `LaunchIsSound` of
`MCStopAgreement` is the conjunction of the three properties under the composed specification;
`StopAgreementProofs` proves it of that specification too (`LaunchStaysSound`), from the
instances of these lemmas.

**RequestIntakeProofs**, for any callers, calls, models and window (`IntakeAssumption`):
`IntakeIsTyped`, `IntakeNeverOverflows`, `BatchesAreWhole`, `SettingsFollowTheCall`. `IntakeInv`
ties the place of a call to what has become of it (`CallsOK`), the accepted prompts to the calls
that report them (`BooksOK`), every request to the position of the call it was made for
(`RequestsOK`) and every buffer to what its request has emitted (`BuffersOK`: that is why none
overflows). `AsAsked` adds that each request carries the settings of its call, three layers
resolved.

**CheckpointStoreProofs**, for any savers, names, extra files and bounds (`SizesAssumption`,
`FilesAssumption`): `CheckpointsStayWhole` and `PublishedIsSynced`. In `StoreInv`, `PlacesOK`
says what can be under a published name, `SaversOK` how far a save is and that it is alone there
(`NamedApart`, `StagesApart`, `CleansUnseen`: two savers share neither a name nor a staging
directory, and no cleanup holds a directory that can be seen; `FillsInOrder`, `PublishesWhole`:
what is renamed was written and synced before), `PromisesOK` that what `save()` reported is on
the disk, and `ReaderOK` that a name keeps standing for the directory whose manifest was checked.

**TrainCursorProofs**, for any number of epochs, faults and stops and any set of configurations
(`RunAssumption`, `NoneAssumption`): `HistoryIsContinuous` (`TypeOK` and `MetricsCoherent`) with
no hypothesis, from `HistoryInv`: ranges, the phases in which a save is allowed, one metric record
per step in the process and in every file. `CursorStaysWhole` (`CursorIsWhole`) adds in
`CursorInv` that the updates the weights have seen, followed by those still to come from the
cursor, are the whole schedule: in the process whenever it may save (`RestOK`), in the middle of
a window with what is left of it (`WindowOK`), in every checkpoint (`DirOK`); and that a run which
ends cleanly leaves the state it had (`StopOK`, `EndOK`). Its hypothesis `Spared` excludes two
places to be hit in: a signal in a round's fetch, with which the property is false (the finding of
`train_round_signal`), and an exception between an epoch that dropped its tail and the next one,
which leaves the cursor at the end of the epoch it has just left. All configurations of the
run `training` satisfy `Spared`.

**CollectionFacts** holds what several of these need: sums over finite sets, injective sequences,
and induction over the natural numbers in the form the provers accept. The library's induction
theorems take an operator as a parameter, which no installed backend instantiates; so
`LeastNumber`, `SetInduction` and `SubsetInduction` are stated about sets of numbers, and a proof
names the set of the numbers it is about. `TrainCursorProofs` uses them to compute with
`FlattenSeq`.

**Only model-checked.** Liveness, which with fairness and ENABLED is out of the prover's reach
(`CallsReturn`, `EverythingLeaves`, `RunsEnd`, `TrainingEnds`),
the liveness half of `EventContract`, and:

- `DeliveryIsExact`, `CallsLeaveNothing` (`RequestDelivery`, `SyncBatch`);
- all properties of the run `learner` but `CheckpointsAreWhole`;
- all properties of the run `serving`;
- `RoundsAreWhole` (`AsyncRound`).

Several of these are about values: what a recursive definition computes (`DeltaLayer`,
`PolicyUpdate`, `TextStream`, `DataPath`, `SequenceScoring`, `MatrixUpdate`) is compared with a
reference definition over the inputs named in section 3. A RECURSIVE operator takes a module out
of the reach of the SMT backend, so these stay with TLC.

## 6. Not modelled

Page selection order and LRU order; CUDA graphs and tensor contents; wall-clock time (a timeout
is a nondeterministic choice); several ranks together with restarts, tails or replayed windows
(ranks are in `StopAgreement`, the rest in `TrainCursor`); FSDP and pipeline collectives, which
are torch's; ring attention's exchange; prompt rendering, chat templates, filters and reward
models; parsing of requests beyond the bounds of their schema, and of configurations; the Hugging Face adapters; the device code of
the kernels, numerics, rounding and memory layout; recipe changes of FP8 in a running process;
learning-rate schedules and the value of the objectives; generation benchmarks, reports and the
command-line scripts. `PROJECT.json` says so component by component, and names with each hazard
the properties that cover it.

What is modelled is modelled in the small where the code is generic: one layer of every kind for
a network, one head and one column for the recurrent layer, one object per directory for a
checkpoint's files.

## 7. Plan

Done: the components as listed in section 2, and the proofs of section 5. What is left, in this
order:

1. `RequestDelivery`: `DeliveryIsExact` for any number of consumers, from `StreamSafety`, which
   is proved of the engine; `SyncBatch`: the books of a synchronous call.
2. `AsyncRound`: `RoundsAreWhole` for any number of workers and any lag.
3. `RolloutReplay` (`OneVersionPerRollout`) and `GradientWindow` (`LaunchesAgree`) for any number
   of threads and ranks.
4. `PageAllocator`: the exact free-page and LRU order, refining the open choice of `KVCache`.
5. A checkpoint published by `CheckpointStore` as the refinement of the one-step publication of
   `TrainCursor`.
