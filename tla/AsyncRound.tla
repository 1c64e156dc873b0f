----------------------------- MODULE AsyncRound ------------------------------
(***************************************************************************)
(* Asynchronous rollout rounds: one learner that trains a round while its  *)
(* worker processes generate the next (trainer/rollout/async_round.py,     *)
(* worker.py, protocol.py, nccl_transport.py, and the round loop of        *)
(* trainer.py).                                                            *)
(*                                                                         *)
(* The learner is one thread: coordinator, round generator and trainer are *)
(* called from it.  Each worker is a process with an ordered duplex pipe   *)
(* to the learner and a rank in the weight group, where rank zero is the   *)
(* learner.  Processes die at any point, messages are late, generation     *)
(* and training raise, a stop is requested at any point.                   *)
(*                                                                         *)
(* External, as this code uses them: the pipe is a FIFO whose buffer may   *)
(* be smaller than a result; a broadcast, and a graceful shutdown of the   *)
(* weight group, "involves every rank" (async_round.py:451).               *)
(***************************************************************************)
EXTENDS Integers, Sequences, FiniteSets

CONSTANTS Workers,      \* number of rollout devices
          Batches,      \* prompts of each batch of an epoch, in order
          NEpochs,      \* n_epoch
          MaxLags,      \* the max_policy_lag of the configurations explored
          ResultFits,   \* a pipe buffers a result nobody reads
          MaxFaults,    \* bound: crashes, exceptions and timeouts explored
          Nothing       \* no round, no version

\* Assumed by the module that gives the constants their values.
RoundsAssumption ==
    /\ {Workers, NEpochs} \subseteq Nat \ {0}
    /\ MaxLags \subseteq Nat /\ MaxFaults \in Nat
    /\ Batches \in Seq(Nat \ {0}) /\ Batches # <<>>
    /\ ResultFits \in BOOLEAN

W == 1..Workers

VARIABLES
    maxLag,    \* config.max_policy_lag
    lpc,       \* where the learner is
    sub,       \* what a submission is for: boot, first, ahead, retry
    epoch,     \* context.epoch
    policy,    \* policy_version
    weights,   \* ghost: optimizer steps the live tensors have seen
    view,      \* _worker_versions
    fanout,    \* workers that owe an acknowledgement of new weights
    handle,    \* the generator's pending round
    active,    \* that round is the coordinator's _active_round
    rounds, requests,  \* _round_id, _request_id
    expected,  \* the request_ids of the replies being collected
    awaiting,  \* workers whose reply is missing
    replies,   \* replies collected
    cursor,    \* _sample_cursor
    rollout,   \* the round being trained
    consumed,  \* consumed_samples
    trained,   \* ghost: the rounds that made an update
    stop,      \* stop_requested
    wpc,       \* where each worker is; "gone" when it has no process
    label,     \* the policy_version of its backend
    held,      \* ghost: optimizer steps its tensors have seen
    command,   \* the command it handles
    inbox, outbox,  \* both directions of its pipe
    faults

collectVars == <<expected, awaiting, replies>>
generatorVars == <<handle, active, rollout>>
policyVars == <<policy, weights, consumed, trained>>
countVars == <<rounds, requests, cursor>>
learnerVars == <<lpc, sub, epoch, view, fanout, generatorVars, countVars, collectVars,
                 policyVars>>
workerVars == <<wpc, label, held, command>>
pipes == <<inbox, outbox>>
vars == <<maxLag, learnerVars, stop, workerVars, pipes, faults>>

Fault == faults < MaxFaults /\ faults' = faults + 1
Alive(w) == wpc[w] # "gone"
Every(v) == [w \in W |-> v]

Init ==
    /\ maxLag \in MaxLags
    /\ lpc = "models" /\ sub = "boot" /\ epoch = 1
    /\ policy = 0 /\ weights = 0 /\ consumed = 0 /\ trained = <<>>
    /\ view = Every(Nothing) /\ fanout = {}
    /\ handle = Nothing /\ active = FALSE /\ rollout = Nothing
    /\ rounds = 0 /\ requests = 0 /\ cursor = 0
    /\ expected = Every(0) /\ awaiting = W /\ replies = Every(Nothing)
    /\ stop = FALSE
    /\ wpc = Every("load") /\ label = Every(Nothing) /\ held = Every(Nothing)
    /\ command = Every(Nothing)
    /\ inbox = Every(<<>>) /\ outbox = Every(<<>>)
    /\ faults = 0

-----------------------------------------------------------------------------
(* Closing. *)

\* close(force=True): the workers are terminated, and killed if that fails.
Terminated == Every("gone")
ForceClose ==
    /\ lpc' = "closed" /\ active' = FALSE
    /\ wpc' = Terminated
    /\ inbox' = Every(<<>>) /\ outbox' = Every(<<>>)
    /\ UNCHANGED <<sub, epoch, view, fanout, handle, rollout, countVars, collectVars,
                   policyVars, stop, label, held, command>>

\* close() of the session, after whatever ended training: STOP to every live
\* worker, whose answer to an earlier command nobody reads any more.
StopTo == {w \in W : Alive(w)}
Close ==
    /\ lpc = "closing"
    /\ inbox' = [w \in W |-> IF w \in StopTo
                             THEN Append(inbox[w], [kind |-> "stop"]) ELSE inbox[w]]
    /\ lpc' = "shutdown"
    /\ UNCHANGED <<sub, epoch, view, fanout, generatorVars, countVars, collectVars,
                   policyVars, stop, workerVars, outbox, faults>>

\* The learner's part of the shutdown of the weight group: it ends when every
\* rank takes part, or at the timeout the group was built with.
Shutdown ==
    /\ lpc = "shutdown"
    /\ lpc' = "reap"
    /\ UNCHANGED <<sub, epoch, view, fanout, generatorVars, countVars, collectVars,
                   policyVars, stop, workerVars, pipes, faults>>

\* The workers are joined until a deadline, then terminated.
Reap ==
    /\ lpc = "reap"
    /\ ForceClose /\ UNCHANGED faults

-----------------------------------------------------------------------------
(* Collecting replies. *)

ReplyKind == [models |-> "model_ready", acks |-> "weight_sync_ack",
              readys |-> "ready", results |-> "result"]

\* RolloutMessage.expect.
Expects(w, m) ==
    /\ m.kind = ReplyKind[lpc] /\ m.id = expected[w]
    /\ IF lpc = "results" THEN m.round = handle.round /\ m.version = handle.version
                          ELSE m.version = policy

\* _collect_replies reads whatever has arrived; anything else than the reply
\* of the outstanding command is an error, and every error is a forced close.
Receive(w) ==
    LET m == Head(outbox[w])
    IN  /\ lpc \in DOMAIN ReplyKind /\ w \in awaiting /\ outbox[w] # <<>>
        /\ IF Expects(w, m)
           THEN /\ replies' = [replies EXCEPT ![w] = m]
                /\ awaiting' = awaiting \ {w}
                /\ outbox' = [outbox EXCEPT ![w] = Tail(@)]
                /\ UNCHANGED <<lpc, sub, epoch, view, fanout, generatorVars, countVars,
                               expected, policyVars, stop, workerVars, inbox>>
           ELSE ForceClose
        /\ UNCHANGED faults

\* A worker whose process ended without an answer.
MutantWorkerExited ==
    /\ lpc = "results"
    /\ \E w \in awaiting : ~Alive(w) /\ outbox[w] = <<>>
    /\ ForceClose /\ UNCHANGED faults
WorkerExited ==
    /\ lpc \in DOMAIN ReplyKind
    /\ \E w \in awaiting : ~Alive(w) /\ outbox[w] = <<>>
    /\ ForceClose /\ UNCHANGED faults

TimesOut ==
    /\ lpc \in DOMAIN ReplyKind /\ awaiting # {} /\ Fault
    /\ ForceClose

Collect(S, ids) ==
    /\ awaiting' = S /\ expected' = ids /\ replies' = Every(Nothing)
Collected(at) == lpc = at /\ awaiting = {}

-----------------------------------------------------------------------------
(* Submitting a round. *)

\* Every worker has loaded its replica.
ModelsReady ==
    /\ Collected("models")
    /\ lpc' = "sync"
    /\ UNCHANGED <<sub, epoch, view, fanout, generatorVars, countVars, collectVars,
                   policyVars, stop, workerVars, pipes, faults>>

Missing == {w \in W : view[w] # policy}

\* _sync_weights: the command goes to every worker or to none.
SyncWeights ==
    /\ lpc = "sync" /\ UNCHANGED faults
    /\ IF Missing = {}
       THEN /\ lpc' = "dispatch"
            /\ UNCHANGED <<sub, epoch, view, fanout, generatorVars, countVars,
                           collectVars, policyVars, stop, workerVars, pipes>>
       ELSE IF Missing # W \/ fanout # {} \/ \E w \in W : ~Alive(w)
       THEN ForceClose
       ELSE /\ fanout' = Missing
            /\ requests' = requests + Workers
            /\ Collect(W, [w \in W |-> requests + w])
            /\ inbox' = [w \in W |->
                  Append(inbox[w], [kind |-> "weight_sync", id |-> requests + w,
                                    version |-> policy])]
            /\ lpc' = "cast"
            /\ UNCHANGED <<sub, epoch, view, generatorVars, rounds, cursor, policyVars,
                           stop, workerVars, outbox>>

\* What a rank holds after a broadcast.
MutantReceived(w) == IF held[w] = Nothing THEN weights ELSE held[w]
Received(w) == weights

\* The broadcast, when every rank has entered it (external).
Broadcast ==
    /\ lpc = "cast" /\ \A w \in W : wpc[w] = "cast"
    /\ held' = [w \in W |-> Received(w)]
    /\ wpc' = Every("ack")
    /\ lpc' = "acks"
    /\ UNCHANGED <<sub, epoch, view, fanout, generatorVars, countVars, collectVars,
                   policyVars, stop, label, command, pipes, faults>>

\* A rank is gone, or late.
BroadcastFails ==
    /\ lpc = "cast"
    /\ \/ (\E w \in W : ~Alive(w)) /\ UNCHANGED faults
       \/ Fault
    /\ ForceClose

Acknowledged ==
    /\ Collected("acks")
    /\ view' = [w \in W |-> IF w \in fanout THEN policy ELSE view[w]]
    /\ fanout' = {}
    /\ IF sub = "boot"
       THEN lpc' = "readys" /\ Collect(W, Every(0))
       ELSE lpc' = "dispatch" /\ UNCHANGED collectVars
    /\ UNCHANGED <<sub, epoch, generatorVars, countVars, policyVars, stop, workerVars,
                   pipes, faults>>

Ready ==
    /\ Collected("readys")
    /\ view' = [w \in W |-> replies[w].version]
    /\ lpc' = "epoch"
    /\ UNCHANGED <<sub, epoch, fanout, generatorVars, countVars, collectVars, policyVars,
                   stop, workerVars, pipes, faults>>

\* The batch a submission is for, and the workers and prompts it is split into.
Batch == CASE sub = "first" -> 1
           [] sub = "ahead" -> rollout.batch + 1
           [] sub = "retry" -> handle.batch
Share(w) == {p \in 0..(Batches[Batch] - 1) : p % Workers = w - 1}
Jobs == {w \in W : Share(w) # {}}

\* Where the response seeds of a submission start: a retry keeps those of the
\* round it repeats.
SeedBase == IF sub = "retry" THEN handle.base ELSE cursor

\* submit_round after the weights are in place.
Dispatch ==
    LET ids == [w \in W |-> requests + w]
        version == policy
    IN  /\ lpc = "dispatch" /\ UNCHANGED faults
        /\ IF \E w \in Jobs : ~Alive(w)
           THEN ForceClose
           ELSE /\ rounds' = rounds + 1
                /\ requests' = requests + Cardinality(Jobs)
                /\ inbox' = [w \in W |->
                     IF w \in Jobs
                     THEN Append(inbox[w], [kind |-> "generate", id |-> ids[w],
                            round |-> rounds + 1, version |-> version,
                            prompts |-> Share(w)])
                     ELSE inbox[w]]
                /\ handle' = [batch |-> Batch, base |-> SeedBase, version |-> version,
                              round |-> rounds + 1, jobs |-> Jobs, ids |-> ids]
                /\ active' = TRUE
                /\ cursor' = IF sub = "retry" THEN cursor ELSE cursor + Batches[Batch]
                /\ lpc' = CASE sub = "first" -> "check"
                            [] sub = "ahead" -> "train"
                            [] sub = "retry" -> "collect"
                /\ UNCHANGED <<sub, epoch, view, fanout, rollout, collectVars,
                               policyVars, stop, workerVars, outbox>>

-----------------------------------------------------------------------------
(* The round generator and the trainer, on the learner's thread. *)

EpochsLeft == epoch <= NEpochs
EpochBegins ==
    /\ lpc = "epoch"
    /\ IF EpochsLeft /\ ~stop
       THEN lpc' = "sync" /\ sub' = "first"
       ELSE lpc' = "closing" /\ UNCHANGED sub
    /\ UNCHANGED <<epoch, view, fanout, generatorVars, countVars, collectVars,
                   policyVars, stop, workerVars, pipes, faults>>

\* The head of the generator's loop; a stop ends it like the last batch does.
NextRound ==
    /\ lpc = "check"
    /\ IF handle # Nothing /\ ~stop
       THEN lpc' = "collect" /\ UNCHANGED epoch
       ELSE lpc' = "epoch" /\ epoch' = epoch + 1
    /\ UNCHANGED <<sub, view, fanout, generatorVars, countVars, collectVars, policyVars,
                   stop, workerVars, pipes, faults>>

CollectRound ==
    /\ lpc = "collect"
    /\ Collect(handle.jobs, handle.ids)
    /\ lpc' = "results"
    /\ UNCHANGED <<sub, epoch, view, fanout, generatorVars, countVars, policyVars, stop,
                   workerVars, pipes, faults>>

LagAccepted == policy - handle.version \in 0..maxLag

\* A stale round is submitted again, once; a reward model may raise.
RoundStale ==
    /\ Collected("results") /\ ~LagAccepted
    /\ active' = FALSE
    /\ IF sub = "retry" THEN lpc' = "closing" /\ UNCHANGED sub
                        ELSE lpc' = "sync" /\ sub' = "retry"
    /\ UNCHANGED <<epoch, view, fanout, handle, rollout, countVars, collectVars,
                   policyVars, stop, workerVars, pipes, faults>>

RoundRaises ==
    /\ Collected("results") /\ Fault
    /\ active' = FALSE
    /\ lpc' = "closing"
    /\ UNCHANGED <<sub, epoch, view, fanout, handle, rollout, countVars, collectVars,
                   policyVars, stop, workerVars, pipes>>

\* The next round is submitted before this one is handed to the trainer.
RoundCollected ==
    /\ Collected("results") /\ LagAccepted
    /\ active' = FALSE
    /\ rollout' = [epoch |-> epoch, batch |-> handle.batch, base |-> handle.base,
                   version |-> handle.version,
                   parts |-> {replies[w] : w \in {v \in W : replies[v] # Nothing}}]
    /\ IF handle.batch < Len(Batches)
       THEN lpc' = "sync" /\ sub' = "ahead" /\ UNCHANGED handle
       ELSE lpc' = "train" /\ handle' = Nothing /\ UNCHANGED sub
    /\ UNCHANGED <<epoch, view, fanout, countVars, collectVars, policyVars, stop,
                   workerVars, pipes, faults>>

\* One optimizer update, and the version it publishes.
Commit ==
    /\ weights' = weights + 1 /\ policy' = policy + 1
    /\ consumed' = consumed + Batches[rollout.batch]
    /\ trained' = Append(trained, [epoch |-> rollout.epoch, batch |-> rollout.batch,
                                   base |-> rollout.base, before |-> consumed])

\* An update that raises may have changed the tensors.
Train ==
    /\ lpc = "train"
    /\ \/ Commit /\ fanout = {} /\ lpc' = "loop" /\ UNCHANGED faults
       \/ Commit /\ Fault /\ lpc' = "closing"
       \/ /\ Fault /\ lpc' = "closing"
          /\ weights' \in {weights, weights + 1}
          /\ UNCHANGED <<policy, consumed, trained>>
    /\ UNCHANGED <<sub, epoch, view, fanout, generatorVars, countVars, collectVars, stop,
                   workerVars, pipes>>

AfterBatch ==
    /\ lpc = "loop"
    /\ lpc' = IF stop THEN "closing" ELSE "check"
    /\ rollout' = Nothing
    /\ UNCHANGED <<sub, epoch, view, fanout, handle, active, countVars, collectVars,
                   policyVars, stop, workerVars, pipes, faults>>

RequestStop ==
    /\ ~stop /\ lpc # "closed"
    /\ stop' = TRUE
    /\ UNCHANGED <<learnerVars, workerVars, pipes, faults>>

-----------------------------------------------------------------------------
(* A worker process. *)

Reply(w, m) == outbox' = [outbox EXCEPT ![w] = Append(@, m)]
Goes(w, to) == wpc' = [wpc EXCEPT ![w] = to]

\* An exception: the error is reported under the current request, the rank
\* aborts the weight group, the process ends.
Fails(w) ==
    /\ Reply(w, [kind |-> "error",
                 id |-> IF command[w] = Nothing THEN 0 ELSE command[w].id])
    /\ Goes(w, "gone")

Load(w) ==
    /\ wpc[w] = "load"
    /\ Reply(w, [kind |-> "model_ready", id |-> 0, version |-> 0])
    /\ Goes(w, "initial")
    /\ UNCHANGED <<learnerVars, stop, label, held, command, inbox, faults>>

\* What a worker does with a command, given the version it serves; the first
\* one must carry the initial weights.
Accepts(w, c) ==
    CASE c.kind = "weight_sync" -> IF label[w] = Nothing THEN c.version = 0
                                                         ELSE c.version > label[w]
      [] c.kind = "generate"    -> c.version = label[w]
      [] c.kind = "stop"        -> label[w] # Nothing
Handler == [weight_sync |-> "cast", generate |-> "generate", stop |-> "leaving"]

Handle(w) ==
    LET c == Head(inbox[w])
    IN  /\ wpc[w] \in {"initial", "idle"} /\ inbox[w] # <<>>
        /\ inbox' = [inbox EXCEPT ![w] = Tail(@)]
        /\ command' = [command EXCEPT ![w] = c]
        /\ IF Accepts(w, c)
           THEN Goes(w, Handler[c.kind]) /\ UNCHANGED outbox
           ELSE /\ Goes(w, "gone")
                /\ Reply(w, [kind |-> "error", id |-> c.id])
        /\ UNCHANGED <<learnerVars, stop, label, held, faults>>

\* The acknowledgement of a broadcast, whose version is the backend's from
\* then on; the first one comes before there is a backend.
AckId(w) == command[w].id
Acknowledge(w) ==
    /\ wpc[w] = "ack"
    /\ Reply(w, [kind |-> "weight_sync_ack", id |-> AckId(w),
                 version |-> command[w].version])
    /\ IF label[w] = Nothing
       THEN Goes(w, "build") /\ UNCHANGED label
       ELSE Goes(w, "idle") /\ label' = [label EXCEPT ![w] = command[w].version]
    /\ UNCHANGED <<learnerVars, stop, held, command, inbox, faults>>

Build(w) ==
    /\ wpc[w] = "build"
    /\ label' = [label EXCEPT ![w] = 0]
    /\ Reply(w, [kind |-> "ready", id |-> 0, version |-> 0])
    /\ Goes(w, "idle")
    /\ UNCHANGED <<learnerVars, stop, held, command, inbox, faults>>

\* A result that no pipe buffer holds is sent while the learner reads it.
Sendable(w) == ResultFits \/ (lpc = "results" /\ w \in awaiting)
Generate(w) ==
    /\ wpc[w] = "generate" /\ Sendable(w)
    /\ Reply(w, [kind |-> "result", id |-> command[w].id, round |-> command[w].round,
                 version |-> label[w], prompts |-> command[w].prompts,
                 held |-> held[w]])
    /\ Goes(w, "idle")
    /\ UNCHANGED <<learnerVars, stop, label, held, command, inbox, faults>>

\* Loading, building or generating raises; a broadcast fails when a rank is
\* gone, or late.
Raises(w) ==
    /\ \/ wpc[w] \in {"load", "cast", "build", "generate"} /\ Fault
       \/ wpc[w] = "cast" /\ (\E v \in W : ~Alive(v)) /\ UNCHANGED faults
    /\ Fails(w)
    /\ UNCHANGED <<learnerVars, stop, label, held, command, inbox>>

\* Every rank leaves the weight group together.
Leave(w) ==
    /\ wpc[w] = "leaving" /\ lpc \in {"shutdown", "reap"}
    /\ \A v \in W : wpc[v] \in {"leaving", "gone"}
    /\ Goes(w, "gone")
    /\ UNCHANGED <<learnerVars, stop, label, held, command, pipes, faults>>

\* A process dies; what it had written can still be read.
Dies(w) ==
    /\ Alive(w) /\ Fault
    /\ Goes(w, "gone")
    /\ UNCHANGED <<learnerVars, stop, label, held, command, pipes>>

-----------------------------------------------------------------------------
LearnerStep ==
    \/ \E w \in W : Receive(w)
    \/ WorkerExited \/ TimesOut
    \/ ModelsReady \/ SyncWeights \/ Broadcast \/ BroadcastFails
    \/ Acknowledged \/ Ready \/ Dispatch
    \/ EpochBegins \/ NextRound \/ CollectRound
    \/ RoundStale \/ RoundRaises \/ RoundCollected
    \/ Train \/ AfterBatch
    \/ Close \/ Shutdown \/ Reap

WorkerStep(w) ==
    \/ Load(w) \/ Handle(w) \/ Acknowledge(w) \/ Build(w) \/ Generate(w)
    \/ Raises(w) \/ Leave(w)

Next ==
    /\ UNCHANGED maxLag
    /\ \/ LearnerStep \/ RequestStop
       \/ \E w \in W : WorkerStep(w) \/ Dies(w)

Spec == Init /\ [][Next]_vars

\* Threads and processes that can run do run.
FairSpec ==
    /\ Spec
    /\ WF_vars(LearnerStep /\ UNCHANGED maxLag)
    /\ \A w \in W : WF_vars(WorkerStep(w) /\ UNCHANGED maxLag)

-----------------------------------------------------------------------------
(* Properties. *)

Version == Nat \cup {Nothing}

\* Every variable of learner and workers has its type.
TypeOK ==
    /\ lpc \in {"models", "sync", "cast", "acks", "readys", "dispatch", "epoch",
                "check", "collect", "results", "train", "loop", "closing",
                "shutdown", "reap", "closed"}
    /\ sub \in {"boot", "first", "ahead", "retry"} /\ epoch \in 1..(NEpochs + 1)
    /\ policy \in Nat /\ weights \in Nat /\ consumed \in Nat
    /\ view \in [W -> Version] /\ fanout \subseteq W
    /\ active \in BOOLEAN /\ stop \in BOOLEAN
    /\ rounds \in Nat /\ requests \in Nat /\ cursor \in Nat
    /\ expected \in [W -> Nat] /\ awaiting \subseteq W
    /\ wpc \in [W -> {"load", "initial", "cast", "ack", "build", "idle", "generate",
                      "leaving", "gone"}]
    /\ label \in [W -> Version] /\ held \in [W -> Version]
    /\ faults \in 0..MaxFaults

\* "Partial results never reach the learner", and every part was generated by
\* the weights of the version the round is attributed to, which is at most
\* maxLag versions old when it is trained, whatever was retried.
RoundsAreWhole ==
    rollout # Nothing =>
        /\ \A m \in rollout.parts : m.held = rollout.version
        /\ UNION {m.prompts : m \in rollout.parts} = 0..(Batches[rollout.batch] - 1)
        /\ lpc = "train" => policy - rollout.version \in 0..maxLag

\* Every batch is trained at most once, in the order of the loader, and the
\* seeds of its responses start at the number of samples consumed before it:
\* a resumed run would draw the same responses.
TrainedInOrder ==
    \A i \in DOMAIN trained :
        /\ trained[i].base = trained[i].before
        /\ trained[i].batch = ((i - 1) % Len(Batches)) + 1
        /\ trained[i].epoch = ((i - 1) \div Len(Batches)) + 1

\* Each worker has at most one command it has not answered, STOP aside, and the
\* learner reads no reply but the one to that command; a round is submitted
\* when the one before it has been collected.
Unanswered(w) ==
    Cardinality({i \in DOMAIN inbox[w] : inbox[w][i].kind # "stop"})
        + (IF wpc[w] \in {"cast", "ack", "generate"} THEN 1 ELSE 0)
        + Cardinality({i \in DOMAIN outbox[w] : outbox[w][i].kind \in
                          {"weight_sync_ack", "result"}})
OneCommand ==
    /\ lpc \in {"sync", "cast", "acks", "dispatch"} => ~active
    /\ \A w \in W :
        /\ Unanswered(w) <= 1
        /\ lpc \in DOMAIN ReplyKind /\ w \in awaiting /\ outbox[w] # <<>> =>
             Expects(w, Head(outbox[w])) \/ Head(outbox[w]).kind = "error"

\* A learner that has closed its rollout leaves no worker process behind, and
\* one that nothing disturbed has trained every batch of every epoch.
ClosedMeansDone ==
    lpc = "closed" =>
        /\ \A w \in W : ~Alive(w)
        /\ faults = 0 /\ ~stop => Len(trained) = NEpochs * Len(Batches)

\* Whatever dies or raises, the learner's thread comes to its end, and waits for
\* no deadline but those of the shutdown to do so: a timeout is one of the
\* faults, never something the argument relies on.
LearnerEnds == <>(lpc = "closed")
=============================================================================
