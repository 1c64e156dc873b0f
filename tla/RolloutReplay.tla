---------------------------- MODULE RolloutReplay ----------------------------
(***************************************************************************)
(* Synchronous online rollouts: the replay cache of RolloutRunner, the       *)
(* generators and backends below it, the policy lock of the version guard,   *)
(* and the weight update with its publishers (trainer/rollout/runner.py,     *)
(* generator.py, trainer/backend.py, inference/core/versioning.py).          *)
(*                                                                         *)
(* Weights are a version per parameter, so that a half-done optimizer step   *)
(* or copy shows.  The generator's lock and the guard's RLock below it are   *)
(* always taken together and in that order: they are one lock here.          *)
(***************************************************************************)
EXTENDS Integers, Sequences

CONSTANTS Threads,     \* threads that roll out, evaluate or update
          Batches,     \* prompt batches, told apart by their cache key
          Params,      \* sequence of the model's parameters
          Setups,      \* layouts: who does what, where generation runs, interval
          None,
          MaxVersion   \* bound: weight updates

\* Assumed by the module that gives the constants their values.
ReplayAssumption == MaxVersion \in Nat /\ Len(Params) > 0

VARIABLES
    setup,    \* the layout of the run
    version,  \* policy version of each engine core
    weights,  \* version of each parameter, in the trained model and each replica
    lock,     \* holder of each engine core's policy lock
    cache,    \* the replay cache
    since,    \* _steps_since_rollout
    th,       \* each thread: its program counter and locals
    refused   \* ghost: a call ended in RolloutVersionError

vars == <<setup, version, weights, lock, cache, since, th, refused>>

Interval == setup.interval
MaxLag == Interval - 1           \* the default max_policy_lag

\* The engine core and the weights that training rollouts and evaluation use.
ValCore == IF setup.val = "replica" THEN "val" ELSE "rollout"
CoreOf(kind) == IF kind = "eval" THEN ValCore ELSE "rollout"
CopyOf(core) == IF core = "rollout" /\ setup.train = "colocated" THEN "model" ELSE core

\* The publishers, in order.
Publishers == (IF setup.train = "replica" THEN <<"rollout">> ELSE <<>>)
              \o (IF setup.val = "replica" THEN <<"val">> ELSE <<>>)

Idle == [pc |-> "idle", kind |-> "call", batch |-> None, res |-> None, at |-> 0, next |-> 1,
         pub |-> 1, target |-> 0]

Init ==
    /\ setup \in Setups
    /\ version = [c \in {"rollout", "val"} |-> 0]
    /\ weights = [c \in {"model", "rollout", "val"} |-> [i \in DOMAIN Params |-> 0]]
    /\ lock = [c \in {"rollout", "val"} |-> None]
    /\ cache = None /\ since = 0
    /\ th = [t \in Threads |-> Idle]
    /\ refused = FALSE

May(t, role) == th[t].pc = "idle" /\ role \in setup.roles[t]
Free(core, t) == lock[core] \in {None, t}
Goto(t, label) == th' = [th EXCEPT ![t].pc = label]

-----------------------------------------------------------------------------
(* RolloutRunner.__call__. *)

Call(t, b) ==
    /\ May(t, "call")
    /\ th' = [th EXCEPT ![t] = [Idle EXCEPT !.pc = "reuse", !.batch = b]]
    /\ UNCHANGED <<setup, version, weights, lock, cache, since, refused>>

Valid(res, live) == res.version <= live /\ live - res.version <= MaxLag

Refuse(t) == th' = [th EXCEPT ![t] = Idle] /\ refused' = TRUE
Serve(t, res) ==
    /\ th' = [th EXCEPT ![t].pc = "served", ![t].res = res, ![t].at = version["rollout"]]
    /\ UNCHANGED refused

Reusable(b) == cache # None /\ cache.batch = b /\ since < Interval

\* The reuse decision, its validation and the object, in one policy snapshot.
Reuse(t) ==
    /\ th[t].pc = "reuse" /\ Free("rollout", t)
    /\ \/ ~Reusable(th[t].batch) /\ Goto(t, "generate") /\ UNCHANGED refused
       \/ /\ Reusable(th[t].batch)
          /\ IF Valid(cache, version["rollout"]) THEN Serve(t, cache) ELSE Refuse(t)
    /\ UNCHANGED <<setup, version, weights, lock, cache, since>>

\* generate: the version is captured and the whole generation runs under the lock.
GenerateBegins(t) ==
    /\ th[t].pc = "generate" /\ Free(CoreOf(th[t].kind), t)
    /\ lock' = [lock EXCEPT ![CoreOf(th[t].kind)] = t]
    /\ th' = [th EXCEPT ![t].pc = "reading", ![t].next = 1,
                 ![t].res = [batch |-> th[t].batch, reads |-> {},
                             version |-> version[CoreOf(th[t].kind)]]]
    /\ UNCHANGED <<setup, version, weights, cache, since, refused>>

\* The prefill and decode steps read the parameters.
Read(t) ==
    /\ th[t].pc = "reading" /\ th[t].next \in DOMAIN Params
    /\ th' = [th EXCEPT ![t].next = @ + 1, ![t].res.reads =
                 @ \union {weights[CopyOf(CoreOf(th[t].kind))][th[t].next]}]
    /\ UNCHANGED <<setup, version, weights, lock, cache, since, refused>>

Unlock(t, core) == lock' = [lock EXCEPT ![core] = IF @ = t THEN None ELSE @]

GenerateEnds(t) ==
    /\ th[t].pc = "reading" /\ th[t].next \notin DOMAIN Params
    /\ Unlock(t, CoreOf(th[t].kind))
    /\ Goto(t, IF th[t].kind = "eval" THEN "served" ELSE "generated")
    /\ UNCHANGED <<setup, version, weights, cache, since, refused>>

\* Failed requests raise inside the snapshot.
GenerateRaises(t) ==
    /\ th[t].pc = "reading"
    /\ Unlock(t, CoreOf(th[t].kind))
    /\ th' = [th EXCEPT ![t] = Idle]
    /\ UNCHANGED <<setup, version, weights, cache, since, refused>>

\* The two checks outside the lock, before and after scoring.
Check(t) ==
    /\ th[t].pc \in {"generated", "scored"}
    /\ IF Valid(th[t].res, version["rollout"])
       THEN Goto(t, IF th[t].pc = "generated" THEN "scoring" ELSE "commit")
            /\ UNCHANGED refused
       ELSE Refuse(t)
    /\ UNCHANGED <<setup, version, weights, lock, cache, since>>

\* The reward model may be a slow external service, and may fail.
Score(t) ==
    /\ th[t].pc = "scoring"
    /\ Goto(t, "scored") \/ th' = [th EXCEPT ![t] = Idle]
    /\ UNCHANGED <<setup, version, weights, lock, cache, since, refused>>

\* The last check and the publication of the cache, in one policy snapshot.
Commit(t) ==
    /\ th[t].pc = "commit" /\ Free("rollout", t)
    /\ IF Valid(th[t].res, version["rollout"])
       THEN Serve(t, th[t].res) /\ cache' = th[t].res /\ since' = 0
       ELSE Refuse(t) /\ UNCHANGED <<cache, since>>
    /\ UNCHANGED <<setup, version, weights, lock>>

Return(t) ==
    /\ th[t].pc = "served"
    /\ th' = [th EXCEPT ![t] = Idle]
    /\ UNCHANGED <<setup, version, weights, lock, cache, since, refused>>

\* clear_cache takes no lock.
ClearCache(t) ==
    /\ May(t, "clear") /\ cache # None
    /\ cache' = None
    /\ UNCHANGED <<setup, version, weights, lock, since, th, refused>>

\* RolloutEvaluator.evaluate: its own generation, never the cache.
Evaluate(t) ==
    /\ May(t, "eval")
    /\ th' = [th EXCEPT ![t] = [Idle EXCEPT !.pc = "generate", !.kind = "eval"]]
    /\ UNCHANGED <<setup, version, weights, lock, cache, since, refused>>

-----------------------------------------------------------------------------
(* Trainer._step_policy: the optimizer step and the publishers, in the policy *)
(* lock of the rollout core.                                                 *)

UpdateBegins(t) ==
    /\ May(t, "update") /\ Free("rollout", t) /\ version["rollout"] < MaxVersion
    /\ lock' = [lock EXCEPT !["rollout"] = t]
    /\ th' = [th EXCEPT ![t] = [Idle EXCEPT !.pc = "stepping",
                                           !.target = version["rollout"] + 1]]
    /\ UNCHANGED <<setup, version, weights, cache, since, refused>>

\* optimizer.step changes one parameter after the other.
StepParameter(t) ==
    /\ th[t].pc = "stepping" /\ th[t].next \in DOMAIN Params
    /\ weights' = [weights EXCEPT !["model"][th[t].next] = th[t].target]
    /\ th' = [th EXCEPT ![t].next = @ + 1]
    /\ UNCHANGED <<setup, version, lock, cache, since, refused>>

StepEnds(t) ==
    /\ th[t].pc = "stepping" /\ th[t].next \notin DOMAIN Params
    /\ Goto(t, "publishing")
    /\ UNCHANGED <<setup, version, weights, lock, cache, since, refused>>

Replica(t) == Publishers[th[t].pub]

\* A mutant of PublishBegins that copies without the replica's lock.
MutantPublishUnlocked(t) ==
    /\ th[t].pc = "publishing" /\ th[t].pub \in DOMAIN Publishers
    /\ th' = [th EXCEPT ![t].pc = "copying", ![t].next = 1]
    /\ UNCHANGED <<setup, version, weights, lock, cache, since, refused>>

\* P2PCopyPublisher.publish: an update of the replica's core, which is re-entered
\* when it is the one that holds the lock already.
PublishBegins(t) ==
    /\ th[t].pc = "publishing" /\ th[t].pub \in DOMAIN Publishers
    /\ Free(Replica(t), t) /\ th[t].target > version[Replica(t)]
    /\ lock' = [lock EXCEPT ![Replica(t)] = t]
    /\ th' = [th EXCEPT ![t].pc = "copying", ![t].next = 1]
    /\ UNCHANGED <<setup, version, weights, cache, since, refused>>

CopyParameter(t) ==
    /\ th[t].pc = "copying" /\ th[t].next \in DOMAIN Params
    /\ weights' = [weights EXCEPT ![Replica(t)][th[t].next] = weights["model"][th[t].next]]
    /\ th' = [th EXCEPT ![t].next = @ + 1]
    /\ UNCHANGED <<setup, version, lock, cache, since, refused>>

\* The replica's version advances; its lock is released unless it is the outer one.
PublishEnds(t) ==
    /\ th[t].pc = "copying" /\ th[t].next \notin DOMAIN Params
    /\ version' = [version EXCEPT ![Replica(t)] = th[t].target]
    /\ IF Replica(t) = "rollout" THEN UNCHANGED lock ELSE Unlock(t, Replica(t))
    /\ th' = [th EXCEPT ![t].pc = "publishing", ![t].pub = @ + 1]
    /\ UNCHANGED <<setup, weights, cache, since, refused>>

\* The version is published and the lock released.
UpdateEnds(t) ==
    /\ th[t].pc = "publishing" /\ th[t].pub \notin DOMAIN Publishers
    /\ version' = [version EXCEPT !["rollout"] = th[t].target]
    /\ Unlock(t, "rollout")
    /\ Goto(t, "counting")
    /\ UNCHANGED <<setup, weights, cache, since, refused>>

\* RolloutRunner.step, outside the lock.
CountStep(t) ==
    /\ th[t].pc = "counting"
    /\ since' = since + 1
    /\ th' = [th EXCEPT ![t] = Idle]
    /\ UNCHANGED <<setup, version, weights, lock, cache, refused>>

-----------------------------------------------------------------------------

Next == \E t \in Threads :
    \/ \E b \in Batches : Call(t, b)
    \/ Evaluate(t) \/ Reuse(t) \/ GenerateBegins(t) \/ Read(t) \/ GenerateEnds(t) \/ GenerateRaises(t)
    \/ Check(t) \/ Score(t) \/ Commit(t) \/ Return(t) \/ ClearCache(t)
    \/ UpdateBegins(t) \/ StepParameter(t) \/ StepEnds(t)
    \/ PublishBegins(t) \/ CopyParameter(t) \/ PublishEnds(t)
    \/ UpdateEnds(t) \/ CountStep(t)

Spec == Init /\ [][Next]_vars

-----------------------------------------------------------------------------
(* Properties. *)

\* Whatever a rollout or an evaluation was generated with is one version of the
\* weights, the one it is stamped with: no generation overlaps an optimizer step or
\* a copy into its replica, and no replica is ahead of or behind its version
\* (backend.py:256-266).
OneVersionPerRollout ==
    \A t \in Threads : th[t].pc \in {"generated", "scoring", "scored", "commit", "served"} =>
        th[t].res.reads = {th[t].res.version}

\* A rollout that is handed out answers the batch that was asked for and is no
\* older, at the policy snapshot it was handed out in, than the lag allowed
\* (runner.py:167-171).
ServedInTime ==
    \A t \in Threads : th[t].pc = "served" /\ th[t].kind = "call" =>
        th[t].res.batch = th[t].batch /\ Valid(th[t].res, th[t].at)

\* Where one thread rolls out and updates, as the trainer does, a rollout is never
\* refused: the replay cadence refreshes it before it gets too old
\* (train_config.py:629-635).
NeverRefused == (\E t \in Threads : {"call", "update"} \subseteq setup.roles[t]) => ~refused
=============================================================================
