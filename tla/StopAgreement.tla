---------------------------- MODULE StopAgreement -----------------------------
(***************************************************************************)
(* Several training ranks and their launcher: the collectives of the       *)
(* training loop, the agreement on a stop request, the barriers around a   *)
(* checkpoint, and how signals, exceptions, deaths and timeouts end a run  *)
(* (trainer.py, session.py, callbacks/checkpoint.py, executor/base.py,     *)
(* signal_handler.py, parallel/setup.py).                                  *)
(*                                                                         *)
(* A collective is external: it completes when every rank waits in one of  *)
(* its kind, and raises in a rank when a peer has ended or waits in        *)
(* another kind until the timeout of the process group, or is merely late. *)
(* Nothing tells two barriers apart, or two reductions of the stop flag.   *)
(***************************************************************************)
EXTENDS Integers, FiniteSets

CONSTANTS WorldSize,    \* ranks; rank 0 writes checkpoints
          Mode,         \* "window" (sync) or "round" (async_round)
          NEpochs,      \* n_epoch
          NWindows,     \* updates of an epoch
          CkptInterval, \* ckpt_interval
          MaxFaults,    \* bound: exceptions, deaths and timeouts explored
          MaxSignals    \* bound: signals from outside

ASSUME SizeAssumption ==
    /\ {WorldSize, NEpochs, NWindows, CkptInterval} \subseteq Nat \ {0}
    /\ {MaxFaults, MaxSignals} \subseteq Nat
    /\ Mode \in {"window", "round"}

Ranks == 0..(WorldSize - 1)

VARIABLES
    pc,       \* where each rank is
    epoch, window, step, \* the loop's epoch, updates of it, optimizer steps
    safe,     \* checkpoint_safe
    stop,     \* stop_requested
    agreed,   \* stop_agreed
    vote,     \* the stop flag a rank contributes
    why,      \* what a save is for: interval, shutdown, end
    last, saved, \* of the checkpoint callback
    outcome,  \* ok; failed: an exception left the loop; cleanup: a shutdown step raised
    disk,     \* steps with a published checkpoint
    sig,      \* ranks with an undelivered signal
    notified, \* ranks that forwarded a signal to the launcher
    forward,  \* the launcher has a signal to forward
    launcher, \* join, cleanup, done
    faults, signals

progress == <<epoch, window, step>>
flags == <<stop, agreed>>
callback == <<last, saved>>
signalVars == <<sig, notified, forward, launcher, signals>>
vars == <<pc, progress, safe, flags, vote, why, callback, outcome, disk, signalVars,
          faults>>

Every(v) == [r \in Ranks |-> v]
Fault == faults < MaxFaults /\ faults' = faults + 1
Goes(r, to) == pc' = [pc EXCEPT ![r] = to]

Collective == [loopAgree |-> "flag", epochAgree |-> "flag", stepAgree |-> "flag",
               grad |-> "gradients",
               enter |-> "barrier", leave |-> "barrier", final |-> "barrier"]
Waits(r) == pc[r] \in DOMAIN Collective
Ended(r) == pc[r] \in {"exited", "crashed", "killed"}

Init ==
    /\ pc = Every("loop")
    /\ epoch = Every(0) /\ window = Every(0) /\ step = Every(0)
    /\ safe = Every(TRUE) /\ stop = Every(FALSE) /\ agreed = Every(FALSE)
    /\ vote = Every(FALSE) /\ why = Every("interval")
    /\ last = Every(0) /\ saved = Every(FALSE)
    /\ outcome = Every("ok") /\ disk = {}
    /\ sig = {} /\ notified = {} /\ forward = FALSE /\ launcher = "join"
    /\ faults = 0 /\ signals = 0

-----------------------------------------------------------------------------
(* The training loop of a rank. *)

\* _agree_stop enters a reduction of the flag as it is now; an async round run
\* reads its own flag instead.
AskStop(r, at, otherwise) ==
    IF Mode = "window"
    THEN Goes(r, at) /\ vote' = [vote EXCEPT ![r] = stop[r]]
    ELSE Goes(r, otherwise) /\ UNCHANGED vote

ShouldStop(r) == IF Mode = "window" THEN agreed[r] ELSE stop[r]

Loop(r) ==
    /\ pc[r] = "loop"
    /\ IF epoch[r] >= NEpochs \/ ShouldStop(r)
       THEN Goes(r, "shutdown") /\ UNCHANGED vote
       ELSE AskStop(r, "loopAgree", "next")
    /\ UNCHANGED <<progress, safe, flags, why, callback, outcome, disk, signalVars, faults>>

EpochBegins(r) ==
    /\ pc[r] = "epoch"
    /\ AskStop(r, "epochAgree", "next")
    /\ UNCHANGED <<progress, safe, flags, why, callback, outcome, disk, signalVars, faults>>

EpochDone(r) == window[r] = NWindows
NextWindow(r) ==
    /\ pc[r] = "next"
    /\ IF ShouldStop(r) \/ EpochDone(r)
       THEN /\ Goes(r, "loop")
            /\ epoch' = [epoch EXCEPT ![r] = @ + 1]
            /\ window' = [window EXCEPT ![r] = 0]
       ELSE Goes(r, "fetch") /\ UNCHANGED <<epoch, window>>
    /\ UNCHANGED <<step, safe, flags, vote, why, callback, outcome, disk, signalVars, faults>>

\* Loading, forward and the local part of backward.
Fetch(r) ==
    /\ pc[r] = "fetch"
    /\ safe' = [safe EXCEPT ![r] = FALSE]
    /\ Goes(r, "grad")
    /\ UNCHANGED <<progress, flags, vote, why, callback, outcome, disk, signalVars, faults>>

\* The optimizer step, and the interval save of after_optimizer_step.
Due(r) == step[r] + 1 - last[r] >= CkptInterval
Commit(r) ==
    /\ pc[r] = "commit"
    /\ step' = [step EXCEPT ![r] = @ + 1]
    /\ window' = [window EXCEPT ![r] = @ + 1]
    /\ safe' = [safe EXCEPT ![r] = TRUE]
    /\ IF Due(r)
       THEN Goes(r, "enter") /\ why' = [why EXCEPT ![r] = "interval"]
       ELSE Goes(r, "ask") /\ UNCHANGED why
    /\ UNCHANGED <<epoch, flags, vote, callback, outcome, disk, signalVars, faults>>

Ask(r) ==
    /\ pc[r] = "ask"
    /\ AskStop(r, "stepAgree", "next")
    /\ UNCHANGED <<progress, safe, flags, why, callback, outcome, disk, signalVars, faults>>

-----------------------------------------------------------------------------
(* Saving and shutting down. *)

SaveFor(r, reason, otherwise) ==
    IF safe[r]
    THEN Goes(r, "enter") /\ why' = [why EXCEPT ![r] = reason]
    ELSE Goes(r, otherwise) /\ UNCHANGED why

\* Between the barriers rank 0 publishes the checkpoint.
Write(r) ==
    /\ pc[r] = "write"
    /\ disk' = IF r = 0 THEN disk \cup {step[r]} ELSE disk
    /\ Goes(r, "leave")
    /\ UNCHANGED <<progress, safe, flags, vote, why, callback, outcome, signalVars, faults>>

\* on_shutdown saves what is not saved yet; a run that never saved always does.
MutantUnsaved(r) == step[r] # last[r]
Unsaved(r) == ~saved[r] \/ step[r] # last[r]
OnShutdown(r) ==
    /\ pc[r] = "shutdown"
    /\ IF Unsaved(r) THEN SaveFor(r, "shutdown", "trainEnd")
                     ELSE Goes(r, "trainEnd") /\ UNCHANGED why
    /\ UNCHANGED <<progress, safe, flags, vote, callback, outcome, disk, signalVars, faults>>

OnTrainEnd(r) ==
    /\ pc[r] = "trainEnd"
    /\ IF step[r] # last[r] THEN SaveFor(r, "end", "ending")
                            ELSE Goes(r, "ending") /\ UNCHANGED why
    /\ UNCHANGED <<progress, safe, flags, vote, callback, outcome, disk, signalVars, faults>>

\* The last barrier is for sessions that no exception ended.
Ending(r) ==
    /\ pc[r] = "ending"
    /\ Goes(r, IF outcome[r] = "failed" THEN "crashed" ELSE "final")
    /\ UNCHANGED <<progress, safe, flags, vote, why, callback, outcome, disk, signalVars,
                   faults>>

-----------------------------------------------------------------------------
(* Collectives. *)

Agreement(r) == \E s \in Ranks : vote[s]

AfterSave(r) == [interval |-> "ask", shutdown |-> "trainEnd", end |-> "ending"][why[r]]
Passes(r) ==
    CASE pc[r] = "loopAgree"  -> IF Agreement(r) THEN "shutdown" ELSE "epoch"
      [] pc[r] \in {"epochAgree", "stepAgree"} -> "next"
      [] pc[r] = "grad"       -> "commit"
      [] pc[r] = "enter"      -> "write"
      [] pc[r] = "leave"      -> AfterSave(r)
      [] pc[r] = "final"      -> IF outcome[r] = "ok" THEN "exited" ELSE "crashed"

\* Every rank waits in a collective of one kind: all of them go on.
Complete ==
    /\ \A r \in Ranks : Waits(r) /\ Collective[pc[r]] = Collective[pc[0]]
    /\ pc' = [r \in Ranks |-> Passes(r)]
    /\ IF Collective[pc[0]] = "flag"
       THEN /\ stop' = [r \in Ranks |-> stop[r] \/ Agreement(r)]
            /\ agreed' = [r \in Ranks |-> agreed[r] \/ Agreement(r)]
       ELSE UNCHANGED flags
    /\ last' = [r \in Ranks |-> IF pc[r] = "leave" THEN step[r] ELSE last[r]]
    /\ saved' = [r \in Ranks |-> saved[r] \/ pc[r] = "leave"]
    /\ UNCHANGED <<progress, safe, vote, why, outcome, disk, signalVars, faults>>

\* An exception: it leaves the training loop, or ends a step of the shutdown,
\* whose remaining steps are still run.
InSave(r) == pc[r] \in {"enter", "write", "leave"} /\ why[r] # "interval"
Raise(r) ==
    /\ IF InSave(r) \/ pc[r] = "final"
       THEN /\ outcome' = [outcome EXCEPT ![r] = IF @ = "failed" THEN @ ELSE "cleanup"]
            /\ Goes(r, IF pc[r] = "final" THEN "crashed" ELSE AfterSave(r))
       ELSE /\ outcome' = [outcome EXCEPT ![r] = "failed"]
            /\ Goes(r, "shutdown")
    /\ UNCHANGED <<progress, flags, vote, why, callback, disk, signalVars>>

\* The peer that is missing has ended, or waits in another collective.
Hopeless(r) ==
    \E s \in Ranks : Ended(s) \/ (Waits(s) /\ Collective[pc[s]] # Collective[pc[r]])
CollectiveFails(r) ==
    /\ Waits(r) /\ Hopeless(r)
    /\ Raise(r)
    /\ UNCHANGED <<safe, faults>>

\* A peer that is late, the loader, the update, or the save raises.
TimesOut(r) == Waits(r) /\ Fault /\ Raise(r) /\ UNCHANGED safe
StepRaises(r) ==
    /\ pc[r] \in {"fetch", "commit"} \/ (pc[r] = "write" /\ r = 0)
    /\ Fault /\ Raise(r)
    /\ UNCHANGED safe

Dies(r) ==
    /\ ~Ended(r) /\ Fault
    /\ Goes(r, "killed")
    /\ UNCHANGED <<progress, safe, flags, vote, why, callback, outcome, disk, signalVars>>

-----------------------------------------------------------------------------
(* Signals and the launcher. *)

\* From outside, to one rank or to the launcher.
Signal ==
    /\ signals < MaxSignals /\ signals' = signals + 1
    /\ \/ (\E r \in Ranks : ~Ended(r) /\ sig' = sig \cup {r}) /\ UNCHANGED forward
       \/ forward' = TRUE /\ UNCHANGED sig
    /\ UNCHANGED <<pc, progress, safe, flags, vote, why, callback, outcome, disk, notified,
                   launcher, faults>>

\* The handler sets a flag, and tells the launcher once.
Deliver(r) ==
    /\ r \in sig /\ ~Ended(r)
    /\ sig' = sig \ {r}
    /\ stop' = [stop EXCEPT ![r] = TRUE]
    /\ notified' = notified \cup {r}
    /\ forward' = (forward \/ r \notin notified)
    /\ UNCHANGED <<pc, progress, safe, agreed, vote, why, callback, outcome, disk, launcher,
                   signals, faults>>

Living == {r \in Ranks : ~Ended(r)}
Forward ==
    /\ forward /\ launcher = "join"
    /\ forward' = FALSE /\ sig' = Living
    /\ UNCHANGED <<pc, progress, safe, flags, vote, why, callback, outcome, disk, notified,
                   launcher, signals, faults>>

\* A rank that failed ends the join; the others are terminated, then killed.
Observe ==
    /\ launcher = "join" /\ \E r \in Ranks : pc[r] \in {"crashed", "killed"}
    /\ launcher' = "cleanup" /\ sig' = Living
    /\ UNCHANGED <<pc, progress, safe, flags, vote, why, callback, outcome, disk, notified,
                   forward, signals, faults>>

Kill ==
    /\ launcher = "cleanup"
    /\ \E r \in Living : Goes(r, "killed")
    /\ UNCHANGED <<progress, safe, flags, vote, why, callback, outcome, disk, signalVars,
                   faults>>

Done ==
    /\ launcher # "done" /\ Living = {}
    /\ launcher' = "done"
    /\ UNCHANGED <<pc, progress, safe, flags, vote, why, callback, outcome, disk, sig,
                   notified, forward, signals, faults>>

-----------------------------------------------------------------------------
RankStep(r) ==
    \/ Loop(r) \/ EpochBegins(r) \/ NextWindow(r) \/ Fetch(r) \/ Commit(r) \/ Ask(r)
    \/ Write(r) \/ OnShutdown(r) \/ OnTrainEnd(r) \/ Ending(r)
    \/ CollectiveFails(r)
RankFault(r) == TimesOut(r) \/ StepRaises(r) \/ Dies(r)
LauncherStep == Observe \/ Kill \/ Done

Next ==
    \/ Complete \/ LauncherStep \/ Forward \/ Signal
    \/ \E r \in Ranks : RankStep(r) \/ RankFault(r) \/ Deliver(r)

Spec == Init /\ [][Next]_vars

\* Ranks run, collectives return, and the launcher watches its ranks; a signal
\* may take for ever to be delivered or forwarded.
FairSpec ==
    /\ Spec
    /\ \A r \in Ranks : WF_vars(RankStep(r))
    /\ WF_vars(Complete) /\ WF_vars(LauncherStep)

-----------------------------------------------------------------------------
(* Properties. *)

\* Every variable of ranks and launcher has its type.
TypeOK ==
    /\ pc \in [Ranks -> DOMAIN Collective \cup
                  {"loop", "epoch", "next", "fetch", "commit", "ask", "write", "shutdown",
                   "trainEnd", "ending", "exited", "crashed", "killed"}]
    /\ epoch \in [Ranks -> 0..(NEpochs + 1)] /\ window \in [Ranks -> 0..NWindows]
    /\ step \in [Ranks -> 0..(NEpochs * NWindows)] /\ last \in [Ranks -> Nat]
    /\ \A f \in {safe, stop, agreed, vote, saved} : f \in [Ranks -> BOOLEAN]
    /\ why \in [Ranks -> {"interval", "shutdown", "end"}]
    /\ outcome \in [Ranks -> {"ok", "failed", "cleanup"}]
    /\ disk \subseteq Nat /\ sig \subseteq Ranks /\ notified \subseteq Ranks
    /\ forward \in BOOLEAN /\ launcher \in {"join", "cleanup", "done"}

\* Whenever and wherever signals arrive, as long as nothing fails no rank waits
\* for one that has ended or waits for something else, "so none leaves a peer
\* mid-collective" (trainer.py:184); ranks leave the loop on the same step.
Left(r) == InSave(r) \/ pc[r] \in {"shutdown", "trainEnd", "ending", "final", "exited"}
NobodyStranded ==
    faults = 0 =>
        \A r, s \in Ranks :
            /\ Left(r) /\ Left(s) => step[r] = step[s]
            /\ Waits(r) => ~Ended(s)
            /\ Waits(r) /\ Waits(s) => pc[s] = pc[r] /\ step[s] = step[r]

\* While rank 0 gathers and writes a checkpoint every rank that lives holds the
\* weights of its step, whatever failed before; and a run of which all ranks
\* report success, stopped or complete, has its last step on disk.
CheckpointsAreCommon ==
    /\ pc[0] = "write" =>
         \A s \in Ranks : Ended(s) \/ (step[s] = step[0] /\ pc[s] # "commit")
    /\ (\A r \in Ranks : pc[r] = "exited") => \A r \in Ranks : step[r] \in disk

\* At every moment the ranks agree: on what they wait for, on the step they leave at, and on
\* what is written.
RanksAgree == TypeOK /\ NobodyStranded /\ CheckpointsAreCommon

\* Whatever fails, every rank ends, and so does the launcher.
EverythingEnds == <>(launcher = "done")
=============================================================================
