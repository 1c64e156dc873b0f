---------------------------- MODULE ProcessLaunch -----------------------------
(***************************************************************************)
(* How a run starts and stops as a set of processes: the launcher that     *)
(* spawns one process per rank, forwards signals and reaps, and in each    *)
(* rank the handlers a stop request finds while interpreter, process group *)
(* and training context come up and go down (parallel/setup.py,            *)
(* signal_handler.py, TrainSession).  Training itself is one step here;    *)
(* StopAgreement takes it apart.                                           *)
(*                                                                         *)
(* External: a signal whose handler is the default ends its process; a     *)
(* handler runs between any two steps; collectives complete when all ranks *)
(* are in them; ctx.join raises once a rank failed, whoever else is alive; *)
(* an exiting interpreter joins the children it has.  The platform is      *)
(* Linux, the start method spawn or fork.                                  *)
(***************************************************************************)
EXTENDS Naturals, FiniteSets, Sequences

CONSTANTS Ranks,
          Worlds,       \* the sets of ranks a run may have
          Environments, \* what a launcher may find set in its environment
          StartMethods, \* of mp.start_processes
          MaxSignals,   \* bound: signals from outside
          MaxFaults     \* bound: deaths, exceptions and timeouts explored

\* Assumed by the module that gives the constants their values.
LaunchAssumption ==
    /\ Worlds \subseteq (SUBSET Ranks) \ {{}}
    /\ \A e \in Environments : e \subseteq {"elastic", "LOCAL_WORLD_SIZE", "RANK", "WORLD_SIZE"}
    /\ StartMethods \subseteq {"spawn", "fork"}
    /\ MaxSignals \in Nat /\ MaxFaults \in Nat

Sigs == {"TERM", "INT"}

VARIABLES
    world, env, method, mode, \* the run: ranks, environment, start method, strategy
    pc,       \* where each rank is
    handled,  \* signals a rank has its _early_handler for; the others are default
    early,    \* _early_stop of a rank
    active,   \* _active_context of a rank is set
    stop,     \* its context's stop_requested
    notified, \* _parent_notified
    tied,     \* its death signal follows the launcher
    result,   \* how the rank ends: ok, failed, killed
    sig,      \* signals sent to a rank and not yet taken
    lpc,      \* where the launcher is
    lhandler, \* its handler of each signal: default, early, parent
    lsig,     \* signals sent to the launcher and not yet taken
    learly,   \* the launcher's own _early_stop
    received, \* signals its parent handler took
    code,     \* what launch() ends with: ok, error, or the signal it reports
    heard,    \* ghost: ranks whose handler took a signal before they unregistered
    signals, faults

run == <<world, env, method, mode>>
flags == <<early, active, stop, notified>>
rankVars == <<pc, handled, flags, tied, result>>
launcherVars == <<lpc, lhandler, learly, received, code>>
bounds == <<signals, faults>>
vars == <<run, rankVars, sig, launcherVars, lsig, heard, bounds>>

Every(v) == [r \in Ranks |-> v]
Goes(r, to) == pc' = [pc EXCEPT ![r] = to]
Fault == faults < MaxFaults /\ faults' = faults + 1
Alive(r) == pc[r] \notin {"absent", "ended"}
LauncherGone == lpc \in {"done", "dead"}

\* torchelastic, LOCAL_WORLD_SIZE, or RANK with WORLD_SIZE: somebody else starts the ranks.
External(e) == "elastic" \in e \/ "LOCAL_WORLD_SIZE" \in e \/ {"RANK", "WORLD_SIZE"} \subseteq e
Strategy(w, e) == IF External(e) THEN "torchrun"
                  ELSE IF Cardinality(w) = 1 THEN "single" ELSE "local"

Init ==
    /\ world \in Worlds /\ env \in Environments /\ method \in StartMethods
    /\ mode = Strategy(world, env)
    /\ pc = [r \in Ranks |-> IF mode # "local" /\ r \in world THEN "boot" ELSE "absent"]
    /\ handled = Every({}) /\ early = Every(FALSE) /\ active = Every(FALSE)
    /\ stop = Every(FALSE) /\ notified = Every(FALSE) /\ tied = Every(FALSE)
    /\ result = Every("ok") /\ sig = Every({})
    /\ lpc = IF mode = "local" THEN "boot" ELSE "none"
    /\ lhandler = [s \in Sigs |-> "default"] /\ lsig = {} /\ learly = FALSE
    /\ received = <<>> /\ code = "none"
    /\ heard = {} /\ signals = 0 /\ faults = 0

-----------------------------------------------------------------------------
(* A rank process. *)

\* _early_handler for SIGTERM, then for SIGINT; torchrun's variables are read after it.
InstallEarly(r) ==
    /\ pc[r] = "boot" /\ handled[r] # Sigs
    /\ handled' = [handled EXCEPT ![r] = IF @ = {} THEN {"TERM"} ELSE Sigs]
    /\ UNCHANGED <<run, pc, flags, tied, result, sig, launcherVars, lsig, heard, bounds>>

Booted(r) ==
    /\ pc[r] = "boot" /\ handled[r] = Sigs
    /\ IF mode = "torchrun" /\ "RANK" \notin env
       THEN Goes(r, "leaving") /\ result' = [result EXCEPT ![r] = "failed"]
       ELSE Goes(r, IF mode = "local" THEN "tie" ELSE "meet") /\ UNCHANGED result
    /\ UNCHANGED <<run, handled, flags, tied, sig, launcherVars, lsig, heard, bounds>>

\* die_with_parent: ask for a SIGTERM at the launcher's death ...
Tie(r) ==
    /\ pc[r] = "tie" /\ Goes(r, "check")
    /\ tied' = [tied EXCEPT ![r] = TRUE]
    /\ UNCHANGED <<run, handled, flags, result, sig, launcherVars, lsig, heard, bounds>>

\* ... which is too late if it is dead already.
CheckParent(r) ==
    /\ pc[r] = "check" /\ Goes(r, "meet")
    /\ sig' = IF LauncherGone THEN [sig EXCEPT ![r] = @ \cup {"TERM"}] ELSE sig
    /\ UNCHANGED <<run, handled, flags, tied, result, launcherVars, lsig, heard, bounds>>

\* init_process_group returns once every rank has come.
Came == {"meet", "build", "arm", "training"}
Meet(r) ==
    /\ pc[r] = "meet" /\ \A q \in world : pc[q] \in Came
    /\ Goes(r, "build")
    /\ UNCHANGED <<run, handled, flags, tied, result, sig, launcherVars, lsig, heard, bounds>>

\* register_signal_handlers: the context first ...
Activate(r) ==
    /\ pc[r] = "build" /\ Goes(r, "arm")
    /\ active' = [active EXCEPT ![r] = TRUE]
    /\ UNCHANGED <<run, handled, early, stop, notified, tied, result, sig, launcherVars, lsig,
                   heard, bounds>>

\* ... then the handlers, which are in place already, then what came before them.
\* (Mutant: a signal from before the context existed is dropped.)
MutantRegistered(r) ==
    /\ pc[r] = "arm" /\ Goes(r, "training")
    /\ UNCHANGED <<run, handled, flags, tied, result, sig, launcherVars, lsig, heard, bounds>>
Registered(r) ==
    /\ pc[r] = "arm" /\ Goes(r, "training")
    /\ stop' = [stop EXCEPT ![r] = @ \/ early[r]]
    /\ UNCHANGED <<run, handled, early, active, notified, tied, result, sig, launcherVars, lsig,
                   heard, bounds>>

\* The training loop ends in all ranks at once: one asked to stop, or the work is done.
LeaveTogether ==
    /\ \A r \in world : pc[r] = "training"
    /\ pc' = [r \in Ranks |-> IF r \in world THEN "leaving" ELSE pc[r]]
    /\ UNCHANGED <<run, handled, flags, tied, result, sig, launcherVars, lsig, heard, bounds>>
Agree == (\E r \in world : stop[r]) /\ LeaveTogether
WorkDone == LeaveTogether

\* A rank's own exception, or a collective that times out with peers that are only late.
Raises(r) ==
    /\ pc[r] \in Came /\ Fault
    /\ Goes(r, "leaving") /\ result' = [result EXCEPT ![r] = "failed"]
    /\ UNCHANGED <<run, handled, flags, tied, sig, launcherVars, lsig, heard, signals>>

\* A collective that a peer has left or will never reach raises.
Lost(q) == pc[q] \in {"leaving", "closing", "ended"} \/ (pc[q] = "absent" /\ lpc # "spawn")
CollectiveFails(r) ==
    /\ pc[r] \in {"meet", "training"} /\ \E q \in world : Lost(q)
    /\ Goes(r, "leaving") /\ result' = [result EXCEPT ![r] = "failed"]
    /\ UNCHANGED <<run, handled, flags, tied, sig, launcherVars, lsig, heard, bounds>>

\* unregister_signal_handlers, the last step of a session that registered; its previous
\* handlers are the early ones.
Unregister(r) ==
    /\ pc[r] = "leaving" /\ Goes(r, "closing")
    /\ IF active[r]
       THEN /\ active' = [active EXCEPT ![r] = FALSE]
            /\ early' = [early EXCEPT ![r] = FALSE]
            /\ notified' = [notified EXCEPT ![r] = FALSE]
       ELSE UNCHANGED <<active, early, notified>>
    /\ heard' = heard \ {r}
    /\ UNCHANGED <<run, handled, stop, tied, result, sig, launcherVars, lsig, bounds>>

\* destroy_process_group and the end of the process.
Exit(r) ==
    /\ pc[r] = "closing" /\ Goes(r, "ended")
    /\ UNCHANGED <<run, handled, flags, tied, result, sig, launcherVars, lsig, heard, bounds>>

-----------------------------------------------------------------------------
(* Signals and deaths of ranks. *)

\* A rank that has not installed its handlers is ended by the signal.
DefaultEnds(r, s) ==
    /\ s \in sig[r] \ handled[r] /\ Alive(r)
    /\ Goes(r, "ended") /\ result' = [result EXCEPT ![r] = "killed"]
    /\ sig' = [sig EXCEPT ![r] = {}]
    /\ UNCHANGED <<run, handled, flags, tied, launcherVars, lsig, heard, bounds>>

\* _early_handler, with _notify_parent in a rank that a launcher spawned.
Notifies(r) == mode = "local" /\ ~notified[r]
Handle(r, s) ==
    /\ s \in sig[r] \cap handled[r] /\ Alive(r)
    /\ sig' = [sig EXCEPT ![r] = @ \ {s}]
    /\ early' = [early EXCEPT ![r] = TRUE]
    /\ stop' = [stop EXCEPT ![r] = @ \/ active[r]]
    /\ heard' = IF pc[r] = "closing" THEN heard ELSE heard \cup {r}
    /\ IF Notifies(r)
       THEN /\ notified' = [notified EXCEPT ![r] = TRUE]
            /\ lsig' = IF LauncherGone THEN lsig ELSE lsig \cup {s}
       ELSE UNCHANGED <<notified, lsig>>
    /\ UNCHANGED <<run, pc, handled, active, tied, result, launcherVars, bounds>>

\* SIGKILL, or the kernel when memory is out.
Killed(r) ==
    /\ Alive(r) /\ Fault
    /\ Goes(r, "ended") /\ result' = [result EXCEPT ![r] = "killed"]
    /\ UNCHANGED <<run, handled, flags, tied, sig, launcherVars, lsig, heard, signals>>

SignalRank(r, s) ==
    /\ signals < MaxSignals /\ signals' = signals + 1 /\ Alive(r)
    /\ sig' = [sig EXCEPT ![r] = @ \cup {s}]
    /\ UNCHANGED <<run, rankVars, launcherVars, lsig, heard, faults>>

-----------------------------------------------------------------------------
(* The launcher of LocalStrategy. *)

LInstallEarly ==
    /\ lpc = "boot"
    /\ lhandler' = [lhandler EXCEPT
            ![IF lhandler["TERM"] = "default" THEN "TERM" ELSE "INT"] = "early"]
    /\ lpc' = IF lhandler["TERM"] = "default" THEN "boot" ELSE "spawn"
    /\ UNCHANGED <<run, rankVars, sig, lsig, learly, received, code, heard, bounds>>

\* start_processes, one rank after the other; a forked rank starts with the handlers and the
\* flag of its launcher.
Spawn(r) ==
    /\ lpc = "spawn" /\ r \in world /\ pc[r] = "absent"
    /\ Goes(r, "boot")
    /\ IF method = "fork"
       THEN /\ handled' = [handled EXCEPT ![r] = Sigs]
            /\ early' = [early EXCEPT ![r] = learly]
            /\ heard' = IF learly THEN heard \cup {r} ELSE heard
       ELSE UNCHANGED <<handled, early, heard>>
    /\ UNCHANGED <<run, active, stop, notified, tied, result, sig, launcherVars, lsig, bounds>>

Spawned ==
    /\ lpc = "spawn" /\ \A r \in world : pc[r] # "absent"
    /\ lpc' = "arm"
    /\ UNCHANGED <<run, rankVars, sig, lhandler, lsig, learly, received, code, heard, bounds>>

\* A process cannot be started: launch() raises with the ranks that were.
SpawnFails ==
    /\ lpc = "spawn" /\ Fault /\ \E r \in world : pc[r] = "absent"
    /\ lpc' = "atexit" /\ code' = "error"
    /\ UNCHANGED <<run, rankVars, sig, lhandler, lsig, learly, received, heard, signals>>

InstallParent ==
    /\ lpc = "arm"
    /\ lhandler' = [lhandler EXCEPT
            ![IF lhandler["TERM"] = "early" THEN "TERM" ELSE "INT"] = "parent"]
    /\ lpc' = IF lhandler["TERM"] = "early" THEN "arm" ELSE "join"
    /\ UNCHANGED <<run, rankVars, sig, lsig, learly, received, code, heard, bounds>>

\* terminate() of every rank that is alive.
Terminate == sig' = [r \in Ranks |-> IF Alive(r) THEN sig[r] \cup {"TERM"} ELSE sig[r]]

JoinReturns ==
    /\ lpc = "join" /\ \A r \in world : pc[r] = "ended" /\ result[r] = "ok"
    /\ lpc' = "restore"
    /\ UNCHANGED <<run, rankVars, sig, lhandler, lsig, learly, received, code, heard, bounds>>

JoinRaises ==
    /\ lpc = "join" /\ \E r \in world : pc[r] = "ended" /\ result[r] # "ok"
    /\ lpc' = "restore" /\ code' = "error" /\ Terminate
    /\ UNCHANGED <<run, rankVars, lhandler, lsig, learly, received, heard, bounds>>

Restore ==
    /\ lpc = "restore"
    /\ lhandler' = [lhandler EXCEPT
            ![IF lhandler["TERM"] = "parent" THEN "TERM" ELSE "INT"] = "early"]
    /\ lpc' = IF lhandler["TERM"] = "parent" THEN "restore" ELSE "reap"
    /\ UNCHANGED <<run, rankVars, sig, lsig, learly, received, code, heard, bounds>>

\* _reap: whoever outlives the grace period is killed ...
Reap(r) ==
    /\ lpc = "reap" /\ Alive(r)
    /\ Goes(r, "ended") /\ result' = [result EXCEPT ![r] = "killed"]
    /\ UNCHANGED <<run, handled, flags, tied, sig, launcherVars, lsig, heard, bounds>>

\* ... and joined.
LaunchEnds ==
    /\ lpc \in {"reap", "atexit"} /\ \A r \in world : ~Alive(r)
    /\ lpc' = "done"
    /\ code' = IF code = "error" THEN "error"
               ELSE IF received = <<>> THEN "ok" ELSE Head(received)
    /\ UNCHANGED <<run, rankVars, sig, lhandler, lsig, learly, received, heard, bounds>>

-----------------------------------------------------------------------------
(* Signals and the death of the launcher. *)

LauncherLives == lpc \notin {"none", "done", "dead"}

\* Every tied rank gets the signal it asked for.
Orphans == sig' = [r \in Ranks |-> IF tied[r] /\ Alive(r) THEN sig[r] \cup {"TERM"} ELSE sig[r]]

LauncherDies ==
    /\ LauncherLives
    /\ \/ Fault /\ UNCHANGED signals
       \/ (\E s \in lsig : lhandler[s] = "default") /\ UNCHANGED bounds
    /\ lpc' = "dead" /\ lsig' = {} /\ Orphans
    /\ UNCHANGED <<run, rankVars, lhandler, learly, received, code, heard>>

LHandleEarly(s) ==
    /\ LauncherLives /\ s \in lsig /\ lhandler[s] = "early"
    /\ lsig' = lsig \ {s} /\ learly' = TRUE
    /\ UNCHANGED <<run, rankVars, sig, lpc, lhandler, received, code, heard, bounds>>

\* _parent_handler.
\* (Mutant: the signal is remembered and not passed on.)
MutantLHandleParent(s) ==
    /\ LauncherLives /\ s \in lsig /\ lhandler[s] = "parent"
    /\ lsig' = lsig \ {s} /\ received' = Append(received, s)
    /\ UNCHANGED <<run, rankVars, sig, lpc, lhandler, learly, code, heard, bounds>>
LHandleParent(s) ==
    /\ LauncherLives /\ s \in lsig /\ lhandler[s] = "parent"
    /\ lsig' = lsig \ {s} /\ received' = Append(received, s) /\ Terminate
    /\ UNCHANGED <<run, rankVars, lpc, lhandler, learly, code, heard, bounds>>

SignalLauncher(s) ==
    /\ signals < MaxSignals /\ signals' = signals + 1 /\ LauncherLives
    /\ lsig' = lsig \cup {s}
    /\ UNCHANGED <<run, rankVars, sig, launcherVars, heard, faults>>

-----------------------------------------------------------------------------
RankStep(r) ==
    \/ InstallEarly(r) \/ Booted(r) \/ Tie(r) \/ CheckParent(r) \/ Meet(r) \/ Activate(r)
    \/ Registered(r) \/ CollectiveFails(r) \/ Unregister(r) \/ Exit(r)
TakesSignal(r) == \E s \in Sigs : DefaultEnds(r, s) \/ Handle(r, s)
LauncherStep ==
    \/ LInstallEarly \/ (\E r \in Ranks : Spawn(r)) \/ Spawned \/ InstallParent
    \/ JoinReturns \/ JoinRaises \/ Restore \/ (\E r \in Ranks : Reap(r)) \/ LaunchEnds
LauncherTakesSignal == \E s \in Sigs : LHandleEarly(s) \/ LHandleParent(s)

Next ==
    \/ \E r \in Ranks : RankStep(r) \/ TakesSignal(r) \/ Raises(r) \/ Killed(r)
    \/ \E r \in Ranks, s \in Sigs : SignalRank(r, s)
    \/ Agree \/ WorkDone
    \/ LauncherStep \/ LauncherTakesSignal \/ LauncherDies \/ SpawnFails
    \/ \E s \in Sigs : SignalLauncher(s)

Spec == Init /\ [][Next]_vars

\* Processes run and take the signals they are sent, an agreed stop ends the training loop, a
\* broken collective raises.  Nothing says that training would end by itself.
FairSpec ==
    /\ Spec
    /\ \A r \in Ranks : WF_vars(RankStep(r)) /\ WF_vars(TakesSignal(r))
    /\ WF_vars(Agree) /\ WF_vars(LauncherStep) /\ WF_vars(LauncherTakesSignal)

-----------------------------------------------------------------------------
TypeOK ==
    /\ world \in Worlds /\ env \in Environments /\ method \in StartMethods
    /\ mode \in {"torchrun", "single", "local"}
    /\ pc \in [Ranks -> {"absent", "boot", "tie", "check", "meet", "build", "arm", "training",
                         "leaving", "closing", "ended"}]
    /\ handled \in [Ranks -> SUBSET Sigs]
    /\ early \in [Ranks -> BOOLEAN] /\ active \in [Ranks -> BOOLEAN]
    /\ stop \in [Ranks -> BOOLEAN] /\ notified \in [Ranks -> BOOLEAN]
    /\ tied \in [Ranks -> BOOLEAN]
    /\ result \in [Ranks -> {"ok", "failed", "killed"}]
    /\ sig \in [Ranks -> SUBSET Sigs]
    /\ lpc \in {"none", "boot", "spawn", "arm", "join", "restore", "reap", "atexit", "done",
                "dead"}
    /\ lhandler \in [Sigs -> {"default", "early", "parent"}]
    /\ lsig \subseteq Sigs /\ learly \in BOOLEAN /\ received \in Seq(Sigs)
    /\ code \in {"none", "ok", "error"} \cup Sigs
    /\ heard \subseteq Ranks /\ signals \in 0..MaxSignals /\ faults \in 0..MaxFaults

\* A stop request that reached a rank at any time since its first handlers, while it waited for
\* its peers, built its context or registered, is known to the context it trains with
\* (register_signal_handlers against _early_handler).
StopIsKept == \A r \in heard : pc[r] = "training" => stop[r]

\* launch() comes back only when no rank is left, and tells the truth: "ok" and a reported
\* signal mean that every rank finished, an exception that one did not; a reported signal was
\* received (LocalStrategy.launch, _reap).
LaunchTellsTheTruth ==
    lpc = "done" =>
        /\ \A r \in world : ~Alive(r)
        /\ code = "error" <=> \E r \in world : pc[r] = "absent" \/ result[r] # "ok"
        /\ code \in Sigs => received # <<>> /\ code = Head(received)
        /\ code = "ok" => received = <<>>

Over == /\ \A r \in world : ~Alive(r)
        /\ ~LauncherLives

\* A launcher that dies, even between a rank's start and its prctl, leaves no rank behind
\* (die_with_parent).
OrphansEnd == (lpc = "dead") ~> Over

\* Whoever hears the first signal, every process ends: a rank through the agreement of all, the
\* launcher by passing it on (_early_handler, _notify_parent, _parent_handler).
StopEndsTheRun == (heard # {} \/ received # <<>>) ~> Over

\* docs/guides/distributed.md: "The parent process manages signal forwarding
\* (SIGTERM/SIGINT)".  The signals it takes while it starts ranks are not forwarded.
LauncherForwards == learly ~> Over
=============================================================================
