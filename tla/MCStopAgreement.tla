--------------------------- MODULE MCStopAgreement ---------------------------
(* How runs of several processes stop, for TLC: the collectives of training   *)
(* ranks (StopAgreement), and the start and end of the processes themselves   *)
(* (ProcessLaunch).  The parts share no state, so their behaviours are         *)
(* explored side by side: "part" says which one a behaviour is of.  The        *)
(* variables of ProcessLaunch keep the value None in the other part; those of  *)
(* StopAgreement their initial state, in which its property says nothing.      *)
EXTENDS StopAgreement, Sequences

CONSTANTS Parts,                             \* the parts a run explores
          Worlds, Environments, StartMethods, LaunchSignals, LaunchFaults, \* of ProcessLaunch
          None

VARIABLES
    part,
    world, env, method, mode, rankPc, handled, early, active, rankStop, rankNotified, tied,
    result, rankSig, lpc, lhandler, lsig, learly, received, code, heard, launchSignals,
    launchFaults

L == INSTANCE ProcessLaunch WITH
        MaxSignals <- LaunchSignals, MaxFaults <- LaunchFaults,
        pc <- rankPc, stop <- rankStop, notified <- rankNotified, sig <- rankSig,
        signals <- launchSignals, faults <- launchFaults

ASSUME StopAssumption == Parts \subseteq {"stop", "launch"} /\ L!LaunchAssumption

launchVars == <<world, env, method, mode, rankPc, handled, early, active, rankStop,
                rankNotified, tied, result, rankSig, lpc, lhandler, lsig, learly, received,
                code, heard, launchSignals, launchFaults>>
allVars == <<part, vars, launchVars>>

NoLaunch == /\ world = None /\ env = None /\ method = None /\ mode = None /\ rankPc = None
            /\ handled = None /\ early = None /\ active = None /\ rankStop = None
            /\ rankNotified = None /\ tied = None /\ result = None /\ rankSig = None
            /\ lpc = None /\ lhandler = None /\ lsig = None /\ learly = None
            /\ received = None /\ code = None /\ heard = None /\ launchSignals = None
            /\ launchFaults = None

StoppingInit ==
    /\ part \in Parts
    /\ Init
    /\ IF part = "launch" THEN L!Init ELSE NoLaunch

StoppingNext ==
    /\ IF part = "stop" THEN Next ELSE UNCHANGED vars
    /\ IF part = "launch" THEN L!Next ELSE UNCHANGED launchVars
    /\ UNCHANGED part

\* The fairness of each part, as its module states it.
OfStop(A) == part = "stop" /\ A /\ UNCHANGED <<part, launchVars>>
OfLaunch(A) == part = "launch" /\ A /\ UNCHANGED <<part, vars>>

StoppingSpec ==
    /\ StoppingInit /\ [][StoppingNext]_allVars
    /\ \A r \in Ranks : WF_allVars(OfStop(RankStep(r)))
    /\ WF_allVars(OfStop(Complete)) /\ WF_allVars(OfStop(LauncherStep))
    /\ \A r \in Ranks : WF_allVars(OfLaunch(L!RankStep(r)))
    /\ \A r \in Ranks : WF_allVars(OfLaunch(L!TakesSignal(r)))
    /\ WF_allVars(OfLaunch(L!Agree)) /\ WF_allVars(OfLaunch(L!LauncherStep))
    /\ WF_allVars(OfLaunch(L!LauncherTakesSignal))

-----------------------------------------------------------------------------
(* The properties of the parts, each stated and explained in its module;      *)
(* RanksAgree of StopAgreement is checked as it is.                           *)

\* ProcessLaunch: a stop request that reached a rank at any time since its first handlers is
\* known to the context it trains with; launch() comes back only when no rank is left, and
\* tells what happened to them.
LaunchIsSound ==
    part = "launch" => L!TypeOK /\ L!StopIsKept /\ L!LaunchTellsTheTruth

\* What makes a run come to an end: in StopAgreement its work is finite; in ProcessLaunch a
\* signal has been heard or the launcher is dead.
Called == IF part = "stop" THEN TRUE
          ELSE lpc = "dead" \/ heard # {} \/ received # <<>>
Gone == IF part = "stop" THEN launcher = "done" ELSE L!Over

\* StopAgreement: whatever fails, every rank ends, and so does the launcher.  ProcessLaunch:
\* whoever hears the first signal every process ends, and a launcher that dies, even between
\* a rank's start and its prctl, leaves no rank behind.
RunsEnd == Called ~> Gone
=============================================================================
