------------------------------ MODULE MCTraining ------------------------------
(* A training run as it starts, stops, fails and resumes, for TLC: the cursor *)
(* of one run and its restarts (TrainCursor), and the rounds its learner and   *)
(* rollout workers exchange (AsyncRound).  The parts share no state, so their  *)
(* behaviours are explored side by side: "part" says which one a behaviour is  *)
(* of.  The variables of AsyncRound keep the value None in the other part;     *)
(* those of TrainCursor an initial state, in which its property says nothing.  *)
EXTENDS TrainCursor

CONSTANT Parts  \* the parts a run explores

\* Configurations, and the places a run under them may be hit in.
Config(mode, tail, updates, len, interval, resume, hit) ==
    [mode |-> mode, tail |-> tail, updates |-> updates, len |-> len, batch |-> 2,
     interval |-> interval, resume |-> resume, hit |-> hit]

Flush == Config("window", "flush", 2, 5, 3, "any", {"epoch_end"})
Short == Config("window", "flush", 2, 3, 3, "latest", {"epoch_end"})
Drop == Config("window", "drop", 1, 5, 2, "any", {})
Round == Config("round", "flush", 1, 5, 2, "any", {"epoch_end"})
AllModes == {Flush, Short, Drop, Round}

RoundSignal == {Config("round", "flush", 1, 4, 2, "latest", {"fetch"})}

VARIABLES
    part,
    \* AsyncRound
    maxLag, lpc, sub, rEpoch, policy, rWeights, view, fanout, handle, active, rounds,
    requests, expected, awaiting, replies, sample, rollout, rConsumed, trained, rStop,
    wpc, label, held, command, inbox, outbox, rFaults

TwoBatches == <<3, 2>>   \* the last batch of an epoch is short

R == INSTANCE AsyncRound WITH
        Workers <- 3, Batches <- TwoBatches, MaxLags <- {0, 1}, ResultFits <- FALSE,
        MaxFaults <- 3, Nothing <- None,
        epoch <- rEpoch, weights <- rWeights, cursor <- sample, consumed <- rConsumed,
        stop <- rStop, faults <- rFaults

ASSUME TrainingAssumption == Parts \subseteq {"run", "rounds"} /\ R!RoundsAssumption

roundVars == <<maxLag, lpc, sub, rEpoch, policy, rWeights, view, fanout, handle, active,
               rounds, requests, expected, awaiting, replies, sample, rollout, rConsumed,
               trained, rStop, wpc, label, held, command, inbox, outbox, rFaults>>
allVars == <<part, vars, roundVars>>

NoRun == Init /\ config = CHOOSE c \in Configs : TRUE
NoRounds == /\ maxLag = None /\ lpc = None /\ sub = None /\ rEpoch = None /\ policy = None
            /\ rWeights = None /\ view = None /\ fanout = None /\ handle = None
            /\ active = None /\ rounds = None /\ requests = None /\ expected = None
            /\ awaiting = None /\ replies = None /\ sample = None /\ rollout = None
            /\ rConsumed = None /\ trained = None /\ rStop = None /\ wpc = None
            /\ label = None /\ held = None /\ command = None /\ inbox = None
            /\ outbox = None /\ rFaults = None
TrainingInit ==
    /\ part \in Parts
    /\ IF part = "run" THEN Init ELSE NoRun
    /\ IF part = "rounds" THEN R!Init ELSE NoRounds

TrainingNext ==
    /\ IF part = "run" THEN Next ELSE UNCHANGED vars
    /\ IF part = "rounds" THEN R!Next ELSE UNCHANGED roundVars
    /\ UNCHANGED part

\* The fairness of each part, as its FairSpec states it: a process runs, and whoever operates a
\* run restarts it; learner and workers that can run do.
OfRun(A) == part = "run" /\ A /\ UNCHANGED <<part, config, roundVars>>
OfRounds(A) == part = "rounds" /\ A /\ UNCHANGED <<part, maxLag, vars>>

TrainingSpec ==
    /\ TrainingInit /\ [][TrainingNext]_allVars
    /\ WF_allVars(OfRun(RunStep \/ AfterStepRaises)) /\ WF_allVars(OfRun(Restart))
    /\ WF_allVars(OfRounds(R!LearnerStep))
    /\ \A w \in 1..3 : WF_allVars(OfRounds(R!WorkerStep(w)))

-----------------------------------------------------------------------------
(* The properties of the parts, each stated and explained in its module;     *)
(* CursorIsWhole of TrainCursor is checked as it is.                         *)

\* AsyncRound: whatever is retried, late or dead, a round that is trained is whole and of
\* weights recent enough, batches are trained in order with the seeds of a resumed run, and
\* no process outlives its learner.
RoundsAreWhole ==
    part = "rounds" =>
        /\ R!TypeOK /\ R!RoundsAreWhole /\ R!TrainedInOrder
        /\ R!OneCommand /\ R!ClosedMeansDone

\* TrainCursor: a run restarted from its latest checkpoint after every stop, failure and kill
\* ends up having trained the whole schedule.  AsyncRound: whatever dies, raises or is late, the
\* learner comes to its end.
TrainingEnds ==
    /\ (part = "run" /\ config.resume = "latest") => <>(part = "run" /\ Trained)
    /\ (part = "rounds") => R!LearnerEnds
=============================================================================
