------------------------- MODULE ProcessLaunchProofs --------------------------
(***************************************************************************)
(* ProcessLaunch for any number of ranks, any worlds and environments, and *)
(* any number of signals and faults: no stop request is lost between a     *)
(* rank's first handlers and its training loop, and launch() returns when  *)
(* no rank is left and says how they ended.                                *)
(***************************************************************************)
EXTENDS ProcessLaunch, TLAPS

USE DEF run, flags, rankVars, launcherVars, bounds

\* A request is remembered (early) until the context can take it (active), and the context
\* that trains has taken it.
SignalsOK ==
    /\ \A r \in heard : early[r] /\ pc[r] # "absent"
    /\ \A r \in Ranks : pc[r] \in {"arm", "training"} => active[r]
    /\ \A r \in Ranks : pc[r] = "training" /\ early[r] => stop[r]

AllWell == \A r \in world : pc[r] = "ended" /\ result[r] = "ok"
OneFailed == \E r \in world : pc[r] = "ended" /\ result[r] # "ok"
OneMissing == \E r \in world : pc[r] = "absent"

\* What launch() will report, from the moment ctx.join decided it.
CodeOK ==
    /\ lpc \in {"none", "boot", "spawn", "arm", "join"} => code = "none"
    /\ lpc \in {"restore", "reap"} => \/ code = "none" /\ AllWell
                                      \/ code = "error" /\ OneFailed
    /\ lpc = "atexit" => code = "error" /\ OneMissing

IInv == TypeOK /\ SignalsOK /\ CodeOK /\ LaunchTellsTheTruth

\* The strategy is one of the three.
LEMMA StrategyType == \A w, e : Strategy(w, e) \in {"torchrun", "single", "local"}
  BY DEF Strategy

\* The launch as it begins, whoever starts the ranks.
LEMMA Initially ==
  ASSUME LaunchAssumption, Init
  PROVE  IInv
  <1> USE DEF Init, Every, Sigs
  <1>1. mode \in {"torchrun", "single", "local"}
    BY StrategyType
  <1>a. /\ pc \in [Ranks -> {"absent", "boot"}] /\ result \in [Ranks -> {"ok"}]
        /\ handled \in [Ranks -> SUBSET Sigs] /\ sig \in [Ranks -> SUBSET Sigs]
    OBVIOUS
  <1>b. /\ lpc \in {"none", "boot"} /\ received \in Seq(Sigs)
        /\ signals \in 0..MaxSignals /\ faults \in 0..MaxFaults
    BY DEF LaunchAssumption
  <1>2. TypeOK
    BY <1>1, <1>a, <1>b DEF TypeOK
  <1>3. SignalsOK
    BY DEF SignalsOK
  <1>4. CodeOK
    BY <1>1 DEF CodeOK
  <1>5. LaunchTellsTheTruth
    BY <1>1 DEF LaunchTellsTheTruth
  <1> QED
    BY <1>2, <1>3, <1>4, <1>5 DEF IInv

\* Types, action by action: the steps of a rank, the signals of a rank, the launcher's.
LEMMA RankTypes ==
  ASSUME LaunchAssumption, TypeOK, NEW r \in Ranks,
         RankStep(r) \/ Raises(r) \/ Killed(r) \/ TakesSignal(r)
  PROVE  TypeOK'
  <1> USE DEF TypeOK, Goes, Fault, Sigs
  <1>1. CASE InstallEarly(r)
    BY <1>1 DEF InstallEarly
  <1>2. CASE Booted(r)
    BY <1>2 DEF Booted
  <1>3. CASE Tie(r)
    BY <1>3 DEF Tie
  <1>4. CASE CheckParent(r)
    BY <1>4 DEF CheckParent
  <1>5. CASE Meet(r)
    BY <1>5 DEF Meet
  <1>6. CASE Activate(r)
    BY <1>6 DEF Activate
  <1>7. CASE Registered(r)
    BY <1>7 DEF Registered
  <1>8. CASE CollectiveFails(r)
    BY <1>8 DEF CollectiveFails
  <1>9. CASE Unregister(r)
    BY <1>9, ZenonT(60) DEF Unregister
  <1>10. CASE Exit(r)
    BY <1>10 DEF Exit
  <1>11. CASE Raises(r)
    BY <1>11 DEF Raises, LaunchAssumption
  <1>12. CASE Killed(r)
    BY <1>12 DEF Killed, LaunchAssumption
  <1>13. ASSUME NEW s \in Sigs, DefaultEnds(r, s)
         PROVE  TypeOK'
    BY <1>13 DEF DefaultEnds
  <1>14. ASSUME NEW s \in Sigs, Handle(r, s)
         PROVE  TypeOK'
    <2>1. sig' \in [Ranks -> SUBSET Sigs] /\ early' \in [Ranks -> BOOLEAN]
      BY <1>14 DEF Handle
    <2>2. stop' \in [Ranks -> BOOLEAN]
      BY <1>14 DEF Handle
    <2>3. lsig' \subseteq Sigs
      <3>1. lsig' = lsig \/ lsig' = lsig \cup {s}
        BY <1>14, Zenon DEF Handle
      <3> QED
        BY <3>1
    <2>5. heard' \subseteq Ranks
      BY <1>14 DEF Handle
    <2>4. notified' \in [Ranks -> BOOLEAN]
      BY <1>14 DEF Handle
    <2> QED
      BY <1>14, <2>1, <2>2, <2>3, <2>4, <2>5 DEF Handle
  <1> QED
    BY <1>1, <1>2, <1>3, <1>4, <1>5, <1>6, <1>7, <1>8, <1>9, <1>10, <1>11, <1>12, <1>13, <1>14
    DEF RankStep, TakesSignal

\* Steps of the launcher and of the world around it.
LauncherOrWorld ==
    \/ \E r \in Ranks, s \in Sigs : SignalRank(r, s)
    \/ LeaveTogether \/ LauncherStep \/ LauncherTakesSignal \/ LauncherDies \/ SpawnFails
    \/ \E s \in Sigs : SignalLauncher(s)

\* Types under these.
LEMMA LauncherTypes ==
  ASSUME LaunchAssumption, TypeOK, LauncherOrWorld
  PROVE  TypeOK'
  <1> USE DEF TypeOK, Goes, Fault, Sigs
  <1>1. ASSUME NEW r \in Ranks, NEW s \in Sigs, SignalRank(r, s)
        PROVE  TypeOK'
    BY <1>1 DEF SignalRank, LaunchAssumption
  <1>2. CASE LeaveTogether
    BY <1>2 DEF LeaveTogether
  <1>3. CASE LInstallEarly
    BY <1>3 DEF LInstallEarly
  <1>4. ASSUME NEW r \in Ranks, Spawn(r)
        PROVE  TypeOK'
    BY <1>4, SMTT(60) DEF Spawn
  <1>5. CASE Spawned
    BY <1>5 DEF Spawned
  <1>6. CASE InstallParent
    BY <1>6 DEF InstallParent
  <1>7. CASE JoinReturns
    BY <1>7 DEF JoinReturns
  <1>8. CASE JoinRaises
    BY <1>8 DEF JoinRaises, Terminate
  <1>9. CASE Restore
    BY <1>9 DEF Restore
  <1>10. ASSUME NEW r \in Ranks, Reap(r)
         PROVE  TypeOK'
    BY <1>10 DEF Reap
  <1>11. CASE LaunchEnds
    BY <1>11 DEF LaunchEnds
  <1>12. ASSUME NEW s \in Sigs, LHandleEarly(s)
         PROVE  TypeOK'
    BY <1>12 DEF LHandleEarly
  <1>13. ASSUME NEW s \in Sigs, LHandleParent(s)
         PROVE  TypeOK'
    BY <1>13 DEF LHandleParent, Terminate
  <1>14. CASE LauncherDies
    BY <1>14 DEF LauncherDies, Orphans, LaunchAssumption
  <1>15. CASE SpawnFails
    BY <1>15 DEF SpawnFails, LaunchAssumption
  <1>16. ASSUME NEW s \in Sigs, SignalLauncher(s)
         PROVE  TypeOK'
    BY <1>16 DEF SignalLauncher, LaunchAssumption
  <1> QED
    BY <1>1, <1>2, <1>3, <1>4, <1>5, <1>6, <1>7, <1>8, <1>9, <1>10, <1>11, <1>12, <1>13, <1>14,
       <1>15, <1>16 DEF LauncherOrWorld, LauncherStep, LauncherTakesSignal

\* Nothing but a rank's own boot, registration, signal and end touches what it remembers.
LEMMA RankSignals ==
  ASSUME TypeOK, SignalsOK, NEW r \in Ranks,
         RankStep(r) \/ Raises(r) \/ Killed(r) \/ TakesSignal(r)
  PROVE  SignalsOK'
  <1> USE DEF TypeOK, SignalsOK, Goes, Came
  <1>1. CASE InstallEarly(r)
    BY <1>1 DEF InstallEarly
  <1>2. CASE Booted(r)
    BY <1>2 DEF Booted
  <1>3. CASE Tie(r)
    BY <1>3 DEF Tie
  <1>4. CASE CheckParent(r)
    BY <1>4 DEF CheckParent
  <1>5. CASE Meet(r)
    BY <1>5 DEF Meet
  <1>6. CASE Activate(r)
    BY <1>6 DEF Activate
  <1>7. CASE Registered(r)
    BY <1>7 DEF Registered
  <1>8. CASE CollectiveFails(r)
    BY <1>8 DEF CollectiveFails
  <1>9. CASE Unregister(r)
    BY <1>9 DEF Unregister
  <1>10. CASE Exit(r)
    BY <1>10 DEF Exit
  <1>11. CASE Raises(r)
    BY <1>11 DEF Raises
  <1>12. CASE Killed(r)
    BY <1>12 DEF Killed
  <1>13. ASSUME NEW s \in Sigs, DefaultEnds(r, s)
         PROVE  SignalsOK'
    BY <1>13 DEF DefaultEnds
  <1>14. ASSUME NEW s \in Sigs, Handle(r, s)
         PROVE  SignalsOK'
    BY <1>14 DEF Handle, Alive
  <1> QED
    BY <1>1, <1>2, <1>3, <1>4, <1>5, <1>6, <1>7, <1>8, <1>9, <1>10, <1>11, <1>12, <1>13, <1>14
    DEF RankStep, TakesSignal

\* A fork hands the launcher's flag on, the common end leaves the loop, the rest is elsewhere.
LEMMA LauncherSignals ==
  ASSUME TypeOK, SignalsOK, LauncherOrWorld
  PROVE  SignalsOK'
  <1> USE DEF TypeOK, SignalsOK, Goes
  <1>1. ASSUME NEW r \in Ranks, Spawn(r)
        PROVE  SignalsOK'
    <2>1. UNCHANGED <<active, stop>> /\ pc' = [pc EXCEPT ![r] = "boot"]
      BY <1>1 DEF Spawn
    <2>2. CASE method = "fork"
      <3>1. early' = [early EXCEPT ![r] = learly]
        BY <1>1, <2>2 DEF Spawn
      <3>2. heard' = IF learly THEN heard \cup {r} ELSE heard
        BY <1>1, <2>2 DEF Spawn
      <3>3. r \notin heard
        BY <1>1 DEF Spawn
      <3>4. \A q \in heard' : early'[q] /\ pc'[q] # "absent"
        BY <2>1, <3>1, <3>2, <3>3
      <3>5. \A q \in Ranks : pc'[q] \in {"arm", "training"} =>
                pc[q] = pc'[q] /\ early'[q] = early[q] /\ active'[q] = active[q]
        BY <2>1, <3>1
      <3>6. \A q \in Ranks : pc'[q] \in {"arm", "training"} => active'[q]
        BY <3>5
      <3>7. \A q \in Ranks : pc'[q] = "training" /\ early'[q] => stop'[q]
        BY <2>1, <3>5
      <3> QED
        BY <3>4, <3>6, <3>7
    <2>3. CASE method # "fork"
      <3>1. UNCHANGED <<early, heard>>
        BY <1>1, <2>3 DEF Spawn
      <3> QED
        BY <2>1, <3>1
    <2> QED
      BY <2>2, <2>3
  <1>2. CASE LeaveTogether
    BY <1>2 DEF LeaveTogether
  <1>3. ASSUME NEW r \in Ranks, Reap(r)
        PROVE  SignalsOK'
    BY <1>3 DEF Reap
  <1>4. CASE UNCHANGED <<pc, early, active, stop, heard>>
    BY <1>4
  <1>5. CASE LauncherStep
    BY <1>1, <1>3, <1>4, <1>5
    DEF LauncherStep, LInstallEarly, Spawned, InstallParent, JoinReturns, JoinRaises, Restore,
        LaunchEnds
  <1>6. CASE LauncherTakesSignal \/ LauncherDies \/ SpawnFails
    BY <1>4, <1>6
    DEF LauncherTakesSignal, LHandleEarly, LHandleParent, LauncherDies, SpawnFails
  <1>7. ASSUME NEW r \in Ranks, NEW s \in Sigs, SignalRank(r, s) \/ SignalLauncher(s)
        PROVE  SignalsOK'
    BY <1>4, <1>7 DEF SignalRank, SignalLauncher
  <1>8. ASSUME NEW s \in Sigs, SignalLauncher(s)
        PROVE  SignalsOK'
    BY <1>4, <1>8 DEF SignalLauncher
  <1> QED
    BY <1>2, <1>5, <1>6, <1>7, <1>8 DEF LauncherOrWorld

\* A rank that has ended has ended for good, with the result it ended with.
LEMMA RankCode ==
  ASSUME LaunchAssumption, TypeOK, CodeOK, LaunchTellsTheTruth, NEW r \in Ranks,
         RankStep(r) \/ Raises(r) \/ Killed(r) \/ TakesSignal(r)
  PROVE  CodeOK' /\ LaunchTellsTheTruth'
  <1>1. Alive(r) /\ pc'[r] # "absent" /\ UNCHANGED <<lpc, code, received, world>>
    BY DEF Alive, RankStep, TakesSignal, InstallEarly, Booted, Tie, CheckParent, Meet, Activate,
           Registered, CollectiveFails, Unregister, Exit, Raises, Killed, DefaultEnds, Handle,
           Goes, Came, TypeOK
  <1>2. \A q \in Ranks \ {r} : pc'[q] = pc[q] /\ result'[q] = result[q]
    BY DEF RankStep, TakesSignal, InstallEarly, Booted, Tie, CheckParent, Meet, Activate,
           Registered, CollectiveFails, Unregister, Exit, Raises, Killed, DefaultEnds, Handle,
           Goes, TypeOK
  <1>3. world \subseteq Ranks
    BY DEF TypeOK, LaunchAssumption
  <1>4. CASE r \notin world
    BY <1>1, <1>2, <1>3, <1>4
    DEF CodeOK, LaunchTellsTheTruth, AllWell, OneFailed, OneMissing, Alive
  <1>5. CASE r \in world
    <2>1. ~AllWell /\ lpc # "done"
      BY <1>1, <1>5 DEF AllWell, Alive, LaunchTellsTheTruth
    <2>2. (OneFailed => OneFailed') /\ (OneMissing => OneMissing')
      BY <1>1, <1>2, <1>3, <1>5 DEF OneFailed, OneMissing, Alive
    <2> QED
      BY <1>1, <2>1, <2>2 DEF CodeOK, LaunchTellsTheTruth
  <1> QED
    BY <1>4, <1>5

\* The launcher's report is decided when it stops joining, and only then.
LEMMA LauncherCode ==
  ASSUME LaunchAssumption, TypeOK, CodeOK, LaunchTellsTheTruth, LauncherOrWorld
  PROVE  CodeOK' /\ LaunchTellsTheTruth'
  <1> USE DEF CodeOK, LaunchTellsTheTruth
  <1>0. world \subseteq Ranks
    BY DEF TypeOK, LaunchAssumption
  <1>1. ASSUME UNCHANGED <<world, pc, result>>
        PROVE  /\ AllWell' <=> AllWell
               /\ OneFailed' <=> OneFailed
               /\ OneMissing' <=> OneMissing
               /\ (\A r \in world : ~Alive(r))' <=> \A r \in world : ~Alive(r)
               /\ (\E r \in world : pc[r] = "absent" \/ result[r] # "ok")'
                    <=> \E r \in world : pc[r] = "absent" \/ result[r] # "ok"
    BY <1>1 DEF AllWell, OneFailed, OneMissing, Alive
  <1>2. CASE UNCHANGED <<world, pc, result, lpc, code, received>>
    BY <1>1, <1>2
  <1>3. ASSUME NEW r \in Ranks, NEW s \in Sigs, SignalRank(r, s)
        PROVE  CodeOK' /\ LaunchTellsTheTruth'
    BY <1>2, <1>3 DEF SignalRank
  <1>4. ASSUME NEW s \in Sigs, SignalLauncher(s) \/ LHandleEarly(s)
        PROVE  CodeOK' /\ LaunchTellsTheTruth'
    BY <1>2, <1>4 DEF SignalLauncher, LHandleEarly
  <1>5. ASSUME NEW s \in Sigs, LHandleParent(s)
        PROVE  CodeOK' /\ LaunchTellsTheTruth'
    BY <1>1, <1>5 DEF LHandleParent, LauncherLives
  <1>6. CASE LeaveTogether
    <2>1. lpc # "done" /\ ~AllWell /\ ~OneFailed /\ ~OneMissing
      <3>1. world # {}
        BY DEF TypeOK, LaunchAssumption
      <3> QED
        BY <1>6, <3>1 DEF LeaveTogether, Alive, AllWell, OneFailed, OneMissing
    <2> QED
      BY <1>6, <2>1 DEF LeaveTogether
  <1>7. CASE LInstallEarly \/ Spawned \/ InstallParent
    BY <1>1, <1>7 DEF LInstallEarly, Spawned, InstallParent
  <1>8. ASSUME NEW r \in Ranks, Spawn(r)
        PROVE  CodeOK' /\ LaunchTellsTheTruth'
    BY <1>8 DEF Spawn
  <1>9. CASE JoinReturns
    BY <1>1, <1>9 DEF JoinReturns, AllWell
  <1>10. CASE JoinRaises
    BY <1>1, <1>10 DEF JoinRaises, OneFailed
  <1>11. CASE Restore
    BY <1>1, <1>11 DEF Restore
  <1>12. ASSUME NEW r \in Ranks, Reap(r)
         PROVE  CodeOK' /\ LaunchTellsTheTruth'
    <2>1. lpc = "reap" /\ lpc' = "reap" /\ code' = code /\ Alive(r)
      BY <1>12 DEF Reap
    <2>2. CASE code = "none" /\ AllWell
      <3>1. r \notin world
        BY <2>1, <2>2 DEF AllWell, Alive
      <3>2. AllWell'
        BY <1>0, <1>12, <2>2, <3>1 DEF Reap, Goes, TypeOK, AllWell
      <3> QED
        BY <2>1, <2>2, <3>2
    <2>3. CASE code = "error" /\ OneFailed
      <3>1. OneFailed'
        BY <1>0, <1>12, <2>1, <2>3 DEF Reap, Goes, TypeOK, OneFailed, Alive
      <3> QED
        BY <2>1, <2>3, <3>1
    <2> QED
      BY <2>1, <2>2, <2>3
  <1>13. CASE LaunchEnds
    <2>1. lpc' = "done" /\ lpc \in {"reap", "atexit"} /\ UNCHANGED <<world, pc, result, received>>
      BY <1>13 DEF LaunchEnds
    <2>2. \A r \in world : ~Alive(r)
      BY <1>13 DEF LaunchEnds
    <2>3. CASE code = "none" /\ AllWell
      <3>1. code' = IF received = <<>> THEN "ok" ELSE Head(received)
        BY <1>13, <2>3 DEF LaunchEnds
      <3>2. received # <<>> => Head(received) \in Sigs
        BY DEF TypeOK
      <3>3. code' # "error" /\ ~\E r \in world : pc[r] = "absent" \/ result[r] # "ok"
        BY <2>3, <3>1, <3>2 DEF AllWell, Sigs
      <3> QED
        BY <1>1, <2>1, <2>2, <3>1, <3>2, <3>3 DEF Sigs
    <2>4. CASE code = "error" /\ (OneFailed \/ OneMissing)
      BY <1>1, <1>13, <2>1, <2>2, <2>4 DEF LaunchEnds, OneFailed, OneMissing, Sigs
    <2> QED
      BY <2>1, <2>3, <2>4
  <1>14. CASE LauncherDies
    BY <1>1, <1>14 DEF LauncherDies
  <1>15. CASE SpawnFails
    BY <1>1, <1>15 DEF SpawnFails, OneMissing
  <1> QED
    BY <1>3, <1>4, <1>5, <1>6, <1>7, <1>8, <1>9, <1>10, <1>11, <1>12, <1>13, <1>14, <1>15
    DEF LauncherOrWorld, LauncherStep, LauncherTakesSignal

\* One step of the system keeps the whole invariant.
LEMMA Invariance ==
  ASSUME LaunchAssumption, IInv, [Next]_vars
  PROVE  IInv'
  <1>1. ASSUME NEW r \in Ranks, RankStep(r) \/ TakesSignal(r) \/ Raises(r) \/ Killed(r)
        PROVE  IInv'
    BY <1>1, RankTypes, RankSignals, RankCode DEF IInv
  <1>2. CASE LauncherOrWorld
    BY <1>2, LauncherTypes, LauncherSignals, LauncherCode DEF IInv
  <1>3. CASE UNCHANGED vars
    BY <1>3 DEF vars, IInv, TypeOK, SignalsOK, CodeOK, LaunchTellsTheTruth, AllWell, OneFailed,
                OneMissing, Alive
  <1> QED
    BY <1>1, <1>2, <1>3 DEF Next, LauncherOrWorld, Agree, WorkDone

\* Every variable keeps its type, for any ranks, worlds, environments and bounds.
THEOREM LaunchTypes == LaunchAssumption => (Spec => []TypeOK)
  <1> SUFFICES ASSUME LaunchAssumption PROVE Spec => []TypeOK
    OBVIOUS
  <1>1. IInv => TypeOK
    BY DEF IInv
  <1>2. Init => IInv
    BY Initially
  <1>3. IInv /\ [Next]_vars => IInv'
    BY Invariance
  <1> QED
    BY <1>1, <1>2, <1>3, PTL DEF Spec

\* A stop request that reached a rank after its first handlers is never lost: the context it
\* trains with knows it (register_signal_handlers, _early_handler).
THEOREM NoStopIsLost == LaunchAssumption => (Spec => []StopIsKept)
  <1> SUFFICES ASSUME LaunchAssumption PROVE Spec => []StopIsKept
    OBVIOUS
  <1>1. IInv => StopIsKept
    BY DEF IInv, TypeOK, SignalsOK, StopIsKept
  <1>2. Init => IInv
    BY Initially
  <1>3. IInv /\ [Next]_vars => IInv'
    BY Invariance
  <1> QED
    BY <1>1, <1>2, <1>3, PTL DEF Spec

\* launch() returns when no rank is left, and reports how they ended (LocalStrategy.launch).
THEOREM LauncherIsTruthful == LaunchAssumption => (Spec => []LaunchTellsTheTruth)
  <1> SUFFICES ASSUME LaunchAssumption PROVE Spec => []LaunchTellsTheTruth
    OBVIOUS
  <1>1. IInv => LaunchTellsTheTruth
    BY DEF IInv
  <1>2. Init => IInv
    BY Initially
  <1>3. IInv /\ [Next]_vars => IInv'
    BY Invariance
  <1> QED
    BY <1>1, <1>2, <1>3, PTL DEF Spec
=============================================================================
