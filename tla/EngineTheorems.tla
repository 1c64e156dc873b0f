--------------------------- MODULE EngineTheorems ---------------------------
(***************************************************************************)
(* What the engine core promises, for every set of requests, batch size,   *)
(* pool and budget and every number of faults, weight updates and starts:  *)
(* first that EngineCore keeps the layers of its inductive invariant       *)
(* (EngineInvariant), one after the other; then its properties, each from  *)
(* those layers and the layer it needs besides.                            *)
(***************************************************************************)
EXTENDS EngineInvariant, CollectionFacts

-----------------------------------------------------------------------------
(* Who runs. *)

\* At the start the loop thread runs and nobody stops it.
LEMMA ControlInit == Init => ControlOK
<1> SUFFICES ASSUME Init PROVE ControlOK
  OBVIOUS
<1>1. /\ pc = "top" /\ then = "admit" /\ overlap = FALSE
      /\ closing = FALSE /\ stopEvent = FALSE /\ failed = FALSE
      /\ shutdown = [by |-> "none", at |-> "none"] /\ stopper = "idle"
  BY DEF Init, NotRunning
<1>2. QED
  BY <1>1 DEF ControlOK, LoopPlaces, ShutdownPlaces

\* Each step of the loop, of stop() and of a shutdown leads to a place that goes with the
\* flags.
LEMMA ControlStep == ControlOK /\ [Next]_vars => ControlOK'
<1> SUFFICES ASSUME ControlOK, [Next]_vars PROVE ControlOK'
  OBVIOUS
<1> USE DEF ControlOK, LoopPlaces, ShutdownPlaces, NotRunning, LockFree, LoopLocked
<1>1. CASE BeginTick
  BY <1>1 DEF BeginTick, lifeVars
<1>2. CASE ReleaseFinished
  BY <1>2 DEF ReleaseFinished, lifeVars
<1>3. CASE AdmitNext
  BY <1>3 DEF AdmitNext, lifeVars
<1>4. CASE EndAdmission
  BY <1>4 DEF EndAdmission, lifeVars
<1>5. CASE Decide
  <2>1. CanOverlap \in BOOLEAN
    BY DEF CanOverlap
  <2>2. QED
    BY <1>5, <2>1 DEF Decide, lifeVars
<1>6. CASE Schedule
  BY <1>6 DEF Schedule, lifeVars
<1>7. CASE Rollback
  BY <1>7 DEF Rollback, lifeVars
<1>8. CASE Launch
  BY <1>8 DEF Launch, lifeVars, loopVars
<1>9. CASE LaunchRaises
  BY <1>9 DEF LaunchRaises, lifeVars
<1>10. CASE Launched
  BY <1>10 DEF Launched, lifeVars
<1>11. CASE Drain \/ DrainRaises \/ Drained
  <2>1. CASE Drain
    BY <2>1 DEF Drain, lifeVars
  <2>2. CASE DrainRaises
    BY <2>2 DEF DrainRaises, lifeVars
  <2>3. CASE Drained
    BY <2>3 DEF Drained, lifeVars
  <2>4. QED
    BY <1>11, <2>1, <2>2, <2>3
<1>12. CASE LoopCrashed
  BY <1>12 DEF LoopCrashed, lifeVars
<1>13. CASE LoopStops
  BY <1>13 DEF LoopStops, lifeVars
<1>14. CASE LoopShutsDown
  BY <1>14 DEF LoopShutsDown, loopVars
<1>15. CASE ShutdownStep
  <2> USE DEF Step, EndShutdown, loopVars, lifeVars
  <2>1. CASE ShutdownBegins
    <3>1. CASE ~failed /\ Step("drain")
      BY <2>1, <3>1 DEF ShutdownBegins, Quarantine
    <3>2. CASE failed /\ failed' = FALSE /\ Step("drain")
      BY <2>1, <3>2 DEF ShutdownBegins, Quarantine
    <3>3. CASE failed /\ Quarantine
      BY <2>1, <3>3 DEF Quarantine
    <3>4. QED
      BY <2>1, <3>1, <3>2, <3>3 DEF ShutdownBegins
  <2>2. CASE ShutdownDrains
    BY <2>2 DEF ShutdownDrains
  <2>3. CASE ShutdownDrainRaises
    BY <2>3 DEF ShutdownDrainRaises, Quarantine, FenceAndDiscard
  <2>4. CASE ShutdownDrained
    BY <2>4 DEF ShutdownDrained
  <2>5. CASE ShutdownFences
    BY <2>5 DEF ShutdownFences, Quarantine, FenceAndDiscard
  <2>6. CASE ShutdownFinishes
    BY <2>6 DEF ShutdownFinishes
  <2>7. QED
    BY <1>15, <2>1, <2>2, <2>3, <2>4, <2>5, <2>6 DEF ShutdownStep
<1>16. CASE StopStep
  BY <1>16 DEF StopStep, StopTimesOut, StopShutsDown, loopVars
<1>17. CASE ClientStep
  <2>1. CASE \E r \in Requests : Submit(r) \/ Cancel(r)
    BY <2>1 DEF Submit, Cancel, loopVars, lifeVars
  <2>2. CASE UpdateWeights
    BY <2>2 DEF UpdateWeights, loopVars, lifeVars
  <2>3. CASE StopBegins
    BY <2>3 DEF StopBegins, loopVars
  <2>4. CASE Start
    BY <2>4 DEF Start
  <2>5. QED
    BY <1>17, <2>1, <2>2, <2>3, <2>4 DEF ClientStep
<1>18. CASE UNCHANGED vars
  BY <1>18 DEF vars, loopVars, lifeVars
<1>19. QED
  BY <1>1, <1>2, <1>3, <1>4, <1>5, <1>6, <1>7, <1>8, <1>9, <1>10, <1>11,
     <1>12, <1>13, <1>14, <1>15, <1>16, <1>17, <1>18 DEF Next, LoopStep
-----------------------------------------------------------------------------
(* Flags, outputs and events. *)

\* At the start no request has an output or an event.
LEMMA CountersInit == Init => CountersOK
<1> SUFFICES ASSUME Init PROVE CountersOK
  OBVIOUS
<1>1. /\ starts = 1 /\ version = 0 /\ faults = 0
      /\ terminal = [r \in Requests |-> FALSE] /\ eos = [r \in Requests |-> FALSE]
      /\ out = [r \in Requests |-> 0] /\ events = [r \in Requests |-> <<>>]
  BY DEF Init
<1>2. MaxVersion \in Nat /\ MaxFaults \in Nat /\ MaxStarts \in Nat
  BY BoundAssumption
<1>3. QED
  BY <1>1, <1>2 DEF CountersOK, Larger

\* Ending requests leaves flags and event streams well formed.
LEMMA FinishType ==
    ASSUME NEW S, Finish(S), CountersOK
    PROVE  /\ terminal' \in [Requests -> BOOLEAN]
           /\ events' \in [Requests -> Seq({"token", "end"})]
<1>1. terminal' \in [Requests -> BOOLEAN]
  BY Zenon DEF Finish, CountersOK
<1>2. events' \in [Requests -> Seq({"token", "end"})]
  <2>1. \A r \in Requests : events[r] \in Seq({"token", "end"})
    BY DEF CountersOK
  <2>2. \A e \in Seq({"token", "end"}) : Append(e, "end") \in Seq({"token", "end"})
    OBVIOUS
  <2>3. QED
    BY <2>1, <2>2, Zenon DEF Finish
<1>3. QED
  BY <1>1, <1>2

\* Resolving a handle keeps the types of flags, outputs and events.
LEMMA ResolveType ==
    ASSUME NEW S, Resolve(S), CountersOK
    PROVE  /\ terminal' \in [Requests -> BOOLEAN] /\ eos' \in [Requests -> BOOLEAN]
           /\ out' \in [Requests -> Nat]
           /\ events' \in [Requests -> Seq({"token", "end"})]
           /\ version' = version
<1> USE DEF CountersOK
<1>1. terminal' \in [Requests -> BOOLEAN]
  BY Zenon DEF Resolve
<1>2. eos' \in [Requests -> BOOLEAN]
  <2>1. \A r \in Requests : eos[r] \in BOOLEAN /\ (r \in S) \in BOOLEAN
    OBVIOUS
  <2>2. QED
    BY <2>1, Zenon DEF Resolve
<1>3. out' \in [Requests -> Nat]
  <2>1. \A r \in Requests : out[r] \in Nat /\ out[r] + 1 \in Nat
    OBVIOUS
  <2>2. QED
    BY <2>1, Zenon DEF Resolve
<1>4. events' \in [Requests -> Seq({"token", "end"})]
  <2>1. \A r \in Requests : events[r] \in Seq({"token", "end"})
    OBVIOUS
  <2> DEFINE E == Seq({"token", "end"})
  <2>2. \A d, e \in E : d \o e \in E
    OBVIOUS
  <2>3. <<"token">> \in E /\ <<"end">> \in E /\ <<>> \in E
    OBVIOUS
  <2> HIDE DEF E
  <2>4. \A r \in Requests : events[r] \in E
    BY <2>1 DEF E
  <2>5. events' \in [Requests -> E]
    BY <2>2, <2>3, <2>4, Zenon DEF Resolve
  <2>6. QED
    BY <2>5 DEF E
<1>5. version' = version
  BY DEF Resolve
<1>6. QED
  BY <1>1, <1>2, <1>3, <1>4, <1>5

\* No step takes an output or a flag out of its type, or a counter past its bound.
LEMMA CountersStep == CountersOK /\ [Next]_vars => CountersOK'
<1> SUFFICES ASSUME CountersOK, [Next]_vars PROVE CountersOK'
  OBVIOUS
<1> DEFINE Same == UNCHANGED <<terminal, eos, out, events>>
           Streams == /\ terminal' \in [Requests -> BOOLEAN]
                      /\ eos' \in [Requests -> BOOLEAN] /\ out' \in [Requests -> Nat]
                      /\ events' \in [Requests -> Seq({"token", "end"})]
           Counters == /\ starts' \in 1..Larger(1, MaxStarts)
                       /\ version' \in 0..MaxVersion /\ faults' \in 0..MaxFaults
<1>a. MaxVersion \in Nat /\ MaxFaults \in Nat /\ MaxStarts \in Nat
  BY BoundAssumption
<1>b. Same => Streams
  BY DEF CountersOK
<1>c. \A S : Finish(S) /\ UNCHANGED <<eos, out>> => Streams
  BY FinishType DEF CountersOK
<1>d. \A S : Resolve(S) => Streams /\ version' = version
  BY ResolveType
<1>e. UNCHANGED <<starts, version, faults>> => Counters
  BY DEF CountersOK
<1>f. MayFault /\ faults' = faults + 1 /\ UNCHANGED <<starts, version>> => Counters
  BY <1>a DEF CountersOK, MayFault
<1>g. Streams /\ Counters => CountersOK'
  BY DEF CountersOK
<1> HIDE DEF Streams, Counters
<1> USE DEF requestVars, lifeVars
<1>1. CASE BeginTick \/ ReleaseFinished \/ EndAdmission \/ Decide
  BY <1>1, <1>b, <1>e, <1>g DEF BeginTick, ReleaseFinished, EndAdmission, Decide
<1>2. CASE AdmitNext
  BY <1>2, <1>c, <1>e, <1>g DEF AdmitNext
<1>3. CASE Schedule
  BY <1>3, <1>c, <1>e, <1>g DEF Schedule
<1>4. CASE Rollback \/ Launch \/ Launched \/ Drained
  BY <1>4, <1>b, <1>e, <1>g DEF Rollback, Launch, Launched, Drained
<1>5. CASE LaunchRaises \/ DrainRaises
  BY <1>5, <1>b, <1>f, <1>g DEF LaunchRaises, DrainRaises
<1>6. CASE Drain
  BY <1>6, <1>d, <1>e, <1>g DEF Drain
<1>7. CASE LoopCrashed \/ LoopStops \/ LoopShutsDown
  BY <1>7, <1>b, <1>e, <1>g DEF LoopCrashed, LoopStops, LoopShutsDown
<1>8. CASE ShutdownStep
  <2>a. Quarantine => Streams /\ Counters
    BY <1>c, <1>f DEF Quarantine
  <2>1. CASE ShutdownBegins
    BY <2>1, <2>a, <1>b, <1>e, <1>g DEF ShutdownBegins
  <2>2. CASE ShutdownDrains
    BY <2>2, <1>d, <1>e, <1>g DEF ShutdownDrains
  <2>3. CASE ShutdownDrainRaises
    BY <2>3, <2>a, <1>b, <1>f, <1>g DEF ShutdownDrainRaises, FenceAndDiscard
  <2>4. CASE ShutdownDrained
    BY <2>4, <1>b, <1>e, <1>g DEF ShutdownDrained
  <2>5. CASE ShutdownFences
    BY <2>5, <2>a, <1>b, <1>e, <1>g DEF ShutdownFences, FenceAndDiscard
  <2>6. CASE ShutdownFinishes
    BY <2>6, <1>c, <1>e, <1>g DEF ShutdownFinishes
  <2>7. QED
    BY <1>8, <2>1, <2>2, <2>3, <2>4, <2>5, <2>6 DEF ShutdownStep
<1>9. CASE StopStep \/ StopBegins
  BY <1>9, <1>b, <1>e, <1>g DEF StopStep, StopTimesOut, StopShutsDown, StopBegins
<1>10. CASE \E r \in Requests : Submit(r) \/ Cancel(r)
  BY <1>10, <1>c, <1>e, <1>g DEF Submit, Cancel
<1>11. CASE UpdateWeights
  <2>1. Counters
    BY <1>11, <1>a DEF UpdateWeights, CountersOK, Counters
  <2>2. QED
    BY <1>11, <2>1, <1>b, <1>g DEF UpdateWeights
<1>12. CASE Start
  <2>1. Counters
    BY <1>12, <1>a DEF Start, CountersOK, Counters, Larger
  <2>2. QED
    BY <1>12, <2>1, <1>b, <1>g DEF Start
<1>13. CASE UNCHANGED vars
  BY <1>13, <1>b, <1>e, <1>g DEF vars
<1>14. QED
  BY <1>1, <1>2, <1>3, <1>4, <1>5, <1>6, <1>7, <1>8, <1>9, <1>10, <1>11, <1>12, <1>13
     DEF Next, LoopStep, StopStep, ClientStep

-----------------------------------------------------------------------------
(* The queues. *)

\* At the start nobody waits and nobody runs.
LEMMA QueueInit == Init => QueueOK
<1> SUFFICES ASSUME Init PROVE QueueOK
  OBVIOUS
<1>1. /\ phase = [r \in Requests |-> "new"] /\ waiting = <<>> /\ running = <<>>
      /\ scan = [left |-> 0, back |-> <<>>] /\ pc = "top"
  BY DEF Init
<1>2. QED
  BY <1>1, EmptyFacts DEF QueueOK

\* Releasing takes requests out of the queues, and no other.
LEMMA ReleaseQueue ==
    ASSUME NEW S, NEW ph, NEW wait, Release(S, ph, wait),
           ph \in [Requests -> {"new", "waiting", "running", "gone"}],
           wait \in Seq(Requests), running \in Seq(Requests),
           IsInjective(wait), IsInjective(running),
           \A r \in Requests : r \in Elements(running) <=> ph[r] = "running",
           \A r \in Elements(wait) : ph[r] = "waiting"
    PROVE  /\ phase' \in [Requests -> {"new", "waiting", "running", "gone"}]
           /\ waiting' \in Seq(Requests) /\ running' \in Seq(Requests)
           /\ IsInjective(waiting') /\ IsInjective(running')
           /\ Elements(waiting') = Elements(wait) \ S
           /\ \A r \in Requests : r \in Elements(running') <=> phase'[r] = "running"
           /\ \A r \in Elements(waiting') : phase'[r] = "waiting"
<1>1. /\ phase' = [r \in Requests |-> IF r \in S THEN "gone" ELSE ph[r]]
      /\ waiting' = Without(wait, S) /\ running' = Without(running, S)
  BY DEF Release
<1>2. /\ waiting' \in Seq(Requests) /\ running' \in Seq(Requests)
      /\ IsInjective(waiting') /\ IsInjective(running')
      /\ Elements(waiting') = Elements(wait) \ S
      /\ Elements(running') = Elements(running) \ S
  BY <1>1, WithoutFacts
<1>3. Elements(wait) \subseteq Requests
  BY NotEmpty
<1>4. QED
  BY <1>1, <1>2, <1>3

\* A request is in the one queue its phase says, once, whatever a step does: admission
\* takes it from waiting and puts it in running or back, a release takes it from running.
LEMMA QueueStep == ControlOK /\ QueueOK /\ [Next]_vars => QueueOK'
<1> SUFFICES ASSUME ControlOK, QueueOK, [Next]_vars PROVE QueueOK'
  OBVIOUS
<1> DEFINE Quiet == UNCHANGED <<phase, waiting, running, scan>>
<1>a. /\ Elements(waiting) \subseteq Requests /\ Elements(scan.back) \subseteq Requests
      /\ Elements(running) \subseteq Requests
  BY NotEmpty DEF QueueOK
<1>b. Quiet /\ ((pc' # "admit" /\ pc # "admit") \/ pc' = pc) => QueueOK'
  BY DEF QueueOK
<1>c. LockFree => pc # "admit" /\ scan.back = <<>> /\ Elements(scan.back) = {}
  BY EmptyFacts DEF LockFree, LoopLocked, QueueOK
<1>d. shutdown.at # "none" => pc \in {"exiting", "dead"}
  BY DEF ControlOK, ShutdownPlaces
<1>e. ASSUME NEW S, NEW ph, NEW wait, Release(S, ph, wait), pc # "admit",
             scan' = scan, pc' # "admit" \/ pc' = pc,
             ph \in [Requests -> {"new", "waiting", "running", "gone"}],
             wait \in Seq(Requests), IsInjective(wait),
             \A r \in Requests : r \in Elements(running) <=> ph[r] = "running",
             \A r \in Elements(wait) : ph[r] = "waiting"
      PROVE  QueueOK'
  <2>1. /\ phase' \in [Requests -> {"new", "waiting", "running", "gone"}]
        /\ waiting' \in Seq(Requests) /\ running' \in Seq(Requests)
        /\ IsInjective(waiting') /\ IsInjective(running')
        /\ \A r \in Requests : r \in Elements(running') <=> phase'[r] = "running"
        /\ \A r \in Elements(waiting') : phase'[r] = "waiting"
    BY <1>e, ReleaseQueue DEF QueueOK
  <2>2. scan' = scan /\ scan.back = <<>> /\ pc' # "admit"
    BY <1>e DEF QueueOK
  <2>3. QED
    BY <2>1, <2>2, EmptyFacts DEF QueueOK
<1>f. ASSUME NEW S, Release(S, phase, waiting), pc # "admit",
             scan' = scan, pc' # "admit" \/ pc' = pc
      PROVE  QueueOK'
  BY <1>e, <1>f DEF QueueOK
<1> USE DEF requestVars, queueVars
<1>1. CASE BeginTick
  BY <1>1, <1>b, <1>c DEF BeginTick
<1>2. CASE ReleaseFinished
  <2>1. PICK S : Release(S, phase, waiting)
    BY <1>2 DEF ReleaseFinished
  <2>2. /\ pc # "admit" /\ scan'.back = <<>>
        /\ scan' = [left |-> scan'.left, back |-> <<>>]
    BY <1>2 DEF ReleaseFinished
  <2>3. /\ phase' \in [Requests -> {"new", "waiting", "running", "gone"}]
        /\ waiting' \in Seq(Requests) /\ running' \in Seq(Requests)
        /\ IsInjective(waiting') /\ IsInjective(running')
        /\ \A r \in Requests : r \in Elements(running') <=> phase'[r] = "running"
        /\ \A r \in Elements(waiting') : phase'[r] = "waiting"
    BY <2>1, ReleaseQueue DEF QueueOK
  <2>4. scan'.left \in Nat /\ scan'.left <= Len(waiting')
    <3>1. Len(waiting') \in Nat /\ Len(running') \in Nat /\ MaxBatchSize \in Nat
      BY <2>3, SizeAssumption
    <3>2. scan'.left = IF then # "admit" THEN 0
                       ELSE Larger(0, Smaller(MaxBatchSize - Len(running'), Len(waiting')))
      BY <1>2 DEF ReleaseFinished
    <3>3. QED
      BY <3>1, <3>2 DEF Larger, Smaller
  <2>5. QED
    BY <2>2, <2>3, <2>4, EmptyFacts DEF QueueOK
<1>3. CASE AdmitNext
  <2> DEFINE r == Head(waiting)
  <2>1. /\ pc = "admit" /\ pc' = pc /\ scan.left > 0 /\ waiting' = Tail(waiting)
        /\ scan'.left = scan.left - 1
        /\ scan' = [left |-> scan'.left, back |-> scan'.back]
        /\ \/ scan'.back = scan.back \/ scan'.back = Append(scan.back, r)
        /\ \/ UNCHANGED <<phase, running>>
           \/ /\ phase' = [phase EXCEPT ![r] = "running"]
              /\ running' = Append(running, r)
              /\ scan'.back = scan.back
    BY <1>3 DEF AdmitNext
  <2>2. /\ Len(waiting) > 0 /\ waiting \in Seq(Requests) /\ scan.left \in Nat
        /\ scan.left <= Len(waiting) /\ Len(waiting) \in Nat
    BY <2>1 DEF QueueOK
  <2>3. /\ Tail(waiting) \in Seq(Requests) /\ Len(Tail(waiting)) = Len(waiting) - 1
        /\ r \in Requests
        /\ Elements(waiting) = {r} \cup Elements(Tail(waiting))
        /\ IsInjective(Tail(waiting)) /\ r \notin Elements(Tail(waiting))
    BY <2>2, TailFacts DEF QueueOK
  <2>4. /\ phase[r] = "waiting" /\ r \notin Elements(scan.back)
        /\ r \notin Elements(running)
    BY <2>3 DEF QueueOK
  <2>5. /\ running \in Seq(Requests) /\ scan.back \in Seq(Requests)
        /\ IsInjective(running) /\ IsInjective(scan.back)
    BY DEF QueueOK
  <2>6. /\ scan'.back \in Seq(Requests) /\ IsInjective(scan'.back)
        /\ Elements(scan'.back) \subseteq Elements(scan.back) \cup {r}
        /\ scan'.back = scan.back => Elements(scan'.back) = Elements(scan.back)
    <3>1. /\ Append(scan.back, r) \in Seq(Requests) /\ IsInjective(Append(scan.back, r))
          /\ Elements(Append(scan.back, r)) = Elements(scan.back) \cup {r}
      BY <2>3, <2>4, <2>5, AppendFacts
    <3>2. CASE scan'.back = scan.back
      BY <3>2, <2>5
    <3>3. CASE scan'.back = Append(scan.back, r) /\ scan'.back # scan.back
      BY <3>1, <3>3
    <3>4. QED
      BY <3>2, <3>3, <2>1
  <2>7. CASE UNCHANGED <<phase, running>>
    <3>1. \A q \in Elements(waiting') \cup Elements(scan'.back) : phase[q] = "waiting"
      BY <2>1, <2>3, <2>4, <2>6 DEF QueueOK
    <3>2. Elements(waiting') \cap Elements(scan'.back) = {}
      BY <2>1, <2>3, <2>6 DEF QueueOK
    <3>3. QED
      BY <2>1, <2>2, <2>3, <2>6, <2>7, <3>1, <3>2 DEF QueueOK
  <2>8. CASE /\ phase' = [phase EXCEPT ![r] = "running"]
             /\ running' = Append(running, r) /\ scan'.back = scan.back
    <3>1. /\ running' \in Seq(Requests) /\ IsInjective(running')
          /\ Elements(running') = Elements(running) \cup {r}
      BY <2>3, <2>4, <2>5, <2>8, AppendFacts
    <3>2. \A q \in Requests : q \in Elements(running') <=> phase'[q] = "running"
      BY <3>1, <2>3, <2>8 DEF QueueOK
    <3>3. /\ \A q \in Elements(waiting') \cup Elements(scan'.back) :
               q # r /\ q \in Requests /\ phase[q] = "waiting"
          /\ Elements(waiting') \cap Elements(scan'.back) = {}
      BY <1>a, <2>1, <2>3, <2>4, <2>6, <2>8 DEF QueueOK
    <3>4. \A q \in Elements(waiting') \cup Elements(scan'.back) : phase'[q] = "waiting"
      BY <3>3, <2>8 DEF QueueOK
    <3>5. phase' \in [Requests -> {"new", "waiting", "running", "gone"}]
      BY <2>8 DEF QueueOK
    <3>6. QED
      BY <2>1, <2>2, <2>3, <2>6, <3>1, <3>2, <3>3, <3>4, <3>5 DEF QueueOK
  <2>9. QED
    BY <2>1, <2>7, <2>8
<1>4. CASE EndAdmission
  <2>1. /\ waiting' = scan.back \o waiting /\ scan' = [left |-> 0, back |-> <<>>]
        /\ pc' # "admit" /\ UNCHANGED <<phase, running>>
    BY <1>4 DEF EndAdmission, PutBack
  <2>2. /\ waiting' \in Seq(Requests) /\ IsInjective(waiting')
        /\ Elements(waiting') = Elements(scan.back) \cup Elements(waiting)
    BY <2>1, ConcatFacts DEF QueueOK
  <2>3. QED
    BY <2>1, <2>2, EmptyFacts DEF QueueOK
<1>5. CASE Decide \/ Schedule \/ Rollback \/ Launched
  BY <1>5, <1>b DEF Decide, Schedule, Rollback, Launched
<1>6. CASE Launch \/ LaunchRaises
  BY <1>6, <1>b DEF Launch, LaunchRaises, loopVars
<1>7. CASE Drain \/ DrainRaises \/ Drained
  BY <1>7, <1>b DEF Drain, DrainRaises, Drained, Resolve
<1>8. CASE LoopCrashed \/ LoopStops
  BY <1>8, <1>b DEF LoopCrashed, LoopStops
<1>9. CASE LoopShutsDown \/ UpdateWeights \/ StopBegins \/ StopStep
  BY <1>9, <1>b DEF LoopShutsDown, UpdateWeights, StopBegins, StopStep, StopTimesOut,
                    StopShutsDown, loopVars
<1>10. CASE Start
  BY <1>10, <1>b DEF Start
<1>11. CASE ShutdownStep
  <2>a. pc \in {"exiting", "dead"}
    BY <1>11, <1>d DEF ShutdownStep, ShutdownBegins, ShutdownDrains, ShutdownDrainRaises,
                       ShutdownDrained, ShutdownFences, ShutdownFinishes
  <2>b. Quarantine => QueueOK'
    BY <1>b, <2>a DEF Quarantine, EndShutdown
  <2>1. CASE ShutdownBegins \/ ShutdownDrained
    BY <2>1, <2>b, <1>b DEF ShutdownBegins, ShutdownDrained, loopVars
  <2>2. CASE ShutdownDrains
    BY <2>2, <1>b DEF ShutdownDrains, Resolve, loopVars
  <2>3. CASE ShutdownDrainRaises \/ ShutdownFences
    BY <2>3, <2>b, <1>b DEF ShutdownDrainRaises, ShutdownFences, FenceAndDiscard, loopVars
  <2>4. CASE ShutdownFinishes
    <3>1. PICK S : Release(S, phase, waiting)
      BY <2>4 DEF ShutdownFinishes
    <3>2. scan' = scan /\ pc' # "admit"
      BY <2>4, <2>a DEF ShutdownFinishes, EndShutdown
    <3>3. QED
      BY <3>1, <3>2, <2>a, <1>f
  <2>5. QED
    BY <1>11, <2>1, <2>2, <2>3, <2>4 DEF ShutdownStep
<1>12. ASSUME NEW r \in Requests, Submit(r) PROVE QueueOK'
  <2> DEFINE ph == [phase EXCEPT ![r] = "waiting"]
             wait == Append(waiting, r)
  <2>1. /\ LockFree /\ phase[r] = "new" /\ UNCHANGED <<pc, scan>>
        /\ \E S : Release(S, ph, wait)
    BY <1>12 DEF Submit, loopVars
  <2>2. /\ ph \in [Requests -> {"new", "waiting", "running", "gone"}]
        /\ r \notin Elements(waiting) /\ r \notin Elements(running)
    BY <2>1 DEF QueueOK
  <2>3. /\ wait \in Seq(Requests) /\ IsInjective(wait)
        /\ Elements(wait) = Elements(waiting) \cup {r}
    BY <2>2, AppendFacts DEF QueueOK
  <2>4. /\ \A q \in Requests : q \in Elements(running) <=> ph[q] = "running"
        /\ \A q \in Elements(wait) : ph[q] = "waiting"
    BY <1>a, <2>2, <2>3 DEF QueueOK
  <2>5. PICK S : Release(S, ph, wait)
    BY <2>1
  <2> HIDE DEF ph, wait
  <2>6. QED
    BY <1>c, <1>e, <2>1, <2>2, <2>3, <2>4, <2>5
<1>13. ASSUME NEW r \in Requests, Cancel(r) PROVE QueueOK'
  <2>1. LockFree /\ UNCHANGED <<pc, scan>> /\ \E S : Release(S, phase, waiting)
    BY <1>13 DEF Cancel, loopVars
  <2>2. QED
    BY <2>1, <1>c, <1>f
<1>14. CASE UNCHANGED vars
  BY <1>14, <1>b DEF vars, loopVars
<1>15. QED
  BY <1>1, <1>2, <1>3, <1>4, <1>5, <1>6, <1>7, <1>8, <1>9, <1>10, <1>11, <1>12, <1>13,
     <1>14 DEF Next, LoopStep, ClientStep

-----------------------------------------------------------------------------
(* What schedule() plans. *)

\* A prompt has a token.
LEMMA PromptFacts ==
    \A r \in Requests : PromptLen[r] \in Nat /\ PromptLen[r] >= 1 /\ MaxTokens[r] \in Nat
BY PromptAssumption, SizeAssumption

\* _schedulable_running: the running requests without a terminal flag.
LEMMA ActiveFacts ==
    ASSUME QueueOK
    PROVE  /\ Active \in Seq(Requests) /\ IsInjective(Active)
           /\ \A r \in Requests :
                r \in Elements(Active) <=> phase[r] = "running" /\ ~terminal[r]
<1>1. /\ Active \in Seq(Requests) /\ IsInjective(Active)
      /\ Elements(Active) = Elements(running) \cap {r \in Requests : ~terminal[r]}
  BY KeepFacts DEF QueueOK, Active
<1>2. QED
  BY <1>1 DEF QueueOK

\* The requests a step may plan: active, and not about to end.
LEMMA EligibleFacts ==
    ASSUME QueueOK
    PROVE  /\ Eligible \in Seq(Requests) /\ IsInjective(Eligible)
           /\ Len(Eligible) \in Nat /\ DOMAIN Eligible = 1..Len(Eligible)
           /\ \A r \in Requests : r \in Elements(Eligible) <=>
                phase[r] = "running" /\ ~terminal[r] /\ r \notin Ending
           /\ \A i \in DOMAIN Eligible :
                Eligible[i] \in Requests /\ Eligible[i] \in Elements(Eligible)
<1>1. /\ Eligible \in Seq(Requests) /\ IsInjective(Eligible)
      /\ Elements(Eligible) = Elements(Active) \ Ending
  BY ActiveFacts, WithoutFacts DEF Eligible
<1>2. QED
  BY <1>1, ActiveFacts, SMTT(60) DEF Elements

\* Where the prefill of a request goes on and how many tokens it needs.
LEMMA NeedFacts ==
    ASSUME StepsOK, NEW r \in Requests
    PROVE  /\ PrefillAt(r) \in Nat /\ Need(r) \in Nat
           /\ PrefillAt(r) + Need(r) = PromptLen[r]
           /\ ~Prefilled(r) => PrefillAt(r) = computed[r]
           /\ Prefilled(r) => computed[r] >= PromptLen[r]
<1>1. computed[r] \in Nat /\ PromptLen[r] \in Nat /\ PromptLen[r] >= 1
  BY PromptFacts DEF StepsOK
<1>2. QED
  BY <1>1 DEF PrefillAt, Need, Prefilled, Smaller

\* What the planner has spent before a request is a number, and its chunk is no more than
\* its prompt needs.
LEMMA ChunkFacts ==
    ASSUME QueueOK, StepsOK, NEW i \in DOMAIN Eligible
    PROVE  /\ Spent(i) \in Nat /\ Chunk(i) \in Int
           /\ Chunk(i) <= Need(Eligible[i])
<1> DEFINE f == [j \in DOMAIN Eligible |-> Need(Eligible[j])]
           E == {j \in 1..(i - 1) : /\ ~Prefilled(Eligible[j])
                                    /\ PrefillAt(Eligible[j]) = PrefillAt(Eligible[i])}
<1>1. \A j \in DOMAIN Eligible : f[j] \in Nat
  BY EligibleFacts, NeedFacts
<1>2. i \in Nat /\ 1..(i - 1) \subseteq DOMAIN Eligible
  BY EligibleFacts
<1>3. IsFiniteSet(1..(i - 1))
  BY <1>2, FS_Interval
<1>4. IsFiniteSet(E) /\ E \subseteq DOMAIN Eligible
  BY <1>2, <1>3, FS_Subset
<1>5. \A j \in E : f[j] \in Nat
  BY <1>1, <1>4
<1> HIDE DEF f, E
<1>6. SumFunctionOnSet(f, E) \in Nat
  BY <1>4, <1>5, SumNat
<1>7. Spent(i) \in Nat
  BY <1>6 DEF Spent, f, E
<1>8. QED
  BY <1>7, NeedFacts, EligibleFacts, SizeAssumption DEF Chunk, Smaller

\* A planned row is a window from the watermark on, of a decode step or of a chunk within
\* the prompt.
LEMMA RowFacts ==
    ASSUME QueueOK, StepsOK, CountersOK, NEW i \in DOMAIN Eligible, Planned(i)
    PROVE  /\ WindowOK(Row(i)) /\ Row(i).req = Eligible[i]
           /\ Row(i).pos = computed[Eligible[i]]
           /\ Row(i).seen = out[Eligible[i]]
           /\ Row(i).phase = "decode" <=> Prefilled(Eligible[i])
<1>1. /\ Eligible[i] \in Requests /\ out[Eligible[i]] \in Nat
      /\ computed[Eligible[i]] \in Nat
  BY EligibleFacts DEF StepsOK, CountersOK
<1>2. CASE Prefilled(Eligible[i])
  <2>1. Row(i) = [req |-> Eligible[i], phase |-> "decode", pos |-> computed[Eligible[i]],
                  end |-> computed[Eligible[i]] + 1, seen |-> out[Eligible[i]]]
    BY <1>2 DEF Row
  <2>2. computed[Eligible[i]] >= PromptLen[Eligible[i]]
    BY <1>1, <1>2, NeedFacts
  <2>3. QED
    BY <1>1, <1>2, <2>1, <2>2, PromptFacts DEF WindowOK, WindowType
<1>3. CASE ~Prefilled(Eligible[i])
  <2>1. Row(i) = [req |-> Eligible[i], phase |-> "prefill",
                  pos |-> PrefillAt(Eligible[i]),
                  end |-> PrefillAt(Eligible[i]) + Chunk(i), seen |-> out[Eligible[i]]]
    BY <1>3 DEF Row
  <2>2. Chunk(i) > 0
    BY <1>3 DEF Planned
  <2>3. /\ Chunk(i) \in Int /\ Chunk(i) <= Need(Eligible[i])
        /\ PrefillAt(Eligible[i]) \in Nat /\ Need(Eligible[i]) \in Nat
        /\ PrefillAt(Eligible[i]) + Need(Eligible[i]) = PromptLen[Eligible[i]]
        /\ PrefillAt(Eligible[i]) = computed[Eligible[i]]
    BY <1>1, <1>3, NeedFacts, ChunkFacts
  <2> HIDE DEF Row
  <2>4. QED
    BY <1>1, <1>3, <2>1, <2>2, <2>3, PromptFacts DEF WindowOK, WindowType
<1>4. QED
  BY <1>2, <1>3

\* The rows of a plan: e[k] is the place in Eligible of the k-th.
PlanPlaces(e) ==
    Places(e, PlannedRows, [i \in DOMAIN Eligible |-> Row(i)],
           {i \in DOMAIN Eligible : Planned(i)}, Len(Eligible))

\* The planned rows are those of eligible requests, one each, in their order, at their
\* watermarks.
LEMMA PlanFacts ==
    ASSUME QueueOK, StepsOK, CountersOK
    PROVE  /\ RowsOK(PlannedRows)
           /\ \E e : PlanPlaces(e)
           /\ \A e : PlanPlaces(e) => \A k \in DOMAIN PlannedRows :
                e[k] \in DOMAIN Eligible /\ Planned(e[k]) /\ PlannedRows[k] = Row(e[k])
           /\ \A k \in DOMAIN PlannedRows :
                LET w == PlannedRows[k]
                IN  /\ w.req \in Requests /\ phase[w.req] = "running"
                    /\ ~terminal[w.req] /\ w.req \notin Ending
                    /\ w.pos = computed[w.req] /\ w.seen = out[w.req]
                    /\ w.phase = "decode" <=> Prefilled(w.req)
<1> DEFINE f == [i \in DOMAIN Eligible |-> Row(i)]
           S == {i \in DOMAIN Eligible : Planned(i)}
           rows == PlannedRows
<1>1. /\ Len(Eligible) \in Nat /\ DOMAIN Eligible = 1..Len(Eligible)
      /\ IsInjective(Eligible)
  BY EligibleFacts
<1>2. \A i \in 1..Len(Eligible) : i \in S => f[i] \in WindowType
  BY <1>1, RowFacts DEF WindowOK
<1>3. rows = Gather(f, S, Len(Eligible))
  BY DEF PlannedRows
<1> HIDE DEF f, S, rows
<1>4. /\ rows \in Seq(WindowType)
      /\ \E e : Places(e, rows, f, S, Len(Eligible))
  BY <1>1, <1>2, <1>3, GatherPlaces
<1>5. ASSUME NEW e, Places(e, rows, f, S, Len(Eligible))
      PROVE  \A k \in DOMAIN rows :
               /\ e[k] \in DOMAIN Eligible /\ Planned(e[k]) /\ rows[k] = Row(e[k])
               /\ \A j \in DOMAIN rows : k < j => e[k] < e[j]
  <2>1. DOMAIN rows = 1..Len(rows)
    BY <1>4
  <2>2. QED
    BY <2>1, <1>1, <1>5 DEF Places, f, S
<1>6. PICK e : Places(e, rows, f, S, Len(Eligible))
  BY <1>4
<1>7. \A k \in DOMAIN rows :
        /\ e[k] \in DOMAIN Eligible /\ Planned(e[k]) /\ rows[k] = Row(e[k])
        /\ \A j \in DOMAIN rows : k < j => e[k] < e[j]
  BY <1>5, <1>6
<1>8. \A k \in DOMAIN rows :
        /\ rows[k].req = Eligible[e[k]] /\ WindowOK(rows[k])
        /\ rows[k].pos = computed[rows[k].req] /\ rows[k].seen = out[rows[k].req]
        /\ rows[k].phase = "decode" <=> Prefilled(rows[k].req)
  BY <1>7, RowFacts
<1>9. \A j, k \in DOMAIN rows : rows[j].req = rows[k].req => j = k
  <2> SUFFICES ASSUME NEW j \in DOMAIN rows, NEW k \in DOMAIN rows,
                      rows[j].req = rows[k].req
               PROVE  j = k
    OBVIOUS
  <2>1. e[j] = e[k]
    BY <1>1, <1>7, <1>8 DEF IsInjective
  <2>2. j \in Nat /\ k \in Nat /\ e[j] \in Nat
    BY <1>1, <1>4, <1>7
  <2>3. ~(j < k) /\ ~(k < j)
    BY <1>7, <2>1, <2>2
  <2>4. QED
    BY <2>2, <2>3
<1>10. \A k \in DOMAIN rows :
         /\ rows[k].req \in Requests /\ phase[rows[k].req] = "running"
         /\ ~terminal[rows[k].req] /\ rows[k].req \notin Ending
  BY <1>7, <1>8, EligibleFacts
<1>11. \A x : PlanPlaces(x) <=> Places(x, rows, f, S, Len(Eligible))
  BY DEF PlanPlaces, f, S, rows
<1>12. RowsOK(rows)
  BY <1>4, <1>8, <1>9 DEF RowsOK
<1>13. QED
  BY <1>4, <1>5, <1>8, <1>10, <1>11, <1>12 DEF rows

-----------------------------------------------------------------------------
(* Rows, groups and handles. *)

\* The requests of rows, by elements.
LEMMA ReqsOf == \A rows : Reqs(rows) = {w.req : w \in Elements(rows)}
BY DEF Reqs, Elements

\* Some of the rows of a step.
LEMMA KeepRows ==
    ASSUME NEW rows, RowsOK(rows), NEW S
    PROVE  /\ RowsOK(Keep(rows, S))
           /\ Elements(Keep(rows, S)) = Elements(rows) \cap S
           /\ \A i \in DOMAIN Keep(rows, S) : Keep(rows, S)[i] \in Elements(rows) \cap S
<1> DEFINE k == Keep(rows, S)
<1>1. /\ rows \in Seq(WindowType) /\ DOMAIN rows = 1..Len(rows)
      /\ \A i \in DOMAIN rows : WindowOK(rows[i])
      /\ \A i, j \in DOMAIN rows : rows[i].req = rows[j].req => i = j
  BY DEF RowsOK
<1>2. /\ k \in Seq(WindowType) /\ \E e : Embeds(e, k, rows, S)
      /\ Elements(k) = Elements(rows) \cap S
  BY <1>1, KeepEmbeds, KeepFacts
<1> HIDE DEF k
<1>3. PICK e : Embeds(e, k, rows, S)
  BY <1>2
<1>4. DOMAIN k = 1..Len(k) /\ Len(k) \in Nat
  BY <1>2
<1>5. /\ \A i \in DOMAIN k : e[i] \in DOMAIN rows /\ e[i] \in Nat /\ k[i] = rows[e[i]]
      /\ \A i, j \in DOMAIN k : i < j => e[i] < e[j]
  BY <1>1, <1>3, <1>4 DEF Embeds
<1>6. \A i, j \in DOMAIN k : k[i].req = k[j].req => i = j
  <2> SUFFICES ASSUME NEW i \in DOMAIN k, NEW j \in DOMAIN k, k[i].req = k[j].req
               PROVE  i = j
    OBVIOUS
  <2>1. e[i] = e[j] /\ e[i] \in Nat
    BY <1>1, <1>5
  <2>2. ~(i < j) /\ ~(j < i)
    BY <1>5, <2>1
  <2>3. QED
    BY <1>4, <2>2
<1>7. \A i \in DOMAIN k : WindowOK(k[i])
  BY <1>1, <1>5
<1>8. \A i \in DOMAIN k : k[i] \in Elements(k)
  BY DEF Elements
<1>9. QED
  BY <1>2, <1>6, <1>7, <1>8 DEF RowsOK, k

\* The rows execute_model launches together, and what it leaves for the next launch.
LEMMA GroupFacts ==
    ASSUME RowsOK(plan), plan # <<>>
    PROVE  /\ RowsOK(NextGroup) /\ 1 \in DOMAIN NextGroup
           /\ Elements(NextGroup) \subseteq Elements(plan)
           /\ \A i \in DOMAIN NextGroup : NextGroup[i].phase = NextGroup[1].phase
           /\ (\A i \in DOMAIN plan : plan[i].phase = "decode") => NextGroup = plan
<1> DEFINE P == Keep(plan, {w \in Elements(plan) : w.phase = "prefill"})
           G == Keep(P, {w \in Elements(P) : w.pos = P[1].pos})
<1>1. /\ RowsOK(P) /\ Elements(P) \subseteq Elements(plan)
      /\ \A w \in Elements(P) : w.phase = "prefill"
      /\ \A w \in Elements(plan) : w.phase = "prefill" => w \in Elements(P)
  BY KeepRows
<1>2. NextGroup = IF P = <<>> THEN plan ELSE G
  BY DEF NextGroup
<1>3. ASSUME NEW rows, RowsOK(rows)
      PROVE  /\ rows \in Seq(WindowType)
             /\ rows # <<>> => 1 \in DOMAIN rows /\ Elements(rows) # {}
             /\ rows = <<>> => Elements(rows) = {}
             /\ \A i \in DOMAIN rows : rows[i] \in Elements(rows)
             /\ \A w \in Elements(rows) : w.phase \in {"prefill", "decode"}
  <2>1. rows \in Seq(WindowType)
    BY <1>3 DEF RowsOK
  <2>2. rows # <<>> => 1 \in DOMAIN rows
    BY <2>1
  <2>3. /\ \A i \in DOMAIN rows : rows[i] \in Elements(rows)
        /\ Elements(rows) \subseteq WindowType
    BY <2>1 DEF Elements
  <2>4. QED
    BY <2>1, <2>2, <2>3, EmptyFacts DEF WindowType
<1>4. CASE P = <<>>
  <2>1. \A w \in Elements(plan) : w.phase = "decode"
    BY <1>1, <1>3, <1>4
  <2>2. NextGroup = plan
    BY <1>2, <1>4
  <2>3. QED
    BY <1>3, <2>1, <2>2
<1>5. CASE P # <<>>
  <2> HIDE DEF P
  <2>1. /\ RowsOK(G) /\ Elements(G) \subseteq Elements(P)
        /\ P[1] \in Elements(P) => P[1] \in Elements(G)
    BY <1>1, KeepRows
  <2> HIDE DEF G
  <2>2. P[1] \in Elements(G)
    BY <1>1, <1>3, <1>5, <2>1
  <2>3. 1 \in DOMAIN G
    BY <1>3, <2>1, <2>2
  <2>4. \A i \in DOMAIN G : G[i].phase = "prefill"
    BY <1>1, <1>3, <2>1
  <2>5. P[1] \in Elements(plan) /\ P[1].phase = "prefill"
    BY <1>1, <2>1, <2>2
  <2>6. \E i \in DOMAIN plan : plan[i].phase = "prefill"
    BY <2>5 DEF Elements
  <2>7. QED
    BY <1>1, <1>2, <1>5, <2>1, <2>3, <2>4, <2>6
<1>6. QED
  BY <1>4, <1>5

\* What is left of the plan after a group is launched.
Rest == Keep(plan, {w \in Elements(plan) : w.req \notin Reqs(NextGroup)})

\* A launch takes the group it submits from the plan and leaves the rest.
LEMMA RestFacts ==
    ASSUME RowsOK(plan), plan # <<>>
    PROVE  /\ RowsOK(Rest) /\ Elements(Rest) \subseteq Elements(plan)
           /\ Reqs(Rest) = Reqs(plan) \ Reqs(NextGroup)
           /\ Reqs(NextGroup) \subseteq Reqs(plan)
           /\ NextGroup = plan => Rest = <<>>
<1>1. /\ RowsOK(Rest)
      /\ Elements(Rest) = {w \in Elements(plan) : w.req \notin Reqs(NextGroup)}
  BY KeepRows DEF Rest
<1>2. Reqs(Rest) = Reqs(plan) \ Reqs(NextGroup)
  BY <1>1, ReqsOf
<1>3. Reqs(NextGroup) \subseteq Reqs(plan)
  BY GroupFacts, ReqsOf
<1>4. ASSUME NextGroup = plan PROVE Rest = <<>>
  <2>1. Elements(Rest) = {}
    BY <1>1, <1>4, ReqsOf
  <2>2. QED
    BY <1>1, <2>1, NotEmpty DEF RowsOK
<1>5. QED
  BY <1>1, <1>2, <1>3, <1>4

-----------------------------------------------------------------------------
(* What the steps of an execution do to orders, watermarks and handles. *)

\* The requests of a step and its rows are one to one.
LEMMA ReqOf ==
    ASSUME NEW rows, RowsOK(rows)
    PROVE  /\ \A i \in DOMAIN rows : rows[i].req \in Reqs(rows) /\ rows[i].req \in Requests
           /\ \A i \in DOMAIN rows : rows[i].end \in Nat /\ rows[i].pos \in Nat
           /\ \A r \in Reqs(rows) : \E i \in DOMAIN rows : rows[i].req = r
           /\ \A i \in DOMAIN rows :
                (CHOOSE j \in DOMAIN rows : rows[j].req = rows[i].req) = i
           /\ Reqs(rows) \subseteq Requests
           /\ rows # <<>> <=> Reqs(rows) # {}
<1>1. /\ rows \in Seq(WindowType) /\ DOMAIN rows = 1..Len(rows)
      /\ rows # <<>> <=> Elements(rows) # {}
  BY NotEmpty DEF RowsOK
<1>2. /\ \A i, j \in DOMAIN rows : rows[i].req = rows[j].req => i = j
      /\ \A i \in DOMAIN rows : rows[i] \in WindowType
  BY DEF RowsOK
<1>3. rows # <<>> <=> Reqs(rows) # {}
  BY <1>1 DEF Reqs, Elements
<1>4. QED
  BY <1>2, <1>3 DEF Reqs, WindowType

\* schedule() adds the end of each planned window to its request's registry and moves the
\* watermark there.
LEMMA ScheduleFacts ==
    ASSUME QueueOK, StepsOK, CountersOK, Schedule
    PROVE  /\ plan' = PlannedRows /\ RowsOK(plan')
           /\ \A k \in DOMAIN plan' :
                LET w == plan'[k]
                IN  /\ order'[w.req] = Append(order[w.req], w.end)
                    /\ computed'[w.req] = w.end
           /\ \A r \in Requests \ Reqs(plan') :
                order'[r] = order[r] /\ computed'[r] = computed[r]
           /\ order' \in [Requests -> Seq(Nat)] /\ computed' \in [Requests -> Nat]
<1> DEFINE rows == PlannedRows
           EndOf(r) == (CHOOSE k \in DOMAIN rows : rows[k].req = r)
<1>1. RowsOK(rows)
  BY PlanFacts
<1>2. /\ plan' = rows
      /\ order' = [r \in Requests |->
                     IF r \in Reqs(rows) THEN Append(order[r], rows[EndOf(r)].end)
                     ELSE order[r]]
      /\ computed' = [r \in Requests |->
                        IF r \in Reqs(rows) THEN rows[EndOf(r)].end ELSE computed[r]]
  BY DEF Schedule
<1> HIDE DEF rows
<1>3. \A k \in DOMAIN rows : EndOf(rows[k].req) = k
  BY <1>1, ReqOf
<1>4. \A r \in Reqs(rows) : EndOf(r) \in DOMAIN rows
  BY <1>1, <1>3, ReqOf
<1> HIDE DEF EndOf
<1>5. \A k \in DOMAIN rows :
        /\ rows[k].req \in Reqs(rows) /\ rows[k].req \in Requests
        /\ rows[k].end \in Nat
  BY <1>1, ReqOf
<1>6. \A r \in Requests : /\ order[r] \in Seq(Nat) /\ computed[r] \in Nat
                          /\ \A e \in Nat : Append(order[r], e) \in Seq(Nat)
  BY DEF StepsOK
<1>7. order' \in [Requests -> Seq(Nat)]
  BY <1>2, <1>4, <1>5, <1>6, Zenon
<1>8. computed' \in [Requests -> Nat]
  BY <1>2, <1>4, <1>5, <1>6, Zenon
<1>9. \A k \in DOMAIN rows : /\ order'[rows[k].req] = Append(order[rows[k].req], rows[k].end)
                             /\ computed'[rows[k].req] = rows[k].end
  BY <1>2, <1>3, <1>5, Zenon
<1>10. \A r \in Requests \ Reqs(rows) : order'[r] = order[r] /\ computed'[r] = computed[r]
  BY <1>2
<1>11. /\ RowsOK(plan')
       /\ \A k \in DOMAIN plan' :
            /\ order'[plan'[k].req] = Append(order[plan'[k].req], plan'[k].end)
            /\ computed'[plan'[k].req] = plan'[k].end
       /\ \A r \in Requests \ Reqs(plan') :
            order'[r] = order[r] /\ computed'[r] = computed[r]
  <2>1. plan' = rows
    BY <1>2
  <2>2. RowsOK(plan') /\ Reqs(plan') = Reqs(rows)
    BY <1>1, <2>1, Zenon DEF RowsOK, WindowOK, Reqs
  <2>3. QED
    BY <1>9, <1>10, <2>1, <2>2
<1>12. plan' = PlannedRows
  BY <1>2 DEF rows
<1>13. QED
  BY <1>7, <1>8, <1>11, <1>12

\* The front and the last element of a sequence.
LEMMA FrontFacts ==
    ASSUME NEW T, NEW s \in Seq(T), s # <<>>
    PROVE  /\ Front(s) \in Seq(T) /\ Len(Front(s)) = Len(s) - 1
           /\ \A i \in 1..(Len(s) - 1) : Front(s)[i] = s[i]
           /\ Last(s) = s[Len(s)] /\ Last(s) \in T
           /\ Len(s) \in Nat /\ Len(s) > 0
BY DEF Front, Last

\* Resolving the oldest handle takes its windows off the registry and frees its writes, of
\* nobody else.
LEMMA ResolveFacts ==
    ASSUME StepsOK, RegistryOK, inflight # <<>>, NEW stops, Resolve(stops)
    PROVE  /\ Len(inflight') = Len(inflight) - 1 /\ Len(inflight) \in Nat
           /\ Len(inflight) >= 1 /\ inflight' = Tail(inflight)
           /\ \A h \in DOMAIN inflight' :
                h + 1 \in DOMAIN inflight /\ h \in Nat /\ inflight'[h] = inflight[h + 1]
           /\ DOMAIN inflight = 1..Len(inflight)
           /\ DOMAIN inflight' = 1..(Len(inflight) - 1)
           /\ \A r \in Requests :
                /\ order'[r] = IF In(r, 1) THEN Tail(order[r]) ELSE order[r]
                /\ touching'[r] = IF In(r, 1) THEN Larger(0, touching[r] - 1)
                                  ELSE touching[r]
                /\ In(r, 1) => order[r] # <<>>
                /\ ~In(r, 1) => materialized'[r] = materialized[r]
           /\ \A i \in DOMAIN inflight[1].rows :
                LET w == inflight[1].rows[i]
                IN  materialized'[w.req] =
                      IF inflight[1].version = version
                      THEN Larger(materialized[w.req], w.end)
                      ELSE materialized[w.req]
           /\ order' \in [Requests -> Seq(Nat)]
           /\ touching' \in [Requests -> Nat]
           /\ materialized' \in [Requests -> Nat]
           /\ UNCHANGED <<phase, computed, plan, relay, version, slots, freeSlots,
                          waiting, running, arrived>>
<1> DEFINE H == Head(inflight)
           RowOf(r) == H.rows[CHOOSE i \in DOMAIN H.rows : H.rows[i].req = r]
<1>1. /\ Len(inflight) \in Nat /\ Len(inflight) >= 1
      /\ DOMAIN inflight = 1..Len(inflight) /\ H = inflight[1]
      /\ HandleOK(H) /\ 1 \in DOMAIN inflight
  BY DEF StepsOK
<1>2. /\ inflight' = Tail(inflight)
      /\ touching' = [r \in Requests |-> IF r \in Reqs(H.rows)
                                         THEN Larger(0, touching[r] - 1) ELSE touching[r]]
      /\ order' = [r \in Requests |-> IF r \in Reqs(H.rows) THEN Tail(order[r])
                                      ELSE order[r]]
      /\ materialized' = [r \in Requests |->
                            IF r \in Reqs(H.rows) /\ H.version = version
                            THEN Larger(materialized[r], RowOf(r).end)
                            ELSE materialized[r]]
      /\ UNCHANGED <<phase, computed, plan, relay, version, slots, freeSlots,
                     waiting, running, arrived>>
  BY DEF Resolve, kvVars, queueVars
<1>3. /\ Len(inflight') = Len(inflight) - 1
      /\ DOMAIN inflight' = 1..(Len(inflight) - 1)
      /\ \A h \in DOMAIN inflight' :
           h + 1 \in DOMAIN inflight /\ h \in Nat /\ inflight'[h] = inflight[h + 1]
  BY <1>1, <1>2, SMTT(60) DEF StepsOK
<1>4. RowsOK(H.rows)
  BY <1>1 DEF HandleOK
<1> HIDE DEF H
<1>5. \A i \in DOMAIN H.rows : RowOf(H.rows[i].req) = H.rows[i]
  BY <1>4, ReqOf
<1>6. \A r \in Reqs(H.rows) : RowOf(r).end \in Nat
  BY <1>4, <1>5, ReqOf
<1> HIDE DEF RowOf
<1>7. \A r \in Requests : In(r, 1) <=> r \in Reqs(H.rows)
  BY <1>1 DEF In
<1>8. \A r \in Requests : In(r, 1) => order[r] # <<>>
  <2> SUFFICES ASSUME NEW r \in Requests, In(r, 1) PROVE order[r] # <<>>
    OBVIOUS
  <2>1. InFlight(r) /\ order[r] \in Seq(Nat)
    BY <1>1 DEF InFlight, StepsOK
  <2>2. Known(r) <= Len(order[r]) /\ Known(r) \in 1..3
    BY <2>1 DEF Known, Flying, Planning, RegistryOK, KnownIsPlanned
  <2>3. QED
    BY <2>1, <2>2
<1>9. \A r \in Requests : /\ order[r] \in Seq(Nat) /\ touching[r] \in Nat
                          /\ materialized[r] \in Nat
                          /\ order[r] # <<>> => Tail(order[r]) \in Seq(Nat)
  BY DEF StepsOK
<1>10. order' \in [Requests -> Seq(Nat)]
  BY <1>2, <1>7, <1>8, <1>9, Zenon
<1>11. touching' \in [Requests -> Nat]
  <2>1. \A n \in Nat : Larger(0, n - 1) \in Nat
    BY DEF Larger
  <2>2. QED
    BY <2>1, <1>2, <1>9, Zenon
<1>12. materialized' \in [Requests -> Nat]
  <2>1. \A m, n \in Nat : Larger(m, n) \in Nat
    BY DEF Larger
  <2>2. QED
    BY <2>1, <1>2, <1>6, <1>9, Zenon
<1>13. \A i \in DOMAIN H.rows :
         materialized'[H.rows[i].req] =
           IF H.version = version THEN Larger(materialized[H.rows[i].req], H.rows[i].end)
           ELSE materialized[H.rows[i].req]
  <2>1. \A i \in DOMAIN H.rows : H.rows[i].req \in Reqs(H.rows) /\ H.rows[i].req \in Requests
    BY <1>4, ReqOf
  <2>2. QED
    BY <2>1, <1>2, <1>5, Zenon
<1>14. \A r \in Requests :
         /\ order'[r] = IF In(r, 1) THEN Tail(order[r]) ELSE order[r]
         /\ touching'[r] = IF In(r, 1) THEN Larger(0, touching[r] - 1) ELSE touching[r]
         /\ ~In(r, 1) => materialized'[r] = materialized[r]
  BY <1>2, <1>7
<1>15. QED
  BY <1>1, <1>2, <1>3, <1>8, <1>10, <1>11, <1>12, <1>13, <1>14

\* No rows, no requests.
LEMMA NoRows == RowsOK(<<>>) /\ Reqs(<<>>) = {} /\ Elements(<<>>) = {}
BY EmptyFacts, ReqsOf DEF RowsOK

\* The windows of a plan are in the registry.
LEMMA PlannedOrder ==
    ASSUME StepsOK, RegistryOK, NEW r \in Reqs(plan)
    PROVE  r \in Requests /\ order[r] \in Seq(Nat) /\ order[r] # <<>> /\ Len(order[r]) >= 1
<1>1. r \in Requests
  BY ReqOf DEF StepsOK
<1>2. order[r] \in Seq(Nat)
  BY <1>1 DEF StepsOK
<1>3. Known(r) <= Len(order[r]) /\ Known(r) \in 1..3
  BY <1>1 DEF Known, Flying, Planning, RegistryOK, KnownIsPlanned
<1>4. QED
  BY <1>1, <1>2, <1>3

\* Rolling back takes the last window of every planned request off the registry.
LEMMA RollbackFacts ==
    ASSUME StepsOK, RegistryOK, Rollback
    PROVE  /\ plan' = <<>>
           /\ \A r \in Reqs(plan) : order'[r] = Front(order[r]) /\ computed'[r] = RolledBack(r)
           /\ \A r \in Requests \ Reqs(plan) :
                order'[r] = order[r] /\ computed'[r] = computed[r]
           /\ order' \in [Requests -> Seq(Nat)] /\ computed' \in [Requests -> Nat]
<1>1. /\ plan' = <<>>
      /\ order' = [r \in Requests |->
                     IF r \in Reqs(plan) THEN Front(order[r]) ELSE order[r]]
      /\ computed' = [r \in Requests |->
                        IF r \in Reqs(plan) THEN RolledBack(r) ELSE computed[r]]
  BY DEF Rollback
<1>2. \A r \in Reqs(plan) : Front(order[r]) \in Seq(Nat) /\ r \in Requests
  BY PlannedOrder, FrontFacts
<1>3. \A r \in Reqs(plan) : RolledBack(r) \in Nat
  <2> TAKE r \in Reqs(plan)
  <2>1. materialized[r] \in Nat
    BY <1>2 DEF StepsOK
  <2>2. Front(order[r]) # <<>> => Last(Front(order[r])) \in Nat
    BY <1>2, FrontFacts
  <2>3. QED
    BY <2>1, <2>2 DEF RolledBack, Larger
<1>4. \A r \in Requests : order[r] \in Seq(Nat) /\ computed[r] \in Nat
  BY DEF StepsOK
<1>5. order' \in [Requests -> Seq(Nat)] /\ computed' \in [Requests -> Nat]
  BY <1>1, <1>2, <1>3, <1>4, Zenon
<1>6. QED
  BY <1>1, <1>2, <1>5

\* A launch turns a group of the plan into the youngest handle and counts its writes.
LEMMA LaunchFacts ==
    ASSUME StepsOK, CountersOK, Launch
    PROVE  /\ plan # <<>> /\ plan' = Rest
           /\ inflight' = Append(inflight, inflight'[Len(inflight) + 1])
           /\ Len(inflight') = Len(inflight) + 1 /\ Len(inflight) \in Nat
           /\ DOMAIN inflight' = 1..(Len(inflight) + 1)
           /\ DOMAIN inflight = 1..Len(inflight)
           /\ \A h \in DOMAIN inflight : inflight'[h] = inflight[h]
           /\ inflight'[Len(inflight) + 1].rows = NextGroup
           /\ inflight'[Len(inflight) + 1].phase = NextGroup[1].phase
           /\ inflight'[Len(inflight) + 1].version = version
           /\ HandleOK(inflight'[Len(inflight) + 1])
           /\ \A r \in Requests : touching'[r] = IF r \in Reqs(NextGroup)
                                                 THEN touching[r] + 1 ELSE touching[r]
           /\ touching' \in [Requests -> Nat]
           /\ relay' = IF NextGroup[1].phase = "decode" THEN NextGroup ELSE relay
<1> DEFINE group == NextGroup
           decode == group[1].phase = "decode"
           fed == [i \in DOMAIN group |-> IF decode THEN InputOf(group, i) ELSE 0]
           H == [phase |-> group[1].phase, rows |-> group, input |-> fed,
                 version |-> version]
<1>1. /\ plan # <<>> /\ plan' = Rest
      /\ touching' = [r \in Requests |->
                        IF r \in Reqs(group) THEN touching[r] + 1 ELSE touching[r]]
      /\ relay' = IF decode THEN group ELSE relay
      /\ inflight' = Append(inflight, H)
  BY DEF Launch, Rest
<1>2. /\ RowsOK(group) /\ 1 \in DOMAIN group
      /\ \A i \in DOMAIN group : group[i].phase = group[1].phase
  BY <1>1, GroupFacts DEF StepsOK
<1>3. /\ group \in Seq(WindowType) /\ DOMAIN group = 1..Len(group)
      /\ \A i \in DOMAIN group : group[i] \in WindowType /\ group[i].seen \in Nat
  <2>1. RowsOK(group)
    BY <1>2
  <2> HIDE DEF group
  <2>2. group \in Seq(WindowType)
    BY <2>1 DEF RowsOK
  <2>3. DOMAIN group = 1..Len(group) /\ \A i \in DOMAIN group : group[i] \in WindowType
    BY <2>2
  <2>4. QED
    BY <2>2, <2>3 DEF WindowType
<1>4. \A i \in DOMAIN group : decode => InputOf(group, i) \in Nat
  <2> TAKE i \in DOMAIN group
  <2>1. CASE Identities(relay) = Identities(group)
    <3>1. DOMAIN Identities(relay) = DOMAIN relay /\ DOMAIN Identities(group) = DOMAIN group
      BY DEF Identities
    <3>2. i \in DOMAIN relay
      BY <2>1, <3>1
    <3>3. relay[i].phase = "decode" /\ WindowOK(relay[i])
      BY <3>2 DEF StepsOK, RowsOK
    <3>4. /\ relay[i].end = relay[i].pos + 1 /\ relay[i].pos >= PromptLen[relay[i].req]
          /\ relay[i].pos \in Nat /\ relay[i].req \in Requests
      BY <3>3 DEF WindowOK, WindowType
    <3>5. QED
      BY <2>1, <3>4, PromptFacts DEF InputOf
  <2>2. CASE Identities(relay) # Identities(group)
    BY <2>2, <1>3 DEF InputOf
  <2>3. QED
    BY <2>1, <2>2
<1> HIDE DEF group
<1>5. fed \in Seq(Nat)
  <2>1. \A i \in DOMAIN group : (IF decode THEN InputOf(group, i) ELSE 0) \in Nat
    BY <1>4
  <2> HIDE DEF decode
  <2>2. fed \in [DOMAIN group -> Nat]
    BY <2>1, Zenon
  <2>3. Len(group) \in Nat
    BY <1>3
  <2>4. QED
    BY <2>2, <2>3, <1>3
<1> HIDE DEF fed
<1>6. HandleOK(H) /\ H.rows = group /\ H.phase = group[1].phase /\ H.version = version
  BY <1>2, <1>3, <1>5 DEF HandleOK, CountersOK, WindowType
<1>7. H \in [phase : {"prefill", "decode"}, rows : Seq(WindowType), input : Seq(Nat),
             version : 0..MaxVersion]
  BY <1>6 DEF HandleOK
<1> HIDE DEF H
<1>8. /\ Len(inflight') = Len(inflight) + 1 /\ Len(inflight) \in Nat
      /\ DOMAIN inflight' = 1..(Len(inflight) + 1)
      /\ DOMAIN inflight = 1..Len(inflight)
      /\ \A h \in DOMAIN inflight : inflight'[h] = inflight[h]
      /\ inflight'[Len(inflight) + 1] = H
  BY <1>1, <1>7 DEF StepsOK
<1>9. touching' \in [Requests -> Nat]
  <2>1. \A r \in Requests : touching[r] \in Nat /\ touching[r] + 1 \in Nat
    BY DEF StepsOK
  <2>2. QED
    BY <2>1, <1>1, Zenon
<1>10. QED
  BY <1>1, <1>6, <1>8, <1>9 DEF group

\* At the start nothing is planned or in flight.
LEMMA StepsInit == Init => StepsOK
<1> SUFFICES ASSUME Init PROVE StepsOK
  OBVIOUS
<1>1. /\ order = [r \in Requests |-> <<>>] /\ computed = [r \in Requests |-> 0]
      /\ materialized = [r \in Requests |-> 0] /\ touching = [r \in Requests |-> 0]
      /\ plan = <<>> /\ relay = <<>> /\ inflight = <<>>
  BY DEF Init
<1>2. QED
  BY <1>1, NoRows DEF StepsOK

\* A resolved handle leaves the others.
LEMMA ResolveSteps ==
    ASSUME StepsOK, RegistryOK, inflight # <<>>, NEW stops, Resolve(stops)
    PROVE  StepsOK'
<1>1. /\ inflight' = Tail(inflight) /\ UNCHANGED <<computed, plan, relay>>
      /\ \A h \in DOMAIN inflight' :
           h + 1 \in DOMAIN inflight /\ inflight'[h] = inflight[h + 1]
      /\ order' \in [Requests -> Seq(Nat)] /\ touching' \in [Requests -> Nat]
      /\ materialized' \in [Requests -> Nat]
  BY ResolveFacts
<1>2. inflight' \in Seq([phase : {"prefill", "decode"}, rows : Seq(WindowType),
                         input : Seq(Nat), version : 0..MaxVersion])
  BY <1>1 DEF StepsOK
<1>3. \A h \in DOMAIN inflight' : HandleOK(inflight'[h])
  BY <1>1 DEF StepsOK
<1>4. QED
  BY <1>1, <1>2, <1>3 DEF StepsOK

\* Whatever is planned or in flight stays made of proper windows, one for a request in each
\* step.
LEMMA StepsStep ==
    QueueOK /\ CountersOK /\ StepsOK /\ RegistryOK /\ [Next]_vars => StepsOK'
<1> SUFFICES ASSUME QueueOK, CountersOK, StepsOK, RegistryOK, [Next]_vars PROVE StepsOK'
  OBVIOUS
<1>a. UNCHANGED <<order, computed, materialized, touching, plan, relay, inflight>> => StepsOK'
  BY DEF StepsOK
<1>b. UNCHANGED <<order, computed, materialized, execVars>> => StepsOK'
  BY <1>a DEF execVars
<1>c. FenceAndDiscard => StepsOK'
  <2> SUFFICES ASSUME FenceAndDiscard PROVE StepsOK'
    OBVIOUS
  <2>1. /\ touching' = [r \in Requests |-> 0] /\ inflight' = <<>> /\ plan' = <<>>
        /\ order' = [r \in Requests |-> <<>>]
        /\ computed' = [r \in Requests |->
                          IF Registered(r) THEN materialized[r] ELSE computed[r]]
        /\ UNCHANGED <<materialized, relay>>
    BY DEF FenceAndDiscard
  <2>2. QED
    BY <2>1, NoRows DEF StepsOK
<1>d. Quarantine => StepsOK'
  BY <1>b DEF Quarantine
<1> USE DEF requestVars
<1>1. CASE BeginTick \/ EndAdmission \/ Decide \/ Launched
  BY <1>1, <1>b DEF BeginTick, EndAdmission, Decide, Launched
<1>2. CASE ReleaseFinished \/ AdmitNext
  BY <1>2, <1>b DEF ReleaseFinished, AdmitNext
<1>3. CASE Schedule
  <2>1. /\ RowsOK(plan') /\ order' \in [Requests -> Seq(Nat)]
        /\ computed' \in [Requests -> Nat]
    BY <1>3, ScheduleFacts
  <2>2. UNCHANGED <<materialized, touching, relay, inflight>>
    BY <1>3 DEF Schedule
  <2>3. QED
    BY <2>1, <2>2 DEF StepsOK
<1>4. CASE Rollback
  <2>1. /\ plan' = <<>> /\ order' \in [Requests -> Seq(Nat)]
        /\ computed' \in [Requests -> Nat]
    BY <1>4, RollbackFacts
  <2>2. UNCHANGED <<materialized, touching, relay, inflight>>
    BY <1>4 DEF Rollback
  <2>3. QED
    BY <2>1, <2>2, NoRows DEF StepsOK
<1>5. CASE Launch
  <2> DEFINE H == inflight'[Len(inflight) + 1]
  <2>1. /\ plan # <<>> /\ plan' = Rest
        /\ inflight' = Append(inflight, H) /\ HandleOK(H)
        /\ DOMAIN inflight' = 1..(Len(inflight) + 1) /\ DOMAIN inflight = 1..Len(inflight)
        /\ Len(inflight) \in Nat
        /\ \A h \in DOMAIN inflight : inflight'[h] = inflight[h]
        /\ touching' \in [Requests -> Nat]
        /\ relay' = IF NextGroup[1].phase = "decode" THEN NextGroup ELSE relay
    BY <1>5, LaunchFacts
  <2>2. RowsOK(plan') /\ RowsOK(relay') /\ \A i \in DOMAIN relay' : relay'[i].phase = "decode"
    BY <2>1, GroupFacts, RestFacts DEF StepsOK
  <2>a. inflight'[Len(inflight) + 1] = H
    OBVIOUS
  <2> HIDE DEF H
  <2>3. \A h \in DOMAIN inflight' : HandleOK(inflight'[h])
    <3> TAKE h \in DOMAIN inflight'
    <3>1. h \in DOMAIN inflight \/ h = Len(inflight) + 1
      BY <2>1
    <3>2. CASE h \in DOMAIN inflight
      BY <2>1, <3>2 DEF StepsOK
    <3>3. CASE h = Len(inflight) + 1
      BY <2>1, <2>a, <3>3
    <3>4. QED
      BY <3>1, <3>2, <3>3
  <2>4. inflight' \in Seq([phase : {"prefill", "decode"}, rows : Seq(WindowType),
                           input : Seq(Nat), version : 0..MaxVersion])
    <3> DEFINE T == [phase : {"prefill", "decode"}, rows : Seq(WindowType),
                     input : Seq(Nat), version : 0..MaxVersion]
    <3>1. inflight \in Seq(T) /\ H \in T
      BY <2>1 DEF StepsOK, HandleOK
    <3> HIDE DEF T
    <3>2. inflight' \in Seq(T)
      BY <3>1, <2>1, AppendFacts
    <3>3. QED
      BY <3>2 DEF T
  <2>5. UNCHANGED <<order, computed, materialized>>
    BY <1>5 DEF Launch
  <2>6. QED
    BY <2>1, <2>2, <2>3, <2>4, <2>5 DEF StepsOK
<1>6. CASE LaunchRaises
  <2>1. /\ plan' = <<>> /\ (relay' = <<>> \/ relay' = relay)
        /\ touching' = [r \in Requests |-> IF r \in Reqs(NextGroup)
                                           THEN touching[r] + 1 ELSE touching[r]]
        /\ UNCHANGED <<order, computed, materialized, inflight>>
    BY <1>6 DEF LaunchRaises
  <2>2. touching' \in [Requests -> Nat]
    <3>1. \A r \in Requests : touching[r] \in Nat /\ touching[r] + 1 \in Nat
      BY DEF StepsOK
    <3>2. QED
      BY <2>1, <3>1, Zenon
  <2>3. QED
    BY <2>1, <2>2, NoRows DEF StepsOK
<1>7. CASE Drain \/ ShutdownDrains
  BY <1>7, ResolveSteps DEF Drain, ShutdownDrains
<1>8. CASE DrainRaises \/ Drained \/ LoopCrashed \/ LoopStops
  BY <1>8, <1>b DEF DrainRaises, Drained, LoopCrashed, LoopStops
<1>9. CASE LoopShutsDown \/ UpdateWeights \/ StopBegins \/ StopStep \/ Start
  BY <1>9, <1>b DEF LoopShutsDown, UpdateWeights, StopBegins, StopStep, StopTimesOut,
                    StopShutsDown, Start
<1>10. CASE ShutdownBegins
  <2>1. CASE failed /\ touching' = [r \in Requests |-> 0]
             /\ UNCHANGED <<order, computed, materialized, plan, relay, inflight>>
    BY <2>1 DEF StepsOK
  <2>2. QED
    BY <1>10, <1>b, <1>d, <2>1 DEF ShutdownBegins
<1>11. CASE ShutdownDrainRaises \/ ShutdownFences
  BY <1>11, <1>c, <1>d DEF ShutdownDrainRaises, ShutdownFences
<1>12. CASE ShutdownDrained \/ ShutdownFinishes
  BY <1>12, <1>b DEF ShutdownDrained, ShutdownFinishes
<1>13. CASE \E r \in Requests : Submit(r) \/ Cancel(r)
  BY <1>13, <1>b DEF Submit, Cancel
<1>14. CASE UNCHANGED vars
  BY <1>14, <1>b DEF vars
<1>15. QED
  BY <1>1, <1>2, <1>3, <1>4, <1>5, <1>6, <1>7, <1>8, <1>9, <1>10, <1>11, <1>12, <1>13,
     <1>14 DEF Next, LoopStep, ClientStep, ShutdownStep

-----------------------------------------------------------------------------
(* The registry of planned windows. *)

\* The number of executions of a request that have a handle says in which handles it is.
LEMMA KnownFacts ==
    ASSUME StepsOK, NEW r \in Requests
    PROVE  /\ Flying(r) \in 0..2 /\ Planning(r) \in 0..1
           /\ Flying(r) = 0 <=> ~InFlight(r)
           /\ Flying(r) = 2 <=> InBoth(r)
           /\ InBoth(r) => InFlight(r) /\ Len(inflight) >= 2
           /\ InFlight(r) => Len(inflight) >= 1
           /\ order[r] \in Seq(Nat) /\ Len(order[r]) \in Nat
           /\ order[r] = <<>> <=> Len(order[r]) = 0
           /\ Len(inflight) \in Nat /\ DOMAIN inflight = 1..Len(inflight)
<1>1. Len(inflight) \in Nat /\ DOMAIN inflight = 1..Len(inflight)
  BY DEF StepsOK
<1>2. /\ InBoth(r) => InFlight(r) /\ Len(inflight) >= 2
      /\ InFlight(r) => Len(inflight) >= 1
  BY <1>1 DEF InBoth, InFlight
<1>3. order[r] \in Seq(Nat)
  BY DEF StepsOK
<1>4. QED
  BY <1>1, <1>2, <1>3 DEF Flying, Planning

\* Planning adds one window to the registry of a planned request, as the last one.
LEMMA RegistrySchedule ==
    ASSUME QueueOK, CountersOK, StepsOK, RegistryOK, FlightOK, Schedule
    PROVE  RegistryOK'
<1>1. /\ UNCHANGED <<phase, inflight, touching>>
      /\ pc = "schedule" /\ plan = <<>> /\ Len(inflight) <= 1
  BY DEF Schedule, FlightOK
<1>2. /\ plan' = PlannedRows /\ RowsOK(plan')
      /\ \A k \in DOMAIN plan' : order'[plan'[k].req] = Append(order[plan'[k].req], plan'[k].end)
      /\ \A r \in Requests \ Reqs(plan') : order'[r] = order[r]
  BY ScheduleFacts
<1>3. \A k \in DOMAIN plan' : phase[plan'[k].req] = "running"
  BY <1>2, PlanFacts
<1>4. \A r \in Reqs(plan') : r \in Requests /\ \E k \in DOMAIN plan' : plan'[k].req = r
  BY <1>2, ReqOf
<1>5. \A r \in Requests :
        /\ Flying(r)' = Flying(r) /\ Planning(r) = 0
        /\ Planning(r)' = IF r \in Reqs(plan') THEN 1 ELSE 0
        /\ \A h \in DOMAIN inflight : In(r, h)' <=> In(r, h)
        /\ Len(order[r]) = Flying(r)
  BY <1>1, NoRows DEF Flying, InBoth, InFlight, In, Planning, RegistryOK, NothingLost, Known,
                                Down
<1>6. \A r \in Requests :
        /\ r \in Reqs(plan') => /\ Len(order'[r]) = Len(order[r]) + 1
                                /\ phase[r] = "running" /\ order'[r] # <<>>
                                /\ \A i \in 1..Len(order[r]) : order'[r][i] = order[r][i]
        /\ r \notin Reqs(plan') => order'[r] = order[r]
  <2> SUFFICES ASSUME NEW r \in Requests, r \in Reqs(plan')
               PROVE  /\ Len(order'[r]) = Len(order[r]) + 1
                      /\ phase[r] = "running" /\ order'[r] # <<>>
                      /\ \A i \in 1..Len(order[r]) : order'[r][i] = order[r][i]
    BY <1>2
  <2>1. PICK k \in DOMAIN plan' : plan'[k].req = r
    BY <1>4
  <2>2. order'[r] = Append(order[r], plan'[k].end) /\ plan'[k].end \in Nat
    BY <1>2, <2>1, ReqOf
  <2>3. order[r] \in Seq(Nat)
    BY DEF StepsOK
  <2>4. QED
    BY <2>1, <2>2, <2>3, <1>3
<1>7. PlannedAreRunning'
  BY <1>1, <1>6 DEF RegistryOK, PlannedAreRunning
<1>8. \A r \in Requests : Len(order'[r]) = Known(r)'
  BY <1>5, <1>6, KnownFacts DEF Known
<1>9. PairsAreFirst'
  BY <1>1, <1>5 DEF RegistryOK, PairsAreFirst
<1>10. ASSUME NEW h \in DOMAIN inflight', NEW i \in DOMAIN inflight'[h].rows
       PROVE  EndOK(h, i)'
  <2> DEFINE w == inflight[h].rows[i]
  <2>1. /\ h \in DOMAIN inflight /\ i \in DOMAIN inflight[h].rows /\ h = 1
        /\ inflight'[h].rows[i] = w
    BY <1>1, <1>10 DEF StepsOK
  <2>2. w.end = order[w.req][1]
    BY <2>1 DEF RegistryOK, EndsMatch, EndOK
  <2>3. RowsOK(inflight[h].rows)
    BY <2>1 DEF StepsOK, HandleOK
  <2>4. w.req \in Requests /\ InFlight(w.req)
    BY <2>1, <2>3, ReqOf DEF In, InFlight
  <2>5. 1 \in 1..Len(order[w.req])
    BY <2>4, <1>5, KnownFacts
  <2> HIDE DEF w
  <2>6. order'[w.req][1] = w.end
    BY <2>2, <2>4, <2>5, <1>6
  <2>7. QED
    BY <2>1, <2>6 DEF EndOK
<1>11. PlanIsLast'
  <2> SUFFICES \A k \in DOMAIN plan' : plan'[k].end = Last(order'[plan'[k].req])
    BY DEF PlanIsLast, Last
  <2> TAKE k \in DOMAIN plan'
  <2>1. plan'[k].req \in Requests /\ plan'[k].end \in Nat
    BY <1>2, ReqOf
  <2>2. order[plan'[k].req] \in Seq(Nat)
    BY <2>1 DEF StepsOK
  <2>3. QED
    BY <1>2, <2>1, <2>2 DEF Last
<1>12. TouchingIsPlanned'
  <2>1. \A r \in Requests : touching[r] \in Nat /\ touching[r] <= Len(order[r])
    BY <1>5, KnownFacts DEF RegistryOK, TouchingIsPlanned, StepsOK
  <2>2. QED
    BY <1>1, <1>5, <1>6, <2>1, KnownFacts DEF TouchingIsPlanned
<1>13. \A r \in Requests : Known(r)' <= Len(order'[r])
  <2>1. \A r \in Requests : Known(r)' \in Nat
    BY <1>5, KnownFacts DEF Known
  <2>2. QED
    BY <1>8, <2>1
<1>14. KnownIsPlanned' /\ NothingLost' /\ EndsMatch'
  BY <1>8, <1>10, <1>13 DEF KnownIsPlanned, NothingLost, EndsMatch
<1>15. QED
  BY <1>7, <1>9, <1>11, <1>12, <1>14 DEF RegistryOK

\* Rolling back takes the planned windows away, and those in flight keep their places.
LEMMA RegistryRollback ==
    ASSUME StepsOK, RegistryOK, FlightOK, Rollback
    PROVE  RegistryOK'
<1>1. /\ UNCHANGED <<phase, inflight, touching>>
      /\ pc = "rollback" /\ Len(inflight) <= 1
  BY DEF Rollback, FlightOK
<1>2. /\ plan' = <<>>
      /\ \A r \in Reqs(plan) : order'[r] = Front(order[r])
      /\ \A r \in Requests \ Reqs(plan) : order'[r] = order[r]
  BY RollbackFacts
<1>3. \A r \in Requests :
        /\ Flying(r)' = Flying(r) /\ Planning(r)' = 0
        /\ Planning(r) = IF r \in Reqs(plan) THEN 1 ELSE 0
        /\ \A h \in DOMAIN inflight : In(r, h)' <=> In(r, h)
        /\ Len(order[r]) = Flying(r) + Planning(r)
  BY <1>1, <1>2, NoRows DEF Flying, InBoth, InFlight, In, Planning, RegistryOK,
                            NothingLost, Known, Down
<1>4. \A r \in Requests :
        /\ Len(order'[r]) = Flying(r)
        /\ order'[r] # <<>> => order[r] # <<>>
        /\ \A i \in 1..Flying(r) : order'[r][i] = order[r][i]
  <2> TAKE r \in Requests
  <2>1. CASE r \in Reqs(plan)
    <3>1. order[r] \in Seq(Nat) /\ order[r] # <<>>
      BY <2>1, PlannedOrder
    <3>2. /\ Front(order[r]) \in Seq(Nat) /\ Len(Front(order[r])) = Len(order[r]) - 1
          /\ \A i \in 1..(Len(order[r]) - 1) : Front(order[r])[i] = order[r][i]
          /\ Len(order[r]) \in Nat
      BY <3>1, FrontFacts
    <3>3. Len(order[r]) = Flying(r) + 1 /\ Flying(r) \in Nat
      BY <1>3, <2>1, KnownFacts
    <3>4. QED
      BY <1>2, <2>1, <3>1, <3>2, <3>3
  <2>2. CASE r \notin Reqs(plan)
    BY <1>2, <1>3, <2>2, KnownFacts
  <2>3. QED
    BY <2>1, <2>2
<1>5. PlannedAreRunning'
  BY <1>1, <1>4 DEF RegistryOK, PlannedAreRunning
<1>6. PairsAreFirst'
  BY <1>1, <1>3 DEF RegistryOK, PairsAreFirst
<1>7. KnownIsPlanned' /\ NothingLost'
  BY <1>3, <1>4, KnownFacts DEF KnownIsPlanned, NothingLost, Known
<1>8. ASSUME NEW h \in DOMAIN inflight', NEW i \in DOMAIN inflight'[h].rows
      PROVE  EndOK(h, i)'
  <2> DEFINE w == inflight[h].rows[i]
  <2>1. /\ h \in DOMAIN inflight /\ i \in DOMAIN inflight[h].rows /\ h = 1
        /\ inflight'[h].rows[i] = w
    BY <1>1, <1>8 DEF StepsOK
  <2>2. w.end = order[w.req][1]
    BY <2>1 DEF RegistryOK, EndsMatch, EndOK
  <2>3. RowsOK(inflight[h].rows)
    BY <2>1 DEF StepsOK, HandleOK
  <2>4. w.req \in Requests /\ InFlight(w.req)
    BY <2>1, <2>3, ReqOf DEF In, InFlight
  <2>5. 1 \in 1..Flying(w.req)
    BY <2>4, KnownFacts
  <2> HIDE DEF w
  <2>6. order'[w.req][1] = w.end
    BY <2>2, <2>4, <2>5, <1>4
  <2>7. QED
    BY <2>1, <2>6 DEF EndOK
<1>9. PlanIsLast'
  BY <1>2 DEF PlanIsLast
<1>10. TouchingIsPlanned'
  <2>1. \A r \in Requests : touching[r] \in Nat /\ touching[r] + Planning(r) <= Len(order[r])
    BY DEF RegistryOK, TouchingIsPlanned, StepsOK
  <2>2. QED
    BY <1>1, <1>3, <1>4, <2>1, KnownFacts DEF TouchingIsPlanned
<1>11. EndsMatch'
  BY <1>8 DEF EndsMatch
<1>12. QED
  BY <1>5, <1>6, <1>7, <1>9, <1>10, <1>11 DEF RegistryOK

\* A launch makes a planned window one in flight: the registry does not change.
LEMMA RegistryLaunch ==
    ASSUME CountersOK, StepsOK, RegistryOK, FlightOK, Launch
    PROVE  RegistryOK'
<1>0. PICK n \in Nat : n = Len(inflight)
  BY DEF StepsOK
<1>1. UNCHANGED <<phase, order, overlap, toDrain>> /\ pc = "submit" /\ pc' = pc
  BY DEF Launch, requestVars, loopVars
<1>2. /\ plan # <<>> /\ plan' = Rest
      /\ DOMAIN inflight' = 1..(n + 1) /\ DOMAIN inflight = 1..n
      /\ \A h \in DOMAIN inflight : inflight'[h] = inflight[h]
      /\ inflight'[n + 1].rows = NextGroup
      /\ \A r \in Requests : touching'[r] = IF r \in Reqs(NextGroup)
                                            THEN touching[r] + 1 ELSE touching[r]
  BY <1>0, LaunchFacts
<1>3. /\ Reqs(Rest) = Reqs(plan) \ Reqs(NextGroup) /\ Reqs(NextGroup) \subseteq Reqs(plan)
      /\ Elements(Rest) \subseteq Elements(plan) /\ RowsOK(NextGroup)
      /\ Elements(NextGroup) \subseteq Elements(plan)
      /\ Reqs(plan) \subseteq Requests
  BY <1>2, RestFacts, GroupFacts, ReqOf DEF StepsOK
<1>4. \A r \in Reqs(plan) : InFlight(r) => n = 1 /\ In(r, 1)
  <2> SUFFICES ASSUME NEW r \in Reqs(plan), InFlight(r) PROVE n = 1 /\ In(r, 1)
    OBVIOUS
  <2>1. n <= 1
    BY <1>0, <1>1, <1>2 DEF FlightOK
  <2>2. PICK h \in DOMAIN inflight : In(r, h)
    BY DEF InFlight
  <2>3. QED
    BY <1>2, <2>1, <2>2
<1>5. \A r \in Requests :
        /\ \A h \in DOMAIN inflight : In(r, h)' <=> In(r, h)
        /\ In(r, n + 1)' <=> r \in Reqs(NextGroup)
  BY <1>2 DEF In
<1>6. \A r \in Requests :
        /\ Planning(r) = IF r \in Reqs(plan) THEN 1 ELSE 0
        /\ Planning(r)' = IF r \in Reqs(plan) \ Reqs(NextGroup) THEN 1 ELSE 0
  BY <1>2, <1>3 DEF Planning
<1>7. \A r \in Requests : Len(order[r]) = Flying(r) + Planning(r)
  BY <1>1 DEF RegistryOK, NothingLost, Known, Down
<1>8. ASSUME NEW r \in Reqs(NextGroup) PROVE Flying(r)' = Flying(r) + 1
  <2>0. r \in Reqs(plan) /\ r \in Requests
    BY <1>3, <1>8
  <2>1. CASE InFlight(r)
    <3>1. n = 1 /\ In(r, 1) /\ ~InBoth(r)
      BY <1>2, <1>4, <2>0, <2>1, KnownFacts DEF InBoth
    <3>2. InBoth(r)'
      BY <1>2, <1>5, <1>8, <2>0, <3>1 DEF InBoth
    <3>3. QED
      BY <3>1, <3>2, <2>1 DEF Flying
  <2>2. CASE ~InFlight(r)
    <3>1. \A h \in DOMAIN inflight : ~In(r, h)
      BY <2>2 DEF InFlight
    <3>2. ~InBoth(r)'
      <4>1. ~(1 \in DOMAIN inflight' /\ 2 \in DOMAIN inflight'
              /\ In(r, 1)' /\ In(r, 2)')
        BY <1>2, <1>5, <2>0, <3>1
      <4>2. QED
        BY <4>1 DEF InBoth
    <3>3. InFlight(r)'
      BY <1>2, <1>5, <1>8, <2>0 DEF InFlight
    <3>4. QED
      BY <3>2, <3>3, <2>0, <2>2, KnownFacts DEF Flying
  <2>3. QED
    BY <2>1, <2>2
<1>9. ASSUME NEW r \in Requests, r \notin Reqs(NextGroup) PROVE Flying(r)' = Flying(r)
  <2>1. InFlight(r)' <=> InFlight(r)
    BY <1>2, <1>5, <1>9 DEF InFlight
  <2>2. InBoth(r)' <=> InBoth(r)
    <3>1. \A h \in Nat : h \in DOMAIN inflight' /\ In(r, h)' <=> h \in DOMAIN inflight /\ In(r, h)
      BY <1>2, <1>5, <1>9
    <3>2. QED
      BY <3>1 DEF InBoth
  <2>3. QED
    BY <2>1, <2>2 DEF Flying
<1>10. KnownIsPlanned' /\ NothingLost'
  <2>1. \A r \in Requests : Len(order'[r]) = Flying(r)' + Planning(r)'
    BY <1>1, <1>3, <1>6, <1>7, <1>8, <1>9, KnownFacts
  <2>2. \A r \in Requests : Len(order'[r]) \in Nat
    BY <1>1, KnownFacts
  <2>3. QED
    BY <2>1, <2>2 DEF KnownIsPlanned, NothingLost, Known
<1>11. PlannedAreRunning'
  BY <1>1 DEF RegistryOK, PlannedAreRunning
<1>12. PairsAreFirst'
  <2> SUFFICES ASSUME NEW h \in DOMAIN inflight', NEW k \in DOMAIN inflight',
                      NEW r \in Requests, h < k, In(r, h)', In(r, k)'
               PROVE  h = 1 /\ k = 2
    BY DEF PairsAreFirst
  <2>1. h \in DOMAIN inflight /\ In(r, h) /\ InFlight(r)
    BY <1>2, <1>5 DEF InFlight
  <2>2. CASE k \in DOMAIN inflight
    BY <1>5, <2>1, <2>2 DEF RegistryOK, PairsAreFirst
  <2>3. CASE k = n + 1
    BY <1>2, <1>3, <1>4, <1>5, <2>1, <2>3
  <2>4. QED
    BY <1>2, <2>2, <2>3
<1>13. ASSUME NEW h \in DOMAIN inflight', NEW i \in DOMAIN inflight'[h].rows
       PROVE  EndOK(h, i)'
  <2>0. PICK w : w = inflight'[h].rows[i]
    OBVIOUS
  <2>1. CASE h \in DOMAIN inflight
    <3>1. i \in DOMAIN inflight[h].rows /\ inflight[h].rows[i] = w
      BY <1>2, <1>13, <2>0, <2>1
    <3>2. RowsOK(inflight[h].rows)
      BY <2>1 DEF StepsOK, HandleOK
    <3>3. w.req \in Requests
      BY <3>1, <3>2, ReqOf
    <3>4. w.end = order[w.req][IF h = 2 /\ In(w.req, 1) THEN 2 ELSE 1]
      BY <2>1, <3>1 DEF RegistryOK, EndsMatch, EndOK
    <3>5. h = 2 => 1 \in DOMAIN inflight
      BY <1>2, <2>1
    <3>6. h = 2 => (In(w.req, 1)' <=> In(w.req, 1))
      BY <1>5, <3>3, <3>5
    <3>7. w.end = order'[w.req][IF h = 2 /\ In(w.req, 1)' THEN 2 ELSE 1]
      BY <1>1, <3>4, <3>6
    <3>8. QED
      BY <2>0, <3>7 DEF EndOK
  <2>2. CASE h = n + 1
    <3>1. i \in DOMAIN NextGroup /\ w = NextGroup[i]
      BY <1>2, <1>13, <2>0, <2>2
    <3>2. w \in Elements(plan) /\ w.req \in Reqs(NextGroup) /\ w.req \in Requests
      <4>1. w \in Elements(NextGroup)
        BY <3>1 DEF Elements
      <4>2. w.req \in Reqs(NextGroup) /\ w.req \in Requests
        BY <1>3, <3>1, ReqOf
      <4>3. QED
        BY <1>3, <4>1, <4>2
    <3>3. w.end = Last(order[w.req])
      BY <3>2 DEF RegistryOK, PlanIsLast, Elements
    <3>4. Len(order[w.req]) = Flying(w.req) + 1 /\ w.req \in Reqs(plan)
      BY <1>3, <1>6, <1>7, <3>2
    <3>5. CASE InFlight(w.req)
      <4>1. n = 1 /\ In(w.req, 1) /\ ~InBoth(w.req)
        BY <1>2, <1>4, <3>4, <3>5 DEF InBoth
      <4>2. Flying(w.req) = 1 /\ In(w.req, 1)' /\ h = 2
        BY <1>2, <1>5, <2>2, <3>2, <3>5, <4>1 DEF Flying
      <4>3. w.end = order'[w.req][IF h = 2 /\ In(w.req, 1)' THEN 2 ELSE 1]
        BY <1>1, <3>3, <3>4, <4>2 DEF Last
      <4>4. QED
        BY <2>0, <4>3 DEF EndOK
    <3>6. CASE ~InFlight(w.req)
      <4>1. Flying(w.req) = 0
        BY <3>2, <3>6, KnownFacts
      <4>2. h = 2 => ~In(w.req, 1)'
        BY <1>2, <1>5, <2>2, <3>2, <3>6 DEF InFlight
      <4>3. w.end = order'[w.req][IF h = 2 /\ In(w.req, 1)' THEN 2 ELSE 1]
        BY <1>1, <3>3, <3>4, <4>1, <4>2 DEF Last
      <4>4. QED
        BY <2>0, <4>3 DEF EndOK
    <3>7. QED
      BY <3>5, <3>6
  <2>3. QED
    BY <1>2, <2>1, <2>2
<1>14. PlanIsLast'
  <2>1. \A i \in DOMAIN Rest : Rest[i] \in Elements(plan)
    BY <1>3 DEF Elements
  <2>2. \A i \in DOMAIN Rest : Rest[i].end = Last(order[Rest[i].req])
    BY <2>1 DEF RegistryOK, PlanIsLast, Elements
  <2>3. QED
    BY <1>1, <1>2, <2>2 DEF PlanIsLast, Last
<1>15. TouchingIsPlanned'
  <2>1. \A r \in Requests : touching[r] \in Nat /\ touching[r] + Planning(r) <= Len(order[r])
    BY DEF RegistryOK, TouchingIsPlanned, StepsOK
  <2>2. QED
    BY <1>1, <1>2, <1>3, <1>6, <2>1, KnownFacts, SMTT(60) DEF TouchingIsPlanned
<1>16. EndsMatch'
  BY <1>13 DEF EndsMatch
<1>17. QED
  BY <1>10, <1>11, <1>12, <1>14, <1>15, <1>16 DEF RegistryOK

\* Resolving moves the windows in flight down by one place, in the handles and in the
\* registry.
LEMMA RegistryResolve ==
    ASSUME StepsOK, RegistryOK, inflight # <<>>, plan = <<>>, NEW stops, Resolve(stops),
           pc' \notin Down => pc \notin Down
    PROVE  RegistryOK'
<1>0. PICK n \in Nat : n = Len(inflight)
  BY DEF StepsOK
<1>1. /\ n >= 1 /\ DOMAIN inflight = 1..n /\ DOMAIN inflight' = 1..(n - 1)
      /\ \A h \in DOMAIN inflight' :
           h + 1 \in DOMAIN inflight /\ h \in Nat /\ inflight'[h] = inflight[h + 1]
      /\ \A r \in Requests :
           /\ order'[r] = IF In(r, 1) THEN Tail(order[r]) ELSE order[r]
           /\ touching'[r] = IF In(r, 1) THEN Larger(0, touching[r] - 1) ELSE touching[r]
           /\ In(r, 1) => order[r] # <<>>
      /\ UNCHANGED <<phase, plan>>
  BY <1>0, ResolveFacts
<1>2. \A r \in Requests : /\ Planning(r) = 0 /\ Planning(r)' = 0
                          /\ \A h \in DOMAIN inflight' : In(r, h)' <=> In(r, h + 1)
  BY <1>1, NoRows DEF Planning, In
<1>3. \A r \in Requests :
        /\ order[r] \in Seq(Nat) /\ Len(order[r]) \in Nat
        /\ In(r, 1) => /\ Len(order'[r]) = Len(order[r]) - 1
                       /\ Len(order[r]) >= 1
                       /\ \A i \in 1..(Len(order[r]) - 1) : order'[r][i] = order[r][i + 1]
        /\ ~In(r, 1) => order'[r] = order[r]
  <2> TAKE r \in Requests
  <2>1. order[r] \in Seq(Nat)
    BY DEF StepsOK
  <2>2. CASE In(r, 1)
    <3>1. order[r] # <<>> /\ order'[r] = Tail(order[r])
      BY <1>1, <2>2
    <3> HIDE <1>1
    <3>2. QED
      BY <2>1, <2>2, <3>1
  <2>3. CASE ~In(r, 1)
    BY <1>1, <2>1, <2>3
  <2>4. QED
    BY <2>2, <2>3
<1>4. \A r \in Requests : \A h \in 1..n : In(r, 1) /\ In(r, h) /\ h # 1 => h = 2
  <2> SUFFICES ASSUME NEW r \in Requests, NEW h \in 1..n, In(r, 1), In(r, h), h # 1
               PROVE  h = 2
    OBVIOUS
  <2>1. 1 \in DOMAIN inflight /\ h \in DOMAIN inflight /\ 1 < h
    BY <1>1
  <2>2. QED
    BY <2>1 DEF RegistryOK, PairsAreFirst
<1>5. ASSUME NEW r \in Requests
      PROVE  /\ ~InBoth(r)'
             /\ In(r, 1) => Flying(r)' = Flying(r) - 1
             /\ ~In(r, 1) => Flying(r)' = Flying(r)
  <2>1. ~InBoth(r)'
    <3> SUFFICES ASSUME InBoth(r)' PROVE FALSE
      OBVIOUS
    <3>1. 1 \in DOMAIN inflight' /\ 2 \in DOMAIN inflight' /\ In(r, 1)' /\ In(r, 2)'
      BY DEF InBoth
    <3>2. In(r, 2) /\ In(r, 3) /\ 2 \in DOMAIN inflight /\ 3 \in DOMAIN inflight
      BY <1>1, <1>2, <3>1
    <3>3. QED
      BY <3>2 DEF RegistryOK, PairsAreFirst
  <2>2. InFlight(r)' <=> \E h \in 2..n : In(r, h)
    <3>1. \A h \in 2..n : h - 1 \in DOMAIN inflight' /\ (In(r, h - 1)' <=> In(r, h))
      <4> TAKE h \in 2..n
      <4>1. h - 1 \in DOMAIN inflight' /\ (h - 1) + 1 = h
        BY <1>1
      <4>2. QED
        BY <4>1, <1>2
    <3>2. \A h \in DOMAIN inflight' : h + 1 \in 2..n
      BY <1>1
    <3>3. QED
      BY <1>2, <3>1, <3>2 DEF InFlight
  <2>3. InFlight(r) <=> In(r, 1) \/ \E h \in 2..n : In(r, h)
    <3>1. \A h \in 1..n : h = 1 \/ h \in 2..n
      OBVIOUS
    <3>2. 1 \in DOMAIN inflight /\ 2..n \subseteq DOMAIN inflight
      BY <1>1
    <3>3. QED
      BY <1>1, <3>1, <3>2 DEF InFlight
  <2>4. CASE In(r, 1)
    <3>1. InBoth(r) <=> \E h \in 2..n : In(r, h)
      BY <1>1, <1>4, <2>4 DEF InBoth
    <3>2. QED
      BY <2>1, <2>2, <2>3, <2>4, <3>1 DEF Flying
  <2>5. CASE ~In(r, 1)
    BY <2>1, <2>2, <2>3, <2>5 DEF Flying, InBoth
  <2>6. QED
    BY <2>1, <2>4, <2>5
<1>6. PlannedAreRunning'
  BY <1>1 DEF RegistryOK, PlannedAreRunning
<1>7. KnownIsPlanned' /\ NothingLost'
  <2>1. \A r \in Requests : Known(r) <= Len(order[r]) /\ Known(r) = Flying(r)
    BY <1>2, KnownFacts DEF RegistryOK, KnownIsPlanned, Known
  <2>2. \A r \in Requests : Known(r)' <= Len(order'[r])
    BY <1>2, <1>3, <1>5, <2>1, KnownFacts DEF Known
  <2>3. pc \notin Down => \A r \in Requests : Len(order'[r]) = Known(r)'
    <3>1. pc \notin Down => \A r \in Requests : Len(order[r]) = Flying(r)
      BY <2>1 DEF RegistryOK, NothingLost
    <3>2. QED
      BY <1>2, <1>3, <1>5, <3>1, KnownFacts DEF Known
  <2>4. QED
    BY <2>2, <2>3 DEF KnownIsPlanned, NothingLost
<1>8. PairsAreFirst'
  <2> SUFFICES ASSUME NEW h \in DOMAIN inflight', NEW k \in DOMAIN inflight',
                      NEW r \in Requests, h < k, In(r, h)', In(r, k)'
               PROVE  FALSE
    BY DEF PairsAreFirst
  <2>1. /\ h + 1 \in DOMAIN inflight /\ k + 1 \in DOMAIN inflight
        /\ In(r, h + 1) /\ In(r, k + 1) /\ h \in Nat /\ k \in Nat /\ h >= 1
    BY <1>1, <1>2
  <2>2. h + 1 = 1
    BY <2>1 DEF RegistryOK, PairsAreFirst
  <2>3. QED
    BY <2>1, <2>2
<1>9. ASSUME NEW h \in DOMAIN inflight', NEW i \in DOMAIN inflight'[h].rows
      PROVE  EndOK(h, i)'
  <2>0. PICK w : w = inflight'[h].rows[i]
    OBVIOUS
  <2>1. /\ h + 1 \in DOMAIN inflight /\ h \in Nat /\ h >= 1
        /\ i \in DOMAIN inflight[h + 1].rows
        /\ w = inflight[h + 1].rows[i]
    BY <1>1, <1>9, <2>0
  <2>2. RowsOK(inflight[h + 1].rows)
    BY <2>1 DEF StepsOK, HandleOK
  <2>3. w.req \in Requests /\ In(w.req, h + 1)
    BY <2>1, <2>2, ReqOf DEF In
  <2>4. w.end = order[w.req][IF h + 1 = 2 /\ In(w.req, 1) THEN 2 ELSE 1]
    BY <2>1 DEF RegistryOK, EndsMatch, EndOK
  <2>5. w.end = order'[w.req][IF h = 2 /\ In(w.req, 1)' THEN 2 ELSE 1]
    <3>1. ~(h = 2 /\ In(w.req, 1)')
      <4> SUFFICES ASSUME h = 2, In(w.req, 1)' PROVE FALSE
        OBVIOUS
      <4>1. In(w.req, 2) /\ In(w.req, 3) /\ 2 \in DOMAIN inflight /\ 3 \in DOMAIN inflight
        BY <1>1, <1>2, <2>1, <2>3
      <4>2. QED
        BY <2>3, <4>1 DEF RegistryOK, PairsAreFirst
    <3>2. CASE In(w.req, 1)
      <4>1. h = 1
        BY <1>1, <1>4, <2>1, <2>3, <3>2
      <4>2. InBoth(w.req)
        BY <1>1, <2>1, <2>3, <3>2, <4>1 DEF InBoth
      <4>3. Len(order[w.req]) >= 2
        BY <2>3, <4>2, KnownFacts DEF RegistryOK, KnownIsPlanned, Known
      <4>4. order'[w.req][1] = order[w.req][2]
        BY <1>3, <2>3, <3>2, <4>3
      <4>5. QED
        BY <2>4, <3>1, <3>2, <4>1, <4>4
    <3>3. CASE ~In(w.req, 1)
      BY <1>3, <2>3, <2>4, <3>1, <3>3
    <3>4. QED
      BY <3>2, <3>3
  <2>6. QED
    BY <2>0, <2>5 DEF EndOK
<1>10. PlanIsLast'
  BY <1>1 DEF PlanIsLast
<1>11. TouchingIsPlanned'
  <2>1. \A r \in Requests : touching[r] \in Nat /\ touching[r] <= Len(order[r])
    BY <1>2 DEF RegistryOK, TouchingIsPlanned, StepsOK
  <2>2. QED
    BY <1>1, <1>2, <1>3, <2>1 DEF TouchingIsPlanned, Larger
<1>12. EndsMatch'
  BY <1>9 DEF EndsMatch
<1>13. QED
  BY <1>6, <1>7, <1>8, <1>10, <1>11, <1>12 DEF RegistryOK

\* At the start the registry is empty.
LEMMA RegistryInit == Init => RegistryOK
<1> SUFFICES ASSUME Init PROVE RegistryOK
  OBVIOUS
<1>1. /\ order = [r \in Requests |-> <<>>] /\ touching = [r \in Requests |-> 0]
      /\ plan = <<>> /\ inflight = <<>>
  BY DEF Init
<1>2. \A r \in Requests : Planning(r) = 0 /\ ~InFlight(r) /\ ~InBoth(r)
  BY <1>1, NoRows DEF Planning, InFlight, InBoth
<1>3. \A r \in Requests : order[r] = <<>> /\ touching[r] = 0 /\ Known(r) = 0
  BY <1>1, <1>2 DEF Known, Flying
<1>4. QED
  BY <1>1, <1>2, <1>3 DEF RegistryOK, PlannedAreRunning, KnownIsPlanned, NothingLost,
                          PairsAreFirst, EndsMatch, PlanIsLast, TouchingIsPlanned

\* An exception, a fence and a restart keep the registry, too: what an exception loses
\* stays registered until the fence, and a loop starts only after it.
LEMMA RegistryStep ==
    /\ ControlOK /\ QueueOK /\ CountersOK /\ StepsOK /\ RegistryOK /\ FlightOK
    /\ [Next]_vars
    => RegistryOK'
<1> SUFFICES ASSUME ControlOK, QueueOK, CountersOK, StepsOK, RegistryOK, FlightOK, [Next]_vars
             PROVE  RegistryOK'
  OBVIOUS
<1>a. ASSUME UNCHANGED <<order, plan, inflight, touching>>, pc' \notin Down => pc \notin Down,
             \A r \in Requests : order[r] # <<>> /\ phase[r] = "running" => phase'[r] = "running"
      PROVE  RegistryOK'
  <2>1. /\ \A r \in Requests : Known(r)' = Known(r) /\ Planning(r)' = Planning(r)
        /\ \A r : \A h : In(r, h)' <=> In(r, h)
    BY <1>a DEF Known, Flying, Planning, InBoth, InFlight, In
  <2>2. PlannedAreRunning'
    BY <1>a DEF PlannedAreRunning, RegistryOK
  <2>3. KnownIsPlanned' /\ NothingLost' /\ TouchingIsPlanned'
    BY <1>a, <2>1 DEF RegistryOK, KnownIsPlanned, NothingLost, TouchingIsPlanned
  <2>4. PairsAreFirst' /\ EndsMatch' /\ PlanIsLast'
    BY <1>a, <2>1 DEF RegistryOK, PairsAreFirst, EndsMatch, EndOK, PlanIsLast, Last
  <2>5. QED
    BY <2>2, <2>3, <2>4 DEF RegistryOK
<1>b. UNCHANGED <<phase, order, execVars>> /\ (pc' \notin Down => pc \notin Down) => RegistryOK'
  BY <1>a DEF execVars
<1>c. \A reg, term, ph, wait :
        /\ Release(Releasable(reg, term, order), ph, wait) /\ UNCHANGED <<order, execVars>>
        /\ (pc' \notin Down => pc \notin Down)
        /\ \A r \in Requests : phase[r] = "running" => ph[r] = "running"
        => RegistryOK'
  BY <1>a DEF Release, Releasable, execVars
<1>d. FenceAndDiscard => RegistryOK'
  <2> SUFFICES ASSUME FenceAndDiscard PROVE RegistryOK'
    OBVIOUS
  <2>1. /\ touching' = [r \in Requests |-> 0] /\ inflight' = <<>> /\ plan' = <<>>
        /\ order' = [r \in Requests |-> <<>>]
    BY DEF FenceAndDiscard
  <2>2. \A r \in Requests : Planning(r)' = 0 /\ ~InFlight(r)' /\ ~InBoth(r)'
    BY <2>1, NoRows DEF Planning, InFlight, InBoth
  <2>3. \A r \in Requests : order'[r] = <<>> /\ touching'[r] = 0 /\ Known(r)' = 0
    BY <2>1, <2>2 DEF Known, Flying
  <2>4. QED
    BY <2>1, <2>2, <2>3 DEF RegistryOK, PlannedAreRunning, KnownIsPlanned, NothingLost,
                            PairsAreFirst, EndsMatch, PlanIsLast, TouchingIsPlanned
<1>e. shutdown.at # "none" => pc \in Down
  BY DEF ControlOK, ShutdownPlaces, Down
<1>f. Quarantine => RegistryOK'
  BY <1>b, <1>e DEF Quarantine, EndShutdown, Down, ControlOK, ShutdownPlaces
<1> USE DEF requestVars
<1>1. CASE BeginTick \/ EndAdmission \/ Decide \/ Launched
  BY <1>1, <1>b DEF BeginTick, EndAdmission, Decide, Launched, Down
<1>2. CASE ReleaseFinished
  BY <1>2, <1>c DEF ReleaseFinished, Down
<1>3. CASE AdmitNext
  <2>1. /\ UNCHANGED <<order, execVars, pc>>
        /\ \/ phase' = phase
           \/ phase' = [phase EXCEPT ![Head(waiting)] = "running"]
    BY <1>3 DEF AdmitNext
  <2>2. \A r \in Requests : phase[r] = "running" => phase'[r] = "running"
    BY <2>1 DEF QueueOK
  <2>3. QED
    BY <2>1, <2>2, <1>a DEF execVars
<1>4. CASE Schedule
  BY <1>4, RegistrySchedule
<1>5. CASE Rollback
  BY <1>5, RegistryRollback
<1>6. CASE Launch
  BY <1>6, RegistryLaunch
<1>7. CASE LaunchRaises
  <2>1. /\ plan # <<>> /\ plan' = <<>> /\ pc' = "crashed"
        /\ touching' = [r \in Requests |-> IF r \in Reqs(NextGroup)
                                           THEN touching[r] + 1 ELSE touching[r]]
        /\ UNCHANGED <<phase, order, inflight>>
    BY <1>7 DEF LaunchRaises
  <2>2. Reqs(NextGroup) \subseteq Reqs(plan)
    BY <2>1, RestFacts DEF StepsOK
  <2>3. \A r \in Requests :
          /\ Planning(r)' = 0 /\ Flying(r)' = Flying(r)
          /\ Planning(r) = IF r \in Reqs(plan) THEN 1 ELSE 0
          /\ \A h : In(r, h)' <=> In(r, h)
    BY <2>1, NoRows DEF Planning, Flying, InBoth, InFlight, In
  <2>4. KnownIsPlanned' /\ NothingLost'
    BY <2>1, <2>3, KnownFacts DEF RegistryOK, KnownIsPlanned, NothingLost, Known, Down
  <2>5. TouchingIsPlanned'
    <3>1. \A r \in Requests : touching[r] \in Nat /\ touching[r] + Planning(r) <= Len(order[r])
      BY DEF RegistryOK, TouchingIsPlanned, StepsOK
    <3>2. QED
      BY <2>1, <2>2, <2>3, <3>1, KnownFacts DEF TouchingIsPlanned
  <2>6. PlannedAreRunning' /\ PlanIsLast'
    BY <2>1 DEF RegistryOK, PlannedAreRunning, PlanIsLast
  <2>7. PairsAreFirst' /\ EndsMatch'
    <3>1. \A r : \A h : In(r, h)' <=> In(r, h)
      BY <2>1 DEF In
    <3>2. QED
      BY <2>1, <3>1 DEF RegistryOK, PairsAreFirst, EndsMatch, EndOK
  <2>8. QED
    BY <2>4, <2>5, <2>6, <2>7 DEF RegistryOK
<1>8. CASE Drain
  <2>1. plan = <<>> /\ inflight # <<>> /\ pc' = pc /\ \E stops : Resolve(stops)
    BY <1>8 DEF Drain, FlightOK
  <2>2. QED
    BY <2>1, RegistryResolve
<1>9. CASE ShutdownDrains
  <2>1. plan = <<>> /\ inflight # <<>> /\ pc' = pc /\ \E stops : Resolve(stops)
    BY <1>9, <1>e DEF ShutdownDrains, FlightOK, Down, loopVars
  <2>2. QED
    BY <2>1, RegistryResolve
<1>10. CASE DrainRaises \/ Drained \/ LoopCrashed \/ LoopStops
  BY <1>10, <1>b DEF DrainRaises, Drained, LoopCrashed, LoopStops, Down
<1>11. CASE LoopShutsDown \/ UpdateWeights \/ StopBegins \/ StopStep
  BY <1>11, <1>b DEF LoopShutsDown, UpdateWeights, StopBegins, StopStep, StopTimesOut,
                     StopShutsDown, loopVars
<1>12. CASE Start
  <2>1. /\ pc = "dead" /\ ~failed /\ shutdown.at = "none"
        /\ UNCHANGED <<phase, order, execVars>>
    BY <1>12 DEF Start, LockFree, NotRunning
  <2>2. /\ plan = <<>> /\ inflight = <<>> /\ ~HasOutstanding
    BY <2>1 DEF FlightOK
  <2>3. \A r \in Requests : order'[r] = <<>> /\ Known(r)' = 0 /\ Known(r) = 0
    <3>1. \A r \in Requests : order'[r] = <<>>
      BY <2>1, <2>2 DEF HasOutstanding
    <3>2. plan' = <<>> /\ inflight' = <<>>
      BY <2>1, <2>2 DEF execVars
    <3>3. \A r \in Requests : /\ Planning(r)' = 0 /\ ~InFlight(r)' /\ ~InBoth(r)'
                              /\ Planning(r) = 0 /\ ~InFlight(r) /\ ~InBoth(r)
      BY <2>2, <3>2, NoRows DEF Planning, InFlight, InBoth
    <3>4. QED
      BY <3>1, <3>3 DEF Known, Flying
  <2>4. plan' = <<>> /\ inflight' = <<>> /\ touching' = touching /\ order' = order
    BY <2>1, <2>2 DEF execVars
  <2>5. KnownIsPlanned' /\ NothingLost' /\ PlannedAreRunning'
    BY <2>3 DEF KnownIsPlanned, NothingLost, PlannedAreRunning
  <2>6. PairsAreFirst' /\ EndsMatch' /\ PlanIsLast'
    BY <2>4 DEF PairsAreFirst, EndsMatch, PlanIsLast
  <2>7. TouchingIsPlanned'
    <3>1. \A r \in Requests : Planning(r)' = Planning(r)
      BY <2>2, <2>4 DEF Planning
    <3>2. QED
      BY <2>4, <3>1 DEF RegistryOK, TouchingIsPlanned
  <2>8. QED
    BY <2>5, <2>6, <2>7 DEF RegistryOK
<1>13. CASE ShutdownBegins
  <2>1. CASE failed /\ Quarantine
    BY <2>1, <1>f
  <2>2. CASE UNCHANGED <<phase, order, execVars, pc>>
    BY <2>2, <1>b
  <2>3. CASE /\ touching' = [r \in Requests |-> 0]
             /\ UNCHANGED <<phase, order, plan, inflight, pc>>
    <3>1. /\ \A r \in Requests : Known(r)' = Known(r) /\ Planning(r)' = Planning(r)
          /\ \A r : \A h : In(r, h)' <=> In(r, h)
      BY <2>3 DEF Known, Flying, Planning, InBoth, InFlight, In
    <3>2. KnownIsPlanned' /\ NothingLost' /\ PlannedAreRunning'
      BY <2>3, <3>1 DEF RegistryOK, KnownIsPlanned, NothingLost, PlannedAreRunning
    <3>3. TouchingIsPlanned'
      <4>1. \A r \in Requests : touching[r] \in Nat /\ touching[r] + Planning(r) <= Len(order[r])
        BY DEF RegistryOK, TouchingIsPlanned, StepsOK
      <4>2. QED
        BY <2>3, <3>1, <4>1, KnownFacts DEF TouchingIsPlanned
    <3>4. PairsAreFirst' /\ EndsMatch' /\ PlanIsLast'
      BY <2>3, <3>1 DEF RegistryOK, PairsAreFirst, EndsMatch, EndOK, PlanIsLast, Last
    <3>5. QED
      BY <3>2, <3>3, <3>4 DEF RegistryOK
  <2>4. QED
    BY <1>13, <2>1, <2>2, <2>3 DEF ShutdownBegins, loopVars
<1>14. CASE ShutdownDrainRaises \/ ShutdownFences
  BY <1>14, <1>d, <1>f DEF ShutdownDrainRaises, ShutdownFences
<1>15. CASE ShutdownDrained
  BY <1>15, <1>b DEF ShutdownDrained, loopVars
<1>16. CASE ShutdownFinishes
  <2>1. pc' \in Down
    BY <1>16, <1>e DEF ShutdownFinishes, EndShutdown, Down
  <2>2. QED
    BY <1>16, <2>1, <1>c DEF ShutdownFinishes
<1>17. ASSUME NEW q \in Requests, Submit(q) PROVE RegistryOK'
  <2> DEFINE ph == [phase EXCEPT ![q] = "waiting"]
  <2>1. /\ phase[q] = "new" /\ UNCHANGED <<order, execVars, pc>>
        /\ \E reg, wait : Release(Releasable(reg, terminal', order), ph, wait)
    BY <1>17 DEF Submit, loopVars
  <2>2. \A r \in Requests : phase[r] = "running" => ph[r] = "running"
    BY <2>1
  <2> HIDE DEF ph
  <2>3. QED
    BY <2>1, <2>2, <1>c
<1>18. ASSUME NEW q \in Requests, Cancel(q) PROVE RegistryOK'
  BY <1>18, <1>c DEF Cancel, loopVars
<1>19. CASE UNCHANGED vars
  BY <1>19, <1>b DEF vars, loopVars
<1>20. QED
  BY <1>1, <1>2, <1>3, <1>4, <1>5, <1>6, <1>7, <1>8, <1>9, <1>10, <1>11, <1>12, <1>13,
     <1>14, <1>15, <1>16, <1>17, <1>18, <1>19 DEF Next, LoopStep, ClientStep, ShutdownStep

-----------------------------------------------------------------------------
(* How many handles there are. *)

\* At the start there is no handle.
LEMMA FlightInit == Init => FlightOK
<1> SUFFICES ASSUME Init PROVE FlightOK
  OBVIOUS
<1>1. /\ plan = <<>> /\ inflight = <<>> /\ toDrain = 0 /\ pc = "top"
      /\ shutdown.at = "none"
  BY DEF Init, NotRunning
<1>2. Len(inflight) = 0
  BY <1>1
<1>3. QED
  BY <1>1, <1>2 DEF FlightOK

\* A planned step at most follows the one in flight, and only when both are decode steps
\* of the same batch; a shutdown that ended left nothing planned or in flight.
LEMMA FlightStep ==
    /\ ControlOK /\ QueueOK /\ CountersOK /\ StepsOK /\ RegistryOK /\ FlightOK
    /\ [Next]_vars
    => FlightOK'
<1> SUFFICES ASSUME ControlOK, QueueOK, CountersOK, StepsOK, RegistryOK, FlightOK, [Next]_vars
             PROVE  FlightOK'
  OBVIOUS
<1>0. /\ Len(inflight) \in Nat /\ toDrain \in Nat
      /\ inflight = <<>> <=> Len(inflight) = 0
  BY DEF StepsOK, FlightOK
<1>a. shutdown.at # "none" => pc \in {"exiting", "dead"}
  BY DEF ControlOK, ShutdownPlaces
<1>b. UNCHANGED <<running, terminal, computed, out, inflight>> => (CanOverlap' <=> CanOverlap)
  BY DEF CanOverlap, Active, Prefilled, Identities
<1>c. UNCHANGED <<plan, inflight, order>> =>
        /\ \A r \in Reqs(plan) : InFlight(r)' <=> InFlight(r)
        /\ Reqs(plan') = Reqs(plan) /\ (HasOutstanding' <=> HasOutstanding)
        /\ Len(inflight') = Len(inflight)
  BY DEF InFlight, In, HasOutstanding
\* A place of the loop that holds no handle back.
<1>d. ASSUME UNCHANGED <<order, execVars>>, pc' \in {"crashed", "exiting", "dead"},
             toDrain' = toDrain, plan = <<>>,
             shutdown'.at \in {"outstanding", "finish"} => inflight = <<>>,
             shutdown'.at = "finish" => ~HasOutstanding,
             pc' = "dead" /\ ~failed' /\ shutdown'.at = "none" =>
               /\ inflight = <<>> /\ ~HasOutstanding
               /\ \A r \in Requests : ~Registered(r)'
      PROVE  FlightOK'
  BY <1>0, <1>c, <1>d DEF FlightOK, execVars
<1>e. UNCHANGED <<phase, terminal, running, order, computed, out, execVars, pc, then, overlap,
                  toDrain, failed, shutdown>>
      => FlightOK'
  BY <1>b, <1>c DEF FlightOK, execVars, Registered
<1> USE DEF requestVars, lifeVars, loopVars, queueVars
<1>1. CASE BeginTick
  BY <1>1, <1>0, <1>c DEF BeginTick, FlightOK, execVars, LockFree, NotRunning
<1>2. CASE ReleaseFinished
  <2>1. /\ pc = "release" /\ pc' = then /\ shutdown.at = "none"
        /\ UNCHANGED <<order, plan, inflight, overlap, toDrain, then, shutdown>>
    BY <1>2, <1>a DEF ReleaseFinished, execVars
  <2>2. then \in {"admit", "decide", "schedule", "top"}
    BY DEF ControlOK
  <2>3. plan = <<>> /\ Len(inflight) <= 1
    BY <2>1 DEF FlightOK
  <2>4. then = "schedule" => inflight = <<>> /\ ~overlap
    BY <2>1 DEF FlightOK
  <2>5. QED
    BY <1>0, <1>c, <2>1, <2>2, <2>3, <2>4 DEF FlightOK
<1>3. CASE AdmitNext
  <2>1. /\ pc = "admit" /\ shutdown.at = "none"
        /\ UNCHANGED <<order, execVars, pc, overlap, toDrain, then, shutdown>>
    BY <1>3, <1>a DEF AdmitNext
  <2>2. QED
    BY <1>0, <1>c, <2>1 DEF FlightOK, execVars
<1>4. CASE EndAdmission
  <2>1. /\ pc = "admit" /\ pc' = "release" /\ then' = "decide" /\ shutdown.at = "none"
        /\ UNCHANGED <<order, execVars, overlap, toDrain, shutdown>>
    BY <1>4, <1>a DEF EndAdmission
  <2>2. QED
    BY <1>0, <1>c, <2>1 DEF FlightOK, execVars
<1>5. CASE Decide
  <2>1. /\ pc = "decide" /\ shutdown.at = "none" /\ overlap' = CanOverlap
        /\ UNCHANGED <<order, plan, inflight, shutdown>>
        /\ \/ pc' = "drain" /\ toDrain' = Len(inflight) /\ then' = "admit"
           \/ pc' = "release" /\ then' = "top" /\ toDrain' = toDrain
           \/ /\ pc' = "schedule" /\ UNCHANGED <<toDrain, then>>
              /\ inflight = <<>> \/ CanOverlap
        /\ CanOverlap' <=> CanOverlap
    BY <1>5, <1>a, <1>b DEF Decide, execVars
  <2>2. plan = <<>> /\ Len(inflight) <= 1
    BY <2>1 DEF FlightOK
  <2>3. QED
    BY <1>0, <1>c, <2>1, <2>2 DEF FlightOK
<1>6. CASE Schedule
  <2>1. /\ pc = "schedule" /\ pc' \in {"rollback", "submit"} /\ toDrain' = Len(inflight)
        /\ shutdown.at = "none" /\ Len(inflight) <= 1
        /\ inflight # <<>> => overlap
        /\ overlap => CanOverlap
        /\ UNCHANGED <<inflight, overlap, then, shutdown>>
    BY <1>6, <1>a DEF Schedule, FlightOK
  <2>2. /\ plan' = PlannedRows
        /\ \A k \in DOMAIN plan' : /\ plan'[k].req \in Requests
                                   /\ phase[plan'[k].req] = "running"
                                   /\ ~terminal[plan'[k].req]
                                   /\ plan'[k].phase = "decode" <=> Prefilled(plan'[k].req)
    BY <1>6, ScheduleFacts, PlanFacts
  <2>3. overlap => \A r \in Elements(Active) : Prefilled(r)
    BY <2>1 DEF CanOverlap, Elements
  <2>4. overlap => \A k \in DOMAIN plan' : plan'[k].phase = "decode"
    BY <2>2, <2>3, ActiveFacts
  <2>5. \A r \in Reqs(plan') : InFlight(r)' => overlap'
    BY <2>1 DEF InFlight
  <2>6. QED
    BY <1>0, <2>1, <2>4, <2>5 DEF FlightOK
<1>7. CASE Rollback
  <2>1. /\ pc = "rollback" /\ pc' = "drain" /\ toDrain' = Len(inflight)
        /\ then' = "schedule" /\ overlap' = FALSE /\ plan' = <<>>
        /\ shutdown.at = "none" /\ UNCHANGED <<inflight, shutdown>>
    BY <1>7, <1>a DEF Rollback
  <2>2. QED
    BY <1>0, <2>1 DEF FlightOK
<1>8. CASE Launch
  <2>1. /\ pc = "submit" /\ shutdown.at = "none"
        /\ UNCHANGED <<order, pc, overlap, toDrain, then, shutdown>>
    BY <1>8, <1>a DEF Launch
  <2>2. /\ plan # <<>> /\ plan' = Rest /\ Len(inflight') = Len(inflight) + 1
        /\ DOMAIN inflight' = 1..(Len(inflight) + 1)
        /\ DOMAIN inflight = 1..Len(inflight)
        /\ \A h \in DOMAIN inflight : inflight'[h] = inflight[h]
        /\ inflight'[Len(inflight) + 1].rows = NextGroup
    BY <1>8, LaunchFacts
  <2>3. /\ Reqs(Rest) = Reqs(plan) \ Reqs(NextGroup)
        /\ NextGroup = plan => Rest = <<>>
        /\ (\A i \in DOMAIN plan : plan[i].phase = "decode") => NextGroup = plan
    BY <2>2, RestFacts, GroupFacts DEF StepsOK
  <2>4. overlap => toDrain <= 1 /\ Len(inflight) = toDrain /\ plan' = <<>>
    BY <2>1, <2>2, <2>3 DEF FlightOK
  <2>5. ASSUME NEW r \in Reqs(plan'), InFlight(r)' PROVE overlap
    <3>1. r \in Reqs(plan) /\ r \notin Reqs(NextGroup)
      BY <2>2, <2>3, <2>5
    <3>2. PICK h \in DOMAIN inflight' : In(r, h)'
      BY <2>5 DEF InFlight
    <3>3. h \in DOMAIN inflight /\ In(r, h)
      BY <1>0, <2>2, <3>1, <3>2 DEF In
    <3>4. QED
      BY <2>1, <3>1, <3>3 DEF FlightOK, InFlight
  <2>6. /\ toDrain <= Len(inflight') /\ Len(inflight') \in Nat
        /\ overlap => Len(inflight') <= toDrain + 1
    <3>1. toDrain <= Len(inflight)
      BY <2>1 DEF FlightOK
    <3>2. /\ Len(inflight') = Len(inflight) + 1
          /\ overlap => Len(inflight) = toDrain
      BY <2>2, <2>4
    <3> HIDE <2>2
    <3>3. QED
      BY <1>0, <3>1, <3>2
  <2>7. overlap => \A i \in DOMAIN plan' : plan'[i].phase = "decode"
    BY <2>4
  <2>8. \A r \in Reqs(plan') : InFlight(r)' => overlap'
    BY <2>1, <2>5
  <2> HIDE <2>2, <2>5
  <2>9. QED
    BY <1>0, <2>1, <2>4, <2>6, <2>7, <2>8 DEF FlightOK
<1>9. CASE LaunchRaises
  <2>1. /\ pc' = "crashed" /\ plan' = <<>> /\ shutdown.at = "none"
        /\ UNCHANGED <<toDrain, shutdown>>
    BY <1>9, <1>a DEF LaunchRaises
  <2>2. QED
    BY <1>0, <2>1 DEF FlightOK
<1>10. CASE Launched
  <2>1. /\ pc = "submit" /\ plan = <<>> /\ toDrain' = ResolveCount /\ pc' = "drain"
        /\ then' = "top" /\ shutdown.at = "none"
        /\ UNCHANGED <<order, plan, inflight, overlap, shutdown>>
    BY <1>10, <1>a DEF Launched, execVars
  <2>2. /\ ResolveCount \in Nat /\ ResolveCount <= Len(inflight)
        /\ Len(inflight) <= ResolveCount + 1
    BY <1>0, <2>1 DEF FlightOK, ResolveCount
  <2>3. QED
    BY <1>0, <1>c, <2>1, <2>2 DEF FlightOK
<1>11. CASE Drain
  <2>1. /\ pc = "drain" /\ toDrain > 0 /\ toDrain' = toDrain - 1 /\ shutdown.at = "none"
        /\ UNCHANGED <<pc, then, overlap, shutdown>> /\ plan = <<>>
    BY <1>11, <1>a DEF Drain, FlightOK
  <2>2. plan' = <<>> /\ Len(inflight') = Len(inflight) - 1
    BY <1>11, <2>1, ResolveFacts DEF Drain
  <2>3. /\ then # "decide" /\ toDrain <= Len(inflight)
        /\ Len(inflight) <= toDrain + (IF then = "top" THEN 1 ELSE 0)
        /\ then = "schedule" => ~overlap
    BY <2>1 DEF FlightOK
  <2>4. QED
    BY <1>0, <2>1, <2>2, <2>3 DEF FlightOK
<1>12. CASE DrainRaises
  <2>1. /\ pc = "drain" /\ pc' = "crashed" /\ shutdown.at = "none"
        /\ UNCHANGED <<order, execVars, toDrain, shutdown>>
    BY <1>12, <1>a DEF DrainRaises
  <2>2. QED
    BY <2>1, <1>d DEF FlightOK
<1>13. CASE Drained
  <2>1. /\ pc = "drain" /\ pc' = "release"
        /\ toDrain = 0 \/ inflight = <<>>
        /\ shutdown.at = "none"
        /\ UNCHANGED <<order, plan, inflight, then, overlap, toDrain, shutdown>>
    BY <1>13, <1>a DEF Drained, execVars
  <2>2. /\ plan = <<>> /\ then # "decide" /\ toDrain <= Len(inflight)
        /\ Len(inflight) <= toDrain + (IF then = "top" THEN 1 ELSE 0)
        /\ then = "schedule" => ~overlap
    BY <2>1 DEF FlightOK
  <2>3. QED
    BY <1>0, <1>c, <2>1, <2>2 DEF FlightOK
<1>14. CASE LoopCrashed \/ LoopStops
  <2>1. /\ pc' = "exiting" /\ pc \in {"crashed", "top"} /\ shutdown.at = "none"
        /\ UNCHANGED <<order, execVars, toDrain, shutdown>>
    BY <1>14, <1>a DEF LoopCrashed, LoopStops
  <2>2. QED
    BY <2>1, <1>d DEF FlightOK
<1>15. CASE LoopShutsDown \/ StopShutsDown
  <2>1. /\ pc \in {"exiting", "dead"} /\ shutdown'.at = "begin"
        /\ UNCHANGED <<order, execVars, pc, toDrain>>
    BY <1>15 DEF LoopShutsDown, StopShutsDown
  <2>2. QED
    BY <2>1, <1>d DEF FlightOK
<1>16. CASE StopTimesOut \/ StopBegins \/ UpdateWeights
  BY <1>16, <1>e DEF StopTimesOut, StopBegins, UpdateWeights
<1>17. CASE Start
  <2>1. /\ pc = "dead" /\ ~failed /\ shutdown.at = "none" /\ pc' = "top"
        /\ UNCHANGED <<order, plan, inflight, overlap, toDrain, shutdown>>
    BY <1>17 DEF Start, LockFree, NotRunning, execVars
  <2>2. plan = <<>> /\ inflight = <<>>
    BY <2>1 DEF FlightOK
  <2>3. QED
    BY <1>0, <1>c, <2>1, <2>2 DEF FlightOK
<1>18. CASE ShutdownStep
  <2>0. /\ pc \in {"exiting", "dead"} /\ plan = <<>> /\ shutdown.at # "none"
        /\ shutdown \in [by : {"none", "loop", "stop"}, at : ShutdownPlaces]
        /\ shutdown.by = "loop" => pc = "exiting"
        /\ shutdown.by # "loop" => pc = "dead"
    <3>1. shutdown.at # "none"
      BY <1>18 DEF ShutdownStep, ShutdownBegins, ShutdownDrains, ShutdownDrainRaises,
                   ShutdownDrained, ShutdownFences, ShutdownFinishes
    <3>2. QED
      BY <3>1, <1>a DEF FlightOK, ControlOK
  <2>a. Quarantine => FlightOK'
    <3> SUFFICES ASSUME Quarantine PROVE FlightOK'
      OBVIOUS
    <3>1. /\ failed' /\ UNCHANGED <<order, execVars, toDrain>>
          /\ shutdown' = [by |-> "none", at |-> "none"]
          /\ pc' = "dead" \/ pc' = pc
      BY DEF Quarantine, EndShutdown, NotRunning
    <3>2. shutdown'.at = "none" /\ pc' \in {"exiting", "dead"}
      BY <3>1, <2>0
    <3>3. QED
      BY <3>1, <3>2, <2>0, <1>d
  <2>b. \A at \in ShutdownPlaces : Step(at) => shutdown'.at = at
    BY <2>0 DEF Step
  <2>c. /\ \A r \in Requests : order'[r] = <<>> => TRUE
        /\ FenceAndDiscard => /\ inflight' = <<>> /\ plan' = <<>> /\ ~HasOutstanding'
                              /\ UNCHANGED <<pc, toDrain>>
    BY DEF FenceAndDiscard, HasOutstanding
  <2>d. ASSUME FenceAndDiscard, Step("outstanding") \/ Step("finish") PROVE FlightOK'
    <3>1. /\ inflight' = <<>> /\ plan' = <<>> /\ ~HasOutstanding' /\ UNCHANGED <<pc, toDrain>>
          /\ shutdown'.at \in {"outstanding", "finish"}
      BY <2>b, <2>c, <2>d DEF ShutdownPlaces
    <3>2. QED
      BY <1>0, <2>0, <3>1 DEF FlightOK
  <2>1. CASE ShutdownBegins
    <3>1. CASE Step("drain") /\ UNCHANGED <<order, plan, inflight, pc, toDrain>>
      <4>1. shutdown'.at = "drain"
        BY <3>1, <2>b DEF ShutdownPlaces
      <4>2. QED
        BY <1>0, <1>c, <2>0, <3>1, <4>1 DEF FlightOK
    <3>2. QED
      BY <2>1, <2>a, <3>1 DEF ShutdownBegins, execVars
  <2>2. CASE ShutdownDrains
    <3>1. /\ shutdown.at = "drain" /\ UNCHANGED <<pc, toDrain, shutdown>> /\ plan' = <<>>
      BY <2>2, <2>0, ResolveFacts DEF ShutdownDrains
    <3>2. QED
      BY <1>0, <2>0, <3>1 DEF FlightOK
  <2>3. CASE ShutdownDrainRaises
    BY <2>3, <2>a, <2>d DEF ShutdownDrainRaises
  <2>4. CASE ShutdownDrained
    <3>1. /\ inflight = <<>> /\ UNCHANGED <<order, execVars, pc, toDrain>>
          /\ shutdown'.at = "outstanding"
      BY <2>4, <2>b DEF ShutdownDrained, ShutdownPlaces
    <3>2. QED
      BY <3>1, <2>0, <1>d
  <2>5. CASE ShutdownFences
    BY <2>5, <2>a, <2>d DEF ShutdownFences
  <2>6. CASE ShutdownFinishes
    <3>1. /\ inflight = <<>> /\ ~HasOutstanding
      BY <2>6 DEF ShutdownFinishes, FlightOK
    <3>2. /\ UNCHANGED <<order, execVars, toDrain>> /\ shutdown'.at = "none"
          /\ pc' \in {"exiting", "dead"}
          /\ Finish(AbortAll)
          /\ Release(Releasable({r \in Requests : Registered(r)}, terminal', order),
                     phase, waiting)
      BY <2>6, <2>0 DEF ShutdownFinishes, EndShutdown, NotRunning
    <3>3. \A r \in Requests : ~Registered(r)'
      <4>1. \A r \in Requests : Registered(r) => terminal'[r] /\ order[r] = <<>>
        BY <3>1, <3>2 DEF Finish, AbortAll, HasOutstanding
      <4>2. \A r \in Requests : phase'[r] = IF Registered(r) THEN "gone" ELSE phase[r]
        BY <3>2, <4>1 DEF Release, Releasable
      <4>3. QED
        BY <4>2 DEF Registered
    <3>4. QED
      BY <1>d, <2>0, <3>1, <3>2, <3>3
  <2>7. QED
    BY <1>18, <2>1, <2>2, <2>3, <2>4, <2>5, <2>6 DEF ShutdownStep
<1>19. ASSUME NEW q \in Requests, Submit(q) \/ Cancel(q) PROVE FlightOK'
  <2>1. /\ pc \in {"dead", "top", "crashed", "exiting"} /\ shutdown.at = "none"
        /\ UNCHANGED <<order, plan, inflight, pc, toDrain, failed, shutdown>>
    BY <1>19 DEF Submit, Cancel, LockFree, LoopLocked, NotRunning, execVars
  <2>2. ~(pc = "dead" /\ ~failed)
    BY <1>19, <2>1 DEF Submit, Cancel, FlightOK, ControlOK
  <2>3. plan = <<>> /\ (pc = "top" => Len(inflight) <= 1)
    BY <2>1 DEF FlightOK
  <2>4. QED
    BY <1>0, <1>c, <2>1, <2>2, <2>3 DEF FlightOK
<1>20. CASE UNCHANGED vars
  BY <1>20, <1>e DEF vars
<1>21. QED
  BY <1>1, <1>2, <1>3, <1>4, <1>5, <1>6, <1>7, <1>8, <1>9, <1>10, <1>11, <1>12, <1>13,
     <1>14, <1>15, <1>16, <1>17, <1>18, <1>19, <1>20 DEF Next, LoopStep, ClientStep, StopStep

-----------------------------------------------------------------------------
(* Requests that never ran. *)

\* At the start no request has run.
LEMMA FreshInit == Init => FreshOK
BY DEF Init, FreshOK

\* Only what is planned or in flight moves a watermark or an output, and that is running.
LEMMA FreshStep ==
    /\ ControlOK /\ QueueOK /\ CountersOK /\ StepsOK /\ RegistryOK /\ FlightOK /\ FreshOK
    /\ [Next]_vars
    => FreshOK'
<1> SUFFICES ASSUME ControlOK, QueueOK, CountersOK, StepsOK, RegistryOK, FlightOK, FreshOK,
                    [Next]_vars
             PROVE  FreshOK'
  OBVIOUS
<1> DEFINE fresh(r) == phase[r] \in {"new", "waiting"}
           Still(r) == /\ computed'[r] = computed[r] /\ materialized'[r] = materialized[r]
                       /\ out'[r] = out[r] /\ eos'[r] = eos[r]
<1>a. (\A r \in Requests : fresh(r)' => fresh(r) /\ Still(r)) => FreshOK'
  BY DEF FreshOK
<1>b. UNCHANGED <<out, eos, computed, materialized>> => \A r \in Requests : Still(r)
  OBVIOUS
<1>c. UNCHANGED phase => \A r \in Requests : fresh(r)' <=> fresh(r)
  OBVIOUS
<1>d. \A S, wait : Release(S, phase, wait) => \A r \in Requests : fresh(r)' => fresh(r)
  BY DEF Release
<1>e. FenceAndDiscard => FreshOK'
  BY DEF FenceAndDiscard, FreshOK
<1>f. Quarantine => FreshOK'
  BY <1>a, <1>b, <1>c DEF Quarantine
<1>g. ASSUME NEW stops, inflight # <<>>, Resolve(stops) PROVE FreshOK'
  <2>1. \A r \in Requests : In(r, 1) => ~fresh(r)
    BY <1>g, ResolveFacts DEF RegistryOK, PlannedAreRunning
  <2>2. UNCHANGED <<phase, computed>>
    BY <1>g, ResolveFacts
  <2>3. ASSUME NEW r \in Requests, ~In(r, 1) PROVE Still(r)
    <3>1. r \notin Reqs(Head(inflight).rows)
      BY <1>g, <2>3, ResolveFacts DEF In, StepsOK
    <3>2. out'[r] = out[r] /\ eos'[r] = eos[r]
      BY <1>g, <3>1 DEF Resolve
    <3>3. QED
      BY <1>g, <2>2, <2>3, <3>2, ResolveFacts
  <2> HIDE DEF Still
  <2>4. QED
    BY <1>a, <1>c, <2>1, <2>2, <2>3
<1> HIDE DEF fresh, Still
<1> USE DEF requestVars
<1>1. CASE BeginTick \/ EndAdmission \/ Decide \/ Launched
  BY <1>1, <1>a, <1>b, <1>c DEF BeginTick, EndAdmission, Decide, Launched
<1>2. CASE ReleaseFinished
  BY <1>2, <1>a, <1>b, <1>d DEF ReleaseFinished
<1>3. CASE AdmitNext
  <2>1. /\ UNCHANGED <<out, eos, computed, materialized>>
        /\ \/ phase' = phase
           \/ phase' = [phase EXCEPT ![Head(waiting)] = "running"]
    BY <1>3 DEF AdmitNext
  <2>2. \A r \in Requests : fresh(r)' => fresh(r)
    BY <2>1 DEF fresh, QueueOK
  <2>3. QED
    BY <2>1, <2>2, <1>a, <1>b
<1>4. CASE Schedule
  <2>1. \A r \in Reqs(plan') : r \in Requests /\ ~fresh(r)
    <3>1. RowsOK(plan') /\ plan' = PlannedRows
      BY <1>4, ScheduleFacts
    <3>2. \A k \in DOMAIN plan' : plan'[k].req \in Requests /\ phase[plan'[k].req] = "running"
      BY <3>1, PlanFacts
    <3>3. QED
      BY <3>1, <3>2, ReqOf DEF fresh
  <2>2. \A r \in Requests \ Reqs(plan') : computed'[r] = computed[r]
    BY <1>4, ScheduleFacts
  <2>3. UNCHANGED <<phase, out, eos, materialized>>
    BY <1>4 DEF Schedule
  <2>4. QED
    BY <1>a, <1>c, <2>1, <2>2, <2>3 DEF Still
<1>5. CASE Rollback
  <2>1. \A r \in Reqs(plan) : r \in Requests /\ ~fresh(r)
    BY PlannedOrder DEF fresh, RegistryOK, PlannedAreRunning
  <2>2. \A r \in Requests \ Reqs(plan) : computed'[r] = computed[r]
    BY <1>5, RollbackFacts
  <2>3. UNCHANGED <<phase, out, eos, materialized>>
    BY <1>5 DEF Rollback
  <2>4. QED
    BY <1>a, <1>c, <2>1, <2>2, <2>3 DEF Still
<1>6. CASE Launch \/ LaunchRaises
  BY <1>6, <1>a, <1>b, <1>c DEF Launch, LaunchRaises
<1>7. CASE Drain \/ ShutdownDrains
  BY <1>7, <1>g DEF Drain, ShutdownDrains
<1>8. CASE DrainRaises \/ Drained \/ LoopCrashed \/ LoopStops
  BY <1>8, <1>a, <1>b, <1>c DEF DrainRaises, Drained, LoopCrashed, LoopStops
<1>9. CASE LoopShutsDown \/ UpdateWeights \/ StopBegins \/ StopStep \/ Start
  BY <1>9, <1>a, <1>b, <1>c DEF LoopShutsDown, UpdateWeights, StopBegins, StopStep,
                                StopTimesOut, StopShutsDown, Start
<1>10. CASE ShutdownBegins \/ ShutdownDrained
  BY <1>10, <1>a, <1>b, <1>c, <1>f DEF ShutdownBegins, ShutdownDrained
<1>11. CASE ShutdownDrainRaises \/ ShutdownFences
  BY <1>11, <1>e, <1>f DEF ShutdownDrainRaises, ShutdownFences
<1>12. CASE ShutdownFinishes
  BY <1>12, <1>a, <1>b, <1>d DEF ShutdownFinishes
<1>13. ASSUME NEW q \in Requests, Submit(q) PROVE FreshOK'
  <2>1. /\ phase[q] = "new" /\ UNCHANGED <<out, eos, computed, materialized>>
        /\ \E S, wait : Release(S, [phase EXCEPT ![q] = "waiting"], wait)
    BY <1>13 DEF Submit
  <2>2. \A r \in Requests : fresh(r)' => fresh(r)
    BY <2>1 DEF fresh, Release, QueueOK
  <2>3. QED
    BY <2>1, <2>2, <1>a, <1>b
<1>14. ASSUME NEW q \in Requests, Cancel(q) PROVE FreshOK'
  BY <1>14, <1>a, <1>b, <1>d DEF Cancel
<1>15. CASE UNCHANGED vars
  BY <1>15, <1>a, <1>b, <1>c DEF vars
<1>16. QED
  BY <1>1, <1>2, <1>3, <1>4, <1>5, <1>6, <1>7, <1>8, <1>9, <1>10, <1>11, <1>12, <1>13,
     <1>14, <1>15 DEF Next, LoopStep, ClientStep, ShutdownStep

-----------------------------------------------------------------------------
(* KV slots. *)

\* At the start all slots are free.
LEMMA SlotsInit == Init => SlotsOK
<1> SUFFICES ASSUME Init PROVE SlotsOK
  OBVIOUS
<1>1. /\ slots = [r \in Requests |-> 0] /\ freeSlots = PoolTokens
      /\ phase = [r \in Requests |-> "new"]
  BY DEF Init
<1>2. SumFunction(slots) = SumFunctionOnSet(slots, Requests)
  BY <1>1 DEF SumFunction
<1>3. SumFunctionOnSet(slots, Requests) = 0
  <2>1. \A r \in Requests : slots[r] = 0
    BY <1>1
  <2>2. QED
    BY <2>1, SumZero, RequestsAssumption
<1>4. QED
  BY <1>1, <1>2, <1>3, SizeAssumption DEF SlotsOK

\* The decode rows that take a slot are no more than the free slots.
LEMMA GrownFacts ==
    ASSUME QueueOK, StepsOK, CountersOK, freeSlots \in Nat, NEW grown,
           grown = {PlannedRows[k].req : k \in {j \in DOMAIN PlannedRows :
                      PlannedRows[j].phase = "decode" /\ NeedsSlot(PlannedRows[j].req)}}
    PROVE  /\ grown \subseteq Requests /\ Cardinality(grown) \in Nat
           /\ Cardinality(grown) <= freeSlots
           /\ \A r \in grown : phase[r] = "running"
<1> DEFINE Takes(i) == Prefilled(Eligible[i]) /\ NeedsSlot(Eligible[i])
           G == {i \in DOMAIN Eligible : Takes(i) /\ Planned(i)}
           image == [i \in G |-> Eligible[i]]
           T == {Eligible[i] : i \in G}
<1>1. PICK e : PlanPlaces(e)
  BY PlanFacts
<1>2. \A k \in DOMAIN PlannedRows :
        /\ e[k] \in DOMAIN Eligible /\ Planned(e[k])
        /\ PlannedRows[k].req = Eligible[e[k]]
        /\ PlannedRows[k].phase = "decode" <=> Prefilled(Eligible[e[k]])
  BY <1>1, PlanFacts, RowFacts
<1>3. /\ grown \subseteq Requests
      /\ \A r \in grown : phase[r] = "running"
  BY PlanFacts
<1>4. grown \subseteq T
  <2> SUFFICES ASSUME NEW k \in DOMAIN PlannedRows, PlannedRows[k].phase = "decode",
                      NeedsSlot(PlannedRows[k].req)
               PROVE  PlannedRows[k].req \in T
    OBVIOUS
  <2>1. e[k] \in G
    BY <1>2
  <2>2. QED
    BY <1>2, <2>1
<1>5. Len(Eligible) \in Nat /\ DOMAIN Eligible = 1..Len(Eligible)
  BY EligibleFacts
<1>6. IsFiniteSet(G) /\ G \subseteq 0..Len(Eligible)
  <2>1. IsFiniteSet(1..Len(Eligible)) /\ G \subseteq 1..Len(Eligible)
    BY <1>5, FS_Interval
  <2>2. QED
    BY <1>5, <2>1, FS_Subset
<1>7. Cardinality(G) \in Nat /\ Cardinality(G) <= freeSlots
  <2>1. CASE G = {}
    BY <2>1, FS_EmptySet
  <2>2. CASE G # {}
    <3> HIDE DEF G
    <3>1. PICK m \in G : \A i \in G : i <= m
      BY <1>5, <1>6, <2>2, GreatestNumber
    <3> DEFINE B == {j \in 1..(m - 1) : Prefilled(Eligible[j]) /\ NeedsSlot(Eligible[j])}
    <3>2. m \in 1..Len(Eligible) /\ Takes(m) /\ Planned(m)
      BY <1>5, <3>1 DEF G
    <3>3. Cardinality(B) < freeSlots
      BY <3>2 DEF Planned, Extended
    <3>4. IsFiniteSet(1..(m - 1)) /\ B \in SUBSET (1..(m - 1))
      <4>1. 1 \in Int /\ m - 1 \in Int
        BY <3>2, <1>5
      <4>2. IsFiniteSet(1..(m - 1))
        BY <4>1, FS_Interval
      <4>3. QED
        BY <4>2
    <3>5. IsFiniteSet(B) /\ m \notin B
      BY <3>2, <3>4, FS_Subset
    <3>6. Cardinality(B \cup {m}) = Cardinality(B) + 1 /\ IsFiniteSet(B \cup {m})
      BY <3>5, FS_AddElement
    <3>7. G \in SUBSET (B \cup {m})
      <4> SUFFICES ASSUME NEW i \in G, i # m PROVE i \in B
        OBVIOUS
      <4>1. i \in 1..Len(Eligible) /\ i <= m /\ Takes(i)
        BY <1>5, <3>1 DEF G
      <4>2. i \in 1..(m - 1)
        BY <1>5, <3>2, <4>1
      <4>3. QED
        BY <4>1, <4>2
    <3>8. /\ Cardinality(G) <= Cardinality(B \cup {m})
          /\ Cardinality(G) \in Nat /\ Cardinality(B) \in Nat
      BY <3>5, <3>6, <3>7, <1>6, FS_Subset, FS_CardinalityType
    <3> HIDE DEF B
    <3>9. QED
      BY <3>3, <3>6, <3>8
  <2>3. QED
    BY <2>1, <2>2
<1>8. image \in Surjection(G, T)
  BY DEF Surjection
<1> HIDE DEF G, T, image
<1>9. IsFiniteSet(T) /\ Cardinality(T) <= Cardinality(G)
  BY <1>6, <1>8, FS_Surjection
<1>10. /\ IsFiniteSet(grown) /\ Cardinality(grown) <= Cardinality(T)
  BY <1>4, <1>9, FS_Subset
<1>11. Cardinality(grown) \in Nat /\ Cardinality(T) \in Nat
  BY <1>9, <1>10, FS_CardinalityType
<1>12. QED
  BY <1>3, <1>7, <1>9, <1>10, <1>11

\* Slots are neither lost nor given twice, and only running requests hold any.
LEMMA SlotsStep ==
    ControlOK /\ QueueOK /\ CountersOK /\ StepsOK /\ SlotsOK /\ [Next]_vars => SlotsOK'
<1> SUFFICES ASSUME ControlOK, QueueOK, CountersOK, StepsOK, SlotsOK, [Next]_vars
             PROVE  SlotsOK'
  OBVIOUS
<1>0. /\ slots \in [Requests -> Nat] /\ freeSlots \in Nat /\ IsFiniteSet(Requests)
      /\ \A r \in Requests : slots[r] \in Nat
      /\ freeSlots + SumFunctionOnSet(slots, Requests) = PoolTokens
      /\ SumFunctionOnSet(slots, Requests) \in Nat
  <2>1. slots \in [Requests -> Nat] /\ freeSlots \in Nat /\ IsFiniteSet(Requests)
    BY RequestsAssumption DEF SlotsOK
  <2>2. /\ \A r \in Requests : slots[r] \in Nat
        /\ SumFunction(slots) = SumFunctionOnSet(slots, Requests)
    BY <2>1 DEF SumFunction
  <2>3. QED
    BY <2>1, <2>2, SumNat DEF SlotsOK
<1>a. UNCHANGED <<phase, slots, freeSlots>> => SlotsOK'
  BY DEF SlotsOK
<1>b. UNCHANGED <<phase, kvVars>> => SlotsOK'
  BY <1>a DEF kvVars
<1>c. ASSUME slots' \in [Requests -> Nat], freeSlots' \in Nat,
             freeSlots' + SumFunctionOnSet(slots', Requests) = PoolTokens,
             \A r \in Requests : /\ phase'[r] = "running" => slots'[r] >= PromptLen[r]
                                 /\ phase'[r] # "running" => slots'[r] = 0
      PROVE  SlotsOK'
  <2>1. SumFunction(slots') = SumFunctionOnSet(slots', Requests)
    BY <1>c DEF SumFunction
  <2>2. QED
    BY <1>c, <2>1 DEF SlotsOK
<1>d. ASSUME NEW S \in SUBSET Requests, NEW ph, NEW wait, Release(S, ph, wait),
             \A r \in Requests : ph[r] = "running" <=> phase[r] = "running"
      PROVE  SlotsOK'
  <2>1. /\ phase' = [r \in Requests |-> IF r \in S THEN "gone" ELSE ph[r]]
        /\ slots' = [r \in Requests |-> IF r \in S THEN 0 ELSE slots[r]]
        /\ freeSlots' = freeSlots + SumFunctionOnSet(slots, S)
    BY <1>d DEF Release, SlotsOf
  <2>2. \A r \in Requests : slots'[r] = IF r \in S THEN 0 ELSE slots[r]
    BY <2>1
  <2>3. SumFunctionOnSet(slots, Requests)
          = SumFunctionOnSet(slots', Requests) + SumFunctionOnSet(slots, S)
    BY <1>0, <2>2, SumCleared
  <2>4. IsFiniteSet(S) /\ \A r \in S : slots[r] \in Nat
    BY <1>0, FS_Subset
  <2>5. SumFunctionOnSet(slots, S) \in Nat
    BY <2>4, SumNat
  <2>6. slots' \in [Requests -> Nat]
    BY <1>0, <2>1, Zenon
  <2>7. SumFunctionOnSet(slots', Requests) \in Nat
    BY <1>0, <2>6, SumNat
  <2>8. \A r \in Requests : /\ phase'[r] = "running" => slots'[r] >= PromptLen[r]
                            /\ phase'[r] # "running" => slots'[r] = 0
    BY <1>d, <2>1, <2>2 DEF SlotsOK
  <2>9. freeSlots' \in Nat /\ freeSlots' + SumFunctionOnSet(slots', Requests) = PoolTokens
    BY <1>0, <2>1, <2>3, <2>5, <2>7
  <2>10. QED
    BY <1>c, <2>6, <2>8, <2>9
<1>e. \A reg \in SUBSET Requests : \A wait : \A term :
        Release(Releasable(reg, term, order), phase, wait) => SlotsOK'
  <2> TAKE reg \in SUBSET Requests
  <2> TAKE wait
  <2> TAKE term
  <2>1. Releasable(reg, term, order) \in SUBSET Requests
    BY DEF Releasable
  <2>2. QED
    BY <2>1, <1>d
<1>f. {r \in Requests : Registered(r)} \in SUBSET Requests
  OBVIOUS
<1> USE DEF requestVars
<1>1. CASE BeginTick \/ EndAdmission \/ Decide \/ Launched \/ Rollback \/ Launch \/ LaunchRaises
  BY <1>1, <1>b DEF BeginTick, EndAdmission, Decide, Launched, Rollback, Launch, LaunchRaises
<1>2. CASE ReleaseFinished
  BY <1>2, <1>e, <1>f DEF ReleaseFinished
<1>3. CASE AdmitNext
  <2>1. CASE UNCHANGED <<phase, running, kvVars>>
    BY <2>1, <1>b
  <2>2. CASE ~ UNCHANGED <<phase, running, kvVars>>
    <3>1. /\ pc = "admit" /\ scan.left > 0
          /\ PromptLen[Head(waiting)] <= freeSlots
          /\ phase' = [phase EXCEPT ![Head(waiting)] = "running"]
          /\ slots' = [slots EXCEPT ![Head(waiting)] = PromptLen[Head(waiting)]]
          /\ freeSlots' = freeSlots - PromptLen[Head(waiting)]
      BY <1>3, <2>2 DEF AdmitNext
    <3>2. Len(waiting) > 0 /\ waiting \in Seq(Requests)
      BY <3>1 DEF QueueOK
    <3>3. Head(waiting) \in Elements(waiting) /\ Head(waiting) \in Requests
      BY <3>2, TailFacts
    <3>4. PICK r \in Requests : r = Head(waiting)
      BY <3>3
    <3>5. phase[r] = "waiting" /\ PromptLen[r] \in Nat
      BY <3>3, <3>4, PromptFacts DEF QueueOK
    <3>6. slots[r] = 0
      BY <3>5 DEF SlotsOK
    <3>7. /\ slots' \in [Requests -> Nat] /\ slots'[r] = PromptLen[r]
          /\ \A q \in Requests : slots'[q] \in Nat
          /\ \A q \in Requests : q # r => slots'[q] = slots[q]
      BY <1>0, <3>1, <3>4, <3>5
    <3>8. SumFunctionOnSet(slots', Requests) + slots[r]
            = SumFunctionOnSet(slots, Requests) + slots'[r]
      BY <1>0, <3>7, SumChanged
    <3>9. SumFunctionOnSet(slots', Requests) \in Nat
      BY <1>0, <3>7, SumNat
    <3>10. freeSlots' \in Nat /\ freeSlots' + SumFunctionOnSet(slots', Requests) = PoolTokens
      BY <1>0, <3>1, <3>4, <3>5, <3>6, <3>7, <3>8, <3>9
    <3>11. \A q \in Requests : /\ phase'[q] = "running" => slots'[q] >= PromptLen[q]
                               /\ phase'[q] # "running" => slots'[q] = 0
      BY <3>1, <3>4, <3>5, <3>7 DEF SlotsOK, QueueOK
    <3>12. QED
      BY <1>c, <3>7, <3>10, <3>11
  <2>3. QED
    BY <2>1, <2>2
<1>4. CASE Schedule
  <2> DEFINE grown == {PlannedRows[k].req : k \in {j \in DOMAIN PlannedRows :
                         PlannedRows[j].phase = "decode" /\ NeedsSlot(PlannedRows[j].req)}}
  <2>1. /\ slots' = [r \in Requests |-> IF r \in grown THEN slots[r] + 1 ELSE slots[r]]
        /\ freeSlots' = freeSlots - Cardinality(grown) /\ phase' = phase
    BY <1>4 DEF Schedule
  <2>2. /\ grown \subseteq Requests /\ Cardinality(grown) \in Nat
        /\ Cardinality(grown) <= freeSlots
        /\ \A r \in grown : phase[r] = "running"
    BY <1>0, GrownFacts
  <2> HIDE DEF grown
  <2>3. \A r \in Requests : slots'[r] = IF r \in grown THEN slots[r] + 1 ELSE slots[r]
    BY <2>1
  <2>4. SumFunctionOnSet(slots', Requests)
          = SumFunctionOnSet(slots, Requests) + Cardinality(Requests \cap grown)
    BY <1>0, <2>3, SumGrown
  <2>5. Requests \cap grown = grown
    BY <2>2
  <2>6. slots' \in [Requests -> Nat]
    <3>1. \A r \in Requests : slots[r] + 1 \in Nat
      BY <1>0
    <3>2. QED
      BY <1>0, <2>1, <3>1, Zenon
  <2>7. freeSlots' \in Nat /\ freeSlots' + SumFunctionOnSet(slots', Requests) = PoolTokens
    BY <1>0, <2>1, <2>2, <2>4, <2>5
  <2>8. \A r \in Requests : /\ phase'[r] = "running" => slots'[r] >= PromptLen[r]
                            /\ phase'[r] # "running" => slots'[r] = 0
    BY <1>0, <2>1, <2>2, <2>3, PromptFacts DEF SlotsOK
  <2>9. QED
    BY <1>c, <2>6, <2>7, <2>8
<1>5. CASE Drain \/ ShutdownDrains
  BY <1>5, <1>b DEF Drain, ShutdownDrains, Resolve
<1>6. CASE DrainRaises \/ Drained \/ LoopCrashed \/ LoopStops \/ LoopShutsDown
  BY <1>6, <1>b DEF DrainRaises, Drained, LoopCrashed, LoopStops, LoopShutsDown
<1>7. CASE UpdateWeights \/ StopBegins \/ StopStep \/ Start
  BY <1>7, <1>b DEF UpdateWeights, StopBegins, StopStep, StopTimesOut, StopShutsDown, Start
<1>8. CASE ShutdownBegins \/ ShutdownDrained
  BY <1>8, <1>b DEF ShutdownBegins, ShutdownDrained, Quarantine
<1>9. CASE ShutdownDrainRaises \/ ShutdownFences
  BY <1>9, <1>b DEF ShutdownDrainRaises, ShutdownFences, Quarantine, FenceAndDiscard
<1>10. CASE ShutdownFinishes
  BY <1>10, <1>e, <1>f DEF ShutdownFinishes
<1>11. ASSUME NEW q \in Requests, Submit(q) PROVE SlotsOK'
  <2> DEFINE ph == [phase EXCEPT ![q] = "waiting"]
             reg == {s \in Requests : Registered(s)} \cup {q}
  <2>1. /\ phase[q] = "new"
        /\ \E wait : Release(Releasable(reg, terminal', order), ph, wait)
    BY <1>11 DEF Submit
  <2>2. \A r \in Requests : ph[r] = "running" <=> phase[r] = "running"
    BY <2>1 DEF QueueOK
  <2>3. Releasable(reg, terminal', order) \in SUBSET Requests
    BY DEF Releasable
  <2> HIDE DEF ph, reg
  <2>4. QED
    BY <2>1, <2>2, <2>3, <1>d
<1>12. ASSUME NEW q \in Requests, Cancel(q) PROVE SlotsOK'
  BY <1>12, <1>e, <1>f DEF Cancel
<1>13. CASE UNCHANGED vars
  BY <1>13, <1>b DEF vars
<1>14. QED
  BY <1>1, <1>2, <1>3, <1>4, <1>5, <1>6, <1>7, <1>8, <1>9, <1>10, <1>11, <1>12, <1>13
     DEF Next, LoopStep, ClientStep, ShutdownStep

-----------------------------------------------------------------------------
(* The layers together. *)

Layers == /\ ControlOK /\ CountersOK /\ QueueOK /\ StepsOK /\ RegistryOK /\ FlightOK
          /\ FreshOK /\ SlotsOK

\* The layers hold in every state.
LEMMA LayersHold == Spec => []Layers
<1>1. Init => Layers
  BY ControlInit, CountersInit, QueueInit, StepsInit, RegistryInit, FlightInit, FreshInit,
     SlotsInit DEF Layers
<1>2. Layers /\ [Next]_vars => Layers'
  <2> SUFFICES ASSUME Layers, [Next]_vars PROVE Layers'
    OBVIOUS
  <2>1. /\ ControlOK /\ CountersOK /\ QueueOK /\ StepsOK /\ RegistryOK /\ FlightOK
        /\ FreshOK /\ SlotsOK
    BY DEF Layers
  <2>2. ControlOK' /\ CountersOK' /\ QueueOK'
    BY <2>1, ControlStep, CountersStep, QueueStep
  <2>3. StepsOK' /\ RegistryOK' /\ FlightOK'
    BY <2>1, StepsStep, RegistryStep, FlightStep
  <2>4. FreshOK' /\ SlotsOK'
    BY <2>1, FreshStep, SlotsStep
  <2>5. QED
    BY <2>2, <2>3, <2>4 DEF Layers
<1>3. QED
  BY <1>1, <1>2, PTL DEF Spec

-----------------------------------------------------------------------------
(* Weights. *)

\* A weight update finds nothing in flight, so a handle is as old as the weights.
LEMMA StaleStep == Layers /\ NoStaleExecution /\ [Next]_vars => NoStaleExecution'
<1> SUFFICES ASSUME Layers, NoStaleExecution, [Next]_vars PROVE NoStaleExecution'
  OBVIOUS
<1>0. CountersOK /\ StepsOK /\ RegistryOK
  BY DEF Layers
<1>a. UNCHANGED <<inflight, version>> => NoStaleExecution'
  BY DEF NoStaleExecution
<1>b. UNCHANGED <<execVars, version>> => NoStaleExecution'
  BY <1>a DEF execVars
<1>c. FenceAndDiscard => NoStaleExecution'
  BY DEF FenceAndDiscard, NoStaleExecution
<1>d. Quarantine => NoStaleExecution'
  BY <1>b DEF Quarantine
<1>e. \A stops : inflight # <<>> /\ Resolve(stops) => NoStaleExecution'
  BY <1>0, ResolveFacts DEF NoStaleExecution
<1>1. CASE BeginTick \/ ReleaseFinished \/ AdmitNext \/ EndAdmission \/ Decide \/ Launched
  BY <1>1, <1>b DEF BeginTick, ReleaseFinished, AdmitNext, EndAdmission, Decide, Launched
<1>2. CASE Schedule \/ Rollback \/ LaunchRaises
  BY <1>2, <1>a DEF Schedule, Rollback, LaunchRaises
<1>3. CASE Launch
  <2>1. /\ DOMAIN inflight' = 1..(Len(inflight) + 1) /\ DOMAIN inflight = 1..Len(inflight)
        /\ \A h \in DOMAIN inflight : inflight'[h] = inflight[h]
        /\ inflight'[Len(inflight) + 1].version = version /\ Len(inflight) \in Nat
    BY <1>0, <1>3, LaunchFacts
  <2>2. version' = version
    BY <1>3 DEF Launch
  <2>3. \A h \in DOMAIN inflight' : h \in DOMAIN inflight \/ h = Len(inflight) + 1
    BY <2>1
  <2>4. QED
    BY <2>1, <2>2, <2>3 DEF NoStaleExecution
<1>4. CASE Drain \/ ShutdownDrains
  BY <1>4, <1>e DEF Drain, ShutdownDrains
<1>5. CASE DrainRaises \/ Drained \/ LoopCrashed \/ LoopStops \/ LoopShutsDown
  BY <1>5, <1>b DEF DrainRaises, Drained, LoopCrashed, LoopStops, LoopShutsDown
<1>6. CASE UpdateWeights
  <2>1. inflight = <<>> /\ inflight' = <<>>
    BY <1>6 DEF UpdateWeights, WeightUpdateReady, execVars
  <2>2. QED
    BY <2>1 DEF NoStaleExecution
<1>7. CASE StopBegins \/ StopStep \/ Start
  BY <1>7, <1>b DEF StopBegins, StopStep, StopTimesOut, StopShutsDown, Start
<1>8. CASE ShutdownBegins
  BY <1>8, <1>a, <1>b, <1>d DEF ShutdownBegins
<1>9. CASE ShutdownDrainRaises \/ ShutdownFences
  BY <1>9, <1>c, <1>d DEF ShutdownDrainRaises, ShutdownFences
<1>10. CASE ShutdownDrained \/ ShutdownFinishes
  BY <1>10, <1>b DEF ShutdownDrained, ShutdownFinishes
<1>11. CASE \E r \in Requests : Submit(r) \/ Cancel(r)
  BY <1>11, <1>b DEF Submit, Cancel
<1>12. CASE UNCHANGED vars
  BY <1>12, <1>b DEF vars
<1>13. QED
  BY <1>1, <1>2, <1>3, <1>4, <1>5, <1>6, <1>7, <1>8, <1>9, <1>10, <1>11, <1>12
     DEF Next, LoopStep, ClientStep, ShutdownStep

\* Every handle is of the current version, in every reachable state.
LEMMA HandlesAreCurrent == Spec => []NoStaleExecution
<1>1. Init => NoStaleExecution
  BY DEF Init, NoStaleExecution
<1>2. QED
  BY <1>1, LayersHold, StaleStep, PTL DEF Spec

-----------------------------------------------------------------------------
(* Stop and quarantine. *)

\* After a stop() that returned True nothing is failed and no shutdown runs.
LEMMA StoppedStep == ControlOK /\ StoppedOK /\ [Next]_vars => StoppedOK'
<1> SUFFICES ASSUME ControlOK, StoppedOK, [Next]_vars PROVE StoppedOK'
  OBVIOUS
<1> USE DEF StoppedOK, lifeVars
<1>a. UNCHANGED <<stopper, failed, shutdown>> => StoppedOK'
  OBVIOUS
<1>b. shutdown.at # "none" => stopper # "stopped"
  BY DEF ControlOK, ShutdownPlaces
<1>1. CASE BeginTick \/ ReleaseFinished \/ AdmitNext \/ EndAdmission \/ Decide \/ Launched
  BY <1>1, <1>a DEF BeginTick, ReleaseFinished, AdmitNext, EndAdmission, Decide, Launched
<1>2. CASE Schedule \/ Rollback \/ Launch \/ LaunchRaises
  BY <1>2, <1>a DEF Schedule, Rollback, Launch, LaunchRaises
<1>3. CASE Drain \/ DrainRaises \/ Drained \/ LoopCrashed \/ LoopStops
  BY <1>3, <1>a DEF Drain, DrainRaises, Drained, LoopCrashed, LoopStops
<1>4. CASE LoopShutsDown
  BY <1>4 DEF LoopShutsDown, ControlOK
<1>5. CASE StopStep \/ StopBegins \/ Start
  BY <1>5 DEF StopStep, StopTimesOut, StopShutsDown, StopBegins, Start
<1>6. CASE ShutdownStep
  <2>1. shutdown.at # "none" /\ stopper # "stopped"
    BY <1>6, <1>b DEF ShutdownStep, ShutdownBegins, ShutdownDrains, ShutdownDrainRaises,
                      ShutdownDrained, ShutdownFences, ShutdownFinishes
  <2>2. CASE ShutdownFinishes
    <3>1. failed' = FALSE /\ shutdown' = NotRunning
      BY <2>2 DEF ShutdownFinishes, EndShutdown
    <3>2. QED
      BY <3>1 DEF NotRunning
  <2>3. CASE Quarantine
    BY <2>1, <2>3 DEF Quarantine, EndShutdown
  <2>4. CASE UNCHANGED stopper
    BY <2>1, <2>4
  <2>5. QED
    BY <1>6, <2>2, <2>3, <2>4 DEF ShutdownStep, ShutdownBegins, ShutdownDrains,
         ShutdownDrainRaises, ShutdownDrained, ShutdownFences, FenceAndDiscard
<1>7. CASE (\E r \in Requests : Submit(r) \/ Cancel(r)) \/ UpdateWeights
  BY <1>7, <1>a DEF Submit, Cancel, UpdateWeights
<1>8. CASE UNCHANGED vars
  BY <1>8, <1>a DEF vars
<1>9. QED
  BY <1>1, <1>2, <1>3, <1>4, <1>5, <1>6, <1>7, <1>8 DEF Next, LoopStep, ClientStep

\* Quarantined KV stays quarantined: only a shutdown, which fences again, leaves.
LEMMA QuarantineStep ==
    ControlOK /\ QuarantineIsTerminal /\ [Next]_vars => QuarantineIsTerminal'
<1> SUFFICES ASSUME ControlOK, QuarantineIsTerminal, [Next]_vars PROVE QuarantineIsTerminal'
  OBVIOUS
<1> USE DEF lifeVars, requestVars
<1> DEFINE Ended == \A r \in Requests : Registered(r)' => terminal'[r]
           Held == failed /\ shutdown = NotRunning
\* The loop thread is dead while KV is quarantined.
<1>a. Held => pc = "dead"
  BY DEF ControlOK, NotRunning
<1>b. ~(failed' /\ shutdown' = NotRunning) => QuarantineIsTerminal'
  BY DEF QuarantineIsTerminal
<1>c. UNCHANGED <<failed, shutdown>> /\ pc # "dead" => QuarantineIsTerminal'
  BY <1>a, <1>b
<1>d. UNCHANGED <<failed, shutdown, phase, terminal>> => QuarantineIsTerminal'
  BY DEF QuarantineIsTerminal, Registered
<1>1. CASE BeginTick \/ ReleaseFinished \/ AdmitNext \/ EndAdmission \/ Decide \/ Launched
  BY <1>1, <1>c, <1>d DEF BeginTick, ReleaseFinished, AdmitNext, EndAdmission, Decide, Launched
<1>2. CASE Schedule \/ Rollback \/ Launch \/ LaunchRaises
  BY <1>2, <1>c, <1>d DEF Schedule, Rollback, Launch, LaunchRaises
<1>3. CASE Drain \/ DrainRaises \/ Drained \/ LoopCrashed \/ LoopStops
  BY <1>3, <1>c, <1>d DEF Drain, DrainRaises, Drained, LoopCrashed, LoopStops
<1>4. CASE LoopShutsDown \/ StopShutsDown
  BY <1>4, <1>b DEF LoopShutsDown, StopShutsDown, NotRunning
<1>5. CASE StopTimesOut \/ StopBegins \/ UpdateWeights
  BY <1>5, <1>d DEF StopTimesOut, StopBegins, UpdateWeights
<1>6. CASE Start
  BY <1>6, <1>b DEF Start
<1>7. CASE ShutdownStep
  <2>1. CASE ShutdownFinishes
    BY <2>1, <1>b DEF ShutdownFinishes, EndShutdown
  <2>2. CASE Quarantine
    <3>1. /\ \A r \in Requests : Registered(r)' <=> Registered(r)
          /\ \A r \in Requests : Registered(r) => terminal'[r]
      BY <2>2 DEF Quarantine, Finish, AbortAll, Registered
    <3>2. QED
      BY <3>1 DEF QuarantineIsTerminal
  <2>3. CASE \E at \in {"drain", "outstanding", "finish"} : Step(at)
    <3>1. shutdown' # NotRunning
      BY <2>3 DEF Step, NotRunning, ControlOK
    <3>2. QED
      BY <3>1, <1>b
  <2>4. CASE ShutdownDrains
    <3>1. shutdown'.at = "drain"
      BY <2>4 DEF ShutdownDrains
    <3>2. QED
      BY <3>1, <1>b DEF NotRunning
  <2>5. QED
    BY <1>7, <2>1, <2>2, <2>3, <2>4 DEF ShutdownStep, ShutdownBegins, ShutdownDrainRaises,
         ShutdownDrained, ShutdownFences
<1>8. CASE \E r \in Requests : Submit(r)
  BY <1>8, <1>b DEF Submit
<1>9. ASSUME NEW q \in Requests, Cancel(q) PROVE QuarantineIsTerminal'
  <2>1. /\ UNCHANGED <<failed, shutdown>>
        /\ \A r \in Requests : terminal'[r] <=> terminal[r] \/ r \in {q}
        /\ \E S : Release(S, phase, waiting)
    BY <1>9 DEF Cancel, Finish
  <2>2. \A r \in Requests : Registered(r)' => Registered(r)
    BY <2>1 DEF Release, Registered
  <2>3. QED
    BY <2>1, <2>2 DEF QuarantineIsTerminal
<1>10. CASE UNCHANGED vars
  BY <1>10, <1>d DEF vars
<1>11. QED
  BY <1>1, <1>2, <1>3, <1>4, <1>5, <1>6, <1>7, <1>8, <1>9, <1>10
     DEF Next, LoopStep, ClientStep, StopStep

\* KV slots are given back only when no launched execution of their request can still
\* write them, whatever is cancelled or crashes; a stop that returned True has them all
\* back; and KV that a failed fence quarantined is not released by a later cancellation.
THEOREM KVIsReleasedSafely == Spec => []KVIsGivenBackSafely
<1> DEFINE Inv == Layers /\ StoppedOK /\ QuarantineIsTerminal
<1>1. Init => StoppedOK /\ QuarantineIsTerminal
  BY DEF Init, StoppedOK, QuarantineIsTerminal
<1>2. Layers /\ StoppedOK /\ QuarantineIsTerminal /\ [Next]_vars
      => StoppedOK' /\ QuarantineIsTerminal'
  BY StoppedStep, QuarantineStep DEF Layers
<1>3. Layers /\ StoppedOK /\ QuarantineIsTerminal => KVIsGivenBackSafely
  <2> SUFFICES ASSUME Layers, StoppedOK, QuarantineIsTerminal PROVE KVIsGivenBackSafely
    OBVIOUS
  <2>1. NoReleaseInFlight
    <3> SUFFICES ASSUME NEW r \in Requests, touching[r] > 0 PROVE phase[r] = "running"
      BY DEF NoReleaseInFlight
    <3>1. /\ touching[r] \in Nat /\ touching[r] + Planning(r) <= Len(order[r])
          /\ StepsOK /\ PlannedAreRunning
      BY DEF Layers, RegistryOK, TouchingIsPlanned, StepsOK
    <3>2. order[r] # <<>>
      BY <3>1, KnownFacts
    <3>3. QED
      BY <3>1, <3>2 DEF PlannedAreRunning
  <2>2. ASSUME stopper = "stopped"
        PROVE  /\ \A r \in Requests : ~Registered(r)
               /\ inflight = <<>> /\ ~HasOutstanding
               /\ freeSlots = PoolTokens
    <3>1. /\ pc = "dead" /\ inflight = <<>> /\ ~HasOutstanding
          /\ \A r \in Requests : ~Registered(r)
      BY <2>2 DEF StoppedOK, Layers, ControlOK, FlightOK
    <3>2. \A r \in Requests : slots[r] = 0
      BY <3>1 DEF Registered, Layers, SlotsOK
    <3>3. /\ slots \in [Requests -> Nat] /\ freeSlots \in Nat
          /\ freeSlots + SumFunction(slots) = PoolTokens
      BY DEF Layers, SlotsOK
    <3>4. SumFunction(slots) = 0
      <4>1. SumFunction(slots) = SumFunctionOnSet(slots, Requests)
        BY <3>3 DEF SumFunction
      <4>2. SumFunctionOnSet(slots, Requests) = 0
        BY <3>2, SumZero, RequestsAssumption
      <4>3. QED
        BY <4>1, <4>2
    <3>5. QED
      BY <3>1, <3>3, <3>4
  <2>3. QED
    BY <2>1, <2>2 DEF KVIsGivenBackSafely, StoppedIsClean
<1>4. QED
  BY <1>1, <1>2, <1>3, LayersHold, PTL DEF Spec

-----------------------------------------------------------------------------
(* Watermarks. *)

\* An increasing sequence of window ends stays above what is materialized.
LEMMA IncreasingEnds ==
    ASSUME NEW s \in Seq(Nat), NEW m \in Nat,
           \A i \in DOMAIN s : s[i] > IF i = 1 THEN m ELSE s[i - 1]
    PROVE  \A i \in DOMAIN s : s[i] > m
<1> DEFINE B == {n \in Nat : n + 1 \in DOMAIN s => s[n + 1] > m}
<1>0. DOMAIN s = 1..Len(s) /\ Len(s) \in Nat /\ \A i \in DOMAIN s : s[i] \in Nat
  OBVIOUS
<1>1. 0 \in B
  OBVIOUS
<1>2. \A n \in Nat : n \in B => n + 1 \in B
  <2> SUFFICES ASSUME NEW n \in Nat, n \in B, (n + 1) + 1 \in DOMAIN s
               PROVE  s[(n + 1) + 1] > m
    OBVIOUS
  <2>1. n + 1 \in DOMAIN s /\ s[n + 1] > m
    BY <1>0
  <2>2. s[(n + 1) + 1] > s[n + 1]
    <3>1. (n + 1) + 1 # 1 /\ ((n + 1) + 1) - 1 = n + 1
      OBVIOUS
    <3>2. QED
      BY <3>1
  <2>3. s[(n + 1) + 1] \in Nat /\ s[n + 1] \in Nat
    BY <1>0, <2>1
  <2>4. QED
    BY <2>1, <2>2, <2>3
<1> HIDE DEF B
<1>3. Nat \subseteq B
  BY <1>1, <1>2, SetInduction
<1>4. ASSUME NEW i \in DOMAIN s PROVE s[i] > m
  <2>1. i - 1 \in B /\ (i - 1) + 1 = i
    BY <1>0, <1>3
  <2>2. QED
    BY <2>1 DEF B
<1>5. QED
  BY <1>4

\* The front of what was appended to.
LEMMA FrontAppend ==
    ASSUME NEW T, NEW s \in Seq(T), NEW x \in T
    PROVE  Front(Append(s, x)) = s /\ Last(Append(s, x)) = x /\ Append(s, x) # <<>>
BY DEF Front, Last

\* The end of the last planned window of r, and its windows in order.
LastEnd(r) == IF order[r] = <<>> THEN materialized[r] ELSE Last(order[r])
Increases(r) ==
    \A i \in DOMAIN order[r] :
        order[r][i] > IF i = 1 THEN materialized[r] ELSE order[r][i - 1]
MarkOK(r) == computed[r] = LastEnd(r) /\ computed[r] <= slots[r] /\ Increases(r)

\* WatermarkExact, request by request.
LEMMA MarkDef == WatermarkExact <=> \A r \in Requests : phase[r] = "running" => MarkOK(r)
BY DEF WatermarkExact, MarkOK, LastEnd, Increases

\* The ends of planned windows are past what is materialized.
LEMMA MarkFacts ==
    ASSUME StepsOK, NEW r \in Requests, Increases(r)
    PROVE  /\ order[r] \in Seq(Nat) /\ materialized[r] \in Nat /\ LastEnd(r) \in Nat
           /\ materialized[r] <= LastEnd(r)
           /\ \A i \in DOMAIN order[r] : order[r][i] > materialized[r]
           /\ \A i \in DOMAIN order[r] : order[r][i] \in Nat
<1>1. order[r] \in Seq(Nat) /\ materialized[r] \in Nat
  BY DEF StepsOK
<1>2. \A i \in DOMAIN order[r] : order[r][i] > materialized[r]
  BY <1>1, IncreasingEnds DEF Increases
<1>3. order[r] # <<>> => Last(order[r]) \in Nat /\ Last(order[r]) > materialized[r]
  <2> SUFFICES ASSUME order[r] # <<>>
               PROVE  Last(order[r]) \in Nat /\ Last(order[r]) > materialized[r]
    OBVIOUS
  <2>1. Len(order[r]) \in DOMAIN order[r] /\ Last(order[r]) = order[r][Len(order[r])]
    BY <1>1 DEF Last
  <2>2. QED
    BY <1>1, <1>2, <2>1
<1>4. LastEnd(r) \in Nat /\ materialized[r] <= LastEnd(r)
  BY <1>1, <1>3 DEF LastEnd
<1>5. \A i \in DOMAIN order[r] : order[r][i] \in Nat
  BY <1>1
<1>6. QED
  BY <1>1, <1>2, <1>4, <1>5

\* Taking back the last window of r restores the end of the one before.
LEMMA RolledBackFacts ==
    ASSUME StepsOK, NEW r \in Requests, order[r] # <<>>, Increases(r)
    PROVE  /\ Front(order[r]) = <<>> => RolledBack(r) = materialized[r]
           /\ Front(order[r]) # <<>> => RolledBack(r) = Last(Front(order[r]))
           /\ Len(order[r]) = 1 => RolledBack(r) = materialized[r]
           /\ Len(order[r]) = 2 => RolledBack(r) = order[r][1]
           /\ RolledBack(r) < Last(order[r])
           /\ \A i \in DOMAIN Front(order[r]) : i \in DOMAIN order[r] /\ i \in Nat
                                                /\ Front(order[r])[i] = order[r][i]
                                                /\ (i # 1 => i - 1 \in DOMAIN Front(order[r]))
<1>0. PICK s \in Seq(Nat) : s = order[r]
  BY DEF StepsOK
<1>1. /\ Front(s) \in Seq(Nat) /\ Len(Front(s)) = Len(s) - 1 /\ Len(s) \in Nat /\ Len(s) > 0
      /\ \A i \in 1..(Len(s) - 1) : Front(s)[i] = s[i]
      /\ DOMAIN s = 1..Len(s) /\ DOMAIN Front(s) = 1..(Len(s) - 1)
      /\ Last(s) = s[Len(s)]
  <2>1. /\ Front(s) \in Seq(Nat) /\ Len(Front(s)) = Len(s) - 1 /\ Len(s) \in Nat /\ Len(s) > 0
        /\ \A i \in 1..(Len(s) - 1) : Front(s)[i] = s[i]
        /\ Last(s) = s[Len(s)]
    BY <1>0, FrontFacts
  <2>2. DOMAIN s = 1..Len(s) /\ DOMAIN Front(s) = 1..Len(Front(s))
    BY <2>1
  <2>3. QED
    BY <2>1, <2>2
<1>2. /\ materialized[r] \in Nat
      /\ \A i \in DOMAIN s : s[i] > materialized[r] /\ s[i] \in Nat
      /\ \A i \in DOMAIN s : i # 1 => s[i] > s[i - 1]
  BY <1>0, MarkFacts DEF Increases
<1>3. ASSUME Front(s) # <<>>
      PROVE  /\ Len(s) >= 2 /\ Last(Front(s)) = s[Len(s) - 1]
             /\ RolledBack(r) = s[Len(s) - 1] /\ s[Len(s) - 1] < s[Len(s)]
  <2>1. Len(s) >= 2 /\ Len(s) - 1 \in DOMAIN s /\ Len(s) \in DOMAIN s /\ Len(s) # 1
    BY <1>1, <1>3, SMTT(60)
  <2>2. Last(Front(s)) = s[Len(s) - 1]
    BY <1>1, <2>1, SMTT(60) DEF Last
  <2>3. RolledBack(r) = Larger(materialized[r], s[Len(s) - 1])
    BY <1>0, <1>3, <2>2 DEF RolledBack
  <2>4. s[Len(s) - 1] > materialized[r] /\ s[Len(s) - 1] \in Nat /\ s[Len(s)] > s[Len(s) - 1]
    BY <1>2, <2>1
  <2>5. QED
    BY <1>2, <2>1, <2>2, <2>3, <2>4 DEF Larger
<1>4. ASSUME Front(s) = <<>>
      PROVE  RolledBack(r) = materialized[r] /\ Len(s) = 1 /\ s[Len(s)] > materialized[r]
  BY <1>0, <1>1, <1>2, <1>4 DEF RolledBack
<1>5. \A i \in DOMAIN Front(s) : i \in DOMAIN s /\ i \in Nat /\ Front(s)[i] = s[i]
                                 /\ (i # 1 => i - 1 \in DOMAIN Front(s))
  BY <1>1
<1>6. /\ Front(s) = <<>> => RolledBack(r) = materialized[r]
      /\ Front(s) # <<>> => RolledBack(r) = Last(Front(s))
      /\ Len(s) = 1 => RolledBack(r) = materialized[r]
      /\ Len(s) = 2 => RolledBack(r) = s[1]
      /\ RolledBack(r) < Last(s)
  BY <1>1, <1>3, <1>4, SMTT(60)
<1>7. QED
  BY <1>0, <1>5, <1>6

\* A planned window starts at the watermark and ends past it, with a slot for each of its
\* positions.
LEMMA MarksSchedule ==
    ASSUME Layers, MarksOK, Schedule
    PROVE  MarksOK'
<1>0. /\ QueueOK /\ CountersOK /\ StepsOK /\ RegistryOK /\ FlightOK /\ SlotsOK
      /\ WatermarkExact /\ StartsMatch
  BY DEF Layers, MarksOK
<1>1. /\ plan' = PlannedRows /\ RowsOK(plan')
      /\ \A k \in DOMAIN plan' : /\ order'[plan'[k].req] = Append(order[plan'[k].req], plan'[k].end)
                                 /\ computed'[plan'[k].req] = plan'[k].end
      /\ \A r \in Requests \ Reqs(plan') : order'[r] = order[r] /\ computed'[r] = computed[r]
  BY <1>0, ScheduleFacts
<1>2. UNCHANGED <<phase, materialized, inflight>> /\ Len(inflight) <= 1
  BY <1>0 DEF Schedule, FlightOK
<1>3. \A k \in DOMAIN plan' :
        /\ plan'[k].req \in Requests /\ phase[plan'[k].req] = "running"
        /\ plan'[k].pos = computed[plan'[k].req]
        /\ plan'[k].end \in Nat /\ plan'[k].pos \in Nat
        /\ plan'[k].pos < plan'[k].end
        /\ plan'[k].phase = "decode" => plan'[k].end = plan'[k].pos + 1
        /\ plan'[k].phase = "prefill" => plan'[k].end <= PromptLen[plan'[k].req]
        /\ plan'[k].phase \in {"prefill", "decode"}
  <2>1. \A k \in DOMAIN plan' : WindowOK(plan'[k]) /\ plan'[k] \in WindowType
    <3>1. RowsOK(PlannedRows)
      BY <1>0, PlanFacts
    <3>2. \A k \in DOMAIN PlannedRows : WindowOK(PlannedRows[k]) /\ PlannedRows[k] \in WindowType
      BY <3>1 DEF RowsOK, WindowOK
    <3>3. QED
      BY <1>1, <3>2
  <2>2. \A k \in DOMAIN plan' :
          /\ plan'[k].pos \in Nat /\ plan'[k].end \in Nat
          /\ plan'[k].phase \in {"prefill", "decode"}
          /\ plan'[k].phase = "decode" => plan'[k].end = plan'[k].pos + 1
          /\ plan'[k].phase = "prefill" =>
               plan'[k].pos < plan'[k].end /\ plan'[k].end <= PromptLen[plan'[k].req]
    BY <2>1 DEF WindowOK, WindowType
  <2>3. \A k \in DOMAIN plan' :
          /\ plan'[k].req \in Requests /\ phase[plan'[k].req] = "running"
          /\ plan'[k].pos = computed[plan'[k].req]
    BY <1>0, <1>1, PlanFacts
  <2>4. QED
    BY <2>2, <2>3
<1>4. \A k \in DOMAIN plan' :
        slots'[plan'[k].req] = IF plan'[k].phase = "decode" /\ NeedsSlot(plan'[k].req)
                               THEN slots[plan'[k].req] + 1 ELSE slots[plan'[k].req]
  <2> DEFINE grown == {PlannedRows[k].req : k \in {j \in DOMAIN PlannedRows :
                         PlannedRows[j].phase = "decode" /\ NeedsSlot(PlannedRows[j].req)}}
  <2>1. slots' = [r \in Requests |-> IF r \in grown THEN slots[r] + 1 ELSE slots[r]]
    BY DEF Schedule
  <2>2. \A k \in DOMAIN PlannedRows :
          PlannedRows[k].req \in grown <=>
            PlannedRows[k].phase = "decode" /\ NeedsSlot(PlannedRows[k].req)
    <3> SUFFICES ASSUME NEW k \in DOMAIN PlannedRows, PlannedRows[k].req \in grown
                 PROVE  PlannedRows[k].phase = "decode" /\ NeedsSlot(PlannedRows[k].req)
      OBVIOUS
    <3>1. PICK j \in DOMAIN PlannedRows : /\ PlannedRows[j].phase = "decode"
                                          /\ NeedsSlot(PlannedRows[j].req)
                                          /\ PlannedRows[j].req = PlannedRows[k].req
      OBVIOUS
    <3>2. j = k
      BY <1>0, <3>1, PlanFacts DEF RowsOK
    <3>3. QED
      BY <3>1, <3>2
  <2> HIDE DEF grown
  <2>3. QED
    BY <1>1, <1>3, <2>1, <2>2
<1>5. \A r \in Requests \ Reqs(plan') : slots'[r] >= slots[r]
  <2>1. \A r \in Requests : slots[r] \in Nat
    BY <1>0 DEF SlotsOK
  <2>2. QED
    BY <2>1 DEF Schedule
<1>6. ASSUME NEW r \in Requests, NEW k \in DOMAIN plan', plan'[k].req = r
      PROVE  MarkOK(r)'
  <2>0. r = plan'[k].req
    BY <1>6
  <2>1. MarkOK(r) /\ order[r] \in Seq(Nat) /\ computed[r] \in Nat /\ slots[r] \in Nat
    BY <1>0, <1>3, <2>0, MarkDef DEF StepsOK, SlotsOK
  <2>2. PICK e \in Nat : e = plan'[k].end
    BY <1>3
  <2>3. /\ order'[r] = Append(order[r], e) /\ computed'[r] = e /\ materialized'[r] = materialized[r]
        /\ e > computed[r]
    BY <1>1, <1>2, <1>3, <2>0, <2>2
  <2>4. LastEnd(r)' = e
    BY <2>1, <2>3, FrontAppend DEF LastEnd
  <2>5. e <= slots'[r]
    <3>1. slots[r] >= PromptLen[r] /\ computed[r] <= slots[r]
      BY <1>0, <1>3, <2>0, <2>1 DEF SlotsOK, MarkOK
    <3>2. CASE plan'[k].phase = "prefill"
      BY <1>3, <1>4, <2>0, <2>1, <2>2, <3>1, <3>2, PromptFacts
    <3>3. CASE plan'[k].phase = "decode"
      BY <1>3, <1>4, <2>0, <2>1, <2>2, <3>1, <3>3 DEF NeedsSlot
    <3>4. QED
      BY <1>3, <3>2, <3>3
  <2>6. Increases(r)'
    <3>1. DOMAIN order'[r] = 1..(Len(order[r]) + 1) /\ Len(order[r]) \in Nat
      BY <2>1, <2>3
    <3>2. \A i \in 1..Len(order[r]) : order'[r][i] = order[r][i]
      BY <2>1, <2>3
    <3>3. order'[r][Len(order[r]) + 1] = e
      BY <2>1, <2>3
    <3>4. ASSUME NEW i \in DOMAIN order'[r]
          PROVE  order'[r][i] > IF i = 1 THEN materialized'[r] ELSE order'[r][i - 1]
      <4>1. CASE i \in 1..Len(order[r])
        <5>1. i \in DOMAIN order[r] /\ i \in Nat /\ (i # 1 => i - 1 \in 1..Len(order[r]))
          BY <2>1, <4>1
        <5>2. order[r][i] > IF i = 1 THEN materialized[r] ELSE order[r][i - 1]
          BY <2>1, <5>1 DEF MarkOK, Increases
        <5>3. QED
          BY <2>3, <3>2, <4>1, <5>1, <5>2
      <4>2. CASE i = Len(order[r]) + 1
        <5>1. e > LastEnd(r)
          BY <2>1, <2>3 DEF MarkOK
        <5>2. CASE order[r] = <<>>
          BY <2>1, <2>3, <3>3, <4>2, <5>1, <5>2 DEF LastEnd
        <5>3. CASE order[r] # <<>>
          <6>1. Len(order[r]) \in 1..Len(order[r]) /\ i # 1 /\ i - 1 = Len(order[r])
            BY <2>1, <4>2, <5>3
          <6>2. order'[r][i - 1] = Last(order[r]) /\ LastEnd(r) = Last(order[r])
            BY <3>2, <5>3, <6>1 DEF LastEnd, Last
          <6>3. QED
            BY <3>3, <4>2, <5>1, <6>1, <6>2
        <5>4. QED
          BY <5>2, <5>3
      <4>3. QED
        BY <3>1, <4>1, <4>2
    <3>5. QED
      BY <3>4 DEF Increases
  <2>7. QED
    BY <2>0, <2>3, <2>4, <2>5, <2>6 DEF MarkOK
<1>7. ASSUME NEW r \in Requests \ Reqs(plan'), phase[r] = "running" PROVE MarkOK(r)'
  <2>1. MarkOK(r) /\ slots'[r] >= slots[r] /\ slots[r] \in Nat /\ slots'[r] \in Nat
        /\ computed[r] \in Nat
    <3>1. SlotsOK'
      BY <1>0, SlotsStep DEF Layers, Next, LoopStep
    <3>2. QED
      BY <1>0, <1>5, <1>7, <3>1, MarkDef DEF SlotsOK, StepsOK
  <2>2. order'[r] = order[r] /\ computed'[r] = computed[r] /\ materialized'[r] = materialized[r]
    BY <1>1, <1>2
  <2>3. LastEnd(r)' = LastEnd(r) /\ (Increases(r)' <=> Increases(r))
    BY <2>2 DEF LastEnd, Last, Increases
  <2>4. QED
    BY <2>1, <2>2, <2>3 DEF MarkOK
<1>8. \A r \in Reqs(plan') : \E k \in DOMAIN plan' : plan'[k].req = r
  BY <1>1, ReqOf
<1>9. WatermarkExact'
  <2>1. \A r \in Requests : phase'[r] = "running" => MarkOK(r)'
    BY <1>2, <1>6, <1>7, <1>8
  <2>2. QED
    BY <2>1 DEF WatermarkExact, MarkOK, LastEnd, Increases
<1>10. StartsMatch'
  <2> SUFFICES ASSUME NEW h \in DOMAIN inflight', NEW i \in DOMAIN inflight'[h].rows
               PROVE  StartOK(h, i)'
    BY DEF StartsMatch
  <2>1. h \in DOMAIN inflight /\ i \in DOMAIN inflight[h].rows /\ h = 1
    BY <1>0, <1>2 DEF StepsOK
  <2>2. inflight[h].rows[i].pos = materialized[inflight[h].rows[i].req]
    BY <1>0, <2>1 DEF StartsMatch, StartOK
  <2>3. QED
    BY <1>2, <2>1, <2>2 DEF StartOK
<1>11. PlanStarts'
  <2> SUFFICES ASSUME NEW r \in Requests, NEW k \in DOMAIN plan', plan'[k].req = r
               PROVE  plan'[k].pos = RolledBack(r)'
    BY <1>3 DEF PlanStarts, RolledBack
  <2>0. r = plan'[k].req
    OBVIOUS
  <2>1. MarkOK(r) /\ order[r] \in Seq(Nat) /\ Increases(r) /\ LastEnd(r) = plan'[k].pos
    BY <1>0, <1>3, <2>0, MarkDef DEF StepsOK, MarkOK
  <2>2. Front(order'[r]) = order[r] /\ materialized'[r] = materialized[r]
    <3>1. /\ order'[r] = Append(order[r], plan'[k].end) /\ plan'[k].end \in Nat
          /\ materialized'[r] = materialized[r]
      BY <1>1, <1>2, <1>3, <2>0
    <3>2. Front(Append(order[r], plan'[k].end)) = order[r]
      BY <2>1, <3>1, FrontAppend
    <3>3. QED
      BY <3>1, <3>2
  <2>3. RolledBack(r)' = IF order[r] = <<>> THEN materialized[r]
                         ELSE Larger(materialized[r], Last(order[r]))
    BY <2>2 DEF RolledBack
  <2>4. materialized[r] <= LastEnd(r) /\ materialized[r] \in Nat /\ LastEnd(r) \in Nat
    BY <1>0, <2>1, MarkFacts
  <2>5. RolledBack(r)' = LastEnd(r)
    BY <2>3, <2>4 DEF LastEnd, Larger
  <2>6. QED
    BY <2>0, <2>1, <2>5
<1>12. QED
  BY <1>9, <1>10, <1>11 DEF MarksOK

\* A rollback puts the watermark back where the plan found it.
LEMMA MarksRollback ==
    ASSUME Layers, MarksOK, Rollback
    PROVE  MarksOK'
<1>0. /\ StepsOK /\ RegistryOK /\ FlightOK /\ SlotsOK
      /\ WatermarkExact /\ StartsMatch
  BY DEF Layers, MarksOK
<1>1. /\ plan' = <<>>
      /\ \A r \in Reqs(plan) : order'[r] = Front(order[r]) /\ computed'[r] = RolledBack(r)
      /\ \A r \in Requests \ Reqs(plan) : order'[r] = order[r] /\ computed'[r] = computed[r]
      /\ computed' \in [Requests -> Nat]
  BY <1>0, RollbackFacts
<1>2. UNCHANGED <<phase, materialized, inflight, slots>> /\ Len(inflight) <= 1
  BY <1>0 DEF Rollback, FlightOK, kvVars
<1>3. ASSUME NEW r \in Reqs(plan), r \in Requests, phase[r] = "running" PROVE MarkOK(r)'
  <2>1. MarkOK(r) /\ order[r] # <<>> /\ computed[r] \in Nat /\ slots[r] \in Nat
    BY <1>0, <1>3, PlannedOrder, MarkDef DEF StepsOK, SlotsOK
  <2>2. /\ Front(order[r]) = <<>> => RolledBack(r) = materialized[r]
        /\ Front(order[r]) # <<>> => RolledBack(r) = Last(Front(order[r]))
        /\ RolledBack(r) < Last(order[r])
        /\ \A i \in DOMAIN Front(order[r]) : i \in DOMAIN order[r] /\ i \in Nat
                                             /\ Front(order[r])[i] = order[r][i]
                                             /\ (i # 1 => i - 1 \in DOMAIN Front(order[r]))
    BY <1>0, <1>3, <2>1, RolledBackFacts DEF MarkOK
  <2>3. computed'[r] = LastEnd(r)'
    BY <1>1, <1>2, <1>3, <2>2 DEF LastEnd, Last
  <2>4. computed'[r] <= slots'[r]
    <3>1. computed[r] = Last(order[r]) /\ computed[r] <= slots[r]
      BY <2>1 DEF MarkOK, LastEnd
    <3>2. computed'[r] = RolledBack(r) /\ computed'[r] \in Nat /\ slots'[r] = slots[r]
      BY <1>1, <1>2, <1>3
    <3>3. QED
      BY <2>1, <2>2, <3>1, <3>2
  <2>5. Increases(r)'
    <3>1. ASSUME NEW i \in DOMAIN Front(order[r])
          PROVE  Front(order[r])[i] > IF i = 1 THEN materialized[r] ELSE Front(order[r])[i - 1]
      <4>1. order[r][i] > IF i = 1 THEN materialized[r] ELSE order[r][i - 1]
        BY <2>1, <2>2 DEF MarkOK, Increases
      <4>2. QED
        BY <2>2, <4>1
    <3>2. order'[r] = Front(order[r]) /\ materialized'[r] = materialized[r]
      BY <1>1, <1>2, <1>3
    <3>3. QED
      BY <3>1, <3>2 DEF Increases
  <2>6. QED
    BY <2>3, <2>4, <2>5 DEF MarkOK
<1>4. ASSUME NEW r \in Requests \ Reqs(plan), phase[r] = "running" PROVE MarkOK(r)'
  <2>1. MarkOK(r)
    BY <1>0, <1>4, MarkDef
  <2>2. /\ order'[r] = order[r] /\ computed'[r] = computed[r] /\ slots'[r] = slots[r]
        /\ materialized'[r] = materialized[r]
    BY <1>1, <1>2
  <2>3. QED
    BY <2>1, <2>2 DEF MarkOK, LastEnd, Last, Increases
<1>5. WatermarkExact'
  <2>1. \A r \in Requests : phase'[r] = "running" => MarkOK(r)'
    BY <1>2, <1>3, <1>4
  <2>2. QED
    BY <2>1 DEF WatermarkExact, MarkOK, LastEnd, Increases
<1>6. StartsMatch'
  <2> SUFFICES ASSUME NEW h \in DOMAIN inflight', NEW i \in DOMAIN inflight'[h].rows
               PROVE  StartOK(h, i)'
    BY DEF StartsMatch
  <2>1. h \in DOMAIN inflight /\ i \in DOMAIN inflight[h].rows /\ h = 1
    BY <1>0, <1>2 DEF StepsOK
  <2>2. inflight[h].rows[i].pos = materialized[inflight[h].rows[i].req]
    BY <1>0, <2>1 DEF StartsMatch, StartOK
  <2>3. QED
    BY <1>2, <2>1, <2>2 DEF StartOK
<1>7. QED
  BY <1>1, <1>5, <1>6 DEF MarksOK, PlanStarts

\* A launched window is the only one of its request, or follows the one of the first handle.
LEMMA LaunchedFollows ==
    ASSUME StepsOK, RegistryOK, FlightOK, pc = "submit", NEW r \in Reqs(plan)
    PROVE  /\ r \in Requests /\ order[r] \in Seq(Nat) /\ order[r] # <<>>
           /\ phase[r] = "running"
           /\ InFlight(r) => Len(inflight) = 1 /\ In(r, 1) /\ Len(order[r]) = 2
           /\ ~InFlight(r) => Len(order[r]) = 1
<1>1. r \in Requests /\ order[r] \in Seq(Nat) /\ order[r] # <<>> /\ phase[r] = "running"
  BY PlannedOrder DEF RegistryOK, PlannedAreRunning
<1>2. Len(order[r]) = Flying(r) + 1 /\ Flying(r) \in 0..2
  <2>1. Len(order[r]) = Known(r) /\ Planning(r) = 1
    BY <1>1 DEF RegistryOK, NothingLost, Down, Planning
  <2>2. QED
    BY <1>1, <2>1, KnownFacts DEF Known
<1>3. ASSUME InFlight(r) PROVE Len(inflight) = 1 /\ In(r, 1) /\ ~InBoth(r)
  <2>1. plan # <<>>
    BY <1>1, NoRows
  <2>2. overlap /\ Len(inflight) <= 1
    BY <1>3, <2>1 DEF FlightOK
  <2>3. Len(inflight) \in Nat /\ DOMAIN inflight = 1..Len(inflight)
    BY DEF StepsOK
  <2>5. PICK h \in DOMAIN inflight : In(r, h)
    BY <1>3 DEF InFlight
  <2>6. Len(inflight) = 1 /\ DOMAIN inflight = 1..1 /\ h = 1
    BY <2>2, <2>3, <2>5
  <2>4. QED
    BY <2>5, <2>6 DEF InBoth
<1>4. InFlight(r) => Flying(r) = 1
  BY <1>3 DEF Flying
<1>5. ~InFlight(r) => Flying(r) = 0
  BY <1>1, KnownFacts
<1>6. QED
  BY <1>1, <1>2, <1>3, <1>4, <1>5

\* A launch moves no watermark; its windows start where the planned ones did.
LEMMA MarksLaunch ==
    ASSUME Layers, MarksOK, Launch
    PROVE  MarksOK'
<1>0. /\ CountersOK /\ StepsOK /\ RegistryOK /\ FlightOK
      /\ WatermarkExact /\ StartsMatch /\ PlanStarts
  BY DEF Layers, MarksOK
<1>1. UNCHANGED <<phase, order, computed, materialized, slots>> /\ pc = "submit"
  BY DEF Launch, requestVars, kvVars
<1>2. PICK n \in Nat : n = Len(inflight)
  BY <1>0 DEF StepsOK
<1>3. /\ plan # <<>> /\ plan' = Rest
      /\ DOMAIN inflight' = 1..(n + 1) /\ DOMAIN inflight = 1..n
      /\ \A h \in DOMAIN inflight : inflight'[h] = inflight[h]
      /\ inflight'[n + 1].rows = NextGroup
  BY <1>0, <1>2, LaunchFacts
<1>4. /\ RowsOK(NextGroup) /\ RowsOK(plan)
      /\ Elements(NextGroup) \subseteq Elements(plan) /\ Elements(Rest) \subseteq Elements(plan)
  BY <1>0, <1>3, GroupFacts, RestFacts DEF StepsOK
<1>5. \A r : \A h \in DOMAIN inflight : In(r, h)' <=> In(r, h)
  BY <1>3 DEF In
<1>6. WatermarkExact'
  BY <1>0, <1>1 DEF WatermarkExact, Last
<1>7. \A w \in Elements(plan) : w.pos = RolledBack(w.req) /\ w.req \in Reqs(plan)
  BY <1>0, <1>4, ReqOf DEF PlanStarts, Elements
<1>8. PlanStarts'
  <2>1. \A k \in DOMAIN Rest : Rest[k] \in Elements(plan)
    BY <1>4 DEF Elements
  <2>2. \A k \in DOMAIN Rest : Rest[k].pos = RolledBack(Rest[k].req)
    BY <1>7, <2>1
  <2>3. QED
    BY <1>1, <1>3, <2>2 DEF PlanStarts, RolledBack, Front, Last
<1>9. ASSUME NEW h \in DOMAIN inflight', NEW i \in DOMAIN inflight'[h].rows
      PROVE  StartOK(h, i)'
  <2>0. PICK w : w = inflight'[h].rows[i]
    OBVIOUS
  <2>1. CASE h \in DOMAIN inflight
    <3>1. i \in DOMAIN inflight[h].rows /\ inflight[h].rows[i] = w
      BY <1>3, <1>9, <2>0, <2>1
    <3>2. w.pos = IF h = 2 /\ In(w.req, 1) THEN order[w.req][1] ELSE materialized[w.req]
      BY <1>0, <2>1, <3>1 DEF StartsMatch, StartOK
    <3>3. h = 2 => (In(w.req, 1)' <=> In(w.req, 1))
      BY <1>3, <1>5, <2>1
    <3>4. w.pos = IF h = 2 /\ In(w.req, 1)' THEN order'[w.req][1] ELSE materialized'[w.req]
      BY <1>1, <3>2, <3>3
    <3>5. QED
      BY <2>0, <3>4 DEF StartOK
  <2>2. CASE h = n + 1
    <3>1. i \in DOMAIN NextGroup /\ w = NextGroup[i] /\ w \in Elements(plan)
      BY <1>3, <1>4, <1>9, <2>0, <2>2 DEF Elements
    <3>2. w.pos = RolledBack(w.req) /\ w.req \in Reqs(plan)
      BY <1>7, <3>1
    <3>3. PICK r \in Requests : r = w.req
      BY <1>4, <3>2, ReqOf
    <3>4. /\ order[r] # <<>> /\ phase[r] = "running"
          /\ InFlight(r) => n = 1 /\ In(r, 1) /\ Len(order[r]) = 2
          /\ ~InFlight(r) => Len(order[r]) = 1
      BY <1>0, <1>1, <1>2, <3>2, <3>3, LaunchedFollows
    <3>5. Increases(r)
      BY <1>0, <3>4, MarkDef DEF MarkOK
    <3>6. /\ InFlight(r) => w.pos = order[r][1]
          /\ ~InFlight(r) => w.pos = materialized[r]
      BY <1>0, <3>2, <3>3, <3>4, <3>5, RolledBackFacts
    <3>7. (h = 2 /\ In(r, 1)') <=> InFlight(r)
      <4>1. InFlight(r) => h = 2 /\ In(r, 1)'
        BY <1>3, <1>5, <2>2, <3>4
      <4>2. h = 2 /\ In(r, 1)' => InFlight(r)
        BY <1>3, <1>5, <2>2 DEF InFlight
      <4>3. QED
        BY <4>1, <4>2
    <3>8. w.pos = IF h = 2 /\ In(r, 1)' THEN order'[r][1] ELSE materialized'[r]
      BY <1>1, <3>6, <3>7
    <3>9. QED
      BY <2>0, <3>3, <3>8 DEF StartOK
  <2>3. QED
    BY <1>3, <2>1, <2>2
<1>10. QED
  BY <1>6, <1>8, <1>9 DEF MarksOK, StartsMatch

\* Committing the oldest handle materializes exactly its windows.
LEMMA MarksResolve ==
    ASSUME Layers, MarksOK, NoStaleExecution, inflight # <<>>, plan = <<>>,
           NEW stops, Resolve(stops)
    PROVE  MarksOK'
<1>0. /\ StepsOK /\ RegistryOK /\ WatermarkExact /\ StartsMatch
  BY DEF Layers, MarksOK
<1>1. PICK n \in Nat : n = Len(inflight)
  BY <1>0 DEF StepsOK
<1>2. /\ n >= 1 /\ DOMAIN inflight = 1..n /\ DOMAIN inflight' = 1..(n - 1)
      /\ \A h \in DOMAIN inflight' :
           h + 1 \in DOMAIN inflight /\ h \in Nat /\ inflight'[h] = inflight[h + 1]
      /\ \A r \in Requests :
           /\ order'[r] = IF In(r, 1) THEN Tail(order[r]) ELSE order[r]
           /\ In(r, 1) => order[r] # <<>>
           /\ ~In(r, 1) => materialized'[r] = materialized[r]
      /\ \A i \in DOMAIN inflight[1].rows :
           LET w == inflight[1].rows[i]
           IN  materialized'[w.req] =
                 IF inflight[1].version = version
                 THEN Larger(materialized[w.req], w.end)
                 ELSE materialized[w.req]
      /\ UNCHANGED <<phase, computed, slots, plan>>
  BY <1>0, <1>1, ResolveFacts
<1>3. ASSUME NEW r \in Requests, In(r, 1), phase[r] = "running"
      PROVE  /\ materialized'[r] = order[r][1] /\ MarkOK(r)'
  <2>0. 1 \in DOMAIN inflight
    BY <1>2
  <2>1. 1 \in DOMAIN inflight /\ RowsOK(inflight[1].rows)
    BY <1>0, <2>0 DEF StepsOK, HandleOK
  <2>2. PICK i \in DOMAIN inflight[1].rows : inflight[1].rows[i].req = r
    BY <1>3, <2>1, ReqOf DEF In
  <2>3. inflight[1].rows[i].end = order[r][1]
    BY <1>0, <2>1, <2>2 DEF RegistryOK, EndsMatch, EndOK
  <2>4. inflight[1].version = version
    BY <2>1 DEF NoStaleExecution
  <2>5. MarkOK(r) /\ order[r] # <<>> /\ Increases(r)
    BY <1>0, <1>2, <1>3, MarkDef DEF MarkOK
  <2>6. PICK s \in Seq(Nat) : s = order[r]
    BY <1>0 DEF StepsOK
  <2>7. /\ s # <<>> /\ DOMAIN s = 1..Len(s) /\ Len(s) \in Nat /\ Len(s) >= 1
        /\ Tail(s) \in Seq(Nat) /\ DOMAIN Tail(s) = 1..(Len(s) - 1)
        /\ Tail(s) = <<>> => Len(s) = 1
        /\ Tail(s) # <<>> => Len(s) - 1 \in DOMAIN Tail(s)
        /\ Last(s) = s[Len(s)] /\ Last(Tail(s)) = Tail(s)[Len(s) - 1]
        /\ \A j \in DOMAIN Tail(s) : Tail(s)[j] = s[j + 1] /\ j + 1 \in DOMAIN s /\ j + 1 # 1
                                     /\ (j + 1) - 1 = j
    <3>1. s # <<>>
      BY <2>5, <2>6
    <3>2. /\ DOMAIN s = 1..Len(s) /\ Len(s) \in Nat /\ Len(s) >= 1
          /\ Tail(s) \in Seq(Nat) /\ Len(Tail(s)) = Len(s) - 1
          /\ \A j \in 1..(Len(s) - 1) : Tail(s)[j] = s[j + 1]
      BY <3>1
    <3>3. DOMAIN Tail(s) = 1..(Len(s) - 1)
      BY <3>2
    <3>4. /\ Tail(s) = <<>> => Len(s) = 1
          /\ Tail(s) # <<>> => Len(s) - 1 \in DOMAIN Tail(s)
      <4>1. PICK t \in Seq(Nat) : t = Tail(s)
        BY <3>2
      <4>2. (t = <<>> <=> Len(t) = 0) /\ Len(t) \in Nat
        OBVIOUS
      <4>3. QED
        BY <3>2, <3>3, <4>1, <4>2
    <3>5. Last(s) = s[Len(s)] /\ Last(Tail(s)) = Tail(s)[Len(s) - 1]
      BY <3>2 DEF Last
    <3>6. \A j \in DOMAIN Tail(s) : /\ Tail(s)[j] = s[j + 1]
                                    /\ j + 1 \in DOMAIN s /\ j + 1 # 1
                                    /\ (j + 1) - 1 = j
      BY <3>2, <3>3
    <3>7. QED
      BY <3>1, <3>2, <3>3, <3>4, <3>5, <3>6
  <2>8. /\ materialized[r] \in Nat /\ \A j \in DOMAIN s : s[j] > materialized[r] /\ s[j] \in Nat
        /\ \A j \in DOMAIN s : j # 1 => s[j] > s[j - 1]
    BY <1>0, <2>5, <2>6, MarkFacts DEF Increases
  <2>9. materialized'[r] = s[1]
    <3>1. materialized'[r] = Larger(materialized[r], s[1])
      BY <1>2, <2>2, <2>3, <2>4, <2>6
    <3>2. 1 \in DOMAIN s
      BY <2>7
    <3>3. QED
      BY <2>8, <3>1, <3>2 DEF Larger
  <2>10. order'[r] = Tail(s) /\ computed'[r] = computed[r] /\ slots'[r] = slots[r]
    BY <1>2, <1>3, <2>6
  <2>11. \A j \in DOMAIN Tail(s) : Tail(s)[j] > IF j = 1 THEN s[1] ELSE Tail(s)[j - 1]
    <3> TAKE j \in DOMAIN Tail(s)
    <3>1. s[j + 1] > s[j] /\ Tail(s)[j] = s[j + 1] /\ j \in 1..(Len(s) - 1)
      BY <2>7, <2>8
    <3>2. CASE j = 1
      BY <3>1, <3>2
    <3>3. CASE j # 1
      <4>1. j - 1 \in DOMAIN Tail(s) /\ (j - 1) + 1 = j
        <5>1. /\ DOMAIN Tail(s) = 1..(Len(s) - 1) /\ Len(s) \in Nat
              /\ j \in 1..(Len(s) - 1)
          BY <2>7, <3>1
        <5>2. j - 1 \in 1..(Len(s) - 1) /\ (j - 1) + 1 = j
          BY ONLY <5>1, <3>3, Len(s) \in Nat
        <5> QED
          BY <5>1, <5>2, Zenon
      <4>2. Tail(s)[j - 1] = s[j]
        BY <2>7, <4>1
      <4>3. QED
        BY <3>1, <3>3, <4>2
    <3>4. QED
      BY <3>2, <3>3
  <2>12. IF Tail(s) = <<>> THEN s[1] = Last(s) ELSE Last(Tail(s)) = Last(s)
    <3>1. CASE Tail(s) = <<>>
      BY <2>7, <3>1
    <3>2. CASE Tail(s) # <<>>
      <4>1. Last(Tail(s)) = s[(Len(s) - 1) + 1] /\ (Len(s) - 1) + 1 = Len(s)
        BY <2>7, <3>2
      <4>2. QED
        BY <2>7, <3>2, <4>1
    <3>3. QED
      BY <3>1, <3>2
  <2>13. LastEnd(r) = Last(s) /\ computed[r] = LastEnd(r) /\ computed[r] <= slots[r]
    BY <2>5, <2>6, <2>7 DEF MarkOK, LastEnd
  <2>14. LastEnd(r)' = Last(s) /\ Increases(r)'
    BY <2>9, <2>10, <2>11, <2>12 DEF LastEnd, Last, Increases
  <2>15. MarkOK(r)'
    BY <2>10, <2>13, <2>14 DEF MarkOK
  <2>16. QED
    BY <2>6, <2>9, <2>15
<1>4. ASSUME NEW r \in Requests, ~In(r, 1), phase[r] = "running" PROVE MarkOK(r)'
  <2>1. MarkOK(r)
    BY <1>0, <1>4, MarkDef
  <2>2. /\ order'[r] = order[r] /\ computed'[r] = computed[r] /\ slots'[r] = slots[r]
        /\ materialized'[r] = materialized[r]
    BY <1>2, <1>4
  <2>3. QED
    BY <2>1, <2>2 DEF MarkOK, LastEnd, Last, Increases
<1>5. WatermarkExact'
  <2>1. \A r \in Requests : phase'[r] = "running" => MarkOK(r)'
    BY <1>2, <1>3, <1>4
  <2>2. QED
    BY <2>1 DEF WatermarkExact, MarkOK, LastEnd, Increases
<1>6. ASSUME NEW h \in DOMAIN inflight', NEW i \in DOMAIN inflight'[h].rows
      PROVE  StartOK(h, i)'
  <2>0. PICK w : w = inflight'[h].rows[i]
    OBVIOUS
  <2>1. /\ h + 1 \in DOMAIN inflight /\ h \in Nat /\ h >= 1
        /\ i \in DOMAIN inflight[h + 1].rows /\ w = inflight[h + 1].rows[i]
    BY <1>2, <1>6, <2>0
  <2>2. RowsOK(inflight[h + 1].rows)
    BY <1>0, <2>1 DEF StepsOK, HandleOK
  <2>3. PICK r \in Requests : r = w.req
    BY <2>1, <2>2, ReqOf
  <2>4. In(r, h + 1) /\ InFlight(r)
    BY <2>1, <2>2, <2>3, ReqOf DEF In, InFlight
  <2>5. w.pos = IF h + 1 = 2 /\ In(r, 1) THEN order[r][1] ELSE materialized[r]
    BY <1>0, <2>1, <2>3 DEF StartsMatch, StartOK
  <2>6. ~(h = 2 /\ In(r, 1)')
    <3> SUFFICES ASSUME h = 2, In(r, 1)' PROVE FALSE
      OBVIOUS
    <3>1. 1 \in DOMAIN inflight' /\ inflight'[1] = inflight[2]
      BY <1>2, <2>1
    <3>2. In(r, 2) /\ In(r, 3) /\ 2 \in DOMAIN inflight /\ 3 \in DOMAIN inflight
      BY <1>2, <2>1, <2>4, <3>1 DEF In
    <3>3. QED
      BY <1>0, <3>2 DEF RegistryOK, PairsAreFirst
  <2>7. w.pos = materialized'[r]
    <3>1. CASE In(r, 1)
      <4>1. 1 \in DOMAIN inflight /\ 1 < h + 1
        BY <1>2, <2>1
      <4>2. h + 1 = 2
        BY <1>0, <2>1, <2>4, <3>1, <4>1 DEF RegistryOK, PairsAreFirst
      <4>3. order[r] # <<>> /\ phase[r] = "running"
        BY <1>0, <1>2, <3>1 DEF RegistryOK, PlannedAreRunning
      <4>4. QED
        BY <1>3, <2>5, <3>1, <4>2, <4>3
    <3>2. CASE ~In(r, 1)
      BY <1>2, <2>5, <3>2
    <3>3. QED
      BY <3>1, <3>2
  <2>8. QED
    BY <2>0, <2>3, <2>6, <2>7 DEF StartOK
<1>7. PlanStarts'
  BY <1>2 DEF PlanStarts
<1>8. QED
  BY <1>5, <1>6, <1>7 DEF MarksOK, StartsMatch

\* At the start every watermark is zero.
LEMMA MarksInit == Init => MarksOK
BY DEF Init, MarksOK, WatermarkExact, StartsMatch, PlanStarts

\* Planning and taking back move the registry and the watermark together; everything else
\* that touches them finds nothing planned.
LEMMA MarksStep == Layers /\ MarksOK /\ NoStaleExecution /\ [Next]_vars => MarksOK'
<1> SUFFICES ASSUME Layers, MarksOK, NoStaleExecution, [Next]_vars PROVE MarksOK'
  OBVIOUS
<1>0. /\ ControlOK /\ QueueOK /\ StepsOK /\ RegistryOK /\ FlightOK /\ FreshOK /\ SlotsOK
      /\ WatermarkExact /\ StartsMatch /\ PlanStarts
  BY DEF Layers, MarksOK
<1> DEFINE Fresh(r) == /\ order[r] = <<>> /\ computed[r] = 0 /\ materialized[r] = 0
                       /\ slots'[r] \in Nat
           Still(r) == phase[r] = "running" /\ slots'[r] = slots[r]
\* What leaves the registry and the watermarks alone.
<1>a. ASSUME UNCHANGED <<order, computed, materialized, inflight>>, plan' \in {plan, <<>>},
             \A r \in Requests : phase'[r] = "running" => Fresh(r) \/ Still(r)
      PROVE  MarksOK'
  <2>1. ASSUME NEW r \in Requests, phase'[r] = "running" PROVE MarkOK(r)'
    <3>1. CASE Fresh(r)
      <4>1. order'[r] = <<>> /\ computed'[r] = 0 /\ materialized'[r] = 0 /\ slots'[r] >= 0
        BY <1>a, <3>1
      <4>2. QED
        BY <4>1 DEF MarkOK, LastEnd, Increases
    <3>2. CASE Still(r)
      <4>1. MarkOK(r) /\ slots'[r] = slots[r]
        BY <1>0, <3>2, MarkDef
      <4>2. /\ order'[r] = order[r] /\ computed'[r] = computed[r]
            /\ materialized'[r] = materialized[r]
        BY <1>a
      <4>3. QED
        BY <4>1, <4>2 DEF MarkOK, LastEnd, Last, Increases
    <3>3. QED
      BY <1>a, <2>1, <3>1, <3>2
  <2>2. WatermarkExact'
    BY <2>1 DEF WatermarkExact, MarkOK, LastEnd, Increases
  <2>3. StartsMatch'
    <3>1. \A r : \A h : In(r, h)' <=> In(r, h)
      BY <1>a DEF In
    <3>2. QED
      BY <1>0, <1>a, <3>1 DEF StartsMatch, StartOK
  <2>4. PlanStarts'
    BY <1>0, <1>a DEF PlanStarts, RolledBack, Front, Last
  <2>5. QED
    BY <2>2, <2>3, <2>4 DEF MarksOK
<1> HIDE DEF Fresh
<1>b. ASSUME UNCHANGED <<order, computed, materialized, inflight>>, plan' \in {plan, <<>>},
             UNCHANGED <<phase, slots>>
      PROVE  MarksOK'
  BY <1>a, <1>b
<1>c. UNCHANGED <<phase, order, computed, materialized, execVars, kvVars>> => MarksOK'
  BY <1>b DEF execVars, kvVars
<1>d. \A S, ph, wait :
        /\ Release(S, ph, wait) /\ UNCHANGED <<order, computed, materialized, execVars>>
        /\ \A r \in Requests : ph[r] = "running" => phase[r] = "running"
        => MarksOK'
  <2> SUFFICES ASSUME NEW S, NEW ph, NEW wait, Release(S, ph, wait),
                      UNCHANGED <<order, computed, materialized, execVars>>,
                      \A r \in Requests : ph[r] = "running" => phase[r] = "running"
               PROVE  MarksOK'
    OBVIOUS
  <2>1. \A r \in Requests : phase'[r] = "running" => Still(r)
    BY DEF Release
  <2> HIDE DEF Still
  <2>2. QED
    BY <2>1, <1>a DEF execVars
<1> HIDE DEF Still
<1>e. ASSUME FenceAndDiscard PROVE MarksOK'
  <2>1. /\ inflight' = <<>> /\ plan' = <<>> /\ UNCHANGED <<phase, slots>>
        /\ \A r \in Requests : order'[r] = <<>> /\ materialized'[r] = materialized[r]
        /\ \A r \in Requests : Registered(r) => computed'[r] = materialized[r]
    BY <1>e DEF FenceAndDiscard, kvVars
  <2>2. ASSUME NEW r \in Requests, phase[r] = "running" PROVE MarkOK(r)'
    <3>1. MarkOK(r) /\ Increases(r) /\ computed[r] = LastEnd(r) /\ computed[r] <= slots[r]
          /\ slots[r] \in Nat
      BY <1>0, <2>2, MarkDef DEF MarkOK, SlotsOK
    <3>2. materialized[r] <= LastEnd(r) /\ materialized[r] \in Nat /\ LastEnd(r) \in Nat
      BY <1>0, <3>1, MarkFacts
    <3>3. /\ order'[r] = <<>> /\ materialized'[r] = materialized[r] /\ slots'[r] = slots[r]
          /\ computed'[r] = materialized[r] /\ materialized[r] <= slots[r]
      BY <2>1, <2>2, <3>1, <3>2 DEF Registered
    <3>4. QED
      BY <3>3 DEF MarkOK, LastEnd, Increases
  <2>3. WatermarkExact'
    BY <2>1, <2>2 DEF WatermarkExact, MarkOK, LastEnd, Increases
  <2>4. QED
    BY <2>1, <2>3 DEF MarksOK, StartsMatch, PlanStarts
<1>f. shutdown.at # "none" => plan = <<>>
  BY <1>0 DEF ControlOK, ShutdownPlaces, FlightOK
<1> USE DEF requestVars
<1>g. Quarantine => MarksOK'
  BY <1>c DEF Quarantine
<1>1. CASE BeginTick \/ EndAdmission \/ Decide \/ Launched
  BY <1>1, <1>c DEF BeginTick, EndAdmission, Decide, Launched
<1>2. CASE ReleaseFinished
  BY <1>2, <1>d DEF ReleaseFinished
<1>3. CASE AdmitNext
  <2>1. CASE UNCHANGED <<phase, running, kvVars>>
    BY <1>3, <2>1, <1>c DEF AdmitNext
  <2>2. CASE ~ UNCHANGED <<phase, running, kvVars>>
    <3>1. /\ pc = "admit" /\ scan.left > 0
          /\ phase' = [phase EXCEPT ![Head(waiting)] = "running"]
          /\ slots' = [slots EXCEPT ![Head(waiting)] = PromptLen[Head(waiting)]]
          /\ UNCHANGED <<order, computed, materialized, execVars>>
      BY <1>3, <2>2 DEF AdmitNext
    <3>2. Len(waiting) > 0 /\ waiting \in Seq(Requests)
      BY <1>0, <3>1 DEF QueueOK
    <3>3. Head(waiting) \in Elements(waiting) /\ Head(waiting) \in Requests
      BY <3>2, TailFacts
    <3>4. PICK r \in Requests : r = Head(waiting)
      BY <3>3
    <3>5. phase[r] = "waiting" /\ PromptLen[r] \in Nat
      BY <1>0, <3>3, <3>4, PromptFacts DEF QueueOK
    <3>6. slots'[r] = PromptLen[r] /\ phase' \in [Requests -> {"new", "waiting", "running", "gone"}]
      BY <1>0, <3>1, <3>4 DEF SlotsOK, QueueOK
    <3>7. Fresh(r)
      BY <1>0, <3>5, <3>6 DEF Fresh, FreshOK, RegistryOK, PlannedAreRunning
    <3>8. \A q \in Requests : q # r /\ phase'[q] = "running" => Still(q)
      BY <1>0, <3>1, <3>4 DEF Still, SlotsOK, QueueOK
    <3>9. QED
      BY <1>a, <3>1, <3>7, <3>8 DEF execVars
  <2>3. QED
    BY <2>1, <2>2
<1>4. CASE Schedule
  BY <1>4, MarksSchedule
<1>5. CASE Rollback
  BY <1>5, MarksRollback
<1>6. CASE Launch
  BY <1>6, MarksLaunch
<1>7. CASE LaunchRaises
  BY <1>7, <1>b DEF LaunchRaises, kvVars
<1>8. CASE Drain
  <2>1. plan = <<>> /\ inflight # <<>> /\ \E stops : Resolve(stops)
    BY <1>0, <1>8 DEF Drain, FlightOK
  <2>2. QED
    BY <2>1, MarksResolve
<1>9. CASE ShutdownDrains
  <2>1. plan = <<>> /\ inflight # <<>> /\ \E stops : Resolve(stops)
    BY <1>f, <1>9 DEF ShutdownDrains
  <2>2. QED
    BY <2>1, MarksResolve
<1>10. CASE DrainRaises \/ Drained \/ LoopCrashed \/ LoopStops \/ LoopShutsDown
  BY <1>10, <1>c DEF DrainRaises, Drained, LoopCrashed, LoopStops, LoopShutsDown
<1>11. CASE UpdateWeights \/ StopBegins \/ StopStep \/ Start
  BY <1>11, <1>c DEF UpdateWeights, StopBegins, StopStep, StopTimesOut, StopShutsDown, Start
<1>12. CASE ShutdownBegins
  BY <1>12, <1>b, <1>c, <1>g DEF ShutdownBegins, kvVars
<1>13. CASE ShutdownDrainRaises \/ ShutdownFences
  BY <1>13, <1>e, <1>g DEF ShutdownDrainRaises, ShutdownFences
<1>14. CASE ShutdownDrained
  BY <1>14, <1>c DEF ShutdownDrained
<1>15. CASE ShutdownFinishes
  BY <1>15, <1>d DEF ShutdownFinishes
<1>16. ASSUME NEW q \in Requests, Submit(q) PROVE MarksOK'
  <2> DEFINE ph == [phase EXCEPT ![q] = "waiting"]
  <2>1. /\ UNCHANGED <<order, computed, materialized, execVars>>
        /\ \E S, wait : Release(S, ph, wait)
    BY <1>16 DEF Submit
  <2>2. \A r \in Requests : ph[r] = "running" => phase[r] = "running"
    BY <1>0 DEF QueueOK
  <2> HIDE DEF ph
  <2>3. QED
    BY <2>1, <2>2, <1>d
<1>17. ASSUME NEW q \in Requests, Cancel(q) PROVE MarksOK'
  BY <1>17, <1>d DEF Cancel
<1>18. CASE UNCHANGED vars
  BY <1>18, <1>c DEF vars
<1>19. QED
  BY <1>1, <1>2, <1>3, <1>4, <1>5, <1>6, <1>7, <1>8, <1>9, <1>10, <1>11, <1>12, <1>13,
     <1>14, <1>15, <1>16, <1>17, <1>18 DEF Next, LoopStep, ClientStep, ShutdownStep

\* Between ticks every planned window has its handle.
LEMMA RegistryAtTop == Layers => RegistryMatchesInFlight
<1> SUFFICES ASSUME Layers, pc = "top"
             PROVE  /\ Len(inflight) <= 1
                    /\ \A r \in Requests :
                         Len(order[r]) =
                           Cardinality({h \in DOMAIN inflight : r \in Reqs(inflight[h].rows)})
  BY DEF RegistryMatchesInFlight
<1>0. StepsOK /\ RegistryOK /\ FlightOK
  BY DEF Layers
<1>1. plan = <<>> /\ Len(inflight) <= 1
  BY <1>0 DEF FlightOK
<1>2. Len(inflight) \in Nat /\ DOMAIN inflight = 1..Len(inflight)
  BY <1>0 DEF StepsOK
<1>3. DOMAIN inflight \subseteq {1}
  BY <1>1, <1>2
<1>4. ASSUME NEW r \in Requests
      PROVE  Len(order[r]) = Cardinality({h \in DOMAIN inflight : r \in Reqs(inflight[h].rows)})
  <2>1. Len(order[r]) = Flying(r)
    <3>1. Len(order[r]) = Known(r) /\ Planning(r) = 0
      BY <1>0, <1>1, NoRows DEF RegistryOK, NothingLost, Down, Planning
    <3>2. Flying(r) \in Nat
      BY DEF Flying
    <3>3. QED
      BY <3>1, <3>2 DEF Known
  <2>2. CASE InFlight(r)
    <3>1. Flying(r) = 1
      BY <1>3, <2>2 DEF Flying, InBoth
    <3>2. {h \in DOMAIN inflight : r \in Reqs(inflight[h].rows)} = {1}
      BY <1>3, <2>2 DEF InFlight, In
    <3>3. QED
      BY <2>1, <3>1, <3>2, FS_Singleton
  <2>3. CASE ~InFlight(r)
    <3>1. Flying(r) = 0
      BY <2>3 DEF Flying, InBoth, InFlight
    <3>2. {h \in DOMAIN inflight : r \in Reqs(inflight[h].rows)} = {}
      BY <2>3 DEF InFlight, In
    <3>3. QED
      BY <2>1, <3>1, <3>2, FS_EmptySet
  <2>4. QED
    BY <2>2, <2>3
<1>5. QED
  BY <1>1, <1>4

\* The books balance over overlap, rollback, discard, cancellation, crash and restart: no
\* slot of the pool is lost or given twice, the optimistic watermark is the end of the last
\* planned window, every planned position has its slot, and between ticks what is planned is
\* what is in flight.
THEOREM BooksAlwaysBalance == Spec => []BooksBalance
<1>1. Layers => TypeOK
  <2> SUFFICES ASSUME Layers PROVE TypeOK
    OBVIOUS
  <2>1. /\ ControlOK /\ CountersOK /\ QueueOK /\ StepsOK /\ FlightOK /\ SlotsOK
    BY DEF Layers
  <2>2. /\ pc \in {"dead", "top", "release", "admit", "decide", "schedule",
                   "rollback", "submit", "drain", "crashed", "exiting"}
        /\ then \in {"admit", "decide", "schedule", "top"}
        /\ overlap \in BOOLEAN /\ closing \in BOOLEAN /\ stopEvent \in BOOLEAN
        /\ failed \in BOOLEAN
        /\ shutdown \in [by : {"none", "loop", "stop"},
                         at : {"none", "begin", "drain", "outstanding", "finish"}]
        /\ stopper \in {"idle", "join", "shutdown", "stopped"}
    BY <2>1 DEF ControlOK, LoopPlaces, ShutdownPlaces
  <2>3. /\ starts \in 1..Larger(1, MaxStarts)
        /\ version \in 0..MaxVersion /\ faults \in 0..MaxFaults
        /\ terminal \in [Requests -> BOOLEAN] /\ eos \in [Requests -> BOOLEAN]
        /\ out \in [Requests -> Nat] /\ events \in [Requests -> Seq({"token", "end"})]
    BY <2>1 DEF CountersOK
  <2>4. /\ phase \in [Requests -> {"new", "waiting", "running", "gone"}]
        /\ waiting \in Seq(Requests) /\ running \in Seq(Requests)
        /\ scan \in [left : Nat, back : Seq(Requests)] /\ toDrain \in Nat
        /\ slots \in [Requests -> Nat] /\ freeSlots \in Nat
    BY <2>1 DEF QueueOK, FlightOK, SlotsOK
  <2>5. /\ order \in [Requests -> Seq(Nat)]
        /\ computed \in [Requests -> Nat] /\ materialized \in [Requests -> Nat]
        /\ touching \in [Requests -> Nat]
        /\ plan \in Seq(WindowType) /\ relay \in Seq(WindowType)
        /\ inflight \in Seq([phase : {"prefill", "decode"}, rows : Seq(WindowType),
                             input : Seq(Nat), version : 0..MaxVersion])
    BY <2>1 DEF StepsOK, RowsOK
  <2>6. QED
    BY <2>2, <2>3, <2>4, <2>5 DEF TypeOK
<1>2. Layers => SlotsConserved
  <2> SUFFICES ASSUME Layers PROVE SlotsConserved
    OBVIOUS
  <2>1. SlotsOK
    BY DEF Layers
  <2>2. QED
    BY <2>1, PromptFacts DEF SlotsOK, SlotsConserved
<1>3. Layers /\ MarksOK => BooksBalance
  BY <1>1, <1>2, RegistryAtTop DEF BooksBalance, MarksOK
<1>4. QED
  BY <1>3, LayersHold, MarksInit, MarksStep, HandlesAreCurrent, PTL DEF Spec

-----------------------------------------------------------------------------
(* What a decode step is fed. *)

\* The next window of a request is its planned one, or starts at its watermark.
LEMMA NextStartFacts ==
    ASSUME StepsOK, NEW r \in Requests
    PROVE  /\ r \notin Reqs(plan) => NextStart(r) = computed[r]
           /\ \A k \in DOMAIN plan : plan[k].req = r => NextStart(r) = plan[k].pos
<1>1. RowsOK(plan)
  BY DEF StepsOK
<1>2. ASSUME NEW k \in DOMAIN plan, plan[k].req = r PROVE NextStart(r) = plan[k].pos
  <2>1. r \in Reqs(plan) /\ (CHOOSE j \in DOMAIN plan : plan[j].req = r) = k
    BY <1>1, <1>2, ReqOf
  <2>2. QED
    BY <2>1 DEF NextStart
<1>3. QED
  BY <1>2 DEF NextStart

\* A decode step is planned with the whole output known, or for the batch in the relay.
LEMMA FedSchedule ==
    ASSUME Layers, MarksOK, FedOK, Schedule
    PROVE  FedOK'
<1>0. /\ QueueOK /\ CountersOK /\ StepsOK /\ RegistryOK /\ FlightOK /\ WatermarkExact
      /\ RelayRan /\ RelayIsLast /\ OutputsMatch /\ DecodeInputsCurrent
  BY DEF Layers, MarksOK, FedOK
<1>1. /\ pc = "schedule" /\ UNCHANGED <<phase, out, materialized, inflight, relay>>
      /\ \A r \in Requests : terminal[r] => terminal'[r]
  BY DEF Schedule, Finish
<1>2. plan = <<>> /\ pc \notin Down
  BY <1>0, <1>1 DEF FlightOK, Down
<1>3. /\ plan' = PlannedRows /\ RowsOK(plan')
      /\ \A r \in Requests \ Reqs(plan') : computed'[r] = computed[r]
  BY <1>0, ScheduleFacts
<1>4. \A k \in DOMAIN plan' :
        /\ plan'[k].req \in Requests /\ phase[plan'[k].req] = "running"
        /\ ~terminal[plan'[k].req]
        /\ plan'[k].pos = computed[plan'[k].req] /\ plan'[k].seen = out[plan'[k].req]
        /\ plan'[k].phase = "decode" <=> Prefilled(plan'[k].req)
  BY <1>0, <1>3, PlanFacts
<1>5. ASSUME NEW r \in Requests PROVE NextStart(r)' = NextStart(r)
  <2>1. NextStart(r) = computed[r]
    BY <1>2, NoRows DEF NextStart
  <2>2. CASE r \in Reqs(plan')
    <3>1. PICK k \in DOMAIN plan' : plan'[k].req = r
      BY <1>3, <2>2, ReqOf
    <3>2. (CHOOSE j \in DOMAIN plan' : plan'[j].req = r) = k
      BY <1>3, <3>1, ReqOf
    <3>3. plan'[k].pos = computed[r]
      BY <1>4, <3>1
    <3>4. QED
      BY <2>1, <2>2, <3>2, <3>3 DEF NextStart
  <2>3. CASE r \notin Reqs(plan')
    BY <1>3, <2>1, <2>3 DEF NextStart
  <2>4. QED
    BY <2>2, <2>3
<1>6. \A i \in DOMAIN relay : relay[i].req \in Requests
  BY <1>0, ReqOf DEF StepsOK
<1>7. RelayRan' /\ RelayIsLast'
  BY <1>0, <1>1, <1>2, <1>5, <1>6 DEF RelayRan, RelayIsLast, Last
<1>8. OutputsMatch' /\ DecodeInputsCurrent'
  BY <1>0, <1>1 DEF OutputsMatch, DecodeInputsCurrent
<1>9. PlanIsFed'
  <2> SUFFICES ASSUME pc' = "submit"
               PROVE  \/ \A k \in DOMAIN plan' : plan'[k].phase = "decode" => SeenOK(plan'[k])
                      \/ /\ Identities(plan') = Identities(relay')
                         /\ \A k \in DOMAIN plan' : /\ plan'[k].phase = "decode"
                                                    /\ plan'[k].req \notin Penalized
    BY DEF PlanIsFed
  <2>1. CASE inflight = <<>>
    <3>1. ASSUME NEW k \in DOMAIN plan', plan'[k].phase = "decode" PROVE SeenOK(plan'[k])
      <4>1. PICK r \in Requests : r = plan'[k].req
        BY <1>4
      <4>2. /\ phase[r] = "running" /\ ~terminal[r] /\ Prefilled(r)
            /\ plan'[k].pos = computed[r] /\ plan'[k].seen = out[r]
        BY <1>4, <3>1, <4>1
      <4>3. order[r] = <<>>
        <5>1. ~InFlight(r) /\ ~InBoth(r) /\ Planning(r) = 0
          BY <1>2, <2>1, NoRows DEF InFlight, InBoth, Planning
        <5>2. Len(order[r]) = 0
          BY <1>0, <1>2, <5>1 DEF RegistryOK, NothingLost, Known, Flying
        <5>3. QED
          BY <1>0, <5>2 DEF StepsOK
      <4>4. computed[r] = materialized[r]
        BY <1>0, <4>2, <4>3 DEF WatermarkExact
      <4>5. out[r] = computed[r] - PromptLen[r] + 1
        BY <1>0, <4>2, <4>4 DEF OutputsMatch, Prefilled
      <4>6. QED
        BY <4>1, <4>2, <4>5 DEF SeenOK
    <3>2. QED
      BY <3>1
  <2>2. CASE inflight # <<>>
    <3>1. overlap /\ CanOverlap
      BY <1>0, <1>1, <2>2 DEF FlightOK
    <3>2. Identities(PlannedRows) = Identities(Last(inflight).rows)
      BY <2>2, <3>1 DEF Schedule
    <3>3. Last(inflight).phase = "decode"
      BY <2>2, <3>1 DEF CanOverlap, Last
    <3>4. relay' = Last(inflight).rows
      BY <1>0, <1>1, <1>2, <2>2, <3>3 DEF RelayIsLast
    <3>5. ASSUME NEW r \in Requests, phase[r] = "running", ~terminal[r]
          PROVE  Prefilled(r) /\ r \notin Penalized
      <4>1. r \in Elements(Active)
        BY <1>0, <3>5, ActiveFacts
      <4>2. PICK i \in DOMAIN Active : Active[i] = r
        BY <4>1 DEF Elements
      <4>3. QED
        BY <3>1, <4>2 DEF CanOverlap
    <3>6. QED
      BY <1>3, <1>4, <3>2, <3>4, <3>5
  <2>3. QED
    BY <2>1, <2>2
<1>10. QED
  BY <1>7, <1>8, <1>9 DEF FedOK

\* A plan taken back leaves the next windows where they were.
LEMMA FedRollback ==
    ASSUME Layers, MarksOK, FedOK, Rollback
    PROVE  FedOK'
<1>0. /\ StepsOK /\ RegistryOK /\ PlanStarts
      /\ RelayRan /\ RelayIsLast /\ OutputsMatch /\ DecodeInputsCurrent
  BY DEF Layers, MarksOK, FedOK
<1>1. /\ plan' = <<>> /\ pc = "rollback" /\ pc' = "drain"
      /\ \A r \in Reqs(plan) : computed'[r] = RolledBack(r)
      /\ \A r \in Requests \ Reqs(plan) : computed'[r] = computed[r]
      /\ UNCHANGED <<phase, terminal, out, materialized, inflight, relay>>
  BY <1>0, RollbackFacts DEF Rollback
<1>2. ASSUME NEW r \in Requests PROVE NextStart(r)' = NextStart(r)
  <2>1. NextStart(r)' = computed'[r]
    BY <1>1, NoRows DEF NextStart
  <2>2. CASE r \in Reqs(plan)
    <3>1. PICK k \in DOMAIN plan : plan[k].req = r
      BY <1>0, <2>2, ReqOf DEF StepsOK
    <3>2. NextStart(r) = plan[k].pos /\ plan[k].pos = RolledBack(r)
      BY <1>0, <3>1, NextStartFacts DEF PlanStarts
    <3>3. QED
      BY <1>1, <2>1, <2>2, <3>2
  <2>3. CASE r \notin Reqs(plan)
    BY <1>0, <1>1, <2>1, <2>3, NextStartFacts
  <2>4. QED
    BY <2>2, <2>3
<1>3. \A i \in DOMAIN relay : relay[i].req \in Requests
  BY <1>0, ReqOf DEF StepsOK
<1>4. RelayRan' /\ RelayIsLast'
  BY <1>0, <1>1, <1>2, <1>3 DEF RelayRan, RelayIsLast, Last, Down
<1>5. OutputsMatch' /\ DecodeInputsCurrent' /\ PlanIsFed'
  BY <1>0, <1>1 DEF OutputsMatch, DecodeInputsCurrent, PlanIsFed
<1>6. QED
  BY <1>4, <1>5 DEF FedOK

\* The last of what was appended to.
LEMMA AppendLast ==
    ASSUME NEW T, NEW s \in Seq(T), NEW x
    PROVE  Append(s, x)[Len(s) + 1] = x
<1>1. s \in Seq(T \cup {x})
  OBVIOUS
<1>2. QED
  BY <1>1

\* A decode step is the whole plan; it is fed from the relay when that is for its batch, and
\* leaves its own rows there.
LEMMA FedLaunch ==
    ASSUME Layers, MarksOK, FedOK, Launch
    PROVE  FedOK'
<1>0. /\ CountersOK /\ QueueOK /\ StepsOK /\ RegistryOK /\ FlightOK /\ WatermarkExact
      /\ RelayRan /\ RelayIsLast /\ OutputsMatch /\ PlanIsFed /\ DecodeInputsCurrent
  BY DEF Layers, MarksOK, FedOK
<1>1. /\ pc = "submit" /\ pc' = "submit" /\ pc \notin Down
      /\ UNCHANGED <<phase, terminal, out, computed, materialized, order>>
  BY DEF Launch, requestVars, loopVars, Down
<1>2. PICK n \in Nat : n = Len(inflight)
  BY <1>0 DEF StepsOK
<1>3. /\ plan # <<>> /\ plan' = Rest
      /\ DOMAIN inflight' = 1..(n + 1) /\ DOMAIN inflight = 1..n /\ Len(inflight') = n + 1
      /\ \A h \in DOMAIN inflight : inflight'[h] = inflight[h]
      /\ inflight'[n + 1].rows = NextGroup /\ inflight'[n + 1].phase = NextGroup[1].phase
  BY <1>0, <1>2, LaunchFacts
<1>4. /\ RowsOK(plan) /\ RowsOK(Rest) /\ RowsOK(NextGroup) /\ 1 \in DOMAIN NextGroup
      /\ Elements(NextGroup) \subseteq Elements(plan) /\ Elements(Rest) \subseteq Elements(plan)
      /\ Reqs(Rest) = Reqs(plan) \ Reqs(NextGroup)
      /\ \A i \in DOMAIN NextGroup : NextGroup[i].phase = NextGroup[1].phase
      /\ (\A i \in DOMAIN plan : plan[i].phase = "decode") => NextGroup = plan
      /\ NextGroup = plan => Rest = <<>>
  BY <1>0, <1>3, GroupFacts, RestFacts DEF StepsOK
<1>5. PICK d \in BOOLEAN : d = (NextGroup[1].phase = "decode")
  OBVIOUS
<1>6. /\ relay' = IF d THEN NextGroup ELSE relay
      /\ inflight'[n + 1].input
           = [i \in DOMAIN NextGroup |-> IF d THEN InputOf(NextGroup, i) ELSE 0]
  <2>1. PICK handle : handle =
             [phase |-> NextGroup[1].phase, rows |-> NextGroup,
              input |-> [i \in DOMAIN NextGroup |-> IF d THEN InputOf(NextGroup, i) ELSE 0],
              version |-> version]
    OBVIOUS
  <2>2. relay' = (IF d THEN NextGroup ELSE relay) /\ inflight' = Append(inflight, handle)
    BY <1>5, <2>1 DEF Launch
  <2>3. inflight \in Seq([phase : {"prefill", "decode"}, rows : Seq(WindowType),
                         input : Seq(Nat), version : 0..MaxVersion])
    BY <1>0 DEF StepsOK
  <2>4. inflight'[n + 1] = handle
    BY <1>2, <2>2, <2>3, AppendLast
  <2>5. handle.input = [i \in DOMAIN NextGroup |-> IF d THEN InputOf(NextGroup, i) ELSE 0]
    BY <2>1
  <2>6. QED
    BY <2>2, <2>4, <2>5
<1>7. d => NextGroup = plan /\ Rest = <<>>
  <2>1. ASSUME NEW i \in DOMAIN plan, plan[i].phase # "decode", d PROVE FALSE
    <3> DEFINE P == Keep(plan, {w \in Elements(plan) : w.phase = "prefill"})
               G == Keep(P, {w \in Elements(P) : w.pos = P[1].pos})
    <3>1. WindowOK(plan[i]) /\ plan[i] \in Elements(plan)
      BY <1>4, <2>1 DEF RowsOK, Elements
    <3>2. plan[i].phase = "prefill"
      BY <2>1, <3>1 DEF WindowOK, WindowType
    <3>3. Elements(P) = Elements(plan) \cap {w \in Elements(plan) : w.phase = "prefill"}
          /\ RowsOK(P)
      BY <1>4, KeepRows
    <3>4. Elements(P) # {} /\ NextGroup = IF P = <<>> THEN plan ELSE G
      BY <3>1, <3>2, <3>3 DEF NextGroup
    <3>5. P # <<>>
      BY <3>4, NoRows
    <3>6. NextGroup = G
      BY <3>4, <3>5
    <3> HIDE DEF P
    <3>7. Elements(G) \subseteq Elements(P)
      BY <3>3, KeepRows
    <3>8. NextGroup[1] \in Elements(P)
      BY <1>4, <3>6, <3>7 DEF Elements
    <3>9. NextGroup[1].phase = "prefill"
      BY <3>3, <3>8
    <3>10. QED
      BY <1>5, <2>1, <3>9
  <2>2. QED
    BY <1>4, <2>1
<1>8. \A w \in Elements(plan) : \E k \in DOMAIN plan : plan[k] = w
  BY DEF Elements
\* The requests of the plan run.
<1>9. ASSUME NEW k \in DOMAIN plan, NEW r \in Requests, r = plan[k].req
      PROVE  /\ r \in Reqs(plan) /\ phase[r] = "running" /\ NextStart(r) = plan[k].pos
             /\ computed[r] = plan[k].end
  <2>1. r \in Reqs(plan) /\ order[r] # <<>> /\ phase[r] = "running"
    BY <1>0, <1>1, <1>4, <1>9, ReqOf, PlannedOrder DEF RegistryOK, PlannedAreRunning
  <2>2. computed[r] = Last(order[r]) /\ plan[k].end = Last(order[r])
    BY <1>0, <1>9, <2>1 DEF WatermarkExact, RegistryOK, PlanIsLast
  <2>3. QED
    BY <1>0, <1>9, <2>1, <2>2, NextStartFacts
<1>10. RelayRan'
  <2>1. CASE d
    <3>1. \A i \in DOMAIN plan : plan[i].req \in Requests
      BY <1>4, ReqOf
    <3>2. QED
      BY <1>1, <1>6, <1>7, <1>9, <2>1, <3>1 DEF RelayRan
  <2>2. CASE ~d
    BY <1>0, <1>1, <1>6, <2>2 DEF RelayRan
  <2>3. QED
    BY <2>1, <2>2
<1>11. RelayIsLast'
  <2>1. CASE d
    <3>1. relay' = plan /\ plan' = <<>> /\ Last(inflight').rows = plan
      BY <1>3, <1>6, <1>7, <2>1 DEF Last
    <3>2. ASSUME NEW i \in DOMAIN plan, NEW r \in Requests, r = plan[i].req
          PROVE  NextStart(r)' = plan[i].end
      <4>1. NextStart(r)' = computed[r]
        BY <1>1, <3>1, NoRows DEF NextStart
      <4>2. QED
        BY <1>9, <3>2, <4>1
    <3>3. QED
      BY <3>1, <3>2 DEF RelayIsLast
  <2>2. CASE ~d
    <3>1. ASSUME NEW i \in DOMAIN relay, NEW r \in Requests, r = relay[i].req,
                 phase[r] = "running"
          PROVE  NextStart(r)' = relay[i].end
      <4>1. NextStart(r) = relay[i].end
        BY <1>0, <1>1, <3>1 DEF RelayIsLast
      <4>2. /\ relay[i].end > PromptLen[r]
            /\ relay[i].end \in Nat /\ PromptLen[r] \in Nat
        <5>1. WindowOK(relay[i]) /\ relay[i].phase = "decode" /\ relay[i] \in WindowType
          BY <1>0, <3>1 DEF StepsOK, RowsOK, WindowOK
        <5>2. relay[i].pos \in Nat /\ PromptLen[r] <= relay[i].pos
              /\ relay[i].end = relay[i].pos + 1 /\ PromptLen[r] \in Nat
          BY <3>1, <5>1, PromptFacts DEF WindowOK, WindowType
        <5>3. QED
          BY <5>2
      <4>3. r \notin Reqs(NextGroup)
        <5> SUFFICES ASSUME r \in Reqs(NextGroup) PROVE FALSE
          OBVIOUS
        <5>1. PICK j \in DOMAIN NextGroup : NextGroup[j].req = r
          BY <1>4, ReqOf
        <5>2. /\ NextGroup[j].phase = "prefill" /\ NextGroup[j] \in Elements(plan)
              /\ WindowOK(NextGroup[j]) /\ NextGroup[j] \in WindowType
          <6>1. /\ NextGroup[j].phase # "decode" /\ NextGroup[j] \in Elements(plan)
                /\ WindowOK(NextGroup[j])
            BY <1>4, <1>5, <2>2, <5>1 DEF RowsOK, Elements
          <6>2. QED
            BY <6>1 DEF WindowOK, WindowType
        <5>3. PICK k \in DOMAIN plan : plan[k] = NextGroup[j]
          BY <1>8, <5>2
        <5>4. plan[k].pos < plan[k].end /\ plan[k].end <= PromptLen[r]
              /\ plan[k].pos \in Nat /\ plan[k].end \in Nat
          BY <5>1, <5>2, <5>3 DEF WindowOK, WindowType
        <5>5. NextStart(r) = plan[k].pos
          BY <1>9, <5>1, <5>3
        <5>6. QED
          BY <4>1, <4>2, <5>4, <5>5
      <4>4. CASE r \in Reqs(plan)
        <5>1. r \in Reqs(Rest)
          BY <1>4, <4>3, <4>4
        <5>2. PICK j \in DOMAIN Rest : Rest[j].req = r
          BY <1>4, <5>1, ReqOf
        <5>3. (CHOOSE m \in DOMAIN Rest : Rest[m].req = r) = j
          BY <1>4, <5>2, ReqOf
        <5>4. NextStart(r)' = Rest[j].pos
          BY <1>3, <5>1, <5>3 DEF NextStart
        <5>5. Rest[j] \in Elements(plan)
          BY <1>4, <5>2 DEF Elements
        <5>6. PICK k \in DOMAIN plan : plan[k] = Rest[j]
          BY <1>8, <5>5
        <5>7. NextStart(r) = plan[k].pos
          BY <1>9, <5>2, <5>6
        <5>8. QED
          BY <4>1, <5>4, <5>6, <5>7
      <4>5. CASE r \notin Reqs(plan)
        <5>1. r \notin Reqs(plan') /\ computed'[r] = computed[r]
          BY <1>1, <1>3, <1>4, <4>5
        <5>2. NextStart(r) = computed[r]
          BY <1>0, <4>5, NextStartFacts
        <5>3. QED
          BY <4>1, <5>1, <5>2 DEF NextStart
      <4>6. QED
        BY <4>4, <4>5
    <3>2. relay' = relay /\ phase' = phase
      BY <1>1, <1>6, <2>2
    <3>3. Last(inflight').phase # "decode"
      BY <1>3, <1>5, <2>2 DEF Last
    <3>4. QED
      BY <3>1, <3>2, <3>3 DEF RelayIsLast
  <2>3. QED
    BY <2>1, <2>2
<1>12. OutputsMatch'
  BY <1>0, <1>1 DEF OutputsMatch
<1>13. PlanIsFed'
  <2>1. CASE \A k \in DOMAIN plan : plan[k].phase = "decode"
    <3>1. plan' = <<>>
      BY <1>3, <1>4, <2>1
    <3>2. QED
      BY <3>1 DEF PlanIsFed
  <2>2. CASE \A k \in DOMAIN plan : plan[k].phase = "decode" => SeenOK(plan[k])
    <3>1. \A k \in DOMAIN Rest : \E j \in DOMAIN plan : plan[j] = Rest[k]
      BY <1>4, <1>8 DEF Elements
    <3>2. QED
      BY <1>3, <2>2, <3>1 DEF PlanIsFed
  <2>3. QED
    BY <1>0, <1>1, <2>1, <2>2 DEF PlanIsFed
<1>14. DecodeInputsCurrent'
  <2> DEFINE Fed(w, x) == LET index == w.pos - PromptLen[w.req] + 1
                          IN  x = index /\ (w.req \in Penalized => w.seen = index)
  <2>1. ASSUME NEW h \in DOMAIN inflight', inflight'[h].phase = "decode",
               NEW i \in DOMAIN inflight'[h].rows
        PROVE  Fed(inflight'[h].rows[i], inflight'[h].input[i])
    <3>1. CASE h \in DOMAIN inflight
      <4>1. inflight'[h] = inflight[h]
        BY <1>3, <3>1
      <4>2. QED
        BY <1>0, <2>1, <3>1, <4>1 DEF DecodeInputsCurrent
    <3>2. CASE h = n + 1
      <4>1. d /\ inflight'[h].rows = plan /\ i \in DOMAIN plan
            /\ inflight'[h].input[i] = InputOf(plan, i)
        BY <1>3, <1>5, <1>6, <1>7, <2>1, <3>2
      <4>2. PICK r \in Requests : r = plan[i].req
        BY <1>4, <4>1, ReqOf
      <4>3. PICK w : w = plan[i]
        OBVIOUS
      <4>4. phase[r] = "running" /\ NextStart(r) = w.pos /\ w.req = r
        BY <1>9, <4>1, <4>2, <4>3
      <4>5. plan[i].phase = "decode"
        BY <1>4, <1>5, <1>7, <4>1
      <4>6. SeenOK(w) \/ (Identities(plan) = Identities(relay) /\ r \notin Penalized)
        BY <1>0, <1>1, <4>1, <4>2, <4>3, <4>5 DEF PlanIsFed
      <4>7. CASE Identities(relay) = Identities(plan)
        <5>1. i \in DOMAIN relay /\ relay[i].req = r
          <6>1. DOMAIN Identities(relay) = DOMAIN relay /\ DOMAIN Identities(plan) = DOMAIN plan
            BY DEF Identities
          <6>2. i \in DOMAIN relay
            BY <4>1, <4>7, <6>1
          <6>3. Identities(relay)[i] = relay[i].req /\ Identities(plan)[i] = plan[i].req
            BY <4>1, <6>2 DEF Identities
          <6>4. QED
            BY <4>2, <4>7, <6>2, <6>3
        <5>2. relay[i].end = w.pos
          BY <1>0, <1>1, <4>4, <5>1 DEF RelayIsLast
        <5>3. InputOf(plan, i) = w.pos - PromptLen[r] + 1
          BY <4>7, <5>1, <5>2 DEF InputOf
        <5>4. QED
          BY <4>1, <4>3, <4>4, <4>6, <5>3 DEF SeenOK
      <4>8. CASE Identities(relay) # Identities(plan)
        <5>1. InputOf(plan, i) = w.seen /\ SeenOK(w)
          BY <4>3, <4>6, <4>8 DEF InputOf
        <5>2. QED
          BY <4>1, <4>3, <4>4, <5>1 DEF SeenOK
      <4>9. QED
        BY <4>7, <4>8
    <3>3. QED
      BY <1>3, <3>1, <3>2
  <2>2. QED
    BY <2>1 DEF DecodeInputsCurrent
<1>15. QED
  BY <1>10, <1>11, <1>12, <1>13, <1>14 DEF FedOK

\* Committing a handle gives its live requests the output for their window.
LEMMA FedResolve ==
    ASSUME Layers, MarksOK, NoStaleExecution, FedOK, inflight # <<>>, plan = <<>>,
           NEW stops, Resolve(stops), (pc' \notin Down => pc \notin Down)
    PROVE  FedOK'
<1>0. /\ StepsOK /\ RegistryOK /\ CountersOK /\ WatermarkExact /\ StartsMatch
      /\ RelayRan /\ RelayIsLast /\ OutputsMatch /\ DecodeInputsCurrent
  BY DEF Layers, MarksOK, FedOK
<1>1. PICK n \in Nat : n = Len(inflight)
  BY <1>0 DEF StepsOK
<1>2. /\ n >= 1 /\ DOMAIN inflight = 1..n /\ DOMAIN inflight' = 1..(n - 1)
      /\ inflight' = Tail(inflight) /\ Len(inflight') = n - 1
      /\ \A h \in DOMAIN inflight' :
           h + 1 \in DOMAIN inflight /\ h \in Nat /\ inflight'[h] = inflight[h + 1]
      /\ \A r \in Requests : ~In(r, 1) => materialized'[r] = materialized[r]
      /\ \A i \in DOMAIN inflight[1].rows :
           LET w == inflight[1].rows[i]
           IN  materialized'[w.req] =
                 IF inflight[1].version = version
                 THEN Larger(materialized[w.req], w.end)
                 ELSE materialized[w.req]
      /\ UNCHANGED <<phase, computed, plan>>
  BY <1>0, <1>1, ResolveFacts
<1>3. UNCHANGED relay /\ \A r \in Requests : ~terminal'[r] => ~terminal[r]
  BY DEF Resolve
<1>4. Head(inflight) = inflight[1]
  BY <1>0 DEF StepsOK
<1>5. /\ 1 \in DOMAIN inflight /\ RowsOK(inflight[1].rows)
      /\ inflight[1].version = version
  <2>1. 1 \in DOMAIN inflight
    BY <1>2
  <2>2. QED
    BY <1>0, <2>1 DEF StepsOK, HandleOK, NoStaleExecution
<1>6. ASSUME NEW r \in Requests, phase'[r] = "running", ~terminal'[r]
      PROVE  out'[r] = IF materialized'[r] >= PromptLen[r]
                       THEN materialized'[r] - PromptLen[r] + 1 ELSE 0
  <2>1. /\ phase[r] = "running" /\ ~terminal[r] /\ PromptLen[r] \in Nat /\ PromptLen[r] >= 1
        /\ out[r] = IF materialized[r] >= PromptLen[r]
                    THEN materialized[r] - PromptLen[r] + 1 ELSE 0
        /\ materialized[r] \in Nat
    BY <1>0, <1>2, <1>3, <1>6, PromptFacts DEF OutputsMatch, StepsOK
  <2>2. CASE ~In(r, 1)
    <3>1. r \notin Reqs(Head(inflight).rows)
      BY <1>4, <2>2 DEF In
    <3>2. out'[r] = out[r]
      BY <3>1 DEF Resolve
    <3>3. materialized'[r] = materialized[r]
      BY <1>2, <2>2
    <3>4. QED
      BY <2>1, <3>2, <3>3
  <2>3. CASE In(r, 1)
    <3>1. PICK i \in DOMAIN inflight[1].rows : inflight[1].rows[i].req = r
      BY <1>5, <2>3, ReqOf DEF In
    <3>2. PICK w \in WindowType : w = inflight[1].rows[i]
      BY <1>5, <3>1 DEF RowsOK, WindowOK
    <3>3. WindowOK(w) /\ w.req = r /\ w.pos \in Nat /\ w.end \in Nat
      BY <1>5, <3>1, <3>2 DEF RowsOK, WindowType
    <3>4. w.pos = materialized[r]
      BY <1>0, <1>5, <3>1, <3>2, <3>3 DEF StartsMatch, StartOK
    <3>5. w.pos < w.end
      BY <3>3 DEF WindowOK, WindowType
    <3>6. materialized'[r] = w.end
      <4>1. materialized'[r] = Larger(materialized[r], w.end)
        BY <1>2, <1>5, <3>1, <3>2
      <4>2. QED
        BY <2>1, <3>3, <3>4, <3>5, <4>1 DEF Larger
    <3>7. out'[r] = IF w.end >= PromptLen[r] THEN out[r] + 1 ELSE out[r]
      <4>1. (CHOOSE j \in DOMAIN Head(inflight).rows : Head(inflight).rows[j].req = r) = i
        BY <1>4, <1>5, <3>1, ReqOf
      <4>2. Head(inflight).rows[i].end = w.end /\ Head(inflight).version = version
        BY <1>4, <1>5, <3>2
      <4>3. r \in Reqs(Head(inflight).rows)
        BY <1>4, <2>3 DEF In
      <4>4. QED
        BY <2>1, <4>1, <4>2, <4>3 DEF Resolve
    <3>8. CASE w.phase = "decode"
      BY <2>1, <3>3, <3>4, <3>6, <3>7, <3>8 DEF WindowOK
    <3>9. CASE w.phase = "prefill"
      BY <2>1, <3>3, <3>4, <3>5, <3>6, <3>7, <3>9 DEF WindowOK
    <3>10. QED
      BY <3>2, <3>8, <3>9 DEF WindowType
  <2>4. QED
    BY <2>2, <2>3
<1>7. OutputsMatch'
  BY <1>6 DEF OutputsMatch
<1>8. RelayRan' /\ PlanIsFed'
  BY <1>0, <1>2, <1>3 DEF RelayRan, PlanIsFed
<1>9. RelayIsLast'
  <2>1. \A r \in Requests : NextStart(r)' = NextStart(r)
    BY <1>2 DEF NextStart
  <2>2. inflight' # <<>> => Last(inflight') = Last(inflight) /\ inflight # <<>>
    <3> SUFFICES ASSUME inflight' # <<>> PROVE Last(inflight') = Last(inflight)
      BY <1>0
    <3>1. n - 1 \in DOMAIN inflight'
      <4>1. Len(inflight') # 0
        <5>1. inflight' \in Seq([phase : {"prefill", "decode"}, rows : Seq(WindowType),
                                 input : Seq(Nat), version : 0..MaxVersion])
          BY <1>0, <1>2 DEF StepsOK
        <5>2. QED
          BY <5>1
      <4>2. QED
        BY <1>1, <1>2, <4>1
    <3>2. inflight'[n - 1] = inflight[(n - 1) + 1] /\ (n - 1) + 1 = n
      BY <1>2, <3>1
    <3>3. QED
      BY <1>1, <1>2, <3>2 DEF Last
  <2>3. (\A r \in Requests : \A i \in DOMAIN relay' :
           pc' \notin Down /\ phase'[r] = "running" /\ relay'[i].req = r
           => NextStart(r)' = relay'[i].end)
    BY <1>0, <1>2, <1>3, <2>1 DEF RelayIsLast
  <2>4. pc' \notin Down /\ inflight' # <<>> /\ Last(inflight').phase = "decode"
        => relay' = Last(inflight').rows
    BY <1>0, <1>3, <2>2 DEF RelayIsLast
  <2>5. QED
    BY <2>3, <2>4 DEF RelayIsLast, Last
<1>10. DecodeInputsCurrent'
  BY <1>0, <1>2 DEF DecodeInputsCurrent
<1>11. QED
  BY <1>7, <1>8, <1>9, <1>10 DEF FedOK

\* At the start nothing is relayed.
LEMMA FedInit == Init => FedOK
BY DEF Init, FedOK, RelayRan, RelayIsLast, OutputsMatch, PlanIsFed, DecodeInputsCurrent

\* What is in flight and planned, and the relay, stay in step through every action.
LEMMA FedStep == Layers /\ MarksOK /\ NoStaleExecution /\ FedOK /\ [Next]_vars => FedOK'
<1> SUFFICES ASSUME Layers, MarksOK, NoStaleExecution, FedOK, [Next]_vars PROVE FedOK'
  OBVIOUS
<1>0. /\ ControlOK /\ QueueOK /\ CountersOK /\ StepsOK /\ RegistryOK /\ FlightOK /\ FreshOK
      /\ RelayRan /\ RelayIsLast /\ OutputsMatch /\ PlanIsFed /\ DecodeInputsCurrent
  BY DEF Layers, FedOK
<1> DEFINE Ran(r) == phase[r] \in {"running", "gone"}
           Kept(r) == /\ Ran(r) => phase'[r] \in {"running", "gone"}
                      /\ phase'[r] = "running" => phase[r] \in {"waiting", "running"}
                      /\ terminal[r] => terminal'[r]
           Quiet == /\ pc' \notin Down => pc \notin Down
                    /\ pc' = "submit" => pc = "submit"
<1>a. ASSUME UNCHANGED <<out, computed, materialized, execVars>>, Quiet,
             \A r \in Requests : Kept(r)
      PROVE  FedOK'
  <2>1. UNCHANGED <<out, computed, materialized, plan, relay, inflight>>
    BY <1>a DEF execVars
  <2>2. \A i \in DOMAIN relay : relay[i].req \in Requests
    BY <1>0, ReqOf DEF StepsOK
  <2>3. RelayRan'
    BY <1>0, <1>a, <2>1, <2>2 DEF RelayRan
  <2>4. RelayIsLast'
    <3>1. \A r \in Requests : NextStart(r)' = NextStart(r)
      BY <2>1 DEF NextStart
    <3>2. ASSUME NEW r \in Requests, NEW i \in DOMAIN relay, phase'[r] = "running",
                 relay[i].req = r
          PROVE  phase[r] = "running"
      BY <1>0, <1>a, <3>2 DEF RelayRan
    <3>3. QED
      BY <1>0, <1>a, <2>1, <3>1, <3>2 DEF RelayIsLast, Last
  <2>5. OutputsMatch'
    <3> SUFFICES ASSUME NEW r \in Requests, phase'[r] = "running", ~terminal'[r]
                 PROVE  out'[r] = IF materialized'[r] >= PromptLen[r]
                                  THEN materialized'[r] - PromptLen[r] + 1 ELSE 0
      BY DEF OutputsMatch
    <3>1. ~terminal[r] /\ phase[r] \in {"waiting", "running"}
      BY <1>a
    <3>2. CASE phase[r] = "running"
      BY <1>0, <2>1, <3>1, <3>2 DEF OutputsMatch
    <3>3. CASE phase[r] = "waiting"
      BY <1>0, <2>1, <3>3, PromptFacts DEF FreshOK
    <3>4. QED
      BY <3>1, <3>2, <3>3
  <2>6. PlanIsFed' /\ DecodeInputsCurrent'
    BY <1>0, <1>a, <2>1 DEF PlanIsFed, DecodeInputsCurrent
  <2>7. QED
    BY <2>3, <2>4, <2>5, <2>6 DEF FedOK
<1>b. UNCHANGED <<phase, terminal>> => \A r \in Requests : Kept(r)
  OBVIOUS
<1>c. \A S : Finish(S) /\ UNCHANGED phase => \A r \in Requests : Kept(r)
  BY DEF Finish
<1>d. \A S, wait :
        /\ \A r \in S : r \in Requests => phase[r] \in {"waiting", "running"}
        /\ Release(S, phase, wait) /\ \A r \in Requests : terminal[r] => terminal'[r]
        => \A r \in Requests : Kept(r)
  BY DEF Release
<1>e. \A term, ord : \A r \in Releasable({q \in Requests : Registered(q)}, term, ord) :
        phase[r] \in {"waiting", "running"}
  BY DEF Releasable, Registered
<1>f. \A S : Finish(S) => \A r \in Requests : terminal[r] => terminal'[r]
  BY DEF Finish
<1> HIDE DEF Kept
<1>g. shutdown.at # "none" => pc \in Down /\ plan = <<>>
  BY <1>0 DEF ControlOK, ShutdownPlaces, Down, FlightOK
<1>h. ASSUME FenceAndDiscard, pc \in Down PROVE FedOK'
  <2>1. /\ inflight' = <<>> /\ plan' = <<>> /\ pc' \in Down
        /\ UNCHANGED <<phase, terminal, out, materialized, relay>>
    BY <1>h DEF FenceAndDiscard, loopVars
  <2>2. QED
    BY <1>0, <2>1 DEF FedOK, RelayRan, RelayIsLast, OutputsMatch, PlanIsFed,
                      DecodeInputsCurrent
<1>i. Quarantine /\ pc \in Down => FedOK'
  <2> SUFFICES ASSUME Quarantine, pc \in Down PROVE FedOK'
    OBVIOUS
  <2>1. pc' \in Down
    BY DEF Quarantine, EndShutdown, Down
  <2>2. Quiet
    BY <2>1 DEF Down
  <2>3. QED
    BY <2>2, <1>a, <1>c DEF Quarantine
<1>j. pc' = pc => Quiet
  OBVIOUS
<1> HIDE DEF Quiet
<1>1. CASE BeginTick \/ EndAdmission \/ Decide \/ Launched
  <2>1. Quiet
    BY <1>1 DEF BeginTick, EndAdmission, Decide, Launched, Quiet, Down
  <2>2. QED
    BY <1>1, <2>1, <1>a, <1>b DEF BeginTick, EndAdmission, Decide, Launched, requestVars
<1>2. CASE ReleaseFinished
  <2>1. Quiet
    BY <1>0, <1>2 DEF ReleaseFinished, Quiet, Down, ControlOK
  <2>2. QED
    BY <1>2, <2>1, <1>a, <1>d, <1>e DEF ReleaseFinished
<1>3. CASE AdmitNext
  <2>1. /\ UNCHANGED <<out, computed, materialized, execVars, pc>>
        /\ \A r \in Requests : terminal[r] => terminal'[r]
        /\ \/ phase' = phase
           \/ phase' = [phase EXCEPT ![Head(waiting)] = "running"] /\ waiting # <<>>
    BY <1>0, <1>3, <1>f DEF AdmitNext, QueueOK
  <2>2. waiting # <<>> => Head(waiting) \in Requests /\ phase[Head(waiting)] = "waiting"
    BY <1>0, TailFacts DEF QueueOK
  <2>3. \A r \in Requests : Kept(r)
    BY <1>0, <2>1, <2>2 DEF Kept, QueueOK
  <2>4. QED
    BY <2>1, <2>3, <1>a, <1>j
<1>4. CASE Schedule
  BY <1>4, FedSchedule
<1>5. CASE Rollback
  BY <1>5, FedRollback
<1>6. CASE Launch
  BY <1>6, FedLaunch
<1>7. CASE LaunchRaises
  <2>1. /\ pc' = "crashed" /\ plan' = <<>> /\ relay' \in {relay, <<>>}
        /\ UNCHANGED <<phase, terminal, out, materialized, inflight>>
    BY <1>7 DEF LaunchRaises, requestVars
  <2>2. QED
    BY <1>0, <2>1 DEF FedOK, RelayRan, RelayIsLast, OutputsMatch, PlanIsFed,
                      DecodeInputsCurrent, Down
<1>8. CASE Drain
  <2>1. plan = <<>> /\ inflight # <<>> /\ pc' = pc /\ \E stops : Resolve(stops)
    BY <1>0, <1>8 DEF Drain, FlightOK
  <2>2. QED
    BY <2>1, FedResolve
<1>9. CASE ShutdownDrains
  <2>1. plan = <<>> /\ inflight # <<>> /\ pc' = pc /\ \E stops : Resolve(stops)
    BY <1>g, <1>9 DEF ShutdownDrains, loopVars
  <2>2. QED
    BY <2>1, FedResolve
<1>10. CASE DrainRaises \/ Drained \/ LoopCrashed \/ LoopStops
  <2>1. Quiet
    BY <1>10 DEF DrainRaises, Drained, LoopCrashed, LoopStops, Quiet, Down
  <2>2. QED
    BY <1>10, <2>1, <1>a, <1>b DEF DrainRaises, Drained, LoopCrashed, LoopStops, requestVars
<1>11. CASE LoopShutsDown \/ UpdateWeights \/ StopBegins \/ StopStep
  BY <1>11, <1>a, <1>b, <1>j DEF LoopShutsDown, UpdateWeights, StopBegins, StopStep,
                                 StopTimesOut, StopShutsDown, loopVars, requestVars
<1>12. CASE Start
  <2>1. /\ pc = "dead" /\ ~failed /\ shutdown.at = "none" /\ pc' = "top"
        /\ UNCHANGED <<phase, terminal, out, computed, materialized, execVars>>
    BY <1>12 DEF Start, LockFree, NotRunning, requestVars
  <2>2. inflight = <<>> /\ \A r \in Requests : phase[r] # "running"
    BY <1>0, <2>1 DEF FlightOK, Registered
  <2>3. UNCHANGED <<plan, relay, inflight>>
    BY <2>1 DEF execVars
  <2>4. QED
    BY <1>0, <2>1, <2>2, <2>3 DEF FedOK, RelayRan, RelayIsLast, OutputsMatch, PlanIsFed,
                                  DecodeInputsCurrent
<1>13. CASE ShutdownBegins
  <2>1. CASE Quarantine
    BY <1>13, <2>1, <1>g, <1>i DEF ShutdownBegins
  <2>2. CASE UNCHANGED <<requestVars, plan, inflight, relay, pc>>
    <3>1. UNCHANGED <<phase, terminal, out, computed, materialized, plan, inflight, relay, pc>>
      BY <2>2 DEF requestVars
    <3>2. \A r \in Requests : NextStart(r)' = NextStart(r)
      BY <3>1 DEF NextStart
    <3>3. RelayIsLast'
      BY <1>0, <3>1, <3>2 DEF RelayIsLast, Last
    <3>4. QED
      BY <1>0, <3>1, <3>3 DEF FedOK, RelayRan, OutputsMatch, PlanIsFed, DecodeInputsCurrent
  <2>3. QED
    BY <1>13, <2>1, <2>2 DEF ShutdownBegins, execVars, loopVars
<1>14. CASE ShutdownDrainRaises \/ ShutdownFences
  BY <1>14, <1>g, <1>h, <1>i DEF ShutdownDrainRaises, ShutdownFences
<1>15. CASE ShutdownDrained
  BY <1>15, <1>a, <1>b, <1>j DEF ShutdownDrained, loopVars, requestVars
<1>16. CASE ShutdownFinishes
  <2>1. pc' \in Down
    BY <1>16, <1>g DEF ShutdownFinishes, EndShutdown, Down
  <2>2. Quiet
    BY <2>1 DEF Quiet, Down
  <2>3. QED
    BY <1>16, <2>2, <1>a, <1>d, <1>e, <1>f DEF ShutdownFinishes
<1>17. ASSUME NEW q \in Requests, Submit(q) PROVE FedOK'
  <2> DEFINE ph == [phase EXCEPT ![q] = "waiting"]
             reg == {s \in Requests : Registered(s)} \cup {q}
  <2>1. /\ UNCHANGED <<out, computed, materialized, execVars, pc>>
        /\ phase[q] = "new" /\ \A r \in Requests : terminal[r] => terminal'[r]
        /\ \E wait : Release(Releasable(reg, terminal', order), ph, wait)
    BY <1>17, <1>f DEF Submit, loopVars
  <2>2. \A r \in Releasable(reg, terminal', order) : r = q \/ phase[r] \in {"waiting", "running"}
    BY DEF Releasable, Registered
  <2>3. \A r \in Requests : ph[r] = IF r = q THEN "waiting" ELSE phase[r]
    BY <1>0 DEF QueueOK
  <2> HIDE DEF ph, reg
  <2>4. \A r \in Requests : Kept(r)
    BY <1>0, <2>1, <2>2, <2>3 DEF Kept, Release, QueueOK
  <2>5. QED
    BY <2>1, <2>4, <1>a, <1>j
<1>18. ASSUME NEW q \in Requests, Cancel(q) PROVE FedOK'
  BY <1>18, <1>a, <1>d, <1>e, <1>f, <1>j DEF Cancel, loopVars
<1>19. CASE UNCHANGED vars
  BY <1>19, <1>a, <1>b, <1>j DEF vars, loopVars, requestVars
<1>20. QED
  BY <1>1, <1>2, <1>3, <1>4, <1>5, <1>6, <1>7, <1>8, <1>9, <1>10, <1>11, <1>12, <1>13,
     <1>14, <1>15, <1>16, <1>17, <1>18, <1>19 DEF Next, LoopStep, ClientStep, ShutdownStep

\* Every decode step is fed the last token of its own sequence, whether the host knew it when
\* the step was planned or the device relay holds it, across overlap, rollback, preempting
\* cancellations and crashes; a frequency penalty sees the whole output.
THEOREM DecodeIsFedItsOwnTokens == Spec => []DecodeInputsCurrent
<1>1. Init => MarksOK /\ FedOK /\ NoStaleExecution
  BY MarksInit, FedInit DEF Init, NoStaleExecution
<1>2. FedOK => DecodeInputsCurrent
  BY DEF FedOK
<1>3. QED
  BY <1>1, <1>2, LayersHold, StaleStep, MarksStep, FedStep, PTL DEF Spec

-----------------------------------------------------------------------------
(* The order of arrival. *)

\* Leaving elements out keeps the order of the others.
LEMMA ThinnedInOrder ==
    ASSUME NEW s, NEW t, NEW u, InOrder(s, t),
           \A a, b \in DOMAIN u : a < b =>
             \E c, d \in DOMAIN s : c < d /\ u[a] = s[c] /\ u[b] = s[d]
    PROVE  InOrder(u, t)
<1> SUFFICES ASSUME NEW a \in DOMAIN u, NEW b \in DOMAIN u, NEW i \in DOMAIN t,
                    NEW j \in DOMAIN t, a < b, u[a] = t[i], u[b] = t[j]
             PROVE  i < j
  BY DEF InOrder
<1>1. PICK c, d \in DOMAIN s : c < d /\ u[a] = s[c] /\ u[b] = s[d]
  OBVIOUS
<1>2. QED
  BY <1>1 DEF InOrder

\* A newcomer goes to the end of both.
LEMMA AppendInOrder ==
    ASSUME NEW T, NEW s \in Seq(T), NEW t \in Seq(T), NEW x \in T, InOrder(s, t),
           x \notin Elements(t), Elements(s) \subseteq Elements(t)
    PROVE  InOrder(Append(s, x), Append(t, x))
<1> SUFFICES ASSUME NEW a \in DOMAIN Append(s, x), NEW b \in DOMAIN Append(s, x),
                    NEW i \in DOMAIN Append(t, x), NEW j \in DOMAIN Append(t, x),
                    a < b, Append(s, x)[a] = Append(t, x)[i], Append(s, x)[b] = Append(t, x)[j]
             PROVE  i < j
  BY DEF InOrder
<1>1. /\ Len(s) \in Nat /\ Len(t) \in Nat /\ DOMAIN s = 1..Len(s) /\ DOMAIN t = 1..Len(t)
      /\ DOMAIN Append(s, x) = 1..(Len(s) + 1) /\ DOMAIN Append(t, x) = 1..(Len(t) + 1)
      /\ \A k \in 1..Len(s) : Append(s, x)[k] = s[k]
      /\ \A k \in 1..Len(t) : Append(t, x)[k] = t[k]
      /\ Append(s, x)[Len(s) + 1] = x /\ Append(t, x)[Len(t) + 1] = x
  BY AppendFacts
<1>2. a \in DOMAIN s /\ Append(s, x)[a] = s[a] /\ s[a] \in Elements(t) /\ s[a] # x
  <2>1. a \in DOMAIN s /\ Append(s, x)[a] = s[a]
    BY <1>1
  <2>2. QED
    BY <2>1 DEF Elements
<1>3. i \in DOMAIN t /\ s[a] = t[i]
  <2>1. i # Len(t) + 1
    BY <1>1, <1>2
  <2>2. i \in 1..Len(t)
    BY <1>1, <2>1
  <2>3. QED
    BY <1>1, <1>2, <2>2
<1>4. CASE j = Len(t) + 1
  BY <1>1, <1>3, <1>4
<1>5. CASE j \in DOMAIN t
  <2>1. Append(s, x)[b] = t[j] /\ t[j] # x
    BY <1>1, <1>5 DEF Elements
  <2>2. b \in DOMAIN s /\ s[b] = t[j]
    BY <1>1, <2>1
  <2>3. QED
    BY <1>2, <1>3, <1>5, <2>2 DEF InOrder
<1>6. QED
  BY <1>1, <1>4, <1>5

\* Releasing takes requests out of the queue and out of the registry.
LEMMA OrderRelease ==
    ASSUME NEW S, NEW ph, NEW wait \in Seq(Requests), Release(S, ph, wait),
           scan'.back = <<>>, arrived' \in Seq(Requests), IsInjective(arrived'),
           InOrder(wait, arrived'),
           \A r \in Requests : r \in Elements(arrived') <=> ph[r] # "new",
           \A r \in Requests : ph[r] = "waiting" /\ ~terminal'[r] => r \in Elements(wait),
           \A r \in S : ph[r] # "new"
    PROVE  OrderOK'
<1>1. /\ waiting' = Without(wait, S) /\ waiting' \in Seq(Requests)
      /\ Elements(waiting') = Elements(wait) \ S
      /\ \A r \in Requests : phase'[r] = IF r \in S THEN "gone" ELSE ph[r]
  BY WithoutFacts DEF Release
<1>2. PutBack' = waiting'
  <2>1. <<>> \o waiting' = waiting'
    BY <1>1
  <2>2. QED
    BY <2>1 DEF PutBack
<1>3. ArrivedOK'
  BY <1>1 DEF ArrivedOK
<1>4. QueueOrdered'
  <2>1. \A a, b \in DOMAIN waiting' : a < b =>
          \E c, d \in DOMAIN wait : c < d /\ waiting'[a] = wait[c] /\ waiting'[b] = wait[d]
    BY <1>1, KeepOrder DEF Without
  <2>2. InOrder(waiting', arrived')
    BY <2>1, ThinnedInOrder
  <2>3. QED
    BY <1>2, <2>2 DEF QueueOrdered
<1>5. LiveIsQueued' /\ PutBackIsLarge'
  BY <1>1, <1>2, EmptyFacts DEF LiveIsQueued, PutBackIsLarge
<1>6. QED
  BY <1>3, <1>4, <1>5 DEF OrderOK

\* Admission takes the head of the queue, runs it, drops it when it has ended, or puts it
\* back after the ones it put back before.
LEMMA OrderAdmit ==
    ASSUME Layers, OrderOK, AdmitNext
    PROVE  OrderOK'
<1>0. QueueOK /\ SlotsOK /\ ArrivedOK /\ QueueOrdered /\ LiveIsQueued /\ PutBackIsLarge
  BY DEF Layers, OrderOK
<1>1. /\ waiting \in Seq(Requests) /\ scan.back \in Seq(Requests) /\ Len(waiting) > 0
  <2>1. scan.left <= Len(waiting) /\ scan.left > 0 /\ scan.left \in Nat /\ waiting \in Seq(Requests)
        /\ scan.back \in Seq(Requests)
    BY <1>0 DEF AdmitNext, QueueOK
  <2>2. QED
    BY <2>1
<1>2. PICK h \in Requests : h = Head(waiting)
  BY <1>1, TailFacts
<1>3. PICK back \in Seq(Requests) : back = scan.back
  BY <1>1
<1>4. PICK tail \in Seq(Requests) : tail = Tail(waiting)
  BY <1>1, TailFacts
<1>5. /\ waiting' = tail /\ Elements(waiting) = {h} \cup Elements(tail)
      /\ phase[h] = "waiting" /\ h \notin Elements(back) /\ h \notin Elements(tail)
  BY <1>0, <1>1, <1>2, <1>3, <1>4, TailFacts DEF AdmitNext, QueueOK
<1>6. /\ UNCHANGED arrived /\ \A r \in Requests : terminal[r] => terminal'[r]
      /\ \A r \in Requests : phase'[r] = "waiting" => phase[r] = "waiting"
      /\ \A r \in Requests : phase'[r] = "new" <=> phase[r] = "new"
      /\ \A r \in Requests : r # h => phase'[r] = phase[r]
  <2>1. \A r \in Requests : terminal[r] => terminal'[r]
    BY DEF AdmitNext, Finish
  <2>2. phase' = phase \/ phase' = [phase EXCEPT ![h] = "running"]
    BY <1>2 DEF AdmitNext
  <2>3. QED
    BY <1>0, <1>5, <2>1, <2>2 DEF AdmitNext, QueueOK
<1>7. /\ PutBack \in Seq(Requests) /\ Elements(PutBack) = Elements(back) \cup {h} \cup Elements(tail)
      /\ back \o tail \in Seq(Requests) /\ Elements(back \o tail) = Elements(back) \cup Elements(tail)
  BY <1>1, <1>3, <1>5, ConcatFacts DEF PutBack
<1>8. ArrivedOK'
  BY <1>0, <1>6 DEF ArrivedOK
\* Without the head, the queue is in order.
<1>9. InOrder(back \o tail, arrived)
  <2> DEFINE u == back \o tail
             n == Len(back)
             Old(a) == IF a <= n THEN a ELSE a + 1
  <2>1. /\ n \in Nat /\ Len(tail) \in Nat /\ Len(waiting) = Len(tail) + 1
        /\ \A i \in 1..Len(tail) : tail[i] = waiting[i + 1]
    BY <1>1, <1>4, TailFacts
  <2>2. /\ DOMAIN u = 1..(n + Len(tail)) /\ DOMAIN PutBack = 1..(n + Len(tail) + 1)
        /\ \A a \in DOMAIN u : u[a] = IF a <= n THEN back[a] ELSE tail[a - n]
        /\ \A a \in DOMAIN PutBack : PutBack[a] = IF a <= n THEN back[a] ELSE waiting[a - n]
    <3>1. DOMAIN PutBack = 1..(n + Len(tail) + 1)
      <4>1. Len(PutBack) = Len(back) + Len(waiting) /\ PutBack \in Seq(Requests)
        BY <1>1, <1>3, ConcatFacts DEF PutBack
      <4>2. Len(PutBack) = n + Len(tail) + 1
        BY <2>1, <4>1
      <4>3. QED
        BY <4>1, <4>2
    <3>2. \A a \in DOMAIN PutBack : PutBack[a] = IF a <= n THEN back[a] ELSE waiting[a - n]
      BY <1>1, <1>3, <2>1 DEF PutBack
    <3>3. QED
      BY <2>1, <3>1, <3>2
  <2> HIDE DEF u, n
  <2>3. \A a \in DOMAIN u : Old(a) \in DOMAIN PutBack /\ u[a] = PutBack[Old(a)]
    <3> SUFFICES ASSUME NEW a \in DOMAIN u
                 PROVE  Old(a) \in DOMAIN PutBack /\ u[a] = PutBack[Old(a)]
      OBVIOUS
    <3>1. CASE a <= n
      BY <2>1, <2>2, <3>1
    <3>2. CASE ~(a <= n)
      <4>1. /\ a - n \in 1..Len(tail) /\ (a + 1) - n = (a - n) + 1
            /\ a + 1 \in DOMAIN PutBack /\ ~(a + 1 <= n)
        BY <2>1, <2>2, <3>2
      <4>2. QED
        BY <2>1, <2>2, <3>2, <4>1
    <3>3. QED
      BY <3>1, <3>2
  <2>4. \A a, b \in DOMAIN u : a < b => Old(a) < Old(b)
    BY <2>1, <2>2
  <2> HIDE DEF Old
  <2>5. \A a, b \in DOMAIN u : a < b =>
          \E c, d \in DOMAIN PutBack : c < d /\ u[a] = PutBack[c] /\ u[b] = PutBack[d]
    BY <2>3, <2>4
  <2>6. InOrder(u, arrived)
    BY <1>0, <2>5, ThinnedInOrder DEF QueueOrdered
  <2>7. QED
    BY <2>6 DEF u
<1>10. CASE scan'.back = back
  <2>1. PutBack' = back \o tail
    BY <1>5, <1>10 DEF PutBack
  <2>2. QueueOrdered'
    BY <1>6, <1>9, <2>1 DEF QueueOrdered
  <2>3. phase'[h] = "waiting" => terminal'[h]
    <3> SUFFICES ASSUME phase'[h] = "waiting", ~terminal'[h] PROVE FALSE
      OBVIOUS
    <3>1. ~terminal[h]
      BY <1>6
    <3>2. PromptLen[h] <= PoolTokens
      BY <1>2 DEF AdmitNext, Finish
    <3>3. ~(PromptLen[h] <= freeSlots)
      <4>1. phase \in [Requests -> {"new", "waiting", "running", "gone"}]
        BY <1>0 DEF QueueOK
      <4>2. QED
        BY <1>2, <3>1, <3>2, <4>1 DEF AdmitNext
    <3>4. scan'.back = Append(back, h)
      BY <1>2, <1>3, <3>1, <3>2, <3>3 DEF AdmitNext
    <3>5. Len(Append(back, h)) = Len(back) + 1 /\ Len(back) \in Nat
      OBVIOUS
    <3>6. QED
      BY <1>10, <3>4, <3>5
  <2>4. LiveIsQueued'
    BY <1>0, <1>6, <1>7, <2>1, <2>3 DEF LiveIsQueued
  <2>5. PutBackIsLarge'
    <3>1. /\ freeSlots' = freeSlots \/ freeSlots' = freeSlots - PromptLen[h]
          /\ freeSlots \in Nat /\ \A r \in Requests : PromptLen[r] \in Nat
      BY <1>0, <1>2, PromptFacts DEF AdmitNext, kvVars, SlotsOK
    <3>2. \A r \in Elements(back) : PromptLen[r] > freeSlots /\ r \in Requests
      BY <1>0, <1>3 DEF PutBackIsLarge, Elements
    <3>3. QED
      BY <1>10, <3>1, <3>2 DEF PutBackIsLarge
  <2>6. QED
    BY <1>8, <2>2, <2>4, <2>5 DEF OrderOK
<1>11. CASE scan'.back # back
  <2>1. /\ PromptLen[h] <= PoolTokens /\ ~(PromptLen[h] <= freeSlots) /\ ~terminal[h]
        /\ scan'.back = Append(back, h)
    BY <1>2, <1>3, <1>11 DEF AdmitNext
  <2>2. UNCHANGED <<phase, freeSlots>>
    BY <1>2, <2>1 DEF AdmitNext, kvVars
  <2>3. PutBack' = PutBack
    <3>1. PutBack' = Append(back, h) \o tail
      BY <1>5, <2>1 DEF PutBack
    <3>2. Append(back, h) \o tail = back \o waiting
      <4> DEFINE u == Append(back, h) \o tail
                 v == back \o waiting
                 n == Len(back)
      <4>1. /\ n \in Nat /\ Len(tail) \in Nat /\ Len(waiting) = Len(tail) + 1
            /\ \A i \in 1..Len(tail) : tail[i] = waiting[i + 1]
            /\ waiting[1] = h
        BY <1>1, <1>2, <1>4, TailFacts
      <4>2. /\ u \in Seq(Requests) /\ v \in Seq(Requests)
            /\ Append(back, h) \in Seq(Requests) /\ Len(Append(back, h)) = n + 1
            /\ \A i \in 1..n : Append(back, h)[i] = back[i]
            /\ Append(back, h)[n + 1] = h
        BY <1>1, AppendFacts
      <4>3. Len(u) = n + 1 + Len(tail) /\ Len(v) = n + Len(tail) + 1
        <5>1. Len(u) = Len(Append(back, h)) + Len(tail) /\ Len(v) = Len(back) + Len(waiting)
          BY <1>1, <4>2, ConcatFacts
        <5>2. QED
          BY <4>1, <4>2, <5>1
      <4>4. ASSUME NEW k \in 1..Len(u) PROVE u[k] = v[k]
        <5>1. v[k] = IF k <= n THEN back[k] ELSE waiting[k - n]
          BY <1>1, <4>1, <4>3
        <5>2. u[k] = IF k <= n + 1 THEN Append(back, h)[k] ELSE tail[k - (n + 1)]
          BY <4>1, <4>2, <4>3
        <5>3. CASE k <= n
          BY <4>1, <4>2, <5>1, <5>2, <5>3
        <5>4. CASE k = n + 1
          BY <4>1, <4>2, <5>1, <5>2, <5>4
        <5>5. CASE k > n + 1
          <6>1. /\ ~(k <= n) /\ ~(k <= n + 1)
                /\ k - (n + 1) \in 1..Len(tail) /\ (k - (n + 1)) + 1 = k - n
            BY <4>1, <4>3, <5>5
          <6>2. QED
            BY <4>1, <5>1, <5>2, <6>1
        <5>6. QED
          BY <4>1, <4>3, <5>3, <5>4, <5>5
      <4> HIDE DEF u, v
      <4>5. u = v
        BY <4>1, <4>2, <4>3, <4>4
      <4>6. QED
        BY <4>5 DEF u, v
    <3>3. QED
      BY <1>3, <3>1, <3>2 DEF PutBack
  <2>4. QueueOrdered' /\ LiveIsQueued'
    BY <1>0, <1>6, <2>2, <2>3 DEF QueueOrdered, LiveIsQueued
  <2>5. PutBackIsLarge'
    <3>1. Elements(Append(back, h)) = Elements(back) \cup {h}
      BY AppendFacts
    <3>2. freeSlots \in Nat /\ PromptLen[h] \in Nat
      BY <1>0, PromptFacts DEF SlotsOK
    <3>3. QED
      BY <1>0, <1>3, <2>1, <2>2, <3>1, <3>2 DEF PutBackIsLarge
  <2>6. QED
    BY <1>8, <2>4, <2>5 DEF OrderOK
<1>12. QED
  BY <1>10, <1>11

\* At the start nobody has arrived.
LEMMA OrderInit == Init => OrderOK
<1> SUFFICES ASSUME Init PROVE OrderOK
  OBVIOUS
<1>1. /\ arrived = <<>> /\ waiting = <<>> /\ scan.back = <<>>
      /\ \A r \in Requests : phase[r] = "new"
  BY DEF Init
<1>2. PutBack = <<>>
  BY <1>1 DEF PutBack
<1>3. QED
  BY <1>1, <1>2, EmptyFacts DEF OrderOK, ArrivedOK, QueueOrdered, InOrder, LiveIsQueued,
                                PutBackIsLarge

\* The queue stays in the order of arrival through cancellations, put-backs and releases.
LEMMA OrderStep == Layers /\ OrderOK /\ [Next]_vars => OrderOK'
<1> SUFFICES ASSUME Layers, OrderOK, [Next]_vars PROVE OrderOK'
  OBVIOUS
<1>0. /\ ControlOK /\ QueueOK /\ SlotsOK
      /\ ArrivedOK /\ QueueOrdered /\ LiveIsQueued /\ PutBackIsLarge
  BY DEF Layers, OrderOK
<1> DEFINE Ended == \A r \in Requests : terminal[r] => terminal'[r]
\* What leaves the queue alone.
<1>a. ASSUME UNCHANGED <<phase, waiting, arrived, scan>>, Ended,
             freeSlots' = freeSlots \/ pc # "admit"
      PROVE  OrderOK'
  <2>1. PutBack' = PutBack
    BY <1>a DEF PutBack
  <2>2. ArrivedOK' /\ QueueOrdered' /\ LiveIsQueued'
    BY <1>0, <1>a, <2>1 DEF ArrivedOK, QueueOrdered, LiveIsQueued
  <2>3. PutBackIsLarge'
    <3>1. CASE pc # "admit"
      BY <1>0, <1>a, <3>1, EmptyFacts DEF QueueOK, PutBackIsLarge
    <3>2. CASE freeSlots' = freeSlots
      BY <1>0, <1>a, <3>2 DEF PutBackIsLarge
    <3>3. QED
      BY <1>a, <3>1, <3>2
  <2>4. QED
    BY <2>2, <2>3 DEF OrderOK
<1>b. UNCHANGED <<phase, terminal, waiting, arrived, scan, freeSlots>> => OrderOK'
  BY <1>a
<1>c. UNCHANGED <<requestVars, kvVars, queueVars, scan>> => OrderOK'
  BY <1>b DEF requestVars, kvVars, queueVars
<1>d. \A S : Finish(S) => Ended
  BY DEF Finish
<1>e. \A S : Resolve(S) => Ended /\ UNCHANGED <<phase, waiting, arrived, freeSlots>>
  BY DEF Resolve, kvVars, queueVars
\* Releasing registered requests, when nothing is put back.
<1>f. ASSUME NEW term, NEW ord, pc # "admit", scan'.back = <<>>, Ended, UNCHANGED arrived,
             Release(Releasable({q \in Requests : Registered(q)}, term, ord), phase, waiting)
      PROVE  OrderOK'
  <2>1. waiting \in Seq(Requests) /\ PutBack = waiting
    <3>1. waiting \in Seq(Requests) /\ scan.back = <<>>
      BY <1>0, <1>f DEF QueueOK
    <3>2. QED
      BY <3>1 DEF PutBack
  <2>2. \A r \in Releasable({q \in Requests : Registered(q)}, term, ord) : phase[r] # "new"
    BY DEF Releasable, Registered
  <2>3. /\ arrived' \in Seq(Requests) /\ IsInjective(arrived')
        /\ \A r \in Requests : r \in Elements(arrived') <=> phase[r] # "new"
    BY <1>0, <1>f DEF ArrivedOK
  <2>4. InOrder(waiting, arrived')
    BY <1>0, <1>f, <2>1 DEF QueueOrdered
  <2>5. \A r \in Requests : phase[r] = "waiting" /\ ~terminal'[r] => r \in Elements(waiting)
    BY <1>0, <1>f, <2>1 DEF LiveIsQueued
  <2>6. QED
    BY <1>f, <2>1, <2>2, <2>3, <2>4, <2>5, OrderRelease
<1>g. pc # "admit" => scan.back = <<>>
  BY <1>0 DEF QueueOK
<1>h. LockFree => pc # "admit"
  BY DEF LockFree, LoopLocked
<1>i. shutdown.at # "none" => pc # "admit"
  BY <1>0 DEF ControlOK, ShutdownPlaces
<1> HIDE DEF Ended
<1>j. FenceAndDiscard => OrderOK'
  BY <1>b DEF FenceAndDiscard, kvVars, queueVars, loopVars
<1>k. Quarantine => OrderOK'
  BY <1>a, <1>d DEF Quarantine, kvVars, queueVars
<1>1. CASE BeginTick \/ Decide \/ Launched \/ LaunchRaises
  BY <1>1, <1>c DEF BeginTick, Decide, Launched, LaunchRaises
<1>2. CASE ReleaseFinished
  <2>1. pc # "admit" /\ scan'.back = <<>> /\ UNCHANGED <<arrived, terminal>>
    BY <1>2 DEF ReleaseFinished
  <2>2. Ended
    BY <2>1 DEF Ended
  <2>3. QED
    BY <1>2, <2>1, <2>2, <1>f DEF ReleaseFinished
<1>3. CASE AdmitNext
  BY <1>3, OrderAdmit
<1>4. CASE EndAdmission
  <2>1. /\ waiting' = PutBack /\ scan'.back = <<>>
        /\ UNCHANGED <<phase, terminal, arrived>>
    BY <1>4 DEF EndAdmission, requestVars
  <2>2. PutBack' = PutBack
    <3>1. PutBack \in Seq(Requests)
      BY <1>0, ConcatFacts DEF QueueOK, PutBack
    <3>2. <<>> \o PutBack = PutBack
      BY <3>1
    <3>3. PutBack' = scan'.back \o waiting'
      BY DEF PutBack
    <3>4. QED
      BY <2>1, <3>2, <3>3
  <2>3. ArrivedOK' /\ QueueOrdered' /\ LiveIsQueued'
    BY <1>0, <2>1, <2>2 DEF ArrivedOK, QueueOrdered, LiveIsQueued
  <2>4. PutBackIsLarge'
    BY <2>1, EmptyFacts DEF PutBackIsLarge
  <2>5. QED
    BY <2>3, <2>4 DEF OrderOK
<1>5. CASE Schedule
  BY <1>5, <1>a, <1>d DEF Schedule, queueVars
<1>6. CASE Rollback \/ Launch
  BY <1>6, <1>b DEF Rollback, Launch, requestVars, kvVars, queueVars, loopVars
<1>7. CASE Drain \/ ShutdownDrains
  BY <1>7, <1>a, <1>e DEF Drain, ShutdownDrains, loopVars
<1>8. CASE DrainRaises \/ Drained \/ LoopCrashed \/ LoopStops \/ LoopShutsDown
  BY <1>8, <1>c DEF DrainRaises, Drained, LoopCrashed, LoopStops, LoopShutsDown, loopVars
<1>9. CASE UpdateWeights \/ StopBegins \/ StopStep \/ Start
  BY <1>9, <1>c DEF UpdateWeights, StopBegins, StopStep, StopTimesOut, StopShutsDown, Start,
                    loopVars
<1>10. CASE ShutdownBegins \/ ShutdownDrained
  BY <1>10, <1>c, <1>k DEF ShutdownBegins, ShutdownDrained, loopVars
<1>11. CASE ShutdownDrainRaises \/ ShutdownFences
  BY <1>11, <1>j, <1>k DEF ShutdownDrainRaises, ShutdownFences
<1>12. CASE ShutdownFinishes
  <2>1. pc # "admit" /\ scan'.back = <<>> /\ UNCHANGED arrived /\ Ended
    BY <1>12, <1>d, <1>g, <1>i DEF ShutdownFinishes
  <2>2. QED
    BY <1>12, <2>1, <1>f DEF ShutdownFinishes
<1>13. ASSUME NEW q \in Requests, Submit(q) PROVE OrderOK'
  <2> DEFINE ph == [phase EXCEPT ![q] = "waiting"]
             reg == {s \in Requests : Registered(s)} \cup {q}
  <2>1. /\ phase[q] = "new" /\ pc # "admit" /\ scan'.back = <<>>
        /\ arrived' = Append(arrived, q) /\ Ended
        /\ Release(Releasable(reg, terminal', order), ph, Append(waiting, q))
    BY <1>13, <1>d, <1>g, <1>h DEF Submit, loopVars
  <2>2. \A r \in Requests : ph[r] = IF r = q THEN "waiting" ELSE phase[r]
    BY <1>0 DEF QueueOK
  <2>3. \A r \in Releasable(reg, terminal', order) : ph[r] # "new"
    BY <2>2 DEF Releasable, Registered
  <2>4. waiting \in Seq(Requests) /\ PutBack = waiting /\ arrived \in Seq(Requests)
        /\ q \notin Elements(arrived) /\ IsInjective(arrived)
    <3>1. waiting \in Seq(Requests) /\ scan.back = <<>>
      BY <1>0, <1>g, <2>1 DEF QueueOK
    <3>2. QED
      BY <1>0, <2>1, <3>1 DEF PutBack, ArrivedOK
  <2>5. Elements(waiting) \subseteq Elements(arrived)
    <3>1. \A r \in Elements(waiting) : r \in Requests /\ phase[r] = "waiting"
      BY <1>0, <2>4, NotEmpty DEF QueueOK
    <3>2. QED
      BY <1>0, <3>1 DEF ArrivedOK
  <2>6. /\ Append(waiting, q) \in Seq(Requests) /\ arrived' \in Seq(Requests)
        /\ IsInjective(arrived') /\ Elements(arrived') = Elements(arrived) \cup {q}
        /\ Elements(Append(waiting, q)) = Elements(waiting) \cup {q}
    BY <2>1, <2>4, AppendFacts
  <2>7. InOrder(Append(waiting, q), arrived')
    <3>1. InOrder(waiting, arrived)
      BY <1>0, <2>4 DEF QueueOrdered
    <3>2. QED
      BY <2>1, <2>4, <2>5, <3>1, AppendInOrder
  <2> HIDE DEF ph, reg
  <2>8. \A r \in Requests : r \in Elements(arrived') <=> ph[r] # "new"
    BY <1>0, <2>2, <2>6 DEF ArrivedOK
  <2>9. \A r \in Requests : ph[r] = "waiting" /\ ~terminal'[r] => r \in Elements(Append(waiting, q))
    BY <1>0, <2>1, <2>2, <2>4, <2>6 DEF LiveIsQueued, Ended
  <2>10. QED
    BY <2>1, <2>3, <2>6, <2>7, <2>8, <2>9, OrderRelease
<1>14. ASSUME NEW q \in Requests, Cancel(q) PROVE OrderOK'
  <2>1. pc # "admit" /\ scan'.back = <<>> /\ UNCHANGED arrived /\ Ended
    BY <1>14, <1>d, <1>g, <1>h DEF Cancel, loopVars
  <2>2. QED
    BY <1>14, <2>1, <1>f DEF Cancel
<1>15. CASE UNCHANGED vars
  BY <1>15, <1>c DEF vars, loopVars
<1>16. QED
  BY <1>1, <1>2, <1>3, <1>4, <1>5, <1>6, <1>7, <1>8, <1>9, <1>10, <1>11, <1>12, <1>13,
     <1>14, <1>15 DEF Next, LoopStep, ClientStep, ShutdownStep

\* Only admission lets a request in.
LEMMA OnlyAdmission ==
    ASSUME QueueOK, [Next]_vars, NEW r \in Requests, phase[r] = "waiting", phase'[r] = "running"
    PROVE  AdmitNext /\ r = Head(waiting)
<1>a. ASSUME phase' = phase PROVE FALSE
  BY <1>a
<1>b. ASSUME NEW S, NEW wait, Release(S, phase, wait) PROVE FALSE
  BY <1>b DEF Release
<1>1. CASE AdmitNext
  <2>1. phase' = [phase EXCEPT ![Head(waiting)] = "running"]
    BY <1>1, <1>a DEF AdmitNext
  <2>2. QED
    BY <1>1, <2>1 DEF QueueOK
<1> USE DEF requestVars
<1>2. CASE BeginTick \/ ReleaseFinished \/ EndAdmission \/ Decide \/ Launched
  BY <1>2, <1>a, <1>b DEF BeginTick, ReleaseFinished, EndAdmission, Decide, Launched
<1>3. CASE Schedule \/ Rollback \/ Launch \/ LaunchRaises
  BY <1>3, <1>a DEF Schedule, Rollback, Launch, LaunchRaises
<1>4. CASE Drain \/ DrainRaises \/ Drained \/ LoopCrashed \/ LoopStops \/ LoopShutsDown
  BY <1>4, <1>a DEF Drain, Resolve, DrainRaises, Drained, LoopCrashed, LoopStops, LoopShutsDown
<1>5. CASE UpdateWeights \/ StopBegins \/ StopStep \/ Start
  BY <1>5, <1>a DEF UpdateWeights, StopBegins, StopStep, StopTimesOut, StopShutsDown, Start
<1>6. CASE ShutdownStep
  BY <1>6, <1>a, <1>b DEF ShutdownStep, ShutdownBegins, ShutdownDrains, ShutdownDrainRaises,
       ShutdownDrained, ShutdownFences, ShutdownFinishes, Quarantine, FenceAndDiscard, Resolve
<1>7. CASE \E q \in Requests : Cancel(q)
  BY <1>7, <1>b DEF Cancel
<1>8. ASSUME NEW q \in Requests, Submit(q) PROVE FALSE
  BY <1>8 DEF Submit, Release, QueueOK
<1>9. CASE UNCHANGED vars
  BY <1>9, <1>a DEF vars
<1>10. QED
  BY <1>1, <1>2, <1>3, <1>4, <1>5, <1>6, <1>7, <1>8, <1>9 DEF Next, LoopStep, ClientStep

\* Requests are admitted in the order they arrived, however many are cancelled, put back or
\* released meanwhile: one is overtaken only when its prompt needs more slots than are free.
THEOREM AdmissionKeepsArrivalOrder == Spec => AdmittedInOrder
<1>1. ASSUME Layers, OrderOK, [Next]_vars,
             NEW i \in DOMAIN arrived, NEW j \in DOMAIN arrived, i < j,
             phase[arrived[i]] = "waiting", ~terminal[arrived[i]],
             phase[arrived[j]] = "waiting", phase'[arrived[j]] = "running"
      PROVE  PromptLen[arrived[i]] > freeSlots
  <2>0. QueueOK /\ ArrivedOK /\ QueueOrdered /\ LiveIsQueued /\ PutBackIsLarge
    BY <1>1 DEF Layers, OrderOK
  <2>1. PICK early \in Requests, late \in Requests : early = arrived[i] /\ late = arrived[j]
    BY <2>0 DEF ArrivedOK
  <2>2. AdmitNext /\ late = Head(waiting)
    BY <1>1, <2>0, <2>1, OnlyAdmission
  <2>3. /\ waiting \in Seq(Requests) /\ scan.back \in Seq(Requests) /\ Len(waiting) > 0
        /\ Len(scan.back) \in Nat
    <3>1. scan.left <= Len(waiting) /\ scan.left > 0 /\ scan.left \in Nat /\ waiting \in Seq(Requests)
          /\ scan.back \in Seq(Requests)
      BY <2>0, <2>2 DEF AdmitNext, QueueOK
    <3>2. QED
      BY <3>1
  <2>4. early \in Elements(PutBack)
    BY <1>1, <2>0, <2>1 DEF LiveIsQueued
  <2>5. PICK a \in DOMAIN PutBack : PutBack[a] = early
    BY <2>4 DEF Elements
  <2>6. /\ Len(scan.back) + 1 \in DOMAIN PutBack /\ PutBack[Len(scan.back) + 1] = late
        /\ a \in Nat /\ a >= 1
        /\ a <= Len(scan.back) => a \in DOMAIN scan.back /\ PutBack[a] = scan.back[a]
    <3>1. /\ PutBack \in Seq(Requests) /\ Len(PutBack) = Len(scan.back) + Len(waiting)
          /\ Len(waiting) \in Nat
      BY <2>3, ConcatFacts DEF PutBack
    <3>2. DOMAIN PutBack = 1..Len(PutBack)
      BY <3>1
    <3>3. Len(scan.back) + 1 \in DOMAIN PutBack /\ a \in Nat /\ a >= 1
      BY <2>3, <3>1, <3>2
    <3>4. PutBack[Len(scan.back) + 1] = waiting[1] /\ waiting[1] = late
      BY <2>2, <2>3, <3>3 DEF PutBack
    <3>5. a <= Len(scan.back) => a \in DOMAIN scan.back /\ PutBack[a] = scan.back[a]
      BY <2>3, <3>3 DEF PutBack
    <3>6. QED
      BY <3>3, <3>4, <3>5
  <2>7. i \in Nat /\ j \in Nat
    BY <2>0 DEF ArrivedOK
  <2>8. ~(Len(scan.back) + 1 < a)
    BY <1>1, <2>0, <2>1, <2>5, <2>6, <2>7 DEF QueueOrdered, InOrder
  <2>9. a # Len(scan.back) + 1
    <3> SUFFICES ASSUME early = late PROVE FALSE
      BY <2>5, <2>6
    <3>1. i = j
      BY <2>0, <2>1 DEF ArrivedOK, IsInjective
    <3>2. QED
      BY <1>1, <2>7, <3>1
  <2>10. a <= Len(scan.back)
    BY <2>3, <2>6, <2>8, <2>9
  <2>11. early \in Elements(scan.back)
    BY <2>5, <2>6, <2>10 DEF Elements
  <2>12. QED
    BY <2>0, <2>1, <2>11 DEF PutBackIsLarge
<1> DEFINE Order == \A i, j \in DOMAIN arrived :
                      /\ i < j
                      /\ phase[arrived[i]] = "waiting" /\ ~terminal[arrived[i]]
                      /\ phase[arrived[j]] = "waiting" /\ phase'[arrived[j]] = "running"
                      => PromptLen[arrived[i]] > freeSlots
<1>2. Layers /\ OrderOK /\ [Next]_vars => [Order]_vars
  BY <1>1
<1> HIDE DEF Order
<1>3. Spec => [][Order]_vars
  BY <1>2, OrderInit, OrderStep, LayersHold, PTL DEF Spec
<1>4. QED
  BY <1>3 DEF AdmittedInOrder, Order

-----------------------------------------------------------------------------
(* Event streams. *)

\* What may be added to an open stream closes it or not.
LEMMA StreamEnds ==
    ASSUME NEW s \in Seq({"token", "end"})
    PROVE  /\ Stream!Closed(Append(s, "end")) /\ ~Stream!Closed(Append(s, "token"))
           /\ Stream!Closed(s \o <<"token", "end">>)
           /\ (s \o <<"token">>) \o <<"end">> = s \o <<"token", "end">>
           /\ s \o <<"token">> = Append(s, "token") /\ s \o <<"end">> = Append(s, "end")
           /\ s \o <<>> = s
<1>1. Stream!Closed(Append(s, "end")) /\ ~Stream!Closed(Append(s, "token"))
  BY DEF Stream!Closed
<1>2. s \o <<"token">> = Append(s, "token") /\ s \o <<"end">> = Append(s, "end") /\ s \o <<>> = s
  OBVIOUS
<1>3. (s \o <<"token">>) \o <<"end">> = s \o <<"token", "end">>
  <2>1. <<"token", "end">> = <<"token">> \o <<"end">>
    OBVIOUS
  <2>2. QED
    BY <2>1
<1>4. Stream!Closed(s \o <<"token", "end">>)
  <2>1. s \o <<"token">> \in Seq({"token", "end"})
    OBVIOUS
  <2>2. Stream!Closed(Append(s \o <<"token">>, "end"))
    BY <2>1 DEF Stream!Closed
  <2>3. Append(s \o <<"token">>, "end") = (s \o <<"token">>) \o <<"end">>
    BY <2>1
  <2>4. QED
    BY <1>3, <2>2, <2>3
<1>5. QED
  BY <1>1, <1>2, <1>3, <1>4

\* One step says nothing of r, or continues its open stream.
Silent(r) == events'[r] = events[r] /\ (terminal'[r] <=> terminal[r])
Speaks(r) ==
    /\ ~terminal[r] /\ phase'[r] # "new"
    /\ \/ events'[r] = Append(events[r], "token") /\ ~terminal'[r]
       \/ events'[r] = Append(events[r], "end") /\ terminal'[r]
       \/ events'[r] = events[r] \o <<"token", "end">> /\ terminal'[r]
Told(r) == (phase[r] # "new" => phase'[r] # "new") /\ (Silent(r) \/ Speaks(r))

\* Steps that tell each request its events are steps of the stream.
LEMMA ToldIsStream ==
    ASSUME CountersOK, CountersOK', StreamsOK, \A r \in Requests : Told(r)
    PROVE  StreamsOK' /\ Stream!StreamNext
<1>1. \A r \in Requests : /\ events[r] \in Seq({"token", "end"})
                          /\ terminal[r] \in BOOLEAN /\ terminal'[r] \in BOOLEAN
  BY DEF CountersOK
<1>2. ASSUME NEW r \in Requests
      PROVE  /\ terminal'[r] <=> Stream!Closed(events'[r])
             /\ terminal'[r] => phase'[r] # "new"
             /\ phase[r] # "new" => phase'[r] # "new"
             /\ IF phase'[r] # "new" /\ ~Stream!Closed(events[r])
                THEN events'[r] \in Stream!Continuations(events[r])
                ELSE events'[r] = events[r]
  <2>1. (phase[r] # "new" => phase'[r] # "new") /\ (Silent(r) \/ Speaks(r))
    BY DEF Told
  <2>2. (terminal[r] <=> Stream!Closed(events[r])) /\ (terminal[r] => phase[r] # "new")
    BY DEF StreamsOK
  <2>3. CASE Silent(r)
    BY <2>1, <2>2, <2>3 DEF Silent, Stream!Continuations
  <2>4. CASE Speaks(r)
    <3>1. events'[r] \in Stream!Continuations(events[r])
      BY <2>4 DEF Speaks, Stream!Continuations
    <3>2. terminal'[r] <=> Stream!Closed(events'[r])
      BY <1>1, <2>4, StreamEnds DEF Speaks
    <3>3. QED
      BY <2>1, <2>2, <2>4, <3>1, <3>2 DEF Speaks
  <2>5. QED
    BY <2>1, <2>3, <2>4
<1>3. StreamsOK'
  BY <1>2 DEF StreamsOK
<1>4. Stream!StreamNext
  <2>1. DOMAIN events' = Requests
    BY DEF CountersOK
  <2>2. QED
    BY <1>2, <2>1 DEF Stream!StreamNext
<1>5. QED
  BY <1>3, <1>4

\* Every step of the engine is one of the stream.
LEMMA StreamStep ==
    Layers /\ StreamsOK /\ [Next]_vars => StreamsOK' /\ Stream!StreamNext
<1> SUFFICES ASSUME Layers, StreamsOK, [Next]_vars PROVE StreamsOK' /\ Stream!StreamNext
  OBVIOUS
<1>0. /\ ControlOK /\ CountersOK /\ QueueOK /\ StepsOK /\ RegistryOK /\ FlightOK
  BY DEF Layers
<1>00. CountersOK'
  BY <1>0, CountersStep
<1> DEFINE Stays == \A r \in Requests : phase[r] # "new" => phase'[r] # "new"
           Goal == StreamsOK' /\ Stream!StreamNext
<1>a. (\A r \in Requests : Told(r)) => Goal
  BY <1>0, <1>00, ToldIsStream
<1>b. UNCHANGED <<terminal, events>> /\ Stays => Goal
  BY <1>a DEF Told, Silent
\* Ending accepted requests.
<1>c. ASSUME NEW S, Finish(S), Stays, \A r \in S : r \in Requests => phase'[r] # "new"
      PROVE  Goal
  <2>1. \A r \in Requests : Told(r)
    <3> SUFFICES ASSUME NEW r \in Requests PROVE Silent(r) \/ Speaks(r)
      BY <1>c DEF Told
    <3>1. CASE r \in S /\ ~terminal[r]
      BY <1>c, <3>1 DEF Finish, Speaks
    <3>2. CASE ~(r \in S /\ ~terminal[r])
      BY <1>c, <3>2 DEF Finish, Silent
    <3>3. QED
      BY <3>1, <3>2
  <2>2. QED
    BY <2>1, <1>a
<1>d. ASSUME NEW stops, inflight # <<>>, Resolve(stops) PROVE Goal
  <2> SUFFICES ASSUME NEW r \in Requests PROVE Told(r)
    BY <1>a
  <2>1. phase' = phase
    BY <1>d DEF Resolve
  <2>2. Head(inflight) = inflight[1]
    BY <1>0, <1>d DEF StepsOK
  <2>3. r \in Reqs(Head(inflight).rows) => phase[r] = "running"
    BY <1>0, <1>d, <2>2, ResolveFacts DEF In, RegistryOK, PlannedAreRunning
  <2>4. events[r] \in Seq({"token", "end"})
    BY <1>0 DEF CountersOK
  <2> DEFINE h == Head(inflight)
             live == {q \in Reqs(h.rows) : ~terminal[q]}
             RowOf(q) == h.rows[CHOOSE i \in DOMAIN h.rows : h.rows[i].req = q]
             sampled == {q \in live : h.version = version /\ RowOf(q).end >= PromptLen[q]}
             ended == {q \in sampled : q \in stops \/ out[q] + 1 >= MaxTokens[q]}
                      \cup {q \in live : ~(h.version = version)}
  <2>5. /\ terminal'[r] <=> terminal[r] \/ r \in ended
        /\ events'[r] = events[r] \o (IF r \in sampled THEN <<"token">> ELSE <<>>)
                        \o (IF r \in ended THEN <<"end">> ELSE <<>>)
    BY <1>d DEF Resolve
  <2>6. /\ r \in sampled \/ r \in ended => r \in Reqs(Head(inflight).rows) /\ ~terminal[r]
    OBVIOUS
  <2> HIDE DEF sampled, ended
  <2>7. CASE r \in sampled /\ r \in ended
    BY <2>1, <2>3, <2>4, <2>5, <2>6, <2>7, StreamEnds DEF Told, Speaks
  <2>8. CASE r \in sampled /\ r \notin ended
    <3>1. events'[r] = Append(events[r], "token")
      <4>1. events'[r] = (events[r] \o <<"token">>) \o <<>>
        BY <2>5, <2>8
      <4>2. events[r] \o <<"token">> \in Seq({"token", "end"})
        BY <2>4
      <4>3. QED
        BY <2>4, <4>1, <4>2, StreamEnds
    <3>2. QED
      BY <2>1, <2>3, <2>5, <2>6, <2>8, <3>1 DEF Told, Speaks
  <2>9. CASE r \notin sampled /\ r \in ended
    BY <2>1, <2>3, <2>4, <2>5, <2>6, <2>9, StreamEnds DEF Told, Speaks
  <2>10. CASE r \notin sampled /\ r \notin ended
    BY <2>1, <2>4, <2>5, <2>10, StreamEnds DEF Told, Silent
  <2>11. QED
    BY <2>7, <2>8, <2>9, <2>10
<1>e. UNCHANGED phase => Stays
  OBVIOUS
<1>f. \A S, wait : Release(S, phase, wait) => Stays
  BY DEF Release
<1>g. \A r \in AbortAll : phase[r] # "new"
  BY DEF AbortAll, Registered
<1> SUFFICES Goal
  OBVIOUS
<1> HIDE DEF Goal
<1>h. Quarantine => Goal
  BY <1>c, <1>e, <1>g DEF Quarantine
<1>i. FenceAndDiscard => Goal
  BY <1>b, <1>e DEF FenceAndDiscard
<1> USE DEF requestVars
<1>1. CASE BeginTick \/ EndAdmission \/ Decide \/ Launched \/ Rollback \/ Launch \/ LaunchRaises
  BY <1>1, <1>b, <1>e DEF BeginTick, EndAdmission, Decide, Launched, Rollback, Launch, LaunchRaises
<1>2. CASE ReleaseFinished
  BY <1>2, <1>b, <1>f DEF ReleaseFinished
<1>3. CASE AdmitNext
  <2>1. waiting \in Seq(Requests) /\ Len(waiting) > 0
    <3>1. scan.left <= Len(waiting) /\ scan.left > 0 /\ scan.left \in Nat /\ waiting \in Seq(Requests)
      BY <1>0, <1>3 DEF AdmitNext, QueueOK
    <3>2. QED
      BY <3>1
  <2>2. PICK q \in Requests : q = Head(waiting) /\ phase[q] = "waiting"
    BY <1>0, <2>1, TailFacts DEF QueueOK
  <2>3. phase' = phase \/ phase' = [phase EXCEPT ![q] = "running"]
    BY <1>3, <2>2 DEF AdmitNext
  <2>4. Stays /\ phase'[q] # "new"
    BY <1>0, <2>2, <2>3 DEF QueueOK
  <2>5. \E S \in {{}, {q}} : Finish(S)
    BY <1>3, <2>2 DEF AdmitNext
  <2>6. QED
    BY <2>4, <2>5, <1>c
<1>4. CASE Schedule
  <2>1. /\ phase' = phase
        /\ \E S : /\ Finish(S)
                  /\ \A r \in S : (\E i \in DOMAIN Active : Active[i] = r)
                                  \/ (\E i \in DOMAIN Eligible : Eligible[i] = r)
    BY <1>4 DEF Schedule
  <2>2. \A r \in Requests : (\E i \in DOMAIN Active : Active[i] = r) => phase[r] = "running"
    BY <1>0, ActiveFacts DEF Elements
  <2>3. \A r \in Requests : (\E i \in DOMAIN Eligible : Eligible[i] = r) => phase[r] = "running"
    BY <1>0, EligibleFacts DEF Elements
  <2>4. QED
    BY <2>1, <2>2, <2>3, <1>c, <1>e
<1>5. CASE Drain \/ ShutdownDrains
  BY <1>5, <1>d DEF Drain, ShutdownDrains
<1>6. CASE DrainRaises \/ Drained \/ LoopCrashed \/ LoopStops \/ LoopShutsDown
  BY <1>6, <1>b, <1>e DEF DrainRaises, Drained, LoopCrashed, LoopStops, LoopShutsDown
<1>7. CASE UpdateWeights \/ StopBegins \/ StopStep \/ Start
  BY <1>7, <1>b, <1>e DEF UpdateWeights, StopBegins, StopStep, StopTimesOut, StopShutsDown, Start
<1>8. CASE ShutdownBegins \/ ShutdownDrained
  BY <1>8, <1>b, <1>e, <1>h DEF ShutdownBegins, ShutdownDrained
<1>9. CASE ShutdownDrainRaises \/ ShutdownFences
  BY <1>9, <1>h, <1>i DEF ShutdownDrainRaises, ShutdownFences
<1>10. CASE ShutdownFinishes
  <2>1. Finish(AbortAll) /\ \E S, wait : Release(S, phase, wait)
    BY <1>10 DEF ShutdownFinishes
  <2>2. Stays /\ \A r \in AbortAll : r \in Requests => phase'[r] # "new"
    BY <2>1, <1>f, <1>g
  <2>3. QED
    BY <2>1, <2>2, <1>c
<1>11. ASSUME NEW q \in Requests, Submit(q) PROVE Goal
  <2> DEFINE ph == [phase EXCEPT ![q] = "waiting"]
  <2>1. /\ \E S \in {{}, {q}} : Finish(S)
        /\ \E S, wait : Release(S, ph, wait)
    BY <1>11 DEF Submit
  <2>2. \A r \in Requests : ph[r] = IF r = q THEN "waiting" ELSE phase[r]
    BY <1>0 DEF QueueOK
  <2> HIDE DEF ph
  <2>3. Stays /\ phase'[q] # "new"
    BY <2>1, <2>2 DEF Release
  <2>4. QED
    BY <2>1, <2>3, <1>c
<1>12. ASSUME NEW q \in Requests, Cancel(q) PROVE Goal
  <2>1. Finish({q}) /\ (\E S, wait : Release(S, phase, wait)) /\ phase[q] # "new"
    BY <1>12 DEF Cancel, Registered
  <2>2. QED
    BY <2>1, <1>c, <1>f
<1>13. CASE UNCHANGED vars
  BY <1>13, <1>b, <1>e DEF vars
<1>14. QED
  BY <1>1, <1>2, <1>3, <1>4, <1>5, <1>6, <1>7, <1>8, <1>9, <1>10, <1>11, <1>12, <1>13
     DEF Next, LoopStep, ClientStep, ShutdownStep

\* The engine implements the event contract of its consumers, its liveness aside: an
\* accepted request gets tokens, then one terminal event, then nothing, whatever crashes,
\* is cancelled, fails its fence or is restarted; no other request gets an event.
THEOREM EngineImplementsStreams == Spec => Stream!StreamSafety
<1>1. Init => StreamsOK /\ Stream!StreamInit
  BY DEF Init, StreamsOK, Stream!Closed, Stream!StreamInit
<1>2. Layers /\ StreamsOK /\ [Next]_vars => [Stream!StreamNext]_(Stream!streamVars)
  BY StreamStep
<1>3. QED
  BY <1>1, <1>2, StreamStep, LayersHold, PTL DEF Spec, Stream!StreamSafety

-----------------------------------------------------------------------------
(* Weights between requests. *)

\* A release takes out only requests whose streams are closed.
LEMMA GoneStep == QueueOK /\ GoneIsTerminal /\ [Next]_vars => GoneIsTerminal'
<1> SUFFICES ASSUME QueueOK, GoneIsTerminal, [Next]_vars PROVE GoneIsTerminal'
  OBVIOUS
<1> DEFINE Grows == \A r \in Requests : terminal[r] => terminal'[r]
\* Nothing is released.
<1>a. Grows /\ UNCHANGED phase => GoneIsTerminal'
  BY DEF GoneIsTerminal
<1>b. UNCHANGED terminal => Grows
  OBVIOUS
<1>c. \A S : Finish(S) => Grows
  BY DEF Finish
<1>d. \A stops : Resolve(stops) => Grows /\ UNCHANGED phase
  BY DEF Resolve
\* What is released is terminal.
<1>e. ASSUME NEW ph, NEW reg, NEW ord, NEW wait, Grows,
             Release(Releasable(reg, terminal', ord), ph, wait),
             \A r \in Requests : ph[r] = "gone" => phase[r] = "gone"
      PROVE  GoneIsTerminal'
  BY <1>e DEF Release, Releasable, GoneIsTerminal
<1> USE DEF requestVars
<1>1. CASE BeginTick \/ EndAdmission \/ Decide \/ Launched \/ Rollback \/ Launch \/ LaunchRaises
  BY <1>1, <1>a, <1>b DEF BeginTick, EndAdmission, Decide, Launched, Rollback, Launch, LaunchRaises
<1>2. CASE ReleaseFinished
  <2>1. terminal' = terminal
    BY <1>2 DEF ReleaseFinished
  <2>2. Release(Releasable({r \in Requests : Registered(r)}, terminal, order), phase, waiting)
    BY <1>2 DEF ReleaseFinished
  <2>3. Release(Releasable({r \in Requests : Registered(r)}, terminal', order), phase, waiting)
    BY <2>1, <2>2
  <2>4. QED
    BY <2>1, <2>3, <1>b, <1>e
<1>3. CASE AdmitNext
  <2>1. Grows /\ (phase' = phase \/ phase' = [phase EXCEPT ![Head(waiting)] = "running"])
    BY <1>3, <1>c DEF AdmitNext
  <2>2. QED
    BY <2>1 DEF GoneIsTerminal, QueueOK
<1>4. CASE Schedule
  BY <1>4, <1>a, <1>c DEF Schedule
<1>5. CASE Drain \/ ShutdownDrains
  BY <1>5, <1>a, <1>d DEF Drain, ShutdownDrains
<1>6. CASE DrainRaises \/ Drained \/ LoopCrashed \/ LoopStops \/ LoopShutsDown
  BY <1>6, <1>a, <1>b DEF DrainRaises, Drained, LoopCrashed, LoopStops, LoopShutsDown
<1>7. CASE UpdateWeights \/ StopBegins \/ StopStep \/ Start
  BY <1>7, <1>a, <1>b DEF UpdateWeights, StopBegins, StopStep, StopTimesOut, StopShutsDown, Start
<1>8. CASE Quarantine \/ FenceAndDiscard
  BY <1>8, <1>a, <1>b, <1>c DEF Quarantine, FenceAndDiscard
<1>9. CASE ShutdownBegins \/ ShutdownDrained \/ ShutdownDrainRaises \/ ShutdownFences
  BY <1>9, <1>8, <1>a, <1>b DEF ShutdownBegins, ShutdownDrained, ShutdownDrainRaises, ShutdownFences
<1>10. CASE ShutdownFinishes
  <2>1. /\ Finish(AbortAll)
        /\ Release(Releasable({r \in Requests : Registered(r)}, terminal', order), phase, waiting)
    BY <1>10 DEF ShutdownFinishes
  <2>2. QED
    BY <2>1, <1>c, <1>e
<1>11. ASSUME NEW q \in Requests, Submit(q) PROVE GoneIsTerminal'
  <2>1. PICK ph, reg : /\ ph = [phase EXCEPT ![q] = "waiting"]
                       /\ Release(Releasable(reg, terminal', order), ph, Append(waiting, q))
    BY <1>11 DEF Submit
  <2>2. Grows
    BY <1>11, <1>c DEF Submit
  <2>3. \A r \in Requests : ph[r] = "gone" => phase[r] = "gone"
    BY <2>1 DEF QueueOK
  <2>4. QED
    BY <2>1, <2>2, <2>3, <1>e
<1>12. ASSUME NEW q \in Requests, Cancel(q) PROVE GoneIsTerminal'
  <2>1. /\ Finish({q})
        /\ Release(Releasable({s \in Requests : Registered(s)}, terminal', order), phase, waiting)
    BY <1>12 DEF Cancel
  <2>2. QED
    BY <2>1, <1>c, <1>e
<1>13. CASE UNCHANGED vars
  BY <1>13, <1>a, <1>b DEF vars
<1>14. QED
  BY <1>1, <1>2, <1>3, <1>4, <1>5, <1>6, <1>7, <1>9, <1>10, <1>11, <1>12, <1>13
     DEF Next, LoopStep, ClientStep, ShutdownStep

\* A new version finds every stream closed, the pool whole and nothing that may still run.
LEMMA NothingIsLeft ==
    ASSUME Layers, StreamsOK, GoneIsTerminal, UpdateWeights
    PROVE  /\ \A r \in Requests : /\ phase[r] # "new" => Stream!Closed(events[r])
                                 /\ touching[r] = 0
           /\ plan = <<>> /\ freeSlots = PoolTokens
<1>0. /\ QueueOK /\ StepsOK /\ RegistryOK /\ FlightOK /\ SlotsOK
  BY DEF Layers
<1>1. pc = "dead" /\ ~failed /\ shutdown.at = "none"
  BY DEF UpdateWeights, WeightUpdateReady, LockFree, NotRunning
<1>2. plan = <<>> /\ ~HasOutstanding /\ \A r \in Requests : ~Registered(r)
  BY <1>0, <1>1 DEF FlightOK
<1>3. ASSUME NEW r \in Requests
      PROVE  (phase[r] # "new" => Stream!Closed(events[r])) /\ touching[r] = 0 /\ slots[r] = 0
  <2>1. phase[r] \in {"new", "gone"}
    BY <1>0, <1>2 DEF QueueOK, Registered
  <2>2. phase[r] # "new" => Stream!Closed(events[r])
    BY <2>1 DEF GoneIsTerminal, StreamsOK
  <2>3. slots[r] = 0
    BY <1>0, <2>1 DEF SlotsOK
  <2>4. order[r] = <<>>
    BY <1>2 DEF HasOutstanding
  <2>5. touching[r] \in Nat /\ touching[r] + Planning(r) <= Len(order[r])
    BY <1>0 DEF StepsOK, RegistryOK, TouchingIsPlanned
  <2>6. Planning(r) \in Nat /\ Len(order[r]) = 0
    BY <2>4 DEF Planning
  <2>7. touching[r] = 0
    BY <2>5, <2>6
  <2>8. QED
    BY <2>2, <2>3, <2>7
<1>4. SumFunction(slots) = 0
  <2>1. slots \in [Requests -> Nat]
    BY <1>0 DEF SlotsOK
  <2>2. SumFunction(slots) = SumFunctionOnSet(slots, Requests)
    BY <2>1 DEF SumFunction
  <2>3. SumFunctionOnSet(slots, Requests) = 0
    BY <1>3, <2>1, SumZero, RequestsAssumption
  <2>4. QED
    BY <2>2, <2>3
<1>5. freeSlots = PoolTokens
  BY <1>0, <1>4, SizeAssumption DEF SlotsOK
<1>6. QED
  BY <1>2, <1>3, <1>5

\* Weights are replaced only between requests: through cancellations, crashes, failed
\* fences and restarts, no request is served by two versions of the weights, and no KV of
\* the old ones is held or still being written when the new ones come.
THEOREM WeightsNeverSplitARequest == Spec => WeightsChangeBetweenRequests
<1> DEFINE Between ==
      version' # version =>
         /\ \A r \in Requests : /\ phase[r] # "new" => Stream!Closed(events[r])
                               /\ touching[r] = 0
         /\ plan = <<>>
         /\ freeSlots = PoolTokens
<1>1. Layers /\ StreamsOK /\ GoneIsTerminal /\ [Next]_vars => [Between]_vars
  <2> SUFFICES ASSUME Layers, StreamsOK, GoneIsTerminal, Next, version' # version
               PROVE  Between
    OBVIOUS
  <2>1. UpdateWeights
    BY DEF Next, LoopStep, ClientStep, ShutdownStep, StopStep, BeginTick, ReleaseFinished,
           AdmitNext, EndAdmission, Decide, Schedule, Rollback, Launch, LaunchRaises, Launched,
           Drain, Resolve, DrainRaises, Drained, LoopCrashed, LoopStops, LoopShutsDown,
           ShutdownBegins, ShutdownDrains, ShutdownDrainRaises, ShutdownDrained,
           ShutdownFences, ShutdownFinishes, Quarantine, FenceAndDiscard, StopTimesOut,
           StopShutsDown, StopBegins, Start, Submit, Cancel
  <2>2. QED
    BY <2>1, NothingIsLeft
<1>2. Init => StreamsOK /\ GoneIsTerminal
  BY DEF Init, StreamsOK, Stream!Closed, GoneIsTerminal
<1>3. Layers => QueueOK
  BY DEF Layers
<1> HIDE DEF Between
<1>4. Spec => [][Between]_vars
  BY <1>1, <1>2, <1>3, StreamStep, GoneStep, LayersHold, PTL DEF Spec
<1>5. QED
  BY <1>4 DEF WeightsChangeBetweenRequests, Between
=============================================================================
