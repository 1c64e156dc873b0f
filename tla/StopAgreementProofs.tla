------------------------- MODULE StopAgreementProofs -------------------------
(***************************************************************************)
(* The agreement of the training ranks, for every number of ranks, epochs  *)
(* and updates and for every checkpoint interval.  What holds whatever     *)
(* fails rests on two facts: a rank that left an update half done is not   *)
(* "safe" and never reaches a barrier again, and a rank that has a step    *)
(* the others lack got it from a reduction of gradients all of them were   *)
(* in.  Without a failure the ranks of a synchronous run move in lockstep: *)
(* wherever they are, they are bound for the same collective.  Last, what   *)
(* ProcessLaunchProofs shows of a launch holds of it in the composition.   *)
(***************************************************************************)
EXTENDS MCStopAgreement, TLAPS

-----------------------------------------------------------------------------
(* The inductive invariant. *)

Inside == {"loopAgree", "epoch", "epochAgree", "next", "fetch", "grad", "commit", "ask",
           "stepAgree"}
Saving == {"enter", "write", "leave"}

PCs == {"loop", "epoch", "next", "fetch", "commit", "ask", "write", "shutdown", "trainEnd",
        "ending", "exited", "crashed", "killed", "loopAgree", "epochAgree", "stepAgree",
        "grad", "enter", "leave", "final"}

\* The types, without the bounds of the counters.
Shape ==
    /\ pc \in [Ranks -> PCs]
    /\ epoch \in [Ranks -> Nat] /\ window \in [Ranks -> Nat] /\ step \in [Ranks -> Nat]
    /\ safe \in [Ranks -> BOOLEAN] /\ stop \in [Ranks -> BOOLEAN]
    /\ agreed \in [Ranks -> BOOLEAN] /\ vote \in [Ranks -> BOOLEAN]
    /\ saved \in [Ranks -> BOOLEAN] /\ last \in [Ranks -> Nat]
    /\ why \in [Ranks -> {"interval", "shutdown", "end"}]
    /\ outcome \in [Ranks -> {"ok", "failed", "cleanup"}]
    /\ disk \subseteq Nat /\ sig \subseteq Ranks /\ notified \subseteq Ranks
    /\ forward \in BOOLEAN /\ launcher \in {"join", "cleanup", "done"}
    /\ faults \in Nat

\* Epochs, updates and steps stay within the run.
ProgressOK ==
    \A r \in Ranks :
        /\ epoch[r] <= NEpochs /\ window[r] <= NWindows
        /\ epoch[r] = NEpochs => window[r] = 0
        /\ pc[r] \in Inside => epoch[r] < NEpochs
        /\ pc[r] \in Saving /\ why[r] = "interval" => epoch[r] < NEpochs
        /\ pc[r] \in {"fetch", "grad", "commit"} => window[r] < NWindows
        /\ step[r] <= epoch[r] * NWindows + window[r]

\* A rank in the middle of an update is on its way to commit it, or failed for good.
UnsafeOK ==
    \A r \in Ranks :
        /\ pc[r] \in {"grad", "commit"} => ~safe[r]
        /\ ~safe[r] =>
             \/ pc[r] \in {"grad", "commit", "crashed", "killed"}
             \/ pc[r] \in {"shutdown", "trainEnd", "ending"} /\ outcome[r] = "failed"

\* The steps a rank has once it commits the update it is in: the reductions of gradients.
Reduced(r) == IF pc[r] = "commit" THEN step[r] + 1 ELSE step[r]
Lost(r) == ~safe[r] /\ pc[r] \notin {"grad", "commit"}
StepsAgree == \A r, s \in Ranks : Lost(r) \/ Lost(s) \/ Reduced(r) = Reduced(s)

\* While rank 0 writes, no other rank can commit an update.
WriteOK ==
    pc[0] = "write" =>
        \A s \in Ranks : Ended(s) \/ (step[s] = step[0] /\ pc[s] # "commit")

\* A rank that reports success has saved its last step, which rank 0 has written.
SavedOK ==
    /\ \A r \in Ranks :
         /\ pc[r] = "exited" => outcome[r] = "ok"
         /\ pc[r] \in {"trainEnd", "ending", "final", "exited"} /\ outcome[r] = "ok" =>
                saved[r] /\ last[r] = step[r]
    /\ pc[0] = "leave" => step[0] \in disk
    /\ saved[0] => last[0] \in disk

RunInv == Shape /\ ProgressOK /\ UnsafeOK /\ StepsAgree /\ WriteOK /\ SavedOK

-----------------------------------------------------------------------------

\* The ranks are numbered from 0.
LEMMA RankZero == 0 \in Ranks /\ Ranks \subseteq Nat
  BY SizeAssumption DEF Ranks

\* An epoch more is NWindows updates more.
LEMMA Products ==
    /\ NEpochs \in Nat \ {0} /\ NWindows \in Nat \ {0}
    /\ \A e \in Nat : (e + 1) * NWindows = e * NWindows + NWindows
    /\ \A e \in Nat : e < NEpochs => e * NWindows + NWindows <= NEpochs * NWindows
<1>1. NEpochs \in Nat \ {0} /\ NWindows \in Nat \ {0}
  BY SizeAssumption
<1>2. \A e \in Nat : (e + 1) * NWindows = e * NWindows + NWindows
  BY <1>1
<1>3. ASSUME NEW e \in Nat, e < NEpochs
      PROVE  e * NWindows + NWindows <= NEpochs * NWindows
  <2>1. NEpochs = (e + 1) + (NEpochs - e - 1) /\ NEpochs - e - 1 \in Nat
    BY <1>1, <1>3
  <2>2. NEpochs * NWindows = (e + 1) * NWindows + (NEpochs - e - 1) * NWindows
    BY <1>1, <2>1
  <2>3. (NEpochs - e - 1) * NWindows >= 0
    BY <1>1, <2>1
  <2>4. QED
    BY <1>1, <1>2, <2>2, <2>3
<1>4. QED
  BY <1>1, <1>2, <1>3

\* Every rank starts at the head of the loop, with nothing done.
LEMMA RunInit == Init => RunInv
<1> SUFFICES ASSUME Init PROVE RunInv
  OBVIOUS
<1> USE RankZero DEF Init, Every
<1>1. Shape
  BY DEF Shape, PCs
<1>2. ProgressOK
  BY Products DEF ProgressOK, Inside, Saving
<1>3. UnsafeOK /\ StepsAgree
  BY DEF UnsafeOK, StepsAgree, Lost, Reduced
<1>4. WriteOK /\ SavedOK
  BY DEF WriteOK, SavedOK
<1>5. QED
  BY <1>1, <1>2, <1>3, <1>4 DEF RunInv

\* Progress keeps its bounds.
LEMMA ProgressStep == Shape /\ ProgressOK /\ [Next]_vars => ProgressOK'
<1> SUFFICES ASSUME Shape, ProgressOK, [Next]_vars PROVE ProgressOK'
  OBVIOUS
<1> USE Products DEF Shape, PCs, ProgressOK, Inside, Saving, Goes, flags, callback, progress,
                     signalVars
<1>1. ASSUME NEW r \in Ranks, Loop(r) PROVE ProgressOK'
  BY <1>1 DEF Loop, AskStop
<1>2. ASSUME NEW r \in Ranks, EpochBegins(r) \/ Ask(r) PROVE ProgressOK'
  BY <1>2 DEF EpochBegins, Ask, AskStop
<1>3. ASSUME NEW r \in Ranks, NextWindow(r) PROVE ProgressOK'
  BY <1>3 DEF NextWindow, EpochDone
<1>4. ASSUME NEW r \in Ranks, Fetch(r) PROVE ProgressOK'
  BY <1>4 DEF Fetch
<1>5. ASSUME NEW r \in Ranks, Commit(r) PROVE ProgressOK'
  BY <1>5 DEF Commit
<1>6. ASSUME NEW r \in Ranks, Write(r) PROVE ProgressOK'
  BY <1>6 DEF Write
<1>7. ASSUME NEW r \in Ranks, OnShutdown(r) \/ OnTrainEnd(r) PROVE ProgressOK'
  BY <1>7 DEF OnShutdown, OnTrainEnd, SaveFor
<1>8. ASSUME NEW r \in Ranks, Ending(r) PROVE ProgressOK'
  BY <1>8 DEF Ending
<1>9. ASSUME NEW r \in Ranks, CollectiveFails(r) \/ TimesOut(r) \/ StepRaises(r)
      PROVE  ProgressOK'
  BY <1>9 DEF CollectiveFails, TimesOut, StepRaises, Raise, InSave, AfterSave
<1>10. ASSUME NEW r \in Ranks, Dies(r) \/ Deliver(r) PROVE ProgressOK'
  BY <1>10 DEF Dies, Deliver
<1>11. CASE Complete
  BY <1>11 DEF Complete, Passes, AfterSave, Waits, Collective
<1>12. CASE LauncherStep \/ Forward \/ Signal
  BY <1>12 DEF LauncherStep, Observe, Kill, Done, Forward, Signal, Living
<1>13. CASE UNCHANGED vars
  BY <1>13 DEF vars
<1>14. QED
  BY <1>1, <1>2, <1>3, <1>4, <1>5, <1>6, <1>7, <1>8, <1>9, <1>10, <1>11, <1>12, <1>13
     DEF Next, RankStep, RankFault

\* Every step keeps the types.
LEMMA ShapeStep == Shape /\ [Next]_vars => Shape'
<1> SUFFICES ASSUME Shape, [Next]_vars PROVE Shape'
  OBVIOUS
<1> USE DEF Shape, PCs, Goes, flags, callback, progress, signalVars
<1>1. ASSUME NEW r \in Ranks, Loop(r) PROVE Shape'
  BY <1>1 DEF Loop, AskStop
<1>2. ASSUME NEW r \in Ranks, EpochBegins(r) \/ Ask(r) PROVE Shape'
  <2>1. CASE EpochBegins(r)
    BY <2>1 DEF EpochBegins, AskStop
  <2>2. CASE Ask(r)
    BY <2>2 DEF Ask, AskStop
  <2>3. QED
    BY <1>2, <2>1, <2>2
<1>3. ASSUME NEW r \in Ranks, NextWindow(r) PROVE Shape'
  BY <1>3 DEF NextWindow, EpochDone
<1>4. ASSUME NEW r \in Ranks, Fetch(r) PROVE Shape'
  BY <1>4 DEF Fetch
<1>5. ASSUME NEW r \in Ranks, Commit(r) PROVE Shape'
  BY <1>5 DEF Commit
<1>6. ASSUME NEW r \in Ranks, Write(r) PROVE Shape'
  BY <1>6, ZenonT(60) DEF Write
<1>7. ASSUME NEW r \in Ranks, OnShutdown(r) \/ OnTrainEnd(r) PROVE Shape'
  <2>1. CASE OnShutdown(r)
    BY <2>1 DEF OnShutdown, SaveFor
  <2>2. CASE OnTrainEnd(r)
    BY <2>2 DEF OnTrainEnd, SaveFor
  <2>3. QED
    BY <1>7, <2>1, <2>2
<1>8. ASSUME NEW r \in Ranks, Ending(r) PROVE Shape'
  BY <1>8 DEF Ending
<1>9. ASSUME NEW r \in Ranks, CollectiveFails(r) \/ TimesOut(r) \/ StepRaises(r)
      PROVE  Shape'
  <2>1. CASE CollectiveFails(r)
    BY <2>1 DEF CollectiveFails, Raise, InSave, AfterSave, Waits, Collective
  <2>2. CASE TimesOut(r)
    BY <2>2 DEF TimesOut, Fault, Raise, InSave, AfterSave, Waits, Collective
  <2>3. CASE StepRaises(r)
    BY <2>3 DEF StepRaises, Fault, Raise, InSave, AfterSave, Waits, Collective
  <2>4. QED
    BY <1>9, <2>1, <2>2, <2>3
<1>10. ASSUME NEW r \in Ranks, Dies(r) \/ Deliver(r) PROVE Shape'
  <2>1. CASE Dies(r)
    BY <2>1 DEF Dies, Fault
  <2>2. CASE Deliver(r)
    BY <2>2 DEF Deliver
  <2>3. QED
    BY <1>10, <2>1, <2>2
<1>11. CASE Complete
  <2>1. \A r \in Ranks : Passes(r) \in PCs
    BY <1>11 DEF Complete, Passes, AfterSave, Waits, Collective
  <2>2. QED
    BY <1>11, <2>1 DEF Complete, Agreement
<1>12. CASE LauncherStep \/ Forward \/ Signal
  BY <1>12 DEF LauncherStep, Observe, Kill, Done, Forward, Signal, Living
<1>13. CASE UNCHANGED vars
  BY <1>13 DEF vars
<1>14. QED
  BY <1>1, <1>2, <1>3, <1>4, <1>5, <1>6, <1>7, <1>8, <1>9, <1>10, <1>11, <1>12, <1>13
     DEF Next, RankStep, RankFault

\* What is left of the type invariant.
LEMMA ShapeIsType == Shape /\ ProgressOK => TypeOK
<1> SUFFICES ASSUME Shape, ProgressOK PROVE TypeOK
  OBVIOUS
<1> USE Products DEF Shape, ProgressOK
<1>1. ASSUME NEW r \in Ranks
      PROVE  /\ epoch[r] \in 0 .. (NEpochs + 1)
             /\ window[r] \in 0 .. NWindows
             /\ step[r] \in 0 .. (NEpochs * NWindows)
  <2>1. epoch[r] \in Nat /\ window[r] \in Nat /\ step[r] \in Nat
    OBVIOUS
  <2>2. CASE epoch[r] = NEpochs
    BY <2>1, <2>2
  <2>3. CASE epoch[r] < NEpochs
    <3>1. epoch[r] * NWindows + NWindows <= NEpochs * NWindows
      BY <2>1, <2>3
    <3>2. step[r] <= epoch[r] * NWindows + window[r] /\ window[r] <= NWindows
      OBVIOUS
    <3>3. epoch[r] * NWindows \in Nat /\ NEpochs * NWindows \in Nat
      BY <2>1
    <3>4. step[r] <= NEpochs * NWindows
      BY <2>1, <3>1, <3>2, <3>3
    <3>5. QED
      BY <2>1, <3>2, <3>3, <3>4
  <2>4. QED
    BY <2>1, <2>2, <2>3, SMTT(60)
<1>2. /\ epoch \in [Ranks -> 0 .. (NEpochs + 1)]
      /\ window \in [Ranks -> 0 .. NWindows]
      /\ step \in [Ranks -> 0 .. (NEpochs * NWindows)]
  BY <1>1, Zenon
<1>3. PCs = DOMAIN Collective \cup
              {"loop", "epoch", "next", "fetch", "commit", "ask", "write", "shutdown",
               "trainEnd", "ending", "exited", "crashed", "killed"}
  BY DEF PCs, Collective
<1>4. \A f \in {safe, stop, agreed, vote, saved} : f \in [Ranks -> BOOLEAN]
  OBVIOUS
<1>5. QED
  BY <1>2, <1>3, <1>4 DEF TypeOK

\* An unsafe rank commits or is lost.
LEMMA UnsafeStep == Shape /\ UnsafeOK /\ [Next]_vars => UnsafeOK'
<1> SUFFICES ASSUME Shape, UnsafeOK, [Next]_vars PROVE UnsafeOK'
  OBVIOUS
<1> USE DEF Shape, PCs, UnsafeOK, Goes, flags, callback, progress, signalVars
<1>1. ASSUME NEW r \in Ranks, Loop(r) PROVE UnsafeOK'
  BY <1>1 DEF Loop, AskStop
<1>2. ASSUME NEW r \in Ranks, EpochBegins(r) \/ Ask(r) PROVE UnsafeOK'
  BY <1>2 DEF EpochBegins, Ask, AskStop
<1>3. ASSUME NEW r \in Ranks, NextWindow(r) PROVE UnsafeOK'
  BY <1>3 DEF NextWindow, EpochDone
<1>4. ASSUME NEW r \in Ranks, Fetch(r) PROVE UnsafeOK'
  BY <1>4 DEF Fetch
<1>5. ASSUME NEW r \in Ranks, Commit(r) PROVE UnsafeOK'
  BY <1>5 DEF Commit
<1>6. ASSUME NEW r \in Ranks, Write(r) PROVE UnsafeOK'
  BY <1>6 DEF Write
<1>7. ASSUME NEW r \in Ranks, OnShutdown(r) \/ OnTrainEnd(r) PROVE UnsafeOK'
  BY <1>7 DEF OnShutdown, OnTrainEnd, SaveFor, Unsaved
<1>8. ASSUME NEW r \in Ranks, Ending(r) PROVE UnsafeOK'
  BY <1>8 DEF Ending
<1>9. ASSUME NEW r \in Ranks, CollectiveFails(r) \/ TimesOut(r) \/ StepRaises(r)
      PROVE  UnsafeOK'
  BY <1>9 DEF CollectiveFails, TimesOut, StepRaises, Raise, InSave, AfterSave, Waits, Collective
<1>10. ASSUME NEW r \in Ranks, Dies(r) \/ Deliver(r) PROVE UnsafeOK'
  BY <1>10 DEF Dies, Deliver
<1>11. CASE Complete
  BY <1>11 DEF Complete, Passes, AfterSave, Waits, Collective
<1>12. CASE LauncherStep \/ Forward \/ Signal
  BY <1>12 DEF LauncherStep, Observe, Kill, Done, Forward, Signal, Living
<1>13. CASE UNCHANGED vars
  BY <1>13 DEF vars
<1>14. QED
  BY <1>1, <1>2, <1>3, <1>4, <1>5, <1>6, <1>7, <1>8, <1>9, <1>10, <1>11, <1>12, <1>13
     DEF Next, RankStep, RankFault

\* No rank gets a step for which not all were in the reduction of gradients.
LEMMA StepsStep ==
    Shape /\ UnsafeOK /\ StepsAgree /\ [Next]_vars => StepsAgree'
<1> SUFFICES ASSUME Shape, UnsafeOK, StepsAgree, [Next]_vars PROVE StepsAgree'
  OBVIOUS
<1> USE DEF Shape, PCs, UnsafeOK, StepsAgree, Lost, Reduced, Goes, flags, callback, progress,
            signalVars
<1>a. ASSUME \A q \in Ranks : Lost(q)' \/ (~Lost(q) /\ Reduced(q)' = Reduced(q))
      PROVE  StepsAgree'
  BY <1>a DEF StepsAgree
<1>1. ASSUME NEW r \in Ranks, Loop(r) PROVE StepsAgree'
  BY <1>1 DEF Loop, AskStop
<1>2. ASSUME NEW r \in Ranks, EpochBegins(r) \/ Ask(r) PROVE StepsAgree'
  BY <1>2 DEF EpochBegins, Ask, AskStop
<1>3. ASSUME NEW r \in Ranks, NextWindow(r) PROVE StepsAgree'
  BY <1>3 DEF NextWindow, EpochDone
<1>4. ASSUME NEW r \in Ranks, Fetch(r) PROVE StepsAgree'
  BY <1>4 DEF Fetch
<1>5. ASSUME NEW r \in Ranks, Commit(r) PROVE StepsAgree'
  BY <1>5 DEF Commit
<1>6. ASSUME NEW r \in Ranks, Write(r) PROVE StepsAgree'
  BY <1>6 DEF Write
<1>7. ASSUME NEW r \in Ranks, OnShutdown(r) \/ OnTrainEnd(r) PROVE StepsAgree'
  BY <1>7 DEF OnShutdown, OnTrainEnd, SaveFor, Unsaved
<1>8. ASSUME NEW r \in Ranks, Ending(r) PROVE StepsAgree'
  BY <1>8 DEF Ending
<1>9. ASSUME NEW r \in Ranks, CollectiveFails(r) \/ TimesOut(r) \/ StepRaises(r)
      PROVE  StepsAgree'
  <2>1. CASE CollectiveFails(r)
    BY <2>1 DEF CollectiveFails, Raise, InSave, AfterSave, Waits, Collective
  <2>2. CASE TimesOut(r)
    BY <2>2 DEF TimesOut, Raise, InSave, AfterSave, Waits, Collective
  <2>3. CASE StepRaises(r)
    <3>1. ASSUME NEW q \in Ranks PROVE Lost(q)' \/ (~Lost(q) /\ Reduced(q)' = Reduced(q))
      BY <2>3 DEF StepRaises, Raise, InSave, AfterSave
    <3>2. QED
      BY <1>a, <3>1
  <2>4. QED
    BY <1>9, <2>1, <2>2, <2>3
<1>10. ASSUME NEW r \in Ranks, Dies(r) \/ Deliver(r) PROVE StepsAgree'
  <2>1. CASE Dies(r)
    <3>1. ASSUME NEW q \in Ranks PROVE Lost(q)' \/ (~Lost(q) /\ Reduced(q)' = Reduced(q))
      BY <2>1 DEF Dies, Ended
    <3>2. QED
      BY <1>a, <3>1
  <2>2. CASE Deliver(r)
    BY <2>2 DEF Deliver
  <2>3. QED
    BY <1>10, <2>1, <2>2
<1>11. CASE Complete
  BY <1>11 DEF Complete, Passes, AfterSave, Waits, Collective
<1>12. CASE LauncherStep \/ Forward \/ Signal
  <2>1. ASSUME NEW q \in Ranks PROVE Lost(q)' \/ (~Lost(q) /\ Reduced(q)' = Reduced(q))
    BY <1>12 DEF LauncherStep, Observe, Kill, Done, Forward, Signal, Living, Ended
  <2>2. QED
    BY <1>a, <2>1
<1>13. CASE UNCHANGED vars
  BY <1>13 DEF vars
<1>14. QED
  BY <1>1, <1>2, <1>3, <1>4, <1>5, <1>6, <1>7, <1>8, <1>9, <1>10, <1>11, <1>12, <1>13
     DEF Next, RankStep, RankFault

\* Nobody overtakes rank 0 while it writes.
LEMMA WriteStep ==
    Shape /\ UnsafeOK /\ StepsAgree /\ WriteOK /\ [Next]_vars => WriteOK'
<1> SUFFICES ASSUME Shape, UnsafeOK, StepsAgree, WriteOK, [Next]_vars PROVE WriteOK'
  OBVIOUS
<1> USE RankZero DEF Shape, PCs, UnsafeOK, WriteOK, Ended, Goes, flags, callback, progress,
            signalVars
<1>1. ASSUME NEW r \in Ranks, Loop(r) PROVE WriteOK'
  BY <1>1 DEF Loop, AskStop
<1>2. ASSUME NEW r \in Ranks, EpochBegins(r) \/ Ask(r) PROVE WriteOK'
  <2>1. CASE EpochBegins(r)
    BY <2>1 DEF EpochBegins, AskStop
  <2>2. CASE Ask(r)
    BY <2>2 DEF Ask, AskStop
  <2>3. QED
    BY <1>2, <2>1, <2>2
<1>3. ASSUME NEW r \in Ranks, NextWindow(r) PROVE WriteOK'
  BY <1>3 DEF NextWindow, EpochDone
<1>4. ASSUME NEW r \in Ranks, Fetch(r) PROVE WriteOK'
  BY <1>4 DEF Fetch
<1>5. ASSUME NEW r \in Ranks, Commit(r) PROVE WriteOK'
  BY <1>5 DEF Commit
<1>6. ASSUME NEW r \in Ranks, Write(r) PROVE WriteOK'
  BY <1>6 DEF Write
<1>7. ASSUME NEW r \in Ranks, OnShutdown(r) \/ OnTrainEnd(r) PROVE WriteOK'
  BY <1>7 DEF OnShutdown, OnTrainEnd, SaveFor, Unsaved
<1>8. ASSUME NEW r \in Ranks, Ending(r) PROVE WriteOK'
  BY <1>8 DEF Ending
<1>9. ASSUME NEW r \in Ranks, CollectiveFails(r) \/ TimesOut(r) \/ StepRaises(r) PROVE WriteOK'
  BY <1>9 DEF CollectiveFails, TimesOut, StepRaises, Raise, InSave, AfterSave, Waits, Collective
<1>10. ASSUME NEW r \in Ranks, Dies(r) \/ Deliver(r) PROVE WriteOK'
  BY <1>10 DEF Dies, Deliver
<1>11. CASE Complete
  <2> SUFFICES ASSUME pc'[0] = "write", NEW q \in Ranks
               PROVE  Ended(q)' \/ (step'[q] = step'[0] /\ pc'[q] # "commit")
    BY DEF WriteOK
  <2>1. pc[0] = "enter"
    BY <1>11 DEF Complete, Passes, AfterSave, Waits, Collective
  <2>2. pc[q] \in {"enter", "leave", "final"}
    BY <1>11, <2>1 DEF Complete, Waits, Collective
  <2>3. step[q] = step[0]
    BY <2>1, <2>2 DEF StepsAgree, Lost, Reduced
  <2>4. QED
    BY <1>11, <2>2, <2>3 DEF Complete, Passes, AfterSave
<1>12. CASE LauncherStep \/ Forward \/ Signal
  BY <1>12 DEF LauncherStep, Observe, Kill, Done, Forward, Signal, Living
<1>13. CASE UNCHANGED vars
  BY <1>13 DEF vars
<1>14. QED
  BY <1>1, <1>2, <1>3, <1>4, <1>5, <1>6, <1>7, <1>8, <1>9, <1>10, <1>11, <1>12, <1>13
     DEF Next, RankStep, RankFault

\* Success is only reported for what is on disk.
LEMMA SavedStep ==
    Shape /\ UnsafeOK /\ StepsAgree /\ SavedOK /\ [Next]_vars => SavedOK'
<1> SUFFICES ASSUME Shape, UnsafeOK, StepsAgree, SavedOK, [Next]_vars PROVE SavedOK'
  OBVIOUS
<1> USE RankZero DEF Shape, PCs, UnsafeOK, SavedOK, Goes, flags, callback, progress, signalVars
<1>1. ASSUME NEW r \in Ranks, Loop(r) PROVE SavedOK'
  BY <1>1 DEF Loop, AskStop
<1>2. ASSUME NEW r \in Ranks, EpochBegins(r) \/ Ask(r) PROVE SavedOK'
  BY <1>2 DEF EpochBegins, Ask, AskStop
<1>3. ASSUME NEW r \in Ranks, NextWindow(r) PROVE SavedOK'
  BY <1>3 DEF NextWindow, EpochDone
<1>4. ASSUME NEW r \in Ranks, Fetch(r) PROVE SavedOK'
  BY <1>4 DEF Fetch
<1>5. ASSUME NEW r \in Ranks, Commit(r) PROVE SavedOK'
  BY <1>5 DEF Commit
<1>6. ASSUME NEW r \in Ranks, Write(r) PROVE SavedOK'
  BY <1>6 DEF Write
<1>7. ASSUME NEW r \in Ranks, OnShutdown(r) \/ OnTrainEnd(r) PROVE SavedOK'
  BY <1>7 DEF OnShutdown, OnTrainEnd, SaveFor, Unsaved
<1>8. ASSUME NEW r \in Ranks, Ending(r) PROVE SavedOK'
  BY <1>8 DEF Ending
<1>9. ASSUME NEW r \in Ranks, CollectiveFails(r) \/ TimesOut(r) \/ StepRaises(r) PROVE SavedOK'
  BY <1>9 DEF CollectiveFails, TimesOut, StepRaises, Raise, InSave, AfterSave, Waits, Collective
<1>10. ASSUME NEW r \in Ranks, Dies(r) \/ Deliver(r) PROVE SavedOK'
  BY <1>10 DEF Dies, Deliver
<1>11. CASE Complete
  BY <1>11 DEF Complete, Passes, AfterSave, Waits, Collective
<1>12. CASE LauncherStep \/ Forward \/ Signal
  BY <1>12 DEF LauncherStep, Observe, Kill, Done, Forward, Signal, Living
<1>13. CASE UNCHANGED vars
  BY <1>13 DEF vars
<1>14. QED
  BY <1>1, <1>2, <1>3, <1>4, <1>5, <1>6, <1>7, <1>8, <1>9, <1>10, <1>11, <1>12, <1>13
     DEF Next, RankStep, RankFault

\* What holds whatever fails.
LEMMA RunHolds == Spec => []RunInv
<1>1. RunInv /\ [Next]_vars => RunInv'
  BY ShapeStep, ProgressStep, UnsafeStep, StepsStep, WriteStep, SavedStep DEF RunInv
<1>2. QED
  BY RunInit, <1>1, PTL DEF Spec

-----------------------------------------------------------------------------
(* Without a failure: lockstep. *)

\* What a rank will wait in next, and the epoch and the update it will be at.
Turns(r) == agreed[r] \/ window[r] = NWindows
FromTrainEnd(r) == IF step[r] # last[r] THEN "enter end" ELSE "final"
FromShutdown(r) == IF Unsaved(r) THEN "enter shutdown" ELSE FromTrainEnd(r)
FromLoop(r, e) == IF e >= NEpochs \/ agreed[r] THEN FromShutdown(r) ELSE "loopAgree"
Enters(r) == IF why[r] = "interval" THEN "enter interval"
             ELSE IF why[r] = "shutdown" THEN "enter shutdown" ELSE "enter end"
Leaves(r) == IF why[r] = "interval" THEN "leave interval"
             ELSE IF why[r] = "shutdown" THEN "leave shutdown" ELSE "leave end"
BoundFor(r) ==
    CASE pc[r] = "loop"     -> FromLoop(r, epoch[r])
      [] pc[r] = "epoch"    -> "epochAgree"
      [] pc[r] = "next"     -> IF Turns(r) THEN FromLoop(r, epoch[r] + 1) ELSE "grad"
      [] pc[r] = "fetch"    -> "grad"
      [] pc[r] = "commit"   -> IF Due(r) THEN "enter interval" ELSE "stepAgree"
      [] pc[r] = "ask"      -> "stepAgree"
      [] pc[r] = "shutdown" -> FromShutdown(r)
      [] pc[r] = "trainEnd" -> FromTrainEnd(r)
      [] pc[r] = "ending"   -> "final"
      [] pc[r] = "enter"    -> Enters(r)
      [] pc[r] \in {"write", "leave"} -> Leaves(r)
      [] OTHER -> pc[r]
BoundEpoch(r) == IF pc[r] = "next" /\ Turns(r) THEN epoch[r] + 1 ELSE epoch[r]
BoundWindow(r) ==
    IF pc[r] = "next" /\ Turns(r) THEN 0
    ELSE IF pc[r] = "commit" THEN window[r] + 1 ELSE window[r]

\* Ranks that run without a failure, and what they have in common.
Running(r) ==
    /\ pc[r] \notin {"crashed", "killed"} /\ outcome[r] = "ok"
    /\ safe[r] <=> pc[r] \notin {"grad", "commit"}
InStep(r, s) ==
    /\ agreed[r] = agreed[s] /\ last[r] = last[s] /\ saved[r] = saved[s]
    /\ BoundFor(r) = BoundFor(s) /\ BoundEpoch(r) = BoundEpoch(s)
    /\ BoundWindow(r) = BoundWindow(s) /\ Reduced(r) = Reduced(s)
Lockstep ==
    faults = 0 =>
        /\ launcher # "cleanup"
        /\ \A r \in Ranks : Running(r)
        /\ \A r, s \in Ranks : InStep(r, s)

\* A rank nothing happens to stays bound for the same collective.
Still(q) ==
    /\ pc'[q] = pc[q] /\ why'[q] = why[q] /\ safe'[q] = safe[q] /\ outcome'[q] = outcome[q]
    /\ epoch'[q] = epoch[q] /\ window'[q] = window[q] /\ step'[q] = step[q]
    /\ agreed'[q] = agreed[q] /\ last'[q] = last[q] /\ saved'[q] = saved[q]
Keeps(q) ==
    /\ Running(q)'
    /\ agreed'[q] = agreed[q] /\ last'[q] = last[q] /\ saved'[q] = saved[q]
    /\ BoundFor(q)' = BoundFor(q) /\ BoundEpoch(q)' = BoundEpoch(q)
    /\ BoundWindow(q)' = BoundWindow(q) /\ Reduced(q)' = Reduced(q)

\* A rank that does nothing is bound for the same collective as before.
LEMMA StillKeeps == ASSUME NEW q \in Ranks, Still(q), Running(q) PROVE Keeps(q)
<1> USE DEF Still
<1>1. BoundFor(q)' = BoundFor(q)
  BY DEF BoundFor, FromLoop, FromShutdown, FromTrainEnd, Unsaved, Turns, Due, Enters, Leaves
<1>2. BoundEpoch(q)' = BoundEpoch(q) /\ BoundWindow(q)' = BoundWindow(q)
  BY DEF BoundEpoch, BoundWindow, Turns
<1>3. QED
  BY <1>1, <1>2 DEF Keeps, Running, Reduced

\* A rank that takes a step of its own is bound for the same collective as before.
LEMMA LocalKeeps ==
    ASSUME Mode = "window", Shape, ProgressOK, NEW r \in Ranks, Running(r),
           \/ Loop(r) \/ EpochBegins(r) \/ NextWindow(r) \/ Fetch(r) \/ Commit(r) \/ Ask(r)
           \/ Write(r) \/ OnShutdown(r) \/ OnTrainEnd(r) \/ Ending(r)
    PROVE  Keeps(r) /\ \A q \in Ranks : q # r => Still(q)
<1> USE DEF Shape, PCs, Goes, flags, callback, progress, Running
<1>1. CASE Loop(r)
  BY <1>1, ZenonT(60) DEF Loop, AskStop, ShouldStop, Keeps, Still, BoundFor, BoundEpoch, BoundWindow,
              Reduced, FromLoop, FromShutdown, FromTrainEnd, Unsaved
<1>2. CASE EpochBegins(r)
  BY <1>2 DEF EpochBegins, AskStop, Keeps, Still, BoundFor, BoundEpoch, BoundWindow, Reduced
<1>3. CASE NextWindow(r)
  <2> USE DEF NextWindow, EpochDone, ShouldStop
  <2>1. /\ \A q \in Ranks : q # r => Still(q)
        /\ Running(r)' /\ Reduced(r)' = Reduced(r)
        /\ UNCHANGED <<agreed, last, saved, step>>
    BY <1>3 DEF Still, Reduced
  <2>2. CASE Turns(r)
    <3>1. pc[r] = "next" /\ pc'[r] = "loop" /\ epoch'[r] = epoch[r] + 1 /\ window'[r] = 0
      BY <1>3, <2>2 DEF Turns
    <3>2. BoundFor(r) = FromLoop(r, epoch[r] + 1) /\ BoundFor(r)' = FromLoop(r, epoch[r] + 1)
      BY <2>1, <2>2, <3>1 DEF BoundFor, FromLoop, FromShutdown, FromTrainEnd, Unsaved
    <3>3. QED
      BY <2>1, <2>2, <3>1, <3>2 DEF Keeps, BoundEpoch, BoundWindow
  <2>3. CASE ~Turns(r)
    <3>1. /\ pc[r] = "next" /\ pc'[r] = "fetch"
          /\ epoch'[r] = epoch[r] /\ window'[r] = window[r]
      BY <1>3, <2>3 DEF Turns
    <3>2. QED
      BY <2>1, <2>3, <3>1 DEF Keeps, BoundFor, BoundEpoch, BoundWindow
  <2>4. QED
    BY <2>1, <2>2, <2>3
<1>4. CASE Fetch(r)
  BY <1>4 DEF Fetch, Keeps, Still, BoundFor, BoundEpoch, BoundWindow, Reduced
<1>5. CASE Commit(r)
  BY <1>5, ZenonT(60) DEF Commit, Due, Keeps, Still, BoundFor, BoundEpoch, BoundWindow, Reduced,
              Enters
<1>6. CASE Ask(r)
  BY <1>6 DEF Ask, AskStop, Keeps, Still, BoundFor, BoundEpoch, BoundWindow, Reduced
<1>7. CASE Write(r)
  BY <1>7 DEF Write, Keeps, Still, BoundFor, BoundEpoch, BoundWindow, Reduced, Leaves
<1>8. CASE OnShutdown(r)
  BY <1>8, ZenonT(60) DEF OnShutdown, SaveFor, Keeps, Still, BoundFor, BoundEpoch, BoundWindow,
              Reduced, Enters, FromShutdown, FromTrainEnd, Unsaved
<1>9. CASE OnTrainEnd(r)
  BY <1>9, ZenonT(60) DEF OnTrainEnd, SaveFor, Keeps, Still, BoundFor, BoundEpoch, BoundWindow,
              Reduced, Enters, FromTrainEnd
<1>10. CASE Ending(r)
  BY <1>10 DEF Ending, Keeps, Still, BoundFor, BoundEpoch, BoundWindow, Reduced
<1>11. QED
  BY <1>1, <1>2, <1>3, <1>4, <1>5, <1>6, <1>7, <1>8, <1>9, <1>10

\* A collective all ranks wait in takes them on together.
LEMMA CompleteInStep ==
    ASSUME Shape, Complete, \A r \in Ranks : Running(r), \A r, s \in Ranks : InStep(r, s)
    PROVE  /\ \A r \in Ranks : Running(r)'
           /\ \A r, s \in Ranks : InStep(r, s)'
<1> USE DEF Shape, PCs, flags, progress
<1>1. ASSUME NEW r \in Ranks, NEW s \in Ranks
      PROVE  /\ pc[r] = pc[s] /\ epoch[r] = epoch[s] /\ window[r] = window[s]
             /\ step[r] = step[s] /\ agreed[r] = agreed[s] /\ last[r] = last[s]
             /\ saved[r] = saved[s]
             /\ pc[r] \in {"enter", "leave"} => why[r] = why[s]
  <2>1. Waits(r) /\ Waits(s) /\ InStep(r, s)
    BY DEF Complete
  <2> HIDE DEF Shape
  <2>a. BoundFor(r) = BoundFor(s)
    BY <2>1 DEF InStep
  <2>b. \A q \in {r, s} :
            /\ pc[q] \in {"loopAgree", "epochAgree", "stepAgree", "grad", "enter", "leave",
                           "final"}
            /\ why[q] \in {"interval", "shutdown", "end"}
            /\ BoundFor(q) = CASE pc[q] = "enter" -> Enters(q)
                               [] pc[q] = "leave" -> Leaves(q)
                               [] OTHER -> pc[q]
    BY <2>1 DEF Waits, Collective, BoundFor, Shape
  <2>2. pc[r] = pc[s] /\ (pc[r] \in {"enter", "leave"} => why[r] = why[s])
    BY <2>a, <2>b DEF Enters, Leaves
  <2>3. QED
    BY <2>1, <2>2 DEF InStep, Waits, Collective, BoundEpoch, BoundWindow, Reduced
<1>2. ASSUME NEW r \in Ranks PROVE Running(r)'
  BY DEF Complete, Running, Passes, AfterSave, Waits, Collective
<1>3. ASSUME NEW r \in Ranks, NEW s \in Ranks PROVE InStep(r, s)'
  <2>1. /\ pc'[r] = pc'[s] /\ epoch'[r] = epoch'[s] /\ window'[r] = window'[s]
        /\ step'[r] = step'[s] /\ agreed'[r] = agreed'[s] /\ last'[r] = last'[s]
        /\ saved'[r] = saved'[s]
    <3>1. Waits(r) /\ Running(r) /\ Running(s)
      BY DEF Complete
    <3>2. Passes(r) = Passes(s)
      BY <1>1, <3>1 DEF Passes, AfterSave, Agreement, Running, Waits, Collective
    <3>3. pc'[r] = Passes(r) /\ pc'[s] = Passes(s)
      BY DEF Complete
    <3>4. UNCHANGED <<epoch, window, step>>
      BY DEF Complete
    <3>5. agreed'[r] = agreed'[s]
      BY <1>1 DEF Complete, Agreement
    <3>6. last'[r] = last'[s] /\ saved'[r] = saved'[s]
      BY <1>1 DEF Complete
    <3>7. QED
      BY <1>1, <3>2, <3>3, <3>4, <3>5, <3>6
  <2>2. pc'[r] \in Saving => why'[r] = why'[s]
    <3>1. Waits(r)
      BY DEF Complete
    <3>2. pc'[r] = Passes(r) /\ why' = why
      BY DEF Complete
    <3>3. Passes(r) \in Saving => pc[r] = "enter"
      BY <3>1 DEF Passes, AfterSave, Waits, Collective, Saving
    <3>4. QED
      BY <1>1, <3>2, <3>3
  <2>3. BoundFor(r)' = BoundFor(s)'
    BY <2>1, <2>2 DEF BoundFor, FromLoop, FromShutdown, FromTrainEnd, Unsaved, Turns, Due,
                      Enters, Leaves, Saving
  <2>4. QED
    BY <2>1, <2>3 DEF InStep, BoundEpoch, BoundWindow, Reduced, Turns
<1>4. QED
  BY <1>2, <1>3

\* As long as nothing fails, no step takes a rank out of step.
LEMMA LockstepStep ==
    Mode = "window" /\ RunInv /\ Lockstep /\ [Next]_vars => Lockstep'
<1> SUFFICES ASSUME Mode = "window", RunInv, Lockstep, [Next]_vars, faults' = 0
             PROVE  /\ launcher' # "cleanup"
                    /\ \A r \in Ranks : Running(r)'
                    /\ \A r, s \in Ranks : InStep(r, s)'
  BY DEF Lockstep
<1> DEFINE Goal == /\ launcher' # "cleanup"
                   /\ \A r \in Ranks : Running(r)'
                   /\ \A r, s \in Ranks : InStep(r, s)'
<1>0. Shape /\ ProgressOK
  BY DEF RunInv
<1>a. faults = 0 => /\ launcher # "cleanup"
                    /\ \A r \in Ranks : Running(r)
                    /\ \A r, s \in Ranks : InStep(r, s)
  BY DEF Lockstep
<1>b. ASSUME faults = 0, launcher' = launcher, \A q \in Ranks : Keeps(q) PROVE Goal
  BY <1>a, <1>b DEF Keeps, InStep
<1>c. ASSUME NEW r \in Ranks, faults = 0, launcher' = launcher,
             \/ Loop(r) \/ EpochBegins(r) \/ NextWindow(r) \/ Fetch(r) \/ Commit(r) \/ Ask(r)
             \/ Write(r) \/ OnShutdown(r) \/ OnTrainEnd(r) \/ Ending(r)
      PROVE  Goal
  BY <1>0, <1>a, <1>b, <1>c, LocalKeeps, StillKeeps
<1>d. ASSUME faults = 0, launcher' = launcher, \A q \in Ranks : Still(q) PROVE Goal
  BY <1>a, <1>b, <1>d, StillKeeps
\* Nobody has ended, so nobody waits for it, and all who wait do so in the same collective.
<1>e. faults = 0 => \A r \in Ranks : Waits(r) => ~Hopeless(r)
  <2> SUFFICES ASSUME faults = 0, NEW r \in Ranks, Waits(r), NEW s \in Ranks,
                      Ended(s) \/ (Waits(s) /\ Collective[pc[s]] # Collective[pc[r]])
               PROVE  FALSE
    BY DEF Hopeless
  <2>1. Running(s) /\ InStep(r, s)
    BY <1>a
  <2>2. pc[r] = "exited" \/ pc[s] # "exited"
    BY <2>1 DEF InStep, BoundFor, Waits, Collective, Enters, Leaves
  <2>3. Waits(s) => pc[s] = pc[r]
    BY <2>1 DEF InStep, BoundFor, Waits, Collective, Enters, Leaves
  <2>4. QED
    BY <2>1, <2>2, <2>3 DEF Running, Ended, Waits, Collective
<1> HIDE DEF Goal
<1> SUFFICES Goal
  BY DEF Goal
<1>1. ASSUME NEW r \in Ranks,
             \/ Loop(r) \/ EpochBegins(r) \/ NextWindow(r) \/ Fetch(r) \/ Commit(r) \/ Ask(r)
             \/ Write(r) \/ OnShutdown(r) \/ OnTrainEnd(r) \/ Ending(r)
      PROVE  Goal
  <2>1. faults' = faults /\ launcher' = launcher
    BY <1>1 DEF Loop, EpochBegins, NextWindow, Fetch, Commit, Ask, Write, OnShutdown,
                OnTrainEnd, Ending, signalVars
  <2>2. QED
    BY <1>1, <1>c, <2>1
<1>2. ASSUME NEW r \in Ranks, CollectiveFails(r) PROVE Goal
  BY <1>2, <1>e DEF CollectiveFails
<1>3. ASSUME NEW r \in Ranks, RankFault(r) PROVE Goal
  <2>1. faults' = faults + 1 /\ faults < MaxFaults
    BY <1>3 DEF RankFault, TimesOut, StepRaises, Dies, Fault
  <2>2. QED
    BY <1>0, <2>1 DEF Shape
<1>4. ASSUME NEW r \in Ranks, Deliver(r) PROVE Goal
  BY <1>4, <1>d DEF Deliver, Still, progress, callback
<1>5. CASE Complete
  <2>1. faults' = faults /\ launcher' = launcher
    BY <1>5 DEF Complete, signalVars
  <2>2. QED
    BY <1>0, <1>5, <1>a, <2>1, CompleteInStep DEF Goal
<1>6. CASE Observe \/ Kill
  BY <1>6, <1>a DEF Observe, Kill, Running
<1>7. CASE Done
  BY <1>7, <1>a, StillKeeps DEF Done, Still, Keeps, Goal, InStep, progress, callback, flags
<1>8. CASE Forward \/ Signal \/ UNCHANGED vars
  BY <1>8, <1>d DEF Forward, Signal, vars, Still, progress, callback, flags, signalVars
<1>9. QED
  BY <1>1, <1>2, <1>3, <1>4, <1>5, <1>6, <1>7, <1>8 DEF Next, RankStep, LauncherStep

-----------------------------------------------------------------------------

\* With the invariant, what is written is common, and what is reported is written.
LEMMA CommonHere == RunInv => CheckpointsAreCommon
<1> SUFFICES ASSUME RunInv PROVE CheckpointsAreCommon
  OBVIOUS
<1> USE DEF RunInv
<1>1. pc[0] = "write" =>
          \A s \in Ranks : Ended(s) \/ (step[s] = step[0] /\ pc[s] # "commit")
  BY DEF WriteOK
<1>2. ASSUME \A r \in Ranks : pc[r] = "exited", NEW r \in Ranks PROVE step[r] \in disk
  <2>1. saved[0] /\ last[0] = step[0] /\ step[0] \in disk
    BY <1>2, RankZero DEF SavedOK
  <2>2. step[r] = step[0]
    BY <1>2, RankZero DEF StepsAgree, Lost, Reduced, UnsafeOK
  <2>3. QED
    BY <2>1, <2>2
<1>3. QED
  BY <1>1, <1>2 DEF CheckpointsAreCommon

\* In lockstep, every rank waits for ranks that come.
LEMMA NobodyStrandedHere == Lockstep => NobodyStranded
<1> SUFFICES ASSUME Lockstep, faults = 0, NEW r \in Ranks, NEW s \in Ranks
             PROVE  /\ Left(r) /\ Left(s) => step[r] = step[s]
                    /\ Waits(r) => ~Ended(s)
                    /\ Waits(r) /\ Waits(s) => pc[s] = pc[r] /\ step[s] = step[r]
  BY DEF NobodyStranded
<1>1. Running(s) /\ InStep(r, s)
  BY DEF Lockstep
<1>2. Left(r) /\ Left(s) => step[r] = step[s]
  BY <1>1 DEF Left, InSave, InStep, Reduced
<1>3. Waits(r) => ~Ended(s)
  BY <1>1 DEF Running, InStep, BoundFor, Waits, Collective, Ended, Enters, Leaves
<1>4. Waits(r) /\ Waits(s) => pc[s] = pc[r] /\ step[s] = step[r]
  BY <1>1 DEF Running, InStep, BoundFor, Waits, Collective, Reduced, Enters, Leaves
<1>5. QED
  BY <1>2, <1>3, <1>4

\* While rank 0 writes a checkpoint, in synchronous and in asynchronous runs alike and
\* whatever failed, every rank that lives holds the weights of its step.
THEOREM CheckpointsStayCommon == Spec => []CheckpointsAreCommon
  BY RunHolds, CommonHere, PTL

\* For every number of ranks of a synchronous run, wherever signals arrive: as long as nothing
\* fails no rank is left in a collective; whatever fails, a checkpoint is of one step.
THEOREM RanksAlwaysAgree == Mode = "window" => (Spec => []RanksAgree)
<1> SUFFICES ASSUME Mode = "window" PROVE Spec => []RanksAgree
  OBVIOUS
<1>1. Init => Lockstep
  BY DEF Init, Every, Lockstep, Running, InStep, BoundFor, BoundEpoch, BoundWindow, Reduced,
         FromLoop, FromShutdown, FromTrainEnd, Unsaved
<1>2. RunInv /\ Lockstep /\ [Next]_vars => Lockstep'
  BY LockstepStep
<1>3. RunInv /\ Lockstep => RanksAgree
  BY ShapeIsType, CommonHere, NobodyStrandedHere DEF RunInv, RanksAgree
<1>4. QED
  BY RunHolds, <1>1, <1>2, <1>3, PTL DEF Spec

-----------------------------------------------------------------------------
(* The launch, as a part of the composed specification (MCStopAgreement).     *)

\* ProcessLaunch with the proofs about it, in the variables of the composition.
LP == INSTANCE ProcessLaunchProofs WITH
        MaxSignals <- LaunchSignals, MaxFaults <- LaunchFaults,
        pc <- rankPc, stop <- rankStop, notified <- rankNotified, sig <- rankSig,
        signals <- launchSignals, faults <- launchFaults

\* The launch of LP, which the proofs are about, is that of L, which the composition runs.
LEMMA SameLaunch ==
    /\ LP!LaunchAssumption
    /\ L!Init <=> LP!Init
    /\ L!Next <=> LP!Next
    /\ UNCHANGED launchVars => UNCHANGED LP!vars
    /\ L!TypeOK <=> LP!TypeOK
    /\ L!StopIsKept <=> LP!StopIsKept
    /\ L!LaunchTellsTheTruth <=> LP!LaunchTellsTheTruth
<1>1. LP!LaunchAssumption
  BY StopAssumption DEF L!LaunchAssumption, LP!LaunchAssumption
<1>2. L!Init <=> LP!Init
  BY DEF L!Init, LP!Init, L!Every, LP!Every, L!Strategy, LP!Strategy, L!Sigs, LP!Sigs,
         L!External, LP!External, L!Cardinality, LP!Cardinality
<1>3. L!Next <=> LP!Next
  BY Zenon
  DEF L!Sigs, LP!Sigs, L!Every, LP!Every, L!Goes, LP!Goes, L!Fault, LP!Fault, L!Alive,
      LP!Alive, L!LauncherGone, LP!LauncherGone, L!External, LP!External, L!Strategy,
      LP!Strategy, L!InstallEarly, LP!InstallEarly, L!Booted, LP!Booted, L!Tie, LP!Tie,
      L!CheckParent, LP!CheckParent, L!Came, LP!Came, L!Meet, LP!Meet, L!Activate,
      LP!Activate, L!Registered, LP!Registered, L!LeaveTogether, LP!LeaveTogether, L!Agree,
      LP!Agree, L!WorkDone, LP!WorkDone, L!Raises, LP!Raises, L!Lost, LP!Lost,
      L!CollectiveFails, LP!CollectiveFails, L!Unregister, LP!Unregister, L!Exit, LP!Exit,
      L!DefaultEnds, LP!DefaultEnds, L!Notifies, LP!Notifies, L!Handle, LP!Handle,
      L!Killed, LP!Killed, L!SignalRank, LP!SignalRank, L!LInstallEarly, LP!LInstallEarly,
      L!Spawn, LP!Spawn, L!Spawned, LP!Spawned, L!SpawnFails, LP!SpawnFails,
      L!InstallParent, LP!InstallParent, L!Terminate, LP!Terminate, L!JoinReturns,
      LP!JoinReturns, L!JoinRaises, LP!JoinRaises, L!Restore, LP!Restore, L!Reap, LP!Reap,
      L!LaunchEnds, LP!LaunchEnds, L!LauncherLives, LP!LauncherLives, L!Orphans,
      LP!Orphans, L!LauncherDies, LP!LauncherDies, L!LHandleEarly, LP!LHandleEarly,
      L!LHandleParent, LP!LHandleParent, L!SignalLauncher, LP!SignalLauncher, L!RankStep,
      LP!RankStep, L!TakesSignal, LP!TakesSignal, L!LauncherStep, LP!LauncherStep,
      L!LauncherTakesSignal, LP!LauncherTakesSignal, L!Next, LP!Next, L!run, LP!run,
      L!flags, LP!flags, L!rankVars, LP!rankVars, L!launcherVars, LP!launcherVars,
      L!bounds, LP!bounds, L!vars, LP!vars
<1>4. UNCHANGED launchVars => UNCHANGED LP!vars
  BY DEF launchVars, LP!vars, LP!run, LP!rankVars, LP!flags, LP!launcherVars, LP!bounds
<1>5. L!TypeOK <=> LP!TypeOK
  BY DEF L!TypeOK, LP!TypeOK, L!Sigs, LP!Sigs
<1>6. L!StopIsKept <=> LP!StopIsKept
  BY DEF L!StopIsKept, LP!StopIsKept
<1>7. L!LaunchTellsTheTruth <=> LP!LaunchTellsTheTruth
  BY DEF L!LaunchTellsTheTruth, LP!LaunchTellsTheTruth, L!Alive, LP!Alive, L!Sigs,
     LP!Sigs
<1> QED
  BY <1>1, <1>2, <1>3, <1>4, <1>5, <1>6, <1>7

\* Whatever the other part does, a launch keeps its stop requests and reports what happened,
\* for any ranks, strategies and faults (setup.py, signal_handler.py).
THEOREM LaunchStaysSound == StoppingSpec => []LaunchIsSound
<1> DEFINE Inv == part = "launch" => LP!IInv
<1>1. StoppingInit => Inv
  BY SameLaunch, LP!Initially DEF StoppingInit
<1>2. Inv /\ [StoppingNext]_allVars => Inv'
  <2> SUFFICES ASSUME Inv, [StoppingNext]_allVars, part' = "launch"
               PROVE  LP!IInv'
    OBVIOUS
  <2>1. part = "launch" /\ LP!IInv
    BY DEF StoppingNext, allVars
  <2>2. L!Next \/ UNCHANGED launchVars
    BY <2>1 DEF StoppingNext, allVars
  <2>3. [LP!Next]_LP!vars
    BY <2>2, SameLaunch
  <2> QED
    BY <2>1, <2>3, SameLaunch, LP!Invariance
<1>3. Inv => LaunchIsSound
  <2>1. LP!IInv => LP!TypeOK /\ LP!StopIsKept /\ LP!LaunchTellsTheTruth
    BY DEF LP!IInv, LP!TypeOK, LP!SignalsOK, LP!StopIsKept
  <2> QED
    BY <2>1, SameLaunch DEF LaunchIsSound
<1> QED
  BY <1>1, <1>2, <1>3, PTL DEF StoppingSpec
=============================================================================
