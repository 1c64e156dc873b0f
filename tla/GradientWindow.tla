---------------------------- MODULE GradientWindow ----------------------------
(***************************************************************************)
(* One optimizer window after another on data-parallel ranks: contiguous     *)
(* main gradients, bucketed asynchronous all-reduce, and the scaling that    *)
(* turns the sum into the gradient of the global objective                   *)
(* (parallel/executor/gradients.py, executor/base.py, trainer/trainer.py).   *)
(*                                                                         *)
(* A gradient is the number of times each microbatch contributes to it, and  *)
(* a factor; storage outlives a window, as the buffers do.  Collectives of a *)
(* process group match by position: the k-th of one rank meets the k-th of   *)
(* every other.                                                              *)
(***************************************************************************)
EXTENDS Integers, Sequences, FiniteSets, SequencesExt, FiniteSetsExt

CONSTANTS Ranks,
          Params,     \* sequence of the trainable parameters, as registered
          Size,       \* Size[p]: bytes of p's main gradient
          Cap,        \* bucket capacity
          Micros,     \* microbatches of a window
          Workloads,  \* records: find (find_unused_parameters), uses[w][r][m]: parameters
                      \* a microbatch reaches, count[w][r][m]: its normalizer
          Windows     \* bound: windows trained

VARIABLES
    load,     \* the workload of the run
    rk,       \* each rank: program counter and the accumulator's fields
    buf,      \* buf[r][p][c]: what p's view holds of contribution c
    issued,   \* collectives each rank has launched, in order
    done,     \* how many of them have completed
    usedAll   \* parameters some rank used, as the last "used" reduction found

vars == <<load, rk, buf, issued, done, usedAll>>

All == Range(Params)
Contributions == [w : 1..Windows, r : Ranks, m : 1..Micros]

\* Reverse registration order, cut greedily at the capacity.
Buckets ==
    FoldLeft(LAMBDA bs, p :
                LET last == bs[Len(bs)]
                    size == FoldLeft(LAMBDA n, q : n + Size[q], 0, last)
                IN IF last # <<>> /\ size + Size[p] > Cap
                   THEN Append(bs, <<p>>)
                   ELSE [bs EXCEPT ![Len(bs)] = Append(last, p)],
             <<<<>>>>, Reverse(Params))

Bucket(k) == Range(Buckets[k])

Fresh == [pc |-> "forward", win |-> 1, micro |-> 1, fired |-> {}, grad |-> {}, ready |-> {},
          next |-> 1, require |-> TRUE, factor |-> <<1, 1>>]

Init ==
    /\ load \in Workloads
    /\ rk = [r \in Ranks |-> Fresh]
    /\ buf = [r \in Ranks |-> [p \in All |-> [c \in Contributions |-> 0]]]
    /\ issued = [r \in Ranks |-> <<>>]
    /\ done = 0
    /\ usedAll = {}

Uses(r) == load.uses[rk[r].win][r][rk[r].micro]
IsSynchronizing(r) == rk[r].micro = Micros
Own(r) == [w |-> rk[r].win, r |-> r, m |-> rk[r].micro]
Completed(r) == done >= Len(issued[r])
Issue(r, calls) == issued' = [issued EXCEPT ![r] = @ \o calls]

-----------------------------------------------------------------------------
(* The forward, which may broadcast the module's buffers, and begin_backward. *)

BeginBackward(me) == IF me.micro = Micros THEN [me EXCEPT !.next = 1, !.ready = {}] ELSE me

Forward(r) ==
    /\ rk[r].pc = "forward"
    /\ Issue(r, IF rk[r].require THEN <<<<"buffers">>>> ELSE <<>>)
    /\ rk' = [rk EXCEPT ![r] = [BeginBackward(@) EXCEPT !.pc = "backward", !.fired = {},
                                   !.require = IsSynchronizing(r)]]
    /\ UNCHANGED <<load, buf, done, usedAll>>

\* _accumulate_gradient: the first contribution of a window overwrites the view.
Accumulated(r, p) ==
    LET old == IF p \in rk[r].grad THEN buf[r][p] ELSE [c \in Contributions |-> 0]
    IN [old EXCEPT ![Own(r)] = @ + 1]

\* A microbatch that does not synchronize: its hooks touch this rank only, so their
\* order cannot be seen, and they are one step.
Accumulate(r) ==
    /\ rk[r].pc = "backward" /\ ~IsSynchronizing(r)
    /\ buf' = [buf EXCEPT ![r] = [p \in All |-> IF p \in Uses(r) THEN Accumulated(r, p) ELSE @[p]]]
    /\ rk' = [rk EXCEPT ![r].pc = "forward", ![r].micro = @ + 1, ![r].grad = @ \cup Uses(r)]
    /\ UNCHANGED <<load, issued, done, usedAll>>

\* A mutant of Launchable that launches every ready bucket, in order or not.
MutantAnyReady(from, ready) == {k \in from..Len(Buckets) : Bucket(k) \subseteq ready}
\* _launch_ready_buckets: the ready buckets from next_bucket on, up to the first gap.
Launchable(from, ready) ==
    {k \in from..Len(Buckets) : \A j \in from..k : Bucket(j) \subseteq ready}

Launches(ks) == [i \in 1..Cardinality(ks) |-> <<"bucket", SetToSortSeq(ks, <)[i]>>]

\* The hook of parameter p in the synchronizing microbatch.
Hook(r, p) ==
    /\ rk[r].pc = "backward" /\ IsSynchronizing(r)
    /\ p \in Uses(r) \ rk[r].fired
    /\ p \notin rk[r].ready                  \* otherwise mark_ready raises
    /\ LET ready == rk[r].ready \cup {p}
           ks    == Launchable(rk[r].next, ready)
       IN /\ rk' = [rk EXCEPT ![r].fired = @ \cup {p}, ![r].grad = @ \cup {p},
                              ![r].ready = ready, ![r].next = @ + Cardinality(ks)]
          /\ Issue(r, Launches(ks))
    /\ buf' = [buf EXCEPT ![r][p] = Accumulated(r, p)]
    /\ UNCHANGED <<load, done, usedAll>>

\* The parameters without a gradient in this window: their views are zeroed.
Zeroed(r) == All \ rk[r].grad

\* finish_backward up to the waits: raise, or launch all that is left and the use counts.
FinishBackward(r) ==
    /\ rk[r].pc = "backward" /\ IsSynchronizing(r) /\ rk[r].fired = Uses(r)
    /\ IF rk[r].grad # All /\ ~load.find
       THEN rk' = [rk EXCEPT ![r].pc = "raised"] /\ UNCHANGED <<buf, issued>>
       ELSE /\ buf' = [buf EXCEPT ![r] = [p \in All |-> IF p \in Zeroed(r)
                                              THEN [c \in Contributions |-> 0] ELSE @[p]]]
            /\ Issue(r, Launches(rk[r].next..Len(Buckets))
                        \o (IF load.find THEN <<<<"used">>>> ELSE <<>>))
            /\ rk' = [rk EXCEPT ![r].pc = "wait", ![r].ready = All,
                                ![r].next = Len(Buckets) + 1]
    /\ UNCHANGED <<load, done, usedAll>>

\* The next collective of the group completes: its data is read and written now.
Complete ==
    /\ \A r \in Ranks : Len(issued[r]) > done
    /\ \E call \in {issued[r][done + 1] : r \in Ranks} :
          /\ \A r \in Ranks : issued[r][done + 1] = call
          /\ buf' = IF call[1] = "bucket"
                    THEN [r \in Ranks |-> [p \in All |->
                            IF p \in Bucket(call[2])
                            THEN [c \in Contributions |->
                                    MapThenSumSet(LAMBDA s : buf[s][p][c], Ranks)]
                            ELSE buf[r][p]]]
                    ELSE buf
          /\ usedAll' = IF call = <<"used">> THEN UNION {rk[r].grad : r \in Ranks} ELSE usedAll
    /\ done' = done + 1
    /\ UNCHANGED <<load, rk, issued>>

\* The waits return: average, and let a parameter nobody used have no gradient.
Reduced(r) ==
    /\ rk[r].pc = "wait" /\ Completed(r)
    /\ rk' = [rk EXCEPT ![r].pc = "totals",
                        ![r].grad = IF load.find THEN usedAll ELSE @,
                        ![r].factor = <<1, Cardinality(Ranks)>>]
    /\ Issue(r, <<<<"totals">>>>)
    /\ UNCHANGED <<load, buf, done, usedAll>>

\* Normalizers of window w, summed over ranks and microbatches.
Denominator(w) ==
    MapThenSumSet(LAMBDA r : MapThenSumSet(LAMBDA m : load.count[w][r][m], 1..Micros), Ranks)

\* scale_gradients(dp_size / denominator).
Rescaled(factor, total) == <<factor[1] * Cardinality(Ranks), factor[2] * total>>

\* reduce_sum(totals) returned: refuse an empty window, or scale.
ScaleGradients(r) ==
    /\ rk[r].pc = "totals" /\ Completed(r)
    /\ LET total == Denominator(rk[r].win) IN
       rk' = [rk EXCEPT ![r] = IF total <= 0 THEN [@ EXCEPT !.pc = "raised"]
                               ELSE [@ EXCEPT !.pc = "commit", !.factor = Rescaled(@, total)]]
    /\ UNCHANGED <<load, buf, issued, done, usedAll>>

\* The optimizer step and zero_grad: main_grad is dropped, its storage is not.
Commit(r) ==
    /\ rk[r].pc = "commit"
    /\ rk' = [rk EXCEPT ![r].pc = IF rk[r].win < Windows THEN "forward" ELSE "done",
                        ![r].win = IF @ < Windows THEN @ + 1 ELSE @,
                        ![r].micro = 1, ![r].fired = {}, ![r].grad = {}, ![r].factor = <<1, 1>>]
    /\ UNCHANGED <<load, buf, issued, done, usedAll>>

\* A peer that raised never joins: the process group's timeout ends the wait.
Abort(r) ==
    /\ rk[r].pc \in {"wait", "totals"} /\ ~Completed(r)
    /\ \E s \in Ranks : rk[s].pc = "raised"
    /\ rk' = [rk EXCEPT ![r].pc = "raised"]
    /\ UNCHANGED <<load, buf, issued, done, usedAll>>

Ended == \A r \in Ranks : rk[r].pc \in {"done", "raised"}
Stopped == Ended /\ UNCHANGED vars

Next ==
    \/ \E r \in Ranks :
          \/ Forward(r) \/ Accumulate(r) \/ FinishBackward(r) \/ Reduced(r)
          \/ ScaleGradients(r) \/ Commit(r) \/ Abort(r)
          \/ \E p \in All : Hook(r, p)
    \/ Complete
    \/ Stopped

Spec == Init /\ [][Next]_vars

-----------------------------------------------------------------------------

\* The collectives of two ranks are the same ones in the same order, whatever the
\* order in which their hooks fired and whichever parameters their data reached.
LaunchesAgree ==
    \A r, s \in Ranks : \A k \in 1..Len(issued[r]) :
        k <= Len(issued[s]) => issued[r][k] = issued[s][k]

UsedIn(w, p) == \E r \in Ranks, m \in 1..Micros : p \in load.uses[w][r][m]

\* What the optimizer is given is the gradient of the window's mean objective: every
\* microbatch of every rank that reached the parameter weighs its normalizer over the
\* total, once; nothing of an earlier window is in it; and a parameter has no
\* gradient exactly when no rank used it.
GradientIsWhole ==
    \A r \in Ranks : rk[r].pc = "commit" =>
        \A p \in All :
            LET w == rk[r].win
                weight(c) == load.count[c.w][c.r][c.m]
            IN /\ p \in rk[r].grad <=> UsedIn(w, p)
               /\ p \in rk[r].grad =>
                    \A c \in Contributions :
                        buf[r][p][c] * weight(c) * rk[r].factor[1] * Denominator(w)
                        = IF c.w = w /\ p \in load.uses[w][c.r][c.m]
                          THEN weight(c) * rk[r].factor[2] ELSE 0
=============================================================================
