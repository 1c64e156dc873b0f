------------------------------ MODULE PlanTable ------------------------------
(***************************************************************************)
(* How GEMM plan rows are measured, gated, installed and served.            *)
(* csrc/bench/tune_plan_table.py run: a sweep shards the M grid over GPU    *)
(* worker processes, the merged measurements become one full-coverage row   *)
(* table, the table is clamped to the swept M domain, a holdout gate drops  *)
(* the classes that regressed and gates again, and what passes is installed *)
(* in the cache file.  extension/policy/gemm/autotune.py: a serving process *)
(* loads that file into the injected tier and counts launches no row covers.*)
(*                                                                         *)
(* A recipe is one name for (cta, k_stages, k_tile); timings are given      *)
(* throughputs.  Which holdout shapes regress is free: it is a measurement. *)
(* The tuner's time budget is taken as unlimited and its shape cap as never *)
(* reached, the settings under which it has most to do.                     *)
(***************************************************************************)
EXTENDS Integers, Sequences, FiniteSets, SequencesExt, FiniteSetsExt

CONSTANTS
    Plans,      \* runs of the pipeline, records described at Combos .. Speed
    Ladder,     \* [class -> sequence of recipes], manifest order
    PerfClass,  \* [combo -> class]
    Trigger     \* ASTR_GEMM_TUNE_TRIGGER: launches before a tune

VARIABLES
    plan,       \* this run: grid, GPUs, speeds, built-in rows, holdout shapes
    phase,      \* where the pipeline stands
    worker,     \* [GPU position -> "running" | "done" | "failed"]
    measured,   \* the timings collected from finished workers
    table,      \* the candidate rows
    dropped,    \* classes the gate removed
    installed,  \* the cache file: a sequence of rows (empty: no file)
    serving,    \* the tuner of a serving process: "off", "on", "disabled"
    injected,   \* its injected rows
    misses,     \* [shape -> launches counted while no row covered it]
    settled     \* shapes whose one tune attempt was made

tuning == <<plan, phase, worker, measured, table, dropped, installed, serving,
            injected, misses, settled>>

Classes == {PerfClass[c] : c \in plan.combos}
Ascending(S) == SetToSortSeq(S, <)
Ms == Ascending(plan.ms)
Ns == Ascending(plan.ns)

-----------------------------------------------------------------------------
(* Planner lookup. *)

\* Bands are (min, max], 0 = open; a row belongs to one class.
InBand(x, lo, hi) == x > lo /\ (hi = 0 \/ x <= hi)
Matches(row, shape) ==
    /\ row.class = shape.class
    /\ InBand(shape.m, row.mMin, row.mMax)
    /\ InBand(shape.n, row.nMin, row.nMax)

\* The first matching row decides its tier, if its recipe can launch here.
Lookup(rows, shape) ==
    LET first == SelectInSeq(rows, LAMBDA row : Matches(row, shape))
    IN  IF first = 0 \/ rows[first].recipe \notin plan.fits[shape.class]
        THEN "miss" ELSE rows[first].recipe

-----------------------------------------------------------------------------
(* From measurements to rows. *)

\* Large M first, each to the GPU with the least work so far.
Shards ==
    LET gpus == 1 .. plan.gpus
        Load(shards, g) == MapThenSumSet(LAMBDA m : m, shards[g])
        Lighter(shards, g, h) ==
            \/ Load(shards, g) < Load(shards, h)
            \/ /\ Load(shards, g) = Load(shards, h)
               /\ \/ Cardinality(shards[g]) < Cardinality(shards[h])
                  \/ Cardinality(shards[g]) = Cardinality(shards[h]) /\ g <= h
        Give(shards, m) ==
            LET target == CHOOSE g \in gpus : \A h \in gpus : Lighter(shards, g, h)
            IN  [shards EXCEPT ![target] = @ \cup {m}]
    IN  FoldLeft(Give, [g \in gpus |-> {}], Reverse(Ms))

\* One worker's timings: every candidate the planner really served, and the
\* no-row reference.
Timings(ms) ==
    {[class |-> PerfClass[c], m |-> m, n |-> n, recipe |-> r,
      speed |-> plan.speed[c, m, n, k, r]] :
        c \in plan.combos, m \in ms, n \in plan.ns, k \in plan.ks,
        r \in UNION {plan.fits[class] : class \in Classes}}
Served(timing) == timing.recipe \in plan.fits[timing.class]

BandEdges(values) ==
    LET Mid(i) == values[i] + (values[i + 1] - values[i]) \div 2
    IN  [i \in DOMAIN values |->
            <<IF i = 1 THEN 0 ELSE Mid(i - 1), IF i = Len(values) THEN 0 ELSE Mid(i)>>]

\* The best throughput of a recipe over the K grid and the class's combos.
Aggregate(class, m, n, recipe) ==
    Max({0} \cup {t.speed : t \in {x \in measured :
            x.class = class /\ x.m = m /\ x.n = n /\ x.recipe = recipe}})

\* Ties, and a point nothing was measured at, go to the ladder's order.
BestForced(class, m, n) ==
    LET At(r) == Aggregate(class, m, n, r)
        best == Max({At(r) : r \in ToSet(Ladder[class])})
    IN  Ladder[class][SelectInSeq(Ladder[class], LAMBDA r : At(r) = best)]

Row(class, mBand, nBand, recipe) ==
    [class |-> class, mMin |-> mBand[1], mMax |-> mBand[2], nMin |-> nBand[1],
     nMax |-> nBand[2], recipe |-> recipe]

\* At one N band: runs of adjacent M bands with one winner share a row.
BandRows(class, j) ==
    LET best == [i \in DOMAIN Ms |-> BestForced(class, Ms[i], Ns[j])]
        starts == SelectSeq([i \in DOMAIN Ms |-> i],
                            LAMBDA i : i = 1 \/ best[i] # best[i - 1])
        EndOf(x) == IF x = Len(starts) THEN Len(Ms) ELSE starts[x + 1] - 1
        bands == BandEdges(Ms)
    IN  [x \in DOMAIN starts |->
            Row(class, <<bands[starts[x]][1], bands[EndOf(x)][2]>>, BandEdges(Ns)[j],
                best[starts[x]])]
ClassRows(class) ==
    FlattenSeq([j \in DOMAIN Ns |-> BandRows(class, j)])
    \o <<Row(class, <<0, 0>>, <<0, 0>>,
             BestForced(class, Ms[Len(Ms)], Ns[Len(Ns)]))>>
BuildRows ==
    LET classes == SetToSeq(Classes)
        Once(rows, row) == IF row \in ToSet(rows) THEN rows ELSE Append(rows, row)
    IN  FoldLeft(Once, <<>>,
                 FlattenSeq([i \in DOMAIN classes |-> ClassRows(classes[i])]))

\* Below the swept floor nothing was measured: no row may claim it.
ClampMDomain(rows, floor) ==
    LET above == SelectSeq(rows, LAMBDA row : row.mMax = 0 \/ row.mMax > floor)
    IN  [i \in DOMAIN above |->
            [above[i] EXCEPT !.mMin = IF @ < floor THEN floor ELSE @]]

DropClasses(rows, classes) == SelectSeq(rows, LAMBDA row : row.class \notin classes)

-----------------------------------------------------------------------------
(* The pipeline. *)

Init ==
    /\ plan \in Plans
    /\ phase = "launch" /\ worker = <<>> /\ measured = {} /\ table = <<>>
    /\ dropped = {} /\ installed = <<>>
    /\ serving = "off" /\ injected = <<>> /\ settled = {}
    /\ misses = [s \in plan.calls |-> 0]

unserved == UNCHANGED <<serving, injected, misses, settled>>

\* More GPUs than M values is refused; otherwise every GPU gets a process.
Launch ==
    /\ phase = "launch"
    /\ IF plan.gpus > Cardinality(plan.ms)
       THEN phase' = "failed" /\ UNCHANGED worker
       ELSE phase' = "sweep" /\ worker' = [g \in 1 .. plan.gpus |-> "running"]
    /\ UNCHANGED <<plan, measured, table, dropped, installed>> /\ unserved

WorkerEnds(g) ==
    /\ phase = "sweep" /\ worker[g] = "running"
    /\ \E end \in {"done", "failed"} : worker' = [worker EXCEPT ![g] = end]
    /\ UNCHANGED <<plan, phase, measured, table, dropped, installed>> /\ unserved

\* The parent polls: one failure ends the sweep, whoever has finished.
Failures == {g \in DOMAIN worker : worker[g] = "failed"}
MutantAllDone == \A g \in DOMAIN worker : worker[g] # "running"
AllDone == Failures = {} /\ \A g \in DOMAIN worker : worker[g] = "done"

Poll ==
    /\ phase = "sweep"
    /\ \/ /\ AllDone
          /\ phase' = "build"
          /\ measured' = {t \in UNION {Timings(Shards[g]) :
                             g \in {h \in DOMAIN worker : worker[h] = "done"}} : Served(t)}
          /\ UNCHANGED worker
       \/ /\ ~AllDone /\ Failures # {}
          /\ phase' = "failed"
          /\ worker' = [g \in DOMAIN worker |->
                           IF worker[g] = "running" THEN "failed" ELSE worker[g]]
          /\ UNCHANGED measured
    /\ UNCHANGED <<plan, table, dropped, installed>> /\ unserved

\* The sweep writes its rows; run clamps them in the candidate file.
Floor == Min(plan.ms) - 1
Build ==
    /\ phase = "build"
    /\ table' = ClampMDomain(BuildRows, Floor)
    /\ phase' = IF plan.skip THEN "install" ELSE "gate"
    /\ UNCHANGED <<plan, worker, measured, dropped, installed>> /\ unserved

\* Both arms run table-only: a holdout shape no row serves is an error.
Holdout == [class : Classes, m : {p[1] : p \in plan.holdout}, n : {p[2] : p \in plan.holdout}]
Unserved(rows) ==
    {s \in Holdout : <<s.m, s.n>> \in plan.holdout
        /\ Lookup(rows, s) = "miss" /\ Lookup(plan.builtin, s) = "miss"}

\* The class of a regressing combo is read from the text before its first
\* underscore; the report prints combo/shape, so only the fp8 combos have one.
ClassOfCombo(c) == IF PerfClass[c] = "f8a8" THEN "f8a8" ELSE "KeyError"

\* The report lists every combo with a holdout shape slower by 2% or more.
Regressions == SUBSET plan.combos

\* What a first or second round of the gate makes of its regressions.
Regate(bad) == phase = "gate" /\ bad # {} /\ \A c \in bad : ClassOfCombo(c) # "KeyError"
Validate ==
    /\ phase \in {"gate", "regate"}
    /\ \E bad \in Regressions :
          IF Unserved(<<>>) # {} \/ Unserved(table) # {}
          THEN phase' = "failed" /\ UNCHANGED <<table, dropped>>
          ELSE \/ /\ bad = {}
                  /\ phase' = "install" /\ UNCHANGED <<table, dropped>>
               \/ /\ Regate(bad)
                  /\ dropped' = {ClassOfCombo(c) : c \in bad}
                  /\ table' = DropClasses(table, dropped')
                  /\ phase' = "regate"
               \/ /\ bad # {} /\ ~Regate(bad)
                  /\ phase' = IF phase = "gate" THEN "failed" ELSE "rejected"
                  /\ UNCHANGED <<table, dropped>>
    /\ UNCHANGED <<plan, worker, measured, installed>> /\ unserved

Install ==
    /\ phase = "install"
    /\ installed' = table
    /\ phase' = "installed"
    /\ UNCHANGED <<plan, worker, measured, table, dropped>> /\ unserved

-----------------------------------------------------------------------------
(* A serving process. *)

idle == UNCHANGED <<plan, phase, worker, measured, table, dropped, installed>>

\* enable(): load the cache file into the injected tier.
Start ==
    /\ serving = "off" /\ phase \in {"installed", "failed", "rejected"}
    /\ serving' = "on" /\ injected' = installed
    /\ UNCHANGED <<misses, settled>> /\ idle

\* The shipped planner: injected rows, built-in rows, then the heuristic.
Tier(s) ==
    IF Lookup(injected, s) # "miss" THEN "injected"
    ELSE IF Lookup(plan.builtin, s) # "miss" THEN "builtin" ELSE "heuristic"
Dispatch(s) ==
    CASE Tier(s) = "injected" -> Lookup(injected, s)
      [] Tier(s) = "builtin" -> Lookup(plan.builtin, s)
      [] OTHER -> "heuristic"

\* The probe's answer, kept per shape: the loaded rows never change.
Covered(s) == Tier(s) # "heuristic"

\* The names _candidates unpacks an entry of the vocabulary into, and the fields
\* tile_vocabulary exports.
Unpacked == 10
VocabularyFields == 12

\* The one attempt at a shape: it raises, and note() disables the tuner, whose rows stay.
Tune(s) ==
    /\ settled' = settled \cup {s}
    /\ Unpacked # VocabularyFields
    /\ serving' = "disabled"

\* note(): a launch no row covers counts; at the trigger its tune starts.
Note(s) ==
    /\ serving = "on" /\ s \notin settled
    /\ ~Covered(s)
    /\ misses' = [misses EXCEPT ![s] = @ + 1]
    /\ IF misses'[s] < Trigger
       THEN UNCHANGED <<serving, settled>>
       ELSE Tune(s)
    /\ UNCHANGED injected /\ idle

Next ==
    \/ Launch \/ Poll \/ Build \/ Validate \/ Install \/ Start
    \/ \E g \in DOMAIN worker : WorkerEnds(g)
    \/ \E s \in plan.calls : Note(s)

Spec == Init /\ [][Next]_tuning

-----------------------------------------------------------------------------
(* Properties. *)

PlanTypeOK ==
    /\ plan \in Plans
    /\ phase \in {"launch", "sweep", "build", "gate", "regate", "install", "installed",
                  "failed", "rejected"}
    /\ \A g \in DOMAIN worker : worker[g] \in {"running", "done", "failed"}
    /\ dropped \subseteq Classes /\ settled \subseteq plan.calls
    /\ \A s \in plan.calls : misses[s] \in 0 .. Trigger
    /\ serving \in {"off", "on", "disabled"}

Nearest(S, x) ==
    LET Far(y) == IF x > y THEN x - y ELSE y - x
    IN  Min({y \in S : \A z \in S : Far(y) <= Far(z)})
Fastest(class, m, n) ==
    LET Peak(r) == Max({plan.speed[c, m, n, k, r] :
                          c \in {x \in plan.combos : PerfClass[x] = class}, k \in plan.ks})
        able == SelectSeq(Ladder[class], LAMBDA r : r \in plan.fits[class])
    IN  able[SelectInSeq(able, LAMBDA r : \A q \in ToSet(able) : Peak(q) <= Peak(r))]
Fallback(s) ==
    IF Lookup(plan.builtin, s) # "miss" THEN Lookup(plan.builtin, s) ELSE "heuristic"

\* A process that serves after the pipeline ended dispatches every shape of a
\* class the gate kept, from the swept floor up, to the fastest recipe measured
\* at the grid point nearest to it, whichever worker measured it; every other
\* shape, and every shape when the pipeline failed or was rejected, falls to the
\* built-in rows or the heuristic (tune_plan_table.py run, _clamp_m_domain).
ServesTheMeasuredBest ==
    serving # "off" =>
        \A class \in Classes, m \in 1 .. 2 * Max(plan.ms), n \in 1 .. 2 * Max(plan.ns) :
            LET s == [class |-> class, m |-> m, n |-> n]
            IN  Dispatch(s) =
                    IF phase # "installed" \/ class \in dropped \/ m < Min(plan.ms)
                       \/ plan.fits[class] = {}
                    THEN Fallback(s)
                    ELSE Fastest(class, Nearest(plan.ms, m), Nearest(plan.ns, n))

\* Every shape that reached the trigger is served by a measured row: shapes
\* nothing else owns get a one-time candidate sweep whose winner installs
\* (autotune.py:37-45).
HotShapesAreTuned == \A s \in settled : Tier(s) = "injected"

=============================================================================
