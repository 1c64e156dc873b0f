----------------------------- MODULE KernelChoice -----------------------------
(***************************************************************************)
(* Which implementation a kernel call runs: scoped and process-wide choices  *)
(* (extension/runtime/context.py), lazily loaded kernels (loader.py), the    *)
(* dispatchers (operation.py, backend/attention/dispatcher.py, rotary.py,    *)
(* swiglu.py, newton_schulz.py), and the measured plans and selection cache  *)
(* of the symmetric matrix operations (policy/newton_schulz.py).             *)
(*                                                                         *)
(* A call is [op, fits, rows]: the implementations its shape, layout, dtype  *)
(* and mask allow, and the key of its row in a plan table.  Scopes belong to *)
(* a thread, all else to the process.  One thread, main, changes choices,    *)
(* plans and flags and makes the optimizer's matrix calls; the engine's loop *)
(* thread runs under the selection in force where the engine was built.      *)
(***************************************************************************)
EXTENDS Integers, Sequences, FiniteSets, SequencesExt

CONSTANTS
    Calls,       \* the calls a thread may make
    Env,         \* [operation -> choice], operations of ASTR_OPS
    Built,       \* kernels whose import succeeds
    Names,       \* choices a scope may name; "custom" is a function, not a name
    Tables,      \* plan tables: functions from some of the keys <<op, rows>> to a Plan
    Modeled,     \* tiles the native planner picks, of some of the keys <<op, rows>>
    CacheLimit,  \* entries of the selection cache
    MaxChanges, MaxScopes   \* bounds

VARIABLES
    chosen,      \* _process_choices once read: a sequence of at most one
    scopes,      \* per thread, the selections entered and not left
    keeper,      \* the engine's op_selection once it is built: a sequence of at most one
    loaded,      \* kernels whose import was tried
    loads,       \* _selection_revision
    rowsNow,     \* _plans and _heuristic: [rows, heuristic]
    saved,       \* what the overrides entered will restore
    revision,    \* _revision
    strict,      \* deterministic algorithms, or no reduced-precision reduction
    picked,      \* _selection_cache: [key -> selection]
    changes

choosing == <<chosen, scopes, keeper, loaded, loads, rowsNow, saved, revision, strict, picked,
              changes>>

Threads == {"main", "loop"}
Kernel(op) == CASE op = "attention" -> "attention" [] op = "rotary" -> "rotary_emb"
                [] op = "swiglu" -> "swiglu" [] OTHER -> "newton_schulz"
Symmetric == {"syrk", "symm"}
NoChoice == "none"
Plain(impl) == [impl |-> impl, tile |-> "default"]
Torch == Plain("torch")
Error == Plain("error")

-----------------------------------------------------------------------------
(* Selections. *)

Seeded == IF chosen = <<>> THEN Env ELSE Head(chosen)
At(choices, op) == IF op \in DOMAIN choices THEN choices[op] ELSE NoChoice

\* A selection: the scoped choices, and the process choices where it has taken them.
Empty == [choices |-> [op \in {} |-> NoChoice], process |-> <<>>]
State(t) == IF scopes[t] = <<>> THEN Empty ELSE Last(scopes[t])
\* A mutant that leaves the process choices to be read where the selection is installed.
MutantSnapshot(t) == State(t)
Snapshot(t) == IF State(t).process = <<>> THEN [State(t) EXCEPT !.process = <<Seeded>>]
               ELSE State(t)
Process(selection) == IF selection.process = <<>> THEN Seeded ELSE Head(selection.process)

\* choice: what is wanted, and whether a call that cannot meet it must fail.
Choice(selection, op) ==
    LET own == At(selection.choices, op)
    IN  [name |-> IF own # NoChoice THEN own ELSE At(Process(selection), op),
         binding |-> own # NoChoice]
Resolved(choice) == IF choice.name = "auto" THEN [name |-> NoChoice, binding |-> FALSE]
                    ELSE choice

-----------------------------------------------------------------------------
(* Capability and plans. *)

Fits(call, impl) == impl \in call.fits /\ (impl = "cuda" => Kernel(call.op) \in Built)
Supported(call) == Fits(call, "cuda") /\ ~strict

\* probe: the measured row of the call, else the native planner's, if it may be asked.
Probe(call) ==
    LET key == <<call.op, call.rows>>
    IN  IF ~Supported(call) THEN Torch
        ELSE IF key \in DOMAIN rowsNow.rows THEN rowsNow.rows[key]
        ELSE IF rowsNow.heuristic /\ key \in DOMAIN Modeled
        THEN [impl |-> "cuda", tile |-> Modeled[key]]
        ELSE Torch

-----------------------------------------------------------------------------
(* The dispatchers: what a choice selects, and what the lack of one does. *)

Attention(call, choice) ==
    IF choice.name = "torch" THEN Torch
    ELSE IF choice.name \in {"cuda", "flash"} /\ Fits(call, choice.name)
    THEN Plain(choice.name)
    ELSE IF choice.name # NoChoice /\ choice.binding THEN Error
    ELSE IF Fits(call, "cuda") THEN Plain("cuda")
    ELSE IF Fits(call, "flash") THEN Plain("flash") ELSE Torch

Rotary(call, choice) ==
    IF choice.name = "torch" THEN Torch
    ELSE IF choice.name \in {"cuda", "custom"} /\ Fits(call, choice.name)
    THEN Plain(choice.name)
    ELSE IF choice.name # NoChoice /\ choice.binding THEN Error
    ELSE IF Fits(call, "cuda") THEN Plain("cuda") ELSE Torch

\* Here a process-wide choice that cannot be met ends at Torch.
SwiGLU(call, choice) ==
    IF choice.name = "torch" THEN Torch
    ELSE IF choice.name \in {"cuda", "custom"} /\ Fits(call, choice.name)
    THEN Plain(choice.name)
    ELSE IF choice.name = NoChoice /\ Fits(call, "cuda") THEN Plain("cuda")
    ELSE IF choice.name # NoChoice /\ choice.binding THEN Error ELSE Torch

\* A CUDA choice runs where the call is eligible, "measured" and no choice where the plan
\* says so; the tile is the plan's whichever way the call was chosen.
Matrix(call, choice) ==
    LET measured == Supported(call) /\ Probe(call).impl = "cuda"
        cuda == \/ choice.name = "cuda" /\ Supported(call)
                \/ choice.name # "torch" /\ measured
                      /\ (choice.name \in {NoChoice, "measured"} \/ ~choice.binding)
    IN  IF cuda THEN [impl |-> "cuda", tile |-> Probe(call).tile]
        ELSE IF choice.name \notin {NoChoice, "torch"} /\ choice.binding THEN Error
        ELSE [impl |-> "torch", tile |-> Probe(call).tile]

Dispatch(call, selection) ==
    LET choice == Resolved(Choice(selection, call.op))
    IN  CASE call.op = "attention" -> Attention(call, choice)
          [] call.op = "rotary" -> Rotary(call, choice)
          [] call.op = "swiglu" -> SwiGLU(call, choice)
          [] OTHER -> Matrix(call, choice)

\* Whether deciding the call gets as far as importing its kernel.
Consults(call, selection) ==
    LET name == Resolved(Choice(selection, call.op)).name
    IN  /\ "cuda" \in call.fits
        /\ call.op \in Symmetric => ~strict
        /\ call.op \in {"attention", "swiglu"} => name # "torch"
        /\ call.op = "swiglu" => name # "custom"
        /\ call.op = "attention" => ~(name = "flash" /\ Fits(call, "flash"))

\* is_available: one attempt; a first success counts.
Loading(kernel) ==
    /\ loaded' = loaded \cup {kernel}
    /\ loads' = IF kernel \in Built \ loaded THEN loads + 1 ELSE loads

-----------------------------------------------------------------------------
(* The selection cache: only where nothing was chosen. *)

Cacheable(t, op) == op \in Symmetric /\ Choice(Snapshot(t), op).name = NoChoice
\* A mutant that does not notice that the plan table was replaced.
MutantKey(call) == [loads |-> loads, revision |-> 0, call |-> call, strict |-> strict]
Key(call) == [loads |-> loads, revision |-> revision, call |-> call, strict |-> strict]
Hit(t, call) == Cacheable(t, call.op) /\ Key(call) \in DOMAIN picked

-----------------------------------------------------------------------------
(* Actions. *)

Init ==
    /\ chosen = <<>> /\ keeper = <<>>
    /\ scopes = [t \in Threads |-> <<>>]
    /\ loaded = {} /\ loads = 0
    /\ rowsNow = [rows |-> [k \in {} |-> Torch], heuristic |-> TRUE]
    /\ saved = <<>> /\ revision = 0 /\ strict = FALSE
    /\ picked = [k \in {} |-> Torch]
    /\ changes = 0

Changing == changes < MaxChanges /\ changes' = changes + 1

\* set_op, from the one thread that sets: the name None clears.
SetOp(op, name) ==
    /\ Changing /\ name # "custom"
    /\ chosen' = <<[o \in (DOMAIN Seeded \cup {op}) \ (IF name = NoChoice THEN {op} ELSE {}) |->
                      IF o = op THEN name ELSE Seeded[o]]>>
    /\ UNCHANGED <<scopes, keeper, loaded, loads, rowsNow, saved, revision, strict, picked>>

\* scope: what is chosen inside merges with what was chosen outside, and is taken back.
EnterScope(op, name) ==
    /\ Changing /\ Len(scopes["main"]) < MaxScopes
    /\ LET s == State("main")
       IN  scopes' = [scopes EXCEPT !["main"] = Append(@,
              [s EXCEPT !.choices = [o \in DOMAIN s.choices \cup {op} |->
                                        IF o = op THEN name ELSE s.choices[o]]])]
    /\ UNCHANGED <<chosen, keeper, loaded, loads, rowsNow, saved, revision, strict, picked>>

Leave(t) ==
    /\ scopes[t] # <<>>
    /\ scopes' = [scopes EXCEPT ![t] = Front(@)]
    /\ UNCHANGED <<chosen, keeper, loaded, loads, rowsNow, saved, revision, strict, picked,
                   changes>>

\* The engine keeps the selection of where it is built, and its loop thread installs it.
BuildEngine ==
    /\ keeper = <<>>
    /\ keeper' = <<Snapshot("main")>>
    /\ chosen' = <<Seeded>>
    /\ UNCHANGED <<scopes, loaded, loads, rowsNow, saved, revision, strict, picked, changes>>

Install ==
    /\ keeper # <<>> /\ scopes["loop"] = <<>>
    /\ scopes' = [scopes EXCEPT !["loop"] = keeper]
    /\ UNCHANGED <<chosen, keeper, loaded, loads, rowsNow, saved, revision, strict, picked,
                   changes>>

\* configure: a table replaces the measured rows, and with them whether the planner is asked.
Configure(rows, heuristic) ==
    /\ Changing
    /\ rowsNow' = [rows |-> rows, heuristic |-> heuristic] /\ revision' = revision + 1
    /\ UNCHANGED <<chosen, scopes, keeper, loaded, loads, saved, strict, picked>>

\* override: a table for the time of a scope; leaving it is one more revision.
EnterOverride(rows, heuristic) ==
    /\ Changing /\ Len(saved) < MaxScopes
    /\ saved' = Append(saved, rowsNow)
    /\ rowsNow' = [rows |-> rows, heuristic |-> heuristic] /\ revision' = revision + 1
    /\ UNCHANGED <<chosen, scopes, keeper, loaded, loads, strict, picked>>
LeaveOverride ==
    /\ saved # <<>>
    /\ rowsNow' = Last(saved) /\ saved' = Front(saved) /\ revision' = revision + 1
    /\ UNCHANGED <<chosen, scopes, keeper, loaded, loads, strict, picked, changes>>

SetStrict ==
    /\ Changing
    /\ strict' = ~strict
    /\ UNCHANGED <<chosen, scopes, keeper, loaded, loads, rowsNow, saved, revision, picked>>

\* A call that was not decided before is decided, and cached under the key taken first.
Call(t, call) ==
    /\ t = "loop" => scopes[t] # <<>> /\ call.op \notin Symmetric
    /\ IF ~Hit(t, call) /\ Cacheable(t, call.op)
       THEN LET full == Cardinality(DOMAIN picked) >= CacheLimit
            IN  picked' = [k \in (IF full THEN {} ELSE DOMAIN picked) \cup {Key(call)} |->
                              IF k = Key(call) THEN Dispatch(call, Snapshot(t)) ELSE picked[k]]
       ELSE UNCHANGED picked
    /\ IF ~Hit(t, call) /\ Consults(call, Snapshot(t)) THEN Loading(Kernel(call.op))
       ELSE UNCHANGED <<loaded, loads>>
    /\ chosen' = IF State(t).process = <<>> THEN <<Seeded>> ELSE chosen
    /\ UNCHANGED <<scopes, keeper, rowsNow, saved, revision, strict, changes>>

Ops == {c.op : c \in Calls}
Next ==
    \/ \E op \in Ops, name \in Names : SetOp(op, name) \/ EnterScope(op, name)
    \/ \E t \in Threads : Leave(t)
    \/ BuildEngine \/ Install
    \/ \E rows \in Tables, heuristic \in BOOLEAN :
          Configure(rows, heuristic) \/ EnterOverride(rows, heuristic)
    \/ LeaveOverride \/ SetStrict
    \/ \E t \in Threads, call \in Calls : Call(t, call)

Spec == Init /\ [][Next]_choosing

-----------------------------------------------------------------------------
(* Properties. *)

ChoiceTypeOK ==
    /\ loaded \subseteq {Kernel(op) : op \in Ops} /\ loads = Cardinality(loaded \cap Built)
    /\ Cardinality(DOMAIN picked) <= CacheLimit
    /\ \A t \in Threads, call \in Calls :
          Dispatch(call, Snapshot(t)).impl \in {"torch", "cuda", "flash", "custom", "error"}

\* What a call with no choice of its own would be given from the cache is what the table,
\* the flags and the kernels of this moment give: no plan, override or restored table is
\* answered with the selection of an earlier one (select, _selection_key, configure, override).
CacheIsCurrent ==
    \A call \in Calls :
        Hit("main", call) => picked[Key(call)] = Dispatch(call, Snapshot("main"))

\* What an engine's step runs, installed or about to be: the implementation of each call.
Runs(call) ==
    Dispatch(call, IF scopes["loop"] = <<>> THEN Head(keeper) ELSE Snapshot("loop"))

\* A step of the process does not change what the engine's loop runs.
KeepsSelection ==
    keeper # <<>> =>
        \A call \in Calls : call.op \notin Symmetric => Runs(call)' = Runs(call)

\* Whatever is chosen for the process or in a scope after an engine was built, every call of
\* its loop thread runs the implementation it would have run then
\* (snapshot_op_selection, use_op_selection).
EngineKeepsItsSelection == [][KeepsSelection]_choosing
=============================================================================
