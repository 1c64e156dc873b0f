---------------------------- MODULE StateOffload ----------------------------
(***************************************************************************)
(* The optimizer step over state kept in pinned host memory                   *)
(* (optimization/optimizer/offload.py, CPUStateOffload): each parameter's       *)
(* master and moments are uploaded, updated and returned on three CUDA          *)
(* streams, with at most two parameters on the device.                        *)
(*                                                                         *)
(* The host enqueues; a stream runs its operations in order, at any time, and    *)
(* an operation that waits for an event runs after that event fired.  A value    *)
(* is the number of updates it has seen.  An optimizer keeps two moments; a     *)
(* state without updates is the empty dict of a first step.                    *)
(***************************************************************************)
EXTENDS Integers, Sequences, FiniteSets, SequencesExt, FiniteSetsExt, Functions

CONSTANTS
    Weights,     \* the parameters, in the order of the optimizers' groups
    Sizes,       \* the bytes of each parameter's master and moments
    Budget,      \* the device bytes a step may use
    MaxSteps     \* bound on the steps

OffloadAssumption ==
    /\ \A w \in DOMAIN Sizes : Sizes[w] \in Nat \ {0}
    /\ ToSet(Weights) \subseteq DOMAIN Sizes /\ IsInjective(Weights)

VARIABLES
    resident,    \* per parameter its pinned [master, first, second]
    replica,     \* per parameter the model's own copy of the weights
    blocks,      \* device blocks: what each holds
    lanes,       \* per stream the operations enqueued on it
    fired,       \* events that have happened, as [kind, weight]
    pending,     \* parameters on the device: [weight, block], oldest first
    worklist,     \* parameters left in this step, with whether each has a gradient
    mood,      \* "idle", "stepping", "raising" or "raised"
    passes,      \* steps begun
    promised,    \* per parameter the updates it should have seen
    torn         \* ghost: the parameter in which a step raised, if any

offload == <<resident, replica, blocks, lanes, fired, pending, worklist, mood, passes, promised,
             torn>>

W == ToSet(Weights)
Blocks == 1..2
Fields == {"master", "first", "second"}
AllAt(n) == [f \in Fields |-> n]
Garbage == AllAt(-1)
Streams == {"upload", "compute", "download"}

-----------------------------------------------------------------------------
(* The streams. *)

Event(kind, w) == [kind |-> kind, weight |-> w]

Operation(stream, do, after) == [stream |-> stream, do |-> do, after |-> after]

\* What one parameter enqueues, in the order of the host: the compute stream waits for the
\* upload, the download for the update, and returns master and moments one by one.
\* A mutant whose download does not wait.
MutantQueued(w) ==
    <<Operation("upload", "upload", {}),
      Operation("compute", "update", {Event("uploaded", w)}),
      Operation("download", "master", {}),
      Operation("download", "first", {}), Operation("download", "second", {})>>
Queued(w) ==
    <<Operation("upload", "upload", {}),
      Operation("compute", "update", {Event("uploaded", w)}),
      Operation("download", "master", {Event("computed", w)}),
      Operation("download", "first", {}), Operation("download", "second", {})>>
Fires == [upload |-> "uploaded", update |-> "computed", second |-> "complete"]

\* The operations are appended to their streams, for a parameter and a block.
Enqueue(ops, w, b) ==
    lanes' = [s \in Streams |->
        lanes[s] \o LET mine == SelectSeq(ops, LAMBDA op : op.stream = s)
                    IN  [i \in DOMAIN mine |-> [do |-> mine[i].do, after |-> mine[i].after,
                                               weight |-> w, block |-> b]]]

\* One operation runs.
Execute(s) ==
    /\ lanes[s] # <<>>
    /\ LET op == Head(lanes[s])
       IN  /\ op.after \subseteq fired
           /\ fired' = fired \union {Event(Fires[k], op.weight) : k \in DOMAIN Fires \cap {op.do}}
           /\ blocks' = CASE op.do = "upload" -> [blocks EXCEPT ![op.block] = resident[op.weight]]
                          [] op.do = "update" ->
                                [blocks EXCEPT ![op.block] = [f \in Fields |-> @[f] + 1]]
                          [] OTHER -> blocks
           /\ replica' = IF op.do = "update"
                         THEN [replica EXCEPT ![op.weight] = blocks[op.block].master + 1]
                         ELSE replica
           /\ resident' = IF op.do \in Fields
                          THEN [resident EXCEPT ![op.weight][op.do] = blocks[op.block][op.do]]
                          ELSE resident
    /\ lanes' = [lanes EXCEPT ![s] = Tail(@)]
    /\ UNCHANGED <<pending, worklist, mood, passes, promised, torn>>

-----------------------------------------------------------------------------
(* The host. *)

Live == FoldLeft(LAMBDA acc, p : acc + Sizes[p.weight], 0, pending)
Full(w) == pending # <<>> /\ (Len(pending) >= 2 \/ Live + Sizes[w] > Budget)
Free == Blocks \ {pending[i].block : i \in DOMAIN pending}

Init ==
    /\ resident = [w \in W |-> AllAt(0)]
    /\ replica = [w \in W |-> 0] /\ promised = [w \in W |-> 0]
    /\ blocks = [b \in Blocks |-> Garbage]
    /\ lanes = [s \in Streams |-> <<>>] /\ fired = {}
    /\ pending = <<>> /\ worklist = <<>> /\ mood = "idle" /\ passes = 0
    /\ torn = {}

BeginStep ==
    /\ mood = "idle" /\ passes < MaxSteps
    /\ \E graded \in SUBSET W :
         worklist' = SelectSeq(Weights, LAMBDA w : w \in graded)
    /\ mood' = "stepping" /\ passes' = passes + 1 /\ fired' = {}
    /\ UNCHANGED <<resident, replica, blocks, lanes, pending, promised, torn>>

\* drain: the oldest parameter's completion is waited for, and its block is free.
Complete(p) == Event("complete", p.weight) \in fired
Drain ==
    /\ pending # <<>> /\ Complete(Head(pending))
    /\ IF mood = "raising" \/ worklist = <<>> THEN TRUE ELSE Full(Head(worklist))
    /\ pending' = Tail(pending)
    /\ UNCHANGED <<resident, replica, blocks, lanes, fired, worklist, mood, passes, promised,
                   torn>>

\* One parameter is enqueued on the three streams; the host goes on at once.
Stage ==
    /\ mood = "stepping" /\ worklist # <<>> /\ ~Full(Head(worklist))
    /\ LET w == Head(worklist)
           b == Min(Free)
       IN  /\ Enqueue(Queued(w), w, b)
           /\ pending' = Append(pending, [weight |-> w, block |-> b])
           /\ promised' = [promised EXCEPT ![w] = @ + 1]
    /\ worklist' = Tail(worklist)
    /\ UNCHANGED <<resident, replica, blocks, fired, mood, passes, torn>>

\* How many of the operations reach what the host keeps when the one after the n-th raises:
\* moments of a first step were stored in tensors that no dict refers to yet.
Kept(w, n) == IF promised[w] = 0 /\ n = 4 THEN 3 ELSE n

\* An upload, the optimizer, the model's copy, a store or the last event raises: what was
\* enqueued before it runs, and the parameter keeps its host tensors.
Fail ==
    /\ mood = "stepping" /\ worklist # <<>> /\ ~Full(Head(worklist))
    /\ LET w == Head(worklist)
       IN  /\ \E n \in 0 .. Len(Queued(w)) :
                 Enqueue(SubSeq(Queued(w), 1, Kept(w, n)), w, Min(Free))
           /\ torn' = {w}
    /\ mood' = "raising" /\ worklist' = <<>>
    /\ UNCHANGED <<resident, replica, blocks, fired, pending, passes, promised>>

\* The step returns, or the exception leaves it, once the streams are synchronized.
Return ==
    /\ mood \in {"stepping", "raising"} /\ worklist = <<>> /\ pending = <<>>
    /\ \A s \in Streams : lanes[s] = <<>>
    /\ mood' = IF mood = "raising" THEN "raised" ELSE "idle"
    /\ UNCHANGED <<resident, replica, blocks, lanes, fired, pending, worklist, passes, promised,
                   torn>>

Next == (\E s \in Streams : Execute(s)) \/ BeginStep \/ Drain \/ Stage \/ Fail \/ Return

Spec == Init /\ [][Next]_offload

-----------------------------------------------------------------------------
(* Properties. *)

\* At most two parameters are on the device, each on a block of its own, and more than one
\* only within the budget.
OffloadTypeOK ==
    /\ Len(pending) <= 2
    /\ \A i, j \in DOMAIN pending : pending[i].block = pending[j].block => i = j
    /\ Len(pending) = 2 => Live <= Budget

\* Of the parameter in which a step raised, the update got as far as the model, the master and
\* the moments, in this order: the host is never ahead of the model, nor moments of their master.
Interrupted(w) ==
    /\ replica[w] \in promised[w] .. promised[w] + 1
    /\ resident[w].master \in promised[w] .. replica[w]
    /\ resident[w].first \in promised[w] .. resident[w].master
    /\ resident[w].second \in promised[w] .. resident[w].first

\* When a step has returned, every parameter with a gradient has been updated exactly once and
\* every other is as it was, in host state and in the model alike, so that a checkpoint can read
\* the host state at once (offload.py:68-75, 187-193).  When it has raised, this holds of
\* every parameter but the one it raised in, which may be torn between two updates: what raised
\* after model.copy_ (155) leaves the model ahead of the host, and after _store (160) the master
\* ahead of its moments, as optimizer.state is given back the dict from before the step (183).
HostStateIsWhole ==
    mood \in {"idle", "raised"} =>
        \A w \in W : IF w \in torn THEN Interrupted(w)
                     ELSE resident[w] = AllAt(promised[w]) /\ replica[w] = promised[w]
=============================================================================
