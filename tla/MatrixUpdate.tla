----------------------------- MODULE MatrixUpdate -----------------------------
(***************************************************************************)
(* One process's optimizer step: the composite optimizers and their split of  *)
(* the parameters (optimizer/composite.py, muon/optimizer.py,                 *)
(* nora_nadamw.py, mano_adamw.py), Muon's local, batched and sharded updates   *)
(* (muon/sharded_update.py), and the Newton-Schulz iteration over caller and   *)
(* scratch storage (extension/backend/newton_schulz.py).                      *)
(*                                                                         *)
(* Numbers are terms: a node names the operation and its operands, so two      *)
(* ways of computing an update agree when their terms are equal.  Rounding     *)
(* differences between kernels are not told apart.                             *)
(***************************************************************************)
EXTENDS Integers, Sequences, FiniteSets, SequencesExt, FiniteSetsExt

CONSTANTS
    Kits,        \* optimizers and the models they are built over
    MaxUpdates   \* bound on the steps

VARIABLES
    kit,         \* the optimizer and its parameters, once built: a sequence of at most one
    memory,      \* per parameter [weight, momentum, second, count, times]
    agenda,      \* chunks of the step in progress: [child, members]
    updates,     \* steps begun
    axes,        \* Mano's step counter, kept in its parameter group
    owed,        \* per parameter, the steps so far in which it had a gradient
    ideal        \* what torch's own Muon would hold for the matrices it steps

matrices == <<kit, memory, agenda, updates, axes, owed, ideal>>

-----------------------------------------------------------------------------
(* Terms. *)

Leaf(name, tag) == [op |-> name, tag |-> tag, args |-> <<>>]
Node(name, args) == [op |-> name, tag |-> <<>>, args |-> args]
Garbage == Leaf("garbage", <<>>)
Zero == Leaf("zero", <<>>)
Gradient(i, n) == Leaf("grad", <<i, n>>)
Decayed(weight) == Node("decay", <<weight>>)
Moved(weight, direction) == Node("move", <<Decayed(weight), direction>>)

-----------------------------------------------------------------------------
(* Which child steps which parameter. *)

\* MuonAdamW goes by names, the other two by module types.
MuonMatrix(p) == p.dims >= 2 /\ p.role \notin {"norm", "bias", "embedding", "head"}
RowMatrix(p) == p.role = "linear" /\ p.dims = 2
NoDecay(p) == p.role \in {"norm", "bias", "embedding", "head", "lora"} \/ p.dims <= 1

Matrix(k, p) == IF k.name = "muon_adamw" THEN MuonMatrix(p) ELSE ~NoDecay(p) /\ RowMatrix(p)
Where(k, Test(_)) == SelectSeq([i \in 1..Len(k.params) |-> i],
                               LAMBDA i : k.params[i].trainable /\ Test(k.params[i]))

\* The children's groups, in order: matrices, then what decays, then what does not.
ChildGroups(k) ==
    <<[child |-> "matrix", members |-> Where(k, LAMBDA p : Matrix(k, p))],
      [child |-> "decay", members |-> Where(k, LAMBDA p : ~Matrix(k, p) /\ ~NoDecay(p))],
      [child |-> "plain", members |-> Where(k, LAMBDA p : ~Matrix(k, p) /\ NoDecay(p))]>>

-----------------------------------------------------------------------------
(* Newton-Schulz.  Storage: the caller's normalized matrix x, and scratch. *)

\* Row-major scratch is used when the plan of the Gram product prefers it.
RowWork(k, p) == k.backend = "auto" /\ p.tall /\ k.steps > 1 /\ k.rowPlan
Orientation(p) == IF p.tall THEN "column" ELSE "row"
Layout(k, p, name) ==
    IF RowWork(k, p) /\ name \in {"work", "spare"} THEN "row" ELSE Orientation(p)

\* Where iteration n (from 0) writes.
Output(k, p, n) ==
    IF RowWork(k, p) /\ n = k.steps - 1 THEN "final"
    ELSE IF n % 2 = 0 THEN "work" ELSE "spare"

\* An operation runs as it was selected: for the storage it is given and nothing aliased.
GramOf(k, p, n, from, term) ==
    IF Layout(k, p, from) = Layout(k, p, IF n = 0 THEN "x" ELSE "work")
    THEN Node("gram", <<term>>) ELSE Garbage
UpdateOf(k, p, n, from, to, polynomial, term) ==
    LET planned == IF n = 0 THEN <<"x", "work">>
                   ELSE IF to = "final" THEN <<"work", "final">> ELSE <<"work", "spare">>
        asPlanned == /\ Layout(k, p, from) = Layout(k, p, planned[1])
                     /\ Layout(k, p, to) = Layout(k, p, planned[2])
    IN  IF from # to /\ asPlanned THEN Node("update", <<polynomial, term>>) ELSE Garbage

\* The storage after the iterations, and the name of the one that holds the result.
Iterated(k, p, normalized) ==
    LET start == [store |-> [name \in {"x", "work", "spare", "final"} |->
                               IF name = "x" THEN normalized ELSE Garbage], at |-> "x"]
        Iteration(acc, n) ==
            LET term == acc.store[acc.at]
                to == Output(k, p, n)
                polynomial == Node("polynomial", <<GramOf(k, p, n, acc.at, term)>>)
            IN  [store |-> [acc.store EXCEPT ![to] =
                              UpdateOf(k, p, n, acc.at, to, polynomial, term)],
                 at |-> to]
    IN  FoldLeft(Iteration, start, [j \in 1..k.steps |-> j - 1])

\* newton_schulz: the result, and what the caller's storage holds afterwards.  A bfloat16
\* input is normalized in place; another dtype is copied first.
InPlace(k) == k.dtype = "bfloat16"
NewtonSchulz(k, p, matrix) ==
    LET done == Iterated(k, p, Node("normalized", <<matrix>>))
    IN  [result |-> done.store[done.at],
         caller |-> IF InPlace(k) THEN done.store["x"] ELSE matrix]

-----------------------------------------------------------------------------
(* The children's updates of one parameter. *)

Momentum(m, i) == Node("lerp", <<m.momentum, Gradient(i, updates)>>)
Lookahead(k, i, buffer) ==
    IF k.nesterov THEN Node("ahead", <<Gradient(i, updates), buffer>>) ELSE buffer

\* Muon hands Newton-Schulz its momentum itself when alone and unpacked; a packed batch or a
\* gathered matrix is a copy, whose normalized form is written back.
Restored(k, buffer, alias, caller) == IF k.nesterov THEN buffer ELSE caller

Aliased(k, p, members) == Len(members) = 1 /\ p.placement # "shard"

MuonUpdate(k, i, members, m) ==
    LET p == k.params[i]
        buffer == Momentum(m, i)
        done == NewtonSchulz(k, p, Lookahead(k, i, buffer))
    IN  [m EXCEPT !.weight = Moved(m.weight, done.result),
                  !.momentum = Restored(k, buffer, Aliased(k, p, members), done.caller),
                  !.times = @ + 1]

\* Nora: rows of the look-ahead made tangent to the parameter's, before the decay.
NoraUpdate(k, i, m) ==
    LET buffer == Momentum(m, i)
    IN  [m EXCEPT !.weight = Moved(m.weight,
                                   Node("tangent", <<Lookahead(k, i, buffer), m.weight>>)),
                  !.momentum = buffer, !.times = @ + 1]

\* Mano: the axis of the projection alternates with the group's steps.
ManoUpdate(k, i, m) ==
    LET buffer == Node("heavy", <<m.momentum, Gradient(i, updates)>>)
        axis == Leaf("axis", <<axes % 2>>)
    IN  [m EXCEPT !.weight = Moved(m.weight,
                                   Node("tangent", <<Lookahead(k, i, buffer), m.weight, axis>>)),
                  !.momentum = buffer, !.times = @ + 1]

\* NAdamW and torch's AdamW: two moments and a step count of the parameter's own.
AdamUpdate(k, i, m, decays) ==
    LET first == Node("first", <<m.momentum, Gradient(i, updates)>>)
        second == Node("second", <<m.second, Gradient(i, updates)>>)
        ahead == IF k.name = "nora_nadamw" THEN Node("ahead", <<first, Gradient(i, updates)>>)
                 ELSE first
        direction == Node("scaled", <<ahead, second, Leaf("bias", <<m.count + 1>>)>>)
    IN  [m EXCEPT !.weight = IF decays THEN Moved(@, direction)
                             ELSE Node("move", <<@, direction>>),
                  !.momentum = first, !.second = second, !.count = @ + 1, !.times = @ + 1]

Updated(k, chunk, i) ==
    LET m == memory[i]
    IN  IF chunk.child # "matrix" THEN AdamUpdate(k, i, m, chunk.child = "decay")
        ELSE CASE k.name = "muon_adamw" -> MuonUpdate(k, i, chunk.members, m)
               [] k.name = "nora_nadamw" -> NoraUpdate(k, i, m)
               [] k.name = "mano_adamw" -> ManoUpdate(k, i, m)

\* torch.optim._muon._single_tensor_muon with _zeropower_via_newtonschulz.
TorchIterated(term, steps) ==
    FoldLeft(LAMBDA x, n : Node("update", <<Node("polynomial", <<Node("gram", <<x>>)>>), x>>),
             term, [j \in 1..steps |-> j])
TorchMuon(k, i, m) ==
    LET buffer == Momentum(m, i)
        normalized == Node("normalized", <<Lookahead(k, i, buffer)>>)
    IN  [m EXCEPT !.weight = Moved(m.weight, TorchIterated(normalized, k.steps)),
                  !.momentum = IF ~k.nesterov /\ InPlace(k) THEN normalized ELSE buffer,
                  !.times = @ + 1]

-----------------------------------------------------------------------------
(* The chunks of a step. *)

\* Matrices are batched by shape and placement, in order of first appearance.
Kind(p) == <<p.tall, p.placement>>
Batched(k) == IF k.batched THEN k.batchSize ELSE 1
Cut(members, size) ==
    [c \in 1..((Len(members) + size - 1) \div size) |->
        SubSeq(members, (c - 1) * size + 1, Min({c * size, Len(members)}))]
Buckets(k, members) ==
    LET kinds == FoldLeft(LAMBDA seen, i : IF \E j \in DOMAIN seen : seen[j] = Kind(k.params[i])
                                          THEN seen ELSE Append(seen, Kind(k.params[i])),
                          <<>>, members)
    IN  [b \in DOMAIN kinds |-> SelectSeq(members, LAMBDA i : Kind(k.params[i]) = kinds[b])]
MuonChunks(k, members) ==
    LET local == SelectSeq(members, LAMBDA i : k.params[i].placement = "local")
        sharded == SelectSeq(members, LAMBDA i : k.params[i].placement # "local")
        Packed(part) == FoldLeft(LAMBDA done, b : done \o Cut(b, Batched(k)), <<>>,
                                 Buckets(k, part))
        \* torch's own loop, one matrix at a time
        plain == IF k.reuse \/ k.backend = "auto" \/ k.batched THEN Packed(local)
                 ELSE Cut(local, 1)
    IN  plain \o Packed(sharded)

Chunks(k, group, grads) ==
    LET members == SelectSeq(group.members, LAMBDA i : i \in grads)
        parts == IF k.name = "muon_adamw" /\ group.child = "matrix"
                 THEN MuonChunks(k, members) ELSE Cut(members, 1)
    IN  [c \in DOMAIN parts |-> [child |-> group.child, members |-> parts[c]]]

-----------------------------------------------------------------------------
(* Actions. *)

Blank(i) == [weight |-> Leaf("weight", <<i>>), momentum |-> Zero, second |-> Zero,
             count |-> 0, times |-> 0]

Init ==
    /\ kit = <<>> /\ memory = <<>> /\ ideal = <<>>
    /\ agenda = <<>> /\ owed = <<>> /\ updates = 0 /\ axes = 0

Assemble(k) ==
    /\ kit = <<>> /\ kit' = <<k>>
    /\ memory' = [i \in 1..Len(k.params) |-> Blank(i)] /\ ideal' = memory'
    /\ owed' = [i \in 1..Len(k.params) |-> 0]
    /\ UNCHANGED <<agenda, updates, axes>>

\* composite_step: what has a gradient is stepped by its child; Mano's axis is the group's.
BeginUpdate ==
    /\ kit # <<>> /\ agenda = <<>> /\ updates < MaxUpdates
    /\ \E grads \in SUBSET {i \in 1..Len(kit[1].params) : kit[1].params[i].trainable} :
         /\ owed' = [i \in DOMAIN owed |-> owed[i] + (IF i \in grads THEN 1 ELSE 0)]
         /\ agenda' = FoldLeft(LAMBDA done, g : done \o Chunks(kit[1], g, grads), <<>>,
                               ChildGroups(kit[1]))
    /\ updates' = updates + 1
    /\ axes' = IF kit[1].name = "mano_adamw" /\ updates > 0 THEN axes + 1 ELSE axes
    /\ UNCHANGED <<kit, memory, ideal>>

StepChunk ==
    /\ agenda # <<>>
    /\ LET k == kit[1]
           chunk == Head(agenda)
           members == ToSet(chunk.members)
       IN  /\ memory' = [i \in DOMAIN memory |->
                           IF i \in members THEN Updated(k, chunk, i) ELSE memory[i]]
           /\ ideal' = [i \in DOMAIN ideal |->
                           IF i \in members /\ chunk.child = "matrix"
                           THEN TorchMuon(k, i, ideal[i]) ELSE ideal[i]]
    /\ agenda' = Tail(agenda)
    /\ UNCHANGED <<kit, updates, axes, owed>>

Next == (\E k \in Kits : Assemble(k)) \/ BeginUpdate \/ StepChunk

Spec == Init /\ [][Next]_matrices

-----------------------------------------------------------------------------
(* Properties. *)

\* Chunks are non-empty and name parameters that train.
UpdateTypeOK ==
    /\ Len(kit) <= 1 /\ updates \in 0..MaxUpdates
    /\ \A c \in DOMAIN agenda : /\ agenda[c].members # <<>>
                                /\ \A i \in ToSet(agenda[c].members) : kit[1].params[i].trainable

\* However Muon runs (alone, batched, with reused buffers, through measured kernels, on gathered
\* shards), weights and momentum are those of torch's own Muon: iterates never overwrite the
\* caller's storage, operations run on the layouts they were selected for, and a copy's
\* normalization reaches the momentum (sharded_update.py, newton_schulz.py).
ModesAgree ==
    kit # <<>> /\ kit[1].name = "muon_adamw" =>
        \A i \in DOMAIN memory :
            Matrix(kit[1], kit[1].params[i]) => /\ memory[i].weight = ideal[i].weight
                                                /\ memory[i].momentum = ideal[i].momentum

\* Between steps, every trainable parameter has been stepped exactly as often as it had a
\* gradient: none falls between the groups or into two (partition_optimizer_parameters,
\* MuonAdamW.__init__, composite_step).
EveryGradientCounts ==
    agenda = <<>> => \A i \in DOMAIN memory : memory[i].times = owed[i]
=============================================================================
