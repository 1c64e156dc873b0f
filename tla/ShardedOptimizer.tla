--------------------------- MODULE ShardedOptimizer ---------------------------
(***************************************************************************)
(* PrecisionOptimizer with sharded state (optimization/optimizer/            *)
(* precision.py) and the checkpoint of it (executor/base.py): masters and    *)
(* moments live at one owner per parameter, the compute weights on every     *)
(* rank, and a checkpoint written by one world is loaded by another.         *)
(*                                                                         *)
(* A value is the number of updates it has seen.  A broadcast or a send and  *)
(* receive is external: it happens once every rank it involves has reached   *)
(* its position.  The masters are stored like the compute weights.           *)
(***************************************************************************)
EXTENDS Integers, Sequences, FiniteSets, SequencesExt, FiniteSetsExt

CONSTANTS Groups,   \* the parameter groups, child after child: records [child, params]
          Cost,     \* Cost[p]: bytes of p's master and moments
          Worlds,   \* world sizes a run may have
          Touched,  \* sets of parameters that may have a gradient in a step
          None,
          MaxSteps, MaxRestarts   \* bounds

VARIABLES
    world,   \* size of the process group
    owner,   \* the rank that owns each parameter
    pc,      \* each rank: idle, publish, save, loaded
    master,  \* master[p] at p's owner: updates it has seen
    moment,  \* moment[p] at p's owner
    model,   \* model[r][p]: the compute weight on rank r
    sent,    \* broadcasts of the running publication that have completed
    grads,   \* parameters with a gradient in the running step, or None
    gathered, \* on rank 0: the parts of the optimizer state merged so far
    source,   \* the rank whose part is gathered next
    file,    \* the checkpoint: master_params and, per child, groups and state
    truth,   \* ghost: <<master, moment>> when the file was made
    loaded,  \* ghost: ranks that have loaded the file since the restart
    steps, restarts

training == <<master, moment, model>>
saving == <<gathered, source, file, truth>>
vars == <<world, owner, pc, training, sent, grads, saving, loaded, steps, restarts>>

AllParams == FoldLeft(LAMBDA ps, g : ps \o g.params, <<>>, Groups)
Managed == Range(AllParams)
Children == {Groups[i].child : i \in DOMAIN Groups}
GroupsOf(c) == SelectSeq(Groups, LAMBDA g : g.child = c)
ChildOf(p) == CHOOSE c \in Children : \E i \in DOMAIN Groups :
                 Groups[i].child = c /\ p \in Range(Groups[i].params)
Ranks == 0..(world - 1)

\* Dearest first, in parameter order among equals, each to the least loaded rank.
Position(p) == CHOOSE i \in DOMAIN AllParams : AllParams[i] = p
ByCost == SetToSortSeq(Managed, LAMBDA p, q :
             Cost[p] > Cost[q] \/ (Cost[p] = Cost[q] /\ Position(p) < Position(q)))
OwnersIn(size) ==
    LET least(loads) == CHOOSE r \in 0..(size - 1) : \A s \in 0..(size - 1) :
                           loads[r] < loads[s] \/ (loads[r] = loads[s] /\ r <= s)
        give(acc, p) == LET r == least(acc.loads)
                        IN [loads |-> [acc.loads EXCEPT ![r] = @ + Cost[p]],
                            owner |-> [q \in DOMAIN acc.owner \cup {p} |->
                                         IF q = p THEN r ELSE acc.owner[q]]]
    IN FoldLeft(give, [loads |-> [r \in 0..(size - 1) |-> 0], owner |-> <<>>], ByCost).owner

Owned(r) == {p \in Managed : owner[p] = r}

Everyone(s) == \A r \in Ranks : pc[r] = s

Init ==
    /\ world \in Worlds /\ owner = OwnersIn(world)
    /\ pc = [r \in 0..(world - 1) |-> "idle"]
    /\ master = [p \in Managed |-> 0] /\ moment = [p \in Managed |-> 0]
    /\ model = [r \in 0..(world - 1) |-> [p \in Managed |-> 0]]
    /\ sent = 0 /\ grads = None
    /\ gathered = None /\ source = 0 /\ file = None /\ truth = None
    /\ loaded = {} /\ steps = 0 /\ restarts = 0

-----------------------------------------------------------------------------
(* step. *)

\* The window's gradients, the same on every rank after their reduction.
BeginStep ==
    /\ Everyone("idle") /\ grads = None /\ steps < MaxSteps
    /\ loaded \in {{}, Ranks}
    /\ grads' \in Touched /\ steps' = steps + 1
    /\ UNCHANGED <<world, owner, pc, training, sent, saving, loaded, restarts>>

\* _step_resident: update what this rank owns and copy it to its compute weights.
StepLocal(r) ==
    /\ pc[r] = "idle" /\ grads # None
    /\ LET mine == Owned(r) \cap grads IN
          /\ master' = [p \in Managed |-> IF p \in mine THEN master[p] + 1 ELSE master[p]]
          /\ moment' = [p \in Managed |-> IF p \in mine THEN moment[p] + 1 ELSE moment[p]]
          /\ model' = [model EXCEPT ![r] = [p \in Managed |->
                          IF p \in Owned(r) THEN master'[p] ELSE @[p]]]
    /\ pc' = [pc EXCEPT ![r] = "publish"]
    /\ UNCHANGED <<world, owner, sent, grads, saving, loaded, steps, restarts>>

\* A mutant of Published that goes by parameter position instead of owner.
MutantFromZero(p) == model[0][p]
\* What every rank receives for parameter p: the compute weight of its owner.
Published(p) == model[owner[p]][p]

\* The next broadcast of _publish_models completes.
Broadcast ==
    /\ Everyone("publish") /\ sent < Len(AllParams)
    /\ LET p == AllParams[sent + 1] IN
       model' = [r \in Ranks |-> [model[r] EXCEPT ![p] = Published(p)]]
    /\ sent' = sent + 1
    /\ UNCHANGED <<world, owner, pc, master, moment, grads, saving, loaded, steps, restarts>>

\* The waits have returned on every rank.
EndPublish ==
    /\ Everyone("publish") /\ sent = Len(AllParams)
    /\ pc' = [r \in Ranks |-> "idle"] /\ sent' = 0 /\ grads' = None
    /\ UNCHANGED <<world, owner, training, saving, loaded, steps, restarts>>

-----------------------------------------------------------------------------
(* checkpoint_context. *)

\* Indices of a child's parameters, over its groups in order.
Indexed(c) == FoldLeft(LAMBDA ps, g : ps \o g.params, <<>>, GroupsOf(c))
Index(p) == LET ps == Indexed(ChildOf(p)) IN CHOOSE i \in DOMAIN ps : ps[i] = p

\* The live group of a child on rank r holds the parameters r owns.
LiveGroup(g, r) == SelectSeq(g.params, LAMBDA p : owner[p] = r)

\* _global_optimizer_state: the rank's moments under full-model indices.
Part(r, c) ==
    LET mine == {p \in Range(Indexed(c)) : owner[p] = r}
    IN [i \in {Index(p) : p \in mine} |-> moment[Indexed(c)[i]]]

Merged(f, g) == [i \in DOMAIN f \cup DOMAIN g |-> IF i \in DOMAIN g THEN g[i] ELSE f[i]]

\* Every rank enters the context after a barrier; rank by rank, rank 0 gathers.
EnterSave ==
    /\ Everyone("idle") /\ grads = None /\ loaded \in {{}, Ranks}
    /\ truth # <<master, moment>>
    /\ pc' = [r \in Ranks |-> "save"]
    /\ gathered' = [masters |-> <<>>, state |-> [c \in Children |-> <<>>]] /\ source' = 0
    /\ UNCHANGED <<world, owner, training, sent, grads, file, truth, loaded, steps, restarts>>

\* _gather_tensor_tree of one source, merged into what rank 0 holds.
Gather ==
    /\ Everyone("save") /\ source < world
    /\ gathered' = [masters |-> Merged(gathered.masters,
                        [i \in {Position(p) : p \in Owned(source)} |-> master[AllParams[i]]]),
                    state |-> [c \in Children |->
                                  Merged(gathered.state[c], Part(source, c))]]
    /\ source' = source + 1
    /\ UNCHANGED <<world, owner, pc, training, sent, grads, file, truth, loaded, steps, restarts>>

\* The masters in order, and the file; then every rank leaves.
LeaveSave ==
    /\ Everyone("save") /\ source = world
    /\ file' = [masters |-> [i \in DOMAIN AllParams |-> gathered.masters[i]],
                state |-> gathered.state]
    /\ truth' = <<master, moment>>
    /\ gathered' = None /\ source' = 0
    /\ pc' = [r \in Ranks |-> "idle"]
    /\ UNCHANGED <<world, owner, training, sent, grads, loaded, steps, restarts>>

-----------------------------------------------------------------------------
(* A rank dies, or raises and its peers time out: the run starts again, in another world
   perhaps, from the checkpoint's compute weights. *)

Restart(size) ==
    /\ file # None /\ restarts < MaxRestarts
    /\ restarts' = restarts + 1 /\ world' = size /\ owner' = OwnersIn(size)
    /\ pc' = [r \in 0..(size - 1) |-> "fresh"]
    /\ master' = [p \in Managed |-> file.masters[Position(p)]]
    /\ moment' = [p \in Managed |-> 0]
    /\ model' = [r \in 0..(size - 1) |-> [p \in Managed |-> file.masters[Position(p)]]]
    /\ sent' = 0 /\ grads' = None /\ gathered' = None /\ source' = 0 /\ loaded' = {}
    /\ UNCHANGED <<file, truth, steps>>

\* _local_optimizer_state: of each group, the saved indices this rank owns, whose state the
\* loader gives to the live parameters in the same order.
LocalIndices(g, r) ==
    [i \in DOMAIN LiveGroup(g, r) |-> Index(LiveGroup(g, r)[i])]
LocalMoment(p, r) ==
    LET g    == CHOOSE g \in Range(Groups) : p \in Range(g.params)
        live == LiveGroup(g, r)
        at   == CHOOSE i \in DOMAIN live : live[i] = p
        id   == LocalIndices(g, r)[at]
        kept == file.state[g.child]
    IN IF id \in DOMAIN kept THEN kept[id] ELSE 0

\* load_state_dict on one rank, up to its publication.
Load(r) ==
    /\ pc[r] = "fresh"
    /\ master' = [p \in Managed |-> IF owner[p] = r THEN file.masters[Position(p)] ELSE master[p]]
    /\ moment' = [p \in Managed |-> IF owner[p] = r THEN LocalMoment(p, r) ELSE moment[p]]
    /\ model' = [model EXCEPT ![r] = [p \in Managed |-> IF owner[p] = r THEN master'[p] ELSE @[p]]]
    /\ pc' = [pc EXCEPT ![r] = "publish"] /\ loaded' = loaded \cup {r}
    /\ UNCHANGED <<world, owner, sent, grads, saving, steps, restarts>>

Next ==
    \/ BeginStep \/ Broadcast \/ EndPublish \/ EnterSave \/ Gather \/ LeaveSave
    \/ \E r \in Ranks : StepLocal(r) \/ Load(r)
    \/ \E size \in Worlds : Restart(size)

Spec == Init /\ [][Next]_vars

-----------------------------------------------------------------------------

\* Between steps every rank computes with the same weights, those of the owners' masters.
ReplicasAgree ==
    Everyone("idle") /\ grads = None =>
        \A r \in Ranks, p \in Managed : model[r][p] = master[p]

\* A world that has loaded a checkpoint and not stepped since holds, parameter by
\* parameter, the masters and the moments of the world that saved it, however the
\* parameters were then and are now spread over ranks, groups and children.
RestoredAsSaved ==
    (loaded = Ranks /\ grads = None /\ Everyone("publish")) =>
        <<master, moment>> = truth
=============================================================================
