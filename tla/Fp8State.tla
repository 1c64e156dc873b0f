------------------------------- MODULE Fp8State -------------------------------
(***************************************************************************)
(* The state behind FP8 linears: the slot table of module paths (Python),    *)
(* the metas with their delayed-scaling rings, the weight-cast cache and the *)
(* shared activation casts (C++), and the snapshot that a resume binds       *)
(* (extension/policy/quantization, csrc/gemm/fp8).                           *)
(*                                                                         *)
(* A tensor is its amax.  Bytes are <<amax they were cast from, scale>>.  A  *)
(* parameter object is <<path, n>>, the n-th that the module at that path    *)
(* has held; its address is its own.  Formats, shapes and the recipe are     *)
(* fixed and alike for every linear.  The client is a training loop: a       *)
(* region with one forward of each linear, their backwards in reverse, an    *)
(* optimizer step, and passes without gradients in between.                  *)
(***************************************************************************)
EXTENDS Integers, Sequences, FiniteSets, SequencesExt

CONSTANTS Linears,   \* sequence of module paths, in forward order
          Input,     \* Input[l]: the activation l consumes
          Amaxes,    \* magnitudes of a tensor
          HistoryLen,
          Caching,   \* whether activation casts are shared (fp8_set_act_cache)
          None,
          MaxSteps, MaxSwaps, MaxRestarts   \* bounds

Paths == Range(Linears)
Acts == {Input[l] : l \in Paths}

VARIABLES
    slotted,   \* assign_slots was called on the model
    param,     \* param[l]: object, version counter and amax of l's weight
    byWeight,  \* SlotTable: the parameter object each path is registered with
    meta,      \* metas by the parameter object they were made for
    xring,     \* activation rings, by the meta they were made with
    bySlot, byKey, order,  \* the registry's views
    pending,   \* snapshot entries waiting for their meta
    cache,     \* activation casts of the open region
    region,    \* amax of each activation of the open region, or None
    next,      \* the linear whose forward comes next
    tape,      \* forwards whose backward is still to come
    snapshot,  \* the last checkpoint's entries
    folds,     \* ghost: steps of history each linear's weight ring should hold
    kept,      \* ghost: folds when the snapshot was taken
    steps, swaps, restarts

registry == <<meta, xring, bySlot, byKey, order, pending>>
client == <<region, next, tape>>
disk == <<snapshot, kept>>
bounds == <<steps, swaps, restarts>>
vars == <<slotted, param, byWeight, registry, cache, client, disk, folds, bounds>>

-----------------------------------------------------------------------------
(* Rings. *)

Peak(hist) == CHOOSE a \in Range(hist) : \A b \in Range(hist) : b <= a

Unseeded == [hist |-> <<>>, pair |-> <<0, 0>>, cur |-> 1, n |-> 0, of |-> None]
Seeded(r, a, l) ==
    IF r.hist # <<>> THEN r
    ELSE [hist |-> [i \in 1..HistoryLen |-> a], pair |-> <<a, 0>>, cur |-> 1, n |-> 0, of |-> l]
Scale(r) == r.pair[r.cur]

\* quantize_scaled and advance: read the current pair, publish into the other, flip.
Folded(r, a) ==
    LET hist == Append(Tail(r.hist), a)
    IN [r EXCEPT !.hist = hist, !.pair[3 - r.cur] = Peak(hist), !.cur = 3 - r.cur, !.n = @ + 1]

-----------------------------------------------------------------------------
(* get_meta. *)

Obj(l) == param[l].obj
SlotOf(l, table) == slotted /\ table[l] = Obj(l)      \* slot_of(weight) >= 0

NoCast == [obj |-> None, ver |-> -1, bytes |-> None, scale |-> 0]

\* A mutant of Rebound that keeps the cast of the weight that was replaced.
MutantKeepCast(m, w) == [m EXCEPT !.weight = w]
\* rebind_meta_locked: the identity moves, the rings stay, the cast goes.
Rebound(m, w) == [m EXCEPT !.weight = w, !.cast = NoCast]

\* The pending entry a new meta of this slot name consumes: by name, else, for an entry
\* without one, in order.
Matching(name) == \E i \in DOMAIN pending : pending[i].name \in {name, None}
Chosen(name) ==
    LET named == {i \in DOMAIN pending : name # None /\ pending[i].name = name}
        bare  == {i \in DOMAIN pending : pending[i].name = None}
        from  == IF named # {} THEN named ELSE IF bare # {} THEN bare ELSE DOMAIN pending
    IN CHOOSE i \in from : \A j \in from : i <= j

\* The registry as get_meta leaves it for the current weight of l: reg.id is the meta.
Registry == [id |-> None, meta |-> meta, xring |-> xring, bySlot |-> bySlot,
             byKey |-> byKey, order |-> order, pending |-> pending]

ByKey(w) == w \in DOMAIN byKey
Put(f, k, v) == [x \in DOMAIN f \cup {k} |-> IF x = k THEN v ELSE f[x]]
Emplace(f, k, v) == IF k \in DOMAIN f THEN f ELSE Put(f, k, v)
Without(f, k) == [x \in DOMAIN f \ {k} |-> f[x]]

BySlotMeta(l) ==
    LET id == bySlot[l]  m == meta[id]  w == Obj(l)  freed == Without(byKey, m.weight)
    IN IF m.weight = w THEN [Registry EXCEPT !.id = id]
       ELSE [Registry EXCEPT !.id = id, !.meta = Put(meta, id, Rebound(m, w)),
                !.byKey = Emplace(IF ByKey(m.weight) /\ byKey[m.weight] = id THEN freed
                                  ELSE byKey, w, id)]

ByKeyMeta(l, slot) ==
    LET id == byKey[Obj(l)]
    IN [Registry EXCEPT !.id = id, !.meta[id].name = IF slot THEN l ELSE @,
            !.bySlot = IF slot /\ meta[id].name = None THEN Emplace(bySlot, l, id) ELSE @]

NewMeta(l, slot) ==
    LET w == Obj(l)
        name == IF slot THEN l ELSE None
        from == IF Matching(name) THEN pending[Chosen(name)] ELSE None
        ring(f) == IF from = None THEN Unseeded ELSE from[f]
    IN [id |-> w,
        meta |-> Put(meta, w, [weight |-> w, name |-> name, w |-> ring("w"), g |-> ring("g"),
                               x |-> w, cast |-> NoCast]),
        xring |-> Put(xring, w, ring("x")),
        bySlot |-> IF slot THEN Emplace(bySlot, l, w) ELSE bySlot,
        byKey |-> Emplace(byKey, w, w),
        order |-> Append(order, w),
        pending |-> IF from = None THEN pending ELSE RemoveAt(pending, Chosen(name))]

GetMeta(l, slot) ==
    CASE slot /\ l \in DOMAIN bySlot -> BySlotMeta(l)
      [] ~(slot /\ l \in DOMAIN bySlot) /\ ByKey(Obj(l)) -> ByKeyMeta(l, slot)
      [] OTHER -> NewMeta(l, slot)

Install(reg, m, rings, pend) ==
    /\ meta' = Put(reg.meta, reg.id, m)
    /\ xring' = rings
    /\ bySlot' = reg.bySlot /\ byKey' = reg.byKey /\ order' = reg.order
    /\ pending' = pend

-----------------------------------------------------------------------------

Fresh(l, n, a) == [obj |-> <<l, n>>, ver |-> 0, amax |-> a]
Smallest == CHOOSE a \in Amaxes : \A b \in Amaxes : a <= b

Init ==
    /\ slotted \in BOOLEAN
    /\ param = [l \in Paths |-> Fresh(l, 0, Smallest)]
    /\ byWeight = [l \in Paths |-> IF slotted THEN <<l, 0>> ELSE None]
    /\ meta = <<>> /\ xring = <<>> /\ bySlot = <<>> /\ byKey = <<>>
    /\ order = <<>> /\ pending = <<>>
    /\ cache = <<>>
    /\ region = None /\ next = 1 /\ tape = <<>>
    /\ snapshot = <<>> /\ kept = [l \in Paths |-> 0]
    /\ folds = [l \in Paths |-> 0]
    /\ steps = 0 /\ swaps = 0 /\ restarts = 0

\* refresh_slots: a stale table is assigned again from the model.
Refreshed == IF slotted THEN [l \in Paths |-> Obj(l)] ELSE byWeight

Between == region = None /\ tape = <<>> /\ next = 1

\* fp8_autocast.__enter__, with this step's activations.
EnterRegion ==
    /\ Between /\ steps < MaxSteps
    /\ region' \in [Acts -> Amaxes]
    /\ byWeight' = Refreshed
    /\ UNCHANGED <<slotted, param, registry, cache, next, tape, disk, folds, bounds>>

Cached(x) == Caching /\ \E i \in DOMAIN cache : cache[i].x = x
CastOf(x) == cache[CHOOSE i \in DOMAIN cache : cache[i].x = x]

\* Whether the meta's weight cast is of the version the parameter has now.
ValidCast(m, l) == m.cast.ver = param[l].ver /\ m.cast.bytes # None

\* fp8_forward_impl under gradients: fold the rings, or take the casts that are cached.
Forward ==
    /\ region # None /\ next <= Len(Linears)
    /\ LET l   == Linears[next]
           x   == Input[l]
           reg == GetMeta(l, SlotOf(l, byWeight))
           hit == Cached(x)
           xid == IF hit THEN CastOf(x).ring ELSE reg.meta[reg.id].x
           m   == [reg.meta[reg.id] EXCEPT !.x = xid, !.w = Seeded(@, param[l].amax, l)]
           ring == Seeded(reg.xring[xid], region[x], l)
           sx  == <<xid, ring.cur>>          \* a view of the pair that is current now
           x8  == IF hit THEN CastOf(x).bytes ELSE <<region[x], Scale(ring)>>
           valid == ValidCast(m, l)
           cast == IF valid THEN m.cast
                   ELSE [obj |-> Obj(l), ver |-> param[l].ver, scale |-> Scale(m.w),
                         bytes |-> <<param[l].amax, Scale(m.w)>>]
       IN /\ Install(reg, [m EXCEPT !.cast = cast,
                                    !.w = IF valid THEN @ ELSE Folded(@, param[l].amax)],
                     Put(reg.xring, xid, IF hit THEN ring ELSE Folded(ring, region[x])),
                     reg.pending)
          /\ cache' = IF hit \/ ~Caching THEN cache
                      ELSE Append(cache, [x |-> x, ring |-> xid, bytes |-> x8])
          /\ tape' = Append(tape, [l |-> l, sx |-> sx, x8 |-> x8, obj |-> Obj(l),
                                   ver |-> param[l].ver, cast |-> cast])
          /\ folds' = [folds EXCEPT ![l] = IF valid THEN @ ELSE @ + 1]
    /\ next' = next + 1
    /\ UNCHANGED <<slotted, param, byWeight, region, disk, bounds>>

\* fp8_autocast.__exit__: the shared casts go.
ExitRegion ==
    /\ region # None /\ next > Len(Linears)
    /\ region' = None /\ cache' = <<>>
    /\ UNCHANGED <<slotted, param, byWeight, registry, next, tape, disk, folds, bounds>>

\* The ring after a pass without gradients: seeded if it never was, else as it was.
Peeked(r, a, l) == Seeded(r, a, l)

\* A forward without gradients in a region of its own, for evaluation: it reads the rings.
NoGradForward(l) ==
    /\ Between /\ steps < MaxSteps
    /\ \E a \in Amaxes :
          LET reg == GetMeta(l, SlotOf(l, Refreshed))
              m   == [reg.meta[reg.id] EXCEPT !.w = Seeded(@, param[l].amax, l)]
          IN Install(reg, m, Put(reg.xring, m.x, Peeked(reg.xring[m.x], a, l)), reg.pending)
    /\ byWeight' = Refreshed
    /\ UNCHANGED <<slotted, param, cache, client, disk, folds, bounds>>

\* The backward of the last forward left: it finds its meta through the weight.
Backward ==
    /\ region = None /\ tape # <<>>
    /\ LET l   == Last(tape).l
           reg == GetMeta(l, FALSE)
           m   == [reg.meta[reg.id] EXCEPT !.g = Folded(Seeded(@, Smallest, l), Smallest)]
       IN Install(reg, m, reg.xring, reg.pending)
    /\ tape' = Front(tape)
    /\ UNCHANGED <<slotted, param, byWeight, cache, region, next, disk, folds, bounds>>

\* The optimizer step: every weight is written in place, and its version counter moves.
Step ==
    /\ region = None /\ tape = <<>> /\ next > Len(Linears)
    /\ \E a \in Amaxes : param' = [l \in Paths |-> [param[l] EXCEPT !.ver = @ + 1, !.amax = a]]
    /\ next' = 1 /\ steps' = steps + 1
    /\ UNCHANGED <<slotted, byWeight, registry, cache, region, tape, disk, folds, swaps, restarts>>

\* Between steps the module gets another Parameter object (sharding, a graph buffer),
\* whose version counter may stand where its predecessor's stood.
Swap(l) ==
    /\ Between /\ swaps < MaxSwaps
    /\ \E v \in {0, param[l].ver} :
          param' = [param EXCEPT ![l].obj = <<l, @[2] + 1>>, ![l].ver = v]
    /\ swaps' = swaps + 1
    /\ UNCHANGED <<slotted, byWeight, registry, cache, client, disk, folds, steps, restarts>>

\* Whether a meta's weight still exists: a module or the table's keepalive holds it.
Alive(m) == \E l \in Paths : m.weight \in {Obj(l), byWeight[l]}
Entry(m) == [name |-> m.name, w |-> m.w, g |-> m.g, x |-> xring[m.x]]

\* No slot's meta waits for the forward that would re-point it while its old weight is
\* gone: a save then would take it for an orphan.
NothingOrphaned == \A l \in DOMAIN bySlot : Alive(meta[bySlot[l]])

\* fp8_state_dict: drop what is dead, slotted entries first, the rest as registered.
Save ==
    /\ Between /\ NothingOrphaned
    /\ LET live == SelectSeq(order, LAMBDA i : Alive(meta[i]))
           ids  == Range(live)
           rank(i) == CHOOSE k \in DOMAIN Linears : Linears[k] = meta[i].name
           named == SetToSortSeq({i \in ids : meta[i].name # None},
                                 LAMBDA i, j : rank(i) < rank(j))
           all  == named \o SelectSeq(live, LAMBDA i : meta[i].name = None)
       IN /\ snapshot' = [k \in DOMAIN all |-> Entry(meta[all[k]])]
          /\ order' = live
          /\ byKey' = [w \in {v \in DOMAIN byKey : byKey[v] \in ids} |-> byKey[w]]
          /\ bySlot' = [l \in {k \in DOMAIN bySlot : bySlot[k] \in ids} |-> bySlot[l]]
    /\ kept' = folds
    /\ UNCHANGED <<slotted, param, byWeight, meta, xring, pending, cache, client, folds, bounds>>

\* The process dies; the next one builds the model anew and loads the checkpoint, whose
\* entries wait for their metas.
Restart ==
    /\ restarts < MaxRestarts /\ snapshot # <<>>
    /\ restarts' = restarts + 1
    /\ param' = [l \in Paths |-> Fresh(l, param[l].obj[2] + 1, param[l].amax)]
    /\ byWeight' = [l \in Paths |-> IF slotted THEN <<l, param[l].obj[2] + 1>> ELSE None]
    /\ meta' = <<>> /\ xring' = <<>> /\ bySlot' = <<>> /\ byKey' = <<>>
    /\ order' = <<>> /\ pending' = snapshot
    /\ cache' = <<>> /\ region' = None /\ next' = 1 /\ tape' = <<>>
    /\ folds' = kept
    /\ UNCHANGED <<slotted, disk, steps, swaps>>

Next ==
    \/ EnterRegion \/ Forward \/ ExitRegion \/ Backward \/ Step \/ Save \/ Restart
    \/ \E l \in Paths : NoGradForward(l) \/ Swap(l)

Spec == Init /\ [][Next]_vars

-----------------------------------------------------------------------------

\* Until its backward has run, the scale a forward kept is the one its activation bytes
\* were cast with: the pair it views has not been published into again.
\* So csrc/gemm/fp8/linear.cu:116-121 says.  It holds only with Caching = FALSE: a consumer
\* that meets cached bytes views the ring the first consumer has advanced.
ScaleDescribesBytes ==
    \A i \in DOMAIN tape : xring[tape[i].sx[1]].pair[tape[i].sx[2]] = tape[i].x8[2]

\* The weight bytes a forward multiplied with are those of the parameter object the
\* module held then, at the version it had then, and the scale kept with them is theirs.
CastIsOfTheWeight ==
    \A i \in DOMAIN tape :
        LET t == tape[i]
        IN <<t.cast.obj, t.cast.ver, t.cast.scale>> = <<t.obj, t.ver, t.cast.bytes[2]>>

\* A linear with a slot never loses its history nor gets another's: whatever object
\* holds its weight and however often the process was restarted, its ring has folded
\* once per step and weight version, all of them its own.
HistoryFollowsModule ==
    slotted => \A l \in DOMAIN bySlot :
        LET r == meta[bySlot[l]].w IN r.hist # <<>> => r.of = l /\ r.n = folds[l]
=============================================================================
