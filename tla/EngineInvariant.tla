--------------------------- MODULE EngineInvariant ---------------------------
(***************************************************************************)
(* The inductive invariant of EngineCore, in layers: each part is          *)
(* inductive given the parts above it.  EngineTheorems shows that the      *)
(* engine keeps it, and what follows.                                      *)
(***************************************************************************)
EXTENDS EngineCore

-----------------------------------------------------------------------------
(* Who runs: the loop thread, the thread in stop(), a shutdown. *)

LoopPlaces == {"dead", "top", "release", "admit", "decide", "schedule",
               "rollback", "submit", "drain", "crashed", "exiting"}
ShutdownPlaces == {"none", "begin", "drain", "outstanding", "finish"}

ControlOK ==
    /\ pc \in LoopPlaces
    /\ then \in {"admit", "decide", "schedule", "top"}
    /\ overlap \in BOOLEAN /\ closing \in BOOLEAN /\ failed \in BOOLEAN
    /\ stopEvent = closing
    /\ shutdown \in [by : {"none", "loop", "stop"}, at : ShutdownPlaces]
    /\ stopper \in {"idle", "join", "shutdown", "stopped"}
    /\ pc \in {"exiting", "dead"} => closing
    /\ stopper # "idle" => closing
    /\ stopper \in {"shutdown", "stopped"} => pc = "dead"
    /\ shutdown.by = "none" <=> shutdown.at = "none"
    /\ shutdown.by = "stop" <=> stopper = "shutdown"
    /\ shutdown.by = "loop" => pc = "exiting"
    /\ failed => shutdown.at \in {"none", "begin"}
    /\ failed /\ shutdown.at = "none" => pc = "dead"

\* Counters that only bound the exploration, and the flags of a request.
CountersOK ==
    /\ starts \in 1..Larger(1, MaxStarts)
    /\ version \in 0..MaxVersion /\ faults \in 0..MaxFaults
    /\ terminal \in [Requests -> BOOLEAN] /\ eos \in [Requests -> BOOLEAN]
    /\ out \in [Requests -> Nat]
    /\ events \in [Requests -> Seq({"token", "end"})]

-----------------------------------------------------------------------------
(* Where a request is. *)

QueueOK ==
    /\ phase \in [Requests -> {"new", "waiting", "running", "gone"}]
    /\ waiting \in Seq(Requests) /\ running \in Seq(Requests)
    /\ scan \in [left : Nat, back : Seq(Requests)]
    /\ pc = "admit" => scan.left <= Len(waiting)
    /\ pc # "admit" => scan.back = <<>>
    /\ IsInjective(running) /\ IsInjective(waiting) /\ IsInjective(scan.back)
    /\ Elements(waiting) \cap Elements(scan.back) = {}
    /\ \A r \in Requests : r \in Elements(running) <=> phase[r] = "running"
    /\ \A r \in Elements(waiting) \cup Elements(scan.back) : phase[r] = "waiting"

-----------------------------------------------------------------------------
(* What is planned and what is in flight. *)

\* A planned window: a decode step is one position at or past the prompt, a
\* prefill chunk ends within it.
WindowOK(w) ==
    /\ w \in WindowType
    /\ w.phase = "decode" => PromptLen[w.req] <= w.pos /\ w.end = w.pos + 1
    /\ w.phase = "prefill" => w.pos < w.end /\ w.end <= PromptLen[w.req]

\* The rows of one step: one for a request.
RowsOK(rows) ==
    /\ rows \in Seq(WindowType)
    /\ \A i \in DOMAIN rows : WindowOK(rows[i])
    /\ \A i, j \in DOMAIN rows : rows[i].req = rows[j].req => i = j

HandleOK(h) ==
    /\ h \in [phase : {"prefill", "decode"}, rows : Seq(WindowType),
              input : Seq(Nat), version : 0..MaxVersion]
    /\ RowsOK(h.rows)
    /\ \A i \in DOMAIN h.rows : h.rows[i].phase = h.phase

In(r, h) == r \in Reqs(inflight[h].rows)
InFlight(r) == \E h \in DOMAIN inflight : In(r, h)
InBoth(r) == {1, 2} \subseteq DOMAIN inflight /\ In(r, 1) /\ In(r, 2)

\* The executions of r that have a handle, and those that have one or are planned.
Flying(r) == IF InBoth(r) THEN 2 ELSE IF InFlight(r) THEN 1 ELSE 0
Planning(r) == IF r \in Reqs(plan) THEN 1 ELSE 0
Known(r) == Flying(r) + Planning(r)

StepsOK ==
    /\ order \in [Requests -> Seq(Nat)]
    /\ computed \in [Requests -> Nat] /\ materialized \in [Requests -> Nat]
    /\ touching \in [Requests -> Nat]
    /\ RowsOK(plan) /\ RowsOK(relay)
    /\ \A i \in DOMAIN relay : relay[i].phase = "decode"
    /\ inflight \in Seq([phase : {"prefill", "decode"}, rows : Seq(WindowType),
                         input : Seq(Nat), version : 0..MaxVersion])
    /\ \A h \in DOMAIN inflight : HandleOK(inflight[h])

\* Down: an exception may have lost planned windows.
Down == {"crashed", "exiting", "dead"}

\* The registry of planned windows is what is in flight and what is planned: in
\* order, with the window ends, and no execution writes KV that has none of its own.
PlannedAreRunning == \A r \in Requests : order[r] # <<>> => phase[r] = "running"
KnownIsPlanned == \A r \in Requests : Known(r) <= Len(order[r])
NothingLost == pc \notin Down => \A r \in Requests : Len(order[r]) = Known(r)
PairsAreFirst ==
    \A h, k \in DOMAIN inflight : \A r \in Requests :
        h < k /\ In(r, h) /\ In(r, k) => h = 1 /\ k = 2
EndOK(h, i) ==
    LET w == inflight[h].rows[i]
    IN  w.end = order[w.req][IF h = 2 /\ In(w.req, 1) THEN 2 ELSE 1]
EndsMatch ==
    \A h \in DOMAIN inflight : \A i \in DOMAIN inflight[h].rows : EndOK(h, i)
PlanIsLast == \A i \in DOMAIN plan : plan[i].end = Last(order[plan[i].req])
TouchingIsPlanned == \A r \in Requests : touching[r] + Planning(r) <= Len(order[r])

RegistryOK ==
    /\ PlannedAreRunning /\ KnownIsPlanned /\ NothingLost
    /\ PairsAreFirst /\ EndsMatch /\ PlanIsLast /\ TouchingIsPlanned

\* How many handles there are at each place of the loop.
FlightOK ==
    /\ toDrain \in Nat
    /\ plan # <<>> => pc \in {"rollback", "submit"}
    /\ pc \in {"top", "release", "admit", "decide", "schedule", "rollback"} =>
         Len(inflight) <= 1
    /\ pc = "schedule" => /\ inflight # <<>> => overlap
                          /\ overlap => CanOverlap
    /\ pc \in {"release", "drain"} /\ then = "schedule" => ~overlap
    /\ pc = "release" /\ then = "schedule" => inflight = <<>>
    /\ pc \in {"rollback", "submit"} =>
         /\ toDrain <= Len(inflight)
         /\ overlap => /\ toDrain <= 1 /\ Len(inflight) <= toDrain + 1
                       /\ \A i \in DOMAIN plan : plan[i].phase = "decode"
                       /\ plan # <<>> => Len(inflight) = toDrain
         /\ \A r \in Reqs(plan) : InFlight(r) => overlap
    /\ pc = "drain" =>
         /\ then # "decide" /\ toDrain <= Len(inflight)
         /\ Len(inflight) <= toDrain + (IF then = "top" THEN 1 ELSE 0)
    /\ shutdown.at \in {"outstanding", "finish"} => inflight = <<>>
    /\ shutdown.at = "finish" => ~HasOutstanding
    /\ pc = "dead" /\ ~failed /\ shutdown.at = "none" =>
         /\ inflight = <<>> /\ ~HasOutstanding
         /\ \A r \in Requests : ~Registered(r)

\* A request that never ran has computed nothing.
FreshOK ==
    \A r \in Requests : phase[r] \in {"new", "waiting"} =>
        /\ computed[r] = 0 /\ materialized[r] = 0
        /\ out[r] = 0 /\ ~eos[r]

-----------------------------------------------------------------------------
(* KV slots. *)

SlotsOK ==
    /\ slots \in [Requests -> Nat] /\ freeSlots \in Nat
    /\ freeSlots + SumFunction(slots) = PoolTokens
    /\ \A r \in Requests :
         /\ phase[r] = "running" => slots[r] >= PromptLen[r]
         /\ phase[r] # "running" => slots[r] = 0

-----------------------------------------------------------------------------
(* Weights. *)

\* A handle carries the version of the current weights.
NoStaleExecution == \A h \in DOMAIN inflight : inflight[h].version = version

\* A request leaves once its stream is closed.
GoneIsTerminal == \A r \in Requests : phase[r] = "gone" => terminal[r]

-----------------------------------------------------------------------------
(* Stopping. *)

\* A stop() that returned True left nothing to quarantine and no shutdown running.
StoppedOK == stopper = "stopped" => ~failed /\ shutdown.at = "none"

-----------------------------------------------------------------------------
(* Watermarks and positions. *)

\* A window in flight starts where the one before it ends.
StartOK(h, i) ==
    LET w == inflight[h].rows[i]
    IN  w.pos = IF h = 2 /\ In(w.req, 1) THEN order[w.req][1] ELSE materialized[w.req]
StartsMatch ==
    \A h \in DOMAIN inflight : \A i \in DOMAIN inflight[h].rows : StartOK(h, i)

\* So does a planned one: taking it back restores the watermark.
PlanStarts == \A k \in DOMAIN plan : plan[k].pos = RolledBack(plan[k].req)

MarksOK == WatermarkExact /\ StartsMatch /\ PlanStarts

-----------------------------------------------------------------------------
(* What a decode step is fed. *)

\* The requests of the relay have run; the last decode launch is theirs, so that their
\* next window starts at its end.
RelayRan == \A i \in DOMAIN relay : phase[relay[i].req] \in {"running", "gone"}
NextStart(r) ==
    IF r \in Reqs(plan) THEN plan[CHOOSE k \in DOMAIN plan : plan[k].req = r].pos
    ELSE computed[r]
RelayIsLast ==
    pc \notin Down =>
        /\ \A r \in Requests : \A i \in DOMAIN relay :
             phase[r] = "running" /\ relay[i].req = r => NextStart(r) = relay[i].end
        /\ inflight # <<>> /\ Last(inflight).phase = "decode" =>
             relay = Last(inflight).rows

\* A live request has an output for each materialized position from the end of its
\* prompt on.
OutputsMatch ==
    \A r \in Requests : phase[r] = "running" /\ ~terminal[r] =>
        out[r] = IF materialized[r] >= PromptLen[r]
                 THEN materialized[r] - PromptLen[r] + 1 ELSE 0

\* The host knew the whole output when it planned a decode step, or the relay does.
SeenOK(w) == w.seen = w.pos - PromptLen[w.req] + 1
PlanIsFed ==
    pc = "submit" =>
        \/ \A k \in DOMAIN plan : plan[k].phase = "decode" => SeenOK(plan[k])
        \/ /\ Identities(plan) = Identities(relay)
           /\ \A k \in DOMAIN plan : /\ plan[k].phase = "decode"
                                     /\ plan[k].req \notin Penalized

FedOK == RelayRan /\ RelayIsLast /\ OutputsMatch /\ PlanIsFed /\ DecodeInputsCurrent

-----------------------------------------------------------------------------
(* The order of arrival. *)

ArrivedOK ==
    /\ arrived \in Seq(Requests) /\ IsInjective(arrived)
    /\ \A r \in Requests : r \in Elements(arrived) <=> phase[r] # "new"

\* The elements of s are in the order they have in t.
InOrder(s, t) ==
    \A a, b \in DOMAIN s : \A i, j \in DOMAIN t :
        a < b /\ s[a] = t[i] /\ s[b] = t[j] => i < j

\* The queue, with what this admission has put back, is in the order of arrival.
QueueOrdered == InOrder(PutBack, arrived)
LiveIsQueued ==
    \A r \in Requests : phase[r] = "waiting" /\ ~terminal[r] => r \in Elements(PutBack)
PutBackIsLarge == \A r \in Elements(scan.back) : PromptLen[r] > freeSlots

OrderOK == ArrivedOK /\ QueueOrdered /\ LiveIsQueued /\ PutBackIsLarge

-----------------------------------------------------------------------------
(* Event streams. *)

\* The terminal flag says that the stream is closed, and only an accepted request has one.
StreamsOK ==
    \A r \in Requests : /\ terminal[r] <=> Stream!Closed(events[r])
                        /\ terminal[r] => phase[r] # "new"
=============================================================================
