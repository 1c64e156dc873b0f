---------------------------- MODULE RequestIntake ----------------------------
(***************************************************************************)
(* How a call becomes requests of the engine: the HTTP adapter              *)
(* (network/protocol.py), the blocking and streamed calls of                *)
(* frontend/engine.py, direct EngineCore.add_requests, and the batches of   *)
(* rollouts (trainer/backend.py).  Prompts are tokenized and cut to the      *)
(* window, three layers of generation options are resolved, and a batch is   *)
(* registered with the tracker and taken by the scheduler.                   *)
(*                                                                         *)
(* A prompt is its number of tokens.  Options are partial functions from     *)
(* names to values; temperatures and top_p are multiples of 1/One.  The      *)
(* steps of the engine are what decides how many events a request has: which *)
(* token, which slot and which batch are EngineCore's.                       *)
(***************************************************************************)
EXTENDS Integers, Sequences, FiniteSets

CONSTANTS
    Callers,    \* threads, each with one call to make
    Calls,      \* the calls it may make
    Models,     \* generation configurations a model may come with
    MaxSeqLen,  \* max_seq_len of the engine
    One,        \* 1.0 in the units of temperatures and top_p
    None        \* Python's None

ASSUME IntakeAssumption ==
    /\ MaxSeqLen \in Nat \ {0} /\ One \in Nat \ {0}
    /\ None \notin Int
    /\ \A k \in Calls :
        /\ k.route \in {"http", "engine", "core", "rollout"}
        /\ k.prompts \in Seq(Nat) /\ k.maxTokens \in Int \union {None}
        \* Only direct callers of the core choose ids, and none that is minted for another.
        /\ k.ids \in Seq({k.ids[i] : i \in DOMAIN k.ids})
        /\ k.route # "core" => k.ids = <<>>
        /\ \A i \in DOMAIN k.ids : k.ids[i] \notin Callers \X Nat

VARIABLES
    defaults,  \* Scheduler.generation_config
    accepting, \* neither stopping nor stopped
    owner,     \* the thread inside execute_requests, which keeps the engine lock
    call, pc,  \* each thread's call and where it is
    outcome,   \* what its submission came to
    buffer,    \* tracked requests: events that wait for their consumer
    states,    \* Scheduler._states: the request of each id
    accepted,  \* prompts the scheduler took: <<thread, position>>
    lost       \* ids that lost an event to a full buffer

intake == <<defaults, accepting, owner, call, pc, outcome, buffer, states, accepted, lost>>

Least(a, b) == IF a <= b THEN a ELSE b
Tracked == DOMAIN buffer

-----------------------------------------------------------------------------
(* Options. *)

Nothing == [n \in {} |-> None]
Get(config, name, default) == IF name \in DOMAIN config THEN config[name] ELSE default
Over(low, high) ==
    [n \in DOMAIN low \union DOMAIN high |-> IF n \in DOMAIN high THEN high[n] ELSE low[n]]

\* Keyword arguments of add_requests beside the named ones, those with one legal value first.
Neutral == [num_beams |-> 1, num_return_sequences |-> 1, repetition_penalty |-> One,
            min_length |-> 0, min_new_tokens |-> 0]
Extras == DOMAIN Neutral \union {"eos_token_id", "stop_strings"}

Given(k) == [n \in {m \in DOMAIN k.given : k.given[m] # None} |-> k.given[n]]
\* max_tokens, the frontend's name for max_new_tokens.
Alias(k) == IF k.maxTokens = None THEN Nothing
            ELSE [n \in {"max_new_tokens"} |-> IF k.maxTokens < 0 THEN 0 ELSE k.maxTokens]
\* A mutant that lets the request's generation_config win over the arguments of the call.
MutantOverrides(k) == Over(Over(Over(Given(k), Alias(k)), k.config), k.extra)
Overrides(k) == Over(Over(Over(k.config, Given(k)), Alias(k)), k.extra)
Config(k) == Over(defaults, Overrides(k))

EosOK(eos) == eos = None \/ eos \subseteq Nat
\* resolve_generation_parameters: what it refuses does not depend on the prompt.
Supported(config) ==
    /\ \A n \in DOMAIN config \intersect DOMAIN Neutral : config[n] \in {Neutral[n], None}
    /\ Get(config, "stop_strings", None) \in {None, {}}
    /\ Get(config, "do_sample", FALSE) \in BOOLEAN
    /\ Get(config, "do_sample", FALSE) =>
          LET temperature == Get(config, "temperature", One)
          IN  temperature \in Int /\ temperature > 0
    /\ Get(config, "top_p", One) \in 1..One
    /\ Get(config, "top_k", 50) \in Nat
    /\ Get(config, "max_new_tokens", None) = None => Get(config, "max_length", 20) \in Nat
    /\ Get(config, "max_new_tokens", None) \in Nat \union {None}
    /\ EosOK(Get(config, "eos_token_id", None))

Room(len) == MaxSeqLen - len
\* A mutant that grants what was asked for, whatever room the prompt leaves.
MutantBudget(config, len) ==
    LET asked == Get(config, "max_new_tokens", None)
    IN  IF asked # None THEN asked
        ELSE IF "max_length" \notin DOMAIN config THEN Least(20, Room(len))
        ELSE IF config["max_length"] <= len THEN 0
        ELSE Least(config["max_length"] - len, Room(len))
Budget(config, len) ==
    LET asked == Get(config, "max_new_tokens", None)
    IN  IF asked # None THEN Least(asked, Room(len))
        ELSE IF "max_length" \notin DOMAIN config THEN Least(20, Room(len))
        ELSE IF config["max_length"] <= len THEN 0
        ELSE Least(config["max_length"] - len, Room(len))

Eos(eos) == IF eos = None THEN {} ELSE eos
\* refresh_stop_ids: what a request without stop ids of its own is given.
StopIds == Eos(Get(defaults, "eos_token_id", None))
Settings(config) ==
    [temperature |-> IF Get(config, "do_sample", FALSE)
                     THEN Get(config, "temperature", One) ELSE 0,
     topP |-> Get(config, "top_p", One), topK |-> Get(config, "top_k", 50),
     eos |-> Eos(Get(config, "eos_token_id", None))]

-----------------------------------------------------------------------------
(* Inputs. *)

\* What the server's schema lets through, and the call ProtocolHandler makes of it.
Schema(body) ==
    /\ body.max_tokens = None \/ body.max_tokens >= 1
    /\ body.temperature = None \/ body.temperature \in 0 .. 2 * One
    /\ body.top_p = None \/ body.top_p \in 0 .. One
    /\ body.top_k = None \/ body.top_k >= 1
Http(len, body) ==
    [route |-> "http", prompts |-> <<len>>, ids |-> <<>>, maxTokens |-> body.max_tokens,
     config |-> Nothing, extra |-> Nothing,
     given |-> [temperature |-> body.temperature, top_p |-> body.top_p, top_k |-> body.top_k,
                do_sample |-> body.temperature = None \/ body.temperature > 0]]

Front(k) == k.route \in {"http", "engine"}
\* Ids are minted from the clock and a uuid; only direct callers of the core choose theirs.
Id(c, i) == IF call[c].ids = <<>> THEN <<c, i>> ELSE call[c].ids[i]
Ids(c) == {Id(c, i) : i \in DOMAIN call[c].prompts}

\* The tail of a prompt that does not fit the window, in the front end and in the scheduler.
Window(len) == Least(len, MaxSeqLen)

\* What run_batch makes of one prompt of a rollout.
Limit(k, i) == IF k.maxTokens = None THEN Room(k.prompts[i])
               ELSE Least(k.maxTokens, Room(k.prompts[i]))
Fits(k, i) == k.prompts[i] > 0 /\ k.prompts[i] < MaxSeqLen /\ Limit(k, i) > 0

Positions(k) == IF k.route = "rollout" THEN {i \in DOMAIN k.prompts : Fits(k, i)}
                ELSE DOMAIN k.prompts

\* add_requests before it enqueues: any refusal raises before anything is registered.
WellFormed(k) ==
    /\ DOMAIN k.extra \subseteq Extras
    /\ k.prompts # <<>> =>
          /\ Len(k.ids) \in {0, Len(k.prompts)}
          /\ k.maxTokens = None \/ Get(Given(k), "max_new_tokens", None) = None
          /\ \A i \in DOMAIN k.prompts : k.prompts[i] > 0
          /\ Supported(Config(k))

Request(c, i) ==
    LET k == call[c]
        rollout == k.route = "rollout"
    IN  [by |-> c, at |-> i, open |-> TRUE, out |-> 0,
         prompt |-> IF rollout THEN k.prompts[i] ELSE Window(k.prompts[i]),
         budget |-> IF rollout THEN Limit(k, i) ELSE Budget(Config(k), Window(k.prompts[i])),
         settings |-> IF rollout THEN [k.sampling EXCEPT !.eos = StopIds] ELSE Settings(Config(k))]

-----------------------------------------------------------------------------
(* The event sink: bounded buffers of the tracker. *)

Capacity == MaxSeqLen + 1

\* So many events of request r, when the tracker knows it: a full buffer drops the oldest.
Deliver(new) ==
    /\ buffer' = [r \in Tracked |->
          IF r \in DOMAIN new THEN Least(buffer[r] + new[r], Capacity) ELSE buffer[r]]
    /\ lost' = lost \union {r \in Tracked \intersect DOMAIN new : buffer[r] + new[r] > Capacity}

-----------------------------------------------------------------------------
(* Submission. *)

Init ==
    /\ defaults \in Models
    /\ accepting = TRUE /\ owner = None
    /\ call = [c \in Callers |-> None]
    /\ pc = [c \in Callers |-> "idle"] /\ outcome = [c \in Callers |-> "none"]
    /\ buffer = [r \in {} |-> 0] /\ states = [r \in {} |-> 0]
    /\ accepted = {} /\ lost = {}

Goto(c, label) == pc' = [pc EXCEPT ![c] = label]
Ends(c, what) == outcome' = [outcome EXCEPT ![c] = what]

\* generate, generate_events, run_batch: nothing to generate, or a prompt without
\* tokens, ends a call of the front end before anything is registered.
Begin(c, k) ==
    /\ pc[c] = "idle"
    /\ call' = [call EXCEPT ![c] = k]
    /\ IF k.route = "engine" /\ k.maxTokens # None /\ k.maxTokens <= 0
       THEN Goto(c, "done") /\ Ends(c, "empty")
       ELSE IF Front(k) /\ \E i \in DOMAIN k.prompts : k.prompts[i] = 0
       THEN Goto(c, "done") /\ Ends(c, "refused")
       ELSE /\ Goto(c, IF Front(k) THEN "register" ELSE IF k.route = "core" THEN "admit"
                       ELSE "execute")
            /\ UNCHANGED outcome
    /\ UNCHANGED <<defaults, accepting, owner, buffer, states, accepted, lost>>

\* _submit_processed: every consumer is registered before any request is admitted.
Register(c) ==
    /\ pc[c] = "register"
    /\ buffer' = [r \in Tracked \union Ids(c) |-> IF r \in Ids(c) THEN 0 ELSE buffer[r]]
    /\ Goto(c, "admit")
    /\ UNCHANGED <<defaults, accepting, owner, call, outcome, states, accepted, lost>>

\* enqueue_tokenized_requests refuses ids that are taken or occur twice.
Fresh(c) ==
    /\ Ids(c) \intersect DOMAIN states = {}
    /\ \A i, j \in DOMAIN call[c].prompts : Id(c, i) = Id(c, j) => i = j
Admissible(c) == accepting /\ WellFormed(call[c]) /\ Fresh(c)

\* A mutant that registers each request as it is validated.
MutantTaken(c) ==
    IF accepting THEN {i \in Positions(call[c]) : Id(c, i) \notin DOMAIN states} ELSE {}
Taken(c) == IF Admissible(c) THEN Positions(call[c]) ELSE {}

\* The requests of some positions join those that are kept; one with nothing to generate
\* ends at once.
Enqueue(c, new, kept) ==
    LET request == [i \in new |-> Request(c, i)]
        going == {i \in new : request[i].budget > 0}
        at == [r \in {Id(c, i) : i \in new} |-> CHOOSE i \in new : Id(c, i) = r]
    IN  /\ states' = [r \in kept \union {Id(c, i) : i \in going} |->
                        IF r \in kept THEN states[r] ELSE request[at[r]]]
        /\ Deliver([r \in {Id(c, i) : i \in new \ going} |-> 1])
        /\ accepted' = accepted \union {<<c, i>> : i \in new}

\* EngineCore.add_requests, under the engine lock.
Admit(c) ==
    /\ pc[c] = "admit" /\ owner = None
    /\ Enqueue(c, Taken(c), DOMAIN states)
    /\ Ends(c, IF Admissible(c) THEN "accepted" ELSE "refused")
    /\ Goto(c, IF ~Front(call[c]) THEN "done" ELSE IF Admissible(c) THEN "wait" ELSE "release")
    /\ UNCHANGED <<defaults, accepting, owner, call>>

Live == {r \in DOMAIN states : states[r].open}

\* execute_requests, under the engine lock until its last request has ended: what has ended
\* is drained and released, live requests are in the way, and the prompts that run_batch did
\* not reject are enqueued, whether or not the engine accepts requests.
Execute(c) ==
    /\ pc[c] = "execute" /\ owner = None
    /\ Enqueue(c, IF Live = {} THEN Positions(call[c]) ELSE {}, Live)
    /\ IF Live = {} THEN Ends(c, "accepted") /\ Goto(c, "executing") /\ owner' = c
       ELSE Ends(c, "refused") /\ Goto(c, "done") /\ UNCHANGED owner
    /\ UNCHANGED <<defaults, accepting, call>>

Executed(c) ==
    /\ pc[c] = "executing" /\ DOMAIN states = {}
    /\ owner' = None /\ Goto(c, "done")
    /\ UNCHANGED <<defaults, accepting, call, outcome, buffer, states, accepted, lost>>

\* _release_requests, when the call was refused, its consumer is done or went away.  Only a
\* request without a terminal event is cancelled, and that takes the engine lock.
Release(c) ==
    /\ pc[c] \in {"wait", "release"}
    /\ owner # None => pc[c] = "wait" /\ Ids(c) \intersect Live = {}
    /\ states' = [r \in DOMAIN states |->
                    [states[r] EXCEPT !.open = @ /\ r \notin Ids(c)]]
    /\ buffer' = [r \in Tracked \ Ids(c) |-> buffer[r]]
    /\ Goto(c, "done")
    /\ UNCHANGED <<defaults, accepting, owner, call, outcome, accepted, lost>>

-----------------------------------------------------------------------------
(* The engine. *)

\* The stop check of a request's budget.
Last(r) == states[r].out + 1 >= states[r].budget

\* update_from_output: a token, and with the last one or a stop token the end; without a
\* token, a request that is aborted or rejected.
Step(r, token, ends) ==
    /\ states[r].open
    /\ token \/ ends
    /\ token /\ Last(r) => ends
    /\ LET out == IF token THEN states[r].out + 1 ELSE states[r].out
       IN  states' = [states EXCEPT ![r] = [@ EXCEPT !.out = out, !.open = ~ends]]
    /\ IF call[states[r].by].route = "rollout" THEN UNCHANGED <<buffer, lost>>
       ELSE Deliver([q \in {r} |-> IF token /\ ends THEN 2 ELSE 1])
    /\ UNCHANGED <<defaults, accepting, owner, call, pc, outcome, accepted>>

\* release_finished: at once, or when the executions in flight are resolved.
Reap(r) ==
    /\ ~states[r].open
    /\ states' = [q \in DOMAIN states \ {r} |-> states[q]]
    /\ UNCHANGED <<defaults, accepting, owner, call, pc, outcome, buffer, accepted, lost>>

\* The consumer takes the events it finds.
Drain(r) ==
    /\ buffer[r] > 0
    /\ buffer' = [buffer EXCEPT ![r] = 0]
    /\ UNCHANGED <<defaults, accepting, owner, call, pc, outcome, states, accepted, lost>>

\* stop() or a crash of the loop closes the engine at once; under the lock every request
\* left is cancelled and released; start() opens it again.
Stop ==
    /\ accepting /\ accepting' = FALSE
    /\ UNCHANGED <<defaults, owner, call, pc, outcome, buffer, states, accepted, lost>>

Shutdown ==
    /\ ~accepting /\ owner = None
    /\ Deliver([r \in Live |-> 1])
    /\ states' = [r \in {} |-> 0]
    /\ UNCHANGED <<defaults, accepting, owner, call, pc, outcome, accepted>>

Start ==
    /\ ~accepting /\ owner = None
    /\ accepting' = TRUE
    /\ UNCHANGED <<defaults, owner, call, pc, outcome, buffer, states, accepted, lost>>

Next ==
    \/ \E c \in Callers :
        \/ \E k \in Calls : Begin(c, k)
        \/ Register(c) \/ Admit(c) \/ Execute(c) \/ Executed(c) \/ Release(c)
    \/ \E r \in DOMAIN states :
        \/ \E token, ends \in BOOLEAN : Step(r, token, ends)
        \/ Reap(r)
    \/ \E r \in Tracked : Drain(r)
    \/ Stop \/ Shutdown \/ Start

Spec == Init /\ [][Next]_intake

-----------------------------------------------------------------------------
(* Properties. *)

IntakeTypeOK ==
    /\ owner \in Callers \union {None}
    /\ \A c \in Callers :
        /\ pc[c] \in {"idle", "register", "admit", "execute", "executing", "wait", "release",
                      "done"}
        /\ outcome[c] \in {"none", "empty", "refused", "accepted"}
        /\ pc[c] # "idle" => call[c] \in Calls
    /\ \A r \in Tracked : buffer[r] \in 0..Capacity
    /\ \A r \in DOMAIN states : states[r].out \in 0..states[r].budget

\* Whatever a call asks for, the positions of a request stay inside the engine's window and no
\* event of it is pushed out of its consumer's buffer, even when nothing is drained before the
\* end (add_requests, resolve_generation_parameters, _submit_processed).
NothingOverflows ==
    /\ \A r \in DOMAIN states :
        states[r].prompt \in 1..MaxSeqLen /\ states[r].prompt + states[r].budget <= MaxSeqLen
    /\ lost = {}

\* A batch is taken as a whole or not at all, whoever else submits, cancels or stops in
\* between; what a refused call registered is gone when it is over, and every request that
\* can still emit has its consumer registered (add_requests, enqueue_tokenized_requests,
\* _submit_processed, _release_requests).
BatchIsWhole ==
    /\ \A c \in Callers :
        LET mine == {a[2] : a \in {b \in accepted : b[1] = c}}
        IN  /\ mine = IF outcome[c] = "accepted" THEN Positions(call[c]) ELSE {}
            /\ pc[c] = "done" /\ Front(call[c]) => Ids(c) \intersect Tracked = {}
    /\ \A r \in DOMAIN states :
        /\ <<states[r].by, states[r].at>> \in accepted
        /\ states[r].open /\ Front(call[states[r].by]) => r \in Tracked

\* The value of an option in the most explicit of the three layers that name it.
Layers(k) == <<Over(Over(Given(k), Alias(k)), k.extra), k.config, defaults>>
Named(k, name, default) ==
    LET naming == {j \in 1..3 : name \in DOMAIN Layers(k)[j]}
        first == CHOOSE j \in naming : \A l \in naming : j <= l
    IN  IF naming = {} THEN default ELSE Layers(k)[first][name]
\* Where the sequence of a request should end.
Target(k, len) ==
    IF Named(k, "max_new_tokens", None) # None THEN len + Named(k, "max_new_tokens", None)
    ELSE LET longest == Named(k, "max_length", len + 20)
         IN  IF longest < len THEN len ELSE longest

\* Each request runs under the options of its own call: keyword arguments override its
\* generation_config, which overrides the model's; without do_sample it is greedy; it ends
\* where they say or at the window, and prompts of rollouts are never cut
\* (docs/developer/huggingface.md, resolve_generation_parameters, run_batch).
SettingsAreTheCallers ==
    \A r \in DOMAIN states :
        LET k == call[states[r].by]
            s == states[r].settings
        IN  IF k.route = "rollout" THEN states[r].prompt = k.prompts[states[r].at]
            ELSE /\ s.temperature = IF Named(k, "do_sample", FALSE)
                                    THEN Named(k, "temperature", One) ELSE 0
                 /\ s.topP = Named(k, "top_p", One) /\ s.topK = Named(k, "top_k", 50)
                 /\ s.eos = Eos(Named(k, "eos_token_id", None))
                 /\ states[r].prompt + states[r].budget
                        = Least(MaxSeqLen, Target(k, states[r].prompt))

\* A body the server's schema lets through is one the engine generates for: top_p may be
\* anything from 0.0 to 1.0 (docs/guides/inference.md:127).
BodiesAreServed ==
    \A c \in Callers :
        pc[c] = "admit" /\ call[c].route = "http" => WellFormed(call[c])

\* A rollout request whose prompt and rollout_max_tokens exceed the sequence budget is
\* rejected (train_config.py:163): none runs with fewer tokens than it was given.
RolloutsAreNotCut ==
    \A r \in DOMAIN states :
        LET k == call[states[r].by]
        IN  k.route = "rollout" /\ k.maxTokens # None => states[r].budget = k.maxTokens
=============================================================================
