--------------------------- MODULE RequestDelivery ---------------------------
(***************************************************************************)
(* From the engine's event sink to the caller: RequestTracker               *)
(* (frontend/tracking.py), the consumers of frontend/engine.py and the      *)
(* server's response loops (network/protocol.py).                           *)
(*                                                                         *)
(* The engine is the one RequestStream promises: it accepts requests and    *)
(* emits, under the engine lock, events of any open ones.  A sink call is    *)
(* three steps: events are sorted under the tracker's lock, those of         *)
(* subscribed requests are posted to the event loop after that lock was     *)
(* released, and taken back when the loop turns out to be closed.            *)
(*                                                                         *)
(* A consumer is a streamed or a JSON response, tasks of one event loop      *)
(* (running is the one that occupies its thread), or a blocking or a         *)
(* generator call on a thread of its own.  An event is its position in the   *)
(* request's stream; what text a token decodes to is left open.              *)
(***************************************************************************)
EXTENDS RequestStream, FiniteSets, SequencesExt

CONSTANTS Consumers, \* calls of the front end
          Kinds,     \* what each may be: stream, json, blocking or generator
          Reqs,      \* its requests, in order
          MaxSeqLen, \* max_seq_len of the engine
          MaxTokens  \* of each request, as resolved at admission

\* Assumed by the module that gives the constants their values.
ConsumersAssumption ==
    /\ Kinds \subseteq [Consumers -> {"stream", "json", "blocking", "generator"}]
    /\ Reqs \in [Consumers -> Seq(Requests) \ {<<>>}]
    /\ \A r \in Requests : \E c \in Consumers :
        \A d \in Consumers : (r \in Range(Reqs[d])) <=> c = d
TokensAssumption == MaxTokens \in [Requests -> 0..(MaxSeqLen - 1)]

VARIABLES
    kind,       \* what each consumer is
    accepting,  \* the engine takes requests
    emitting,   \* the sink call in progress: whose, where it is, deliveries left
    registered, \* requests the tracker knows
    finished,   \* those whose terminal event it has seen
    subscribed, \* those whose events go to an asyncio queue
    buffer,     \* bounded deque of the events of each
    loopOpen,   \* the event loop is not closed
    running,    \* the task that occupies it, or "none"
    callbacks,  \* its ready queue: deliveries scheduled from other threads
    queue,      \* asyncio.Queue of each request: batches of events
    pc, at,     \* where each consumer is, and at which of its requests
    batch,      \* events it took and has not folded yet
    complete,   \* generator: its requests that are finished
    progressed, \* generator: this sweep over its requests found events
    ending,     \* how the fold of a response ended: "no", "stop" or "end"
    folded,     \* events of each request its consumer has folded
    unsent,     \* tokens folded since the last chunk
    wire        \* what a streamed response has sent

trackerVars == <<registered, finished, subscribed, buffer>>
loopVars == <<loopOpen, running, callbacks, queue>>
consumerVars == <<at, batch, complete, progressed, ending, folded, unsent, wire>>
vars == <<kind, streamVars, accepting, emitting, trackerVars, loopVars, pc, consumerVars>>

OnLoop(c) == kind[c] \in {"stream", "json"}
\* The consumer is on a thread that runs: its own, or the loop's.
Runs(c) == OnLoop(c) => running = c
Current(c) == Reqs[c][at[c]]
\* generate_events registers each request with room for max_seq_len + 1 events.
Capacity == MaxSeqLen + 1

Idle == [by |-> "none", step |-> "none", items |-> <<>>]

Init ==
    /\ StreamInit
    /\ kind \in Kinds
    /\ accepting = TRUE
    /\ emitting = Idle
    /\ registered = {} /\ finished = {} /\ subscribed = {}
    /\ buffer = [r \in Requests |-> <<>>]
    /\ loopOpen = TRUE /\ running = "none"
    /\ callbacks = <<>>
    /\ queue = [r \in Requests |-> <<>>]
    /\ pc = [c \in Consumers |-> "idle"]
    /\ at = [c \in Consumers |-> 1]
    /\ batch = [c \in Consumers |-> <<>>]
    /\ complete = [c \in Consumers |-> {}]
    /\ progressed = [c \in Consumers |-> FALSE]
    /\ ending = [c \in Consumers |-> "no"]
    /\ folded = [r \in Requests |-> 0]
    /\ unsent = [c \in Consumers |-> 0]
    /\ wire = [c \in Consumers |-> <<>>]

-----------------------------------------------------------------------------
(* The event sink. *)

EngineLockFree == emitting.by = "none"
NewEvents(r, next) == [i \in 1..(Len(next) - Len(stream[r])) |-> Len(stream[r]) + i]
Bounded(events) ==
    IF Len(events) <= Capacity THEN events
    ELSE SubSeq(events, Len(events) - Capacity + 1, Len(events))

\* RequestTracker.__call__ up to the release of its lock, for the events that
\* extend the streams of S to next: thread `by` calls it under the engine lock.
Collect(by, S, next) ==
    LET known == {r \in S : r \in registered /\ r \notin finished}
        posted == {r \in known : r \in subscribed}
        order == SetToSeq(posted)
    IN  /\ stream' = [r \in Requests |-> IF r \in S THEN next[r] ELSE stream[r]]
        /\ buffer' = [r \in Requests |->
                IF r \in known \ posted
                THEN Bounded(buffer[r] \o NewEvents(r, next[r])) ELSE buffer[r]]
        /\ finished' = finished \union {r \in known : Closed(next[r])}
        /\ emitting' =
                IF posted = {} THEN Idle
                ELSE [by |-> by, step |-> "post",
                      items |-> [i \in DOMAIN order |->
                                    [req |-> order[i],
                                     events |-> NewEvents(order[i], next[order[i]])]]]
        /\ UNCHANGED <<registered, subscribed>>

\* call_soon_threadsafe: the loop takes the deliveries, or is closed and raises.
Post ==
    /\ emitting.step = "post"
    /\ IF loopOpen
       THEN /\ callbacks' = Append(callbacks, emitting.items)
            /\ emitting' = Idle
       ELSE /\ emitting' = [emitting EXCEPT !.step = "restore"]
            /\ UNCHANGED callbacks
    /\ UNCHANGED <<kind, streamVars, accepting, trackerVars, loopOpen, running, queue, pc,
                   consumerVars>>

\* A mutant of Restore that keeps sending later events to the closed loop.
MutantStillSubscribed ==
    /\ emitting.step = "restore"
    /\ emitting' = Idle
    /\ UNCHANGED <<kind, streamVars, accepting, trackerVars, loopVars, pc, consumerVars>>

\* The except branch: the events go back to the buffers, and so do later ones.
Restore ==
    /\ emitting.step = "restore"
    /\ LET back == {i \in DOMAIN emitting.items :
                        emitting.items[i].req \in registered \intersect subscribed}
       IN  /\ subscribed' = subscribed \ {emitting.items[i].req : i \in back}
           /\ buffer' = [r \in Requests |->
                FoldLeft(LAMBDA b, i : IF i \in back /\ emitting.items[i].req = r
                                       THEN Bounded(b \o emitting.items[i].events) ELSE b,
                         buffer[r], [i \in DOMAIN emitting.items |-> i])]
    /\ emitting' = Idle
    /\ UNCHANGED <<kind, streamVars, accepting, registered, finished, loopVars, pc,
                   consumerVars>>

-----------------------------------------------------------------------------
(* The engine and the event loop. *)

Open == {r \in accepted : ~Closed(stream[r])}
Tokens(s) == Cardinality({i \in DOMAIN s : s[i] = "token"})

\* A tick's events: tokens and terminal events of some open requests.
Emits(S) ==
    /\ EngineLockFree
    /\ \E new \in [S -> {<<"token">>, <<"end">>, <<"token", "end">>}] :
        LET next == [r \in S |-> stream[r] \o new[r]]
        IN  /\ \A r \in S : Tokens(next[r]) <= MaxTokens[r]
            /\ Collect("engine", S, next)
    /\ UNCHANGED <<kind, accepted, accepting, loopVars, pc, consumerVars>>
Emit == \E S \in SUBSET Open \ {{}} : Emits(S)

\* EngineCore.stop: no request is accepted any more (open ones get their end).
StopEngine ==
    /\ accepting /\ EngineLockFree
    /\ accepting' = FALSE
    /\ UNCHANGED <<kind, streamVars, emitting, trackerVars, loopVars, pc, consumerVars>>

\* _deliver_async_events on the loop's thread.
Deliver ==
    /\ loopOpen /\ running = "none" /\ callbacks # <<>>
    /\ queue' = [r \in Requests |->
            FoldLeft(LAMBDA q, item : IF item.req = r THEN Append(q, item.events) ELSE q,
                     queue[r], Head(callbacks))]
    /\ callbacks' = Tail(callbacks)
    /\ UNCHANGED <<kind, streamVars, accepting, emitting, trackerVars, loopOpen, running, pc,
                   consumerVars>>

\* The loop is closed under its tasks, which never run again.
CloseLoop ==
    /\ loopOpen /\ running = "none"
    /\ loopOpen' = FALSE
    /\ UNCHANGED <<kind, streamVars, accepting, emitting, trackerVars, running, callbacks,
                   queue, pc, consumerVars>>

-----------------------------------------------------------------------------
(* Submission. *)

Goto(c, label) == pc' = [pc EXCEPT ![c] = label]
\* A task occupies the loop's thread until it parks; threads are always theirs.
CanRun(c) == OnLoop(c) => loopOpen /\ running = "none"
Occupy(c) == running' = IF OnLoop(c) THEN c ELSE running
Park(c) == running' = IF OnLoop(c) THEN "none" ELSE running

\* ProtocolHandler.handle / generate: a streamed response first sends its opening.
Begin(c) ==
    /\ pc[c] = "idle" /\ CanRun(c)
    /\ IF kind[c] = "stream"
       THEN /\ wire' = [wire EXCEPT ![c] = <<"start">>]
            /\ Goto(c, "opened") /\ UNCHANGED running
       ELSE /\ Goto(c, "register") /\ Occupy(c) /\ UNCHANGED wire
    /\ UNCHANGED <<kind, streamVars, accepting, emitting, trackerVars, loopOpen, callbacks,
                   queue, at, batch, complete, progressed, ending, folded, unsent>>

\* The client took what was yielded: the task or the generator goes on.
Resume(c) ==
    /\ pc[c] \in {"opened", "yielded"} /\ CanRun(c)
    /\ Occupy(c)
    /\ Goto(c, IF pc[c] = "opened" THEN "register" ELSE "fold")
    /\ UNCHANGED <<kind, streamVars, accepting, emitting, trackerVars, loopOpen, callbacks,
                   queue, consumerVars>>

\* _submit_processed, first half: every request is registered before it is admitted.
Register(c) ==
    /\ pc[c] = "register" /\ Runs(c)
    /\ registered' = registered \union Range(Reqs[c])
    /\ Goto(c, "admit")
    /\ UNCHANGED <<kind, streamVars, accepting, emitting, finished, subscribed, buffer,
                   loopVars, consumerVars>>

Submitted(c) == CASE OnLoop(c) -> "subscribe"
                  [] kind[c] = "blocking" -> "wait"
                  [] kind[c] = "generator" -> "poll"

\* Second half: EngineCore.add_requests takes the batch as a whole, ending at once
\* those with nothing to generate, or raises and the registrations are released.
Admit(c) ==
    /\ pc[c] = "admit" /\ Runs(c) /\ EngineLockFree
    /\ IF accepting
       THEN /\ accepted' = accepted \union Range(Reqs[c])
            /\ LET empty == {r \in Range(Reqs[c]) : MaxTokens[r] = 0}
               IN  Collect(c, empty, [r \in empty |-> <<"end">>])
            /\ Goto(c, Submitted(c))
       ELSE /\ Goto(c, "release")
            /\ UNCHANGED <<streamVars, emitting, trackerVars>>
    /\ UNCHANGED <<kind, accepting, loopVars, consumerVars>>

-----------------------------------------------------------------------------
(* generate_events: one request, on the event loop. *)

\* A mutant of Subscribe that leaves what arrived before it in the buffer.
MutantIgnorePending(c) ==
    /\ pc[c] = "subscribe" /\ Runs(c)
    /\ subscribed' = subscribed \union {Current(c)}
    /\ Goto(c, "fold")
    /\ UNCHANGED <<kind, streamVars, accepting, emitting, registered, finished, buffer,
                   loopVars, at, batch, complete, progressed, ending, folded,
                   unsent, wire>>

\* subscribe_async: later events go to the queue; the earlier ones are taken along.
Subscribe(c) ==
    /\ pc[c] = "subscribe" /\ Runs(c)
    /\ batch' = [batch EXCEPT ![c] = buffer[Current(c)]]
    /\ buffer' = [buffer EXCEPT ![Current(c)] = <<>>]
    /\ subscribed' = subscribed \union {Current(c)}
    /\ Goto(c, "fold")
    /\ UNCHANGED <<kind, streamVars, accepting, emitting, registered, finished, loopVars, at,
                   complete, progressed, ending, folded, unsent, wire>>

\* await queue.get(): at once when there is a batch, else the task parks for one.
Get(c) ==
    /\ OnLoop(c)
    /\ \/ pc[c] = "fold" /\ running = c /\ batch[c] = <<>>
       \/ pc[c] = "parked" /\ CanRun(c) /\ queue[Current(c)] # <<>>
    /\ IF queue[Current(c)] = <<>>
       THEN /\ Goto(c, "parked") /\ Park(c)
            /\ UNCHANGED <<batch, queue>>
       ELSE /\ batch' = [batch EXCEPT ![c] = Head(queue[Current(c)])]
            /\ queue' = [queue EXCEPT ![Current(c)] = Tail(@)]
            /\ Goto(c, "fold") /\ Occupy(c)
    /\ UNCHANGED <<kind, streamVars, accepting, emitting, trackerVars, loopOpen, callbacks, at,
                   complete, progressed, ending, folded, unsent, wire>>

\* OutputProcessor.push of the next event: a token decodes to text that is yielded
\* (streamed) or kept (JSON), to nothing yet, or completes a stop sequence; the
\* terminal event ends the fold, and the rest of the batch is dropped.
Fold(c) ==
    /\ pc[c] = "fold" /\ Runs(c) /\ batch[c] # <<>>
    /\ LET r == Current(c)
           token == stream[r][Head(batch[c])] = "token"
       IN  /\ folded' = [folded EXCEPT ![r] = @ + 1]
           /\ \E text \in IF token THEN {"some", "none"} \union
                                        (IF OnLoop(c) THEN {"stop"} ELSE {})
                          ELSE {"end"} :
                LET yields == text = "some" /\ kind[c] # "json"
                    ends == text \in {"stop", "end"}
                IN  /\ batch' = [batch EXCEPT ![c] = IF ends THEN <<>> ELSE Tail(@)]
                    /\ ending' = [ending EXCEPT ![c] =
                                    IF ends /\ OnLoop(c) THEN text ELSE @]
                    /\ complete' = [complete EXCEPT ![c] = IF ends THEN @ \union {r} ELSE @]
                    /\ unsent' = [unsent EXCEPT ![c] =
                                    IF yields THEN 0 ELSE IF token THEN @ + 1 ELSE @]
                    /\ wire' = [wire EXCEPT ![c] =
                                    IF yields /\ kind[c] = "stream"
                                    THEN Append(@, "delta") ELSE @]
                    /\ Goto(c, IF ends /\ OnLoop(c) THEN "release"
                               ELSE IF yields THEN "yielded" ELSE "fold")
                    /\ IF yields THEN Park(c) ELSE UNCHANGED running
    /\ UNCHANGED <<kind, streamVars, accepting, emitting, trackerVars, loopOpen, callbacks,
                   queue, at, progressed>>

\* The client of a streamed response goes away, or a generator is closed: the
\* task is cancelled where it waits and its finally clauses release the request.
Disconnect(c) ==
    /\ CanRun(c)
    /\ \/ kind[c] = "stream" /\ pc[c] \in {"opened", "yielded", "parked"}
       \/ kind[c] = "generator" /\ pc[c] = "yielded"
    /\ IF pc[c] = "opened"
       THEN Goto(c, "done") /\ UNCHANGED <<running, at>>
       ELSE /\ Goto(c, "release") /\ Occupy(c)
            /\ at' = [at EXCEPT ![c] = 1]
    /\ batch' = [batch EXCEPT ![c] = <<>>]
    /\ UNCHANGED <<kind, streamVars, accepting, emitting, trackerVars, loopOpen, callbacks,
                   queue, complete, progressed, ending, folded, unsent, wire>>

-----------------------------------------------------------------------------
(* Calls on a thread of their own. *)

\* RequestTracker.wait for each request in turn.
WaitDone(c) ==
    /\ pc[c] = "wait"
    /\ Current(c) \in finished \/ Current(c) \notin registered
    /\ IF at[c] < Len(Reqs[c])
       THEN at' = [at EXCEPT ![c] = @ + 1] /\ UNCHANGED pc
       ELSE at' = [at EXCEPT ![c] = 1] /\ Goto(c, "drain")
    /\ UNCHANGED <<kind, streamVars, accepting, emitting, trackerVars, loopVars, batch,
                   complete, progressed, ending, folded, unsent, wire>>

\* The 300 seconds of the whole batch are over.
Timeout(c) ==
    /\ pc[c] = "wait"
    /\ at' = [at EXCEPT ![c] = 1]
    /\ Goto(c, "release")
    /\ UNCHANGED <<kind, streamVars, accepting, emitting, trackerVars, loopVars, batch,
                   complete, progressed, ending, folded, unsent, wire>>

\* _collect_blocking_events: everything of a request is drained and decoded.
Drain(c) ==
    /\ pc[c] = "drain"
    /\ LET r == Current(c)
       IN  /\ folded' = [folded EXCEPT ![r] = @ + Len(buffer[r])]
           /\ buffer' = [buffer EXCEPT ![r] = <<>>]
           /\ complete' = [complete EXCEPT ![c] = @ \union {r}]
    /\ IF at[c] < Len(Reqs[c])
       THEN at' = [at EXCEPT ![c] = @ + 1] /\ UNCHANGED pc
       ELSE at' = [at EXCEPT ![c] = 1] /\ Goto(c, "release")
    /\ UNCHANGED <<kind, streamVars, accepting, emitting, registered, finished, subscribed,
                   loopVars, batch, progressed, ending, unsent, wire>>

Unfinished(c) == Range(Reqs[c]) \ complete[c]

\* The generator's sweep: drain the next unfinished request, or, after the last,
\* start over if something came, wait if nothing did, or end.
Poll(c) ==
    /\ kind[c] = "generator"
    /\ \/ pc[c] = "poll"
       \/ pc[c] = "fold" /\ batch[c] = <<>>
    /\ LET next == IF pc[c] = "poll" THEN at[c] ELSE at[c] + 1
           left == {i \in next..Len(Reqs[c]) : Reqs[c][i] \in Unfinished(c)}
       IN  IF left # {}
           THEN LET i == CHOOSE k \in left : \A j \in left : k <= j
                IN  /\ at' = [at EXCEPT ![c] = i]
                    /\ batch' = [batch EXCEPT ![c] = buffer[Reqs[c][i]]]
                    /\ buffer' = [buffer EXCEPT ![Reqs[c][i]] = <<>>]
                    /\ progressed' = [progressed EXCEPT ![c] =
                                        @ \/ buffer[Reqs[c][i]] # <<>>]
                    /\ Goto(c, "fold")
           ELSE /\ at' = [at EXCEPT ![c] = 1]
                /\ progressed' = [progressed EXCEPT ![c] = FALSE]
                /\ Goto(c, IF Unfinished(c) = {} THEN "release"
                           ELSE IF progressed[c] THEN "poll" ELSE "blocked")
                /\ UNCHANGED <<batch, buffer>>
    /\ UNCHANGED <<kind, streamVars, accepting, emitting, registered, finished, subscribed,
                   loopVars, complete, ending, folded, unsent, wire>>

\* wait_for_events: any unfinished request has events, or is gone.
WaitForEvents(c) ==
    /\ pc[c] = "blocked"
    /\ \E r \in Unfinished(c) : r \notin registered \/ buffer[r] # <<>>
    /\ Goto(c, "poll")
    /\ UNCHANGED <<kind, streamVars, accepting, emitting, trackerVars, loopVars, consumerVars>>

-----------------------------------------------------------------------------
(* _release_requests: cancel what the engine has not ended, forget the rest. *)

CheckFinished(c) ==
    /\ pc[c] = "release" /\ Runs(c)
    /\ Goto(c, IF Current(c) \in finished THEN "unregister" ELSE "cancel")
    /\ UNCHANGED <<kind, streamVars, accepting, emitting, trackerVars, loopVars, consumerVars>>

\* EngineCore.cancel_request: an open request is ended, and its terminal event
\* goes through the sink on this thread.
Cancel(c) ==
    /\ pc[c] = "cancel" /\ Runs(c) /\ EngineLockFree
    /\ LET S == {Current(c)} \intersect Open
       IN  Collect(c, S, [r \in S |-> Append(stream[r], "end")])
    /\ Goto(c, "unregister")
    /\ UNCHANGED <<kind, accepted, accepting, loopVars, consumerVars>>

\* A response whose fold ended has its last chunk left to send.
Unregister(c) ==
    /\ pc[c] = "unregister" /\ Runs(c) /\ emitting.by # c
    /\ registered' = registered \ {Current(c)}
    /\ subscribed' = subscribed \ {Current(c)}
    /\ buffer' = [buffer EXCEPT ![Current(c)] = <<>>]
    /\ IF at[c] < Len(Reqs[c])
       THEN /\ at' = [at EXCEPT ![c] = @ + 1]
            /\ Goto(c, "release") /\ UNCHANGED running
       ELSE /\ UNCHANGED at
            /\ IF kind[c] = "stream" /\ ending[c] # "no"
               THEN Goto(c, "terminal") /\ UNCHANGED running
               ELSE Goto(c, "done") /\ Park(c)
    /\ UNCHANGED <<kind, streamVars, accepting, emitting, finished, loopOpen, callbacks, queue,
                   batch, complete, progressed, ending, folded, unsent, wire>>

\* The terminal chunk and format_stream_end close the response.
Terminal(c) ==
    /\ pc[c] = "terminal" /\ Runs(c)
    /\ wire' = [wire EXCEPT ![c] =
            @ \o (IF unsent[c] > 0 THEN <<"delta", "end">> ELSE <<"end">>)]
    /\ unsent' = [unsent EXCEPT ![c] = 0]
    /\ Goto(c, "done") /\ Park(c)
    /\ UNCHANGED <<kind, streamVars, accepting, emitting, trackerVars, loopOpen, callbacks,
                   queue, at, batch, complete, progressed, ending, folded>>

-----------------------------------------------------------------------------

Act(c) == \/ Begin(c) \/ Resume(c) \/ Register(c) \/ Admit(c) \/ Subscribe(c)
          \/ Get(c) \/ Fold(c) \/ WaitDone(c) \/ Drain(c) \/ Poll(c)
          \/ WaitForEvents(c) \/ CheckFinished(c) \/ Cancel(c) \/ Unregister(c)
          \/ Terminal(c)

Next ==
    \/ Post \/ Restore \/ Emit \/ StopEngine \/ Deliver \/ CloseLoop
    \/ \E c \in Consumers : Act(c) \/ Disconnect(c) \/ Timeout(c)

\* Threads and the loop run, clients read or go away; the engine ends what it
\* accepted (RequestStream's EveryStreamCloses, which EngineCore implements).  A request has
\* finitely many events, so being fair to those it has alone is being fair to all of them.
EmitFor(r) == r \in Open /\ Emits({r})
Fairness ==
    /\ WF_vars(Post) /\ WF_vars(Restore) /\ WF_vars(Deliver)
    /\ \A r \in Requests : WF_vars(EmitFor(r))
    /\ \A c \in Consumers : WF_vars(Act(c))

Spec == Init /\ [][Next]_vars /\ Fairness

-----------------------------------------------------------------------------
(* Properties. *)

Releasing == {"release", "cancel", "unregister", "terminal", "done"}
Upto(n) == [i \in 1..n |-> i]
OfRequest(r, items) ==
    FlattenSeq([i \in DOMAIN items |-> IF items[i].req = r THEN items[i].events ELSE <<>>])

\* Wherever the handover between threads stands, the events a consumer has folded,
\* those it holds, and those queued, scheduled, being posted or buffered for it
\* are its request's stream, in order: none is lost, none comes twice
\* (tracking.py:70-119).
NothingLost ==
    \A c \in Consumers : \A r \in Range(Reqs[c]) \ complete[c] :
        r \in registered /\ pc[c] \notin Releasing =>
            Upto(folded[r]) \o (IF r = Current(c) THEN batch[c] ELSE <<>>)
                \o FlattenSeq(queue[r])
                \o OfRequest(r, FlattenSeq(callbacks))
                \o OfRequest(r, emitting.items) \o buffer[r]
            = Upto(Len(stream[r]))

\* A request nobody listens to any more is one the engine has ended: whatever made
\* its consumer leave (a text stop, a disconnect, a timeout), it was cancelled
\* first, unless the engine was done with it (engine.py:125-139).
NoOrphans == \A r \in accepted \ registered : Closed(stream[r])

\* What a call returns covers its whole stream, up to the text stop if one matched,
\* though a blocking call reads its events from a bounded buffer at the very end;
\* and a response says that it ended only after its request was released and with
\* every token it folded sent.
ResponsesAreWhole ==
    \A c \in Consumers :
        /\ ending[c] # "stop" => \A r \in complete[c] :
            Closed(stream[r]) /\ folded[r] = Len(stream[r])
        /\ "end" \in Range(wire[c]) =>
            Closed(stream[Current(c)]) /\ Current(c) \notin registered /\ unsent[c] = 0
=============================================================================
