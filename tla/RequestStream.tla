---------------------------- MODULE RequestStream ----------------------------
(***************************************************************************)
(* What the engine promises about the events of a request                  *)
(* (astrai/inference/core/events.py): after it is accepted its consumer    *)
(* sees token events, then exactly one terminal event, then nothing; and   *)
(* the terminal event comes.                                               *)
(***************************************************************************)
EXTENDS Sequences, Naturals

CONSTANT Requests

VARIABLES accepted, \* requests the engine accepted
          stream    \* events emitted for each request

streamVars == <<accepted, stream>>

Closed(s) == s # <<>> /\ s[Len(s)] = "end"

StreamInit ==
    /\ accepted = {}
    /\ stream = [r \in Requests |-> <<>>]

\* What one engine step may add to an open stream.
Continuations(s) ==
    {s, Append(s, "token"), Append(s, "end"), s \o <<"token", "end">>}

\* One step accepts requests and emits events for any of the open ones.
StreamNext ==
    /\ accepted \subseteq accepted'
    /\ accepted' \subseteq Requests
    /\ DOMAIN stream' = Requests
    /\ \A r \in Requests :
        IF r \in accepted' /\ ~Closed(stream[r])
        THEN stream'[r] \in Continuations(stream[r])
        ELSE stream'[r] = stream[r]

StreamSafety == StreamInit /\ [][StreamNext]_streamVars

\* Every accepted request gets its terminal event.
EveryStreamCloses == \A r \in Requests : r \in accepted ~> Closed(stream[r])

StreamSpec == StreamSafety /\ EveryStreamCloses
=============================================================================
