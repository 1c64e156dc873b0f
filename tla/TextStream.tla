------------------------------- MODULE TextStream -------------------------------
(***************************************************************************)
(* From token events to what a client reads: the incremental matching of     *)
(* stop sequences (inference/frontend/output_processor.py), the chunks of    *)
(* the event generator (frontend/engine.py), the tool-call parser            *)
(* (network/tool_parser.py) and the stream and the whole response of the     *)
(* protocols (network/protocol.py, openai.py, anthropic.py).                 *)
(*                                                                         *)
(* Text is a sequence of lexemes, and a token decodes to any number of them. *)
(* Lexemes of JSON: both braces, a member, the two halves of a "name" key,   *)
(* its value and the "arguments" key.  Braces inside strings, white space    *)
(* and the quoting of argument strings are left out; a closed object is      *)
(* valid JSON.                                                               *)
(***************************************************************************)
EXTENDS Integers, Sequences, SequencesExt, FiniteSetsExt

CONSTANTS Texts,   \* generations: records text, reason (length or stop), stops, tools
          MaxChunk \* bound: lexemes one token decodes to

Open == "{"   Close == "}"
Name == <<"na", "me:", "f">>      \* "name": "f", in its two halves and the value
Arguments == "args:"

VARIABLES
    gen,      \* the generation of this behaviour
    fed,      \* lexemes decoded so far
    buffer, matched,           \* StopSequenceChecker
    body, shown, calls, has,   \* OpenAIResponseBuilder._body and SimpleJsonToolParser
    content, pc  \* what the client has been sent as content; decoding, ending, done

vars == <<gen, fed, buffer, matched, body, shown, calls, has, content, pc>>

Init ==
    /\ gen \in Texts
    /\ fed = 0 /\ buffer = <<>> /\ matched = <<>>
    /\ body = <<>> /\ shown = 0 /\ calls = <<>> /\ has = FALSE
    /\ content = <<>> /\ pc = "decoding"

\* A part of s, by first and last position; the least of a set of positions, or none.
Part(s, i, j) == SubSeq(s, i, j)
From(s, i) == SubSeq(s, i, Len(s))
First(positions) == IF positions = {} THEN 0 ELSE Min(positions)
Occurrences(s, sub) ==
    {i \in 1..(Len(s) - Len(sub) + 1) : Part(s, i, i + Len(sub) - 1) = sub}

-----------------------------------------------------------------------------
(* StopSequenceChecker. *)

Longest(stops) == Max({0} \cup {Len(s) : s \in Range(stops)})

\* Where the earliest stop sequence in s begins (0: none), and the first listed that does.
StopAt(s, stops) == First(UNION {Occurrences(s, seq) : seq \in Range(stops)})
Matched(s, stops) ==
    LET i == StopAt(s, stops)
    IN stops[CHOOSE k \in DOMAIN stops : /\ i \in Occurrences(s, stops[k])
                                         /\ \A j \in 1..(k - 1) : i \notin Occurrences(s, stops[j])]

\* A mutant of Kept that keeps one lexeme too few.
MutantKeepLess(stops) == Max({0, Longest(stops) - 2})
\* The tail that may still become part of a stop sequence.
Kept(stops) == Max({0, Longest(stops) - 1})

\* push: what is released and what stays, once text is appended.
Pushed(text) ==
    LET all  == buffer \o text
        cut  == StopAt(all, gen.stops)
        keep == Max({0, Len(all) - Kept(gen.stops)})
    IN IF gen.stops = <<>> THEN [out |-> text, rest |-> <<>>, seq |-> <<>>]
       ELSE IF cut > 0
       THEN [out |-> Part(all, 1, cut - 1), rest |-> <<>>, seq |-> Matched(all, gen.stops)]
       ELSE [out |-> Part(all, 1, keep), rest |-> From(all, keep + 1), seq |-> <<>>]

-----------------------------------------------------------------------------
(* The scanners of tool_parser.py. *)

\* _scan_json: the position that closes the object opened at i, or 0.
Depth(s, i, j) ==
    FoldLeft(LAMBDA n, x : IF x = Open THEN n + 1 ELSE IF x = Close THEN n - 1 ELSE n,
             0, Part(s, i, j))
Closing(s, i) == First({j \in i..Len(s) : Depth(s, i, j) = 0})

Brace(s, i) == First({j \in i..Len(s) : s[j] = Open})

\* _raw_arguments_span: the inside of the arguments of a closed object.
Span(object) ==
    LET at == First(Occurrences(object, <<Arguments, Open>>))
    IN IF at = 0 THEN <<>> ELSE Part(object, at + 2, Closing(object, at + 1) - 1)

\* _parse_tool_call_json of a closed object: it has a name of its own.
IsCall(object) == \E i \in Occurrences(object, Name) : Depth(object, 1, i) = 1

\* _find_tool_calls: the closed objects that are calls, from position i on.
FindCalls(s) ==
    LET find[i \in 1..(Len(s) + 1)] ==
            LET open == Brace(s, i)
                end  == IF open = 0 THEN 0 ELSE Closing(s, open)
                object == Part(s, open, end)
            IN IF end = 0 THEN <<>>
               ELSE (IF IsCall(object) THEN <<[at |-> open, end |-> end, args |-> Span(object)]>>
                     ELSE <<>>) \o find[end + 1]
    IN find[1]

\* _find_partial_tool_call: an object that names a function anywhere, and its arguments as
\* far as they go, less a brace that may be the closing one.
FindPartial(s, i) ==
    LET open == Brace(s, i)
        tail == From(s, open)
        at   == First({k \in 1..Len(tail) : tail[k] = Arguments})
        raw  == IF at = 0 THEN <<>> ELSE From(tail, at + 1)
        inner == IF raw # <<>> /\ Head(raw) = Open THEN Tail(raw) ELSE raw
        args  == IF inner # raw /\ inner # <<>> /\ Last(inner) = Close THEN Front(inner) ELSE inner
    IN IF open = 0 \/ Occurrences(tail, Name) = {} THEN <<>>
       ELSE <<[at |-> open, end |-> Len(s), args |-> args]>>

\* _safe_content_end: text up to an open brace that may begin a call.
SafeEnd(s) ==
    LET end[i \in 1..(Len(s) + 1)] ==
            LET open == Brace(s, i)
                shut == IF open = 0 THEN 0 ELSE Closing(s, open)
                tail == From(s, open + 1)
            IN IF open = 0 THEN Len(s)
               ELSE IF shut > 0 THEN end[shut + 1]
               ELSE IF tail \in {<<>>, <<"na">>, <<"na", "me:">>} \/ Open \in Range(tail)
               THEN open - 1
               ELSE Len(s)
    IN end[1]

-----------------------------------------------------------------------------
(* The stream. *)

\* The closed calls, and the one that is open behind them.
WithPartial(text, done) ==
    done \o FindPartial(text, IF done = <<>> THEN 1 ELSE Last(done).end + 1)

\* feed: what of the content and of the arguments of the calls found is new.
Emit(text, found, to) ==
    LET sent(i) == IF i \in DOMAIN calls THEN calls[i] ELSE <<>>
        more(i) == IF Len(found[i].args) > Len(sent(i))
                   THEN From(found[i].args, Len(sent(i)) + 1) ELSE <<>>
    IN /\ content' = content \o Part(text, shown + 1, to)
       /\ shown' = Max({shown, to})
       /\ calls' = [i \in 1..Max({Len(calls), Len(found)}) |->
                       IF i \in DOMAIN found THEN sent(i) \o more(i) ELSE calls[i]]
       /\ has' = (has \/ found # <<>>)
ContentEnd(text, found) == IF found = <<>> THEN SafeEnd(text) ELSE found[1].at - 1
Feed(text) ==
    LET found == WithPartial(text, FindCalls(text))
    IN Emit(text, found, ContentEnd(text, found))

\* format_chunk of a chunk of text; without tools the text is passed on.
Chunk(text) ==
    /\ body' = body \o text
    /\ IF gen.tools THEN Feed(body')
       ELSE content' = content \o text /\ UNCHANGED <<shown, calls, has>>

\* One token: its text is decoded, pushed, and what is released is sent.
Token ==
    /\ pc = "decoding" /\ matched = <<>> /\ fed < Len(gen.text)
    /\ \E n \in 0..MaxChunk :
          /\ fed + n <= Len(gen.text)
          /\ fed' = fed + n
          /\ LET p == Pushed(Part(gen.text, fed + 1, fed + n))
             IN Chunk(p.out) /\ buffer' = p.rest /\ matched' = p.seq
    /\ UNCHANGED <<gen, pc>>

\* The terminal event releases the tail: nothing can follow it.
Held == buffer

Finished ==
    /\ pc = "decoding" /\ matched = <<>> /\ fed = Len(gen.text)
    /\ Chunk(Held) /\ buffer' = <<>>
    /\ pc' = "ending"
    /\ UNCHANGED <<gen, fed, matched>>

\* A stop sequence matched: the chunk that carries it is the last.
Stopped ==
    /\ pc = "decoding" /\ matched # <<>>
    /\ pc' = "ending"
    /\ UNCHANGED <<gen, fed, buffer, matched, body, shown, calls, has, content>>

\* format_stream_end: finalize, unless a call was seen.
End ==
    /\ pc = "ending"
    /\ IF gen.tools /\ ~has
       THEN content' = content \o From(body, shown + 1) /\ shown' = Max({shown, Len(body)})
       ELSE UNCHANGED <<content, shown>>
    /\ pc' = "done"
    /\ UNCHANGED <<gen, fed, buffer, matched, body, calls, has>>

Over == pc = "done" /\ UNCHANGED vars

Next == Token \/ Finished \/ Stopped \/ End \/ Over

Spec == Init /\ [][Next]_vars

-----------------------------------------------------------------------------

\* The finish reasons of the stream and of the whole response.
Reason == IF gen.reason = "length" /\ matched = <<>> THEN "length" ELSE "stop"
StreamReason == IF gen.tools /\ has THEN "tool_calls" ELSE Reason

\* format_response: what the same generation answers when it is not streamed.
Response ==
    LET found == IF gen.tools THEN FindCalls(body) ELSE <<>>
    IN IF found = <<>> THEN [content |-> body, calls |-> <<>>, reason |-> Reason]
       ELSE [content |-> Part(body, 1, found[1].at - 1), reason |-> "tool_calls",
             calls |-> [i \in DOMAIN found |-> found[i].args]]

\* The text released is what was decoded up to the stop sequence that ended it, or all
\* of it: the window that is kept back loses no match and no text (output_processor.py:27-30).
ReleasedIsExact ==
    pc = "done" =>
        LET all == Part(gen.text, 1, fed)
            cut == StopAt(all, gen.stops)
        IN body = IF cut = 0 THEN all ELSE Part(all, 1, cut - 1)

\* "streamed content matches the non-streaming response" (tool_parser.py:371-373), and so
\* do the calls, their arguments and the reason, however the text was cut into tokens.
StreamMatchesResponse ==
    pc = "done" => [content |-> content, calls |-> calls, reason |-> StreamReason] = Response
=============================================================================
