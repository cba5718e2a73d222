--------------------------- MODULE ProviderStreams ---------------------------
(***************************************************************************)
(* One answer of a provider, read from its event stream: the OpenAI        *)
(* Responses and Chat Completions protocols (provider/openai/stream.rs,    *)
(* mod.rs) and Google's (provider/google/mod.rs).                          *)
(*                                                                         *)
(* The server has an answer, a sequence of texts and calls of tools in     *)
(* pieces, and tells it in events; compatible gateways leave some kinds of *)
(* events out, so that the same text or the same arguments arrive once,    *)
(* twice or only at the end.  The stream may break off at any event.  The  *)
(* client puts the answer together and tells its listeners meanwhile.      *)
(***************************************************************************)
EXTENDS Naturals, Sequences, FiniteSets, SequencesExt

CONSTANTS
    Answers,    \* what a server may say: sequences of "text" and "call"
    Pieces,     \* the pieces a text, or the arguments of a call, is sent in
    Nothing

VARIABLES
    protocol,   \* "responses", "chat" or "google"
    style,      \* the kinds of events this server sends
    outputs,    \* its answer
    sent,       \* output -> how many of its events were sent
    cut,        \* the server stopped at its own limit
    client,     \* [text, items, ended, final, shown, ends]: see Init
    result      \* Nothing, or [as, text, calls]: an "answer", or the kind of error

vars == <<protocol, style, outputs, sent, cut, client, result>>

Outputs == 1..Len(outputs)
Whole(k) == [n \in 1..Pieces |-> <<k, n>>]
Kinds == {"added", "delta", "text.done", "part.done", "args.done", "item.done"}

\* A gateway tells every text and, for a call it announces, all the arguments.
Styles == {s \in SUBSET Kinds :
    /\ s \cap {"delta", "text.done", "part.done", "item.done"} # {}
    /\ "item.done" \in s \/ ("added" \in s /\ s \cap {"delta", "args.done"} # {})}

-------------------------------------------------------------------------------
(* The server                                                              *)

Deltas(k) == [n \in 1..Pieces |-> [type |-> "delta", k |-> k, n |-> n]]
Mark(k, type) == [type |-> type, k |-> k, n |-> 0]
Marks(k, types) ==
    LET told == SelectSeq(types, LAMBDA t : t \in style)
    IN  [i \in 1..Len(told) |-> Mark(k, told[i])]

\* The events of one output, in their order.
Script(k) ==
    CASE protocol = "responses" ->
            Marks(k, IF outputs[k] = "call" THEN <<"added">> ELSE <<>>)
            \o (IF "delta" \in style THEN Deltas(k) ELSE <<>>)
            \o Marks(k, IF outputs[k] = "text" THEN <<"text.done", "part.done", "item.done">>
                        ELSE <<"args.done", "item.done">>)
      [] protocol = "chat" ->
            (IF outputs[k] = "call" THEN <<Mark(k, "added")>> ELSE <<>>) \o Deltas(k)
      [] protocol = "google" ->
            IF outputs[k] = "call" THEN <<Mark(k, "item.done")>> ELSE Deltas(k)

Finished(k) == sent[k] = Len(Script(k))
AllSent == \A k \in Outputs : Finished(k)

\* Outputs follow each other; calls made in parallel may be told at the same time.
Due(k) == /\ ~Finished(k)
          /\ \A j \in 1..k-1 : Finished(j) \/ (sent[j] > 0 /\ outputs[j] = "call" /\ outputs[k] = "call")

\* What the server itself puts into its last event about output k.
Generated(k) ==
    LET told == SelectSeq(SubSeq(Script(k), 1, sent[k]), LAMBDA e : e.type = "delta")
    IN  IF cut /\ ~Finished(k) THEN [n \in 1..Len(told) |-> <<k, told[n].n>>] ELSE Whole(k)

-------------------------------------------------------------------------------
(* The client                                                              *)

\* append_responses_text: the text and its listeners get the same.
Appended(c, s) == [c EXCEPT !.text = @ \o s, !.shown = @ \o s]

\* append_completed_responses_text: a full text adds what is missing at the end, if it
\* goes on from what is there.
Completed_Always(c, s) == Appended(c, s)
Completed(c, s) ==
    IF IsPrefix(c.text, s) THEN Appended(c, SubSeq(s, Len(c.text) + 1, Len(s))) ELSE c

\* finish_responses_function_item: a call ends once.
Ended_Again(c, k) ==
    IF c.items[k] = Nothing THEN c ELSE [c EXCEPT !.ends = Append(@, <<k, c.items[k]>>)]
Ended(c, k) ==
    IF k \in c.ended \/ c.items[k] = Nothing THEN c
    ELSE [c EXCEPT !.ended = @ \cup {k}, !.ends = Append(@, <<k, c.items[k]>>)]

Arguments(c, k, s) == IF c.items[k] = Nothing THEN c ELSE [c EXCEPT !.items[k] = s]

\* handle_responses_sse_data
Responses(c, e) ==
    CASE outputs[e.k] = "text" ->
            IF e.type = "delta" THEN Appended(c, <<<<e.k, e.n>>>>) ELSE Completed(c, Whole(e.k))
      [] e.type = "added"     -> [c EXCEPT !.items[e.k] = <<>>]
      [] e.type = "delta" /\ outputs[e.k] = "call" ->
            IF c.items[e.k] = Nothing THEN c
            ELSE Arguments(c, e.k, Append(c.items[e.k], <<e.k, e.n>>))
      [] e.type = "args.done" -> Ended(Arguments(c, e.k, Whole(e.k)), e.k)
      [] e.type = "item.done" /\ outputs[e.k] = "call" ->
            Ended([c EXCEPT !.items[e.k] = Whole(e.k)], e.k)

\* handle_chat_completions_sse_data
Chat(c, e) ==
    CASE outputs[e.k] = "text" -> Appended(c, <<<<e.k, e.n>>>>)
      [] e.type = "added"      -> [c EXCEPT !.items[e.k] = <<>>]
      [] OTHER                 -> [c EXCEPT !.items[e.k] = Append(@, <<e.k, e.n>>)]

\* parse_stream_parts: a call comes whole.
Google(c, e) ==
    IF outputs[e.k] = "text" THEN Appended(c, <<<<e.k, e.n>>>>)
    ELSE Ended([c EXCEPT !.items[e.k] = Whole(e.k)], e.k)

Handled(c, e) ==
    CASE protocol = "responses" -> Responses(c, e)
      [] protocol = "chat"      -> Chat(c, e)
      [] protocol = "google"    -> Google(c, e)

Answer(text, items) ==
    [as |-> "answer", text |-> text,
     calls |-> {<<k, items[k]>> : k \in {j \in Outputs : items[j] # Nothing}}]
Failure(how) == [as |-> how, text |-> <<>>, calls |-> {}]

\* finalize_responses_stream_state, parse_responses_response: the last event has the
\* whole answer or, from some gateways, none of it.  A text heard meanwhile fills in for
\* none; the calls heard replace those of the same id and are added to the others.
Assembled(c) ==
    LET told(kind) == {k \in Outputs : c.final = "full" /\ outputs[k] = kind
                                       /\ (cut => sent[k] > 0)}
        texts == FlattenSeq([k \in Outputs |-> IF k \in told("text") THEN Generated(k) ELSE <<>>])
        calls == [k \in Outputs |->
                     CASE c.items[k] # Nothing -> c.items[k]
                       [] c.items[k] = Nothing /\ k \in told("call") -> Generated(k)
                       [] OTHER -> Nothing]
    IN  Answer(IF texts = <<>> THEN c.text ELSE texts, calls)

\* The other two protocols have what they heard.
Heard(c) == Answer(c.text, c.items)

\* consume_chat_completions_stream: at the end, its listeners hear of the calls.
AllEnded(c) ==
    FoldLeft(LAMBDA d, k : Ended(d, k), c, [k \in Outputs |-> k])

-------------------------------------------------------------------------------
Init ==
    /\ protocol \in {"responses", "chat", "google"}
    /\ style \in IF protocol = "responses" THEN Styles ELSE {Kinds}
    /\ outputs \in Answers
       \* Only deltas tell a second text from the first.
    /\ Cardinality({k \in Outputs : outputs[k] = "text"}) > 1 => "delta" \in style
    /\ sent = [k \in Outputs |-> 0]
    /\ cut = FALSE
    /\ client = [text |-> <<>>, items |-> [k \in Outputs |-> Nothing],
                 ended |-> {},          \* the calls whose end was told
                 final |-> Nothing,     \* the last event: "full", "slim" or "reason"
                 shown |-> <<>>, ends |-> <<>>]     \* what listeners heard
    /\ result = Nothing

Open == result = Nothing /\ client.final = Nothing

\* The next event about output k arrives; for_each_sse_data puts it together from the
\* pieces the network delivers.
Event(k) ==
    /\ Open /\ Due(k)
    /\ client' = Handled(client, Script(k)[sent[k] + 1])
    /\ sent' = [sent EXCEPT ![k] = @ + 1]
    /\ UNCHANGED <<protocol, style, outputs, cut, result>>

\* response.completed, response.incomplete; a finish reason.  The server may stop at its
\* limit before it has said all.
Final(how) ==
    /\ Open /\ cut' \in BOOLEAN /\ (AllSent \/ cut')
    /\ how \in IF protocol = "responses" THEN {"full", "slim"} ELSE {"reason"}
    /\ client' = [client EXCEPT !.final = how]
    /\ UNCHANGED <<protocol, style, outputs, sent, result>>

\* The stream ends: an answer if its last event came, else an error that is retried.
NoFinal_Ignored(c) == FALSE
NoFinal(c) == c.final = Nothing
End ==
    /\ result = Nothing
    /\ IF NoFinal(client) THEN result' = Failure("transient") /\ UNCHANGED client
       ELSE IF protocol = "responses" THEN result' = Assembled(client) /\ UNCHANGED client
       ELSE LET c == IF protocol = "chat" THEN AllEnded(client) ELSE client
            IN  client' = c /\ result' = Heard(c)
    /\ UNCHANGED <<protocol, style, outputs, sent, cut>>

\* An error event, a broken connection, the end of the stream inside a line.
Broken(how) ==
    /\ Open /\ result' = Failure(how)
    /\ UNCHANGED <<protocol, style, outputs, sent, cut, client>>

Next ==
    \/ \E k \in Outputs : Event(k)
    \/ \E how \in {"full", "slim", "reason"} : Final(how)
    \/ End
    \/ \E how \in {"transient", "permanent"} : Broken(how)

Spec == Init /\ [][Next]_vars

-------------------------------------------------------------------------------
Answered == result # Nothing /\ result.as = "answer"
Texts == FlattenSeq([k \in Outputs |-> IF outputs[k] = "text" THEN Whole(k) ELSE <<>>])

\* Whatever events a server leaves out or says twice, the answer is the one it gave: no
\* text is missing or doubled, every call has all its arguments, and a stream that broke off
\* is no answer, so that half a call is not carried out.
AnswerIsWhole == (Answered /\ ~cut) =>
    /\ result.text = Texts
    /\ result.calls = {<<k, Whole(k)>> : k \in {j \in Outputs : outputs[j] = "call"}}

\* Listeners hear the text in order and once, and of each call that it ended once, with
\* the arguments it has in the answer.
ListenersAgree ==
    /\ IsPrefix(client.shown, Texts)
    /\ \A i, j \in 1..Len(client.ends) : client.ends[i][1] = client.ends[j][1] => i = j
    /\ Answered => ToSet(client.ends) \subseteq result.calls
    /\ Answered /\ client.shown # <<>> => client.shown = result.text
===============================================================================
