--------------------------- MODULE ProviderRequests ---------------------------
(***************************************************************************)
(* The way from a session to what a provider is sent: the transformation   *)
(* of the messages for a logical route (kernel/src/model/transform.rs), the *)
(* gateway, whose names can be bound to another endpoint while a request   *)
(* is built or retried (gateway.rs), and the four protocols that write the  *)
(* messages down (provider/openai, anthropic, google, bedrock).            *)
(*                                                                         *)
(* A block carries `of`, what it stands for: the number of its message for *)
(* a text, the id the model gave for a call and for its result.  A         *)
(* transformation may change its `id`, never its `of`.                     *)
(***************************************************************************)
EXTENDS Naturals, Sequences, FiniteSets, SequencesExt, FiniteSetsExt, Functions

CONSTANTS
    Provider, Model,    \* logical names of services, and the models of each
    Endpoint,           \* [kind, scope]: a protocol and the fingerprint of a URL
    Short, Long,        \* ids of tool calls, within 64 bytes and beyond
    Cut,                \* a long id -> its prefixes within 64 bytes, by their suffix
    MaxMessages, MaxRebinds,
    Plain, Legacy,      \* a thought without a signature, and with one of an older version
    Nothing

VARIABLES
    session,            \* the messages of the session
    bound,              \* provider -> the endpoint its name is bound to
    selected,           \* [provider, model]: the route of the next request
    request,            \* [to, messages] while the kernel waits for its answer
    wire,               \* what an endpoint was sent: [to, kind, items]
    rebinds             \* how often a name was bound anew

vars == <<session, bound, selected, request, wire, rebinds>>

Routes == [provider : Provider, model : Model]

\* The mark of a thought is Plain, Legacy, or an envelope with the whole route it came
\* from: [provider, model, scope].
Text(n)     == [kind |-> "text", of |-> n, id |-> Nothing]
File(n)     == [kind |-> "file", of |-> n, id |-> Nothing]
Thinking(m) == [kind |-> "thinking", of |-> Nothing, id |-> m]
Call(i)     == [kind |-> "call", of |-> i, id |-> i]
Result(i)   == [kind |-> "result", of |-> i, id |-> i]

Message(role, blocks) == [role |-> role, blocks |-> blocks]
Blocks(messages) == FlattenSeq([n \in 1..Len(messages) |-> messages[n].blocks])
Having(messages, kind) == SelectSeq(Blocks(messages), LAMBDA b : b.kind = kind)

-------------------------------------------------------------------------------
(* transform.rs                                                            *)

\* The first prefix of a long id that no other id has taken.
Allocated(i, used) == Cut[i][Min({k \in 1..Len(Cut[i]) : Cut[i][k] \notin used})]

\* Short ids stay; the long ones get theirs in the order they appear.
IdMap_InOrder(messages) ==
    LET blocks == SelectSeq(Blocks(messages), LAMBDA b : b.kind \in {"call", "result"})
        Assign(map, b) ==
            IF b.id \in DOMAIN map THEN map
            ELSE [j \in DOMAIN map \cup {b.id} |->
                     IF j # b.id THEN map[j]
                     ELSE IF j \in Short THEN j ELSE Allocated(j, Range(map))]
    IN  FoldLeft(Assign, <<>>, blocks)

IdMap(messages) ==
    LET blocks == SelectSeq(Blocks(messages), LAMBDA b : b.kind \in {"call", "result"})
        ids    == [n \in 1..Len(blocks) |-> blocks[n].id]
        Assign(map, i) ==
            IF i \in DOMAIN map THEN map
            ELSE [j \in DOMAIN map \cup {i} |->
                     IF j = i THEN Allocated(i, Range(map)) ELSE map[j]]
    IN  FoldLeft(Assign, [i \in Range(ids) \cap Short |-> i], ids)

Answered(messages) == {b.id : b \in Range(Having(messages, "result"))}

OfRoute(mark, route) ==
    mark \notin {Plain, Legacy} /\ mark.provider = route.provider /\ mark.model = route.model

\* The clean-up of an assistant message: thoughts of elsewhere go, ids are the mapped
\* ones, a message left empty goes, and a call without a result gets one that says so.
Assistant(message, route, map, answered) ==
    LET Keep(b)   == b.kind = "thinking" => b.id = Plain \/ OfRoute(b.id, route)
        Mapped(b) == IF b.kind = "call" THEN [b EXCEPT !.id = map[@]] ELSE b
        kept      == SelectSeq(message.blocks, Keep)
        blocks    == [n \in 1..Len(kept) |-> Mapped(kept[n])]
        orphans   == SelectSeq(message.blocks, LAMBDA b : b.kind = "call" /\ b.id \notin answered)
        results   == [n \in 1..Len(orphans) |-> [Result(orphans[n].of) EXCEPT !.id = map[@]]]
    IN  (IF blocks = <<>> THEN <<>> ELSE <<Message("assistant", blocks)>>)
        \o (IF results = <<>> THEN <<>> ELSE <<Message("tool", results)>>)

ToolMessage(message, map) ==
    <<Message("tool", [n \in 1..Len(message.blocks) |-> [message.blocks[n] EXCEPT !.id = map[@]]])>>

Transform(messages, route) ==
    LET map == IdMap(messages)
        answered == Answered(messages)
    IN  FlattenSeq([n \in 1..Len(messages) |->
            CASE messages[n].role = "assistant" -> Assistant(messages[n], route, map, answered)
              [] messages[n].role = "tool"      -> ToolMessage(messages[n], map)
              [] OTHER                          -> <<messages[n]>>])

\* The fast path: messages that need no clean-up are sent as they are.
Unchanged_Ids(messages) ==
    /\ \A m \in Range(messages) : m.role # "assistant" \/ m.blocks # <<>>
    /\ \A b \in Range(Having(messages, "call")) : b.id \in Short \cap Answered(messages)

Unchanged(messages) ==
    /\ \A m \in Range(messages) : m.role # "assistant" \/ m.blocks # <<>>
    /\ \A b \in Range(Blocks(messages)) :
          /\ b.kind # "thinking"
          /\ b.kind \in {"call", "result"} => b.id \in Short
          /\ b.kind = "call" => b.id \in Answered(messages)

ForRoute(messages, route) ==
    IF Unchanged(messages) THEN messages ELSE Transform(messages, route)

-------------------------------------------------------------------------------
(* The protocols                                                           *)

\* What the user wrote: texts, and files in the form the protocol has for them.
Parts(m) == SelectSeq(m.blocks, LAMBDA b : b.kind \in {"text", "file"})

\* OpenAI Responses: the text of an assistant message, then its calls, no thoughts.
Responses(m) ==
    IF m.role = "user" THEN Parts(m)
    ELSE SelectSeq(m.blocks, LAMBDA b : b.kind = "text") \o
         SelectSeq(m.blocks, LAMBDA b : b.kind \in {"call", "result"})

\* OpenAI Chat Completions writes the same down, one message for every result.
Chat(m) == Responses(m)

\* Anthropic: a thought goes back only to the whole route in its envelope, and only in
\* what the assistant said.
AnthropicBlocks_Logical(m, to) ==
    SelectSeq(m.blocks, LAMBDA b : b.kind = "thinking" => OfRoute(b.id, to))
AnthropicBlocks(m, to) ==
    SelectSeq(m.blocks, LAMBDA b : b.kind = "thinking" => m.role = "assistant" /\ b.id = to)
Anthropic(m, to) ==
    SelectSeq(AnthropicBlocks(m, to), LAMBDA b : m.role = "tool" => b.kind = "result")

\* Google: a thought goes back as text that is marked as one, without its signature.
GoogleParts(m) ==
    LET Unsigned(b) == IF b.kind = "thinking" THEN [b EXCEPT !.id = Plain] ELSE b
    IN  [n \in 1..Len(m.blocks) |-> Unsigned(m.blocks[n])]
Google(m) == IF m.role = "user" THEN Parts(m) ELSE GoogleParts(m)

\* Bedrock: no thoughts.
BedrockContent_Results(m) ==
    SelectSeq(m.blocks, LAMBDA b : b.kind = (IF m.role = "tool" THEN "result" ELSE "call"))
BedrockContent(m) == SelectSeq(m.blocks, LAMBDA b : b.kind # "thinking")
Bedrock(m) == IF m.role = "user" THEN Parts(m) ELSE BedrockContent(m)

Written(m, to, kind) ==
    CASE kind = "responses" -> Responses(m)
      [] kind = "chat"      -> Chat(m)
      [] kind = "anthropic" -> Anthropic(m, to)
      [] kind = "google"    -> Google(m)
      [] kind = "bedrock"   -> Bedrock(m)

-------------------------------------------------------------------------------
Init ==
    /\ session \in {<<>>, <<Message("user", <<Text(1)>>),
                            Message("assistant", <<Thinking(Legacy), Text(2)>>)>>}
    /\ bound \in [Provider -> Endpoint]
    /\ selected \in Routes
    /\ request = Nothing /\ wire = Nothing /\ rebinds = 0

Number == Len(session) + 1
Called == {b.of : b \in Range(Having(session, "call"))}

\* The user writes; a run starts.
Say ==
    /\ request = Nothing /\ Number < MaxMessages
    /\ session # <<>> => Last(session).role = "assistant"
    /\ \E files \in {<<>>, <<File(Number)>>} :
          session' = Append(session, Message("user", <<Text(Number)>> \o files))
    /\ UNCHANGED <<bound, selected, request, wire, rebinds>>

\* The user, or a plugin, selects another route; a request under way keeps its own.
Select(route) ==
    /\ selected' = route /\ route # selected
    /\ UNCHANGED <<session, bound, request, wire, rebinds>>

\* ModelGateway::upsert: a name is bound to another endpoint while requests go on.
Rebind(p, e) ==
    /\ rebinds < MaxRebinds /\ e # bound[p]
    /\ bound' = [bound EXCEPT ![p] = e] /\ rebinds' = rebinds + 1
    /\ UNCHANGED <<session, selected, request, wire>>

\* A round of the loop.  The context loader, which a plugin may provide, may leave out
\* the results of tools.
Build ==
    /\ request = Nothing /\ session # <<>> /\ Last(session).role # "assistant"
    /\ \E without \in {session, SelectSeq(session, LAMBDA m : m.role # "tool")} :
          request' = [to |-> selected, loaded |-> without,
                      messages |-> ForRoute(without, selected)]
    /\ UNCHANGED <<session, bound, selected, wire, rebinds>>

\* ModelGateway::stream: the adapter is the one the name is bound to now; the adapter
\* knows its own endpoint.
Send ==
    /\ request # Nothing /\ wire = Nothing
    /\ LET e  == bound[request.to.provider]
           to == [provider |-> request.to.provider, model |-> request.to.model,
                  scope |-> e.scope]
       IN  wire' = [to |-> to, kind |-> e.kind, loaded |-> request.loaded,
                    items |-> FlattenSeq([n \in 1..Len(request.messages) |->
                                             Written(request.messages[n], to, e.kind)])]
    /\ UNCHANGED <<session, bound, selected, request, rebinds>>

\* A transient failure: the same request is sent again.
Fail ==
    /\ wire # Nothing /\ wire' = Nothing
    /\ UNCHANGED <<session, bound, selected, request, rebinds>>

\* An answer has a text or calls, and a thought in the envelope of its route only from
\* Anthropic; the tools it calls give their results.
Answer ==
    /\ wire # Nothing /\ Number < MaxMessages
    /\ \E thought \in {<<>>, <<IF wire.kind = "anthropic" THEN wire.to ELSE Plain>>},
          text \in {<<>>, <<Text(Number)>>}, new \in SeqOf((Short \cup Long) \ Called, 2) :
          LET thoughts == [n \in 1..Len(thought) |-> Thinking(thought[n])]
              calls    == [n \in 1..Len(new) |-> Call(new[n])]
              results  == [n \in 1..Len(new) |-> Result(new[n])]
          IN  /\ IsInjective(new) /\ text \o calls # <<>>
              /\ session' = session \o <<Message("assistant", thoughts \o text \o calls)>> \o
                               (IF results = <<>> THEN <<>> ELSE <<Message("tool", results)>>)
    /\ request' = Nothing /\ wire' = Nothing
    /\ UNCHANGED <<bound, selected, rebinds>>

Next ==
    \/ Say \/ Build \/ Send \/ Fail \/ Answer
    \/ \E r \in Routes : Select(r)
    \/ \E p \in Provider, e \in Endpoint : Rebind(p, e)

Spec == Init /\ [][Next]_vars

-------------------------------------------------------------------------------
Sent(kind) == {b \in Range(wire.items) : b.kind = kind}

\* transform.rs, anthropic/mod.rs: what an endpoint signed goes back to that endpoint,
\* under the same name and model, and nowhere else, even if the name of the provider is
\* bound anew after the messages were prepared.
SignedStaysHome == wire # Nothing =>
    \A b \in Sent("thinking") : b.id \in {Plain, wire.to}

\* Every call that is sent has one result after it, under an id that is its own within
\* the limit of the protocols, although long ids are cut and share prefixes.
CallsPaired == wire # Nothing =>
    /\ \A b, c \in Sent("call") \cup Sent("result") : (b.id = c.id) <=> (b.of = c.of)
    /\ \A n \in 1..Len(wire.items) : wire.items[n].kind = "call" =>
          /\ Cardinality({k \in 1..Len(wire.items) :
                 wire.items[k].kind = "result" /\ wire.items[k].id = wire.items[n].id}) = 1
          /\ \E k \in n+1..Len(wire.items) :
                 wire.items[k].kind = "result" /\ wire.items[k].id = wire.items[n].id

\* Whatever the protocol, every text, file and call the context has is sent.
AllIsSent == wire # Nothing => \A kind \in {"text", "file", "call"} :
    {b.of : b \in Sent(kind)} = {b.of : b \in Range(Having(wire.loaded, kind))}

\* transform_owned_messages_for_route: the fast path gives what the clean-up would.
FastPathSame == request # Nothing =>
    request.messages = Transform(request.loaded, request.to)
===============================================================================
