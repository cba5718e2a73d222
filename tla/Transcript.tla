------------------------------ MODULE Transcript -----------------------------
(***************************************************************************)
(* The list of messages that shows a run while it streams: the fields      *)
(* messages, streaming_message and pending_stream, which the main          *)
(* conversation (App) and the view of another agent (AgentSessionView)     *)
(* both keep, the handlers they share, and the events a run of the kernel  *)
(* may record.                                                             *)
(*                                                                         *)
(* The text of a delta is its place in the log.                            *)
(***************************************************************************)
EXTENDS Naturals, Sequences, SequencesExt

CONSTANTS
    Call,        \* ids of tool calls
    MaxRecords   \* bound: the records of the runs that are looked at

VARIABLES
    log,         \* what the run recorded, in order
    phase        \* where its loop is

recordVars == <<log, phase>>

NoCall == "no call"
Kinds == {"request", "retry", "delta", "response", "finish"}
CallKinds == {"start", "skip", "output", "done"}
Records == [kind : Kinds, call : {NoCall}] \cup [kind : CallKinds, call : Call]

------------------------------------------------------------------------------
(* The kernel: a request, its deltas and repetitions, then the answer; its   *)
(* calls start, write and end side by side; then the next request or the end.*)
Recorded(k, c) == \E i \in DOMAIN log : log[i].kind = k /\ log[i].call = c
Runs(c) == Recorded("start", c) /\ ~Recorded("done", c)
Quiet == \A c \in Call : ~Runs(c)

After(e) ==
    CASE e.kind \in {"request", "retry", "delta"} -> "asking"
      [] e.kind = "response" -> "answered"
      [] e.kind \in CallKinds -> "tools"
      [] OTHER -> "over"

MayRecord(e) ==
    /\ Len(log) < MaxRecords
    /\ CASE e.kind = "request" -> phase = "idle" \/ (phase = "tools" /\ Quiet)
         [] e.kind \in {"retry", "delta", "response"} -> phase = "asking"
         [] e.kind = "finish" -> phase \in {"asking", "answered"} \/ (phase = "tools" /\ Quiet)
         [] e.kind \in {"start", "skip"} ->
               phase \in {"answered", "tools"} /\ ~Recorded("start", e.call) /\ ~Recorded("skip", e.call)
         [] OTHER -> Runs(e.call)

Emit(e) == MayRecord(e) /\ log' = Append(log, e) /\ phase' = After(e)

------------------------------------------------------------------------------
(* A list of messages.  Notes are all that is neither text nor a tool.       *)
Empty == [items |-> <<>>, streaming |-> 0, pending |-> <<>>]
Text(parts) == [kind |-> "text", call |-> NoCall, parts |-> parts, state |-> "text"]
Card(c, state) == [kind |-> "tool", call |-> c, parts |-> <<>>, state |-> state]
Note == [kind |-> "note", call |-> NoCall, parts |-> <<>>, state |-> "note"]

Put(t, item) == [t EXCEPT !.items = Append(@, item)]

(* append_assistant, append_model_delta *)
AppendText(t, chunk) ==
    IF chunk = <<>> THEN t
    ELSE IF t.streaming = 0
    THEN [Put(t, Text(chunk)) EXCEPT !.streaming = Len(t.items) + 1]
    ELSE [t EXCEPT !.items[t.streaming].parts = @ \o chunk]

(* reveal_pending_stream_at: as much of the buffer as the clock allows. *)
Reveal(t, n) == AppendText([t EXCEPT !.pending = SubSeq(@, n + 1, Len(@))], SubSeq(t.pending, 1, n))
Flush_Lazy(t) == t                                                          \* mutant
Flush(t) == Reveal(t, Len(t.pending))

(* start_model_response *)
Boundary(t) == [Flush(t) EXCEPT !.streaming = 0]

(* retry_model_response: what the failed attempt said goes. *)
Retry_Keeps(t) == Put([t EXCEPT !.pending = <<>>, !.streaming = 0], Note)   \* mutant
Retry(t) ==
    Put([items |-> IF t.streaming # 0 /\ t.items[t.streaming].kind = "text"
                   THEN RemoveAt(t.items, t.streaming) ELSE t.items,
         streaming |-> 0, pending |-> <<>>], Note)

Cards(t, c, states) == {i \in DOMAIN t.items : t.items[i].kind = "tool"
                            /\ t.items[i].call = c /\ t.items[i].state \in states}
LastOf(S) == CHOOSE i \in S : \A j \in S : j <= i

Write(t, c, at) ==
    LET S == Cards(t, c, {"running", "skipped", "done"})
    IN IF S = {} THEN t ELSE [t EXCEPT !.items[LastOf(S)].parts = Append(@, at)]

FinishTool(t, c) ==
    LET S == Cards(t, c, {"running"})
    IN IF S = {} THEN Put(t, Card(c, "done")) ELSE [t EXCEPT !.items[LastOf(S)].state = "done"]

------------------------------------------------------------------------------
(* What a reader who had seen all of a log at once would write down.         *)
Ends == {"request", "retry", "start", "skip", "finish"}
Withdrawn(l, i) ==
    \E j \in i..Len(l) : l[j].kind = "retry" /\ \A k \in i..(j - 1) : l[k].kind \notin Ends
ExpectedOrder(l) ==
    SelectSeq([i \in DOMAIN l |->
                  IF l[i].kind = "delta" /\ ~Withdrawn(l, i) THEN <<"text", i>>
                  ELSE IF l[i].kind \in {"start", "skip"} THEN <<"tool", l[i].call>> ELSE <<>>],
              LAMBDA x : x # <<>>)
ExpectedCard(l, c) ==
    [parts |-> SelectSeq([i \in DOMAIN l |-> i], LAMBDA i : l[i].kind = "output" /\ l[i].call = c),
     state |-> IF \E i \in DOMAIN l : l[i].kind = "done" /\ l[i].call = c THEN "done"
               ELSE IF \E i \in DOMAIN l : l[i].kind = "skip" /\ l[i].call = c THEN "skipped"
               ELSE "running"]

ShownOf(item) ==
    CASE item.kind = "text" -> [i \in DOMAIN item.parts |-> <<"text", item.parts[i]>>]
      [] item.kind = "tool" -> <<<<"tool", item.call>>>>
      [] OTHER -> <<>>
ShownOrder(t) == FlattenSeq([i \in DOMAIN t.items |-> ShownOf(t.items[i])])

Shows(t, l) ==
    /\ ShownOrder(t) = ExpectedOrder(l)
    /\ \A i \in DOMAIN t.items : t.items[i].kind = "tool" =>
          [parts |-> t.items[i].parts, state |-> t.items[i].state] = ExpectedCard(l, t.items[i].call)
==============================================================================
